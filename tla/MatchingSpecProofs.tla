------------------------- MODULE MatchingSpecProofs -------------------------
(***************************************************************************)
(* Facts about the operators of MatchingSpec, for any book: what adding,   *)
(* cancelling, amending and matching do to the orders that rest, and what  *)
(* an incoming order trades.  The first part is about sums over finite     *)
(* sets, in which a match is counted.                                      *)
(***************************************************************************)
EXTENDS MatchingSpec, FiniteSetTheorems, WellFoundedInduction, TLAPS

----------------------------------------------------------------------------
(* Induction, for sets                                                     *)

\* A set of numbers that holds 0 and the successor of each of its numbers holds all.
LEMMA NaturalInduction ==
  ASSUME NEW K, 0 \in K, \A n \in Nat : n \in K => n + 1 \in K
  PROVE  Nat \subseteq K
<1> SUFFICES ASSUME Nat \ K # {} PROVE FALSE
  OBVIOUS
<1>1. PICK n \in Nat \ K : \A m \in Nat \ K : <<m, n>> \notin OpToRel(<, Nat)
  BY NatLessThanWellFounded, WFMin, Nat \ K \subseteq Nat, Zenon
<1>2. \A m \in Nat : m < n => m \in K
  BY <1>1 DEF OpToRel
<1>3. n \in Nat /\ n \notin K
  OBVIOUS
<1>4. n - 1 \in Nat /\ n - 1 < n /\ (n - 1) + 1 = n
  BY <1>3
<1>5. n - 1 \in K
  BY <1>2, <1>4
<1>. QED  BY <1>3, <1>4, <1>5

\* A finite set without one of its elements has one element less.
LEMMA OneLess ==
  ASSUME NEW T, IsFiniteSet(T), NEW x \in T, NEW n \in Nat, Cardinality(T) = n + 1
  PROVE  Cardinality(T \ {x}) = n
<1>1. Cardinality(T \ {x}) = Cardinality(T) - 1
  BY FS_RemoveElement
<1>. QED  BY <1>1

\* A family of subsets of S that holds the empty set and grows by any element holds S.
LEMMA FiniteInduction ==
  ASSUME NEW S, IsFiniteSet(S), NEW K, {} \in K,
         \A T \in SUBSET S : \A x \in S \ T : T \in K => T \cup {x} \in K
  PROVE  S \in K
<1> DEFINE Sized == {n \in Nat : \A T \in SUBSET S : Cardinality(T) = n => T \in K}
<1>1. 0 \in Sized
  <2>1. \A T \in SUBSET S : Cardinality(T) = 0 => T = {}
    BY FS_Subset, FS_EmptySet
  <2>. QED  BY <2>1
<1>2. ASSUME NEW n \in Nat, n \in Sized
      PROVE  n + 1 \in Sized
  <2> SUFFICES ASSUME NEW T \in SUBSET S, Cardinality(T) = n + 1
               PROVE  T \in K
    OBVIOUS
  <2>1. IsFiniteSet(T)
    BY FS_Subset
  <2>2. PICK x \in T : TRUE
    BY <2>1, FS_EmptySet
  <2>3. Cardinality(T \ {x}) = n
    BY <2>1, <2>2, OneLess
  <2>4. T \ {x} \in K
    BY <1>2, <2>3
  <2>5. (T \ {x}) \cup {x} = T /\ x \in S \ (T \ {x}) /\ T \ {x} \in SUBSET S
    BY <2>2
  <2>. QED  BY <2>4, <2>5
<1> HIDE DEF Sized
<1>3. Nat \subseteq Sized
  BY <1>1, <1>2, NaturalInduction
<1>4. Cardinality(S) \in Sized
  BY <1>3, FS_CardinalityType
<1>. QED  BY <1>4 DEF Sized

----------------------------------------------------------------------------
(* Sums over finite sets                                                   *)

\* The element that the library takes out of a set first.
Pick(s) == CHOOSE x \in s : TRUE

\* What the library's sum of f over S is the value at S of.
Iterates(f, S, g) ==
  g = [s \in SUBSET S |-> IF s = {} THEN 0 ELSE f[Pick(s)] + g[s \ {Pick(s)}]]

\* The library's sum, as the value of a function on the subsets of S.
LEMMA SumDefined ==
  ASSUME NEW f, NEW S
  PROVE  SumFunctionOnSet(f, S) = (CHOOSE g : Iterates(f, S, g))[S]
  BY Zenon DEF SumFunctionOnSet, FoldFunctionOnSet, MapThenFoldSet, Iterates, Pick

\* What is picked from a set is one of its elements.
LEMMA PickIn ==
  ASSUME NEW s, s # {}
  PROVE  Pick(s) \in s
  BY DEF Pick

\* The function the sum is the value of exists.
LEMMA IterationExists ==
  ASSUME NEW f, NEW S, IsFiniteSet(S)
  PROVE  \E g : Iterates(f, S, g)
<1> DEFINE Upto(n) == {s \in SUBSET S : Cardinality(s) <= n}
           Chain(n, g) == g = [s \in Upto(n) |-> IF s = {} THEN 0
                                                 ELSE f[Pick(s)] + g[s \ {Pick(s)}]]
           Built == {n \in Nat : \E g : Chain(n, g)}
<1>1. \A s \in SUBSET S : IsFiniteSet(s) /\ Cardinality(s) \in Nat
  BY FS_Subset, FS_CardinalityType
<1>2. 0 \in Built
  <2>1. \A s \in Upto(0) : s = {}
    BY <1>1, FS_EmptySet
  <2> DEFINE g == [s \in Upto(0) |-> 0]
  <2>2. Chain(0, g)
    BY <2>1
  <2>. QED  BY <2>2
<1>3. ASSUME NEW n \in Nat, n \in Built
      PROVE  n + 1 \in Built
  <2>1. PICK g : Chain(n, g)
    BY <1>3
  <2> DEFINE h == [s \in Upto(n + 1) |-> IF s = {} THEN 0 ELSE f[Pick(s)] + g[s \ {Pick(s)}]]
  <2>2. ASSUME NEW s \in Upto(n + 1), s # {}
        PROVE  s \ {Pick(s)} \in Upto(n)
    <3>1. Pick(s) \in s /\ IsFiniteSet(s) /\ Cardinality(s) \in Nat /\ Cardinality(s) <= n + 1
      BY <1>1, <2>2, PickIn
    <3>2. Cardinality(s \ {Pick(s)}) = Cardinality(s) - 1
      BY <3>1, FS_RemoveElement
    <3>. QED  BY <3>1, <3>2
  <2>3. ASSUME NEW s \in Upto(n)
        PROVE  h[s] = g[s]
    <3>1. s \in Upto(n + 1)
      BY <1>1
    <3>. QED  BY <2>1, <3>1
  <2>4. Chain(n + 1, h)
    <3>1. \A s \in Upto(n + 1) : s # {} => h[s \ {Pick(s)}] = g[s \ {Pick(s)}]
      BY <2>2, <2>3
    <3>2. \A s \in Upto(n + 1) : h[s] = IF s = {} THEN 0 ELSE f[Pick(s)] + h[s \ {Pick(s)}]
      <4> HIDE DEF Upto
      <4>. QED  BY <3>1
    <3>3. h = [s \in Upto(n + 1) |-> h[s]]
      OBVIOUS
    <3>4. [s \in Upto(n + 1) |-> h[s]]
            = [s \in Upto(n + 1) |-> IF s = {} THEN 0 ELSE f[Pick(s)] + h[s \ {Pick(s)}]]
      <4> HIDE DEF Upto, h
      <4>. QED  BY <3>2, Zenon
    <3> HIDE DEF Upto, h
    <3>. QED  BY <3>3, <3>4, Zenon
  <2>5. n + 1 \in Nat /\ \E i : Chain(n + 1, i)
    <3> HIDE DEF Chain, h
    <3>. QED  BY <2>4
  <2> HIDE DEF Chain
  <2>. QED  BY <2>5
<1> HIDE DEF Built
<1>4. Nat \subseteq Built
  BY <1>2, <1>3, NaturalInduction
<1>5. Cardinality(S) \in Nat /\ Cardinality(S) \in Built
  BY <1>1, <1>4
<1>6. PICK g : Chain(Cardinality(S), g)
  BY <1>5 DEF Built
<1>7. Upto(Cardinality(S)) = SUBSET S
  BY FS_Subset
<1> HIDE DEF Upto
<1>. QED  BY <1>6, <1>7 DEF Iterates

\* Two such functions agree on the sets they share.
LEMMA IterationUnique ==
  ASSUME NEW f, NEW S, NEW T, NEW g, NEW h, Iterates(f, S, g), Iterates(f, T, h),
         NEW U, U \in SUBSET S, U \in SUBSET T, IsFiniteSet(U)
  PROVE  g[U] = h[U]
<1> DEFINE Agree == {n \in Nat : \A s \in SUBSET U : Cardinality(s) = n => g[s] = h[s]}
<1>1. \A s \in SUBSET U : IsFiniteSet(s) /\ Cardinality(s) \in Nat
  BY FS_Subset, FS_CardinalityType
<1>2. 0 \in Agree
  <2>1. \A s \in SUBSET U : Cardinality(s) = 0 => s = {}
    BY <1>1, FS_EmptySet
  <2>2. g[{}] = 0 /\ h[{}] = 0
    BY DEF Iterates
  <2>. QED  BY <2>1, <2>2
<1>3. ASSUME NEW n \in Nat, n \in Agree
      PROVE  n + 1 \in Agree
  <2> SUFFICES ASSUME NEW s \in SUBSET U, Cardinality(s) = n + 1
               PROVE  g[s] = h[s]
    OBVIOUS
  <2>1. s # {} /\ Pick(s) \in s
    BY <1>1, FS_EmptySet, PickIn
  <2>2. Cardinality(s \ {Pick(s)}) = n /\ s \ {Pick(s)} \in SUBSET U
    BY <1>1, <2>1, OneLess
  <2>3. g[s \ {Pick(s)}] = h[s \ {Pick(s)}]
    BY <1>3, <2>2
  <2>4. s \in SUBSET S /\ s \in SUBSET T
    OBVIOUS
  <2>5. g[s] = f[Pick(s)] + g[s \ {Pick(s)}]
    BY <2>1, <2>4 DEF Iterates
  <2>6. h[s] = f[Pick(s)] + h[s \ {Pick(s)}]
    BY <2>1, <2>4 DEF Iterates
  <2>. QED  BY <2>3, <2>5, <2>6
<1> HIDE DEF Agree
<1>4. Cardinality(U) \in Agree
  BY <1>1, <1>2, <1>3, NaturalInduction
<1>. QED  BY <1>4 DEF Agree

\* The sum over no elements is 0.
LEMMA SumOfNone == ASSUME NEW f PROVE SumFunctionOnSet(f, {}) = 0
<1>1. IsFiniteSet({})
  BY FS_EmptySet
<1>2. PICK g : Iterates(f, {}, g)
  BY <1>1, IterationExists
<1>3. Iterates(f, {}, CHOOSE h : Iterates(f, {}, h))
  BY <1>2
<1>. QED  BY <1>3, SumDefined DEF Iterates

\* The sum takes the element picked, and then sums the rest.
LEMMA SumPicks ==
  ASSUME NEW f, NEW S, IsFiniteSet(S), S # {}
  PROVE  SumFunctionOnSet(f, S) = f[Pick(S)] + SumFunctionOnSet(f, S \ {Pick(S)})
<1> DEFINE R == S \ {Pick(S)}
           g == CHOOSE h : Iterates(f, S, h)
           r == CHOOSE h : Iterates(f, R, h)
<1>1. IsFiniteSet(R)
  BY FS_RemoveElement
<1>2. Iterates(f, S, g) /\ Iterates(f, R, r)
  BY <1>1, IterationExists
<1>3. SumFunctionOnSet(f, S) = g[S] /\ SumFunctionOnSet(f, R) = r[R]
  BY SumDefined
<1> HIDE DEF g, r
<1>4. g[R] = r[R]
  BY <1>1, <1>2, IterationUnique, R \subseteq S
<1>5. g[S] = f[Pick(S)] + g[R]
  BY <1>2 DEF Iterates
<1>. QED  BY <1>3, <1>4, <1>5

\* A sum of integers is one.
LEMMA SumIsInteger ==
  ASSUME NEW f, NEW S, IsFiniteSet(S), \A x \in S : f[x] \in Int
  PROVE  SumFunctionOnSet(f, S) \in Int
<1> DEFINE Good == {n \in Nat : \A T \in SUBSET S :
                                  Cardinality(T) = n => SumFunctionOnSet(f, T) \in Int}
<1>1. \A T \in SUBSET S : IsFiniteSet(T) /\ Cardinality(T) \in Nat
  BY FS_Subset, FS_CardinalityType
<1>2. 0 \in Good
  <2>1. \A T \in SUBSET S : Cardinality(T) = 0 => T = {}
    BY <1>1, FS_EmptySet
  <2>. QED  BY <2>1, SumOfNone
<1>3. ASSUME NEW n \in Nat, n \in Good
      PROVE  n + 1 \in Good
  <2> SUFFICES ASSUME NEW T \in SUBSET S, Cardinality(T) = n + 1
               PROVE  SumFunctionOnSet(f, T) \in Int
    OBVIOUS
  <2>1. IsFiniteSet(T) /\ T # {} /\ Pick(T) \in T
    BY <1>1, FS_EmptySet, PickIn
  <2>2. Cardinality(T \ {Pick(T)}) = n /\ T \ {Pick(T)} \in SUBSET S
    BY <2>1, OneLess
  <2>3. SumFunctionOnSet(f, T) = f[Pick(T)] + SumFunctionOnSet(f, T \ {Pick(T)})
    BY <2>1, SumPicks
  <2>. QED  BY <1>3, <2>1, <2>2, <2>3
<1> HIDE DEF Good
<1>4. Cardinality(S) \in Good
  BY <1>1, <1>2, <1>3, NaturalInduction
<1>. QED  BY <1>4 DEF Good

\* Any element can be taken out of a sum.
LEMMA SumTakes ==
  ASSUME NEW f, NEW S, IsFiniteSet(S), \A x \in S : f[x] \in Int, NEW a \in S
  PROVE  SumFunctionOnSet(f, S) = f[a] + SumFunctionOnSet(f, S \ {a})
<1> DEFINE Good == {n \in Nat : \A T \in SUBSET S : Cardinality(T) = n =>
                      \A x \in T : SumFunctionOnSet(f, T) = f[x] + SumFunctionOnSet(f, T \ {x})}
<1>1. \A T \in SUBSET S : IsFiniteSet(T) /\ Cardinality(T) \in Nat
                          /\ SumFunctionOnSet(f, T) \in Int
  BY FS_Subset, FS_CardinalityType, SumIsInteger
<1>2. 0 \in Good
  <2>1. \A T \in SUBSET S : Cardinality(T) = 0 => T = {}
    BY <1>1, FS_EmptySet
  <2>. QED  BY <2>1
<1>3. ASSUME NEW n \in Nat, n \in Good
      PROVE  n + 1 \in Good
  <2> SUFFICES ASSUME NEW T \in SUBSET S, Cardinality(T) = n + 1, NEW x \in T
               PROVE  SumFunctionOnSet(f, T) = f[x] + SumFunctionOnSet(f, T \ {x})
    OBVIOUS
  <2> DEFINE y == Pick(T)
  <2>1. IsFiniteSet(T) /\ T # {} /\ y \in T
    BY <1>1, PickIn
  <2>2. SumFunctionOnSet(f, T) = f[y] + SumFunctionOnSet(f, T \ {y})
    BY <2>1, SumPicks
  <2>3. CASE x = y
    BY <2>2, <2>3
  <2>4. CASE x # y
    <3> HIDE DEF y
    <3>1. /\ Cardinality(T \ {y}) = n /\ T \ {y} \in SUBSET S /\ x \in T \ {y}
          /\ Cardinality(T \ {x}) = n /\ T \ {x} \in SUBSET S /\ y \in T \ {x}
      BY <2>1, <2>4, OneLess
    <3>2. SumFunctionOnSet(f, T \ {y}) = f[x] + SumFunctionOnSet(f, (T \ {y}) \ {x})
      BY <1>3, <3>1
    <3>3. SumFunctionOnSet(f, T \ {x}) = f[y] + SumFunctionOnSet(f, (T \ {x}) \ {y})
      BY <1>3, <3>1
    <3>4. (T \ {y}) \ {x} = (T \ {x}) \ {y}
      OBVIOUS
    <3>5. f[x] \in Int /\ f[y] \in Int /\ SumFunctionOnSet(f, (T \ {x}) \ {y}) \in Int
      <4>1. (T \ {x}) \ {y} \in SUBSET S /\ x \in S /\ y \in S
        BY <2>1
      <4>. QED  BY <1>1, <4>1
    <3> DEFINE rest == SumFunctionOnSet(f, (T \ {x}) \ {y})
    <3>6. /\ SumFunctionOnSet(f, T) = f[y] + SumFunctionOnSet(f, T \ {y})
          /\ SumFunctionOnSet(f, T \ {y}) = f[x] + rest
          /\ SumFunctionOnSet(f, T \ {x}) = f[y] + rest
      BY <2>2, <3>2, <3>3, <3>4
    <3>7. f[x] \in Int /\ f[y] \in Int /\ rest \in Int
      BY <3>5
    <3> HIDE DEF rest
    <3>8. f[y] + (f[x] + rest) = f[x] + (f[y] + rest)
      BY <3>7
    <3>. QED  BY <3>6, <3>8
  <2>. QED  BY <2>3, <2>4
<1> HIDE DEF Good
<1>4. Cardinality(S) \in Good
  BY <1>1, <1>2, <1>3, NaturalInduction
<1>. QED  BY <1>4 DEF Good

\* Sums of the same numbers are the same.
LEMMA SumSame ==
  ASSUME NEW S, IsFiniteSet(S), NEW f, NEW g, \A x \in S : f[x] = g[x]
  PROVE  SumFunctionOnSet(f, S) = SumFunctionOnSet(g, S)
<1> DEFINE Good == {n \in Nat : \A T \in SUBSET S :
                      Cardinality(T) = n => SumFunctionOnSet(f, T) = SumFunctionOnSet(g, T)}
<1>1. \A T \in SUBSET S : IsFiniteSet(T) /\ Cardinality(T) \in Nat
  BY FS_Subset, FS_CardinalityType
<1>2. 0 \in Good
  <2>1. \A T \in SUBSET S : Cardinality(T) = 0 => T = {}
    BY <1>1, FS_EmptySet
  <2>. QED  BY <2>1, SumOfNone
<1>3. ASSUME NEW n \in Nat, n \in Good
      PROVE  n + 1 \in Good
  <2> SUFFICES ASSUME NEW T \in SUBSET S, Cardinality(T) = n + 1
               PROVE  SumFunctionOnSet(f, T) = SumFunctionOnSet(g, T)
    OBVIOUS
  <2>1. IsFiniteSet(T) /\ T # {} /\ Pick(T) \in T
    BY <1>1, FS_EmptySet, PickIn
  <2>2. Cardinality(T \ {Pick(T)}) = n /\ T \ {Pick(T)} \in SUBSET S
    BY <2>1, OneLess
  <2>3. SumFunctionOnSet(f, T \ {Pick(T)}) = SumFunctionOnSet(g, T \ {Pick(T)})
    BY <1>3, <2>2
  <2>4. f[Pick(T)] = g[Pick(T)]
    BY <2>1
  <2>. QED  BY <2>1, <2>3, <2>4, SumPicks
<1> HIDE DEF Good
<1>4. Cardinality(S) \in Good
  BY <1>1, <1>2, <1>3, NaturalInduction
<1>. QED  BY <1>4 DEF Good

\* A sum of zeros is 0.
LEMMA SumOfZeros ==
  ASSUME NEW S, IsFiniteSet(S), NEW f, \A x \in S : f[x] = 0
  PROVE  SumFunctionOnSet(f, S) = 0
<1> DEFINE Good == {T \in SUBSET S : SumFunctionOnSet(f, T) = 0}
<1>1. {} \in Good
  BY SumOfNone
<1>2. ASSUME NEW T \in SUBSET S, NEW x \in S \ T, T \in Good
      PROVE  T \cup {x} \in Good
  <2>1. IsFiniteSet(T \cup {x}) /\ (T \cup {x}) \ {x} = T /\ T \cup {x} \in SUBSET S
    BY FS_Subset
  <2>2. SumFunctionOnSet(f, T \cup {x}) = f[x] + SumFunctionOnSet(f, T)
    <3>1. \A y \in T \cup {x} : f[y] \in Int
      OBVIOUS
    <3>. QED  BY <2>1, <3>1, SumTakes
  <2>. QED  BY <1>2, <2>1, <2>2
<1> HIDE DEF Good
<1>3. S \in Good
  BY <1>1, <1>2, FiniteInduction
<1>. QED  BY <1>3 DEF Good

\* A sum of which only one number is not 0 is that number.
LEMMA SumOfOne ==
  ASSUME NEW S, IsFiniteSet(S), NEW f, NEW a \in S, f[a] \in Int, \A x \in S \ {a} : f[x] = 0
  PROVE  SumFunctionOnSet(f, S) = f[a]
<1>1. SumFunctionOnSet(f, S) = f[a] + SumFunctionOnSet(f, S \ {a})
  BY SumTakes
<1>2. IsFiniteSet(S \ {a})
  BY FS_RemoveElement
<1>3. SumFunctionOnSet(f, S \ {a}) = 0
  BY <1>2, SumOfZeros
<1>. QED  BY <1>1, <1>3

----------------------------------------------------------------------------
(* Sums over intervals                                                     *)

\* The last number of an interval is added last.
LEMMA SumExtends ==
  ASSUME NEW a \in Int, NEW b \in Int, a <= b + 1, NEW f, \A n \in a .. b + 1 : f[n] \in Int
  PROVE  SumFunctionOnSet(f, a .. b + 1) = SumFunctionOnSet(f, a .. b) + f[b + 1]
<1>1. b + 1 \in a .. b + 1 /\ (a .. b + 1) \ {b + 1} = a .. b
  OBVIOUS
<1>2. IsFiniteSet(a .. b + 1) /\ IsFiniteSet(a .. b)
  BY FS_Interval, b + 1 \in Int
<1>3. SumFunctionOnSet(f, a .. b + 1) = f[b + 1] + SumFunctionOnSet(f, a .. b)
  BY <1>1, <1>2, SumTakes
<1>4. SumFunctionOnSet(f, a .. b) \in Int /\ f[b + 1] \in Int
  BY <1>1, <1>2, SumIsInteger
<1> DEFINE rest == SumFunctionOnSet(f, a .. b)
           last == f[b + 1]
<1>5. rest \in Int /\ last \in Int
  BY <1>4
<1> HIDE DEF rest, last
<1>6. rest + last = last + rest
  BY <1>5
<1>. QED  BY <1>3, <1>6 DEF rest, last

\* The numbers of two intervals, one behind the other.
LEMMA SumSplits ==
  ASSUME NEW a \in Int, NEW c \in Int, NEW m \in Nat, a <= c + 1,
         NEW f, NEW g,
         \A n \in a .. c + m : f[n] \in Int, \A k \in 1 .. m : g[k] = f[c + k]
  PROVE  SumFunctionOnSet(f, a .. c + m)
           = SumFunctionOnSet(f, a .. c) + SumFunctionOnSet(g, 1 .. m)
<1> DEFINE Good == {n \in Nat : n <= m => SumFunctionOnSet(f, a .. c + n)
                                = SumFunctionOnSet(f, a .. c) + SumFunctionOnSet(g, 1 .. n)}
<1>1. SumFunctionOnSet(f, a .. c) \in Int
  <2>1. IsFiniteSet(a .. c) /\ \A n \in a .. c : f[n] \in Int
    BY FS_Interval
  <2>. QED  BY <2>1, SumIsInteger
<1>2. 0 \in Good
  <2>1. 1 .. 0 = {} /\ c + 0 = c
    OBVIOUS
  <2>2. SumFunctionOnSet(g, 1 .. 0) = 0
    BY <2>1, SumOfNone
  <2> DEFINE first == SumFunctionOnSet(f, a .. c)
  <2>3. first = first + 0
    <3>1. first \in Int
      BY <1>1
    <3> HIDE DEF first
    <3>. QED  BY <3>1
  <2>. QED  BY <2>1, <2>2, <2>3
<1>3. ASSUME NEW n \in Nat, n \in Good
      PROVE  n + 1 \in Good
  <2> SUFFICES ASSUME n + 1 <= m
               PROVE  SumFunctionOnSet(f, a .. c + (n + 1))
                        = SumFunctionOnSet(f, a .. c) + SumFunctionOnSet(g, 1 .. n + 1)
    OBVIOUS
  <2> DEFINE x == SumFunctionOnSet(f, a .. c)
             y == SumFunctionOnSet(g, 1 .. n)
             z == g[n + 1]
  <2>1. n <= m /\ c + n \in Int /\ a <= (c + n) + 1 /\ c + (n + 1) = (c + n) + 1
        /\ n + 1 \in 1 .. m
    OBVIOUS
  <2>2. \A i \in a .. (c + n) + 1 : f[i] \in Int
    OBVIOUS
  <2>3. \A k \in 1 .. n + 1 : g[k] \in Int
    <3> TAKE k \in 1 .. n + 1
    <3>1. g[k] = f[c + k] /\ c + k \in a .. c + m
      OBVIOUS
    <3>. QED  BY <3>1
  <2>4. SumFunctionOnSet(f, a .. (c + n) + 1) = SumFunctionOnSet(f, a .. c + n) + f[(c + n) + 1]
    BY <2>1, <2>2, SumExtends
  <2>5. SumFunctionOnSet(g, 1 .. n + 1) = y + z
    BY <2>3, SumExtends
  <2>6. SumFunctionOnSet(f, a .. c + n) = x + y
    BY <1>3, <2>1
  <2>7. f[(c + n) + 1] = z
    BY <2>1
  <2>8. x \in Int /\ y \in Int /\ z \in Int
    <3>1. \A k \in 1 .. n : g[k] \in Int
      BY <2>3
    <3>2. IsFiniteSet(1 .. n)
      BY FS_Interval
    <3>3. y \in Int
      BY <3>1, <3>2, SumIsInteger
    <3>4. z \in Int
      BY <2>3
    <3>. QED  BY <1>1, <3>3, <3>4
  <2> HIDE DEF x, y, z
  <2>9. (x + y) + z = x + (y + z)
    BY <2>8
  <2>. QED  BY <2>1, <2>4, <2>5, <2>6, <2>7, <2>9 DEF x
<1> HIDE DEF Good
<1>4. m \in Good
  BY <1>2, <1>3, NaturalInduction
<1>. QED  BY <1>4 DEF Good

----------------------------------------------------------------------------
(* Totals *)

\* The total of a sequence of integers is the sum over its domain.
LEMMA TotalIs ==
  ASSUME NEW s \in Seq(Int)
  PROVE  /\ SumFunction(s) = SumFunctionOnSet(s, 1 .. Len(s))
         /\ SumFunction(s) \in Int
         /\ s = << >> => SumFunction(s) = 0
<1>1. DOMAIN s = 1 .. Len(s) /\ Len(s) \in Nat /\ \A n \in 1 .. Len(s) : s[n] \in Int
  OBVIOUS
<1>2. SumFunction(s) = SumFunctionOnSet(s, 1 .. Len(s))
  BY <1>1 DEF SumFunction
<1>3. IsFiniteSet(1 .. Len(s))
  BY <1>1, FS_Interval
<1>4. SumFunctionOnSet(s, 1 .. Len(s)) \in Int
  BY <1>1, <1>3, SumIsInteger
<1>5. ASSUME s = << >> PROVE SumFunction(s) = 0
  <2>1. 1 .. Len(s) = {}
    BY <1>5
  <2>. QED  BY <1>2, <2>1, SumOfNone
<1>. QED  BY <1>2, <1>4, <1>5

\* What a concatenation is at each place.
LEMMA JoinFacts ==
  ASSUME NEW S, NEW s \in Seq(S), NEW t \in Seq(S)
  PROVE  /\ s \o t \in Seq(S) /\ Len(s \o t) = Len(s) + Len(t)
         /\ Len(s) \in Nat /\ Len(t) \in Nat
         /\ \A n \in 1 .. Len(s) : (s \o t)[n] = s[n]
         /\ \A k \in 1 .. Len(t) : (s \o t)[Len(s) + k] = t[k]
<1>1. s \o t \in Seq(S) /\ Len(s \o t) = Len(s) + Len(t) /\ Len(s) \in Nat /\ Len(t) \in Nat
  OBVIOUS
<1>2. \A n \in 1 .. Len(s) : (s \o t)[n] = s[n]
  OBVIOUS
<1>3. \A k \in 1 .. Len(t) : (s \o t)[Len(s) + k] = t[k]
  OBVIOUS
<1>. QED  BY <1>1, <1>2, <1>3

\* The first l of j are the first n of f and then the first m of g.
Joined(j, l, f, n, g, m) ==
  /\ n \in Nat /\ m \in Nat /\ l = n + m
  /\ \A k \in 1 .. l : j[k] \in Int
  /\ \A k \in 1 .. n : j[k] = f[k]
  /\ \A k \in 1 .. m : j[n + k] = g[k]

\* The sum over the concatenation of two sequences.
LEMMA SumOfJoined ==
  ASSUME NEW j, NEW l, NEW f, NEW n, NEW g, NEW m, Joined(j, l, f, n, g, m)
  PROVE  SumFunctionOnSet(j, 1 .. l)
           = SumFunctionOnSet(f, 1 .. n) + SumFunctionOnSet(g, 1 .. m)
<1> USE DEF Joined
<1>1. SumFunctionOnSet(j, 1 .. l)
        = SumFunctionOnSet(j, 1 .. n) + SumFunctionOnSet(g, 1 .. m)
  <2>1. 1 \in Int /\ n \in Int /\ 1 <= n + 1 /\ \A k \in 1 .. m : g[k] = j[n + k]
    OBVIOUS
  <2>. QED  BY <2>1, SumSplits
<1>2. SumFunctionOnSet(j, 1 .. n) = SumFunctionOnSet(f, 1 .. n)
  <2>1. IsFiniteSet(1 .. n)
    BY FS_Interval
  <2>. QED  BY <2>1, SumSame
<1>. QED  BY <1>1, <1>2

\* The total of a sequence in two parts is the sum of their totals.
LEMMA TotalOfParts ==
  ASSUME NEW j \in Seq(Int), NEW s \in Seq(Int), NEW t \in Seq(Int), Len(j) = Len(s) + Len(t),
         \A n \in 1 .. Len(s) : j[n] = s[n], \A k \in 1 .. Len(t) : j[Len(s) + k] = t[k]
  PROVE  SumFunction(j) = SumFunction(s) + SumFunction(t)
<1>1. Joined(j, Len(j), s, Len(s), t, Len(t))
  BY DEF Joined
<1>2. SumFunctionOnSet(j, 1 .. Len(j))
        = SumFunctionOnSet(s, 1 .. Len(s)) + SumFunctionOnSet(t, 1 .. Len(t))
  BY <1>1, SumOfJoined
<1>. QED  BY <1>2, TotalIs

\* The total of a concatenation is the sum of the totals.
LEMMA TotalJoins ==
  ASSUME NEW s \in Seq(Int), NEW t \in Seq(Int)
  PROVE  SumFunction(s \o t) = SumFunction(s) + SumFunction(t)
<1> DEFINE j == s \o t
<1>1. /\ j \in Seq(Int) /\ Len(j) = Len(s) + Len(t)
      /\ \A n \in 1 .. Len(s) : j[n] = s[n]
      /\ \A k \in 1 .. Len(t) : j[Len(s) + k] = t[k]
  BY JoinFacts
<1> HIDE DEF j
<1>2. SumFunction(j) = SumFunction(s) + SumFunction(t)
  BY <1>1, TotalOfParts
<1>. QED  BY <1>2 DEF j

\* What is read of a sequence in two parts comes to the total.
LEMMA TotalParts ==
  ASSUME NEW s \in Seq(Int), NEW c \in 0 .. Len(s)
  PROVE  SumFunction(SubSeq(s, 1, c)) + SumFunction(SubSeq(s, c + 1, Len(s))) = SumFunction(s)
<1> DEFINE a == SubSeq(s, 1, c)
           b == SubSeq(s, c + 1, Len(s))
<1>1. /\ a \in Seq(Int) /\ Len(a) = c /\ \A n \in 1 .. c : a[n] = s[n]
      /\ b \in Seq(Int) /\ Len(b) = Len(s) - c /\ \A n \in 1 .. Len(s) - c : b[n] = s[c + n]
  OBVIOUS
<1> HIDE DEF a, b
<1>2. Len(s) = Len(a) + Len(b)
  BY <1>1
<1>3. \A n \in 1 .. Len(a) : s[n] = a[n]
  BY <1>1
<1>4. \A k \in 1 .. Len(b) : s[Len(a) + k] = b[k]
  BY <1>1
<1>5. a \in Seq(Int) /\ b \in Seq(Int)
  BY <1>1
<1>6. SumFunction(s) = SumFunction(a) + SumFunction(b)
  BY <1>2, <1>3, <1>4, <1>5, TotalOfParts
<1>. QED  BY <1>6 DEF a, b

\* The queues are one for each side and price.
Keys == Sides \X Prices
\* An order that can rest.
Order == [id : OrderIds, side : Sides, price : Int, quantity : Nat \ {0}, participant_id : Participants,
          symbol_id : {DefaultSymbol}]

(* The queues are where they should be and no two orders have the same id.  *)
QueuesTyped(q) ==
  /\ DOMAIN q = Keys
  /\ \A key \in Keys :
       /\ q[key] \in Seq(Order)
       /\ \A n \in DOMAIN q[key] : <<q[key][n].side, q[key][n].price>> = key

\* No id stands twice, in one queue or in two.
IdsUnique(q) ==
  \A key, other \in Keys :
    \A n \in DOMAIN q[key], k \in DOMAIN q[other] :
      q[key][n].id = q[other][k].id => key = other /\ n = k

\* A price is an integer, of so many bits.
PricesTyped == Prices \subseteq Int /\ IsFiniteSet(Prices)

\* What every operation keeps of the queues.
GoodBook(q) == PricesTyped /\ QueuesTyped(q) /\ IdsUnique(q)

\* The order o is at the nth place of a queue.
StandsAt(q, o, key, n) == key \in Keys /\ n \in DOMAIN q[key] /\ o = q[key][n]

\* A key is a side and a price.
LEMMA KeyFacts ==
  /\ \A key \in Keys : key = <<key[1], key[2]>> /\ key[1] \in Sides /\ key[2] \in Prices
  /\ \A side \in Sides, p \in Prices : <<side, p>> \in Keys
BY DEF Keys

\* The resting orders are those that stand somewhere, and each has its place.
LEMMA RestingFacts ==
  ASSUME NEW q
  PROVE  /\ \A o : o \in RestingIn(q) <=> \E key, n : StandsAt(q, o, key, n)
         /\ \A side \in Sides, p \in Prices : \A n \in DOMAIN q[<<side, p>>] :
              <<side, p, n>> \in Places(q, side)
         /\ \A side \in Sides : \A place \in Places(q, side) :
              \E p, n : p \in Prices /\ place = <<side, p, n>> /\ n \in DOMAIN q[<<side, p>>]
<1>1. \A side \in Sides, p \in Prices : \A n \in DOMAIN q[<<side, p>>] :
              <<side, p, n>> \in Places(q, side)
  BY DEF Places
<1>2. \A side \in Sides : \A place \in Places(q, side) :
              \E p, n : p \in Prices /\ place = <<side, p, n>> /\ n \in DOMAIN q[<<side, p>>]
  BY DEF Places
<1>3. ASSUME NEW o \in RestingIn(q) PROVE \E key, n : StandsAt(q, o, key, n)
  <2>1. PICK side \in Sides : \E place \in Places(q, side) : o = OrderAt(q, place)
    BY DEF RestingIn, Sides
  <2>2. PICK place \in Places(q, side) : o = OrderAt(q, place)
    BY <2>1
  <2>3. PICK p, n : p \in Prices /\ place = <<side, p, n>> /\ n \in DOMAIN q[<<side, p>>]
    BY <1>2
  <2>4. o = q[<<side, p>>][n] /\ <<side, p>> \in Keys
    BY <2>2, <2>3, KeyFacts DEF OrderAt
  <2>5. StandsAt(q, o, <<side, p>>, n)
    BY <2>3, <2>4 DEF StandsAt
  <2>. QED  BY <2>5
<1>4. ASSUME NEW o, NEW key, NEW n, StandsAt(q, o, key, n) PROVE o \in RestingIn(q)
  <2>1. key[1] \in Sides /\ key[2] \in Prices /\ key = <<key[1], key[2]>>
    BY <1>4, KeyFacts DEF StandsAt
  <2>2. PICK side \in Sides, p \in Prices : key = <<side, p>>
    BY <2>1
  <2>3. n \in DOMAIN q[<<side, p>>] /\ o = q[<<side, p>>][n]
    BY <1>4, <2>2 DEF StandsAt
  <2>4. <<side, p, n>> \in Places(q, side) /\ o = OrderAt(q, <<side, p, n>>)
    BY <1>1, <2>3 DEF OrderAt
  <2>. QED  BY <2>4 DEF RestingIn, Sides
<1>. QED  BY <1>1, <1>2, <1>3, <1>4

\* A queue that may stand at key among those of q.
Fits(q, key, new) ==
  /\ key \in Keys
  /\ new \in Seq(Order)
  /\ \A n \in DOMAIN new : <<new[n].side, new[n].price>> = key
  /\ \A m, n \in DOMAIN new : new[m].id = new[n].id => m = n
  /\ \A n \in DOMAIN new : \A other \in Keys : \A k \in DOMAIN q[other] :
       other # key => new[n].id # q[other][k].id

\* Only the queue at key is new.
OnlyNew(q, key, new, after) ==
  after[key] = new /\ \A other \in Keys : other # key => after[other] = q[other]

\* One queue is replaced.
LEMMA OneQueue ==
  ASSUME NEW q, GoodBook(q), NEW key, NEW new, Fits(q, key, new),
         NEW after, after = [q EXCEPT ![key] = new]
  PROVE  GoodBook(after) /\ OnlyNew(q, key, new, after)
<1>1. DOMAIN q = Keys /\ key \in Keys
  BY DEF GoodBook, QueuesTyped, Fits
<1>2. DOMAIN after = Keys /\ after[key] = new
  BY <1>1
<1>3. \A other \in Keys : other # key => after[other] = q[other]
  BY <1>1
<1>4. QueuesTyped(after)
  BY <1>2, <1>3 DEF GoodBook, QueuesTyped, Fits
<1>5. IdsUnique(after)
  <2> SUFFICES ASSUME NEW k1 \in Keys, NEW k2 \in Keys,
                      NEW n1 \in DOMAIN after[k1], NEW n2 \in DOMAIN after[k2],
                      after[k1][n1].id = after[k2][n2].id
               PROVE  k1 = k2 /\ n1 = n2
    BY DEF IdsUnique
  <2>1. CASE k1 = key /\ k2 = key
    BY <1>2, <2>1 DEF Fits
  <2>2. CASE k1 = key /\ k2 # key
    BY <1>2, <1>3, <2>2 DEF Fits
  <2>3. CASE k2 = key /\ k1 # key
    BY <1>2, <1>3, <2>3 DEF Fits
  <2>4. CASE k1 # key /\ k2 # key
    BY <1>3, <2>4 DEF GoodBook, IdsUnique
  <2>. QED  BY <2>1, <2>2, <2>3, <2>4
<1>. QED  BY <1>2, <1>3, <1>4, <1>5 DEF GoodBook, OnlyNew

----------------------------------------------------------------------------
(* An order joins                                                          *)

\* A new order joins those that rest, and nothing else changes.
LEMMA AddsOrder ==
  ASSUME NEW q, GoodBook(q), NEW o \in Order, o.price \in Prices,
         \A x \in RestingIn(q) : x.id # o.id
  PROVE  /\ GoodBook(AfterAdd(q, o))
         /\ RestingIn(AfterAdd(q, o)) = RestingIn(q) \cup {o}
<1> DEFINE key == <<o.side, o.price>>
           new == Append(q[key], o)
           after == AfterAdd(q, o)
<1>1. key \in Keys /\ q[key] \in Seq(Order)
  <2>1. key \in Keys
    BY KeyFacts DEF Order
  <2> HIDE DEF key
  <2>. QED  BY <2>1 DEF GoodBook, QueuesTyped
<1>3. after = [q EXCEPT ![key] = new]
  BY DEF AfterAdd
<1>a. <<o.side, o.price>> = key
  OBVIOUS
<1> HIDE DEF key
<1>2. /\ new \in Seq(Order) /\ Len(new) = Len(q[key]) + 1
      /\ \A n \in DOMAIN q[key] : new[n] = q[key][n] /\ n \in DOMAIN new
      /\ \A n \in DOMAIN new : n \in DOMAIN q[key] \/ (n = Len(new) /\ new[n] = o)
      /\ Len(new) \in DOMAIN new /\ new[Len(new)] = o
  BY <1>1
<1>4. ASSUME NEW other \in Keys, NEW k \in DOMAIN q[other] PROVE q[other][k].id # o.id
  <2>1. StandsAt(q, q[other][k], other, k)
    BY DEF StandsAt
  <2>2. q[other][k] \in RestingIn(q)
    BY <2>1, RestingFacts
  <2>. QED  BY <2>2
<1> HIDE DEF new, after
<1>5. \A n \in DOMAIN new : <<new[n].side, new[n].price>> = key
  <2>1. \A n \in DOMAIN q[key] : <<q[key][n].side, q[key][n].price>> = key
    BY <1>1 DEF GoodBook, QueuesTyped
  <2>. QED  BY <1>a, <1>2, <2>1
<1>6. \A m, n \in DOMAIN new : new[m].id = new[n].id => m = n
  <2>1. \A m, n \in DOMAIN q[key] : q[key][m].id = q[key][n].id => m = n
    BY <1>1 DEF GoodBook, IdsUnique
  <2>. QED  BY <1>1, <1>2, <1>4, <2>1
<1>7. \A n \in DOMAIN new : \A other \in Keys : \A k \in DOMAIN q[other] :
        other # key => new[n].id # q[other][k].id
  <2>1. \A n \in DOMAIN q[key] : \A other \in Keys : \A k \in DOMAIN q[other] :
          other # key => q[key][n].id # q[other][k].id
    BY <1>1 DEF GoodBook, IdsUnique
  <2>. QED  BY <1>2, <1>4, <2>1
<1>8. /\ GoodBook(after) /\ after[key] = new
      /\ \A other \in Keys : other # key => after[other] = q[other]
  <2>1. Fits(q, key, new)
    BY <1>1, <1>2, <1>5, <1>6, <1>7 DEF Fits
  <2>2. GoodBook(after) /\ OnlyNew(q, key, new, after)
    BY <1>3, <2>1, OneQueue, Zenon
  <2>. QED  BY <2>2 DEF OnlyNew
<1>9. \A x : x \in RestingIn(after) <=> x \in RestingIn(q) \cup {o}
  <2>1. ASSUME NEW x \in RestingIn(after) PROVE x \in RestingIn(q) \cup {o}
    <3>1. PICK s, n : StandsAt(after, x, s, n)
      BY RestingFacts
    <3>2. x = o \/ StandsAt(q, x, s, n)
      BY <1>1, <1>2, <1>8, <3>1 DEF StandsAt
    <3>. QED  BY <3>2, RestingFacts
  <2>2. ASSUME NEW x \in RestingIn(q) PROVE x \in RestingIn(after)
    <3>1. PICK s, n : StandsAt(q, x, s, n)
      BY RestingFacts
    <3>2. StandsAt(after, x, s, n)
      BY <1>1, <1>2, <1>8, <3>1 DEF StandsAt
    <3>. QED  BY <3>2, RestingFacts
  <2>3. o \in RestingIn(after)
    <3>1. StandsAt(after, o, key, Len(new))
      BY <1>1, <1>2, <1>8 DEF StandsAt
    <3>. QED  BY <3>1, RestingFacts
  <2>. QED  BY <2>1, <2>2, <2>3
<1>. QED  BY <1>8, <1>9 DEF after

----------------------------------------------------------------------------
(* Orders leave or change in place                                         *)

\* The orders of new stand, with the same identity, at the places back of old.
Drawn(old, new, back) ==
  /\ \A n \in DOMAIN new :
       /\ back[n] \in DOMAIN old
       /\ new[n].id = old[back[n]].id
       /\ new[n].side = old[back[n]].side
       /\ new[n].price = old[back[n]].price
  /\ \A m, n \in DOMAIN new : back[m] = back[n] => m = n

\* A queue drawn from the one at key may take its place.
LEMMA DrawnFits ==
  ASSUME NEW q, GoodBook(q), NEW key \in Keys, NEW new \in Seq(Order),
         NEW back, Drawn(q[key], new, back)
  PROVE  Fits(q, key, new)
<1>1. \A n \in DOMAIN new : <<new[n].side, new[n].price>> = key
  <2>1. \A n \in DOMAIN q[key] : <<q[key][n].side, q[key][n].price>> = key
    BY DEF GoodBook, QueuesTyped
  <2>. QED  BY <2>1 DEF Drawn
<1>2. \A m, n \in DOMAIN new : new[m].id = new[n].id => m = n
  <2>1. \A m, n \in DOMAIN q[key] : q[key][m].id = q[key][n].id => m = n
    BY DEF GoodBook, IdsUnique
  <2>. QED  BY <2>1 DEF Drawn
<1>3. \A n \in DOMAIN new : \A other \in Keys : \A k \in DOMAIN q[other] :
        other # key => new[n].id # q[other][k].id
  <2>1. \A n \in DOMAIN q[key] : \A other \in Keys : \A k \in DOMAIN q[other] :
          other # key => q[key][n].id # q[other][k].id
    BY DEF GoodBook, IdsUnique
  <2>. QED  BY <2>1 DEF Drawn
<1>. QED  BY <1>1, <1>2, <1>3 DEF Fits

\* The sequence t is s without its element at i.
Without(s, i, t) ==
  /\ i \in 1 .. Len(s) /\ Len(s) \in Nat
  /\ DOMAIN t = 1 .. Len(s) - 1
  /\ \A n \in 1 .. i - 1 : t[n] = s[n]
  /\ \A n \in i .. Len(s) - 1 : t[n] = s[n + 1]

\* Where an index past the i-th of m falls in the second of two parts.
LEMMA IndexPast ==
  ASSUME NEW m \in Nat, NEW i \in 1 .. m, NEW n \in i .. m - 1, NEW x, NEW y, x = i - 1, y = m - i
  PROVE  n - (i - 1) \in 1 .. y /\ x + (n - (i - 1)) = n /\ i + (n - (i - 1)) = n + 1
  OBVIOUS

\* The library's RemoveAt takes out one element and keeps the order of the rest.
LEMMA RemoveFacts ==
  ASSUME NEW S, NEW s \in Seq(S), NEW i \in DOMAIN s, NEW t, t = RemoveAt(s, i)
  PROVE  t \in Seq(S) /\ Without(s, i, t)
<1>1. i \in 1 .. Len(s) /\ Len(s) \in Nat
  OBVIOUS
<1> DEFINE a == SubSeq(s, 1, i - 1)
           b == SubSeq(s, i + 1, Len(s))
<1>2. /\ a \in Seq(S) /\ Len(a) = i - 1 /\ \A n \in 1 .. i - 1 : a[n] = s[n]
      /\ b \in Seq(S) /\ Len(b) = Len(s) - i /\ \A n \in 1 .. Len(s) - i : b[n] = s[i + n]
  BY <1>1
<1>3. t = a \o b
  BY DEF RemoveAt
<1> HIDE DEF a, b
<1>4. t \in Seq(S) /\ Len(t) = Len(s) - 1
  BY <1>1, <1>2, <1>3
<1>5. \A n \in 1 .. i - 1 : t[n] = s[n]
  BY <1>1, <1>2, <1>3
<1>lengths. Len(a) = i - 1 /\ Len(b) = Len(s) - i
  BY <1>2
<1>6. ASSUME NEW n \in i .. Len(s) - 1 PROVE t[n] = s[n + 1]
  <2>1. PICK k : k = n - (i - 1)
    OBVIOUS
  <2>2. k \in 1 .. Len(b) /\ Len(a) + k = n /\ i + k = n + 1
    BY <1>1, <1>lengths, <2>1, IndexPast, SMTT(30)
  <2>3. t[Len(a) + k] = b[k]
    <3>1. a \in Seq(S) /\ b \in Seq(S)
      BY <1>2
    <3>. QED  BY <1>3, <2>2, <3>1, JoinFacts
  <2>4. b[k] = s[i + k]
    BY <1>2, <1>lengths, <2>2
  <2>5. t[n] = b[k] /\ b[k] = s[n + 1]
    BY <2>2, <2>3, <2>4, Zenon
  <2>. QED  BY <2>5, Zenon
<1>7. DOMAIN t = 1 .. Len(s) - 1
  BY <1>4
<1>8. \A n \in i .. Len(s) - 1 : t[n] = s[n + 1]
  BY <1>6, Zenon
<1>. QED  BY <1>1, <1>4, <1>5, <1>7, <1>8, Zenon DEF Without

\* The engine's index finds the place of a resting order.
LEMMA PlaceFacts ==
  ASSUME NEW q, GoodBook(q), NEW o \in RestingIn(q)
  PROVE  \E key \in Keys : \E n \in DOMAIN q[key] :
           q[key][n] = o /\ PlaceOf(q, o.id) = <<key[1], key[2], n>>
                         /\ key = <<o.side, o.price>> /\ o \in Order
<1>1. PICK key, n : StandsAt(q, o, key, n)
  BY RestingFacts
<1>2. PICK side \in Sides, p \in Prices : key = <<side, p>>
  BY <1>1, KeyFacts DEF StandsAt
<1> DEFINE places == Places(q, "Buy") \cup Places(q, "Sell")
<1>3. <<side, p, n>> \in places /\ OrderAt(q, <<side, p, n>>) = o
  <2>1. n \in DOMAIN q[<<side, p>>] /\ o = q[<<side, p>>][n]
    BY <1>1, <1>2 DEF StandsAt
  <2>2. <<side, p, n>> \in Places(q, side)
    BY <2>1, RestingFacts
  <2>. QED  BY <2>1, <2>2 DEF OrderAt, Sides
<1>4. ASSUME NEW place \in places, OrderAt(q, place).id = o.id
      PROVE  place = <<side, p, n>>
  <2>1. PICK s \in Sides : place \in Places(q, s)
    BY DEF Sides
  <2>2. PICK r, k : r \in Prices /\ place = <<s, r, k>> /\ k \in DOMAIN q[<<s, r>>]
    BY <2>1, RestingFacts
  <2>3. q[<<s, r>>][k].id = q[key][n].id
    BY <1>1, <1>4, <2>2 DEF OrderAt, StandsAt
  <2>4. <<s, r>> \in Keys /\ key \in Keys /\ n \in DOMAIN q[key]
    BY <1>1, <2>2, KeyFacts DEF StandsAt
  <2>5. <<s, r>> = key /\ k = n
    BY <2>2, <2>3, <2>4 DEF GoodBook, IdsUnique
  <2>. QED  BY <1>2, <2>2, <2>5
<1>5. PlaceOf(q, o.id) = <<side, p, n>>
  BY <1>3, <1>4 DEF PlaceOf
<1>6. key \in Keys /\ n \in DOMAIN q[key] /\ q[key][n] = o /\ key[1] = side /\ key[2] = p
  BY <1>1, <1>2 DEF StandsAt
<1>7. q[key] \in Seq(Order) /\ <<q[key][n].side, q[key][n].price>> = key
  BY <1>6 DEF GoodBook, QueuesTyped
<1>8. o \in Order
  BY <1>6, <1>7
<1>. QED  BY <1>5, <1>6, <1>7, <1>8

\* A cancelled order leaves those that rest, and nothing else changes.
LEMMA CancelsOrder ==
  ASSUME NEW q, GoodBook(q), NEW o \in RestingIn(q)
  PROVE  /\ GoodBook(AfterCancel(q, o.id))
         /\ RestingIn(AfterCancel(q, o.id)) = RestingIn(q) \ {o}
<1>1. PICK key \in Keys : \E n \in DOMAIN q[key] :
        q[key][n] = o /\ PlaceOf(q, o.id) = <<key[1], key[2], n>>
  BY PlaceFacts
<1>2. PICK i \in DOMAIN q[key] :
        q[key][i] = o /\ PlaceOf(q, o.id) = <<key[1], key[2], i>>
  BY <1>1
<1> DEFINE after == AfterCancel(q, o.id)
           new == RemoveAt(q[key], i)
           back == [n \in DOMAIN new |-> IF n < i THEN n ELSE n + 1]
<1>3. q[key] \in Seq(Order) /\ key = <<key[1], key[2]>>
  BY KeyFacts DEF GoodBook, QueuesTyped
<1>4. after = [q EXCEPT ![key] = new]
  <2> DEFINE place == PlaceOf(q, o.id)
  <2>1. after = [q EXCEPT ![<<place[1], place[2]>>] = RemoveAt(q[<<place[1], place[2]>>], place[3])]
    BY DEF AfterCancel
  <2>2. <<place[1], place[2]>> = key /\ place[3] = i
    BY <1>2, <1>3
  <2> HIDE DEF after, place
  <2>. QED  BY <2>1, <2>2, Zenon
<1>5. new \in Seq(Order) /\ Without(q[key], i, new)
  BY <1>2, <1>3, RemoveFacts, Zenon
<1> HIDE DEF after, new
<1>6. ASSUME NEW n \in DOMAIN new
      PROVE  back[n] \in DOMAIN q[key] /\ new[n] = q[key][back[n]] /\ back[n] # i
  <2>1. n \in 1 .. Len(q[key]) - 1 /\ i \in 1 .. Len(q[key]) /\ Len(q[key]) \in Nat
        /\ DOMAIN q[key] = 1 .. Len(q[key])
    BY <1>3, <1>5 DEF Without
  <2>2. CASE n < i
    <3>1. back[n] = n /\ n \in 1 .. i - 1
      BY <2>1, <2>2
    <3>. QED  BY <1>5, <2>1, <2>2, <3>1 DEF Without
  <2>3. CASE n >= i
    <3>1. back[n] = n + 1 /\ n \in i .. Len(q[key]) - 1
      BY <2>1, <2>3
    <3>. QED  BY <1>5, <2>1, <2>3, <3>1 DEF Without
  <2>. QED  BY <2>1, <2>2, <2>3
<1>7. \A m, n \in DOMAIN new : back[m] = back[n] => m = n
  BY <1>5 DEF Without
<1>8. \A k \in DOMAIN q[key] : k # i => \E n \in DOMAIN new : new[n] = q[key][k]
  <2> SUFFICES ASSUME NEW k \in DOMAIN q[key], k # i
               PROVE  \E n \in DOMAIN new : new[n] = q[key][k]
    OBVIOUS
  <2>1. k \in 1 .. Len(q[key])
    BY <1>3
  <2>2. CASE k < i
    <3>1. k \in DOMAIN new /\ new[k] = q[key][k]
      BY <1>5, <2>1, <2>2 DEF Without
    <3>. QED  BY <3>1
  <2>3. CASE k > i
    <3>1. k - 1 \in DOMAIN new /\ k - 1 \in i .. Len(q[key]) - 1 /\ (k - 1) + 1 = k
      BY <1>5, <2>1, <2>3 DEF Without
    <3>. QED  BY <1>5, <3>1 DEF Without
  <2>. QED  BY <1>5, <2>1, <2>2, <2>3 DEF Without
<1> HIDE DEF back
<1>9. GoodBook(after) /\ OnlyNew(q, key, new, after)
  <2>1. Drawn(q[key], new, back)
    BY <1>6, <1>7 DEF Drawn
  <2>2. Fits(q, key, new)
    BY <1>5, <2>1, DrawnFits
  <2>. QED  BY <1>4, <2>2, OneQueue, Zenon
<1>10. \A x : x \in RestingIn(after) <=> x \in RestingIn(q) \ {o}
  <2>1. ASSUME NEW x \in RestingIn(after) PROVE x \in RestingIn(q) \ {o}
    <3>1. PICK s, n : StandsAt(after, x, s, n)
      BY RestingFacts
    <3>2. CASE s = key
      <4>1. n \in DOMAIN new /\ x = new[n]
        BY <1>9, <3>1, <3>2 DEF OnlyNew, StandsAt
      <4>2. StandsAt(q, x, key, back[n]) /\ back[n] # i
        BY <1>6, <4>1 DEF StandsAt
      <4>3. x # o
        BY <1>2, <4>2 DEF StandsAt, GoodBook, IdsUnique
      <4>. QED  BY <4>2, <4>3, RestingFacts
    <3>3. CASE s # key
      <4>1. StandsAt(q, x, s, n)
        BY <1>9, <3>1, <3>3 DEF OnlyNew, StandsAt
      <4>2. x # o
        BY <1>2, <3>3, <4>1 DEF StandsAt, GoodBook, IdsUnique
      <4>. QED  BY <4>1, <4>2, RestingFacts
    <3>. QED  BY <3>2, <3>3
  <2>2. ASSUME NEW x \in RestingIn(q) \ {o} PROVE x \in RestingIn(after)
    <3>1. PICK s, k : StandsAt(q, x, s, k)
      BY RestingFacts
    <3>2. CASE s = key
      <4>1. k \in DOMAIN q[key] /\ k # i /\ x = q[key][k]
        BY <1>2, <3>1, <3>2 DEF StandsAt
      <4>2. PICK n \in DOMAIN new : new[n] = x
        BY <1>8, <4>1
      <4>3. StandsAt(after, x, key, n)
        BY <1>9, <4>2 DEF OnlyNew, StandsAt
      <4>. QED  BY <4>3, RestingFacts
    <3>3. CASE s # key
      <4>1. StandsAt(after, x, s, k)
        BY <1>9, <3>1, <3>3 DEF OnlyNew, StandsAt
      <4>. QED  BY <4>1, RestingFacts
    <3>. QED  BY <3>2, <3>3
  <2>. QED  BY <2>1, <2>2
<1>. QED  BY <1>9, <1>10 DEF after

\* The order at position i of the queue at key has become new.
Changed(q, key, i, new, after) == after = [q EXCEPT ![key] = [q[key] EXCEPT ![i] = new]]

\* An order that changes in place is replaced among those that rest.
LEMMA ChangesOrder ==
  ASSUME NEW q, GoodBook(q), NEW o \in RestingIn(q), NEW new \in Order,
         new.id = o.id, new.side = o.side, new.price = o.price,
         NEW key, NEW i, StandsAt(q, o, key, i), NEW after, Changed(q, key, i, new, after)
  PROVE  /\ GoodBook(after)
         /\ RestingIn(after) = (RestingIn(q) \ {o}) \cup {new}
<1> DEFINE s == [q[key] EXCEPT ![i] = new]
           back == [n \in DOMAIN s |-> n]
<1>1. q[key] \in Seq(Order) /\ key \in Keys /\ i \in DOMAIN q[key] /\ q[key][i] = o
  BY DEF GoodBook, QueuesTyped, StandsAt
<1>2. /\ s \in Seq(Order) /\ DOMAIN s = DOMAIN q[key] /\ s[i] = new
      /\ \A n \in DOMAIN s : n # i => s[n] = q[key][n]
  BY <1>1
<1>a. after = [q EXCEPT ![key] = s]
  BY DEF Changed
<1> HIDE DEF s
<1>3. Drawn(q[key], s, back)
  BY <1>1, <1>2 DEF Drawn
<1>4. GoodBook(after) /\ OnlyNew(q, key, s, after)
  <2>1. Fits(q, key, s)
    BY <1>1, <1>2, <1>3, DrawnFits
  <2>. QED  BY <1>a, <2>1, OneQueue, Zenon
<1>5. \A x : x \in RestingIn(after) <=> x \in (RestingIn(q) \ {o}) \cup {new}
  <2>1. ASSUME NEW x \in RestingIn(after)
        PROVE  x \in (RestingIn(q) \ {o}) \cup {new}
    <3>1. PICK k, n : StandsAt(after, x, k, n)
      BY RestingFacts
    <3>2. CASE k = key /\ n = i
      BY <1>1, <1>2, <1>4, <3>1, <3>2 DEF OnlyNew, StandsAt
    <3>3. CASE ~(k = key /\ n = i)
      <4>1. StandsAt(q, x, k, n)
        BY <1>1, <1>2, <1>4, <3>1, <3>3 DEF OnlyNew, StandsAt
      <4>2. x # o
        BY <1>1, <3>3, <4>1 DEF StandsAt, GoodBook, IdsUnique
      <4>. QED  BY <4>1, <4>2, RestingFacts
    <3>. QED  BY <3>2, <3>3
  <2>2. ASSUME NEW x \in RestingIn(q) \ {o} PROVE x \in RestingIn(after)
    <3>1. PICK k, n : StandsAt(q, x, k, n)
      BY RestingFacts
    <3>2. ~(k = key /\ n = i)
      BY <1>1, <3>1 DEF StandsAt
    <3>3. StandsAt(after, x, k, n)
      BY <1>1, <1>2, <1>4, <3>1, <3>2 DEF OnlyNew, StandsAt
    <3>. QED  BY <3>3, RestingFacts
  <2>3. new \in RestingIn(after)
    <3>1. StandsAt(after, new, key, i)
      BY <1>1, <1>2, <1>4 DEF OnlyNew, StandsAt
    <3>. QED  BY <3>1, RestingFacts
  <2>. QED  BY <2>1, <2>2, <2>3
<1>. QED  BY <1>4, <1>5

\* The order new is o with another price and quantity.
Renewed(o, price, quantity, new) ==
  /\ new \in Order /\ new.id = o.id /\ new.side = o.side /\ new.price = price
  /\ new.quantity = quantity /\ new.participant_id = o.participant_id

\* An order with another price and quantity is an order with the same identity.
LEMMA NewFields ==
  ASSUME NEW o \in Order, NEW price \in Int, NEW quantity \in Nat \ {0},
         NEW new, new = [o EXCEPT !.price = price, !.quantity = quantity]
  PROVE  Renewed(o, price, quantity, new)
BY DEF Order, Renewed

\* A modified order is replaced among those that rest, wherever it goes.
LEMMA ModifiesOrder ==
  ASSUME NEW q, GoodBook(q), NEW o \in RestingIn(q),
         NEW price \in Prices, NEW quantity \in Nat \ {0}
  PROVE  /\ GoodBook(AfterModify(q, o.id, price, quantity))
         /\ \E new : /\ Renewed(o, price, quantity, new)
                    /\ RestingIn(AfterModify(q, o.id, price, quantity))
                         = (RestingIn(q) \ {o}) \cup {new}
<1> DEFINE new == [o EXCEPT !.price = price, !.quantity = quantity]
           after == AfterModify(q, o.id, price, quantity)
           place == PlaceOf(q, o.id)
<1>1. PICK key \in Keys : \E n \in DOMAIN q[key] :
        q[key][n] = o /\ place = <<key[1], key[2], n>> /\ key = <<o.side, o.price>> /\ o \in Order
  BY PlaceFacts
<1>2. PICK i \in DOMAIN q[key] :
        q[key][i] = o /\ place = <<key[1], key[2], i>> /\ key = <<o.side, o.price>> /\ o \in Order
  BY <1>1
<1>3. price \in Int
  BY DEF GoodBook, PricesTyped
<1>4. /\ new \in Order /\ new.id = o.id /\ new.side = o.side /\ new.price = price
      /\ price = o.price => new.price = o.price
  <2>1. o \in Order
    BY <1>2
  <2>2. price \in Int
    BY <1>3
  <2>3. new = [o EXCEPT !.price = price, !.quantity = quantity]
    OBVIOUS
  <2> HIDE DEF new
  <2>4. Renewed(o, price, quantity, new)
    BY <2>1, <2>2, <2>3, NewFields
  <2>. QED  BY <2>4 DEF Renewed
<1>5. OrderAt(q, place) = o /\ place[3] = i /\ key = <<place[1], place[2]>>
  BY <1>2, KeyFacts DEF OrderAt
<1>6. after = IF price = o.price /\ quantity <= o.quantity
                THEN [q EXCEPT ![<<o.side, price>>] = ReplaceAt(q[<<o.side, price>>], i, new)]
                ELSE [AfterCancel(q, o.id) EXCEPT ![<<o.side, price>>] =
                        Append(AfterCancel(q, o.id)[<<o.side, price>>], new)]
  <2> HIDE DEF place
  <2>1. new = [OrderAt(q, place) EXCEPT !.price = price, !.quantity = quantity]
    BY <1>5
  <2>2. after =
          IF price = OrderAt(q, place).price
             /\ quantity <= OrderAt(q, place).quantity
            THEN [q EXCEPT ![<<OrderAt(q, place).side, price>>] =
                    ReplaceAt(q[<<OrderAt(q, place).side, price>>], place[3], new)]
            ELSE [AfterCancel(q, o.id) EXCEPT ![<<OrderAt(q, place).side, price>>] =
                    Append(AfterCancel(q, o.id)[<<OrderAt(q, place).side, price>>],
                           new)]
    BY <2>1, Zenon DEF AfterModify, place
  <2>. QED  BY <1>5, <2>2, Zenon
<1>9. Renewed(o, price, quantity, new)
  <2>1. price \in Int /\ o \in Order /\ new = [o EXCEPT !.price = price, !.quantity = quantity]
    BY <1>2, <1>3
  <2> HIDE DEF new
  <2>. QED  BY <2>1, NewFields
<1> HIDE DEF new, after
<1>7. ASSUME price = o.price /\ quantity <= o.quantity
      PROVE  GoodBook(after) /\ RestingIn(after) = (RestingIn(q) \ {o}) \cup {new}
  <2>1. Changed(q, key, i, new, after)
    BY <1>2, <1>6, <1>7, Zenon DEF ReplaceAt, Changed
  <2>2. StandsAt(q, o, key, i)
    BY <1>2 DEF StandsAt
  <2>3. /\ GoodBook(after)
        /\ RestingIn(after) = (RestingIn(q) \ {o}) \cup {new}
    <3>1. new \in Order /\ new.id = o.id /\ new.side = o.side /\ new.price = o.price
      BY <1>4, <1>7
    <3>. QED  BY <2>1, <2>2, <3>1, ChangesOrder
  <2>. QED  BY <2>3
<1>8. ASSUME ~(price = o.price /\ quantity <= o.quantity)
      PROVE  GoodBook(after) /\ RestingIn(after) = (RestingIn(q) \ {o}) \cup {new}
  <2> DEFINE c == AfterCancel(q, o.id)
  <2>1. GoodBook(c) /\ RestingIn(c) = RestingIn(q) \ {o}
    BY CancelsOrder
  <2>2. after = AfterAdd(c, new)
    BY <1>4, <1>6, <1>8, Zenon DEF AfterAdd
  <2>3. \A x \in RestingIn(c) : x.id # new.id
    <3> SUFFICES ASSUME NEW x \in RestingIn(q), x # o PROVE x.id # o.id
      BY <1>4, <2>1
    <3>1. PICK k, n : StandsAt(q, x, k, n)
      BY RestingFacts
    <3>. QED  BY <1>2, <3>1 DEF StandsAt, GoodBook, IdsUnique
  <2>4. new.price \in Prices
    BY <1>4
  <2> HIDE DEF c
  <2>5. /\ GoodBook(AfterAdd(c, new))
        /\ RestingIn(AfterAdd(c, new)) = RestingIn(c) \cup {new}
    BY <1>4, <2>1, <2>3, <2>4, AddsOrder
  <2>. QED  BY <2>1, <2>2, <2>5
<1>. QED  BY <1>7, <1>8, <1>9 DEF after

----------------------------------------------------------------------------
(* What an incoming order takes                                            *)

\* The lesser and the greater of two numbers.
LEMMA OfTwo ==
  ASSUME NEW a \in Int, NEW b \in Int
  PROVE  /\ Min({a, b}) = IF a <= b THEN a ELSE b
         /\ Max({a, b}) = IF a >= b THEN a ELSE b
BY DEF Min, Max

\* A sum of natural numbers over a subset is no greater.
LEMMA SumOfSubset ==
  ASSUME NEW T, IsFiniteSet(T), NEW S \in SUBSET T, NEW f, \A x \in T : f[x] \in Nat
  PROVE  SumFunctionOnSet(f, S) <= SumFunctionOnSet(f, T)
<1> DEFINE Good == {U \in SUBSET (T \ S) : SumFunctionOnSet(f, S) <= SumFunctionOnSet(f, S \cup U)}
<1>0. \A U \in SUBSET T : IsFiniteSet(U) /\ SumFunctionOnSet(f, U) \in Int
  <2> TAKE U \in SUBSET T
  <2>1. IsFiniteSet(U)
    BY FS_Subset
  <2>2. \A x \in U : f[x] \in Int
    OBVIOUS
  <2>. QED  BY <2>1, <2>2, SumIsInteger
<1>1. {} \in Good
  <2>1. S \cup {} = S
    OBVIOUS
  <2>2. SumFunctionOnSet(f, S) \in Int
    BY <1>0
  <2> DEFINE x == SumFunctionOnSet(f, S)
  <2>3. x <= x
    <3>1. x \in Int
      BY <2>2
    <3> HIDE DEF x
    <3>. QED  BY <3>1
  <2>. QED  BY <2>1, <2>3
<1>2. ASSUME NEW U \in SUBSET (T \ S), NEW x \in (T \ S) \ U, U \in Good
      PROVE  U \cup {x} \in Good
  <2>1. /\ S \cup (U \cup {x}) \in SUBSET T /\ x \in S \cup (U \cup {x})
        /\ (S \cup (U \cup {x})) \ {x} = S \cup U /\ S \cup U \in SUBSET T
    OBVIOUS
  <2>2. SumFunctionOnSet(f, S \cup (U \cup {x})) = f[x] + SumFunctionOnSet(f, S \cup U)
    <3>1. \A y \in S \cup (U \cup {x}) : f[y] \in Int
      OBVIOUS
    <3>2. IsFiniteSet(S \cup (U \cup {x}))
      BY <1>0, <2>1
    <3> DEFINE V == S \cup (U \cup {x})
    <3>3. x \in V /\ IsFiniteSet(V) /\ \A y \in V : f[y] \in Int
      BY <3>1, <3>2
    <3> HIDE DEF V
    <3>4. SumFunctionOnSet(f, V) = f[x] + SumFunctionOnSet(f, V \ {x})
      BY <3>3, SumTakes
    <3>. QED  BY <2>1, <3>4 DEF V
  <2> DEFINE a == SumFunctionOnSet(f, S)
             b == SumFunctionOnSet(f, S \cup U)
             c == SumFunctionOnSet(f, S \cup (U \cup {x}))
  <2>3. a \in Int /\ b \in Int /\ c = f[x] + b /\ f[x] \in Nat /\ a <= b
    BY <1>0, <1>2, <2>1, <2>2
  <2> HIDE DEF a, b, c
  <2>4. a <= c
    BY <2>3
  <2>. QED  BY <2>4 DEF a, c
<1> HIDE DEF Good
<1>3. T \ S \in Good
  <2>1. IsFiniteSet(T \ S)
    BY FS_Subset
  <2>. QED  BY <1>1, <1>2, <2>1, FiniteInduction
<1>4. S \cup (T \ S) = T
  OBVIOUS
<1>. QED  BY <1>3, <1>4 DEF Good

\* There are finitely many places in a book.
LEMMA FinitePlaces ==
  ASSUME NEW q, GoodBook(q), NEW side \in Sides
  PROVE  IsFiniteSet(Places(q, side))
<1> DEFINE At(p) == {<<side, p, n>> : n \in DOMAIN q[<<side, p>>]}
           Family == {At(p) : p \in Prices}
<1>1. IsFiniteSet(Family)
  <2> DEFINE f == [p \in Prices |-> At(p)]
  <2>1. f \in Surjection(Prices, Family)
    BY DEF Surjection
  <2>. QED  BY <2>1, FS_Surjection DEF GoodBook, PricesTyped
<1>2. ASSUME NEW p \in Prices
      PROVE  IsFiniteSet(At(p))
  <2>1. PICK k \in Nat : DOMAIN q[<<side, p>>] = 1 .. k
    <3>1. q[<<side, p>>] \in Seq(Order)
      BY KeyFacts DEF GoodBook, QueuesTyped
    <3>2. Len(q[<<side, p>>]) \in Nat /\ DOMAIN q[<<side, p>>] = 1 .. Len(q[<<side, p>>])
      BY <3>1
    <3>. QED  BY <3>2
  <2> DEFINE f == [n \in 1 .. k |-> <<side, p, n>>]
  <2>2. f \in Surjection(1 .. k, At(p))
    BY <2>1 DEF Surjection
  <2>3. IsFiniteSet(1 .. k)
    BY FS_Interval
  <2>. QED  BY <2>2, <2>3, FS_Surjection
<1>3. IsFiniteSet(UNION Family)
  BY <1>1, <1>2, FS_UNION
<1>. QED  BY <1>3 DEF Places

\* A place that o reaches is the nth of the queue at <<side, p>>.
MetAt(q, o, place, side, p, n) ==
  /\ side \in Sides /\ p \in Prices
  /\ place = <<side, p, n>> /\ side # o.side
  /\ StandsAt(q, OrderAt(q, place), <<side, p>>, n)
  /\ OrderAt(q, place) \in Order
  /\ OrderAt(q, place).side = side /\ OrderAt(q, place).price = p
  /\ IF o.side = "Buy" THEN p <= o.price ELSE p >= o.price

\* An order of which nothing may be left.
Lot == [id : OrderIds, side : Sides, price : Int, quantity : Nat, participant_id : Participants,
        symbol_id : {DefaultSymbol}]

\* An order that can rest is one that can be matched.
LEMMA OrderIsLot == Order \subseteq Lot
  BY DEF Order, Lot

\* An order reaches finitely many places, on the other side and at prices that cross.
LEMMA ReachFacts ==
  ASSUME NEW q, GoodBook(q), NEW o \in Lot
  PROVE  /\ IsFiniteSet(Reach(q, o))
         /\ \A place \in Reach(q, o) : \E side, p, n : MetAt(q, o, place, side, p, n)
<1> DEFINE other == OtherSide(o.side)
<1>1. other \in Sides /\ other # o.side
  <2>1. o.side \in Sides
    BY DEF Lot
  <2>2. \E s \in {"Buy", "Sell"} : s # o.side
    BY <2>1 DEF Sides
  <2>. QED  BY <2>2, Zenon DEF OtherSide, Sides, Sides
<1> HIDE DEF other
<1>2. Reach(q, o) \subseteq Places(q, other)
  BY DEF Reach, other
<1>3. IsFiniteSet(Reach(q, o))
  BY <1>1, <1>2, FinitePlaces, FS_Subset
<1>4. ASSUME NEW place \in Reach(q, o)
      PROVE  \E side, p, n : MetAt(q, o, place, side, p, n)
  <2>1. PICK p, n : p \in Prices /\ place = <<other, p, n>> /\ n \in DOMAIN q[<<other, p>>]
    BY <1>1, <1>2, RestingFacts
  <2>2. <<other, p>> \in Keys /\ OrderAt(q, place) = q[<<other, p>>][n]
    BY <1>1, <2>1, KeyFacts DEF OrderAt
  <2>3. q[<<other, p>>] \in Seq(Order) /\ q[<<other, p>>][n].side = other
        /\ q[<<other, p>>][n].price = p
    BY <2>1, <2>2 DEF GoodBook, QueuesTyped
  <2>4. OrderAt(q, place) \in Order
    BY <2>1, <2>2, <2>3
  <2>5. IF o.side = "Buy" THEN p <= o.price ELSE p >= o.price
    BY <2>1 DEF Reach
  <2>6. MetAt(q, o, place, other, p, n)
    BY <1>1, <2>1, <2>2, <2>3, <2>4, <2>5 DEF StandsAt, MetAt
  <2>. QED  BY <2>6
<1>. QED  BY <1>3, <1>4

\* What stands before a place in the reach of o.
Ahead(q, o, place) ==
  SumFunctionOnSet([x \in Reach(q, o) |-> OrderAt(q, x).quantity],
                   {x \in Reach(q, o) : Before(x, place)})

\* What an order takes at a place depends on what stands before it.
LEMMA AheadFacts ==
  ASSUME NEW q, GoodBook(q), NEW o \in Lot
  PROVE  \A place \in Reach(q, o) :
           /\ Ahead(q, o, place) \in Nat
           /\ OrderAt(q, place).quantity \in Nat \ {0}
           /\ Taken(q, o, place)
                = Max({0, Min({o.quantity - Ahead(q, o, place), OrderAt(q, place).quantity})})
<1> DEFINE R == Reach(q, o)
           f == [x \in R |-> OrderAt(q, x).quantity]
<1>1. IsFiniteSet(R) /\ \A x \in R : OrderAt(q, x).quantity \in Nat \ {0}
  <2>1. \A x \in R : OrderAt(q, x) \in Order
    BY ReachFacts DEF MetAt
  <2>2. IsFiniteSet(R)
    BY ReachFacts
  <2>. QED  BY <2>1, <2>2 DEF Order
<1> SUFFICES ASSUME NEW place \in R
             PROVE  /\ Ahead(q, o, place) \in Nat
                    /\ OrderAt(q, place).quantity \in Nat \ {0}
                    /\ Taken(q, o, place)
                         = Max({0, Min({o.quantity - Ahead(q, o, place),
                                        OrderAt(q, place).quantity})})
  OBVIOUS
<1> DEFINE before == {x \in R : Before(x, place)}
           g == [x \in before |-> OrderAt(q, x).quantity]
<1>2. IsFiniteSet(before) /\ \A x \in before : f[x] \in Nat /\ f[x] = g[x]
  BY <1>1, FS_Subset
<1>3. SumFunctionOnSet(f, before) = SumFunctionOnSet(g, before)
  BY <1>2, SumSame
<1>4. SumFunctionOnSet(f, before) \in Nat
  <2>1. SumFunctionOnSet(f, before) \in Int
    BY <1>2, SumIsInteger
  <2>2. SumFunctionOnSet(f, {}) <= SumFunctionOnSet(f, before)
    BY <1>2, SumOfSubset
  <2>3. SumFunctionOnSet(f, {}) = 0
    BY SumOfNone
  <2>. QED  BY <2>1, <2>2, <2>3
<1>5. SumFunction(g) = SumFunctionOnSet(g, before)
  <2>1. DOMAIN g = before
    OBVIOUS
  <2>. QED  BY <2>1, Zenon DEF SumFunction
<1>6. Ahead(q, o, place) = SumFunctionOnSet(f, before)
  BY DEF Ahead
<1>7. Taken(q, o, place)
        = Max({0, Min({o.quantity - SumFunction(g), OrderAt(q, place).quantity})})
  BY Zenon DEF Taken
<1> HIDE DEF f, g
<1>. QED  BY <1>1, <1>3, <1>4, <1>5, <1>6, <1>7

\* An order takes from a resting one no more than it has and no more than it wants.
LEMMA TakenFacts ==
  ASSUME NEW q, GoodBook(q), NEW o \in Lot, NEW place \in Reach(q, o)
  PROVE  /\ Taken(q, o, place) \in Nat
         /\ OrderAt(q, place).quantity \in Nat \ {0}
         /\ Taken(q, o, place) <= OrderAt(q, place).quantity
         /\ Taken(q, o, place) <= o.quantity
         /\ Taken(q, o, place) < OrderAt(q, place).quantity
              => o.quantity - Ahead(q, o, place) < OrderAt(q, place).quantity
         /\ o.quantity - Ahead(q, o, place) <= 0 => Taken(q, o, place) = 0
<1> DEFINE k == OrderAt(q, place).quantity
           a == Ahead(q, o, place)
           t == Taken(q, o, place)
<1>1. a \in Nat /\ k \in Nat \ {0} /\ t = Max({0, Min({o.quantity - a, k})})
  BY AheadFacts
<1>2. o.quantity \in Nat
  BY DEF Lot
<1> HIDE DEF k, a, t
<1>3. Min({o.quantity - a, k}) = IF o.quantity - a <= k THEN o.quantity - a ELSE k
  BY <1>1, <1>2, OfTwo
<1> DEFINE m == Min({o.quantity - a, k})
<1>4. m \in Int
  BY <1>1, <1>2, <1>3
<1> HIDE DEF m
<1>5. Max({0, m}) = IF 0 >= m THEN 0 ELSE m
  BY <1>4, OfTwo
<1>6. t = IF 0 >= m THEN 0 ELSE m
  BY <1>1, <1>5 DEF m
<1>7. m = IF o.quantity - a <= k THEN o.quantity - a ELSE k
  BY <1>3 DEF m
<1>8. /\ t \in Nat /\ k \in Nat \ {0} /\ t <= k /\ t <= o.quantity
      /\ t < k => o.quantity - a < k
      /\ o.quantity - a <= 0 => t = 0
  <2>1. PICK amount \in Nat : amount = o.quantity
    BY <1>2
  <2>2. a \in Nat /\ k \in Nat \ {0} /\ m = IF amount - a <= k THEN amount - a ELSE k
    BY <1>1, <1>7, <2>1
  <2>3. m <= amount /\ m <= k /\ (m < k => amount - a < k) /\ (amount - a <= 0 => m <= 0) /\ k > 0
    BY <2>2
  <2>4. /\ t \in Nat /\ t <= k /\ t <= amount
        /\ t < k => amount - a < k
        /\ amount - a <= 0 => t = 0
    BY <1>4, <1>6, <2>2, <2>3
  <2>. QED  BY <2>1, <2>2, <2>4
<1>. QED  BY <1>8 DEF t, k, a

\* Priority orders the places within reach.
LEMMA ReachOrdered ==
  ASSUME NEW q, GoodBook(q), NEW o \in Lot
  PROVE  \A x, y, z \in Reach(q, o) :
           /\ ~Before(x, x)
           /\ Before(x, y) /\ Before(y, z) => Before(x, z)
           /\ x = y \/ Before(x, y) \/ Before(y, x)
<1> DEFINE R == Reach(q, o)
<1>1. \A x \in R : \E s \in Sides : \E p \in Int, n \in Int : x = <<s, p, n>> /\ s # o.side
  <2> TAKE x \in R
  <2>1. PICK s, p, n : MetAt(q, o, x, s, p, n)
    BY ReachFacts
  <2>2. p \in Int
    BY <2>1 DEF MetAt, GoodBook, PricesTyped
  <2>3. n \in Int
    <3>1. <<s, p>> \in Keys /\ n \in DOMAIN q[<<s, p>>]
      BY <2>1 DEF StandsAt, MetAt
    <3>2. q[<<s, p>>] \in Seq(Order)
      BY <3>1 DEF GoodBook, QueuesTyped
    <3>. QED  BY <3>1, <3>2
  <2>. QED  BY <2>1, <2>2, <2>3 DEF MetAt
<1> SUFFICES ASSUME NEW x \in R, NEW y \in R, NEW z \in R
             PROVE  /\ ~Before(x, x)
                    /\ Before(x, y) /\ Before(y, z) => Before(x, z)
                    /\ x = y \/ Before(x, y) \/ Before(y, x)
  OBVIOUS
<1>2. PICK sx \in Sides, px \in Int, nx \in Int : x = <<sx, px, nx>> /\ sx # o.side
  BY <1>1
<1>3. PICK sy \in Sides, py \in Int, ny \in Int : y = <<sy, py, ny>> /\ sy # o.side
  BY <1>1
<1>4. PICK sz \in Sides, pz \in Int, nz \in Int : z = <<sz, pz, nz>> /\ sz # o.side
  BY <1>1
<1>5. sx = sy /\ sy = sz
  <2>1. o.side \in Sides
    BY DEF Lot
  <2>. QED  BY <1>2, <1>3, <1>4, <2>1 DEF Sides
<1>6. Before(x, y) <=> (IF sx = "Buy" THEN px > py ELSE px < py) \/ (px = py /\ nx < ny)
  BY <1>2, <1>3 DEF Before
<1>7. Before(y, z) <=> (IF sx = "Buy" THEN py > pz ELSE py < pz) \/ (py = pz /\ ny < nz)
  BY <1>3, <1>4, <1>5 DEF Before
<1>8. Before(x, z) <=> (IF sx = "Buy" THEN px > pz ELSE px < pz) \/ (px = pz /\ nx < nz)
  BY <1>2, <1>4 DEF Before
<1>9. Before(x, x) <=> (IF sx = "Buy" THEN px > px ELSE px < px) \/ (px = px /\ nx < nx)
  BY <1>2 DEF Before
<1>10. Before(y, x) <=> (IF sx = "Buy" THEN py > px ELSE py < px) \/ (py = px /\ ny < nx)
  BY <1>2, <1>3, <1>5 DEF Before
<1>11. ~Before(x, x)
  BY <1>9
<1>12. Before(x, y) /\ Before(y, z) => Before(x, z)
  BY <1>6, <1>7, <1>8
<1>13. x = y \/ Before(x, y) \/ Before(y, x)
  BY <1>2, <1>3, <1>5, <1>6, <1>10
<1>. QED  BY <1>11, <1>12, <1>13

\* An order that does not fill a resting one takes nothing behind it.
LEMMA NothingBehind ==
  ASSUME NEW q, GoodBook(q), NEW o \in Lot,
         NEW x \in Reach(q, o), NEW y \in Reach(q, o), Before(x, y),
         Taken(q, o, x) < OrderAt(q, x).quantity
  PROVE  Taken(q, o, y) = 0
<1> DEFINE R == Reach(q, o)
           f == [z \in R |-> OrderAt(q, z).quantity]
           S == {z \in R : Before(z, x)}
           T == {z \in R : Before(z, y)}
<1>1. IsFiniteSet(R)
  BY ReachFacts
<1>2. \A z \in R : f[z] \in Nat
  BY AheadFacts
<1>3. S \cup {x} \in SUBSET T /\ x \notin S /\ S \subseteq R
  BY ReachOrdered
<1> HIDE DEF f
<1>4. IsFiniteSet(S) /\ IsFiniteSet(T) /\ IsFiniteSet(S \cup {x})
  BY <1>1, FS_Subset, FS_AddElement
<1>5. SumFunctionOnSet(f, S \cup {x}) = f[x] + SumFunctionOnSet(f, S)
  <2> DEFINE U == S \cup {x}
  <2>1. IsFiniteSet(U) /\ x \in U /\ U \ {x} = S /\ \A z \in U : f[z] \in Int
    BY <1>2, <1>3, <1>4
  <2> HIDE DEF U
  <2>2. SumFunctionOnSet(f, U) = f[x] + SumFunctionOnSet(f, U \ {x})
    BY <2>1, SumTakes
  <2>. QED  BY <2>1, <2>2 DEF U
<1>6. SumFunctionOnSet(f, S \cup {x}) <= SumFunctionOnSet(f, T)
  <2>1. \A z \in T : f[z] \in Nat
    BY <1>2
  <2>. QED  BY <1>3, <1>4, <2>1, SumOfSubset
<1>7. Ahead(q, o, x) = SumFunctionOnSet(f, S) /\ Ahead(q, o, y) = SumFunctionOnSet(f, T)
  BY DEF Ahead, f
<1>8. f[x] = OrderAt(q, x).quantity /\ f[x] \in Nat
  BY <1>2 DEF f
<1>9. Ahead(q, o, x) \in Nat /\ Ahead(q, o, y) \in Nat
  BY AheadFacts
<1>10. o.quantity - Ahead(q, o, x) < f[x]
  BY <1>8, TakenFacts
<1>11. f[x] + Ahead(q, o, x) <= Ahead(q, o, y)
  BY <1>5, <1>6, <1>7
<1>12. o.quantity \in Nat
  BY DEF Lot
<1>13. o.quantity - Ahead(q, o, y) <= 0
  BY <1>8, <1>9, <1>10, <1>11, <1>12
<1>. QED  BY <1>13, TakenFacts

----------------------------------------------------------------------------
(* What is left of a queue                                                 *)

\* A set of natural numbers has a least one.
LEMMA LeastExists ==
  ASSUME NEW S, S \subseteq Nat, S # {}
  PROVE  Min(S) \in S /\ \A n \in S : Min(S) <= n
<1>1. PICK m \in S : \A n \in S : <<n, m>> \notin OpToRel(<, Nat)
  BY NatLessThanWellFounded, WFMin, Zenon
<1>2. \A n \in S : ~(n < m)
  BY <1>1 DEF OpToRel
<1>3. \A n \in S : m <= n
  BY <1>2
<1>. QED  BY <1>3 DEF Min

\* The other side of an order is a side, and not its own.
LEMMA OtherSideIs ==
  ASSUME NEW o \in Lot
  PROVE  OtherSide(o.side) \in Sides /\ OtherSide(o.side) # o.side
<1>1. o.side \in Sides
  BY DEF Lot
<1>2. \E s \in {"Buy", "Sell"} : s # o.side
  BY <1>1 DEF Sides
<1>. QED  BY <1>2, Zenon DEF OtherSide, Sides, Sides

\* The nth place of a queue, as MatchingSpec writes it.
PlaceIn(key, n) == <<key[1], key[2], n>>

\* What o takes at a place, none where it does not reach.
TakenAt(q, o, key, n) ==
  IF PlaceIn(key, n) \in Reach(q, o) THEN Taken(q, o, PlaceIn(key, n)) ELSE 0

\* The order y is what is left of x once k of it are taken.
LeftOf(x, k, y) ==
  /\ y \in Lot
  /\ y.id = x.id /\ y.side = x.side /\ y.price = x.price
  /\ y.participant_id = x.participant_id
  /\ y.quantity = x.quantity - k

\* The orders of s stand in the queue at key, at the places back, but for what o took.
ServedFrom(q, o, key, s, back) ==
  /\ Drawn(q[key], s, back)
  /\ \A n \in DOMAIN s : LeftOf(q[key][back[n]], TakenAt(q, o, key, back[n]), s[n])

\* An order of which part is taken is left with the rest.
LEMMA LessQuantity ==
  ASSUME NEW x \in Order, NEW k \in Nat, k <= x.quantity
  PROVE  LeftOf(x, k, [x EXCEPT !.quantity = @ - k])
<1> DEFINE y == [x EXCEPT !.quantity = @ - k]
<1>1. x.quantity - k \in Nat
  BY DEF Order
<1>2. y \in Lot
  BY <1>1 DEF Order, Lot
<1>3. /\ y.id = x.id /\ y.side = x.side /\ y.price = x.price
      /\ y.participant_id = x.participant_id /\ y.quantity = x.quantity - k
  BY <1>1 DEF Order
<1>. QED  BY <1>2, <1>3 DEF LeftOf

\* An order of which nothing is taken is left as it is.
LEMMA NoneTaken ==
  ASSUME NEW x \in Order
  PROVE  LeftOf(x, 0, x)
BY DEF LeftOf, Order, Lot

\* In a queue, an order takes from the front.
LEMMA TakenAtFacts ==
  ASSUME NEW q, GoodBook(q), NEW o \in Lot, NEW key \in Keys
  PROVE  /\ q[key] \in Seq(Order)
         /\ \A n \in DOMAIN q[key] :
              /\ TakenAt(q, o, key, n) \in Nat /\ TakenAt(q, o, key, n) <= q[key][n].quantity
              /\ q[key][n].quantity \in Nat \ {0}
              /\ OrderAt(q, PlaceIn(key, n)) = q[key][n]
         /\ \A m, n \in DOMAIN q[key] :
              m < n /\ TakenAt(q, o, key, m) < q[key][m].quantity => TakenAt(q, o, key, n) = 0
<1>1. q[key] \in Seq(Order) /\ key = <<key[1], key[2]>> /\ key[1] \in Sides /\ key[2] \in Prices
  BY KeyFacts DEF GoodBook, QueuesTyped
<1>2. \A n \in DOMAIN q[key] : OrderAt(q, PlaceIn(key, n)) = q[key][n]
  BY <1>1 DEF OrderAt, PlaceIn
<1>3. ASSUME NEW n \in DOMAIN q[key]
      PROVE  /\ TakenAt(q, o, key, n) \in Nat /\ TakenAt(q, o, key, n) <= q[key][n].quantity
             /\ q[key][n].quantity \in Nat \ {0}
  <2>1. q[key][n].quantity \in Nat \ {0}
    <3>1. q[key][n] \in Order
      BY <1>1
    <3>. QED  BY <3>1 DEF Order
  <2>2. CASE PlaceIn(key, n) \in Reach(q, o)
    BY <1>2, <2>1, <2>2, TakenFacts DEF TakenAt
  <2>3. CASE PlaceIn(key, n) \notin Reach(q, o)
    BY <2>1, <2>3 DEF TakenAt
  <2>. QED  BY <2>1, <2>2, <2>3
<1>4. ASSUME NEW m \in DOMAIN q[key], NEW n \in DOMAIN q[key], m < n,
             TakenAt(q, o, key, m) < q[key][m].quantity
      PROVE  TakenAt(q, o, key, n) = 0
  <2>1. CASE PlaceIn(key, n) \notin Reach(q, o)
    BY <2>1 DEF TakenAt
  <2>2. CASE PlaceIn(key, n) \in Reach(q, o)
    <3>1. PlaceIn(key, m) \in Reach(q, o)
      <4>1. /\ PlaceIn(key, n) \in Places(q, OtherSide(o.side))
            /\ IF o.side = "Buy" THEN key[2] <= o.price ELSE key[2] >= o.price
        BY <2>2 DEF Reach, PlaceIn
      <4>2. key[1] = OtherSide(o.side)
        <5>1. PICK side \in Sides : side = OtherSide(o.side)
          BY OtherSideIs
        <5>2. PlaceIn(key, n) \in Places(q, side)
          BY <4>1, <5>1
        <5>3. \E p, k : p \in Prices /\ PlaceIn(key, n) = <<side, p, k>> /\ k \in DOMAIN q[<<side, p>>]
          BY <5>2, RestingFacts, Zenon
        <5>. QED  BY <5>1, <5>3 DEF PlaceIn
      <4>3. PlaceIn(key, m) \in Places(q, key[1])
        BY <1>1, RestingFacts DEF PlaceIn
      <4>. QED  BY <4>1, <4>2, <4>3 DEF Reach, PlaceIn
    <3>2. Before(PlaceIn(key, m), PlaceIn(key, n))
      BY <1>4 DEF Before, PlaceIn
    <3>3. Taken(q, o, PlaceIn(key, m)) < OrderAt(q, PlaceIn(key, m)).quantity
      BY <1>2, <1>4, <3>1 DEF TakenAt
    <3>4. Taken(q, o, PlaceIn(key, n)) = 0
      BY <2>2, <3>1, <3>2, <3>3, NothingBehind
    <3>. QED  BY <2>2, <3>4 DEF TakenAt
  <2>. QED  BY <2>1, <2>2
<1>. QED  BY <1>1, <1>2, <1>3, <1>4

\* A queue with what o takes from it, before what is empty leaves.
Reduced(q, o, key) ==
  [n \in DOMAIN q[key] |->
     IF PlaceIn(key, n) \in Reach(q, o)
       THEN [q[key][n] EXCEPT !.quantity = @ - Taken(q, o, PlaceIn(key, n))]
       ELSE q[key][n]]

\* The engine's queue after a match, from the reduced one.
LEMMA ServedIs ==
  ASSUME NEW q, NEW o, NEW key
  PROVE  LET left == {n \in DOMAIN Reduced(q, o, key) : Reduced(q, o, key)[n].quantity > 0}
         IN  Served(q, o, key) =
               IF left = {} THEN << >>
               ELSE SubSeq(Reduced(q, o, key), Min(left), Len(Reduced(q, o, key)))
BY Zenon DEF Served, Reduced, PlaceIn

\* The reduced queue is the old one with what is taken subtracted.
LEMMA ReducedFacts ==
  ASSUME NEW q, GoodBook(q), NEW o \in Lot, NEW key \in Keys
  PROVE  /\ Reduced(q, o, key) \in Seq(Lot)
         /\ Len(Reduced(q, o, key)) = Len(q[key]) /\ Len(q[key]) \in Nat
         /\ DOMAIN q[key] = 1 .. Len(q[key])
         /\ \A n \in 1 .. Len(q[key]) :
              LeftOf(q[key][n], TakenAt(q, o, key, n), Reduced(q, o, key)[n])
<1>1. q[key] \in Seq(Order)
  BY TakenAtFacts
<1>2. Len(q[key]) \in Nat /\ DOMAIN q[key] = 1 .. Len(q[key])
      /\ \A n \in 1 .. Len(q[key]) : q[key][n] \in Order
  BY <1>1
<1> DEFINE r == Reduced(q, o, key)
<1>3. ASSUME NEW n \in 1 .. Len(q[key])
      PROVE  LeftOf(q[key][n], TakenAt(q, o, key, n), r[n])
  <2>1. /\ TakenAt(q, o, key, n) \in Nat /\ TakenAt(q, o, key, n) <= q[key][n].quantity
        /\ q[key][n] \in Order
    BY <1>2, TakenAtFacts
  <2>2. CASE PlaceIn(key, n) \in Reach(q, o)
    <3>1. TakenAt(q, o, key, n) = Taken(q, o, PlaceIn(key, n))
      BY <2>2 DEF TakenAt
    <3>2. r[n] = [q[key][n] EXCEPT !.quantity = @ - Taken(q, o, PlaceIn(key, n))]
      BY <1>2, <2>2, Zenon DEF Reduced
    <3>3. LeftOf(q[key][n], TakenAt(q, o, key, n),
                 [q[key][n] EXCEPT !.quantity = @ - TakenAt(q, o, key, n)])
      BY <2>1, LessQuantity
    <3>. QED  BY <3>1, <3>2, <3>3
  <2>3. CASE PlaceIn(key, n) \notin Reach(q, o)
    <3>1. TakenAt(q, o, key, n) = 0
      BY <2>3 DEF TakenAt
    <3>2. r[n] = q[key][n]
      BY <1>2, <2>3 DEF Reduced
    <3>. QED  BY <2>1, <3>1, <3>2, NoneTaken
  <2>. QED  BY <2>2, <2>3
<1>4. DOMAIN r = 1 .. Len(q[key]) /\ r = [n \in 1 .. Len(q[key]) |-> r[n]]
  BY <1>2 DEF Reduced
<1> HIDE DEF r
<1>5. \A n \in 1 .. Len(q[key]) : r[n] \in Lot
  BY <1>3 DEF LeftOf
<1>6. r \in Seq(Lot) /\ Len(r) = Len(q[key])
  <2>1. PICK k \in Nat : k = Len(q[key])
    BY <1>2
  <2>2. r = [n \in 1 .. k |-> r[n]] /\ \A n \in 1 .. k : r[n] \in Lot
    BY <1>4, <1>5, <2>1
  <2>3. r \in Seq(Lot) /\ Len(r) = k
    BY <2>2
  <2>. QED  BY <2>1, <2>3
<1>. QED  BY <1>2, <1>3, <1>6 DEF r

\* The orders left in a queue are old ones, in order, less what was taken.
LEMMA ServedFacts ==
  ASSUME NEW q, GoodBook(q), NEW o \in Lot, NEW key \in Keys
  PROVE  /\ Served(q, o, key) \in Seq(Order)
         /\ \E back : ServedFrom(q, o, key, Served(q, o, key), back)
<1> DEFINE r == Reduced(q, o, key)
           L == Len(q[key])
           left == {n \in DOMAIN r : r[n].quantity > 0}
           s == Served(q, o, key)
<1>1. /\ r \in Seq(Lot) /\ Len(r) = L /\ L \in Nat /\ DOMAIN q[key] = 1 .. L
      /\ \A n \in 1 .. L : LeftOf(q[key][n], TakenAt(q, o, key, n), r[n])
  BY ReducedFacts
<1>2. s = IF left = {} THEN << >> ELSE SubSeq(r, Min(left), Len(r))
  BY ServedIs
<1> HIDE DEF r, s, L
<1>3. CASE left = {}
  <2>1. s = << >> /\ s \in Seq(Order) /\ DOMAIN s = {}
    BY <1>2, <1>3
  <2>2. ServedFrom(q, o, key, s, << >>)
    BY <2>1 DEF ServedFrom, Drawn
  <2>. QED  BY <2>1, <2>2 DEF s
<1>4. CASE left # {}
  <2>1. DOMAIN r = 1 .. L /\ left \subseteq Nat
    BY <1>1
  <2>2. PICK m : m = Min(left) /\ m \in left /\ m \in 1 .. L
    <3>1. Min(left) \in left
      BY <1>4, <2>1, LeastExists
    <3>. QED  BY <2>1, <3>1
  <2> DEFINE back == [n \in 1 .. L - m + 1 |-> m + n - 1]
  <2>3. s = SubSeq(r, m, L)
    BY <1>1, <1>2, <1>4, <2>2
  <2>4. /\ s \in Seq(Lot) /\ Len(s) = L - m + 1 /\ DOMAIN s = 1 .. L - m + 1
        /\ \A n \in 1 .. L - m + 1 : s[n] = r[m + n - 1]
    <3>1. PICK k \in Nat : k = L /\ r \in Seq(Lot) /\ Len(r) = k
      BY <1>1
    <3>2. m \in 1 .. k /\ s = SubSeq(r, m, k)
      BY <2>2, <2>3, <3>1
    <3>3. s \in Seq(Lot) /\ Len(s) = k - m + 1
      BY <3>1, <3>2
    <3>4. \A n \in 1 .. k - m + 1 : s[n] = r[m + n - 1]
      BY <3>1, <3>2
    <3>. QED  BY <3>1, <3>3, <3>4
  <2>5. \A n \in 1 .. L - m + 1 : m + n - 1 \in 1 .. L /\ (n # 1 => m < m + n - 1)
    BY <1>1, <2>2
  <2>6. ASSUME NEW n \in m .. L PROVE r[n] \in Order
    <3>1. n \in 1 .. L /\ n \in DOMAIN q[key] /\ m \in DOMAIN q[key]
      BY <1>1, <2>2
    <3>2. /\ LeftOf(q[key][n], TakenAt(q, o, key, n), r[n])
          /\ LeftOf(q[key][m], TakenAt(q, o, key, m), r[m])
      BY <1>1, <2>2, <3>1
    <3>3. r[n].quantity > 0
      <4>1. CASE n = m
        BY <2>2, <4>1
      <4>2. CASE n > m
        <5>1. TakenAt(q, o, key, m) \in Nat /\ q[key][m].quantity \in Nat /\ r[m].quantity > 0
          BY <2>2, <3>1, TakenAtFacts
        <5>2. TakenAt(q, o, key, m) < q[key][m].quantity
          BY <3>2, <5>1 DEF LeftOf
        <5>3. TakenAt(q, o, key, n) = 0 /\ q[key][n].quantity \in Nat \ {0}
          BY <3>1, <4>2, <5>2, TakenAtFacts
        <5>. QED  BY <3>2, <5>3 DEF LeftOf
      <4>. QED  BY <2>2, <4>1, <4>2
    <3>4. r[n] \in Lot
      BY <3>2 DEF LeftOf
    <3>. QED  BY <3>3, <3>4 DEF Lot, Order
  <2>7. s \in Seq(Order)
    <3>1. \A n \in 1 .. Len(s) : s[n] \in Order
      <4> SUFFICES ASSUME NEW n \in 1 .. L - m + 1 PROVE s[n] \in Order
        BY <2>4
      <4>1. m + n - 1 \in m .. L
        BY <1>1, <2>2
      <4>. QED  BY <2>4, <2>6, <4>1
    <3>. QED  BY <2>4, <3>1
  <2> HIDE DEF left
  <2>8. ServedFrom(q, o, key, s, back)
    <3>1. \A n \in DOMAIN s : back[n] \in 1 .. L /\ s[n] = r[back[n]]
      BY <2>4, <2>5
    <3>2. \A k, n \in DOMAIN s : back[k] = back[n] => k = n
      BY <2>2, <2>4
    <3> HIDE DEF back
    <3>3. \A n \in DOMAIN s : LeftOf(q[key][back[n]], TakenAt(q, o, key, back[n]), s[n])
      BY <1>1, <3>1
    <3>4. Drawn(q[key], s, back)
      BY <1>1, <3>1, <3>2, <3>3 DEF Drawn, LeftOf
    <3>. QED  BY <3>3, <3>4 DEF ServedFrom
  <2> HIDE DEF back
  <2>. QED  BY <2>7, <2>8 DEF s
<1>. QED  BY <1>3, <1>4

----------------------------------------------------------------------------
(* An order is matched                                                     *)

\* The queue that what is left of o joins.
OwnKey(o) == <<o.side, o.price>>

\* The queues once an order has been matched, before what is left of it joins them.
MatchedWith(q, o) ==
  [key \in DOMAIN q |-> IF key # OwnKey(o) THEN Served(q, o, key) ELSE q[key]]

\* An order takes nothing on its own side.
LEMMA NoneOfOwnSide ==
  ASSUME NEW q, GoodBook(q), NEW o \in Lot, NEW key \in Keys, key[1] = o.side, NEW n
  PROVE  TakenAt(q, o, key, n) = 0
<1>1. ASSUME PlaceIn(key, n) \in Reach(q, o) PROVE FALSE
  <2>1. PICK side, p, k : MetAt(q, o, PlaceIn(key, n), side, p, k)
    BY <1>1, ReachFacts
  <2>. QED  BY <2>1 DEF PlaceIn, MetAt
<1>. QED  BY <1>1 DEF TakenAt

\* Once an order has been matched the book is still a good one.
LEMMA MatchedFacts ==
  ASSUME NEW q, GoodBook(q), NEW o \in Lot
  PROVE  /\ GoodBook(MatchedWith(q, o))
         /\ \A key \in Keys : \E back : ServedFrom(q, o, key, MatchedWith(q, o)[key], back)
<1> DEFINE m == MatchedWith(q, o)
<1>1. DOMAIN m = Keys
  BY DEF MatchedWith, GoodBook, QueuesTyped
<1>2. ASSUME NEW key \in Keys
      PROVE  m[key] \in Seq(Order) /\ \E back : ServedFrom(q, o, key, m[key], back)
  <2>1. CASE key # OwnKey(o)
    <3>1. m[key] = Served(q, o, key)
      BY <2>1 DEF MatchedWith, GoodBook, QueuesTyped
    <3>2. PICK back : ServedFrom(q, o, key, Served(q, o, key), back)
      BY ServedFacts
    <3>3. ServedFrom(q, o, key, m[key], back)
      BY <3>1, <3>2
    <3>4. m[key] \in Seq(Order)
      BY <3>1, ServedFacts
    <3>. QED  BY <3>3, <3>4
  <2>2. CASE key = OwnKey(o)
    <3>1. m[key] = q[key] /\ q[key] \in Seq(Order)
      BY <2>2 DEF MatchedWith, GoodBook, QueuesTyped
    <3>2. key[1] = o.side
      BY <2>2 DEF OwnKey
    <3> DEFINE back == [n \in DOMAIN q[key] |-> n]
    <3>3. \A n \in DOMAIN q[key] : LeftOf(q[key][n], TakenAt(q, o, key, n), q[key][n])
      <4> TAKE n \in DOMAIN q[key]
      <4>1. TakenAt(q, o, key, n) = 0 /\ q[key][n] \in Order
        BY <3>1, <3>2, NoneOfOwnSide
      <4>. QED  BY <4>1, NoneTaken
    <3>4. Drawn(q[key], q[key], back)
      BY DEF Drawn
    <3>5. ServedFrom(q, o, key, q[key], back)
      BY <3>3, <3>4 DEF ServedFrom
    <3> HIDE DEF back
    <3>. QED  BY <3>1, <3>5
  <2>. QED  BY <2>1, <2>2
<1> HIDE DEF m
<1>3. ASSUME NEW key \in Keys, NEW n \in DOMAIN m[key]
      PROVE  <<m[key][n].side, m[key][n].price>> = key
  <2>1. PICK back : ServedFrom(q, o, key, m[key], back)
    BY <1>2
  <2>2. back[n] \in DOMAIN q[key] /\ m[key][n].side = q[key][back[n]].side
        /\ m[key][n].price = q[key][back[n]].price
    BY <1>3, <2>1 DEF ServedFrom, Drawn
  <2>3. <<q[key][back[n]].side, q[key][back[n]].price>> = key
    BY <2>2 DEF GoodBook, QueuesTyped
  <2>. QED  BY <2>2, <2>3
<1>4. IdsUnique(m)
  <2> SUFFICES ASSUME NEW k1 \in Keys, NEW k2 \in Keys,
                      NEW n1 \in DOMAIN m[k1], NEW n2 \in DOMAIN m[k2],
                      m[k1][n1].id = m[k2][n2].id
               PROVE  k1 = k2 /\ n1 = n2
    BY DEF IdsUnique
  <2>1. PICK b1 : ServedFrom(q, o, k1, m[k1], b1)
    BY <1>2
  <2>2. PICK b2 : ServedFrom(q, o, k2, m[k2], b2)
    BY <1>2
  <2>3. PICK x \in DOMAIN q[k1] : x = b1[n1] /\ m[k1][n1].id = q[k1][x].id
    BY <2>1 DEF ServedFrom, Drawn
  <2>4. PICK y \in DOMAIN q[k2] : y = b2[n2] /\ m[k2][n2].id = q[k2][y].id
    BY <2>2 DEF ServedFrom, Drawn
  <2>5. k1 = k2
    <3>1. q[k1][x].id = q[k2][y].id
      BY <2>3, <2>4
    <3>. QED  BY <3>1 DEF GoodBook, IdsUnique
  <2>6. PICK z \in DOMAIN q[k1] : z = b1[n2] /\ m[k1][n2].id = q[k1][z].id
    BY <2>1, <2>5 DEF ServedFrom, Drawn
  <2>7. b1[n1] = b1[n2]
    <3>1. q[k1][x].id = q[k1][z].id
      BY <2>3, <2>5, <2>6
    <3>2. x = z
      BY <3>1 DEF GoodBook, IdsUnique
    <3>. QED  BY <2>3, <2>6, <3>2
  <2>8. n1 = n2
    BY <2>1, <2>5, <2>7 DEF ServedFrom, Drawn
  <2>. QED  BY <2>5, <2>8
<1>5. QueuesTyped(m)
  BY <1>1, <1>2, <1>3 DEF QueuesTyped
<1>. QED  BY <1>2, <1>4, <1>5 DEF GoodBook, m

\* What is left of an order is no more than it asked for, and all if it reaches nothing.
LEMMA LeftFacts ==
  ASSUME NEW q, GoodBook(q), NEW o \in Lot
  PROVE  /\ Left(q, o) \in Int
         /\ Left(q, o) <= o.quantity
         /\ Reach(q, o) = {} => Left(q, o) = o.quantity
<1> DEFINE R == Reach(q, o)
           f == [x \in R |-> Taken(q, o, x)]
<1>1. Left(q, o) = o.quantity - SumFunction(f)
  BY DEF Left
<1>2. SumFunction(f) = SumFunctionOnSet(f, R)
  <2>1. DOMAIN f = R
    OBVIOUS
  <2>. QED  BY <2>1, Zenon DEF SumFunction
<1>3. IsFiniteSet(R) /\ \A x \in R : f[x] \in Nat
  BY ReachFacts, TakenFacts
<1> HIDE DEF f
<1>4. SumFunctionOnSet(f, R) \in Int
  BY <1>3, SumIsInteger
<1>5. SumFunctionOnSet(f, {}) <= SumFunctionOnSet(f, R)
  BY <1>3, SumOfSubset
<1>6. SumFunctionOnSet(f, {}) = 0
  BY SumOfNone
<1>7. o.quantity \in Nat
  BY DEF Lot
<1> DEFINE sum == SumFunctionOnSet(f, R)
<1>8. sum \in Int /\ 0 <= sum /\ Left(q, o) = o.quantity - sum
  BY <1>1, <1>2, <1>4, <1>5, <1>6
<1>9. R = {} => sum = 0
  BY <1>6
<1> HIDE DEF sum
<1>. QED  BY <1>7, <1>8, <1>9

\* What is left of o.
Remainder(q, o) == [o EXCEPT !.quantity = Left(q, o)]

\* What is left of an order is an order with the same identity.
LEMMA RemainderFacts ==
  ASSUME NEW q, GoodBook(q), NEW o \in Order, Left(q, o) > 0
  PROVE  /\ Remainder(q, o) \in Order
         /\ Remainder(q, o).id = o.id /\ Remainder(q, o).side = o.side
         /\ Remainder(q, o).price = o.price
         /\ Remainder(q, o).participant_id = o.participant_id
         /\ Remainder(q, o).quantity = Left(q, o)
<1>1. PICK k \in Nat \ {0} : k = Left(q, o)
  BY LeftFacts, OrderIsLot
<1>2. Remainder(q, o) = [o EXCEPT !.quantity = k]
  BY <1>1 DEF Remainder
<1>3. LET x == [o EXCEPT !.quantity = k]
      IN  /\ x \in Order /\ x.id = o.id /\ x.side = o.side /\ x.price = o.price
          /\ x.participant_id = o.participant_id /\ x.quantity = k
  BY DEF Order
<1>. QED  BY <1>1, <1>2, <1>3

\* Executing an order is matching it and adding what is left.
LEMMA ExecuteIs ==
  ASSUME NEW q, GoodBook(q), NEW o \in Order
  PROVE  AfterExecute(q, o) =
           IF Left(q, o) > 0 /\ OwnKey(o) \in Keys
             THEN AfterAdd(MatchedWith(q, o), Remainder(q, o))
             ELSE MatchedWith(q, o)
<1> DEFINE k == OwnKey(o)
           m == MatchedWith(q, o)
           left == Left(q, o)
<1>1. AfterExecute(q, o) =
        [key \in DOMAIN q |-> IF key # k THEN Served(q, o, key)
                              ELSE IF left > 0 THEN Append(q[key], Remainder(q, o)) ELSE q[key]]
  BY Zenon DEF AfterExecute, OwnKey, Remainder
<1>2. m = [key \in DOMAIN q |-> IF key # k THEN Served(q, o, key) ELSE q[key]]
  BY DEF MatchedWith
<1>3. DOMAIN q = Keys
  BY DEF GoodBook, QueuesTyped
<1>4. left > 0 => AfterAdd(m, Remainder(q, o))
                    = [m EXCEPT ![k] = Append(m[k], Remainder(q, o))]
  <2> SUFFICES ASSUME left > 0
               PROVE  AfterAdd(m, Remainder(q, o))
                        = [m EXCEPT ![k] = Append(m[k], Remainder(q, o))]
    OBVIOUS
  <2>1. <<Remainder(q, o).side, Remainder(q, o).price>> = k
    BY RemainderFacts DEF OwnKey
  <2> HIDE DEF k, m, left
  <2>. QED  BY <2>1, Zenon DEF AfterAdd
<1> HIDE DEF k, m, left
<1>5. CASE left > 0 /\ k \in Keys
  <2> DEFINE a == [m EXCEPT ![k] = Append(m[k], Remainder(q, o))]
  <2>1. m[k] = q[k] /\ DOMAIN m = Keys
    BY <1>2, <1>3, <1>5
  <2>2. a = [key \in Keys |-> IF key # k THEN Served(q, o, key)
                              ELSE Append(q[key], Remainder(q, o))]
    BY <1>2, <1>3, <1>5, <2>1
  <2>3. AfterExecute(q, o) = a
    BY <1>1, <1>3, <1>5, <2>2
  <2>. QED  BY <1>4, <1>5, <2>3 DEF k, m, left
<1>6. CASE ~(left > 0)
  BY <1>1, <1>2, <1>6 DEF k, m, left
<1>7. CASE k \notin Keys
  <2>1. AfterExecute(q, o) = m
    BY <1>1, <1>2, <1>3, <1>7
  <2>. QED  BY <1>7, <2>1 DEF k, m, left
<1>. QED  BY <1>5, <1>6, <1>7

\* What rests once an order has been matched: what is left of it, and what is
\* left of the orders it met.
LEMMA ExecutesOrder ==
  ASSUME NEW q, GoodBook(q), NEW o \in Order, \A x \in RestingIn(q) : x.id # o.id
  PROVE  /\ GoodBook(AfterExecute(q, o))
         /\ \A x \in RestingIn(AfterExecute(q, o)) :
              \/ x = Remainder(q, o) /\ Left(q, o) > 0
              \/ \E key \in Keys : \E n \in DOMAIN q[key] :
                   LeftOf(q[key][n], TakenAt(q, o, key, n), x)
<1> DEFINE m == MatchedWith(q, o)
           after == AfterExecute(q, o)
           From(x) == \E key \in Keys : \E n \in DOMAIN q[key] :
                        LeftOf(q[key][n], TakenAt(q, o, key, n), x)
<1>1. GoodBook(m) /\ \A key \in Keys : \E back : ServedFrom(q, o, key, m[key], back)
  BY MatchedFacts, OrderIsLot
<1> HIDE DEF m
<1>2. ASSUME NEW x \in RestingIn(m)
      PROVE  From(x) /\ x.id # o.id
  <2>1. PICK key, n : StandsAt(m, x, key, n)
    BY RestingFacts
  <2>2. key \in Keys /\ n \in DOMAIN m[key] /\ x = m[key][n]
    BY <2>1 DEF StandsAt
  <2>3. PICK back : ServedFrom(q, o, key, m[key], back)
    BY <1>1, <2>2
  <2>4. PICK i \in DOMAIN q[key] : LeftOf(q[key][i], TakenAt(q, o, key, i), x)
    BY <2>2, <2>3 DEF ServedFrom, Drawn
  <2>5. StandsAt(q, q[key][i], key, i)
    BY <2>2 DEF StandsAt
  <2>6. q[key][i].id # o.id
    BY <2>5, RestingFacts
  <2>. QED  BY <2>2, <2>4, <2>6 DEF LeftOf
<1> HIDE DEF From
<1>3. after = IF Left(q, o) > 0 /\ OwnKey(o) \in Keys
                THEN AfterAdd(m, Remainder(q, o)) ELSE m
  BY ExecuteIs DEF m
<1> HIDE DEF after
<1>4. CASE Left(q, o) > 0 /\ OwnKey(o) \in Keys
  <2> DEFINE r == Remainder(q, o)
  <2>1. r \in Order /\ r.id = o.id /\ r.price = o.price
    BY <1>4, RemainderFacts
  <2>2. r.price \in Prices
    <3>1. o.price \in Prices
      BY <1>4 DEF Keys, OwnKey
    <3>. QED  BY <2>1, <3>1
  <2> HIDE DEF r
  <2>3. \A x \in RestingIn(m) : x.id # r.id
    BY <1>2, <2>1
  <2>4. GoodBook(AfterAdd(m, r))
        /\ RestingIn(AfterAdd(m, r)) = RestingIn(m) \cup {r}
    BY <1>1, <2>1, <2>2, <2>3, AddsOrder
  <2>5. after = AfterAdd(m, r)
    BY <1>3, <1>4 DEF r
  <2>. QED  BY <1>2, <1>4, <2>4, <2>5 DEF after, r, From
<1>5. CASE ~(Left(q, o) > 0 /\ OwnKey(o) \in Keys)
  <2>1. after = m
    BY <1>3, <1>5
  <2>. QED  BY <1>1, <1>2, <2>1 DEF after, From
<1>. QED  BY <1>4, <1>5

\* The places an order takes from, and the nth of them.
Makers(q, o) == {x \in Reach(q, o) : Taken(q, o, x) > 0}
\* The place of the nth order met.
Nth(q, o, n) ==
  CHOOSE x \in Makers(q, o) : Cardinality({y \in Makers(q, o) : Before(y, x)}) = n - 1

\* The fills of an order, one for each order met.
LEMMA FillsIs ==
  ASSUME NEW q, NEW o
  PROVE  Fills(q, o) =
           [n \in 1 .. Cardinality(Makers(q, o)) |-> Fill(q, o, Nth(q, o, n))]
<1>1. Fills(q, o) =
           [n \in 1 .. Cardinality(Makers(q, o)) |-> Fill(q, o, Nth(q, o, n))]
  BY Zenon DEF Fills, Makers, Nth
<1>. QED  BY <1>1

\* An order that reaches nothing trades nothing and joins the book.
LEMMA NothingReached ==
  ASSUME NEW q, GoodBook(q), NEW o \in Order, \A x \in RestingIn(q) : x.id # o.id,
         Reach(q, o) = {}
  PROVE  /\ Fills(q, o) = << >>
         /\ Left(q, o) = o.quantity
         /\ GoodBook(AfterExecute(q, o))
         /\ RestingIn(AfterExecute(q, o))
              = RestingIn(q) \cup (IF o.price \in Prices THEN {o} ELSE {})
<1>1. Fills(q, o) = << >>
  <2>1. Makers(q, o) = {}
    BY DEF Makers
  <2>2. Cardinality(Makers(q, o)) = 0
    BY <2>1, FS_EmptySet
  <2>3. Fills(q, o) = [n \in 1 .. 0 |-> Fill(q, o, Nth(q, o, n))]
    BY <2>2, FillsIs
  <2>. QED  BY <2>3
<1>2. Left(q, o) = o.quantity /\ o.quantity > 0
  BY LeftFacts, OrderIsLot DEF Order
<1>3. DOMAIN q = Keys
  BY DEF GoodBook, QueuesTyped
<1>4. ASSUME NEW key \in Keys
      PROVE  Served(q, o, key) = q[key]
  <2> DEFINE s == q[key]
             r == Reduced(q, o, key)
             left == {n \in DOMAIN r : r[n].quantity > 0}
  <2>1. s \in Seq(Order)
    BY DEF GoodBook, QueuesTyped
  <2>2. r = s
    <3>1. r = [n \in DOMAIN s |-> s[n]]
      BY DEF Reduced
    <3> HIDE DEF s, r
    <3>. QED  BY <2>1, <3>1
  <2>3. Served(q, o, key) = IF left = {} THEN << >> ELSE SubSeq(r, Min(left), Len(r))
    BY ServedIs
  <2> HIDE DEF s, r
  <2>4. left = 1 .. Len(s) /\ Len(s) \in Nat
    <3>1. \A n \in DOMAIN s : s[n].quantity > 0
      <4> TAKE n \in DOMAIN s
      <4>1. s[n] \in Order
        BY <2>1
      <4>. QED  BY <4>1 DEF Order
    <3>. QED  BY <2>1, <2>2, <3>1
  <2> HIDE DEF left
  <2>5. CASE Len(s) = 0
    BY <2>1, <2>3, <2>4, <2>5 DEF s
  <2>6. CASE Len(s) > 0
    <3>1. 1 \in left /\ \A n \in left : n \in Int /\ 1 <= n
      BY <2>4, <2>6
    <3>2. Min(left) = 1
      BY <3>1 DEF Min
    <3>3. Served(q, o, key) = SubSeq(s, 1, Len(s))
      BY <2>2, <2>3, <3>1, <3>2
    <3>4. SubSeq(s, 1, Len(s)) = s
      BY <2>1
    <3>. QED  BY <3>3, <3>4 DEF s
  <2>. QED  BY <2>4, <2>5, <2>6
<1> DEFINE m == MatchedWith(q, o)
<1>5. m = [key \in Keys |-> q[key]]
  BY <1>3, <1>4 DEF MatchedWith
<1>6. DOMAIN m = Keys /\ \A key \in Keys : m[key] = q[key]
  BY <1>5
<1>7. GoodBook(m)
  BY MatchedFacts, OrderIsLot
<1> HIDE DEF m
<1>8. \A x : x \in RestingIn(m) <=> x \in RestingIn(q)
  <2>1. \A x, key, n : StandsAt(m, x, key, n) <=> StandsAt(q, x, key, n)
    BY <1>6 DEF StandsAt
  <2>. QED  BY <2>1, RestingFacts
<1>9. Remainder(q, o) = o
  BY <1>2 DEF Remainder, Order
<1>10. OwnKey(o) \in Keys <=> o.price \in Prices
  <2>1. o.side \in Sides
    BY DEF Order
  <2>. QED  BY <2>1 DEF OwnKey, Keys
<1>11. AfterExecute(q, o) = IF o.price \in Prices THEN AfterAdd(m, o) ELSE m
  BY <1>2, <1>9, <1>10, ExecuteIs DEF m
<1>12. CASE o.price \in Prices
  <2>1. \A x \in RestingIn(m) : x.id # o.id
    BY <1>8
  <2>2. GoodBook(AfterAdd(m, o))
        /\ RestingIn(AfterAdd(m, o)) = RestingIn(m) \cup {o}
    BY <1>7, <1>12, <2>1, AddsOrder
  <2>. QED  BY <1>1, <1>2, <1>8, <1>11, <1>12, <2>2
<1>13. CASE o.price \notin Prices
  BY <1>1, <1>2, <1>7, <1>8, <1>11, <1>13
<1>. QED  BY <1>12, <1>13

----------------------------------------------------------------------------
(* The trades                                                              *)

\* What is reported of a fill.
Trade == [maker_order_id : OrderIds, taker_order_id : OrderIds, price : Prices, quantity : Nat,
          aggressor_side : Sides, maker_participant_id : Participants,
          taker_participant_id : Participants, symbol_id : {DefaultSymbol}]

\* How many of the orders met have priority over the one at x.
Rank(q, o, x) == Cardinality({y \in Makers(q, o) : Before(y, x)})

\* The orders met are numbered by their priority.
LEMMA NthFacts ==
  ASSUME NEW q, GoodBook(q), NEW o \in Lot
  PROVE  /\ Cardinality(Makers(q, o)) \in Nat
         /\ \A n \in 1 .. Cardinality(Makers(q, o)) : Nth(q, o, n) \in Makers(q, o)
         /\ \A m, n \in 1 .. Cardinality(Makers(q, o)) : Nth(q, o, m) = Nth(q, o, n) => m = n
         /\ \A x \in Makers(q, o) : \E n \in 1 .. Cardinality(Makers(q, o)) : Nth(q, o, n) = x
         /\ \A n \in 1 .. Cardinality(Makers(q, o)) : Rank(q, o, Nth(q, o, n)) = n - 1
         /\ \A x \in Makers(q, o) : Rank(q, o, x) \in Nat
         /\ \A x, y \in Makers(q, o) : Before(x, y) => Rank(q, o, x) < Rank(q, o, y)
<1> DEFINE S == Makers(q, o)
           c == Cardinality(S)
           below(x) == {y \in S : Before(y, x)}
           rank == [x \in S |-> Cardinality(below(x))]
<1>1. IsFiniteSet(S)
  BY ReachFacts, FS_Subset DEF Makers
<1>2. c \in Nat
  BY <1>1, FS_CardinalityType
<1>3. \A x, y, z \in S :
        /\ ~Before(x, x)
        /\ Before(x, y) /\ Before(y, z) => Before(x, z)
        /\ x = y \/ Before(x, y) \/ Before(y, x)
  BY ReachOrdered DEF Makers
<1> HIDE DEF S
<1>4. ASSUME NEW x \in S
      PROVE  rank[x] \in 0 .. c - 1
  <2>1. below(x) \subseteq S \ {x}
    BY <1>3
  <2>2. IsFiniteSet(S \ {x}) /\ Cardinality(S \ {x}) = c - 1
    BY <1>1, FS_RemoveElement
  <2>3. IsFiniteSet(below(x)) /\ Cardinality(below(x)) <= Cardinality(S \ {x})
    BY <2>1, <2>2, FS_Subset
  <2>4. Cardinality(below(x)) \in Nat
    BY <2>3, FS_CardinalityType
  <2>. QED  BY <1>2, <2>2, <2>3, <2>4
<1>5. ASSUME NEW x \in S, NEW y \in S, Before(x, y)
      PROVE  rank[x] < rank[y]
  <2>1. below(x) \cup {x} \subseteq below(y) /\ x \notin below(x)
    BY <1>3, <1>5
  <2>2. IsFiniteSet(below(x)) /\ IsFiniteSet(below(y))
    BY <1>1, FS_Subset
  <2>3. Cardinality(below(x) \cup {x}) = Cardinality(below(x)) + 1
    BY <2>1, <2>2, FS_AddElement
  <2>4. Cardinality(below(x) \cup {x}) <= Cardinality(below(y))
    BY <2>1, <2>2, FS_Subset
  <2>5. rank[x] \in Int /\ rank[y] \in Int
    BY <1>4
  <2>. QED  BY <2>3, <2>4, <2>5
<1>6. \A x, y \in S : rank[x] = rank[y] => x = y
  <2> SUFFICES ASSUME NEW x \in S, NEW y \in S, rank[x] = rank[y], x # y PROVE FALSE
    OBVIOUS
  <2>1. rank[x] < rank[y] \/ rank[y] < rank[x]
    BY <1>3, <1>5
  <2>2. rank[x] \in Int /\ rank[y] \in Int
    BY <1>4
  <2> HIDE DEF rank
  <2>. QED  BY <2>1, <2>2
<1>7. rank \in Injection(S, 0 .. c - 1)
  <2>1. rank \in [S -> 0 .. c - 1]
    BY <1>4
  <2> HIDE DEF rank
  <2>. QED  BY <1>6, <2>1 DEF Injection, IsInjective
<1>8. IsFiniteSet(0 .. c - 1) /\ Cardinality(0 .. c - 1) = c
  <2>1. c - 1 \in Int
    BY <1>2
  <2>2. IsFiniteSet(0 .. c - 1)
        /\ Cardinality(0 .. c - 1) = IF 0 > c - 1 THEN 0 ELSE (c - 1) - 0 + 1
    BY <2>1, FS_Interval
  <2>. QED  BY <1>2, <2>2
<1>9. rank \in Surjection(S, 0 .. c - 1)
  BY <1>7, <1>8, FS_Injection
<1>10. \A n \in 0 .. c - 1 : \E x \in S : rank[x] = n
  BY <1>9 DEF Surjection
<1>11. \A n : Nth(q, o, n) = CHOOSE x \in S : rank[x] = n - 1
  <2> TAKE n
  <2>1. Nth(q, o, n) = CHOOSE x \in S : Cardinality(below(x)) = n - 1
    <3>1. \A x : Cardinality(below(x)) = Cardinality(below(x))
      OBVIOUS
    <3>2. Nth(q, o, n) = CHOOSE x \in S : Cardinality(below(x)) = n - 1
      BY Zenon DEF Nth, S
    <3> HIDE DEF below
    <3>. QED  BY <3>1, <3>2
  <2>. QED  BY <2>1
<1> HIDE DEF rank, c
<1>12. \A n \in 1 .. c : Nth(q, o, n) \in S /\ rank[Nth(q, o, n)] = n - 1
  <2> TAKE n \in 1 .. c
  <2>1. n - 1 \in 0 .. c - 1
    BY <1>2
  <2>2. \E x \in S : rank[x] = n - 1
    BY <1>10, <2>1
  <2>. QED  BY <1>11, <2>2
<1>13. \A m, n \in 1 .. c : Nth(q, o, m) = Nth(q, o, n) => m = n
  BY <1>2, <1>12
<1>14. \A x \in S : \E n \in 1 .. c : Nth(q, o, n) = x
  <2> TAKE x \in S
  <2>1. rank[x] + 1 \in 1 .. c /\ (rank[x] + 1) - 1 = rank[x]
    BY <1>2, <1>4
  <2>2. Nth(q, o, rank[x] + 1) = x
    BY <1>6, <1>12, <2>1
  <2>. QED  BY <2>1, <2>2
<1>15. \A x \in S : rank[x] = Rank(q, o, x)
  BY DEF rank, S, Rank
<1>16. \A n \in 1 .. c : Rank(q, o, Nth(q, o, n)) = n - 1
  BY <1>12, <1>15
<1>17. \A x \in S : Rank(q, o, x) \in Nat
  BY <1>4, <1>15
<1>18. \A x, y \in S : Before(x, y) => Rank(q, o, x) < Rank(q, o, y)
  BY <1>5, <1>15
<1>. QED  BY <1>2, <1>12, <1>13, <1>14, <1>16, <1>17, <1>18 DEF S, c

\* The fills are trades, in the order of the places met.
LEMMA FillsFacts ==
  ASSUME NEW q, GoodBook(q), NEW o \in Lot
  PROVE  /\ Fills(q, o) \in Seq(Trade)
         /\ Len(Fills(q, o)) = Cardinality(Makers(q, o))
         /\ \A n \in 1 .. Cardinality(Makers(q, o)) :
              Fills(q, o)[n] = Fill(q, o, Nth(q, o, n))
<1> DEFINE f == Fills(q, o)
<1>1. PICK c \in Nat : c = Cardinality(Makers(q, o))
  BY NthFacts
<1>2. f = [n \in 1 .. c |-> Fill(q, o, Nth(q, o, n))]
  BY <1>1, FillsIs
<1>3. ASSUME NEW n \in 1 .. c
      PROVE  Fill(q, o, Nth(q, o, n)) \in Trade
  <2>1. PICK x \in Reach(q, o) : x = Nth(q, o, n)
    BY <1>1, NthFacts DEF Makers
  <2>2. PICK side, p, k : MetAt(q, o, x, side, p, k)
    BY <2>1, ReachFacts
  <2>3. x[2] \in Prices
    BY <2>2 DEF MetAt
  <2>4. OrderAt(q, x).id \in OrderIds /\ OrderAt(q, x).participant_id \in Participants
    BY <2>2 DEF Order, MetAt
  <2>5. Taken(q, o, x) \in Nat
    BY TakenFacts
  <2>6. o.id \in OrderIds /\ o.participant_id \in Participants /\ o.side \in Sides /\ o.symbol_id \in {DefaultSymbol}
    BY DEF Lot
  <2>. QED  BY <2>1, <2>3, <2>4, <2>5, <2>6 DEF Fill, Trade
<1> HIDE DEF f
<1>4. f \in Seq(Trade) /\ Len(f) = c
  BY <1>2, <1>3
<1>. QED  BY <1>1, <1>2, <1>4 DEF f

----------------------------------------------------------------------------
(* The first fill                                                          *)

\* A sum is the same over the places of another set that match its own.
LEMMA SumMatched ==
  ASSUME NEW S, IsFiniteSet(S), NEW f, NEW g, NEW h,
         \A x \in S : g[x] \in Int /\ f[h[x]] = g[x],
         \A x, y \in S : h[x] = h[y] => x = y
  PROVE  LET T == {h[x] : x \in S}
         IN  IsFiniteSet(T) /\ SumFunctionOnSet(f, T) = SumFunctionOnSet(g, S)
<1> DEFINE Image(R) == {h[x] : x \in R}
           K == {R \in SUBSET S : /\ IsFiniteSet(Image(R))
                                  /\ SumFunctionOnSet(f, Image(R)) = SumFunctionOnSet(g, R)}
<1>1. {} \in K
  <2>1. Image({}) = {}
    OBVIOUS
  <2>2. SumFunctionOnSet(f, Image({})) = 0 /\ SumFunctionOnSet(g, {}) = 0 /\ IsFiniteSet(Image({}))
    BY <2>1, SumOfNone, FS_EmptySet
  <2>. QED  BY <2>2
<1>2. ASSUME NEW R \in SUBSET S, NEW a \in S \ R, R \in K
      PROVE  R \cup {a} \in K
  <2> DEFINE Q == R \cup {a}
  <2>1. IsFiniteSet(Image(R)) /\ SumFunctionOnSet(f, Image(R)) = SumFunctionOnSet(g, R)
    BY <1>2
  <2>2. Image(Q) = Image(R) \cup {h[a]} /\ h[a] \notin Image(R)
    OBVIOUS
  <2>3. IsFiniteSet(Image(Q)) /\ IsFiniteSet(Q) /\ Q \ {a} = R /\ Image(Q) \ {h[a]} = Image(R)
    BY <2>1, <2>2, FS_AddElement, FS_Subset
  <2>4. SumFunctionOnSet(g, Q) = g[a] + SumFunctionOnSet(g, Q \ {a})
    BY <2>3, SumTakes
  <2>5. SumFunctionOnSet(f, Image(Q)) = f[h[a]] + SumFunctionOnSet(f, Image(Q) \ {h[a]})
    <3>1. \A y \in Image(Q) : f[y] \in Int
      OBVIOUS
    <3>2. h[a] \in Image(Q)
      BY <2>2
    <3> HIDE DEF Image
    <3>. QED  BY <2>3, <3>1, <3>2, SumTakes
  <2>6. SumFunctionOnSet(f, Image(Q)) = SumFunctionOnSet(g, Q)
    BY <2>1, <2>3, <2>4, <2>5
  <2>. QED  BY <2>3, <2>6
<1> HIDE DEF K
<1>3. S \in K
  BY <1>1, <1>2, FiniteInduction
<1>. QED  BY <1>3 DEF K

\* So many different things are that many.
LEMMA CountOf ==
  ASSUME NEW k \in Nat, NEW g, \A i, j \in 1 .. k : g[i] = g[j] => i = j
  PROVE  Cardinality({g[i] : i \in 1 .. k}) = k
<1> DEFINE T == {g[i] : i \in 1 .. k}
           b == [i \in 1 .. k |-> g[i]]
<1>1. IsFiniteSet(1 .. k) /\ Cardinality(1 .. k) = k
  <2>1. 1 \in Int /\ k \in Int
    OBVIOUS
  <2>2. IsFiniteSet(1 .. k) /\ Cardinality(1 .. k) = IF 1 > k THEN 0 ELSE k - 1 + 1
    BY <2>1, FS_Interval
  <2>. QED  BY <2>2
<1>2. b \in Bijection(1 .. k, T)
  <2>1. b \in [1 .. k -> T]
    OBVIOUS
  <2>2. \A i, j \in 1 .. k : b[i] = b[j] => i = j
    OBVIOUS
  <2>3. \A t \in T : \E i \in 1 .. k : b[i] = t
    OBVIOUS
  <2> HIDE DEF b, T
  <2>. QED  BY <2>1, <2>2, <2>3 DEF Bijection, Injection, IsInjective, Surjection
<1>3. ExistsBijection(1 .. k, T)
  BY <1>2 DEF ExistsBijection
<1>. QED  BY <1>1, <1>3, FS_Bijection

\* Orders met that are listed in the order of priority are the nth ones.
LEMMA NthIs ==
  ASSUME NEW q, GoodBook(q), NEW o \in Lot, NEW m \in Nat, NEW g,
         \A n \in 1 .. m : g[n] \in Makers(q, o),
         \A x \in Makers(q, o) : \E n \in 1 .. m : g[n] = x,
         \A i, j \in 1 .. m : i < j => Before(g[i], g[j])
  PROVE  Cardinality(Makers(q, o)) = m /\ \A n \in 1 .. m : Nth(q, o, n) = g[n]
<1> DEFINE S == Makers(q, o)
<1>1. \A x, y, z \in S :
        /\ ~Before(x, x)
        /\ Before(x, y) /\ Before(y, z) => Before(x, z)
        /\ x = y \/ Before(x, y) \/ Before(y, x)
  BY ReachOrdered DEF Makers
<1>2. \A i, j \in 1 .. m : g[i] = g[j] => i = j
  <2> SUFFICES ASSUME NEW i \in 1 .. m, NEW j \in 1 .. m, g[i] = g[j], i # j PROVE FALSE
    OBVIOUS
  <2>1. i < j \/ j < i
    OBVIOUS
  <2>. QED  BY <1>1, <2>1
<1>3. S = {g[n] : n \in 1 .. m}
  OBVIOUS
<1>4. Cardinality(S) = m
  BY <1>2, <1>3, CountOf
<1>5. ASSUME NEW n \in 1 .. m PROVE Rank(q, o, g[n]) = n - 1
  <2> DEFINE T == {y \in S : Before(y, g[n])}
             U == {g[k] : k \in 1 .. n - 1}
  <2>1. U \subseteq T
    <3> SUFFICES ASSUME NEW u \in U PROVE u \in T
      OBVIOUS
    <3>1. PICK k \in 1 .. n - 1 : u = g[k]
      OBVIOUS
    <3>2. k \in 1 .. m /\ k < n
      OBVIOUS
    <3>. QED  BY <3>1, <3>2
  <2>2. T \subseteq U
    <3> SUFFICES ASSUME NEW t \in T PROVE t \in U
      OBVIOUS
    <3>1. PICK k \in 1 .. m : t = g[k]
      BY <1>3
    <3>2. ~(k = n) /\ ~(n < k)
      BY <1>1, <3>1
    <3>3. k \in 1 .. n - 1
      BY <3>2
    <3>. QED  BY <3>1, <3>3
  <2>3. n - 1 \in Nat /\ \A i, j \in 1 .. n - 1 : g[i] = g[j] => i = j
    BY <1>2
  <2>4. Cardinality(U) = n - 1
    BY <2>3, CountOf
  <2>5. T = U
    BY <2>1, <2>2
  <2>. QED  BY <2>4, <2>5 DEF Rank
<1>6. ASSUME NEW n \in 1 .. m PROVE Nth(q, o, n) = g[n]
  <2>1. Rank(q, o, Nth(q, o, n)) = n - 1 /\ Nth(q, o, n) \in S
    BY <1>4, NthFacts
  <2>2. Rank(q, o, g[n]) = n - 1 /\ g[n] \in S
    BY <1>5
  <2>3. \A x, y \in S : Rank(q, o, x) \in Nat /\ (Before(x, y) => Rank(q, o, x) < Rank(q, o, y))
    BY NthFacts
  <2> HIDE DEF S
  <2>. QED  BY <1>1, <2>1, <2>2, <2>3
<1>. QED  BY <1>4, <1>6

\* A queue in which each order keeps something is left with all its orders.
LEMMA ServedWhole ==
  ASSUME NEW q, GoodBook(q), NEW o \in Lot, NEW key \in Keys,
         \A n \in DOMAIN q[key] : TakenAt(q, o, key, n) < q[key][n].quantity
  PROVE  Served(q, o, key) = Reduced(q, o, key)
<1> DEFINE r == Reduced(q, o, key)
           left == {n \in DOMAIN r : r[n].quantity > 0}
<1>1. /\ r \in Seq(Lot) /\ Len(r) = Len(q[key]) /\ Len(q[key]) \in Nat
      /\ DOMAIN q[key] = 1 .. Len(q[key])
      /\ \A n \in 1 .. Len(q[key]) : LeftOf(q[key][n], TakenAt(q, o, key, n), r[n])
  BY ReducedFacts
<1>2. Served(q, o, key) = IF left = {} THEN << >> ELSE SubSeq(r, Min(left), Len(r))
  BY ServedIs
<1> HIDE DEF r
<1>3. ASSUME NEW n \in 1 .. Len(q[key]) PROVE r[n].quantity > 0
  <2>1. /\ TakenAt(q, o, key, n) \in Nat /\ q[key][n].quantity \in Nat
        /\ TakenAt(q, o, key, n) < q[key][n].quantity
    BY <1>1, TakenAtFacts
  <2>2. r[n].quantity = q[key][n].quantity - TakenAt(q, o, key, n)
    BY <1>1 DEF LeftOf
  <2>. QED  BY <2>1, <2>2
<1>4. left = 1 .. Len(r) /\ Len(r) \in Nat
  BY <1>1, <1>3
<1> HIDE DEF left
<1>5. CASE Len(r) = 0
  BY <1>1, <1>2, <1>4, <1>5 DEF r
<1>6. CASE Len(r) > 0
  <2>1. 1 \in left /\ \A n \in left : n \in Int /\ 1 <= n
    BY <1>4, <1>6
  <2>2. Min(left) = 1
    BY <2>1 DEF Min
  <2>3. Served(q, o, key) = SubSeq(r, 1, Len(r))
    BY <1>2, <2>1, <2>2
  <2>4. SubSeq(r, 1, Len(r)) = r
    BY <1>1
  <2>. QED  BY <2>3, <2>4 DEF r
<1>. QED  BY <1>4, <1>5, <1>6

\* An order that takes nothing leaves the queues as they are.
LEMMA NoFill ==
  ASSUME NEW q, GoodBook(q), NEW o \in Lot, \A x \in Reach(q, o) : Taken(q, o, x) = 0
  PROVE  /\ Fills(q, o) = << >>
         /\ Left(q, o) = o.quantity
         /\ \A key \in Keys : Served(q, o, key) = q[key]
<1>1. Fills(q, o) = << >>
  <2>1. Makers(q, o) = {}
    BY DEF Makers
  <2>2. Cardinality(Makers(q, o)) = 0
    BY <2>1, FS_EmptySet
  <2>3. Fills(q, o) = [n \in 1 .. 0 |-> Fill(q, o, Nth(q, o, n))]
    BY <2>2, FillsIs
  <2>. QED  BY <2>3
<1>2. Left(q, o) = o.quantity
  <2> DEFINE f == [x \in Reach(q, o) |-> Taken(q, o, x)]
  <2>1. SumFunction(f) = SumFunctionOnSet(f, Reach(q, o))
    <3>1. DOMAIN f = Reach(q, o)
      OBVIOUS
    <3>. QED  BY <3>1, Zenon DEF SumFunction
  <2>2. IsFiniteSet(Reach(q, o)) /\ \A x \in Reach(q, o) : f[x] = 0
    BY ReachFacts
  <2>3. Left(q, o) = o.quantity - SumFunction(f)
    BY DEF Left
  <2> HIDE DEF f
  <2>4. SumFunctionOnSet(f, Reach(q, o)) = 0
    BY <2>2, SumOfZeros
  <2>5. o.quantity \in Nat
    BY DEF Lot
  <2>. QED  BY <2>1, <2>3, <2>4, <2>5
<1>3. ASSUME NEW key \in Keys PROVE Served(q, o, key) = q[key]
  <2>1. \A n : TakenAt(q, o, key, n) = 0
    BY DEF TakenAt
  <2>2. Served(q, o, key) = Reduced(q, o, key)
    <3>1. \A n \in DOMAIN q[key] : q[key][n].quantity \in Nat \ {0}
      BY TakenAtFacts
    <3>2. \A n \in DOMAIN q[key] : TakenAt(q, o, key, n) < q[key][n].quantity
      BY <2>1, <3>1
    <3>. QED  BY <3>2, ServedWhole
  <2>3. q[key] \in Seq(Order)
    BY TakenAtFacts
  <2>4. \A n \in DOMAIN q[key] : Reduced(q, o, key)[n] = q[key][n]
    <3> TAKE n \in DOMAIN q[key]
    <3>1. CASE PlaceIn(key, n) \notin Reach(q, o)
      BY <3>1 DEF Reduced
    <3>2. CASE PlaceIn(key, n) \in Reach(q, o)
      <4>1. Taken(q, o, PlaceIn(key, n)) = 0
        BY <3>2
      <4>2. q[key][n] \in Order
        BY <2>3
      <4>3. Reduced(q, o, key)[n] = [q[key][n] EXCEPT !.quantity = @ - 0]
        BY <3>2, <4>1 DEF Reduced
      <4>4. q[key][n].quantity - 0 = q[key][n].quantity
        BY <4>2 DEF Order
      <4>. QED  BY <4>2, <4>3, <4>4 DEF Order
    <3>. QED  BY <3>1, <3>2
  <2>5. Reduced(q, o, key) = [n \in DOMAIN q[key] |-> Reduced(q, o, key)[n]]
    BY DEF Reduced
  <2>6. q[key] = [n \in DOMAIN q[key] |-> q[key][n]]
    BY <2>3
  <2>. QED  BY <2>2, <2>4, <2>5, <2>6
<1>. QED  BY <1>1, <1>2, <1>3

\* The oldest order at key is the first that o meets.
IsFront(q, o, key) ==
  /\ key \in Keys
  /\ PlaceIn(key, 1) \in Reach(q, o)
  /\ \A x \in Reach(q, o) : x # PlaceIn(key, 1) => Before(PlaceIn(key, 1), x)

\* What the first fill trades.
FirstFill(q, o, key) ==
  IF o.quantity <= q[key][1].quantity THEN o.quantity ELSE q[key][1].quantity

\* An order takes from the front first, and what it takes there is ahead of the others.
LEMMA FrontFacts ==
  ASSUME NEW q, GoodBook(q), NEW o \in Lot, NEW key, IsFront(q, o, key)
  PROVE  /\ q[key] \in Seq(Order) /\ q[key] # << >> /\ q[key][1] \in Order
         /\ 1 \in DOMAIN q[key]
         /\ OrderAt(q, PlaceIn(key, 1)) = q[key][1]
         /\ Taken(q, o, PlaceIn(key, 1)) = FirstFill(q, o, key)
         /\ \A x \in Reach(q, o) : x # PlaceIn(key, 1) => Ahead(q, o, x) >= q[key][1].quantity
<1> DEFINE first == PlaceIn(key, 1)
           R == Reach(q, o)
           f == [x \in R |-> OrderAt(q, x).quantity]
<1>1. first \in R /\ (\A x \in R : x # first => Before(first, x)) /\ key \in Keys
  BY DEF IsFront
<1>2. q[key] \in Seq(Order) /\ key = <<key[1], key[2]>>
  BY <1>1, KeyFacts DEF GoodBook, QueuesTyped
<1>3. OrderAt(q, first) = q[key][1]
  BY <1>2 DEF OrderAt, PlaceIn
<1>4. 1 \in DOMAIN q[key]
  <2>1. PICK side, p, n : MetAt(q, o, first, side, p, n)
    BY <1>1, ReachFacts
  <2>2. side = key[1] /\ p = key[2] /\ n = 1
    BY <2>1 DEF MetAt, PlaceIn
  <2>. QED  BY <1>2, <2>1, <2>2 DEF MetAt, StandsAt
<1>5. q[key][1] \in Order /\ q[key] # << >>
  BY <1>2, <1>4
<1>6. q[key][1].quantity \in Nat \ {0}
  BY <1>5 DEF Order
<1>7. \A x, y \in R : ~Before(x, x) /\ ~(Before(x, y) /\ Before(y, x))
  BY ReachOrdered
<1>8. IsFiniteSet(R) /\ \A x \in R : f[x] \in Nat
  <2>1. IsFiniteSet(R)
    BY ReachFacts
  <2>2. \A x \in R : OrderAt(q, x).quantity \in Nat
    BY AheadFacts
  <2>. QED  BY <2>1, <2>2
<1>9. Ahead(q, o, first) = 0
  <2>1. {x \in R : Before(x, first)} = {}
    BY <1>1, <1>7
  <2>. QED  BY <2>1, SumOfNone DEF Ahead
<1>10. Taken(q, o, first) = FirstFill(q, o, key)
  <2>1. Taken(q, o, first) = Max({0, Min({o.quantity - 0, q[key][1].quantity})})
    BY <1>1, <1>3, <1>9, AheadFacts
  <2>2. o.quantity \in Nat
    BY DEF Lot
  <2> DEFINE m == Min({o.quantity - 0, q[key][1].quantity})
  <2>3. m = IF o.quantity - 0 <= q[key][1].quantity THEN o.quantity - 0 ELSE q[key][1].quantity
    BY <1>6, <2>2, OfTwo
  <2>4. m = FirstFill(q, o, key) /\ m \in Nat
    BY <1>6, <2>2, <2>3 DEF FirstFill
  <2> HIDE DEF m
  <2>5. Max({0, m}) = IF 0 >= m THEN 0 ELSE m
    <3>1. m \in Int /\ 0 \in Int
      BY <2>4
    <3>. QED  BY <3>1, OfTwo
  <2>6. Taken(q, o, first) = Max({0, m})
    BY <2>1 DEF m
  <2>. QED  BY <2>4, <2>5, <2>6
<1>11. ASSUME NEW x \in R, x # first PROVE Ahead(q, o, x) >= q[key][1].quantity
  <2> DEFINE before == {y \in R : Before(y, x)}
  <2>1. {first} \subseteq before /\ IsFiniteSet(before) /\ \A y \in before : f[y] \in Nat
    BY <1>1, <1>8, <1>11, FS_Subset
  <2>2. SumFunctionOnSet(f, {first}) = f[first]
    <3>1. IsFiniteSet({first})
      BY FS_Singleton
    <3>2. f[first] \in Int
      BY <1>1, <1>8
    <3> HIDE DEF first, f
    <3>. QED  BY <3>1, <3>2, SumOfOne
  <2>3. SumFunctionOnSet(f, {first}) <= SumFunctionOnSet(f, before)
    BY <2>1, SumOfSubset
  <2>4. Ahead(q, o, x) = SumFunctionOnSet(f, before)
    BY DEF Ahead
  <2>5. f[first] = q[key][1].quantity
    BY <1>1, <1>3
  <2>6. Ahead(q, o, x) \in Nat
    BY AheadFacts
  <2> HIDE DEF f, before
  <2>. QED  BY <1>6, <2>2, <2>3, <2>4, <2>5, <2>6
<1>. QED  BY <1>2, <1>3, <1>4, <1>5, <1>10, <1>11

\* A queue whose oldest order loses k.
Shrunk(s, k) == IF k = s[1].quantity THEN Tail(s) ELSE [s EXCEPT ![1].quantity = @ - k]

\* The queues when k has been taken from the oldest order at key.
AfterFill(q, key, k) == [q EXCEPT ![key] = Shrunk(q[key], k)]

\* An order that has traded k.
LessTaker(o, k) == [o EXCEPT !.quantity = @ - k]

\* A queue that loses its oldest order.
LEMMA ShrunkWhole ==
  ASSUME NEW s \in Seq(Order), s # << >>
  PROVE  /\ Shrunk(s, s[1].quantity) \in Seq(Order)
         /\ DOMAIN Shrunk(s, s[1].quantity) = 1 .. Len(s) - 1
         /\ \A n \in 1 .. Len(s) - 1 : Shrunk(s, s[1].quantity)[n] = s[n + 1]
<1> DEFINE t == Shrunk(s, s[1].quantity)
<1>1. t = Tail(s)
  BY DEF Shrunk
<1> HIDE DEF t
<1>2. t \in Seq(Order) /\ DOMAIN t = 1 .. Len(s) - 1
  BY <1>1
<1>3. \A n \in 1 .. Len(s) - 1 : t[n] = s[n + 1]
  BY <1>1
<1>. QED  BY <1>2, <1>3 DEF t

\* A queue whose oldest order is reduced.
LEMMA ShrunkPart ==
  ASSUME NEW s \in Seq(Order), s # << >>, NEW k \in Nat, k < s[1].quantity
  PROVE  /\ Shrunk(s, k) \in Seq(Order)
         /\ DOMAIN Shrunk(s, k) = DOMAIN s
         /\ Shrunk(s, k)[1] = [s[1] EXCEPT !.quantity = @ - k]
         /\ \A n \in DOMAIN s : n # 1 => Shrunk(s, k)[n] = s[n]
<1> DEFINE t == Shrunk(s, k)
           new == [s[1] EXCEPT !.quantity = @ - k]
<1>1. 1 \in DOMAIN s /\ s[1] \in Order
  OBVIOUS
<1>2. s[1].quantity \in Nat
  BY <1>1 DEF Order
<1>3. t = [s EXCEPT ![1] = new]
  BY <1>2 DEF Shrunk
<1>4. new \in Order
  <2>1. s[1].quantity - k \in Nat \ {0}
    BY <1>2
  <2>. QED  BY <1>1, <2>1 DEF Order
<1> HIDE DEF t, new
<1>5. t \in Seq(Order) /\ DOMAIN t = DOMAIN s
  BY <1>1, <1>3, <1>4
<1>6. t[1] = new /\ \A n \in DOMAIN s : n # 1 => t[n] = s[n]
  BY <1>1, <1>3
<1>. QED  BY <1>5, <1>6 DEF t, new

\* What the rest of a match starts from.
LEMMA AfterFillFacts ==
  ASSUME NEW q, GoodBook(q), NEW key \in Keys, q[key] # << >>,
         NEW k \in 1 .. q[key][1].quantity
  PROVE  /\ GoodBook(AfterFill(q, key, k))
         /\ OnlyNew(q, key, Shrunk(q[key], k), AfterFill(q, key, k))
<1> DEFINE s == q[key]
           t == Shrunk(s, k)
<1>1. s \in Seq(Order) /\ s # << >>
  BY DEF GoodBook, QueuesTyped
<1>2. /\ Len(s) \in Nat \ {0} /\ DOMAIN s = 1 .. Len(s) /\ s[1] \in Order
      /\ \A n \in 1 .. Len(s) : s[n] \in Order
  <2>1. Len(s) \in Nat \ {0} /\ DOMAIN s = 1 .. Len(s) /\ \A n \in 1 .. Len(s) : s[n] \in Order
    BY <1>1
  <2>. QED  BY <2>1
<1>3. s[1].quantity \in Nat
  BY <1>2 DEF Order
<1>4. CASE k = s[1].quantity
  <2>1. t \in Seq(Order) /\ DOMAIN t = 1 .. Len(s) - 1 /\ \A n \in 1 .. Len(s) - 1 : t[n] = s[n + 1]
    BY <1>1, <1>4, ShrunkWhole
  <2> HIDE DEF s, t
  <2> DEFINE back == [n \in 1 .. Len(s) - 1 |-> n + 1]
  <2>2. Drawn(s, t, back)
    <3>1. \A n \in 1 .. Len(s) - 1 : n + 1 \in 1 .. Len(s)
      BY <1>2
    <3>. QED  BY <1>2, <2>1, <3>1 DEF Drawn
  <2> HIDE DEF back
  <2>3. Fits(q, key, t)
    BY <2>1, <2>2, DrawnFits DEF s
  <2>4. AfterFill(q, key, k) = [q EXCEPT ![key] = t]
    BY DEF AfterFill, t, s
  <2>. QED  BY <2>3, <2>4, OneQueue DEF t, s
<1>5. CASE k # s[1].quantity
  <2>1. k \in Nat /\ k < s[1].quantity
    BY <1>3, <1>5
  <2>2. /\ t \in Seq(Order) /\ DOMAIN t = DOMAIN s
        /\ t[1] = [s[1] EXCEPT !.quantity = @ - k]
        /\ \A n \in DOMAIN s : n # 1 => t[n] = s[n]
    BY <1>1, <2>1, ShrunkPart
  <2>3. t[1].id = s[1].id /\ t[1].side = s[1].side /\ t[1].price = s[1].price
    BY <1>2, <2>2 DEF Order
  <2> HIDE DEF s, t
  <2> DEFINE back == [n \in DOMAIN s |-> n]
  <2>4. Drawn(s, t, back)
    BY <2>2, <2>3 DEF Drawn
  <2> HIDE DEF back
  <2>5. Fits(q, key, t)
    BY <2>2, <2>4, DrawnFits DEF s
  <2>6. AfterFill(q, key, k) = [q EXCEPT ![key] = t]
    BY DEF AfterFill, t, s
  <2>. QED  BY <2>5, <2>6, OneQueue DEF t, s
<1>. QED  BY <1>4, <1>5

\* The limit of o admits the price p.
Within(o, p) == IF o.side = "Buy" THEN p <= o.price ELSE p >= o.price

\* The places within the reach of o, spelled out.
LEMMA InReach ==
  ASSUME NEW q, GoodBook(q), NEW o \in Lot
  PROVE  \A x : x \in Reach(q, o) <=>
           \E p \in Prices : \E n \in DOMAIN q[<<OtherSide(o.side), p>>] :
             /\ x = <<OtherSide(o.side), p, n>>
             /\ Within(o, p)
<1>1. PICK side \in Sides : side = OtherSide(o.side)
  BY OtherSideIs
<1>2. ASSUME NEW x, x \in Reach(q, o)
      PROVE  \E p \in Prices : \E n \in DOMAIN q[<<side, p>>] :
               x = <<side, p, n>> /\ Within(o, p)
  <2>1. x \in Places(q, side) /\ IF o.side = "Buy" THEN x[2] <= o.price ELSE x[2] >= o.price
    BY <1>1, <1>2 DEF Reach
  <2>2. PICK p, n : p \in Prices /\ x = <<side, p, n>> /\ n \in DOMAIN q[<<side, p>>]
    BY <2>1, RestingFacts
  <2>. QED  BY <2>1, <2>2 DEF Within
<1>3. ASSUME NEW p \in Prices, NEW n \in DOMAIN q[<<side, p>>],
             Within(o, p)
      PROVE  <<side, p, n>> \in Reach(q, o)
  <2>1. <<side, p, n>> \in Places(q, side)
    BY RestingFacts
  <2>. QED  BY <1>1, <1>3, <2>1 DEF Reach, Within
<1>. QED  BY <1>1, <1>2, <1>3

----------------------------------------------------------------------------
(* A match goes on behind the order it has filled                          *)

\* The places o2 reaches in q2 are those o reaches in q behind the first, moved by h.
Behind(q, o, first, q2, o2, h) ==
  /\ \A x \in Reach(q2, o2) : /\ h[x] \in Reach(q, o) /\ h[x] # first
                              /\ OrderAt(q, h[x]) = OrderAt(q2, x) /\ h[x][2] = x[2]
  /\ \A y \in Reach(q, o) : y # first => \E x \in Reach(q2, o2) : h[x] = y
  /\ \A x, y \in Reach(q2, o2) : /\ h[x] = h[y] => x = y
                                 /\ Before(x, y) <=> Before(h[x], h[y])

\* o has filled the order at first, and o2 is what remains of it.
Continues(q, o, key, q2, o2, h) ==
  /\ GoodBook(q) /\ GoodBook(q2) /\ o \in Lot /\ o2 \in Lot
  /\ IsFront(q, o, key)
  /\ o.quantity >= q[key][1].quantity
  /\ o2 = LessTaker(o, q[key][1].quantity)
  /\ Behind(q, o, PlaceIn(key, 1), q2, o2, h)

\* Behind the order filled first, what is ahead is that order and what is ahead now.
LEMMA AheadMoves ==
  ASSUME NEW q, NEW o, NEW key, NEW q2, NEW o2, NEW h, Continues(q, o, key, q2, o2, h),
         NEW x \in Reach(q2, o2)
  PROVE  Ahead(q, o, h[x]) = q[key][1].quantity + Ahead(q2, o2, x)
<1> DEFINE first == PlaceIn(key, 1)
           R == Reach(q, o)
           S == Reach(q2, o2)
           f == [y \in R |-> OrderAt(q, y).quantity]
           g == [y \in S |-> OrderAt(q2, y).quantity]
           B == {y \in R : Before(y, h[x])}
           C == {y \in S : Before(y, x)}
           T == {h[y] : y \in C}
<1>1. /\ GoodBook(q) /\ GoodBook(q2) /\ o \in Lot /\ o2 \in Lot /\ IsFront(q, o, key)
      /\ Behind(q, o, first, q2, o2, h)
  BY DEF Continues
<1>2. first \in R /\ \A y \in R : y # first => Before(first, y)
  BY <1>1 DEF IsFront
<1>3. IsFiniteSet(R) /\ IsFiniteSet(S) /\ (\A y \in R : f[y] \in Nat) /\ (\A y \in S : g[y] \in Nat)
  <2>1. IsFiniteSet(R) /\ IsFiniteSet(S)
    BY <1>1, ReachFacts
  <2>2. (\A y \in R : f[y] \in Nat) /\ (\A y \in S : g[y] \in Nat)
    BY <1>1, AheadFacts
  <2>. QED  BY <2>1, <2>2
<1>4. B = {first} \cup T /\ first \notin T
  <2>1. ASSUME NEW y \in B, y # first PROVE y \in T
    <3>1. PICK z \in S : h[z] = y
      BY <1>1, <2>1 DEF Behind
    <3>2. Before(z, x)
      BY <1>1, <3>1 DEF Behind
    <3>. QED  BY <3>1, <3>2
  <2>2. first \in B
    BY <1>1, <1>2 DEF Behind
  <2>3. ASSUME NEW y \in C PROVE h[y] \in B /\ h[y] # first
    BY <1>1 DEF Behind
  <2>. QED  BY <2>1, <2>2, <2>3
<1>5. SumFunctionOnSet(f, B) = f[first] + SumFunctionOnSet(f, T)
  <2>1. IsFiniteSet(B) /\ first \in B /\ B \ {first} = T /\ \A y \in B : f[y] \in Int
    BY <1>3, <1>4, FS_Subset
  <2> HIDE DEF B, T, f, first
  <2>. QED  BY <2>1, SumTakes
<1>6. SumFunctionOnSet(f, T) = SumFunctionOnSet(g, C)
  <2>1. IsFiniteSet(C)
    BY <1>3, FS_Subset
  <2>2. \A y \in C : g[y] \in Int /\ f[h[y]] = g[y]
    BY <1>1, <1>3 DEF Behind
  <2>3. \A y, z \in C : h[y] = h[z] => y = z
    BY <1>1 DEF Behind
  <2> HIDE DEF f, g, C
  <2>. QED  BY <2>1, <2>2, <2>3, SumMatched
<1>7. f[first] = q[key][1].quantity
  BY <1>1, <1>2, FrontFacts
<1>8. Ahead(q, o, h[x]) = SumFunctionOnSet(f, B) /\ Ahead(q2, o2, x) = SumFunctionOnSet(g, C)
  BY DEF Ahead
<1> HIDE DEF f, g, B, C, T
<1>. QED  BY <1>5, <1>6, <1>7, <1>8

\* So what is taken at a place is what the rest of the taker takes there,
LEMMA TakenMoves ==
  ASSUME NEW q, NEW o, NEW key, NEW q2, NEW o2, NEW h, Continues(q, o, key, q2, o2, h),
         NEW x \in Reach(q2, o2)
  PROVE  Taken(q, o, h[x]) = Taken(q2, o2, x)
<1>1. /\ GoodBook(q) /\ GoodBook(q2) /\ o \in Lot /\ o2 \in Lot /\ IsFront(q, o, key)
      /\ Behind(q, o, PlaceIn(key, 1), q2, o2, h)
      /\ o2 = LessTaker(o, q[key][1].quantity)
  BY DEF Continues
<1>2. h[x] \in Reach(q, o) /\ OrderAt(q, h[x]) = OrderAt(q2, x)
  BY <1>1 DEF Behind
<1>3. Ahead(q, o, h[x]) = q[key][1].quantity + Ahead(q2, o2, x)
  BY AheadMoves
<1>4. Ahead(q2, o2, x) \in Nat
  BY <1>1, AheadFacts
<1>5. q[key][1].quantity \in Nat
  BY <1>1, FrontFacts DEF Order
<1>6. o.quantity \in Nat /\ o2.quantity = o.quantity - q[key][1].quantity
  BY <1>1 DEF Lot, LessTaker
<1>7. o.quantity - Ahead(q, o, h[x]) = o2.quantity - Ahead(q2, o2, x)
  BY <1>3, <1>4, <1>5, <1>6
<1>8. Taken(q, o, h[x])
        = Max({0, Min({o.quantity - Ahead(q, o, h[x]), OrderAt(q, h[x]).quantity})})
  BY <1>1, <1>2, AheadFacts
<1>9. Taken(q2, o2, x)
        = Max({0, Min({o2.quantity - Ahead(q2, o2, x), OrderAt(q2, x).quantity})})
  BY <1>1, AheadFacts
<1>. QED  BY <1>2, <1>7, <1>8, <1>9

\* What the match takes from the first order is its whole quantity.
LEMMA FirstIsFilled ==
  ASSUME NEW q, NEW o, NEW key, NEW q2, NEW o2, NEW h, Continues(q, o, key, q2, o2, h)
  PROVE  /\ PlaceIn(key, 1) \in Reach(q, o)
         /\ Taken(q, o, PlaceIn(key, 1)) = q[key][1].quantity
         /\ q[key][1].quantity \in Nat \ {0} /\ o.quantity \in Nat
         /\ o2.quantity = o.quantity - q[key][1].quantity
<1>1. /\ GoodBook(q) /\ o \in Lot /\ o2 \in Lot /\ IsFront(q, o, key)
      /\ o.quantity >= q[key][1].quantity
      /\ o2 = LessTaker(o, q[key][1].quantity)
  BY DEF Continues
<1>2. q[key][1].quantity \in Nat \ {0}
  BY <1>1, FrontFacts DEF Order
<1>3. Taken(q, o, PlaceIn(key, 1)) = FirstFill(q, o, key)
  BY <1>1, FrontFacts
<1>4. o.quantity \in Nat /\ o2.quantity = o.quantity - q[key][1].quantity
  BY <1>1 DEF Lot, LessTaker
<1>5. FirstFill(q, o, key) = q[key][1].quantity
  BY <1>1, <1>2, <1>4 DEF FirstFill
<1>. QED  BY <1>1, <1>2, <1>3, <1>4, <1>5 DEF IsFront

\* what is left in the end is the same,
LEMMA LeftMoves ==
  ASSUME NEW q, NEW o, NEW key, NEW q2, NEW o2, NEW h, Continues(q, o, key, q2, o2, h)
  PROVE  Left(q, o) = Left(q2, o2)
<1> DEFINE first == PlaceIn(key, 1)
           R == Reach(q, o)
           S == Reach(q2, o2)
           f == [y \in R |-> Taken(q, o, y)]
           g == [y \in S |-> Taken(q2, o2, y)]
           T == {h[y] : y \in S}
<1>1. /\ GoodBook(q) /\ GoodBook(q2) /\ o \in Lot /\ o2 \in Lot /\ IsFront(q, o, key)
      /\ Behind(q, o, first, q2, o2, h)
  BY DEF Continues
<1>2. /\ first \in R /\ f[first] = q[key][1].quantity
      /\ q[key][1].quantity \in Nat \ {0} /\ o.quantity \in Nat
      /\ o2.quantity = o.quantity - q[key][1].quantity
  BY FirstIsFilled
<1>3. IsFiniteSet(R) /\ IsFiniteSet(S) /\ (\A y \in R : f[y] \in Int) /\ (\A y \in S : g[y] \in Int)
  <2>1. IsFiniteSet(R) /\ IsFiniteSet(S)
    BY <1>1, ReachFacts
  <2>2. (\A y \in R : f[y] \in Int) /\ (\A y \in S : g[y] \in Int)
    BY <1>1, TakenFacts
  <2>. QED  BY <2>1, <2>2
<1>4. R \ {first} = T
  BY <1>1 DEF Behind
<1>5. SumFunctionOnSet(f, R) = f[first] + SumFunctionOnSet(f, R \ {first})
  <2> HIDE DEF f, R, first
  <2>. QED  BY <1>2, <1>3, SumTakes
<1>6. SumFunctionOnSet(f, T) = SumFunctionOnSet(g, S)
  <2>1. \A y \in S : g[y] \in Int /\ f[h[y]] = g[y]
    <3>1. \A y \in S : h[y] \in R
      BY <1>1 DEF Behind
    <3>. QED  BY <1>3, <3>1, TakenMoves
  <2>2. \A y, z \in S : h[y] = h[z] => y = z
    BY <1>1 DEF Behind
  <2> HIDE DEF f, g, S
  <2>. QED  BY <1>3, <2>1, <2>2, SumMatched
<1>7. SumFunction(f) = SumFunctionOnSet(f, R)
  <2>1. DOMAIN f = R
    OBVIOUS
  <2>. QED  BY <2>1, Zenon DEF SumFunction
<1>8. SumFunction(g) = SumFunctionOnSet(g, S)
  <2>1. DOMAIN g = S
    OBVIOUS
  <2>. QED  BY <2>1, Zenon DEF SumFunction
<1>9. Left(q, o) = o.quantity - SumFunction(f) /\ Left(q2, o2) = o2.quantity - SumFunction(g)
  BY DEF Left
<1>10. SumFunctionOnSet(g, S) \in Int
  BY <1>3, SumIsInteger
<1>11. SumFunction(f) = q[key][1].quantity + SumFunctionOnSet(g, S)
  BY <1>2, <1>4, <1>5, <1>6, <1>7
<1> HIDE DEF f, g, R, S, T, first
<1>12. ASSUME NEW a \in Nat, NEW b \in Nat, NEW s \in Int PROVE a - (b + s) = (a - b) - s
  OBVIOUS
<1>. QED  BY <1>2, <1>8, <1>9, <1>10, <1>11, <1>12

\* each fill behind the first is the same,
LEMMA FillMovesTo ==
  ASSUME NEW q, NEW o, NEW key, NEW q2, NEW o2, NEW h, Continues(q, o, key, q2, o2, h),
         NEW x \in Reach(q2, o2)
  PROVE  Fill(q, o, h[x]) = Fill(q2, o2, x)
<1>1. OrderAt(q, h[x]) = OrderAt(q2, x) /\ h[x][2] = x[2]
  BY DEF Continues, Behind
<1>2. Taken(q, o, h[x]) = Taken(q2, o2, x)
  BY TakenMoves
<1>3. /\ o2.id = o.id /\ o2.side = o.side /\ o2.participant_id = o.participant_id
      /\ o2.symbol_id = o.symbol_id
  <2>1. o \in Lot /\ o2 = LessTaker(o, q[key][1].quantity)
    BY DEF Continues
  <2>. QED  BY <2>1 DEF LessTaker, Lot
<1>. QED  BY <1>1, <1>2, <1>3 DEF Fill

\* The order in which the orders met are numbered is that of their priority.
LEMMA NthOrdered ==
  ASSUME NEW q, GoodBook(q), NEW o \in Lot
  PROVE  \A m, n \in 1 .. Cardinality(Makers(q, o)) :
           m < n => Before(Nth(q, o, m), Nth(q, o, n))
<1>1. PICK c \in Nat : c = Cardinality(Makers(q, o))
  BY NthFacts
<1> SUFFICES ASSUME NEW m \in 1 .. c, NEW n \in 1 .. c, m < n
             PROVE  Before(Nth(q, o, m), Nth(q, o, n))
  BY <1>1
<1>2. Nth(q, o, m) \in Makers(q, o) /\ Nth(q, o, n) \in Makers(q, o)
  BY <1>1, NthFacts
<1>3. Rank(q, o, Nth(q, o, m)) = m - 1 /\ Rank(q, o, Nth(q, o, n)) = n - 1
  BY <1>1, NthFacts
<1>4. ~(Nth(q, o, m) = Nth(q, o, n))
  <2>1. m # n
    OBVIOUS
  <2>. QED  BY <1>1, <2>1, NthFacts
<1>5. ~Before(Nth(q, o, n), Nth(q, o, m))
  <2> SUFFICES ASSUME Before(Nth(q, o, n), Nth(q, o, m)) PROVE FALSE
    OBVIOUS
  <2>1. Rank(q, o, Nth(q, o, n)) < Rank(q, o, Nth(q, o, m))
    BY <1>2, NthFacts
  <2>2. n - 1 < m - 1
    BY <1>3, <2>1
  <2>. QED  BY <2>2
<1>. QED  BY <1>2, <1>4, <1>5, ReachOrdered DEF Makers

\* and the fills are the first one and those of the rest of the taker.
LEMMA FillsMove ==
  ASSUME NEW q, NEW o, NEW key, NEW q2, NEW o2, NEW h, Continues(q, o, key, q2, o2, h)
  PROVE  Fills(q, o) = <<Fill(q, o, PlaceIn(key, 1))>> \o Fills(q2, o2)
<1> DEFINE first == PlaceIn(key, 1)
           R == Reach(q, o)
           S == Reach(q2, o2)
           M == Makers(q, o)
           N == Makers(q2, o2)
<1>1. /\ GoodBook(q) /\ GoodBook(q2) /\ o \in Lot /\ o2 \in Lot /\ IsFront(q, o, key)
      /\ Behind(q, o, first, q2, o2, h)
  BY DEF Continues
<1>2. first \in M
  <2>1. first \in R /\ Taken(q, o, first) = q[key][1].quantity /\ q[key][1].quantity \in Nat \ {0}
    BY FirstIsFilled
  <2>. QED  BY <2>1 DEF Makers
<1>3. \A x \in N : h[x] \in M
  BY <1>1, TakenMoves DEF Makers, Behind
<1>4. \A y \in M : y # first => \E x \in N : h[x] = y
  <2> SUFFICES ASSUME NEW y \in M, y # first PROVE \E x \in N : h[x] = y
    OBVIOUS
  <2>1. PICK x \in S : h[x] = y
    BY <1>1 DEF Behind, Makers
  <2>2. Taken(q2, o2, x) > 0
    BY <2>1, TakenMoves DEF Makers
  <2>. QED  BY <2>1, <2>2 DEF Makers
<1>5. PICK c \in Nat : c = Cardinality(N)
  BY <1>1, NthFacts
<1>6. /\ \A n \in 1 .. c : Nth(q2, o2, n) \in N
      /\ \A x \in N : \E n \in 1 .. c : Nth(q2, o2, n) = x
      /\ \A m, n \in 1 .. c : m < n => Before(Nth(q2, o2, m), Nth(q2, o2, n))
  BY <1>1, <1>5, NthFacts, NthOrdered
<1> DEFINE g == [n \in 1 .. c + 1 |-> IF n = 1 THEN first ELSE h[Nth(q2, o2, n - 1)]]
<1>7. c + 1 \in Nat /\ \A n \in 1 .. c + 1 : n # 1 => n - 1 \in 1 .. c
  OBVIOUS
<1>8. g[1] = first /\ \A n \in 1 .. c : g[n + 1] = h[Nth(q2, o2, n)]
  <2>1. 1 \in 1 .. c + 1
    OBVIOUS
  <2>2. ASSUME NEW n \in 1 .. c PROVE n + 1 \in 1 .. c + 1 /\ n + 1 # 1 /\ (n + 1) - 1 = n
    OBVIOUS
  <2>. QED  BY <2>1, <2>2
<1>9. \A n \in 1 .. c + 1 : n = 1 \/ \E k \in 1 .. c : n = k + 1
  <2> TAKE n \in 1 .. c + 1
  <2>1. n # 1 => n - 1 \in 1 .. c /\ n = (n - 1) + 1
    OBVIOUS
  <2>. QED  BY <2>1
<1> HIDE DEF g, M, N
<1>10. ASSUME NEW n \in 1 .. c + 1 PROVE g[n] \in M
  <2>1. CASE n = 1
    BY <1>2, <1>8, <2>1
  <2>2. CASE n # 1
    <3>1. PICK k \in 1 .. c : n = k + 1
      BY <1>9, <2>2
    <3>2. g[n] = h[Nth(q2, o2, k)] /\ Nth(q2, o2, k) \in N
      BY <1>6, <1>8, <3>1
    <3>. QED  BY <1>3, <3>2
  <2>. QED  BY <2>1, <2>2
<1>11. ASSUME NEW y \in M PROVE \E n \in 1 .. c + 1 : g[n] = y
  <2>1. CASE y = first
    <3>1. 1 \in 1 .. c + 1
      OBVIOUS
    <3>. QED  BY <1>8, <2>1, <3>1
  <2>2. CASE y # first
    <3>1. PICK x \in N : h[x] = y
      BY <1>4, <2>2
    <3>2. PICK n \in 1 .. c : Nth(q2, o2, n) = x
      BY <1>6
    <3>3. n + 1 \in 1 .. c + 1
      OBVIOUS
    <3>. QED  BY <1>8, <3>1, <3>2, <3>3
  <2>. QED  BY <2>1, <2>2
<1>12. ASSUME NEW i \in 1 .. c + 1, NEW j \in 1 .. c + 1, i < j PROVE Before(g[i], g[j])
  <2>1. PICK n \in 1 .. c : j = n + 1
    BY <1>9, <1>12
  <2>2. Nth(q2, o2, n) \in S
    BY <1>6 DEF N, Makers
  <2>3. CASE i = 1
    <3>1. h[Nth(q2, o2, n)] \in R /\ h[Nth(q2, o2, n)] # first
      BY <1>1, <2>2 DEF Behind
    <3>2. g[1] = first /\ g[n + 1] = h[Nth(q2, o2, n)]
      BY <1>8
    <3>. QED  BY <1>1, <2>1, <2>3, <3>1, <3>2 DEF IsFront
  <2>4. CASE i # 1
    <3>1. PICK m \in 1 .. c : i = m + 1
      BY <1>9, <2>4
    <3>2. m < n
      BY <1>12, <2>1, <3>1
    <3>3. Before(Nth(q2, o2, m), Nth(q2, o2, n)) /\ Nth(q2, o2, m) \in S
      BY <1>6, <3>2 DEF N, Makers
    <3>4. Before(h[Nth(q2, o2, m)], h[Nth(q2, o2, n)])
      BY <1>1, <2>2, <3>3 DEF Behind
    <3>5. g[m + 1] = h[Nth(q2, o2, m)] /\ g[n + 1] = h[Nth(q2, o2, n)]
      BY <1>8
    <3>. QED  BY <2>1, <3>1, <3>4, <3>5
  <2>. QED  BY <2>3, <2>4
<1>13. Cardinality(M) = c + 1 /\ \A n \in 1 .. c + 1 : Nth(q, o, n) = g[n]
  <2>1. \A y \in M : \E n \in 1 .. c + 1 : g[n] = y
    BY <1>11
  <2>2. \A i, j \in 1 .. c + 1 : i < j => Before(g[i], g[j])
    BY <1>12
  <2>. QED  BY <1>1, <1>7, <1>10, <2>1, <2>2, NthIs DEF M
<1> DEFINE a == Fills(q, o)
           b == Fills(q2, o2)
           t == Fill(q, o, first)
<1>14. /\ a \in Seq(Trade) /\ Len(a) = c + 1
       /\ \A n \in 1 .. c + 1 : a[n] = Fill(q, o, g[n])
  <2>1. /\ a \in Seq(Trade) /\ Len(a) = Cardinality(M)
        /\ \A n \in 1 .. Cardinality(M) : a[n] = Fill(q, o, Nth(q, o, n))
    BY <1>1, FillsFacts DEF M
  <2> HIDE DEF a
  <2>. QED  BY <1>13, <2>1
<1>15. /\ b \in Seq(Trade) /\ Len(b) = c
       /\ \A n \in 1 .. c : b[n] = Fill(q2, o2, Nth(q2, o2, n))
  BY <1>1, <1>5, FillsFacts DEF N
<1> HIDE DEF a, b, t
<1>16. a[1] = t
  <2>1. 1 \in 1 .. c + 1
    OBVIOUS
  <2>. QED  BY <1>8, <1>14, <2>1 DEF t
<1>17. ASSUME NEW n \in 1 .. c PROVE a[n + 1] = b[n]
  <2>1. n + 1 \in 1 .. c + 1
    OBVIOUS
  <2>2. a[n + 1] = Fill(q, o, h[Nth(q2, o2, n)])
    BY <1>8, <1>14, <2>1
  <2>3. Nth(q2, o2, n) \in S
    BY <1>6 DEF N, Makers
  <2>4. Fill(q, o, h[Nth(q2, o2, n)]) = Fill(q2, o2, Nth(q2, o2, n))
    BY <2>3, FillMovesTo
  <2>. QED  BY <1>15, <2>2, <2>4
<1>18. t \in Trade
  <2>1. 1 \in 1 .. c + 1
    OBVIOUS
  <2>. QED  BY <1>14, <1>16, <2>1
<1>19. a = <<t>> \o b
  <2> DEFINE u == <<t>> \o b
  <2>1. <<t>> \in Seq(Trade) /\ Len(<<t>>) = 1 /\ <<t>>[1] = t
    BY <1>18
  <2>2. /\ u \in Seq(Trade) /\ Len(u) = Len(<<t>>) + Len(b)
        /\ \A n \in 1 .. Len(<<t>>) : u[n] = <<t>>[n]
        /\ \A k \in 1 .. Len(b) : u[Len(<<t>>) + k] = b[k]
    BY <1>15, <2>1, JoinFacts
  <2> HIDE DEF u
  <2>3. Len(u) = c + 1 /\ u[1] = t /\ \A k \in 1 .. c : u[1 + k] = b[k]
    BY <1>15, <2>1, <2>2
  <2>4. ASSUME NEW n \in 1 .. c + 1 PROVE a[n] = u[n]
    <3>1. CASE n = 1
      BY <1>16, <2>3, <3>1
    <3>2. CASE n # 1
      <4>1. PICK k \in 1 .. c : n = k + 1
        BY <1>9, <3>2
      <4>2. a[k + 1] = b[k] /\ u[1 + k] = b[k] /\ k + 1 = 1 + k
        BY <1>17, <2>3
      <4>. QED  BY <4>1, <4>2
    <3>. QED  BY <3>1, <3>2
  <2>5. a = [n \in 1 .. c + 1 |-> a[n]] /\ u = [n \in 1 .. c + 1 |-> u[n]]
    BY <1>14, <2>2, <2>3
  <2>6. a = u
    BY <2>4, <2>5
  <2>. QED  BY <2>6 DEF u
<1>. QED  BY <1>19 DEF a, b, t

----------------------------------------------------------------------------
\* The orders of a queue that have quantity left.
Trimmed(r) ==
  LET left == {n \in DOMAIN r : r[n].quantity > 0}
  IN  IF left = {} THEN << >> ELSE SubSeq(r, Min(left), Len(r))

\* An empty order in front is trimmed away.
LEMMA TrimmedTail ==
  ASSUME NEW r \in Seq(Lot), NEW s \in Seq(Lot), Len(r) = Len(s) + 1, r[1].quantity = 0,
         \A n \in 1 .. Len(s) : r[n + 1] = s[n]
  PROVE  Trimmed(r) = Trimmed(s)
<1> DEFINE left == {n \in DOMAIN r : r[n].quantity > 0}
           kept == {n \in DOMAIN s : s[n].quantity > 0}
<1>1. Trimmed(r) = IF left = {} THEN << >> ELSE SubSeq(r, Min(left), Len(r))
  BY DEF Trimmed
<1>2. Trimmed(s) = IF kept = {} THEN << >> ELSE SubSeq(s, Min(kept), Len(s))
  BY DEF Trimmed
<1>3. PICK l \in Nat : l = Len(s) /\ Len(r) = l + 1 /\ DOMAIN s = 1 .. l /\ DOMAIN r = 1 .. l + 1
  OBVIOUS
<1>4. \A n \in 1 .. l : n \in kept <=> n + 1 \in left
  BY <1>3
<1>5. 1 \notin left /\ left \subseteq 1 .. l + 1 /\ kept \subseteq 1 .. l
  BY <1>3
<1>6. \A n \in left : n - 1 \in kept /\ n - 1 \in 1 .. l
  <2> SUFFICES ASSUME NEW n \in left PROVE n - 1 \in kept /\ n - 1 \in 1 .. l
    OBVIOUS
  <2>1. n - 1 \in 1 .. l /\ (n - 1) + 1 = n
    BY <1>5
  <2>. QED  BY <1>4, <2>1
<1> HIDE DEF left, kept
<1>7. CASE kept = {}
  <2>1. left = {}
    BY <1>6, <1>7
  <2>. QED  BY <1>1, <1>2, <1>7, <2>1
<1>8. CASE kept # {}
  <2>1. PICK m : m = Min(kept) /\ m \in kept /\ \A n \in kept : m <= n
    <3>1. kept \subseteq Nat
      BY <1>5
    <3>. QED  BY <1>8, <3>1, LeastExists
  <2>2. m \in 1 .. l /\ m + 1 \in left
    BY <1>4, <1>5, <2>1
  <2>3. Min(left) = m + 1
    <3>1. left \subseteq Nat /\ left # {}
      BY <1>5, <2>2
    <3>2. Min(left) \in left /\ \A n \in left : Min(left) <= n
      BY <3>1, LeastExists
    <3>3. m <= Min(left) - 1
      BY <1>6, <2>1, <3>2
    <3>4. Min(left) <= m + 1
      BY <2>2, <3>2
    <3>5. Min(left) \in Nat
      BY <3>1, <3>2
    <3>. QED  BY <2>2, <3>3, <3>4, <3>5
  <2>4. Trimmed(r) = SubSeq(r, m + 1, l + 1) /\ Trimmed(s) = SubSeq(s, m, l)
    BY <1>1, <1>2, <1>3, <1>8, <2>1, <2>2, <2>3
  <2> DEFINE x == SubSeq(r, m + 1, l + 1)
             y == SubSeq(s, m, l)
  <2>5. /\ x = [n \in 1 .. l - m + 1 |-> r[m + n]]
        /\ y = [n \in 1 .. l - m + 1 |-> s[m + n - 1]]
    <3>1. x = [n \in 1 .. l - m + 1 |-> r[m + n]]
      <4>1. x = [n \in 1 .. (l + 1) - (m + 1) + 1 |-> r[(m + 1) + n - 1]]
        BY <1>3, <2>2
      <4>2. (l + 1) - (m + 1) + 1 = l - m + 1 /\ \A n \in Nat : (m + 1) + n - 1 = m + n
        BY <2>2
      <4> HIDE DEF x
      <4>. QED  BY <4>1, <4>2
    <3>2. y = [n \in 1 .. l - m + 1 |-> s[m + n - 1]]
      BY <1>3, <2>2
    <3>. QED  BY <3>1, <3>2
  <2>6. ASSUME NEW n \in 1 .. l - m + 1 PROVE r[m + n] = s[m + n - 1]
    <3>1. m + n - 1 \in 1 .. l /\ (m + n - 1) + 1 = m + n
      BY <2>2
    <3>. QED  BY <1>3, <3>1
  <2> HIDE DEF x, y
  <2>7. x = y
    BY <2>5, <2>6
  <2>. QED  BY <2>4, <2>7 DEF x, y
<1>. QED  BY <1>7, <1>8

\* Where the order at x, behind the first of key, stood before that one left.
Moved(key, x) == IF x[1] = key[1] /\ x[2] = key[2] THEN <<x[1], x[2], x[3] + 1>> ELSE x

\* q2 and o2 are what the first fill of o leaves when it takes a whole order.
FillsFirst(q, o, key, q2, o2) ==
  /\ GoodBook(q) /\ o \in Lot /\ IsFront(q, o, key)
  /\ o.quantity >= q[key][1].quantity
  /\ q2 = AfterFill(q, key, q[key][1].quantity)
  /\ o2 = LessTaker(o, q[key][1].quantity)

\* A taker that has traded is one with less to trade.
LEMMA TakerLess ==
  ASSUME NEW o \in Lot, NEW k \in Nat, k <= o.quantity
  PROVE  /\ LessTaker(o, k) \in Lot
         /\ LessTaker(o, k).side = o.side /\ LessTaker(o, k).price = o.price
         /\ LessTaker(o, k).id = o.id /\ LessTaker(o, k).quantity = o.quantity - k
<1>1. o.quantity - k \in Nat
  BY DEF Lot
<1>. QED  BY <1>1 DEF Lot, LessTaker

\* When the oldest order of a queue is filled the others move up.
LEMMA FirstLeaves ==
  ASSUME NEW q, NEW o, NEW key, NEW q2, NEW o2, FillsFirst(q, o, key, q2, o2)
  PROVE  /\ GoodBook(q2) /\ o2 \in Lot /\ o2.side = o.side /\ o2.price = o.price
         /\ o2.id = o.id /\ o2.quantity = o.quantity - q[key][1].quantity
         /\ key \in Keys /\ q[key] \in Seq(Order) /\ q2[key] \in Seq(Order)
         /\ Len(q[key]) \in Nat \ {0} /\ DOMAIN q[key] = 1 .. Len(q[key])
         /\ DOMAIN q2[key] = 1 .. Len(q[key]) - 1
         /\ \A n \in 1 .. Len(q[key]) - 1 : q2[key][n] = q[key][n + 1]
         /\ \A other \in Keys : other # key => q2[other] = q[other]
<1> DEFINE k == q[key][1].quantity
<1>1. GoodBook(q) /\ o \in Lot /\ IsFront(q, o, key) /\ o.quantity >= k
  BY DEF FillsFirst
<1>2. q[key] \in Seq(Order) /\ q[key] # << >> /\ q[key][1] \in Order /\ key \in Keys
  BY <1>1, FrontFacts DEF IsFront
<1>3. k \in Nat \ {0} /\ k \in 1 .. q[key][1].quantity
  <2>1. k \in Nat \ {0}
    BY <1>2 DEF Order
  <2>. QED  BY <2>1
<1>4. GoodBook(q2) /\ OnlyNew(q, key, Shrunk(q[key], k), q2)
  <2>1. q2 = AfterFill(q, key, k)
    BY DEF FillsFirst
  <2>. QED  BY <1>1, <1>2, <1>3, <2>1, AfterFillFacts
<1>7. /\ Shrunk(q[key], k) \in Seq(Order)
      /\ DOMAIN Shrunk(q[key], k) = 1 .. Len(q[key]) - 1
      /\ \A n \in 1 .. Len(q[key]) - 1 : Shrunk(q[key], k)[n] = q[key][n + 1]
  BY <1>2, ShrunkWhole
<1>5. /\ o2 \in Lot /\ o2.side = o.side /\ o2.price = o.price
      /\ o2.id = o.id /\ o2.quantity = o.quantity - k
  BY <1>1, <1>3, TakerLess DEF FillsFirst
<1>6. Len(q[key]) \in Nat \ {0} /\ DOMAIN q[key] = 1 .. Len(q[key])
  BY <1>2
<1>. QED  BY <1>2, <1>4, <1>5, <1>6, <1>7 DEF OnlyNew

\* What is reached behind the first order is what was, moved up.
LEMMA FirstBehind ==
  ASSUME NEW q, NEW o, NEW key, NEW q2, NEW o2, FillsFirst(q, o, key, q2, o2)
  PROVE  Continues(q, o, key, q2, o2, [x \in Reach(q2, o2) |-> Moved(key, x)])
<1> DEFINE S == Reach(q2, o2)
           R == Reach(q, o)
           h == [x \in S |-> Moved(key, x)]
           first == PlaceIn(key, 1)
<1>1. /\ GoodBook(q) /\ o \in Lot /\ IsFront(q, o, key)
      /\ o.quantity >= q[key][1].quantity
      /\ o2 = LessTaker(o, q[key][1].quantity)
  BY DEF FillsFirst
<1>2. /\ GoodBook(q2) /\ o2 \in Lot /\ o2.side = o.side /\ o2.price = o.price
      /\ key \in Keys
      /\ Len(q[key]) \in Nat \ {0} /\ DOMAIN q[key] = 1 .. Len(q[key])
      /\ DOMAIN q2[key] = 1 .. Len(q[key]) - 1
      /\ \A n \in 1 .. Len(q[key]) - 1 : q2[key][n] = q[key][n + 1]
      /\ \A other \in Keys : other # key => q2[other] = q[other]
  BY FirstLeaves
<1>3. PICK side \in Sides : side = OtherSide(o.side)
  BY <1>1, OtherSideIs
<1>4. \A x : x \in R <=> \E p \in Prices : \E n \in DOMAIN q[<<side, p>>] :
                           x = <<side, p, n>> /\ Within(o, p)
  <2>1. \A x : x \in R <=> \E p \in Prices : \E n \in DOMAIN q[<<OtherSide(o.side), p>>] :
                           x = <<OtherSide(o.side), p, n>> /\ Within(o, p)
    BY <1>1, InReach, Zenon
  <2>. QED  BY <1>3, <2>1, Zenon
<1>5. \A x : x \in S <=> \E p \in Prices : \E n \in DOMAIN q2[<<side, p>>] :
                           x = <<side, p, n>> /\ Within(o, p)
  <2>1. \A p : Within(o2, p) <=> Within(o, p)
    BY <1>2 DEF Within
  <2>2. side = OtherSide(o2.side)
    BY <1>2, <1>3
  <2>3. \A x : x \in S <=> \E p \in Prices : \E n \in DOMAIN q2[<<side, p>>] :
                           x = <<side, p, n>> /\ Within(o2, p)
    <3>1. \A x : x \in S <=> \E p \in Prices : \E n \in DOMAIN q2[<<OtherSide(o2.side), p>>] :
                             x = <<OtherSide(o2.side), p, n>> /\ Within(o2, p)
      BY <1>2, InReach, Zenon
    <3>. QED  BY <2>2, <3>1, Zenon
  <2>. QED  BY <2>1, <2>3, Zenon
<1>6. first \in R
  BY <1>1 DEF IsFront
<1>7. PICK best \in Prices : key = <<side, best>> /\ Within(o, best) /\ first = <<side, best, 1>>
  <2>1. PICK p \in Prices : \E n \in DOMAIN q[<<side, p>>] : first = <<side, p, n>> /\ Within(o, p)
    BY <1>4, <1>6
  <2>2. key = <<key[1], key[2]>> /\ key[1] = side /\ key[2] = p
    BY <1>2, <2>1, KeyFacts DEF PlaceIn
  <2>. QED  BY <2>1, <2>2 DEF PlaceIn
<1>8. \A p \in Prices : <<side, p>> \in Keys /\ p \in Int
  BY <1>1, KeyFacts DEF GoodBook, PricesTyped
<1>9. \A p \in Prices : q2[<<side, p>>] \in Seq(Order) /\ DOMAIN q2[<<side, p>>] \subseteq Nat \ {0}
  <2> TAKE p \in Prices
  <2>1. q2[<<side, p>>] \in Seq(Order)
    BY <1>2, <1>8 DEF GoodBook, QueuesTyped
  <2>. QED  BY <2>1
<1>10. \A p, n : h[<<side, p, n>>] = h[<<side, p, n>>]
  OBVIOUS
<1>11. ASSUME NEW p \in Prices, NEW n \in DOMAIN q2[<<side, p>>], Within(o, p)
       PROVE  /\ <<side, p, n>> \in S
              /\ h[<<side, p, n>>] = IF p = best THEN <<side, p, n + 1>> ELSE <<side, p, n>>
  <2>1. <<side, p, n>> \in S
    BY <1>5, <1>11
  <2>2. h[<<side, p, n>>] = Moved(key, <<side, p, n>>)
    BY <2>1
  <2>. QED  BY <1>7, <2>1, <2>2 DEF Moved
<1> HIDE DEF h, S, R, first
<1>12. ASSUME NEW p \in Prices, NEW n \in DOMAIN q2[<<side, p>>], Within(o, p)
       PROVE  /\ h[<<side, p, n>>] \in R /\ h[<<side, p, n>>] # first
              /\ OrderAt(q, h[<<side, p, n>>]) = OrderAt(q2, <<side, p, n>>)
              /\ h[<<side, p, n>>][2] = p
  <2>1. CASE p = best
    <3>1. n \in 1 .. Len(q[key]) - 1 /\ <<side, p>> = key
      BY <1>2, <1>7, <2>1
    <3>2. n + 1 \in DOMAIN q[key] /\ q2[key][n] = q[key][n + 1] /\ n + 1 # 1
      BY <1>2, <3>1
    <3>3. h[<<side, p, n>>] = <<side, p, n + 1>>
      BY <1>11, <1>12, <2>1
    <3>4. <<side, p, n + 1>> \in R
      BY <1>4, <1>12, <3>1, <3>2
    <3>5. OrderAt(q, <<side, p, n + 1>>) = q[key][n + 1] /\ OrderAt(q2, <<side, p, n>>) = q2[key][n]
      BY <3>1 DEF OrderAt
    <3>. QED  BY <1>7, <3>2, <3>3, <3>4, <3>5
  <2>2. CASE p # best
    <3>1. <<side, p>> # key /\ <<side, p>> \in Keys
      BY <1>7, <1>8, <2>2
    <3>2. q2[<<side, p>>] = q[<<side, p>>]
      BY <1>2, <3>1
    <3>3. h[<<side, p, n>>] = <<side, p, n>>
      BY <1>11, <1>12, <2>2
    <3>4. <<side, p, n>> \in R
      BY <1>4, <1>12, <3>2
    <3>5. OrderAt(q, <<side, p, n>>) = OrderAt(q2, <<side, p, n>>)
      BY <3>2 DEF OrderAt
    <3>. QED  BY <1>7, <2>2, <3>3, <3>4, <3>5
  <2>. QED  BY <2>1, <2>2
<1>13. ASSUME NEW p \in Prices, NEW n \in DOMAIN q[<<side, p>>], Within(o, p),
              <<side, p, n>> # first
       PROVE  \E x \in S : h[x] = <<side, p, n>>
  <2>1. CASE p = best
    <3>1. n \in 1 .. Len(q[key]) /\ <<side, p>> = key /\ n # 1
      BY <1>2, <1>7, <1>13, <2>1
    <3>2. n - 1 \in DOMAIN q2[<<side, p>>] /\ (n - 1) + 1 = n
      <4>1. PICK l \in Nat : l = Len(q[key])
        BY <1>2
      <4>2. n \in 1 .. l /\ n # 1
        BY <3>1, <4>1
      <4>3. n - 1 \in 1 .. l - 1 /\ (n - 1) + 1 = n
        BY <4>2
      <4>4. DOMAIN q2[<<side, p>>] = 1 .. l - 1
        BY <1>2, <3>1, <4>1
      <4>. QED  BY <4>3, <4>4
    <3>3. <<side, p, n - 1>> \in S /\ h[<<side, p, n - 1>>] = <<side, p, (n - 1) + 1>>
      BY <1>11, <1>13, <2>1, <3>2
    <3>. QED  BY <3>2, <3>3
  <2>2. CASE p # best
    <3>1. <<side, p>> # key /\ <<side, p>> \in Keys
      BY <1>7, <1>8, <2>2
    <3>2. n \in DOMAIN q2[<<side, p>>]
      BY <1>2, <3>1
    <3>. QED  BY <1>11, <1>13, <2>2, <3>2
  <2>. QED  BY <2>1, <2>2
<1>14. ASSUME NEW p \in Prices, NEW n \in DOMAIN q2[<<side, p>>], Within(o, p),
              NEW r \in Prices, NEW m \in DOMAIN q2[<<side, r>>], Within(o, r)
       PROVE  /\ h[<<side, p, n>>] = h[<<side, r, m>>] => <<side, p, n>> = <<side, r, m>>
              /\ Before(<<side, p, n>>, <<side, r, m>>)
                   <=> Before(h[<<side, p, n>>], h[<<side, r, m>>])
  <2>1. n \in Nat /\ m \in Nat /\ p \in Int /\ r \in Int
    BY <1>8, <1>9
  <2>2. /\ h[<<side, p, n>>] = IF p = best THEN <<side, p, n + 1>> ELSE <<side, p, n>>
        /\ h[<<side, r, m>>] = IF r = best THEN <<side, r, m + 1>> ELSE <<side, r, m>>
    BY <1>11, <1>14
  <2>3. CASE p # r
    <3>1. h[<<side, p, n>>][1] = side /\ h[<<side, p, n>>][2] = p
      BY <2>2
    <3>2. h[<<side, r, m>>][1] = side /\ h[<<side, r, m>>][2] = r
      BY <2>2
    <3>3. \A x, y : x[1] = side /\ x[2] = p /\ y[1] = side /\ y[2] = r =>
            (Before(x, y) <=> IF side = "Buy" THEN p > r ELSE p < r)
      BY <2>3 DEF Before
    <3>4. <<side, p, n>>[1] = side /\ <<side, p, n>>[2] = p /\ <<side, r, m>>[1] = side /\ <<side, r, m>>[2] = r
      OBVIOUS
    <3>. QED  BY <2>3, <3>1, <3>2, <3>3, <3>4
  <2>4. CASE p = r
    <3>1. \A i, j : Before(<<side, p, i>>, <<side, p, j>>) <=> i < j
      BY <2>1 DEF Before
    <3>2. n + 1 < m + 1 <=> n < m
      BY <2>1
    <3>3. n + 1 = m + 1 => n = m
      BY <2>1
    <3>4. CASE p = best
      <4>1. h[<<side, p, n>>] = <<side, p, n + 1>> /\ h[<<side, r, m>>] = <<side, p, m + 1>>
        BY <2>2, <2>4, <3>4
      <4>. QED  BY <2>4, <3>1, <3>2, <3>3, <4>1
    <3>5. CASE p # best
      <4>1. h[<<side, p, n>>] = <<side, p, n>> /\ h[<<side, r, m>>] = <<side, p, m>>
        BY <2>2, <2>4, <3>5
      <4>. QED  BY <2>4, <3>1, <4>1
    <3>. QED  BY <3>4, <3>5
  <2>. QED  BY <2>3, <2>4
<1>15. Behind(q, o, first, q2, o2, h)
  <2>1. ASSUME NEW x \in S
        PROVE  h[x] \in R /\ h[x] # first /\ OrderAt(q, h[x]) = OrderAt(q2, x) /\ h[x][2] = x[2]
    <3>1. PICK p \in Prices : \E n \in DOMAIN q2[<<side, p>>] : x = <<side, p, n>> /\ Within(o, p)
      BY <1>5
    <3>2. PICK n \in DOMAIN q2[<<side, p>>] : x = <<side, p, n>> /\ Within(o, p)
      BY <3>1
    <3>. QED  BY <1>12, <3>2
  <2>2. ASSUME NEW y \in R, y # first PROVE \E x \in S : h[x] = y
    <3>1. PICK p \in Prices : \E n \in DOMAIN q[<<side, p>>] : y = <<side, p, n>> /\ Within(o, p)
      BY <1>4
    <3>. QED  BY <1>13, <2>2, <3>1
  <2>3. ASSUME NEW x \in S, NEW y \in S
        PROVE  (h[x] = h[y] => x = y) /\ (Before(x, y) <=> Before(h[x], h[y]))
    <3>1. PICK p \in Prices : \E n \in DOMAIN q2[<<side, p>>] : x = <<side, p, n>> /\ Within(o, p)
      BY <1>5
    <3>2. PICK r \in Prices : \E m \in DOMAIN q2[<<side, r>>] : y = <<side, r, m>> /\ Within(o, r)
      BY <1>5
    <3>. QED  BY <1>14, <3>1, <3>2
  <2>. QED  BY <2>1, <2>2, <2>3 DEF Behind, R, S
<1>. QED  BY <1>1, <1>2, <1>15 DEF Continues, h, S, first

\* What is taken at each place after the first fill is what was to be taken there.
LEMMA TakenAtMoves ==
  ASSUME NEW q, NEW o, NEW key, NEW q2, NEW o2, FillsFirst(q, o, key, q2, o2)
  PROVE  /\ \A other \in Keys : other # key =>
              \A n : /\ PlaceIn(other, n) \in Reach(q2, o2) <=> PlaceIn(other, n) \in Reach(q, o)
                     /\ PlaceIn(other, n) \in Reach(q2, o2)
                          => Taken(q2, o2, PlaceIn(other, n)) = Taken(q, o, PlaceIn(other, n))
         /\ \A n \in Nat \ {0} :
              /\ PlaceIn(key, n) \in Reach(q2, o2) <=> PlaceIn(key, n + 1) \in Reach(q, o)
              /\ PlaceIn(key, n) \in Reach(q2, o2)
                   => Taken(q2, o2, PlaceIn(key, n)) = Taken(q, o, PlaceIn(key, n + 1))
<1> DEFINE S == Reach(q2, o2)
           R == Reach(q, o)
           h == [x \in S |-> Moved(key, x)]
           first == PlaceIn(key, 1)
<1>1. Continues(q, o, key, q2, o2, h)
  BY FirstBehind
<1>2. /\ GoodBook(q) /\ GoodBook(q2) /\ o \in Lot /\ o2 \in Lot
      /\ Behind(q, o, first, q2, o2, h)
  BY <1>1 DEF Continues
<1>3. key \in Keys
  BY FirstLeaves
<1>4. \A x \in S : h[x] = Moved(key, x) /\ Taken(q, o, h[x]) = Taken(q2, o2, x)
  <2>1. \A x \in S : Taken(q, o, h[x]) = Taken(q2, o2, x)
    <3> HIDE DEF h
    <3>. QED  BY <1>1, TakenMoves
  <2>. QED  BY <2>1
<1>5. \A x \in S : \E p \in Prices : \E n \in Nat : x = <<OtherSide(o2.side), p, n>>
  <2> SUFFICES ASSUME NEW x \in S
               PROVE  \E p \in Prices : \E n \in Nat : x = <<OtherSide(o2.side), p, n>>
    OBVIOUS
  <2>1. PICK side \in Sides : side = OtherSide(o2.side)
    BY <1>2, OtherSideIs
  <2>2. PICK p \in Prices : \E n \in DOMAIN q2[<<OtherSide(o2.side), p>>] :
                              x = <<OtherSide(o2.side), p, n>> /\ Within(o2, p)
    <3>1. \A y : y \in S <=> \E p \in Prices : \E n \in DOMAIN q2[<<OtherSide(o2.side), p>>] :
                              y = <<OtherSide(o2.side), p, n>> /\ Within(o2, p)
      BY <1>2, InReach, Zenon
    <3> HIDE DEF S
    <3>. QED  BY <3>1, Zenon
  <2>3. PICK n \in DOMAIN q2[<<side, p>>] : x = <<side, p, n>>
    BY <2>1, <2>2
  <2>4. q2[<<side, p>>] \in Seq(Order)
    BY <1>2, KeyFacts DEF GoodBook, QueuesTyped
  <2>5. n \in Nat
    BY <2>3, <2>4
  <2>. QED  BY <2>1, <2>3, <2>5
<1>6. /\ \A x \in S : h[x] \in R /\ h[x] # first
      /\ \A y \in R : y # first => \E x \in S : h[x] = y
  BY <1>2 DEF Behind
<1> HIDE DEF h, S, R
<1>7. ASSUME NEW other \in Keys, other # key, NEW n
      PROVE  /\ PlaceIn(other, n) \in S <=> PlaceIn(other, n) \in R
             /\ PlaceIn(other, n) \in S
                  => Taken(q2, o2, PlaceIn(other, n)) = Taken(q, o, PlaceIn(other, n))
  <2> DEFINE y == PlaceIn(other, n)
  <2>1. other[1] # key[1] \/ other[2] # key[2]
    BY <1>3, <1>7, KeyFacts
  <2>2. y[1] = other[1] /\ y[2] = other[2] /\ y # first
    BY <2>1 DEF PlaceIn
  <2>3. y \in S => h[y] = y
    BY <1>4, <2>1, <2>2 DEF Moved
  <2>4. ASSUME y \in R PROVE y \in S
    <3>1. PICK x \in S : h[x] = y
      BY <1>6, <2>2, <2>4
    <3>2. Moved(key, x) = y
      BY <1>4, <3>1
    <3>3. CASE x[1] = key[1] /\ x[2] = key[2]
      <4>1. y[1] = key[1] /\ y[2] = key[2]
        BY <3>2, <3>3 DEF Moved
      <4>. QED  BY <2>1, <2>2, <4>1
    <3>4. CASE ~(x[1] = key[1] /\ x[2] = key[2])
      BY <3>2, <3>4 DEF Moved
    <3>. QED  BY <3>3, <3>4
  <2>. QED  BY <1>4, <1>6, <2>3, <2>4
<1>8. ASSUME NEW n \in Nat \ {0}
      PROVE  /\ PlaceIn(key, n) \in S <=> PlaceIn(key, n + 1) \in R
             /\ PlaceIn(key, n) \in S
                  => Taken(q2, o2, PlaceIn(key, n)) = Taken(q, o, PlaceIn(key, n + 1))
  <2> DEFINE x == PlaceIn(key, n)
             y == PlaceIn(key, n + 1)
  <2>1. Moved(key, x) = y
    BY DEF Moved, PlaceIn
  <2>2. x \in S => h[x] = y
    BY <1>4, <2>1
  <2>3. ASSUME y \in R PROVE x \in S
    <3>1. y # first
      <4>1. n + 1 # 1
        OBVIOUS
      <4>. QED  BY <4>1 DEF PlaceIn
    <3>2. PICK z \in S : h[z] = y
      BY <1>6, <2>3, <3>1
    <3>3. Moved(key, z) = y
      BY <1>4, <3>2
    <3>4. PICK p \in Prices : \E m \in Nat : z = <<OtherSide(o2.side), p, m>>
      BY <1>5
    <3>5. PICK m \in Nat : z = <<OtherSide(o2.side), p, m>>
      BY <3>4
    <3>6. CASE z[1] = key[1] /\ z[2] = key[2]
      <4>1. z = <<key[1], key[2], m>> /\ z[3] = m
        BY <3>5, <3>6
      <4>2. Moved(key, z) = <<key[1], key[2], m + 1>>
        BY <3>6, <4>1 DEF Moved
      <4>3. m + 1 = n + 1
        BY <3>3, <4>2 DEF PlaceIn
      <4>4. m = n
        BY <4>3
      <4>. QED  BY <4>1, <4>4 DEF PlaceIn
    <3>7. CASE ~(z[1] = key[1] /\ z[2] = key[2])
      <4>1. z = y
        BY <3>3, <3>7 DEF Moved
      <4>. QED  BY <3>7, <4>1 DEF PlaceIn
    <3>. QED  BY <3>6, <3>7
  <2>. QED  BY <1>4, <1>6, <2>2, <2>3
<1>. QED  BY <1>7, <1>8 DEF S, R

\* A served queue is the reduced one without what is empty.
LEMMA ServedIsTrimmed ==
  ASSUME NEW q, NEW o, NEW key
  PROVE  Served(q, o, key) = Trimmed(Reduced(q, o, key))
BY ServedIs DEF Trimmed

\* After the first fill the match leaves the queues it was to leave.
LEMMA ServedMoves ==
  ASSUME NEW q, NEW o, NEW key, NEW q2, NEW o2, FillsFirst(q, o, key, q2, o2)
  PROVE  \A other \in Keys : Served(q2, o2, other) = Served(q, o, other)
<1>1. /\ GoodBook(q2) /\ o2 \in Lot /\ key \in Keys
      /\ q[key] \in Seq(Order) /\ q2[key] \in Seq(Order)
      /\ Len(q[key]) \in Nat \ {0} /\ DOMAIN q[key] = 1 .. Len(q[key])
      /\ DOMAIN q2[key] = 1 .. Len(q[key]) - 1
      /\ \A n \in 1 .. Len(q[key]) - 1 : q2[key][n] = q[key][n + 1]
      /\ \A other \in Keys : other # key => q2[other] = q[other]
  BY FirstLeaves
<1>2. GoodBook(q) /\ o \in Lot
  BY DEF FillsFirst
<1>3. ASSUME NEW other \in Keys, other # key
      PROVE  Served(q2, o2, other) = Served(q, o, other)
  <2>1. q2[other] = q[other]
    BY <1>1, <1>3
  <2>2. \A n \in DOMAIN q[other] : Reduced(q2, o2, other)[n] = Reduced(q, o, other)[n]
    <3> SUFFICES ASSUME NEW n \in DOMAIN q[other]
                 PROVE  Reduced(q2, o2, other)[n] = Reduced(q, o, other)[n]
      OBVIOUS
    <3>1. /\ PlaceIn(other, n) \in Reach(q2, o2) <=> PlaceIn(other, n) \in Reach(q, o)
          /\ PlaceIn(other, n) \in Reach(q2, o2)
               => Taken(q2, o2, PlaceIn(other, n)) = Taken(q, o, PlaceIn(other, n))
      BY <1>3, TakenAtMoves
    <3>2. CASE PlaceIn(other, n) \in Reach(q2, o2)
      BY <2>1, <3>1, <3>2 DEF Reduced
    <3>3. CASE PlaceIn(other, n) \notin Reach(q2, o2)
      BY <2>1, <3>1, <3>3 DEF Reduced
    <3>. QED  BY <3>2, <3>3
  <2>3. /\ Reduced(q2, o2, other) = [n \in DOMAIN q[other] |-> Reduced(q2, o2, other)[n]]
        /\ Reduced(q, o, other) = [n \in DOMAIN q[other] |-> Reduced(q, o, other)[n]]
    BY <2>1 DEF Reduced
  <2>4. Reduced(q2, o2, other) = Reduced(q, o, other)
    BY <2>2, <2>3
  <2>. QED  BY <2>4, ServedIsTrimmed
<1>4. Served(q2, o2, key) = Served(q, o, key)
  <2> DEFINE r == Reduced(q, o, key)
             s == Reduced(q2, o2, key)
  <2>1. /\ r \in Seq(Lot) /\ Len(r) = Len(q[key])
        /\ \A n \in 1 .. Len(q[key]) : LeftOf(q[key][n], TakenAt(q, o, key, n), r[n])
    BY <1>1, <1>2, ReducedFacts
  <2>2. s \in Seq(Lot) /\ Len(s) = Len(q2[key])
    BY <1>1, ReducedFacts
  <2>3. PICK l \in Nat : Len(q[key]) = l + 1 /\ Len(q2[key]) = l
    <3>1. Len(q[key]) - 1 \in Nat /\ Len(q[key]) = (Len(q[key]) - 1) + 1
      BY <1>1
    <3>2. Len(q2[key]) = Len(q[key]) - 1
      BY <1>1, <3>1
    <3>. QED  BY <3>1, <3>2
  <2>4. r[1].quantity = 0
    <3>1. Continues(q, o, key, q2, o2, [x \in Reach(q2, o2) |-> Moved(key, x)])
      BY FirstBehind
    <3>2. /\ PlaceIn(key, 1) \in Reach(q, o) /\ Taken(q, o, PlaceIn(key, 1)) = q[key][1].quantity
          /\ q[key][1].quantity \in Nat
      BY <3>1, FirstIsFilled
    <3>3. 1 \in 1 .. Len(q[key])
      BY <1>1
    <3>4. r[1].quantity = q[key][1].quantity - TakenAt(q, o, key, 1)
      BY <2>1, <3>3 DEF LeftOf
    <3>. QED  BY <3>2, <3>4 DEF TakenAt
  <2>5. ASSUME NEW n \in 1 .. l PROVE r[n + 1] = s[n]
    <3>1. n \in Nat \ {0} /\ n \in DOMAIN q2[key] /\ n + 1 \in DOMAIN q[key]
          /\ q2[key][n] = q[key][n + 1]
      <4>1. n \in 1 .. Len(q[key]) - 1 /\ n + 1 \in 1 .. Len(q[key]) /\ n \in Nat \ {0}
        BY <2>3
      <4>. QED  BY <1>1, <4>1
    <3>2. /\ PlaceIn(key, n) \in Reach(q2, o2) <=> PlaceIn(key, n + 1) \in Reach(q, o)
          /\ PlaceIn(key, n) \in Reach(q2, o2)
               => Taken(q2, o2, PlaceIn(key, n)) = Taken(q, o, PlaceIn(key, n + 1))
      BY <3>1, TakenAtMoves
    <3>3. CASE PlaceIn(key, n) \in Reach(q2, o2)
      BY <3>1, <3>2, <3>3 DEF Reduced
    <3>4. CASE PlaceIn(key, n) \notin Reach(q2, o2)
      BY <3>1, <3>2, <3>4 DEF Reduced
    <3>. QED  BY <3>3, <3>4
  <2> HIDE DEF r, s
  <2>6. Len(r) = Len(s) + 1 /\ \A n \in 1 .. Len(s) : r[n + 1] = s[n]
    BY <2>1, <2>2, <2>3, <2>5
  <2>7. Trimmed(r) = Trimmed(s)
    BY <2>1, <2>2, <2>4, <2>6, TrimmedTail
  <2>. QED  BY <2>7, ServedIsTrimmed DEF r, s
<1>. QED  BY <1>3, <1>4

\* The first fill of o trades k at key and leaves q2 and o2.
FirstOf(q, o, key, k, q2, o2) ==
  /\ GoodBook(q) /\ o \in Lot /\ o.quantity > 0 /\ IsFront(q, o, key)
  /\ k = FirstFill(q, o, key)
  /\ q2 = AfterFill(q, key, k)
  /\ o2 = LessTaker(o, k)

\* What o takes is in the front order when that one has more than o wants.
LEMMA FrontSuffices ==
  ASSUME NEW q, GoodBook(q), NEW o \in Lot, o.quantity > 0, NEW key, IsFront(q, o, key),
         o.quantity < q[key][1].quantity
  PROVE  /\ Taken(q, o, PlaceIn(key, 1)) = o.quantity
         /\ \A x \in Reach(q, o) : x # PlaceIn(key, 1) => Taken(q, o, x) = 0
<1>1. q[key][1].quantity \in Nat /\ o.quantity \in Nat
  BY FrontFacts DEF Order, Lot
<1>2. Taken(q, o, PlaceIn(key, 1)) = FirstFill(q, o, key)
  BY FrontFacts
<1>3. FirstFill(q, o, key) = o.quantity
  BY <1>1 DEF FirstFill
<1>4. ASSUME NEW x \in Reach(q, o), x # PlaceIn(key, 1) PROVE Taken(q, o, x) = 0
  <2>1. Ahead(q, o, x) >= q[key][1].quantity
    BY <1>4, FrontFacts
  <2>2. Ahead(q, o, x) \in Nat
    BY AheadFacts
  <2>3. o.quantity - Ahead(q, o, x) <= 0
    BY <1>1, <2>1, <2>2
  <2>. QED  BY <2>3, TakenFacts
<1>. QED  BY <1>2, <1>3, <1>4

\* A fill that leaves the maker standing is the last.
LEMMA LastFill ==
  ASSUME NEW q, NEW o, NEW key, NEW k, NEW q2, NEW o2, FirstOf(q, o, key, k, q2, o2),
         o.quantity < q[key][1].quantity
  PROVE  /\ GoodBook(q2) /\ o2 \in Lot
         /\ Fills(q, o) = <<Fill(q, o, PlaceIn(key, 1))>> \o Fills(q2, o2)
         /\ Left(q, o) = Left(q2, o2)
         /\ \A other \in Keys : Served(q2, o2, other) = Served(q, o, other)
<1> DEFINE first == PlaceIn(key, 1)
           R == Reach(q, o)
<1>1. /\ GoodBook(q) /\ o \in Lot /\ o.quantity > 0 /\ IsFront(q, o, key)
      /\ k = FirstFill(q, o, key) /\ q2 = AfterFill(q, key, k) /\ o2 = LessTaker(o, k)
  BY DEF FirstOf
<1>2. /\ q[key] \in Seq(Order) /\ q[key] # << >> /\ q[key][1] \in Order /\ key \in Keys
      /\ 1 \in DOMAIN q[key] /\ first \in R
  BY <1>1, FrontFacts DEF IsFront
<1>3. q[key][1].quantity \in Nat /\ o.quantity \in Nat /\ k = o.quantity /\ k \in 1 .. q[key][1].quantity
  <2>1. q[key][1].quantity \in Nat /\ o.quantity \in Nat
    BY <1>1, <1>2 DEF Order, Lot
  <2>. QED  BY <1>1, <2>1 DEF FirstFill
<1>4. GoodBook(q2) /\ OnlyNew(q, key, Shrunk(q[key], k), q2)
  BY <1>1, <1>2, <1>3, AfterFillFacts
<1>5. o2 \in Lot /\ o2.quantity = 0
  <2>1. k \in Nat /\ k <= o.quantity /\ o.quantity - k = 0
    BY <1>3
  <2>. QED  BY <1>1, <2>1, TakerLess
<1>6. /\ Fills(q2, o2) = << >> /\ Left(q2, o2) = 0
      /\ \A other \in Keys : Served(q2, o2, other) = q2[other]
  <2>1. \A x \in Reach(q2, o2) : Taken(q2, o2, x) = 0
    <3> TAKE x \in Reach(q2, o2)
    <3>1. Taken(q2, o2, x) \in Nat /\ Taken(q2, o2, x) <= o2.quantity
      BY <1>4, <1>5, TakenFacts
    <3>. QED  BY <1>5, <3>1
  <2>. QED  BY <1>4, <1>5, <2>1, NoFill
<1>7. Taken(q, o, first) = o.quantity /\ \A x \in R : x # first => Taken(q, o, x) = 0
  BY <1>1, FrontSuffices
<1> HIDE DEF first, R
<1>8. Fills(q, o) = <<Fill(q, o, first)>> \o Fills(q2, o2)
  <2>1. Makers(q, o) = {first}
    BY <1>1, <1>2, <1>7 DEF Makers, R
  <2>2. Cardinality(Makers(q, o)) = 1
    BY <2>1, FS_Singleton
  <2>3. Nth(q, o, 1) = first
    BY <1>1, <2>1, <2>2, NthFacts
  <2>4. Fills(q, o) = [n \in 1 .. 1 |-> Fill(q, o, Nth(q, o, n))]
    BY <2>2, FillsIs
  <2> DEFINE t == Fill(q, o, first)
  <2>5. Fills(q, o) = <<t>>
    <3>1. \A n \in 1 .. 1 : Fill(q, o, Nth(q, o, n)) = t
      BY <2>3
    <3> HIDE DEF t
    <3>. QED  BY <2>4, <3>1
  <2> HIDE DEF t
  <2>6. <<t>> \o << >> = <<t>>
    OBVIOUS
  <2>. QED  BY <1>6, <2>5, <2>6 DEF t
<1>9. Left(q, o) = 0
  <2> DEFINE f == [x \in R |-> Taken(q, o, x)]
  <2>1. SumFunction(f) = SumFunctionOnSet(f, R)
    <3>1. DOMAIN f = R
      OBVIOUS
    <3>. QED  BY <3>1, Zenon DEF SumFunction
  <2>2. IsFiniteSet(R) /\ first \in R /\ f[first] = o.quantity /\ f[first] \in Int
        /\ \A x \in R \ {first} : f[x] = 0
    BY <1>1, <1>2, <1>3, <1>7, ReachFacts DEF R
  <2>3. Left(q, o) = o.quantity - SumFunction(f)
    BY DEF Left, R
  <2> HIDE DEF f
  <2>4. SumFunctionOnSet(f, R) = o.quantity
    BY <2>2, SumOfOne
  <2>. QED  BY <1>3, <2>1, <2>3, <2>4
<1>10. ASSUME NEW other \in Keys PROVE Served(q, o, other) = q2[other]
  <2>1. q[other] \in Seq(Order)
    BY <1>1, TakenAtFacts
  <2>2. \A n \in DOMAIN q[other] : PlaceIn(other, n) = first <=> (other = key /\ n = 1)
    <3>1. other = <<other[1], other[2]>> /\ key = <<key[1], key[2]>>
      BY <1>2, KeyFacts
    <3>. QED  BY <3>1 DEF PlaceIn, first
  <2>3. Served(q, o, other) = Reduced(q, o, other)
    <3>1. \A n \in DOMAIN q[other] : TakenAt(q, o, other, n) < q[other][n].quantity
      <4> TAKE n \in DOMAIN q[other]
      <4>1. q[other][n].quantity \in Nat \ {0}
        BY <1>1, TakenAtFacts
      <4>2. CASE PlaceIn(other, n) = first
        BY <1>7, <2>2, <4>1, <4>2 DEF TakenAt, R
      <4>3. CASE PlaceIn(other, n) # first
        BY <1>7, <4>1, <4>3 DEF TakenAt, R
      <4>. QED  BY <4>2, <4>3
    <3>. QED  BY <1>1, <3>1, ServedWhole
  <2>4. q2[other] \in Seq(Order) /\ DOMAIN q2[other] = DOMAIN q[other]
        /\ (other # key => q2[other] = q[other])
        /\ (other = key => /\ q2[other][1] = [q[key][1] EXCEPT !.quantity = @ - k]
                           /\ \A n \in DOMAIN q[key] : n # 1 => q2[other][n] = q[key][n])
    <3>1. CASE other # key
      <4>1. q2[other] = q[other]
        BY <1>4, <3>1 DEF OnlyNew
      <4>. QED  BY <2>1, <3>1, <4>1
    <3>2. CASE other = key
      <4>1. q2[key] = Shrunk(q[key], k)
        BY <1>4 DEF OnlyNew
      <4>2. k \in Nat /\ k < q[key][1].quantity
        BY <1>3
      <4>. QED  BY <1>2, <3>2, <4>1, <4>2, ShrunkPart
    <3>. QED  BY <3>1, <3>2
  <2>5. ASSUME NEW n \in DOMAIN q[other] PROVE Reduced(q, o, other)[n] = q2[other][n]
    <3>1. CASE PlaceIn(other, n) = first
      <4>1. other = key /\ n = 1
        BY <2>2, <3>1
      <4>2. Reduced(q, o, other)[n] = [q[other][n] EXCEPT !.quantity = @ - Taken(q, o, first)]
        BY <1>2, <3>1 DEF Reduced, R
      <4>. QED  BY <1>3, <1>7, <2>4, <4>1, <4>2
    <3>2. CASE PlaceIn(other, n) # first
      <4>1. q2[other][n] = q[other][n]
        BY <2>2, <2>4, <3>2 DEF first
      <4>2. CASE PlaceIn(other, n) \notin R
        BY <4>1, <4>2 DEF Reduced, R
      <4>3. CASE PlaceIn(other, n) \in R
        <5>1. Taken(q, o, PlaceIn(other, n)) = 0
          BY <1>7, <3>2, <4>3
        <5>2. Reduced(q, o, other)[n] = [q[other][n] EXCEPT !.quantity = @ - 0]
          BY <4>3, <5>1 DEF Reduced, R
        <5>3. q[other][n] \in Order
          BY <2>1
        <5>4. q[other][n].quantity - 0 = q[other][n].quantity
          BY <5>3 DEF Order
        <5>. QED  BY <4>1, <5>2, <5>3, <5>4 DEF Order
      <4>. QED  BY <4>2, <4>3
    <3>. QED  BY <3>1, <3>2
  <2>6. /\ Reduced(q, o, other) = [n \in DOMAIN q[other] |-> Reduced(q, o, other)[n]]
        /\ q2[other] = [n \in DOMAIN q[other] |-> q2[other][n]]
    BY <2>4 DEF Reduced
  <2>. QED  BY <2>3, <2>5, <2>6
<1>. QED  BY <1>4, <1>5, <1>6, <1>8, <1>9, <1>10 DEF first

\* A fill that takes the whole maker leaves the rest of the match as it was.
LEMMA WholeFill ==
  ASSUME NEW q, NEW o, NEW key, NEW k, NEW q2, NEW o2, FirstOf(q, o, key, k, q2, o2),
         o.quantity >= q[key][1].quantity
  PROVE  /\ GoodBook(q2) /\ o2 \in Lot
         /\ Fills(q, o) = <<Fill(q, o, PlaceIn(key, 1))>> \o Fills(q2, o2)
         /\ Left(q, o) = Left(q2, o2)
         /\ \A other \in Keys : Served(q2, o2, other) = Served(q, o, other)
<1>1. /\ GoodBook(q) /\ o \in Lot /\ o.quantity > 0 /\ IsFront(q, o, key)
      /\ k = FirstFill(q, o, key) /\ q2 = AfterFill(q, key, k) /\ o2 = LessTaker(o, k)
  BY DEF FirstOf
<1>2. k = q[key][1].quantity
  <2>1. q[key][1].quantity \in Nat /\ o.quantity \in Nat
    BY <1>1, FrontFacts DEF Order, Lot
  <2>. QED  BY <1>1, <2>1 DEF FirstFill
<1>3. FillsFirst(q, o, key, q2, o2)
  BY <1>1, <1>2 DEF FillsFirst
<1> DEFINE h == [x \in Reach(q2, o2) |-> Moved(key, x)]
<1>4. Continues(q, o, key, q2, o2, h)
  BY <1>3, FirstBehind
<1> HIDE DEF h
<1>5. GoodBook(q2) /\ o2 \in Lot
  BY <1>4 DEF Continues
<1>. QED  BY <1>3, <1>4, <1>5, FillsMove, LeftMoves, ServedMoves

\* One fill and then the match of the rest are the match: its trades, what is left
\* of the order and what is left of every queue.  It is what each iteration of the
\* loop in executeOrder rests on.
THEOREM FillAndRest ==
  ASSUME NEW q, NEW o, NEW key, NEW k, NEW q2, NEW o2, FirstOf(q, o, key, k, q2, o2)
  PROVE  /\ GoodBook(q2) /\ o2 \in Lot
         /\ Fill(q, o, PlaceIn(key, 1)).quantity = k
         /\ Fills(q, o) = <<Fill(q, o, PlaceIn(key, 1))>> \o Fills(q2, o2)
         /\ Left(q, o) = Left(q2, o2)
         /\ \A other \in Keys : Served(q2, o2, other) = Served(q, o, other)
<1>1. GoodBook(q) /\ o \in Lot /\ IsFront(q, o, key) /\ k = FirstFill(q, o, key)
  BY DEF FirstOf
<1>2. Fill(q, o, PlaceIn(key, 1)).quantity = k
  <2>1. Taken(q, o, PlaceIn(key, 1)) = k
    BY <1>1, FrontFacts
  <2>. QED  BY <2>1 DEF Fill
<1>3. q[key][1].quantity \in Nat /\ o.quantity \in Nat
  BY <1>1, FrontFacts DEF Order, Lot
<1>4. CASE o.quantity >= q[key][1].quantity
  BY <1>2, <1>4, WholeFill
<1>5. CASE o.quantity < q[key][1].quantity
  BY <1>2, <1>5, LastFill
<1>. QED  BY <1>3, <1>4, <1>5
=============================================================================
