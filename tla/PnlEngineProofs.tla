-------------------------- MODULE PnlEngineProofs --------------------------
(***************************************************************************)
(* Proofs about PnlEngine, for any trades, participants, symbols, initial  *)
(* cash and marks.  The induction over subsets and the facts about folds   *)
(* come first, then the arithmetic of ratios in lowest terms and of sums   *)
(* of them, then the accounts, fill by fill and trade by trade.            *)
(***************************************************************************)
EXTENDS PnlEngine, FiniteSetTheorems, SequenceTheorems, WellFoundedInduction, TLAPS

----------------------------------------------------------------------------
(* Induction and iteration over finite sets                                *)

\* A set of numbers that holds 0 and the successor of each of its numbers holds all.
LEMMA NaturalInduction ==
  ASSUME NEW K, 0 \in K, \A n \in Nat : n \in K => n + 1 \in K
  PROVE  Nat \subseteq K
<1> SUFFICES ASSUME Nat \ K # {} PROVE FALSE
  OBVIOUS
<1>1. PICK n \in Nat \ K : \A m \in Nat \ K : <<m, n>> \notin OpToRel(<, Nat)
  BY NatLessThanWellFounded, WFMin, Nat \ K \subseteq Nat, Zenon
<1>2. \A m \in Nat : m < n => m \in K
  BY <1>1 DEF OpToRel
<1>3. n \in Nat /\ n \notin K
  OBVIOUS
<1>4. n - 1 \in Nat /\ n - 1 < n /\ (n - 1) + 1 = n
  BY <1>3
<1>5. n - 1 \in K
  BY <1>2, <1>4
<1>. QED  BY <1>3, <1>4, <1>5

\* A family of sets that holds the empty set, and each subset of S that it holds
\* without any one of its elements, holds every subset of S.
LEMMA SubsetInduction ==
  ASSUME NEW S, IsFiniteSet(S), NEW K, {} \in K,
         \A T \in SUBSET S : T # {} /\ (\A x \in T : T \ {x} \in K) => T \in K
  PROVE  SUBSET S \subseteq K
<1> DEFINE Sized == {n \in Nat : \A T \in SUBSET S : Cardinality(T) = n => T \in K}
<1>1. \A T \in SUBSET S : IsFiniteSet(T) /\ Cardinality(T) \in Nat
  BY FS_Subset, FS_CardinalityType
<1>2. 0 \in Sized
  <2>1. \A T \in SUBSET S : Cardinality(T) = 0 => T = {}
    BY <1>1, FS_EmptySet
  <2>. QED  BY <2>1
<1>3. ASSUME NEW n \in Nat, n \in Sized
      PROVE  n + 1 \in Sized
  <2> SUFFICES ASSUME NEW T \in SUBSET S, Cardinality(T) = n + 1
               PROVE  T \in K
    OBVIOUS
  <2>1. T # {} /\ IsFiniteSet(T)
    BY <1>1, FS_EmptySet
  <2>2. ASSUME NEW x \in T PROVE T \ {x} \in K
    <3>1. Cardinality(T \ {x}) = Cardinality(T) - 1
      BY <2>1, FS_RemoveElement
    <3>2. Cardinality(T \ {x}) = n /\ T \ {x} \in SUBSET S
      BY <3>1
    <3>. QED  BY <1>3, <3>2
  <2>. QED  BY <2>1, <2>2
<1> HIDE DEF Sized
<1>4. Nat \subseteq Sized
  BY <1>2, <1>3, NaturalInduction
<1>5. \A T \in SUBSET S : Cardinality(T) \in Sized
  BY <1>1, <1>4
<1>. QED  BY <1>5 DEF Sized

\* The recursion of the library's folds: the function g on the subsets of S takes
\* the element first[T] out of T.
Recursion(S, base, first, step, g) ==
  \A T \in SUBSET S : g[T] = IF T = {} THEN base ELSE step[<<T, g[T \ {first[T]}]>>]

\* There is such a function, if the steps stay within the set V.
LEMMA RecursionExists ==
  ASSUME NEW S, IsFiniteSet(S), NEW V, NEW base \in V,
         NEW first, \A T \in SUBSET S : T # {} => first[T] \in T,
         NEW step, \A T \in SUBSET S, v \in V : step[<<T, v>>] \in V
  PROVE  \E g \in [SUBSET S -> V] : Recursion(S, base, first, step, g)
<1> DEFINE Upto(n) == {T \in SUBSET S : Cardinality(T) <= n}
           Value(g, T) == IF T = {} THEN base ELSE step[<<T, g[T \ {first[T]}]>>]
           Built == {n \in Nat : \E g \in [Upto(n) -> V] : \A T \in Upto(n) : g[T] = Value(g, T)}
<1>1. \A T \in SUBSET S : IsFiniteSet(T) /\ Cardinality(T) \in Nat
  BY FS_Subset, FS_CardinalityType
<1>2. ASSUME NEW n \in Nat, NEW T \in Upto(n + 1), T # {}
      PROVE  T \in SUBSET S /\ T \ {first[T]} \in Upto(n)
  <2>1. first[T] \in T /\ IsFiniteSet(T) /\ Cardinality(T) \in Nat /\ Cardinality(T) <= n + 1
    BY <1>1, <1>2
  <2>2. Cardinality(T \ {first[T]}) = Cardinality(T) - 1
    BY <2>1, FS_RemoveElement
  <2>. QED  BY <2>1, <2>2
<1>3. 0 \in Built
  <2>1. \A T \in Upto(0) : T = {}
    BY <1>1, FS_EmptySet
  <2> DEFINE g == [T \in Upto(0) |-> base]
  <2>2. g \in [Upto(0) -> V] /\ \A T \in Upto(0) : g[T] = Value(g, T)
    BY <2>1
  <2> HIDE DEF g, Upto, Value
  <2>. QED  BY <2>2
<1>4. ASSUME NEW n \in Nat, n \in Built
      PROVE  n + 1 \in Built
  <2>1. PICK g \in [Upto(n) -> V] : \A T \in Upto(n) : g[T] = Value(g, T)
    BY <1>4
  <2> DEFINE h == [T \in Upto(n + 1) |-> Value(g, T)]
  <2>2. ASSUME NEW T \in Upto(n) PROVE T \in Upto(n + 1)
    BY <1>1
  <2> HIDE DEF Upto
  <2>3. h \in [Upto(n + 1) -> V]
    BY <1>2
  <2>4. \A T \in Upto(n) : h[T] = g[T]
    <3> HIDE DEF Value
    <3>. QED  BY <2>1, <2>2
  <2>5. \A T \in Upto(n + 1) : h[T] = Value(h, T)
    <3> SUFFICES ASSUME NEW T \in Upto(n + 1)
                 PROVE  h[T] = Value(h, T)
      OBVIOUS
    <3>1. h[T] = Value(g, T)
      <4> HIDE DEF Value
      <4>. QED  OBVIOUS
    <3>2. T # {} => h[T \ {first[T]}] = g[T \ {first[T]}]
      BY <1>2, <2>4
    <3> HIDE DEF h
    <3>. QED  BY <3>1, <3>2
  <2> HIDE DEF h, Value
  <2>. QED  BY <2>3, <2>5
<1> HIDE DEF Built
<1>5. Cardinality(S) \in Built
  BY <1>1, <1>3, <1>4, NaturalInduction
<1>6. Upto(Cardinality(S)) = SUBSET S
  BY FS_Subset
<1> HIDE DEF Upto
<1>. QED  BY <1>5, <1>6 DEF Built, Recursion

----------------------------------------------------------------------------
(* Arithmetic of integers *)

Positive == Nat \ {0}

\* A positive factor cancels.
LEMMA Cancels ==
  ASSUME NEW a \in Int, NEW b \in Int, NEW c \in Positive, a * c = b * c
  PROVE  a = b
<1>1. (a - b) * c = 0
  BY DEF Positive
<1>. QED  BY <1>1 DEF Positive

\* What div and mod are,
LEMMA Divides ==
  ASSUME NEW a \in Int, NEW b \in Positive, NEW q, q = a \div b, NEW r, r = a % b
  PROVE  q \in Int /\ r \in 0 .. b - 1 /\ a = b * q + r
<1>1. q \in Int /\ r \in 0 .. b - 1
  BY DEF Positive
<1>2. r \in Int
  BY <1>1 DEF Positive
<1>. QED  BY <1>1, <1>2 DEF Positive

\* and that they undo a product.
LEMMA DividesBack ==
  ASSUME NEW a \in Int, NEW b \in Positive
  PROVE  (b * a) % b = 0 /\ (b * a) \div b = a
<1>1. \A n \in Int, r \in 0 .. b - 1 : n = b * a + r => a = n \div b /\ r = n % b
  BY DEF Positive
<1>2. b * a \in Int /\ 0 \in 0 .. b - 1 /\ b * a = b * a + 0
  BY DEF Positive
<1> DEFINE n == b * a
<1>3. n \in Int /\ n = b * a + 0
  BY <1>2
<1> HIDE DEF n
<1>4. a = n \div b /\ 0 = n % b
  BY <1>1, <1>2, <1>3
<1>. QED  BY <1>4 DEF n

\* n / d = k / j
SameRatio(n, d, k, j) == k * d = n * j

\* k / j is n / d in lowest terms.
Lowest(n, d, k, j) ==
  /\ k \in Int /\ j \in Positive /\ SameRatio(n, d, k, j)
  /\ \A l \in Int, m \in Positive :
       SameRatio(n, d, l, m) => \E q \in Positive : m = q * j /\ l = q * k

\* Every ratio has lowest terms: those with the least denominator.
LEMMA LowestExists ==
  ASSUME NEW n \in Int, NEW d \in Positive
  PROVE  \E k, j : Lowest(n, d, k, j)
<1> DEFINE Den == {m \in Positive : \E l \in Int : SameRatio(n, d, l, m)}
<1>1. d \in Den
  BY DEF SameRatio
<1>2. PICK j \in Den : \A m \in Den : <<m, j>> \notin OpToRel(<, Nat)
  BY <1>1, NatLessThanWellFounded, WFMin, Den \subseteq Nat, Zenon DEF Positive
<1>3. \A m \in Den : ~(m < j)
  BY <1>2 DEF OpToRel, Positive
<1>4. PICK k \in Int : SameRatio(n, d, k, j)
  BY <1>2
<1>5. j \in Positive /\ j \in Nat /\ j \in Int
  <2>1. Den \subseteq Positive
    OBVIOUS
  <2>2. j \in Positive
    BY <1>2, <2>1, Zenon
  <2>. QED  BY <2>2 DEF Positive
<1> HIDE DEF Den
<1>6. ASSUME NEW l \in Int, NEW m \in Positive, SameRatio(n, d, l, m)
      PROVE  \E q \in Positive : m = q * j /\ l = q * k
  <2>0. PICK q, r : q = m \div j /\ r = m % j
    OBVIOUS
  <2>1. m \in Int
    BY DEF Positive
  <2>2. q \in Int /\ r \in 0 .. j - 1 /\ m = j * q + r
    <3>1. q \in Int /\ r \in 0 .. j - 1
      BY <1>5, <2>0, <2>1 DEF Positive
    <3>2. r \in Int
      BY <1>5, <3>1
    <3>. QED  BY <1>5, <2>0, <2>1, <3>1, <3>2 DEF Positive
  <2>3. l - q * k \in Int /\ (l - q * k) * d = n * r
    <3>1. l * d = n * (j * q + r) /\ k * d = n * j
      BY <1>4, <1>6, <2>2 DEF SameRatio
    <3>2. (l - q * k) * d = l * d - q * (k * d)
      BY <2>2 DEF Positive
    <3>3. n * (j * q + r) = q * (n * j) + n * r
      BY <1>5, <2>2 DEF Positive
    <3>. QED  BY <1>5, <2>2, <3>1, <3>2, <3>3 DEF Positive
  <2>4. r = 0
    <3>1. CASE r > 0
      <4>1. r \in Positive /\ r < j
        BY <1>5, <2>2, <3>1 DEF Positive
      <4>2. r \in Den
        BY <2>3, <4>1 DEF SameRatio, Den
      <4>. QED  BY <1>3, <4>1, <4>2
    <3>. QED  BY <1>5, <2>2, <3>1
  <2>5. l - q * k = 0
    <3>1. (l - q * k) * d = 0 * d
      BY <2>3, <2>4 DEF Positive
    <3>. QED  BY <2>3, <3>1, Cancels
  <2>6. q > 0
    BY <1>5, <2>2, <2>4 DEF Positive
  <2>7. m = q * j /\ l = q * k /\ q \in Positive
    BY <1>5, <2>2, <2>4, <2>5, <2>6 DEF Positive
  <2>. QED  BY <2>7
<1>7. Lowest(n, d, k, j)
  BY <1>4, <1>5, <1>6, Zenon DEF Lowest
<1>. QED  BY <1>7

\* Dividing by the greatest common divisor finds them.
LEMMA RatioIsLowest ==
  ASSUME NEW n \in Int, NEW d \in Positive, NEW k, NEW j, Lowest(n, d, k, j)
  PROVE  Ratio(n, d) = [n |-> k, d |-> j]
<1> DEFINE D == {g \in 1 .. d : n % g = 0 /\ d % g = 0}
<1>1. PICK q \in Positive : d = q * j /\ n = q * k
  BY DEF Lowest, SameRatio
<1>2. k \in Int /\ j \in Positive
  BY DEF Lowest
<1>3. q \in D /\ n \div q = k /\ d \div q = j
  <2>1. q \in 1 .. d
    BY <1>1, <1>2 DEF Positive
  <2>2. j \in Int
    BY <1>2 DEF Positive
  <2>. QED  BY <1>1, <1>2, <2>1, <2>2, DividesBack
<1>4. ASSUME NEW g \in D
      PROVE  g <= q
  <2> DEFINE a == n \div g
             b == d \div g
  <2>1. g \in Positive /\ d \in Int /\ n % g = 0 /\ d % g = 0
    BY DEF Positive
  <2>2. a \in Int /\ b \in Int /\ n = g * a + 0 /\ d = g * b + 0
    BY <2>1, Divides
  <2> HIDE DEF a, b
  <2>3. n = g * a /\ d = g * b /\ b \in Positive
    BY <2>1, <2>2 DEF Positive
  <2>4. SameRatio(n, d, a, b)
    BY <2>2, <2>3 DEF SameRatio, Positive
  <2>5. PICK p \in Positive : b = p * j
    BY <2>2, <2>3, <2>4 DEF Lowest
  <2>6. q * j = (g * p) * j
    BY <1>1, <1>2, <2>1, <2>3, <2>5 DEF Positive
  <2>7. q = g * p
    BY <1>2, <2>1, <2>6, Cancels DEF Positive
  <2>. QED  BY <2>1, <2>7 DEF Positive
<1>5. \A g \in D : g \in Int
  OBVIOUS
<1> HIDE DEF D
<1>6. Max(D) = q
  <2>1. \A x \in D : (\A y \in D : x >= y) => x = q
    <3> TAKE x \in D
    <3> HAVE \A y \in D : x >= y
    <3>. QED  BY <1>3, <1>4, <1>5
  <2>2. \A y \in D : q >= y
    BY <1>3, <1>4, <1>5
  <2>. QED  BY <1>3, <2>1, <2>2 DEF Max
<1>. QED  BY <1>3, <1>6 DEF Ratio, D

\* The ratios.
Ratios == {Ratio(n, d) : n \in Int, d \in Positive}

\* A ratio in lowest terms has the value it is of,
LEMMA RatioFacts ==
  ASSUME NEW n \in Int, NEW d \in Positive
  PROVE  /\ Ratio(n, d) \in Ratios
         /\ Ratio(n, d) = [n |-> Ratio(n, d).n, d |-> Ratio(n, d).d]
         /\ Ratio(n, d).n \in Int /\ Ratio(n, d).d \in Positive
         /\ Ratio(n, d).n * d = n * Ratio(n, d).d
<1>1. PICK k, j : Lowest(n, d, k, j)
  BY LowestExists
<1>2. Ratio(n, d) = [n |-> k, d |-> j]
  BY <1>1, RatioIsLowest
<1>3. Ratio(n, d) \in Ratios
  BY DEF Ratios
<1>. QED  BY <1>1, <1>2, <1>3 DEF Lowest, SameRatio

\* and ratios of the same value are the same.
LEMMA RatioSame ==
  ASSUME NEW n \in Int, NEW d \in Positive, NEW m \in Int, NEW e \in Positive, n * e = m * d
  PROVE  Ratio(n, d) = Ratio(m, e)
<1>1. PICK k, j : Lowest(n, d, k, j)
  BY LowestExists
<1>2. d \in Int /\ e \in Int
  BY DEF Positive
<1>3. ASSUME NEW l \in Int, NEW i \in Int
      PROVE  SameRatio(n, d, l, i) <=> SameRatio(m, e, l, i)
  <2>1. (l * d) * e = (l * e) * d /\ (n * i) * e = (m * i) * d
    BY <1>2
  <2>2. /\ l * d \in Int /\ l * e \in Int /\ n * i \in Int /\ m * i \in Int
    BY <1>2
  <2>3. l * d = n * i => l * e = m * i
    BY <2>1, <2>2, Cancels
  <2>4. l * e = m * i => l * d = n * i
    BY <2>1, <2>2, Cancels
  <2>. QED  BY <2>3, <2>4 DEF SameRatio
<1>4. Lowest(m, e, k, j)
  <2>1. k \in Int /\ j \in Positive /\ j \in Int
    BY <1>1 DEF Lowest, Positive
  <2>2. \A i \in Positive : i \in Int
    BY DEF Positive
  <2>. QED  BY <1>1, <1>3, <2>1, <2>2 DEF Lowest
<1>. QED  BY <1>1, <1>4, RatioIsLowest

\* Ratios are pairs, and equal when their values are.
LEMMA RatioType ==
  ASSUME NEW x \in Ratios
  PROVE  x.n \in Int /\ x.d \in Positive /\ x = Ratio(x.n, x.d)
<1>1. PICK n \in Int, d \in Positive : x = Ratio(n, d)
  BY DEF Ratios
<1>2. x.n \in Int /\ x.d \in Positive /\ n * x.d = x.n * d
  BY <1>1, RatioFacts
<1>. QED  BY <1>1, <1>2, RatioSame

\* The whole numbers among the ratios.
LEMMA WholeIs ==
  ASSUME NEW n \in Int
  PROVE  Whole(n) \in Ratios /\ Whole(n).n = n /\ Whole(n).d = 1 /\ Whole(n) = Ratio(n, 1)
<1>1. Lowest(n, 1, n, 1)
  <2>1. ASSUME NEW l \in Int, NEW m \in Positive, SameRatio(n, 1, l, m)
        PROVE  \E q \in Positive : m = q * 1 /\ l = q * n
    <3>1. m = m * 1 /\ l = m * n
      BY <2>1 DEF SameRatio, Positive
    <3>. QED  BY <3>1
  <2>2. n \in Int /\ 1 \in Positive /\ SameRatio(n, 1, n, 1)
    BY DEF SameRatio, Positive
  <2>. QED  BY <2>1, <2>2 DEF Lowest
<1>2. Ratio(n, 1) = [n |-> n, d |-> 1]
  BY <1>1, RatioIsLowest, 1 \in Positive DEF Positive
<1>3. Ratio(n, 1) \in Ratios
  BY 1 \in Positive DEF Ratios, Positive
<1>. QED  BY <1>2, <1>3 DEF Whole

\* The value of a sum.
LEMMA PlusIs ==
  ASSUME NEW x \in Ratios, NEW y \in Ratios
  PROVE  /\ Plus(x, y) \in Ratios /\ Plus(x, y).n \in Int /\ Plus(x, y).d \in Positive
         /\ Plus(x, y).n * (x.d * y.d) = (x.n * y.d + y.n * x.d) * Plus(x, y).d
<1>1. x.n \in Int /\ x.d \in Positive /\ y.n \in Int /\ y.d \in Positive
  BY RatioType
<1>2. x.n * y.d + y.n * x.d \in Int /\ x.d * y.d \in Positive
  BY <1>1 DEF Positive
<1>. QED  BY <1>2, RatioFacts DEF Plus

\* The value of a multiple.
LEMMA TimesIs ==
  ASSUME NEW k \in Int, NEW x \in Ratios
  PROVE  /\ Times(k, x) \in Ratios /\ Times(k, x).n \in Int /\ Times(k, x).d \in Positive
         /\ Times(k, x).n * x.d = (k * x.n) * Times(k, x).d
<1>1. x.n \in Int /\ x.d \in Positive
  BY RatioType
<1>2. k * x.n \in Int
  BY <1>1
<1>. QED  BY <1>1, <1>2, RatioFacts DEF Times

\* The value of a part.
LEMMA OverIs ==
  ASSUME NEW k \in Positive, NEW x \in Ratios
  PROVE  /\ Over(x, k) \in Ratios /\ Over(x, k).n \in Int /\ Over(x, k).d \in Positive
         /\ Over(x, k).n * (x.d * k) = x.n * Over(x, k).d
<1>1. x.n \in Int /\ x.d \in Positive
  BY RatioType
<1>2. x.d * k \in Positive
  BY <1>1 DEF Positive
<1>. QED  BY <1>1, <1>2, RatioFacts DEF Over
\* Ratios add like numbers.
LEMMA PlusCommutes ==
  ASSUME NEW x \in Ratios, NEW y \in Ratios
  PROVE  Plus(x, y) = Plus(y, x)
<1>1. x.n \in Int /\ x.d \in Int /\ y.n \in Int /\ y.d \in Int
  BY RatioType DEF Positive
<1>2. x.n * y.d + y.n * x.d = y.n * x.d + x.n * y.d /\ x.d * y.d = y.d * x.d
  BY <1>1
<1>. QED  BY <1>2 DEF Plus

\* Two sums over one denominator.
LEMMA PlusOfThree ==
  ASSUME NEW x \in Ratios, NEW y \in Ratios, NEW z \in Ratios
  PROVE  Plus(Plus(x, y), z)
           = Ratio(((x.n * y.d) * z.d + (y.n * x.d) * z.d) + (z.n * x.d) * y.d, (x.d * y.d) * z.d)
<1> DEFINE w == Plus(x, y)
<1>1. /\ x.n \in Int /\ x.d \in Int /\ y.n \in Int /\ y.d \in Int /\ z.n \in Int /\ z.d \in Int
      /\ x.d \in Positive /\ y.d \in Positive /\ z.d \in Positive
  BY RatioType DEF Positive
<1>2. /\ w \in Ratios /\ w.n \in Int /\ w.d \in Positive /\ w.d \in Int
      /\ w.n * (x.d * y.d) = (x.n * y.d + y.n * x.d) * w.d
  BY PlusIs DEF Positive
<1> HIDE DEF w
<1> DEFINE n == ((x.n * y.d) * z.d + (y.n * x.d) * z.d) + (z.n * x.d) * y.d
           d == (x.d * y.d) * z.d
<1>3. (w.n * z.d + z.n * w.d) * d = n * (w.d * z.d)
  <2>1. (w.n * z.d + z.n * w.d) * d
          = (w.n * (x.d * y.d)) * (z.d * z.d) + ((z.n * x.d) * y.d) * (w.d * z.d)
    BY <1>1, <1>2
  <2>2. (w.n * (x.d * y.d)) * (z.d * z.d) = ((x.n * y.d + y.n * x.d) * w.d) * (z.d * z.d)
    BY <1>2
  <2>3. ((x.n * y.d + y.n * x.d) * w.d) * (z.d * z.d)
          = ((x.n * y.d) * z.d + (y.n * x.d) * z.d) * (w.d * z.d)
    BY <1>1, <1>2
  <2>4. n * (w.d * z.d) = ((x.n * y.d) * z.d + (y.n * x.d) * z.d) * (w.d * z.d)
                            + ((z.n * x.d) * y.d) * (w.d * z.d)
    BY <1>1, <1>2
  <2> HIDE DEF n, d
  <2>. QED  BY <2>1, <2>2, <2>3, <2>4
<1>4. n \in Int /\ w.n * z.d + z.n * w.d \in Int
  BY <1>1, <1>2
<1>5. d \in Positive /\ w.d * z.d \in Positive
  BY <1>1, <1>2 DEF Positive
<1> HIDE DEF n, d
<1>6. Ratio(w.n * z.d + z.n * w.d, w.d * z.d) = Ratio(n, d)
  BY <1>3, <1>4, <1>5, RatioSame
<1>. QED  BY <1>6 DEF Plus, w, n, d

\* A sum of three does not depend on where it begins.
LEMMA PlusAssociates ==
  ASSUME NEW x \in Ratios, NEW y \in Ratios, NEW z \in Ratios
  PROVE  Plus(Plus(x, y), z) = Plus(x, Plus(y, z))
<1>1. /\ x.n \in Int /\ x.d \in Int /\ y.n \in Int /\ y.d \in Int /\ z.n \in Int /\ z.d \in Int
  BY RatioType DEF Positive
<1>2. Plus(x, Plus(y, z)) = Plus(Plus(y, z), x)
  BY PlusIs, PlusCommutes
<1>3. ((x.n * y.d) * z.d + (y.n * x.d) * z.d) + (z.n * x.d) * y.d
        = ((y.n * z.d) * x.d + (z.n * y.d) * x.d) + (x.n * y.d) * z.d
  BY <1>1
<1>4. (x.d * y.d) * z.d = (y.d * z.d) * x.d
  BY <1>1
<1>. QED  BY <1>2, <1>3, <1>4, PlusOfThree

\* Zero is a ratio.
LEMMA ZeroIs == Zero \in Ratios /\ Zero.n = 0 /\ Zero.d = 1
  BY WholeIs DEF Zero

\* Zero adds nothing.
LEMMA PlusZero ==
  ASSUME NEW x \in Ratios
  PROVE  Plus(x, Zero) = x /\ Plus(Zero, x) = x
<1>1. x.n \in Int /\ x.d \in Int /\ x = Ratio(x.n, x.d)
  BY RatioType DEF Positive
<1>2. x.n * 1 + 0 * x.d = x.n /\ x.d * 1 = x.d
  BY <1>1
<1>3. Plus(x, Zero) = x
  BY <1>1, <1>2, ZeroIs DEF Plus
<1>. QED  BY <1>3, ZeroIs, PlusCommutes

\* What is added may be added in another order.
LEMMA PlusExchanges ==
  ASSUME NEW x \in Ratios, NEW y \in Ratios, NEW z \in Ratios
  PROVE  Plus(x, Plus(y, z)) = Plus(y, Plus(x, z))
<1>1. Plus(x, Plus(y, z)) = Plus(Plus(x, y), z) /\ Plus(y, Plus(x, z)) = Plus(Plus(y, x), z)
  BY PlusAssociates
<1>. QED  BY <1>1, PlusCommutes

\* The last two of three may be exchanged.
LEMMA PlusMoves ==
  ASSUME NEW x \in Ratios, NEW y \in Ratios, NEW z \in Ratios
  PROVE  Plus(Plus(x, y), z) = Plus(Plus(x, z), y)
<1>1. Plus(Plus(x, y), z) = Plus(x, Plus(y, z)) /\ Plus(Plus(x, z), y) = Plus(x, Plus(z, y))
  BY PlusAssociates
<1>. QED  BY <1>1, PlusCommutes

\* Two sums may be paired the other way.
LEMMA PlusPairs ==
  ASSUME NEW x \in Ratios, NEW y \in Ratios, NEW z \in Ratios, NEW w \in Ratios
  PROVE  Plus(Plus(x, y), Plus(z, w)) = Plus(Plus(x, z), Plus(y, w))
<1>1. Plus(x, y) \in Ratios /\ Plus(x, z) \in Ratios
  BY PlusIs
<1>2. Plus(Plus(x, y), Plus(z, w)) = Plus(Plus(Plus(x, y), z), w)
  BY <1>1, PlusAssociates
<1>3. Plus(Plus(x, z), Plus(y, w)) = Plus(Plus(Plus(x, z), y), w)
  BY <1>1, PlusAssociates
<1>. QED  BY <1>2, <1>3, PlusMoves

\* Multiples.
LEMMA TimesOfTimes ==
  ASSUME NEW k \in Int, NEW l \in Int, NEW x \in Ratios
  PROVE  Times(k, Times(l, x)) = Times(k * l, x)
<1> DEFINE y == Times(l, x)
<1>1. x.n \in Int /\ x.d \in Int /\ x.d \in Positive
  BY RatioType DEF Positive
<1>2. /\ y \in Ratios /\ y.n \in Int /\ y.d \in Positive /\ y.d \in Int
      /\ y.n * x.d = (l * x.n) * y.d
  BY TimesIs DEF Positive
<1> HIDE DEF y
<1>3. (k * y.n) * x.d = ((k * l) * x.n) * y.d
  <2>1. (k * y.n) * x.d = k * (y.n * x.d) /\ ((k * l) * x.n) * y.d = k * ((l * x.n) * y.d)
    BY <1>1, <1>2
  <2>. QED  BY <1>2, <2>1
<1>4. k * y.n \in Int /\ (k * l) * x.n \in Int
  BY <1>1, <1>2
<1>5. Ratio(k * y.n, y.d) = Ratio((k * l) * x.n, x.d)
  BY <1>1, <1>2, <1>3, <1>4, RatioSame
<1>. QED  BY <1>5 DEF Times, y

\* A multiple of a sum is the sum of the multiples,
LEMMA TimesOfPlus ==
  ASSUME NEW k \in Int, NEW x \in Ratios, NEW y \in Ratios
  PROVE  Times(k, Plus(x, y)) = Plus(Times(k, x), Times(k, y))
<1> DEFINE w == Plus(x, y)
           u == Times(k, x)
           v == Times(k, y)
<1>1. /\ x.n \in Int /\ x.d \in Int /\ y.n \in Int /\ y.d \in Int
      /\ x.d \in Positive /\ y.d \in Positive
  BY RatioType DEF Positive
<1>2. /\ w \in Ratios /\ w.n \in Int /\ w.d \in Positive /\ w.d \in Int
      /\ w.n * (x.d * y.d) = (x.n * y.d + y.n * x.d) * w.d
  BY PlusIs DEF Positive
<1>3. /\ u.n \in Int /\ u.d \in Positive /\ u.d \in Int /\ u.n * x.d = (k * x.n) * u.d
      /\ v.n \in Int /\ v.d \in Positive /\ v.d \in Int /\ v.n * y.d = (k * y.n) * v.d
  BY TimesIs DEF Positive
<1> DEFINE n == k * (x.n * y.d + y.n * x.d)
           d == x.d * y.d
<1> HIDE DEF w, u, v
<1>4. n \in Int /\ d \in Positive /\ d \in Int
  BY <1>1 DEF Positive
<1>5. Ratio(k * w.n, w.d) = Ratio(n, d)
  <2>1. (k * w.n) * d = n * w.d
    <3>1. (k * w.n) * d = k * (w.n * (x.d * y.d))
      BY <1>1, <1>2
    <3>2. n * w.d = k * ((x.n * y.d + y.n * x.d) * w.d)
      BY <1>1, <1>2
    <3>. QED  BY <1>2, <3>1, <3>2
  <2>2. k * w.n \in Int
    BY <1>2
  <2> HIDE DEF n, d
  <2>. QED  BY <1>2, <1>4, <2>1, <2>2, RatioSame
<1>6. Ratio(u.n * v.d + v.n * u.d, u.d * v.d) = Ratio(n, d)
  <2>1. (u.n * v.d + v.n * u.d) * d = n * (u.d * v.d)
    <3>1. (u.n * v.d + v.n * u.d) * d = (u.n * x.d) * (v.d * y.d) + (v.n * y.d) * (u.d * x.d)
      BY <1>1, <1>3
    <3>2. n * (u.d * v.d) = ((k * x.n) * u.d) * (v.d * y.d) + ((k * y.n) * v.d) * (u.d * x.d)
      BY <1>1, <1>3
    <3>. QED  BY <1>3, <3>1, <3>2
  <2>2. u.n * v.d + v.n * u.d \in Int
    BY <1>3
  <2>3. u.d * v.d \in Positive
    BY <1>3 DEF Positive
  <2> HIDE DEF n, d
  <2>. QED  BY <1>4, <2>1, <2>2, <2>3, RatioSame
<1>. QED  BY <1>5, <1>6 DEF Times, Plus, w, u, v

\* and a sum of multiples is a multiple by the sum.
LEMMA TimesOfSum ==
  ASSUME NEW k \in Int, NEW l \in Int, NEW x \in Ratios
  PROVE  Times(k + l, x) = Plus(Times(k, x), Times(l, x))
<1> DEFINE u == Times(k, x)
           v == Times(l, x)
<1>1. x.n \in Int /\ x.d \in Int /\ x.d \in Positive
  BY RatioType DEF Positive
<1>2. /\ u.n \in Int /\ u.d \in Positive /\ u.d \in Int /\ u.n * x.d = (k * x.n) * u.d
      /\ v.n \in Int /\ v.d \in Positive /\ v.d \in Int /\ v.n * x.d = (l * x.n) * v.d
  BY TimesIs DEF Positive
<1> HIDE DEF u, v
<1>3. (u.n * v.d + v.n * u.d) * x.d = ((k + l) * x.n) * (u.d * v.d)
  <2>1. (u.n * v.d + v.n * u.d) * x.d = (u.n * x.d) * v.d + (v.n * x.d) * u.d
    BY <1>1, <1>2
  <2>2. ((k + l) * x.n) * (u.d * v.d) = ((k * x.n) * u.d) * v.d + ((l * x.n) * v.d) * u.d
    BY <1>1, <1>2
  <2>. QED  BY <1>2, <2>1, <2>2
<1>4. u.n * v.d + v.n * u.d \in Int /\ (k + l) * x.n \in Int
  BY <1>1, <1>2
<1>5. u.d * v.d \in Positive
  BY <1>2 DEF Positive
<1>6. Ratio(u.n * v.d + v.n * u.d, u.d * v.d) = Ratio((k + l) * x.n, x.d)
  BY <1>1, <1>3, <1>4, <1>5, RatioSame
<1>. QED  BY <1>6 DEF Times, Plus, u, v

\* No multiple of zero is anything else.
LEMMA TimesZero ==
  ASSUME NEW x \in Ratios, NEW k \in Int
  PROVE  Times(0, x) = Zero /\ Times(k, Zero) = Zero
<1>1. x.n \in Int /\ x.d \in Positive /\ 0 * x.n = 0 /\ k * 0 = 0
  BY RatioType
<1>2. Ratio(0, x.d) = Ratio(0, 1)
  BY <1>1, RatioSame, 1 \in Positive DEF Positive
<1>. QED  BY <1>1, <1>2, WholeIs DEF Times, Zero

\* A multiple of a whole number is whole.
LEMMA TimesOfWhole ==
  ASSUME NEW k \in Int, NEW n \in Int
  PROVE  Times(k, Whole(n)) = Whole(k * n)
<1>1. k * n \in Int
  OBVIOUS
<1>. QED  BY <1>1, WholeIs DEF Times

\* A sum of whole numbers is whole.
LEMMA PlusOfWholes ==
  ASSUME NEW n \in Int, NEW m \in Int
  PROVE  Plus(Whole(n), Whole(m)) = Whole(n + m)
<1>1. n * 1 + m * 1 = n + m /\ 1 * 1 = 1 /\ n + m \in Int
  OBVIOUS
<1>. QED  BY <1>1, WholeIs DEF Plus

\* As many parts as a ratio was divided into make it up.
LEMMA TimesOfOver ==
  ASSUME NEW k \in Positive, NEW x \in Ratios
  PROVE  Over(x, k) \in Ratios /\ Times(k, Over(x, k)) = x
<1> DEFINE y == Over(x, k)
<1>1. k \in Int /\ x.n \in Int /\ x.d \in Int /\ x.d \in Positive /\ x = Ratio(x.n, x.d)
  BY RatioType DEF Positive
<1>2. /\ y \in Ratios /\ y.n \in Int /\ y.d \in Positive /\ y.d \in Int
      /\ y.n * (x.d * k) = x.n * y.d
  BY OverIs DEF Positive
<1> HIDE DEF y
<1>3. (k * y.n) * x.d = x.n * y.d /\ k * y.n \in Int
  BY <1>1, <1>2
<1>4. Ratio(k * y.n, y.d) = Ratio(x.n, x.d)
  BY <1>1, <1>2, <1>3, RatioSame
<1>. QED  BY <1>1, <1>2, <1>4 DEF Times, y
----------------------------------------------------------------------------
(* Sums of ratios                                                          *)

SumOn(f, S) == FoldFunctionOnSet(Plus, Zero, f, S)

\* The element that the library takes out of a set first.
Pick(T) == CHOOSE x \in T : TRUE

\* What the library's sum of f over S is the value at S of.
Adds(f, S, g) ==
  g = [T \in SUBSET S |-> IF T = {} THEN Zero ELSE Plus(f[Pick(T)], g[T \ {Pick(T)}])]

\* The sum as the library defines it.
LEMMA SumDefined ==
  ASSUME NEW f, NEW S
  PROVE  SumOn(f, S) = (CHOOSE g : Adds(f, S, g))[S]
  BY Zenon DEF SumOn, FoldFunctionOnSet, MapThenFoldSet, Adds, Pick

\* What is picked is there.
LEMMA PickIn ==
  ASSUME NEW T, T # {}
  PROVE  Pick(T) \in T
  BY DEF Pick

\* It goes down the subsets.
LEMMA AddsValue ==
  ASSUME NEW f, NEW S, NEW g, Adds(f, S, g), NEW T \in SUBSET S
  PROVE  g[T] = IF T = {} THEN Zero ELSE Plus(f[Pick(T)], g[T \ {Pick(T)}])
  BY DEF Adds

\* There is one such function, and its values are ratios.
LEMMA AddsExists ==
  ASSUME NEW S, IsFiniteSet(S), NEW f, \A x \in S : f[x] \in Ratios
  PROVE  \E g \in [SUBSET S -> Ratios] : Adds(f, S, g)
<1> DEFINE first == [T \in SUBSET S |-> Pick(T)]
           step == [p \in (SUBSET S) \X Ratios |-> Plus(f[Pick(p[1])], p[2])]
<1>1. \A T \in SUBSET S : T # {} => first[T] \in T
  BY PickIn
<1>2. PICK any \in Ratios : TRUE
  BY ZeroIs
<1>3. ASSUME NEW T \in SUBSET S, NEW v \in Ratios, T # {}
      PROVE  step[<<T, v>>] = Plus(f[Pick(T)], v) /\ step[<<T, v>>] \in Ratios
  BY <1>3, PickIn, PlusIs
<1> DEFINE total == [p \in (SUBSET S) \X Ratios |-> IF p[1] = {} THEN Zero ELSE step[p]]
<1>4. \A T \in SUBSET S, v \in Ratios : total[<<T, v>>] \in Ratios
  <2> TAKE T \in SUBSET S, v \in Ratios
  <2>1. total[<<T, v>>] = IF T = {} THEN Zero ELSE step[<<T, v>>]
    <3> HIDE DEF step
    <3>. QED  OBVIOUS
  <2> HIDE DEF total, step
  <2>. QED  BY <1>3, <2>1, ZeroIs
<1>5. PICK g \in [SUBSET S -> Ratios] : Recursion(S, Zero, first, total, g)
  <2> HIDE DEF first, total
  <2>. QED  BY <1>1, <1>4, ZeroIs, RecursionExists
<1>6. ASSUME NEW T \in SUBSET S
      PROVE  g[T] = IF T = {} THEN Zero ELSE Plus(f[Pick(T)], g[T \ {Pick(T)}])
  <2>1. CASE T = {}
    BY <1>5, <2>1 DEF Recursion
  <2>2. CASE T # {}
    <3>1. g[T] = total[<<T, g[T \ {first[T]}]>>] /\ first[T] = Pick(T)
      <4> HIDE DEF total
      <4>. QED  BY <1>5, <2>2 DEF Recursion
    <3>2. g[T \ {Pick(T)}] \in Ratios
      OBVIOUS
    <3>3. total[<<T, g[T \ {Pick(T)}]>>] = step[<<T, g[T \ {Pick(T)}]>>]
      <4> HIDE DEF step
      <4>. QED  BY <2>2, <3>2
    <3> HIDE DEF first, total, step
    <3>. QED  BY <1>3, <2>2, <3>1, <3>2, <3>3
  <2>. QED  BY <2>1, <2>2
<1>7. Adds(f, S, g)
  BY <1>6 DEF Adds
<1>. QED  BY <1>7

\* A sum takes the element picked, and then sums the rest.
LEMMA SumFacts ==
  ASSUME NEW S, IsFiniteSet(S), NEW f, \A x \in S : f[x] \in Ratios
  PROVE  /\ SumOn(f, S) \in Ratios
         /\ S = {} => SumOn(f, S) = Zero
         /\ S # {} => SumOn(f, S) = Plus(f[Pick(S)], SumOn(f, S \ {Pick(S)}))
<1> DEFINE R == S \ {Pick(S)}
           g == CHOOSE h : Adds(f, S, h)
           r == CHOOSE h : Adds(f, R, h)
<1>1. IsFiniteSet(R) /\ R \subseteq S
  BY FS_RemoveElement
<1>2. PICK a \in [SUBSET S -> Ratios] : Adds(f, S, a)
  BY AddsExists
<1>3. \E h : Adds(f, R, h)
  <2> HIDE DEF R
  <2>. QED  BY <1>1, AddsExists
<1>4. Adds(f, S, g) /\ Adds(f, R, r)
  <2> HIDE DEF R
  <2>. QED  BY <1>2, <1>3
<1>5. SumOn(f, S) = g[S] /\ SumOn(f, R) = r[R]
  BY SumDefined
<1> HIDE DEF g, r
<1>6. g[S] = a[S]
  <2> DEFINE K == {T \in SUBSET S : g[T] = a[T]}
  <2>1. {} \in K
    BY <1>2, <1>4, AddsValue
  <2>2. ASSUME NEW T \in SUBSET S, T # {}, \A x \in T : T \ {x} \in K
        PROVE  T \in K
    <3>1. g[T \ {Pick(T)}] = a[T \ {Pick(T)}]
      BY <2>2, PickIn
    <3>. QED  BY <1>2, <1>4, <2>2, <3>1, AddsValue
  <2> HIDE DEF K
  <2>3. SUBSET S \subseteq K
    BY <2>1, <2>2, SubsetInduction
  <2>. QED  BY <2>3 DEF K
<1>7. g[R] = r[R]
  <2> DEFINE K == {T \in SUBSET S : T \in SUBSET R => g[T] = r[T]}
  <2>1. {} \in K
    BY <1>4, AddsValue
  <2>2. ASSUME NEW T \in SUBSET S, T # {}, \A x \in T : T \ {x} \in K, T \in SUBSET R
        PROVE  g[T] = r[T]
    <3>1. g[T \ {Pick(T)}] = r[T \ {Pick(T)}]
      BY <2>2, PickIn
    <3> HIDE DEF R
    <3>. QED  BY <1>4, <2>2, <3>1, AddsValue
  <2>3. \A T \in SUBSET S : T # {} /\ (\A x \in T : T \ {x} \in K) => T \in K
    BY <2>2
  <2> HIDE DEF K
  <2>4. SUBSET S \subseteq K
    BY <2>1, <2>3, SubsetInduction
  <2>. QED  BY <1>1, <2>4 DEF K
<1>8. S = {} => g[S] = Zero
  BY <1>4 DEF Adds
<1>9. S # {} => g[S] = Plus(f[Pick(S)], g[R])
  BY <1>4 DEF Adds
<1>. QED  BY <1>5, <1>6, <1>7, <1>8, <1>9

\* Any element can be taken out of a sum.
LEMMA SumTakes ==
  ASSUME NEW S, IsFiniteSet(S), NEW f, \A x \in S : f[x] \in Ratios, NEW a \in S
  PROVE  SumOn(f, S) = Plus(f[a], SumOn(f, S \ {a}))
<1> DEFINE K == {T \in SUBSET S : \A x \in T : SumOn(f, T) = Plus(f[x], SumOn(f, T \ {x}))}
<1>1. {} \in K
  OBVIOUS
<1>2. \A T \in SUBSET S : IsFiniteSet(T) /\ SumOn(f, T) \in Ratios
  BY FS_Subset, SumFacts
<1>3. ASSUME NEW T \in SUBSET S, T # {}, \A x \in T : T \ {x} \in K
      PROVE  T \in K
  <2> DEFINE y == Pick(T)
  <2>1. y \in T /\ SumOn(f, T) = Plus(f[y], SumOn(f, T \ {y}))
    BY <1>2, <1>3, PickIn, SumFacts
  <2> HIDE DEF y
  <2> SUFFICES ASSUME NEW x \in T, x # y
               PROVE  SumOn(f, T) = Plus(f[x], SumOn(f, T \ {x}))
    BY <2>1
  <2> DEFINE rest == SumOn(f, (T \ {x}) \ {y})
  <2>2. SumOn(f, T \ {y}) = Plus(f[x], rest)
    <3>1. (T \ {x}) \ {y} = (T \ {y}) \ {x}
      OBVIOUS
    <3>. QED  BY <1>3, <2>1, <3>1
  <2>3. SumOn(f, T \ {x}) = Plus(f[y], rest)
    BY <1>3, <2>1
  <2>4. f[x] \in Ratios /\ f[y] \in Ratios /\ rest \in Ratios
    BY <1>2, <2>1
  <2> HIDE DEF rest
  <2>. QED  BY <2>1, <2>2, <2>3, <2>4, PlusExchanges
<1> HIDE DEF K
<1>4. SUBSET S \subseteq K
  BY <1>1, <1>3, SubsetInduction
<1>. QED  BY <1>4 DEF K

\* Sums of the same ratios are the same.
LEMMA SumSame ==
  ASSUME NEW S, IsFiniteSet(S), NEW f, NEW g, \A x \in S : f[x] \in Ratios /\ f[x] = g[x]
  PROVE  SumOn(f, S) = SumOn(g, S)
<1> DEFINE K == {T \in SUBSET S : SumOn(f, T) = SumOn(g, T)}
<1>1. {} \in K
  BY SumFacts, FS_EmptySet
<1>2. ASSUME NEW T \in SUBSET S, T # {}, T \ {Pick(T)} \in K
      PROVE  T \in K
  <2>1. Pick(T) \in T /\ IsFiniteSet(T)
    BY <1>2, PickIn, FS_Subset
  <2>2. SumOn(f, T) = Plus(f[Pick(T)], SumOn(f, T \ {Pick(T)}))
    BY <1>2, <2>1, SumFacts
  <2>3. SumOn(g, T) = Plus(g[Pick(T)], SumOn(g, T \ {Pick(T)}))
    BY <1>2, <2>1, SumFacts
  <2>. QED  BY <1>2, <2>1, <2>2, <2>3
<1> HIDE DEF K
<1>3. \A T \in SUBSET S : T # {} /\ (\A x \in T : T \ {x} \in K) => T \in K
  BY <1>2, PickIn
<1>4. SUBSET S \subseteq K
  BY <1>1, <1>3, SubsetInduction, Zenon
<1>. QED  BY <1>4 DEF K

\* The sum of the sums is the sum of two sums.
LEMMA SumOfSums ==
  ASSUME NEW S, IsFiniteSet(S), NEW f, NEW g, NEW h,
         \A x \in S : f[x] \in Ratios /\ g[x] \in Ratios /\ h[x] = Plus(f[x], g[x])
  PROVE  SumOn(h, S) = Plus(SumOn(f, S), SumOn(g, S))
<1> DEFINE K == {T \in SUBSET S : SumOn(h, T) = Plus(SumOn(f, T), SumOn(g, T))}
<1>0. \A x \in S : h[x] \in Ratios
  BY PlusIs
<1>1. {} \in K
  BY <1>0, SumFacts, FS_EmptySet, ZeroIs, PlusZero
<1>2. ASSUME NEW T \in SUBSET S, T # {}, T \ {Pick(T)} \in K
      PROVE  T \in K
  <2> DEFINE y == Pick(T)
             R == T \ {y}
  <2>1. y \in T /\ IsFiniteSet(T) /\ IsFiniteSet(R)
    BY <1>2, PickIn, FS_Subset
  <2>2. /\ SumOn(f, T) = Plus(f[y], SumOn(f, R)) /\ SumOn(g, T) = Plus(g[y], SumOn(g, R))
        /\ SumOn(h, T) = Plus(h[y], SumOn(h, R))
    BY <1>0, <1>2, <2>1, SumFacts
  <2>3. SumOn(h, R) = Plus(SumOn(f, R), SumOn(g, R))
    BY <1>2
  <2>4. f[y] \in Ratios /\ g[y] \in Ratios /\ h[y] = Plus(f[y], g[y])
    BY <2>1
  <2>5. SumOn(f, R) \in Ratios /\ SumOn(g, R) \in Ratios
    BY <2>1, SumFacts
  <2>6. Plus(Plus(f[y], g[y]), Plus(SumOn(f, R), SumOn(g, R)))
          = Plus(Plus(f[y], SumOn(f, R)), Plus(g[y], SumOn(g, R)))
    BY <2>4, <2>5, PlusPairs
  <2>. QED  BY <2>2, <2>3, <2>4, <2>6
<1> HIDE DEF K
<1>3. \A T \in SUBSET S : T # {} /\ (\A x \in T : T \ {x} \in K) => T \in K
  BY <1>2, PickIn
<1>4. SUBSET S \subseteq K
  BY <1>1, <1>3, SubsetInduction, Zenon
<1>. QED  BY <1>4 DEF K

\* What is added to one of the ratios is added to the sum.
LEMMA SumChanges ==
  ASSUME NEW S, IsFiniteSet(S), NEW f, NEW g, NEW a \in S, NEW more \in Ratios,
         \A x \in S : f[x] \in Ratios /\ g[x] = IF x = a THEN Plus(f[x], more) ELSE f[x]
  PROVE  SumOn(g, S) = Plus(SumOn(f, S), more)
<1> DEFINE R == S \ {a}
           rest == SumOn(f, R)
<1>1. IsFiniteSet(R) /\ \A x \in S : g[x] \in Ratios
  BY FS_Subset, PlusIs
<1>2. SumOn(f, S) = Plus(f[a], rest) /\ SumOn(g, S) = Plus(g[a], SumOn(g, R))
  BY <1>1, SumTakes
<1>3. SumOn(g, R) = rest
  BY <1>1, SumSame
<1>4. rest \in Ratios
  BY <1>1, SumFacts
<1> HIDE DEF R, rest
<1>. QED  BY <1>2, <1>3, <1>4, PlusMoves

----------------------------------------------------------------------------
(* Accounts                                                                *)

State == [position : Int, average_entry_price : Ratios, realised_pnl : Ratios]
Account == [initial_cash : Int, cash_balance : Int, symbols : [Symbols -> State]]

\* What a state has brought in: what was realised less what its position cost.
BookValue(s) == Plus(s.realised_pnl, Times(-s.position, s.average_entry_price))

BookValues(account) == [s \in Symbols |-> BookValue(account.symbols[s])]

\* The cash of an account is what it began with and what its states brought in.
Balanced(account) ==
  Whole(account.cash_balance)
    = Plus(Whole(account.initial_cash), SumOn(BookValues(account), Symbols))

\* Accounts that are of their type and balanced.
SoundAccounts ==
  {all \in UNION {[D -> Account] : D \in SUBSET Participants} :
     \A p \in DOMAIN all : Balanced(all[p])}

\* The position of a participant in the symbol of the book.
PositionOf(all, p) ==
  IF p \in DOMAIN all THEN all[p].symbols[DefaultSymbol].position ELSE 0

\* Sound accounts, taken apart and put together.
LEMMA SoundFacts ==
  ASSUME NEW all
  PROVE  all \in SoundAccounts <=>
           /\ all = [p \in DOMAIN all |-> all[p]] /\ DOMAIN all \subseteq Participants
           /\ \A p \in DOMAIN all : all[p] \in Account /\ Balanced(all[p])
<1>1. ASSUME all \in SoundAccounts
      PROVE  /\ all = [p \in DOMAIN all |-> all[p]] /\ DOMAIN all \subseteq Participants
             /\ \A p \in DOMAIN all : all[p] \in Account /\ Balanced(all[p])
  <2>1. PICK D \in SUBSET Participants : all \in [D -> Account]
    BY <1>1 DEF SoundAccounts
  <2>. QED  BY <1>1, <2>1 DEF SoundAccounts
<1>2. ASSUME all = [p \in DOMAIN all |-> all[p]], DOMAIN all \subseteq Participants,
             \A p \in DOMAIN all : all[p] \in Account /\ Balanced(all[p])
      PROVE  all \in SoundAccounts
  <2>1. all \in [DOMAIN all -> Account]
    BY <1>2
  <2>. QED  BY <1>2, <2>1 DEF SoundAccounts
<1>. QED  BY <1>1, <1>2

\* The smaller of two numbers.
LEMMA MinOfTwo ==
  ASSUME NEW x \in Nat, NEW y \in Nat
  PROVE  Min({x, y}) = IF x <= y THEN x ELSE y
<1> DEFINE z == IF x <= y THEN x ELSE y
<1>1. z \in {x, y} /\ \A w \in {x, y} : z <= w
  OBVIOUS
<1>2. \A v \in {x, y} : (\A w \in {x, y} : v <= w) => v = z
  OBVIOUS
<1> HIDE DEF z
<1>3. Min({x, y}) = z
  BY <1>1, <1>2 DEF Min
<1>. QED  BY <1>3 DEF z

\* A book value is a ratio.
LEMMA BookValueType ==
  ASSUME NEW s \in State
  PROVE  BookValue(s) \in Ratios
<1>1. s.realised_pnl \in Ratios /\ s.average_entry_price \in Ratios /\ -s.position \in Int
  BY DEF State
<1>. QED  BY <1>1, PlusIs, TimesIs DEF BookValue

\* A difference is a sum.
LEMMA MinusIs ==
  ASSUME NEW x \in Ratios, NEW y \in Ratios
  PROVE  Minus(x, y) = Plus(x, Times(-1, y)) /\ Minus(x, y) \in Ratios
<1>1. Times(-1, y) \in Ratios
  BY TimesIs
<1>. QED  BY <1>1, PlusIs DEF Minus

\* Multiples that cancel.
LEMMA TimesCancels ==
  ASSUME NEW k \in Int, NEW x \in Ratios
  PROVE  /\ Times(k, x) \in Ratios /\ Times(-k, x) \in Ratios
         /\ Plus(Times(k, x), Times(-k, x)) = Zero
         /\ Plus(Times(-k, x), Times(k, x)) = Zero
<1>1. -k \in Int /\ k + -k = 0 /\ -k + k = 0
  OBVIOUS
<1>2. Times(k + -k, x) = Plus(Times(k, x), Times(-k, x))
  BY <1>1, TimesOfSum
<1>3. Times(-k + k, x) = Plus(Times(-k, x), Times(k, x))
  BY <1>1, TimesOfSum
<1>. QED  BY <1>1, <1>2, <1>3, TimesIs, TimesZero

\* What closing m units of a position p entered at a, at the price x, earns.
LEMMA GainIs ==
  ASSUME NEW p \in Int, p # 0, NEW a \in Ratios, NEW x \in Ratios, NEW m \in Nat
  PROVE  LET k == IF p > 0 THEN m ELSE -m
         IN  Times(m, GainPerUnit(p, a, x)) = Plus(Times(k, x), Times(-k, a))
<1>1. m \in Int /\ -m \in Int /\ m * (-1) = -m /\ -(-m) = m
  OBVIOUS
<1>2. Times(-1, a) \in Ratios /\ Times(-1, x) \in Ratios
  BY TimesIs
<1>3. Times(m, Plus(x, Times(-1, a))) = Plus(Times(m, x), Times(-m, a))
  BY <1>1, <1>2, TimesOfPlus, TimesOfTimes
<1>4. Times(m, Plus(a, Times(-1, x))) = Plus(Times(m, a), Times(-m, x))
  BY <1>1, <1>2, TimesOfPlus, TimesOfTimes
<1>5. Times(m, a) \in Ratios /\ Times(-m, x) \in Ratios
  BY <1>1, TimesIs
<1>6. Plus(Times(m, a), Times(-m, x)) = Plus(Times(-m, x), Times(m, a))
  BY <1>5, PlusCommutes
<1>7. CASE p > 0
  BY <1>3, <1>7, MinusIs DEF GainPerUnit
<1>8. CASE ~(p > 0)
  BY <1>1, <1>4, <1>6, <1>8, MinusIs DEF GainPerUnit
<1>. QED  BY <1>7, <1>8

\* A fill changes the position by its quantity and the book value by its cost.
LEMMA ExtendedKeeps ==
  ASSUME NEW s \in State, NEW q \in Int, NEW x \in Ratios, SameSign(s.position, q)
  PROVE  /\ Extended(s, q, x) \in State /\ Extended(s, q, x).position = s.position + q
         /\ BookValue(Extended(s, q, x)) = Plus(BookValue(s), Times(-q, x))
<1> DEFINE p == s.position
           a == s.average_entry_price
           cost == Plus(Times(Magnitude(p), a), Times(Magnitude(q), x))
           k == Magnitude(p + q)
           b == Over(cost, k)
           u == IF p > 0 THEN -1 ELSE 1
<1>1. p \in Int /\ a \in Ratios /\ s.realised_pnl \in Ratios
  BY DEF State
<1>2. /\ k \in Positive /\ k \in Int /\ Magnitude(p) \in Int /\ Magnitude(q) \in Int /\ u \in Int
      /\ u * k = -(p + q) /\ u * Magnitude(p) = -p /\ u * Magnitude(q) = -q
  BY <1>1 DEF Magnitude, SameSign, Positive
<1>3. Times(Magnitude(p), a) \in Ratios /\ Times(Magnitude(q), x) \in Ratios
  BY <1>1, <1>2, TimesIs
<1>4. cost \in Ratios
  BY <1>3, PlusIs
<1>5. Extended(s, q, x)
        = [position |-> p + q, average_entry_price |-> b, realised_pnl |-> s.realised_pnl]
  <2>1. Extended(s, q, x) = [s EXCEPT !.position = p + q, !.average_entry_price = b]
    BY DEF Extended
  <2> HIDE DEF b
  <2>. QED  BY <2>1 DEF State
<1> HIDE DEF p, a, k, u
<1>6. Times(u, cost) = Plus(Times(-p, a), Times(-q, x))
  <2>1. /\ Times(u, Times(Magnitude(p), a)) = Times(u * Magnitude(p), a)
        /\ Times(u, Times(Magnitude(q), x)) = Times(u * Magnitude(q), x)
    BY <1>1, <1>2, TimesOfTimes
  <2>2. Times(u, cost)
          = Plus(Times(u, Times(Magnitude(p), a)), Times(u, Times(Magnitude(q), x)))
    BY <1>2, <1>3, TimesOfPlus
  <2>. QED  BY <1>2, <2>1, <2>2
<1> HIDE DEF cost
<1>7. b \in Ratios /\ Times(k, b) = cost
  BY <1>2, <1>4, TimesOfOver
<1> HIDE DEF b
<1>8. Times(-(p + q), b) = Plus(Times(-p, a), Times(-q, x))
  BY <1>2, <1>6, <1>7, TimesOfTimes
<1>9. Times(-p, a) \in Ratios /\ Times(-q, x) \in Ratios
  BY <1>1, TimesIs
<1>10. Plus(s.realised_pnl, Plus(Times(-p, a), Times(-q, x)))
         = Plus(Plus(s.realised_pnl, Times(-p, a)), Times(-q, x))
  BY <1>1, <1>9, PlusAssociates
<1>11. p + q \in Int
  BY <1>1
<1>. QED  BY <1>1, <1>5, <1>7, <1>8, <1>10, <1>11 DEF BookValue, State, p, a

\* So it does when it closes a position, or turns it around,
LEMMA ClosedKeeps ==
  ASSUME NEW s \in State, NEW q \in Int, NEW x \in Ratios,
         s.position # 0, q # 0, ~SameSign(s.position, q)
  PROVE  /\ Closed(s, q, x) \in State /\ Closed(s, q, x).position = s.position + q
         /\ BookValue(Closed(s, q, x)) = Plus(BookValue(s), Times(-q, x))
<1> DEFINE p == s.position
           a == s.average_entry_price
           r == s.realised_pnl
           m == Min({Magnitude(p), Magnitude(q)})
           k == IF p > 0 THEN m ELSE -m
           gain == Times(m, GainPerUnit(p, a, x))
           b == AverageAfter(s, p + q, x)
<1>1. p \in Int /\ a \in Ratios /\ r \in Ratios /\ p # 0
  BY DEF State
<1>2. m \in Nat /\ m = IF Magnitude(p) <= Magnitude(q) THEN Magnitude(p) ELSE Magnitude(q)
  <2>1. Magnitude(p) \in Nat /\ Magnitude(q) \in Nat
    BY <1>1 DEF Magnitude
  <2>. QED  BY <2>1, MinOfTwo
<1>3. Closed(s, q, x)
        = [position |-> p + q, average_entry_price |-> b, realised_pnl |-> Plus(r, gain)]
  BY DEF Closed
<1> HIDE DEF m
<1>4. gain = Plus(Times(k, x), Times(-k, a)) /\ k \in Int
  BY <1>1, <1>2, GainIs
<1>5. Times(k, x) \in Ratios /\ Times(-k, a) \in Ratios
  BY <1>1, <1>4, TimesIs
<1>6. gain \in Ratios /\ Plus(r, gain) \in Ratios /\ p + q \in Int /\ -(p + q) \in Int
  BY <1>1, <1>4, <1>5, PlusIs
<1>7. b \in Ratios
  BY <1>1, ZeroIs DEF AverageAfter
<1>8. -p \in Int /\ -q \in Int
  BY <1>1
\* k x - k a - (p + q) b = - p a - q x
<1>9. Plus(Plus(Times(k, x), Times(-k, a)), Times(-(p + q), b)) = Plus(Times(-p, a), Times(-q, x))
  <2>1. CASE p + q = 0
    <3>1. b = Zero /\ k = -q /\ -k = -p
      BY <1>1, <1>2, <2>1 DEF AverageAfter, Magnitude
    <3>2. Times(-(p + q), b) = Zero
      BY <1>6, <3>1, TimesZero
    <3>3. Plus(Times(-p, a), Times(-q, x)) = Plus(Times(k, x), Times(-k, a))
      BY <1>5, <3>1, PlusCommutes
    <3>4. Plus(Times(k, x), Times(-k, a)) \in Ratios
      BY <1>5, PlusIs
    <3>. QED  BY <3>2, <3>3, <3>4, PlusZero
  <2>2. CASE p + q # 0 /\ SameSign(p + q, p)
    <3>1. b = a /\ k = -q /\ -k = q /\ -(p + q) = -p + -q
      BY <1>1, <1>2, <2>2 DEF AverageAfter, Magnitude, SameSign
    <3>2. Times(-p + -q, a) = Plus(Times(-p, a), Times(-q, a))
      BY <1>1, <1>8, TimesOfSum
    <3>3. Plus(Times(q, a), Times(-q, a)) = Zero
      BY <1>1, TimesCancels
    <3>4. Times(-p, a) \in Ratios /\ Times(-q, a) \in Ratios /\ Times(q, a) \in Ratios
      BY <1>1, TimesIs
    <3>5. Times(-q, x) \in Ratios
      BY TimesIs
    <3>6. Plus(Times(q, a), Plus(Times(-p, a), Times(-q, a))) = Times(-p, a)
      BY <3>3, <3>4, PlusExchanges, PlusZero
    <3>7. Plus(Times(-p, a), Times(-q, a)) \in Ratios
      BY <3>4, PlusIs
    <3>8. Plus(Plus(Times(-q, x), Times(q, a)), Plus(Times(-p, a), Times(-q, a)))
            = Plus(Times(-q, x), Times(-p, a))
      BY <3>4, <3>5, <3>6, <3>7, PlusAssociates
    <3>. QED  BY <3>1, <3>2, <3>4, <3>5, <3>8, PlusCommutes
  <2>3. CASE p + q # 0 /\ ~SameSign(p + q, p)
    <3>1. b = x /\ k = p /\ -k = -p /\ -(p + q) = -p + -q
      BY <1>1, <1>2, <2>3 DEF AverageAfter, Magnitude, SameSign
    <3>2. Times(-p + -q, x) = Plus(Times(-p, x), Times(-q, x))
      BY <1>1, <1>8, TimesOfSum
    <3>3. Plus(Times(p, x), Times(-p, x)) = Zero
      BY <1>1, TimesCancels
    <3>4. /\ Times(-p, x) \in Ratios /\ Times(-q, x) \in Ratios /\ Times(p, x) \in Ratios
          /\ Times(-p, a) \in Ratios
      BY <1>1, TimesIs
    <3>5. Plus(Plus(Times(p, x), Times(-p, a)), Plus(Times(-p, x), Times(-q, x)))
            = Plus(Plus(Times(p, x), Times(-p, x)), Plus(Times(-p, a), Times(-q, x)))
      BY <3>4, PlusPairs
    <3>6. Plus(Times(-p, a), Times(-q, x)) \in Ratios
      BY <3>4, PlusIs
    <3>. QED  BY <3>1, <3>2, <3>3, <3>5, <3>6, PlusZero
  <2>. QED  BY <2>1, <2>2, <2>3
<1>10. Times(-(p + q), b) \in Ratios /\ Times(-p, a) \in Ratios /\ Times(-q, x) \in Ratios
  BY <1>1, <1>6, <1>7, TimesIs
<1> HIDE DEF p, a, r, k, gain, b
<1>11. Plus(Plus(r, gain), Times(-(p + q), b)) = Plus(r, Plus(gain, Times(-(p + q), b)))
  BY <1>1, <1>6, <1>10, PlusAssociates
<1>12. Plus(Plus(r, Times(-p, a)), Times(-q, x)) = Plus(r, Plus(Times(-p, a), Times(-q, x)))
  BY <1>1, <1>10, PlusAssociates
<1>13. BookValue(s) = Plus(r, Times(-p, a))
  BY DEF BookValue, r, p, a
<1>14. BookValue(Closed(s, q, x)) = Plus(Plus(r, gain), Times(-(p + q), b))
  BY <1>3 DEF BookValue
<1>15. Closed(s, q, x) \in State /\ Closed(s, q, x).position = p + q
  BY <1>3, <1>6, <1>7 DEF State
<1>. QED  BY <1>4, <1>9, <1>11, <1>12, <1>13, <1>14, <1>15 DEF p

\* and so for every fill.
LEMMA UpdatedKeeps ==
  ASSUME NEW s \in State, NEW q \in Int, q # 0, NEW x \in Ratios
  PROVE  /\ Updated(s, q, x) \in State /\ Updated(s, q, x).position = s.position + q
         /\ BookValue(Updated(s, q, x)) = Plus(BookValue(s), Times(-q, x))
<1>1. s.position \in Int /\ s.average_entry_price \in Ratios /\ s.realised_pnl \in Ratios
  BY DEF State
<1>2. CASE s.position = 0
  <2>1. Updated(s, q, x)
          = [position |-> q, average_entry_price |-> x, realised_pnl |-> s.realised_pnl]
    BY <1>2 DEF Updated, State
  <2>2. Times(-s.position, s.average_entry_price) = Zero
    <3>1. \A n \in Int : n <= 0 /\ n >= 0 => -n = 0
      OBVIOUS
    <3>2. s.position <= 0 /\ s.position >= 0
      BY <1>2
    <3>3. -s.position = 0
      BY <1>1, <3>1, <3>2, Zenon
    <3>. QED  BY <1>1, <3>3, TimesZero
  <2>3. BookValue(s) = s.realised_pnl
    BY <1>1, <2>2, PlusZero DEF BookValue
  <2>. QED  BY <1>1, <1>2, <2>1, <2>3 DEF BookValue, State
<1>3. CASE s.position # 0 /\ SameSign(s.position, q)
  BY <1>3, ExtendedKeeps DEF Updated
<1>4. CASE s.position # 0 /\ ~SameSign(s.position, q)
  BY <1>4, ClosedKeeps DEF Updated
<1>. QED  BY <1>2, <1>3, <1>4

\* An account with its cash and one of its states changed by a fill.
Filled(account, symbol, q, price) ==
  [account EXCEPT !.cash_balance = @ - q * price,
                  !.symbols[symbol] = Updated(@, q, Whole(price))]

\* What a fill leaves as it was and what it changes.
LEMMA FilledIs ==
  ASSUME NEW account \in Account, NEW symbol \in Symbols, NEW q \in Int, q # 0,
         NEW price \in Int
  PROVE  LET next == Filled(account, symbol, q, price)
             from == account.symbols[symbol]
             to   == next.symbols[symbol]
         IN  /\ next \in Account /\ next.initial_cash = account.initial_cash
             /\ next.cash_balance = account.cash_balance - q * price
             /\ \A s \in Symbols : s # symbol => next.symbols[s] = account.symbols[s]
             /\ to.position = from.position + q
             /\ BookValue(to) = Plus(BookValue(from), Times(-q, Whole(price)))
<1> DEFINE next == Filled(account, symbol, q, price)
           from == account.symbols[symbol]
           to == Updated(from, q, Whole(price))
<1>1. from \in State /\ account.cash_balance \in Int /\ Whole(price) \in Ratios
  BY WholeIs DEF Account
<1>2. /\ to \in State /\ to.position = from.position + q
      /\ BookValue(to) = Plus(BookValue(from), Times(-q, Whole(price)))
  <2> HIDE DEF from
  <2>. QED  BY <1>1, UpdatedKeeps
<1>3. next = [account EXCEPT !.cash_balance = account.cash_balance - q * price,
                             !.symbols = [account.symbols EXCEPT ![symbol] = to]]
  BY DEF Filled, Account
<1>4. [account.symbols EXCEPT ![symbol] = to] \in [Symbols -> State]
  <2> HIDE DEF to
  <2>. QED  BY <1>2 DEF Account
<1> HIDE DEF to
<1>5. /\ next \in Account /\ next.initial_cash = account.initial_cash
      /\ next.cash_balance = account.cash_balance - q * price
      /\ next.symbols = [account.symbols EXCEPT ![symbol] = to]
  <2> DEFINE cash == account.cash_balance - q * price
             states == [account.symbols EXCEPT ![symbol] = to]
  <2>1. cash \in Int
    BY <1>1
  <2> HIDE DEF next, cash, states
  <2>2. next = [account EXCEPT !.cash_balance = cash, !.symbols = states]
    BY <1>3 DEF cash, states
  <2>3. next \in Account /\ next.initial_cash = account.initial_cash
        /\ next.cash_balance = cash /\ next.symbols = states
    BY <1>4, <2>1, <2>2 DEF Account, states
  <2>. QED  BY <2>3 DEF cash, states
<1>6. /\ next.symbols[symbol] = to
      /\ \A s \in Symbols : s # symbol => next.symbols[s] = account.symbols[s]
  <2> HIDE DEF next
  <2>. QED  BY <1>5 DEF Account
<1>. QED  BY <1>2, <1>5, <1>6

\* A fill moves as much cash as it changes the book value.
LEMMA FilledBalances ==
  ASSUME NEW account \in Account, Balanced(account), NEW symbol \in Symbols,
         NEW q \in Int, q # 0, NEW price \in Int
  PROVE  Balanced(Filled(account, symbol, q, price))
<1> DEFINE next == Filled(account, symbol, q, price)
           cost == Times(-q, Whole(price))
           f == BookValues(account)
           g == BookValues(next)
<1>1. cost = Whole((-q) * price) /\ cost \in Ratios /\ (-q) * price \in Int
  <2>1. -q \in Int /\ (-q) * price \in Int
    OBVIOUS
  <2>. QED  BY <2>1, TimesOfWhole, WholeIs
<1>2. \A x \in Symbols : f[x] \in Ratios /\ g[x] = IF x = symbol THEN Plus(f[x], cost) ELSE f[x]
  <2> TAKE x \in Symbols
  <2>1. f[x] = BookValue(account.symbols[x]) /\ g[x] = BookValue(next.symbols[x])
    BY DEF BookValues
  <2>2. account.symbols[x] \in State
    BY DEF Account
  <2>3. /\ x # symbol => next.symbols[x] = account.symbols[x]
        /\ BookValue(next.symbols[symbol]) = Plus(BookValue(account.symbols[symbol]), cost)
    <3> HIDE DEF f, g
    <3>. QED  BY FilledIs
  <2> HIDE DEF next, cost, f, g
  <2>. QED  BY <2>1, <2>2, <2>3, BookValueType
<1>3. /\ next.cash_balance = account.cash_balance - q * price
      /\ next.initial_cash = account.initial_cash
      /\ account.cash_balance \in Int /\ account.initial_cash \in Int
  BY FilledIs DEF Account
<1> DEFINE before == SumOn(f, Symbols)
<1> HIDE DEF next, cost, f, g
<1>4. SumOn(g, Symbols) = Plus(before, cost) /\ before \in Ratios
  <2>1. IsFiniteSet(Symbols) /\ \A x \in Symbols : f[x] \in Ratios
    BY <1>2, PnlAssumption
  <2>2. SumOn(g, Symbols) = Plus(SumOn(f, Symbols), cost)
    BY <1>1, <1>2, <2>1, SumChanges
  <2>. QED  BY <2>1, <2>2, SumFacts DEF before
<1>5. Whole(next.cash_balance) = Plus(Whole(account.cash_balance), cost)
  <2>1. account.cash_balance - q * price = account.cash_balance + (-q) * price
    BY <1>3
  <2>. QED  BY <1>1, <1>3, <2>1, PlusOfWholes
<1>6. Whole(account.cash_balance) = Plus(Whole(account.initial_cash), before)
  BY DEF Balanced, f
<1>7. Whole(account.initial_cash) \in Ratios
  BY <1>3, WholeIs
<1> HIDE DEF before
<1>8. Whole(next.cash_balance) = Plus(Whole(next.initial_cash), Plus(before, cost))
  BY <1>1, <1>3, <1>4, <1>5, <1>6, <1>7, PlusAssociates
<1>9. Balanced(next)
  BY <1>4, <1>8 DEF Balanced, g
<1>. QED  BY <1>9 DEF next

\* A sum of zeros is zero.
LEMMA SumOfZeros ==
  ASSUME NEW S, IsFiniteSet(S), NEW f, \A x \in S : f[x] = Zero
  PROVE  SumOn(f, S) = Zero
<1> DEFINE K == {T \in SUBSET S : SumOn(f, T) = Zero}
<1>1. {} \in K
  BY SumFacts, FS_EmptySet
<1>2. ASSUME NEW T \in SUBSET S, T # {}, T \ {Pick(T)} \in K
      PROVE  T \in K
  <2>1. Pick(T) \in T /\ IsFiniteSet(T)
    BY <1>2, PickIn, FS_Subset
  <2>2. SumOn(f, T) = Plus(f[Pick(T)], SumOn(f, T \ {Pick(T)}))
    BY <1>2, <2>1, SumFacts, ZeroIs
  <2>. QED  BY <1>2, <2>1, <2>2, ZeroIs, PlusZero
<1> HIDE DEF K
<1>3. \A T \in SUBSET S : T # {} /\ (\A x \in T : T \ {x} \in K) => T \in K
  BY <1>2, PickIn
<1>4. SUBSET S \subseteq K
  BY <1>1, <1>3, SubsetInduction, Zenon
<1>. QED  BY <1>4 DEF K

\* An account that was just opened is balanced, whatever its cash.
LEMMA OpenedIs ==
  ASSUME NEW cash \in Int
  PROVE  /\ OpenedAccount(cash) \in Account /\ Balanced(OpenedAccount(cash))
         /\ OpenedAccount(cash).symbols[DefaultSymbol].position = 0
<1> DEFINE account == OpenedAccount(cash)
           f == BookValues(account)
<1>1. Flat \in State
  BY ZeroIs DEF Flat, State
<1>2. account \in Account /\ \A s \in Symbols : account.symbols[s] = Flat
  BY <1>1 DEF OpenedAccount, Account
<1>3. BookValue(Flat) = Zero
  <2>1. Times(-0, Zero) = Zero
    BY TimesZero, ZeroIs, -0 \in Int
  <2>. QED  BY <2>1, ZeroIs, PlusZero DEF BookValue, Flat
<1>4. \A s \in Symbols : f[s] = Zero
  BY <1>2, <1>3 DEF BookValues
<1>5. SumOn(f, Symbols) = Zero
  <2> HIDE DEF f
  <2>. QED  BY <1>4, SumOfZeros, PnlAssumption
<1>6. account.cash_balance = cash /\ account.initial_cash = cash
  BY DEF OpenedAccount
<1>7. Plus(Whole(cash), Zero) = Whole(cash)
  BY WholeIs, PlusZero
<1>8. Balanced(account)
  BY <1>5, <1>6, <1>7 DEF Balanced
<1>9. account.symbols[DefaultSymbol].position = 0
  BY <1>2, PnlAssumption DEF Flat
<1>. QED  BY <1>2, <1>8, <1>9

\* An account put in the place of another, or added, keeps the accounts sound.
LEMMA PutKeeps ==
  ASSUME NEW all \in SoundAccounts, NEW participant \in Participants,
         NEW account \in Account, Balanced(account)
  PROVE  LET next == [p \in DOMAIN all \cup {participant} |->
                        IF p = participant THEN account ELSE all[p]]
         IN  /\ next \in SoundAccounts
             /\ \A p \in Participants :
                  PositionOf(next, p) = IF p = participant
                                          THEN account.symbols[DefaultSymbol].position
                                          ELSE PositionOf(all, p)
<1> DEFINE next == [p \in DOMAIN all \cup {participant} |->
                      IF p = participant THEN account ELSE all[p]]
<1>1. /\ DOMAIN all \subseteq Participants
      /\ \A p \in DOMAIN all : all[p] \in Account /\ Balanced(all[p])
  BY SoundFacts
<1>2. /\ next = [p \in DOMAIN next |-> next[p]] /\ DOMAIN next \subseteq Participants
      /\ \A p \in DOMAIN next : next[p] \in Account /\ Balanced(next[p])
  BY <1>1
<1>3. next \in SoundAccounts
  <2> HIDE DEF next
  <2>. QED  BY <1>2, SoundFacts
<1>4. \A p \in Participants :
        PositionOf(next, p) = IF p = participant THEN account.symbols[DefaultSymbol].position
                              ELSE PositionOf(all, p)
  BY DEF PositionOf
<1>. QED  BY <1>3, <1>4

\* A fill keeps the accounts sound and moves one position, if it is in the symbol
\* of the book.
LEMMA FillKeeps ==
  ASSUME NEW all \in SoundAccounts, NEW participant \in Participants \cup {Unknown},
         NEW symbol \in Symbols, NEW side \in {"Buy", "Sell"}, NEW price \in Int,
         NEW quantity \in Nat, quantity > 0
  PROVE  LET next == WithFill(all, participant, symbol, side, price, quantity)
         IN  /\ next \in SoundAccounts
             /\ \A p \in Participants :
                  PositionOf(next, p) =
                    IF participant = p /\ symbol = DefaultSymbol
                      THEN PositionOf(all, p) + Signed(side, quantity) ELSE PositionOf(all, p)
<1> DEFINE next == WithFill(all, participant, symbol, side, price, quantity)
           q == Signed(side, quantity)
<1>1. CASE participant = Unknown
  BY <1>1, PnlAssumption DEF WithFill
<1>2. CASE participant # Unknown
  <2> DEFINE account == IF participant \in DOMAIN all THEN all[participant] ELSE OpenedAccount(0)
             filled == Filled(account, symbol, q, price)
  <2>1. participant \in Participants
    BY <1>2
  <2>2. account \in Account /\ Balanced(account)
    BY SoundFacts, OpenedIs, 0 \in Int
  <2>3. PositionOf(all, participant) = account.symbols[DefaultSymbol].position
    BY OpenedIs, 0 \in Int DEF PositionOf
  <2>4. q \in Int /\ q # 0
    BY DEF Signed
  <2>5. next = [p \in DOMAIN all \cup {participant} |->
                  IF p = participant THEN filled ELSE all[p]]
    BY <1>2 DEF WithFill, Filled
  <2> HIDE DEF next, account, q
  <2>6. filled \in Account /\ Balanced(filled)
    BY <2>2, <2>4, FilledIs, FilledBalances
  <2>7. /\ symbol # DefaultSymbol =>
            filled.symbols[DefaultSymbol] = account.symbols[DefaultSymbol]
        /\ filled.symbols[symbol].position = account.symbols[symbol].position + q
    BY <2>2, <2>4, FilledIs, PnlAssumption
  <2> HIDE DEF filled
  <2>8. /\ next \in SoundAccounts
        /\ \A p \in Participants :
             PositionOf(next, p) = IF p = participant
                                     THEN filled.symbols[DefaultSymbol].position
                                     ELSE PositionOf(all, p)
    BY <2>1, <2>5, <2>6, PutKeeps
  <2>9. \A p \in Participants :
          PositionOf(next, p) = IF participant = p /\ symbol = DefaultSymbol
                                  THEN PositionOf(all, p) + q ELSE PositionOf(all, p)
    BY <2>3, <2>7, <2>8
  <2>. QED  BY <2>8, <2>9 DEF next, q
<1>. QED  BY <1>1, <1>2

\* What a trade adds to the net of a participant.
AddedTo(sum, t, p) ==
  sum + (IF t.maker_participant_id = p THEN -Signed(t.aggressor_side, t.quantity) ELSE 0)
      + (IF t.taker_participant_id = p THEN Signed(t.aggressor_side, t.quantity) ELSE 0)

\* The net stays an integer,
LEMMA AddedType ==
  ASSUME NEW sum \in Int, NEW t \in Trade, NEW p
  PROVE  AddedTo(sum, t, p) \in Int
<1>1. t.quantity \in Int
  BY DEF Trade
<1>. QED  BY <1>1 DEF AddedTo, Signed

\* and what was there before can be set aside.
LEMMA AddedAside ==
  ASSUME NEW n \in Int, NEW sum \in Int, NEW t \in Trade, NEW p
  PROVE  AddedTo(n + sum, t, p) = n + AddedTo(sum, t, p)
<1>1. t.quantity \in Int
  BY DEF Trade
<1>. QED  BY <1>1 DEF AddedTo, Signed

\* Positions are integers.
LEMMA PositionType ==
  ASSUME NEW all \in SoundAccounts, NEW p
  PROVE  PositionOf(all, p) \in Int
<1>1. ASSUME p \in DOMAIN all PROVE all[p].symbols[DefaultSymbol] \in State
  <2>1. all[p] \in Account
    BY <1>1, SoundFacts
  <2>. QED  BY <2>1, PnlAssumption DEF Account
<1>. QED  BY <1>1 DEF PositionOf, State

\* A trade keeps the accounts sound, and counts in the positions if it is of the
\* symbol of the book.
LEMMA TradeKeeps ==
  ASSUME NEW all \in SoundAccounts, NEW t \in Trade
  PROVE  /\ WithTrade(all, t) \in SoundAccounts
         /\ \A p \in Participants :
              PositionOf(WithTrade(all, t), p) =
                IF ValidTrade(t) /\ t.symbol_id = DefaultSymbol
                  THEN AddedTo(PositionOf(all, p), t, p) ELSE PositionOf(all, p)
<1>1. CASE ~ValidTrade(t)
  BY <1>1 DEF WithTrade
<1>2. CASE ValidTrade(t)
  <2> DEFINE maker == t.maker_participant_id
             taker == t.taker_participant_id
             side == t.aggressor_side
             other == OppositeSide(side)
             middle == WithFill(all, maker, t.symbol_id, other, t.price, t.quantity)
             next == WithFill(middle, taker, t.symbol_id, side, t.price, t.quantity)
  <2>1. /\ maker \in Participants \cup {Unknown} /\ taker \in Participants \cup {Unknown}
        /\ t.symbol_id \in Symbols /\ side \in {"Buy", "Sell"} /\ t.price \in Int
        /\ t.quantity \in Nat /\ t.quantity > 0
    BY <1>2 DEF Trade, ValidTrade
  <2>2. other \in {"Buy", "Sell"}
    BY DEF OppositeSide
  <2>3. /\ Signed(other, t.quantity) = -Signed(side, t.quantity)
        /\ Signed(side, t.quantity) \in Int
    BY <2>1 DEF Signed, OppositeSide
  <2>4. WithTrade(all, t) = next
    BY <1>2 DEF WithTrade
  <2> HIDE DEF maker, taker, side, other, middle, next
  <2>5. /\ middle \in SoundAccounts
        /\ \A p \in Participants :
             PositionOf(middle, p) =
               IF maker = p /\ t.symbol_id = DefaultSymbol
                 THEN PositionOf(all, p) + Signed(other, t.quantity)
                 ELSE PositionOf(all, p)
    BY <2>1, <2>2, FillKeeps DEF middle
  <2>6. /\ next \in SoundAccounts
        /\ \A p \in Participants :
             PositionOf(next, p) =
               IF taker = p /\ t.symbol_id = DefaultSymbol
                 THEN PositionOf(middle, p) + Signed(side, t.quantity)
                 ELSE PositionOf(middle, p)
    BY <2>1, <2>5, FillKeeps DEF next
  <2>7. \A p \in Participants : PositionOf(all, p) \in Int
    BY PositionType
  <2>8. \A p \in Participants :
          PositionOf(next, p) = IF t.symbol_id = DefaultSymbol
                                  THEN AddedTo(PositionOf(all, p), t, p) ELSE PositionOf(all, p)
    BY <2>3, <2>5, <2>6, <2>7 DEF AddedTo, maker, taker, side
  <2>. QED  BY <1>2, <2>4, <2>6, <2>8
<1>. QED  BY <1>1, <1>2

----------------------------------------------------------------------------
(* Runs of trades                                                          *)

\* An element no other is greater than is the greatest,
LEMMA MaxOf ==
  ASSUME NEW T \in SUBSET Int, NEW m \in T, \A x \in T : m >= x
  PROVE  Max(T) = m
<1>1. \A v \in T : (\A x \in T : v >= x) => v = m
  OBVIOUS
<1>. QED  BY <1>1 DEF Max

\* and there is one in every set of places.
LEMMA MaxIs ==
  ASSUME NEW n \in Nat, NEW T \in SUBSET (1 .. n), T # {}
  PROVE  Max(T) \in T /\ \A x \in T : Max(T) >= x
<1> DEFINE Above == {k \in Nat : n - k \in T}
<1>1. \E k : k \in Above
  <2>1. PICK x \in T : TRUE
    OBVIOUS
  <2>2. n - x \in Nat /\ n - (n - x) = x
    OBVIOUS
  <2>. QED  BY <2>1, <2>2
<1>2. PICK k \in Above : \A l \in Above : <<l, k>> \notin OpToRel(<, Nat)
  BY <1>1, NatLessThanWellFounded, WFMin, Above \subseteq Nat, Zenon
<1>3. \A l \in Above : ~(l < k)
  BY <1>2 DEF OpToRel
<1>4. n - k \in T /\ k \in Nat
  BY <1>2
<1>5. \A x \in T : n - k >= x
  <2> TAKE x \in T
  <2>1. n - x \in Nat /\ n - (n - x) = x
    OBVIOUS
  <2>2. n - x \in Above
    BY <2>1
  <2>. QED  BY <1>3, <1>4, <2>1, <2>2
<1>6. Max(T) = n - k
  BY <1>4, <1>5, MaxOf
<1>. QED  BY <1>4, <1>5, <1>6

\* What the library's fold of the trades is the value at all of them of,
Folds(base, trades, g) ==
  g = [T \in SUBSET DOMAIN trades |->
         IF T = {} THEN base ELSE WithTrade(g[T \ {Max(T)}], trades[Max(T)])]

\* and its sum of what they add to the net of a participant.
Nets(trades, p, g) ==
  g = [T \in SUBSET DOMAIN trades |->
         IF T = {} THEN 0 ELSE AddedTo(g[T \ {Max(T)}], trades[Max(T)], p)]

\* The fold of the trades as the library defines it,
LEMMA FoldDefined ==
  ASSUME NEW base, NEW trades
  PROVE  FoldLeft(WithTrade, base, trades) = (CHOOSE g : Folds(base, trades, g))[DOMAIN trades]
  BY Zenon DEF FoldLeft, MapThenFoldSet, Folds

\* and that of the net.
LEMMA NetDefined ==
  ASSUME NEW trades, NEW p
  PROVE  NetOf(trades, p) = (CHOOSE g : Nets(trades, p, g))[DOMAIN trades]
  BY Zenon DEF NetOf, FoldLeft, MapThenFoldSet, Nets, AddedTo

\* They take the last trade,
LEMMA FoldValue ==
  ASSUME NEW base, NEW trades, NEW g, Folds(base, trades, g), NEW T \in SUBSET DOMAIN trades
  PROVE  g[T] = IF T = {} THEN base ELSE WithTrade(g[T \ {Max(T)}], trades[Max(T)])
  BY DEF Folds

\* and then what was before it.
LEMMA NetValue ==
  ASSUME NEW trades, NEW p, NEW g, Nets(trades, p, g), NEW T \in SUBSET DOMAIN trades
  PROVE  g[T] = IF T = {} THEN 0 ELSE AddedTo(g[T \ {Max(T)}], trades[Max(T)], p)
  BY DEF Nets

\* Both exist, and keep to their types.
LEMMA FoldExists ==
  ASSUME NEW base \in SoundAccounts, NEW trades \in Seq(Trade)
  PROVE  \E g : Folds(base, trades, g)
<1> DEFINE D == DOMAIN trades
           first == [T \in SUBSET D |-> Max(T)]
           step == [r \in (SUBSET D) \X SoundAccounts |-> WithTrade(r[2], trades[Max(r[1])])]
           total == [r \in (SUBSET D) \X SoundAccounts |-> IF r[1] = {} THEN base ELSE step[r]]
<1>1. D = 1 .. Len(trades) /\ Len(trades) \in Nat /\ IsFiniteSet(D)
  BY FS_Interval
<1>2. \A T \in SUBSET D : T # {} => Max(T) \in T
  BY <1>1, MaxIs
<1>3. \A T \in SUBSET D, v \in SoundAccounts :
        /\ total[<<T, v>>] = IF T = {} THEN base ELSE WithTrade(v, trades[Max(T)])
        /\ total[<<T, v>>] \in SoundAccounts
  <2> TAKE T \in SUBSET D, v \in SoundAccounts
  <2>1. step[<<T, v>>] = WithTrade(v, trades[Max(T)])
    OBVIOUS
  <2> HIDE DEF step
  <2>2. total[<<T, v>>] = IF T = {} THEN base ELSE step[<<T, v>>]
    OBVIOUS
  <2> HIDE DEF total
  <2>3. T # {} => trades[Max(T)] \in Trade
    BY <1>2
  <2>4. T # {} => WithTrade(v, trades[Max(T)]) \in SoundAccounts
    BY <2>3, TradeKeeps
  <2>. QED  BY <2>1, <2>2, <2>4
<1> HIDE DEF total, step
<1>4. \A T \in SUBSET D : T # {} => first[T] \in T
  BY <1>2
<1>5. \A T \in SUBSET D : first[T] = Max(T)
  OBVIOUS
<1> HIDE DEF D, first
<1>6. \A T \in SUBSET D, v \in SoundAccounts : total[<<T, v>>] \in SoundAccounts
  BY <1>3
<1>7. PICK g \in [SUBSET D -> SoundAccounts] : Recursion(D, base, first, total, g)
  BY <1>1, <1>4, <1>6, RecursionExists
<1>8. ASSUME NEW T \in SUBSET D
      PROVE  g[T] = IF T = {} THEN base ELSE WithTrade(g[T \ {Max(T)}], trades[Max(T)])
  <2>1. g[T \ {Max(T)}] \in SoundAccounts
    OBVIOUS
  <2>2. g[T] = IF T = {} THEN base ELSE total[<<T, g[T \ {first[T]}]>>]
    BY <1>7 DEF Recursion
  <2>. QED  BY <1>3, <1>5, <2>1, <2>2
<1>9. Folds(base, trades, g)
  BY <1>8 DEF Folds, D
<1>. QED  BY <1>9

\* The net of the trades exists too.
LEMMA NetExists ==
  ASSUME NEW trades \in Seq(Trade), NEW p
  PROVE  \E g : Nets(trades, p, g)
<1> DEFINE D == DOMAIN trades
           first == [T \in SUBSET D |-> Max(T)]
           step == [r \in (SUBSET D) \X Int |-> AddedTo(r[2], trades[Max(r[1])], p)]
           total == [r \in (SUBSET D) \X Int |-> IF r[1] = {} THEN 0 ELSE step[r]]
<1>1. D = 1 .. Len(trades) /\ Len(trades) \in Nat /\ IsFiniteSet(D)
  BY FS_Interval
<1>2. \A T \in SUBSET D : T # {} => Max(T) \in T
  BY <1>1, MaxIs
<1>3. \A T \in SUBSET D, v \in Int :
        /\ total[<<T, v>>] = IF T = {} THEN 0 ELSE AddedTo(v, trades[Max(T)], p)
        /\ total[<<T, v>>] \in Int
  <2> TAKE T \in SUBSET D, v \in Int
  <2>1. step[<<T, v>>] = AddedTo(v, trades[Max(T)], p)
    OBVIOUS
  <2> HIDE DEF step
  <2>2. total[<<T, v>>] = IF T = {} THEN 0 ELSE step[<<T, v>>]
    OBVIOUS
  <2> HIDE DEF total
  <2>3. T # {} => trades[Max(T)] \in Trade
    BY <1>2
  <2>4. T # {} => AddedTo(v, trades[Max(T)], p) \in Int
    BY <2>3, AddedType
  <2>. QED  BY <2>1, <2>2, <2>4
<1> HIDE DEF total, step
<1>4. \A T \in SUBSET D : T # {} => first[T] \in T
  BY <1>2
<1>5. \A T \in SUBSET D : first[T] = Max(T)
  OBVIOUS
<1> HIDE DEF D, first
<1>6. 0 \in Int /\ \A T \in SUBSET D, v \in Int : total[<<T, v>>] \in Int
  BY <1>3
<1>7. PICK g \in [SUBSET D -> Int] : Recursion(D, 0, first, total, g)
  BY <1>1, <1>4, <1>6, RecursionExists
<1>8. ASSUME NEW T \in SUBSET D
      PROVE  g[T] = IF T = {} THEN 0 ELSE AddedTo(g[T \ {Max(T)}], trades[Max(T)], p)
  <2>1. g[T \ {Max(T)}] \in Int
    OBVIOUS
  <2>2. g[T] = IF T = {} THEN 0 ELSE total[<<T, g[T \ {first[T]}]>>]
    BY <1>7 DEF Recursion
  <2>. QED  BY <1>3, <1>5, <2>1, <2>2
<1>9. Nets(trades, p, g)
  BY <1>8 DEF Nets, D
<1>. QED  BY <1>9

\* The trades processed change each position by their net.
LEMMA FoldKeeps ==
  ASSUME NEW base \in SoundAccounts, NEW trades \in Seq(BookTrades)
  PROVE  /\ FoldLeft(WithTrade, base, trades) \in SoundAccounts
         /\ \A p \in Participants :
              PositionOf(FoldLeft(WithTrade, base, trades), p)
                = PositionOf(base, p) + NetOf(trades, p)
<1> DEFINE D == DOMAIN trades
           g == CHOOSE h : Folds(base, trades, h)
           net(p) == CHOOSE h : Nets(trades, p, h)
<1>1. /\ D = 1 .. Len(trades) /\ Len(trades) \in Nat /\ IsFiniteSet(D)
      /\ trades \in Seq(Trade) /\ \A i \in D : trades[i] \in BookTrades
  BY FS_Interval, TradesAssumption
<1>2. Folds(base, trades, g) /\ \A p : Nets(trades, p, net(p))
  BY <1>1, FoldExists, NetExists
<1>3. \A t \in BookTrades : t \in Trade /\ ValidTrade(t) /\ t.symbol_id = DefaultSymbol
  BY TradesAssumption, PnlAssumption DEF ValidTrade
<1> HIDE DEF g, net
<1> DEFINE K == {T \in SUBSET D :
                  /\ g[T] \in SoundAccounts
                  /\ \A p \in Participants :
                       /\ net(p)[T] \in Int
                       /\ PositionOf(g[T], p) = PositionOf(base, p) + net(p)[T]}
<1>4. {} \in K
  <2>1. g[{}] = base /\ \A p : net(p)[{}] = 0
    BY <1>2, FoldValue, NetValue
  <2>. QED  BY <2>1, PositionType
<1>5. ASSUME NEW T \in SUBSET D, T # {}, \A x \in T : T \ {x} \in K
      PROVE  T \in K
  <2> DEFINE m == Max(T)
             R == T \ {m}
             t == trades[m]
  <2>1. m \in T
    BY <1>1, <1>5, MaxIs
  <2>2. g[T] = WithTrade(g[R], t) /\ \A p : net(p)[T] = AddedTo(net(p)[R], t, p)
    <3>1. g[T] = WithTrade(g[R], t)
      BY <1>2, <1>5 DEF Folds
    <3>2. ASSUME NEW p PROVE net(p)[T] = AddedTo(net(p)[R], t, p)
      BY <1>2, <1>5, NetValue
    <3>. QED  BY <3>1, <3>2
  <2>3. t \in BookTrades
    BY <1>1, <2>1
  <2> HIDE DEF m, t
  <2>4. /\ g[R] \in SoundAccounts
        /\ \A p \in Participants :
             net(p)[R] \in Int /\ PositionOf(g[R], p) = PositionOf(base, p) + net(p)[R]
    BY <1>5, <2>1
  <2> HIDE DEF R
  <2>5. /\ g[T] \in SoundAccounts
        /\ \A p \in Participants : PositionOf(g[T], p) = AddedTo(PositionOf(g[R], p), t, p)
    BY <1>3, <2>2, <2>3, <2>4, TradeKeeps
  <2>6. ASSUME NEW p \in Participants
        PROVE  /\ net(p)[T] \in Int
               /\ PositionOf(g[T], p) = PositionOf(base, p) + net(p)[T]
    <3>1. t \in Trade /\ PositionOf(base, p) \in Int
      BY <1>3, <2>3, PositionType
    <3>2. /\ net(p)[R] \in Int /\ PositionOf(g[R], p) = PositionOf(base, p) + net(p)[R]
          /\ net(p)[T] = AddedTo(net(p)[R], t, p)
          /\ PositionOf(g[T], p) = AddedTo(PositionOf(g[R], p), t, p)
      BY <2>2, <2>4, <2>5
    <3>3. /\ AddedTo(net(p)[R], t, p) \in Int
          /\ AddedTo(PositionOf(base, p) + net(p)[R], t, p)
               = PositionOf(base, p) + AddedTo(net(p)[R], t, p)
      BY <3>1, <3>2, AddedType, AddedAside
    <3>. QED  BY <3>2, <3>3
  <2>. QED  BY <2>5, <2>6
<1> HIDE DEF K
<1>6. SUBSET D \subseteq K
  <2>1. \A T \in SUBSET D : T # {} /\ (\A x \in T : T \ {x} \in K) => T \in K
    BY <1>5
  <2>. QED  BY <1>1, <1>4, <2>1, SubsetInduction, Zenon
<1>7. D \in K
  BY <1>6
<1>8. FoldLeft(WithTrade, base, trades) = g[D] /\ \A p : NetOf(trades, p) = net(p)[D]
  BY FoldDefined, NetDefined DEF g, net
<1>. QED  BY <1>7, <1>8 DEF K

\* The net of a history is the net of its first trades and that of the others.
LEMMA NetSplits ==
  ASSUME NEW trades \in Seq(BookTrades), NEW m \in 0 .. Len(trades), NEW p
  PROVE  NetOf(trades, p)
           = NetOf(SubSeq(trades, 1, m), p) + NetOf(SubSeq(trades, m + 1, Len(trades)), p)
<1> DEFINE n == Len(trades)
           A == SubSeq(trades, 1, m)
           B == SubSeq(trades, m + 1, n)
           g == CHOOSE f : Nets(trades, p, f)
           a == CHOOSE f : Nets(A, p, f)
           b == CHOOSE f : Nets(B, p, f)
<1>1. /\ n \in Nat /\ m \in Nat /\ m <= n /\ n - m \in Nat
      /\ trades \in Seq(Trade) /\ DOMAIN trades = 1 .. n
      /\ \A i \in 1 .. n : trades[i] \in Trade
  BY TradesAssumption
<1>2. A \in Seq(Trade) /\ DOMAIN A = 1 .. m /\ \A i \in 1 .. m : A[i] = trades[i]
  <2>1. A \in Seq(Trade)
    BY <1>1
  <2>. QED  BY <1>1, <2>1
<1>3. B \in Seq(Trade) /\ DOMAIN B = 1 .. n - m /\ \A i \in 1 .. n - m : B[i] = trades[m + i]
  <2>1. /\ m + 1 \in Int /\ n \in Int /\ n - (m + 1) + 1 = n - m
        /\ \A i \in m + 1 .. n : trades[i] \in Trade
    BY <1>1
  <2> HIDE DEF n
  <2>0. m + 1 <= n \/ n - m = 0
    BY <1>1
  <2>2. /\ B \in Seq(Trade) /\ Len(B) = IF m + 1 <= n THEN n - (m + 1) + 1 ELSE 0
        /\ \A i \in 1 .. n - (m + 1) + 1 : B[i] = trades[(m + 1) + i - 1]
    BY <2>1, SubSeqProperties
  <2>3. Len(B) = n - m /\ \A i \in 1 .. n - m : (m + 1) + i - 1 = m + i
    BY <1>1, <2>0, <2>1, <2>2
  <2> HIDE DEF B
  <2>. QED  BY <2>1, <2>2, <2>3
<1>4. NetOf(trades, p) = g[1 .. n] /\ NetOf(A, p) = a[1 .. m] /\ NetOf(B, p) = b[1 .. n - m]
  BY <1>1, <1>2, <1>3, NetDefined
<1>5. Nets(trades, p, g) /\ Nets(A, p, a) /\ Nets(B, p, b)
  BY <1>1, <1>2, <1>3, NetExists
<1> HIDE DEF n, A, B, g, a, b
<1>6. /\ \A T \in SUBSET (1 .. n) :
           g[T] = IF T = {} THEN 0 ELSE AddedTo(g[T \ {Max(T)}], trades[Max(T)], p)
      /\ \A T \in SUBSET (1 .. m) :
           a[T] = IF T = {} THEN 0 ELSE AddedTo(a[T \ {Max(T)}], A[Max(T)], p)
      /\ \A T \in SUBSET (1 .. n - m) :
           b[T] = IF T = {} THEN 0 ELSE AddedTo(b[T \ {Max(T)}], B[Max(T)], p)
  <2>1. ASSUME NEW T \in SUBSET (1 .. n)
        PROVE  g[T] = IF T = {} THEN 0 ELSE AddedTo(g[T \ {Max(T)}], trades[Max(T)], p)
    BY <1>1, <1>5 DEF Nets
  <2>2. ASSUME NEW T \in SUBSET (1 .. m)
        PROVE  a[T] = IF T = {} THEN 0 ELSE AddedTo(a[T \ {Max(T)}], A[Max(T)], p)
    BY <1>2, <1>5 DEF Nets
  <2>3. ASSUME NEW T \in SUBSET (1 .. n - m)
        PROVE  b[T] = IF T = {} THEN 0 ELSE AddedTo(b[T \ {Max(T)}], B[Max(T)], p)
    BY <1>3, <1>5 DEF Nets
  <2>. QED  BY <2>1, <2>2, <2>3
<1>7. a[1 .. m] = g[1 .. m] /\ g[1 .. m] \in Int
  <2> DEFINE K == {T \in SUBSET (1 .. m) : a[T] = g[T] /\ g[T] \in Int}
  <2>1. {} \in K
    <3>1. {} \in SUBSET (1 .. m) /\ {} \in SUBSET (1 .. n) /\ 0 \in Int
      OBVIOUS
    <3>2. a[{}] = 0 /\ g[{}] = 0
      BY <1>6, <3>1, Zenon
    <3>. QED  BY <3>1, <3>2
  <2>2. ASSUME NEW T \in SUBSET (1 .. m), T # {}, \A x \in T : T \ {x} \in K
        PROVE  T \in K
    <3>1. Max(T) \in T
      BY <1>1, <2>2, MaxIs
    <3>2. A[Max(T)] = trades[Max(T)] /\ trades[Max(T)] \in Trade /\ T \in SUBSET (1 .. n)
      <4>1. 1 .. m \subseteq 1 .. n
        BY <1>1
      <4>. QED  BY <1>1, <1>2, <3>1, <4>1
    <3>3. /\ g[T] = AddedTo(g[T \ {Max(T)}], trades[Max(T)], p)
          /\ a[T] = AddedTo(a[T \ {Max(T)}], trades[Max(T)], p)
      BY <1>6, <2>2, <3>2
    <3>4. a[T \ {Max(T)}] = g[T \ {Max(T)}] /\ g[T \ {Max(T)}] \in Int
      BY <2>2, <3>1
    <3>. QED  BY <3>2, <3>3, <3>4, AddedType
  <2> HIDE DEF K
  <2>3. IsFiniteSet(1 .. m) /\ 1 .. m \in SUBSET (1 .. m)
    BY <1>1, FS_Interval
  <2>4. \A T \in SUBSET (1 .. m) : T # {} /\ (\A x \in T : T \ {x} \in K) => T \in K
    BY <2>2
  <2>5. SUBSET (1 .. m) \subseteq K
    BY <2>1, <2>3, <2>4, SubsetInduction, Zenon
  <2>. QED  BY <2>3, <2>5 DEF K
<1> DEFINE Shifted(T) == (1 .. m) \cup {m + i : i \in T}
<1>8. g[Shifted(1 .. n - m)] = g[1 .. m] + b[1 .. n - m]
  <2> DEFINE S == 1 .. n - m
             K == {T \in SUBSET S : g[Shifted(T)] = g[1 .. m] + b[T] /\ b[T] \in Int}
  <2>1. {} \in K
    <3>1. Shifted({}) = 1 .. m
      OBVIOUS
    <3>2. b[{}] = 0
      BY <1>6
    <3> HIDE DEF Shifted
    <3>3. g[Shifted({})] = g[1 .. m]
      BY <3>1
    <3>4. g[1 .. m] + 0 = g[1 .. m]
      BY <1>7
    <3>. QED  BY <3>2, <3>3, <3>4
  <2>2. ASSUME NEW T \in SUBSET S, T # {}, \A x \in T : T \ {x} \in K
        PROVE  T \in K
    <3> DEFINE k == Max(T)
    <3>1. k \in T /\ \A x \in T : k >= x
      BY <1>1, <2>2, MaxIs
    <3> HIDE DEF k
    <3>2. /\ k \in 1 .. n - m /\ m + k \in 1 .. n /\ Shifted(T) \in SUBSET (1 .. n)
          /\ B[k] = trades[m + k] /\ trades[m + k] \in Trade
      BY <1>1, <1>3, <3>1
    <3>3. Max(Shifted(T)) = m + k
      <4>1. m + k \in Shifted(T) /\ Shifted(T) \in SUBSET Int
        BY <1>1, <3>1, <3>2
      <4>2. \A x \in Shifted(T) : m + k >= x
        BY <1>1, <3>1, <3>2
      <4> HIDE DEF Shifted
      <4>. QED  BY <4>1, <4>2, MaxOf
    <3>4. Shifted(T) \ {m + k} = Shifted(T \ {k}) /\ Shifted(T) # {}
      <4>1. \A i \in T : m + i = m + k => i = k
        BY <1>1, <3>2
      <4>2. m + k \notin 1 .. m
        BY <1>1, <3>2
      <4>. QED  BY <3>1, <4>1, <4>2, Zenon
    <3>5. b[T] = AddedTo(b[T \ {k}], trades[m + k], p)
      BY <1>6, <2>2, <3>2 DEF k
    <3>6. g[Shifted(T \ {k})] = g[1 .. m] + b[T \ {k}] /\ b[T \ {k}] \in Int
      BY <2>2, <3>1
    <3> HIDE DEF Shifted
    <3>7. g[Shifted(T)] = AddedTo(g[Shifted(T \ {k})], trades[m + k], p)
      BY <1>6, <3>2, <3>3, <3>4
    <3>8. /\ AddedTo(b[T \ {k}], trades[m + k], p) \in Int
          /\ AddedTo(g[1 .. m] + b[T \ {k}], trades[m + k], p)
               = g[1 .. m] + AddedTo(b[T \ {k}], trades[m + k], p)
      BY <1>7, <3>2, <3>6, AddedType, AddedAside
    <3>. QED  BY <3>5, <3>6, <3>7, <3>8
  <2> HIDE DEF K
  <2>3. IsFiniteSet(S) /\ S \in SUBSET S
    BY <1>1, FS_Interval
  <2> HIDE DEF S, Shifted
  <2>4. \A T \in SUBSET S : T # {} /\ (\A x \in T : T \ {x} \in K) => T \in K
    BY <2>2
  <2>5. SUBSET S \subseteq K
    BY <2>1, <2>3, <2>4, SubsetInduction, Zenon
  <2>. QED  BY <2>3, <2>5 DEF K, S
<1>9. Shifted(1 .. n - m) = 1 .. n
  <2>1. \A i \in (1 .. n) \ (1 .. m) : i - m \in 1 .. n - m /\ m + (i - m) = i
    BY <1>1
  <2>2. \A i \in 1 .. n - m : m + i \in 1 .. n
    BY <1>1
  <2>3. 1 .. m \subseteq 1 .. n
    BY <1>1
  <2>. QED  BY <2>1, <2>2, <2>3, Zenon
<1>. QED  BY <1>4, <1>7, <1>8, <1>9 DEF n, A, B

----------------------------------------------------------------------------
(* The engine                                                              *)

\* What every step keeps. The cursor is within the history unless the history was
\* erased under it; without that, the trades still to come could be counted already.
Accounting ==
  /\ history \in Seq(BookTrades) /\ processed \in Nat /\ stale \in BOOLEAN
  /\ accounts \in SoundAccounts
  /\ marks \in UNION {[D -> Ratios] : D \in SUBSET Symbols}
  /\ ~stale => processed <= Len(history)
  /\ EachTradeCountedOnce

\* Every participant has traded what the processed trades say.
CountedOnce(all, trades) ==
  \A p \in Participants : PositionOf(all, p) = NetOf(trades, p)

\* The property, said of the processed part.
LEMMA CountedIs ==
  EachTradeCountedOnce <=> (~stale => CountedOnce(accounts, SubSeq(history, 1, processed)))
  BY DEF EachTradeCountedOnce, CountedOnce, PositionOf

\* Without accounts nothing has been counted.
LEMMA NothingCounted ==
  /\ << >> \in SoundAccounts /\ CountedOnce(<< >>, << >>)
  /\ << >> \in UNION {[D -> Ratios] : D \in SUBSET Symbols}
<1>1. << >> \in [{} -> Account] /\ << >> \in [{} -> Ratios] /\ DOMAIN << >> = {}
  OBVIOUS
<1>2. << >> \in SoundAccounts
  BY <1>1 DEF SoundAccounts
<1>3. ASSUME NEW p \in Participants PROVE NetOf(<< >>, p) = 0
  <2> DEFINE g == CHOOSE f : Nets(<< >>, p, f)
  <2>1. Nets(<< >>, p, g)
    BY NetExists, << >> \in Seq(Trade)
  <2> HIDE DEF g
  <2>2. g[{}] = 0
    BY <2>1 DEF Nets
  <2>. QED  BY <1>1, <2>2, NetDefined DEF g
<1>. QED  BY <1>1, <1>2, <1>3 DEF CountedOnce, PositionOf

\* What has not been processed is added to what was.
LEMMA ProcessKeeps ==
  ASSUME Accounting, ProcessNewTrades
  PROVE  Accounting'
<1> DEFINE n == Len(history)
           old == SubSeq(history, 1, processed)
           new == SubSeq(history, processed + 1, n)
<1>1. /\ history \in Seq(BookTrades) /\ n \in Nat /\ processed \in 0 .. n
      /\ accounts \in SoundAccounts
      /\ ~stale => CountedOnce(accounts, old)
  BY CountedIs DEF Accounting, ProcessNewTrades
<1>2. /\ history' = history /\ marks' = marks /\ stale' = stale /\ processed' = n
      /\ accounts' = FoldLeft(WithTrade, accounts, new)
  BY DEF ProcessNewTrades, CursorAfter
<1>3. new \in Seq(BookTrades)
  <2>1. /\ processed + 1 \in Int /\ n \in Int
        /\ \A i \in processed + 1 .. n : history[i] \in BookTrades
    BY <1>1
  <2>. QED  BY <2>1, SubSeqProperties
<1>4. /\ accounts' \in SoundAccounts
      /\ \A p \in Participants : PositionOf(accounts', p) = PositionOf(accounts, p) + NetOf(new, p)
  BY <1>1, <1>2, <1>3, FoldKeeps
<1>5. \A p \in Participants : NetOf(history, p) = NetOf(old, p) + NetOf(new, p)
  BY <1>1, NetSplits
<1>6. SubSeq(history, 1, n) = history
  BY <1>1, SubSeqFull
<1>7. ~stale' => CountedOnce(accounts', SubSeq(history', 1, processed'))
  BY <1>1, <1>2, <1>4, <1>5, <1>6 DEF CountedOnce
<1>8. (EachTradeCountedOnce)'
  BY <1>7, CountedIs DEF EachTradeCountedOnce, CountedOnce, PositionOf
<1>. QED  BY <1>1, <1>2, <1>4, <1>8 DEF Accounting

\* A step that leaves history, cursor and positions keeps the accounting if what it
\* makes of accounts and marks is sound.
LEMMA OthersKeep ==
  ASSUME Accounting, history' = history, processed' = processed, stale' = stale,
         accounts' \in SoundAccounts, marks' \in UNION {[D -> Ratios] : D \in SUBSET Symbols},
         \A p \in Participants : PositionOf(accounts', p) = PositionOf(accounts, p)
  PROVE  Accounting'
  BY DEF Accounting, EachTradeCountedOnce, PositionOf

\* Every step keeps the accounting.
LEMMA StepKeepsAccounting ==
  ASSUME Accounting, [Next]_vars
  PROVE  Accounting'
<1>0. /\ accounts \in SoundAccounts /\ history \in Seq(BookTrades) /\ processed \in Nat
      /\ marks \in UNION {[D -> Ratios] : D \in SUBSET Symbols} /\ stale \in BOOLEAN
      /\ ~stale => processed <= Len(history)
      /\ ~stale => CountedOnce(accounts, SubSeq(history, 1, processed))
  BY CountedIs DEF Accounting
<1>1. ASSUME NEW t \in BookTrades, BookExecutes(t) PROVE Accounting'
  <2>1. /\ history' \in Seq(BookTrades) /\ Len(history') = Len(history) + 1
        /\ \A i \in 1 .. Len(history) : history'[i] = history[i]
    BY <1>0, <1>1 DEF BookExecutes
  <2>2. ~stale => SubSeq(history', 1, processed) = SubSeq(history, 1, processed)
    BY <1>0, <2>1
  <2>3. /\ processed' = processed /\ accounts' = accounts /\ marks' = marks /\ stale' = stale
    BY <1>1 DEF BookExecutes
  <2>4. EachTradeCountedOnce'
    BY <1>0, <2>2, <2>3 DEF EachTradeCountedOnce, CountedOnce, PositionOf
  <2>. QED  BY <1>0, <2>1, <2>3, <2>4 DEF Accounting
<1>2. CASE ResetOrderBook
  <2>1. /\ history' = << >> /\ stale' = (stale \/ processed > 0) /\ processed' = processed
        /\ accounts' = accounts /\ marks' = marks
    BY <1>2 DEF ResetOrderBook
  <2>2. SubSeq(<< >>, 1, 0) = << >> /\ SubSeq(history, 1, 0) = << >>
    BY SubSeqEmpty
  <2>3. ~stale' => ~stale /\ processed = 0
    <3>1. ~stale' => ~stale /\ ~(processed > 0)
      BY <2>1, Zenon
    <3>2. ~(processed > 0) => processed = 0
      BY <1>0
    <3>. QED  BY <3>1, <3>2, Zenon
  <2>4. EachTradeCountedOnce'
    BY <1>0, <2>1, <2>2, <2>3 DEF EachTradeCountedOnce, CountedOnce, PositionOf
  <2>5. history' \in Seq(BookTrades) /\ Len(history') = 0
    BY <2>1
  <2>6. stale' \in BOOLEAN
    BY <2>1
  <2>. QED  BY <1>0, <2>1, <2>3, <2>4, <2>5, <2>6 DEF Accounting
<1>3. ASSUME NEW p \in Participants, NEW cash \in InitialCash, RegisterAccount(p, cash)
      PROVE  Accounting'
  <2>1. cash \in Int
    BY PnlAssumption
  <2>2. /\ accounts' \in SoundAccounts
        /\ \A r \in Participants :
             PositionOf(accounts', r) = IF r = p THEN 0 ELSE PositionOf(accounts, r)
    <3> DEFINE account == OpenedAccount(cash)
    <3>1. account \in Account /\ Balanced(account) /\ account.symbols[DefaultSymbol].position = 0
      BY <2>1, OpenedIs
    <3>2. accounts' = [r \in DOMAIN accounts \cup {p} |-> IF r = p THEN account ELSE accounts[r]]
      BY <1>3 DEF RegisterAccount
    <3> HIDE DEF account
    <3>. QED  BY <1>0, <3>1, <3>2, PutKeeps
  <2>3. PositionOf(accounts, p) = 0
    BY <1>3 DEF RegisterAccount, PositionOf
  <2>. QED  BY <1>0, <1>3, <2>2, <2>3, OthersKeep DEF RegisterAccount
<1>4. CASE ProcessNewTrades
  BY <1>4, ProcessKeeps
<1>5. ASSUME NEW t \in OtherTrades, ProcessTrade(t) PROVE Accounting'
  <2>1. t \in Trade /\ ~(ValidTrade(t) /\ t.symbol_id = DefaultSymbol)
    BY TradesAssumption
  <2>2. accounts' = WithTrade(accounts, t)
    BY <1>5 DEF ProcessTrade
  <2>3. /\ accounts' \in SoundAccounts
        /\ \A p \in Participants : PositionOf(accounts', p) = PositionOf(accounts, p)
    BY <1>0, <2>1, <2>2, TradeKeeps
  <2>. QED  BY <1>0, <1>5, <2>3, OthersKeep DEF ProcessTrade
<1>6. ASSUME NEW s \in Symbols, NEW price \in Ratios, SetMark(s, price) PROVE Accounting'
  <2>1. PICK D \in SUBSET Symbols : marks \in [D -> Ratios]
    BY <1>0
  <2>2. marks' = [x \in D \cup {s} |-> IF x = s THEN price ELSE marks[x]]
    BY <1>6, <2>1 DEF SetMark
  <2>3. marks' \in [D \cup {s} -> Ratios] /\ D \cup {s} \in SUBSET Symbols
    BY <2>1, <2>2
  <2>4. marks' \in UNION {[E -> Ratios] : E \in SUBSET Symbols}
    BY <2>3
  <2>. QED  BY <1>0, <1>6, <2>4, OthersKeep DEF SetMark
<1>7. CASE SetMarkPrice
  <2>1. PICK s \in Symbols, price \in MarkPrices : SetMark(s, Whole(price))
    BY <1>7 DEF SetMarkPrice
  <2>2. Whole(price) \in Ratios
    BY PnlAssumption, WholeIs
  <2>. QED  BY <1>6, <2>1, <2>2
<1>8. CASE MarkFromCurrentOrderBook
  <2>1. ASSUME NEW bid \in MarkPrices, NEW ask \in MarkPrices,
               SetMark(DefaultSymbol, Ratio(bid + ask, 2))
        PROVE  Accounting'
    <3>1. Ratio(bid + ask, 2) \in Ratios
      <4>1. bid + ask \in Int /\ 2 \in Positive
        BY PnlAssumption DEF Positive
      <4>. QED  BY <4>1, RatioFacts
    <3>. QED  BY <1>6, <2>1, <3>1, PnlAssumption
  <2>2. ASSUME NEW price \in MarkPrices, SetMark(DefaultSymbol, Whole(price))
        PROVE  Accounting'
    <3>1. Whole(price) \in Ratios
      BY PnlAssumption, WholeIs
    <3>. QED  BY <1>6, <2>2, <3>1, PnlAssumption
  <2>. QED  BY <1>8, <2>1, <2>2 DEF MarkFromCurrentOrderBook
<1>9. CASE Reset
  <2>1. /\ accounts' = << >> /\ marks' = << >> /\ processed' = 0 /\ stale' = FALSE
        /\ history' = history
    BY <1>9 DEF Reset
  <2>2. SubSeq(history, 1, 0) = << >>
    BY SubSeqEmpty
  <2>3. EachTradeCountedOnce'
    BY <2>1, <2>2, NothingCounted DEF EachTradeCountedOnce, CountedOnce, PositionOf
  <2>4. 0 <= Len(history) /\ 0 \in Nat /\ FALSE \in BOOLEAN
    BY <1>0
  <2>. QED  BY <1>0, <2>1, <2>3, <2>4, NothingCounted DEF Accounting
<1>10. CASE UNCHANGED vars
  BY <1>0, <1>10, OthersKeep DEF vars
<1>. QED  BY <1>1, <1>2, <1>3, <1>4, <1>5, <1>7, <1>8, <1>9, <1>10 DEF Next

\* The accounting holds in every state: accounts whose cash is what their states
\* brought in, and positions that are the net of the trades processed.
THEOREM AccountingHolds == Spec => []Accounting
<1>1. Init => Accounting
  <2> SUFFICES ASSUME Init PROVE Accounting
    OBVIOUS
  <2>1. SubSeq(<< >>, 1, 0) = << >>
    BY SubSeqEmpty
  <2>2. EachTradeCountedOnce
    BY <2>1, NothingCounted DEF Init, EachTradeCountedOnce, CountedOnce, PositionOf
  <2>3. 0 <= Len(<< >>) /\ 0 \in Nat /\ FALSE \in BOOLEAN /\ << >> \in Seq(BookTrades)
    OBVIOUS
  <2>. QED  BY <2>2, <2>3, NothingCounted DEF Init, Accounting
<1>2. Accounting /\ [Next]_vars => Accounting'
  BY StepKeepsAccounting
<1>. QED  BY <1>1, <1>2, PTL DEF Spec

\* Unless the history was erased under the cursor, the positions in the book's symbol
\* are the net of the processed part of the history, each trade counted once.
THEOREM TradesCountedOnce == Spec => []EachTradeCountedOnce
<1>1. Accounting => EachTradeCountedOnce
  BY DEF Accounting
<1>. QED  BY <1>1, AccountingHolds, PTL

\* A position at its mark, or at its average without one, and what it brought in are
\* the profit it realised and the profit it has not.
LEMMA ValueIs ==
  ASSUME Accounting, NEW p \in DOMAIN accounts, NEW s \in Symbols
  PROVE  LET state == accounts[p].symbols[s]
             price == IF s \in DOMAIN marks THEN marks[s] ELSE state.average_entry_price
             value == Times(state.position, price)
         IN  /\ value \in Ratios /\ UnrealisedOf(p, s) \in Ratios
             /\ state.realised_pnl \in Ratios /\ BookValue(state) \in Ratios
             /\ Plus(value, BookValue(state)) = Plus(state.realised_pnl, UnrealisedOf(p, s))
<1> DEFINE state == accounts[p].symbols[s]
           k == state.position
           a == state.average_entry_price
           r == state.realised_pnl
           price == IF s \in DOMAIN marks THEN marks[s] ELSE a
           value == Times(k, price)
           open == Times(-k, a)
<1>1. state \in State
  <2>1. accounts[p] \in Account
    BY SoundFacts DEF Accounting
  <2>. QED  BY <2>1 DEF Account
<1>2. k \in Int /\ a \in Ratios /\ r \in Ratios
  BY <1>1 DEF State
<1>3. price \in Ratios
  <2>1. PICK D \in SUBSET Symbols : marks \in [D -> Ratios]
    BY DEF Accounting
  <2>. QED  BY <1>2, <2>1
<1>4. BookValue(state) = Plus(r, open) /\ BookValue(state) \in Ratios
  BY <1>1, BookValueType DEF BookValue
<1>5. UnrealisedOf(p, s) = IF s \notin DOMAIN marks \/ k = 0 THEN Zero
                           ELSE Times(Magnitude(k), GainPerUnit(k, a, price))
  BY DEF UnrealisedOf
<1> HIDE DEF state, k, a, r, price
<1>6. value \in Ratios /\ open \in Ratios
  BY <1>2, <1>3, TimesIs
<1>7. Plus(value, Plus(r, open)) = Plus(r, Plus(value, open))
  BY <1>2, <1>6, PlusExchanges
<1>8. Plus(value, open) = UnrealisedOf(p, s)
  <2>1. CASE k = 0
    <3>1. \A n \in Int : n <= 0 /\ n >= 0 => -n = 0
      OBVIOUS
    <3>2. k <= 0 /\ k >= 0
      BY <2>1
    <3>3. -k = 0
      BY <1>2, <3>1, <3>2, Zenon
    <3>4. value = Zero /\ open = Zero
      BY <1>2, <1>3, <2>1, <3>3, TimesZero
    <3>. QED  BY <1>5, <2>1, <3>4, ZeroIs, PlusZero
  <2>2. CASE k # 0 /\ s \notin DOMAIN marks
    <3>1. price = a
      BY <2>2 DEF price
    <3>. QED  BY <1>2, <1>5, <2>2, <3>1, TimesCancels
  <2>3. CASE k # 0 /\ s \in DOMAIN marks
    <3>1. Magnitude(k) \in Nat /\ (IF k > 0 THEN Magnitude(k) ELSE -Magnitude(k)) = k
      BY <1>2 DEF Magnitude
    <3>2. Times(Magnitude(k), GainPerUnit(k, a, price)) = Plus(Times(k, price), Times(-k, a))
      BY <1>2, <1>3, <2>3, <3>1, GainIs
    <3>. QED  BY <1>5, <2>3, <3>2
  <2>. QED  BY <2>1, <2>2, <2>3
<1>9. UnrealisedOf(p, s) \in Ratios
  BY <1>6, <1>8, PlusIs
<1>. QED  BY <1>2, <1>4, <1>6, <1>7, <1>8, <1>9 DEF state, k, a, r, price

\* The equity of balanced accounts reconciles.
LEMMA EquityFollows == Accounting => EquityReconciles
<1> SUFFICES ASSUME Accounting, NEW p \in DOMAIN accounts
             PROVE  AccountEquity(p) =
                      Plus(Whole(accounts[p].initial_cash), Plus(RealisedPnl(p), UnrealisedPnl(p)))
  BY DEF EquityReconciles
<1> DEFINE account == accounts[p]
           b == BookValues(account)
           v == [s \in Symbols |-> Times(account.symbols[s].position,
                   IF s \in DOMAIN marks THEN marks[s]
                   ELSE account.symbols[s].average_entry_price)]
           r == [s \in Symbols |-> account.symbols[s].realised_pnl]
           u == [s \in Symbols |-> UnrealisedOf(p, s)]
           both == [s \in Symbols |-> Plus(v[s], b[s])]
           B == SumOn(b, Symbols)
           V == SumOn(v, Symbols)
           initial == Whole(account.initial_cash)
<1>1. AccountEquity(p) = Plus(Whole(account.cash_balance), V)
  BY Zenon DEF AccountEquity, SumOfSymbols, FoldFunction, SumOn
<1>2. RealisedPnl(p) = SumOn(r, Symbols) /\ UnrealisedPnl(p) = SumOn(u, Symbols)
  BY Zenon DEF RealisedPnl, UnrealisedPnl, SumOfSymbols, FoldFunction, SumOn
<1>3. account \in Account /\ Whole(account.cash_balance) = Plus(initial, B)
  BY SoundFacts DEF Accounting, Balanced
<1>4. \A s \in Symbols :
        /\ v[s] \in Ratios /\ b[s] \in Ratios /\ r[s] \in Ratios /\ u[s] \in Ratios
        /\ both[s] = Plus(v[s], b[s]) /\ both[s] = Plus(r[s], u[s])
  <2> TAKE s \in Symbols
  <2>1. b[s] = BookValue(account.symbols[s])
    BY DEF BookValues
  <2> HIDE DEF b
  <2>. QED  BY <2>1, ValueIs
<1>5. initial \in Ratios
  BY <1>3, WholeIs DEF Account
<1>6. IsFiniteSet(Symbols)
  BY PnlAssumption
<1> HIDE DEF account, b, v, r, u, both, initial
<1>7. /\ SumOn(both, Symbols) = Plus(V, B)
      /\ SumOn(both, Symbols) = Plus(SumOn(r, Symbols), SumOn(u, Symbols))
  BY <1>4, <1>6, SumOfSums
<1>8. B \in Ratios /\ V \in Ratios
  BY <1>4, <1>6, SumFacts
<1> HIDE DEF B, V
<1>9. Plus(Plus(initial, B), V) = Plus(initial, Plus(V, B))
  BY <1>5, <1>8, PlusAssociates, PlusCommutes
<1>. QED  BY <1>1, <1>2, <1>3, <1>7, <1>9 DEF initial, account

\* What an account is worth is the same both ways, in every state: its cash and its
\* marked positions, and its initial cash with its realised and unrealised profit.
THEOREM EquityAlwaysReconciles == Spec => []EquityReconciles
<1>. QED  BY AccountingHolds, EquityFollows, PTL
=============================================================================
