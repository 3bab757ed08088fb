-------------------------- MODULE OrderBookProofs --------------------------
(***************************************************************************)
(* Proofs about OrderBook, for any sets of ids, prices and quantities:     *)
(* that its book is consistent, that a rejected call changes nothing, that *)
(* the cached totals are exact, and that it implements MatchingSpec.       *)
(*                                                                         *)
(* The first part needs the book alone.  The second reads the book as the  *)
(* queues of MatchingSpec, about which MatchingSpecProofs knows what a     *)
(* whole match does, and follows the loop of executeOrder through one.     *)
(***************************************************************************)
EXTENDS OrderBookRefinement, WellFoundedInduction, TLAPS

(* TypeOK and IndexConsistent, said of any book b and index, and that only  *)
(* the one symbol ever rests.                                              *)

BookTyped(b) ==
  /\ DOMAIN b = Side
  /\ \A side \in Side :
       /\ DOMAIN b[side] \subseteq Prices
       /\ \A p \in DOMAIN b[side] : b[side][p] \in PriceLevel

IndexTyped(index) ==
  /\ DOMAIN index \subseteq OrderIds
  /\ \A id \in DOMAIN index : index[id] \in Location

IndexedIn(b, index) ==
  \A side \in Side : \A p \in DOMAIN b[side] :
    /\ b[side][p].orders # << >>
    /\ \A n \in DOMAIN b[side][p].orders :
         /\ b[side][p].orders[n].side = side
         /\ b[side][p].orders[n].price = p
         /\ b[side][p].orders[n].quantity > 0
         /\ b[side][p].orders[n].symbol_id = DefaultSymbol
         /\ b[side][p].orders[n].id \in DOMAIN index
         /\ index[b[side][p].orders[n].id].side = side
         /\ index[b[side][p].orders[n].id].price = p

UniqueIn(b) ==
  \A side \in Side : \A p \in DOMAIN b[side] :
    \A m, n \in DOMAIN b[side][p].orders :
      b[side][p].orders[m].id = b[side][p].orders[n].id => m = n

ReachedIn(b, index) ==
  \A id \in DOMAIN index :
    /\ index[id].price \in DOMAIN b[index[id].side]
    /\ \E n \in DOMAIN b[index[id].side][index[id].price].orders :
         b[index[id].side][index[id].price].orders[n].id = id

\* The first part of the invariant, of any book and index.
Good(b, index) ==
  /\ BookTyped(b)
  /\ IndexTyped(index)
  /\ IndexedIn(b, index)
  /\ UniqueIn(b)
  /\ ReachedIn(b, index)

\* IndexConsistent, of the book and the index there are.
LEMMA GoodBook == Good(book, orderIndex) => IndexConsistent
<1> SUFFICES ASSUME Good(book, orderIndex)
             PROVE  IndexConsistent
  OBVIOUS
<1>1. OrdersIndexed
  <2>1. IndexedIn(book, orderIndex)
    BY DEF Good
  <2>. QED  BY <2>1 DEF IndexedIn, OrdersIndexed
<1>2. OrdersUnique
  <2>1. UniqueIn(book)
    BY DEF Good
  <2>. QED  BY <2>1 DEF UniqueIn, OrdersUnique
<1>3. IndexReachesOrders
  <2>1. ReachedIn(book, orderIndex)
    BY DEF Good
  <2>. QED  BY <2>1 DEF ReachedIn, IndexReachesOrders
<1>. QED  BY <1>1, <1>2, <1>3 DEF IndexConsistent

\* What IndexedIn says of one node.
InPlace(node, side, p, index) ==
  /\ node.side = side
  /\ node.price = p
  /\ node.quantity > 0
  /\ node.symbol_id = DefaultSymbol
  /\ node.id \in DOMAIN index
  /\ index[node.id].side = side
  /\ index[node.id].price = p

\* Every node of a good book is in its place.
LEMMA NodeFacts ==
  ASSUME NEW b, NEW index, Good(b, index),
         NEW side \in Side, NEW p \in DOMAIN b[side], NEW n \in DOMAIN b[side][p].orders
  PROVE  InPlace(b[side][p].orders[n], side, p, index)
<1>1. IndexedIn(b, index)
  BY DEF Good
<1>. QED  BY <1>1 DEF IndexedIn, InPlace

----------------------------------------------------------------------------
(* Storing one level of one side leaves every other level alone.           *)

LEMMA StoreLevelFacts ==
  ASSUME NEW b, DOMAIN b = Side, NEW side \in Side, NEW price, NEW level
  PROVE  /\ DOMAIN StoreLevel(b, side, price, level) = Side
         /\ \A s \in Side : s # side => StoreLevel(b, side, price, level)[s] = b[s]
         /\ level.orders = << >> =>
              DOMAIN StoreLevel(b, side, price, level)[side] = DOMAIN b[side] \ {price}
         /\ level.orders # << >> =>
              /\ DOMAIN StoreLevel(b, side, price, level)[side] = DOMAIN b[side] \cup {price}
              /\ StoreLevel(b, side, price, level)[side][price] = level
         /\ \A p \in DOMAIN b[side] :
              p # price => StoreLevel(b, side, price, level)[side][p] = b[side][p]
  BY DEF StoreLevel, WithEntry, WithoutEntry

\* Adding an entry to the index, and taking one out.
LEMMA WithEntryFacts ==
  ASSUME NEW f, NEW key, NEW value
  PROVE  /\ DOMAIN WithEntry(f, key, value) = DOMAIN f \cup {key}
         /\ WithEntry(f, key, value)[key] = value
         /\ \A k \in DOMAIN f : k # key => WithEntry(f, key, value)[k] = f[k]
  BY DEF WithEntry

LEMMA WithoutEntryFacts ==
  ASSUME NEW f, NEW key
  PROVE  /\ DOMAIN WithoutEntry(f, key) = DOMAIN f \ {key}
         /\ \A k \in DOMAIN f : k # key => WithoutEntry(f, key)[k] = f[k]
  BY DEF WithoutEntry

\* A list without one of its nodes.
LEMMA WithoutPositionFacts ==
  ASSUME NEW S, NEW orders \in Seq(S), NEW n \in DOMAIN orders
  PROVE  /\ WithoutPosition(orders, n) \in Seq(S)
         /\ DOMAIN WithoutPosition(orders, n) = 1 .. Len(orders) - 1
         /\ \A i \in 1 .. Len(orders) - 1 :
              WithoutPosition(orders, n)[i] = IF i < n THEN orders[i] ELSE orders[i + 1]
         /\ WithoutPosition(orders, n) = << >> => Len(orders) = 1
         /\ Len(orders) = 1 => WithoutPosition(orders, n) = << >>
<1> DEFINE W == WithoutPosition(orders, n)
<1>1. /\ DOMAIN W = 1 .. Len(orders) - 1
      /\ \A i \in 1 .. Len(orders) - 1 : W[i] = IF i < n THEN orders[i] ELSE orders[i + 1]
  BY DEF WithoutPosition
<1>2. W \in Seq(S)
  <2>1. \A i \in 1 .. Len(orders) - 1 : (IF i < n THEN orders[i] ELSE orders[i + 1]) \in S
    OBVIOUS
  <2>2. Len(orders) - 1 \in Nat
    OBVIOUS
  <2>. QED  BY <2>1, <2>2 DEF WithoutPosition
<1>3. Len(W) = Len(orders) - 1
  BY <1>1, <1>2, Len(orders) - 1 \in Nat
<1>4. W = << >> <=> Len(W) = 0
  BY <1>2
<1>. QED  BY <1>1, <1>2, <1>3, <1>4

\* A wrapping total stays in its width.
LEMMA WrapFacts ==
  ASSUME NEW x \in 0 .. TotalLimit - 1, NEW y \in 0 .. QuantityLimit - 1
  PROVE  /\ WrapAdd(x, y) \in 0 .. TotalLimit - 1
         /\ WrapSub(x, y) \in 0 .. TotalLimit - 1
  BY ConstantsAssumption DEF WrapAdd, WrapSub

----------------------------------------------------------------------------
(* The three ways a level changes: an order joins it, an order leaves it,  *)
(* an order in it keeps its place with another quantity.                   *)

LEMMA PricesAreIntegers == \A p \in Prices : p \in Int
  BY ConstantsAssumption

LEMMA NotEmpty ==
  ASSUME NEW S, NEW q \in Seq(S)
  PROVE  q # << >> <=> Len(q) > 0
  OBVIOUS

LEMMA Single ==
  ASSUME NEW S, NEW q \in Seq(S), Len(q) <= 1, q # << >>
  PROVE  Len(q) = 1 /\ q[1] \in S
<1> DEFINE n == Len(q)
<1>1. n \in Nat
  OBVIOUS
<1>2. n > 0 /\ n <= 1
  BY NotEmpty
<1>3. Len(q) = 1
  <2> HIDE DEF n
  <2>1. n = 1
    BY <1>1, <1>2
  <2>. QED  BY <2>1 DEF n
<1>. QED  BY <1>3

LEMMA ReplacedFacts ==
  ASSUME NEW S, NEW q \in Seq(S), NEW n \in 1 .. Len(q), NEW v \in S,
         NEW r, r = [q EXCEPT ![n] = v]
  PROVE  /\ r \in Seq(S)
         /\ Len(r) = Len(q)
         /\ DOMAIN r = DOMAIN q
         /\ r # << >>
         /\ r[n] = v
         /\ \A m \in DOMAIN q : m # n => r[m] = q[m]
<1>1. r \in Seq(S) /\ Len(r) = Len(q)
  OBVIOUS
<1>2. Len(r) > 0
  BY <1>1
<1>. QED  BY <1>1, <1>2, NotEmpty

LEMMA PriceLevelFacts ==
  ASSUME NEW level \in PriceLevel
  PROVE  /\ level.total_quantity \in 0 .. TotalLimit - 1
         /\ level.orders \in Seq(RestingOrder)
         /\ level.orders # << >> <=> Len(level.orders) > 0
         /\ \A n \in DOMAIN level.orders : level.orders[n] \in RestingOrder
<1>1. level.total_quantity \in 0 .. TotalLimit - 1 /\ level.orders \in Seq(RestingOrder)
  BY DEF PriceLevel
<1>2. \A q \in Seq(RestingOrder) : \A n \in DOMAIN q : q[n] \in RestingOrder
  OBVIOUS
<1>. QED  BY <1>1, <1>2, NotEmpty

\* What the levels of a good book are.
LEMMA LevelFacts ==
  ASSUME NEW b, NEW index, Good(b, index), NEW side \in Side, NEW p \in DOMAIN b[side]
  PROVE  /\ p \in Prices
         /\ b[side][p] \in PriceLevel
         /\ b[side][p].total_quantity \in 0 .. TotalLimit - 1
         /\ b[side][p].orders \in Seq(RestingOrder)
         /\ Len(b[side][p].orders) > 0
         /\ \A n \in DOMAIN b[side][p].orders : b[side][p].orders[n] \in RestingOrder
<1>1. p \in Prices /\ b[side][p] \in PriceLevel
  BY DEF Good, BookTyped
<1>2. b[side][p].orders # << >>
  BY DEF Good, IndexedIn
<1>. QED  BY <1>1, <1>2, PriceLevelFacts

\* level is what o made of a level whose queue was orders.
IsJoined(level, orders, o) ==
  /\ level \in PriceLevel
  /\ level.orders # << >>
  /\ DOMAIN level.orders = 1 .. Len(orders) + 1
  /\ level.orders[Len(orders) + 1] = o
  /\ \A n \in 1 .. Len(orders) : level.orders[n] = orders[n]

LEMMA JoinedLevel ==
  ASSUME NEW total \in 0 .. TotalLimit - 1, NEW orders \in Seq(RestingOrder),
         NEW o \in RestingOrder, NEW level,
         level = [total_quantity |-> total, orders |-> Append(orders, o)]
  PROVE  IsJoined(level, orders, o)
<1>1. /\ Append(orders, o) \in Seq(RestingOrder)
      /\ DOMAIN Append(orders, o) = 1 .. Len(orders) + 1
      /\ Append(orders, o)[Len(orders) + 1] = o
      /\ \A n \in 1 .. Len(orders) : Append(orders, o)[n] = orders[n]
      /\ Append(orders, o) # << >>
  OBVIOUS
<1>2. level \in PriceLevel
  BY <1>1 DEF PriceLevel
<1>. QED  BY <1>1, <1>2 DEF IsJoined

\* A node appended to its level and entered in the index,
LEMMA AppendKeepsGood ==
  ASSUME NEW b, NEW index, Good(b, index),
         NEW o \in RestingOrder, o.quantity > 0,
         o.symbol_id = DefaultSymbol, o.id \notin DOMAIN index
  PROVE  Good(Enqueued(b, o), WithEntry(index, o.id, [side |-> o.side, price |-> o.price]))
<1> DEFINE loc == [side |-> o.side, price |-> o.price]
           ix  == WithEntry(index, o.id, loc)
<1>1. /\ o.side \in Side
      /\ o.price \in Prices
      /\ o.id \in OrderIds
      /\ o.quantity \in 0 .. QuantityLimit - 1
      /\ loc \in Location
  BY DEF RestingOrder, Location
<1>2. /\ DOMAIN b = Side
      /\ BookTyped(b)
      /\ IndexTyped(index)
  BY DEF Good, BookTyped
<1> DEFINE old == LevelAt(b, o.side, o.price)
<1>3. /\ old.total_quantity \in 0 .. TotalLimit - 1
      /\ old.orders \in Seq(RestingOrder)
  <2>1. CASE o.price \in DOMAIN b[o.side]
    BY <1>1, <2>1, LevelFacts DEF LevelAt
  <2>2. CASE o.price \notin DOMAIN b[o.side]
    <3>1. old = EmptyLevel
      BY <2>2 DEF LevelAt
    <3>2. EmptyLevel.total_quantity = 0 /\ EmptyLevel.orders = << >>
      BY DEF EmptyLevel
    <3>3. 0 \in 0 .. TotalLimit - 1
      BY <1>1, ConstantsAssumption
    <3>. QED  BY <3>1, <3>2, <3>3
  <2>. QED  BY <2>1, <2>2
<1>4. /\ o.price \in DOMAIN b[o.side] => old = b[o.side][o.price]
      /\ o.price \notin DOMAIN b[o.side] => old.orders = << >>
  BY DEF LevelAt, EmptyLevel
<1> DEFINE total == WrapAdd(old.total_quantity, o.quantity)
           new == [total_quantity |-> total, orders |-> Append(old.orders, o)]
           c   == StoreLevel(b, o.side, o.price, new)
<1>5. c = Enqueued(b, o)
  BY DEF Enqueued
<1> HIDE DEF old
<1>6. /\ new \in PriceLevel
      /\ new.orders # << >>
      /\ DOMAIN new.orders = 1 .. Len(old.orders) + 1
      /\ new.orders[Len(old.orders) + 1] = o
      /\ \A n \in 1 .. Len(old.orders) : new.orders[n] = old.orders[n]
  <2>1. total \in 0 .. TotalLimit - 1
    BY <1>1, <1>3, WrapFacts
  <2>. HIDE DEF total
  <2>2. old.orders \in Seq(RestingOrder)
    BY <1>3
  <2>3. IsJoined(new, old.orders, o)
    BY <2>1, <2>2, JoinedLevel
  <2>. HIDE DEF new
  <2>. QED  BY <2>3 DEF IsJoined
<1> HIDE DEF new
<1>7. /\ DOMAIN c = Side
      /\ \A s \in Side : s # o.side => c[s] = b[s]
      /\ DOMAIN c[o.side] = DOMAIN b[o.side] \cup {o.price}
      /\ c[o.side][o.price] = new
      /\ \A p \in DOMAIN b[o.side] : p # o.price => c[o.side][p] = b[o.side][p]
  BY <1>1, <1>2, <1>6, StoreLevelFacts
<1>8. /\ DOMAIN ix = DOMAIN index \cup {o.id}
      /\ ix[o.id] = loc
      /\ \A k \in DOMAIN index : k # o.id => ix[k] = index[k]
  BY DEF WithEntry
<1> HIDE DEF c, ix
<1>9. BookTyped(c)
  BY <1>1, <1>2, <1>6, <1>7 DEF BookTyped
<1>10. IndexTyped(ix)
  BY <1>1, <1>2, <1>8 DEF IndexTyped
<1>11. Len(old.orders) \in Nat /\ DOMAIN old.orders = 1 .. Len(old.orders)
  BY <1>3
<1>12. ASSUME NEW s \in Side, NEW p \in DOMAIN c[s], NEW n \in DOMAIN c[s][p].orders
       PROVE  \/ /\ s = o.side
                 /\ p = o.price
                 /\ n = Len(old.orders) + 1
                 /\ c[s][p].orders[n] = o
              \/ /\ p \in DOMAIN b[s]
                 /\ n \in DOMAIN b[s][p].orders
                 /\ c[s][p].orders[n] = b[s][p].orders[n]
                 /\ c[s][p].orders[n].id \in DOMAIN index
                 /\ c[s][p].orders[n].id # o.id
  <2>1. CASE s = o.side /\ p = o.price
    <3>1. n \in 1 .. Len(old.orders) + 1 /\ c[s][p].orders[n] = new.orders[n]
      BY <2>1, <1>6, <1>7
    <3>2. CASE n = Len(old.orders) + 1
      BY <2>1, <3>1, <3>2, <1>6
    <3>3. CASE n # Len(old.orders) + 1
      <4>1. n \in 1 .. Len(old.orders)
        BY <3>1, <3>3, <1>11
      <4>2. p \in DOMAIN b[s] /\ old = b[s][p]
        BY <4>1, <2>1, <1>4, <1>11
      <4>3. c[s][p].orders[n] = b[s][p].orders[n] /\ n \in DOMAIN b[s][p].orders
        BY <4>1, <4>2, <3>1, <1>6, <1>11
      <4>. QED  BY <4>2, <4>3 DEF Good, IndexedIn
    <3>. QED  BY <3>2, <3>3
  <2>2. CASE ~(s = o.side /\ p = o.price)
    <3>1. p \in DOMAIN b[s] /\ c[s][p] = b[s][p]
      BY <2>2, <1>7
    <3>. QED  BY <3>1 DEF Good, IndexedIn
  <2>. QED  BY <2>1, <2>2
<1>13. IndexedIn(c, ix)
  <2> SUFFICES ASSUME NEW s \in Side, NEW p \in DOMAIN c[s]
               PROVE  /\ c[s][p].orders # << >>
                      /\ \A n \in DOMAIN c[s][p].orders :
                           /\ c[s][p].orders[n].side = s
                           /\ c[s][p].orders[n].price = p
                           /\ c[s][p].orders[n].quantity > 0
                           /\ c[s][p].orders[n].symbol_id = DefaultSymbol
                           /\ c[s][p].orders[n].id \in DOMAIN ix
                           /\ ix[c[s][p].orders[n].id].side = s
                           /\ ix[c[s][p].orders[n].id].price = p
    BY DEF IndexedIn
  <2>1. c[s][p].orders # << >>
    BY <1>6, <1>7 DEF Good, IndexedIn
  <2>2. ASSUME NEW n \in DOMAIN c[s][p].orders
        PROVE  /\ c[s][p].orders[n].side = s
               /\ c[s][p].orders[n].price = p
               /\ c[s][p].orders[n].quantity > 0
               /\ c[s][p].orders[n].symbol_id = DefaultSymbol
               /\ c[s][p].orders[n].id \in DOMAIN ix
               /\ ix[c[s][p].orders[n].id].side = s
               /\ ix[c[s][p].orders[n].id].price = p
    <3>1. CASE s = o.side /\ p = o.price /\ c[s][p].orders[n] = o
      BY <3>1, <1>8
    <3>2. ASSUME p \in DOMAIN b[s], n \in DOMAIN b[s][p].orders,
                 c[s][p].orders[n] = b[s][p].orders[n]
          PROVE  /\ c[s][p].orders[n].side = s
                 /\ c[s][p].orders[n].price = p
                 /\ c[s][p].orders[n].quantity > 0
                 /\ c[s][p].orders[n].symbol_id = DefaultSymbol
                 /\ c[s][p].orders[n].id \in DOMAIN ix
                 /\ ix[c[s][p].orders[n].id].side = s
                 /\ ix[c[s][p].orders[n].id].price = p
      <4> DEFINE node == b[s][p].orders[n]
      <4>1. InPlace(node, s, p, index)
        BY <3>2, NodeFacts
      <4> HIDE DEF node
      <4>2. node.id \in DOMAIN ix /\ ix[node.id] = index[node.id]
        BY <4>1, <1>8 DEF InPlace
      <4>3. c[s][p].orders[n] = node
        BY <3>2 DEF node
      <4>. QED  BY <4>1, <4>2, <4>3 DEF InPlace
    <3>. QED  BY <3>1, <3>2, <1>12
  <2>. QED  BY <2>1, <2>2
<1>14. UniqueIn(c)
  <2> SUFFICES ASSUME NEW s \in Side, NEW p \in DOMAIN c[s],
                      NEW m \in DOMAIN c[s][p].orders, NEW n \in DOMAIN c[s][p].orders,
                      c[s][p].orders[m].id = c[s][p].orders[n].id
               PROVE  m = n
    BY DEF UniqueIn
  <2>. QED  BY <1>12 DEF Good, UniqueIn
<1>15. ReachedIn(c, ix)
  <2> SUFFICES ASSUME NEW id \in DOMAIN ix
               PROVE  /\ ix[id].price \in DOMAIN c[ix[id].side]
                      /\ \E n \in DOMAIN c[ix[id].side][ix[id].price].orders :
                           c[ix[id].side][ix[id].price].orders[n].id = id
    BY DEF ReachedIn
  <2>1. CASE id = o.id
    <3>1. Len(old.orders) + 1 \in DOMAIN new.orders
      BY <1>6, <1>11
    <3>. QED  BY <2>1, <3>1, <1>6, <1>7, <1>8
  <2>2. CASE id # o.id
    <3>1. id \in DOMAIN index /\ ix[id] = index[id] /\ index[id].side \in Side
      BY <2>2, <1>2, <1>8 DEF IndexTyped, Location
    <3>2. PICK n \in DOMAIN b[index[id].side][index[id].price].orders :
            b[index[id].side][index[id].price].orders[n].id = id
      BY <3>1 DEF Good, ReachedIn
    <3>3. index[id].price \in DOMAIN b[index[id].side]
      BY <3>1 DEF Good, ReachedIn
    <3>4. CASE index[id].side = o.side /\ index[id].price = o.price
      <4>1. old = b[index[id].side][index[id].price]
        BY <3>3, <3>4, <1>4
      <4>2. n \in 1 .. Len(old.orders) /\ old.orders[n].id = id
        BY <3>2, <4>1, <1>11
      <4>3. n \in DOMAIN new.orders /\ new.orders[n].id = id
        BY <4>2, <1>6, <1>11
      <4>. QED  BY <3>1, <3>4, <4>3, <1>7
    <3>5. CASE ~(index[id].side = o.side /\ index[id].price = o.price)
      BY <3>1, <3>2, <3>3, <3>5, <1>7
    <3>. QED  BY <3>4, <3>5
  <2>. QED  BY <2>1, <2>2
<1>16. Good(c, ix)
  BY <1>9, <1>10, <1>13, <1>14, <1>15 DEF Good
<1>. QED  BY <1>16, <1>5 DEF ix

\* one removed from both,
LEMMA RemoveKeepsGood ==
  ASSUME NEW b, NEW index, Good(b, index), NEW side \in Side, NEW p \in DOMAIN b[side],
         NEW n \in DOMAIN b[side][p].orders, NEW total \in 0 .. TotalLimit - 1,
         NEW level,
         level = [total_quantity |-> total, orders |-> WithoutPosition(b[side][p].orders, n)]
  PROVE  Good(StoreLevel(b, side, p, level), WithoutEntry(index, b[side][p].orders[n].id))
<1> DEFINE old  == b[side][p].orders
           gone == old[n].id
           c    == StoreLevel(b, side, p, level)
           ix   == WithoutEntry(index, gone)
           From(m) == IF m < n THEN m ELSE m + 1
<1>1. /\ DOMAIN b = Side
      /\ BookTyped(b)
      /\ IndexTyped(index)
  BY DEF Good, BookTyped
<1>2. /\ p \in Prices
      /\ old \in Seq(RestingOrder)
      /\ Len(old) > 0
      /\ Len(old) \in Nat
      /\ DOMAIN old = 1 .. Len(old)
      /\ n \in 1 .. Len(old)
  BY LevelFacts
<1>3. /\ level.orders \in Seq(RestingOrder)
      /\ DOMAIN level.orders = 1 .. Len(old) - 1
      /\ \A m \in 1 .. Len(old) - 1 : level.orders[m] = old[From(m)]
      /\ level.orders = << >> => Len(old) = 1
      /\ Len(old) = 1 => level.orders = << >>
  <2>1. level.orders = WithoutPosition(old, n)
    OBVIOUS
  <2>. QED  BY <2>1, <1>2, WithoutPositionFacts, SMTT(30)
<1>4. level \in PriceLevel
  BY <1>3 DEF PriceLevel
<1>5. /\ DOMAIN c = Side
      /\ \A s \in Side : s # side => c[s] = b[s]
      /\ level.orders = << >> => DOMAIN c[side] = DOMAIN b[side] \ {p}
      /\ level.orders # << >> => DOMAIN c[side] = DOMAIN b[side] /\ c[side][p] = level
      /\ \A q \in DOMAIN b[side] : q # p => c[side][q] = b[side][q]
  <2>1. DOMAIN b[side] \cup {p} = DOMAIN b[side]
    OBVIOUS
  <2>. HIDE DEF old
  <2>2. /\ DOMAIN c = Side
        /\ \A s \in Side : s # side => c[s] = b[s]
        /\ level.orders = << >> => DOMAIN c[side] = DOMAIN b[side] \ {p}
        /\ level.orders # << >> => DOMAIN c[side] = DOMAIN b[side] \cup {p} /\ c[side][p] = level
        /\ \A q \in DOMAIN b[side] : q # p => c[side][q] = b[side][q]
    BY <1>1, StoreLevelFacts
  <2>. QED  BY <2>1, <2>2
<1>6. /\ DOMAIN ix = DOMAIN index \ {gone}
      /\ \A k \in DOMAIN ix : ix[k] = index[k]
  BY DEF WithoutEntry
<1>7. /\ gone \in DOMAIN index
      /\ index[gone].side = side
      /\ index[gone].price = p
  <2>1. InPlace(b[side][p].orders[n], side, p, index)
    BY NodeFacts
  <2>. QED  BY <2>1 DEF InPlace
<1> HIDE DEF c, ix, gone
<1>8. BookTyped(c)
  BY <1>1, <1>2, <1>4, <1>5 DEF BookTyped
<1>9. IndexTyped(ix)
  BY <1>1, <1>6 DEF IndexTyped
<1>10. \A m \in 1 .. Len(old) - 1 : From(m) \in 1 .. Len(old) /\ From(m) # n
  BY <1>2
<1>11. \A k, m \in 1 .. Len(old) - 1 : From(k) = From(m) => k = m
  BY <1>2
<1> HIDE DEF From
<1>12. ASSUME NEW s \in Side, NEW q \in DOMAIN c[s], NEW m \in DOMAIN c[s][q].orders
       PROVE  \/ /\ s = side
                 /\ q = p
                 /\ m \in 1 .. Len(old) - 1
                 /\ c[s][q].orders[m] = old[From(m)]
                 /\ old[From(m)].id # gone
              \/ /\ q \in DOMAIN b[s]
                 /\ c[s][q] = b[s][q]
                 /\ b[s][q].orders[m].id # gone
  <2>1. CASE s = side /\ q = p
    <3>1. level.orders # << >> /\ c[s][q] = level
      BY <2>1, <1>5
    <3>2. m \in 1 .. Len(old) - 1 /\ c[s][q].orders[m] = old[From(m)]
      BY <3>1, <1>3
    <3>3. From(m) \in DOMAIN old /\ From(m) # n
      BY <3>2, <1>10, <1>2
    <3>4. old[From(m)].id # old[n].id
      BY <3>3, <1>2 DEF Good, UniqueIn
    <3>. QED  BY <2>1, <3>2, <3>4 DEF gone
  <2>2. CASE ~(s = side /\ q = p)
    <3>1. q \in DOMAIN b[s] /\ c[s][q] = b[s][q]
      BY <2>2, <1>5
    <3>2. /\ index[b[s][q].orders[m].id].side = s
          /\ index[b[s][q].orders[m].id].price = q
      <4>1. m \in DOMAIN b[s][q].orders
        BY <3>1
      <4>2. InPlace(b[s][q].orders[m], s, q, index)
        BY <3>1, <4>1, NodeFacts
      <4>. QED  BY <4>2 DEF InPlace
    <3>. QED  BY <3>1, <3>2, <2>2, <1>7
  <2>. QED  BY <2>1, <2>2
<1>13. IndexedIn(c, ix)
  <2> SUFFICES ASSUME NEW s \in Side, NEW q \in DOMAIN c[s]
               PROVE  /\ c[s][q].orders # << >>
                      /\ \A m \in DOMAIN c[s][q].orders :
                           /\ c[s][q].orders[m].side = s
                           /\ c[s][q].orders[m].price = q
                           /\ c[s][q].orders[m].quantity > 0
                           /\ c[s][q].orders[m].symbol_id = DefaultSymbol
                           /\ c[s][q].orders[m].id \in DOMAIN ix
                           /\ ix[c[s][q].orders[m].id].side = s
                           /\ ix[c[s][q].orders[m].id].price = q
    BY DEF IndexedIn
  <2>1. c[s][q].orders # << >>
    <3>1. CASE s = side /\ q = p
      BY <3>1, <1>5
    <3>2. CASE ~(s = side /\ q = p)
      <4>1. q \in DOMAIN b[s] /\ c[s][q] = b[s][q]
        BY <3>2, <1>5
      <4>. QED  BY <4>1 DEF Good, IndexedIn
    <3>. QED  BY <3>1, <3>2
  <2>2. ASSUME NEW m \in DOMAIN c[s][q].orders
        PROVE  /\ c[s][q].orders[m].side = s
               /\ c[s][q].orders[m].price = q
               /\ c[s][q].orders[m].quantity > 0
               /\ c[s][q].orders[m].symbol_id = DefaultSymbol
               /\ c[s][q].orders[m].id \in DOMAIN ix
               /\ ix[c[s][q].orders[m].id].side = s
               /\ ix[c[s][q].orders[m].id].price = q
    <3>1. \E k \in DOMAIN b[s][q].orders :
            /\ q \in DOMAIN b[s]
            /\ c[s][q].orders[m] = b[s][q].orders[k]
            /\ b[s][q].orders[k].id # gone
      <4>1. CASE s = side /\ q = p /\ m \in 1 .. Len(old) - 1
        <5>1. From(m) \in DOMAIN old
          BY <4>1, <1>2, <1>10
        <5>2. DOMAIN old = DOMAIN b[s][q].orders
          BY <4>1
        <5>. QED  BY <4>1, <5>1, <5>2, <1>12
      <4>2. CASE q \in DOMAIN b[s] /\ c[s][q] = b[s][q] /\ b[s][q].orders[m].id # gone
        BY <4>2
      <4>. QED  BY <4>1, <4>2, <1>12
    <3>2. PICK k \in DOMAIN b[s][q].orders :
            /\ q \in DOMAIN b[s]
            /\ c[s][q].orders[m] = b[s][q].orders[k]
            /\ b[s][q].orders[k].id # gone
      BY <3>1
    <3> DEFINE node == b[s][q].orders[k]
    <3>3. InPlace(node, s, q, index)
      BY <3>2, NodeFacts
    <3>4. c[s][q].orders[m] = node /\ node.id # gone
      BY <3>2
    <3> HIDE DEF node, gone, c
    <3>5. node.id \in DOMAIN ix /\ ix[node.id] = index[node.id]
      BY <3>3, <3>4, <1>6 DEF InPlace
    <3>. QED  BY <3>3, <3>4, <3>5 DEF InPlace
  <2>. QED  BY <2>1, <2>2
<1>14. UniqueIn(c)
  <2> SUFFICES ASSUME NEW s \in Side, NEW q \in DOMAIN c[s],
                      NEW k \in DOMAIN c[s][q].orders, NEW m \in DOMAIN c[s][q].orders,
                      c[s][q].orders[k].id = c[s][q].orders[m].id
               PROVE  k = m
    BY DEF UniqueIn
  <2>1. CASE s = side /\ q = p
    <3>1. level.orders # << >> /\ c[s][q] = level
      BY <2>1, <1>5
    <3>2. /\ k \in 1 .. Len(old) - 1 /\ c[s][q].orders[k] = old[From(k)]
          /\ m \in 1 .. Len(old) - 1 /\ c[s][q].orders[m] = old[From(m)]
      BY <3>1, <1>3
    <3>3. From(k) \in DOMAIN old /\ From(m) \in DOMAIN old
      BY <3>2, <1>2, <1>10
    <3>4. From(k) = From(m)
      BY <3>2, <3>3 DEF Good, UniqueIn
    <3>. QED  BY <3>2, <3>4, <1>11
  <2>2. CASE ~(s = side /\ q = p)
    <3>1. q \in DOMAIN b[s] /\ c[s][q] = b[s][q]
      BY <2>2, <1>5
    <3>. QED  BY <3>1 DEF Good, UniqueIn
  <2>. QED  BY <2>1, <2>2
<1>15. ReachedIn(c, ix)
  <2> SUFFICES ASSUME NEW id \in DOMAIN ix
               PROVE  /\ ix[id].price \in DOMAIN c[ix[id].side]
                      /\ \E m \in DOMAIN c[ix[id].side][ix[id].price].orders :
                           c[ix[id].side][ix[id].price].orders[m].id = id
    BY DEF ReachedIn
  <2>1. id \in DOMAIN index /\ id # gone /\ ix[id] = index[id] /\ index[id].side \in Side
    BY <1>1, <1>6 DEF IndexTyped, Location
  <2>2. index[id].price \in DOMAIN b[index[id].side]
    BY <2>1 DEF Good, ReachedIn
  <2>3. PICK k \in DOMAIN b[index[id].side][index[id].price].orders :
          b[index[id].side][index[id].price].orders[k].id = id
    BY <2>1 DEF Good, ReachedIn
  <2>4. CASE index[id].side = side /\ index[id].price = p
    <3>1. k \in 1 .. Len(old) /\ old[k].id = id /\ k # n
      BY <2>1, <2>3, <2>4, <1>2 DEF gone
    <3>2. Len(old) # 1
      <4>. HIDE DEF old
      <4>. QED  BY <3>1, <1>2
    <3>3. PICK m \in 1 .. Len(old) - 1 : From(m) = k
      <4>1. CASE k < n
        <5>1. k \in 1 .. Len(old) - 1 /\ From(k) = k
          BY <3>1, <4>1, <1>2 DEF From
        <5>. QED  BY <5>1
      <4>2. CASE k > n
        <5>1. k - 1 \in 1 .. Len(old) - 1 /\ From(k - 1) = k
          BY <3>1, <4>2, <1>2 DEF From
        <5>. QED  BY <5>1
      <4>. QED  BY <3>1, <4>1, <4>2, <1>2
    <3>4. DOMAIN c[side] = DOMAIN b[side] /\ c[side][p] = level
      BY <3>2, <1>3, <1>5
    <3>5. m \in DOMAIN level.orders /\ level.orders[m].id = id
      BY <3>1, <3>3, <1>3
    <3>. QED  BY <3>4, <3>5, <2>1, <2>4
  <2>5. CASE ~(index[id].side = side /\ index[id].price = p)
    <3>1. /\ index[id].price \in DOMAIN c[index[id].side]
          /\ c[index[id].side][index[id].price] = b[index[id].side][index[id].price]
      BY <2>1, <2>2, <2>5, <1>5
    <3>. QED  BY <2>1, <2>3, <3>1
  <2>. QED  BY <2>4, <2>5
<1>16. Good(c, ix)
  BY <1>8, <1>9, <1>13, <1>14, <1>15 DEF Good
<1>. QED  BY <1>16 DEF c, ix, gone

LEMMA ResizedFacts ==
  ASSUME NEW q \in Seq(RestingOrder), NEW n \in 1 .. Len(q),
         NEW quantity \in 1 .. QuantityLimit - 1,
         NEW r, r = Resized(q, n, quantity)
  PROVE  /\ r \in Seq(RestingOrder)
         /\ DOMAIN r = DOMAIN q
         /\ r # << >>
         /\ \A m \in DOMAIN q :
              /\ r[m].id = q[m].id
              /\ r[m].side = q[m].side
              /\ r[m].price = q[m].price
              /\ r[m].symbol_id = q[m].symbol_id
              /\ r[m].quantity = IF m = n THEN quantity ELSE q[m].quantity
<1> DEFINE changed == [q[n] EXCEPT !.quantity = quantity]
<1>1. q[n] \in RestingOrder
  OBVIOUS
<1>2. quantity \in 0 .. QuantityLimit - 1
  BY ConstantsAssumption
<1>3. /\ changed \in RestingOrder
      /\ changed.quantity = quantity
      /\ changed.id = q[n].id
      /\ changed.side = q[n].side
      /\ changed.price = q[n].price
      /\ changed.symbol_id = q[n].symbol_id
  BY <1>1, <1>2 DEF RestingOrder
<1>4. r = [q EXCEPT ![n] = changed]
  BY DEF Resized
<1> HIDE DEF changed
<1>5. /\ r \in Seq(RestingOrder)
      /\ DOMAIN r = DOMAIN q
      /\ r # << >>
      /\ r[n] = changed
      /\ \A m \in DOMAIN q : m # n => r[m] = q[m]
  BY <1>3, <1>4, ReplacedFacts
<1>. QED  BY <1>3, <1>5

\* and one whose quantity changes in place leave the book good.
LEMMA ResizeKeepsGood ==
  ASSUME NEW b, NEW index, Good(b, index), NEW side \in Side, NEW p \in DOMAIN b[side],
         NEW old, old = b[side][p].orders,
         NEW n \in DOMAIN old, NEW total \in 0 .. TotalLimit - 1,
         NEW quantity \in 1 .. QuantityLimit - 1,
         NEW orders, orders = Resized(old, n, quantity),
         NEW level, level = [total_quantity |-> total, orders |-> orders]
  PROVE  Good(StoreLevel(b, side, p, level), index)
<1> DEFINE c == StoreLevel(b, side, p, level)
<1>1. /\ DOMAIN b = Side
      /\ BookTyped(b)
      /\ IndexTyped(index)
  BY DEF Good, BookTyped
<1>2. /\ p \in Prices
      /\ old \in Seq(RestingOrder)
      /\ n \in 1 .. Len(old)
  BY LevelFacts
<1>3. \A m \in DOMAIN old : old[m].quantity > 0
  BY DEF Good, IndexedIn
<1>4. /\ orders \in Seq(RestingOrder)
      /\ DOMAIN orders = DOMAIN old
      /\ orders # << >>
      /\ \A m \in DOMAIN old :
           /\ orders[m].id = old[m].id
           /\ orders[m].side = old[m].side
           /\ orders[m].price = old[m].price
           /\ orders[m].quantity > 0
           /\ orders[m].symbol_id = old[m].symbol_id
  <2>1. /\ orders \in Seq(RestingOrder)
        /\ DOMAIN orders = DOMAIN old
        /\ orders # << >>
        /\ \A m \in DOMAIN old :
             /\ orders[m].id = old[m].id
             /\ orders[m].side = old[m].side
             /\ orders[m].price = old[m].price
             /\ orders[m].symbol_id = old[m].symbol_id
             /\ orders[m].quantity = IF m = n THEN quantity ELSE old[m].quantity
    BY <1>2, ResizedFacts
  <2>2. quantity > 0
    BY ConstantsAssumption
  <2>3. \A m \in DOMAIN old : orders[m].quantity > 0
    BY <2>1, <2>2, <1>3
  <2>. QED  BY <2>1, <2>3
<1>5. level \in PriceLevel /\ level.orders = orders
  BY <1>4 DEF PriceLevel
<1>6. /\ DOMAIN c = Side
      /\ \A s \in Side : s # side => c[s] = b[s]
      /\ DOMAIN c[side] = DOMAIN b[side]
      /\ c[side][p] = level
      /\ \A q \in DOMAIN b[side] : q # p => c[side][q] = b[side][q]
  <2>1. DOMAIN b[side] \cup {p} = DOMAIN b[side]
    OBVIOUS
  <2>2. /\ DOMAIN c = Side
        /\ \A s \in Side : s # side => c[s] = b[s]
        /\ level.orders # << >> => DOMAIN c[side] = DOMAIN b[side] \cup {p} /\ c[side][p] = level
        /\ \A q \in DOMAIN b[side] : q # p => c[side][q] = b[side][q]
    BY <1>1, StoreLevelFacts
  <2>. QED  BY <2>1, <2>2, <1>4, <1>5
<1> HIDE DEF c
<1>7. BookTyped(c)
  BY <1>1, <1>2, <1>5, <1>6 DEF BookTyped
<1>8. \A s \in Side : DOMAIN c[s] = DOMAIN b[s]
  BY <1>6
<1>9. ASSUME NEW s \in Side, NEW q \in DOMAIN b[s]
      PROVE  /\ c[s][q].orders # << >>
             /\ DOMAIN c[s][q].orders = DOMAIN b[s][q].orders
             /\ \A m \in DOMAIN b[s][q].orders :
                  /\ c[s][q].orders[m].id = b[s][q].orders[m].id
                  /\ c[s][q].orders[m].side = b[s][q].orders[m].side
                  /\ c[s][q].orders[m].price = b[s][q].orders[m].price
                  /\ c[s][q].orders[m].quantity > 0
                  /\ c[s][q].orders[m].symbol_id = b[s][q].orders[m].symbol_id
  <2>1. CASE s = side /\ q = p
    <3>1. c[s][q] = level
      BY <2>1, <1>6
    <3>2. c[s][q].orders = orders /\ b[s][q].orders = old
      BY <2>1, <3>1, <1>5
    <3>. QED  BY <3>2, <1>4
  <2>2. CASE ~(s = side /\ q = p)
    <3>1. c[s][q] = b[s][q]
      BY <2>2, <1>6, SMTT(30)
    <3>2. b[s][q].orders # << >>
      BY DEF Good, IndexedIn
    <3>3. ASSUME NEW m \in DOMAIN b[s][q].orders PROVE b[s][q].orders[m].quantity > 0
      BY <3>3, NodeFacts DEF InPlace
    <3>. QED  BY <3>1, <3>2, <3>3, Zenon
  <2>. QED  BY <2>1, <2>2
<1>10. IndexedIn(c, index)
  <2> SUFFICES ASSUME NEW s \in Side, NEW q \in DOMAIN c[s]
               PROVE  /\ c[s][q].orders # << >>
                      /\ \A m \in DOMAIN c[s][q].orders :
                           /\ c[s][q].orders[m].side = s
                           /\ c[s][q].orders[m].price = q
                           /\ c[s][q].orders[m].quantity > 0
                           /\ c[s][q].orders[m].symbol_id = DefaultSymbol
                           /\ c[s][q].orders[m].id \in DOMAIN index
                           /\ index[c[s][q].orders[m].id].side = s
                           /\ index[c[s][q].orders[m].id].price = q
    BY DEF IndexedIn
  <2>1. q \in DOMAIN b[s]
    BY <1>8
  <2>2. ASSUME NEW m \in DOMAIN b[s][q].orders
        PROVE  InPlace(b[s][q].orders[m], s, q, index)
    BY <2>1, NodeFacts
  <2> HIDE DEF c
  <2>3. c[s][q].orders # << >>
    BY <2>1, <1>9
  <2>4. ASSUME NEW m \in DOMAIN c[s][q].orders
        PROVE  InPlace(c[s][q].orders[m], s, q, index)
    <3>1. /\ m \in DOMAIN b[s][q].orders
          /\ c[s][q].orders[m].id = b[s][q].orders[m].id
          /\ c[s][q].orders[m].side = b[s][q].orders[m].side
          /\ c[s][q].orders[m].price = b[s][q].orders[m].price
          /\ c[s][q].orders[m].quantity > 0
          /\ c[s][q].orders[m].symbol_id = b[s][q].orders[m].symbol_id
      BY <2>1, <1>9
    <3>2. InPlace(b[s][q].orders[m], s, q, index)
      BY <3>1, <2>2
    <3>. QED  BY <3>1, <3>2 DEF InPlace
  <2>. QED  BY <2>3, <2>4 DEF InPlace
<1>11. UniqueIn(c)
  <2> SUFFICES ASSUME NEW s \in Side, NEW q \in DOMAIN c[s],
                      NEW m \in DOMAIN c[s][q].orders, NEW k \in DOMAIN c[s][q].orders,
                      c[s][q].orders[m].id = c[s][q].orders[k].id
               PROVE  m = k
    BY DEF UniqueIn
  <2>1. q \in DOMAIN b[s]
    BY <1>8
  <2>2. m \in DOMAIN b[s][q].orders /\ k \in DOMAIN b[s][q].orders
    BY <1>9, <2>1
  <2>3. b[s][q].orders[m].id = b[s][q].orders[k].id
    BY <1>9, <2>1, <2>2
  <2>. QED  BY <2>1, <2>2, <2>3, Zenon DEF Good, UniqueIn
<1>12. ReachedIn(c, index)
  <2> SUFFICES ASSUME NEW id \in DOMAIN index
               PROVE  /\ index[id].price \in DOMAIN c[index[id].side]
                      /\ \E m \in DOMAIN c[index[id].side][index[id].price].orders :
                           c[index[id].side][index[id].price].orders[m].id = id
    BY DEF ReachedIn
  <2>1. index[id].side \in Side
    BY <1>1 DEF IndexTyped, Location
  <2>2. index[id].price \in DOMAIN b[index[id].side]
    BY DEF Good, ReachedIn
  <2>3. PICK m \in DOMAIN b[index[id].side][index[id].price].orders :
          b[index[id].side][index[id].price].orders[m].id = id
    BY DEF Good, ReachedIn
  <2>. QED  BY <2>1, <2>2, <2>3, <1>8, <1>9
<1>. QED  BY <1>1, <1>7, <1>10, <1>11, <1>12 DEF Good, c

----------------------------------------------------------------------------
(* The inductive invariant: the types, the links between the index and the *)
(* levels, and what is known of an order while it is being matched.        *)

\* The order in the frame has passed the checks and does not rest.
FrameInv ==
  frame # << >> =>
    /\ frame[1].order.id \notin DOMAIN orderIndex
    /\ frame[1].order.price > 0
    /\ frame[1].order.symbol_id = DefaultSymbol
    /\ frame[1].order.quantity <= frame[1].original

OtherTypes ==
  /\ tradeHistory \in Seq(Trade)
  /\ frame \in Seq(Frame)
  /\ Len(frame) <= 1
  /\ result \in Result

\* The inductive invariant.
IInv == Good(book, orderIndex) /\ OtherTypes /\ FrameInv

LEMMA IInvImplies == IInv => TypeOK /\ IndexConsistent
  BY GoodBook DEF IInv, Good, BookTyped, IndexTyped, OtherTypes, TypeOK

LEMMA EmptyTrades == << >> \in Seq(Trade)
  OBVIOUS

LEMMA AnswerTyped ==
  ASSUME NEW accepted \in BOOLEAN, Returns(accepted)
  PROVE  result' \in Result
<1>1. 0 \in 0 .. QuantityLimit - 1
  BY ConstantsAssumption
<1>. QED  BY <1>1, EmptyTrades, Zenon DEF Returns, Result

\* The invariant holds at first.
LEMMA InitHolds == Init => IInv
<1> SUFFICES ASSUME Init PROVE IInv
  OBVIOUS
<1>1. /\ DOMAIN book = Side
      /\ \A side \in Side : DOMAIN book[side] = {}
      /\ DOMAIN orderIndex = {}
  BY DEF Init
<1>2. Good(book, orderIndex)
  BY <1>1 DEF Good, BookTyped, IndexTyped, IndexedIn, UniqueIn, ReachedIn
<1>3. OtherTypes
  <2>1. 0 \in 0 .. QuantityLimit - 1
    BY ConstantsAssumption
  <2>2. result \in Result
    BY <2>1, EmptyTrades, Zenon DEF Init, Result
  <2>3. tradeHistory \in Seq(Trade) /\ frame \in Seq(Frame) /\ Len(frame) <= 1
    BY DEF Init
  <2>. QED  BY <2>2, <2>3 DEF OtherTypes
<1>4. FrameInv
  BY DEF Init, FrameInv
<1>. QED  BY <1>2, <1>3, <1>4 DEF IInv

----------------------------------------------------------------------------
(* The best price of a side that has one.                                  *)

\* A set of natural numbers that is not empty has a least element,
LEMMA LeastNatural ==
  ASSUME NEW T, T \subseteq Nat, T # {}
  PROVE  \E x \in T : \A y \in T : x <= y
<1>1. PICK x \in T : \A y \in T : <<y, x>> \notin OpToRel(<, Nat)
  BY NatLessThanWellFounded, WFMin, Zenon
<1>2. \A y \in T : ~(y < x)
  BY <1>1, Zenon DEF OpToRel
<1>. QED  BY <1>2

\* and so there is a best price where there is any.
LEMMA BestPriceFacts ==
  ASSUME NEW b, NEW side \in Side, DOMAIN b[side] \subseteq Prices, DOMAIN b[side] # {}
  PROVE  /\ BestPrice(b, side) \in DOMAIN b[side]
         /\ \A q \in DOMAIN b[side] : ~Better(side, q, BestPrice(b, side))
<1>1. PriceLimit \in Nat /\ \A p \in DOMAIN b[side] : p \in -PriceLimit .. PriceLimit - 1
  BY ConstantsAssumption
<1>2. PICK p0 : p0 \in DOMAIN b[side]
  OBVIOUS
<1>3. \E p \in DOMAIN b[side] : \A q \in DOMAIN b[side] : ~Better(side, q, p)
  <2>1. CASE side = "Buy"
    <3> DEFINE T == {PriceLimit - p : p \in DOMAIN b[side]}
    <3>1. \A p \in DOMAIN b[side] : PriceLimit - p \in Nat
      BY <1>1
    <3>2. T \subseteq Nat
      BY <3>1, Zenon
    <3>3. T # {}
      BY <1>2, Zenon
    <3>4. \A p \in DOMAIN b[side] : PriceLimit - p \in T
      OBVIOUS
    <3>5. \A x \in T : \E p \in DOMAIN b[side] : x = PriceLimit - p
      OBVIOUS
    <3> HIDE DEF T
    <3>6. PICK x \in T : \A y \in T : x <= y
      BY <3>2, <3>3, LeastNatural
    <3>7. PICK p \in DOMAIN b[side] : x = PriceLimit - p
      BY <3>5
    <3>8. \A q \in DOMAIN b[side] : PriceLimit - p <= PriceLimit - q
      BY <3>4, <3>6, <3>7
    <3>9. \A q \in DOMAIN b[side] : ~(q > p)
      BY <3>8, <1>1
    <3>. QED  BY <2>1, <3>9 DEF Better
  <2>2. CASE side = "Sell"
    <3> DEFINE T == {p + PriceLimit : p \in DOMAIN b[side]}
    <3>1. \A p \in DOMAIN b[side] : p + PriceLimit \in Nat
      BY <1>1
    <3>2. T \subseteq Nat
      BY <3>1, Zenon
    <3>3. T # {}
      BY <1>2, Zenon
    <3>4. \A p \in DOMAIN b[side] : p + PriceLimit \in T
      OBVIOUS
    <3>5. \A x \in T : \E p \in DOMAIN b[side] : x = p + PriceLimit
      OBVIOUS
    <3> HIDE DEF T
    <3>6. PICK x \in T : \A y \in T : x <= y
      BY <3>2, <3>3, LeastNatural
    <3>7. PICK p \in DOMAIN b[side] : x = p + PriceLimit
      BY <3>5
    <3>8. \A q \in DOMAIN b[side] : p + PriceLimit <= q + PriceLimit
      BY <3>4, <3>6, <3>7
    <3>9. \A q \in DOMAIN b[side] : ~(q < p)
      BY <3>8, <1>1
    <3>. QED  BY <2>2, <3>9 DEF Better
  <2>. QED  BY <2>1, <2>2 DEF Side
<1>. QED  BY <1>3, Zenon DEF BestPrice

----------------------------------------------------------------------------
(* What the operations do to a good book.                                  *)

\* Position n of orders is the node the index entry location of id stands for.
LiveAt(orders, n, location, id) ==
  /\ n \in DOMAIN orders
  /\ orders[n].id = id
  /\ orders[n] \in RestingOrder
  /\ orders[n].side = location.side
  /\ orders[n].price = location.price
  /\ orders[n].quantity > 0
  /\ orders[n].symbol_id = DefaultSymbol

\* A search of the list finds the node with the id.
LEMMA Found ==
  ASSUME NEW b, NEW index, Good(b, index), NEW id \in DOMAIN index
  PROVE  /\ index[id].side \in Side
         /\ index[id].price \in DOMAIN b[index[id].side]
         /\ LiveAt(b[index[id].side][index[id].price].orders,
                   PositionOf(b[index[id].side][index[id].price].orders, id), index[id], id)
<1> DEFINE orders == b[index[id].side][index[id].price].orders
<1>1. index[id].side \in Side /\ index[id].price \in DOMAIN b[index[id].side]
  BY DEF Good, IndexTyped, Location, ReachedIn
<1>2. \E n \in DOMAIN orders : orders[n].id = id
  BY SMTT(30) DEF Good, ReachedIn
<1>3. PositionOf(orders, id) \in DOMAIN orders /\ orders[PositionOf(orders, id)].id = id
  <2> HIDE DEF orders
  <2>. QED  BY <1>2, Zenon DEF PositionOf
<1>4. /\ orders[PositionOf(orders, id)] \in RestingOrder
      /\ orders[PositionOf(orders, id)].side = index[id].side
      /\ orders[PositionOf(orders, id)].price = index[id].price
      /\ orders[PositionOf(orders, id)].quantity > 0
      /\ orders[PositionOf(orders, id)].symbol_id = DefaultSymbol
  <2>1. orders[PositionOf(orders, id)] \in RestingOrder
    BY <1>1, <1>3, LevelFacts
  <2>2. InPlace(orders[PositionOf(orders, id)], index[id].side, index[id].price, index)
    BY <1>1, <1>3, NodeFacts
  <2> HIDE DEF orders
  <2>. QED  BY <2>1, <2>2 DEF InPlace
<1> HIDE DEF orders
<1>5. LiveAt(orders, PositionOf(orders, id), index[id], id)
  BY <1>3, <1>4 DEF LiveAt
<1>. QED  BY <1>1, <1>5 DEF orders

\* The order that the index finds under an id.
IsLive(o, id) == o \in RestingOrder /\ o.id = id /\ o.symbol_id = DefaultSymbol

LEMMA FoundOrder ==
  ASSUME NEW b, NEW index, Good(b, index), NEW id \in DOMAIN index,
         NEW location, location = index[id],
         NEW orders, orders = b[location.side][location.price].orders,
         NEW existing, existing = orders[PositionOf(orders, id)]
  PROVE  IsLive(existing, id)
<1>1. LiveAt(orders, PositionOf(orders, id), location, id)
  BY Found
<1>. QED  BY <1>1 DEF LiveAt, IsLive

\* Taking an order out of book and index leaves both good.
LEMMA DequeueKeepsGood ==
  ASSUME NEW b, NEW index, Good(b, index), NEW id \in DOMAIN index
  PROVE  Good(Dequeued(b, index[id], id), WithoutEntry(index, id))
<1> DEFINE side  == index[id].side
           p     == index[id].price
           n     == PositionOf(b[side][p].orders, id)
           total == WrapSub(b[side][p].total_quantity, b[side][p].orders[n].quantity)
           level == [total_quantity |-> total, orders |-> WithoutPosition(b[side][p].orders, n)]
<1>1. /\ side \in Side
      /\ p \in DOMAIN b[side]
      /\ n \in DOMAIN b[side][p].orders
      /\ b[side][p].orders[n].id = id
      /\ b[side][p].orders[n] \in RestingOrder
  <2>1. side \in Side /\ p \in DOMAIN b[side]
    BY Found
  <2>2. LiveAt(b[side][p].orders, n, index[id], id)
    BY Found
  <2> HIDE DEF side, p, n
  <2>. QED  BY <2>1, <2>2 DEF LiveAt
<1>2. total \in 0 .. TotalLimit - 1
  <2>1. b[side][p].total_quantity \in 0 .. TotalLimit - 1
    BY <1>1, LevelFacts, SMTT(30)
  <2>2. b[side][p].orders[n].quantity \in 0 .. QuantityLimit - 1
    BY <1>1 DEF RestingOrder
  <2>. QED  BY <2>1, <2>2, WrapFacts
<1>3. Dequeued(b, index[id], id) = StoreLevel(b, side, p, level)
  BY DEF Dequeued
<1> HIDE DEF side, p, n, total
<1>4. Good(StoreLevel(b, side, p, level), WithoutEntry(index, b[side][p].orders[n].id))
  BY <1>1, <1>2, RemoveKeepsGood
<1>. QED  BY <1>1, <1>3, <1>4, SMTT(30)

\* The oldest order of a level.
LEMMA FrontFacts ==
  ASSUME NEW b, NEW index, Good(b, index), NEW side \in Side, NEW p \in DOMAIN b[side]
  PROVE  /\ 1 \in DOMAIN b[side][p].orders
         /\ b[side][p].orders[1] \in RestingOrder
         /\ b[side][p].orders[1].quantity \in 1 .. QuantityLimit - 1
         /\ b[side][p].orders[1].price = p
<1>1. b[side][p].orders \in Seq(RestingOrder) /\ Len(b[side][p].orders) > 0
  BY LevelFacts
<1>2. 1 \in DOMAIN b[side][p].orders
  BY <1>1
<1>3. b[side][p].orders[1] \in RestingOrder
  BY <1>1, <1>2, LevelFacts
<1>4. b[side][p].orders[1].quantity > 0 /\ b[side][p].orders[1].price = p
  BY <1>2 DEF Good, IndexedIn
<1>5. b[side][p].orders[1].quantity \in 1 .. QuantityLimit - 1
  BY <1>3, <1>4, ConstantsAssumption DEF RestingOrder
<1>. QED  BY <1>1, <1>2, <1>3, <1>4, <1>5

\* A fill of the oldest order leaves book and index good.
LEMMA FillKeepsGood ==
  ASSUME NEW b, NEW index, Good(b, index), NEW side \in Side, NEW p \in DOMAIN b[side],
         NEW fill, fill \in 1 .. b[side][p].orders[1].quantity
  PROVE  Good(FrontFilled(b, side, p, fill),
              IF fill = b[side][p].orders[1].quantity
                THEN WithoutEntry(index, b[side][p].orders[1].id)
                ELSE index)
<1> DEFINE old   == b[side][p].orders
           total == WrapSub(b[side][p].total_quantity, fill)
           left  == old[1].quantity - fill
<1>1. /\ 1 \in DOMAIN old
      /\ old[1].quantity \in 1 .. QuantityLimit - 1
      /\ b[side][p].total_quantity \in 0 .. TotalLimit - 1
  BY FrontFacts, LevelFacts
<1>2. total \in 0 .. TotalLimit - 1
  <2>1. fill \in 0 .. QuantityLimit - 1
    BY <1>1, ConstantsAssumption
  <2>. QED  BY <2>1, <1>1, WrapFacts
<1>3. CASE left = 0
  <2> DEFINE level == [total_quantity |-> total, orders |-> WithoutPosition(old, 1)]
  <2>1. FrontFilled(b, side, p, fill) = StoreLevel(b, side, p, level)
    BY <1>1, <1>3 DEF FrontFilled
  <2>2. fill = old[1].quantity
    BY <1>1, <1>3
  <2>3. Good(StoreLevel(b, side, p, level), WithoutEntry(index, old[1].id))
    <3> HIDE DEF total
    <3>. QED  BY <1>1, <1>2, RemoveKeepsGood
  <2>. QED  BY <2>1, <2>2, <2>3
<1>4. CASE left # 0
  <2> DEFINE level == [total_quantity |-> total, orders |-> Resized(old, 1, left)]
  <2>1. FrontFilled(b, side, p, fill) = StoreLevel(b, side, p, level)
    BY <1>4 DEF FrontFilled
  <2>2. left \in 1 .. QuantityLimit - 1 /\ fill # old[1].quantity
    BY <1>1, <1>4, ConstantsAssumption
  <2>3. Good(StoreLevel(b, side, p, level), index)
    <3> HIDE DEF total, left
    <3>. QED  BY <1>1, <1>2, <2>2, ResizeKeepsGood
  <2>. QED  BY <2>1, <2>2, <2>3
<1>. QED  BY <1>3, <1>4

----------------------------------------------------------------------------
(* Each operation keeps the inductive invariant.                           *)

\* What an operation other than executeOrder has to keep.
LEMMA Settled ==
  ASSUME IInv, Idle, UNCHANGED <<tradeHistory, frame>>,
         Good(book', orderIndex'), result' \in Result
  PROVE  IInv'
  BY DEF IInv, OtherTypes, FrameInv, Idle

\* The operations keep the invariant, one by one: first a call that is rejected.
LEMMA RejectionKeeps ==
  ASSUME IInv, Idle, Rejects
  PROVE  IInv'
<1>1. result' \in Result
  BY AnswerTyped DEF Rejects
<1>2. UNCHANGED <<book, orderIndex, tradeHistory, frame>>
  BY DEF Rejects
<1>3. Good(book', orderIndex')
  BY <1>2 DEF IInv
<1>. QED  BY <1>1, <1>2, <1>3, Settled

LEMMA OrderFacts ==
  ASSUME NEW o \in Order
  PROVE  /\ o \in RestingOrder
         /\ o.quantity \in Quantities
         /\ o.quantity \in 0 .. QuantityLimit - 1
<1>1. o.quantity \in Quantities /\ o.quantity \in 0 .. QuantityLimit - 1
  BY ConstantsAssumption DEF Order
<1>2. Order \subseteq RestingOrder
  BY ConstantsAssumption DEF Order, RestingOrder
<1>. QED  BY <1>1, <1>2

\* So does an order that rests.
LEMMA RestsKeepsGood ==
  ASSUME Good(book, orderIndex), NEW o \in RestingOrder, ~Refused(orderIndex, o), Rests(o)
  PROVE  Good(book', orderIndex')
<1>1. o.quantity > 0 /\ o.symbol_id = DefaultSymbol /\ o.id \notin DOMAIN orderIndex
  BY ConstantsAssumption DEF Refused, RestingOrder
<1>2. /\ book' = Enqueued(book, o)
      /\ orderIndex' = WithEntry(orderIndex, o.id, [side |-> o.side, price |-> o.price])
  BY DEF Rests
<1>3. Good(Enqueued(book, o), WithEntry(orderIndex, o.id, [side |-> o.side, price |-> o.price]))
  BY <1>1, AppendKeepsGood
<1>. QED  BY <1>2, <1>3

LEMMA AddOrderKeeps ==
  ASSUME IInv, NEW o \in Order, AddOrder(o)
  PROVE  IInv'
<1>1. Idle
  BY DEF AddOrder
<1>2. CASE Rejects
  BY <1>1, <1>2, RejectionKeeps
<1>3. CASE /\ ~Refused(orderIndex, o)
           /\ Rests(o)
           /\ Returns(TRUE)
           /\ UNCHANGED <<tradeHistory, frame>>
  <2>1. result' \in Result
    BY <1>3, AnswerTyped
  <2>2. Good(book', orderIndex')
    BY <1>3, OrderFacts, RestsKeepsGood DEF IInv
  <2>. QED  BY <1>1, <1>3, <2>1, <2>2, Settled
<1>. QED  BY <1>2, <1>3 DEF AddOrder

LEMMA CancelOrderKeeps ==
  ASSUME IInv, NEW id \in OrderIds, CancelOrder(id)
  PROVE  IInv'
<1>1. Idle
  BY DEF CancelOrder
<1>2. CASE Rejects
  BY <1>1, <1>2, RejectionKeeps
<1>3. CASE /\ id \in DOMAIN orderIndex
           /\ book' = Dequeued(book, orderIndex[id], id)
           /\ orderIndex' = WithoutEntry(orderIndex, id)
           /\ Returns(TRUE)
           /\ UNCHANGED <<tradeHistory, frame>>
  <2>1. result' \in Result
    BY <1>3, AnswerTyped
  <2>2. Good(Dequeued(book, orderIndex[id], id), WithoutEntry(orderIndex, id))
    BY <1>3, DequeueKeepsGood DEF IInv
  <2>. QED  BY <1>1, <1>3, <2>1, <2>2, Settled
<1>. QED  BY <1>2, <1>3 DEF CancelOrder

LEMMA ReductionKeeps ==
  ASSUME IInv, Idle, NEW id \in DOMAIN orderIndex, NEW quantity \in Quantities, quantity # 0,
         NEW location, location = orderIndex[id],
         NEW existing,
         existing = book[location.side][location.price].orders
                      [PositionOf(book[location.side][location.price].orders, id)],
         quantity < existing.quantity,
         ReducesInPlace(location, quantity, id)
  PROVE  IInv'
<1> DEFINE level     == book[location.side][location.price]
           old       == level.orders
           n         == PositionOf(old, id)
           reduction == old[n].quantity - quantity
           total     == level.total_quantity - reduction
           orders    == Resized(old, n, quantity)
           new       == [total_quantity |-> total, orders |-> orders]
<1>1. Good(book, orderIndex)
  BY DEF IInv
<1>2. /\ location.side \in Side
      /\ location.price \in DOMAIN book[location.side]
      /\ n \in DOMAIN old
      /\ old[n] \in RestingOrder
      /\ old[n] = existing
  BY <1>1, Found DEF LiveAt
<1>3. CASE Rejects
  BY <1>3, RejectionKeeps
<1>4. CASE /\ ~(level.total_quantity < reduction)
           /\ book' = StoreLevel(book, location.side, location.price, new)
           /\ Returns(TRUE)
           /\ UNCHANGED <<orderIndex, tradeHistory, frame>>
  <2>1. level.total_quantity \in 0 .. TotalLimit - 1
    BY <1>1, <1>2, LevelFacts, SMTT(30)
  <2>2. old[n].quantity \in 0 .. QuantityLimit - 1
    BY <1>2 DEF RestingOrder
  <2>3. quantity \in 1 .. QuantityLimit - 1
    BY ConstantsAssumption
  <2>4. total \in 0 .. TotalLimit - 1
    <3>1. quantity < old[n].quantity
      BY <1>2, SMTT(30)
    <3>2. reduction \in Nat /\ reduction <= QuantityLimit
      <4>1. \A x \in 0 .. QuantityLimit - 1, y \in 1 .. QuantityLimit - 1 :
              y < x => x - y \in Nat /\ x - y <= QuantityLimit
        BY ConstantsAssumption
      <4> HIDE DEF old, n
      <4>. QED  BY <4>1, <3>1, <2>2, <2>3
    <3>3. ~(level.total_quantity < reduction)
      BY <1>4, Zenon
    <3> HIDE DEF reduction
    <3>. QED  BY <3>2, <3>3, <2>1, ConstantsAssumption
  <2>5. Good(StoreLevel(book, location.side, location.price, new), orderIndex)
    <3> HIDE DEF total, n
    <3>. QED  BY <1>1, <1>2, <2>3, <2>4, ResizeKeepsGood
  <2>6. result' \in Result
    BY <1>4, AnswerTyped, Zenon
  <2>7. Good(book', orderIndex')
    BY <1>4, <2>5, Zenon
  <2>8. UNCHANGED <<tradeHistory, frame>>
    BY <1>4, Zenon
  <2>. QED  BY <2>6, <2>7, <2>8, Settled
<1>. QED  BY <1>3, <1>4 DEF ReducesInPlace

LEMMA ModifiedFacts ==
  ASSUME NEW existing \in RestingOrder, NEW price \in Prices,
         NEW quantity \in Quantities, quantity # 0,
         NEW modified, modified = Amended(existing, price, quantity)
  PROVE  /\ modified \in RestingOrder
         /\ modified.id = existing.id
         /\ modified.side = existing.side
         /\ modified.price = price
         /\ modified.quantity > 0
         /\ modified.symbol_id = existing.symbol_id
<1>1. quantity \in 0 .. QuantityLimit - 1 /\ quantity > 0
  BY ConstantsAssumption
<1>. QED  BY <1>1 DEF RestingOrder, Amended

LEMMA ReinsertionKeeps ==
  ASSUME IInv, Idle, NEW id \in DOMAIN orderIndex, NEW price \in Prices,
         NEW quantity \in Quantities, quantity # 0,
         NEW location, location = orderIndex[id],
         NEW existing \in RestingOrder, existing.id = id,
         existing.symbol_id = DefaultSymbol,
         Reinserts(location, existing, price, quantity)
  PROVE  IInv'
<1> DEFINE modified == Amended(existing, price, quantity)
           without  == Dequeued(book, location, id)
           index    == WithoutEntry(orderIndex, id)
<1>1. Good(without, index)
  BY DequeueKeepsGood DEF IInv
<1>2. /\ modified \in RestingOrder
      /\ modified.id = id
      /\ modified.price = price
      /\ modified.quantity > 0
      /\ modified.symbol_id = DefaultSymbol
  <2>1. /\ modified \in RestingOrder
        /\ modified.id = existing.id
        /\ modified.side = existing.side
        /\ modified.price = price
        /\ modified.quantity > 0
        /\ modified.symbol_id = existing.symbol_id
    <3>1. modified = Amended(existing, price, quantity)
      OBVIOUS
    <3> HIDE DEF modified
    <3>. QED  BY <3>1, ModifiedFacts
  <2>. QED  BY <2>1
<1>3. id \notin DOMAIN index
  BY WithoutEntryFacts, ZenonT(30)
<1>4. UNCHANGED <<tradeHistory, frame>>
  BY DEF Reinserts
<1>5. CASE book' = without /\ orderIndex' = index /\ Returns(FALSE)
  BY <1>1, <1>4, <1>5, AnswerTyped, Settled
<1>6. CASE /\ book' = Enqueued(without, modified)
           /\ orderIndex' = WithEntry(index, id, [side |-> modified.side, price |-> price])
           /\ Returns(TRUE)
  <2> HIDE DEF modified, without, index
  <2>1. Good(Enqueued(without, modified),
             WithEntry(index, modified.id, [side |-> modified.side, price |-> modified.price]))
    BY <1>1, <1>2, <1>3, AppendKeepsGood
  <2>2. Good(book', orderIndex')
    BY <1>2, <1>6, <2>1
  <2>3. result' \in Result
    BY <1>6, AnswerTyped
  <2>. QED  BY <1>4, <2>2, <2>3, Settled
<1>. QED  BY <1>5, <1>6 DEF Reinserts

LEMMA ModifyOrderKeeps ==
  ASSUME IInv, NEW id \in OrderIds, NEW price \in Prices, NEW quantity \in Quantities,
         ModifyOrder(id, price, quantity)
  PROVE  IInv'
<1> DEFINE location == orderIndex[id]
           orders   == book[location.side][location.price].orders
           existing == orders[PositionOf(orders, id)]
<1>1. Idle
  BY DEF ModifyOrder
<1>2. CASE Rejects
  BY <1>1, <1>2, RejectionKeeps
<1>3. CASE id \in DOMAIN orderIndex /\ ~BadAmendment(price, quantity) /\ ~Rejects
  <2>1. quantity # 0
    BY <1>3 DEF BadAmendment
  <2>2. CASE Returns(TRUE) /\ UNCHANGED <<book, orderIndex, tradeHistory, frame>>
    <3>1. result' \in Result
      BY <2>2, AnswerTyped
    <3>2. Good(book', orderIndex')
      BY <2>2 DEF IInv
    <3>. QED  BY <1>1, <2>2, <3>1, <3>2, Settled
  <2>3. CASE quantity < existing.quantity /\ ReducesInPlace(location, quantity, id)
    BY <1>1, <1>3, <2>1, <2>3, ReductionKeeps
  <2>4. CASE Reinserts(location, existing, price, quantity)
    <3>1. /\ location = orderIndex[id]
          /\ orders = book[location.side][location.price].orders
          /\ existing = orders[PositionOf(orders, id)]
          /\ Good(book, orderIndex)
      BY DEF IInv
    <3> HIDE DEF existing, orders, location
    <3>2. IsLive(existing, id)
      BY <1>3, <3>1, FoundOrder
    <3>3. existing \in RestingOrder /\ existing.id = id /\ existing.symbol_id = DefaultSymbol
      BY <3>2 DEF IsLive
    <3>. QED  BY <1>1, <1>3, <2>1, <2>4, <3>1, <3>3, ReinsertionKeeps, Zenon
  <2>. QED  BY <1>3, <2>2, <2>3, <2>4 DEF ModifyOrder
<1>. QED  BY <1>2, <1>3 DEF ModifyOrder

LEMMA StartExecuteKeeps ==
  ASSUME IInv, NEW o \in Order, StartExecute(o)
  PROVE  IInv'
<1>1. Idle /\ UNCHANGED <<book, orderIndex, tradeHistory>>
  BY DEF StartExecute
<1>2. Good(book', orderIndex') /\ tradeHistory' \in Seq(Trade)
  BY <1>1 DEF IInv, OtherTypes
<1>3. CASE /\ result' = [accepted |-> FALSE, executed |-> 0,
                         remaining |-> o.quantity, trades |-> << >>]
           /\ UNCHANGED frame
  <2>1. o.quantity \in 0 .. QuantityLimit - 1 /\ 0 \in 0 .. QuantityLimit - 1
    BY OrderFacts, ConstantsAssumption
  <2>2. result' \in Result
    BY <1>3, <2>1, EmptyTrades, Zenon DEF Result
  <2>. QED  BY <1>1, <1>2, <1>3, <2>2, Settled
<1>4. CASE /\ ~Refused(orderIndex, o)
           /\ frame' = <<[order |-> o, original |-> o.quantity, trades |-> << >>]>>
           /\ UNCHANGED result
  <2> DEFINE entry == [order |-> o, original |-> o.quantity, trades |-> << >>]
  <2>1. /\ o \in RestingOrder
        /\ o.quantity \in Quantities
        /\ o.quantity \in 0 .. QuantityLimit - 1
        /\ o.price \in Int
    BY OrderFacts, PricesAreIntegers DEF Order
  <2>2. entry \in Frame
    BY <2>1, EmptyTrades, Zenon DEF Frame
  <2>3. frame' = <<entry>> /\ entry.order = o /\ entry.original = o.quantity
    BY <1>4
  <2> HIDE DEF entry
  <2>4. frame' \in Seq(Frame) /\ Len(frame') <= 1 /\ frame'[1] = entry
    BY <2>2, <2>3
  <2>5. OtherTypes'
    BY <1>2, <1>4, <2>4 DEF OtherTypes, IInv
  <2>6. /\ o.id \notin DOMAIN orderIndex
        /\ o.price > 0
        /\ o.symbol_id = DefaultSymbol
        /\ o.quantity <= o.quantity
    BY <1>4, <2>1, ConstantsAssumption DEF Refused
  <2>7. FrameInv'
    BY <1>1, <2>3, <2>4, <2>6 DEF FrameInv
  <2>. QED  BY <1>2, <2>5, <2>7 DEF IInv
<1>. QED  BY <1>3, <1>4 DEF StartExecute

\* The one frame there is while executeOrder loops.
LEMMA FrameFacts ==
  ASSUME IInv, ~Idle
  PROVE  /\ Len(frame) = 1
         /\ frame[1] \in Frame
         /\ frame[1].order \in RestingOrder
         /\ frame[1].order.side \in Side
         /\ frame[1].order.price \in Int
         /\ frame[1].order.quantity \in 0 .. QuantityLimit - 1
         /\ frame[1].original \in 0 .. QuantityLimit - 1
         /\ frame[1].trades \in Seq(Trade)
         /\ frame[1].order.quantity <= frame[1].original
         /\ frame[1].order.id \notin DOMAIN orderIndex
         /\ frame[1].order.price > 0
         /\ frame[1].order.symbol_id = DefaultSymbol
<1>1. frame \in Seq(Frame) /\ Len(frame) <= 1 /\ frame # << >>
  BY DEF IInv, OtherTypes, Idle
<1>2. Len(frame) = 1 /\ frame[1] \in Frame
  BY <1>1, Single
<1>3. /\ frame[1].order \in RestingOrder
      /\ frame[1].order.price \in Int
      /\ frame[1].original \in Quantities
      /\ frame[1].trades \in Seq(Trade)
  BY <1>2, PricesAreIntegers DEF Frame, RestingOrder
<1>4. frame[1].original \in 0 .. QuantityLimit - 1
  BY <1>3, ConstantsAssumption
<1>5. frame[1].order.side \in Side /\ frame[1].order.quantity \in 0 .. QuantityLimit - 1
  BY <1>3 DEF RestingOrder
<1>. QED  BY <1>1, <1>2, <1>3, <1>4, <1>5 DEF IInv, FrameInv

\* The frame after an iteration that filled fill and made trade.
LEMMA NextFrame ==
  ASSUME NEW f \in Seq(Frame), Len(f) = 1, NEW trade \in Trade,
         NEW fill \in 0 .. f[1].order.quantity, NEW g,
         g = Advanced(f, fill, trade)
  PROVE  /\ g \in Seq(Frame)
         /\ Len(g) = 1
         /\ g[1].order.quantity = f[1].order.quantity - fill
         /\ g[1].order.id = f[1].order.id
         /\ g[1].order.price = f[1].order.price
         /\ g[1].order.symbol_id = f[1].order.symbol_id
         /\ g[1].original = f[1].original
<1> DEFINE left   == f[1].order.quantity - fill
           order  == [f[1].order EXCEPT !.quantity = left]
           trades == Append(f[1].trades, trade)
           entry  == [f[1] EXCEPT !.order = order, !.trades = trades]
<1>1. f[1] \in Frame
  OBVIOUS
<1>2. f[1].order \in RestingOrder /\ f[1].trades \in Seq(Trade)
  BY <1>1 DEF Frame
<1>3. f[1].order.quantity \in 0 .. QuantityLimit - 1
  BY <1>2 DEF RestingOrder
<1>4. left \in 0 .. QuantityLimit - 1
  BY <1>3, ConstantsAssumption
<1>5. g = [f EXCEPT ![1] = entry]
  BY DEF Advanced
<1> HIDE DEF left
<1>6. /\ order \in RestingOrder
      /\ order.quantity = left
      /\ order.id = f[1].order.id
      /\ order.price = f[1].order.price
      /\ order.symbol_id = f[1].order.symbol_id
  BY <1>2, <1>4 DEF RestingOrder
<1>7. trades \in Seq(Trade)
  BY <1>2
<1> HIDE DEF order, trades
<1>8. entry \in Frame /\ entry.order = order /\ entry.original = f[1].original
  BY <1>1, <1>6, <1>7 DEF Frame
<1> HIDE DEF entry
<1>9. g \in Seq(Frame) /\ Len(g) = 1 /\ g[1] = entry
  BY <1>5, <1>8, ReplacedFacts
<1>. QED  BY <1>6, <1>8, <1>9 DEF left

LEMMA MatchStepKeeps ==
  ASSUME IInv, MatchStep
  PROVE  IInv'
<1> DEFINE taker == frame[1].order
           side  == Opposite(taker.side)
           price == BestPrice(book, side)
           maker == book[side][price].orders[1]
           fill  == FillQuantity(taker, maker)
           trade == [maker_order_id       |-> maker.id,
                     taker_order_id       |-> taker.id,
                     price                |-> maker.price,
                     quantity             |-> fill,
                     aggressor_side       |-> taker.side,
                     maker_participant_id |-> maker.participant_id,
                     taker_participant_id |-> taker.participant_id,
                     symbol_id            |-> taker.symbol_id]
<1>1. ~Idle /\ taker.quantity > 0 /\ DOMAIN book[side] # {}
  BY Zenon DEF MatchStep, CanMatch
<1>2. /\ Good(book, orderIndex)
      /\ taker \in RestingOrder
      /\ taker.side \in Side
      /\ taker.quantity \in 1 .. QuantityLimit - 1
      /\ Len(frame) = 1
  BY <1>1, FrameFacts, ConstantsAssumption DEF IInv
<1>3. side \in Side
  BY DEF Opposite, Side
<1>4. price \in DOMAIN book[side]
  <2>1. DOMAIN book[side] \subseteq Prices
    BY <1>2, <1>3, SMTT(30) DEF Good, BookTyped
  <2>. QED  BY <1>1, <1>3, <2>1, BestPriceFacts
<1>5. maker \in RestingOrder /\ maker.quantity \in 1 .. QuantityLimit - 1
  BY <1>2, <1>3, <1>4, FrontFacts
<1>6. /\ book' = FrontFilled(book, side, price, fill)
      /\ orderIndex' = IF fill = maker.quantity
                         THEN WithoutEntry(orderIndex, maker.id)
                         ELSE orderIndex
      /\ tradeHistory' = Append(tradeHistory, trade)
      /\ frame' = Advanced(frame, fill, trade)
      /\ result' = result
  BY Zenon DEF MatchStep
<1> HIDE DEF side, price
<1>7. fill \in 1 .. maker.quantity /\ fill \in 1 .. taker.quantity
  BY <1>2, <1>5, ConstantsAssumption DEF FillQuantity
<1>8. fill \in 0 .. QuantityLimit - 1
  BY <1>2, <1>7, ConstantsAssumption
<1>9. trade \in Trade
  <2>1. /\ maker.id \in OrderIds /\ maker.price \in Prices /\ maker.participant_id \in Participants
        /\ taker.id \in OrderIds /\ taker.participant_id \in Participants
        /\ taker.symbol_id \in Symbols
    BY <1>2, <1>5, SMTT(30) DEF RestingOrder
  <2> HIDE DEF maker, taker, fill
  <2>. QED  BY <1>2, <1>8, <2>1, Zenon DEF Trade
<1>10. Good(book', orderIndex')
  <2> HIDE DEF fill
  <2>1. Good(FrontFilled(book, side, price, fill),
             IF fill = maker.quantity THEN WithoutEntry(orderIndex, maker.id) ELSE orderIndex)
    BY <1>2, <1>3, <1>4, <1>7, FillKeepsGood
  <2>. QED  BY <1>6, <2>1
<1>11. /\ frame' \in Seq(Frame)
       /\ Len(frame') = 1
       /\ frame'[1].order.quantity = taker.quantity - fill
       /\ frame'[1].order.id = taker.id
       /\ frame'[1].order.price = taker.price
       /\ frame'[1].order.symbol_id = taker.symbol_id
       /\ frame'[1].original = frame[1].original
  <2>1. frame \in Seq(Frame)
    BY DEF IInv, OtherTypes
  <2>2. fill \in 0 .. frame[1].order.quantity
    BY <1>2, <1>7, ConstantsAssumption
  <2> HIDE DEF fill, trade
  <2>. QED  BY <1>2, <1>6, <1>9, <2>1, <2>2, NextFrame
<1>12. OtherTypes'
  <2>1. tradeHistory' \in Seq(Trade)
    <3>1. tradeHistory \in Seq(Trade)
      BY DEF IInv, OtherTypes
    <3>2. tradeHistory' = Append(tradeHistory, trade)
      BY <1>6, Zenon
    <3>3. trade \in Trade
      BY <1>9
    <3> HIDE DEF trade
    <3>4. Append(tradeHistory, trade) \in Seq(Trade)
      BY <3>1, <3>3
    <3>. QED  BY <3>2, <3>4, Zenon
  <2>2. Len(frame') <= 1
    BY <1>11
  <2>. QED  BY <1>6, <1>11, <2>1, <2>2, Zenon DEF IInv, OtherTypes
<1>13. FrameInv'
  <2>1. DOMAIN orderIndex' \subseteq DOMAIN orderIndex
    <3>1. orderIndex' = WithoutEntry(orderIndex, maker.id) \/ orderIndex' = orderIndex
      BY <1>6, Zenon
    <3> HIDE DEF maker
    <3>. QED  BY <3>1, WithoutEntryFacts
  <2>2. taker.quantity - fill <= frame[1].original
    <3> HIDE DEF fill
    <3>. QED  BY <1>1, <1>2, <1>7, FrameFacts, ConstantsAssumption
  <2> HIDE DEF fill
  <2>. QED  BY <1>1, <1>11, <2>1, <2>2, FrameFacts DEF FrameInv
<1>. QED  BY <1>10, <1>12, <1>13 DEF IInv

\* An iteration does not return.
LEMMA MatchStepLoops ==
  ASSUME IInv, MatchStep
  PROVE  frame # << >> /\ frame' # << >>
<1>1. ~Idle
  BY Zenon DEF MatchStep
<1>2. Len(frame) = 1 /\ frame \in Seq(Frame)
  BY <1>1, FrameFacts DEF IInv, OtherTypes
<1>3. DOMAIN frame' = DOMAIN frame
  BY Zenon DEF MatchStep, Advanced
<1>. QED  BY <1>1, <1>2, <1>3 DEF Idle

LEMMA FinishExecuteKeeps ==
  ASSUME IInv, FinishExecute
  PROVE  IInv'
<1> DEFINE o        == frame[1].order
           refused  == o.quantity > 0 /\ Refused(orderIndex, o)
           executed == frame[1].original - o.quantity
<1>1. /\ ~Idle
      /\ IF o.quantity > 0 /\ ~refused THEN Rests(o) ELSE UNCHANGED <<book, orderIndex>>
      /\ result' = [accepted  |-> ~refused,
                    executed  |-> executed,
                    remaining |-> o.quantity,
                    trades    |-> frame[1].trades]
      /\ frame' = << >>
      /\ tradeHistory' = tradeHistory
  BY DEF FinishExecute
<1>2. /\ o \in RestingOrder
      /\ o.quantity \in 0 .. QuantityLimit - 1
      /\ executed \in 0 .. QuantityLimit - 1
      /\ frame[1].trades \in Seq(Trade)
  BY <1>1, FrameFacts, ConstantsAssumption
<1>3. Good(book', orderIndex')
  <2>1. CASE o.quantity > 0 /\ ~refused
    BY <1>1, <1>2, <2>1, RestsKeepsGood DEF IInv
  <2>2. CASE ~(o.quantity > 0 /\ ~refused)
    BY <1>1, <2>2 DEF IInv
  <2>. QED  BY <2>1, <2>2
<1>4. result' \in Result
  <2> HIDE DEF refused, executed, o
  <2>1. (~refused) \in BOOLEAN
    OBVIOUS
  <2>. QED  BY <1>1, <1>2, <2>1, Zenon DEF Result
<1>5. OtherTypes'
  BY <1>1, <1>4 DEF IInv, OtherTypes
<1>6. FrameInv'
  BY <1>1 DEF FrameInv
<1>. QED  BY <1>3, <1>5, <1>6 DEF IInv

LEMMA ResetOrderBookKeeps ==
  ASSUME IInv, ResetOrderBook
  PROVE  IInv'
<1>1. /\ DOMAIN book' = Side
      /\ \A side \in Side : DOMAIN book'[side] = {}
      /\ DOMAIN orderIndex' = {}
      /\ tradeHistory' = << >>
      /\ Returns(TRUE)
      /\ frame = << >> /\ frame' = << >>
  <2>1. DOMAIN book' = Side /\ \A side \in Side : DOMAIN book'[side] = {}
    BY DEF ResetOrderBook
  <2>2. DOMAIN orderIndex' = {}
    BY DEF ResetOrderBook
  <2>. QED  BY <2>1, <2>2 DEF ResetOrderBook, Idle
<1>2. Good(book', orderIndex')
  BY <1>1 DEF Good, BookTyped, IndexTyped, IndexedIn, UniqueIn, ReachedIn
<1>3. result' \in Result
  BY <1>1, AnswerTyped
<1>4. OtherTypes'
  BY <1>1, <1>3, EmptyTrades DEF OtherTypes, IInv
<1>. QED  BY <1>1, <1>2, <1>4 DEF IInv, FrameInv

\* Every step keeps the invariant.
LEMMA StepKeepsIInv == IInv /\ [Next]_vars => IInv'
<1> SUFFICES ASSUME IInv, [Next]_vars PROVE IInv'
  OBVIOUS
<1>1. ASSUME NEW o \in Order, AddOrder(o) PROVE IInv'
  BY <1>1, AddOrderKeeps
<1>2. ASSUME NEW id \in OrderIds, CancelOrder(id) PROVE IInv'
  BY <1>2, CancelOrderKeeps
<1>3. ASSUME NEW id \in OrderIds, NEW price \in Prices, NEW quantity \in Quantities,
             ModifyOrder(id, price, quantity)
      PROVE  IInv'
  BY <1>3, ModifyOrderKeeps
<1>4. ASSUME NEW o \in Order, StartExecute(o) PROVE IInv'
  BY <1>4, StartExecuteKeeps
<1>5. CASE MatchStep
  BY <1>5, MatchStepKeeps
<1>6. CASE FinishExecute
  BY <1>6, FinishExecuteKeeps
<1>7. CASE ResetOrderBook
  BY <1>7, ResetOrderBookKeeps
<1>8. CASE UNCHANGED vars
  BY <1>8 DEF vars, IInv, OtherTypes, FrameInv
<1>. QED  BY <1>1, <1>2, <1>3, <1>4, <1>5, <1>6, <1>7, <1>8 DEF Next

\* Whatever ids, prices, quantities and limits it is given, the engine keeps
\* the inductive invariant.
THEOREM AlwaysIInv == Spec => []IInv
  BY InitHolds, StepKeepsIInv, PTL DEF Spec

\* Every variable keeps its type: no total, fill or remainder leaves its width.
THEOREM AlwaysTyped == Spec => []TypeOK
  BY AlwaysIInv, IInvImplies, PTL

\* The index and the levels always agree (what checkBookInvariants verifies),
\* inside executeOrder's loop too.
THEOREM AlwaysConsistent == Spec => []IndexConsistent
  BY AlwaysIInv, IInvImplies, PTL

----------------------------------------------------------------------------
(* What an operation that answers false, and one that rests, has done.      *)

\* addOrder's checks are repeated when a remainder or an amended order is put
\* back, but none of them can fail there: a refusal is always the first thing
\* that happens to a call, so nothing has to be undone.
THEOREM RejectionsAreClean == Spec => RejectionsChangeNothing
<1> DEFINE Clean ==
      frame' = << >> /\ ~result'.accepted
        => result'.trades = << >> /\ UNCHANGED <<book, orderIndex, tradeHistory>>
<1>1. ASSUME IInv, Next, frame' = << >>, ~result'.accepted
      PROVE  result'.trades = << >> /\ UNCHANGED <<book, orderIndex, tradeHistory>>
  <2>1. ASSUME NEW o \in Order, AddOrder(o)
        PROVE  result'.trades = << >> /\ UNCHANGED <<book, orderIndex, tradeHistory>>
    BY <1>1, <2>1 DEF AddOrder, Rejects, Returns
  <2>2. ASSUME NEW id \in OrderIds, CancelOrder(id)
        PROVE  result'.trades = << >> /\ UNCHANGED <<book, orderIndex, tradeHistory>>
    BY <1>1, <2>2 DEF CancelOrder, Rejects, Returns
  <2>3. ASSUME NEW id \in OrderIds, NEW price \in Prices, NEW quantity \in Quantities,
               ModifyOrder(id, price, quantity)
        PROVE  result'.trades = << >> /\ UNCHANGED <<book, orderIndex, tradeHistory>>
    <3> DEFINE location == orderIndex[id]
               orders   == book[location.side][location.price].orders
               existing == orders[PositionOf(orders, id)]
               modified == Amended(existing, price, quantity)
               index    == WithoutEntry(orderIndex, id)
    <3>1. CASE Rejects
      BY <3>1 DEF Rejects, Returns
    <3>2. CASE Returns(TRUE)
      BY <1>1, <3>2 DEF Returns
    <3>3. CASE id \in DOMAIN orderIndex /\ ~BadAmendment(price, quantity) /\ Reinserts(location, existing, price, quantity)
      <4>1. /\ location = orderIndex[id]
            /\ orders = book[location.side][location.price].orders
            /\ existing = orders[PositionOf(orders, id)]
            /\ Good(book, orderIndex)
        BY <1>1 DEF IInv
      <4>2. quantity # 0 /\ price > 0
        BY <3>3, ConstantsAssumption DEF BadAmendment
      <4> HIDE DEF existing, orders, location
      <4>3. existing \in RestingOrder /\ existing.id = id /\ existing.symbol_id = DefaultSymbol
        <5>1. IsLive(existing, id)
          BY <3>3, <4>1, FoundOrder
        <5>. QED  BY <5>1 DEF IsLive
      <4>4. /\ modified.id = id
            /\ modified.price = price
            /\ modified.quantity > 0
            /\ modified.symbol_id = DefaultSymbol
        <5>1. modified = Amended(existing, price, quantity)
          OBVIOUS
        <5> HIDE DEF modified
        <5>. QED  BY <4>2, <4>3, <5>1, ModifiedFacts
      <4>5. id \notin DOMAIN index
        BY WithoutEntryFacts
      <4> HIDE DEF modified, index
      <4>6. ~Refused(index, modified)
        BY <4>2, <4>4, <4>5, ConstantsAssumption DEF Refused
      <4>7. Returns(TRUE)
        BY <3>3, <4>3, <4>6 DEF Reinserts, modified, index
      <4>. QED  BY <3>2, <4>7
    <3>. QED  BY <2>3, <3>1, <3>2, <3>3, Zenon DEF ModifyOrder, ReducesInPlace
  <2>4. ASSUME NEW o \in Order, StartExecute(o)
        PROVE  result'.trades = << >> /\ UNCHANGED <<book, orderIndex, tradeHistory>>
    BY <1>1, <2>4 DEF StartExecute
  <2>5. CASE MatchStep
    BY <1>1, <2>5, MatchStepLoops
  <2>6. CASE FinishExecute
    <3>1. ~Idle
      BY <2>6 DEF FinishExecute
    <3>2. /\ frame[1].order.quantity \in 0 .. QuantityLimit - 1
          /\ frame[1].order.price \in Int
          /\ frame[1].order.price > 0
          /\ frame[1].order.symbol_id = DefaultSymbol
          /\ frame[1].order.id \notin DOMAIN orderIndex
      BY <1>1, <3>1, FrameFacts
    <3>3. ~(frame[1].order.quantity > 0 /\ Refused(orderIndex, frame[1].order))
      BY <3>2, ConstantsAssumption DEF Refused
    <3>4. result'.accepted = ~(frame[1].order.quantity > 0 /\ Refused(orderIndex, frame[1].order))
      BY <2>6, Zenon DEF FinishExecute
    <3>. QED  BY <1>1, <3>3, <3>4
  <2>7. CASE ResetOrderBook
    BY <1>1, <2>7 DEF ResetOrderBook, Returns
  <2>. QED  BY <1>1, <2>1, <2>2, <2>3, <2>4, <2>5, <2>6, <2>7 DEF Next
<1>2. IInv /\ [Next]_vars => [Clean]_vars
  BY <1>1
<1>. QED  BY <1>2, AlwaysIInv, PTL DEF Spec, RejectionsChangeNothing

\* Whatever book addOrder has left, crossed or not, an order that executeOrder
\* has matched rests only below every ask, or above every bid, that is left.
THEOREM RemaindersDoNotCross == Spec => RemainderNeverCrosses
<1> DEFINE Uncrossed ==
      frame # << >> /\ frame' = << >> /\ result'.remaining > 0
        => LET o == frame[1].order
           IN  \A p \in DOMAIN book'[Opposite(o.side)] :
                 IF o.side = "Buy" THEN o.price < p ELSE p < o.price
<1>1. ASSUME IInv, Next, frame # << >>, frame' = << >>, result'.remaining > 0,
             NEW p \in DOMAIN book'[Opposite(frame[1].order.side)]
      PROVE  IF frame[1].order.side = "Buy" THEN frame[1].order.price < p
                                            ELSE p < frame[1].order.price
  <2> DEFINE o    == frame[1].order
             side == Opposite(o.side)
             best == BestPrice(book, side)
  <2>1. FinishExecute
    <3>1. ~MatchStep
      BY <1>1, MatchStepLoops
    <3>. QED  BY <1>1, <3>1, Zenon DEF Next, AddOrder, CancelOrder, ModifyOrder, StartExecute,
                                ResetOrderBook, Idle
  <2>2. /\ o \in RestingOrder
        /\ o.side \in Side
        /\ o.price \in Int
        /\ side \in Side
        /\ o.side # side
    <3>1. ~Idle
      BY <1>1 DEF Idle
    <3>. QED  BY <1>1, <3>1, FrameFacts DEF Opposite, Side
  <2>3. o.quantity > 0 /\ ~CanMatch(o)
    BY <1>1, <2>1 DEF FinishExecute
  <2>4. DOMAIN book = Side /\ DOMAIN book[side] \subseteq Prices
    BY <1>1, <2>2 DEF IInv, Good, BookTyped
  <2>5. book'[side] = book[side]
    <3>1. CASE Rests(o)
      <4> DEFINE level == LevelAt(book, o.side, o.price)
                 new   == [total_quantity |-> WrapAdd(level.total_quantity, o.quantity),
                           orders         |-> Append(level.orders, o)]
      <4>1. book' = StoreLevel(book, o.side, o.price, new)
        BY <3>1, Zenon DEF Rests, Enqueued
      <4> HIDE DEF new
      <4>. QED  BY <2>2, <2>4, <4>1, StoreLevelFacts
    <3>2. CASE UNCHANGED book
      BY <3>2
    <3>. QED  BY <2>1, <3>1, <3>2, SMTT(30) DEF FinishExecute
  <2>6. p \in DOMAIN book[side]
    BY <2>5
  <2>7. best \in DOMAIN book[side] /\ ~Better(side, p, best)
    BY <2>2, <2>4, <2>6, BestPriceFacts
  <2>8. ~Admits(o, best)
    BY <2>3, <2>6 DEF CanMatch
  <2>9. p \in Int /\ best \in Int
    BY <2>4, <2>6, <2>7, PricesAreIntegers
  <2> HIDE DEF best
  <2>. QED  BY <2>2, <2>7, <2>8, <2>9 DEF Better, Admits, Opposite, Side
<1>2. IInv /\ [Next]_vars => [Uncrossed]_vars
  BY <1>1
<1>. QED  BY <1>2, AlwaysIInv, PTL DEF Spec, RemainderNeverCrosses

----------------------------------------------------------------------------
(* The orders of the book as the queues of MatchingSpec                    *)

\* The operators of the specification and what MatchingSpecProofs proves of them.
M == INSTANCE MatchingSpecProofs WITH
  queue  <- [key \in Side \X Prices |-> LevelAt(bookBefore, key[1], key[2]).orders],
  trades <- tradesBefore,
  answer <- result

\* The queues of the book b, one for each side and price.
Queues(b) == [key \in Side \X Prices |-> LevelAt(b, key[1], key[2]).orders]

\* The keys of the queues are the sides and the prices.
LEMMA QueueKeys ==
  /\ M!Keys = Side \X Prices /\ M!Sides = Side
  /\ \A side \in Side, p \in Prices : <<side, p>> \in M!Keys
  /\ \A key \in M!Keys : key[1] \in Side /\ key[2] \in Prices /\ key = <<key[1], key[2]>>
  BY DEF M!Keys, M!Sides, Side

\* The queue at a price is that of its level, or empty.
LEMMA QueueFacts ==
  ASSUME NEW b, NEW side \in Side, NEW p \in Prices
  PROVE  /\ DOMAIN Queues(b) = M!Keys
         /\ p \in DOMAIN b[side] => Queues(b)[<<side, p>>] = b[side][p].orders
         /\ p \notin DOMAIN b[side] => Queues(b)[<<side, p>>] = << >>
<1>1. DOMAIN Queues(b) = M!Keys
  BY QueueKeys DEF Queues
<1>2. Queues(b)[<<side, p>>] = LevelAt(b, side, p).orders
  BY DEF Queues
<1>3. EmptyLevel.orders = << >>
  BY DEF EmptyLevel
<1>. QED  BY <1>1, <1>2, <1>3 DEF LevelAt

\* A resting order is one of the specification.
LEMMA RestingIsOrder ==
  ASSUME NEW o \in RestingOrder, o.quantity > 0, o.symbol_id = DefaultSymbol
  PROVE  o \in M!Order
<1>1. o.price \in Int /\ o.quantity \in Nat \ {0}
  <2>1. o.price \in Int
    BY PricesAreIntegers DEF RestingOrder
  <2>2. o.quantity \in Nat
    BY ConstantsAssumption DEF RestingOrder
  <2>. QED  BY <2>1, <2>2
<1>. QED  BY <1>1 DEF RestingOrder, M!Order, M!Sides, Side

\* What stands at a place of a queue is a node of a level.
Node(b, index, key, n) ==
  /\ key[1] \in Side /\ key[2] \in DOMAIN b[key[1]]
  /\ n \in DOMAIN b[key[1]][key[2]].orders
  /\ InPlace(b[key[1]][key[2]].orders[n], key[1], key[2], index)
  /\ b[key[1]][key[2]].orders[n] \in RestingOrder

\* An order in a queue is a node of its level.
LEMMA QueuedIsNode ==
  ASSUME NEW b, NEW index, Good(b, index), NEW key \in M!Keys, NEW n \in DOMAIN Queues(b)[key]
  PROVE  /\ Node(b, index, key, n)
         /\ Queues(b)[key] = b[key[1]][key[2]].orders
<1>1. key[1] \in Side /\ key[2] \in Prices /\ key = <<key[1], key[2]>>
  BY QueueKeys
<1>2. key[2] \in DOMAIN b[key[1]]
  <2> SUFFICES ASSUME key[2] \notin DOMAIN b[key[1]] PROVE FALSE
    OBVIOUS
  <2>1. Queues(b)[key] = << >>
    BY <1>1, QueueFacts
  <2>2. DOMAIN << >> = {}
    OBVIOUS
  <2>. QED  BY <2>1, <2>2
<1>3. Queues(b)[key] = b[key[1]][key[2]].orders
  BY <1>1, <1>2, QueueFacts
<1>4. n \in DOMAIN b[key[1]][key[2]].orders
  BY <1>3
<1>5. InPlace(b[key[1]][key[2]].orders[n], key[1], key[2], index)
  BY <1>1, <1>2, <1>4, NodeFacts
<1>6. b[key[1]][key[2]].orders[n] \in RestingOrder
  BY <1>1, <1>2, <1>4, LevelFacts
<1>. QED  BY <1>1, <1>2, <1>3, <1>4, <1>5, <1>6 DEF Node

\* The prices are finitely many, which sums over the book need.
LEMMA PricesFinite == M!PricesTyped
<1>1. Prices \subseteq Int
  BY PricesAreIntegers
<1>2. M!IsFiniteSet(Prices)
  <2>1. PICK l \in Nat : Prices \subseteq -l .. l - 1
    BY ConstantsAssumption
  <2>2. M!IsFiniteSet(-l .. l - 1)
    <3>1. -l \in Int /\ l - 1 \in Int
      OBVIOUS
    <3>. QED  BY <3>1, M!FS_Interval
  <2>. QED  BY <2>1, <2>2, M!FS_Subset
<1>. QED  BY <1>1, <1>2 DEF M!PricesTyped

\* A consistent book is a good one of the specification.
LEMMA BookIsGood ==
  ASSUME NEW b, NEW index, Good(b, index)
  PROVE  M!GoodBook(Queues(b))
<1> DEFINE q == Queues(b)
<1>1. DOMAIN q = M!Keys
  BY QueueKeys DEF Queues
<1>2. ASSUME NEW key \in M!Keys
      PROVE  q[key] \in Seq(M!Order)
  <2>1. key[1] \in Side /\ key[2] \in Prices /\ key = <<key[1], key[2]>>
    BY QueueKeys
  <2>2. CASE key[2] \notin DOMAIN b[key[1]]
    <3>1. q[key] = << >>
      BY <2>1, <2>2, QueueFacts
    <3>. QED  BY <3>1
  <2>3. CASE key[2] \in DOMAIN b[key[1]]
    <3>1. q[key] = b[key[1]][key[2]].orders
      BY <2>1, <2>3, QueueFacts
    <3>2. q[key] \in Seq(RestingOrder)
      BY <2>1, <2>3, <3>1, LevelFacts
    <3> HIDE DEF q
    <3>3. ASSUME NEW n \in DOMAIN q[key] PROVE q[key][n] \in M!Order
      <4>1. Node(b, index, key, n)
        BY <3>3, QueuedIsNode DEF q
      <4>2. q[key][n] \in RestingOrder /\ InPlace(q[key][n], key[1], key[2], index)
        BY <3>1, <4>1 DEF Node
      <4>. QED  BY <4>2, RestingIsOrder DEF InPlace
    <3>. QED  BY <3>2, <3>3
  <2>. QED  BY <2>2, <2>3
<1>3. ASSUME NEW key \in M!Keys, NEW n \in DOMAIN q[key]
      PROVE  <<q[key][n].side, q[key][n].price>> = key
  <2>1. Node(b, index, key, n) /\ q[key] = b[key[1]][key[2]].orders
    BY <1>3, QueuedIsNode
  <2>2. key = <<key[1], key[2]>>
    BY QueueKeys
  <2>. QED  BY <2>1, <2>2 DEF Node, InPlace
<1>4. ASSUME NEW key \in M!Keys, NEW other \in M!Keys, NEW n \in DOMAIN q[key],
             NEW k \in DOMAIN q[other], q[key][n].id = q[other][k].id
      PROVE  key = other /\ n = k
  <2>1. Node(b, index, key, n) /\ q[key] = b[key[1]][key[2]].orders
    BY <1>4, QueuedIsNode
  <2>2. Node(b, index, other, k) /\ q[other] = b[other[1]][other[2]].orders
    BY <1>4, QueuedIsNode
  <2>3. key = <<key[1], key[2]>> /\ other = <<other[1], other[2]>>
    BY QueueKeys
  <2>4. /\ index[q[key][n].id].side = key[1] /\ index[q[key][n].id].price = key[2]
        /\ index[q[other][k].id].side = other[1] /\ index[q[other][k].id].price = other[2]
    BY <2>1, <2>2 DEF Node, InPlace
  <2>5. key = other
    BY <1>4, <2>3, <2>4
  <2>6. n = k
    <3>1. /\ key[1] \in Side /\ key[2] \in DOMAIN b[key[1]]
          /\ n \in DOMAIN b[key[1]][key[2]].orders
      BY <2>1 DEF Node
    <3>2. k \in DOMAIN b[key[1]][key[2]].orders
      BY <2>2, <2>5 DEF Node
    <3>3. b[key[1]][key[2]].orders[n].id = b[key[1]][key[2]].orders[k].id
      BY <1>4, <2>1, <2>2, <2>5
    <3>4. UniqueIn(b)
      BY DEF Good
    <3>. QED  BY <3>1, <3>2, <3>3, <3>4, Zenon DEF UniqueIn
  <2>. QED  BY <2>5, <2>6
<1>5. M!QueuesTyped(q)
  BY <1>1, <1>2, <1>3 DEF M!QueuesTyped
<1>6. M!IdsUnique(q)
  BY <1>4 DEF M!IdsUnique
<1>. QED  BY <1>5, <1>6, PricesFinite DEF M!GoodBook

\* The ids that rest are those of the index.
LEMMA RestingIds ==
  ASSUME NEW b, NEW index, Good(b, index)
  PROVE  {o.id : o \in M!RestingIn(Queues(b))} = DOMAIN index
<1> DEFINE q == Queues(b)
<1>1. ASSUME NEW o \in M!RestingIn(q) PROVE o.id \in DOMAIN index
  <2>1. PICK key, n : M!StandsAt(q, o, key, n)
    BY M!RestingFacts
  <2>2. key \in M!Keys /\ n \in DOMAIN q[key] /\ o = q[key][n]
    BY <2>1 DEF M!StandsAt
  <2>3. Node(b, index, key, n) /\ q[key] = b[key[1]][key[2]].orders
    BY <2>2, QueuedIsNode
  <2>. QED  BY <2>2, <2>3 DEF Node, InPlace
<1>2. ASSUME NEW id \in DOMAIN index PROVE \E o \in M!RestingIn(q) : o.id = id
  <2>1. /\ index[id].side \in Side /\ index[id].price \in DOMAIN b[index[id].side]
        /\ LiveAt(b[index[id].side][index[id].price].orders,
                  PositionOf(b[index[id].side][index[id].price].orders, id), index[id], id)
    BY Found
  <2>2. PICK side \in Side, p \in DOMAIN b[index[id].side] : side = index[id].side /\ p = index[id].price
    BY <2>1
  <2>3. p \in Prices
    BY <2>2, LevelFacts
  <2>4. q[<<side, p>>] = b[side][p].orders /\ <<side, p>> \in M!Keys
    BY <2>2, <2>3, QueueFacts, QueueKeys
  <2>5. PICK n \in DOMAIN b[side][p].orders : b[side][p].orders[n].id = id
    BY <2>1, <2>2 DEF LiveAt
  <2>6. M!StandsAt(q, b[side][p].orders[n], <<side, p>>, n)
    BY <2>4, <2>5 DEF M!StandsAt
  <2>. QED  BY <2>5, <2>6, M!RestingFacts
<1>. QED  BY <1>1, <1>2

----------------------------------------------------------------------------
(* What the engine's steps do to the queues                                *)

\* The queues q with s for the one at key.
WithQueue(q, key, s) == [q EXCEPT ![key] = s]

\* A level is stored where its queue stands.
LEMMA StoresQueue ==
  ASSUME NEW b, DOMAIN b = Side, NEW side \in Side, NEW p \in Prices, NEW level
  PROVE  Queues(StoreLevel(b, side, p, level)) = WithQueue(Queues(b), <<side, p>>, level.orders)
<1> DEFINE c == StoreLevel(b, side, p, level)
           q == Queues(b)
           r == [q EXCEPT ![<<side, p>>] = level.orders]
<1>1. /\ DOMAIN c = Side
      /\ \A s \in Side : s # side => c[s] = b[s]
      /\ level.orders = << >> => DOMAIN c[side] = DOMAIN b[side] \ {p}
      /\ level.orders # << >> =>
           DOMAIN c[side] = DOMAIN b[side] \cup {p} /\ c[side][p] = level
      /\ \A x \in DOMAIN b[side] : x # p => c[side][x] = b[side][x]
  BY StoreLevelFacts
<1> HIDE DEF c
<1>2. DOMAIN Queues(c) = M!Keys /\ DOMAIN r = M!Keys /\ DOMAIN q = M!Keys /\ <<side, p>> \in M!Keys
  BY QueueFacts, QueueKeys
<1>3. ASSUME NEW s \in Side, NEW x \in Prices PROVE Queues(c)[<<s, x>>] = r[<<s, x>>]
  <2>1. <<s, x>> \in M!Keys
    BY QueueKeys
  <2>2. CASE s # side
    <3>1. r[<<s, x>>] = q[<<s, x>>]
      BY <1>2, <2>1, <2>2
    <3>2. c[s] = b[s]
      BY <1>1, <2>2
    <3>3. Queues(c)[<<s, x>>] = q[<<s, x>>]
      BY <3>2, QueueFacts
    <3>. QED  BY <3>1, <3>3
  <2>3. CASE s = side /\ x # p
    <3>1. r[<<s, x>>] = q[<<s, x>>]
      BY <1>2, <2>1, <2>3
    <3>2. (x \in DOMAIN c[side] <=> x \in DOMAIN b[side])
          /\ (x \in DOMAIN b[side] => c[side][x] = b[side][x])
      BY <1>1, <2>3
    <3>3. Queues(c)[<<s, x>>] = q[<<s, x>>]
      BY <2>3, <3>2, QueueFacts
    <3>. QED  BY <3>1, <3>3
  <2>4. CASE s = side /\ x = p
    <3>1. r[<<s, x>>] = level.orders
      BY <1>2, <2>4
    <3>2. CASE level.orders = << >>
      <4>1. x \notin DOMAIN c[side]
        BY <1>1, <2>4, <3>2
      <4>. QED  BY <2>4, <3>1, <3>2, <4>1, QueueFacts
    <3>3. CASE level.orders # << >>
      <4>1. x \in DOMAIN c[side] /\ c[side][x] = level
        BY <1>1, <2>4, <3>3
      <4>. QED  BY <2>4, <3>1, <4>1, QueueFacts
    <3>. QED  BY <3>2, <3>3
  <2>. QED  BY <2>2, <2>3, <2>4
<1>4. \A key \in M!Keys : Queues(c)[key] = r[key]
  BY <1>3, QueueKeys
<1>5. Queues(c) = [key \in M!Keys |-> Queues(c)[key]] /\ r = [key \in M!Keys |-> r[key]]
  BY <1>2, QueueKeys DEF Queues
<1> HIDE DEF r
<1>. QED  BY <1>4, <1>5 DEF c, r, WithQueue

\* An order that is enqueued is added.
LEMMA EnqueuesOrder ==
  ASSUME NEW b, NEW index, Good(b, index), NEW o \in RestingOrder
  PROVE  Queues(Enqueued(b, o)) = M!AfterAdd(Queues(b), o)
<1>1. DOMAIN b = Side /\ o.side \in Side /\ o.price \in Prices
  BY DEF Good, BookTyped, RestingOrder
<1> DEFINE level == LevelAt(b, o.side, o.price)
           new == [total_quantity |-> WrapAdd(level.total_quantity, o.quantity),
                   orders         |-> Append(level.orders, o)]
<1>2. Enqueued(b, o) = StoreLevel(b, o.side, o.price, new)
  BY DEF Enqueued
<1>3. Queues(Enqueued(b, o)) = WithQueue(Queues(b), <<o.side, o.price>>, new.orders)
  <2> HIDE DEF new, level
  <2>. QED  BY <1>1, <1>2, StoresQueue
<1>4. Queues(b)[<<o.side, o.price>>] = level.orders
  BY <1>1 DEF Queues
<1>5. new.orders = Append(Queues(b)[<<o.side, o.price>>], o)
  BY <1>4
<1>. QED  BY <1>3, <1>5 DEF M!AfterAdd, WithQueue

----------------------------------------------------------------------------
(* Each operation on the book is one on the queues                         *)

\* The order id and its place in a consistent book.
IsNode(b, index, id, side, p, n, o) ==
  /\ side = index[id].side /\ p = index[id].price
  /\ side \in Side /\ p \in Prices /\ p \in DOMAIN b[side]
  /\ n = PositionOf(b[side][p].orders, id)
  /\ n \in DOMAIN b[side][p].orders
  /\ o = b[side][p].orders[n]
  /\ o \in RestingOrder /\ o.id = id /\ o.side = side /\ o.price = p /\ o.quantity > 0
  /\ o.symbol_id = DefaultSymbol
  /\ Queues(b)[<<side, p>>] = b[side][p].orders
  /\ b[side][p].orders \in Seq(RestingOrder)
  /\ M!PlaceOf(Queues(b), id) = <<side, p, n>>

\* The specification finds an order where the index does.
LEMMA NodeIs ==
  ASSUME NEW b, NEW index, Good(b, index), NEW id \in DOMAIN index
  PROVE  \E side, p, n, o : IsNode(b, index, id, side, p, n, o)
<1>1. /\ index[id].side \in Side /\ index[id].price \in DOMAIN b[index[id].side]
      /\ LiveAt(b[index[id].side][index[id].price].orders,
                PositionOf(b[index[id].side][index[id].price].orders, id), index[id], id)
  BY Found
<1>2. PICK side \in Side, p \in DOMAIN b[index[id].side] : side = index[id].side /\ p = index[id].price
  BY <1>1
<1>3. PICK n : n = PositionOf(b[side][p].orders, id)
  OBVIOUS
<1>4. PICK o : o = b[side][p].orders[n]
  OBVIOUS
<1>5. /\ n \in DOMAIN b[side][p].orders
      /\ o \in RestingOrder /\ o.id = id /\ o.side = side /\ o.price = p /\ o.quantity > 0
      /\ o.symbol_id = DefaultSymbol
  BY <1>1, <1>2, <1>3, <1>4 DEF LiveAt
<1>6. p \in Prices /\ p \in DOMAIN b[side] /\ b[side][p].orders \in Seq(RestingOrder)
  BY <1>2, LevelFacts
<1>7. Queues(b)[<<side, p>>] = b[side][p].orders /\ <<side, p>> \in M!Keys
  BY <1>6, QueueFacts, QueueKeys
<1>8. M!PlaceOf(Queues(b), id) = <<side, p, n>>
  <2>1. M!StandsAt(Queues(b), o, <<side, p>>, n)
    BY <1>4, <1>5, <1>7 DEF M!StandsAt
  <2>2. o \in M!RestingIn(Queues(b)) /\ M!GoodBook(Queues(b))
    BY <2>1, BookIsGood, M!RestingFacts
  <2>3. PICK key \in M!Keys : \E k \in DOMAIN Queues(b)[key] :
          /\ Queues(b)[key][k] = o
          /\ M!PlaceOf(Queues(b), o.id) = <<key[1], key[2], k>>
          /\ key = <<o.side, o.price>> /\ o \in M!Order
    BY <2>2, M!PlaceFacts
  <2>4. PICK k \in DOMAIN Queues(b)[key] :
          /\ Queues(b)[key][k] = o
          /\ M!PlaceOf(Queues(b), o.id) = <<key[1], key[2], k>>
          /\ key = <<o.side, o.price>>
    BY <2>3
  <2>5. key = <<side, p>>
    BY <1>5, <2>4
  <2>6. k = n
    <3>1. UniqueIn(b)
      BY DEF Good
    <3>2. k \in DOMAIN b[side][p].orders /\ b[side][p].orders[k] = o
      BY <1>7, <2>4, <2>5
    <3>. QED  BY <1>4, <1>5, <1>6, <3>1, <3>2 DEF UniqueIn
  <2>. QED  BY <1>5, <2>4, <2>5, <2>6
<1>. QED  BY <1>2, <1>3, <1>4, <1>5, <1>6, <1>7, <1>8 DEF IsNode

\* Two ways to take an element out of a sequence.
LEMMA SameRemoval ==
  ASSUME NEW S, NEW s \in Seq(S), NEW n \in DOMAIN s
  PROVE  M!RemoveAt(s, n) = WithoutPosition(s, n)
<1> DEFINE t == M!RemoveAt(s, n)
           w == WithoutPosition(s, n)
<1>1. t \in Seq(S) /\ M!Without(s, n, t)
  BY M!RemoveFacts
<1> HIDE DEF t
<1>2. /\ Len(s) \in Nat /\ n \in 1 .. Len(s) /\ DOMAIN t = 1 .. Len(s) - 1
      /\ \A k \in 1 .. n - 1 : t[k] = s[k]
      /\ \A k \in n .. Len(s) - 1 : t[k] = s[k + 1]
  BY <1>1 DEF M!Without
<1>3. w = [i \in 1 .. Len(s) - 1 |-> IF i < n THEN s[i] ELSE s[i + 1]]
  BY DEF WithoutPosition
<1> HIDE DEF w
<1>4. ASSUME NEW i \in 1 .. Len(s) - 1 PROVE t[i] = w[i]
  <2>1. CASE i < n
    <3>1. i \in 1 .. n - 1
      BY <1>2, <2>1
    <3>. QED  BY <1>2, <1>3, <2>1, <3>1
  <2>2. CASE ~(i < n)
    <3>1. i \in n .. Len(s) - 1
      BY <1>2, <2>2
    <3>. QED  BY <1>2, <1>3, <2>2, <3>1
  <2>. QED  BY <2>1, <2>2
<1>5. t = [i \in 1 .. Len(s) - 1 |-> t[i]] /\ w = [i \in 1 .. Len(s) - 1 |-> w[i]]
  BY <1>1, <1>2, <1>3
<1>6. t = w
  BY <1>4, <1>5
<1>. QED  BY <1>6 DEF t, w

\* An order that is dequeued is cancelled.
LEMMA DequeuesOrder ==
  ASSUME NEW b, NEW index, Good(b, index), NEW id \in DOMAIN index
  PROVE  Queues(Dequeued(b, index[id], id)) = M!AfterCancel(Queues(b), id)
<1>1. PICK side, p, n, o : IsNode(b, index, id, side, p, n, o)
  BY NodeIs
<1>2. /\ side = index[id].side /\ p = index[id].price /\ side \in Side /\ p \in Prices
      /\ n = PositionOf(b[side][p].orders, id) /\ n \in DOMAIN b[side][p].orders
      /\ Queues(b)[<<side, p>>] = b[side][p].orders
      /\ b[side][p].orders \in Seq(RestingOrder)
      /\ M!PlaceOf(Queues(b), id) = <<side, p, n>>
  BY <1>1 DEF IsNode
<1>3. DOMAIN b = Side
  BY DEF Good, BookTyped
<1> DEFINE level == b[side][p]
           new == [total_quantity |-> WrapSub(level.total_quantity, level.orders[n].quantity),
                   orders         |-> WithoutPosition(level.orders, n)]
<1>4. Dequeued(b, index[id], id) = StoreLevel(b, side, p, new)
  BY <1>2 DEF Dequeued
<1>5. Queues(Dequeued(b, index[id], id)) = WithQueue(Queues(b), <<side, p>>, new.orders)
  <2> HIDE DEF new
  <2>. QED  BY <1>2, <1>3, <1>4, StoresQueue
<1>6. new.orders = M!RemoveAt(Queues(b)[<<side, p>>], n)
  <2>1. new.orders = WithoutPosition(level.orders, n)
    OBVIOUS
  <2>. QED  BY <1>2, <2>1, SameRemoval
<1>7. M!AfterCancel(Queues(b), id)
        = [Queues(b) EXCEPT ![<<side, p>>] = M!RemoveAt(Queues(b)[<<side, p>>], n)]
  <2>1. M!PlaceOf(Queues(b), id)[1] = side /\ M!PlaceOf(Queues(b), id)[2] = p
        /\ M!PlaceOf(Queues(b), id)[3] = n
    BY <1>2
  <2>. QED  BY <2>1 DEF M!AfterCancel
<1>. QED  BY <1>5, <1>6, <1>7 DEF WithQueue

\* Removing the first of a sequence leaves its tail.
LEMMA TailIs ==
  ASSUME NEW S, NEW s \in Seq(S), Len(s) > 0
  PROVE  Tail(s) = [i \in 1 .. Len(s) - 1 |-> s[i + 1]]
<1>1. s # << >> /\ Len(s) \in Nat
  OBVIOUS
<1>2. Tail(s) \in Seq(S) /\ Len(Tail(s)) = Len(s) - 1
  BY <1>1
<1>3. \A i \in 1 .. Len(s) - 1 : Tail(s)[i] = s[i + 1]
  BY <1>1
<1> DEFINE t == Tail(s)
<1>4. t = [i \in 1 .. Len(s) - 1 |-> t[i]]
  <2>1. t \in Seq(S) /\ Len(t) = Len(s) - 1
    BY <1>2
  <2> HIDE DEF t
  <2>2. t = [i \in 1 .. Len(t) |-> t[i]]
    BY <2>1
  <2>. QED  BY <2>1, <2>2
<1> HIDE DEF t
<1>. QED  BY <1>3, <1>4 DEF t

\* A fill of the front of a queue is one of the specification's.
LEMMA FillsFront ==
  ASSUME NEW b, NEW index, Good(b, index), NEW side \in Side, NEW p \in DOMAIN b[side],
         NEW fill, fill \in 1 .. b[side][p].orders[1].quantity
  PROVE  Queues(FrontFilled(b, side, p, fill)) = M!AfterFill(Queues(b), <<side, p>>, fill)
<1> DEFINE s == b[side][p].orders
           left == s[1].quantity - fill
           new == [total_quantity |-> WrapSub(b[side][p].total_quantity, fill),
                   orders |-> IF left = 0 THEN WithoutPosition(s, 1) ELSE Resized(s, 1, left)]
<1>1. p \in Prices /\ s \in Seq(RestingOrder) /\ Len(s) > 0 /\ DOMAIN b = Side
  BY LevelFacts DEF Good, BookTyped
<1>2. 1 \in DOMAIN s /\ s[1] \in RestingOrder /\ s[1].quantity \in Nat /\ fill \in Nat
  <2>1. 1 \in DOMAIN s /\ s[1] \in RestingOrder /\ s[1].quantity \in 1 .. QuantityLimit - 1
    BY FrontFacts
  <2>2. s[1].quantity \in Nat
    BY <2>1, ConstantsAssumption
  <2>. QED  BY <2>1, <2>2
<1>3. Queues(b)[<<side, p>>] = s
  BY <1>1, QueueFacts
<1>4. FrontFilled(b, side, p, fill) = StoreLevel(b, side, p, new)
  BY DEF FrontFilled
<1>5. Queues(FrontFilled(b, side, p, fill)) = WithQueue(Queues(b), <<side, p>>, new.orders)
  <2> HIDE DEF new
  <2>. QED  BY <1>1, <1>4, StoresQueue
<1>6. new.orders = M!Shrunk(s, fill)
  <2>1. new.orders = IF left = 0 THEN WithoutPosition(s, 1) ELSE Resized(s, 1, left)
    OBVIOUS
  <2>2. CASE fill = s[1].quantity
    <3>1. left = 0
      BY <1>2, <2>2
    <3>2. M!Shrunk(s, fill) = Tail(s)
      BY <2>2 DEF M!Shrunk
    <3>3. WithoutPosition(s, 1) = Tail(s)
      <4>1. WithoutPosition(s, 1) = [i \in 1 .. Len(s) - 1 |-> s[i + 1]]
        <5>1. \A i \in 1 .. Len(s) - 1 : ~(i < 1)
          BY <1>1
        <5>. QED  BY <5>1 DEF WithoutPosition
      <4>2. Tail(s) = [i \in 1 .. Len(s) - 1 |-> s[i + 1]]
        <5> HIDE DEF s
        <5>. QED  BY <1>1, TailIs
      <4>. QED  BY <4>1, <4>2
    <3>. QED  BY <2>1, <3>1, <3>2, <3>3
  <2>3. CASE fill # s[1].quantity
    <3>1. left # 0
      BY <1>2, <2>3
    <3>2. M!Shrunk(s, fill) = [s EXCEPT ![1].quantity = @ - fill]
      BY <2>3 DEF M!Shrunk
    <3>3. Resized(s, 1, left) = [s EXCEPT ![1].quantity = @ - fill]
      BY DEF Resized
    <3> HIDE DEF new, left
    <3>. QED  BY <2>1, <3>1, <3>2, <3>3
  <2>. QED  BY <2>2, <2>3
<1> HIDE DEF new
<1>. QED  BY <1>3, <1>5, <1>6 DEF WithQueue, M!AfterFill

\* What the specification's amendment of an order is.
LEMMA AmendIs ==
  ASSUME NEW b, NEW index, NEW id, NEW side, NEW p, NEW n, NEW o,
         IsNode(b, index, id, side, p, n, o), NEW price, NEW quantity
  PROVE  M!AfterModify(Queues(b), id, price, quantity) =
           IF price = p /\ quantity <= o.quantity
             THEN WithQueue(Queues(b), <<side, price>>,
                            [Queues(b)[<<side, price>>] EXCEPT ![n] = Amended(o, price, quantity)])
             ELSE WithQueue(M!AfterCancel(Queues(b), id), <<side, price>>,
                            Append(M!AfterCancel(Queues(b), id)[<<side, price>>],
                                   Amended(o, price, quantity)))
<1> DEFINE q == Queues(b)
           place == M!PlaceOf(q, id)
           old == M!OrderAt(q, place)
           new == [old EXCEPT !.price = price, !.quantity = quantity]
<1>1. /\ o = b[side][p].orders[n] /\ o.side = side /\ o.price = p
      /\ q[<<side, p>>] = b[side][p].orders /\ place = <<side, p, n>>
  BY DEF IsNode
<1>2. old = o
  <2>1. place[1] = side /\ place[2] = p /\ place[3] = n
    BY <1>1
  <2>. QED  BY <1>1, <2>1 DEF M!OrderAt
<1>3. M!AfterModify(q, id, price, quantity) =
        IF price = old.price /\ quantity <= old.quantity
          THEN [q EXCEPT ![<<old.side, price>>] = M!ReplaceAt(@, place[3], new)]
          ELSE [M!AfterCancel(q, id) EXCEPT ![<<old.side, price>>] = Append(@, new)]
  BY Zenon DEF M!AfterModify
<1>4. new = Amended(o, price, quantity)
  BY <1>2 DEF Amended
<1>5. old.side = side /\ old.price = p /\ old.quantity = o.quantity /\ place[3] = n
  BY <1>1, <1>2
<1> HIDE DEF q, old, new, place
<1>6. M!ReplaceAt(q[<<side, price>>], n, new) = [q[<<side, price>>] EXCEPT ![n] = new]
  BY DEF M!ReplaceAt
<1>7. CASE price = p /\ quantity <= o.quantity
  <2>1. M!AfterModify(q, id, price, quantity)
          = [q EXCEPT ![<<side, price>>] = M!ReplaceAt(@, n, new)]
    BY <1>3, <1>5, <1>7
  <2>2. M!AfterModify(q, id, price, quantity)
          = [q EXCEPT ![<<side, price>>] = [q[<<side, price>>] EXCEPT ![n] = new]]
    BY <1>6, <2>1
  <2>. QED  BY <1>4, <1>7, <2>2 DEF WithQueue, q
<1>8. CASE ~(price = p /\ quantity <= o.quantity)
  <2>1. M!AfterModify(q, id, price, quantity)
          = [M!AfterCancel(q, id) EXCEPT ![<<side, price>>] = Append(@, new)]
    BY <1>3, <1>5, <1>8
  <2>. QED  BY <1>4, <1>8, <2>1 DEF WithQueue, q
<1>. QED  BY <1>7, <1>8 DEF q

\* A reduction in place is an amendment.
LEMMA ResizesOrder ==
  ASSUME NEW b, NEW index, Good(b, index), NEW id \in DOMAIN index,
         NEW side, NEW p, NEW n, NEW o, IsNode(b, index, id, side, p, n, o),
         NEW quantity \in Nat, quantity <= o.quantity, NEW total, NEW level,
         level = [total_quantity |-> total, orders |-> Resized(b[side][p].orders, n, quantity)]
  PROVE  Queues(StoreLevel(b, side, p, level)) = M!AfterModify(Queues(b), id, p, quantity)
<1> DEFINE s == b[side][p].orders
<1>1. /\ side \in Side /\ p \in Prices /\ n \in DOMAIN s /\ o = s[n] /\ o \in RestingOrder
      /\ o.price = p /\ Queues(b)[<<side, p>>] = s /\ s \in Seq(RestingOrder)
  BY DEF IsNode
<1>2. DOMAIN b = Side
  BY DEF Good, BookTyped
<1>3. Queues(StoreLevel(b, side, p, level)) = WithQueue(Queues(b), <<side, p>>, level.orders)
  BY <1>1, <1>2, StoresQueue
<1>4. level.orders = Resized(s, n, quantity)
  OBVIOUS
<1>5. Resized(s, n, quantity) = [s EXCEPT ![n] = Amended(o, p, quantity)]
  <2>1. Amended(o, p, quantity) = [o EXCEPT !.quantity = quantity]
    BY <1>1 DEF Amended, RestingOrder
  <2>2. Resized(s, n, quantity) = [s EXCEPT ![n] = [s[n] EXCEPT !.quantity = quantity]]
    BY DEF Resized
  <2>. QED  BY <1>1, <2>1, <2>2
<1>6. M!AfterModify(Queues(b), id, p, quantity)
        = WithQueue(Queues(b), <<side, p>>,
                    [Queues(b)[<<side, p>>] EXCEPT ![n] = Amended(o, p, quantity)])
  BY AmendIs
<1> HIDE DEF s
<1>. QED  BY <1>1, <1>3, <1>4, <1>5, <1>6

\* An amendment that changes nothing is one.
LEMMA KeepsOrder ==
  ASSUME NEW b, NEW index, Good(b, index), NEW id \in DOMAIN index,
         NEW side, NEW p, NEW n, NEW o, IsNode(b, index, id, side, p, n, o)
  PROVE  M!AfterModify(Queues(b), id, p, o.quantity) = Queues(b)
<1> DEFINE q == Queues(b)
           s == q[<<side, p>>]
<1>1. /\ side \in Side /\ p \in Prices /\ n \in DOMAIN s /\ o = s[n] /\ o \in RestingOrder
      /\ o.price = p /\ s \in Seq(RestingOrder)
  BY DEF IsNode
<1>2. Amended(o, p, o.quantity) = o
  BY <1>1 DEF Amended, RestingOrder
<1>3. o.quantity <= o.quantity
  <2>1. o.quantity \in Nat
    BY <1>1, ConstantsAssumption DEF RestingOrder
  <2>. QED  BY <2>1
<1>4. M!AfterModify(q, id, p, o.quantity)
        = WithQueue(q, <<side, p>>, [s EXCEPT ![n] = Amended(o, p, o.quantity)])
  BY <1>3, AmendIs
<1>5. [s EXCEPT ![n] = o] = s
  BY <1>1
<1>6. DOMAIN q = M!Keys /\ <<side, p>> \in M!Keys /\ q = [key \in M!Keys |-> q[key]]
  <2>1. DOMAIN q = M!Keys /\ <<side, p>> \in M!Keys
    BY <1>1, QueueFacts, QueueKeys
  <2>. QED  BY <2>1, QueueKeys DEF Queues
<1> HIDE DEF q
<1>7. WithQueue(q, <<side, p>>, s) = q
  BY <1>6 DEF WithQueue
<1> HIDE DEF s
<1>. QED  BY <1>2, <1>4, <1>5, <1>7 DEF q

\* An order that is dequeued and enqueued again is amended.
LEMMA ReinsertsOrder ==
  ASSUME NEW b, NEW index, Good(b, index), NEW id \in DOMAIN index,
         NEW side, NEW p, NEW n, NEW o, IsNode(b, index, id, side, p, n, o),
         NEW price \in Prices, NEW quantity \in Quantities, quantity # 0,
         price # p \/ quantity > o.quantity
  PROVE  Queues(Enqueued(Dequeued(b, index[id], id), Amended(o, price, quantity)))
           = M!AfterModify(Queues(b), id, price, quantity)
<1> DEFINE c == Dequeued(b, index[id], id)
           new == Amended(o, price, quantity)
<1>1. o \in RestingOrder /\ o.side = side
  BY DEF IsNode
<1>2. new \in RestingOrder /\ new.side = side /\ new.price = price
  <2>1. new \in RestingOrder /\ new.side = o.side /\ new.price = price
    BY <1>1, ModifiedFacts
  <2>. QED  BY <1>1, <2>1
<1>3. Good(c, WithoutEntry(index, id))
  BY DequeueKeepsGood
<1>4. Queues(c) = M!AfterCancel(Queues(b), id)
  BY DequeuesOrder
<1> HIDE DEF c, new
<1>5. Queues(Enqueued(c, new)) = M!AfterAdd(Queues(c), new)
  BY <1>2, <1>3, EnqueuesOrder
<1>6. M!AfterAdd(Queues(c), new)
        = WithQueue(Queues(c), <<side, price>>, Append(Queues(c)[<<side, price>>], new))
  BY <1>2 DEF M!AfterAdd, WithQueue
<1>7. ~(price = p /\ quantity <= o.quantity)
  <2>1. o.quantity \in Nat /\ quantity \in Nat
    BY <1>1, ConstantsAssumption DEF RestingOrder
  <2>. QED  BY <2>1
<1>8. M!AfterModify(Queues(b), id, price, quantity)
        = WithQueue(M!AfterCancel(Queues(b), id), <<side, price>>,
                    Append(M!AfterCancel(Queues(b), id)[<<side, price>>], new))
  <2>1. M!AfterModify(Queues(b), id, price, quantity) =
           IF price = p /\ quantity <= o.quantity
             THEN WithQueue(Queues(b), <<side, price>>,
                            [Queues(b)[<<side, price>>] EXCEPT ![n] = Amended(o, price, quantity)])
             ELSE WithQueue(M!AfterCancel(Queues(b), id), <<side, price>>,
                            Append(M!AfterCancel(Queues(b), id)[<<side, price>>],
                                   Amended(o, price, quantity)))
    BY AmendIs
  <2>. QED  BY <1>7, <2>1, Zenon DEF new
<1>. QED  BY <1>4, <1>5, <1>6, <1>8 DEF c, new

----------------------------------------------------------------------------
(* The loop of executeOrder makes the trades of a match, one by one        *)

\* A match begun by o0 on the queues q0 has made the trades done, and what is
\* left of it is the match of o on the queues q.
Halfway(q0, o0, done, q, o) ==
  /\ M!GoodBook(q0) /\ M!GoodBook(q) /\ o0 \in M!Order /\ o \in M!Lot
  /\ o = [o0 EXCEPT !.quantity = o.quantity]
  /\ \A x \in M!RestingIn(q0) : x.id # o0.id
  /\ M!Fills(q0, o0) = done \o M!Fills(q, o)
  /\ M!Left(q0, o0) = M!Left(q, o)
  /\ \A key \in M!Keys : M!Served(q0, o0, key) = M!Served(q, o, key)
  /\ \A key \in M!Keys : key[1] = o.side => q[key] = q0[key]

\* Joining sequences is associative.
LEMMA JoinAgain ==
  ASSUME NEW S, NEW s \in Seq(S), NEW e \in S, NEW t \in Seq(S)
  PROVE  s \o (<<e>> \o t) = Append(s, e) \o t
<1> DEFINE u == <<e>> \o t
           v == Append(s, e)
           a == s \o u
           b == v \o t
<1>1. <<e>> \in Seq(S) /\ Len(<<e>>) = 1 /\ <<e>>[1] = e
  OBVIOUS
<1>2. /\ u \in Seq(S) /\ Len(u) = 1 + Len(t) /\ Len(t) \in Nat
      /\ u[1] = e /\ \A k \in 1 .. Len(t) : u[1 + k] = t[k]
  <2>1. /\ u \in Seq(S) /\ Len(u) = Len(<<e>>) + Len(t) /\ Len(t) \in Nat
        /\ \A n \in 1 .. Len(<<e>>) : u[n] = <<e>>[n]
        /\ \A k \in 1 .. Len(t) : u[Len(<<e>>) + k] = t[k]
    BY <1>1, M!JoinFacts
  <2> HIDE DEF u
  <2>. QED  BY <1>1, <2>1
<1>3. /\ v \in Seq(S) /\ Len(v) = Len(s) + 1 /\ Len(s) \in Nat /\ v[Len(s) + 1] = e
      /\ \A n \in 1 .. Len(s) : v[n] = s[n]
  OBVIOUS
<1> HIDE DEF u, v
<1>4. /\ a \in Seq(S) /\ Len(a) = Len(s) + Len(u)
      /\ \A n \in 1 .. Len(s) : a[n] = s[n]
      /\ \A k \in 1 .. Len(u) : a[Len(s) + k] = u[k]
  <2>1. u \in Seq(S)
    BY <1>2
  <2>2. /\ s \o u \in Seq(S) /\ Len(s \o u) = Len(s) + Len(u)
        /\ Len(s) \in Nat /\ Len(u) \in Nat
        /\ \A n \in 1 .. Len(s) : (s \o u)[n] = s[n]
        /\ \A k \in 1 .. Len(u) : (s \o u)[Len(s) + k] = u[k]
    BY <2>1, M!JoinFacts, SMT
  <2>. QED  BY <2>2, Zenon
<1>5. /\ b \in Seq(S) /\ Len(b) = Len(v) + Len(t)
      /\ \A n \in 1 .. Len(v) : b[n] = v[n]
      /\ \A k \in 1 .. Len(t) : b[Len(v) + k] = t[k]
  <2>1. v \in Seq(S)
    BY <1>3
  <2>2. /\ v \o t \in Seq(S) /\ Len(v \o t) = Len(v) + Len(t)
        /\ Len(v) \in Nat /\ Len(t) \in Nat
        /\ \A n \in 1 .. Len(v) : (v \o t)[n] = v[n]
        /\ \A k \in 1 .. Len(t) : (v \o t)[Len(v) + k] = t[k]
    BY <2>1, M!JoinFacts, SMT
  <2>. QED  BY <2>2, Zenon
<1> HIDE DEF a, b
<1>6. Len(a) = Len(s) + 1 + Len(t) /\ Len(b) = Len(a)
  BY <1>2, <1>3, <1>4, <1>5
<1>7. ASSUME NEW n \in 1 .. Len(a) PROVE a[n] = b[n]
  <2>1. CASE n \in 1 .. Len(s)
    <3>1. n \in 1 .. Len(v)
      BY <1>3, <2>1
    <3>. QED  BY <1>3, <1>4, <1>5, <2>1, <3>1
  <2>2. CASE n = Len(s) + 1
    <3>1. a[Len(s) + 1] = u[1]
      <4>1. 1 \in 1 .. Len(u)
        BY <1>2
      <4>. QED  BY <1>4, <4>1
    <3>2. b[n] = v[n]
      BY <1>3, <1>5, <2>2
    <3>. QED  BY <1>2, <1>3, <2>2, <3>1, <3>2
  <2>3. CASE n > Len(s) + 1
    <3>1. PICK k \in 1 .. Len(t) : n = Len(s) + 1 + k
      <4>1. n - (Len(s) + 1) \in 1 .. Len(t) /\ n = Len(s) + 1 + (n - (Len(s) + 1))
        BY <1>2, <1>3, <1>6, <2>3
      <4>. QED  BY <4>1
    <3>2. PICK j \in 1 .. Len(u) : j = 1 + k /\ n = Len(s) + j
      <4>1. 1 + k \in 1 .. Len(u) /\ n = Len(s) + (1 + k)
        BY <1>2, <1>3, <3>1
      <4>. QED  BY <4>1
    <3>3. a[n] = u[j]
      BY <1>4, <3>2
    <3>4. u[j] = t[k]
      BY <1>2, <3>2
    <3>5. n = Len(v) + k
      BY <1>3, <3>1
    <3>6. b[n] = t[k]
      BY <1>5, <3>5
    <3>. QED  BY <3>3, <3>4, <3>6
  <2>. QED  BY <1>3, <1>6, <2>1, <2>2, <2>3
<1>8. a = [n \in 1 .. Len(a) |-> a[n]] /\ b = [n \in 1 .. Len(b) |-> b[n]]
  BY <1>4, <1>5
<1>. QED  BY <1>6, <1>7, <1>8 DEF a, b, u, v

\* The match of an order begins with all of it to do.
LEMMA MatchBegins ==
  ASSUME NEW q, M!GoodBook(q), NEW o \in M!Order, \A x \in M!RestingIn(q) : x.id # o.id
  PROVE  Halfway(q, o, << >>, q, o)
<1>1. o \in M!Lot
  BY M!OrderIsLot
<1>2. o = [o EXCEPT !.quantity = o.quantity]
  BY DEF M!Order
<1>3. M!Fills(q, o) = << >> \o M!Fills(q, o)
  <2> DEFINE f == M!Fills(q, o)
  <2>1. f \in Seq(M!Trade)
    BY <1>1, M!FillsFacts
  <2> HIDE DEF f
  <2>2. f = << >> \o f
    BY <2>1
  <2>. QED  BY <2>2 DEF f
<1>. QED  BY <1>1, <1>2, <1>3 DEF Halfway

\* The trade of a fill is one of the specification.
LEMMA FillIsTrade ==
  ASSUME NEW q, M!GoodBook(q), NEW o \in M!Lot, NEW key, M!IsFront(q, o, key)
  PROVE  M!Fill(q, o, M!PlaceIn(key, 1)) =
           [maker_order_id       |-> q[key][1].id,
            taker_order_id       |-> o.id,
            price                |-> key[2],
            quantity             |-> M!FirstFill(q, o, key),
            aggressor_side       |-> o.side,
            maker_participant_id |-> q[key][1].participant_id,
            taker_participant_id |-> o.participant_id,
            symbol_id            |-> o.symbol_id]
<1>1. M!OrderAt(q, M!PlaceIn(key, 1)) = q[key][1]
      /\ M!Taken(q, o, M!PlaceIn(key, 1)) = M!FirstFill(q, o, key)
  BY M!FrontFacts
<1>2. M!PlaceIn(key, 1)[2] = key[2]
  BY DEF M!PlaceIn
<1> DEFINE place == M!PlaceIn(key, 1)
<1> HIDE DEF place
<1>. QED  BY <1>1, <1>2, Zenon DEF M!Fill, place

\* One fill takes the match a step further.
LEMMA MatchGoesOn ==
  ASSUME NEW q0, NEW o0, NEW done, NEW q, NEW o, Halfway(q0, o0, done, q, o),
         done \in Seq(Trade), NEW key, NEW k, NEW q2, NEW o2, M!FirstOf(q, o, key, k, q2, o2),
         NEW t \in Trade, t = M!Fill(q, o, M!PlaceIn(key, 1))
  PROVE  Halfway(q0, o0, Append(done, t), q2, o2)
<1> DEFINE rest == M!Fills(q2, o2)
           S == M!Trade \cup Trade
<1>1. /\ M!GoodBook(q2) /\ o2 \in M!Lot
      /\ M!Fills(q, o) = <<t>> \o rest
      /\ M!Left(q, o) = M!Left(q2, o2)
      /\ \A other \in M!Keys : M!Served(q2, o2, other) = M!Served(q, o, other)
  BY M!FillAndRest
<1>2. rest \in Seq(S) /\ done \in Seq(S) /\ t \in S
  <2>1. rest \in Seq(M!Trade)
    BY <1>1, M!FillsFacts
  <2> HIDE DEF rest
  <2>. QED  BY <2>1
<1>3. M!Fills(q0, o0) = Append(done, t) \o rest
  <2>1. M!Fills(q0, o0) = done \o (<<t>> \o rest)
    BY <1>1, Zenon DEF Halfway
  <2> HIDE DEF rest, S
  <2>. QED  BY <1>2, <2>1, JoinAgain
<1>4. M!GoodBook(q) /\ o \in M!Lot /\ o.quantity > 0 /\ M!IsFront(q, o, key)
      /\ k = M!FirstFill(q, o, key) /\ q2 = M!AfterFill(q, key, k) /\ o2 = M!LessTaker(o, k)
  BY DEF M!FirstOf
<1>5. key \in M!Keys /\ key[1] # o.side /\ q[key] # << >> /\ q[key][1] \in M!Order
  <2>1. key \in M!Keys /\ M!PlaceIn(key, 1) \in M!Reach(q, o)
    BY <1>4 DEF M!IsFront
  <2>2. PICK side, p, n : M!MetAt(q, o, M!PlaceIn(key, 1), side, p, n)
    BY <1>4, <2>1, M!ReachFacts
  <2>3. side = key[1] /\ side # o.side
    BY <2>2 DEF M!MetAt, M!PlaceIn
  <2>. QED  BY <1>4, <2>1, <2>3, M!FrontFacts
<1>6. k \in 1 .. q[key][1].quantity /\ k \in Nat /\ k <= o.quantity
  <2>1. o.quantity \in Nat /\ q[key][1].quantity \in Nat \ {0}
    BY <1>4, <1>5 DEF M!Lot, M!Order
  <2>. QED  BY <1>4, <2>1 DEF M!FirstFill
<1>7. \A other \in M!Keys : other # key => q2[other] = q[other]
  BY <1>4, <1>5, <1>6, M!AfterFillFacts DEF M!OnlyNew
<1>8. o2.side = o.side /\ o2 = [o0 EXCEPT !.quantity = o2.quantity]
  <2>1. o2.side = o.side /\ o2.quantity = o.quantity - k
    BY <1>4, <1>6, M!TakerLess
  <2>2. o = [o0 EXCEPT !.quantity = o.quantity] /\ o2 = [o EXCEPT !.quantity = @ - k]
    BY <1>4 DEF M!LessTaker, Halfway
  <2>3. o0 \in M!Order
    BY DEF Halfway
  <2>. QED  BY <2>1, <2>2, <2>3 DEF M!Order
<1>9. \A x \in M!Keys : x[1] = o2.side => q2[x] = q0[x]
  <2>1. \A x \in M!Keys : x[1] = o.side => q[x] = q0[x]
    BY DEF Halfway
  <2>. QED  BY <1>5, <1>7, <1>8, <2>1
<1>10. \A other \in M!Keys : M!Served(q0, o0, other) = M!Served(q2, o2, other)
  BY <1>1 DEF Halfway
<1>11. M!GoodBook(q0) /\ o0 \in M!Order /\ (\A x \in M!RestingIn(q0) : x.id # o0.id)
       /\ M!Left(q0, o0) = M!Left(q2, o2)
  BY <1>1 DEF Halfway
<1> HIDE DEF rest
<1>. QED  BY <1>1, <1>3, <1>8, <1>9, <1>10, <1>11 DEF Halfway, rest

\* The match is over when nothing is taken.
LEMMA MatchEnds ==
  ASSUME NEW q0, NEW o0, NEW done, NEW q, NEW o, Halfway(q0, o0, done, q, o),
         done \in Seq(Trade), \A x \in M!Reach(q, o) : M!Taken(q, o, x) = 0,
         q = [key \in M!Keys |-> q[key]]
  PROVE  /\ M!Fills(q0, o0) = done
         /\ M!Left(q0, o0) = o.quantity
         /\ o.quantity > 0 => M!AfterExecute(q0, o0) = M!AfterAdd(q, o)
         /\ ~(o.quantity > 0) => M!AfterExecute(q0, o0) = q
<1> DEFINE own == <<o.side, o.price>>
<1>1. /\ M!GoodBook(q0) /\ M!GoodBook(q) /\ o0 \in M!Order /\ o \in M!Lot
      /\ o = [o0 EXCEPT !.quantity = o.quantity]
      /\ M!Fills(q0, o0) = done \o M!Fills(q, o)
      /\ M!Left(q0, o0) = M!Left(q, o)
      /\ \A key \in M!Keys : M!Served(q0, o0, key) = M!Served(q, o, key)
      /\ \A key \in M!Keys : key[1] = o.side => q[key] = q0[key]
  BY DEF Halfway
<1>2. /\ M!Fills(q, o) = << >> /\ M!Left(q, o) = o.quantity
      /\ \A key \in M!Keys : M!Served(q, o, key) = q[key]
  BY <1>1, M!NoFill
<1>3. M!Fills(q0, o0) = done
  <2>1. done \o << >> = done
    OBVIOUS
  <2>. QED  BY <1>1, <1>2, <2>1, Zenon
<1>4. M!Left(q0, o0) = o.quantity
  BY <1>1, <1>2
<1>5. o0.side = o.side /\ o0.price = o.price
  BY <1>1 DEF M!Order
<1>6. DOMAIN q0 = M!Keys /\ DOMAIN q = M!Keys
  BY <1>1 DEF M!GoodBook, M!QueuesTyped
<1>7. M!AfterExecute(q0, o0) =
        [key \in M!Keys |->
           IF key # own THEN M!Served(q0, o0, key)
           ELSE IF o.quantity > 0 THEN Append(q0[key], [o0 EXCEPT !.quantity = o.quantity])
           ELSE q0[key]]
  BY <1>4, <1>5, <1>6, Zenon DEF M!AfterExecute
<1>8. \A key \in M!Keys : M!Served(q0, o0, key) = q[key]
  BY <1>1, <1>2
<1>9. own \in M!Keys => q0[own] = q[own]
  BY <1>1
<1>10. ASSUME o.quantity > 0 PROVE M!AfterExecute(q0, o0) = M!AfterAdd(q, o)
  <2>1. M!AfterAdd(q, o) = [key \in M!Keys |-> IF key = own THEN Append(q[key], o) ELSE q[key]]
    BY <1>6 DEF M!AfterAdd
  <2> HIDE DEF own
  <2>2. M!AfterExecute(q0, o0)
          = [key \in M!Keys |-> IF key = own THEN Append(q0[key], o) ELSE q[key]]
    BY <1>1, <1>7, <1>8, <1>10
  <2>. QED  BY <1>9, <2>1, <2>2
<1>11. ASSUME ~(o.quantity > 0) PROVE M!AfterExecute(q0, o0) = q
  <2> HIDE DEF own
  <2>2. M!AfterExecute(q0, o0) = [key \in M!Keys |-> IF key = own THEN q0[key] ELSE q[key]]
    BY <1>7, <1>8, <1>11
  <2>3. \A key \in M!Keys : (IF key = own THEN q0[key] ELSE q[key]) = q[key]
    BY <1>9
  <2>. QED  BY <2>2, <2>3
<1>. QED  BY <1>3, <1>4, <1>10, <1>11

----------------------------------------------------------------------------
(* The best level and what an order reaches *)

\* A resting order is an order the specification can match.
LEMMA RestingIsLot ==
  ASSUME NEW o \in RestingOrder, o.symbol_id = DefaultSymbol
  PROVE  o \in M!Lot
<1>1. o.price \in Int /\ o.quantity \in Nat
  <2>1. o.price \in Int
    BY PricesAreIntegers DEF RestingOrder
  <2>2. o.quantity \in Nat
    BY ConstantsAssumption DEF RestingOrder
  <2>. QED  BY <2>1, <2>2
<1>. QED  BY <1>1 DEF RestingOrder, M!Lot, M!Sides, Side

\* The two models agree on the sides and on what a limit admits.
LEMMA SameSide ==
  ASSUME NEW o \in M!Lot
  PROVE  /\ M!OtherSide(o.side) = Opposite(o.side) /\ Opposite(o.side) \in Side
         /\ \A p : M!Within(o, p) <=> Admits(o, p)
<1>1. o.side \in Side /\ M!Sides = Side
  BY DEF M!Lot, M!Sides, Side
<1>2. M!OtherSide(o.side) \in Side /\ M!OtherSide(o.side) # o.side
  BY <1>1, M!OtherSideIs
<1>3. Opposite(o.side) \in Side /\ Opposite(o.side) # o.side
  BY <1>1 DEF Opposite, Side
<1>4. M!OtherSide(o.side) = Opposite(o.side)
  BY <1>1, <1>2, <1>3 DEF Side
<1>5. ASSUME NEW p PROVE M!Within(o, p) <=> Admits(o, p)
  BY Zenon DEF M!Within, Admits
<1>. QED  BY <1>3, <1>4, <1>5

\* What an order reaches in the queues of a book: the nodes of the levels it admits.
LEMMA ReachIs ==
  ASSUME NEW b, NEW index, Good(b, index), NEW o \in M!Lot,
         NEW side, side = Opposite(o.side)
  PROVE  /\ \A x \in M!Reach(Queues(b), o) :
              \E p \in DOMAIN b[side] : \E n \in DOMAIN b[side][p].orders :
                x = <<side, p, n>> /\ Admits(o, p)
         /\ \A p \in DOMAIN b[side] : \A n \in DOMAIN b[side][p].orders :
              Admits(o, p) => <<side, p, n>> \in M!Reach(Queues(b), o)
<1> DEFINE q == Queues(b)
<1>1. M!GoodBook(q)
  BY BookIsGood
<1>2. side \in Side /\ M!OtherSide(o.side) = side /\ \A p : M!Within(o, p) <=> Admits(o, p)
  BY SameSide
<1>3. DOMAIN b[side] \subseteq Prices
  BY <1>2, LevelFacts
<1> HIDE DEF q
<1>4. \A x : x \in M!Reach(q, o) <=>
         \E p \in Prices : \E n \in DOMAIN q[<<side, p>>] : x = <<side, p, n>> /\ Admits(o, p)
  <2>1. \A x : x \in M!Reach(q, o) <=>
           \E p \in Prices : \E n \in DOMAIN q[<<M!OtherSide(o.side), p>>] :
             x = <<M!OtherSide(o.side), p, n>> /\ M!Within(o, p)
    BY <1>1, M!InReach, Zenon
  <2>. QED  BY <1>2, <2>1, Zenon
<1>5. ASSUME NEW x \in M!Reach(q, o)
      PROVE  \E p \in DOMAIN b[side] : \E n \in DOMAIN b[side][p].orders :
               x = <<side, p, n>> /\ Admits(o, p)
  <2>1. PICK p \in Prices : \E n \in DOMAIN q[<<side, p>>] : x = <<side, p, n>> /\ Admits(o, p)
    BY <1>4, Zenon
  <2>2. PICK n \in DOMAIN q[<<side, p>>] : x = <<side, p, n>> /\ Admits(o, p)
    BY <2>1, Zenon
  <2>3. p \in DOMAIN b[side]
    <3> SUFFICES ASSUME p \notin DOMAIN b[side] PROVE FALSE
      OBVIOUS
    <3>1. q[<<side, p>>] = << >>
      BY <1>2, QueueFacts DEF q
    <3>. QED  BY <2>2, <3>1
  <2>4. q[<<side, p>>] = b[side][p].orders
    BY <1>2, <2>3, QueueFacts DEF q
  <2>. QED  BY <2>2, <2>3, <2>4
<1>6. ASSUME NEW p \in DOMAIN b[side], NEW n \in DOMAIN b[side][p].orders, Admits(o, p)
      PROVE  <<side, p, n>> \in M!Reach(q, o)
  <2>1. p \in Prices
    BY <1>3
  <2>2. q[<<side, p>>] = b[side][p].orders
    BY <1>2, <2>1, QueueFacts DEF q
  <2>. QED  BY <1>4, <1>6, <2>1, <2>2, Zenon
<1>. QED  BY <1>5, <1>6, Zenon DEF q

\* The order at the front of the best level is the first an order meets.
LEMMA BestIsFront ==
  ASSUME NEW b, NEW index, Good(b, index), NEW o \in M!Lot,
         NEW side, side = Opposite(o.side), DOMAIN b[side] # {},
         NEW price, price = BestPrice(b, side), Admits(o, price)
  PROVE  M!IsFront(Queues(b), o, <<side, price>>)
<1>1. side \in Side /\ o.side \in Side /\ side # o.side /\ o.price \in Int
  <2>1. o.side \in Side /\ o.price \in Int
    BY DEF M!Lot, M!Sides, Side
  <2>. QED  BY <2>1 DEF Opposite, Side
<1>2. DOMAIN b[side] \subseteq Prices
  BY <1>1, LevelFacts
<1>3. price \in DOMAIN b[side] /\ \A q \in DOMAIN b[side] : ~Better(side, q, price)
  BY <1>1, <1>2, BestPriceFacts
<1>4. <<side, price>> \in M!Keys
  BY <1>1, <1>2, <1>3, QueueKeys
<1>5. 1 \in DOMAIN b[side][price].orders
  BY <1>1, <1>3, FrontFacts
<1>6. M!PlaceIn(<<side, price>>, 1) = <<side, price, 1>>
  BY DEF M!PlaceIn
<1>7. <<side, price, 1>> \in M!Reach(Queues(b), o)
  BY <1>3, <1>5, ReachIs
<1>8. ASSUME NEW x \in M!Reach(Queues(b), o), x # <<side, price, 1>>
      PROVE  M!Before(<<side, price, 1>>, x)
  <2>1. PICK p \in DOMAIN b[side] : \E n \in DOMAIN b[side][p].orders :
          x = <<side, p, n>> /\ Admits(o, p)
    <3>1. \A y \in M!Reach(Queues(b), o) :
            \E p \in DOMAIN b[side] : \E n \in DOMAIN b[side][p].orders :
              y = <<side, p, n>> /\ Admits(o, p)
      BY ReachIs
    <3>. QED  BY <3>1, Zenon
  <2>2. PICK n \in DOMAIN b[side][p].orders : x = <<side, p, n>>
    BY <2>1, Zenon
  <2>3. n \in Nat \ {0}
    <3>1. b[side][p].orders \in Seq(RestingOrder)
      BY <1>1, LevelFacts
    <3>. QED  BY <3>1
  <2>4. p \in Int /\ price \in Int
    BY <1>2, <1>3, PricesAreIntegers
  <2>5. ~Better(side, p, price)
    BY <1>3
  <2>6. p # price \/ n # 1
    BY <1>8, <2>2
  <2>7. x[1] = side /\ x[2] = p /\ x[3] = n
    BY <2>2
  <2>. QED  BY <1>1, <2>3, <2>4, <2>5, <2>6, <2>7 DEF Better, M!Before, Side
<1>. QED  BY <1>4, <1>6, <1>7, <1>8 DEF M!IsFront

\* An order that cannot match takes nothing.
LEMMA NothingTaken ==
  ASSUME NEW b, NEW index, Good(b, index), NEW o \in M!Lot,
         NEW side, side = Opposite(o.side),
         ~(o.quantity > 0) \/ DOMAIN b[side] = {} \/ ~Admits(o, BestPrice(b, side))
  PROVE  \A x \in M!Reach(Queues(b), o) : M!Taken(Queues(b), o, x) = 0
<1>1. M!GoodBook(Queues(b))
  BY BookIsGood
<1>2. CASE ~(o.quantity > 0)
  <2>1. o.quantity = 0
    BY <1>2 DEF M!Lot
  <2>2. ASSUME NEW x \in M!Reach(Queues(b), o) PROVE M!Taken(Queues(b), o, x) = 0
    <3>1. M!Taken(Queues(b), o, x) \in Nat /\ M!Taken(Queues(b), o, x) <= o.quantity
      BY <1>1, M!TakenFacts
    <3>. QED  BY <2>1, <3>1
  <2>. QED  BY <2>2
<1>3. CASE DOMAIN b[side] = {} \/ ~Admits(o, BestPrice(b, side))
  <2> SUFFICES ASSUME NEW x \in M!Reach(Queues(b), o) PROVE FALSE
    OBVIOUS
  <2>1. PICK p \in DOMAIN b[side] : \E n \in DOMAIN b[side][p].orders :
          x = <<side, p, n>> /\ Admits(o, p)
    <3>1. \A y \in M!Reach(Queues(b), o) :
            \E p \in DOMAIN b[side] : \E n \in DOMAIN b[side][p].orders :
              y = <<side, p, n>> /\ Admits(o, p)
      BY ReachIs
    <3>. QED  BY <3>1, Zenon
  <2>2. Admits(o, p)
    BY <2>1
  <2>3. side \in Side /\ o.side \in Side /\ o.price \in Int /\ side # o.side
    <3>1. o.side \in Side /\ o.price \in Int
      BY DEF M!Lot, M!Sides, Side
    <3>. QED  BY <3>1 DEF Opposite, Side
  <2>4. DOMAIN b[side] \subseteq Prices
    BY <2>3, LevelFacts
  <2>5. BestPrice(b, side) \in DOMAIN b[side] /\ ~Better(side, p, BestPrice(b, side))
    BY <2>3, <2>4, BestPriceFacts
  <2>6. p \in Int /\ BestPrice(b, side) \in Int
    BY <2>4, <2>5, PricesAreIntegers
  <2>. QED  BY <1>3, <2>2, <2>3, <2>5, <2>6 DEF Admits, Better, Side
<1>. QED  BY <1>2, <1>3

----------------------------------------------------------------------------
(* The refinement: what the history variables hold, and the operations     *)

\* The order a frame was called with.
Asked(f) == [f.order EXCEPT !.quantity = f.original]

\* What the loop keeps: the match asked for is the trades made and the match to make.
Looping ==
  /\ tradeHistory = tradesBefore \o frame[1].trades
  /\ frame[1].original > 0
  /\ Halfway(Queues(bookBefore), Asked(frame[1]), frame[1].trades, Queues(book), frame[1].order)

\* The history variables hold what the call in the frame found.
HInv ==
  /\ IInv
  /\ tradesBefore \in Seq(Trade)
  /\ Idle => bookBefore = book /\ tradesBefore = tradeHistory
  /\ ~Idle => Looping

\* No level's total is below one of its orders: only a total that has wrapped is.
TotalsCover ==
  \A side \in Side : \A p \in DOMAIN book[side] : \A n \in DOMAIN book[side][p].orders :
    book[side][p].orders[n].quantity <= book[side][p].total_quantity

\* What the operations of the specification are, in terms of the book before.
LEMMA RestingIdsAre == M!RestingIds = {o.id : o \in M!RestingIn(Queues(bookBefore))}
  BY Zenon DEF M!RestingIds, M!Resting, Queues

\* The same for adding,
LEMMA AddIs ==
  ASSUME NEW o
  PROVE  M!Add(o) <=>
           /\ tradesBefore' = tradesBefore
           /\ IF M!Acceptable(o)
                THEN Queues(bookBefore)' = M!AfterAdd(Queues(bookBefore), o) /\ Returns(TRUE)
                ELSE Returns(FALSE) /\ Queues(bookBefore)' = Queues(bookBefore)
  BY Zenon DEF M!Add, M!Answers, Returns, Queues

\* for cancelling,
LEMMA CancelIs ==
  ASSUME NEW id
  PROVE  M!Cancel(id) <=>
           /\ tradesBefore' = tradesBefore
           /\ IF id \in M!RestingIds
                THEN Queues(bookBefore)' = M!AfterCancel(Queues(bookBefore), id) /\ Returns(TRUE)
                ELSE Returns(FALSE) /\ Queues(bookBefore)' = Queues(bookBefore)
  BY Zenon DEF M!Cancel, M!Answers, Returns, Queues

\* and for amending.
LEMMA ModifyIs ==
  ASSUME NEW id, NEW price, NEW quantity
  PROVE  M!Modify(id, price, quantity) <=>
           /\ tradesBefore' = tradesBefore
           /\ IF id \in M!RestingIds /\ quantity # 0 /\ price > 0
                THEN /\ Queues(bookBefore)'
                          = M!AfterModify(Queues(bookBefore), id, price, quantity)
                     /\ Returns(TRUE)
                ELSE Returns(FALSE) /\ Queues(bookBefore)' = Queues(bookBefore)
  BY Zenon DEF M!Modify, M!Answers, Returns, Queues

\* An idle engine and its specification accept the same orders.
LEMMA SameAnswer ==
  ASSUME HInv, Idle, NEW o \in Order
  PROVE  M!Acceptable(o) <=> ~Refused(orderIndex, o)
<1>1. M!RestingIds = DOMAIN orderIndex
  BY RestingIdsAre, RestingIds DEF HInv, IInv
<1>2. o.quantity \in Nat /\ o.price \in Int
  <2>1. o.quantity \in 0 .. QuantityLimit - 1
    BY OrderFacts
  <2>2. o.price \in Prices
    BY DEF Order
  <2>3. o.quantity \in Nat
    BY <2>1, ConstantsAssumption
  <2>4. o.price \in Int
    BY <2>2, PricesAreIntegers
  <2>. QED  BY <2>3, <2>4
<1>. QED  BY <1>1, <1>2 DEF M!Acceptable, Refused

\* An operation that leaves the engine idle is seen by the history at once.
LEMMA SeenAtOnce ==
  ASSUME HInv, Idle, frame' = << >>, Remember
  PROVE  /\ bookBefore = book /\ tradesBefore = tradeHistory
         /\ bookBefore' = book' /\ tradesBefore' = tradeHistory'
         /\ Queues(bookBefore)' = Queues(book')
  BY DEF HInv, Remember, Queues

\* A call that is rejected shows the caller its answer and nothing else.
LEMMA RejectionSeen ==
  ASSUME HInv, Idle, Rejects, Remember
  PROVE  /\ tradesBefore' = tradesBefore /\ Returns(FALSE)
         /\ Queues(bookBefore)' = Queues(bookBefore)
<1>1. frame' = << >>
  BY DEF Rejects, Idle
<1>. QED  BY <1>1, SeenAtOnce DEF Rejects

\* addOrder is the addition of the specification.
LEMMA AddOrderAdds ==
  ASSUME HInv, NEW o \in Order, AddOrder(o), Remember
  PROVE  M!Add(o)
<1>1. Idle
  BY DEF AddOrder
<1>2. M!Acceptable(o) <=> ~Refused(orderIndex, o)
  BY <1>1, SameAnswer
<1>3. CASE Refused(orderIndex, o) /\ Rejects
  BY <1>1, <1>2, <1>3, RejectionSeen, AddIs, Zenon
<1>4. CASE ~Refused(orderIndex, o) /\ Rests(o) /\ Returns(TRUE) /\ UNCHANGED <<tradeHistory, frame>>
  <2>1. /\ bookBefore = book /\ tradesBefore' = tradesBefore
        /\ Queues(bookBefore)' = Queues(book')
    BY <1>1, <1>4, SeenAtOnce DEF Idle
  <2>2. Queues(book') = M!AfterAdd(Queues(book), o)
    <3>1. o \in RestingOrder /\ Good(book, orderIndex) /\ book' = Enqueued(book, o)
      BY <1>4, OrderFacts DEF HInv, IInv, Rests
    <3>. QED  BY <3>1, EnqueuesOrder
  <2>. QED  BY <1>2, <1>4, <2>1, <2>2, AddIs, Zenon
<1>. QED  BY <1>3, <1>4 DEF AddOrder

\* cancelOrder is its cancellation.
LEMMA CancelOrderCancels ==
  ASSUME HInv, NEW id \in OrderIds, CancelOrder(id), Remember
  PROVE  M!Cancel(id)
<1>1. Idle
  BY DEF CancelOrder
<1>2. M!RestingIds = DOMAIN orderIndex
  BY <1>1, RestingIdsAre, RestingIds DEF HInv, IInv
<1>3. CASE id \notin DOMAIN orderIndex /\ Rejects
  BY <1>1, <1>2, <1>3, RejectionSeen, CancelIs, Zenon
<1>4. CASE /\ id \in DOMAIN orderIndex
           /\ book' = Dequeued(book, orderIndex[id], id)
           /\ Returns(TRUE)
           /\ UNCHANGED <<tradeHistory, frame>>
  <2>1. /\ bookBefore = book /\ tradesBefore' = tradesBefore
        /\ Queues(bookBefore)' = Queues(book')
    BY <1>1, <1>4, SeenAtOnce DEF Idle
  <2>2. Queues(book') = M!AfterCancel(Queues(book), id)
    BY <1>4, DequeuesOrder DEF HInv, IInv
  <2>. QED  BY <1>2, <1>4, <2>1, <2>2, CancelIs, Zenon
<1>. QED  BY <1>3, <1>4 DEF CancelOrder

\* The three ways of modifyOrder all amend the order.
LEMMA ModifyOrderModifies ==
  ASSUME HInv, TotalsCover, NEW id \in OrderIds, NEW price \in Prices,
         NEW quantity \in Quantities, ModifyOrder(id, price, quantity), Remember
  PROVE  M!Modify(id, price, quantity)
<1>1. Idle
  BY DEF ModifyOrder
<1>2. M!RestingIds = DOMAIN orderIndex /\ Good(book, orderIndex)
  BY <1>1, RestingIdsAre, RestingIds DEF HInv, IInv
<1>3. price \in Int /\ quantity \in Nat
  BY PricesAreIntegers, ConstantsAssumption
<1>4. BadAmendment(price, quantity) <=> ~(quantity # 0 /\ price > 0)
  BY <1>3 DEF BadAmendment
<1>5. CASE id \notin DOMAIN orderIndex \/ BadAmendment(price, quantity)
  <2>1. Rejects
    BY <1>5 DEF ModifyOrder
  <2>. QED  BY <1>1, <1>2, <1>4, <1>5, <2>1, RejectionSeen, ModifyIs, Zenon
<1>6. CASE id \in DOMAIN orderIndex /\ ~BadAmendment(price, quantity)
  <2> SUFFICES /\ Returns(TRUE) /\ tradesBefore' = tradesBefore
               /\ Queues(bookBefore)' = M!AfterModify(Queues(bookBefore), id, price, quantity)
    <3>1. id \in M!RestingIds /\ quantity # 0 /\ price > 0
      BY <1>2, <1>4, <1>6
    <3>. QED  BY <3>1, ModifyIs, Zenon
  <2> SUFFICES /\ Returns(TRUE) /\ UNCHANGED <<tradeHistory, frame>>
               /\ Queues(book') = M!AfterModify(Queues(book), id, price, quantity)
    BY <1>1, SeenAtOnce DEF Idle
  <2>1. PICK side, p, n, o : IsNode(book, orderIndex, id, side, p, n, o)
    BY <1>2, <1>6, NodeIs
  <2> DEFINE location == orderIndex[id]
             level    == book[location.side][location.price]
  <2>2. /\ location.side = side /\ location.price = p /\ side \in Side /\ p \in DOMAIN book[side]
        /\ n = PositionOf(level.orders, id) /\ n \in DOMAIN book[side][p].orders
        /\ o = level.orders[n] /\ level = book[side][p]
    BY <2>1 DEF IsNode
  <2>3. o.quantity \in Nat
    <3>1. o \in RestingOrder
      BY <2>1 DEF IsNode
    <3>. QED  BY <3>1, ConstantsAssumption DEF RestingOrder
  <2>4. \/ /\ p = price /\ o.quantity = quantity
           /\ Returns(TRUE) /\ UNCHANGED <<book, orderIndex, tradeHistory, frame>>
        \/ /\ p = price /\ quantity < o.quantity
           /\ ReducesInPlace(location, quantity, id)
        \/ /\ p # price \/ quantity > o.quantity
           /\ Reinserts(location, o, price, quantity)
    BY <1>6, <2>2, Zenon DEF ModifyOrder
  <2>5. CASE /\ p = price /\ o.quantity = quantity
             /\ Returns(TRUE) /\ UNCHANGED <<book, orderIndex, tradeHistory, frame>>
    <3>1. M!AfterModify(Queues(book), id, p, o.quantity) = Queues(book)
      BY <1>2, <1>6, <2>1, KeepsOrder
    <3>. QED  BY <2>5, <3>1
  <2>6. CASE /\ p = price /\ quantity < o.quantity
             /\ ReducesInPlace(location, quantity, id)
    <3> DEFINE reduction == o.quantity - quantity
               new == [total_quantity |-> level.total_quantity - reduction,
                       orders |-> Resized(level.orders, n, quantity)]
    <3>1. ~(level.total_quantity < reduction)
      <4>1. o.quantity <= level.total_quantity
        BY <2>2 DEF TotalsCover
      <4>2. level.total_quantity \in Int
        <5>1. level.total_quantity \in 0 .. TotalLimit - 1
          BY <1>2, <2>2, LevelFacts
        <5>. QED  BY <5>1, ConstantsAssumption
      <4> HIDE DEF level
      <4>. QED  BY <1>3, <2>3, <4>1, <4>2
    <3>2. /\ book' = StoreLevel(book, location.side, location.price, new)
          /\ Returns(TRUE) /\ UNCHANGED <<orderIndex, tradeHistory, frame>>
      BY <2>2, <2>6, <3>1, Zenon DEF ReducesInPlace
    <3>3. new = [total_quantity |-> level.total_quantity - reduction,
                 orders |-> Resized(book[side][p].orders, n, quantity)]
      BY <2>2
    <3> HIDE DEF new, reduction, level
    <3>4. quantity <= o.quantity
      BY <1>3, <2>3, <2>6
    <3>5. Queues(StoreLevel(book, side, p, new)) = M!AfterModify(Queues(book), id, p, quantity)
      BY <1>2, <1>3, <1>6, <2>1, <3>3, <3>4, ResizesOrder
    <3>. QED  BY <2>2, <2>6, <3>2, <3>5
  <2>7. CASE /\ p # price \/ quantity > o.quantity
             /\ Reinserts(location, o, price, quantity)
    <3> DEFINE new   == Amended(o, price, quantity)
               index == WithoutEntry(orderIndex, o.id)
    <3>1. o \in RestingOrder /\ o.id = id /\ o.symbol_id = DefaultSymbol /\ quantity # 0
      BY <1>6, <2>1 DEF IsNode, BadAmendment
    <3>2. /\ new \in RestingOrder /\ new.id = id /\ new.price = price
          /\ new.quantity > 0 /\ new.symbol_id = DefaultSymbol
      BY <3>1, ModifiedFacts
    <3>3. new.id \notin DOMAIN index
      <4>1. DOMAIN index = DOMAIN orderIndex \ {o.id}
        BY WithoutEntryFacts
      <4> HIDE DEF new, index
      <4>. QED  BY <3>1, <3>2, <4>1
    <3>4. ~Refused(index, new)
      <4>1. new.quantity \in Nat
        BY <3>2, ConstantsAssumption DEF RestingOrder
      <4> HIDE DEF new, index
      <4>. QED  BY <1>3, <1>4, <1>6, <3>2, <3>3, <4>1 DEF Refused
    <3>5. /\ book' = Enqueued(Dequeued(book, location, o.id), new)
          /\ Returns(TRUE) /\ UNCHANGED <<tradeHistory, frame>>
      BY <2>7, <3>4, Zenon DEF Reinserts
    <3>6. Queues(Enqueued(Dequeued(book, orderIndex[id], id), Amended(o, price, quantity)))
            = M!AfterModify(Queues(book), id, price, quantity)
      <4>1. price # p \/ quantity > o.quantity
        BY <2>7
      <4>. QED  BY <1>2, <1>6, <2>1, <3>1, <4>1, ReinsertsOrder
    <3>. QED  BY <3>1, <3>5, <3>6, Zenon
  <2>. QED  BY <2>4, <2>5, <2>6, <2>7
<1>. QED  BY <1>5, <1>6

----------------------------------------------------------------------------
(* The refinement: the loop                                                *)

\* An idle engine has no history to remember.
LEMMA IdleKeepsHistory ==
  ASSUME IInv', frame' = << >>, Remember
  PROVE  HInv'
<1>1. bookBefore' = book' /\ tradesBefore' = tradeHistory'
  BY DEF Remember
<1>2. tradesBefore' \in Seq(Trade)
  BY <1>1 DEF IInv, OtherTypes
<1>. QED  BY <1>1, <1>2 DEF HInv, Idle

\* What an iteration leaves of the frame.
TradedMore(f, g, fill, trade) ==
  /\ g[1].order = M!LessTaker(f[1].order, fill)
  /\ g[1].trades = Append(f[1].trades, trade)
  /\ g[1].original = f[1].original
  /\ Asked(g[1]) = Asked(f[1])

\* The frame of a call.
LEMMA OnlyFrame ==
  ASSUME NEW f \in Seq(Frame), Len(f) = 1
  PROVE  f[1] \in Frame
  OBVIOUS

\* Advanced does just that.
LEMMA AdvancedIs ==
  ASSUME NEW f \in Seq(Frame), Len(f) = 1, NEW trade \in Trade,
         NEW fill \in 0 .. f[1].order.quantity
  PROVE  TradedMore(f, Advanced(f, fill, trade), fill, trade)
<1>1. f[1] \in Frame
  BY OnlyFrame, Zenon
<1> DEFINE g == Advanced(f, fill, trade)
           order  == [f[1].order EXCEPT !.quantity = f[1].order.quantity - fill]
           trades == Append(f[1].trades, trade)
           entry  == [f[1] EXCEPT !.order = order, !.trades = trades]
<1>. f[1].order \in RestingOrder
  BY <1>1 DEF Frame
<1>2. g = [f EXCEPT ![1] = entry]
  BY DEF Advanced
<1>3. order = M!LessTaker(f[1].order, fill)
  BY DEF M!LessTaker
<1>4. [order EXCEPT !.quantity = f[1].original] = [f[1].order EXCEPT !.quantity = f[1].original]
  BY <1>1 DEF RestingOrder
<1> HIDE DEF order, trades
<1>5. entry.order = order /\ entry.trades = trades /\ entry.original = f[1].original
  BY <1>1 DEF Frame
<1> HIDE DEF entry, g
<1>6. g[1] = entry
  BY <1>2
<1>7. Asked(g[1]) = Asked(f[1])
  BY <1>4, <1>5, <1>6 DEF Asked
<1>8. TradedMore(f, g, fill, trade)
  BY <1>3, <1>5, <1>6, <1>7, Zenon DEF TradedMore, trades
<1>. QED  BY <1>8 DEF g

\* Joining one more.
OneMore(s, t, e) == Append(s \o t, e) = s \o Append(t, e)

\* Appending to the second of two sequences appends to both.
LEMMA JoinsOne ==
  ASSUME NEW S, NEW s \in Seq(S), NEW t \in Seq(S), NEW e \in S
  PROVE  OneMore(s, t, e)
<1>1. << >> \in Seq(S) /\ <<e>> \in Seq(S)
  OBVIOUS
<1> DEFINE a == Append(s \o t, e)
           b == s \o Append(t, e)
<1>2. /\ s \o t \in Seq(S) /\ Len(s \o t) = Len(s) + Len(t)
      /\ Len(s) \in Nat /\ Len(t) \in Nat
      /\ \A n \in 1 .. Len(s) : (s \o t)[n] = s[n]
      /\ \A k \in 1 .. Len(t) : (s \o t)[Len(s) + k] = t[k]
  BY M!JoinFacts
<1>3. PICK j : j = s \o t
  OBVIOUS
<1>4. PICK u : u = Append(t, e)
  OBVIOUS
<1>5. u \in Seq(S) /\ Len(u) = Len(t) + 1 /\ u[Len(t) + 1] = e /\ \A k \in 1 .. Len(t) : u[k] = t[k]
  BY <1>2, <1>4
<1>6. /\ s \o u \in Seq(S) /\ Len(s \o u) = Len(s) + Len(u)
      /\ Len(s) \in Nat /\ Len(u) \in Nat
      /\ \A n \in 1 .. Len(s) : (s \o u)[n] = s[n]
      /\ \A k \in 1 .. Len(u) : (s \o u)[Len(s) + k] = u[k]
  <2>1. u \in Seq(S)
    BY <1>5
  <2>. QED  BY <2>1, M!JoinFacts
<1>7. PICK v : v = s \o u
  OBVIOUS
<1>8. PICK w : w = Append(j, e)
  OBVIOUS
<1>9. /\ j \in Seq(S) /\ Len(j) = Len(s) + Len(t)
      /\ \A n \in 1 .. Len(s) : j[n] = s[n]
      /\ \A k \in 1 .. Len(t) : j[Len(s) + k] = t[k]
  BY <1>2, <1>3
<1>10. /\ w \in Seq(S) /\ Len(w) = Len(s) + Len(t) + 1 /\ w[Len(s) + Len(t) + 1] = e
       /\ \A n \in 1 .. Len(s) + Len(t) : w[n] = j[n]
  BY <1>2, <1>8, <1>9
<1>11. /\ v \in Seq(S) /\ Len(v) = Len(s) + Len(t) + 1
       /\ \A n \in 1 .. Len(s) : v[n] = s[n]
       /\ \A k \in 1 .. Len(t) + 1 : v[Len(s) + k] = u[k]
  BY <1>2, <1>5, <1>6, <1>7
<1>12. ASSUME NEW n \in 1 .. Len(s) + Len(t) + 1 PROVE v[n] = w[n]
  <2>1. CASE n \in 1 .. Len(s)
    <3>1. n \in 1 .. Len(s) + Len(t)
      BY <1>2, <2>1
    <3>. QED  BY <1>9, <1>10, <1>11, <2>1, <3>1
  <2>2. CASE n > Len(s) /\ n <= Len(s) + Len(t)
    <3>1. PICK k \in 1 .. Len(t) : n = Len(s) + k
      <4>1. n - Len(s) \in 1 .. Len(t) /\ n = Len(s) + (n - Len(s))
        BY <1>2, <2>2
      <4>. QED  BY <4>1
    <3>2. k \in 1 .. Len(t) + 1 /\ n \in 1 .. Len(s) + Len(t)
      BY <1>2, <2>2
    <3>3. v[n] = u[k] /\ u[k] = t[k]
      BY <1>5, <1>11, <3>1, <3>2
    <3>4. w[n] = j[n] /\ j[n] = t[k]
      BY <1>9, <1>10, <3>1, <3>2
    <3>. QED  BY <3>3, <3>4
  <2>3. CASE n = Len(s) + Len(t) + 1
    <3>1. PICK k \in 1 .. Len(t) + 1 : k = Len(t) + 1 /\ n = Len(s) + k
      BY <1>2, <2>3
    <3>2. v[n] = u[k]
      BY <1>11, <3>1
    <3>. QED  BY <1>5, <1>10, <2>3, <3>1, <3>2
  <2>. QED  BY <1>2, <2>1, <2>2, <2>3
<1>13. v = [n \in 1 .. Len(v) |-> v[n]] /\ w = [n \in 1 .. Len(w) |-> w[n]]
  BY <1>10, <1>11
<1>14. v = w
  BY <1>10, <1>11, <1>12, <1>13
<1>15. Append(s \o t, e) = s \o Append(t, e)
  BY <1>3, <1>4, <1>7, <1>8, <1>14, Zenon
<1>. QED  BY <1>15, Zenon DEF OneMore

\* An accepted order begins its match; a refused one is answered at once.
LEMMA StartExecuteBegins ==
  ASSUME HInv, NEW o \in Order, StartExecute(o), Remember
  PROVE  /\ HInv'
         /\ \/ M!Execute(o)
            \/ UNCHANGED <<bookBefore, tradesBefore, result>>
<1>1. Idle /\ UNCHANGED <<book, orderIndex, tradeHistory>>
  BY DEF StartExecute
<1>2. IInv'
  BY StartExecuteKeeps DEF HInv
<1>3. CASE /\ Refused(orderIndex, o)
           /\ result' = [accepted |-> FALSE, executed |-> 0,
                         remaining |-> o.quantity, trades |-> << >>]
           /\ UNCHANGED frame
  <2>1. frame' = << >>
    BY <1>1, <1>3 DEF Idle
  <2>2. bookBefore' = bookBefore /\ tradesBefore' = tradesBefore
    BY <1>1, <2>1, SeenAtOnce
  <2>3. ~M!Acceptable(o)
    BY <1>1, <1>3, SameAnswer
  <2>4. M!Execute(o)
    BY <1>3, <2>2, <2>3, Zenon DEF M!Execute
  <2>. QED  BY <1>2, <2>1, <2>4, IdleKeepsHistory
<1>4. CASE /\ ~Refused(orderIndex, o)
           /\ frame' = <<[order |-> o, original |-> o.quantity, trades |-> << >>]>>
           /\ UNCHANGED result
  <2> DEFINE entry == [order |-> o, original |-> o.quantity, trades |-> << >>]
  <2>1. entry.order = o /\ entry.original = o.quantity /\ entry.trades = << >>
    OBVIOUS
  <2>2. frame' # << >> /\ frame'[1] = entry
    BY <1>4
  <2>3. bookBefore' = book /\ tradesBefore' = tradesBefore /\ tradesBefore = tradeHistory
        /\ bookBefore = book
    BY <1>1, <2>2 DEF Remember, HInv
  <2>4. o \in RestingOrder /\ o.quantity > 0 /\ o.symbol_id = DefaultSymbol
    <3>1. o \in RestingOrder /\ o.quantity \in 0 .. QuantityLimit - 1
      BY OrderFacts
    <3>2. o.quantity \in Nat
      BY <3>1, ConstantsAssumption
    <3>. QED  BY <1>4, <3>1, <3>2 DEF Refused
  <2>5. Good(book, orderIndex)
    BY DEF HInv, IInv
  <2>6. M!GoodBook(Queues(book)) /\ o \in M!Order
    BY <2>4, <2>5, BookIsGood, RestingIsOrder
  <2>7. \A x \in M!RestingIn(Queues(book)) : x.id # o.id
    <3>1. {x.id : x \in M!RestingIn(Queues(book))} = DOMAIN orderIndex
      BY <2>5, RestingIds
    <3>2. o.id \notin DOMAIN orderIndex
      BY <1>4 DEF Refused
    <3>. QED  BY <3>1, <3>2
  <2>8. Halfway(Queues(book), o, << >>, Queues(book), o)
    BY <2>6, <2>7, MatchBegins
  <2>9. Asked(entry) = o
    BY <2>1, <2>4 DEF Asked, RestingOrder
  <2>10. tradeHistory = tradesBefore \o << >>
    BY <2>3 DEF HInv
  <2> HIDE DEF entry
  <2>11. Looping'
    BY <1>1, <2>1, <2>2, <2>3, <2>4, <2>8, <2>9, <2>10, Zenon DEF Looping
  <2>12. HInv'
    BY <1>2, <2>2, <2>3, <2>11 DEF HInv, Idle
  <2>. QED  BY <1>4, <2>3, <2>12
<1>. QED  BY <1>3, <1>4 DEF StartExecute

\* An iteration of the loop is a fill of the match.
LEMMA MatchStepGoesOn ==
  ASSUME HInv, MatchStep, Remember
  PROVE  HInv' /\ UNCHANGED <<bookBefore, tradesBefore, result>>
<1> DEFINE taker == frame[1].order
           side  == Opposite(taker.side)
           price == BestPrice(book, side)
           maker == book[side][price].orders[1]
           fill  == FillQuantity(taker, maker)
           trade == [maker_order_id       |-> maker.id,
                     taker_order_id       |-> taker.id,
                     price                |-> maker.price,
                     quantity             |-> fill,
                     aggressor_side       |-> taker.side,
                     maker_participant_id |-> maker.participant_id,
                     taker_participant_id |-> taker.participant_id,
                     symbol_id            |-> taker.symbol_id]
           q     == Queues(book)
           key   == <<side, price>>
<1>1. IInv /\ IInv' /\ ~Idle /\ frame' # << >>
  <2>1. IInv
    BY DEF HInv
  <2>. QED  BY <2>1, MatchStepKeeps, MatchStepLoops DEF Idle
<1>2. UNCHANGED <<bookBefore, tradesBefore, result>>
  BY <1>1, Zenon DEF Remember, MatchStep
<1>3. taker.quantity > 0 /\ DOMAIN book[side] # {} /\ Admits(taker, price)
  BY Zenon DEF MatchStep, CanMatch
<1>4. /\ book' = FrontFilled(book, side, price, fill)
      /\ tradeHistory' = Append(tradeHistory, trade)
      /\ frame' = Advanced(frame, fill, trade)
  BY Zenon DEF MatchStep
<1>5. /\ Good(book, orderIndex) /\ taker \in RestingOrder /\ taker.symbol_id = DefaultSymbol
      /\ Len(frame) = 1 /\ frame \in Seq(Frame) /\ frame[1].trades \in Seq(Trade)
      /\ taker.quantity \in Nat /\ taker.quantity \in 0 .. QuantityLimit - 1
  <2>1. taker.quantity \in 0 .. QuantityLimit - 1
    BY <1>1, FrameFacts
  <2>2. taker.quantity \in Nat
    BY <2>1, ConstantsAssumption
  <2>. QED  BY <1>1, <2>1, <2>2, FrameFacts DEF IInv, OtherTypes
<1>6. side \in Side
  BY DEF Opposite, Side
<1>7. taker \in M!Lot
  BY <1>5, RestingIsLot
<1>8. M!IsFront(q, taker, key)
  <2> HIDE DEF taker
  <2>. QED  BY <1>3, <1>5, <1>7, BestIsFront
<1>9. price \in DOMAIN book[side]
  <2>1. DOMAIN book[side] \subseteq Prices
    BY <1>5, <1>6, LevelFacts
  <2>. QED  BY <1>3, <1>6, <2>1, BestPriceFacts
<1>10. maker \in RestingOrder /\ maker.quantity \in 1 .. QuantityLimit - 1 /\ maker.price = price
  <2> HIDE DEF side, price
  <2>1. book[side][price].orders[1] \in RestingOrder
        /\ book[side][price].orders[1].quantity \in 1 .. QuantityLimit - 1
        /\ book[side][price].orders[1].price = price
    BY <1>5, <1>6, <1>9, FrontFacts
  <2>. QED  BY <2>1
<1>11. q[key] = book[side][price].orders
  <2>1. price \in Prices
    BY <1>5, <1>6, <1>9, LevelFacts
  <2>. QED  BY <1>6, <1>9, <2>1, QueueFacts
<1>12. fill \in 1 .. maker.quantity /\ fill \in 0 .. taker.quantity /\ fill \in 0 .. QuantityLimit - 1
  <2> HIDE DEF taker, maker
  <2>. QED  BY <1>3, <1>5, <1>10, ConstantsAssumption DEF FillQuantity
<1>13. trade \in Trade
  <2>1. /\ maker.id \in OrderIds /\ maker.price \in Prices /\ maker.participant_id \in Participants
        /\ taker.id \in OrderIds /\ taker.participant_id \in Participants
        /\ taker.symbol_id \in Symbols /\ taker.side \in Side
    <3> HIDE DEF taker, maker
    <3>. QED  BY <1>5, <1>10, SMTT(30) DEF RestingOrder
  <2> HIDE DEF maker, taker, fill
  <2>. QED  BY <1>12, <2>1, Zenon DEF Trade
<1>14. Queues(book') = M!AfterFill(q, key, fill)
  <2> HIDE DEF fill, price, side
  <2>1. fill \in 1 .. book[side][price].orders[1].quantity
    BY <1>12
  <2>. QED  BY <1>4, <1>5, <1>6, <1>9, <2>1, FillsFront
<1>15. fill = M!FirstFill(q, taker, key)
  BY <1>11 DEF M!FirstFill, FillQuantity
<1>16. trade = M!Fill(q, taker, M!PlaceIn(key, 1))
  <2>1. M!GoodBook(q)
    BY <1>5, BookIsGood
  <2>2. key[2] = price
    OBVIOUS
  <2> HIDE DEF taker, q, fill, key, price
  <2>3. M!Fill(q, taker, M!PlaceIn(key, 1)) =
           [maker_order_id       |-> q[key][1].id,
            taker_order_id       |-> taker.id,
            price                |-> key[2],
            quantity             |-> M!FirstFill(q, taker, key),
            aggressor_side       |-> taker.side,
            maker_participant_id |-> q[key][1].participant_id,
            taker_participant_id |-> taker.participant_id,
            symbol_id            |-> taker.symbol_id]
    BY <1>7, <1>8, <2>1, FillIsTrade
  <2>4. q[key][1] = maker
    BY <1>11
  <2>. QED  BY <1>10, <1>15, <2>2, <2>3, <2>4, Zenon
<1>17. /\ frame'[1].order = M!LessTaker(taker, fill)
       /\ frame'[1].trades = Append(frame[1].trades, trade)
       /\ frame'[1].original = frame[1].original
       /\ Asked(frame'[1]) = Asked(frame[1])
  <2>1. fill \in 0 .. frame[1].order.quantity /\ frame \in Seq(Frame) /\ Len(frame) = 1
    BY <1>5, <1>12
  <2> HIDE DEF fill, trade
  <2>2. TradedMore(frame, Advanced(frame, fill, trade), fill, trade)
    BY <1>13, <2>1, AdvancedIs
  <2>. QED  BY <1>4, <2>2, Zenon DEF TradedMore
<1>18. M!FirstOf(q, taker, key, fill, Queues(book'), M!LessTaker(taker, fill))
  <2>1. M!GoodBook(q)
    BY <1>5, BookIsGood
  <2> HIDE DEF taker, q, fill, key, price
  <2>. QED  BY <1>3, <1>7, <1>8, <1>14, <1>15, <2>1 DEF M!FirstOf
<1>19. Looping
  BY <1>1 DEF HInv
<1>20. Halfway(Queues(bookBefore), Asked(frame[1]), Append(frame[1].trades, trade),
               Queues(book'), M!LessTaker(taker, fill))
  <2>1. Halfway(Queues(bookBefore), Asked(frame[1]), frame[1].trades, q, taker)
    BY <1>19 DEF Looping
  <2> HIDE DEF taker, q, fill, key, price, trade
  <2>. QED  BY <1>5, <1>13, <1>16, <1>18, <2>1, MatchGoesOn
<1>21. tradeHistory' = tradesBefore \o Append(frame[1].trades, trade)
  <2>1. tradeHistory = tradesBefore \o frame[1].trades
    BY <1>19 DEF Looping
  <2>2. tradesBefore \in Seq(Trade)
    BY DEF HInv
  <2>3. frame[1].trades \in Seq(Trade)
    BY <1>5
  <2> HIDE DEF trade
  <2>4. Append(tradesBefore \o frame[1].trades, trade) = tradesBefore \o Append(frame[1].trades, trade)
    <3>1. OneMore(tradesBefore, frame[1].trades, trade)
      BY <1>13, <2>2, <2>3, JoinsOne
    <3>. QED  BY <3>1, Zenon DEF OneMore
  <2>. QED  BY <1>4, <2>1, <2>4, Zenon
<1>22. Looping'
  <2>1. frame[1].original > 0
    BY <1>19 DEF Looping
  <2> HIDE DEF taker, q, fill, key, price, trade
  <2>. QED  BY <1>2, <1>17, <1>20, <1>21, <2>1, Zenon DEF Looping
<1>23. tradesBefore' \in Seq(Trade)
  BY <1>2 DEF HInv
<1>24. HInv'
  BY <1>1, <1>22, <1>23 DEF HInv, Idle
<1>. QED  BY <1>2, <1>24

----------------------------------------------------------------------------
(* The refinement: every step                                              *)

\* A match of the specification, in terms of the book before.
LEMMA ExecuteIs ==
  ASSUME NEW o, M!Acceptable(o), NEW fills, fills = M!Fills(Queues(bookBefore), o),
         NEW left, left = M!Left(Queues(bookBefore), o),
         tradesBefore' = tradesBefore \o fills,
         Queues(bookBefore)' = M!AfterExecute(Queues(bookBefore), o),
         result' = [accepted |-> TRUE, executed |-> o.quantity - left,
                    remaining |-> left, trades |-> fills]
  PROVE  M!Execute(o)
  BY Zenon DEF M!Execute, Queues

\* When the loop is over the whole match has been made.
LEMMA FinishExecuteExecutes ==
  ASSUME HInv, FinishExecute, Remember
  PROVE  HInv' /\ \E o \in M!Request : M!Execute(o)
<1> DEFINE o  == frame[1].order
           o0 == Asked(frame[1])
           q  == Queues(book)
           q0 == Queues(bookBefore)
           done == frame[1].trades
           refused == o.quantity > 0 /\ Refused(orderIndex, o)
<1>1. /\ ~Idle /\ ~CanMatch(o)
      /\ IF o.quantity > 0 /\ ~refused THEN Rests(o) ELSE UNCHANGED <<book, orderIndex>>
      /\ result' = [accepted |-> ~refused, executed |-> frame[1].original - o.quantity,
                    remaining |-> o.quantity, trades |-> done]
      /\ frame' = << >> /\ tradeHistory' = tradeHistory
  BY Zenon DEF FinishExecute
<1>2. IInv /\ IInv' /\ Looping
  <2>1. IInv /\ Looping
    BY <1>1 DEF HInv
  <2>. QED  BY <2>1, FinishExecuteKeeps
<1>3. HInv'
  BY <1>1, <1>2, IdleKeepsHistory
<1>4. /\ Good(book, orderIndex) /\ o \in RestingOrder /\ o.symbol_id = DefaultSymbol
      /\ o.price > 0 /\ o.id \notin DOMAIN orderIndex /\ done \in Seq(Trade)
      /\ o.quantity \in Nat /\ frame[1].original \in Quantities
  <2>1. o.quantity \in 0 .. QuantityLimit - 1
    BY <1>1, <1>2, FrameFacts
  <2>2. o.quantity \in Nat
    BY <2>1, ConstantsAssumption
  <2>3. frame[1].original \in Quantities
    BY <1>1, <1>2, FrameFacts DEF Frame
  <2>. QED  BY <1>1, <1>2, <2>2, <2>3, FrameFacts DEF IInv
<1>5. ~refused
  <2>1. o.price \in Int
    BY <1>1, <1>2, FrameFacts
  <2> HIDE DEF o
  <2>. QED  BY <1>4, <2>1 DEF Refused
<1>6. o \in M!Lot
  BY <1>4, RestingIsLot
<1>7. \A x \in M!Reach(q, o) : M!Taken(q, o, x) = 0
  <2>1. ~(o.quantity > 0) \/ DOMAIN book[Opposite(o.side)] = {}
        \/ ~Admits(o, BestPrice(book, Opposite(o.side)))
    BY <1>1, Zenon DEF CanMatch
  <2> HIDE DEF o
  <2>. QED  BY <1>4, <1>6, <2>1, NothingTaken
<1>8. Halfway(q0, o0, done, q, o)
  BY <1>2 DEF Looping
<1>9. q = [key \in M!Keys |-> q[key]]
  BY QueueKeys DEF Queues
<1>10. /\ M!Fills(q0, o0) = done
       /\ M!Left(q0, o0) = o.quantity
       /\ o.quantity > 0 => M!AfterExecute(q0, o0) = M!AfterAdd(q, o)
       /\ ~(o.quantity > 0) => M!AfterExecute(q0, o0) = q
  <2> HIDE DEF q, q0, o, o0, done
  <2>. QED  BY <1>4, <1>7, <1>8, <1>9, MatchEnds
<1>11. Queues(book') = M!AfterExecute(q0, o0)
  <2>1. CASE o.quantity > 0
    <3>1. book' = Enqueued(book, o)
      BY <1>1, <1>5, <2>1, Zenon DEF Rests
    <3>2. Queues(Enqueued(book, o)) = M!AfterAdd(q, o)
      <4> HIDE DEF o
      <4>. QED  BY <1>4, EnqueuesOrder
    <3>. QED  BY <1>10, <2>1, <3>1, <3>2, Zenon
  <2>2. CASE ~(o.quantity > 0)
    <3>1. book' = book
      BY <1>1, <2>2, Zenon
    <3>. QED  BY <1>10, <2>2, <3>1, Zenon
  <2>. QED  BY <2>1, <2>2
<1>12. bookBefore' = book' /\ tradesBefore' = tradeHistory'
  BY <1>1 DEF Remember
<1>13. tradesBefore' = tradesBefore \o done
  BY <1>1, <1>2, <1>12, Zenon DEF Looping
<1>14. /\ o0.quantity = frame[1].original /\ o0.price = o.price /\ o0.symbol_id = DefaultSymbol
       /\ o0 \in M!Request
  BY <1>4 DEF Asked, RestingOrder, M!Request, M!Sides, Side
<1>15. M!Acceptable(o0)
  <2>1. \A x \in M!RestingIn(q0) : x.id # o0.id
    BY <1>8 DEF Halfway
  <2>2. M!RestingIds = {x.id : x \in M!RestingIn(q0)}
    BY RestingIdsAre
  <2>3. frame[1].original > 0
    BY <1>2 DEF Looping
  <2> HIDE DEF q0, o0, o
  <2>4. o0.id \notin M!RestingIds
    BY <2>1, <2>2
  <2>. QED  BY <1>4, <1>14, <2>3, <2>4 DEF M!Acceptable
<1>16. result' = [accepted |-> TRUE, executed |-> o0.quantity - o.quantity,
                  remaining |-> o.quantity, trades |-> done]
  <2>1. (~refused) = TRUE
    BY <1>5
  <2> HIDE DEF refused, o, o0, done
  <2>. QED  BY <1>1, <1>14, <2>1, Zenon
<1>17. Queues(bookBefore)' = M!AfterExecute(q0, o0)
  BY <1>11, <1>12, Zenon DEF Queues
<1>18. M!Execute(o0)
  <2> HIDE DEF q, o, o0, done
  <2>. QED  BY <1>10, <1>13, <1>15, <1>16, <1>17, ExecuteIs
<1>. QED  BY <1>3, <1>14, <1>18

\* resetOrderBook is the reset of the specification.
LEMMA ResetOrderBookResets ==
  ASSUME HInv, ResetOrderBook, Remember
  PROVE  HInv' /\ M!Reset
<1>1. /\ Idle /\ book' = [side \in Side |-> << >>] /\ tradeHistory' = << >> /\ Returns(TRUE)
      /\ frame' = << >>
  BY DEF ResetOrderBook, Idle
<1>2. HInv'
  BY <1>1, ResetOrderBookKeeps, IdleKeepsHistory DEF HInv
<1>3. bookBefore' = book' /\ tradesBefore' = << >>
  BY <1>1 DEF Remember
<1>4. Queues(bookBefore)' = [key \in DOMAIN Queues(bookBefore) |-> << >>]
  <2>1. DOMAIN Queues(bookBefore) = Side \X Prices
    BY DEF Queues
  <2>2. ASSUME NEW key \in Side \X Prices
        PROVE  LevelAt(book', key[1], key[2]).orders = << >>
    <3>1. book'[key[1]] = << >>
      BY <1>1
    <3>2. DOMAIN << >> = {}
      OBVIOUS
    <3>. QED  BY <3>1, <3>2 DEF LevelAt, EmptyLevel
  <2>3. Queues(bookBefore)' = [key \in Side \X Prices |-> LevelAt(book', key[1], key[2]).orders]
    BY <1>3, Zenon DEF Queues
  <2>. QED  BY <2>1, <2>2, <2>3
<1>5. M!Reset
  BY <1>1, <1>3, <1>4, Zenon DEF M!Reset, M!Answers, Returns, Queues
<1>. QED  BY <1>2, <1>5

\* The history begins with the empty book.
LEMMA HistoryBegins == HistoryInit => HInv /\ M!Init
<1> SUFFICES ASSUME HistoryInit PROVE HInv /\ M!Init
  OBVIOUS
<1>1. Init /\ bookBefore = book /\ tradesBefore = tradeHistory
  BY DEF HistoryInit
<1>2. IInv /\ Idle
  BY <1>1, InitHolds DEF Init, Idle
<1>3. HInv
  BY <1>1, <1>2 DEF HInv, IInv, OtherTypes
<1>4. Queues(bookBefore) = [key \in Side \X Prices |-> << >>]
  <2>1. ASSUME NEW key \in Side \X Prices
        PROVE  LevelAt(bookBefore, key[1], key[2]).orders = << >>
    <3>1. bookBefore[key[1]] = << >>
      BY <1>1 DEF Init
    <3>2. DOMAIN << >> = {}
      OBVIOUS
    <3>. QED  BY <3>1, <3>2 DEF LevelAt, EmptyLevel
  <2>. QED  BY <2>1 DEF Queues
<1>5. M!Sides = Side
  BY DEF M!Sides, Side
<1>6. M!Init
  BY <1>1, <1>4, <1>5, Zenon DEF M!Init, Init, Queues
<1>. QED  BY <1>3, <1>6

\* Every step of the engine is a step of the specification, or none.
LEMMA StepRefines ==
  ASSUME HInv, TotalsCover, [HistoryNext]_historyVars
  PROVE  HInv' /\ [M!Next]_(M!specVars)
<1>1. ASSUME UNCHANGED <<bookBefore, tradesBefore, result>> PROVE UNCHANGED M!specVars
  BY <1>1, Zenon DEF M!specVars
<1>2. CASE UNCHANGED historyVars
  <2>1. HInv'
    BY <1>2 DEF historyVars, HInv, IInv, OtherTypes, FrameInv, Idle, Looping
  <2>. QED  BY <1>1, <1>2, <2>1 DEF historyVars
<1>3. CASE HistoryNext
  <2>0. Remember /\ Next /\ IInv /\ IInv'
    <3>1. Remember /\ Next /\ IInv
      BY <1>3 DEF HistoryNext, HInv
    <3>. QED  BY <3>1, StepKeepsIInv
  <2>r. M!Request = Order
    BY DEF M!Request, Order, M!Sides, Side
  <2>1. ASSUME NEW o \in Order, AddOrder(o) PROVE HInv' /\ M!Next
    <3>1. M!Add(o)
      BY <2>0, <2>1, AddOrderAdds
    <3>2. frame' = << >>
      BY <2>1 DEF AddOrder, Idle, Rejects
    <3>. QED  BY <2>0, <2>r, <3>1, <3>2, IdleKeepsHistory DEF M!Next
  <2>2. ASSUME NEW id \in OrderIds, CancelOrder(id) PROVE HInv' /\ M!Next
    <3>1. M!Cancel(id)
      BY <2>0, <2>2, CancelOrderCancels
    <3>2. frame' = << >>
      BY <2>2 DEF CancelOrder, Idle, Rejects
    <3>. QED  BY <2>0, <3>1, <3>2, IdleKeepsHistory DEF M!Next
  <2>3. ASSUME NEW id \in OrderIds, NEW price \in Prices, NEW quantity \in Quantities,
               ModifyOrder(id, price, quantity)
        PROVE  HInv' /\ M!Next
    <3>1. M!Modify(id, price, quantity)
      BY <2>0, <2>3, ModifyOrderModifies
    <3>2. frame' = << >>
      BY <2>3, Zenon DEF ModifyOrder, Idle, Rejects, ReducesInPlace, Reinserts
    <3>. QED  BY <2>0, <3>1, <3>2, IdleKeepsHistory DEF M!Next
  <2>4. ASSUME NEW o \in Order, StartExecute(o)
        PROVE  HInv' /\ (M!Next \/ UNCHANGED M!specVars)
    <3>1. HInv' /\ (M!Execute(o) \/ UNCHANGED <<bookBefore, tradesBefore, result>>)
      BY <2>0, <2>4, StartExecuteBegins
    <3>. QED  BY <1>1, <2>r, <3>1 DEF M!Next
  <2>5. CASE MatchStep
    BY <1>1, <2>0, <2>5, MatchStepGoesOn
  <2>6. CASE FinishExecute
    BY <2>0, <2>6, FinishExecuteExecutes DEF M!Next
  <2>7. CASE ResetOrderBook
    BY <2>0, <2>7, ResetOrderBookResets DEF M!Next
  <2>. QED  BY <2>0, <2>1, <2>2, <2>3, <2>4, <2>5, <2>6, <2>7 DEF Next
<1>. QED  BY <1>2, <1>3

\* The engine implements the specification, as M states it.
THEOREM ImplementsM == HistorySpec /\ []TotalsCover => M!Spec
<1>1. HInv /\ TotalsCover /\ [HistoryNext]_historyVars => HInv' /\ [M!Next]_(M!specVars)
  BY StepRefines
<1>. QED  BY <1>1, HistoryBegins, PTL DEF HistorySpec, M!Spec

----------------------------------------------------------------------------
(* From M to Abstract: the operators are the same                          *)

\* Abstract and M instantiate the same specification: their operators agree.
LEMMA SameFills ==
  ASSUME NEW q, NEW o
  PROVE  Abstract!Fills(q, o) = M!Fills(q, o)
<1> DEFINE served == {x \in Abstract!Reach(q, o) : Abstract!Taken(q, o, x) > 0}
           nth(n) == CHOOSE x \in served :
                       Abstract!Cardinality({y \in served : Abstract!Before(y, x)}) = n - 1
           met == {x \in M!Reach(q, o) : M!Taken(q, o, x) > 0}
           nthMet(n) == CHOOSE x \in met : M!Cardinality({y \in met : M!Before(y, x)}) = n - 1
<1>1. served = met
  BY Zenon DEF Abstract!Taken, M!Taken, Abstract!Reach, M!Reach, Abstract!Places, M!Places,
    Abstract!OtherSide, M!OtherSide, Abstract!Sides, M!Sides, Abstract!Before, M!Before,
    Abstract!SumFunction, M!SumFunction, Abstract!SumFunctionOnSet, M!SumFunctionOnSet,
    Abstract!FoldFunctionOnSet, M!FoldFunctionOnSet, Abstract!MapThenFoldSet,
    M!MapThenFoldSet, Abstract!OrderAt, M!OrderAt, Abstract!Max, M!Max, Abstract!Min,
    M!Min
<1>2. ASSUME NEW place PROVE Abstract!Fill(q, o, place) = M!Fill(q, o, place)
  BY Zenon DEF Abstract!Fill, M!Fill, Abstract!OrderAt, M!OrderAt, Abstract!Taken, M!Taken,
    Abstract!Reach, M!Reach, Abstract!Places, M!Places, Abstract!OtherSide, M!OtherSide,
    Abstract!Sides, M!Sides, Abstract!Before, M!Before, Abstract!SumFunction,
    M!SumFunction, Abstract!SumFunctionOnSet, M!SumFunctionOnSet,
    Abstract!FoldFunctionOnSet, M!FoldFunctionOnSet, Abstract!MapThenFoldSet,
    M!MapThenFoldSet, Abstract!Max, M!Max, Abstract!Min, M!Min
<1>3. Abstract!Fills(q, o)
        = [n \in 1 .. Abstract!Cardinality(served) |-> Abstract!Fill(q, o, nth(n))]
  BY Zenon DEF Abstract!Fills
<1>4. M!Fills(q, o) = [n \in 1 .. M!Cardinality(met) |-> M!Fill(q, o, nthMet(n))]
  BY Zenon DEF M!Fills
<1> HIDE DEF served, met
<1>5. ASSUME NEW n PROVE nth(n) = nthMet(n)
  BY <1>1, Zenon DEF Abstract!Cardinality, M!Cardinality, Abstract!Before, M!Before
<1>6. Abstract!Cardinality(served) = M!Cardinality(met)
  BY <1>1, Zenon DEF Abstract!Cardinality, M!Cardinality
<1> HIDE DEF nth, nthMet
<1>. QED  BY <1>2, <1>3, <1>4, <1>5, <1>6, Zenon

LEMMA SameLeft ==
  ASSUME NEW q, NEW o
  PROVE  Abstract!Left(q, o) = M!Left(q, o)
  BY Zenon DEF Abstract!Left, M!Left, Abstract!SumFunction, M!SumFunction,
    Abstract!SumFunctionOnSet, M!SumFunctionOnSet, Abstract!FoldFunctionOnSet,
    M!FoldFunctionOnSet, Abstract!MapThenFoldSet, M!MapThenFoldSet, Abstract!Reach,
    M!Reach, Abstract!Places, M!Places, Abstract!OtherSide, M!OtherSide, Abstract!Sides,
    M!Sides, Abstract!Taken, M!Taken, Abstract!Before, M!Before, Abstract!OrderAt,
    M!OrderAt, Abstract!Max, M!Max, Abstract!Min, M!Min

LEMMA SameAfterExecute ==
  ASSUME NEW q, NEW o
  PROVE  Abstract!AfterExecute(q, o) = M!AfterExecute(q, o)
  BY Zenon DEF Abstract!AfterExecute, M!AfterExecute, Abstract!Left, M!Left, Abstract!SumFunction,
    M!SumFunction, Abstract!SumFunctionOnSet, M!SumFunctionOnSet,
    Abstract!FoldFunctionOnSet, M!FoldFunctionOnSet, Abstract!MapThenFoldSet,
    M!MapThenFoldSet, Abstract!Reach, M!Reach, Abstract!Places, M!Places,
    Abstract!OtherSide, M!OtherSide, Abstract!Sides, M!Sides, Abstract!Taken, M!Taken,
    Abstract!Before, M!Before, Abstract!OrderAt, M!OrderAt, Abstract!Max, M!Max,
    Abstract!Min, M!Min, Abstract!Served, M!Served

LEMMA SameAcceptable ==
  ASSUME NEW o
  PROVE  Abstract!Acceptable(o) <=> M!Acceptable(o)
  BY Zenon DEF Abstract!Acceptable, M!Acceptable, Abstract!RestingIds, M!RestingIds,
    Abstract!Resting, M!Resting, Abstract!RestingIn, M!RestingIn, Abstract!Places,
    M!Places, Abstract!OrderAt, M!OrderAt

LEMMA SameAdd ==
  ASSUME NEW o
  PROVE  Abstract!Add(o) <=> M!Add(o)
  BY Zenon DEF Abstract!Add, M!Add, Abstract!Acceptable, M!Acceptable, Abstract!RestingIds,
    M!RestingIds, Abstract!Resting, M!Resting, Abstract!RestingIn, M!RestingIn,
    Abstract!Places, M!Places, Abstract!OrderAt, M!OrderAt, Abstract!AfterAdd,
    M!AfterAdd, Abstract!Answers, M!Answers

LEMMA SameCancel ==
  ASSUME NEW id
  PROVE  Abstract!Cancel(id) <=> M!Cancel(id)
  BY Zenon DEF Abstract!Cancel, M!Cancel, Abstract!RestingIds, M!RestingIds, Abstract!Resting,
    M!Resting, Abstract!RestingIn, M!RestingIn, Abstract!Places, M!Places,
    Abstract!OrderAt, M!OrderAt, Abstract!AfterCancel, M!AfterCancel, Abstract!PlaceOf,
    M!PlaceOf, Abstract!RemoveAt, M!RemoveAt, Abstract!Answers, M!Answers

LEMMA SameModify ==
  ASSUME NEW id, NEW price, NEW quantity
  PROVE  Abstract!Modify(id, price, quantity) <=> M!Modify(id, price, quantity)
  BY Zenon DEF Abstract!Modify, M!Modify, Abstract!RestingIds, M!RestingIds, Abstract!Resting,
    M!Resting, Abstract!RestingIn, M!RestingIn, Abstract!Places, M!Places,
    Abstract!OrderAt, M!OrderAt, Abstract!AfterModify, M!AfterModify, Abstract!PlaceOf,
    M!PlaceOf, Abstract!ReplaceAt, M!ReplaceAt, Abstract!AfterCancel, M!AfterCancel,
    Abstract!RemoveAt, M!RemoveAt, Abstract!Answers, M!Answers

LEMMA SameExecute ==
  ASSUME NEW o
  PROVE  Abstract!Execute(o) <=> M!Execute(o)
  BY SameAcceptable, SameFills, SameLeft, SameAfterExecute, Zenon
     DEF Abstract!Execute, M!Execute

LEMMA SameReset ==
  Abstract!Reset <=> M!Reset
  BY Zenon DEF Abstract!Reset, M!Reset, Abstract!Answers, M!Answers

LEMMA SameInit ==
  Abstract!Init <=> M!Init
  BY Zenon DEF Abstract!Init, M!Init, Abstract!Sides, M!Sides

LEMMA SameRequest == Abstract!Request = M!Request
  BY Zenon DEF Abstract!Request, M!Request, Abstract!Sides, M!Sides

LEMMA SameNext == Abstract!Next <=> M!Next
  BY SameAdd, SameCancel, SameModify, SameExecute, SameReset, SameRequest, Zenon
     DEF Abstract!Next, M!Next

\* The engine implements MatchingSpec wherever the totals cover their orders.
THEOREM Implements == HistorySpec /\ []TotalsCover => KeepsPriceTimePriority
<1>1. M!Init => Abstract!Init
  BY SameInit
<1>2. [M!Next]_(M!specVars) => [Abstract!Next]_(Abstract!specVars)
  BY SameNext, Zenon DEF Abstract!specVars, M!specVars
<1>. QED  BY <1>1, <1>2, ImplementsM, PTL DEF M!Spec, Abstract!Spec, KeepsPriceTimePriority

----------------------------------------------------------------------------
(* The totals of the levels                                                *)

\* The quantity left of the orders in s.
SumOf(s) == SumFunction(Sizes(s))

\* The sum of OrderBook is that of the specification.
LEMMA SameSum ==
  ASSUME NEW f
  PROVE  SumFunction(f) = M!SumFunctionOnSet(f, DOMAIN f)
  BY Zenon DEF SumFunction, SumFunctionOnSet, FoldFunctionOnSet, MapThenFoldSet,
     M!SumFunctionOnSet, M!FoldFunctionOnSet, M!MapThenFoldSet

\* The sum over a sequence of orders.
LEMMA SumOfIs ==
  ASSUME NEW s \in Seq(RestingOrder)
  PROVE  /\ SumOf(s) = M!SumFunctionOnSet(Sizes(s), 1 .. Len(s))
         /\ DOMAIN Sizes(s) = 1 .. Len(s)
         /\ \A n \in 1 .. Len(s) : Sizes(s)[n] = s[n].quantity /\ Sizes(s)[n] \in Nat
<1>1. DOMAIN Sizes(s) = 1 .. Len(s)
  BY DEF Sizes
<1>2. ASSUME NEW n \in 1 .. Len(s) PROVE Sizes(s)[n] = s[n].quantity /\ Sizes(s)[n] \in Nat
  <2>1. s[n] \in RestingOrder
    OBVIOUS
  <2>2. s[n].quantity \in Nat
    BY <2>1, ConstantsAssumption DEF RestingOrder
  <2>. QED  BY <2>2 DEF Sizes
<1>. QED  BY <1>1, <1>2, SameSum DEF SumOf

\* A sum over more than none: the one at n and the others.
Split(f, m, g, n) ==
  /\ m \in Nat /\ n \in 1 .. m + 1
  /\ \A k \in 1 .. m + 1 : f[k] \in Nat
  /\ \A k \in 1 .. n - 1 : g[k] = f[k]
  /\ \A k \in n .. m : g[k] = f[k + 1]

\* The sum without the value at n, the values after it moved down.
LEMMA SumWithout ==
  ASSUME NEW f, NEW m, NEW g, NEW n, Split(f, m, g, n)
  PROVE  M!SumFunctionOnSet(f, 1 .. m + 1) = f[n] + M!SumFunctionOnSet(g, 1 .. m)
<1> DEFINE h == [k \in 1 .. m |-> IF k < n THEN k ELSE k + 1]
           others == (1 .. m + 1) \ {n}
<1>1. /\ m \in Nat /\ n \in 1 .. m + 1
      /\ \A k \in 1 .. m + 1 : f[k] \in Int
      /\ \A k \in 1 .. m : g[k] = f[h[k]] /\ g[k] \in Int
  <2>1. ASSUME NEW k \in 1 .. m PROVE g[k] = f[h[k]] /\ g[k] \in Int
    <3>1. m \in Nat /\ n \in 1 .. m + 1
      BY DEF Split
    <3>2. CASE k < n
      BY <3>1, <3>2 DEF Split
    <3>3. CASE ~(k < n)
      <4>1. k \in n .. m /\ k + 1 \in 1 .. m + 1
        BY <3>1, <3>3
      <4>. QED  BY <3>1, <3>3, <4>1 DEF Split
    <3>. QED  BY <3>2, <3>3
  <2>. QED  BY <2>1 DEF Split
<1>2. M!IsFiniteSet(1 .. m + 1) /\ M!IsFiniteSet(1 .. m)
  BY <1>1, M!FS_Interval
<1>3. M!SumFunctionOnSet(f, 1 .. m + 1) = f[n] + M!SumFunctionOnSet(f, others)
  <2> DEFINE S == 1 .. m + 1
  <2>1. M!IsFiniteSet(S) /\ n \in S /\ \A k \in S : f[k] \in Int
    BY <1>1, <1>2
  <2> HIDE DEF S
  <2>2. M!SumFunctionOnSet(f, S) = f[n] + M!SumFunctionOnSet(f, S \ {n})
    BY <2>1, M!SumTakes
  <2>. QED  BY <2>2 DEF S
<1>4. {h[k] : k \in 1 .. m} = others
  <2>1. ASSUME NEW k \in 1 .. m PROVE h[k] \in others
    BY <1>1
  <2>2. ASSUME NEW j \in others PROVE \E k \in 1 .. m : h[k] = j
    <3>1. j \in 1 .. m + 1 /\ j # n
      OBVIOUS
    <3>2. CASE j < n
      <4>1. j \in 1 .. m /\ h[j] = j
        BY <1>1, <3>1, <3>2
      <4>. QED  BY <4>1
    <3>3. CASE ~(j < n)
      <4>1. j - 1 \in 1 .. m /\ ~(j - 1 < n)
        BY <1>1, <3>1, <3>3
      <4>2. h[j - 1] = j
        BY <1>1, <3>1, <4>1
      <4>. QED  BY <4>1, <4>2
    <3>. QED  BY <3>2, <3>3
  <2>. QED  BY <2>1, <2>2
<1>5. \A j, k \in 1 .. m : h[j] = h[k] => j = k
  BY <1>1
<1> HIDE DEF h
<1>6. M!SumFunctionOnSet(f, {h[k] : k \in 1 .. m}) = M!SumFunctionOnSet(g, 1 .. m)
  <2> DEFINE S == 1 .. m
  <2>1. M!IsFiniteSet(S) /\ (\A k \in S : g[k] \in Int /\ f[h[k]] = g[k])
        /\ \A j, k \in S : h[j] = h[k] => j = k
    BY <1>1, <1>2, <1>5
  <2> HIDE DEF S
  <2>2. M!SumFunctionOnSet(f, {h[k] : k \in S}) = M!SumFunctionOnSet(g, S)
    BY <2>1, M!SumMatched
  <2>. QED  BY <2>2 DEF S
<1>. QED  BY <1>3, <1>4, <1>6

\* So is any sum of natural numbers.
LEMMA NaturalSum ==
  ASSUME NEW f, NEW m \in Nat, \A k \in 1 .. m : f[k] \in Nat
  PROVE  M!SumFunctionOnSet(f, 1 .. m) \in Nat
<1> DEFINE S == 1 .. m
<1>1. M!IsFiniteSet(S)
  BY M!FS_Interval
<1>2. \A k \in S : f[k] \in Nat
  OBVIOUS
<1> HIDE DEF S
<1>3. M!SumFunctionOnSet(f, S) \in Int
  BY <1>1, <1>2, M!SumIsInteger
<1>4. M!SumFunctionOnSet(f, {}) <= M!SumFunctionOnSet(f, S)
  BY <1>1, <1>2, M!SumOfSubset
<1>5. M!SumFunctionOnSet(f, {}) = 0
  BY M!SumOfNone
<1>. QED  BY <1>3, <1>4, <1>5 DEF S

\* A sum of quantities is a natural number.
LEMMA SumOfNatural ==
  ASSUME NEW s \in Seq(RestingOrder)
  PROVE  SumOf(s) \in Nat
  BY SumOfIs, NaturalSum

\* No orders add up to nothing.
LEMMA SumOfEmpty == SumOf(<< >>) = 0
<1>1. DOMAIN Sizes(<< >>) = {}
  BY DEF Sizes
<1>. QED  BY <1>1, SameSum, M!SumOfNone DEF SumOf

\* One order fewer.
LEMMA SumRemoved ==
  ASSUME NEW s \in Seq(RestingOrder), NEW n \in DOMAIN s
  PROVE  SumOf(s) = s[n].quantity + SumOf(WithoutPosition(s, n))
<1> DEFINE w == WithoutPosition(s, n)
<1>1. /\ w \in Seq(RestingOrder) /\ DOMAIN w = 1 .. Len(s) - 1
      /\ \A i \in 1 .. Len(s) - 1 : w[i] = IF i < n THEN s[i] ELSE s[i + 1]
  BY WithoutPositionFacts
<1> HIDE DEF w
<1>2. PICK m \in Nat : Len(s) = m + 1 /\ Len(w) = m /\ n \in 1 .. m + 1
  <2>1. Len(s) \in Nat /\ n \in 1 .. Len(s) /\ Len(w) = Len(s) - 1
    BY <1>1
  <2>. QED  BY <2>1
<1>3. Split(Sizes(s), m, Sizes(w), n)
  <2>1. \A k \in 1 .. m + 1 : Sizes(s)[k] = s[k].quantity /\ Sizes(s)[k] \in Nat
    BY <1>2, SumOfIs
  <2>2. \A k \in 1 .. m : Sizes(w)[k] = w[k].quantity
    BY <1>1, <1>2, SumOfIs
  <2>3. ASSUME NEW k \in 1 .. n - 1 PROVE Sizes(w)[k] = Sizes(s)[k]
    <3>1. k \in 1 .. m /\ k \in 1 .. m + 1 /\ k < n /\ k \in 1 .. Len(s) - 1
      BY <1>2
    <3>. QED  BY <1>1, <2>1, <2>2, <3>1
  <2>4. ASSUME NEW k \in n .. m PROVE Sizes(w)[k] = Sizes(s)[k + 1]
    <3>1. k \in 1 .. m /\ k + 1 \in 1 .. m + 1 /\ ~(k < n) /\ k \in 1 .. Len(s) - 1
      BY <1>2
    <3>. QED  BY <1>1, <2>1, <2>2, <3>1
  <2>. QED  BY <1>2, <2>1, <2>3, <2>4 DEF Split
<1>4. M!SumFunctionOnSet(Sizes(s), 1 .. m + 1)
        = Sizes(s)[n] + M!SumFunctionOnSet(Sizes(w), 1 .. m)
  BY <1>3, SumWithout
<1>5. SumOf(s) = M!SumFunctionOnSet(Sizes(s), 1 .. m + 1) /\ Sizes(s)[n] = s[n].quantity
  BY <1>2, SumOfIs
<1>6. SumOf(w) = M!SumFunctionOnSet(Sizes(w), 1 .. m)
  BY <1>1, <1>2, SumOfIs
<1>. QED  BY <1>4, <1>5, <1>6 DEF w

\* One order more, at the back.
LEMMA SumAppended ==
  ASSUME NEW s \in Seq(RestingOrder), NEW o \in RestingOrder
  PROVE  SumOf(Append(s, o)) = SumOf(s) + o.quantity
<1> DEFINE t == Append(s, o)
<1>1. /\ t \in Seq(RestingOrder) /\ Len(t) = Len(s) + 1 /\ Len(s) \in Nat
      /\ t[Len(s) + 1] = o /\ \A i \in 1 .. Len(s) : t[i] = s[i]
  OBVIOUS
<1> HIDE DEF t
<1>2. PICK m \in Nat : Len(s) = m /\ Len(t) = m + 1
  BY <1>1
<1>3. Split(Sizes(t), m, Sizes(s), m + 1)
  <2>1. \A k \in 1 .. m + 1 : Sizes(t)[k] = t[k].quantity /\ Sizes(t)[k] \in Nat
    BY <1>1, <1>2, SumOfIs
  <2>2. \A k \in 1 .. m : Sizes(s)[k] = s[k].quantity
    BY <1>2, SumOfIs
  <2>. QED  BY <1>1, <1>2, <2>1, <2>2 DEF Split
<1>4. M!SumFunctionOnSet(Sizes(t), 1 .. m + 1)
        = Sizes(t)[m + 1] + M!SumFunctionOnSet(Sizes(s), 1 .. m)
  BY <1>3, SumWithout
<1>5. SumOf(t) = M!SumFunctionOnSet(Sizes(t), 1 .. m + 1) /\ Sizes(t)[m + 1] = o.quantity
  BY <1>1, <1>2, SumOfIs
<1>6. SumOf(s) = M!SumFunctionOnSet(Sizes(s), 1 .. m)
  BY <1>2, SumOfIs
<1>7. o.quantity \in Nat /\ SumOf(s) \in Nat
  <2>1. o.quantity \in Nat
    BY ConstantsAssumption DEF RestingOrder
  <2>. QED  BY <2>1, SumOfNatural
<1>. QED  BY <1>4, <1>5, <1>6, <1>7 DEF t

\* The order at n with another quantity.
LEMMA SumResized ==
  ASSUME NEW s \in Seq(RestingOrder), NEW n \in DOMAIN s, NEW quantity \in 1 .. QuantityLimit - 1
  PROVE  SumOf(Resized(s, n, quantity)) = SumOf(s) - s[n].quantity + quantity
<1> DEFINE r == Resized(s, n, quantity)
<1>1. /\ r \in Seq(RestingOrder) /\ DOMAIN r = DOMAIN s
      /\ \A m \in DOMAIN s : r[m].quantity = IF m = n THEN quantity ELSE s[m].quantity
  <2>1. n \in 1 .. Len(s)
    OBVIOUS
  <2>2. PICK x : x = r
    OBVIOUS
  <2>3. /\ x \in Seq(RestingOrder) /\ DOMAIN x = DOMAIN s
        /\ \A m \in DOMAIN s : x[m].quantity = IF m = n THEN quantity ELSE s[m].quantity
    BY <2>1, <2>2, ResizedFacts
  <2>. QED  BY <2>2, <2>3, Zenon
<1> HIDE DEF r
<1>2. Len(r) = Len(s) /\ n \in DOMAIN r
  BY <1>1
<1>3. SumOf(r) = r[n].quantity + SumOf(WithoutPosition(r, n))
  BY <1>1, <1>2, SumRemoved
<1>4. SumOf(s) = s[n].quantity + SumOf(WithoutPosition(s, n))
  BY SumRemoved
<1> DEFINE w == WithoutPosition(s, n)
           v == WithoutPosition(r, n)
<1>5. /\ w \in Seq(RestingOrder) /\ DOMAIN w = 1 .. Len(s) - 1
      /\ \A i \in 1 .. Len(s) - 1 : w[i] = IF i < n THEN s[i] ELSE s[i + 1]
  BY WithoutPositionFacts
<1>6. /\ v \in Seq(RestingOrder) /\ DOMAIN v = 1 .. Len(s) - 1
      /\ \A i \in 1 .. Len(s) - 1 : v[i] = IF i < n THEN r[i] ELSE r[i + 1]
  BY <1>1, <1>2, WithoutPositionFacts
<1> HIDE DEF w, v
<1>7. Sizes(v) = Sizes(w)
  <2>1. ASSUME NEW i \in 1 .. Len(s) - 1 PROVE v[i].quantity = w[i].quantity
    <3>1. Len(s) \in Nat /\ n \in Nat
      OBVIOUS
    <3>2. CASE i < n
      <4>1. i \in DOMAIN s /\ i # n
        BY <3>1, <3>2
      <4>. QED  BY <1>1, <1>5, <1>6, <3>2, <4>1
    <3>3. CASE ~(i < n)
      <4>1. i + 1 \in DOMAIN s /\ i + 1 # n
        BY <3>1, <3>3
      <4>. QED  BY <1>1, <1>5, <1>6, <3>3, <4>1
    <3>. QED  BY <3>2, <3>3
  <2>. QED  BY <1>5, <1>6, <2>1 DEF Sizes
<1>8. SumOf(v) = SumOf(w)
  BY <1>7 DEF SumOf
<1>9. r[n].quantity = quantity /\ quantity \in Nat
  BY <1>1, ConstantsAssumption
<1>10. s[n].quantity \in Nat /\ SumOf(w) \in Nat
  <2>1. s[n] \in RestingOrder
    OBVIOUS
  <2>2. s[n].quantity \in Nat
    BY <2>1, ConstantsAssumption DEF RestingOrder
  <2>. QED  BY <1>5, <2>2, SumOfNatural
<1>. QED  BY <1>3, <1>4, <1>8, <1>9, <1>10 DEF r, w, v

\* A positive multiple is no smaller.
LEMMA Multiple ==
  ASSUME NEW t \in Nat \ {0}, NEW d \in Int, d >= 1
  PROVE  t * d >= t
<1>1. PICK e \in Nat : d = 1 + e
  <2>1. d - 1 \in Nat /\ d = 1 + (d - 1)
    OBVIOUS
  <2>. QED  BY <2>1
<1>2. t * e >= 0
  OBVIOUS
<1>3. t * d = t + t * e
  BY <1>1
<1>. QED  BY <1>2, <1>3

\* The remainder is the only one there is.
LEMMA ModIs ==
  ASSUME NEW t \in Nat \ {0}, NEW k \in Int, NEW r \in 0 .. t - 1, NEW x, x = t * k + r
  PROVE  x % t = r
<1>1. x \in Int
  OBVIOUS
<1>2. PICK q \in Int, m \in Int : q = x \div t /\ m = x % t /\ 0 <= m /\ m < t /\ x = t * q + m
  <2>1. x \div t \in Int /\ x % t \in Int /\ 0 <= x % t /\ x % t < t /\ x = t * (x \div t) + (x % t)
    BY <1>1
  <2>. QED  BY <2>1
<1>3. t * q + m = t * k + r
  BY <1>2
<1>4. ASSUME q - k >= 1 PROVE FALSE
  <2>1. q - k \in Int /\ t * (q - k) >= t
    BY <1>4, Multiple
  <2>2. t * (q - k) = t * q - t * k
    OBVIOUS
  <2>. QED  BY <1>2, <1>3, <2>1, <2>2
<1>5. ASSUME k - q >= 1 PROVE FALSE
  <2>1. k - q \in Int /\ t * (k - q) >= t
    BY <1>5, Multiple
  <2>2. t * (k - q) = t * k - t * q
    OBVIOUS
  <2>. QED  BY <1>2, <1>3, <2>1, <2>2
<1>6. q = k
  BY <1>4, <1>5
<1>. QED  BY <1>2, <1>3, <1>6

\* Wrapping is what is left of the sum.
LEMMA WrapsSum ==
  ASSUME NEW x \in Nat, NEW y \in 0 .. QuantityLimit - 1
  PROVE  /\ WrapAdd(x % TotalLimit, y) = (x + y) % TotalLimit
         /\ y <= x => WrapSub(x % TotalLimit, y) = (x - y) % TotalLimit
         /\ y <= x % TotalLimit => (x % TotalLimit) - y = (x - y) % TotalLimit
         /\ x < TotalLimit => x % TotalLimit = x
<1>1. PICK t \in Nat \ {0} : t = TotalLimit /\ y < t
  BY ConstantsAssumption
<1>2. PICK k \in Nat, r \in 0 .. t - 1 : r = x % t /\ x = t * k + r
  <2>1. x \div t \in Nat /\ x % t \in 0 .. t - 1 /\ x = t * (x \div t) + (x % t)
    OBVIOUS
  <2>. QED  BY <2>1, Zenon
<1>3. y \in 0 .. t - 1
  BY <1>1
<1>4. /\ r + y < t => (x + y) % t = r + y
      /\ r + y >= t => (x + y) % t = r + y - t
      /\ r >= y => (x - y) % t = r - y
      /\ r < y => (x - y) % t = r - y + t
  <2>. x = t * k + r /\ y \in 0 .. t - 1
    BY <1>2, <1>3
  <2>1. ASSUME r + y < t PROVE (x + y) % t = r + y
    <3>1. PICK s \in 0 .. t - 1, z \in Int : s = r + y /\ z = x + y
      BY <2>1
    <3>2. z = t * k + s
      BY <3>1
    <3>3. z % t = s
      BY <3>2, ModIs
    <3>. QED  BY <3>1, <3>3
  <2>2. ASSUME r + y >= t PROVE (x + y) % t = r + y - t
    <3>1. PICK j \in Int, s \in 0 .. t - 1, z \in Int : j = k + 1 /\ s = r + y - t /\ z = x + y
      BY <2>2
    <3>2. t * j = t * k + t
      BY <3>1
    <3>3. z = t * j + s
      BY <3>1, <3>2
    <3>4. z % t = s
      BY <3>3, ModIs
    <3>. QED  BY <3>1, <3>4
  <2>3. ASSUME r >= y PROVE (x - y) % t = r - y
    <3>1. PICK s \in 0 .. t - 1, z \in Int : s = r - y /\ z = x - y
      BY <2>3
    <3>2. z = t * k + s
      BY <3>1
    <3>3. z % t = s
      BY <3>2, ModIs
    <3>. QED  BY <3>1, <3>3
  <2>4. ASSUME r < y PROVE (x - y) % t = r - y + t
    <3>1. PICK j \in Int, s \in 0 .. t - 1, z \in Int : j = k - 1 /\ s = r - y + t /\ z = x - y
      BY <2>4
    <3>2. t * j = t * k - t
      BY <3>1
    <3>3. z = t * j + s
      BY <3>1, <3>2
    <3>4. z % t = s
      BY <3>3, ModIs
    <3>. QED  BY <3>1, <3>4
  <2>. QED  BY <2>1, <2>2, <2>3, <2>4
<1>5. WrapAdd(r, y) = (x + y) % t
  BY <1>1, <1>3, <1>4 DEF WrapAdd
<1>6. WrapSub(r, y) = (x - y) % t
  BY <1>1, <1>3, <1>4 DEF WrapSub
<1>7. y <= r => r - y = (x - y) % t
  BY <1>3, <1>4
<1>8. x < t => x % t = x
  OBVIOUS
<1>. QED  BY <1>1, <1>2, <1>5, <1>6, <1>7, <1>8

----------------------------------------------------------------------------
(* Every operation keeps the totals                                        *)

\* TotalsExact, of any book b.
TotalsOf(b) ==
  \A side \in Side : \A p \in DOMAIN b[side] :
    b[side][p].total_quantity = SumOf(b[side][p].orders) % TotalLimit

\* Storing a level with an exact total.
LEMMA StoreKeepsTotals ==
  ASSUME NEW b, DOMAIN b = Side, TotalsOf(b), NEW side \in Side, NEW p, NEW level,
         level.total_quantity = SumOf(level.orders) % TotalLimit
  PROVE  TotalsOf(StoreLevel(b, side, p, level))
<1> DEFINE c == StoreLevel(b, side, p, level)
<1>1. /\ \A s \in Side : s # side => c[s] = b[s]
      /\ level.orders = << >> => DOMAIN c[side] = DOMAIN b[side] \ {p}
      /\ level.orders # << >> =>
           DOMAIN c[side] = DOMAIN b[side] \cup {p} /\ c[side][p] = level
      /\ \A x \in DOMAIN b[side] : x # p => c[side][x] = b[side][x]
  BY StoreLevelFacts
<1> HIDE DEF c
<1>2. ASSUME NEW s \in Side, NEW x \in DOMAIN c[s]
      PROVE  c[s][x].total_quantity = SumOf(c[s][x].orders) % TotalLimit
  <2>1. CASE s # side
    BY <1>1, <2>1 DEF TotalsOf
  <2>2. CASE s = side /\ x # p
    <3>1. x \in DOMAIN b[side] /\ c[side][x] = b[side][x]
      BY <1>1, <2>2
    <3>. QED  BY <2>2, <3>1 DEF TotalsOf
  <2>3. CASE s = side /\ x = p
    <3>1. c[side][p] = level
      BY <1>1, <2>3
    <3>. QED  BY <2>3, <3>1
  <2>. QED  BY <2>1, <2>2, <2>3
<1>. QED  BY <1>2 DEF TotalsOf, c

\* The total of a level and its orders.
LEMMA TotalIs ==
  ASSUME NEW b, NEW index, Good(b, index), TotalsOf(b), NEW side \in Side, NEW p
  PROVE  /\ LevelAt(b, side, p).orders \in Seq(RestingOrder)
         /\ LevelAt(b, side, p).total_quantity = SumOf(LevelAt(b, side, p).orders) % TotalLimit
<1>1. CASE p \in DOMAIN b[side]
  <2>1. b[side][p].orders \in Seq(RestingOrder)
    BY <1>1, LevelFacts
  <2>. QED  BY <1>1, <2>1 DEF LevelAt, TotalsOf
<1>2. CASE p \notin DOMAIN b[side]
  <2>1. 0 % TotalLimit = 0
    <3>1. PICK t \in Nat : t = TotalLimit /\ t > 0
      BY ConstantsAssumption
    <3>2. 0 % t = 0
      BY <3>1
    <3>. QED  BY <3>1, <3>2
  <2>. QED  BY <1>2, <2>1, SumOfEmpty DEF LevelAt, EmptyLevel
<1>. QED  BY <1>1, <1>2

\* Adding an order to the back of its level.
LEMMA EnqueueKeepsTotals ==
  ASSUME NEW b, NEW index, Good(b, index), TotalsOf(b), NEW o \in RestingOrder
  PROVE  TotalsOf(Enqueued(b, o))
<1> DEFINE level == LevelAt(b, o.side, o.price)
           new == [total_quantity |-> WrapAdd(level.total_quantity, o.quantity),
                   orders         |-> Append(level.orders, o)]
<1>1. DOMAIN b = Side /\ o.side \in Side /\ o.quantity \in 0 .. QuantityLimit - 1
  BY DEF Good, BookTyped, RestingOrder
<1>2. /\ level.orders \in Seq(RestingOrder)
      /\ level.total_quantity = SumOf(level.orders) % TotalLimit
  BY <1>1, TotalIs
<1>3. Enqueued(b, o) = StoreLevel(b, o.side, o.price, new)
  BY DEF Enqueued
<1>4. new.total_quantity = WrapAdd(level.total_quantity, o.quantity)
      /\ new.orders = Append(level.orders, o)
  OBVIOUS
<1> HIDE DEF new, level
<1>5. SumOf(level.orders) \in Nat /\ SumOf(new.orders) = SumOf(level.orders) + o.quantity
  BY <1>2, <1>4, SumOfNatural, SumAppended
<1>6. WrapAdd(SumOf(level.orders) % TotalLimit, o.quantity)
        = (SumOf(level.orders) + o.quantity) % TotalLimit
  BY <1>1, <1>5, WrapsSum
<1>7. new.total_quantity = SumOf(new.orders) % TotalLimit
  BY <1>2, <1>4, <1>5, <1>6
<1>. QED  BY <1>1, <1>3, <1>7, StoreKeepsTotals

\* Taking an order out of its level.
LEMMA DequeueKeepsTotals ==
  ASSUME NEW b, NEW index, Good(b, index), TotalsOf(b), NEW id \in DOMAIN index
  PROVE  TotalsOf(Dequeued(b, index[id], id))
<1>1. PICK side, p, n, o : IsNode(b, index, id, side, p, n, o)
  BY NodeIs
<1> DEFINE s == b[side][p].orders
           total == b[side][p].total_quantity
           new == [total_quantity |-> WrapSub(total, o.quantity), orders |-> WithoutPosition(s, n)]
<1>2. /\ side = index[id].side /\ p = index[id].price /\ side \in Side /\ p \in DOMAIN b[side]
      /\ n = PositionOf(s, id) /\ n \in DOMAIN s /\ o = s[n] /\ o \in RestingOrder
      /\ s \in Seq(RestingOrder)
  BY <1>1 DEF IsNode
<1>3. DOMAIN b = Side /\ o.quantity \in 0 .. QuantityLimit - 1
  BY <1>2 DEF Good, BookTyped, RestingOrder
<1>4. Dequeued(b, index[id], id) = StoreLevel(b, side, p, new)
  BY <1>2, Zenon DEF Dequeued
<1>5. total = SumOf(s) % TotalLimit
  BY <1>2 DEF TotalsOf
<1>6. new.total_quantity = WrapSub(total, o.quantity) /\ new.orders = WithoutPosition(s, n)
  OBVIOUS
<1> HIDE DEF new, s, total
<1>7. /\ SumOf(s) = o.quantity + SumOf(new.orders)
      /\ SumOf(s) \in Nat /\ SumOf(new.orders) \in Nat
  <2>1. new.orders \in Seq(RestingOrder)
    BY <1>2, <1>6, WithoutPositionFacts
  <2>. QED  BY <1>2, <1>6, <2>1, SumRemoved, SumOfNatural
<1>8. PICK x \in Nat, y \in 0 .. QuantityLimit - 1, z \in Nat :
        x = SumOf(s) /\ y = o.quantity /\ z = SumOf(new.orders) /\ x = y + z
  BY <1>3, <1>7
<1>9. y <= x /\ x - y = z
  BY <1>8, ConstantsAssumption
<1>10. WrapSub(x % TotalLimit, y) = (x - y) % TotalLimit
  BY <1>9, WrapsSum
<1>11. new.total_quantity = SumOf(new.orders) % TotalLimit
  BY <1>5, <1>6, <1>8, <1>9, <1>10
<1>. QED  BY <1>2, <1>3, <1>4, <1>11, StoreKeepsTotals

\* Filling the oldest order of a level, in part or wholly.
LEMMA FillKeepsTotals ==
  ASSUME NEW b, NEW index, Good(b, index), TotalsOf(b), NEW side \in Side, NEW p \in DOMAIN b[side],
         NEW fill, fill \in 1 .. b[side][p].orders[1].quantity
  PROVE  TotalsOf(FrontFilled(b, side, p, fill))
<1> DEFINE s == b[side][p].orders
           total == b[side][p].total_quantity
           left == s[1].quantity - fill
           new == [total_quantity |-> WrapSub(total, fill),
                   orders |-> IF left = 0 THEN WithoutPosition(s, 1) ELSE Resized(s, 1, left)]
<1>1. /\ 1 \in DOMAIN s /\ s[1] \in RestingOrder /\ s[1].quantity \in 1 .. QuantityLimit - 1
      /\ s \in Seq(RestingOrder) /\ DOMAIN b = Side
  BY FrontFacts, LevelFacts DEF Good, BookTyped
<1>2. FrontFilled(b, side, p, fill) = StoreLevel(b, side, p, new)
  BY Zenon DEF FrontFilled
<1>3. total = SumOf(s) % TotalLimit
  BY DEF TotalsOf
<1>4. fill \in 0 .. QuantityLimit - 1 /\ fill <= s[1].quantity /\ left \in Nat
      /\ left \in 0 .. QuantityLimit - 1
  <2> HIDE DEF s
  <2>1. fill \in 1 .. s[1].quantity
    BY DEF s
  <2>. QED  BY <1>1, <2>1, ConstantsAssumption
<1>5. PICK orders : orders = IF left = 0 THEN WithoutPosition(s, 1) ELSE Resized(s, 1, left)
  OBVIOUS
<1>6. SumOf(s) \in Nat /\ SumOf(orders) \in Nat /\ SumOf(s) = SumOf(orders) + fill
  <2>1. SumOf(s) \in Nat
    BY <1>1, SumOfNatural
  <2>2. CASE left = 0
    <3>1. orders = WithoutPosition(s, 1)
      BY <1>5, <2>2
    <3>2. orders \in Seq(RestingOrder) /\ SumOf(s) = s[1].quantity + SumOf(orders)
      BY <1>1, <3>1, WithoutPositionFacts, SumRemoved
    <3>3. SumOf(orders) \in Nat
      BY <3>2, SumOfNatural
    <3>4. fill = s[1].quantity
      <4> HIDE DEF s
      <4>. QED  BY <1>1, <1>4, <2>2, ConstantsAssumption
    <3> HIDE DEF s
    <3>. QED  BY <1>1, <2>1, <3>2, <3>3, <3>4, ConstantsAssumption
  <2>3. CASE left # 0
    <3>1. orders = Resized(s, 1, left) /\ left \in 1 .. QuantityLimit - 1
      <4>1. orders = Resized(s, 1, left)
        BY <1>5, <2>3
      <4> HIDE DEF left
      <4>. QED  BY <1>4, <2>3, <4>1, ConstantsAssumption
    <3>2. 1 \in 1 .. Len(s)
      BY <1>1
    <3> HIDE DEF s, left
    <3>3. orders \in Seq(RestingOrder)
      BY <1>1, <3>1, <3>2, ResizedFacts
    <3>4. SumOf(orders) = SumOf(s) - s[1].quantity + left
      BY <1>1, <3>1, SumResized
    <3>5. SumOf(orders) \in Nat
      BY <3>3, SumOfNatural
    <3>6. left = s[1].quantity - fill
      BY DEF left, s
    <3>. QED  BY <1>1, <1>4, <2>1, <3>4, <3>5, <3>6, ConstantsAssumption
  <2>. QED  BY <2>2, <2>3
<1>7. new.total_quantity = WrapSub(total, fill) /\ new.orders = orders
  BY <1>5
<1> HIDE DEF new, total, s, left
<1>8. PICK x \in Nat, y \in 0 .. QuantityLimit - 1, z \in Nat :
        x = SumOf(s) /\ y = fill /\ z = SumOf(orders) /\ x = z + y
  BY <1>4, <1>6
<1>9. y <= x /\ x - y = z
  BY <1>8, ConstantsAssumption
<1>10. WrapSub(x % TotalLimit, y) = (x - y) % TotalLimit
  BY <1>9, WrapsSum
<1>11. new.total_quantity = SumOf(new.orders) % TotalLimit
  BY <1>3, <1>7, <1>8, <1>9, <1>10
<1>. QED  BY <1>1, <1>2, <1>11, StoreKeepsTotals

\* Reducing an order in place.
LEMMA ReductionKeepsTotals ==
  ASSUME NEW b, NEW index, Good(b, index), TotalsOf(b), NEW side \in Side, NEW p \in DOMAIN b[side],
         NEW n \in DOMAIN b[side][p].orders, NEW quantity \in 1 .. QuantityLimit - 1,
         quantity < b[side][p].orders[n].quantity,
         NEW reduction, reduction = b[side][p].orders[n].quantity - quantity,
         ~(b[side][p].total_quantity < reduction),
         NEW level,
         level = [total_quantity |-> b[side][p].total_quantity - reduction,
                  orders |-> Resized(b[side][p].orders, n, quantity)]
  PROVE  TotalsOf(StoreLevel(b, side, p, level))
<1> DEFINE s == b[side][p].orders
           total == b[side][p].total_quantity
<1>1. /\ s \in Seq(RestingOrder) /\ DOMAIN b = Side /\ s[n] \in RestingOrder /\ n \in DOMAIN s
      /\ total \in 0 .. TotalLimit - 1
  BY LevelFacts DEF Good, BookTyped
<1>2. total = SumOf(s) % TotalLimit
  BY DEF TotalsOf
<1>3. level.total_quantity = total - reduction /\ level.orders = Resized(s, n, quantity)
      /\ reduction = s[n].quantity - quantity /\ quantity < s[n].quantity /\ ~(total < reduction)
  OBVIOUS
<1> HIDE DEF s, total
<1>4. SumOf(level.orders) = SumOf(s) - s[n].quantity + quantity /\ SumOf(s) \in Nat
  BY <1>1, <1>3, SumResized, SumOfNatural
<1>5. s[n].quantity \in 0 .. QuantityLimit - 1
  BY <1>1 DEF RestingOrder
<1>6. PICK x \in Nat, y \in 0 .. QuantityLimit - 1 :
        x = SumOf(s) /\ y = reduction /\ SumOf(level.orders) = x - y
  BY <1>3, <1>4, <1>5, ConstantsAssumption
<1>7. y <= total
  BY <1>1, <1>3, <1>6, ConstantsAssumption
<1>8. (x % TotalLimit) - y = (x - y) % TotalLimit
  BY <1>2, <1>6, <1>7, WrapsSum
<1>9. level.total_quantity = SumOf(level.orders) % TotalLimit
  BY <1>2, <1>3, <1>6, <1>8
<1>. QED  BY <1>1, <1>9, StoreKeepsTotals

----------------------------------------------------------------------------

\* The inductive invariant of the totals.
TotalsInv == IInv /\ TotalsOf(book)

\* Every step keeps it,
LEMMA StepKeepsTotals == TotalsInv /\ [Next]_vars => TotalsInv'
<1> SUFFICES ASSUME TotalsInv, [Next]_vars PROVE TotalsInv'
  OBVIOUS
<1>1. IInv /\ IInv' /\ TotalsOf(book) /\ Good(book, orderIndex)
  BY StepKeepsIInv DEF TotalsInv, IInv
<1>2. SUFFICES TotalsOf(book')
  BY <1>1 DEF TotalsInv, TotalsOf
<1>3. CASE UNCHANGED book
  BY <1>1, <1>3
<1>4. ASSUME NEW o \in RestingOrder, Rests(o) PROVE TotalsOf(book')
  BY <1>1, <1>4, EnqueueKeepsTotals DEF Rests
<1>5. ASSUME NEW o \in Order, AddOrder(o) PROVE TotalsOf(book')
  <2>1. o \in RestingOrder
    BY OrderFacts
  <2>. QED  BY <1>3, <1>4, <1>5, <2>1 DEF AddOrder, Rejects
<1>6. ASSUME NEW id \in OrderIds, CancelOrder(id) PROVE TotalsOf(book')
  BY <1>1, <1>3, <1>6, DequeueKeepsTotals DEF CancelOrder, Rejects
<1>7. ASSUME NEW id \in OrderIds, NEW price \in Prices, NEW quantity \in Quantities,
             ModifyOrder(id, price, quantity)
      PROVE  TotalsOf(book')
  <2> DEFINE location == orderIndex[id]
             level    == book[location.side][location.price]
             existing == level.orders[PositionOf(level.orders, id)]
  <2>1. CASE id \notin DOMAIN orderIndex \/ BadAmendment(price, quantity)
    BY <1>3, <1>7, <2>1 DEF ModifyOrder, Rejects
  <2>2. CASE id \in DOMAIN orderIndex /\ ~BadAmendment(price, quantity)
    <3>1. PICK side, p, n, o : IsNode(book, orderIndex, id, side, p, n, o)
      BY <1>1, <2>2, NodeIs
    <3>2. /\ location.side = side /\ location.price = p /\ side \in Side /\ p \in DOMAIN book[side]
          /\ n = PositionOf(level.orders, id) /\ n \in DOMAIN level.orders
          /\ o = level.orders[n] /\ level = book[side][p] /\ o \in RestingOrder /\ o.id = id
          /\ o.symbol_id = DefaultSymbol
      BY <3>1 DEF IsNode
    <3>3. quantity # 0 /\ quantity \in 1 .. QuantityLimit - 1
      <4>1. quantity # 0
        BY <2>2 DEF BadAmendment
      <4>. QED  BY <4>1, ConstantsAssumption
    <3>4. \/ UNCHANGED book
          \/ quantity < o.quantity /\ ReducesInPlace(location, quantity, id)
          \/ Reinserts(location, o, price, quantity)
      BY <1>7, <2>2, <3>2, Zenon DEF ModifyOrder
    <3>5. CASE quantity < o.quantity /\ ReducesInPlace(location, quantity, id)
      <4> DEFINE reduction == o.quantity - quantity
                 new == [total_quantity |-> level.total_quantity - reduction,
                         orders |-> Resized(level.orders, n, quantity)]
      <4>1. CASE level.total_quantity < reduction
        BY <1>3, <3>2, <3>5, <4>1, Zenon DEF ReducesInPlace, Rejects
      <4>2. CASE ~(level.total_quantity < reduction)
        <5>1. book' = StoreLevel(book, location.side, location.price, new)
          BY <3>2, <3>5, <4>2, Zenon DEF ReducesInPlace
        <5>2. /\ n \in DOMAIN book[side][p].orders
              /\ quantity < book[side][p].orders[n].quantity
              /\ reduction = book[side][p].orders[n].quantity - quantity
              /\ ~(book[side][p].total_quantity < reduction)
              /\ new = [total_quantity |-> book[side][p].total_quantity - reduction,
                        orders |-> Resized(book[side][p].orders, n, quantity)]
          BY <3>2, <3>5, <4>2
        <5> HIDE DEF new, reduction, level
        <5>3. TotalsOf(StoreLevel(book, side, p, new))
          BY <1>1, <3>2, <3>3, <5>2, ReductionKeepsTotals
        <5>. QED  BY <3>2, <5>1, <5>3
      <4>. QED  BY <4>1, <4>2
    <3>6. CASE Reinserts(location, o, price, quantity)
      <4> DEFINE new   == Amended(o, price, quantity)
                 index == WithoutEntry(orderIndex, id)
                 c     == Dequeued(book, location, id)
      <4>1. Good(c, index) /\ TotalsOf(c)
        BY <1>1, <2>2, DequeueKeepsGood, DequeueKeepsTotals
      <4>2. new \in RestingOrder
        BY <3>2, <3>3, ModifiedFacts
      <4>3. book' = c \/ book' = Enqueued(c, new)
        BY <3>2, <3>6, Zenon DEF Reinserts
      <4> HIDE DEF c, new, index
      <4>4. TotalsOf(Enqueued(c, new))
        BY <4>1, <4>2, EnqueueKeepsTotals
      <4>. QED  BY <4>1, <4>3, <4>4
    <3>. QED  BY <1>3, <3>4, <3>5, <3>6
  <2>. QED  BY <2>1, <2>2
<1>8. ASSUME NEW o \in Order, StartExecute(o) PROVE TotalsOf(book')
  BY <1>3, <1>8 DEF StartExecute
<1>9. CASE MatchStep
  <2> DEFINE taker == frame[1].order
             side  == Opposite(taker.side)
             price == BestPrice(book, side)
             maker == book[side][price].orders[1]
             fill  == FillQuantity(taker, maker)
  <2>1. ~Idle /\ taker.quantity > 0 /\ DOMAIN book[side] # {}
        /\ book' = FrontFilled(book, side, price, fill)
    BY <1>9, Zenon DEF MatchStep, CanMatch
  <2>2. side \in Side
    BY DEF Opposite, Side
  <2>3. price \in DOMAIN book[side]
    <3>1. DOMAIN book[side] \subseteq Prices
      BY <1>1, <2>2, LevelFacts
    <3>. QED  BY <2>1, <2>2, <3>1, BestPriceFacts
  <2>4. taker.quantity \in 0 .. QuantityLimit - 1
    BY <1>1, <2>1, FrameFacts
  <2> HIDE DEF side, price
  <2>5. book[side][price].orders[1].quantity \in 1 .. QuantityLimit - 1
    BY <1>1, <2>2, <2>3, FrontFacts
  <2>6. fill \in 1 .. book[side][price].orders[1].quantity
    <3> HIDE DEF taker
    <3>. QED  BY <2>1, <2>4, <2>5, ConstantsAssumption DEF FillQuantity
  <2> HIDE DEF fill
  <2>7. TotalsOf(FrontFilled(book, side, price, fill))
    BY <1>1, <2>2, <2>3, <2>6, FillKeepsTotals
  <2>. QED  BY <2>1, <2>7
<1>10. CASE FinishExecute
  <2>1. UNCHANGED book \/ Rests(frame[1].order)
    BY <1>10, Zenon DEF FinishExecute
  <2>2. frame[1].order \in RestingOrder
    <3>1. ~Idle
      BY <1>10 DEF FinishExecute
    <3>. QED  BY <1>1, <3>1, FrameFacts
  <2>. QED  BY <1>3, <1>4, <2>1, <2>2
<1>11. CASE ResetOrderBook
  <2>1. \A side \in Side : DOMAIN book'[side] = {}
    BY <1>11 DEF ResetOrderBook
  <2>. QED  BY <2>1 DEF TotalsOf
<1>12. CASE UNCHANGED vars
  BY <1>3, <1>12 DEF vars
<1>. QED  BY <1>5, <1>6, <1>7, <1>8, <1>9, <1>10, <1>11, <1>12 DEF Next

\* and it holds at first.
LEMMA InitTotals == Init => TotalsInv
<1> SUFFICES ASSUME Init PROVE TotalsInv
  OBVIOUS
<1>1. \A side \in Side : DOMAIN book[side] = {}
  BY DEF Init
<1>. QED  BY <1>1, InitHolds DEF TotalsInv, TotalsOf

\* TotalsExact: a cached total is the sum of what rests there, modulo 2^64, after
\* every add, cancel, reduction, reinsertion, partial fill and complete fill.
THEOREM AlwaysExact == Spec => []TotalsExact
<1>1. TotalsInv => TotalsExact
  BY DEF TotalsInv, TotalsOf, TotalsExact, SumOf
<1>. QED  BY <1>1, InitTotals, StepKeepsTotals, PTL DEF Spec

----------------------------------------------------------------------------
(* With totals that are exact, the refinement                              *)

\* No level's orders add up to a total that wraps around.  The code keeps the
\* total in 64 bits and a quantity in 32, so that only 2^32 + 2 orders or more
\* at one price can.
NoTotalWraps ==
  \A side \in Side : \A p \in DOMAIN book[side] : SumOf(book[side][p].orders) < TotalLimit

\* Then each total is the sum, and so no less than any of its terms.
LEMMA TotalsCoverOrders == TotalsInv /\ NoTotalWraps => TotalsCover
<1> SUFFICES ASSUME TotalsInv, NoTotalWraps,
                    NEW side \in Side, NEW p \in DOMAIN book[side],
                    NEW n \in DOMAIN book[side][p].orders
             PROVE  book[side][p].orders[n].quantity <= book[side][p].total_quantity
  BY DEF TotalsCover
<1> DEFINE s == book[side][p].orders
           rest == WithoutPosition(s, n)
<1>1. s \in Seq(RestingOrder) /\ s[n] \in RestingOrder
  BY LevelFacts DEF TotalsInv, IInv
<1>2. rest \in Seq(RestingOrder)
  BY <1>1, WithoutPositionFacts
<1>3. SumOf(s) = s[n].quantity + SumOf(rest) /\ SumOf(s) \in Nat /\ SumOf(rest) \in Nat
  BY <1>1, <1>2, SumRemoved, SumOfNatural
<1>4. s[n].quantity \in Nat
  BY <1>1, ConstantsAssumption DEF RestingOrder
<1>5. PICK x \in Nat, t \in Nat : x = SumOf(s) /\ t = TotalLimit /\ x < t
  BY <1>3, ConstantsAssumption DEF NoTotalWraps
<1>6. x % t = x
  BY <1>5
<1>7. book[side][p].total_quantity = x
  BY <1>5, <1>6 DEF TotalsInv, TotalsOf
<1> HIDE DEF s, rest
<1>8. s[n].quantity <= book[side][p].total_quantity
  BY <1>3, <1>4, <1>5, <1>7
<1>. QED  BY <1>8 DEF s

\* KeepsPriceTimePriority: the engine with its index, its levels and the loop of
\* executeOrder implements MatchingSpec, unless a level's total wraps around,
\* when modifyOrder takes the wrapped total for the truth.
THEOREM PriceTimePriority == HistorySpec /\ []NoTotalWraps => KeepsPriceTimePriority
<1>1. HistoryInit => TotalsInv
  BY InitTotals DEF HistoryInit
<1>2. TotalsInv /\ [HistoryNext]_historyVars => TotalsInv'
  BY StepKeepsTotals DEF HistoryNext, historyVars, vars
<1>. QED  BY <1>1, <1>2, TotalsCoverOrders, Implements, PTL DEF HistorySpec
============================================================================
