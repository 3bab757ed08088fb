------------------------- MODULE MarketMakerProofs -------------------------
(***************************************************************************)
(* What is proved of MarketMaker, for every market, every book and every   *)
(* configuration: that no quote is left behind, that quotes never take,    *)
(* that the position stays within the limit, that the inventory is exact   *)
(* and that the telemetry bridge writes each fill once.                    *)
(*                                                                         *)
(* What the operations of the book do to the orders that rest is taken     *)
(* from MatchingSpecProofs.  The lemmas here come in layers: the           *)
(* strategy's inventory, the market's moves, and the invariant, with one   *)
(* lemma for each step that preserves it.                                  *)
(***************************************************************************)
EXTENDS MarketMaker, TLAPS

----------------------------------------------------------------------------
(* The book of the engine                                                  *)

\* The orders and the people of the book.
Ids == {o.id : o \in MarketOrders} \cup StrategyIds
People == {o.participant_id : o \in MarketOrders} \cup {StrategyParticipant}

\* The operators of the engine and what MatchingSpecProofs proves of them.
M == INSTANCE MatchingSpecProofs WITH
  OrderIds <- {o.id : o \in MarketOrders} \cup StrategyIds,
  Quantities <- {o.quantity : o \in MarketOrders} \cup {QuoteQuantity},
  Participants <- {o.participant_id : o \in MarketOrders} \cup {StrategyParticipant},
  Symbols <- {Symbol, StrategySymbol},
  DefaultSymbol <- Symbol

\* The library of this module and that of M are the same.
LEMMA SameLibrary ==
  /\ \A s : Max(s) = M!Max(s) /\ Min(s) = M!Min(s)
  /\ \A f : SumFunction(f) = M!SumFunction(f)
  /\ \A f, s : SumFunctionOnSet(f, s) = M!SumFunctionOnSet(f, s)
<1>1. \A s : Max(s) = M!Max(s) /\ Min(s) = M!Min(s)
  BY Zenon DEF Max, Min, M!Max, M!Min
<1>2. \A f : SumFunction(f) = M!SumFunction(f)
  BY Zenon DEF SumFunction, SumFunctionOnSet, FoldFunctionOnSet, MapThenFoldSet,
    M!SumFunction, M!SumFunctionOnSet, M!FoldFunctionOnSet, M!MapThenFoldSet
<1>3. \A f, s : SumFunctionOnSet(f, s) = M!SumFunctionOnSet(f, s)
  BY Zenon DEF SumFunctionOnSet, FoldFunctionOnSet, MapThenFoldSet,
    M!SumFunctionOnSet, M!FoldFunctionOnSet, M!MapThenFoldSet
<1>. QED  BY <1>1, <1>2, <1>3

\* Engine and M instantiate the same specification: what rests is the same,
LEMMA SameResting ==
  /\ \A q : Engine!RestingIn(q) = M!RestingIn(q)
  /\ Engine!Resting = M!Resting /\ Engine!RestingIds = M!RestingIds
  BY Zenon DEF Engine!RestingIn, M!RestingIn, Engine!Places, M!Places, Engine!OrderAt, M!OrderAt,
    Engine!Resting, M!Resting, Engine!RestingIds, M!RestingIds

\* and so are the operations.
LEMMA SameFills ==
  ASSUME NEW q, NEW o
  PROVE  Engine!Fills(q, o) = M!Fills(q, o)
<1> DEFINE served == {x \in Engine!Reach(q, o) : Engine!Taken(q, o, x) > 0}
           nth(n) == CHOOSE x \in served :
                       Engine!Cardinality({y \in served : Engine!Before(y, x)}) = n - 1
           met == {x \in M!Reach(q, o) : M!Taken(q, o, x) > 0}
           nthMet(n) == CHOOSE x \in met : M!Cardinality({y \in met : M!Before(y, x)}) = n - 1
<1>1. served = met
  BY Zenon DEF Engine!Taken, M!Taken, Engine!Reach, M!Reach, Engine!Places, M!Places,
    Engine!OtherSide, M!OtherSide, Engine!Sides, M!Sides, Engine!Before, M!Before,
    Engine!SumFunction, M!SumFunction, Engine!SumFunctionOnSet, M!SumFunctionOnSet,
    Engine!FoldFunctionOnSet, M!FoldFunctionOnSet, Engine!MapThenFoldSet,
    M!MapThenFoldSet, Engine!OrderAt, M!OrderAt, Engine!Max, M!Max, Engine!Min,
    M!Min
<1>2. ASSUME NEW place PROVE Engine!Fill(q, o, place) = M!Fill(q, o, place)
  BY Zenon DEF Engine!Fill, M!Fill, Engine!OrderAt, M!OrderAt, Engine!Taken, M!Taken,
    Engine!Reach, M!Reach, Engine!Places, M!Places, Engine!OtherSide, M!OtherSide,
    Engine!Sides, M!Sides, Engine!Before, M!Before, Engine!SumFunction,
    M!SumFunction, Engine!SumFunctionOnSet, M!SumFunctionOnSet,
    Engine!FoldFunctionOnSet, M!FoldFunctionOnSet, Engine!MapThenFoldSet,
    M!MapThenFoldSet, Engine!Max, M!Max, Engine!Min, M!Min
<1>3. Engine!Fills(q, o)
        = [n \in 1 .. Engine!Cardinality(served) |-> Engine!Fill(q, o, nth(n))]
  BY Zenon DEF Engine!Fills
<1>4. M!Fills(q, o) = [n \in 1 .. M!Cardinality(met) |-> M!Fill(q, o, nthMet(n))]
  BY Zenon DEF M!Fills
<1> HIDE DEF served, met
<1>5. ASSUME NEW n PROVE nth(n) = nthMet(n)
  BY <1>1, Zenon DEF Engine!Cardinality, M!Cardinality, Engine!Before, M!Before
<1>6. Engine!Cardinality(served) = M!Cardinality(met)
  BY <1>1, Zenon DEF Engine!Cardinality, M!Cardinality
<1> HIDE DEF nth, nthMet
<1>. QED  BY <1>2, <1>3, <1>4, <1>5, <1>6, Zenon

LEMMA SameLeft ==
  ASSUME NEW q, NEW o
  PROVE  Engine!Left(q, o) = M!Left(q, o)
  BY Zenon DEF Engine!Left, M!Left, Engine!SumFunction, M!SumFunction,
    Engine!SumFunctionOnSet, M!SumFunctionOnSet, Engine!FoldFunctionOnSet,
    M!FoldFunctionOnSet, Engine!MapThenFoldSet, M!MapThenFoldSet, Engine!Reach,
    M!Reach, Engine!Places, M!Places, Engine!OtherSide, M!OtherSide, Engine!Sides,
    M!Sides, Engine!Taken, M!Taken, Engine!Before, M!Before, Engine!OrderAt,
    M!OrderAt, Engine!Max, M!Max, Engine!Min, M!Min

LEMMA SameAfterExecute ==
  ASSUME NEW q, NEW o
  PROVE  Engine!AfterExecute(q, o) = M!AfterExecute(q, o)
  BY Zenon DEF Engine!AfterExecute, M!AfterExecute, Engine!Left, M!Left, Engine!SumFunction,
    M!SumFunction, Engine!SumFunctionOnSet, M!SumFunctionOnSet,
    Engine!FoldFunctionOnSet, M!FoldFunctionOnSet, Engine!MapThenFoldSet,
    M!MapThenFoldSet, Engine!Reach, M!Reach, Engine!Places, M!Places,
    Engine!OtherSide, M!OtherSide, Engine!Sides, M!Sides, Engine!Taken, M!Taken,
    Engine!Before, M!Before, Engine!OrderAt, M!OrderAt, Engine!Max, M!Max,
    Engine!Min, M!Min, Engine!Served, M!Served

LEMMA SameAcceptable ==
  ASSUME NEW o
  PROVE  Engine!Acceptable(o) <=> M!Acceptable(o)
  BY Zenon DEF Engine!Acceptable, M!Acceptable, Engine!RestingIds, M!RestingIds,
    Engine!Resting, M!Resting, Engine!RestingIn, M!RestingIn, Engine!Places,
    M!Places, Engine!OrderAt, M!OrderAt

LEMMA SameAdd ==
  ASSUME NEW o
  PROVE  Engine!Add(o) <=> M!Add(o)
  BY Zenon DEF Engine!Add, M!Add, Engine!Acceptable, M!Acceptable, Engine!RestingIds,
    M!RestingIds, Engine!Resting, M!Resting, Engine!RestingIn, M!RestingIn,
    Engine!Places, M!Places, Engine!OrderAt, M!OrderAt, Engine!AfterAdd,
    M!AfterAdd, Engine!Answers, M!Answers

LEMMA SameCancel ==
  ASSUME NEW id
  PROVE  Engine!Cancel(id) <=> M!Cancel(id)
  BY Zenon DEF Engine!Cancel, M!Cancel, Engine!RestingIds, M!RestingIds, Engine!Resting,
    M!Resting, Engine!RestingIn, M!RestingIn, Engine!Places, M!Places,
    Engine!OrderAt, M!OrderAt, Engine!AfterCancel, M!AfterCancel, Engine!PlaceOf,
    M!PlaceOf, Engine!RemoveAt, M!RemoveAt, Engine!Answers, M!Answers

LEMMA SameModify ==
  ASSUME NEW id, NEW price, NEW quantity
  PROVE  Engine!Modify(id, price, quantity) <=> M!Modify(id, price, quantity)
  BY Zenon DEF Engine!Modify, M!Modify, Engine!RestingIds, M!RestingIds, Engine!Resting,
    M!Resting, Engine!RestingIn, M!RestingIn, Engine!Places, M!Places,
    Engine!OrderAt, M!OrderAt, Engine!AfterModify, M!AfterModify, Engine!PlaceOf,
    M!PlaceOf, Engine!ReplaceAt, M!ReplaceAt, Engine!AfterCancel, M!AfterCancel,
    Engine!RemoveAt, M!RemoveAt, Engine!Answers, M!Answers

LEMMA SameExecute ==
  ASSUME NEW o
  PROVE  Engine!Execute(o) <=> M!Execute(o)
  BY SameAcceptable, SameFills, SameLeft, SameAfterExecute, Zenon
     DEF Engine!Execute, M!Execute

LEMMA SameReset ==
  Engine!Reset <=> M!Reset
  BY Zenon DEF Engine!Reset, M!Reset, Engine!Answers, M!Answers

LEMMA SameInit ==
  Engine!Init <=> M!Init
  BY Zenon DEF Engine!Init, M!Init, Engine!Sides, M!Sides

----------------------------------------------------------------------------
(* The fills not yet processed                                             *)

\* What NewFills is the last value of.
Gathering(history, ids, n, g) ==
  g = [k \in 0 .. n |-> IF k < FirstUnprocessed(history) THEN << >>
                        ELSE g[k - 1] \o FillsOf(history[k], ids)]

\* NewFills as the last value of the function it defines.
LEMMA NewFillsIs ==
  ASSUME NEW history, NEW ids
  PROVE  NewFills(history, ids)
           = (CHOOSE g : Gathering(history, ids, Len(history), g))[Len(history)]
BY Zenon DEF NewFills, Gathering

\* The first unprocessed trade has a number.
LEMMA FirstUnprocessedType ==
  ASSUME NEW history \in Seq(M!Trade), processed \in Nat
  PROVE  FirstUnprocessed(history) \in Nat \ {0}
BY DEF FirstUnprocessed

\* The function NewFills defines exists.
LEMMA GatheringExists ==
  ASSUME NEW history \in Seq(M!Trade), NEW ids, processed \in Nat
  PROVE  Gathering(history, ids, Len(history), CHOOSE g : Gathering(history, ids, Len(history), g))
<1> DEFINE first == FirstUnprocessed(history)
           Value(g, k) == IF k < first THEN << >> ELSE g[k - 1] \o FillsOf(history[k], ids)
           Built == {n \in Nat : \E g : Gathering(history, ids, n, g)}
<1>1. first \in Nat \ {0}
  BY FirstUnprocessedType
<1>2. 0 \in Built
  <2> DEFINE g == [k \in 0 .. 0 |-> << >>]
  <2>1. \A k \in 0 .. 0 : k < first
    BY <1>1
  <2>2. g = [k \in 0 .. 0 |-> Value(g, k)]
    <3> HIDE DEF first
    <3>. QED  BY <2>1
  <2>3. Gathering(history, ids, 0, g)
    BY <2>2, Zenon DEF Gathering
  <2>. QED  BY <2>3
<1>3. ASSUME NEW n \in Nat, n \in Built
      PROVE  n + 1 \in Built
  <2>1. PICK g : Gathering(history, ids, n, g)
    BY <1>3
  <2>2. g = [k \in 0 .. n |-> Value(g, k)]
    BY <2>1, Zenon DEF Gathering
  <2> DEFINE h == [k \in 0 .. n + 1 |-> Value(g, k)]
  <2> HIDE DEF first
  <2>3. \A k \in 0 .. n : h[k] = g[k]
    <3> TAKE k \in 0 .. n
    <3>1. k \in 0 .. n + 1
      OBVIOUS
    <3>2. h[k] = Value(g, k)
      BY <3>1
    <3>3. g[k] = Value(g, k)
      <4> HIDE DEF Value
      <4>. QED  BY <2>2
    <3>. QED  BY <3>2, <3>3
  <2>4. \A k \in 0 .. n + 1 : Value(g, k) = Value(h, k)
    <3> TAKE k \in 0 .. n + 1
    <3>1. CASE k < first
      BY <3>1
    <3>2. CASE ~(k < first)
      <4>1. k - 1 \in 0 .. n
        BY <1>1, <3>2
      <4>2. h[k - 1] = g[k - 1]
        BY <2>3, <4>1
      <4> HIDE DEF h
      <4>. QED  BY <4>2
    <3>. QED  BY <3>1, <3>2
  <2>5. h = [k \in 0 .. n + 1 |-> Value(h, k)]
    <3>1. h = [k \in 0 .. n + 1 |-> Value(g, k)]
      OBVIOUS
    <3> HIDE DEF h, Value
    <3>. QED  BY <2>4, <3>1
  <2>6. Gathering(history, ids, n + 1, h)
    <3> HIDE DEF h
    <3>. QED  BY <2>5, Zenon DEF Gathering, first
  <2> HIDE DEF h
  <2>. QED  BY <2>6
<1> HIDE DEF Built
<1>4. Len(history) \in Built
  <2>1. Len(history) \in Nat
    OBVIOUS
  <2>. QED  BY <1>2, <1>3, <2>1, M!NaturalInduction
<1>5. \E g : Gathering(history, ids, Len(history), g)
  BY <1>4 DEF Built
<1>. QED  BY <1>5, Zenon

\* The fills of a trade are integers.
LEMMA FillsOfType ==
  ASSUME NEW t \in M!Trade, NEW ids
  PROVE  FillsOf(t, ids) \in Seq(Int)
<1>1. SignedQuantity(t) \in Int /\ -SignedQuantity(t) \in Int
  BY DEF SignedQuantity, M!Trade
<1> DEFINE a == SignedQuantity(t)
<1>2. a \in Int /\ -a \in Int
  BY <1>1
<1>3. FillsOf(t, ids) =
        (IF t.maker_order_id \in ids THEN <<-a>> ELSE << >>)
          \o (IF t.taker_order_id \in ids THEN <<a>> ELSE << >>)
  BY DEF FillsOf, Filled
<1> HIDE DEF a
<1>4. <<-a>> \in Seq(Int) /\ <<a>> \in Seq(Int) /\ << >> \in Seq(Int)
  BY <1>2
<1>. QED  BY <1>3, <1>4

\* What a trade fills of the orders in ids.
IdFill(t, ids) == M!SumFunction(FillsOf(t, ids))

\* What a trade fills is what its maker and its taker are filled, by their ids.
LEMMA IdFillFacts ==
  ASSUME NEW t \in M!Trade, NEW ids
  PROVE  /\ IdFill(t, ids) \in Int
         /\ IdFill(t, ids) = (IF t.maker_order_id \in ids THEN -SignedQuantity(t) ELSE 0)
                               + (IF t.taker_order_id \in ids THEN SignedQuantity(t) ELSE 0)
<1>1. SignedQuantity(t) \in Int
  BY DEF SignedQuantity, M!Trade
<1> DEFINE a == SignedQuantity(t)
           m == IF t.maker_order_id \in ids THEN <<-a>> ELSE << >>
           k == IF t.taker_order_id \in ids THEN <<a>> ELSE << >>
<1>2. a \in Int /\ -a \in Int
  BY <1>1
<1>3. FillsOf(t, ids) = m \o k
  BY DEF FillsOf, Filled
<1> HIDE DEF a
<1>4. \A x \in Int : <<x>> \in Seq(Int) /\ M!SumFunction(<<x>>) = x
  <2> TAKE x \in Int
  <2>1. <<x>> \in Seq(Int) /\ Len(<<x>>) = 1 /\ <<x>>[1] = x
    OBVIOUS
  <2>2. M!SumFunction(<<x>>) = M!SumFunctionOnSet(<<x>>, 1 .. 1)
    BY <2>1, M!TotalIs
  <2>3. M!IsFiniteSet(1 .. 1) /\ 1 \in 1 .. 1 /\ \A n \in (1 .. 1) \ {1} : <<x>>[n] = 0
    <3>1. M!IsFiniteSet(1 .. 1)
      BY 1 \in Int, M!FS_Interval, Zenon
    <3>2. 1 \in 1 .. 1 /\ \A n \in (1 .. 1) \ {1} : FALSE
      OBVIOUS
    <3>. QED  BY <3>1, <3>2
  <2>4. M!SumFunctionOnSet(<<x>>, 1 .. 1) = <<x>>[1]
    BY <2>1, <2>3, M!SumOfOne
  <2>. QED  BY <2>1, <2>2, <2>4
<1>5. << >> \in Seq(Int) /\ M!SumFunction(<< >>) = 0
  <2>1. << >> \in Seq(Int)
    OBVIOUS
  <2>. QED  BY <2>1, M!TotalIs
<1>6. m \in Seq(Int) /\ M!SumFunction(m) = IF t.maker_order_id \in ids THEN -a ELSE 0
  BY <1>2, <1>4, <1>5
<1>7. k \in Seq(Int) /\ M!SumFunction(k) = IF t.taker_order_id \in ids THEN a ELSE 0
  BY <1>2, <1>4, <1>5
<1> HIDE DEF m, k
<1>8. M!SumFunction(m \o k) = M!SumFunction(m) + M!SumFunction(k)
  BY <1>6, <1>7, M!TotalJoins
<1>9. M!SumFunction(m \o k) = (IF t.maker_order_id \in ids THEN -a ELSE 0)
                              + (IF t.taker_order_id \in ids THEN a ELSE 0)
  BY <1>6, <1>7, <1>8
<1>10. M!SumFunction(m \o k) \in Int
  BY <1>2, <1>9
<1>. QED  BY <1>3, <1>9, <1>10 DEF IdFill, a

IdFills(history, ids) == [k \in DOMAIN history |-> IdFill(history[k], ids)]

\* The fills gathered come to what each unprocessed trade fills.
LEMMA NewFillsFacts ==
  ASSUME NEW history \in Seq(M!Trade), NEW ids, processed \in Nat
  PROVE  /\ NewFills(history, ids) \in Seq(Int)
         /\ Total(NewFills(history, ids))
              = M!SumFunctionOnSet(IdFills(history, ids), FirstUnprocessed(history) .. Len(history))
<1> DEFINE first == FirstUnprocessed(history)
           L == Len(history)
           f == IdFills(history, ids)
           g == CHOOSE x : Gathering(history, ids, Len(history), x)
           Good == {n \in Nat : n <= L => /\ g[n] \in Seq(Int)
                                          /\ M!SumFunction(g[n]) = M!SumFunctionOnSet(f, first .. n)}
<1>1. first \in Nat \ {0} /\ L \in Nat
  BY FirstUnprocessedType
<1>2. g = [k \in 0 .. L |-> IF k < first THEN << >> ELSE g[k - 1] \o FillsOf(history[k], ids)]
  <2>1. Gathering(history, ids, L, g)
    BY GatheringExists
  <2> HIDE DEF g
  <2>. QED  BY <2>1, Zenon DEF Gathering
<1>3. NewFills(history, ids) = g[L]
  BY NewFillsIs
<1>4. \A k \in 1 .. L : /\ history[k] \in M!Trade /\ FillsOf(history[k], ids) \in Seq(Int)
                        /\ f[k] = M!SumFunction(FillsOf(history[k], ids)) /\ f[k] \in Int
  BY FillsOfType, IdFillFacts DEF IdFills, IdFill
<1> HIDE DEF first, L, f, g
<1>5. ASSUME NEW n \in 0 .. L, n < first
      PROVE  g[n] \in Seq(Int) /\ M!SumFunction(g[n]) = M!SumFunctionOnSet(f, first .. n)
  <2>1. g[n] = << >> /\ first .. n = {}
    BY <1>1, <1>2, <1>5
  <2>2. << >> \in Seq(Int)
    OBVIOUS
  <2>3. M!SumFunction(<< >>) = 0
    BY <2>2, M!TotalIs
  <2>. QED  BY <2>1, <2>2, <2>3, M!SumOfNone
<1>6. 0 \in Good
  <2>1. 0 \in 0 .. L /\ 0 < first
    BY <1>1
  <2>. QED  BY <1>5, <2>1
<1>7. ASSUME NEW n \in Nat, n \in Good
      PROVE  n + 1 \in Good
  <2> SUFFICES ASSUME n + 1 <= L
               PROVE  /\ g[n + 1] \in Seq(Int)
                      /\ M!SumFunction(g[n + 1]) = M!SumFunctionOnSet(f, first .. n + 1)
    OBVIOUS
  <2>1. n + 1 \in 0 .. L /\ n + 1 \in 1 .. L /\ n <= L /\ (n + 1) - 1 = n
    BY <1>1
  <2>2. CASE n + 1 < first
    BY <1>5, <2>1, <2>2
  <2>3. CASE ~(n + 1 < first)
    <3>1. g[n + 1] = g[n] \o FillsOf(history[n + 1], ids)
      <4>1. g[n + 1] = g[(n + 1) - 1] \o FillsOf(history[n + 1], ids)
        BY <1>1, <1>2, <2>1, <2>3
      <4>. QED  BY <2>1, <4>1
    <3>2. g[n] \in Seq(Int) /\ M!SumFunction(g[n]) = M!SumFunctionOnSet(f, first .. n)
      BY <1>7, <2>1
    <3>3. FillsOf(history[n + 1], ids) \in Seq(Int)
          /\ f[n + 1] = M!SumFunction(FillsOf(history[n + 1], ids))
      BY <1>4, <2>1
    <3>4. M!SumFunction(g[n + 1]) = M!SumFunctionOnSet(f, first .. n) + f[n + 1]
      BY <3>1, <3>2, <3>3, M!TotalJoins
    <3>5. first \in Int /\ n \in Int /\ first <= n + 1 /\ \A k \in first .. n + 1 : f[k] \in Int
      BY <1>1, <1>4, <2>1, <2>3
    <3>6. M!SumFunctionOnSet(f, first .. n + 1) = M!SumFunctionOnSet(f, first .. n) + f[n + 1]
      BY <3>5, M!SumExtends
    <3>7. g[n + 1] \in Seq(Int)
      BY <3>1, <3>2, <3>3
    <3>. QED  BY <3>4, <3>6, <3>7
  <2>. QED  BY <2>2, <2>3
<1> HIDE DEF Good
<1>8. L \in Good
  BY <1>1, <1>6, <1>7, M!NaturalInduction
<1>9. g[L] \in Seq(Int) /\ M!SumFunction(g[L]) = M!SumFunctionOnSet(f, first .. L)
  BY <1>1, <1>8 DEF Good
<1>. QED  BY <1>3, <1>9, SameLibrary DEF Total, first, L, f

----------------------------------------------------------------------------
(* The strategy and the book                                               *)

\* What rests is what stands in the queues, and every resting order is one of
\* the orders of the model.
LEMMA RestingIs ==
  /\ M!Resting = M!RestingIn(queue)
  /\ \A id : Resting(id) <=> \E o \in M!RestingIn(queue) : o.id = id
  /\ M!RestingIds = {o.id : o \in M!RestingIn(queue)}
<1>1. M!Resting = M!RestingIn(queue)
  BY DEF M!Resting
<1>. QED  BY <1>1, SameResting DEF Resting, M!RestingIds

\* No two resting orders have the same id.
LEMMA SameId ==
  ASSUME NEW q, M!GoodBook(q), NEW x \in M!RestingIn(q), NEW y \in M!RestingIn(q)
  PROVE  /\ x \in M!Order /\ x.price \in Prices
         /\ x.id = y.id => x = y
<1>1. PICK key, n : M!StandsAt(q, x, key, n)
  BY M!RestingFacts
<1>2. PICK other, k : M!StandsAt(q, y, other, k)
  BY M!RestingFacts
<1>3. x \in M!Order
  <2>1. q[key] \in Seq(M!Order)
    BY <1>1 DEF M!GoodBook, M!QueuesTyped, M!StandsAt
  <2>. QED  BY <1>1, <2>1 DEF M!StandsAt
<1>4. x.price \in Prices
  <2>1. <<x.side, x.price>> = key
    BY <1>1 DEF M!GoodBook, M!QueuesTyped, M!StandsAt
  <2>. QED  BY <1>1, <2>1 DEF M!StandsAt, M!Keys
<1>5. ASSUME x.id = y.id PROVE x = y
  <2>1. key \in M!Keys /\ n \in DOMAIN q[key] /\ x = q[key][n]
    BY <1>1 DEF M!StandsAt
  <2>2. other \in M!Keys /\ k \in DOMAIN q[other] /\ y = q[other][k]
    BY <1>2 DEF M!StandsAt
  <2>3. key = other /\ n = k
    BY <1>5, <2>1, <2>2 DEF M!GoodBook, M!IdsUnique
  <2>. QED  BY <2>1, <2>2, <2>3
<1>. QED  BY <1>3, <1>4, <1>5

\* Nothing of the book q crosses the order o.
Passive(q, o) ==
  \A x \in M!RestingIn(q) :
    x.side # o.side => IF o.side = "Buy" THEN o.price < x.price ELSE x.price < o.price

\* An order that crosses nothing has nothing within its reach.
LEMMA PassiveReachesNothing ==
  ASSUME NEW q, M!GoodBook(q), NEW o \in M!Order, Passive(q, o)
  PROVE  M!Reach(q, o) = {}
<1> SUFFICES ASSUME NEW place \in M!Reach(q, o) PROVE FALSE
  OBVIOUS
<1>1. PICK side, p, n : M!MetAt(q, o, place, side, p, n)
  BY M!ReachFacts, M!OrderIsLot
<1> DEFINE x == M!OrderAt(q, place)
<1>2. x \in M!RestingIn(q)
  BY <1>1, M!RestingFacts DEF M!MetAt
<1>3. x.side # o.side /\ x.price = p /\ IF o.side = "Buy" THEN p <= o.price ELSE p >= o.price
  BY <1>1 DEF M!MetAt
<1>4. p \in Int /\ o.price \in Int
  BY <1>1, MarketAssumption DEF M!MetAt, M!Order
<1> HIDE DEF x
<1>5. IF o.side = "Buy" THEN o.price < p ELSE p < o.price
  BY <1>2, <1>3 DEF Passive
<1>. QED  BY <1>3, <1>4, <1>5

\* Cancelling a quote takes the order with its id out of the book, if there is one.
LEMMA CancelsQuote ==
  ASSUME NEW id, M!GoodBook(queue), CancelQuote(id)
  PROVE  /\ M!GoodBook(queue') /\ trades' = trades
         /\ M!RestingIn(queue') = {o \in M!RestingIn(queue) : o.id # id}
<1>1. CASE Resting(id)
  <2>1. PICK o \in M!RestingIn(queue) : o.id = id
    BY <1>1, RestingIs
  <2>2. M!Cancel(id)
    BY <1>1, SameCancel DEF CancelQuote
  <2>3. trades' = trades /\ queue' = M!AfterCancel(queue, o.id)
    BY <1>1, <2>1, <2>2, SameResting DEF M!Cancel, Resting
  <2>4. M!GoodBook(queue') /\ M!RestingIn(queue') = M!RestingIn(queue) \ {o}
    BY <2>3, M!CancelsOrder
  <2>5. \A x \in M!RestingIn(queue) : x.id = id <=> x = o
    BY <2>1, SameId
  <2>. QED  BY <2>3, <2>4, <2>5
<1>2. CASE ~Resting(id)
  <2>1. UNCHANGED <<queue, trades>>
    BY <1>2 DEF CancelQuote, engineVars
  <2>2. \A x \in M!RestingIn(queue) : x.id # id
    BY <1>2, RestingIs
  <2>. QED  BY <2>1, <2>2
<1>. QED  BY <1>1, <1>2

\* The prices are finitely many.
LEMMA FinitePrices == M!PricesTyped
<1>1. PICK top \in Prices : \A p \in Prices : p <= top
  BY MarketAssumption
<1>2. Prices \in SUBSET Nat /\ top \in Nat
  BY MarketAssumption
<1>3. M!IsFiniteSet(Prices)
  BY <1>1, <1>2, M!FS_BoundedSetOfNaturals
<1>. QED  BY <1>2, <1>3 DEF M!PricesTyped

\* The book of no orders.
LEMMA EmptyBook ==
  ASSUME NEW q, q = [key \in M!Keys |-> << >>]
  PROVE  M!GoodBook(q) /\ M!RestingIn(q) = {}
<1>1. M!GoodBook(q)
  BY FinitePrices DEF M!GoodBook, M!QueuesTyped, M!IdsUnique
<1>2. \A o, key, n : ~M!StandsAt(q, o, key, n)
  BY DEF M!StandsAt
<1>. QED  BY <1>1, <1>2, M!RestingFacts

----------------------------------------------------------------------------
(* Prices *)

\* A bounded set of natural numbers has a greatest one.
LEMMA GreatestExists ==
  ASSUME NEW S, S \subseteq Nat, NEW top \in Nat, \A n \in S : n <= top, S # {}
  PROVE  M!Max(S) \in S /\ \A n \in S : n <= M!Max(S)
<1> DEFINE Below == {n \in Nat : \E m \in S : m + n = top}
<1>1. PICK m \in S : TRUE
  OBVIOUS
<1>2. top - m \in Nat /\ m + (top - m) = top
  BY <1>1
<1>3. Below \subseteq Nat /\ Below # {}
  BY <1>1, <1>2
<1>4. M!Min(Below) \in Below /\ \A n \in Below : M!Min(Below) <= n
  BY <1>3, M!LeastExists
<1>5. PICK x \in S : x + M!Min(Below) = top
  BY <1>4
<1>6. ASSUME NEW n \in S PROVE n <= x
  <2>1. top - n \in Nat /\ n + (top - n) = top
    BY <1>6
  <2>2. top - n \in Below
    BY <2>1
  <2>3. M!Min(Below) \in Nat /\ M!Min(Below) <= top - n
    BY <1>4, <2>2
  <2>. QED  BY <1>5, <2>3
<1>. QED  BY <1>6 DEF M!Max

\* The best prices are those of resting orders, and no other is better.
LEMMA BestPrices ==
  ASSUME M!GoodBook(queue), TwoSided
  PROVE  /\ BestBid \in Nat /\ BestAsk \in Nat
         /\ \A x \in M!RestingIn(queue) :
              IF x.side = "Buy" THEN x.price <= BestBid ELSE BestAsk <= x.price
<1>1. \A x \in M!RestingIn(queue) : x.side \in M!Sides /\ x.price \in PricesOf(x.side)
  <2> TAKE x \in M!RestingIn(queue)
  <2>1. x \in M!Order /\ x.price \in Prices
    BY SameId
  <2>2. PICK key, n : M!StandsAt(queue, x, key, n)
    BY M!RestingFacts
  <2>3. key = <<x.side, x.price>>
    BY <2>2 DEF M!GoodBook, M!QueuesTyped, M!StandsAt
  <2>4. queue[<<x.side, x.price>>] # << >>
    BY <2>2, <2>3 DEF M!StandsAt
  <2>. QED  BY <2>1, <2>4 DEF PricesOf, M!Order
<1>2. \A side : PricesOf(side) \subseteq Nat
  BY MarketAssumption DEF PricesOf
<1>3. PICK top \in Prices : \A p \in Prices : p <= top
  BY MarketAssumption
<1>4. top \in Nat /\ \A n \in PricesOf("Buy") : n <= top
  BY <1>3, MarketAssumption DEF PricesOf
<1>5. PricesOf("Buy") # {} /\ PricesOf("Sell") # {}
  BY DEF TwoSided
<1>6. BestBid \in PricesOf("Buy") /\ \A p \in PricesOf("Buy") : p <= BestBid
  BY <1>2, <1>4, <1>5, GreatestExists, SameLibrary DEF BestBid
<1>7. BestAsk \in PricesOf("Sell") /\ \A p \in PricesOf("Sell") : BestAsk <= p
  BY <1>2, <1>5, M!LeastExists, SameLibrary DEF BestAsk
<1>. QED  BY <1>1, <1>2, <1>6, <1>7 DEF M!Sides

\* Rounding never takes a quote past the tick that keeps it passive.
LEMMA RoundedFacts ==
  ASSUME NEW x \in Int
  PROVE  /\ RoundedDown(x) \in Int /\ 2 * RoundedDown(x) <= x
         /\ RoundedUp(x) \in Int /\ x <= 2 * RoundedUp(x)
<1>1. ASSUME NEW y \in Int
      PROVE  RoundedDown(y) \in Int /\ 2 * RoundedDown(y) <= y
  <2>1. TickSize \in Nat \ {0}
    BY ConfigAssumption
  <2> DEFINE d == 2 * TickSize
             k == y \div d
  <2>2. d \in Nat \ {0} /\ d = TickSize + TickSize
    BY <2>1
  <2>3. k \in Int
    BY <2>2
  <2>4. d * k <= y
    <3> HIDE DEF d
    <3>. QED  BY <2>2
  <2>5. RoundedDown(y) = k * TickSize
    BY DEF RoundedDown
  <2> HIDE DEF k
  <2>6. k * TickSize \in Int /\ 2 * (k * TickSize) = d * k
    BY <2>1, <2>3
  <2>. QED  BY <2>4, <2>5, <2>6
<1>2. RoundedDown(-x) \in Int /\ 2 * RoundedDown(-x) <= -x
  BY <1>1
<1>3. RoundedUp(x) = -RoundedDown(-x)
  BY DEF RoundedUp
<1>. QED  BY <1>1, <1>2, <1>3

\* Whatever the position, the bid is below the best ask and the ask above the best bid.
LEMMA QuotePrices ==
  ASSUME BestBid \in Nat, BestAsk \in Nat, position \in Int
  PROVE  /\ BidPrice \in Int /\ BidPrice < BestAsk
         /\ AskPrice \in Int /\ BestBid < AskPrice
<1>1. TickSize \in Nat \ {0} /\ HalfSpread \in Nat /\ Skew \in Nat /\ TargetPosition \in Int
  BY ConfigAssumption
<1>2. TwiceAdjustedFair \in Int
  <2>1. 2 * Skew \in Int /\ position - TargetPosition \in Int
    BY <1>1
  <2>2. (2 * Skew) * (position - TargetPosition) \in Int
    BY <2>1
  <2>. QED  BY <2>2 DEF TwiceAdjustedFair
<1> DEFINE low == TwiceAdjustedFair - 2 * HalfSpread
           high == TwiceAdjustedFair + 2 * HalfSpread
           under == 2 * (BestAsk - TickSize)
           over == 2 * (BestBid + TickSize)
<1>3. low \in Int /\ high \in Int /\ under \in Int /\ over \in Int
  BY <1>1, <1>2
<1>4. under < 2 * BestAsk /\ 2 * BestBid < over
  BY <1>1
<1>5. BidPrice = RoundedDown(M!Min({low, under})) /\ AskPrice = RoundedUp(M!Max({high, over}))
  BY SameLibrary DEF BidPrice, AskPrice
<1> HIDE DEF low, high, under, over
<1>6. M!Min({low, under}) \in Int /\ M!Min({low, under}) <= under
  BY <1>3, M!OfTwo
<1>7. M!Max({high, over}) \in Int /\ over <= M!Max({high, over})
  <2>1. M!Max({high, over}) = IF high >= over THEN high ELSE over
    BY <1>3, M!OfTwo
  <2>. QED  BY <1>3, <2>1
<1>8. BidPrice \in Int /\ 2 * BidPrice <= under
  <2>1. RoundedDown(M!Min({low, under})) \in Int
        /\ 2 * RoundedDown(M!Min({low, under})) <= M!Min({low, under})
    BY <1>6, RoundedFacts
  <2>. QED  BY <1>3, <1>5, <1>6, <2>1
<1>9. AskPrice \in Int /\ over <= 2 * AskPrice
  <2>1. RoundedUp(M!Max({high, over})) \in Int
        /\ M!Max({high, over}) <= 2 * RoundedUp(M!Max({high, over}))
    BY <1>7, RoundedFacts
  <2>. QED  BY <1>3, <1>5, <1>7, <2>1
<1>. QED  BY <1>3, <1>4, <1>8, <1>9

----------------------------------------------------------------------------
(* The strategy's fills                                                    *)

\* An order of the strategy.
Own(o) == o.participant_id = StrategyParticipant

\* The strategy's orders in q are among ids, those of the others are not the strategy's.
OwnersOf(q, ids) ==
  \A o \in M!RestingIn(q) : IF Own(o) THEN o.id \in ids ELSE o.id \notin StrategyIds

OwnFills(history) == [k \in DOMAIN history |-> OwnFill(history[k])]

\* What the trades of a history come to for the strategy.
OwnSum(history) == M!SumFunctionOnSet(OwnFills(history), 1 .. Len(history))

\* What a trade fills of the strategy is an integer.
LEMMA OwnFillIsInteger ==
  ASSUME NEW t \in M!Trade
  PROVE  OwnFill(t) \in Int
<1>1. t.quantity \in Int
  BY DEF M!Trade
<1>2. SignedQuantity(t) \in Int
  BY <1>1 DEF SignedQuantity
<1>. QED  BY <1>2 DEF OwnFill

\* What the new trades of a history come to for the strategy.
LEMMA FilledSinceIs ==
  ASSUME NEW history \in Seq(M!Trade), NEW more \in Seq(M!Trade)
  PROVE  /\ FilledSince(history \o more, Len(history)) = OwnSum(more)
         /\ OwnSum(more) \in Int
<1> DEFINE all == history \o more
           f == OwnFills(all)
           c == Len(history)
           m == Len(more)
<1>1. /\ all \in Seq(M!Trade) /\ Len(all) = c + m /\ c \in Nat /\ m \in Nat
      /\ \A k \in 1 .. m : all[c + k] = more[k]
  BY M!JoinFacts
<1>2. \A n \in 1 .. c + m : f[n] = OwnFill(all[n]) /\ f[n] \in Int
  BY <1>1, OwnFillIsInteger DEF OwnFills
<1>3. \A k \in 1 .. m : OwnFills(more)[k] = OwnFill(more[k]) /\ OwnFills(more)[k] \in Int
  BY OwnFillIsInteger DEF OwnFills
<1>4. FilledSince(all, c) = M!SumFunctionOnSet(f, c + 1 .. c + m)
  BY <1>1, Zenon, SameLibrary DEF FilledSince, OwnFills
<1> HIDE DEF all, f, c, m
<1>5. \A n \in c + 1 .. c + m : f[n] \in Int
  BY <1>1, <1>2
<1>6. \A k \in 1 .. m : OwnFills(more)[k] = f[c + k]
  BY <1>1, <1>2, <1>3
<1>7. c + 1 \in Int /\ c \in Int /\ c + 1 <= c + 1 /\ c + 1 .. c = {}
  BY <1>1
<1>8. M!SumFunctionOnSet(f, c + 1 .. c + m)
        = M!SumFunctionOnSet(f, c + 1 .. c) + M!SumFunctionOnSet(OwnFills(more), 1 .. m)
  BY <1>1, <1>5, <1>6, <1>7, M!SumSplits
<1>9. M!SumFunctionOnSet(OwnFills(more), 1 .. m) \in Int
  <2>1. M!IsFiniteSet(1 .. m)
    BY <1>1, M!FS_Interval
  <2>2. \A k \in 1 .. m : OwnFills(more)[k] \in Int
    BY <1>3
  <2>. QED  BY <2>1, <2>2, M!SumIsInteger
<1>. QED  BY <1>4, <1>7, <1>8, <1>9, M!SumOfNone DEF OwnSum, all, c, m

\* Trades that are added to a history add to what is unprocessed of it.
LEMMA PendingGrows ==
  ASSUME NEW history \in Seq(M!Trade), NEW more \in Seq(M!Trade), NEW ids,
         NEW a \in Nat \ {0}, a <= Len(history) + 1
  PROVE  M!SumFunctionOnSet(IdFills(history \o more, ids), a .. Len(history \o more))
           = M!SumFunctionOnSet(IdFills(history, ids), a .. Len(history))
               + M!SumFunctionOnSet(IdFills(more, ids), 1 .. Len(more))
<1> DEFINE all == history \o more
           f == IdFills(all, ids)
           h == IdFills(history, ids)
           g == IdFills(more, ids)
           c == Len(history)
           m == Len(more)
<1>1. /\ all \in Seq(M!Trade) /\ Len(all) = c + m /\ c \in Nat /\ m \in Nat
      /\ \A n \in 1 .. c : all[n] = history[n]
      /\ \A k \in 1 .. m : all[c + k] = more[k]
  BY M!JoinFacts
<1>2. \A n \in 1 .. c + m : f[n] = IdFill(all[n], ids) /\ f[n] \in Int
  BY <1>1, IdFillFacts DEF IdFills
<1>3. \A k \in 1 .. m : g[k] = IdFill(more[k], ids)
  BY DEF IdFills
<1>4. \A n \in 1 .. c : h[n] = IdFill(history[n], ids)
  BY DEF IdFills
<1> HIDE DEF all, f, h, g, c, m
<1>5. a <= c + 1 /\ a \in Int /\ c \in Int
  BY <1>1 DEF c
<1>6. \A n \in a .. c + m : f[n] \in Int
  BY <1>1, <1>2
<1>7. \A k \in 1 .. m : g[k] = f[c + k]
  <2> TAKE k \in 1 .. m
  <2>1. c + k \in 1 .. c + m /\ all[c + k] = more[k]
    BY <1>1
  <2>. QED  BY <1>2, <1>3, <2>1
<1>8. M!SumFunctionOnSet(f, a .. c + m) = M!SumFunctionOnSet(f, a .. c) + M!SumFunctionOnSet(g, 1 .. m)
  <2>1. m \in Nat
    BY <1>1
  <2>. QED  BY <1>5, <1>6, <1>7, <2>1, M!SumSplits
<1>9. M!SumFunctionOnSet(f, a .. c) = M!SumFunctionOnSet(h, a .. c)
  <2>1. \A n \in a .. c : f[n] = h[n]
    BY <1>1, <1>2, <1>4
  <2>. QED  BY <1>5, <2>1, M!FS_Interval, M!SumSame
<1>. QED  BY <1>1, <1>8, <1>9 DEF all, f, h, g, c, m

\* What a trade of o with the order it meets at place fills of the strategy.
LEMMA FillOfEach ==
  ASSUME NEW q, M!GoodBook(q), NEW o \in M!Order, ~Own(o), o.id \notin StrategyIds,
         NEW ids, ids \subseteq StrategyIds, OwnersOf(q, ids),
         NEW place \in M!Reach(q, o), NEW t, t = M!Fill(q, o, place), t \in M!Trade
  PROVE  LET x == M!OrderAt(q, place)
         IN  /\ OwnFill(t) = (IF ~Own(x) THEN 0
                              ELSE IF x.side = "Buy" THEN M!Taken(q, o, place)
                              ELSE -M!Taken(q, o, place))
             /\ IdFill(t, ids) = OwnFill(t)
<1> DEFINE x == M!OrderAt(q, place)
           k == M!Taken(q, o, place)
<1>1. PICK side, p, n : M!MetAt(q, o, place, side, p, n)
  BY M!ReachFacts, M!OrderIsLot
<1>2. x \in M!RestingIn(q) /\ x \in M!Order /\ x.side # o.side
  BY <1>1, M!RestingFacts DEF M!MetAt
<1>3. /\ t.maker_order_id = x.id /\ t.taker_order_id = o.id /\ t.aggressor_side = o.side
      /\ t.maker_participant_id = x.participant_id /\ t.taker_participant_id = o.participant_id
      /\ t.quantity = k
  BY DEF M!Fill
<1>4. k \in Nat
  BY M!TakenFacts, M!OrderIsLot
<1>5. x.side \in {"Buy", "Sell"} /\ o.side \in {"Buy", "Sell"}
  BY <1>2 DEF M!Order, M!Sides
<1> HIDE DEF x, k
<1>6. SignedQuantity(t) = (IF x.side = "Buy" THEN -k ELSE k)
  BY <1>2, <1>3, <1>5 DEF SignedQuantity
<1>7. OwnFill(t) = IF Own(x) THEN -SignedQuantity(t) ELSE 0
  BY <1>3, <1>4, <1>6 DEF OwnFill, Own
<1>8. IdFill(t, ids) = IF Own(x) THEN -SignedQuantity(t) ELSE 0
  <2>1. x.id \in ids <=> Own(x)
    BY <1>2 DEF OwnersOf
  <2>2. t.maker_order_id \in ids <=> Own(x)
    BY <1>3, <2>1
  <2>3. t.taker_order_id \notin ids
    BY <1>3
  <2>4. IdFill(t, ids) = (IF t.maker_order_id \in ids THEN -SignedQuantity(t) ELSE 0)
                           + (IF t.taker_order_id \in ids THEN SignedQuantity(t) ELSE 0)
    BY IdFillFacts
  <2>. QED  BY <1>4, <1>6, <2>2, <2>3, <2>4
<1>. QED  BY <1>4, <1>6, <1>7, <1>8 DEF x, k

\* An order stands at one place only.
LEMMA OnePlace ==
  ASSUME NEW q, M!GoodBook(q), NEW o \in M!Order, NEW place \in M!Reach(q, o),
         NEW x, NEW key, NEW n, M!StandsAt(q, x, key, n), M!OrderAt(q, place) = x
  PROVE  place = M!PlaceIn(key, n)
<1>1. PICK side, p, k : M!MetAt(q, o, place, side, p, k)
  BY M!ReachFacts, M!OrderIsLot
<1>2. key \in M!Keys /\ n \in DOMAIN q[key] /\ x = q[key][n]
  BY DEF M!StandsAt
<1>3. <<side, p>> \in M!Keys /\ k \in DOMAIN q[<<side, p>>] /\ x = q[<<side, p>>][k]
  BY <1>1 DEF M!MetAt, M!StandsAt
<1>4. key = <<side, p>> /\ n = k
  <2>1. M!IdsUnique(q)
    BY DEF M!GoodBook
  <2> DEFINE other == <<side, p>>
  <2>2. key \in M!Keys /\ n \in DOMAIN q[key] /\ other \in M!Keys /\ k \in DOMAIN q[other]
        /\ q[key][n].id = q[other][k].id
    BY <1>2, <1>3
  <2> HIDE DEF other
  <2>3. key = other /\ n = k
    BY <2>1, <2>2, Zenon DEF M!IdsUnique
  <2>. QED  BY <2>3 DEF other
<1>5. place = <<side, p, k>>
  BY <1>1 DEF M!MetAt
<1>. QED  BY <1>4, <1>5 DEF M!PlaceIn

\* The only order of the strategy that o may meet is the nth of the queue at key.
OnlyOwn(q, o, x) ==
  /\ x.side # o.side /\ Own(x)
  /\ \A y \in M!RestingIn(q) : Own(y) /\ y.side # o.side => y = x

\* What an order of the market takes of the strategy's orders is what it takes
\* of the one on the other side, and the strategy knows the trades by its ids.
LEMMA OwnSumOfFills ==
  ASSUME NEW q, M!GoodBook(q), NEW o \in M!Order, ~Own(o), o.id \notin StrategyIds,
         NEW ids, ids \subseteq StrategyIds, OwnersOf(q, ids)
  PROVE  LET F == M!Fills(q, o)
         IN  /\ \A k \in DOMAIN F : IdFill(F[k], ids) = OwnFill(F[k])
             /\ (\A y \in M!RestingIn(q) : ~(Own(y) /\ y.side # o.side))
                  => OwnSum(F) = 0 /\ \A k \in DOMAIN F : OwnFill(F[k]) = 0
             /\ \A x, key, n : M!StandsAt(q, x, key, n) /\ OnlyOwn(q, o, x) =>
                  OwnSum(F) = IF x.side = "Buy" THEN M!TakenAt(q, o, key, n)
                              ELSE -M!TakenAt(q, o, key, n)
<1> DEFINE F == M!Fills(q, o)
           L == M!Cardinality(M!Makers(q, o))
           f == OwnFills(F)
           Met(k) == M!OrderAt(q, M!Nth(q, o, k))
           TakenBy(k) == M!Taken(q, o, M!Nth(q, o, k))
<1>1. F \in Seq(M!Trade) /\ Len(F) = L /\ L \in Nat /\ DOMAIN F = 1 .. L
      /\ \A k \in 1 .. L : F[k] = M!Fill(q, o, M!Nth(q, o, k)) /\ F[k] \in M!Trade
  <2>1. F \in Seq(M!Trade) /\ Len(F) = L /\ L \in Nat
    BY M!FillsFacts, M!NthFacts, M!OrderIsLot
  <2>2. \A k \in 1 .. L : F[k] = M!Fill(q, o, M!Nth(q, o, k))
    BY M!FillsFacts, M!OrderIsLot
  <2> HIDE DEF F, L
  <2>3. DOMAIN F = 1 .. L /\ \A k \in 1 .. L : F[k] \in M!Trade
    BY <2>1
  <2>. QED  BY <2>1, <2>2, <2>3
<1>2. \A k \in 1 .. L : M!Nth(q, o, k) \in M!Reach(q, o)
  BY M!NthFacts, M!OrderIsLot DEF M!Makers
<1>3. \A k \in 1 .. L :
        /\ OwnFill(F[k]) = (IF ~Own(Met(k)) THEN 0
                            ELSE IF Met(k).side = "Buy" THEN TakenBy(k) ELSE -TakenBy(k))
        /\ IdFill(F[k], ids) = OwnFill(F[k])
  <2> TAKE k \in 1 .. L
  <2> DEFINE place == M!Nth(q, o, k)
             t == F[k]
  <2>1. place \in M!Reach(q, o) /\ t = M!Fill(q, o, place) /\ t \in M!Trade
    BY <1>1, <1>2
  <2> HIDE DEF place, t
  <2>2. LET x == M!OrderAt(q, place)
        IN  /\ OwnFill(t) = (IF ~Own(x) THEN 0
                              ELSE IF x.side = "Buy" THEN M!Taken(q, o, place)
                              ELSE -M!Taken(q, o, place))
             /\ IdFill(t, ids) = OwnFill(t)
    BY <2>1, FillOfEach
  <2>. QED  BY <2>2 DEF place, t
<1>4. \A k \in 1 .. L : Met(k) \in M!RestingIn(q) /\ Met(k).side # o.side
  <2> TAKE k \in 1 .. L
  <2>1. PICK side, p, n : M!MetAt(q, o, M!Nth(q, o, k), side, p, n)
    BY <1>2, M!ReachFacts, M!OrderIsLot
  <2>. QED  BY <2>1, M!RestingFacts DEF M!MetAt
<1>5. M!IsFiniteSet(1 .. L) /\ \A k \in 1 .. L : f[k] = OwnFill(F[k])
  BY <1>1, M!FS_Interval DEF OwnFills
<1>6. OwnSum(F) = M!SumFunctionOnSet(f, 1 .. L)
  BY <1>1 DEF OwnSum
<1> HIDE DEF F, L, f
<1>7. ASSUME \A y \in M!RestingIn(q) : ~(Own(y) /\ y.side # o.side)
      PROVE  OwnSum(F) = 0 /\ \A k \in DOMAIN F : OwnFill(F[k]) = 0
  <2>1. \A k \in 1 .. L : OwnFill(F[k]) = 0
    BY <1>3, <1>4, <1>7, Zenon
  <2>2. \A k \in 1 .. L : f[k] = 0
    BY <1>5, <2>1
  <2>. QED  BY <1>1, <1>5, <1>6, <2>1, <2>2, M!SumOfZeros
<1>8. ASSUME NEW x, NEW key, NEW n, M!StandsAt(q, x, key, n), OnlyOwn(q, o, x)
      PROVE  OwnSum(F) = IF x.side = "Buy" THEN M!TakenAt(q, o, key, n)
                         ELSE -M!TakenAt(q, o, key, n)
  <2> DEFINE place == M!PlaceIn(key, n)
  <2>1. \A k \in 1 .. L : Own(Met(k)) => M!Nth(q, o, k) = place
    <3> TAKE k \in 1 .. L
    <3> HAVE Own(Met(k))
    <3>1. Met(k) = x
      BY <1>4, <1>8 DEF OnlyOwn
    <3>. QED  BY <1>2, <1>8, <3>1, OnePlace
  <2> HIDE DEF place
  <2>2. CASE place \in M!Makers(q, o)
    <3>1. PICK m \in 1 .. L : M!Nth(q, o, m) = place
      BY <2>2, M!NthFacts, M!OrderIsLot DEF L
    <3>2. \A k \in (1 .. L) \ {m} : M!Nth(q, o, k) # place
      BY <3>1, M!NthFacts, M!OrderIsLot DEF L
    <3>3. \A k \in (1 .. L) \ {m} : f[k] = 0
      BY <1>3, <1>5, <2>1, <3>2, Zenon
    <3>4. place \in M!Reach(q, o)
      BY <2>2 DEF M!Makers
    <3>5. Met(m) = x
      <4>1. key \in M!Keys /\ n \in DOMAIN q[key] /\ x = q[key][n]
        BY <1>8 DEF M!StandsAt
      <4>2. M!OrderAt(q, M!PlaceIn(key, n)) = q[key][n]
        BY <4>1, M!TakenAtFacts, M!OrderIsLot
      <4>. QED  BY <3>1, <4>1, <4>2 DEF place
    <3>6. Own(Met(m)) /\ TakenBy(m) = M!TakenAt(q, o, key, n)
      BY <1>8, <3>1, <3>4, <3>5 DEF OnlyOwn, M!TakenAt, place
    <3>7. f[m] = IF x.side = "Buy" THEN M!TakenAt(q, o, key, n) ELSE -M!TakenAt(q, o, key, n)
      BY <1>3, <1>5, <3>1, <3>5, <3>6, Zenon
    <3>8. f[m] \in Int
      BY <1>1, <1>5, <3>1, OwnFillIsInteger
    <3>9. M!IsFiniteSet(1 .. L)
      BY <1>5
    <3>10. M!SumFunctionOnSet(f, 1 .. L) = f[m]
      <4> DEFINE T == 1 .. L
      <4>1. m \in T /\ M!IsFiniteSet(T) /\ \A k \in T \ {m} : f[k] = 0
        BY <3>1, <3>3, <3>9
      <4> HIDE DEF T
      <4>2. M!SumFunctionOnSet(f, T) = f[m]
        BY <3>8, <4>1, M!SumOfOne
      <4>. QED  BY <4>2 DEF T
    <3>. QED  BY <1>6, <3>7, <3>10
  <2>3. CASE place \notin M!Makers(q, o)
    <3>1. \A k \in 1 .. L : ~Own(Met(k))
      BY <2>1, <2>3, M!NthFacts, M!OrderIsLot DEF L
    <3>2. \A k \in 1 .. L : f[k] = 0
      BY <1>3, <1>5, <3>1, Zenon
    <3>3. M!TakenAt(q, o, key, n) = 0
      <4>1. CASE place \in M!Reach(q, o)
        <5>1. M!Taken(q, o, place) \in Nat /\ ~(M!Taken(q, o, place) > 0)
          BY <2>3, <4>1, M!TakenFacts, M!OrderIsLot DEF M!Makers
        <5>. QED  BY <4>1, <5>1 DEF M!TakenAt, place
      <4>2. CASE place \notin M!Reach(q, o)
        BY <4>2 DEF M!TakenAt, place
      <4>. QED  BY <4>1, <4>2
    <3>4. M!SumFunctionOnSet(f, 1 .. L) = 0
      BY <1>5, <3>2, M!SumOfZeros
    <3>5. -M!TakenAt(q, o, key, n) = 0
      <4>1. M!TakenAt(q, o, key, n) \in Int
        BY <3>3
      <4>2. -M!TakenAt(q, o, key, n) = 0 - M!TakenAt(q, o, key, n)
        BY <4>1
      <4>3. 0 - M!TakenAt(q, o, key, n) = 0
        BY <3>3
      <4>. QED  BY <4>2, <4>3
    <3>. QED  BY <1>6, <3>3, <3>4, <3>5
  <2>. QED  BY <2>2, <2>3
<1>9. \A k \in DOMAIN F : IdFill(F[k], ids) = OwnFill(F[k])
  BY <1>1, <1>3, Zenon
<1>. QED  BY <1>7, <1>8, <1>9 DEF F

----------------------------------------------------------------------------
(* The market moves                                                        *)

\* The position e is within the limit, and stays there if a quote resting in q
\* is filled.
Room(q, e) ==
  /\ -MaximumPosition <= e /\ e <= MaximumPosition
  /\ \A o \in M!RestingIn(q) : Own(o) =>
       IF o.side = "Buy" THEN e + o.quantity <= MaximumPosition
       ELSE -MaximumPosition <= e - o.quantity

\* The limit on a magnitude is a limit on both sides.
LEMMA MagnitudeIs ==
  \A e \in Int : Magnitude(e) <= MaximumPosition
                   <=> -MaximumPosition <= e /\ e <= MaximumPosition
BY ConfigAssumption DEF Magnitude

\* The strategy has one quote a side.
OneEach(q) ==
  \A x, y \in M!RestingIn(q) : Own(x) /\ Own(y) /\ x.side = y.side => x = y

\* The orders of the strategy in after descend from those in q.
Descends(q, after) ==
  \A x \in M!RestingIn(after) : Own(x) =>
    \E y \in M!RestingIn(q) : Own(y) /\ y.id = x.id /\ y.side = x.side

\* What a call of another participant that leads from q to after, with the
\* trades more, means to the strategy.
Moved(q, after, more) ==
  /\ M!GoodBook(after) /\ more \in Seq(M!Trade)
  /\ OwnersOf(after, owned) /\ Descends(q, after)
  /\ \A k \in DOMAIN more : IdFill(more[k], owned) = OwnFill(more[k])
  /\ (\A y \in M!RestingIn(q) : ~Own(y)) => \A k \in DOMAIN more : OwnFill(more[k]) = 0
  /\ \A e \in Int : Room(q, e) => Room(after, e + OwnSum(more))

\* A call that trades nothing and leaves the quotes alone.
LEMMA NothingOwnMoved ==
  ASSUME NEW q, NEW after, M!GoodBook(after), OwnersOf(q, owned),
         \A x \in M!RestingIn(after) :
           IF Own(x) THEN x \in M!RestingIn(q) ELSE x.id \notin StrategyIds
  PROVE  Moved(q, after, << >>)
<1>1. << >> \in Seq(M!Trade) /\ DOMAIN << >> = {} /\ Len(<< >>) = 0
  OBVIOUS
<1>2. OwnSum(<< >>) = 0
  BY <1>1, M!SumOfNone DEF OwnSum
<1>3. OwnersOf(after, owned) /\ Descends(q, after)
  BY Zenon DEF OwnersOf, Descends
<1>4. \A e \in Int : Room(q, e) => Room(after, e + OwnSum(<< >>))
  <2> TAKE e \in Int
  <2>1. e + OwnSum(<< >>) = e
    BY <1>2
  <2>2. Room(q, e) => Room(after, e)
    BY DEF Room
  <2>. QED  BY <2>1, <2>2
<1>. QED  BY <1>1, <1>3, <1>4, Zenon DEF Moved

\* What is left of the quotes once o has been matched.
LEMMA OwnAfterExecute ==
  ASSUME NEW q, M!GoodBook(q), NEW o \in M!Order, ~Own(o),
         \A x \in M!RestingIn(q) : x.id # o.id,
         NEW x \in M!RestingIn(M!AfterExecute(q, o)), Own(x)
  PROVE  \E key, n, y : /\ M!StandsAt(q, y, key, n) /\ M!LeftOf(y, M!TakenAt(q, o, key, n), x)
                        /\ y \in M!RestingIn(q) /\ Own(y)
                        /\ y.side = o.side => M!TakenAt(q, o, key, n) = 0
<1>1. ~(x = M!Remainder(q, o) /\ M!Left(q, o) > 0)
  BY M!RemainderFacts DEF Own
<1>2. \E key \in M!Keys : \E n \in DOMAIN q[key] : M!LeftOf(q[key][n], M!TakenAt(q, o, key, n), x)
  BY <1>1, M!ExecutesOrder
<1>3. PICK key \in M!Keys : \E n \in DOMAIN q[key] : M!LeftOf(q[key][n], M!TakenAt(q, o, key, n), x)
  BY <1>2
<1>4. PICK n \in DOMAIN q[key] : M!LeftOf(q[key][n], M!TakenAt(q, o, key, n), x)
  BY <1>3
<1> DEFINE y == q[key][n]
<1>5. M!StandsAt(q, y, key, n) /\ y \in M!RestingIn(q)
  BY M!RestingFacts DEF M!StandsAt
<1>6. Own(y)
  BY <1>4 DEF M!LeftOf, Own
<1>7. <<y.side, y.price>> = key
  BY DEF M!GoodBook, M!QueuesTyped
<1>8. y.side = o.side => M!TakenAt(q, o, key, n) = 0
  BY <1>7, M!NoneOfOwnSide, M!OrderIsLot
<1>. QED  BY <1>4, <1>5, <1>6, <1>8

\* An order stands at one place.
LEMMA StandsOnce ==
  ASSUME NEW q, M!GoodBook(q), NEW z, NEW a, NEW i, NEW b, NEW j,
         M!StandsAt(q, z, a, i), M!StandsAt(q, z, b, j)
  PROVE  a = b /\ i = j
<1>1. a \in M!Keys /\ i \in DOMAIN q[a] /\ z = q[a][i]
  BY DEF M!StandsAt
<1>2. b \in M!Keys /\ j \in DOMAIN q[b] /\ z = q[b][j]
  BY DEF M!StandsAt
<1>3. q[a][i].id = q[b][j].id
  BY <1>1, <1>2
<1>4. a \in M!Keys /\ i \in DOMAIN q[a] /\ b \in M!Keys /\ j \in DOMAIN q[b]
  BY <1>1, <1>2
<1>5. M!IdsUnique(q)
  BY DEF M!GoodBook
<1>. QED  BY <1>3, <1>4, <1>5, Zenon DEF M!IdsUnique

\* An order of the market that is executed moves exposure and quotes together.
LEMMA ExecuteMoved ==
  ASSUME NEW q, M!GoodBook(q), NEW o \in M!Order, ~Own(o), o.id \notin StrategyIds,
         \A x \in M!RestingIn(q) : x.id # o.id,
         owned \subseteq StrategyIds, OwnersOf(q, owned), OneEach(q)
  PROVE  Moved(q, M!AfterExecute(q, o), M!Fills(q, o))
<1> DEFINE after == M!AfterExecute(q, o)
           more == M!Fills(q, o)
<1>1. M!GoodBook(after) /\ more \in Seq(M!Trade)
  BY M!ExecutesOrder, M!FillsFacts, M!OrderIsLot
<1>2. \A x \in M!RestingIn(after) : Own(x) =>
        \E key, n, y : /\ M!StandsAt(q, y, key, n) /\ M!LeftOf(y, M!TakenAt(q, o, key, n), x)
                       /\ y \in M!RestingIn(q) /\ Own(y)
                       /\ y.side = o.side => M!TakenAt(q, o, key, n) = 0
  BY OwnAfterExecute
<1>3. /\ \A k \in DOMAIN more : IdFill(more[k], owned) = OwnFill(more[k])
      /\ (\A y \in M!RestingIn(q) : ~(Own(y) /\ y.side # o.side))
           => OwnSum(more) = 0 /\ \A k \in DOMAIN more : OwnFill(more[k]) = 0
      /\ \A x, key, n : M!StandsAt(q, x, key, n) /\ OnlyOwn(q, o, x) =>
           OwnSum(more) = IF x.side = "Buy" THEN M!TakenAt(q, o, key, n)
                          ELSE -M!TakenAt(q, o, key, n)
  BY OwnSumOfFills
<1>4. \A x \in M!RestingIn(after) : ~Own(x) => x.id \notin StrategyIds
  <2> TAKE x \in M!RestingIn(after)
  <2> HAVE ~Own(x)
  <2>1. CASE x = M!Remainder(q, o) /\ M!Left(q, o) > 0
    BY <2>1, M!RemainderFacts
  <2>2. CASE \E key \in M!Keys : \E n \in DOMAIN q[key] :
               M!LeftOf(q[key][n], M!TakenAt(q, o, key, n), x)
    <3>1. PICK key \in M!Keys : \E n \in DOMAIN q[key] :
                 M!LeftOf(q[key][n], M!TakenAt(q, o, key, n), x)
      BY <2>2
    <3>2. PICK n \in DOMAIN q[key] : M!LeftOf(q[key][n], M!TakenAt(q, o, key, n), x)
      BY <3>1
    <3>3. q[key][n] \in M!RestingIn(q)
      BY M!RestingFacts DEF M!StandsAt
    <3>4. q[key][n].id = x.id /\ ~Own(q[key][n])
      BY <3>2 DEF M!LeftOf, Own
    <3>. QED  BY <3>3, <3>4 DEF OwnersOf
  <2>. QED  BY <2>1, <2>2, M!ExecutesOrder
<1> HIDE DEF after, more
<1>5. Descends(q, after)
  <2> SUFFICES ASSUME NEW x \in M!RestingIn(after), Own(x)
               PROVE  \E y \in M!RestingIn(q) : Own(y) /\ y.id = x.id /\ y.side = x.side
    BY DEF Descends
  <2>1. PICK key, n, y : M!LeftOf(y, M!TakenAt(q, o, key, n), x) /\ y \in M!RestingIn(q) /\ Own(y)
    BY <1>2
  <2>. QED  BY <2>1 DEF M!LeftOf
<1>6. OwnersOf(after, owned)
  <2> SUFFICES ASSUME NEW x \in M!RestingIn(after), Own(x)
               PROVE  x.id \in owned
    BY <1>4, Zenon DEF OwnersOf
  <2>1. PICK y \in M!RestingIn(q) : Own(y) /\ y.id = x.id
    BY <1>5 DEF Descends
  <2>. QED  BY <2>1 DEF OwnersOf
<1>7. ASSUME NEW e \in Int, Room(q, e)
      PROVE  Room(after, e + OwnSum(more))
  <2> DEFINE limit == MaximumPosition
  <2>1. limit \in Nat /\ -limit <= e /\ e <= limit
    BY <1>7, ConfigAssumption DEF Room
  <2>2. \A y \in M!RestingIn(q) :
          /\ y.quantity \in Nat /\ y.side \in {"Buy", "Sell"}
          /\ Own(y) => IF y.side = "Buy" THEN e + y.quantity <= limit ELSE -limit <= e - y.quantity
    <3>1. \A y \in M!RestingIn(q) : y \in M!Order
      BY SameId
    <3>. QED  BY <1>7, <3>1 DEF Room, M!Order, M!Sides
  <2>3. CASE \A y \in M!RestingIn(q) : ~(Own(y) /\ y.side # o.side)
    <3>1. OwnSum(more) = 0 /\ e + OwnSum(more) = e
      BY <1>3, <2>3
    <3>2. ASSUME NEW x \in M!RestingIn(after), Own(x)
          PROVE  IF x.side = "Buy" THEN e + x.quantity <= limit ELSE -limit <= e - x.quantity
      <4>1. PICK key, n, y : /\ M!LeftOf(y, M!TakenAt(q, o, key, n), x) 
                             /\ y \in M!RestingIn(q) /\ Own(y)
                             /\ y.side = o.side => M!TakenAt(q, o, key, n) = 0
        BY <1>2, <3>2
      <4>2. y.side = x.side /\ x.quantity = y.quantity - M!TakenAt(q, o, key, n)
        BY <4>1 DEF M!LeftOf
      <4>3. M!TakenAt(q, o, key, n) = 0
        BY <2>3, <4>1
      <4>4. x.quantity = y.quantity
        BY <2>2, <4>1, <4>2, <4>3
      <4>. QED  BY <2>2, <4>1, <4>2, <4>4
    <3>. QED  BY <2>1, <3>1, <3>2 DEF Room
  <2>4. CASE \E y \in M!RestingIn(q) : Own(y) /\ y.side # o.side
    <3>1. PICK z \in M!RestingIn(q) : Own(z) /\ z.side # o.side
      BY <2>4
    <3>2. o.side \in {"Buy", "Sell"}
      BY DEF M!Order, M!Sides
    <3>3. OnlyOwn(q, o, z)
      <4>1. ASSUME NEW y \in M!RestingIn(q), Own(y), y.side # o.side PROVE y = z
        <5>1. y.side = z.side
          BY <2>2, <3>1, <3>2, <4>1
        <5>. QED  BY <3>1, <4>1, <5>1 DEF OneEach
      <4>. QED  BY <3>1, <4>1 DEF OnlyOwn
    <3>4. PICK at, i : M!StandsAt(q, z, at, i)
      BY M!RestingFacts
    <3> DEFINE T == M!TakenAt(q, o, at, i)
    <3>5. T \in Nat /\ T <= z.quantity
      BY <3>4, M!TakenAtFacts, M!OrderIsLot DEF M!StandsAt
    <3>6. OwnSum(more) = IF z.side = "Buy" THEN T ELSE -T
      BY <1>3, <3>3, <3>4
    <3>7. \A key, n : M!StandsAt(q, z, key, n) => M!TakenAt(q, o, key, n) = T
      <4>1. ASSUME NEW key, NEW n, M!StandsAt(q, z, key, n) PROVE key = at /\ n = i
        BY <3>4, <4>1, StandsOnce
      <4>. QED  BY <4>1
    <3> HIDE DEF T, limit
    <3>8. -limit <= e + OwnSum(more) /\ e + OwnSum(more) <= limit
      BY <2>1, <2>2, <3>1, <3>5, <3>6
    <3>9. ASSUME NEW x \in M!RestingIn(after), Own(x)
          PROVE  IF x.side = "Buy" THEN (e + OwnSum(more)) + x.quantity <= limit
                 ELSE -limit <= (e + OwnSum(more)) - x.quantity
      <4>1. PICK key, n, y : /\ M!StandsAt(q, y, key, n) /\ M!LeftOf(y, M!TakenAt(q, o, key, n), x) 
                             /\ y \in M!RestingIn(q) /\ Own(y)
                             /\ y.side = o.side => M!TakenAt(q, o, key, n) = 0
        BY <1>2, <3>9
      <4>2. y.side = x.side /\ x.quantity = y.quantity - M!TakenAt(q, o, key, n)
        BY <4>1 DEF M!LeftOf
      <4>3. CASE y.side = o.side
        <5>1. x.quantity = y.quantity /\ y.quantity \in Nat
          BY <2>2, <4>1, <4>2, <4>3
        <5>. QED  BY <2>1, <2>2, <3>1, <3>2, <3>5, <3>6, <4>1, <4>2, <4>3, <5>1
      <4>4. CASE y.side # o.side
        <5>1. y = z
          BY <3>3, <4>1, <4>4 DEF OnlyOwn
        <5>2. x.quantity = z.quantity - T
          BY <3>7, <4>1, <4>2, <5>1
        <5>. QED  BY <2>1, <2>2, <3>1, <3>5, <3>6, <4>2, <5>1, <5>2
      <4>. QED  BY <4>3, <4>4
    <3>. QED  BY <3>8, <3>9 DEF Room, limit
  <2>. QED  BY <2>3, <2>4
<1>8. (\A y \in M!RestingIn(q) : ~Own(y)) => \A k \in DOMAIN more : OwnFill(more[k]) = 0
  BY <1>3, Zenon
<1>9. Moved(q, after, more)
  BY <1>1, <1>3, <1>5, <1>6, <1>7, <1>8, Zenon DEF Moved, after, more
<1>. QED  BY <1>9 DEF after, more

\* The orders of the others are orders of the model, and not the strategy's.
LEMMA MarketOrderFacts ==
  ASSUME NEW o \in MarketOrders
  PROVE  /\ o.id \in Ids /\ o.id \notin StrategyIds /\ o.price \in Prices /\ o.quantity \in Nat
         /\ o.price \in Nat \ {0}
         /\ ~Own(o)
         /\ o.symbol_id = Symbol /\ o.quantity > 0 => o \in M!Order
<1>1. o \in [id : {x.id : x \in MarketOrders}, side : {"Buy", "Sell"}, price : Prices,
             quantity : Nat, participant_id : {x.participant_id : x \in MarketOrders},
             symbol_id : {x.symbol_id : x \in MarketOrders}]
  BY MarketAssumption
<1>2. o.price \in Prices /\ o.quantity \in Nat /\ o.price \in Nat \ {0}
  BY <1>1, MarketAssumption
<1>3. o.id \notin StrategyIds /\ ~Own(o)
  BY MarketAssumption DEF StrategyIds, Own
<1>4. o.id \in Ids /\ o.participant_id \in People
  BY DEF Ids, People
<1>5. ASSUME o.symbol_id = Symbol, o.quantity > 0 PROVE o \in M!Order
  <2>1. o = [id |-> o.id, side |-> o.side, price |-> o.price, quantity |-> o.quantity,
             participant_id |-> o.participant_id, symbol_id |-> o.symbol_id]
    BY <1>1
  <2>2. o.side \in M!Sides /\ o.price \in Int /\ o.quantity \in Nat \ {0} /\ o.symbol_id \in {Symbol}
    BY <1>1, <1>2, <1>5 DEF M!Sides
  <2>. QED  BY <1>4, <2>1, <2>2 DEF M!Order
<1>. QED  BY <1>2, <1>3, <1>4, <1>5

\* A call of the engine that leaves the queues alone.
LEMMA Unmoved ==
  ASSUME NEW q, M!GoodBook(q), OwnersOf(q, owned)
  PROVE  Moved(q, q, << >>)
<1>1. \A x \in M!RestingIn(q) :
        IF Own(x) THEN x \in M!RestingIn(q) ELSE x.id \notin StrategyIds
  BY DEF OwnersOf
<1>. QED  BY <1>1, NothingOwnMoved

\* An order of the market that is added leaves the quotes alone.
LEMMA AddMoved ==
  ASSUME M!GoodBook(queue), OwnersOf(queue, owned), NEW o \in MarketOrders, M!Add(o)
  PROVE  trades' = trades /\ Moved(queue, queue', << >>)
<1>1. CASE M!Acceptable(o)
  <2>1. o.quantity > 0 /\ o.symbol_id = Symbol /\ \A x \in M!RestingIn(queue) : x.id # o.id
    BY <1>1, RestingIs DEF M!Acceptable
  <2>2. o \in M!Order /\ o.price \in Prices /\ ~Own(o) /\ o.id \notin StrategyIds
    BY <2>1, MarketOrderFacts
  <2>3. trades' = trades /\ queue' = M!AfterAdd(queue, o)
    BY <1>1 DEF M!Add
  <2>4. M!GoodBook(queue') /\ M!RestingIn(queue') = M!RestingIn(queue) \cup {o}
    BY <2>1, <2>2, <2>3, M!AddsOrder
  <2>5. \A x \in M!RestingIn(queue') :
          IF Own(x) THEN x \in M!RestingIn(queue) ELSE x.id \notin StrategyIds
    BY <2>2, <2>4 DEF OwnersOf
  <2>. QED  BY <2>3, <2>4, <2>5, NothingOwnMoved
<1>2. CASE ~M!Acceptable(o)
  <2>1. trades' = trades /\ queue' = queue
    BY <1>2 DEF M!Add
  <2>. QED  BY <2>1, Unmoved
<1>. QED  BY <1>1, <1>2

\* So does one that is cancelled.
LEMMA CancelMoved ==
  ASSUME M!GoodBook(queue), OwnersOf(queue, owned), NEW id, M!Cancel(id),
         \A x \in M!RestingIn(queue) : x.id = id => ~Own(x)
  PROVE  trades' = trades /\ Moved(queue, queue', << >>)
<1>1. CASE Resting(id)
  <2>1. PICK o \in M!RestingIn(queue) : o.id = id
    BY <1>1, RestingIs
  <2>2. trades' = trades /\ queue' = M!AfterCancel(queue, o.id)
    BY <1>1, <2>1, SameResting DEF M!Cancel, Resting
  <2>3. M!GoodBook(queue') /\ M!RestingIn(queue') = M!RestingIn(queue) \ {o}
    BY <2>2, M!CancelsOrder
  <2>4. \A x \in M!RestingIn(queue') :
          IF Own(x) THEN x \in M!RestingIn(queue) ELSE x.id \notin StrategyIds
    BY <2>3 DEF OwnersOf
  <2>. QED  BY <2>2, <2>3, <2>4, NothingOwnMoved
<1>2. CASE ~Resting(id)
  <2>1. trades' = trades /\ queue' = queue
    BY <1>2, SameResting DEF M!Cancel, Resting
  <2>. QED  BY <2>1, Unmoved
<1>. QED  BY <1>1, <1>2

\* And one that is modified.
LEMMA ModifyMoved ==
  ASSUME M!GoodBook(queue), OwnersOf(queue, owned), NEW id, NEW price \in Prices, NEW quantity \in Nat,
         M!Modify(id, price, quantity),
         \A x \in M!RestingIn(queue) : x.id = id => ~Own(x)
  PROVE  trades' = trades /\ Moved(queue, queue', << >>)
<1>1. CASE Resting(id) /\ quantity # 0 /\ price > 0
  <2>1. PICK o \in M!RestingIn(queue) : o.id = id
    BY <1>1, RestingIs
  <2>2. trades' = trades /\ queue' = M!AfterModify(queue, o.id, price, quantity)
    BY <1>1, <2>1, SameResting DEF M!Modify, Resting
  <2>3. quantity \in Nat \ {0} /\ price \in Int /\ o \in M!Order
    BY <1>1, MarketAssumption, SameId
  <2>4. M!GoodBook(queue') 
    BY <2>2, <2>3, M!ModifiesOrder
  <2>5. PICK new : /\ M!Renewed(o, price, quantity, new)
                   /\ M!RestingIn(queue') = (M!RestingIn(queue) \ {o}) \cup {new}
    BY <2>2, <2>3, M!ModifiesOrder
  <2>6. \A x \in M!RestingIn(queue') :
          IF Own(x) THEN x \in M!RestingIn(queue) ELSE x.id \notin StrategyIds
    BY <2>1, <2>5 DEF OwnersOf, M!Renewed, Own
  <2>. QED  BY <2>2, <2>4, <2>6, NothingOwnMoved
<1>2. CASE ~(Resting(id) /\ quantity # 0 /\ price > 0)
  <2>1. trades' = trades /\ queue' = queue
    BY <1>2, SameResting DEF M!Modify, Resting
  <2>. QED  BY <2>1, Unmoved
<1>. QED  BY <1>1, <1>2

\* Whatever the market does, what it trades and what it leaves of the quotes
\* agree.
LEMMA MarketMoved ==
  ASSUME M!GoodBook(queue), OwnersOf(queue, owned), owned \subseteq StrategyIds, OneEach(queue),
         trades \in Seq(M!Trade), MarketMoves
  PROVE  \E more : /\ trades' = trades \o more /\ Moved(queue, queue', more)
                   /\ exposure' = exposure + OwnSum(more)
<1>1. \E more : trades' = trades \o more /\ Moved(queue, queue', more)
  <2>1. trades \o << >> = trades
    OBVIOUS
  <2>2. ASSUME NEW o \in MarketOrders
        PROVE  \A x \in M!RestingIn(queue) : x.id = o.id => ~Own(x)
    BY MarketOrderFacts DEF OwnersOf
  <2>3. ASSUME NEW o \in MarketOrders, M!Add(o)
        PROVE  \E more : trades' = trades \o more /\ Moved(queue, queue', more)
    BY <2>1, <2>3, AddMoved
  <2>4. ASSUME NEW o \in MarketOrders, M!Modify(o.id, o.price, o.quantity)
        PROVE  \E more : trades' = trades \o more /\ Moved(queue, queue', more)
    <3>1. o.price \in Prices /\ o.quantity \in Nat
      BY MarketOrderFacts
    <3>2. trades' = trades /\ Moved(queue, queue', << >>)
      BY <2>2, <2>4, <3>1, ModifyMoved
    <3>. QED  BY <2>1, <3>2
  <2>5. ASSUME NEW o \in MarketOrders, M!Execute(o)
        PROVE  \E more : trades' = trades \o more /\ Moved(queue, queue', more)
    <3>1. CASE M!Acceptable(o)
      <4>1. o.quantity > 0 /\ o.symbol_id = Symbol
            /\ \A x \in M!RestingIn(queue) : x.id # o.id
        BY <3>1, RestingIs DEF M!Acceptable
      <4>2. o \in M!Order /\ ~Own(o) /\ o.id \notin StrategyIds
        BY <4>1, MarketOrderFacts
      <4>3. trades' = trades \o M!Fills(queue, o) /\ queue' = M!AfterExecute(queue, o)
        BY <2>5, <3>1 DEF M!Execute
      <4>4. Moved(queue, M!AfterExecute(queue, o), M!Fills(queue, o))
        BY <4>1, <4>2, ExecuteMoved
      <4>. QED  BY <4>3, <4>4
    <3>2. CASE ~M!Acceptable(o)
      <4>1. trades' = trades /\ queue' = queue
        BY <2>5, <3>2 DEF M!Execute
      <4>. QED  BY <2>1, <4>1, Unmoved
    <3>. QED  BY <3>1, <3>2
  <2>6. ASSUME NEW o \in MarketOrders, M!Cancel(o.id)
        PROVE  \E more : trades' = trades \o more /\ Moved(queue, queue', more)
    BY <2>1, <2>2, <2>6, CancelMoved
  <2>. QED  BY <2>3, <2>4, <2>5, <2>6, SameAdd, SameModify, SameExecute, SameCancel DEF MarketMoves
<1>2. PICK more : trades' = trades \o more /\ Moved(queue, queue', more)
  BY <1>1
<1>3. more \in Seq(M!Trade)
  BY <1>2 DEF Moved
<1>4. exposure' = exposure + FilledSince(trades', Len(trades))
  BY DEF MarketMoves
<1>5. FilledSince(trades \o more, Len(trades)) = OwnSum(more)
  BY <1>3, FilledSinceIs
<1>6. exposure' = exposure + OwnSum(more)
  BY <1>2, <1>4, <1>5
<1>. QED  BY <1>2, <1>6

----------------------------------------------------------------------------
(* The invariant                                                           *)

TypeInv ==
  /\ pc \in {"outside", "cancelling", "refreshing", "resetting", "quoting", "submitting"}
  /\ pc \in {"refreshing", "quoting"} => nextId < LastStrategyId
  /\ M!GoodBook(queue) /\ trades \in Seq(M!Trade)
  /\ nextId \in Nat /\ FirstStrategyId <= nextId
  /\ owned \subseteq StrategyIds /\ \A id \in owned : id < nextId
  /\ position \in Int /\ exposure \in Int /\ written \in Int
  /\ processed \in Nat /\ cursor \in Nat
  /\ fills \in Seq(Int)

\* What a quote may be: its symbol is the strategy's, whatever the book trades.
Quoted == [id : Ids, side : M!Sides, price : Int, quantity : Nat \ {0},
           participant_id : People, symbol_id : {StrategySymbol}]

\* A quote that has been made but not submitted: its id is new and nothing that
\* rests crosses it.
PendingQuote(o, q, ids, next) ==
  /\ o \in Quoted /\ Own(o)
  /\ o.id \in StrategyIds /\ o.id \notin ids /\ o.id < next
  /\ Passive(q, o)

QuotesInv ==
  pc = "submitting" =>
    /\ ~killSwitch
    /\ quotes \in Seq(Quoted)
    /\ \/ /\ Len(quotes) = 1 /\ PendingQuote(quotes[1], queue, owned, nextId)
          /\ quotes[1].side = "Sell"
       \/ /\ Len(quotes) = 2 /\ PendingQuote(quotes[1], queue, owned, nextId)
          /\ PendingQuote(quotes[2], queue, owned, nextId)
          /\ quotes[1].side = "Buy" /\ quotes[2].side = "Sell"
          /\ quotes[1].price < quotes[2].price /\ quotes[1].id # quotes[2].id

\* Which quotes rest, at each point of a call.
OwnInv ==
  \A o \in M!RestingIn(queue) : Own(o) =>
    /\ pc = "outside" => o.id = (IF o.side = "Buy" THEN activeBid ELSE activeAsk) /\ ~killSwitch
    /\ pc \in {"cancelling", "refreshing", "resetting"} => o.side = "Sell" /\ o.id = activeAsk
    /\ pc # "quoting"
    /\ pc = "submitting" => Len(quotes) = 1 /\ o.side = "Buy" /\ o.id = activeBid

\* The position p and what has been told of it are the totals of the fills f.
Ledger(p, f, c, w, missed) ==
  /\ p = Total(f)
  /\ IF c > Len(f) THEN missed /\ w = 0 ELSE ~missed => w = Total(SubSeq(f, 1, c))

LedgerInv == Ledger(position, fills, cursor, written, unnoticed)

\* What the trades of a history not among the first n come to for the ids, and
\* all of it when n is of another history.
PendingFrom(history, ids, n) ==
  M!SumFunctionOnSet(IdFills(history, ids), (IF n > Len(history) THEN 1 ELSE n + 1) .. Len(history))

\* The strategy knows what it has traded, but for the trades not yet processed.
SyncInv ==
  /\ ~lost => exposure = position + PendingFrom(trades, owned, processed)
  /\ processed > Len(trades) =>
       /\ \A o \in M!RestingIn(queue) : ~Own(o)
       /\ \A k \in DOMAIN trades : IdFill(trades[k], owned) = 0
  /\ pc # "outside" => processed = Len(trades)

OwnersInv == OwnersOf(queue, owned)
LimitInv == ~lost => Room(queue, exposure)

IInv == TypeInv /\ OwnersInv /\ QuotesInv /\ OwnInv /\ LedgerInv /\ SyncInv /\ LimitInv

----------------------------------------------------------------------------
(* Lemmas on what the invariant says                                       *)

\* Nothing is pending once all trades have been processed.
LEMMA NothingPending ==
  ASSUME NEW history \in Seq(M!Trade), NEW ids, NEW n, n = Len(history)
  PROVE  PendingFrom(history, ids, n) = 0
<1>1. Len(history) \in Nat
  OBVIOUS
<1>2. (IF n > Len(history) THEN 1 ELSE n + 1) .. Len(history) = {}
  BY <1>1
<1>. QED  BY <1>2, M!SumOfNone DEF PendingFrom

\* Nothing is pending when no trade fills an order of the strategy.
LEMMA NothingFilled ==
  ASSUME NEW history \in Seq(M!Trade), NEW ids, NEW n \in Nat,
         \A k \in DOMAIN history : IdFill(history[k], ids) = 0
  PROVE  PendingFrom(history, ids, n) = 0
<1> DEFINE a == IF n > Len(history) THEN 1 ELSE n + 1
           L == Len(history)
           f == IdFills(history, ids)
<1>1. a \in Int /\ L \in Nat /\ 1 <= a
  OBVIOUS
<1>2. \A k \in 1 .. L : f[k] = 0
  BY DEF IdFills
<1>3. PendingFrom(history, ids, n) = M!SumFunctionOnSet(f, a .. L)
  BY DEF PendingFrom
<1> HIDE DEF a, L, f
<1>4. M!IsFiniteSet(a .. L) /\ \A k \in a .. L : f[k] = 0
  BY <1>1, <1>2, M!FS_Interval
<1>. QED  BY <1>3, <1>4, M!SumOfZeros

\* New fills are told of later.
LEMMA LedgerGrows ==
  ASSUME NEW s \in Seq(Int), NEW t \in Seq(Int), NEW p, NEW c \in Nat, NEW w, NEW missed,
         Ledger(p, s, c, w, missed)
  PROVE  Ledger(p + Total(t), s \o t, c, w, missed)
<1>1. p = Total(s) /\ IF c > Len(s) THEN missed /\ w = 0 ELSE ~missed => w = Total(SubSeq(s, 1, c))
  BY DEF Ledger
<1>2. Total(s \o t) = Total(s) + Total(t)
  BY M!TotalJoins, SameLibrary DEF Total
<1>3. Len(s) \in Nat /\ Len(t) \in Nat /\ Len(s \o t) = Len(s) + Len(t)
  OBVIOUS
<1>4. CASE c > Len(s)
  <2>1. missed /\ w = 0
    BY <1>1, <1>4
  <2>. QED  BY <1>1, <1>2, <2>1 DEF Ledger
<1>5. CASE c <= Len(s)
  <2>1. SubSeq(s \o t, 1, c) = SubSeq(s, 1, c)
    BY <1>5
  <2>2. ~(c > Len(s \o t)) /\ ~(c > Len(s))
    BY <1>3, <1>5
  <2>. QED  BY <1>1, <1>2, <2>1, <2>2 DEF Ledger
<1>. QED  BY <1>3, <1>4, <1>5

\* The ledger of no fills, which a cursor left from others must not have been told of.
LEMMA EmptyLedger ==
  ASSUME NEW c \in Nat, NEW missed, c # 0 => missed
  PROVE  Ledger(0, << >>, c, 0, missed)
<1>1. << >> \in Seq(Int) /\ SubSeq(<< >>, 1, 0) = << >> /\ Len(<< >>) = 0
  OBVIOUS
<1>2. Total(<< >>) = 0
  BY <1>1, M!TotalIs, SameLibrary DEF Total
<1>3. 0 = Total(<< >>)
  BY <1>2
<1>4. CASE c = 0
  <2>1. ~(c > Len(<< >>))
    BY <1>1, <1>4
  <2>2. 0 = Total(SubSeq(<< >>, 1, c))
    BY <1>1, <1>3, <1>4, Zenon
  <2>. QED  BY <1>3, <2>1, <2>2, Zenon DEF Ledger
<1>5. CASE c # 0
  <2>1. c > Len(<< >>)
    BY <1>1, <1>5
  <2>2. missed
    BY <1>5, Zenon
  <2>. QED  BY <1>3, <2>1, <2>2, Zenon DEF Ledger
<1>. QED  BY <1>4, <1>5

\* Processing the trades leaves the ledger in order and adds what was pending.
LEMMA Recounts ==
  ASSUME fills \in Seq(Int), position \in Int, processed \in Nat, cursor \in Nat, LedgerInv,
         NEW history \in Seq(M!Trade), NEW ids, Processes(history, ids), UNCHANGED bridgeVars
  PROVE  /\ fills' \in Seq(Int) /\ position' \in Int
         /\ processed' \in Nat /\ processed' = Len(history)
         /\ position' = position + PendingFrom(history, ids, processed)
         /\ LedgerInv'
<1> DEFINE new == NewFills(history, ids)
<1>1. new \in Seq(Int) /\ Total(new) = PendingFrom(history, ids, processed)
  BY NewFillsFacts DEF PendingFrom, FirstUnprocessed
<1>2. position' = position + Total(new) /\ fills' = fills \o new /\ processed' = Len(history)
  BY DEF Processes
<1> HIDE DEF new
<1>3. Total(new) \in Int
  BY <1>1, M!TotalIs, SameLibrary DEF Total
<1>4. Ledger(position + Total(new), fills \o new, cursor, written, unnoticed)
  BY <1>1, LedgerGrows DEF LedgerInv
<1>5. LedgerInv'
  BY <1>2, <1>4 DEF LedgerInv, bridgeVars
<1>6. fills' \in Seq(Int)
  BY <1>1, <1>2
<1>7. processed' \in Nat
  BY <1>2
<1>. QED  BY <1>1, <1>2, <1>3, <1>5, <1>6, <1>7

\* Outside a call the strategy has one quote a side.
LEMMA OneQuoteEach ==
  ASSUME M!GoodBook(queue), OwnInv, pc = "outside"
  PROVE  OneEach(queue)
BY SameId DEF OneEach, OwnInv

\* The next id is free.
LEMMA NextIsFree ==
  ASSUME NEW n \in Nat, n \in StrategyIds, OwnersOf(queue, owned), \A id \in owned : id < n
  PROVE  FreeIdFrom(n) = n
<1>1. n \notin owned
  BY DEF StrategyIds
<1>2. ~Resting(n)
  BY <1>1, RestingIs DEF OwnersOf
<1>3. n \in n .. LastStrategyId + 1 /\ n .. n - 1 = {}
  BY ConfigAssumption DEF StrategyIds
<1>4. \A id \in n .. LastStrategyId + 1 :
        id # n => n \in n .. id - 1
  BY <1>3
<1> DEFINE First(id) == /\ id \notin owned /\ ~Resting(id)
                        /\ \A k \in n .. id - 1 : k \in owned \/ Resting(k)
<1>5. First(n)
  BY <1>1, <1>2, <1>3
<1>6. \A id \in n .. LastStrategyId + 1 : First(id) => id = n
  BY <1>1, <1>2, <1>4
<1>7. FreeIdFrom(n) = CHOOSE id \in n .. LastStrategyId + 1 : First(id)
  BY Zenon DEF FreeIdFrom
<1> HIDE DEF First
<1>. QED  BY <1>3, <1>5, <1>6, <1>7

----------------------------------------------------------------------------
(* Every step preserves the invariant                                      *)

\* The invariant holds initially.
LEMMA InitHolds == Init => IInv
<1> SUFFICES ASSUME Init PROVE IInv
  OBVIOUS
<1>1. queue = [key \in M!Keys |-> << >>] /\ trades = << >>
  BY SameInit DEF Init, M!Init, M!Keys
<1>2. M!GoodBook(queue) /\ M!RestingIn(queue) = {}
  BY <1>1, EmptyBook
<1>3. trades \in Seq(M!Trade) /\ Len(trades) = 0 /\ DOMAIN trades = {}
  BY <1>1
<1>4. TypeInv
  BY <1>2, <1>3, ConfigAssumption DEF Init, TypeInv
<1>5. OwnersInv /\ OwnInv /\ QuotesInv
  BY <1>2 DEF Init, OwnersInv, OwnersOf, OwnInv, QuotesInv
<1>6. LedgerInv
  <2>1. Ledger(0, << >>, 0, 0, FALSE)
    BY EmptyLedger
  <2>. QED  BY <2>1, Zenon DEF Init, LedgerInv
<1>7. SyncInv
  <2>1. PendingFrom(trades, owned, processed) = 0
    BY <1>3, NothingPending DEF Init
  <2>. QED  BY <1>3, <2>1 DEF Init, SyncInv
<1>8. LimitInv
  BY <1>2, ConfigAssumption DEF Init, LimitInv, Room
<1>. QED  BY <1>4, <1>5, <1>6, <1>7, <1>8 DEF IInv

\* Steps that change nothing the invariant is about.
LEMMA QuietKeeps ==
  ASSUME IInv, UNCHANGED <<engineVars, pc, quotes, inventoryVars, activeVars, nextId, historyVars>>,
         killSwitch' = killSwitch \/ (pc = "outside" /\ killSwitch' = FALSE)
  PROVE  IInv'
<1>1. UNCHANGED <<queue, trades, pc, quotes, owned, position, processed, fills, activeBid, activeAsk,
                  nextId, exposure, lost, cursor, written, unnoticed>>
  BY DEF engineVars, inventoryVars, activeVars, historyVars, bridgeVars
<1>2. TypeInv'
  BY <1>1 DEF IInv, TypeInv
<1>3. OwnersInv' /\ LedgerInv' /\ SyncInv' /\ LimitInv'
  BY <1>1 DEF IInv, OwnersInv, LedgerInv, SyncInv, LimitInv
<1>4. QuotesInv'
  BY <1>1 DEF IInv, QuotesInv
<1>5. OwnInv'
  BY <1>1 DEF IInv, OwnInv
<1>. QED  BY <1>2, <1>3, <1>4, <1>5 DEF IInv

\* resetOrderBook preserves the invariant: an unprocessed fill that it erases is noted as
\* lost.
LEMMA ResetBookKeeps ==
  ASSUME IInv, ResetBook
  PROVE  IInv'
<1>1. M!GoodBook(queue) /\ pc = "outside" /\ DOMAIN queue = M!Keys
  BY DEF ResetBook, Outside, IInv, TypeInv, M!GoodBook, M!QueuesTyped
<1>2. queue' = [key \in M!Keys |-> << >>] /\ trades' = << >>
  BY <1>1, SameReset DEF ResetBook, M!Reset
<1>3. M!GoodBook(queue') /\ M!RestingIn(queue') = {}
  BY <1>2, EmptyBook
<1>4. trades' \in Seq(M!Trade) /\ Len(trades') = 0 /\ DOMAIN trades' = {}
  BY <1>2
<1>5. /\ UNCHANGED <<pc, quotes, owned, position, processed, fills, nextId, exposure, cursor, written,
                     unnoticed>>
      /\ lost' = (lost \/ position # exposure)
  BY DEF ResetBook, inventoryVars, bridgeVars
<1>6. TypeInv'
  BY <1>3, <1>4, <1>5 DEF IInv, TypeInv
<1>7. OwnersInv' /\ OwnInv' /\ QuotesInv'
  BY <1>1, <1>3, <1>5 DEF OwnersInv, OwnersOf, OwnInv, QuotesInv
<1>8. LedgerInv'
  BY <1>5 DEF IInv, LedgerInv
<1>9. SyncInv'
  <2>1. processed \in Nat
    BY DEF IInv, TypeInv
  <2>2. PendingFrom(trades', owned, processed) = 0
    BY <1>4, <2>1, NothingFilled
  <2>3. position \in Int /\ exposure \in Int
    BY DEF IInv, TypeInv
  <2>4. ~lost' => exposure = position
    BY <1>5, Zenon
  <2>5. position = position + 0
    BY <2>3
  <2>. QED  BY <1>1, <1>3, <1>4, <1>5, <2>2, <2>4, <2>5 DEF SyncInv
<1>10. LimitInv'
  BY <1>3, <1>5 DEF IInv, LimitInv, Room
<1>. QED  BY <1>6, <1>7, <1>8, <1>9, <1>10 DEF IInv

\* processNewTrades preserves the invariant.
LEMMA ProcessTradesKeeps ==
  ASSUME IInv, ProcessTrades
  PROVE  IInv'
<1>1. /\ UNCHANGED <<queue, trades, pc, quotes, killSwitch, owned, nextId, exposure, lost>>
      /\ UNCHANGED bridgeVars /\ UNCHANGED <<cursor, written, unnoticed>>
      /\ pc = "outside" /\ Processes(trades, owned)
  BY DEF ProcessTrades, Outside, engineVars, historyVars, bridgeVars
<1>2. fills \in Seq(Int) /\ position \in Int /\ processed \in Nat /\ cursor \in Nat /\ LedgerInv
      /\ trades \in Seq(M!Trade)
  BY DEF IInv, TypeInv
<1>3. /\ fills' \in Seq(Int) /\ position' \in Int /\ processed' \in Nat /\ processed' = Len(trades)
      /\ position' = position + PendingFrom(trades, owned, processed) /\ LedgerInv'
  BY <1>1, <1>2, Recounts
<1>4. TypeInv'
  BY <1>1, <1>3 DEF IInv, TypeInv
<1>5. OwnersInv' /\ LimitInv'
  BY <1>1 DEF IInv, OwnersInv, LimitInv
<1>6. QuotesInv'
  BY <1>1 DEF QuotesInv
<1>7. OwnInv'
  <2>1. \A o \in M!RestingIn(queue) : o.id \in M!RestingIds
    BY RestingIs
  <2>2. \A o \in M!RestingIn(queue) : Own(o) =>
          o.id = (IF o.side = "Buy" THEN activeBid' ELSE activeAsk') /\ ~killSwitch
    BY <1>1, <2>1, SameResting DEF IInv, OwnInv, ProcessTrades, StillActive
  <2>. QED  BY <1>1, <2>2 DEF OwnInv
<1>8. SyncInv'
  <2>1. PendingFrom(trades, owned, processed') = 0
    BY <1>2, <1>3, NothingPending
  <2>2. ~lost => exposure = position' + 0
    BY <1>2, <1>3 DEF IInv, SyncInv
  <2>3. ~(processed' > Len(trades))
    BY <1>2, <1>3
  <2>. QED  BY <1>1, <1>3, <2>1, <2>2, <2>3 DEF SyncInv
<1>. QED  BY <1>3, <1>4, <1>5, <1>6, <1>7, <1>8 DEF IInv

\* A call that cancels the bid leaves the ask as the only quote, if any.
LEMMA CancelBidKeeps ==
  ASSUME IInv, NEW rest \in {"cancelling", "refreshing", "resetting"}, CancelBidThen(rest),
         rest = "refreshing" => nextId < LastStrategyId
  PROVE  IInv'
<1>1. /\ UNCHANGED <<quotes, owned, nextId, exposure, lost>>
      /\ UNCHANGED bridgeVars /\ UNCHANGED <<cursor, written, unnoticed>>
      /\ pc = "outside" /\ pc' = rest /\ Processes(trades, owned) /\ CancelQuote(activeBid)
      /\ activeAsk' = StillActive(activeAsk, M!RestingIds)
  BY SameResting DEF CancelBidThen, Outside, historyVars, bridgeVars
<1>2. fills \in Seq(Int) /\ position \in Int /\ processed \in Nat /\ cursor \in Nat /\ LedgerInv
      /\ trades \in Seq(M!Trade) /\ M!GoodBook(queue)
  BY DEF IInv, TypeInv
<1>3. /\ fills' \in Seq(Int) /\ position' \in Int /\ processed' \in Nat /\ processed' = Len(trades)
      /\ position' = position + PendingFrom(trades, owned, processed) /\ LedgerInv'
  BY <1>1, <1>2, Recounts
<1>4. /\ M!GoodBook(queue') /\ trades' = trades
      /\ M!RestingIn(queue') = {o \in M!RestingIn(queue) : o.id # activeBid}
  BY <1>1, <1>2, CancelsQuote
<1>5. TypeInv'
  BY <1>1, <1>3, <1>4 DEF IInv, TypeInv
<1>6. OwnersInv'
  BY <1>1, <1>4 DEF IInv, OwnersInv, OwnersOf
<1>7. LimitInv'
  BY <1>1, <1>4 DEF IInv, LimitInv, Room
<1>8. QuotesInv'
  BY <1>1 DEF QuotesInv
<1>9. OwnInv'
  <2>1. \A o \in M!RestingIn(queue) : o.id \in M!RestingIds /\ o.side \in {"Buy", "Sell"}
    <3>1. \A o \in M!RestingIn(queue) : o \in M!Order
      BY <1>2, SameId
    <3>. QED  BY <3>1, RestingIs DEF M!Order, M!Sides
  <2>2. \A o \in M!RestingIn(queue') : Own(o) => o.side = "Sell" /\ o.id = activeAsk'
    BY <1>1, <1>4, <2>1 DEF IInv, OwnInv, StillActive
  <2>. QED  BY <1>1, <2>2 DEF OwnInv
<1>10. SyncInv'
  <2>1. PendingFrom(trades, owned, processed') = 0
    BY <1>2, <1>3, NothingPending
  <2>2. ~lost => exposure = position' + 0
    BY <1>2, <1>3 DEF IInv, SyncInv
  <2>3. ~(processed' > Len(trades))
    BY <1>2, <1>3
  <2>. QED  BY <1>1, <1>3, <1>4, <2>1, <2>2, <2>3 DEF SyncInv
<1>. QED  BY <1>3, <1>5, <1>6, <1>7, <1>8, <1>9, <1>10 DEF IInv

\* Once the ask is cancelled no quote rests.
LEMMA CancelAskKeeps ==
  ASSUME IInv, CancelAsk
  PROVE  IInv'
<1>1. /\ UNCHANGED <<quotes, owned, position, processed, fills, nextId, exposure, lost, cursor,
                     written, unnoticed>>
      /\ pc \in {"cancelling", "refreshing"} /\ CancelQuote(activeAsk)
      /\ pc' = (IF pc = "refreshing" THEN "quoting" ELSE "outside")
  BY DEF CancelAsk, inventoryVars, historyVars, bridgeVars
<1>2. M!GoodBook(queue)
  BY DEF IInv, TypeInv
<1>3. /\ M!GoodBook(queue') /\ trades' = trades
      /\ M!RestingIn(queue') = {o \in M!RestingIn(queue) : o.id # activeAsk}
  BY <1>1, <1>2, CancelsQuote
<1>4. \A o \in M!RestingIn(queue') : ~Own(o)
  BY <1>1, <1>3 DEF IInv, OwnInv
<1>5. TypeInv'
  BY <1>1, <1>3 DEF IInv, TypeInv
<1>6. OwnersInv'
  BY <1>1, <1>3 DEF IInv, OwnersInv, OwnersOf
<1>7. LimitInv'
  BY <1>1, <1>3 DEF IInv, LimitInv, Room
<1>8. QuotesInv' /\ OwnInv'
  BY <1>1, <1>4 DEF QuotesInv, OwnInv
<1>9. LedgerInv'
  BY <1>1 DEF IInv, LedgerInv
<1>10. SyncInv'
  BY <1>1, <1>3, <1>4 DEF IInv, SyncInv
<1>. QED  BY <1>5, <1>6, <1>7, <1>8, <1>9, <1>10 DEF IInv

\* resetStrategy preserves the invariant: the fills, the ids and the ledger start again.
LEMMA CancelAskAndForgetKeeps ==
  ASSUME IInv, CancelAskAndForget
  PROVE  IInv'
<1>1. /\ pc = "resetting" /\ CancelQuote(activeAsk) /\ UNCHANGED <<quotes, cursor>>
      /\ position' = 0 /\ processed' = 0 /\ fills' = << >> /\ owned' = {}
      /\ nextId' = FirstStrategyId /\ killSwitch' = FALSE
      /\ exposure' = 0 /\ lost' = FALSE /\ written' = 0 /\ unnoticed' = (cursor # 0)
      /\ pc' = "outside"
  BY DEF CancelAskAndForget
<1>2. M!GoodBook(queue) /\ trades \in Seq(M!Trade) /\ cursor \in Nat
  BY DEF IInv, TypeInv
<1>3. /\ M!GoodBook(queue') /\ trades' = trades
      /\ M!RestingIn(queue') = {o \in M!RestingIn(queue) : o.id # activeAsk}
  BY <1>1, <1>2, CancelsQuote
<1>4. \A o \in M!RestingIn(queue') : ~Own(o)
  BY <1>1, <1>3 DEF IInv, OwnInv
<1>5. TypeInv'
  BY <1>1, <1>2, <1>3, ConfigAssumption DEF TypeInv
<1>6. OwnersInv'
  BY <1>3, <1>4 DEF IInv, OwnersInv, OwnersOf
<1>7. LimitInv'
  BY <1>1, <1>4, ConfigAssumption DEF LimitInv, Room
<1>8. QuotesInv' /\ OwnInv'
  BY <1>1, <1>4 DEF QuotesInv, OwnInv
<1>9. LedgerInv'
  <2>1. Ledger(0, << >>, cursor, 0, cursor # 0)
    BY <1>2, EmptyLedger
  <2>2. /\ position' = 0 /\ fills' = << >> /\ cursor' = cursor /\ written' = 0
        /\ unnoticed' = (cursor # 0)
    BY <1>1, Zenon
  <2>. QED  BY <2>1, <2>2, Zenon DEF LedgerInv
<1>10. SyncInv'
  <2>1. \A k \in DOMAIN trades : IdFill(trades[k], {}) = 0
    <3> TAKE k \in DOMAIN trades
    <3>1. trades[k] \in M!Trade
      BY <1>2
    <3>. QED  BY <3>1, IdFillFacts
  <2>2. PendingFrom(trades, {}, 0) = 0
    BY <1>2, <2>1, NothingFilled
  <2>3. ~(0 > Len(trades)) /\ 0 = 0 + 0
    BY <1>2
  <2>. QED  BY <1>1, <1>3, <2>2, <2>3 DEF SyncInv
<1>. QED  BY <1>5, <1>6, <1>7, <1>8, <1>9, <1>10 DEF IInv

\* A capture preserves the invariant: what it writes is what was not yet written.
LEMMA CaptureKeeps ==
  ASSUME IInv, Capture
  PROVE  IInv'
<1>1. /\ UNCHANGED <<queue, trades, pc, quotes, killSwitch, owned, position, processed, fills,
                     activeBid, activeAsk, nextId, exposure, lost>>
      /\ written' = written + Total(SubSeq(fills, FirstUnwritten + 1, Len(fills)))
      /\ cursor' = M!Max({FirstUnwritten, Len(fills)})
      /\ unnoticed' = (unnoticed /\ cursor <= Len(fills))
  BY SameLibrary DEF Capture, engineVars, inventoryVars, activeVars
<1>2. /\ fills \in Seq(Int) /\ cursor \in Nat /\ written \in Int /\ Len(fills) \in Nat
      /\ Ledger(position, fills, cursor, written, unnoticed)
  BY DEF IInv, TypeInv, LedgerInv
<1> DEFINE c == FirstUnwritten
<1>3. c \in 0 .. Len(fills) /\ c = (IF cursor > Len(fills) THEN 0 ELSE cursor)
  BY <1>2 DEF FirstUnwritten
<1>4. cursor' = Len(fills)
  <2>1. c \in Int /\ Len(fills) \in Int /\ c <= Len(fills)
    BY <1>2, <1>3
  <2>2. M!Max({c, Len(fills)}) = IF c >= Len(fills) THEN c ELSE Len(fills)
    BY <2>1, M!OfTwo
  <2>. QED  BY <1>1, <2>1, <2>2
<1> HIDE DEF c
<1>5. /\ SubSeq(fills, 1, c) \in Seq(Int) /\ SubSeq(fills, c + 1, Len(fills)) \in Seq(Int)
      /\ SubSeq(fills, 1, 0) = << >> /\ << >> \in Seq(Int) /\ SubSeq(fills, 1, Len(fills)) = fills
  BY <1>2, <1>3
<1>6. /\ Total(SubSeq(fills, 1, c)) + Total(SubSeq(fills, c + 1, Len(fills))) = Total(fills)
      /\ Total(SubSeq(fills, 1, c)) \in Int /\ Total(SubSeq(fills, c + 1, Len(fills))) \in Int
      /\ Total(<< >>) = 0
  BY <1>2, <1>3, <1>5, M!TotalParts, M!TotalIs, SameLibrary DEF Total
<1>7. LedgerInv'
  <2>1. ASSUME ~unnoticed' PROVE written = Total(SubSeq(fills, 1, c))
    <3>1. CASE cursor > Len(fills)
      BY <1>2, <1>3, <1>5, <1>6, <3>1 DEF Ledger
    <3>2. CASE cursor <= Len(fills)
      <4>1. ~unnoticed
        BY <1>1, <2>1, <3>2, Zenon
      <4>2. c = cursor /\ ~(cursor > Len(fills))
        BY <1>2, <1>3, <3>2
      <4>. QED  BY <1>2, <4>1, <4>2 DEF Ledger
    <3>. QED  BY <1>2, <3>1, <3>2
  <2>2. ~unnoticed' => written' = Total(fills)
    BY <1>1, <1>6, <2>1 DEF c
  <2>3. ~(Len(fills) > Len(fills))
    BY <1>2
  <2>. QED  BY <1>1, <1>2, <1>4, <1>5, <2>2, <2>3 DEF LedgerInv, Ledger
<1>8. TypeInv'
  <2>1. written' \in Int /\ cursor' \in Nat
    BY <1>1, <1>2, <1>4, <1>6 DEF c
  <2>. QED  BY <1>1, <2>1 DEF IInv, TypeInv
<1>9. OwnersInv' /\ SyncInv' /\ LimitInv'
  BY <1>1 DEF IInv, OwnersInv, SyncInv, LimitInv
<1>10. QuotesInv' /\ OwnInv'
  BY <1>1 DEF IInv, QuotesInv, OwnInv
<1>. QED  BY <1>7, <1>8, <1>9, <1>10 DEF IInv

\* Whatever the market does preserves the invariant: what it trades of the quotes is
\* still pending.
LEMMA MarketMovesKeeps ==
  ASSUME IInv, MarketMoves
  PROVE  IInv'
<1>1. /\ pc = "outside"
      /\ UNCHANGED <<pc, quotes, killSwitch, owned, position, processed, fills, activeBid, activeAsk,
                     nextId, lost, cursor, written, unnoticed>>
  BY DEF MarketMoves, Outside, inventoryVars, activeVars, bridgeVars
<1>2. /\ M!GoodBook(queue) /\ trades \in Seq(M!Trade) /\ owned \subseteq StrategyIds
      /\ OwnersOf(queue, owned) /\ position \in Int /\ exposure \in Int /\ processed \in Nat
  BY DEF IInv, TypeInv, OwnersInv
<1>3. OneEach(queue)
  BY <1>1, <1>2, OneQuoteEach DEF IInv
<1>4. PICK more : /\ trades' = trades \o more /\ Moved(queue, queue', more)
                  /\ exposure' = exposure + OwnSum(more)
  BY <1>2, <1>3, MarketMoved
<1>5. /\ M!GoodBook(queue') /\ more \in Seq(M!Trade)
      /\ OwnersOf(queue', owned) /\ Descends(queue, queue')
      /\ \A k \in DOMAIN more : IdFill(more[k], owned) = OwnFill(more[k])
      /\ (\A y \in M!RestingIn(queue) : ~Own(y)) => \A k \in DOMAIN more : OwnFill(more[k]) = 0
      /\ \A e \in Int : Room(queue, e) => Room(queue', e + OwnSum(more))
  BY <1>4, Zenon DEF Moved
<1>6. OwnSum(more) \in Int
  BY <1>2, <1>5, FilledSinceIs
<1>7. trades' \in Seq(M!Trade) /\ Len(trades') = Len(trades) + Len(more)
      /\ Len(trades) \in Nat /\ Len(more) \in Nat
  BY <1>2, <1>4, <1>5
<1>8. TypeInv'
  <2>1. exposure' \in Int
    BY <1>2, <1>4, <1>6
  <2>. QED  BY <1>1, <1>5, <1>7, <2>1 DEF IInv, TypeInv
<1>9. OwnersInv'
  BY <1>1, <1>5 DEF OwnersInv
<1>10. QuotesInv'
  BY <1>1 DEF QuotesInv
<1>11. OwnInv'
  <2>1. \A o \in M!RestingIn(queue') : Own(o) =>
          o.id = (IF o.side = "Buy" THEN activeBid ELSE activeAsk) /\ ~killSwitch
    BY <1>1, <1>5 DEF IInv, OwnInv, Descends
  <2>. QED  BY <1>1, <2>1 DEF OwnInv
<1>12. LedgerInv'
  BY <1>1 DEF IInv, LedgerInv
<1>13. LimitInv'
  BY <1>1, <1>2, <1>4, <1>5 DEF IInv, LimitInv
<1>14. SyncInv'
  <2> DEFINE sum == M!SumFunctionOnSet(IdFills(more, owned), 1 .. Len(more))
  <2>1. sum = OwnSum(more)
    <3>1. \A k \in 1 .. Len(more) : IdFills(more, owned)[k] = OwnFills(more)[k]
      BY <1>5 DEF IdFills, OwnFills
    <3>2. M!IsFiniteSet(1 .. Len(more))
      BY <1>7, M!FS_Interval
    <3>. QED  BY <3>1, <3>2, M!SumSame DEF OwnSum
  <2>2. CASE processed <= Len(trades)
    <3>1. /\ processed + 1 \in Nat \ {0} /\ processed + 1 <= Len(trades) + 1
          /\ ~(processed > Len(trades)) /\ ~(processed > Len(trades'))
      BY <1>2, <1>7, <2>2
    <3>2. M!SumFunctionOnSet(IdFills(trades \o more, owned), processed + 1 .. Len(trades \o more))
            = M!SumFunctionOnSet(IdFills(trades, owned), processed + 1 .. Len(trades)) + sum
      BY <1>2, <1>5, <3>1, PendingGrows
    <3>3. PendingFrom(trades', owned, processed)
            = PendingFrom(trades, owned, processed) + OwnSum(more)
      BY <1>4, <2>1, <3>1, <3>2 DEF PendingFrom
    <3>4. PendingFrom(trades, owned, processed) \in Int
      <4>1. \A k \in processed + 1 .. Len(trades) : IdFills(trades, owned)[k] \in Int
        <5> TAKE k \in processed + 1 .. Len(trades)
        <5>1. k \in DOMAIN trades /\ trades[k] \in M!Trade
          BY <1>2
        <5>. QED  BY <5>1, IdFillFacts DEF IdFills
      <4>2. M!IsFiniteSet(processed + 1 .. Len(trades))
        BY <1>2, <1>7, M!FS_Interval
      <4>. QED  BY <3>1, <4>1, <4>2, M!SumIsInteger DEF PendingFrom
    <3>5. ~lost => exposure = position + PendingFrom(trades, owned, processed)
      BY DEF IInv, SyncInv
    <3>6. ~lost => exposure' = position + PendingFrom(trades', owned, processed)
      BY <1>2, <1>4, <1>6, <3>3, <3>4, <3>5
    <3>. QED  BY <1>1, <3>1, <3>6 DEF SyncInv
  <2>3. CASE processed > Len(trades)
    <3>1. /\ \A o \in M!RestingIn(queue) : ~Own(o)
          /\ \A k \in DOMAIN trades : IdFill(trades[k], owned) = 0
      BY <2>3 DEF IInv, SyncInv
    <3>2. \A o \in M!RestingIn(queue') : ~Own(o)
      BY <1>5, <3>1 DEF Descends
    <3>3. \A k \in DOMAIN more : IdFill(more[k], owned) = 0
      BY <1>5, <3>1
    <3>4. \A k \in DOMAIN trades' : IdFill(trades'[k], owned) = 0
      <4> TAKE k \in DOMAIN trades'
      <4>1. CASE k \in 1 .. Len(trades)
        BY <1>2, <1>4, <1>5, <3>1, <4>1
      <4>2. CASE k \notin 1 .. Len(trades)
        <5>1. k - Len(trades) \in DOMAIN more /\ trades'[k] = more[k - Len(trades)]
          BY <1>2, <1>4, <1>5, <1>7, <4>2
        <5>. QED  BY <3>3, <5>1
      <4>. QED  BY <4>1, <4>2
    <3>5. PendingFrom(trades, owned, processed) = 0 /\ PendingFrom(trades', owned, processed) = 0
      BY <1>2, <1>7, <3>1, <3>4, NothingFilled
    <3>6. OwnSum(more) = 0
      <4>1. \A k \in 1 .. Len(more) : OwnFills(more)[k] = 0
        BY <1>5, <3>1 DEF OwnFills
      <4>2. M!IsFiniteSet(1 .. Len(more))
        BY <1>7, M!FS_Interval
      <4>. QED  BY <4>1, <4>2, M!SumOfZeros DEF OwnSum
    <3>7. ~lost => exposure' = position + PendingFrom(trades', owned, processed)
      BY <1>2, <1>4, <3>5, <3>6 DEF IInv, SyncInv
    <3>. QED  BY <1>1, <3>2, <3>4, <3>7 DEF SyncInv
  <2>. QED  BY <1>2, <1>7, <2>2, <2>3
<1>. QED  BY <1>8, <1>9, <1>10, <1>11, <1>12, <1>13, <1>14 DEF IInv

\* The two quotes are well formed, new and passive.
LEMMA MakeQuotesKeeps ==
  ASSUME IInv, MakeQuotes
  PROVE  IInv'
<1>1. /\ pc = "quoting"
      /\ UNCHANGED <<queue, trades, killSwitch, owned, position, processed, fills, activeBid, activeAsk,
                     exposure, lost, cursor, written, unnoticed>>
  BY DEF MakeQuotes, engineVars, inventoryVars, activeVars, historyVars, bridgeVars
<1>2. /\ M!GoodBook(queue) /\ owned \subseteq StrategyIds /\ \A id \in owned : id < nextId
      /\ nextId \in Nat /\ FirstStrategyId <= nextId /\ nextId < LastStrategyId
      /\ OwnersOf(queue, owned) /\ position \in Int
  BY <1>1 DEF IInv, TypeInv, OwnersInv
<1>3. \A o \in M!RestingIn(queue) : ~Own(o)
  BY <1>1 DEF IInv, OwnInv
<1>4. OwnersInv' /\ LimitInv' /\ LedgerInv'
  BY <1>1 DEF IInv, OwnersInv, LimitInv, LedgerInv
<1>5. OwnInv'
  BY <1>1, <1>3 DEF OwnInv
<1>6. SyncInv'
  BY <1>1 DEF IInv, SyncInv
<1>7. CASE MarketAcceptable(now) /\ Quotable(BidPrice, AskPrice)
  <2> DEFINE bidId == FreeIdFrom(nextId)
             askId == FreeIdFrom(bidId + 1)
             bid == Quote(bidId, "Buy", BidPrice)
             ask == Quote(askId, "Sell", AskPrice)
  <2>1. pc' = "submitting" /\ quotes' = <<bid, ask>> /\ nextId' = askId + 1
    BY <1>7, Zenon DEF MakeQuotes
  <2>2. TwoSided /\ ~killSwitch /\ BidPrice < AskPrice
    BY <1>7 DEF MarketAcceptable, Quotable
  <2>3. /\ BestBid \in Nat /\ BestAsk \in Nat
        /\ \A x \in M!RestingIn(queue) :
             IF x.side = "Buy" THEN x.price <= BestBid ELSE BestAsk <= x.price
    BY <1>2, <2>2, BestPrices
  <2>4. BidPrice \in Int /\ BidPrice < BestAsk /\ AskPrice \in Int /\ BestBid < AskPrice
    BY <1>2, <2>3, QuotePrices
  <2>5. LastStrategyId \in Nat /\ FirstStrategyId \in Nat
    BY ConfigAssumption
  <2>6. bidId = nextId
    <3>1. nextId \in StrategyIds
      BY <1>2, <2>5 DEF StrategyIds
    <3>. QED  BY <1>2, <3>1, NextIsFree
  <2>7. askId = nextId + 1
    <3>1. nextId + 1 \in StrategyIds /\ nextId + 1 \in Nat /\ \A id \in owned : id < nextId + 1
      BY <1>2, <2>5 DEF StrategyIds
    <3>2. FreeIdFrom(nextId + 1) = nextId + 1
      BY <1>2, <3>1, NextIsFree
    <3>. QED  BY <2>6, <3>2
  <2>8. /\ bid \in Quoted /\ ask \in Quoted /\ Own(bid) /\ Own(ask)
        /\ bid.side = "Buy" /\ ask.side = "Sell" /\ bid.price = BidPrice /\ ask.price = AskPrice
        /\ bid.id = bidId /\ ask.id = askId
    <3>1. bidId \in Ids /\ askId \in Ids
      BY <1>2, <2>5, <2>6, <2>7 DEF Ids, StrategyIds
    <3>2. QuoteQuantity \in Nat \ {0} /\ StrategyParticipant \in People /\ {"Buy", "Sell"} = M!Sides
      BY ConfigAssumption DEF People, M!Sides
    <3> HIDE DEF bidId, askId
    <3>. QED  BY <2>4, <3>1, <3>2 DEF Quote, Quoted, Own, Ids, People
  <2> HIDE DEF bidId, askId, bid, ask
  <2>9. Passive(queue, bid) /\ Passive(queue, ask)
    <3>1. \A x \in M!RestingIn(queue) : x.price \in Int /\ x.side \in {"Buy", "Sell"}
      <4>1. \A x \in M!RestingIn(queue) : x \in M!Order
        BY <1>2, SameId
      <4>. QED  BY <4>1 DEF M!Order, M!Sides
    <3>. QED  BY <2>3, <2>4, <2>8, <3>1 DEF Passive
  <2>10. nextId' = nextId + 2
    BY <1>2, <2>1, <2>7
  <2>11. /\ bid.id \in StrategyIds /\ bid.id \notin owned /\ bid.id < nextId'
         /\ ask.id \in StrategyIds /\ ask.id \notin owned /\ ask.id < nextId' /\ bid.id # ask.id
    BY <1>2, <2>5, <2>6, <2>7, <2>8, <2>10 DEF StrategyIds
  <2>12. QuotesInv'
    <3>1. PendingQuote(bid, queue', owned', nextId') /\ PendingQuote(ask, queue', owned', nextId')
      BY <1>1, <2>8, <2>9, <2>11 DEF PendingQuote
    <3>2. quotes' \in Seq(Quoted) /\ Len(quotes') = 2 /\ quotes'[1] = bid /\ quotes'[2] = ask
      BY <2>1, <2>8
    <3>. QED  BY <1>1, <2>2, <2>4, <2>8, <2>11, <3>1, <3>2 DEF QuotesInv
  <2>13. TypeInv'
    <3>1. nextId' \in Nat /\ FirstStrategyId <= nextId' /\ \A id \in owned : id < nextId'
      BY <1>2, <2>5, <2>10 DEF StrategyIds
    <3>. QED  BY <1>1, <2>1, <3>1 DEF IInv, TypeInv
  <2>. QED  BY <1>4, <1>5, <1>6, <2>12, <2>13 DEF IInv
<1>8. CASE ~(MarketAcceptable(now) /\ Quotable(BidPrice, AskPrice))
  <2>1. pc' = "outside" /\ UNCHANGED <<quotes, nextId>>
    BY <1>8 DEF MakeQuotes
  <2>2. TypeInv' /\ QuotesInv'
    BY <1>1, <2>1 DEF IInv, TypeInv, QuotesInv
  <2>. QED  BY <1>4, <1>5, <1>6, <2>2 DEF IInv
<1>. QED  BY <1>7, <1>8

\* The quote that is submitted is the ask, or the bid with the ask to follow.
LastQuote ==
  /\ Len(quotes) = 1 /\ quotes[1].side = "Sell" /\ pc' = "outside"

FirstQuote ==
  /\ Len(quotes) = 2 /\ quotes[1].side = "Buy" /\ quotes[2].side = "Sell" /\ pc' = "submitting"
  /\ quotes' \in Seq(Quoted) /\ Len(quotes') = 1 /\ quotes'[1] = quotes[2]
  /\ PendingQuote(quotes[2], queue, owned, nextId)
  /\ quotes[1].price < quotes[2].price /\ quotes[1].id # quotes[2].id

\* What the invariant says of the quote that is submitted.
LEMMA SubmitFacts ==
  ASSUME IInv, SubmitQuote
  PROVE  /\ Head(quotes) = quotes[1] /\ PendingQuote(quotes[1], queue, owned, nextId)
         /\ LastQuote \/ FirstQuote
<1>1. pc = "submitting"
  BY DEF SubmitQuote
<1>2. /\ quotes \in Seq(Quoted)
      /\ \/ /\ Len(quotes) = 1 /\ PendingQuote(quotes[1], queue, owned, nextId)
            /\ quotes[1].side = "Sell"
         \/ /\ Len(quotes) = 2 /\ PendingQuote(quotes[1], queue, owned, nextId)
            /\ PendingQuote(quotes[2], queue, owned, nextId)
            /\ quotes[1].side = "Buy" /\ quotes[2].side = "Sell"
            /\ quotes[1].price < quotes[2].price /\ quotes[1].id # quotes[2].id
  BY <1>1 DEF IInv, QuotesInv
<1>3. quotes' = Tail(quotes)
      /\ IF Len(quotes) = 1 THEN pc' = "outside" ELSE pc' = pc
  BY DEF SubmitQuote
<1>4. CASE Len(quotes) = 1
  BY <1>2, <1>3, <1>4 DEF LastQuote
<1>5. CASE Len(quotes) = 2
  <2>1. Tail(quotes) \in Seq(Quoted) /\ Len(Tail(quotes)) = 1 /\ Tail(quotes)[1] = quotes[2]
        /\ Head(quotes) = quotes[1]
    <3>1. quotes \in Seq(Quoted) /\ quotes # << >>
      BY <1>2, <1>5
    <3>2. Len(Tail(quotes)) = 1
      BY <1>5, <3>1
    <3>3. Tail(quotes)[1] = quotes[2]
      BY <1>5, <3>1
    <3>4. Tail(quotes) \in Seq(Quoted) /\ Head(quotes) = quotes[1]
      BY <3>1
    <3>. QED  BY <3>2, <3>3, <3>4
  <2>2. Len(quotes) # 1
    BY <1>5
  <2>. QED  BY <1>1, <1>2, <1>3, <1>5, <2>1, <2>2 DEF FirstQuote
<1>. QED  BY <1>2, <1>4, <1>5

\* A quote that is rejected, by the risk manager or by the book, is forgotten.
LEMMA RejectedKeeps ==
  ASSUME IInv, SubmitQuote, UNCHANGED <<queue, trades, inventoryVars, activeVars>>
  PROVE  IInv'
<1>1. /\ UNCHANGED <<queue, trades, owned, position, processed, fills, activeBid, activeAsk,
                     killSwitch, nextId, lost, cursor, written, unnoticed>>
      /\ exposure' = exposure + FilledSince(trades', Len(trades)) /\ pc = "submitting"
  BY DEF SubmitQuote, inventoryVars, activeVars, bridgeVars
<1>2. exposure \in Int /\ trades \in Seq(M!Trade)
  BY DEF IInv, TypeInv
<1>3. exposure' = exposure
  <2>1. trades \o << >> = trades /\ << >> \in Seq(M!Trade) /\ Len(<< >>) = 0
    BY <1>2
  <2>2. FilledSince(trades, Len(trades)) = OwnSum(<< >>)
    BY <1>2, <2>1, FilledSinceIs
  <2>3. OwnSum(<< >>) = 0
    BY <2>1, M!SumOfNone DEF OwnSum
  <2>. QED  BY <1>1, <1>2, <2>2, <2>3
<1>4. LastQuote \/ FirstQuote
  BY SubmitFacts
<1>5. pc' \in {"outside", "submitting"}
  BY <1>4 DEF LastQuote, FirstQuote
<1>6. TypeInv'
  BY <1>1, <1>3, <1>5 DEF IInv, TypeInv
<1>7. OwnersInv' /\ LedgerInv' /\ LimitInv'
  BY <1>1, <1>3 DEF IInv, OwnersInv, LedgerInv, LimitInv
<1>8. SyncInv'
  BY <1>1, <1>3 DEF IInv, SyncInv
<1>9. QuotesInv'
  BY <1>1, <1>4 DEF IInv, QuotesInv, LastQuote, FirstQuote
<1>10. OwnInv'
  BY <1>1, <1>4 DEF IInv, OwnInv, QuotesInv, LastQuote, FirstQuote
<1>. QED  BY <1>6, <1>7, <1>8, <1>9, <1>10 DEF IInv

\* A quote that is accepted trades nothing and joins the book.
LEMMA QuoteJoins ==
  ASSUME IInv, SubmitQuote, NEW o, o = quotes[1], M!Acceptable(o), M!Execute(o)
  PROVE  /\ PendingQuote(o, queue, owned, nextId)
         /\ trades' = trades /\ M!GoodBook(queue')
         /\ M!RestingIn(queue')
              = M!RestingIn(queue) \cup (IF o.price \in Prices THEN {o} ELSE {})
         /\ answer'.remaining > 0
<1>1. PendingQuote(o, queue, owned, nextId)
  BY SubmitFacts
<1>2. Passive(queue, o)
  BY <1>1 DEF PendingQuote
<1>3. o.symbol_id = Symbol /\ \A x \in M!RestingIn(queue) : x.id # o.id
  BY RestingIs DEF M!Acceptable
<1>4. o \in M!Order /\ o.quantity \in Nat \ {0}
  <2>1. o \in Quoted
    BY <1>1 DEF PendingQuote
  <2>2. /\ o = [id |-> o.id, side |-> o.side, price |-> o.price, quantity |-> o.quantity,
               participant_id |-> o.participant_id, symbol_id |-> o.symbol_id]
        /\ o.id \in Ids /\ o.side \in M!Sides /\ o.price \in Int /\ o.quantity \in Nat \ {0}
        /\ o.participant_id \in People
    BY <2>1 DEF Quoted
  <2>. QED  BY <1>3, <2>2 DEF M!Order, Ids, People
<1>6. M!GoodBook(queue) /\ trades \in Seq(M!Trade)
  BY DEF IInv, TypeInv
<1>8. M!Reach(queue, o) = {}
  BY <1>2, <1>4, <1>6, PassiveReachesNothing
<1>9. /\ M!Fills(queue, o) = << >>
      /\ M!Left(queue, o) = o.quantity
      /\ M!GoodBook(M!AfterExecute(queue, o))
      /\ M!RestingIn(M!AfterExecute(queue, o))
           = M!RestingIn(queue) \cup (IF o.price \in Prices THEN {o} ELSE {})
  BY <1>3, <1>4, <1>6, <1>8, M!NothingReached
<1>10. /\ trades' = trades \o M!Fills(queue, o)
       /\ queue' = M!AfterExecute(queue, o)
       /\ answer' = [accepted |-> TRUE, executed |-> o.quantity - M!Left(queue, o),
                     remaining |-> M!Left(queue, o), trades |-> M!Fills(queue, o)]
  BY Zenon DEF M!Execute
<1>11. answer'.remaining = o.quantity
  BY <1>9, <1>10
<1>12. trades' = trades
  BY <1>6, <1>9, <1>10
<1>. QED  BY <1>1, <1>4, <1>9, <1>10, <1>11, <1>12

\* A quote that is accepted preserves the invariant: the limit was checked for it.
LEMMA AcceptedKeeps ==
  ASSUME IInv, SubmitQuote, NEW o, o = quotes[1], OrderAcceptable(o, now),
         M!Acceptable(o), M!Execute(o), owned' = owned \cup {o.id}, Processes(trades', owned'),
         activeBid' = Activated(o, "Buy", activeBid), activeAsk' = Activated(o, "Sell", activeAsk)
  PROVE  IInv'
<1>1. /\ UNCHANGED <<killSwitch, nextId, lost, cursor, written, unnoticed>>
      /\ UNCHANGED bridgeVars
      /\ exposure' = exposure + FilledSince(trades', Len(trades)) /\ pc = "submitting"
  BY DEF SubmitQuote, bridgeVars
<1>2. /\ exposure \in Int /\ trades \in Seq(M!Trade) /\ M!GoodBook(queue) /\ position \in Int
      /\ processed \in Nat /\ cursor \in Nat /\ fills \in Seq(Int) /\ owned \subseteq StrategyIds
      /\ LedgerInv /\ OwnersOf(queue, owned)
  BY DEF IInv, TypeInv, OwnersInv
<1>3. /\ PendingQuote(o, queue, owned, nextId)
      /\ trades' = trades /\ M!GoodBook(queue')
      /\ M!RestingIn(queue')
           = M!RestingIn(queue) \cup (IF o.price \in Prices THEN {o} ELSE {})
      /\ answer'.remaining > 0
  BY QuoteJoins
<1>4. exposure' = exposure
  <2>1. trades \o << >> = trades /\ << >> \in Seq(M!Trade) /\ Len(<< >>) = 0
    BY <1>2
  <2>2. FilledSince(trades, Len(trades)) = OwnSum(<< >>)
    BY <1>2, <2>1, FilledSinceIs
  <2>3. OwnSum(<< >>) = 0
    BY <2>1, M!SumOfNone DEF OwnSum
  <2>. QED  BY <1>1, <1>2, <1>3, <2>2, <2>3
<1>5. LastQuote \/ FirstQuote
  BY SubmitFacts
<1>6. processed = Len(trades)
  BY <1>1 DEF IInv, SyncInv
<1>7. Processes(trades, owned')
  BY <1>3
<1>8. /\ fills' \in Seq(Int) /\ position' \in Int /\ processed' \in Nat /\ processed' = Len(trades)
      /\ position' = position + PendingFrom(trades, owned', processed) /\ LedgerInv'
  BY <1>1, <1>2, <1>7, Recounts
<1>9. PendingFrom(trades, owned', processed) = 0 /\ PendingFrom(trades, owned', processed') = 0
  BY <1>2, <1>6, <1>8, NothingPending
<1>10. PendingFrom(trades, owned, processed) = 0
  BY <1>2, <1>6, NothingPending
<1>11. position' = position
  BY <1>2, <1>8, <1>9
<1>12. ~lost => exposure = position
  BY <1>2, <1>10 DEF IInv, SyncInv
<1>13. /\ o \in Quoted /\ Own(o) /\ o.id \in StrategyIds /\ o.id \notin owned /\ o.id < nextId
       /\ o.side \in {"Buy", "Sell"} /\ o.quantity \in Nat /\ o.price \in Int
  <2>1. o \in Quoted
    BY <1>3 DEF PendingQuote
  <2>. QED  BY <1>3, <2>1 DEF PendingQuote, Quoted, M!Sides
<1>14. TypeInv'
  <2>1. pc' \in {"outside", "submitting"}
    BY <1>5 DEF LastQuote, FirstQuote
  <2>. QED  BY <1>1, <1>2, <1>3, <1>4, <1>8, <1>13, <2>1 DEF IInv, TypeInv
<1>15. OwnersInv'
  BY <1>2, <1>3, <1>13 DEF OwnersInv, OwnersOf
<1>16. LimitInv'
  <2>1. Projected(o) \in Int /\ Magnitude(Projected(o)) <= MaximumPosition
    BY <1>2, <1>13 DEF OrderAcceptable, Projected
  <2>2. -MaximumPosition <= Projected(o) /\ Projected(o) <= MaximumPosition
    BY <2>1, MagnitudeIs
  <2>3. ASSUME ~lost PROVE Room(queue', exposure)
    <3>1. Room(queue, exposure) /\ exposure = position
      BY <1>12, <2>3 DEF IInv, LimitInv
    <3>2. IF o.side = "Buy" THEN exposure + o.quantity <= MaximumPosition
          ELSE -MaximumPosition <= exposure - o.quantity
      BY <2>2, <3>1 DEF Projected
    <3>. QED  BY <1>3, <3>1, <3>2 DEF Room
  <2>. QED  BY <1>1, <1>4, <2>3 DEF LimitInv
<1>17. SyncInv'
  <2>1. ~(processed' > Len(trades))
    BY <1>2, <1>8
  <2>2. ~lost => exposure = position + 0
    BY <1>2, <1>12
  <2>. QED  BY <1>1, <1>3, <1>4, <1>8, <1>9, <1>11, <2>1, <2>2 DEF SyncInv
<1>18. QuotesInv'
  <2>1. CASE LastQuote
    BY <2>1 DEF LastQuote, QuotesInv
  <2>2. CASE FirstQuote
    <3> DEFINE ask == quotes[2]
    <3>1. /\ quotes' \in Seq(Quoted) /\ Len(quotes') = 1 /\ quotes'[1] = ask /\ ask.side = "Sell"
          /\ PendingQuote(ask, queue, owned, nextId) /\ o.price < ask.price /\ o.id # ask.id
          /\ o.side = "Buy"
      BY <2>2 DEF FirstQuote
    <3>2. ~killSwitch'
      BY <1>1 DEF IInv, QuotesInv
    <3> HIDE DEF ask
    <3>3. Passive(queue', ask)
      BY <1>3, <3>1 DEF Passive, PendingQuote
    <3>4. PendingQuote(ask, queue', owned', nextId')
      BY <1>1, <3>1, <3>3 DEF PendingQuote
    <3>. QED  BY <3>1, <3>2, <3>4 DEF QuotesInv
  <2>. QED  BY <1>5, <2>1, <2>2
<1>19. OwnInv'
  <2>1. \A x \in M!RestingIn(queue') : x.id \in Engine!RestingIds'
    <3>1. Engine!RestingIds' = {x.id : x \in Engine!RestingIn(queue')}
      BY Zenon DEF Engine!RestingIds, Engine!Resting
    <3>2. Engine!RestingIn(queue') = M!RestingIn(queue')
      BY SameResting
    <3>. QED  BY <3>1, <3>2
  <2>2. \A x \in M!RestingIn(queue) : Own(x) =>
          Len(quotes) = 1 /\ x.side = "Buy" /\ x.id = activeBid /\ x \in M!RestingIn(queue')
    BY <1>1, <1>3 DEF IInv, OwnInv
  <2>3. \A x \in M!RestingIn(queue') : Own(x) => x = o \/ x \in M!RestingIn(queue)
    BY <1>3
  <2>4. CASE LastQuote
    <3>1. o.side = "Sell" /\ pc' = "outside" /\ ~killSwitch'
      BY <1>1, <2>4 DEF LastQuote, IInv, QuotesInv
    <3>2. \A x \in M!RestingIn(queue) : Own(x) => x.side = "Buy" /\ x.id = activeBid'
      BY <2>1, <2>2, <3>1 DEF Activated, StillActive
    <3>3. o \in M!RestingIn(queue') => o.id = activeAsk'
      BY <1>3, <2>1, <3>1 DEF Activated, StillActive
    <3>. QED  BY <2>3, <3>1, <3>2, <3>3 DEF OwnInv
  <2>5. CASE FirstQuote
    <3>1. o.side = "Buy" /\ pc' = "submitting" /\ Len(quotes') = 1 /\ Len(quotes) # 1
      BY <2>5 DEF FirstQuote
    <3>2. o \in M!RestingIn(queue') => o.id = activeBid'
      BY <1>3, <2>1, <3>1 DEF Activated, StillActive
    <3>. QED  BY <2>2, <2>3, <3>1, <3>2 DEF OwnInv
  <2>. QED  BY <1>5, <2>4, <2>5
<1>. QED  BY <1>8, <1>14, <1>15, <1>16, <1>17, <1>18, <1>19 DEF IInv

\* submitQuote executes the quote, or it is rejected and owned as little as before.
LEMMA SubmitQuoteIs ==
  ASSUME IInv, SubmitQuote
  PROVE  \/ UNCHANGED <<queue, trades, inventoryVars, activeVars>>
         \/ \E o : /\ o = quotes[1] /\ OrderAcceptable(o, now)
                   /\ M!Acceptable(o) /\ M!Execute(o)
                   /\ owned' = owned \cup {o.id} /\ Processes(trades', owned')
                   /\ activeBid' = Activated(o, "Buy", activeBid)
                   /\ activeAsk' = Activated(o, "Sell", activeAsk)
<1> DEFINE o == quotes[1]
<1>1. Head(quotes) = o /\ o.id \notin owned
  BY SubmitFacts DEF PendingQuote
<1>2. CASE UNCHANGED <<engineVars, inventoryVars, activeVars>>
  BY <1>2 DEF engineVars
<1>3. CASE OrderAcceptable(o, now) /\ ExecuteQuote(o)
  <2>1. M!Execute(o)
    BY <1>3, SameExecute, Zenon DEF ExecuteQuote
  <2>2. CASE M!Acceptable(o)
    <3>1. answer'.accepted
      <4>1. answer' = [accepted |-> TRUE, executed |-> o.quantity - M!Left(queue, o),
                       remaining |-> M!Left(queue, o), trades |-> M!Fills(queue, o)]
        BY <2>1, <2>2, Zenon DEF M!Execute
      <4>. QED  BY <4>1
    <3>. QED  BY <1>3, <2>1, <2>2, <3>1, Zenon DEF ExecuteQuote
  <2>3. CASE ~M!Acceptable(o)
    <3>1. UNCHANGED <<queue, trades>> /\ ~answer'.accepted
      BY <2>1, <2>3 DEF M!Execute
    <3>2. owned' = owned \ {o.id} /\ UNCHANGED <<position, processed, fills, activeVars>>
      BY <1>3, <3>1, Zenon DEF ExecuteQuote
    <3>3. owned' = owned
      BY <1>1, <3>2
    <3>. QED  BY <3>1, <3>2, <3>3 DEF inventoryVars
  <2>. QED  BY <2>2, <2>3
<1>4. \/ UNCHANGED <<engineVars, inventoryVars, activeVars>>
      \/ OrderAcceptable(o, now) /\ ExecuteQuote(o)
  BY <1>1, Zenon DEF SubmitQuote
<1>. QED  BY <1>2, <1>3, <1>4

\* submitQuote preserves the invariant and trades nothing.
LEMMA SubmitQuoteKeeps ==
  ASSUME IInv, SubmitQuote
  PROVE  IInv' /\ trades' = trades
<1>1. CASE UNCHANGED <<queue, trades, inventoryVars, activeVars>>
  BY <1>1, RejectedKeeps
<1>2. CASE \E o : /\ o = quotes[1] /\ OrderAcceptable(o, now)
                  /\ M!Acceptable(o) /\ M!Execute(o)
                  /\ owned' = owned \cup {o.id} /\ Processes(trades', owned')
                  /\ activeBid' = Activated(o, "Buy", activeBid)
                  /\ activeAsk' = Activated(o, "Sell", activeAsk)
  BY <1>2, AcceptedKeeps, QuoteJoins
<1>. QED  BY <1>1, <1>2, SubmitQuoteIs

----------------------------------------------------------------------------
(* Theorems *)

\* Every step preserves the invariant.
LEMMA StepKeeps ==
  ASSUME IInv, [Next]_vars
  PROVE  IInv'
<1>1. CASE MarketMoves
  BY <1>1, MarketMovesKeeps
<1>2. CASE ResetBook
  BY <1>2, ResetBookKeeps
<1>3. ASSUME NEW timestamp \in Timestamps, OnMarketUpdate(timestamp)
      PROVE  IInv'
  BY <1>3, QuietKeeps DEF OnMarketUpdate
<1>4. ASSUME NEW timestamp \in Timestamps, RefreshQuotes(timestamp)
      PROVE  IInv'
  BY <1>4, CancelBidKeeps DEF RefreshQuotes
<1>5. CASE ProcessTrades
  BY <1>5, ProcessTradesKeeps
<1>6. CASE CancelActiveQuotes \/ ActivateKillSwitch \/ ResetStrategy
  BY <1>6, CancelBidKeeps DEF CancelActiveQuotes, ActivateKillSwitch, ResetStrategy
<1>7. CASE DeactivateKillSwitch
  BY <1>7, QuietKeeps DEF DeactivateKillSwitch, Outside
<1>8. CASE CancelAsk
  BY <1>8, CancelAskKeeps
<1>9. CASE CancelAskAndForget
  BY <1>9, CancelAskAndForgetKeeps
<1>10. CASE MakeQuotes
  BY <1>10, MakeQuotesKeeps
<1>11. CASE SubmitQuote
  BY <1>11, SubmitQuoteKeeps
<1>12. CASE Capture
  BY <1>12, CaptureKeeps
<1>13. CASE UNCHANGED vars
  BY <1>13, QuietKeeps DEF vars
<1>. QED  BY <1>1, <1>2, <1>3, <1>4, <1>5, <1>6, <1>7, <1>8, <1>9, <1>10, <1>11, <1>12, <1>13 DEF Next

\* Every call of the strategy, the risk manager, the inventory tracker and the
\* bridge, every move of the market and every reset of the book keeps the invariant.
THEOREM StrategyInvariant == Spec => []IInv
<1>1. IInv /\ [Next]_vars => IInv'
  BY StepKeeps
<1>. QED  BY InitHolds, <1>1, PTL DEF Spec

\* Whatever is filled, cancelled, refused or reset between two refreshes, an
\* order of the strategy that rests is the active one of its side, and none
\* rests once the kill switch has returned: refreshQuotes, cancelActiveQuotes and
\* resetStrategy lose track of none, whatever market they quote in.
THEOREM NoQuoteLeftBehind == Spec => []OnlyActiveQuotesRest
<1>1. IInv => OnlyActiveQuotesRest
  BY RestingIs, SameResting DEF IInv, OwnInv, OnlyActiveQuotesRest, Outside, Own
<1>. QED  BY <1>1, StrategyInvariant, PTL

\* The prices of generateQuotePrices never take, however position, skew, spread
\* and tick shift them: executeOrder rests both quotes without a trade.
THEOREM QuotesArePassive == Spec => QuotesNeverTake
<1>1. IInv /\ [Next]_vars => [pc = "submitting" => UNCHANGED trades]_vars
  <2> SUFFICES ASSUME IInv, Next, pc = "submitting" PROVE trades' = trades
    OBVIOUS
  <2>1. SubmitQuote
    BY DEF Next, MarketMoves, ResetBook, OnMarketUpdate, RefreshQuotes, ProcessTrades,
           CancelActiveQuotes, ActivateKillSwitch, DeactivateKillSwitch, ResetStrategy,
           CancelBidThen, CancelAsk, CancelAskAndForget, MakeQuotes, Capture, Outside
  <2>. QED  BY <2>1, SubmitQuoteKeeps
<1>. QED  BY <1>1, StrategyInvariant, PTL DEF Spec, QuotesNeverTake

\* The checks of validateOrder, made of one quote at a time, keep the position of
\* both within maximum_absolute_position, in whatever order and parts they trade.
THEOREM LimitHolds == Spec => []PositionWithinLimit
<1>1. IInv => PositionWithinLimit
  BY MagnitudeIs DEF IInv, TypeInv, LimitInv, Room, PositionWithinLimit
<1>. QED  BY <1>1, StrategyInvariant, PTL

\* processNewTrades counts each fill of the strategy once, for its cursor and
\* the owned ids survive every reset but one that erases trades not yet processed.
THEOREM InventoryIsExact == Spec => []InventoryExact
<1>1. IInv => InventoryExact
  <2> SUFFICES ASSUME IInv, ~lost, processed = Len(trades) PROVE position = exposure
    BY DEF InventoryExact
  <2>1. PendingFrom(trades, owned, processed) = 0
    BY NothingPending DEF IInv, TypeInv
  <2>. QED  BY <2>1 DEF IInv, TypeInv, SyncInv
<1>. QED  BY <1>1, StrategyInvariant, PTL

\* recordNewFills writes each fill once between two resets it has noticed: what is
\* on file when its cursor is at the end comes to the position.
THEOREM FillsWrittenOnce == Spec => []EachFillWrittenOnce
<1>1. IInv => EachFillWrittenOnce
  <2> SUFFICES ASSUME IInv, ~unnoticed, cursor = Len(fills) PROVE written = position
    BY Zenon DEF EachFillWrittenOnce
  <2>1. fills \in Seq(Int) /\ Ledger(position, fills, cursor, written, unnoticed)
    BY DEF IInv, TypeInv, LedgerInv
  <2>2. SubSeq(fills, 1, Len(fills)) = fills /\ ~(Len(fills) > Len(fills))
    BY <2>1
  <2>. QED  BY <2>1, <2>2 DEF Ledger
<1>. QED  BY <1>1, StrategyInvariant, PTL
=============================================================================
