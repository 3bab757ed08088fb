--------------------------- MODULE LobsterReplay ---------------------------
(***************************************************************************)
(* A LOBSTER file is converted and the events replayed into an empty book: *)
(* LobsterLoader and ReplayEngine.                                         *)
(***************************************************************************)
EXTENDS LobsterLoader, ReplayEngine

(***************************************************************************)
(* The file is sane: sizes are counts, ids and prices of submitted orders  *)
(* are what the book takes.  It has fewer rows than a sequence number can  *)
(* count.                                                                  *)
(***************************************************************************)
ASSUME FileAssumption ==
  /\ SymbolId = DefaultSymbol /\ 0 \in Participants
  /\ Prices \subseteq Int /\ IsFiniteSet(Prices)
  /\ Rows \subseteq [type : Int, id : OrderIds, size : Nat, price : Int, direction : Int]
  /\ \A row \in Rows : row.type = SubmissionType =>
       row.id # 0 /\ row.size > 0 /\ row.price > 0 /\ row.price \in Prices
  /\ MaxRows \in Nat /\ MaxRows <= MaxSequence

lobsterVars == <<loaderVars, replayVars>>

Load == ~replaying /\ LoaderNext /\ UNCHANGED replayVars

\* Once; the same events replayed again change nothing, the book being reset.
ReplayLoaded ==
  /\ loading = "loaded" /\ ~result.completed
  /\ \E options \in Options : BeginReplay(events, options)
  /\ UNCHANGED loaderVars

ReplayLoadedEvent ==
  /\ ReplayEvent \/ StopOutOfSequence \/ EndReplay
  /\ UNCHANGED loaderVars

LobsterInit == LoaderInit /\ ReplayInit

LobsterNext == Load \/ ReplayLoaded \/ ReplayLoadedEvent

LobsterSpec == LobsterInit /\ [][LobsterNext]_lobsterVars

----------------------------------------------------------------------------
(* Properties, for files whose sizes, prices and ids are positive *)

Replayed == loading = "loaded" /\ result.completed /\ ~replaying

\* The book refuses no converted event, whatever rows were skipped for want of
\* their order, ignored, or reused an order's id.
NothingRejected ==
  /\ result.rejected = 0
  /\ Replayed => result.applied = Len(events)

----------------------------------------------------------------------------
(* What a LOBSTER file says stands at its end                              *)

RowsAbout(id, types) ==
  {n \in DOMAIN read : read[n].id = id /\ read[n].type \in types /\ read[n].direction \in {1, -1}}

SubmittedAt(id) == Max(RowsAbout(id, {SubmissionType}))

RemovedSince(id, n) ==
  SumFunctionOnSet([m \in DOMAIN read |-> read[m].size],
                   {m \in RowsAbout(id, ReductionTypes) : m > n})

\* The rows that submitted the orders that stand.
StandingRows ==
  {n \in DOMAIN read :
     LET id == read[n].id
     IN  /\ n \in RowsAbout(id, {SubmissionType}) /\ n = SubmittedAt(id)
         /\ \A m \in RowsAbout(id, {DeletionType}) : m < n
         /\ RemovedSince(id, n) < read[n].size}

\* The replayed book holds the orders that stand in the file, at their sizes
\* less what later rows removed, and each level in the order of submission:
\* reductions cost no priority.
BookHoldsWhatStands ==
  Replayed =>
    \A side \in Book!Sides, price \in Prices :
      LET level == queue[<<side, price>>]
          row(k) == SubmittedAt(level[k].id)
      IN  /\ {row(k) : k \in DOMAIN level}
               = {n \in StandingRows : read[n].price = price
                                        /\ (read[n].direction = 1) = (side = "Buy")}
          /\ \A j, k \in DOMAIN level : j < k => row(j) < row(k)
          /\ \A k \in DOMAIN level :
               level[k].quantity = read[row(k)].size - RemovedSince(level[k].id, row(k))
=============================================================================
