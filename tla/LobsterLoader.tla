--------------------------- MODULE LobsterLoader ---------------------------
(***************************************************************************)
(* loadLobsterMessageFile of src/lobster_loader.cpp: the rows of a LOBSTER *)
(* message file become market events, with the help of a map of the orders *)
(* that stand.  Timestamps, which are passed on, are left out.             *)
(***************************************************************************)
EXTENDS Integers, SequencesExt

CONSTANTS
  Rows,       \* what a row of the file may be: type, id, size, price, direction
  SymbolId,   \* DefaultSymbol
  MaxRows     \* bound of the model on the length of the file

VARIABLES
  loading,       \* "reading", "loaded" or "failed": the function has thrown
  read,          \* the rows read; the code counts them (sourceRow)
  events,        \* convertedEvents
  activeOrders,  \* id -> side, price and quantity of an order that stands
  skipped        \* skippedMissingOrders

loaderVars == <<loading, read, events, activeOrders, skipped>>

SubmissionType == 1
ReductionTypes == {2, 4}   \* partial cancellation, visible execution
DeletionType == 3

----------------------------------------------------------------------------

\* sequence_number counts the events, from 1 on.
Event(type, id, side, price, quantity) ==
  [sequence_number |-> Len(events) + 1, type |-> type, order_id |-> id, side |-> side,
   price |-> price, quantity |-> quantity, participant_id |-> 0, symbol_id |-> SymbolId]

AddEvent(id, o) == Event("Add", id, o.side, o.price, o.quantity)
CancelEvent(id) == Event("Cancel", id, "Buy", 0, 0)
ModifyEvent(id, price, quantity) == Event("Modify", id, "Buy", price, quantity)

Converts(event) == events' = Append(events, event) /\ UNCHANGED <<loading, skipped>>

\* The exception takes everything converted so far with it.
Throws == loading' = "failed" /\ events' = << >> /\ activeOrders' = << >> /\ UNCHANGED skipped

Ignores == UNCHANGED <<loading, events, activeOrders, skipped>>

Skips == skipped' = skipped + 1 /\ UNCHANGED <<loading, events, activeOrders>>

Without(id) == [k \in DOMAIN activeOrders \ {id} |-> activeOrders[k]]

Standing(id, o) == [k \in DOMAIN activeOrders \cup {id} |-> IF k = id THEN o ELSE activeOrders[k]]

----------------------------------------------------------------------------

Removable(o, removed) == removed <= o.quantity

\* Mutant: an order reduced to nothing is kept.
NeverAll(o, removed) == FALSE

RemovesAll(o, removed) == removed = o.quantity

\* Mutant: the size of the row is taken for the new quantity.
RowSize(o, removed) == removed

\* The size column is what was removed, a Modify event says what remains.
Remaining(o, removed) == o.quantity - removed

Reads(row) ==
  /\ loading = "reading"
  /\ Len(read) < MaxRows
  /\ read' = Append(read, row)
  /\ row.direction \in {1, -1}

\* No direction: a control event.  Types 5 to 7 are hidden executions, crosses
\* and halts.
IgnoreRow(row) ==
  /\ loading = "reading"
  /\ Len(read) < MaxRows
  /\ read' = Append(read, row)
  /\ row.direction \notin {1, -1} \/ row.type \notin {SubmissionType, DeletionType} \cup ReductionTypes
  /\ Ignores

Submission(row) ==
  /\ Reads(row)
  /\ row.type = SubmissionType
  /\ IF row.id \in DOMAIN activeOrders
       THEN Throws
       ELSE LET o == [side |-> IF row.direction = 1 THEN "Buy" ELSE "Sell",
                      price |-> row.price, quantity |-> row.size]
            IN  /\ Converts(AddEvent(row.id, o))
                /\ activeOrders' = Standing(row.id, o)

Reduction(row) ==
  /\ Reads(row)
  /\ row.type \in ReductionTypes
  /\ \/ row.id \notin DOMAIN activeOrders /\ Skips
     \/ /\ row.id \in DOMAIN activeOrders
        /\ LET o == activeOrders[row.id]
               reduced == [o EXCEPT !.quantity = Remaining(o, row.size)]
           IN  \/ ~Removable(o, row.size) /\ Throws
               \/ /\ Removable(o, row.size) /\ RemovesAll(o, row.size)
                  /\ Converts(CancelEvent(row.id))
                  /\ activeOrders' = Without(row.id)
               \/ /\ Removable(o, row.size) /\ ~RemovesAll(o, row.size)
                  /\ Converts(ModifyEvent(row.id, o.price, reduced.quantity))
                  /\ activeOrders' = Standing(row.id, reduced)

Deletion(row) ==
  /\ Reads(row)
  /\ row.type = DeletionType
  /\ IF row.id \in DOMAIN activeOrders
       THEN Converts(CancelEvent(row.id)) /\ activeOrders' = Without(row.id)
       ELSE Skips

\* A row with too few columns, a size that does not fit Quantity.
MalformedRow ==
  /\ loading = "reading"
  /\ Throws
  /\ UNCHANGED read

EndOfFile ==
  /\ loading = "reading"
  /\ loading' = "loaded"
  /\ UNCHANGED <<read, events, activeOrders, skipped>>

LoaderInit ==
  /\ loading = "reading"
  /\ read = << >>
  /\ events = << >>
  /\ activeOrders = << >>
  /\ skipped = 0

LoaderNext ==
  \/ \E row \in Rows : IgnoreRow(row) \/ Submission(row) \/ Reduction(row) \/ Deletion(row)
  \/ MalformedRow
  \/ EndOfFile
=============================================================================
