-------------------------- MODULE ModifiableCursor ---------------------------
(***************************************************************************)
(* ModifiableCursor (details/cursor.hpp): rows are removed and inserted in *)
(* the cursor's own lists first, and apply_changes sends the lists to the  *)
(* driver, deletes before inserts, with SQLBulkOperations.                 *)
(*                                                                         *)
(* To delete, apply_changes takes the statement's column bindings away and *)
(* binds an array of bookmarks; afterwards it binds the columns again.  It *)
(* is a sequence of driver calls, and an exception may leave it after any  *)
(* of them, with the statement as that call found it.  The caller may then *)
(* go on with the cursor: fetch, queue more changes, or apply again.       *)
(*                                                                         *)
(* SQLBulkOperations succeeds (possibly "with info": some rows refused,    *)
(* which the library takes for success), or fails and changes nothing.     *)
(***************************************************************************)
EXTENDS Naturals, Sequences, FiniteSets, Functions

CONSTANTS
    Row,           \* rows of the result, told apart by their bookmarks
    NewRow,        \* rows the caller inserts, each once
    BufferSize,    \* rows fetched at once
    MaxDeletes     \* bound: length of delete_

ASSUME ModifiableAssumption ==
    /\ IsFiniteSet(Row)
    /\ BufferSize \in Nat \ {0}
    /\ MaxDeletes \in Nat

VARIABLES
    rows,          \* the rows of Row still in the table
    added,         \* [NewRow -> how often it has been stored]
    refused,       \* rows of NewRow the driver refused "with info"
    garbled,       \* rows of NewRow stored while their columns were not bound
    seen,          \* rows whose bookmarks the caller's iterators hold
    deletes,       \* delete_
    inserts,       \* insert_
    queued,        \* rows of NewRow that insert() has been called with
    bound,         \* the driver's column bindings: "columns", "bookmarks",
                   \* or "nothing" (unbound, or bound only in part)
    countInto,     \* SQL_ATTR_ROWS_FETCHED_PTR: this cursor's "member"
                   \* fetched_, or "elsewhere": a local of apply_changes
    fetched,       \* UtilityCursor::fetched_
    lastFetch,     \* rows the driver fetched, rows the library made of them
    step,          \* where apply_changes is: "idle", "delete", "rebind", "insert"
    rebindFailed   \* binding the columns again has failed

table == <<rows, added, refused, garbled>>

lists == <<deletes, inserts, queued>>

fetching == <<fetched, lastFetch, seen>>

vars == <<table, lists, fetching, bound, countInto, step, rebindFailed>>

TypeOK ==
    /\ rows \subseteq Row
    /\ added \in [NewRow -> Nat]
    /\ refused \subseteq NewRow
    /\ garbled \subseteq NewRow
    /\ seen \subseteq Row
    /\ deletes \in Seq(Row)
    /\ inserts \in Seq(NewRow)
    /\ queued \subseteq NewRow
    /\ bound \in {"columns", "bookmarks", "nothing"}
    /\ countInto \in {"member", "elsewhere"}
    /\ fetched \in 0 .. BufferSize
    /\ lastFetch \in [driver : 0 .. BufferSize, told : 0 .. BufferSize]
    /\ step \in {"idle", "delete", "rebind", "insert"}
    /\ step = "delete" => deletes # <<>>
    /\ rebindFailed \in BOOLEAN

NoChanges ==
    /\ rows = Row
    /\ added = [n \in NewRow |-> 0]
    /\ refused = {}
    /\ garbled = {}
    /\ seen = {}
    /\ deletes = <<>>
    /\ inserts = <<>>
    /\ queued = {}
    /\ fetched = 0
    /\ lastFetch = [driver |-> 0, told |-> 0]
    /\ step = "idle"
    /\ rebindFailed = FALSE

Init == NoChanges /\ bound = "columns" /\ countInto = "member"

-----------------------------------------------------------------------------
(* fetch() or an increment that fetches: fetch2 sets its own bind offset   *)
(* and array size, but takes the number of rows from fetched_, wherever    *)
(* the driver put it.  (A pointer to a dead local is written to all the    *)
(* same; the model leaves out what else that destroys.)                    *)
Fetch ==
    /\ step = "idle"
    /\ \E batch \in SUBSET rows :
          /\ Cardinality(batch) <= BufferSize
          /\ LET n == Cardinality(batch)
                 told == IF n = 0 THEN 0 ELSE IF countInto = "member" THEN n ELSE fetched
             IN  /\ fetched' = IF countInto = "member" THEN n ELSE fetched
                 /\ lastFetch' = [driver |-> n, told |-> told]
                 /\ \E kept \in SUBSET batch :
                       /\ Cardinality(kept) = IF told < n THEN told ELSE n
                       /\ seen' = IF bound = "columns" THEN seen \cup kept ELSE seen
    /\ UNCHANGED <<table, lists, bound, countInto, step, rebindFailed>>

(* remove(): the bookmark of an iterator's row; a caller may repeat it.    *)
Remove(r) ==
    /\ step = "idle"
    /\ r \in seen
    /\ Len(deletes) < MaxDeletes
    /\ deletes' = Append(deletes, r)
    /\ UNCHANGED <<table, inserts, queued, fetching, bound, countInto, step, rebindFailed>>

(* insert(), emplace().                                                    *)
Insert(n) ==
    /\ step = "idle"
    /\ n \notin queued
    /\ queued' = queued \cup {n}
    /\ inserts' = Append(inserts, n)
    /\ UNCHANGED <<table, deletes, fetching, bound, countInto, step, rebindFailed>>

-----------------------------------------------------------------------------
(* apply_changes.                                                          *)

Throw == step' = "idle"

(* Slip: the deletes are sent even if there are none.                      *)
StepAfterStartUnchecked == "delete"

StepAfterStart == IF deletes # <<>> THEN "delete" ELSE IF inserts # <<>> THEN "insert" ELSE "idle"

(* Up to SQL_DELETE_BY_BOOKMARK, or to the inserts.                        *)
ApplyStart ==
    /\ step = "idle"
    /\ countInto' = "elsewhere"
    /\ bound' = IF deletes # <<>> THEN "bookmarks" ELSE bound
    /\ step' = StepAfterStart
    /\ UNCHANGED <<table, lists, fetching, rebindFailed>>

(* The same, but one of its calls fails.                                   *)
ApplyStartFails ==
    /\ step = "idle"
    /\ \/ UNCHANGED <<countInto, bound>>
       \/ countInto' = "elsewhere" /\ UNCHANGED bound
       \/ countInto' = "elsewhere" /\ deletes # <<>> /\ bound' \in {"nothing", "bookmarks"}
    /\ Throw
    /\ UNCHANGED <<table, lists, fetching, rebindFailed>>

StepAfterDeletes == IF inserts # <<>> THEN "insert" ELSE "idle"

(* Slip: the columns are not bound again.                                  *)
DeleteRowsNoRebind ==
    /\ step = "delete"
    /\ \E gone \in SUBSET (Range(deletes) \cap rows) : rows' = rows \ gone
    /\ deletes' = <<>>
    /\ step' = StepAfterDeletes
    /\ UNCHANGED <<added, refused, garbled, inserts, queued, fetching, bound, countInto,
                   rebindFailed>>

(* SQL_DELETE_BY_BOOKMARK: rows already gone, and others, may be refused   *)
(* without the library noticing.                                           *)
DeleteRows ==
    /\ step = "delete"
    /\ \E gone \in SUBSET (Range(deletes) \cap rows) : rows' = rows \ gone
    /\ deletes' = <<>>
    /\ step' = "rebind"
    /\ UNCHANGED <<added, refused, garbled, inserts, queued, fetching, bound, countInto,
                   rebindFailed>>

(* Slip: the exception is swallowed, and the inserts are sent.             *)
DeleteFailsGoesOn ==
    /\ step = "delete"
    /\ step' = StepAfterDeletes
    /\ UNCHANGED <<table, lists, fetching, bound, countInto, rebindFailed>>

DeleteFails ==
    /\ step = "delete"
    /\ Throw
    /\ UNCHANGED <<table, lists, fetching, bound, countInto, rebindFailed>>

(* bindings.rebind(stmt).                                                  *)
Rebind ==
    /\ step = "rebind"
    /\ bound' = "columns"
    /\ step' = StepAfterDeletes
    /\ UNCHANGED <<table, lists, fetching, countInto, rebindFailed>>

RebindFails ==
    /\ step = "rebind"
    /\ bound' = "nothing"
    /\ rebindFailed' = TRUE
    /\ Throw
    /\ UNCHANGED <<table, lists, fetching, countInto>>

(* Slip: insert_ keeps the rows that have been sent.                       *)
AddRowsKeepsList ==
    /\ step = "insert"
    /\ added' = [n \in NewRow |-> IF n \in Range(inserts) THEN added[n] + 1 ELSE added[n]]
    /\ garbled' = IF bound = "columns" THEN garbled ELSE garbled \cup Range(inserts)
    /\ step' = "idle"
    /\ \A n \in NewRow : added[n] < 2
    /\ UNCHANGED <<rows, refused, lists, fetching, bound, countInto, rebindFailed>>

(* SQL_ADD: the rows of insert_ that the driver takes.                     *)
AddRows ==
    /\ step = "insert"
    /\ \E taken \in SUBSET Range(inserts) :
          /\ added' = [n \in NewRow |-> IF n \in taken THEN added[n] + 1 ELSE added[n]]
          /\ refused' = refused \cup (Range(inserts) \ taken)
          /\ garbled' = IF bound = "columns" THEN garbled ELSE garbled \cup taken
    /\ inserts' = <<>>
    /\ step' = "idle"
    /\ UNCHANGED <<rows, deletes, queued, fetching, bound, countInto, rebindFailed>>

AddFails ==
    /\ step = "insert"
    /\ Throw
    /\ UNCHANGED <<table, lists, fetching, bound, countInto, rebindFailed>>

Next ==
    \/ Fetch
    \/ \E r \in Row : Remove(r)
    \/ \E n \in NewRow : Insert(n)
    \/ ApplyStart \/ ApplyStartFails
    \/ DeleteRows \/ DeleteFails
    \/ Rebind \/ RebindFails
    \/ AddRows \/ AddFails

Spec == Init /\ [][Next]_vars

-----------------------------------------------------------------------------
(* Properties.                                                             *)

(* A row handed to insert() is in one place: waiting in insert_, stored    *)
(* once, or refused by the driver.  However often apply_changes throws and *)
(* is called again, no row is lost and none is stored twice.               *)
EachInsertOnce ==
    \A n \in NewRow :
        LET waiting == Cardinality({i \in DOMAIN inserts : inserts[i] = n})
        IN  waiting + added[n] + (IF n \in refused THEN 1 ELSE 0)
               = IF n \in queued THEN 1 ELSE 0

(* The inserts are sent when the deletes are done, never while some are    *)
(* still pending after a failure.                                          *)
InsertsWaitForDeletes ==
    [][\A n \in NewRow : added'[n] # added[n] => deletes = <<>>]_vars

(* SQL_ADD finds the columns bound, although apply_changes unbinds them    *)
(* and may be left before it binds them again: as long as they are not     *)
(* bound there are deletes pending, and the next apply_changes does those  *)
(* first.  Only a failure of rebind itself breaks this.                    *)
InsertsUseColumns == garbled # {} => rebindFailed

(* The library makes of a fetch the rows the driver has fetched.  The      *)
(* comment on SQL_ATTR_ROWS_FETCHED_PTR says why it must be a member.      *)
FetchTellsRowsFetched == lastFetch.told = lastFetch.driver
=============================================================================
