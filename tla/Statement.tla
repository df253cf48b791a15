------------------------------ MODULE Statement -------------------------------
(***************************************************************************)
(* A statement handle and the queries and cursors that use it one after    *)
(* another (query.hpp, details/query.hpp, bindings/in.hpp, UtilityCursor   *)
(* in details/cursor.hpp).                                                 *)
(*                                                                         *)
(* query binds parameters, prepares, executes, and may construct a cursor. *)
(* The cursor takes the statement over, or, made from an Adapter, works on *)
(* a statement that stays with the caller.  A cursor gives its statement   *)
(* back by handle() &&, for another query.  What the driver remembers of a *)
(* statement (parameters, columns, where it counts rows to) outlives the   *)
(* query or cursor it was made for.  Every driver call may fail.           *)
(*                                                                         *)
(* The cursor is a ModifiableCursor; without remove and insert it is any   *)
(* other.                                                                  *)
(***************************************************************************)
EXTENDS ModifiableCursor

CONSTANTS
    MaxParams,     \* bound: parameters of a query
    MaxColumns     \* bound: columns of a cursor

ASSUME StatementAssumption == MaxParams \in Nat /\ MaxColumns \in Nat \ {0}

VARIABLES
    holder,        \* of the handle: the "caller", a "frame" of a call in
                   \* progress, a "cursor", or "nobody": it is free
    lent,          \* a cursor works on the caller's statement
    phase,         \* of a query: "none", "bind", "prepare", "construct"
    numParams,     \* parameters the query is called with
    numBound,      \* how many of them are bound
    params,        \* the driver's parameters: "unbound", or bound to memory
                   \* that is "live" or "dead"
    placeholders,  \* of the text of the query
    used,          \* a query with parameters has ended on the statement since
                   \* it was allocated, given back by handle() && or cleaned
    open,          \* the driver has a result open
    columns,       \* the driver's column bindings: 1 .. columns
    own,           \* the cursor's columns: 1 .. own
    leftBehind,    \* a cursor has left the statement to its caller other
                   \* than by handle() &&
    disturbed      \* the cursor has been moved or has applied changes

queryVars == <<phase, numParams, numBound, params, placeholders, used>>

statementVars == <<holder, lent, open, columns, own, leftBehind, disturbed>>

allVars == <<vars, queryVars, statementVars>>

Param == 1 .. MaxParams

HasCursor == holder = "cursor" \/ lent

StatementTypeOK ==
    /\ TypeOK
    /\ holder \in {"caller", "frame", "cursor", "nobody"}
    /\ lent \in BOOLEAN
    /\ lent => holder = "caller"
    /\ phase \in {"none", "bind", "prepare", "construct"}
    /\ numParams \in 0 .. MaxParams
    /\ numBound \in 0 .. numParams
    /\ params \in [Param -> {"unbound", "live", "dead"}]
    /\ placeholders \in 0 .. MaxParams
    /\ used \in BOOLEAN
    /\ open \in BOOLEAN
    /\ columns \in 0 .. MaxColumns
    /\ own \in 0 .. MaxColumns
    /\ leftBehind \in BOOLEAN
    /\ disturbed \in BOOLEAN

Unbound == [i \in Param |-> "unbound"]

StatementInit ==
    /\ NoChanges
    /\ bound = "nothing"
    /\ countInto = "elsewhere"
    /\ holder = "nobody"
    /\ lent = FALSE
    /\ phase = "none"
    /\ numParams = 0
    /\ numBound = 0
    /\ params = Unbound
    /\ placeholders = 0
    /\ used = FALSE
    /\ open = FALSE
    /\ columns = 0
    /\ own = 0
    /\ leftBehind = FALSE
    /\ disturbed = FALSE

Idle == phase = "none" /\ step = "idle"

-----------------------------------------------------------------------------
(* What goes when something ends.                                          *)

(* The cursor: changes that have not been applied are lost with it.        *)
CursorEnds ==
    /\ deletes' = <<>>
    /\ inserts' = <<>>
    /\ queued' = queued \ Range(inserts)
    /\ garbled' = {}
    /\ seen' = {}
    /\ fetched' = 0
    /\ lastFetch' = [driver |-> 0, told |-> 0]
    /\ rebindFailed' = FALSE
    /\ lent' = FALSE
    /\ own' = 0
    /\ disturbed' = FALSE
    /\ UNCHANGED <<rows, added, refused, step>>

(* The lengths, which are local to query, and parameters given as          *)
(* temporaries.                                                            *)
Dangling == [i \in Param |-> IF params[i] = "live" THEN "dead" ELSE params[i]]

(* The statement, and all that the driver remembers of it.                 *)
StatementFreed ==
    /\ holder' = "nobody"
    /\ params' = Unbound
    /\ used' = FALSE
    /\ open' = FALSE
    /\ columns' = 0
    /\ bound' = "nothing"
    /\ countInto' = "elsewhere"
    /\ leftBehind' = FALSE

(* The first k of SQL_CLOSE, SQL_UNBIND and SQL_RESET_PARAMS.              *)
Cleaned(k) ==
    /\ open' = (open /\ k < 1)
    /\ columns' = IF k < 2 THEN columns ELSE 0
    /\ bound' = IF k < 2 THEN bound ELSE "nothing"
    /\ params' = IF k < 3 THEN params ELSE Unbound
    /\ used' = (used /\ k < 3)

-----------------------------------------------------------------------------
(* query.                                                                  *)

(* allocate<SQL_HANDLE_STMT>, by the caller or by query(dbc, ...).         *)
AllocateStatement ==
    /\ holder = "nobody"
    /\ holder' \in {"caller", "frame"}
    /\ UNCHANGED <<vars, queryVars, lent, open, columns, own, leftBehind, disturbed>>

(* query(stmt, text, params...), with k parameters for a text that has m    *)
(* placeholders.  Without parameters nobody counts the placeholders, and   *)
(* with parameters an assertion does, which release builds do not have.    *)
Query(k, m) ==
    /\ Idle
    /\ holder \in {"caller", "frame"}
    /\ ~lent
    /\ numParams' = k
    /\ numBound' = 0
    /\ placeholders' = m
    /\ phase' = IF k = 0 THEN "prepare" ELSE "bind"
    /\ UNCHANGED <<vars, params, used, statementVars>>

(* InputParameters::BindParam: SQLBindParameter.                           *)
BindParam ==
    /\ phase = "bind"
    /\ params' = [params EXCEPT ![numBound + 1] = "live"]
    /\ numBound' = numBound + 1
    /\ phase' = IF numBound' = numParams THEN "prepare" ELSE "bind"
    /\ UNCHANGED <<vars, numParams, placeholders, used, statementVars>>

(* The query ends; the parameters it has bound go with it.                 *)
QueryOver == phase' = "none" /\ numParams' = 0 /\ numBound' = 0 /\ placeholders' = 0

UsedNow == used' = (used \/ numBound > 0)

(* SQLBindParameter, SQLPrepare or SQLExecute fails: SQLPrepare does if a  *)
(* result is open, SQLExecute if a placeholder has no parameter bound.  A  *)
(* statement that query has allocated, or been given by handle(), is       *)
(* freed.                                                                  *)
QueryFails ==
    /\ phase \in {"bind", "prepare"}
    /\ QueryOver
    /\ \/ /\ holder = "caller"
          /\ params' = Dangling
          /\ UsedNow
          /\ UNCHANGED <<vars, statementVars>>
       \/ /\ holder = "frame"
          /\ CursorEnds
          /\ StatementFreed

(* The driver reads what is bound to the placeholders, this query's or     *)
(* not.                                                                    *)
CanExecute ==
    /\ phase = "prepare"
    /\ ~open
    /\ \A i \in 1 .. placeholders : params[i] # "unbound"

(* SQLPrepare and SQLExecute, of a query without a cursor.  The driver may *)
(* or may not come to have a result.                                       *)
Execute ==
    /\ CanExecute
    /\ QueryOver
    /\ \/ /\ holder' = "caller"
          /\ open' \in BOOLEAN
          /\ params' = Dangling
          /\ UsedNow
          /\ UNCHANGED <<vars, lent, columns, own, leftBehind, disturbed>>
       \/ /\ holder = "frame"
          /\ CursorEnds
          /\ StatementFreed

(* The same, of a query that returns a cursor.                             *)
ExecuteForCursor ==
    /\ CanExecute
    /\ params' = Dangling
    /\ UsedNow
    /\ open' \in BOOLEAN
    /\ phase' = "construct"
    /\ numParams' = 0
    /\ numBound' = 0
    /\ placeholders' = 0
    /\ UNCHANGED <<vars, holder, lent, columns, own, leftBehind, disturbed>>

-----------------------------------------------------------------------------
(* Cursors.                                                                *)

(* Slip: the driver is still told the place it was told before.            *)
ConstructNoPointer(w) ==
    /\ phase = "construct"
    /\ phase' = "none"
    /\ bound' = "columns"
    /\ columns' = IF w > columns THEN w ELSE columns
    /\ own' = w
    /\ \/ holder' = "cursor" /\ UNCHANGED lent
       \/ holder = "caller" /\ lent' = TRUE /\ UNCHANGED holder
    /\ UNCHANGED <<table, lists, fetching, countInto, step, rebindFailed, numParams, numBound,
                   params, placeholders, used, open, leftBehind, disturbed>>

(* The cursor's constructors: fetched_ is registered, w columns are bound. *)
(* A statement the caller has moved in is the cursor's from here.          *)
Construct(w) ==
    /\ phase = "construct"
    /\ phase' = "none"
    /\ countInto' = "member"
    /\ bound' = "columns"
    /\ columns' = IF w > columns THEN w ELSE columns
    /\ own' = w
    /\ \/ holder' = "cursor" /\ UNCHANGED lent
       \/ holder = "caller" /\ lent' = TRUE /\ UNCHANGED holder
    /\ UNCHANGED <<table, lists, fetching, step, rebindFailed, numParams, numBound, params,
                   placeholders, used, open, leftBehind, disturbed>>

(* One of its calls fails.  The base class, with the statement in it, is   *)
(* destroyed; an Adapter leaves it with the caller, half bound.            *)
ConstructFails(w) ==
    /\ phase = "construct"
    /\ phase' = "none"
    /\ CursorEnds
    /\ \/ StatementFreed
       \/ /\ holder = "caller"
          /\ countInto' = "elsewhere"
          /\ columns' = IF w > columns THEN w ELSE columns
          /\ leftBehind' = TRUE
          /\ UNCHANGED <<holder, params, used, open, bound>>
    /\ UNCHANGED <<numParams, numBound, placeholders>>

(* The cursor is moved to another object: fetched_ is copied, but the      *)
(* driver goes on to count into the old one.                               *)
MoveCursor ==
    /\ Idle
    /\ HasCursor
    /\ countInto' = "elsewhere"
    /\ disturbed' = TRUE
    /\ UNCHANGED <<table, lists, fetching, bound, step, rebindFailed, queryVars, holder, lent,
                   open, columns, own, leftBehind>>

(* Columns apply_changes unbinds, and binds again.                         *)
ColumnsFollow ==
    columns' = IF bound' # "columns" THEN 0 ELSE IF bound # "columns" THEN own ELSE columns

(* What a ModifiableCursor does.  Without a result the driver fetches and  *)
(* changes nothing.                                                        *)
UseCursor ==
    /\ phase = "none"
    /\ HasCursor
    /\ \/ open /\ (Fetch \/ DeleteRows \/ AddRows) /\ UNCHANGED disturbed
       \/ \E r \in Row : Remove(r) /\ UNCHANGED disturbed
       \/ \E r \in NewRow : Insert(r) /\ UNCHANGED disturbed
       \/ (ApplyStart \/ ApplyStartFails) /\ disturbed' = TRUE
       \/ (DeleteFails \/ Rebind \/ RebindFails \/ AddFails) /\ UNCHANGED disturbed
    /\ ColumnsFollow
    /\ UNCHANGED <<queryVars, holder, lent, open, own, leftBehind>>

(* ~Cursor: apply_changes is not called.                                   *)
DestroyCursor ==
    /\ Idle
    /\ HasCursor
    /\ CursorEnds
    /\ \/ holder = "cursor" /\ StatementFreed
       \/ /\ lent
          /\ leftBehind' = TRUE
          /\ countInto' = "elsewhere"
          /\ UNCHANGED <<holder, params, used, open, columns, bound>>
    /\ UNCHANGED <<phase, numParams, numBound, placeholders>>

(* Slip: the columns are not unbound.                                      *)
ReleaseStillBound ==
    /\ Idle
    /\ HasCursor
    /\ CursorEnds
    /\ open' = FALSE
    /\ params' = Unbound
    /\ used' = FALSE
    /\ holder' \in IF lent THEN {"caller"} ELSE {"caller", "frame"}
    /\ countInto' = "elsewhere"
    /\ leftBehind' = FALSE
    /\ UNCHANGED <<columns, bound, phase, numParams, numBound, placeholders>>

(* Slip: the parameters are not reset.                                     *)
ReleaseStillParams ==
    /\ Idle
    /\ HasCursor
    /\ CursorEnds
    /\ open' = FALSE
    /\ columns' = 0
    /\ bound' = "nothing"
    /\ used' = FALSE
    /\ holder' \in IF lent THEN {"caller"} ELSE {"caller", "frame"}
    /\ countInto' = "elsewhere"
    /\ leftBehind' = FALSE
    /\ UNCHANGED <<params, phase, numParams, numBound, placeholders>>

(* handle() &&, for the caller or for query(cursor &&, ...).               *)
Release ==
    /\ Idle
    /\ HasCursor
    /\ CursorEnds
    /\ Cleaned(3)
    /\ holder' \in IF lent THEN {"caller"} ELSE {"caller", "frame"}
    /\ countInto' = "elsewhere"
    /\ leftBehind' = FALSE
    /\ UNCHANGED <<phase, numParams, numBound, placeholders>>

(* One of its calls fails: the statement is still the cursor's.            *)
ReleaseFails ==
    /\ Idle
    /\ HasCursor
    /\ \E k \in 0 .. 2 : Cleaned(k)
    /\ UNCHANGED <<table, lists, fetching, countInto, step, rebindFailed, phase, numParams,
                   numBound, placeholders, holder, lent, own, leftBehind, disturbed>>

(* The caller cleans up his statement himself, as the tests do, or a part. *)
CallerCleans ==
    /\ Idle
    /\ holder = "caller"
    /\ ~lent
    /\ \E k \in 1 .. 3 :
          /\ Cleaned(k)
          /\ leftBehind' = (leftBehind /\ k < 2)
    /\ UNCHANGED <<table, lists, fetching, countInto, step, rebindFailed, phase, numParams,
                   numBound, placeholders, holder, lent, own, disturbed>>

(* The caller's unique_ptr is destroyed.                                   *)
CallerFrees ==
    /\ Idle
    /\ holder = "caller"
    /\ ~lent
    /\ CursorEnds
    /\ StatementFreed
    /\ UNCHANGED <<phase, numParams, numBound, placeholders>>

StatementNext ==
    \/ AllocateStatement
    \/ \E k, m \in 0 .. MaxParams : Query(k, m)
    \/ BindParam \/ QueryFails \/ Execute \/ ExecuteForCursor
    \/ \E w \in 1 .. MaxColumns : Construct(w) \/ ConstructFails(w)
    \/ MoveCursor \/ UseCursor \/ DestroyCursor
    \/ Release \/ ReleaseFails
    \/ CallerCleans \/ CallerFrees

StatementSpec == StatementInit /\ [][StatementNext]_allVars

-----------------------------------------------------------------------------
(* Properties.                                                             *)

(* When a query is executed its own parameters are bound, to memory that   *)
(* is live, and no others: a placeholder without a parameter makes the     *)
(* driver refuse, it is never filled from the memory of an earlier query,  *)
(* whatever failed in between.  The exception is a statement that its      *)
(* caller has kept and uses again: nobody unbinds the parameters of the    *)
(* query before, and the driver may read them.                             *)
NoStaleParameter ==
    phase = "prepare" =>
        \A i \in 1 .. placeholders :
            IF i <= numParams THEN params[i] = "live" ELSE used \/ params[i] = "unbound"

(* The driver has a cursor's columns bound and no others, which would be   *)
(* written behind the end of its rows, however wide the results that the   *)
(* statement was used for before, and whatever failed; unless a cursor has *)
(* left the statement to its caller without handle().                      *)
OwnColumnsOnly == HasCursor /\ bound = "columns" /\ ~leftBehind => columns = own

(* A cursor makes of every fetch the rows the driver has fetched, whatever *)
(* an earlier cursor on the statement has left behind, until it is moved   *)
(* or applies changes itself.                                              *)
FreshCursorCounts == ~disturbed => lastFetch.told = lastFetch.driver
=============================================================================
