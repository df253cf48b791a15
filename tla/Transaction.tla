----------------------------- MODULE Transaction -----------------------------
(***************************************************************************)
(* ScopedTransaction (transaction.hpp) and begin_transaction,              *)
(* end_transaction (transaction.cpp) on one connection.                    *)
(*                                                                         *)
(* A ScopedTransaction switches the connection's autocommit off, and on    *)
(* again when it ends: in commit(), or with a rollback in its destructor.  *)
(* It refers to the connection by an Adapter, a plain handle: commit()     *)
(* replaces it by the null handle, but moving from it leaves it as it was. *)
(* Each of the two driver calls that end a transaction, SQLEndTran and     *)
(* setting SQL_ATTR_AUTOCOMMIT, may fail; the first failure throws.        *)
(*                                                                         *)
(* The build may have assertions on or off: a failing assertion aborts the *)
(* process, and the database undoes what is pending.                       *)
(***************************************************************************)
EXTENDS FiniteSets

CONSTANTS
    Scope,      \* ScopedTransaction objects; each is constructed once
    Work,       \* statements the program executes; each once
    NoScope     \* the scope of a statement executed outside any

ASSUME TransactionAssumption == NoScope \notin Scope

VARIABLES
    asserts,     \* the build has assertions
    aborted,     \* an assertion has failed
    autocommit,  \* SQL_ATTR_AUTOCOMMIT of the connection
    state,       \* "new", "open" (dbc_ is the connection), "null" or "gone"
    scopeOf,     \* [executed statements -> the open scope, or NoScope]
    pending,     \* statements of the driver's open transaction
    durable,     \* statements the database will keep
    answer,      \* what the last commit() did: "none", "returned" or "threw"
    failed,      \* scopes whose transaction the driver failed to end:
                 \* committed without autocommit, or not rolled back
    unfinished,  \* a destructor has failed to roll back, and no transaction
                 \* has been ended since
    moved,       \* an open scope has been moved from
    overwritten  \* an open scope has been assigned to

driver == <<autocommit, pending, durable>>

past == <<scopeOf, failed, moved, overwritten>>

vars == <<asserts, aborted, state, answer, driver, past, unfinished>>

TypeOK ==
    /\ asserts \in BOOLEAN
    /\ aborted \in BOOLEAN
    /\ autocommit \in BOOLEAN
    /\ state \in [Scope -> {"new", "open", "null", "gone"}]
    /\ DOMAIN scopeOf \subseteq Work
    /\ scopeOf \in [DOMAIN scopeOf -> Scope \cup {NoScope}]
    /\ pending \subseteq DOMAIN scopeOf
    /\ durable \subseteq DOMAIN scopeOf \ pending
    /\ answer \in [Scope -> {"none", "returned", "threw"}]
    /\ failed \subseteq Scope
    /\ unfinished \in BOOLEAN
    /\ moved \in BOOLEAN
    /\ overwritten \in BOOLEAN

Init ==
    /\ asserts \in BOOLEAN
    /\ aborted = FALSE
    /\ autocommit = TRUE
    /\ state = [s \in Scope |-> "new"]
    /\ scopeOf = [w \in {} |-> NoScope]
    /\ pending = {}
    /\ durable = {}
    /\ answer = [s \in Scope |-> "none"]
    /\ failed = {}
    /\ unfinished = FALSE
    /\ moved = FALSE
    /\ overwritten = FALSE

Open == {s \in Scope : state[s] = "open"}

Committed == {s \in Scope : answer[s] = "returned"}

(* assert(condition): `violated' ends the process.                         *)
Abort(violated) ==
    /\ ~aborted
    /\ asserts
    /\ violated
    /\ aborted' = TRUE
    /\ pending' = {}
    /\ UNCHANGED <<asserts, autocommit, state, answer, durable, past, unfinished>>

Passes(condition) == ~aborted /\ (asserts => condition)

Ends(s, how) == state' = [state EXCEPT ![s] = how]

Answers(s, how) == answer' = [answer EXCEPT ![s] = how]

-----------------------------------------------------------------------------
(* The constructor.  The program does not nest transactions.               *)
Begin(s) ==
    /\ Passes(autocommit)
    /\ state[s] = "new"
    /\ Open = {}
    /\ autocommit' = FALSE
    /\ Ends(s, "open")
    /\ UNCHANGED <<asserts, aborted, answer, pending, durable, past, unfinished>>

(* Switching autocommit off fails: the constructor throws, and there is no *)
(* object whose destructor could run.                                      *)
BeginFails(s) ==
    /\ Passes(autocommit)
    /\ state[s] = "new"
    /\ Open = {}
    /\ Ends(s, "gone")
    /\ UNCHANGED <<asserts, aborted, answer, driver, past, unfinished>>

(* The program executes a statement on the connection.                     *)
Execute(w) ==
    /\ ~aborted
    /\ w \notin DOMAIN scopeOf
    /\ \E s \in IF Open = {} THEN {NoScope} ELSE Open :
          scopeOf' = [v \in DOMAIN scopeOf \cup {w} |-> IF v = w THEN s ELSE scopeOf[v]]
    /\ IF autocommit
       THEN durable' = durable \cup {w} /\ UNCHANGED pending
       ELSE pending' = pending \cup {w} /\ UNCHANGED durable
    /\ UNCHANGED <<asserts, aborted, autocommit, state, answer, failed, unfinished, moved,
                   overwritten>>

(* SQLEndTran(SQL_COMMIT), then SQL_AUTOCOMMIT_ON.                         *)
DriverCommits ==
    /\ durable' = durable \cup pending
    /\ pending' = {}
    /\ autocommit' = TRUE
    /\ unfinished' = FALSE

(* SQLEndTran(SQL_ROLLBACK), then SQL_AUTOCOMMIT_ON.                       *)
DriverRollsBack ==
    /\ pending' = {}
    /\ autocommit' = TRUE
    /\ unfinished' = FALSE
    /\ UNCHANGED durable

(* Slip: commit() ends the transaction and leaves autocommit off.          *)
CommitKeepsMode(s) ==
    /\ Passes(~autocommit)
    /\ state[s] = "open"
    /\ durable' = durable \cup pending
    /\ pending' = {}
    /\ Ends(s, "null")
    /\ Answers(s, "returned")
    /\ UNCHANGED <<asserts, aborted, autocommit, past, unfinished>>

(* Slip: commit() keeps its handle, and the destructor ends once more.     *)
CommitKeepsHandle(s) ==
    /\ Passes(~autocommit)
    /\ state[s] = "open"
    /\ DriverCommits
    /\ Answers(s, "returned")
    /\ UNCHANGED <<asserts, aborted, state, past>>

(* commit(), and both driver calls succeed.                                *)
Commit(s) ==
    /\ Passes(~autocommit)
    /\ state[s] = "open"
    /\ DriverCommits
    /\ Ends(s, "null")
    /\ Answers(s, "returned")
    /\ UNCHANGED <<asserts, aborted, past>>

(* Slip: commit() returns although SQLEndTran has failed.                  *)
CommitFailsSilently(s) ==
    /\ Passes(~autocommit)
    /\ state[s] = "open"
    /\ Answers(s, "returned")
    /\ UNCHANGED <<asserts, aborted, state, driver, past, unfinished>>

(* commit(), but SQLEndTran fails: the transaction stays open.             *)
CommitFails(s) ==
    /\ Passes(~autocommit)
    /\ state[s] = "open"
    /\ Answers(s, "threw")
    /\ UNCHANGED <<asserts, aborted, state, driver, past, unfinished>>

(* commit() commits, but autocommit stays off: it throws all the same.     *)
CommitHalf(s) ==
    /\ Passes(~autocommit)
    /\ state[s] = "open"
    /\ durable' = durable \cup pending
    /\ pending' = {}
    /\ Answers(s, "threw")
    /\ failed' = failed \cup {s}
    /\ UNCHANGED <<asserts, aborted, autocommit, state, scopeOf, unfinished, moved,
                   overwritten>>

(* Slip: the destructor switches autocommit on without a rollback, and the *)
(* driver commits what is pending.                                         *)
RollbackForgotten(s) ==
    /\ Passes(~autocommit)
    /\ state[s] = "open"
    /\ DriverCommits
    /\ Ends(s, "gone")
    /\ UNCHANGED <<asserts, aborted, answer, past>>

(* Slip: the destructor takes an open scope for one that has ended.        *)
RollbackSkipped(s) ==
    /\ ~aborted
    /\ state[s] = "open"
    /\ Ends(s, "gone")
    /\ UNCHANGED <<asserts, aborted, answer, driver, past, unfinished>>

(* The destructor of an open scope, and both driver calls succeed.         *)
Rollback(s) ==
    /\ Passes(~autocommit)
    /\ state[s] = "open"
    /\ DriverRollsBack
    /\ Ends(s, "gone")
    /\ UNCHANGED <<asserts, aborted, answer, past>>

(* The destructor when a driver call fails: the exception is swallowed and *)
(* an assertion reports it.  `pending' is undone if SQLEndTran succeeded.  *)
RollbackFails(s) ==
    /\ Passes(FALSE)
    /\ state[s] = "open"
    /\ pending' \in {pending, {}}
    /\ Ends(s, "gone")
    /\ failed' = failed \cup {s}
    /\ unfinished' = TRUE
    /\ UNCHANGED <<asserts, aborted, autocommit, answer, durable, scopeOf, moved, overwritten>>

(* The destructor of a scope that has committed does nothing.              *)
Leave(s) ==
    /\ ~aborted
    /\ state[s] = "null"
    /\ Ends(s, "gone")
    /\ UNCHANGED <<asserts, aborted, answer, driver, past, unfinished>>

(* Move construction and move assignment: dbc_ is copied, and what the     *)
(* target had is forgotten.                                                *)
Move(from, to) ==
    /\ ~aborted
    /\ from # to
    /\ state[from] \in {"open", "null"}
    /\ state[to] # "gone"
    /\ Ends(to, state[from])
    /\ moved' = (moved \/ state[from] = "open")
    /\ overwritten' = (overwritten \/ state[to] = "open")
    /\ UNCHANGED <<asserts, aborted, answer, driver, scopeOf, failed, unfinished>>

(* The assert of begin_transaction.                                        *)
BeginAborts ==
    \E s \in Scope : state[s] = "new" /\ Open = {} /\ Abort(~autocommit)

(* The assert of end_transaction.                                          *)
EndAborts == Open # {} /\ Abort(autocommit)

(* The assert of the destructor's exception handler.                       *)
RollbackAborts == Open # {} /\ Abort(~autocommit)

Next ==
    \/ \E s \in Scope :
          \/ Begin(s) \/ BeginFails(s)
          \/ Commit(s) \/ CommitFails(s) \/ CommitHalf(s)
          \/ Rollback(s) \/ RollbackFails(s) \/ Leave(s)
    \/ \E w \in Work : Execute(w)
    \/ \E from, to \in Scope : Move(from, to)
    \/ BeginAborts \/ EndAborts \/ RollbackAborts

Spec == Init /\ [][Next]_vars

-----------------------------------------------------------------------------
(* Properties.                                                             *)

(* The transaction is all or nothing: what a scope executed is durable     *)
(* exactly when its commit() returned, whatever failed on the way, even if *)
(* the driver failed to end the transactions of other scopes before; but   *)
(* not if it failed to end this scope's, nor when scopes were moved.       *)
ScopeIsAtomic ==
    ~moved /\ ~overwritten =>
       \A w \in DOMAIN scopeOf :
          scopeOf[w] \notin failed \cup {NoScope} =>
             (w \in durable <=> scopeOf[w] \in Committed)

(* A commit() that returned is kept, even after the driver has failed.     *)
CommittedIsDurable ==
    ~moved /\ ~overwritten =>
       \A w \in DOMAIN scopeOf : scopeOf[w] \in Committed => w \in durable

(* Behind the last open scope the connection is in autocommit mode again,  *)
(* as the tests expect, and no statement is left pending for somebody      *)
(* else's commit.  This is so even when scopes are moved or a commit has   *)
(* failed, but not when an open scope is assigned to, nor from a rollback  *)
(* that failed until the next transaction has ended.                       *)
AutocommitRestored ==
    Open = {} /\ ~unfinished /\ ~overwritten => autocommit /\ pending = {}

(* What a commit or rollback will end is the work of open scopes.  Only    *)
(* when the destructor has failed to roll back, which nobody is told in a  *)
(* release build, what its scope has executed and what is executed without *)
(* any waits for the next scope to commit it; and that scope's end puts    *)
(* things right.                                                           *)
PendingIsOwned ==
    ~overwritten =>
       \A w \in pending :
          \/ scopeOf[w] \in Open
          \/ unfinished /\ scopeOf[w] \in failed \cup {NoScope}

(* Unless scopes are moved, a scope ends a transaction that is still open. *)
ScopeEndsOnce == ~moved /\ Open # {} => ~autocommit

(* end_transaction finds a transaction to end, as its assert says.         *)
EndFindsTransactionOpen == Open # {} => ~autocommit
=============================================================================
