------------------------------ MODULE Handles --------------------------------
(***************************************************************************)
(* Handles and what owns them (handle.hpp, details/handle.hpp).            *)
(*                                                                         *)
(* The driver's handles are a tree: connections of an environment,         *)
(* statements of a connection.  The program holds them in unique_ptrs      *)
(* whose types carry the attributes that have been set.  Setting up a      *)
(* handle is a sequence of driver calls, one for each attribute, any of    *)
(* which may throw.  Deleters ignore what the driver answers.              *)
(*                                                                         *)
(* The driver refuses to free a handle that is in use: a connection while  *)
(* it is connected, an environment that has connections; and to disconnect *)
(* while a transaction is open.  Disconnecting frees the statements of the *)
(* connection, whoever holds them.                                         *)
(*                                                                         *)
(* An owner is not a named variable here, but a record of the set of       *)
(* unique_ptrs that hold something; those moved from hold nothing.         *)
(***************************************************************************)
EXTENDS Attributes, Diagnostics, FiniteSets, Functions

CONSTANTS
    Env, Dbc, Stmt,   \* the handles the driver can give out
    Parent,           \* what each of them is allocated from
    Requests(_),      \* lists of attributes a caller may ask for, by type
    LesserTypes       \* sets of attributes a caller's types may claim instead

Handle == Env \cup Dbc \cup Stmt

TypeOf(h) == IF h \in Env THEN "env" ELSE IF h \in Dbc THEN "dbc" ELSE "stmt"

ASSUME HandlesAssumption ==
    /\ Env \cap Dbc = {} /\ Env \cap Stmt = {} /\ Dbc \cap Stmt = {}
    /\ Parent \in [Dbc \cup Stmt -> Env \cup Dbc]
    /\ \A d \in Dbc : Parent[d] \in Env
    /\ \A s \in Stmt : Parent[s] \in Dbc
    /\ \A type \in {"env", "dbc", "stmt"} : Requests(type) \subseteq Seq(Applicable(type))
    /\ \A type \in {"env", "dbc", "stmt"} : \A request \in Requests(type) : IsMap(Range(request))
    /\ LesserTypes \subseteq SUBSET Attribute

Owner == [handle : Handle, claims : SUBSET Attribute]

VARIABLES
    live,          \* handles the driver has given out and not freed
    connected,     \* connections that are connected
    inTransaction, \* connections with work that is neither committed nor
                   \* rolled back
    driver,        \* what each statement is: [scrolls, writes]
    owners,        \* the unique_ptrs that are not null
    setup,         \* a handle being set up: a set of at most one record
                   \* [handle, claims, todo, from]
    cutOff,        \* handles the program can no longer free: set up in vain,
                   \* or with a transaction open when they were to be freed
    disorder,      \* a handle was freed before one that was made from it
    misused,       \* a handle was used after the driver freed it
    behind         \* statements the driver has changed, or owners have
                   \* forgotten about, behind the type's back

handleVars == <<live, connected, inTransaction, driver, owners, setup, cutOff, disorder,
                misused, behind>>

vars == <<handleVars, diagnostics>>

Setup == [handle : Handle, claims : SUBSET Attribute, todo : Seq(Attribute),
          from : SUBSET Owner]

TypeOK ==
    /\ DiagnosticsTypeOK
    /\ live \subseteq Handle
    /\ connected \subseteq Dbc \cap live
    /\ inTransaction \subseteq connected
    /\ driver \in [Stmt -> [scrolls : BOOLEAN, writes : BOOLEAN]]
    /\ owners \subseteq Owner
    /\ \A x, y \in setup : x = y
    /\ \A x \in setup : x \in Setup /\ x.handle \in live
    /\ cutOff \subseteq Handle
    /\ disorder \in BOOLEAN
    /\ misused \in BOOLEAN
    /\ behind \subseteq Stmt

FreshStatement == [scrolls |-> FALSE, writes |-> FALSE]

Init ==
    /\ DiagnosticsInit
    /\ live = {}
    /\ connected = {}
    /\ inTransaction = {}
    /\ driver = [s \in Stmt |-> FreshStatement]
    /\ owners = {}
    /\ setup = {}
    /\ cutOff = {}
    /\ disorder = FALSE
    /\ misused = FALSE
    /\ behind = {}

Idle == setup = {} /\ ~reporting

Owned == {o.handle : o \in owners}

Children(h) == {c \in Dbc \cup Stmt : Parent[c] = h}

(* The driver has freed handles, and forgets what they were.               *)
Forget(handles) ==
    /\ live' = live \ handles
    /\ cutOff' = cutOff \ handles
    /\ behind' = behind \ handles
    /\ driver' = [s \in Stmt |-> IF s \in handles THEN FreshStatement ELSE driver[s]]

-----------------------------------------------------------------------------
(* allocate and set.                                                       *)

Begin(h, claims, request, from) ==
    setup' = {[handle |-> h, claims |-> Merge(claims, Range(request)),
               todo |-> request, from |-> from]}

Fresh(h) == h \notin live /\ h \notin Owned

(* allocate<SQL_HANDLE_ENV>.                                               *)
AllocateEnv(h, request) ==
    /\ Idle
    /\ Fresh(h)
    /\ live' = live \cup {h}
    /\ Begin(h, {}, request, {})
    /\ UNCHANGED <<connected, inTransaction, driver, owners, cutOff, disorder, misused, behind,
                   diagnostics>>

(* SQL_SUCCESS_WITH_INFO: the handle is there, but allocate throws.        *)
AllocateEnvThrows(h) ==
    /\ Idle
    /\ Fresh(h)
    /\ live' = live \cup {h}
    /\ cutOff' = cutOff \cup {h}
    /\ UNCHANGED <<connected, inTransaction, driver, owners, setup, disorder, misused, behind,
                   diagnostics>>

(* allocate<T>(input, attributes): a statement needs a connection that is  *)
(* connected, otherwise the driver refuses.                                *)
Allocate(o, h, request) ==
    /\ Idle
    /\ h \notin Env
    /\ o.handle = Parent[h]
    /\ o.handle \in live
    /\ Fresh(h)
    /\ h \in Stmt => o.handle \in connected
    /\ live' = live \cup {h}
    /\ Begin(h, o.claims, request, {})
    /\ UNCHANGED <<connected, inTransaction, driver, owners, cutOff, disorder, misused, behind,
                   diagnostics>>

(* A call fails that has changed nothing: SQLAllocHandle, SQLDriverConnect,*)
(* SQLDisconnect while a transaction is open.                              *)
Refused ==
    /\ Idle
    /\ \E o \in owners : o.handle \in (Env \cup Dbc) \cap live
    /\ CallFails
    /\ UNCHANGED handleVars

(* attribute::set(Handle&&, attributes).                                   *)
Set(o, request) ==
    /\ Idle
    /\ o.handle \in live
    /\ Begin(o.handle, o.claims, request, {o})
    /\ UNCHANGED <<live, connected, inTransaction, driver, owners, cutOff, disorder, misused,
                   behind, diagnostics>>

(* SQLSetStmtAttr: cursor type and scrollability set each other.           *)
Effect(s, a) ==
    IF a \in {cursor_forward_only, nonscrollable} THEN [s EXCEPT !.scrolls = FALSE]
    ELSE IF a \in {cursor_static, scrollable} THEN [s EXCEPT !.scrolls = TRUE]
    ELSE IF a.id = "concurrency" THEN [s EXCEPT !.writes = (a = concur_lock)]
    ELSE s

(* set_attributes takes them one by one.  Of a synthetic attribute the     *)
(* driver does not hear.                                                   *)
SetAttribute(x) ==
    /\ ~reporting
    /\ x.todo # <<>>
    /\ setup' = {[x EXCEPT !.todo = Tail(@)]}
    /\ driver' = IF x.handle \in Stmt
                 THEN [driver EXCEPT ![x.handle] = Effect(@, Head(x.todo))] ELSE driver
    /\ UNCHANGED <<live, connected, inTransaction, owners, cutOff, disorder, misused, behind,
                   diagnostics>>

(* "Option value changed": the driver sets something else and answers      *)
(* SQL_SUCCESS_WITH_INFO, a success for if_failed_throw.                   *)
SetAttributeSubstituted(x) ==
    /\ ~reporting
    /\ x.todo # <<>>
    /\ Head(x.todo) \notin SyntheticAttribute
    /\ x.handle \in Stmt
    /\ setup' = {[x EXCEPT !.todo = Tail(@)]}
    /\ behind' = behind \cup {x.handle}
    /\ UNCHANGED <<live, connected, inTransaction, driver, owners, cutOff, disorder, misused,
                   diagnostics>>

SetAttributeFails(x) ==
    /\ x.todo # <<>>
    /\ Head(x.todo) \notin SyntheticAttribute
    /\ CallFails
    /\ UNCHANGED handleVars

(* Slip: the old unique_ptr is not released.                               *)
SetupDoneNoRelease(x) ==
    /\ ~reporting
    /\ x.todo = <<>>
    /\ owners' = owners \cup {[handle |-> x.handle, claims |-> x.claims]}
    /\ setup' = {}
    /\ UNCHANGED <<live, connected, inTransaction, driver, cutOff, disorder, misused, behind,
                   diagnostics>>

(* make, and release of the unique_ptr the handle was moved out of.        *)
SetupDone(x) ==
    /\ ~reporting
    /\ x.todo = <<>>
    /\ owners' = (owners \ x.from) \cup {[handle |-> x.handle, claims |-> x.claims]}
    /\ setup' = {}
    /\ UNCHANGED <<live, connected, inTransaction, driver, cutOff, disorder, misused, behind,
                   diagnostics>>

(* The exception leaves allocate or set.  A handle that has just been      *)
(* allocated is in no unique_ptr; one that was to be set is still in its   *)
(* own, with the claims it had, whatever has been set already.             *)
ThrowFromCall ==
    /\ Throw
    /\ setup' = {}
    /\ cutOff' = cutOff \cup {x.handle : x \in {y \in setup : y.from = {}}}
    /\ behind' = behind \cup ({x.handle : x \in setup} \cap Stmt)
    /\ UNCHANGED <<live, connected, inTransaction, driver, owners, disorder, misused>>

CollectRecord == Collect /\ UNCHANGED handleVars

(* A unique_ptr is moved to another, whose type may claim less.            *)
Narrow(o, claims) ==
    /\ Idle
    /\ IsSubset(claims, o.claims)
    /\ owners' = (owners \ {o}) \cup {[o EXCEPT !.claims = claims]}
    /\ behind' = behind \cup ({o.handle} \cap Stmt)
    /\ UNCHANGED <<live, connected, inTransaction, driver, setup, cutOff, disorder, misused,
                   diagnostics>>

-----------------------------------------------------------------------------
(* The connection.                                                         *)

Connect(o) ==
    /\ Idle
    /\ o.handle \in (Dbc \cap live) \ connected
    /\ connected' = connected \cup {o.handle}
    /\ UNCHANGED <<live, inTransaction, driver, owners, setup, cutOff, disorder, misused, behind,
                   diagnostics>>

(* Statements executed in manual mode, and SQLEndTran.                     *)
Work(d) ==
    /\ Idle
    /\ d \in connected
    /\ inTransaction' = IF d \in inTransaction THEN inTransaction \ {d} ELSE inTransaction \cup {d}
    /\ UNCHANGED <<live, connected, driver, owners, setup, cutOff, disorder, misused, behind,
                   diagnostics>>

(* What SQLDisconnect frees.                                               *)
FreedWith(d) == Children(d) \cap live

(* disconnect(dbc), unless the driver refuses.                             *)
Disconnect(o) ==
    /\ Idle
    /\ o.handle \in connected \ inTransaction
    /\ connected' = connected \ {o.handle}
    /\ Forget(FreedWith(o.handle))
    /\ disorder' = (disorder \/ Children(o.handle) \cap Owned # {})
    /\ UNCHANGED <<inTransaction, owners, setup, misused, diagnostics>>

-----------------------------------------------------------------------------
(* A unique_ptr is destroyed: the deleters.                                *)

(* SQLFreeHandle on a handle the driver has freed already.                 *)
FreeDead(o) ==
    /\ Idle
    /\ o.handle \notin live
    /\ misused' = TRUE
    /\ owners' = owners \ {o}
    /\ UNCHANGED <<live, connected, inTransaction, driver, setup, cutOff, disorder, behind,
                   diagnostics>>

(* Any other call on it: the driver finds it invalid.                      *)
UseFreed(o) ==
    /\ Idle
    /\ o.handle \notin live
    /\ CallInvalid
    /\ misused' = TRUE
    /\ UNCHANGED <<live, connected, inTransaction, driver, owners, setup, cutOff, disorder,
                   behind>>

FreeStmt(o) ==
    /\ Idle
    /\ o.handle \in Stmt \cap live
    /\ Forget({o.handle})
    /\ owners' = owners \ {o}
    /\ UNCHANGED <<connected, inTransaction, setup, disorder, misused, diagnostics>>

(* Slip: connections have no deleter of their own.                         *)
FreeDbcNoDisconnect(o) ==
    /\ Idle
    /\ o.handle \in Dbc \cap live
    /\ Forget({o.handle} \ connected)
    /\ disorder' = (disorder \/ Children(o.handle) \cap Owned # {})
    /\ owners' = owners \ {o}
    /\ UNCHANGED <<connected, inTransaction, setup, misused, diagnostics>>

(* SQLDisconnect, then SQLFreeHandle, whether or not the first was refused.*)
FreeDbc(o) ==
    /\ Idle
    /\ o.handle \in Dbc \cap live
    /\ IF o.handle \in inTransaction
       THEN /\ cutOff' = cutOff \cup {o.handle}
            /\ UNCHANGED <<live, connected, driver, behind>>
       ELSE /\ Forget(FreedWith(o.handle) \cup {o.handle})
            /\ connected' = connected \ {o.handle}
    /\ disorder' = (disorder \/ Children(o.handle) \cap Owned # {})
    /\ owners' = owners \ {o}
    /\ UNCHANGED <<inTransaction, setup, misused, diagnostics>>

(* The driver frees no environment that has connections.                   *)
FreeEnv(o) ==
    /\ Idle
    /\ o.handle \in Env \cap live
    /\ Forget(IF Children(o.handle) \cap live = {} THEN {o.handle} ELSE {})
    /\ disorder' = (disorder \/ Children(o.handle) \cap Owned # {})
    /\ owners' = owners \ {o}
    /\ UNCHANGED <<connected, inTransaction, setup, misused, diagnostics>>

-----------------------------------------------------------------------------
GoOn ==
    \/ \E x \in setup : SetAttribute(x) \/ SetupDone(x)
    \/ CollectRecord
    \/ ThrowFromCall

Next ==
    \/ \E h \in Env : AllocateEnvThrows(h) \/ \E r \in Requests("env") : AllocateEnv(h, r)
    \/ \E o \in owners :
          \/ \E h \in Dbc \cup Stmt : \E r \in Requests(TypeOf(h)) : Allocate(o, h, r)
          \/ \E r \in Requests(TypeOf(o.handle)) : Set(o, r)
          \/ \E claims \in LesserTypes : Narrow(o, claims)
          \/ Connect(o) \/ Disconnect(o)
          \/ FreeDead(o) \/ UseFreed(o) \/ FreeStmt(o) \/ FreeDbc(o) \/ FreeEnv(o)
    \/ \E x \in setup : SetAttributeSubstituted(x) \/ SetAttributeFails(x)
    \/ \E d \in Dbc : Work(d)
    \/ Refused
    \/ GoOn

Spec == Init /\ [][Next]_vars

FairSpec == Spec /\ WF_vars(GoOn)

-----------------------------------------------------------------------------
(* Properties.                                                             *)

Leaks(h) == h \in live /\ h \notin Owned /\ \A x \in setup : x.handle # h

(* As long as handles are freed before what they were made from, a handle  *)
(* leaks only if setting it up failed, if it is a connection that could    *)
(* not be disconnected because a transaction was open, or if a connection  *)
(* made from it leaks.  (A statement that leaks goes with its connection.) *)
NothingElseLeaks ==
    \A h \in Handle :
        Leaks(h) /\ ~disorder => h \in cutOff \/ \E c \in Children(h) : Leaks(c)

(* As long as handles are freed before what they were made from, neither a *)
(* deleter nor another call gets a handle that the driver has freed:       *)
(* moves, set and exceptions leave one owner at most.                      *)
NoFreedHandleUsed == misused => disorder

(* The class of cursor that a query returns for an owner's attributes is   *)
(* one the statement can serve, in whatever order attributes that          *)
(* contradict or replace each other were set: a scrollable cursor scrolls, *)
(* and a modifiable one, if a concurrency has been asked for at all,       *)
(* writes.  Not so after a failed set, a substituted value, or a type that *)
(* claims less.                                                            *)
CursorKindFits ==
    \A o \in owners :
        o.handle \in (Stmt \cap live) \ (behind \cup {x.handle : x \in setup}) =>
            LET kind == CursorKind(o.claims)
            IN  /\ kind # "forward_only" => driver[o.handle].scrolls
                /\ kind = "modifiable" /\ (\E a \in o.claims : a.id = "concurrency")
                      => driver[o.handle].writes

(* Every allocate and set returns or throws: the loop over the records of  *)
(* a failed call ends with any driver that says SQL_NO_DATA behind its     *)
(* last record, readable or not.                                           *)
CallsEnd == []<>Idle
=============================================================================
