---------------------------- MODULE Handles_proofs ---------------------------
(***************************************************************************)
(* For any number of handles, any lists of attributes a caller may ask for *)
(* and any diagnostic records: handles that are freed before what they     *)
(* were made from neither leak, but for the known reasons, nor are used    *)
(* when they are gone; the cursor a type promises is one the statement can *)
(* serve; and an exception tells of every record.                          *)
(***************************************************************************)
EXTENDS Handles, TLAPS

(* The loop over the records has collected those below rec.                *)
RecordsInv ==
    /\ ~reporting => rec = 1
    /\ reporting => /\ records \in RecordLists
                    /\ rec \in 1 .. Len(records) + 1
                    /\ message = [i \in 1 .. rec - 1 |-> [rec |-> i, text |-> records[i] = "text"]]

(* A handle has one owner at most, and one that is being set up none, or   *)
(* the one it is to be moved out of.                                       *)
OwnerInv ==
    /\ \A o, p \in owners : o.handle = p.handle => o = p
    /\ \A x \in setup : \/ x.from = {} /\ x.handle \notin Owned
                        \/ \E o \in owners : x.from = {o} /\ o.handle = x.handle

(* In good order, owners hold live handles.                                *)
OrderInv == ~disorder => ~misused /\ Owned \subseteq live

(* What the claims of a type mean for the statement, when those in todo    *)
(* have still to be set.                                                   *)
Fits(claims, statement, todo) ==
    /\ IsMap(claims)
    /\ Range(todo) \subseteq claims
    /\ ~IsForwardOnlyCursor(claims) =>
          statement.scrolls \/ Range(todo) \cap {scrollable, cursor_static} # {}
    /\ concur_lock \in claims => statement.writes \/ concur_lock \in Range(todo)

(* Owners and setups of statements that nothing has happened to behind     *)
(* their backs, and of what statements are made from.                      *)
ClaimsInv ==
    /\ \A o \in owners :
          IF o.handle \in Stmt
          THEN o.handle \in live \ (behind \cup {x.handle : x \in setup}) =>
                  Fits(o.claims, driver[o.handle], <<>>)
          ELSE o.claims \cap StmtAttribute = {}
    /\ \A x \in setup :
          IF x.handle \in Stmt
          THEN x.handle \notin behind => Fits(x.claims, driver[x.handle], x.todo)
          ELSE x.claims \cap StmtAttribute = {}

ClaimsAreMaps == (\A o \in owners : IsMap(o.claims)) /\ (\A x \in setup : IsMap(x.claims))

IInv == TypeOK /\ RecordsInv /\ OwnerInv /\ OrderInv /\ NothingElseLeaks /\ ClaimsAreMaps /\ ClaimsInv

-----------------------------------------------------------------------------
(* Attributes are of one type.                                             *)
LEMMA AttributesDiffer ==
    /\ StmtAttribute \cap (EnvAttribute \cup DbcAttribute \cup SyntheticAttribute) = {}
    /\ \A a \in StmtAttribute :
          /\ a.id = "cursor_type" => a \in {cursor_forward_only, cursor_static}
          /\ a.id = "cursor_scrollable" => a \in {nonscrollable, scrollable}
          /\ a.id = "concurrency" => a \in {concur_read_only, concur_lock}
BY DEF StmtAttribute, EnvAttribute, DbcAttribute, SyntheticAttribute, cursor_forward_only,
       cursor_static, nonscrollable, scrollable, concur_read_only, concur_lock, bookmarks, odbc3,
       mode_read_only, records_per_buffer_hint

(* Merging two lists that name every attribute once gives such a list.     *)
LEMMA MergeIsMap ==
    ASSUME NEW left \in SUBSET Attribute, NEW right \in SUBSET Attribute, IsMap(left), IsMap(right)
    PROVE  Merge(left, right) \in SUBSET Attribute /\ IsMap(Merge(left, right))
BY DEF Merge, IsMap

(* A request, and what is left of it when its head is done.                *)
LEMMA RangeLaw ==
    ASSUME NEW S, NEW todo \in Seq(S), todo # <<>>
    PROVE  /\ Head(todo) \in S
           /\ Tail(todo) \in Seq(S)
           /\ Range(todo) = {Head(todo)} \cup Range(Tail(todo))
<1>1. DOMAIN todo = 1 .. Len(todo) /\ Len(todo) \in Nat \ {0}
  OBVIOUS
<1>2. Head(todo) = todo[1] /\ Head(todo) \in S /\ Tail(todo) \in Seq(S)
  OBVIOUS
<1>3. \A i \in DOMAIN todo \ {1} : i - 1 \in DOMAIN Tail(todo) /\ Tail(todo)[i - 1] = todo[i]
  OBVIOUS
<1>4. \A i \in DOMAIN Tail(todo) : i + 1 \in DOMAIN todo /\ Tail(todo)[i] = todo[i + 1]
  OBVIOUS
<1>5. Range(todo) \subseteq {Head(todo)} \cup Range(Tail(todo))
  <2> SUFFICES ASSUME NEW i \in DOMAIN todo, todo[i] # Head(todo)
               PROVE  todo[i] \in Range(Tail(todo))
    BY DEF Range
  <2>1. i # 1
    BY <1>2
  <2> QED
    BY <1>3, <2>1 DEF Range
<1>6. {Head(todo)} \cup Range(Tail(todo)) \subseteq Range(todo)
  BY <1>1, <1>2, <1>4 DEF Range
<1> QED
  BY <1>2, <1>5, <1>6

(* What a caller asks for are attributes of the handle's type, each once.  *)
LEMMA RequestLaw ==
    ASSUME NEW type \in {"env", "dbc", "stmt"}, NEW request \in Requests(type)
    PROVE  /\ request \in Seq(Attribute) /\ Range(request) \subseteq Applicable(type)
           /\ Range(request) \in SUBSET Attribute /\ IsMap(Range(request))
<1>1. request \in Seq(Applicable(type)) /\ IsMap(Range(request))
  BY HandlesAssumption
<1>2. Applicable(type) \subseteq Attribute
  BY DEF Applicable, Attribute
<1>3. Range(request) \subseteq Applicable(type)
  BY <1>1 DEF Range
<1>4. request \in Seq(Attribute)
  BY <1>1, <1>2
<1> QED
  BY <1>1, <1>2, <1>3, <1>4

-----------------------------------------------------------------------------
(* No handle is there.                                                     *)
LEMMA InitEstablishesIInv == Init => IInv
<1> SUFFICES ASSUME Init PROVE IInv
  OBVIOUS
<1> USE DEF Init, DiagnosticsInit
<1>1. DiagnosticsTypeOK
  <2>1. message \in Seq(Entry) /\ rec \in 1 .. RecMax
    BY DiagnosticsAssumption
  <2> QED
    BY <2>1 DEF DiagnosticsTypeOK
<1>2. TypeOK
  BY <1>1 DEF TypeOK, FreshStatement
<1>3. RecordsInv /\ OwnerInv /\ OrderInv /\ ClaimsAreMaps /\ ClaimsInv
  BY DEF RecordsInv, OwnerInv, OrderInv, Owned, ClaimsAreMaps, ClaimsInv
<1>4. NothingElseLeaks
  BY DEF NothingElseLeaks, Leaks
<1> QED
  BY <1>2, <1>3, <1>4 DEF IInv

-----------------------------------------------------------------------------
(* Types.                                                                  *)
LEMMA ForgetLaw ==
    ASSUME TypeOK, NEW handles, Forget(handles)
    PROVE  /\ live' = live \ handles /\ cutOff' \subseteq Handle /\ behind' \subseteq Stmt
           /\ driver' \in [Stmt -> [scrolls : BOOLEAN, writes : BOOLEAN]]
<1>1. FreshStatement \in [scrolls : BOOLEAN, writes : BOOLEAN]
  BY DEF FreshStatement
<1> QED
  BY <1>1 DEF TypeOK, Forget

(* What setting an attribute leaves of a statement's cursor type.          *)
LEMMA EffectLaw ==
    ASSUME NEW statement \in [scrolls : BOOLEAN, writes : BOOLEAN], NEW a
    PROVE  /\ Effect(statement, a) \in [scrolls : BOOLEAN, writes : BOOLEAN]
           /\ Effect(statement, a).scrolls =
                 IF a \in {cursor_forward_only, nonscrollable} THEN FALSE
                 ELSE IF a \in {cursor_static, scrollable} THEN TRUE ELSE statement.scrolls
BY DEF Effect, cursor_forward_only, nonscrollable, cursor_static, scrollable

(* The tree of handles, and how their types tell them apart.               *)
LEMMA ParentLaw ==
    /\ \A s \in Stmt : s \notin Env /\ s \notin Dbc /\ Parent[s] \in Dbc
    /\ \A d \in Dbc : d \notin Env /\ d \notin Stmt /\ Parent[d] \in Env
    /\ Handle = Env \cup Dbc \cup Stmt
    /\ \A h \in Handle : TypeOf(h) \in {"env", "dbc", "stmt"}
    /\ \A h \in Env : TypeOf(h) = "env"
    /\ \A h \in Handle : (h \in Stmt <=> TypeOf(h) = "stmt") /\ (h \in Dbc <=> TypeOf(h) = "dbc")
BY HandlesAssumption DEF Handle, TypeOf

(* A setup that begins.                                                    *)
LEMMA BeginLaw ==
    ASSUME NEW h \in Handle, NEW request \in Requests(TypeOf(h)), NEW claims \in SUBSET Attribute,
           NEW from \in SUBSET Owner, Begin(h, claims, request, from)
    PROVE  \E x \in Setup : /\ setup' = {x} /\ x.handle = h /\ x.from = from /\ x.todo = request
                            /\ x.claims = Merge(claims, Range(request))
<1> DEFINE x == [handle |-> h, claims |-> Merge(claims, Range(request)), todo |-> request,
                 from |-> from]
<1>1. request \in Seq(Attribute) /\ Range(request) \in SUBSET Attribute
  BY RequestLaw, ParentLaw
<1>2. Merge(claims, Range(request)) \in SUBSET Attribute
  BY <1>1 DEF Merge
<1>3. x \in Setup
  BY <1>1, <1>2 DEF Setup
<1> QED
  BY <1>3 DEF Begin

(* The loop over the records keeps its type.                               *)
LEMMA DiagnosticsKeepType ==
    ASSUME DiagnosticsTypeOK, RecordsInv,
           CallFails \/ Collect \/ Throw \/ UNCHANGED diagnostics
    PROVE  DiagnosticsTypeOK'
<1> USE DiagnosticsAssumption
<1>1. CASE CallFails
  BY <1>1 DEF CallFails, DiagnosticsTypeOK
<1>2. CASE Collect
  <2>1. rec <= Len(records) /\ records \in RecordLists /\ rec \in 1 .. Len(records) + 1
    BY <1>2 DEF Collect, Answer, RecordsInv
  <2>2. Len(records) < RecMax /\ Len(records) \in Nat
    BY <2>1
  <2>3. rec' = rec + 1 /\ rec' \in 1 .. RecMax
    BY <1>2, <2>1, <2>2 DEF Collect
  <2>4. [rec |-> rec, text |-> Answer = "text"] \in Entry
    BY <2>1 DEF Entry
  <2>5. message' \in Seq(Entry)
    BY <1>2, <2>4 DEF Collect, DiagnosticsTypeOK
  <2> QED
    BY <1>2, <2>3, <2>5 DEF Collect, DiagnosticsTypeOK
<1>3. CASE Throw
  <2>1. message' \in Seq(Entry) /\ rec' \in 1 .. RecMax
    BY <1>3 DEF Throw
  <2> QED
    BY <1>3, <2>1 DEF Throw, DiagnosticsTypeOK
<1>4. CASE UNCHANGED diagnostics
  BY <1>4 DEF diagnostics, DiagnosticsTypeOK
<1> QED
  BY <1>1, <1>2, <1>3, <1>4

(* The loop over the records goes on as it began.                          *)
LEMMA RecordsKept ==
    ASSUME DiagnosticsTypeOK, RecordsInv,
           CallFails \/ Collect \/ Throw \/ UNCHANGED diagnostics
    PROVE  RecordsInv'
<1> USE DiagnosticsAssumption DEF RecordsInv
<1>1. CASE CallFails
  <2>1. [i \in 1 .. 0 |-> [rec |-> i, text |-> records'[i] = "text"]] = <<>>
    OBVIOUS
  <2>2. records' \in RecordLists /\ Len(records') \in Nat
    BY <1>1 DEF CallFails
  <2> QED
    BY <1>1, <2>1, <2>2 DEF CallFails
<1>2. CASE Collect
  <2>1. rec <= Len(records) /\ records \in RecordLists /\ rec \in 1 .. Len(records) + 1
    BY <1>2 DEF Collect, Answer
  <2>2. Len(records) < RecMax /\ Len(records) \in Nat
    BY <2>1
  <2>3. rec' = rec + 1 /\ records' = records /\ reporting' /\ Answer = records[rec]
    BY <1>2, <2>1, <2>2 DEF Collect, Answer
  <2>4. message = [i \in 1 .. rec - 1 |-> [rec |-> i, text |-> records[i] = "text"]]
    BY <1>2 DEF Collect
  <2>5. message' = Append(message, [rec |-> rec, text |-> records[rec] = "text"])
    BY <1>2, <2>3 DEF Collect
  <2>6. message' = [i \in 1 .. rec |-> [rec |-> i, text |-> records[i] = "text"]]
    BY <2>1, <2>2, <2>4, <2>5
  <2> QED
    BY <2>1, <2>2, <2>3, <2>6
<1>3. CASE Throw
  BY <1>3 DEF Throw
<1>4. CASE UNCHANGED diagnostics
  BY <1>4 DEF diagnostics
<1> QED
  BY <1>1, <1>2, <1>3, <1>4

(* A setup that goes on.                                                   *)
LEMMA TailLaw ==
    ASSUME NEW x \in Setup, x.todo # <<>>, NEW y, y = [x EXCEPT !.todo = Tail(@)]
    PROVE  /\ y \in Setup /\ y.handle = x.handle /\ y.claims = x.claims /\ y.from = x.from
           /\ y.todo = Tail(x.todo)
           /\ Range(x.todo) = {Head(x.todo)} \cup Range(y.todo)
<1>1. x.todo \in Seq(Attribute)
  BY DEF Setup
<1> QED
  BY <1>1, RangeLaw DEF Setup

(* Every step keeps all types.                                             *)
LEMMA NextKeepsType ==
    ASSUME TypeOK, RecordsInv, Next
    PROVE  TypeOK'
<1> DEFINE Kept == /\ live' \subseteq Handle /\ connected' \subseteq Dbc \cap live'
                   /\ inTransaction' \subseteq connected'
                   /\ driver' \in [Stmt -> [scrolls : BOOLEAN, writes : BOOLEAN]]
                   /\ cutOff' \subseteq Handle /\ behind' \subseteq Stmt
           Flags == disorder' \in BOOLEAN /\ misused' \in BOOLEAN
           Holders == /\ owners' \subseteq Owner /\ \A x, y \in setup' : x = y
                      /\ \A x \in setup' : x \in Setup /\ x.handle \in live'
           Goal == Kept /\ Flags /\ Holders /\ DiagnosticsTypeOK'
<1> SUFFICES Goal
  BY DEF TypeOK
<1> HIDE DEF Goal
<1>1. /\ live \subseteq Handle /\ connected \subseteq Dbc \cap live
      /\ inTransaction \subseteq connected
      /\ driver \in [Stmt -> [scrolls : BOOLEAN, writes : BOOLEAN]]
      /\ cutOff \subseteq Handle /\ behind \subseteq Stmt
  BY DEF TypeOK
<1>2. /\ disorder \in BOOLEAN /\ misused \in BOOLEAN
      /\ owners \subseteq Owner /\ \A x, y \in setup : x = y
      /\ \A x \in setup : x \in Setup /\ x.handle \in live
      /\ DiagnosticsTypeOK
  BY DEF TypeOK
<1>3. ASSUME UNCHANGED diagnostics PROVE DiagnosticsTypeOK'
  BY <1>2, <1>3, DiagnosticsKeepType
<1>4. /\ {} \in SUBSET Attribute /\ {} \in SUBSET Owner
      /\ \A o \in owners : o.handle \in Handle /\ o.claims \in SUBSET Attribute /\ {o} \in SUBSET Owner
  BY <1>2 DEF Owner
<1>5. ASSUME NEW h \in Env, AllocateEnvThrows(h) PROVE Goal
  <2>1. Kept
    BY <1>5, <1>1, <1>2, ParentLaw DEF AllocateEnvThrows
  <2>2. Flags
    BY <1>5, <1>1, <1>2 DEF AllocateEnvThrows
  <2>3. Holders
    BY <1>5, <1>1, <1>2 DEF AllocateEnvThrows, Idle
  <2>4. DiagnosticsTypeOK'
    BY <1>5, <1>1, <1>2, <1>3 DEF AllocateEnvThrows
  <2> QED
    BY <2>1, <2>2, <2>3, <2>4 DEF Goal
<1>6. ASSUME NEW h \in Env, NEW r \in Requests("env"), AllocateEnv(h, r) PROVE Goal
  <2>0. PICK y \in Setup : setup' = {y} /\ y.handle = h
    <3>1. h \in Handle /\ r \in Requests(TypeOf(h))
      BY <1>6, <1>4, ParentLaw
    <3>2. Begin(h, {}, r, {})
      BY <1>6 DEF AllocateEnv
    <3>3. \E x \in Setup : /\ setup' = {x} /\ x.handle = h /\ x.from = {} /\ x.todo = r
                           /\ x.claims = Merge({}, Range(r))
      BY <3>1, <3>2, BeginLaw
    <3> QED
      BY <3>3
  <2>1. Kept
    BY <1>6, <1>1, <1>2, ParentLaw DEF AllocateEnv
  <2>2. Flags
    BY <1>6, <1>1, <1>2 DEF AllocateEnv
  <2>3. Holders
    BY <1>6, <1>1, <1>2, <2>0 DEF AllocateEnv
  <2>4. DiagnosticsTypeOK'
    BY <1>6, <1>1, <1>2, <1>3 DEF AllocateEnv
  <2> QED
    BY <2>1, <2>2, <2>3, <2>4 DEF Goal
<1>7. ASSUME NEW o \in owners, NEW h \in Dbc \cup Stmt, NEW r \in Requests(TypeOf(h)), Allocate(o, h, r)
      PROVE Goal
  <2>0. PICK y \in Setup : setup' = {y} /\ y.handle = h
    <3>1. h \in Handle /\ r \in Requests(TypeOf(h))
      BY <1>7, <1>4, ParentLaw
    <3>2. Begin(h, o.claims, r, {})
      BY <1>7 DEF Allocate
    <3>3. o.claims \in SUBSET Attribute
      BY <1>4
    <3>4. \E x \in Setup : /\ setup' = {x} /\ x.handle = h /\ x.from = {} /\ x.todo = r
                           /\ x.claims = Merge(o.claims, Range(r))
      BY <3>1, <3>2, <3>3, BeginLaw
    <3> QED
      BY <3>4
  <2>1. Kept
    BY <1>7, <1>1, <1>2, ParentLaw DEF Allocate
  <2>2. Flags
    BY <1>7, <1>1, <1>2 DEF Allocate
  <2>3. Holders
    BY <1>7, <1>1, <1>2, <2>0 DEF Allocate
  <2>4. DiagnosticsTypeOK'
    BY <1>7, <1>1, <1>2, <1>3 DEF Allocate
  <2> QED
    BY <2>1, <2>2, <2>3, <2>4 DEF Goal
<1>8. ASSUME NEW o \in owners, NEW r \in Requests(TypeOf(o.handle)), Set(o, r) PROVE Goal
  <2>0. PICK y \in Setup : setup' = {y} /\ y.handle = o.handle
    <3>1. o.handle \in Handle /\ r \in Requests(TypeOf(o.handle))
      BY <1>8, <1>4, ParentLaw
    <3>2. Begin(o.handle, o.claims, r, {o})
      BY <1>8 DEF Set
    <3> QED
      BY <3>1, <3>2, <1>4, BeginLaw
  <2>1. Kept
    BY <1>8, <1>1, <1>2 DEF Set
  <2>2. Flags
    BY <1>8, <1>1, <1>2 DEF Set
  <2>3. Holders
    BY <1>8, <1>1, <1>2, <2>0 DEF Set
  <2>4. DiagnosticsTypeOK'
    BY <1>8, <1>1, <1>2, <1>3 DEF Set
  <2> QED
    BY <2>1, <2>2, <2>3, <2>4 DEF Goal
<1>9. ASSUME NEW o \in owners, NEW claims \in LesserTypes, Narrow(o, claims) PROVE Goal
  <2>1. Kept
    BY <1>9, <1>1, <1>2 DEF Narrow
  <2>2. Flags
    BY <1>9, <1>1, <1>2 DEF Narrow
  <2>3. Holders
    BY <1>9, <1>1, <1>2, HandlesAssumption DEF Narrow, Idle, Owner
  <2>4. DiagnosticsTypeOK'
    BY <1>9, <1>1, <1>2, <1>3 DEF Narrow
  <2> QED
    BY <2>1, <2>2, <2>3, <2>4 DEF Goal
<1>10. ASSUME NEW o \in owners, Connect(o) PROVE Goal
  <2>1. Kept
    BY <1>10, <1>1, <1>2 DEF Connect
  <2>2. Flags
    BY <1>10, <1>1, <1>2 DEF Connect
  <2>3. Holders
    BY <1>10, <1>1, <1>2 DEF Connect
  <2>4. DiagnosticsTypeOK'
    BY <1>10, <1>1, <1>2, <1>3 DEF Connect
  <2> QED
    BY <2>1, <2>2, <2>3, <2>4 DEF Goal
<1>11. ASSUME NEW o \in owners, Disconnect(o) PROVE Goal
  <2>0. ASSUME NEW hs, Forget(hs)
        PROVE  /\ live' = live \ hs /\ cutOff' \subseteq Handle /\ behind' \subseteq Stmt
               /\ driver' \in [Stmt -> [scrolls : BOOLEAN, writes : BOOLEAN]]
    BY <2>0, ForgetLaw
  <2>1. Kept
    BY <1>11, <1>1, <1>2, <2>0, ParentLaw DEF Disconnect, FreedWith, Children
  <2>2. Flags
    BY <1>11, <1>1, <1>2 DEF Disconnect
  <2>3. Holders
    BY <1>11, <1>1, <1>2, <2>0 DEF Disconnect, Idle
  <2>4. DiagnosticsTypeOK'
    BY <1>11, <1>1, <1>2, <1>3 DEF Disconnect
  <2> QED
    BY <2>1, <2>2, <2>3, <2>4 DEF Goal
<1>12. ASSUME NEW o \in owners, FreeDead(o) \/ UseFreed(o) PROVE Goal
  <2>1. Kept
    BY <1>12, <1>1, <1>2 DEF FreeDead, UseFreed, CallInvalid
  <2>2. Flags
    BY <1>12, <1>1, <1>2 DEF FreeDead, UseFreed, CallInvalid
  <2>3. Holders
    BY <1>12, <1>1, <1>2 DEF FreeDead, UseFreed, CallInvalid
  <2>4. DiagnosticsTypeOK'
    BY <1>12, <1>1, <1>2, <1>3 DEF FreeDead, UseFreed, CallInvalid
  <2> QED
    BY <2>1, <2>2, <2>3, <2>4 DEF Goal
<1>13. ASSUME NEW o \in owners, FreeStmt(o) PROVE Goal
  <2>0. ASSUME NEW hs, Forget(hs)
        PROVE  /\ live' = live \ hs /\ cutOff' \subseteq Handle /\ behind' \subseteq Stmt
               /\ driver' \in [Stmt -> [scrolls : BOOLEAN, writes : BOOLEAN]]
    BY <2>0, ForgetLaw
  <2>1. Kept
    BY <1>13, <1>1, <1>2, <2>0, ParentLaw DEF FreeStmt
  <2>2. Flags
    BY <1>13, <1>1, <1>2 DEF FreeStmt
  <2>3. Holders
    BY <1>13, <1>1, <1>2, <2>0 DEF FreeStmt, Idle
  <2>4. DiagnosticsTypeOK'
    BY <1>13, <1>1, <1>2, <1>3 DEF FreeStmt
  <2> QED
    BY <2>1, <2>2, <2>3, <2>4 DEF Goal
<1>14. ASSUME NEW o \in owners, FreeDbc(o) PROVE Goal
  <2>0. ASSUME NEW hs, Forget(hs)
        PROVE  /\ live' = live \ hs /\ cutOff' \subseteq Handle /\ behind' \subseteq Stmt
               /\ driver' \in [Stmt -> [scrolls : BOOLEAN, writes : BOOLEAN]]
    BY <2>0, ForgetLaw
  <2>1. Kept
    BY <1>14, <1>1, <1>2, <2>0, <1>4, ParentLaw DEF FreeDbc, FreedWith, Children
  <2>2. Flags
    BY <1>14, <1>1, <1>2 DEF FreeDbc
  <2>3. Holders
    BY <1>14, <1>1, <1>2, <2>0 DEF FreeDbc, Idle
  <2>4. DiagnosticsTypeOK'
    BY <1>14, <1>1, <1>2, <1>3 DEF FreeDbc
  <2> QED
    BY <2>1, <2>2, <2>3, <2>4 DEF Goal
<1>15. ASSUME NEW o \in owners, FreeEnv(o) PROVE Goal
  <2>0. ASSUME NEW hs, Forget(hs)
        PROVE  /\ live' = live \ hs /\ cutOff' \subseteq Handle /\ behind' \subseteq Stmt
               /\ driver' \in [Stmt -> [scrolls : BOOLEAN, writes : BOOLEAN]]
    BY <2>0, ForgetLaw
  <2>1. Kept
    BY <1>15, <1>1, <1>2, <2>0, ParentLaw DEF FreeEnv, Children
  <2>2. Flags
    BY <1>15, <1>1, <1>2 DEF FreeEnv
  <2>3. Holders
    BY <1>15, <1>1, <1>2, <2>0 DEF FreeEnv, Idle
  <2>4. DiagnosticsTypeOK'
    BY <1>15, <1>1, <1>2, <1>3 DEF FreeEnv
  <2> QED
    BY <2>1, <2>2, <2>3, <2>4 DEF Goal
<1>16. ASSUME NEW x \in setup, SetAttributeSubstituted(x) PROVE Goal
  <2>1. Kept
    BY <1>16, <1>1, <1>2 DEF SetAttributeSubstituted
  <2>2. Flags
    BY <1>16, <1>1, <1>2 DEF SetAttributeSubstituted
  <2>3. Holders
    BY <1>16, <1>1, <1>2, TailLaw DEF SetAttributeSubstituted
  <2>4. DiagnosticsTypeOK'
    BY <1>16, <1>1, <1>2, <1>3 DEF SetAttributeSubstituted
  <2> QED
    BY <2>1, <2>2, <2>3, <2>4 DEF Goal
<1>17. ASSUME NEW x \in setup, SetAttributeFails(x) PROVE Goal
  <2>1. Kept
    BY <1>17, <1>1, <1>2 DEF SetAttributeFails, handleVars
  <2>2. Flags
    BY <1>17, <1>1, <1>2 DEF SetAttributeFails, handleVars
  <2>3. Holders
    BY <1>17, <1>1, <1>2 DEF SetAttributeFails, handleVars
  <2>4. DiagnosticsTypeOK'
    BY <1>17, <1>1, <1>2, DiagnosticsKeepType DEF SetAttributeFails
  <2> QED
    BY <2>1, <2>2, <2>3, <2>4 DEF Goal
<1>18. ASSUME NEW d \in Dbc, Work(d) PROVE Goal
  <2>1. Kept
    BY <1>18, <1>1, <1>2 DEF Work
  <2>2. Flags
    BY <1>18, <1>1, <1>2 DEF Work
  <2>3. Holders
    BY <1>18, <1>1, <1>2 DEF Work
  <2>4. DiagnosticsTypeOK'
    BY <1>18, <1>1, <1>2, <1>3 DEF Work
  <2> QED
    BY <2>1, <2>2, <2>3, <2>4 DEF Goal
<1>19. CASE Refused
  <2>1. Kept
    BY <1>19, <1>1, <1>2 DEF Refused, handleVars
  <2>2. Flags
    BY <1>19, <1>1, <1>2 DEF Refused, handleVars
  <2>3. Holders
    BY <1>19, <1>1, <1>2 DEF Refused, handleVars
  <2>4. DiagnosticsTypeOK'
    BY <1>19, <1>1, <1>2, DiagnosticsKeepType DEF Refused
  <2> QED
    BY <2>1, <2>2, <2>3, <2>4 DEF Goal
<1>20. ASSUME NEW x \in setup, SetAttribute(x) PROVE Goal
  <2>1. Kept
    BY <1>20, <1>1, <1>2, EffectLaw DEF SetAttribute
  <2>2. Flags
    BY <1>20, <1>1, <1>2 DEF SetAttribute
  <2>3. Holders
    BY <1>20, <1>1, <1>2, TailLaw DEF SetAttribute
  <2>4. DiagnosticsTypeOK'
    BY <1>20, <1>1, <1>2, <1>3 DEF SetAttribute
  <2> QED
    BY <2>1, <2>2, <2>3, <2>4 DEF Goal
<1>21. ASSUME NEW x \in setup, SetupDone(x) PROVE Goal
  <2>1. Kept
    BY <1>21, <1>1, <1>2 DEF SetupDone
  <2>2. Flags
    BY <1>21, <1>1, <1>2 DEF SetupDone
  <2>3. Holders
    BY <1>21, <1>1, <1>2 DEF SetupDone, Setup, Owner
  <2>4. DiagnosticsTypeOK'
    BY <1>21, <1>1, <1>2, <1>3 DEF SetupDone
  <2> QED
    BY <2>1, <2>2, <2>3, <2>4 DEF Goal
<1>22. CASE CollectRecord
  <2>1. Kept
    BY <1>22, <1>1, <1>2 DEF CollectRecord, handleVars
  <2>2. Flags
    BY <1>22, <1>1, <1>2 DEF CollectRecord, handleVars
  <2>3. Holders
    BY <1>22, <1>1, <1>2 DEF CollectRecord, handleVars
  <2>4. DiagnosticsTypeOK'
    BY <1>22, <1>1, <1>2, DiagnosticsKeepType DEF CollectRecord
  <2> QED
    BY <2>1, <2>2, <2>3, <2>4 DEF Goal
<1>23. CASE ThrowFromCall
  <2>1. Kept
    BY <1>23, <1>1, <1>2 DEF ThrowFromCall, Setup
  <2>2. Flags
    BY <1>23, <1>1, <1>2 DEF ThrowFromCall
  <2>3. Holders
    BY <1>23, <1>1, <1>2 DEF ThrowFromCall
  <2>4. DiagnosticsTypeOK'
    BY <1>23, <1>1, <1>2, DiagnosticsKeepType DEF ThrowFromCall
  <2> QED
    BY <2>1, <2>2, <2>3, <2>4 DEF Goal
<1> QED
  BY <1>5, <1>6, <1>7, <1>8, <1>9, <1>10, <1>11, <1>12, <1>13, <1>14, <1>15, <1>16, <1>17,
     <1>18, <1>19, <1>20, <1>21, <1>22, <1>23 DEF Next, GoOn

(* What a step does to the loop over the records.                          *)
LEMMA StepsOfTheLoop == Next => CallFails \/ Collect \/ Throw \/ UNCHANGED diagnostics
BY DEF Next, GoOn, AllocateEnvThrows, AllocateEnv, Allocate, Set, Narrow, Connect, Disconnect,
       FreeDead, UseFreed, CallInvalid, FreeStmt, FreeDbc, FreeEnv, SetAttributeSubstituted,
       SetAttributeFails, Work, Refused, SetAttribute, SetupDone, CollectRecord, ThrowFromCall

(* Owners and what they hold.                                              *)
LEMMA NextKeepsOwners ==
    ASSUME TypeOK, OwnerInv, Next
    PROVE  OwnerInv'
<1>0. /\ {} \in SUBSET Attribute /\ {} \in SUBSET Owner
      /\ \A o \in owners : o.handle \in Handle /\ o.claims \in SUBSET Attribute /\ {o} \in SUBSET Owner
      /\ \A x \in setup : x \in Setup /\ x.handle \in live
      /\ \A x, y \in setup : x = y
  BY DEF TypeOK, Owner
<1>1. ASSUME NEW h \in Env, AllocateEnvThrows(h) PROVE OwnerInv'
  BY <1>1, <1>0 DEF OwnerInv, Owned, Idle, handleVars, AllocateEnvThrows
<1>2. ASSUME NEW h \in Env, NEW r \in Requests("env"), AllocateEnv(h, r) PROVE OwnerInv'
  <2>0. PICK y \in Setup : /\ setup' = {y} /\ y.handle = h /\ y.from = {} /\ y.todo = r
                           /\ y.claims = Merge({}, Range(r))
    <3>1. h \in Handle /\ r \in Requests(TypeOf(h))
      BY <1>2, <1>0, ParentLaw
    <3>2. Begin(h, {}, r, {})
      BY <1>2 DEF AllocateEnv
    <3> QED
      BY <3>1, <3>2, <1>0, BeginLaw
  <2> QED
    BY <1>2, <1>0, <2>0 DEF OwnerInv, Owned, Idle, Fresh, AllocateEnv
<1>3. ASSUME NEW o \in owners, NEW h \in Dbc \cup Stmt, NEW r \in Requests(TypeOf(h)), Allocate(o, h, r)
      PROVE OwnerInv'
  <2>0. PICK y \in Setup : /\ setup' = {y} /\ y.handle = h /\ y.from = {} /\ y.todo = r
                           /\ y.claims = Merge(o.claims, Range(r))
    <3>1. h \in Handle /\ r \in Requests(TypeOf(h))
      BY <1>3, <1>0, ParentLaw
    <3>2. Begin(h, o.claims, r, {})
      BY <1>3 DEF Allocate
    <3> QED
      BY <3>1, <3>2, <1>0, BeginLaw
  <2> QED
    BY <1>3, <1>0, <2>0 DEF OwnerInv, Owned, Idle, Fresh, Allocate
<1>4. ASSUME NEW o \in owners, NEW r \in Requests(TypeOf(o.handle)), Set(o, r) PROVE OwnerInv'
  <2>0. PICK y \in Setup : /\ setup' = {y} /\ y.handle = o.handle /\ y.from = {o} /\ y.todo = r
                           /\ y.claims = Merge(o.claims, Range(r))
    <3>1. o.handle \in Handle /\ r \in Requests(TypeOf(o.handle))
      BY <1>4, <1>0, ParentLaw
    <3>2. Begin(o.handle, o.claims, r, {o})
      BY <1>4 DEF Set
    <3> QED
      BY <3>1, <3>2, <1>0, BeginLaw
  <2> QED
    BY <1>4, <1>0, <2>0 DEF OwnerInv, Owned, Idle, Fresh, Set
<1>5. ASSUME NEW o \in owners, NEW claims \in LesserTypes, Narrow(o, claims) PROVE OwnerInv'
  <2>1. [o EXCEPT !.claims = claims].handle = o.handle
    BY <1>0 DEF TypeOK, Owner
  <2>2. PICK n : n.handle = o.handle /\ owners' = (owners \ {o}) \cup {n} /\ setup' = {}
    BY <1>5, <2>1 DEF Narrow, Idle
  <2> QED
    BY <2>2 DEF OwnerInv
<1>6. ASSUME NEW o \in owners, Connect(o) PROVE OwnerInv'
  BY <1>6, <1>0 DEF OwnerInv, Owned, Idle, handleVars, Connect
<1>7. ASSUME NEW o \in owners, Disconnect(o) PROVE OwnerInv'
  BY <1>7, <1>0 DEF OwnerInv, Owned, Idle, handleVars, Disconnect
<1>8. ASSUME NEW o \in owners, FreeDead(o) \/ UseFreed(o) PROVE OwnerInv'
  BY <1>8, <1>0 DEF OwnerInv, Owned, Idle, handleVars, FreeDead, UseFreed, CallInvalid
<1>9. ASSUME NEW o \in owners, FreeStmt(o) PROVE OwnerInv'
  BY <1>9, <1>0 DEF OwnerInv, Owned, Idle, handleVars, FreeStmt
<1>10. ASSUME NEW o \in owners, FreeDbc(o) PROVE OwnerInv'
  BY <1>10, <1>0 DEF OwnerInv, Owned, Idle, handleVars, FreeDbc
<1>11. ASSUME NEW o \in owners, FreeEnv(o) PROVE OwnerInv'
  BY <1>11, <1>0 DEF OwnerInv, Owned, Idle, handleVars, FreeEnv
<1>12. ASSUME NEW x \in setup, SetAttributeSubstituted(x) PROVE OwnerInv'
  <2>0. PICK y \in Setup : /\ setup' = {y} /\ y.handle = x.handle /\ y.claims = x.claims
                           /\ y.from = x.from /\ y.todo = Tail(x.todo)
                           /\ Range(x.todo) = {Head(x.todo)} \cup Range(y.todo)
    BY <1>12, <1>0, TailLaw DEF SetAttributeSubstituted
  <2> QED
    BY <1>12, <1>0, <2>0 DEF OwnerInv, Owned, SetAttributeSubstituted
<1>13. ASSUME NEW x \in setup, SetAttributeFails(x) PROVE OwnerInv'
  BY <1>13, <1>0 DEF OwnerInv, Owned, Idle, handleVars, SetAttributeFails
<1>14. ASSUME NEW d \in Dbc, Work(d) PROVE OwnerInv'
  BY <1>14, <1>0 DEF OwnerInv, Owned, Idle, handleVars, Work
<1>15. CASE Refused
  BY <1>15, <1>0 DEF OwnerInv, Owned, Idle, handleVars, Refused
<1>16. ASSUME NEW x \in setup, SetAttribute(x) PROVE OwnerInv'
  <2>0. PICK y \in Setup : /\ setup' = {y} /\ y.handle = x.handle /\ y.claims = x.claims
                           /\ y.from = x.from /\ y.todo = Tail(x.todo)
                           /\ Range(x.todo) = {Head(x.todo)} \cup Range(y.todo)
    BY <1>16, <1>0, TailLaw DEF SetAttribute
  <2> QED
    BY <1>16, <1>0, <2>0 DEF OwnerInv, Owned, SetAttribute
<1>17. ASSUME NEW x \in setup, SetupDone(x) PROVE OwnerInv'
  <2>0. /\ setup' = {}
        /\ owners' = (owners \ x.from) \cup {[handle |-> x.handle, claims |-> x.claims]}
    BY <1>17 DEF SetupDone
  <2>1. \A p \in owners \ x.from : p.handle # x.handle
    BY DEF OwnerInv, Owned
  <2> QED
    BY <2>0, <2>1 DEF OwnerInv
<1>18. CASE CollectRecord
  BY <1>18, <1>0 DEF OwnerInv, Owned, Idle, handleVars, CollectRecord
<1>19. CASE ThrowFromCall
  BY <1>19, <1>0 DEF OwnerInv, Owned, Idle, handleVars, ThrowFromCall
<1> QED
  BY <1>1, <1>2, <1>3, <1>4, <1>5, <1>6, <1>7, <1>8, <1>9, <1>10, <1>11, <1>12, <1>13, <1>14,
     <1>15, <1>16, <1>17, <1>18, <1>19 DEF Next, GoOn

(* In good order no owner is left behind with a handle that is gone.       *)
LEMMA NextKeepsOrder ==
    ASSUME TypeOK, OwnerInv, OrderInv, Next
    PROVE  OrderInv'
<1>0. /\ {} \in SUBSET Attribute /\ {} \in SUBSET Owner
      /\ \A o \in owners : o.handle \in Handle /\ o.claims \in SUBSET Attribute /\ {o} \in SUBSET Owner
      /\ \A x \in setup : x \in Setup /\ x.handle \in live
      /\ \A x, y \in setup : x = y
  BY DEF TypeOK, Owner
<1>1. ASSUME NEW h \in Env, AllocateEnvThrows(h) PROVE OrderInv'
  BY <1>1, <1>0 DEF OrderInv, Owned, handleVars, AllocateEnvThrows
<1>2. ASSUME NEW h \in Env, NEW r \in Requests("env"), AllocateEnv(h, r) PROVE OrderInv'
  BY <1>2, <1>0 DEF OrderInv, Owned, handleVars, AllocateEnv
<1>3. ASSUME NEW o \in owners, NEW h \in Dbc \cup Stmt, NEW r \in Requests(TypeOf(h)), Allocate(o, h, r)
      PROVE OrderInv'
  BY <1>3, <1>0 DEF OrderInv, Owned, handleVars, Allocate
<1>4. ASSUME NEW o \in owners, NEW r \in Requests(TypeOf(o.handle)), Set(o, r) PROVE OrderInv'
  BY <1>4, <1>0 DEF OrderInv, Owned, handleVars, Set
<1>5. ASSUME NEW o \in owners, NEW claims \in LesserTypes, Narrow(o, claims) PROVE OrderInv'
  <2>0. owners' = (owners \ {o}) \cup {[o EXCEPT !.claims = claims]}
    BY <1>5 DEF Narrow
  <2>1. [o EXCEPT !.claims = claims].handle = o.handle
    BY <1>0 DEF TypeOK, Owner
  <2>2. Owned' = Owned
    BY <2>0, <2>1 DEF Owned
  <2> QED
    BY <1>5, <2>2 DEF Narrow, OrderInv
<1>6. ASSUME NEW o \in owners, Connect(o) PROVE OrderInv'
  BY <1>6, <1>0 DEF OrderInv, Owned, handleVars, Connect
<1>7. ASSUME NEW o \in owners, Disconnect(o) PROVE OrderInv'
  BY <1>7, <1>0, ParentLaw DEF OrderInv, Owned, OwnerInv, Forget, FreedWith, Children,
     Disconnect
<1>8. ASSUME NEW o \in owners, FreeDead(o) \/ UseFreed(o) PROVE OrderInv'
  BY <1>8, <1>0 DEF OrderInv, Owned, handleVars, FreeDead, UseFreed, CallInvalid
<1>9. ASSUME NEW o \in owners, FreeStmt(o) PROVE OrderInv'
  BY <1>9, <1>0, ParentLaw DEF OrderInv, Owned, OwnerInv, Forget, FreedWith, Children,
     FreeStmt
<1>10. ASSUME NEW o \in owners, FreeDbc(o) PROVE OrderInv'
  <2>1. live \ ({o.handle} \cup Children(o.handle)) \subseteq live'
    BY <1>10 DEF FreeDbc, Forget, FreedWith
  <2>2. ~disorder' => ~disorder /\ Children(o.handle) \cap Owned = {}
    BY <1>10 DEF FreeDbc
  <2>3. Owned' = Owned \ {o.handle} /\ misused' = misused
    BY <1>10 DEF FreeDbc, Owned, OwnerInv
  <2> QED
    BY <2>1, <2>2, <2>3 DEF OrderInv
<1>11. ASSUME NEW o \in owners, FreeEnv(o) PROVE OrderInv'
  <2>1. live \ ({o.handle} \cup Children(o.handle)) \subseteq live'
    BY <1>11 DEF FreeEnv, Forget, FreedWith
  <2>2. ~disorder' => ~disorder /\ Children(o.handle) \cap Owned = {}
    BY <1>11 DEF FreeEnv
  <2>3. Owned' = Owned \ {o.handle} /\ misused' = misused
    BY <1>11 DEF FreeEnv, Owned, OwnerInv
  <2> QED
    BY <2>1, <2>2, <2>3 DEF OrderInv
<1>12. ASSUME NEW x \in setup, SetAttributeSubstituted(x) PROVE OrderInv'
  BY <1>12, <1>0 DEF OrderInv, Owned, handleVars, SetAttributeSubstituted
<1>13. ASSUME NEW x \in setup, SetAttributeFails(x) PROVE OrderInv'
  BY <1>13, <1>0 DEF OrderInv, Owned, handleVars, SetAttributeFails
<1>14. ASSUME NEW d \in Dbc, Work(d) PROVE OrderInv'
  BY <1>14, <1>0 DEF OrderInv, Owned, handleVars, Work
<1>15. CASE Refused
  BY <1>15, <1>0 DEF OrderInv, Owned, handleVars, Refused
<1>16. ASSUME NEW x \in setup, SetAttribute(x) PROVE OrderInv'
  BY <1>16, <1>0 DEF OrderInv, Owned, handleVars, SetAttribute
<1>17. ASSUME NEW x \in setup, SetupDone(x) PROVE OrderInv'
  BY <1>17, <1>0 DEF OrderInv, Owned, handleVars, SetupDone
<1>18. CASE CollectRecord
  BY <1>18, <1>0 DEF OrderInv, Owned, handleVars, CollectRecord
<1>19. CASE ThrowFromCall
  BY <1>19, <1>0 DEF OrderInv, Owned, handleVars, ThrowFromCall
<1> QED
  BY <1>1, <1>2, <1>3, <1>4, <1>5, <1>6, <1>7, <1>8, <1>9, <1>10, <1>11, <1>12, <1>13, <1>14,
     <1>15, <1>16, <1>17, <1>18, <1>19 DEF Next, GoOn

(* What a step may do to leaks: none comes but for a known reason, none    *)
(* goes but with its reason.                                               *)
LEMMA LeaksLaw ==
    ASSUME NothingElseLeaks,
           ~disorder' => ~disorder,
           \A h \in Handle : Leaks(h)' /\ ~disorder' =>
              Leaks(h) \/ h \in cutOff' \/ \E c \in Children(h) : Leaks(c)',
           \A h \in Handle : Leaks(h)' /\ h \in cutOff => h \in cutOff',
           \A h \in Handle : \A c \in Children(h) : Leaks(h)' /\ Leaks(c) => Leaks(c)'
    PROVE  NothingElseLeaks'
BY DEF NothingElseLeaks

(* A step that makes nothing leak but what it cuts off, and ends no leak.  *)
LEMMA SameLeaksLaw ==
    ASSUME NothingElseLeaks, disorder' = disorder, cutOff \subseteq cutOff',
           \A h \in Handle : Leaks(h)' => Leaks(h) \/ h \in cutOff',
           \A h \in Handle : Leaks(h) => Leaks(h)'
    PROVE  NothingElseLeaks'
<1>1. \A h \in Handle : Children(h) \subseteq Handle
  BY DEF Children, Handle
<1> QED
  BY <1>1, LeaksLaw

(* The reasons for leaks.                                                  *)
LEMMA NextKeepsLeaks ==
    ASSUME TypeOK, OwnerInv, NothingElseLeaks, Next
    PROVE  NothingElseLeaks'
<1>0. /\ {} \in SUBSET Attribute /\ {} \in SUBSET Owner
      /\ \A o \in owners : o.handle \in Handle /\ o.claims \in SUBSET Attribute /\ {o} \in SUBSET Owner
      /\ \A x \in setup : x \in Setup /\ x.handle \in live
      /\ \A x, y \in setup : x = y
  BY DEF TypeOK, Owner
<1>1. ASSUME NEW h \in Env, AllocateEnvThrows(h) PROVE NothingElseLeaks'
  <2>1. \A k \in Handle : (Leaks(k)' => Leaks(k) \/ k \in cutOff') /\ (Leaks(k) => Leaks(k)')
    BY <1>1, <1>0 DEF Leaks, Owned, Idle, handleVars, AllocateEnvThrows
  <2> QED
    BY <1>1, <2>1, SameLeaksLaw DEF AllocateEnvThrows, handleVars
<1>2. ASSUME NEW h \in Env, NEW r \in Requests("env"), AllocateEnv(h, r) PROVE NothingElseLeaks'
  <2>0. PICK y \in Setup : /\ setup' = {y} /\ y.handle = h /\ y.from = {} /\ y.todo = r
                           /\ y.claims = Merge({}, Range(r))
    <3>1. h \in Handle /\ r \in Requests(TypeOf(h))
      BY <1>2, <1>0, ParentLaw
    <3>2. Begin(h, {}, r, {})
      BY <1>2 DEF AllocateEnv
    <3> QED
      BY <3>1, <3>2, <1>0, BeginLaw
  <2>1. \A k \in Handle : (Leaks(k)' => Leaks(k) \/ k \in cutOff') /\ (Leaks(k) => Leaks(k)')
    BY <1>2, <1>0, <2>0, ParentLaw DEF Leaks, Owned, Idle, Fresh, AllocateEnv
  <2> QED
    BY <1>2, <2>1, SameLeaksLaw DEF AllocateEnv
<1>3. ASSUME NEW o \in owners, NEW h \in Dbc \cup Stmt, NEW r \in Requests(TypeOf(h)), Allocate(o, h, r)
      PROVE NothingElseLeaks'
  <2>0. PICK y \in Setup : /\ setup' = {y} /\ y.handle = h /\ y.from = {} /\ y.todo = r
                           /\ y.claims = Merge(o.claims, Range(r))
    <3>1. h \in Handle /\ r \in Requests(TypeOf(h))
      BY <1>3, <1>0, ParentLaw
    <3>2. Begin(h, o.claims, r, {})
      BY <1>3 DEF Allocate
    <3> QED
      BY <3>1, <3>2, <1>0, BeginLaw
  <2>1. \A k \in Handle : (Leaks(k)' => Leaks(k) \/ k \in cutOff') /\ (Leaks(k) => Leaks(k)')
    BY <1>3, <1>0, <2>0, ParentLaw DEF Leaks, Owned, Idle, Fresh, Allocate
  <2> QED
    BY <1>3, <2>1, SameLeaksLaw DEF Allocate
<1>4. ASSUME NEW o \in owners, NEW r \in Requests(TypeOf(o.handle)), Set(o, r) PROVE NothingElseLeaks'
  <2>0. PICK y \in Setup : /\ setup' = {y} /\ y.handle = o.handle /\ y.from = {o} /\ y.todo = r
                           /\ y.claims = Merge(o.claims, Range(r))
    <3>1. o.handle \in Handle /\ r \in Requests(TypeOf(o.handle))
      BY <1>4, <1>0, ParentLaw
    <3>2. Begin(o.handle, o.claims, r, {o})
      BY <1>4 DEF Set
    <3> QED
      BY <3>1, <3>2, <1>0, BeginLaw
  <2>1. \A k \in Handle : (Leaks(k)' => Leaks(k) \/ k \in cutOff') /\ (Leaks(k) => Leaks(k)')
    BY <1>4, <1>0, <2>0, ParentLaw DEF Leaks, Owned, Idle, Fresh, Set
  <2> QED
    BY <1>4, <2>1, SameLeaksLaw DEF Set
<1>5. ASSUME NEW o \in owners, NEW claims \in LesserTypes, Narrow(o, claims) PROVE NothingElseLeaks'
  <2>1. [o EXCEPT !.claims = claims].handle = o.handle
    BY <1>0 DEF TypeOK, Owner
  <2>2. PICK n : n.handle = o.handle /\ owners' = (owners \ {o}) \cup {n}
    BY <1>5, <2>1 DEF Narrow
  <2>3. Owned' = Owned
    BY <2>2 DEF Owned
  <2>4. \A k \in Handle : Leaks(k)' <=> Leaks(k)
    BY <1>5, <2>3 DEF Narrow, Leaks
  <2> QED
    BY <1>5, <2>4, SameLeaksLaw DEF Narrow
<1>6. ASSUME NEW o \in owners, Connect(o) PROVE NothingElseLeaks'
  <2>1. \A k \in Handle : (Leaks(k)' => Leaks(k) \/ k \in cutOff') /\ (Leaks(k) => Leaks(k)')
    BY <1>6, <1>0 DEF Leaks, Owned, Idle, handleVars, Connect
  <2> QED
    BY <1>6, <2>1, SameLeaksLaw DEF Connect, handleVars
<1>7. ASSUME NEW o \in owners, Disconnect(o) PROVE NothingElseLeaks'
  <2>1. ~disorder' => ~disorder /\ Children(o.handle) \cap Owned = {}
    BY <1>7, <1>0, ParentLaw DEF Disconnect, Children
  <2>2. setup = {} /\ setup' = {} /\ Owned' \subseteq Owned
    BY <1>7 DEF Disconnect, Idle, Owned
  <2>3. \A k \in Handle : Leaks(k)' /\ ~disorder' =>
           Leaks(k) \/ k \in cutOff' \/ \E c \in Children(k) : Leaks(c)'
    BY <1>7, <1>0, <2>1, <2>2, ParentLaw DEF Disconnect, Forget, FreedWith, Leaks, Owned, OwnerInv, Children
  <2>4. \A k \in Handle : Leaks(k)' /\ k \in cutOff => k \in cutOff'
    BY <1>7 DEF Disconnect, Forget, Leaks
  <2>5. \A k \in Handle : \A c \in Children(k) : Leaks(k)' /\ Leaks(c) => Leaks(c)'
    BY <1>7, <1>0, <2>2, ParentLaw DEF Disconnect, Forget, FreedWith, Leaks, Owned, Children
  <2> QED
    BY <2>1, <2>3, <2>4, <2>5, LeaksLaw
<1>8. ASSUME NEW o \in owners, FreeDead(o) \/ UseFreed(o) PROVE NothingElseLeaks'
  <2>1. \A k \in Handle : (Leaks(k)' => Leaks(k) \/ k \in cutOff') /\ (Leaks(k) => Leaks(k)')
    BY <1>8, <1>0 DEF Leaks, Owned, Idle, handleVars, FreeDead, UseFreed, CallInvalid
  <2> QED
    BY <1>8, <2>1, SameLeaksLaw DEF FreeDead, UseFreed, CallInvalid, handleVars
<1>9. ASSUME NEW o \in owners, FreeStmt(o) PROVE NothingElseLeaks'
  <2>1. ~disorder' => ~disorder /\ Children(o.handle) \cap Owned = {}
    BY <1>9, <1>0, ParentLaw DEF FreeStmt, Children
  <2>2. setup = {} /\ setup' = {} /\ Owned' \subseteq Owned
    BY <1>9 DEF FreeStmt, Idle, Owned
  <2>3. \A k \in Handle : Leaks(k)' /\ ~disorder' =>
           Leaks(k) \/ k \in cutOff' \/ \E c \in Children(k) : Leaks(c)'
    BY <1>9, <1>0, <2>1, <2>2, ParentLaw DEF FreeStmt, Forget, FreedWith, Leaks, Owned, OwnerInv, Children
  <2>4. \A k \in Handle : Leaks(k)' /\ k \in cutOff => k \in cutOff'
    BY <1>9 DEF FreeStmt, Forget, Leaks
  <2>5. \A k \in Handle : \A c \in Children(k) : Leaks(k)' /\ Leaks(c) => Leaks(c)'
    BY <1>9, <1>0, <2>2, ParentLaw DEF FreeStmt, Forget, FreedWith, Leaks, Owned, Children
  <2> QED
    BY <2>1, <2>3, <2>4, <2>5, LeaksLaw
<1>10. ASSUME NEW o \in owners, FreeDbc(o) PROVE NothingElseLeaks'
  <2>1. ~disorder' => ~disorder /\ Children(o.handle) \cap Owned = {}
    BY <1>10, <1>0, ParentLaw DEF FreeDbc, Children
  <2>2. setup = {} /\ setup' = {} /\ Owned' \subseteq Owned
    BY <1>10 DEF FreeDbc, Idle, Owned
  <2>3. \A k \in Handle : Leaks(k)' /\ ~disorder' =>
           Leaks(k) \/ k \in cutOff' \/ \E c \in Children(k) : Leaks(c)'
    BY <1>10, <1>0, <2>1, <2>2, ParentLaw DEF FreeDbc, Forget, FreedWith, Leaks, Owned, OwnerInv, Children
  <2>4. \A k \in Handle : Leaks(k)' /\ k \in cutOff => k \in cutOff'
    BY <1>10 DEF FreeDbc, Forget, Leaks
  <2>5. \A k \in Handle : \A c \in Children(k) : Leaks(k)' /\ Leaks(c) => Leaks(c)'
    BY <1>10, <1>0, <2>2, ParentLaw DEF FreeDbc, Forget, FreedWith, Leaks, Owned, Children
  <2> QED
    BY <2>1, <2>3, <2>4, <2>5, LeaksLaw
<1>11. ASSUME NEW o \in owners, FreeEnv(o) PROVE NothingElseLeaks'
  <2>1. ~disorder' => ~disorder /\ Children(o.handle) \cap Owned = {}
    BY <1>11, <1>0, ParentLaw DEF FreeEnv, Children
  <2>2. setup = {} /\ setup' = {} /\ Owned' \subseteq Owned
    BY <1>11 DEF FreeEnv, Idle, Owned
  <2>3. \A k \in Handle : Leaks(k)' /\ ~disorder' =>
           Leaks(k) \/ k \in cutOff' \/ \E c \in Children(k) : Leaks(c)'
    BY <1>11, <1>0, <2>1, <2>2, ParentLaw DEF FreeEnv, Forget, FreedWith, Leaks, Owned, OwnerInv, Children
  <2>4. \A k \in Handle : Leaks(k)' /\ k \in cutOff => k \in cutOff'
    BY <1>11 DEF FreeEnv, Forget, Leaks
  <2>5. \A k \in Handle : \A c \in Children(k) : Leaks(k)' /\ Leaks(c) => Leaks(c)'
    BY <1>11, <1>0, <2>2, ParentLaw DEF FreeEnv, Forget, FreedWith, Leaks, Owned, Children
  <2> QED
    BY <2>1, <2>3, <2>4, <2>5, LeaksLaw
<1>12. ASSUME NEW x \in setup, SetAttributeSubstituted(x) PROVE NothingElseLeaks'
  <2>0. PICK y \in Setup : /\ setup' = {y} /\ y.handle = x.handle /\ y.claims = x.claims
                           /\ y.from = x.from /\ y.todo = Tail(x.todo)
                           /\ Range(x.todo) = {Head(x.todo)} \cup Range(y.todo)
    BY <1>12, <1>0, TailLaw DEF SetAttributeSubstituted
  <2>1. \A k \in Handle : (Leaks(k)' => Leaks(k) \/ k \in cutOff') /\ (Leaks(k) => Leaks(k)')
    BY <1>12, <1>0, <2>0 DEF Leaks, Owned, SetAttributeSubstituted
  <2> QED
    BY <1>12, <2>1, SameLeaksLaw DEF SetAttributeSubstituted
<1>13. ASSUME NEW x \in setup, SetAttributeFails(x) PROVE NothingElseLeaks'
  <2>1. \A k \in Handle : (Leaks(k)' => Leaks(k) \/ k \in cutOff') /\ (Leaks(k) => Leaks(k)')
    BY <1>13, <1>0 DEF Leaks, Owned, Idle, handleVars, SetAttributeFails
  <2> QED
    BY <1>13, <2>1, SameLeaksLaw DEF SetAttributeFails, handleVars
<1>14. ASSUME NEW d \in Dbc, Work(d) PROVE NothingElseLeaks'
  <2>1. \A k \in Handle : (Leaks(k)' => Leaks(k) \/ k \in cutOff') /\ (Leaks(k) => Leaks(k)')
    BY <1>14, <1>0 DEF Leaks, Owned, Idle, handleVars, Work
  <2> QED
    BY <1>14, <2>1, SameLeaksLaw DEF Work, handleVars
<1>15. CASE Refused
  <2>1. \A k \in Handle : (Leaks(k)' => Leaks(k) \/ k \in cutOff') /\ (Leaks(k) => Leaks(k)')
    BY <1>15, <1>0 DEF Leaks, Owned, Idle, handleVars, Refused
  <2> QED
    BY <1>15, <2>1, SameLeaksLaw DEF Refused, handleVars
<1>16. ASSUME NEW x \in setup, SetAttribute(x) PROVE NothingElseLeaks'
  <2>0. PICK y \in Setup : /\ setup' = {y} /\ y.handle = x.handle /\ y.claims = x.claims
                           /\ y.from = x.from /\ y.todo = Tail(x.todo)
                           /\ Range(x.todo) = {Head(x.todo)} \cup Range(y.todo)
    BY <1>16, <1>0, TailLaw DEF SetAttribute
  <2>1. \A k \in Handle : (Leaks(k)' => Leaks(k) \/ k \in cutOff') /\ (Leaks(k) => Leaks(k)')
    BY <1>16, <1>0, <2>0 DEF Leaks, Owned, SetAttribute
  <2> QED
    BY <1>16, <2>1, SameLeaksLaw DEF SetAttribute
<1>17. ASSUME NEW x \in setup, SetupDone(x) PROVE NothingElseLeaks'
  <2>1. /\ setup = {x} /\ setup' = {} /\ UNCHANGED <<live, cutOff, disorder>>
        /\ owners' = (owners \ x.from) \cup {[handle |-> x.handle, claims |-> x.claims]}
    BY <1>17, <1>0 DEF SetupDone
  <2>2. Owned' = Owned \cup {x.handle}
    <3>1. PICK n : n.handle = x.handle /\ owners' = (owners \ x.from) \cup {n}
      BY <2>1
    <3>2. \A o \in x.from : o.handle = x.handle
      BY DEF OwnerInv
    <3> QED
      BY <3>1, <3>2 DEF Owned
  <2>3. \A k \in Handle : Leaks(k)' <=> Leaks(k)
    BY <2>1, <2>2 DEF Leaks
  <2> QED
    BY <2>1, <2>3, SameLeaksLaw
<1>18. CASE CollectRecord
  <2>1. \A k \in Handle : (Leaks(k)' => Leaks(k) \/ k \in cutOff') /\ (Leaks(k) => Leaks(k)')
    BY <1>18, <1>0 DEF Leaks, Owned, Idle, handleVars, CollectRecord
  <2> QED
    BY <1>18, <2>1, SameLeaksLaw DEF CollectRecord, handleVars
<1>19. CASE ThrowFromCall
  <2>1. /\ setup' = {} /\ UNCHANGED <<live, owners, disorder>>
        /\ cutOff' = cutOff \cup {x.handle : x \in {y \in setup : y.from = {}}}
    BY <1>19 DEF ThrowFromCall
  <2>2. Owned' = Owned
    BY <2>1 DEF Owned
  <2>3. \A k \in Handle : (Leaks(k)' => Leaks(k) \/ k \in cutOff') /\ (Leaks(k) => Leaks(k)')
    <3>1. \A x \in setup : x.handle \in Owned \cup cutOff'
      BY <2>1 DEF OwnerInv, Owned
    <3> QED
      BY <2>1, <2>2, <3>1 DEF Leaks
  <2> QED
    BY <2>1, <2>3, SameLeaksLaw
<1> QED
  BY <1>1, <1>2, <1>3, <1>4, <1>5, <1>6, <1>7, <1>8, <1>9, <1>10, <1>11, <1>12, <1>13, <1>14,
     <1>15, <1>16, <1>17, <1>18, <1>19 DEF Next, GoOn

-----------------------------------------------------------------------------
(* Claims.                                                                 *)
LEMMA NextKeepsMaps ==
    ASSUME TypeOK, ClaimsAreMaps, Next
    PROVE  ClaimsAreMaps'
<1>0. /\ {} \in SUBSET Attribute /\ {} \in SUBSET Owner
      /\ \A o \in owners : o.handle \in Handle /\ o.claims \in SUBSET Attribute /\ {o} \in SUBSET Owner
      /\ \A x \in setup : x \in Setup /\ x.handle \in live
      /\ \A x, y \in setup : x = y
  BY DEF TypeOK, Owner
<1>1. ASSUME NEW h \in Env, AllocateEnvThrows(h) PROVE ClaimsAreMaps'
  BY <1>1, <1>0 DEF ClaimsAreMaps, Idle, handleVars, AllocateEnvThrows
<1>2. ASSUME NEW h \in Env, NEW r \in Requests("env"), AllocateEnv(h, r) PROVE ClaimsAreMaps'
  <2>0. PICK y \in Setup : /\ setup' = {y} /\ y.handle = h /\ y.from = {} /\ y.todo = r
                           /\ y.claims = Merge({}, Range(r))
    <3>1. h \in Handle /\ r \in Requests(TypeOf(h))
      BY <1>2, <1>0, ParentLaw
    <3>2. Begin(h, {}, r, {})
      BY <1>2 DEF AllocateEnv
    <3> QED
      BY <3>1, <3>2, <1>0, BeginLaw
  <2>1. IsMap({})
    BY DEF ClaimsAreMaps, IsMap
  <2>2. Range(r) \in SUBSET Attribute /\ IsMap(Range(r))
    <3>1. h \in Handle
      BY <1>2, <1>0, ParentLaw
    <3> QED
      BY <3>1, RequestLaw, ParentLaw
  <2>3. IsMap(Merge({}, Range(r)))
    BY <1>0, <2>1, <2>2, MergeIsMap
  <2> QED
    BY <1>2, <2>0, <2>3 DEF ClaimsAreMaps, AllocateEnv
<1>3. ASSUME NEW o \in owners, NEW h \in Dbc \cup Stmt, NEW r \in Requests(TypeOf(h)), Allocate(o, h, r)
      PROVE ClaimsAreMaps'
  <2>0. PICK y \in Setup : /\ setup' = {y} /\ y.handle = h /\ y.from = {} /\ y.todo = r
                           /\ y.claims = Merge(o.claims, Range(r))
    <3>1. h \in Handle /\ r \in Requests(TypeOf(h))
      BY <1>3, <1>0, ParentLaw
    <3>2. Begin(h, o.claims, r, {})
      BY <1>3 DEF Allocate
    <3> QED
      BY <3>1, <3>2, <1>0, BeginLaw
  <2>1. IsMap(o.claims)
    BY DEF ClaimsAreMaps, IsMap
  <2>2. Range(r) \in SUBSET Attribute /\ IsMap(Range(r))
    <3>1. h \in Handle
      BY <1>3, <1>0, ParentLaw
    <3> QED
      BY <3>1, RequestLaw, ParentLaw
  <2>3. IsMap(Merge(o.claims, Range(r)))
    BY <1>0, <2>1, <2>2, MergeIsMap
  <2> QED
    BY <1>3, <2>0, <2>3 DEF ClaimsAreMaps, Allocate
<1>4. ASSUME NEW o \in owners, NEW r \in Requests(TypeOf(o.handle)), Set(o, r) PROVE ClaimsAreMaps'
  <2>0. PICK y \in Setup : /\ setup' = {y} /\ y.handle = o.handle /\ y.from = {o} /\ y.todo = r
                           /\ y.claims = Merge(o.claims, Range(r))
    <3>1. o.handle \in Handle /\ r \in Requests(TypeOf(o.handle))
      BY <1>4, <1>0, ParentLaw
    <3>2. Begin(o.handle, o.claims, r, {o})
      BY <1>4 DEF Set
    <3> QED
      BY <3>1, <3>2, <1>0, BeginLaw
  <2>1. IsMap(o.claims)
    BY DEF ClaimsAreMaps, IsMap
  <2>2. Range(r) \in SUBSET Attribute /\ IsMap(Range(r))
    <3>1. o.handle \in Handle
      BY <1>4, <1>0, ParentLaw
    <3> QED
      BY <3>1, RequestLaw, ParentLaw
  <2>3. IsMap(Merge(o.claims, Range(r)))
    BY <1>0, <2>1, <2>2, MergeIsMap
  <2> QED
    BY <1>4, <2>0, <2>3 DEF ClaimsAreMaps, Set
<1>5. ASSUME NEW o \in owners, NEW claims \in LesserTypes, Narrow(o, claims) PROVE ClaimsAreMaps'
  <2>1. [o EXCEPT !.claims = claims].claims = claims
    BY <1>0 DEF TypeOK, Owner
  <2>2. PICK n : n.claims = claims /\ owners' = (owners \ {o}) \cup {n} /\ setup' = setup
    BY <1>5, <2>1 DEF Narrow
  <2>3. IsMap(claims)
    BY <1>5 DEF Narrow, ClaimsAreMaps, IsMap, IsSubset
  <2> QED
    BY <2>2, <2>3 DEF ClaimsAreMaps
<1>6. ASSUME NEW o \in owners, Connect(o) PROVE ClaimsAreMaps'
  BY <1>6, <1>0 DEF ClaimsAreMaps, Idle, handleVars, Connect
<1>7. ASSUME NEW o \in owners, Disconnect(o) PROVE ClaimsAreMaps'
  BY <1>7, <1>0 DEF ClaimsAreMaps, Idle, handleVars, Disconnect
<1>8. ASSUME NEW o \in owners, FreeDead(o) \/ UseFreed(o) PROVE ClaimsAreMaps'
  BY <1>8, <1>0 DEF ClaimsAreMaps, Idle, handleVars, FreeDead, UseFreed, CallInvalid
<1>9. ASSUME NEW o \in owners, FreeStmt(o) PROVE ClaimsAreMaps'
  BY <1>9, <1>0 DEF ClaimsAreMaps, Idle, handleVars, FreeStmt
<1>10. ASSUME NEW o \in owners, FreeDbc(o) PROVE ClaimsAreMaps'
  BY <1>10, <1>0 DEF ClaimsAreMaps, Idle, handleVars, FreeDbc
<1>11. ASSUME NEW o \in owners, FreeEnv(o) PROVE ClaimsAreMaps'
  BY <1>11, <1>0 DEF ClaimsAreMaps, Idle, handleVars, FreeEnv
<1>12. ASSUME NEW x \in setup, SetAttributeSubstituted(x) PROVE ClaimsAreMaps'
  <2>0. PICK y \in Setup : /\ setup' = {y} /\ y.handle = x.handle /\ y.claims = x.claims
                           /\ y.from = x.from /\ y.todo = Tail(x.todo)
                           /\ Range(x.todo) = {Head(x.todo)} \cup Range(y.todo)
    BY <1>12, <1>0, TailLaw DEF SetAttributeSubstituted
  <2> QED
    BY <1>12, <1>0, <2>0 DEF ClaimsAreMaps, SetAttributeSubstituted
<1>13. ASSUME NEW x \in setup, SetAttributeFails(x) PROVE ClaimsAreMaps'
  BY <1>13, <1>0 DEF ClaimsAreMaps, Idle, handleVars, SetAttributeFails
<1>14. ASSUME NEW d \in Dbc, Work(d) PROVE ClaimsAreMaps'
  BY <1>14, <1>0 DEF ClaimsAreMaps, Idle, handleVars, Work
<1>15. CASE Refused
  BY <1>15, <1>0 DEF ClaimsAreMaps, Idle, handleVars, Refused
<1>16. ASSUME NEW x \in setup, SetAttribute(x) PROVE ClaimsAreMaps'
  <2>0. PICK y \in Setup : /\ setup' = {y} /\ y.handle = x.handle /\ y.claims = x.claims
                           /\ y.from = x.from /\ y.todo = Tail(x.todo)
                           /\ Range(x.todo) = {Head(x.todo)} \cup Range(y.todo)
    BY <1>16, <1>0, TailLaw DEF SetAttribute
  <2> QED
    BY <1>16, <1>0, <2>0 DEF ClaimsAreMaps, SetAttribute
<1>17. ASSUME NEW x \in setup, SetupDone(x) PROVE ClaimsAreMaps'
  <2>0. [handle |-> x.handle, claims |-> x.claims].claims = x.claims
    OBVIOUS
  <2>1. PICK n : n.claims = x.claims /\ owners' = (owners \ x.from) \cup {n} /\ setup' = setup \ {x}
    BY <1>17, <2>0, <1>0 DEF SetupDone
  <2> QED
    BY <2>1 DEF ClaimsAreMaps
<1>18. CASE CollectRecord
  BY <1>18, <1>0 DEF ClaimsAreMaps, Idle, handleVars, CollectRecord
<1>19. CASE ThrowFromCall
  BY <1>19, <1>0 DEF ClaimsAreMaps, Idle, handleVars, ThrowFromCall
<1> QED
  BY <1>1, <1>2, <1>3, <1>4, <1>5, <1>6, <1>7, <1>8, <1>9, <1>10, <1>11, <1>12, <1>13, <1>14,
     <1>15, <1>16, <1>17, <1>18, <1>19 DEF Next, GoOn

(* What has been asked for, and is set one by one, will fit.               *)
LEMMA FitsAtFirst ==
    ASSUME NEW claims \in SUBSET Attribute, IsMap(claims), NEW request \in Requests("stmt"),
           NEW statement, claims \cap StmtAttribute = {} \/ Fits(claims, statement, <<>>)
    PROVE  Fits(Merge(claims, Range(request)), statement, request)
<1> DEFINE merged == Merge(claims, Range(request))
<1>1. Range(request) \in SUBSET Attribute /\ IsMap(Range(request))
  BY RequestLaw
<1>2. merged \in SUBSET Attribute /\ IsMap(merged) /\ Range(request) \subseteq merged
  BY <1>1, MergeIsMap DEF Merge
<1>3. \A a \in merged : a \in Range(request) \/ a \in claims
  BY DEF Merge
<1>4. {scrollable, cursor_static, concur_lock} \subseteq StmtAttribute
  BY DEF StmtAttribute
<1>5. Range(<<>>) = {}
  BY DEF Range
<1>6. ASSUME ~IsForwardOnlyCursor(merged), {scrollable, cursor_static} \cap Range(request) = {}
      PROVE  statement.scrolls
  <2>1. PICK a \in {scrollable, cursor_static} : a \in merged
    BY <1>6 DEF IsForwardOnlyCursor, Contains
  <2>2. a \in claims /\ Fits(claims, statement, <<>>)
    BY <1>3, <1>4, <1>6, <2>1
  <2>3. ASSUME NEW b \in {cursor_forward_only, nonscrollable}, b \in claims PROVE FALSE
    <3>1. b \notin merged
      BY <1>6, <2>3 DEF IsForwardOnlyCursor, Contains
    <3>2. PICK r \in Range(request) : r.id = b.id
      BY <2>3, <3>1 DEF Merge
    <3>3. r \in Attribute /\ r \in merged
      BY <1>1, <1>2, <3>2
    <3>4. r \in {cursor_forward_only, nonscrollable, scrollable, cursor_static}
      BY <2>3, <3>2, <3>3 DEF Attribute, StmtAttribute, EnvAttribute, DbcAttribute,
         SyntheticAttribute, cursor_forward_only, cursor_static, nonscrollable, scrollable,
         concur_read_only, concur_lock, bookmarks, odbc3, mode_read_only, records_per_buffer_hint
    <3> QED
      BY <1>6, <3>2, <3>3, <3>4 DEF IsForwardOnlyCursor, Contains
  <2>4. ~IsForwardOnlyCursor(claims)
    BY <2>1, <2>2, <2>3 DEF IsForwardOnlyCursor, Contains
  <2> QED
    BY <1>5, <2>2, <2>4 DEF Fits
<1>7. ASSUME concur_lock \in merged, concur_lock \notin Range(request) PROVE statement.writes
  BY <1>3, <1>4, <1>5, <1>7 DEF Fits
<1> QED
  BY <1>2, <1>6, <1>7 DEF Fits

(* What fits when an attribute has still to be set fits when it is set.    *)
LEMMA FitsLater ==
    ASSUME NEW statement \in [scrolls : BOOLEAN, writes : BOOLEAN],
           NEW claims, NEW a, NEW todo, NEW rest,
           Range(todo) = {a} \cup Range(rest), Fits(claims, statement, todo)
    PROVE  Fits(claims, Effect(statement, a), rest)
<1>1. a \in claims /\ Range(rest) \subseteq claims /\ IsMap(claims)
  BY DEF Fits
<1>2. ASSUME ~IsForwardOnlyCursor(claims), Range(rest) \cap {scrollable, cursor_static} = {}
      PROVE  Effect(statement, a).scrolls
  <2>1. a \notin {cursor_forward_only, nonscrollable}
    BY <1>1, <1>2 DEF IsForwardOnlyCursor, Contains
  <2>2. a \in {scrollable, cursor_static} \/ statement.scrolls
    BY <1>2 DEF Fits
  <2> QED
    BY <2>1, <2>2, EffectLaw
<1>3. ASSUME concur_lock \in claims, concur_lock \notin Range(rest)
      PROVE  Effect(statement, a).writes
  <2>1. a.id = "concurrency" => a = concur_lock
    BY <1>1, <1>3 DEF IsMap, concur_lock
  <2>2. a = concur_lock \/ statement.writes
    BY <1>3 DEF Fits
  <2>3. CASE a = concur_lock
    BY <2>3 DEF Effect, concur_lock, cursor_forward_only, nonscrollable, cursor_static, scrollable
  <2>4. CASE a # concur_lock
    BY <2>1, <2>2, <2>4 DEF Effect
  <2> QED
    BY <2>3, <2>4
<1> QED
  BY <1>1, <1>2, <1>3 DEF Fits

(* Statements an owner may speak for, and what it then says.               *)
LEMMA NextKeepsClaims ==
    ASSUME TypeOK, OwnerInv, ClaimsAreMaps, ClaimsInv, Next
    PROVE  ClaimsInv'
<1>0. /\ {} \in SUBSET Attribute /\ {} \in SUBSET Owner
      /\ \A o \in owners : o.handle \in Handle /\ o.claims \in SUBSET Attribute /\ {o} \in SUBSET Owner
      /\ \A x \in setup : x \in Setup /\ x.handle \in live
      /\ \A x, y \in setup : x = y
  BY DEF TypeOK, Owner
<1> DEFINE Spoken(o) == IF o.handle \in Stmt
                        THEN o.handle \in live \ (behind \cup {x.handle : x \in setup}) =>
                                Fits(o.claims, driver[o.handle], <<>>)
                        ELSE o.claims \cap StmtAttribute = {}
           Asked(x) == IF x.handle \in Stmt
                       THEN x.handle \notin behind => Fits(x.claims, driver[x.handle], x.todo)
                       ELSE x.claims \cap StmtAttribute = {}
<1>21. (\A o \in owners : Spoken(o)) /\ (\A x \in setup : Asked(x))
  BY DEF ClaimsInv
<1> DEFINE Goal == (\A o \in owners' : Spoken(o)') /\ (\A x \in setup' : Asked(x)')
<1> SUFFICES Goal
  BY DEF ClaimsInv
<1> HIDE DEF Goal
<1>22. ASSUME NEW h \in Env, AllocateEnvThrows(h) PROVE Goal
  BY <1>22, <1>0, <1>21, ParentLaw DEF Goal, Idle, handleVars, AllocateEnvThrows
<1>23. ASSUME NEW h \in Env, NEW r \in Requests("env"), AllocateEnv(h, r) PROVE Goal
  <2>0. PICK y \in Setup : /\ setup' = {y} /\ y.handle = h /\ y.from = {} /\ y.todo = r
                           /\ y.claims = Merge({}, Range(r))
    <3>1. h \in Handle /\ r \in Requests(TypeOf(h))
      BY <1>23, <1>0, ParentLaw
    <3>2. Begin(h, {}, r, {})
      BY <1>23 DEF AllocateEnv
    <3> QED
      BY <3>1, <3>2, <1>0, BeginLaw
  <2>1. h \in Handle /\ {} \in SUBSET Attribute /\ IsMap({})
    BY <1>0, <1>23, ParentLaw DEF ClaimsAreMaps, IsMap
  <2>2. UNCHANGED <<owners, driver, behind>> /\ setup = {} /\ live' \subseteq live \cup {h}
    BY <1>23 DEF AllocateEnv, Idle
  <2>3. h \notin Stmt => {} \cap StmtAttribute = {}
    BY <1>23, <1>21, ParentLaw DEF AllocateEnv
  <2>4. CASE h \notin Stmt
    <3>1. Range(r) \cap StmtAttribute = {}
      <4>1. Applicable(TypeOf(h)) \cap StmtAttribute = {}
        BY <2>1, <2>4, ParentLaw, AttributesDiffer DEF Applicable
      <4> QED
        BY <1>23, <4>1, <2>1, RequestLaw, ParentLaw
    <3>2. y.claims \cap StmtAttribute = {}
      BY <2>0, <2>3, <2>4, <3>1 DEF Merge
    <3> QED
      BY <1>21, <2>0, <2>2, <2>4, <3>2 DEF Goal
  <2>5. CASE h \in Stmt
    <3>1. r \in Requests("stmt")
      BY <1>23, <2>5, <2>1, ParentLaw
    <3>2. h \notin behind =>
             {} \cap StmtAttribute = {} \/ Fits({}, driver[h], <<>>)
      BY <1>23, <1>21, <2>2, <2>5, ParentLaw DEF AllocateEnv
    <3>3. h \notin behind => Fits(y.claims, driver[h], y.todo)
      BY <2>0, <2>1, <3>1, <3>2, FitsAtFirst
    <3> QED
      BY <1>21, <2>0, <2>2, <2>5, <3>3 DEF Goal
  <2> QED
    BY <2>4, <2>5
<1>24. ASSUME NEW o \in owners, NEW h \in Dbc \cup Stmt, NEW r \in Requests(TypeOf(h)), Allocate(o, h, r)
       PROVE Goal
  <2>0. PICK y \in Setup : /\ setup' = {y} /\ y.handle = h /\ y.from = {} /\ y.todo = r
                           /\ y.claims = Merge(o.claims, Range(r))
    <3>1. h \in Handle /\ r \in Requests(TypeOf(h))
      BY <1>24, <1>0, ParentLaw
    <3>2. Begin(h, o.claims, r, {})
      BY <1>24 DEF Allocate
    <3> QED
      BY <3>1, <3>2, <1>0, BeginLaw
  <2>1. h \in Handle /\ o.claims \in SUBSET Attribute /\ IsMap(o.claims)
    BY <1>0, <1>24, ParentLaw DEF ClaimsAreMaps, IsMap
  <2>2. UNCHANGED <<owners, driver, behind>> /\ setup = {} /\ live' \subseteq live \cup {h}
    BY <1>24 DEF Allocate, Idle
  <2>3. h \notin Stmt => o.claims \cap StmtAttribute = {}
    BY <1>24, <1>21, ParentLaw DEF Allocate
  <2>4. CASE h \notin Stmt
    <3>1. Range(r) \cap StmtAttribute = {}
      <4>1. Applicable(TypeOf(h)) \cap StmtAttribute = {}
        BY <2>1, <2>4, ParentLaw, AttributesDiffer DEF Applicable
      <4> QED
        BY <1>24, <4>1, <2>1, RequestLaw, ParentLaw
    <3>2. y.claims \cap StmtAttribute = {}
      BY <2>0, <2>3, <2>4, <3>1 DEF Merge
    <3> QED
      BY <1>21, <2>0, <2>2, <2>4, <3>2 DEF Goal
  <2>5. CASE h \in Stmt
    <3>1. r \in Requests("stmt")
      BY <1>24, <2>5, <2>1, ParentLaw
    <3>2. h \notin behind =>
             o.claims \cap StmtAttribute = {} \/ Fits(o.claims, driver[h], <<>>)
      BY <1>24, <1>21, <2>2, <2>5, ParentLaw DEF Allocate
    <3>3. h \notin behind => Fits(y.claims, driver[h], y.todo)
      BY <2>0, <2>1, <3>1, <3>2, FitsAtFirst
    <3> QED
      BY <1>21, <2>0, <2>2, <2>5, <3>3 DEF Goal
  <2> QED
    BY <2>4, <2>5
<1>25. ASSUME NEW o \in owners, NEW r \in Requests(TypeOf(o.handle)), Set(o, r) PROVE Goal
  <2>0. PICK y \in Setup : /\ setup' = {y} /\ y.handle = o.handle /\ y.from = {o} /\ y.todo = r
                           /\ y.claims = Merge(o.claims, Range(r))
    <3> DEFINE h == o.handle
               claims == o.claims
               from == {o}
    <3>1. h \in Handle /\ r \in Requests(TypeOf(h))
      BY <1>25, <1>0, ParentLaw
    <3>2. Begin(h, claims, r, from)
      BY <1>25 DEF Set
    <3>3. claims \in SUBSET Attribute /\ from \in SUBSET Owner
      BY <1>0
    <3>4. \E y \in Setup : /\ setup' = {y} /\ y.handle = h /\ y.from = from /\ y.todo = r
                           /\ y.claims = Merge(claims, Range(r))
      <4> HIDE DEF h, claims, from
      <4> QED
        BY <3>1, <3>2, <3>3, BeginLaw
    <3> QED
      BY <3>4
  <2>1. o.handle \in Handle /\ o.claims \in SUBSET Attribute /\ IsMap(o.claims)
    BY <1>0, <1>25, ParentLaw DEF ClaimsAreMaps, IsMap
  <2>2. UNCHANGED <<owners, driver, behind>> /\ setup = {} /\ live' \subseteq live \cup {o.handle}
    BY <1>25 DEF Set, Idle
  <2>3. o.handle \notin Stmt => o.claims \cap StmtAttribute = {}
    BY <1>25, <1>21, ParentLaw DEF Set
  <2>4. CASE o.handle \notin Stmt
    <3>1. Range(r) \cap StmtAttribute = {}
      <4>1. Applicable(TypeOf(o.handle)) \cap StmtAttribute = {}
        BY <2>1, <2>4, ParentLaw, AttributesDiffer DEF Applicable
      <4> QED
        BY <1>25, <4>1, <2>1, RequestLaw, ParentLaw
    <3>2. y.claims \cap StmtAttribute = {}
      BY <2>0, <2>3, <2>4, <3>1 DEF Merge
    <3> QED
      BY <1>21, <2>0, <2>2, <2>4, <3>2 DEF Goal
  <2>5. CASE o.handle \in Stmt
    <3>1. r \in Requests("stmt")
      BY <1>25, <2>5, <2>1, ParentLaw
    <3>2. o.handle \notin behind =>
             o.claims \cap StmtAttribute = {} \/ Fits(o.claims, driver[o.handle], <<>>)
      BY <1>25, <1>21, <2>2, <2>5, ParentLaw DEF Set
    <3>3. o.handle \notin behind => Fits(y.claims, driver[o.handle], y.todo)
      BY <2>0, <2>1, <3>1, <3>2, FitsAtFirst
    <3> QED
      BY <1>21, <2>0, <2>2, <2>5, <3>3 DEF Goal
  <2> QED
    BY <2>4, <2>5
<1>26. ASSUME NEW o \in owners, NEW claims \in LesserTypes, Narrow(o, claims) PROVE Goal
  <2>1. [o EXCEPT !.claims = claims].claims = claims /\ [o EXCEPT !.claims = claims].handle = o.handle
    BY <1>0 DEF TypeOK, Owner
  <2>2. PICK n : n.claims = claims /\ n.handle = o.handle /\ owners' = (owners \ {o}) \cup {n}
    BY <1>26, <2>1 DEF Narrow
  <2>3. /\ setup = {} /\ UNCHANGED <<live, driver, setup>>
        /\ behind' = behind \cup ({o.handle} \cap Stmt) /\ claims \subseteq o.claims
    BY <1>26 DEF Narrow, Idle, IsSubset
  <2> QED
    BY <1>21, <2>2, <2>3 DEF Goal
<1>27. ASSUME NEW o \in owners, Connect(o) PROVE Goal
  BY <1>27, <1>0, <1>21, ParentLaw DEF Goal, Idle, handleVars, Connect
<1>28. ASSUME NEW o \in owners, Disconnect(o) PROVE Goal
  <2>1. owners' \subseteq owners /\ setup = {} /\ setup' = {} /\ live' \subseteq live
    BY <1>28 DEF Disconnect, Idle, Forget
  <2>2. \A s \in Stmt \cap live' : driver'[s] = driver[s] /\ (s \in behind' <=> s \in behind)
    BY <1>28 DEF Disconnect, Forget
  <2> QED
    BY <1>21, <2>1, <2>2 DEF Goal
<1>29. ASSUME NEW o \in owners, FreeDead(o) \/ UseFreed(o) PROVE Goal
  BY <1>29, <1>0, <1>21, ParentLaw DEF Goal, Idle, handleVars, FreeDead, UseFreed, CallInvalid
<1>30. ASSUME NEW o \in owners, FreeStmt(o) PROVE Goal
  <2>1. owners' \subseteq owners /\ setup = {} /\ setup' = {} /\ live' \subseteq live
    BY <1>30 DEF FreeStmt, Idle, Forget
  <2>2. \A s \in Stmt \cap live' : driver'[s] = driver[s] /\ (s \in behind' <=> s \in behind)
    BY <1>30 DEF FreeStmt, Forget
  <2> QED
    BY <1>21, <2>1, <2>2 DEF Goal
<1>31. ASSUME NEW o \in owners, FreeDbc(o) PROVE Goal
  <2>1. owners' \subseteq owners /\ setup = {} /\ setup' = {} /\ live' \subseteq live
    BY <1>31 DEF FreeDbc, Idle, Forget
  <2>2. \A s \in Stmt \cap live' : driver'[s] = driver[s] /\ (s \in behind' <=> s \in behind)
    BY <1>31 DEF FreeDbc, Forget
  <2> QED
    BY <1>21, <2>1, <2>2 DEF Goal
<1>32. ASSUME NEW o \in owners, FreeEnv(o) PROVE Goal
  <2>1. owners' \subseteq owners /\ setup = {} /\ setup' = {} /\ live' \subseteq live
    BY <1>32 DEF FreeEnv, Idle, Forget
  <2>2. \A s \in Stmt \cap live' : driver'[s] = driver[s] /\ (s \in behind' <=> s \in behind)
    BY <1>32 DEF FreeEnv, Forget
  <2> QED
    BY <1>21, <2>1, <2>2 DEF Goal
<1>33. ASSUME NEW x \in setup, SetAttributeSubstituted(x) PROVE Goal
  <2>0. PICK y \in Setup : /\ setup' = {y} /\ y.handle = x.handle /\ y.claims = x.claims
                           /\ y.from = x.from /\ y.todo = Tail(x.todo)
                           /\ Range(x.todo) = {Head(x.todo)} \cup Range(y.todo)
    BY <1>33, <1>0, TailLaw DEF SetAttributeSubstituted
  <2>1. /\ UNCHANGED <<owners, live, driver>> /\ behind' = behind \cup {x.handle}
        /\ {z.handle : z \in setup'} = {z.handle : z \in setup} /\ x.handle \in Stmt
    BY <1>33, <1>0, <2>0 DEF SetAttributeSubstituted
  <2> QED
    BY <1>21, <2>0, <2>1 DEF Goal
<1>34. ASSUME NEW x \in setup, SetAttributeFails(x) PROVE Goal
  BY <1>34, <1>0, <1>21, ParentLaw DEF Goal, Idle, handleVars, SetAttributeFails
<1>35. ASSUME NEW d \in Dbc, Work(d) PROVE Goal
  BY <1>35, <1>0, <1>21, ParentLaw DEF Goal, Idle, handleVars, Work
<1>36. CASE Refused
  BY <1>36, <1>0, <1>21, ParentLaw DEF Goal, Idle, handleVars, Refused
<1>37. ASSUME NEW x \in setup, SetAttribute(x) PROVE Goal
  <2>0. PICK y \in Setup : /\ setup' = {y} /\ y.handle = x.handle /\ y.claims = x.claims
                           /\ y.from = x.from /\ y.todo = Tail(x.todo)
                           /\ Range(x.todo) = {Head(x.todo)} \cup Range(y.todo)
    BY <1>37, <1>0, TailLaw DEF SetAttribute
  <2>1. UNCHANGED <<owners, behind, live>> /\ {z.handle : z \in setup'} = {z.handle : z \in setup}
    BY <1>37, <1>0, <2>0 DEF SetAttribute
  <2>2. \A s \in Stmt : s # x.handle => driver'[s] = driver[s]
    BY <1>37 DEF SetAttribute, TypeOK
  <2>3. \A o \in owners : Spoken(o)'
    BY <1>21, <2>0, <2>1, <2>2
  <2>4. CASE x.handle \notin Stmt
    BY <1>21, <2>0, <2>1, <2>3, <2>4 DEF Goal
  <2>5. CASE x.handle \in Stmt
    <3>1. driver'[x.handle] = Effect(driver[x.handle], Head(x.todo))
      BY <1>37, <2>5 DEF SetAttribute, TypeOK
    <3>2. x.handle \notin behind => Fits(x.claims, driver'[x.handle], y.todo)
      BY <1>21, <2>0, <2>5, <3>1, FitsLater DEF TypeOK
    <3> QED
      BY <2>0, <2>1, <2>3, <2>5, <3>2 DEF Goal
  <2> QED
    BY <2>4, <2>5
<1>38. ASSUME NEW x \in setup, SetupDone(x) PROVE Goal
  <2>0. /\ [handle |-> x.handle, claims |-> x.claims].claims = x.claims
        /\ [handle |-> x.handle, claims |-> x.claims].handle = x.handle
    OBVIOUS
  <2>1. PICK n : n.claims = x.claims /\ n.handle = x.handle /\ owners' = (owners \ x.from) \cup {n}
    BY <1>38, <2>0 DEF SetupDone
  <2>2. UNCHANGED <<live, driver, behind>> /\ setup = {x} /\ setup' = {} /\ x.todo = <<>>
    BY <1>38, <1>0 DEF SetupDone
  <2>3. \A o \in owners \ x.from : o.handle # x.handle
    BY DEF OwnerInv, Owned
  <2>4. \A o \in owners \ x.from : Spoken(o)'
    BY <1>21, <2>2, <2>3
  <2>5. Spoken(n)'
    BY <1>21, <2>1, <2>2
  <2> QED
    BY <2>1, <2>2, <2>4, <2>5 DEF Goal
<1>39. CASE CollectRecord
  <2>1. UNCHANGED <<owners, setup, live, driver, behind>>
    BY <1>39 DEF CollectRecord, handleVars
  <2>2. \A o \in owners : Spoken(o)'
    BY <1>21, <2>1
  <2>3. \A x \in setup : Asked(x)'
    BY <1>21, <2>1
  <2> QED
    BY <2>1, <2>2, <2>3 DEF Goal
<1>40. CASE ThrowFromCall
  <2>1. /\ UNCHANGED <<live, driver, owners>> /\ setup' = {}
        /\ behind' = behind \cup ({x.handle : x \in setup} \cap Stmt)
    BY <1>40 DEF ThrowFromCall
  <2> QED
    BY <1>21, <2>1 DEF Goal
<1> QED
  BY <1>22, <1>23, <1>24, <1>25, <1>26, <1>27, <1>28, <1>29, <1>30, <1>31, <1>32, <1>33,
     <1>34, <1>35, <1>36, <1>37, <1>38, <1>39, <1>40 DEF Next, GoOn

-----------------------------------------------------------------------------
(* Every step keeps the invariant.                                         *)
LEMMA NextKeepsIInv == IInv /\ [Next]_vars => IInv'
<1>1. ASSUME IInv, Next PROVE IInv'
  <2>1. TypeOK' /\ OwnerInv' /\ OrderInv' /\ NothingElseLeaks' /\ ClaimsAreMaps' /\ ClaimsInv'
    BY <1>1, NextKeepsType, NextKeepsOwners, NextKeepsOrder, NextKeepsLeaks, NextKeepsMaps,
       NextKeepsClaims DEF IInv
  <2>2. RecordsInv'
    BY <1>1, StepsOfTheLoop, RecordsKept DEF IInv, TypeOK
  <2> QED
    BY <2>1, <2>2 DEF IInv
<1>2. ASSUME IInv, UNCHANGED vars PROVE IInv'
  <2> USE <1>2 DEF vars, handleVars, diagnostics
  <2>1. TypeOK'
    BY DEF IInv, TypeOK, DiagnosticsTypeOK
  <2>2. RecordsInv' /\ OwnerInv' /\ OrderInv'
    BY DEF IInv, RecordsInv, OwnerInv, OrderInv, Owned
  <2>3. NothingElseLeaks' /\ ClaimsAreMaps' /\ ClaimsInv'
    BY DEF IInv, NothingElseLeaks, Leaks, Owned, ClaimsAreMaps, ClaimsInv
  <2> QED
    BY <2>1, <2>2, <2>3 DEF IInv
<1> QED
  BY <1>1, <1>2

(* The invariant holds in every state.                                     *)
LEMMA AlwaysIInv == Spec => []IInv
BY InitEstablishesIInv, NextKeepsIInv, PTL DEF Spec

-----------------------------------------------------------------------------
(* The type invariant of handles and diagnostics.                          *)
THEOREM TypeCorrect == Spec => []TypeOK
<1>1. IInv => TypeOK
  BY DEF IInv
<1> QED
  BY <1>1, AlwaysIInv, PTL

(* Freed in order, handles leak only if setting them up failed, a          *)
(* transaction kept their connection open, or a connection leaks with them.*)
THEOREM LeaksHaveReasons == Spec => []NothingElseLeaks
<1>1. IInv => NothingElseLeaks
  BY DEF IInv
<1> QED
  BY <1>1, AlwaysIInv, PTL

(* Freed in order, no handle is freed by a deleter after the driver freed  *)
(* it.                                                                     *)
THEOREM FreedOnce == Spec => []NoFreedHandleUsed
<1>1. IInv => NoFreedHandleUsed
  BY DEF IInv, OrderInv, NoFreedHandleUsed
<1> QED
  BY <1>1, AlwaysIInv, PTL

(* The class of cursor the attributes select is one the statement serves,  *)
(* in whatever order attributes were set and replaced.                     *)
THEOREM KindFits == Spec => []CursorKindFits
<1>1. ASSUME IInv, NEW o \in owners,
             o.handle \in (Stmt \cap live) \ (behind \cup {x.handle : x \in setup})
      PROVE  /\ CursorKind(o.claims) # "forward_only" => driver[o.handle].scrolls
             /\ CursorKind(o.claims) = "modifiable" /\ (\E a \in o.claims : a.id = "concurrency")
                   => driver[o.handle].writes
  <2>1. Fits(o.claims, driver[o.handle], <<>>) /\ o.claims \subseteq Attribute /\ Range(<<>>) = {}
    BY <1>1 DEF IInv, ClaimsInv, TypeOK, Owner, Range
  <2>2. \A a \in Attribute : a.id = "concurrency" => a \in {concur_read_only, concur_lock}
    BY AttributesDiffer DEF Attribute, EnvAttribute, DbcAttribute, SyntheticAttribute, odbc3,
       mode_read_only, records_per_buffer_hint
  <2>3. CursorKind(o.claims) # "forward_only" => ~IsForwardOnlyCursor(o.claims)
    BY DEF CursorKind
  <2>4. CursorKind(o.claims) = "modifiable" => concur_read_only \notin o.claims
    BY DEF CursorKind, IsReadOnlyCursor, Contains
  <2> QED
    BY <2>1, <2>2, <2>3, <2>4 DEF Fits
<1>2. IInv => CursorKindFits
  BY <1>1 DEF CursorKindFits
<1> QED
  BY <1>2, AlwaysIInv, PTL

(* An exception tells of every record the driver had.                      *)
THEOREM RecordsAreTold == Spec => EveryRecordTold
<1>1. IInv /\ [Next]_vars =>
         [Throw => message = [i \in 1 .. Len(records) |->
                                 [rec |-> i, text |-> records[i] = "text"]]]_diagnostics
  <2> SUFFICES ASSUME IInv, Throw
               PROVE  message = [i \in 1 .. Len(records) |->
                                    [rec |-> i, text |-> records[i] = "text"]]
    OBVIOUS
  <2>1. /\ records \in RecordLists /\ rec \in 1 .. Len(records) + 1
        /\ message = [i \in 1 .. rec - 1 |-> [rec |-> i, text |-> records[i] = "text"]]
    BY DEF IInv, RecordsInv, Throw
  <2>2. records \in Seq(RecordKind) /\ rec > Len(records)
    BY <2>1, DiagnosticsAssumption DEF Throw, Answer, RecordKind
  <2>3. rec - 1 = Len(records)
    BY <2>1, <2>2
  <2> QED
    BY <2>1, <2>3
<1> QED
  BY <1>1, AlwaysIInv, PTL DEF Spec, EveryRecordTold

-----------------------------------------------------------------------------
(* What the end of every call rests on.                                    *)

(* While a call is under way each step brings its end nearer: an attribute *)
(* has been set, a record has been read, or the driver refuses and the     *)
(* records are read, from which no step leads back to the attributes.      *)
CallAdvances ==
    ~Idle =>
       \/ Idle'
       \/ /\ ~reporting /\ ~reporting'
          /\ \E x \in setup, y \in setup' : y.handle = x.handle /\ Len(y.todo) < Len(x.todo)
       \/ ~reporting /\ reporting' /\ setup' = setup
       \/ /\ reporting /\ reporting' /\ records' = records /\ setup' = setup
          /\ rec < rec' /\ rec' <= Len(records) + 1

(* Neither the loop over the attributes nor that over the records of a     *)
(* failed call stands still or starts again, whatever the driver answers;  *)
(* in particular ++rec never wraps around.                                 *)
THEOREM CallsAdvance == Spec => [][CallAdvances]_vars
<1>1. ASSUME IInv, Next, ~Idle PROVE CallAdvances
  <2>1. ASSUME NEW x \in setup, SetAttribute(x) \/ SetAttributeSubstituted(x) PROVE CallAdvances
    <3> DEFINE y == [x EXCEPT !.todo = Tail(@)]
    <3>1. /\ ~reporting /\ x.todo # <<>> /\ setup' = {y} /\ reporting' = reporting
      BY <2>1 DEF SetAttribute, SetAttributeSubstituted, diagnostics
    <3>2. x \in Setup /\ x.todo \in Seq(Attribute)
      BY <1>1 DEF IInv, TypeOK, Setup
    <3>3. y.handle = x.handle /\ y.todo = Tail(x.todo)
      BY <3>1, <3>2, TailLaw
    <3>4. Len(y.todo) < Len(x.todo)
      BY <3>1, <3>2, <3>3
    <3> HIDE DEF y
    <3> QED
      BY <3>1, <3>3, <3>4 DEF CallAdvances
  <2>2. ASSUME NEW x \in setup, SetAttributeFails(x) PROVE CallAdvances
    BY <2>2 DEF SetAttributeFails, CallFails, handleVars, CallAdvances
  <2>3. ASSUME NEW x \in setup, SetupDone(x) PROVE CallAdvances
    <3>1. ~reporting' /\ setup' = {}
      BY <2>3 DEF SetupDone, diagnostics
    <3> QED
      BY <3>1 DEF CallAdvances, Idle
  <2>4. CASE CollectRecord
    <3>1. /\ reporting /\ reporting' /\ records' = records /\ setup' = setup
          /\ rec' = IF rec = RecMax THEN -RecMax - 1 ELSE rec + 1
      BY <2>4 DEF CollectRecord, Collect, handleVars
    <3>2. records \in RecordLists /\ rec \in 1 .. Len(records) + 1 /\ Len(records) < RecMax
      BY <1>1, <3>1, DiagnosticsAssumption DEF IInv, RecordsInv
    <3>3. Len(records) \in Nat /\ RecMax \in Nat
      BY <3>2, DiagnosticsAssumption
    <3>4. rec <= Len(records)
      BY <2>4, <3>2, <3>3 DEF CollectRecord, Collect, Answer
    <3> QED
      BY <3>1, <3>2, <3>3, <3>4 DEF CallAdvances
  <2>5. CASE ThrowFromCall
    <3>1. ~reporting' /\ setup' = {}
      BY <2>5 DEF ThrowFromCall, Throw
    <3> QED
      BY <3>1 DEF CallAdvances, Idle
  <2> QED
    BY <1>1, <2>1, <2>2, <2>3, <2>4, <2>5
    DEF Next, GoOn, AllocateEnvThrows, AllocateEnv, Allocate, Set, Narrow, Connect, Disconnect,
        FreeDead, UseFreed, CallInvalid, FreeStmt, FreeDbc, FreeEnv, Work, Refused
<1>2. IInv /\ [Next]_vars => [CallAdvances]_vars
  BY <1>1 DEF CallAdvances
<1> QED
  BY AlwaysIInv, <1>2, PTL DEF Spec
=============================================================================
