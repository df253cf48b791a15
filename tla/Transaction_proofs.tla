-------------------------- MODULE Transaction_proofs -------------------------
(***************************************************************************)
(* For any number of scopes and statements, and whichever driver calls     *)
(* fail: scopes are all or nothing, what has been committed is kept, and   *)
(* the connection comes back to autocommit.                                *)
(***************************************************************************)
EXTENDS Transaction, TLAPS

(* The connection.  One scope at a time is open unless scopes are moved,   *)
(* and nothing is pending in autocommit mode.                              *)
ConnectionInv ==
    /\ autocommit => pending = {}
    /\ ~moved => \A s, t \in Open : s = t
    /\ ScopeEndsOnce
    /\ AutocommitRestored
    /\ PendingIsOwned

(* The scopes.  A scope that has committed is not open, and one that has   *)
(* executed something has been open.                                       *)
ScopeInv ==
    ~moved /\ ~overwritten =>
       /\ \A s \in Committed : state[s] \in {"null", "gone"}
       /\ \A w \in DOMAIN scopeOf : scopeOf[w] # NoScope => state[scopeOf[w]] # "new"

(* The work.  What an open scope has executed is pending, or durable after *)
(* half a commit; what is durable has been committed, unless it is that of *)
(* a scope the driver failed to end.                                       *)
WorkInv ==
    ~moved /\ ~overwritten =>
       /\ \A w \in DOMAIN scopeOf :
             /\ ~aborted /\ scopeOf[w] \in Open => w \in pending \cup durable
             /\ scopeOf[w] \in Committed => w \in durable
       /\ \A w \in durable : scopeOf[w] \in Committed \cup failed \cup {NoScope}

IInv == TypeOK /\ ConnectionInv /\ ScopeInv /\ WorkInv

-----------------------------------------------------------------------------
(* Before the first scope the invariant holds.                             *)
LEMMA InitEstablishesIInv == Init => IInv
<1> SUFFICES ASSUME Init PROVE IInv
  OBVIOUS
<1>1. TypeOK
  BY DEF Init, TypeOK
<1>2. Open = {} /\ Committed = {} /\ pending = {} /\ durable = {} /\ DOMAIN scopeOf = {}
  BY DEF Init, Open, Committed
<1> QED
  BY <1>1, <1>2 DEF Init, IInv, ConnectionInv, ScopeEndsOnce, AutocommitRestored, PendingIsOwned, ScopeInv,
                      WorkInv

(* What a change of one scope's state does to the set of open scopes.      *)
LEMMA EndsLaw ==
    ASSUME TypeOK, NEW s \in Scope, NEW how \in {"new", "open", "null", "gone"}, Ends(s, how)
    PROVE  /\ state' \in [Scope -> {"new", "open", "null", "gone"}]
           /\ state'[s] = how
           /\ \A t \in Scope \ {s} : state'[t] = state[t]
           /\ Open' = IF how = "open" THEN Open \cup {s} ELSE Open \ {s}
BY DEF TypeOK, Ends, Open

(* The same for its answer and the set of committed scopes.                *)
LEMMA AnswersLaw ==
    ASSUME TypeOK, NEW s \in Scope, NEW how \in {"returned", "threw"}, Answers(s, how)
    PROVE  /\ answer' \in [Scope -> {"none", "returned", "threw"}]
           /\ Committed' = IF how = "returned" THEN Committed \cup {s} ELSE Committed \ {s}
BY DEF TypeOK, Answers, Committed

-----------------------------------------------------------------------------
(* A scope opens, or its constructor throws.                               *)
LEMMA BeginKeepsIInv ==
    ASSUME IInv, NEW s \in Scope, Begin(s) \/ BeginFails(s)
    PROVE  IInv'
<1> USE TransactionAssumption
<1>1. CASE Begin(s)
  <2>1. /\ state'[s] = "open" /\ Open' = {s}
        /\ state' \in [Scope -> {"new", "open", "null", "gone"}]
        /\ \A t \in Scope \ {s} : state'[t] = state[t]
    BY <1>1, EndsLaw DEF Begin, IInv
  <2>2. Committed' = Committed /\ UNCHANGED <<asserts, aborted, answer, pending, durable, past, unfinished>>
    BY <1>1 DEF Begin, Committed
  <2>3. TypeOK'
    BY <1>1, <2>1, <2>2 DEF Begin, IInv, TypeOK, past
  <2>4. ConnectionInv'
    BY <1>1, <2>1, <2>2 DEF Begin, IInv, ConnectionInv, ScopeEndsOnce, AutocommitRestored,
                            PendingIsOwned, past
  <2>5. ScopeInv'
    BY <1>1, <2>1, <2>2 DEF Begin, IInv, TypeOK, ScopeInv, Committed, past
  <2>6. WorkInv'
    <3>1. ~moved /\ ~overwritten => \A w \in DOMAIN scopeOf : scopeOf[w] # s
      BY <1>1 DEF Begin, IInv, ScopeInv
    <3> QED
      BY <2>1, <2>2, <3>1 DEF IInv, WorkInv, past
  <2> QED
    BY <2>3, <2>4, <2>5, <2>6 DEF IInv
<1>2. CASE BeginFails(s)
  <2>1. /\ Open' = {} /\ Open = {} /\ state'[s] = "gone"
        /\ state' \in [Scope -> {"new", "open", "null", "gone"}]
        /\ \A t \in Scope \ {s} : state'[t] = state[t]
    BY <1>2, EndsLaw DEF BeginFails, IInv
  <2>2. Committed' = Committed /\ UNCHANGED <<asserts, aborted, answer, driver, past, unfinished>>
    BY <1>2 DEF BeginFails, Committed
  <2>3. TypeOK'
    BY <2>1, <2>2 DEF IInv, TypeOK, past, driver
  <2>4. ConnectionInv' /\ WorkInv'
    BY <2>1, <2>2 DEF IInv, ConnectionInv, ScopeEndsOnce, AutocommitRestored, PendingIsOwned,
                      WorkInv, past, driver
  <2>5. ScopeInv'
    BY <2>1, <2>2 DEF IInv, TypeOK, ScopeInv, Committed, past, driver
  <2> QED
    BY <2>3, <2>4, <2>5 DEF IInv
<1> QED
  BY <1>1, <1>2

-----------------------------------------------------------------------------
(* The program executes a statement: it is pending if a scope is open.     *)
LEMMA ExecuteKeepsIInv ==
    ASSUME IInv, NEW w \in Work, Execute(w)
    PROVE  IInv'
<1> USE TransactionAssumption
<1>1. /\ UNCHANGED <<asserts, aborted, autocommit, state, answer, failed, unfinished, moved,
                     overwritten>>
      /\ Open' = Open /\ Committed' = Committed
  BY DEF Execute, Open, Committed
<1>2. PICK s \in IF Open = {} THEN {NoScope} ELSE Open :
         scopeOf' = [v \in DOMAIN scopeOf \cup {w} |-> IF v = w THEN s ELSE scopeOf[v]]
  BY DEF Execute
<1>3. /\ w \notin DOMAIN scopeOf
      /\ DOMAIN scopeOf' = DOMAIN scopeOf \cup {w}
      /\ scopeOf'[w] = s
      /\ \A v \in DOMAIN scopeOf : scopeOf'[v] = scopeOf[v]
      /\ s \in Scope \cup {NoScope}
  BY <1>2 DEF Execute, Open
<1>4. /\ pending' = IF autocommit THEN pending ELSE pending \cup {w}
      /\ durable' = IF autocommit THEN durable \cup {w} ELSE durable
  BY DEF Execute
<1>5. TypeOK'
  <2>1. scopeOf' \in [DOMAIN scopeOf' -> Scope \cup {NoScope}]
    BY <1>2, <1>3 DEF IInv, TypeOK
  <2> QED
    BY <1>1, <1>3, <1>4, <2>1 DEF IInv, TypeOK
<1>6. ConnectionInv'
  <2>1. PendingIsOwned'
    <3>1. ~overwritten /\ ~autocommit /\ Open = {} => unfinished
      BY DEF IInv, ConnectionInv, AutocommitRestored
    <3>2. pending \subseteq DOMAIN scopeOf
      BY DEF IInv, TypeOK
    <3> QED
      BY <1>1, <1>2, <1>3, <1>4, <3>1, <3>2 DEF IInv, ConnectionInv, PendingIsOwned
  <2> QED
    BY <1>1, <1>4, <2>1 DEF IInv, ConnectionInv, ScopeEndsOnce, AutocommitRestored
<1>7. Open # {} => s \in Open /\ state[s] = "open" /\ s # NoScope
  BY <1>2 DEF Open
<1>8. Open = {} => s = NoScope
  BY <1>2
<1>9. ScopeInv'
  BY <1>1, <1>3, <1>7, <1>8 DEF IInv, ScopeInv
<1>10. WorkInv'
  <2>1. ~moved /\ Open # {} => ~autocommit
    BY DEF IInv, ConnectionInv, ScopeEndsOnce
  <2>2. ~moved /\ ~overwritten => s \notin Committed
    BY <1>3, <1>7, <1>8 DEF IInv, ScopeInv, Committed
  <2>3. pending \subseteq DOMAIN scopeOf /\ durable \subseteq DOMAIN scopeOf
    BY DEF IInv, TypeOK
  <2> QED
    BY <1>1, <1>3, <1>4, <1>7, <1>8, <2>1, <2>2, <2>3 DEF IInv, WorkInv
<1> QED
  BY <1>5, <1>6, <1>9, <1>10 DEF IInv

(* A scope ends, by commit() or by its destructor, and the driver does     *)
(* what it is told.                                                        *)
LEMMA EndKeepsIInv ==
    ASSUME IInv, NEW s \in Scope, Commit(s) \/ Rollback(s)
    PROVE  IInv'
<1> USE TransactionAssumption
<1>1. /\ state'[s] \in {"null", "gone"} /\ s \in Open /\ Open' = Open \ {s}
      /\ state' \in [Scope -> {"new", "open", "null", "gone"}]
      /\ \A t \in Scope \ {s} : state'[t] = state[t]
  BY EndsLaw DEF Commit, Rollback, IInv, Open
<1>2. /\ UNCHANGED <<asserts, aborted, scopeOf, failed, moved, overwritten>>
      /\ autocommit' /\ pending' = {} /\ autocommit' \in BOOLEAN /\ ~unfinished'
      /\ unfinished' \in BOOLEAN
  BY DEF Commit, Rollback, DriverCommits, DriverRollsBack, past
<1>3. ~moved => Open' = {}
  BY <1>1 DEF IInv, ConnectionInv
<1>4. \/ durable' = durable \cup pending /\ Committed' = Committed \cup {s}
      \/ durable' = durable /\ Committed' = Committed
  BY AnswersLaw DEF Commit, Rollback, DriverCommits, DriverRollsBack, IInv, Committed
<1>5. answer' \in [Scope -> {"none", "returned", "threw"}]
  BY AnswersLaw DEF Commit, Rollback, IInv, TypeOK
<1>6. TypeOK'
  BY <1>1, <1>2, <1>4, <1>5 DEF IInv, TypeOK
<1>7. ConnectionInv'
  BY <1>1, <1>2, <1>3
  DEF IInv, ConnectionInv, ScopeEndsOnce, AutocommitRestored, PendingIsOwned
<1>8. ScopeInv'
  BY <1>1, <1>2, <1>4 DEF IInv, TypeOK, ScopeInv, Committed
<1>9. WorkInv'
  <2>1. ~moved => \A t \in Open : t = s
    BY <1>1 DEF IInv, ConnectionInv
  <2>2. ~aborted
    BY DEF Commit, Rollback, Passes
  <2>3. CASE durable' = durable \cup pending /\ Committed' = Committed \cup {s}
    BY <1>1, <1>2, <1>3, <2>1, <2>2, <2>3 DEF IInv, ConnectionInv, PendingIsOwned, WorkInv
  <2>4. CASE durable' = durable /\ Committed' = Committed
    BY <1>1, <1>2, <1>3, <2>4 DEF IInv, WorkInv
  <2> QED
    BY <1>4, <2>3, <2>4
<1> QED
  BY <1>6, <1>7, <1>8, <1>9 DEF IInv

(* commit() throws: nothing has happened, or the work is durable but       *)
(* autocommit stays off.                                                   *)
LEMMA CommitThrowsKeepsIInv ==
    ASSUME IInv, NEW s \in Scope, CommitFails(s) \/ CommitHalf(s)
    PROVE  IInv'
<1> USE TransactionAssumption
<1>1. /\ answer' \in [Scope -> {"none", "returned", "threw"}]
      /\ Committed' = Committed \ {s}
  BY AnswersLaw DEF CommitFails, CommitHalf, IInv
<1>2. /\ UNCHANGED <<asserts, aborted, autocommit, state, scopeOf, unfinished, moved,
                     overwritten>>
      /\ Open' = Open /\ s \in Open
  BY DEF CommitFails, CommitHalf, driver, past, Open
<1>3. \/ UNCHANGED <<pending, durable, failed>>
      \/ durable' = durable \cup pending /\ pending' = {} /\ failed' = failed \cup {s}
  BY DEF CommitFails, CommitHalf, driver, past
<1>4. ~moved /\ ~overwritten => Committed' = Committed
  BY <1>1, <1>2 DEF IInv, ScopeInv, Open
<1>5. TypeOK'
  BY <1>1, <1>2, <1>3 DEF IInv, TypeOK
<1>6. ConnectionInv'
  BY <1>2, <1>3 DEF IInv, ConnectionInv, ScopeEndsOnce, AutocommitRestored, PendingIsOwned
<1>7. ScopeInv'
  BY <1>2, <1>4 DEF IInv, ScopeInv
<1>8. WorkInv'
  <2>1. ~moved => \A t \in Open : t = s
    BY <1>2 DEF IInv, ConnectionInv
  <2> QED
    BY <1>2, <1>3, <1>4, <2>1 DEF IInv, ConnectionInv, PendingIsOwned, WorkInv
<1> QED
  BY <1>5, <1>6, <1>7, <1>8 DEF IInv

(* The destructor cannot roll back, or has nothing to do.                  *)
LEMMA LeaveKeepsIInv ==
    ASSUME IInv, NEW s \in Scope, RollbackFails(s) \/ Leave(s)
    PROVE  IInv'
<1> USE TransactionAssumption
<1>1. /\ state'[s] = "gone" /\ Open' = Open \ {s}
      /\ state' \in [Scope -> {"new", "open", "null", "gone"}]
      /\ \A t \in Scope \ {s} : state'[t] = state[t]
  BY EndsLaw DEF RollbackFails, Leave, IInv
<1>2. /\ UNCHANGED <<asserts, aborted, autocommit, answer, durable, scopeOf, moved, overwritten>>
      /\ Committed' = Committed /\ pending' \in {pending, {}}
  BY DEF RollbackFails, Leave, driver, past, Committed
<1>3. \/ /\ failed' = failed \cup {s} /\ unfinished' = TRUE
         /\ s \in Open
      \/ failed' = failed /\ unfinished' = unfinished /\ Open' = Open /\ pending' = pending
  BY <1>1 DEF RollbackFails, Leave, driver, past, Open
<1>4. TypeOK'
  BY <1>1, <1>2, <1>3 DEF IInv, TypeOK
<1>5. ConnectionInv'
  BY <1>1, <1>2, <1>3
  DEF IInv, ConnectionInv, ScopeEndsOnce, AutocommitRestored, PendingIsOwned
<1>6. ScopeInv'
  BY <1>1, <1>2 DEF IInv, TypeOK, ScopeInv, Committed
<1>7. WorkInv'
  <2>1. ~moved => \A t \in Open : s \in Open => t = s
    BY DEF IInv, ConnectionInv
  <2> QED
    BY <1>1, <1>2, <1>3, <2>1 DEF IInv, WorkInv
<1> QED
  BY <1>4, <1>5, <1>6, <1>7 DEF IInv

(* A scope that has ended may be moved without consequences; moving an     *)
(* open one, or over an open one, is what the invariant excludes.          *)
LEMMA MoveKeepsIInv ==
    ASSUME IInv, NEW from \in Scope, NEW to \in Scope, Move(from, to)
    PROVE  IInv'
<1> USE TransactionAssumption
<1>1. /\ state'[to] = state[from] /\ state[from] \in {"open", "null"}
      /\ state' \in [Scope -> {"new", "open", "null", "gone"}]
      /\ \A t \in Scope \ {to} : state'[t] = state[t]
      /\ Open' = IF state[from] = "open" THEN Open \cup {to} ELSE Open \ {to}
  BY EndsLaw DEF Move, IInv
<1>2. /\ UNCHANGED <<asserts, aborted, answer, driver, scopeOf, failed, unfinished>>
      /\ Committed' = Committed
  BY DEF Move, Committed
<1>3. /\ moved' = (moved \/ state[from] = "open") /\ moved' \in BOOLEAN
      /\ overwritten' = (overwritten \/ state[to] = "open") /\ overwritten' \in BOOLEAN
  BY DEF Move
<1>4. /\ ~moved' => ~moved /\ Open' = Open \ {to}
      /\ ~overwritten' => ~overwritten /\ to \notin Open
  BY <1>1, <1>3 DEF Open
<1>5. TypeOK'
  BY <1>1, <1>2, <1>3 DEF IInv, TypeOK, driver
<1>6. ConnectionInv'
  <2>1. ~overwritten' /\ Open' = {} => Open = {}
    BY <1>1, <1>4
  <2> QED
    BY <1>1, <1>2, <1>4, <2>1
    DEF IInv, ConnectionInv, ScopeEndsOnce, AutocommitRestored, PendingIsOwned, driver
<1>7. ScopeInv'
  <2>1. ~moved' /\ ~overwritten' => state[from] = "null" /\ ~moved /\ ~overwritten
    BY <1>1, <1>3
  <2>2. state[from] = "null" => \A t \in Scope :
           state[t] \in {"null", "gone"} => state'[t] \in {"null", "gone"}
    BY <1>1
  <2>3. \A t \in Scope : state[t] # "new" => state'[t] # "new"
    BY <1>1
  <2> QED
    BY <1>2, <2>1, <2>2, <2>3 DEF IInv, TypeOK, ScopeInv, Committed
<1>8. WorkInv'
  <2>1. ~moved' /\ ~overwritten' => Open' = Open
    BY <1>4
  <2> QED
    BY <1>2, <1>4, <2>1 DEF IInv, WorkInv, driver
<1> QED
  BY <1>5, <1>6, <1>7, <1>8 DEF IInv

(* A failing assertion ends the process and undoes what is pending.        *)
LEMMA AbortKeepsIInv ==
    ASSUME IInv, NEW violated \in BOOLEAN, Abort(violated)
    PROVE  IInv'
<1>1. /\ aborted' = TRUE /\ pending' = {}
      /\ UNCHANGED <<asserts, autocommit, state, answer, durable, scopeOf, failed, unfinished,
                     moved, overwritten>>
      /\ Open' = Open /\ Committed' = Committed
  BY DEF Abort, past, Open, Committed
<1>2. TypeOK' /\ ConnectionInv' /\ ScopeInv'
  BY <1>1 DEF IInv, TypeOK, ConnectionInv, ScopeEndsOnce, AutocommitRestored, PendingIsOwned,
              ScopeInv
<1>3. WorkInv'
  BY <1>1 DEF IInv, WorkInv
<1> QED
  BY <1>2, <1>3 DEF IInv

-----------------------------------------------------------------------------
(* Every step of the scopes and the connection keeps the invariant.        *)
LEMMA StepKeepsIInv == IInv /\ [Next]_vars => IInv'
<1> SUFFICES ASSUME IInv, [Next]_vars PROVE IInv'
  OBVIOUS
<1>1. CASE \E s \in Scope : Begin(s) \/ BeginFails(s)
  BY <1>1, BeginKeepsIInv
<1>2. CASE \E s \in Scope : Commit(s) \/ Rollback(s)
  BY <1>2, EndKeepsIInv
<1>3. CASE \E s \in Scope : CommitFails(s) \/ CommitHalf(s)
  BY <1>3, CommitThrowsKeepsIInv
<1>4. CASE \E s \in Scope : RollbackFails(s) \/ Leave(s)
  BY <1>4, LeaveKeepsIInv
<1>5. CASE \E w \in Work : Execute(w)
  BY <1>5, ExecuteKeepsIInv
<1>6. CASE \E from, to \in Scope : Move(from, to)
  BY <1>6, MoveKeepsIInv
<1>7. CASE BeginAborts \/ EndAborts \/ RollbackAborts
  <2>1. Abort(autocommit) \/ Abort(~autocommit)
    BY <1>7 DEF BeginAborts, EndAborts, RollbackAborts
  <2>2. autocommit \in BOOLEAN /\ (~autocommit) \in BOOLEAN
    BY DEF IInv, TypeOK
  <2> QED
    BY <2>1, <2>2, AbortKeepsIInv
<1>8. CASE UNCHANGED vars
  BY <1>8 DEF vars, driver, past, IInv, TypeOK, ConnectionInv, ScopeEndsOnce,
              AutocommitRestored, PendingIsOwned, ScopeInv, WorkInv, Open, Committed
<1> QED
  BY <1>1, <1>2, <1>3, <1>4, <1>5, <1>6, <1>7, <1>8 DEF Next

(* The inductive invariant holds of every reachable state.                 *)
THEOREM InvariantHolds == Spec => []IInv
<1>1. Init => IInv
  BY InitEstablishesIInv
<1>2. IInv /\ [Next]_vars => IInv'
  BY StepKeepsIInv
<1> QED
  BY <1>1, <1>2, PTL DEF Spec

(* Every reachable state is well typed.                                    *)
THEOREM TypeCorrect == Spec => []TypeOK
<1>1. IInv => TypeOK
  BY DEF IInv
<1> QED
  BY <1>1, InvariantHolds, PTL

(* What a ScopedTransaction executed is durable exactly when its commit()  *)
(* returned, however the scopes before it ended.                           *)
THEOREM AllOrNothing == Spec => []ScopeIsAtomic
<1>1. IInv => ScopeIsAtomic
  <2> SUFFICES ASSUME IInv, ~moved, ~overwritten,
                      NEW w \in DOMAIN scopeOf, scopeOf[w] \notin failed \cup {NoScope}
               PROVE  w \in durable <=> scopeOf[w] \in Committed
    BY DEF ScopeIsAtomic
  <2> QED
    BY DEF IInv, WorkInv
<1> QED
  BY <1>1, InvariantHolds, PTL

(* What commit() has returned for stays in the database, whatever fails    *)
(* later.                                                                  *)
THEOREM CommitIsKept == Spec => []CommittedIsDurable
<1>1. IInv => CommittedIsDurable
  BY DEF IInv, WorkInv, CommittedIsDurable
<1> QED
  BY <1>1, InvariantHolds, PTL

(* end_transaction gives the connection back in autocommit mode with       *)
(* nothing pending.                                                        *)
THEOREM AutocommitComesBack == Spec => []AutocommitRestored
<1>1. IInv => AutocommitRestored
  BY DEF IInv, ConnectionInv
<1> QED
  BY <1>1, InvariantHolds, PTL

(* Nobody's work is committed by somebody else, except after a rollback    *)
(* that failed, until the next transaction ends.                           *)
THEOREM PendingBelongs == Spec => []PendingIsOwned
<1>1. IInv => PendingIsOwned
  BY DEF IInv, ConnectionInv
<1> QED
  BY <1>1, InvariantHolds, PTL

(* Unless scopes are moved, the assertion of end_transaction holds.        *)
THEOREM EndsAnOpenTransaction == Spec => []ScopeEndsOnce
<1>1. IInv => ScopeEndsOnce
  BY DEF IInv, ConnectionInv
<1> QED
  BY <1>1, InvariantHolds, PTL
=============================================================================
