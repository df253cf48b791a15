--------------------------- MODULE Statement_proofs --------------------------
(***************************************************************************)
(* For any rows, buffer size, numbers of parameters and of columns, and    *)
(* whichever driver calls fail: what a query or a cursor leaves behind at  *)
(* the driver does no harm to those that use the statement after it, and   *)
(* every row inserted through a cursor is stored once at most.             *)
(***************************************************************************)
EXTENDS Statement, FiniteSetTheorems, TLAPS

(* A query in progress has the statement to itself, and has bound some of  *)
(* its parameters, or all of them.                                         *)
PhaseInv ==
    /\ phase # "none" => holder \in {"caller", "frame"} /\ ~lent /\ step = "idle"
    /\ phase = "bind" => numBound < numParams
    /\ phase = "prepare" => numBound = numParams
    /\ phase \in {"none", "construct"} => numParams = 0
    /\ step # "idle" => HasCursor

(* The parameters it has bound are live, and no others are bound but those *)
(* of a query whose statement the caller has kept.                         *)
ParamsInv ==
    /\ \A i \in 1 .. numBound : params[i] = "live"
    /\ \A i \in Param : ~used /\ i > numBound => params[i] = "unbound"

(* No columns are bound to a statement without a cursor.                   *)
ColumnsInv == OwnColumnsOnly /\ (~HasCursor /\ ~leftBehind => columns = 0)

(* A cursor has the driver count into its own member.                      *)
CountInv == FreshCursorCounts /\ (HasCursor /\ ~disturbed => countInto = "member")

(* While the columns are not bound there are deletes to be done, after     *)
(* which they are bound again, or there is nothing to insert into.         *)
ChangesInv ==
    /\ step \in {"rebind", "insert"} => deletes = <<>>
    /\ HasCursor /\ open /\ ~rebindFailed /\ bound # "columns" =>
          deletes # <<>> \/ step = "rebind"
    /\ InsertsUseColumns

IInv ==
    /\ StatementTypeOK /\ PhaseInv /\ ParamsInv
    /\ ColumnsInv /\ CountInv /\ ChangesInv /\ EachInsertOnce

(* What a cursor's operations are made of.                                 *)
CursorAction ==
    \/ Fetch \/ DeleteRows \/ AddRows
    \/ \E r \in Row : Remove(r)
    \/ \E n \in NewRow : Insert(n)
    \/ ApplyStart \/ ApplyStartFails
    \/ DeleteFails \/ Rebind \/ RebindFails \/ AddFails

-----------------------------------------------------------------------------
(* Where a row waits in a list of inserts.                                 *)
Places(list, n) == {i \in DOMAIN list : list[i] = n}

(* A row waits somewhere exactly if its places have a number but zero.     *)
LEMMA PlacesLaw ==
    ASSUME NEW S, NEW list \in Seq(S), NEW n
    PROVE  /\ Cardinality(Places(list, n)) \in Nat
           /\ Cardinality(Places(list, n)) = 0 <=> n \notin Range(list)
<1>1. IsFiniteSet(1 .. Len(list)) /\ DOMAIN list = 1 .. Len(list)
  BY FS_Interval
<1>2. IsFiniteSet(Places(list, n))
  BY <1>1, FS_Subset DEF Places
<1>3. Places(list, n) = {} <=> n \notin Range(list)
  BY DEF Places, Range
<1> QED
  BY <1>2, <1>3, FS_CardinalityType, FS_EmptySet

(* A row put at the end has one place more, if it had none one.            *)
LEMMA AppendLaw ==
    ASSUME NEW S, NEW list \in Seq(S), NEW new \in S, new \notin Range(list), NEW n
    PROVE  Cardinality(Places(Append(list, new), n))
              = IF n = new THEN 1 ELSE Cardinality(Places(list, n))
<1>1. \A i \in DOMAIN list : list[i] # new
  BY DEF Range
<1>2. CASE n = new
  <2>1. Places(Append(list, new), n) = {Len(list) + 1}
    BY <1>1, <1>2 DEF Places
  <2> QED
    BY <1>2, <2>1, FS_Singleton
<1>3. CASE n # new
  <2>1. Places(Append(list, new), n) = Places(list, n)
    BY <1>3 DEF Places
  <2> QED
    BY <1>3, <2>1
<1> QED
  BY <1>2, <1>3

-----------------------------------------------------------------------------
(* A statement that has not been allocated satisfies the invariant.        *)
LEMMA InitEstablishesIInv == StatementInit => IInv
<1> SUFFICES ASSUME StatementInit PROVE IInv
  OBVIOUS
<1>1. NoChanges /\ bound = "nothing" /\ countInto = "elsewhere"
  BY DEF StatementInit
<1>2. TypeOK
  <2>1. /\ added \in [NewRow -> Nat] /\ deletes \in Seq(Row) /\ inserts \in Seq(NewRow)
        /\ rows \subseteq Row /\ refused \subseteq NewRow /\ garbled \subseteq NewRow
        /\ seen \subseteq Row /\ queued \subseteq NewRow
    BY <1>1 DEF NoChanges
  <2>2. /\ lastFetch \in [driver : 0 .. BufferSize, told : 0 .. BufferSize]
        /\ fetched \in 0 .. BufferSize
    BY <1>1, ModifiableAssumption DEF NoChanges
  <2> QED
    BY <1>1, <2>1, <2>2 DEF TypeOK, NoChanges
<1>3. StatementTypeOK
  <2>1. /\ numBound \in 0 .. numParams /\ numParams \in 0 .. MaxParams
        /\ placeholders \in 0 .. MaxParams
        /\ params \in [Param -> {"unbound", "live", "dead"}]
        /\ columns \in 0 .. MaxColumns /\ own \in 0 .. MaxColumns
    BY StatementAssumption DEF StatementInit, Unbound
  <2>2. /\ holder \in {"caller", "frame", "cursor", "nobody"}
        /\ phase \in {"none", "bind", "prepare", "construct"}
        /\ lent \in BOOLEAN /\ (lent => holder = "caller")
        /\ used \in BOOLEAN /\ open \in BOOLEAN
        /\ leftBehind \in BOOLEAN /\ disturbed \in BOOLEAN
    BY DEF StatementInit
  <2> QED
    BY <1>2, <2>1, <2>2 DEF StatementTypeOK
<1>4. EachInsertOnce
  <2>1. \A n \in NewRow : {i \in DOMAIN inserts : inserts[i] = n} = {}
    BY <1>1 DEF NoChanges
  <2> QED
    BY <1>1, <2>1, FS_EmptySet DEF EachInsertOnce, NoChanges
<1>5. PhaseInv /\ ParamsInv /\ ColumnsInv /\ CountInv /\ ChangesInv
  BY DEF StatementInit, NoChanges, PhaseInv, ParamsInv, ColumnsInv, CountInv, ChangesInv,
         HasCursor, Unbound, OwnColumnsOnly, FreshCursorCounts, InsertsUseColumns
<1> QED
  BY <1>3, <1>4, <1>5 DEF IInv

-----------------------------------------------------------------------------
(* Types.                                                                  *)

(* A cursor's operations keep the cursor's types.                          *)
LEMMA CursorActionKeepsType ==
    ASSUME TypeOK, CursorAction
    PROVE  TypeOK'
<1>1. CASE Fetch
  <2>1. PICK batch \in SUBSET rows :
           /\ Cardinality(batch) <= BufferSize
           /\ fetched' = IF countInto = "member" THEN Cardinality(batch) ELSE fetched
           /\ lastFetch' = [driver |-> Cardinality(batch),
                            told |-> IF Cardinality(batch) = 0 THEN 0
                                     ELSE IF countInto = "member" THEN Cardinality(batch)
                                     ELSE fetched]
           /\ \E kept \in SUBSET batch : seen' = IF bound = "columns" THEN seen \cup kept ELSE seen
    BY <1>1 DEF Fetch
  <2>2. Cardinality(batch) \in 0 .. BufferSize
    <3>1. IsFiniteSet(batch)
      BY ModifiableAssumption, FS_Subset DEF TypeOK
    <3> QED
      BY <2>1, <3>1, FS_CardinalityType, ModifiableAssumption
  <2>3. fetched' \in 0 .. BufferSize
    BY <2>1, <2>2 DEF TypeOK
  <2>4. lastFetch' \in [driver : 0 .. BufferSize, told : 0 .. BufferSize]
    BY <2>1, <2>2, ModifiableAssumption DEF TypeOK
  <2>5. seen' \subseteq Row
    BY <2>1 DEF TypeOK
  <2> QED
    BY <1>1, <2>3, <2>4, <2>5 DEF Fetch, TypeOK, table, lists
<1>2. CASE DeleteRows
  BY <1>2 DEF DeleteRows, TypeOK, fetching
<1>3. CASE AddRows
  <2>1. Range(inserts) \subseteq NewRow
    BY DEF TypeOK, Range
  <2>2. PICK taken \in SUBSET Range(inserts) :
           /\ added' = [n \in NewRow |-> IF n \in taken THEN added[n] + 1 ELSE added[n]]
           /\ refused' = refused \cup (Range(inserts) \ taken)
           /\ garbled' = IF bound = "columns" THEN garbled ELSE garbled \cup taken
    BY <1>3 DEF AddRows
  <2>3. added' \in [NewRow -> Nat] /\ refused' \subseteq NewRow /\ garbled' \subseteq NewRow
    BY <2>1, <2>2 DEF TypeOK
  <2> QED
    BY <1>3, <2>3 DEF AddRows, TypeOK, fetching
<1>4. ASSUME NEW r \in Row, Remove(r) PROVE TypeOK'
  BY <1>4 DEF Remove, TypeOK, table, fetching
<1>5. ASSUME NEW n \in NewRow, Insert(n) PROVE TypeOK'
  BY <1>5 DEF Insert, TypeOK, table, fetching
<1>6. CASE ApplyStart
  BY <1>6 DEF ApplyStart, StepAfterStart, TypeOK, table, lists, fetching
<1>7. CASE ApplyStartFails
  BY <1>7 DEF ApplyStartFails, Throw, TypeOK, table, lists, fetching
<1>8. CASE DeleteFails \/ AddFails
  BY <1>8 DEF DeleteFails, AddFails, Throw, TypeOK, table, lists, fetching
<1>9. CASE Rebind \/ RebindFails
  BY <1>9 DEF Rebind, RebindFails, Throw, StepAfterDeletes, TypeOK, table, lists, fetching
<1> QED
  BY <1>1, <1>2, <1>3, <1>4, <1>5, <1>6, <1>7, <1>8, <1>9 DEF CursorAction

(* So does the end of the cursor.                                          *)
LEMMA CursorEndsKeepsType ==
    ASSUME TypeOK, CursorEnds, step = "idle",
           bound' \in {"columns", "bookmarks", "nothing"}, countInto' \in {"member", "elsewhere"}
    PROVE  TypeOK'
<1>1. lastFetch' \in [driver : 0 .. BufferSize, told : 0 .. BufferSize] /\ fetched' \in 0 .. BufferSize
  BY ModifiableAssumption DEF CursorEnds
<1>2. deletes' \in Seq(Row) /\ inserts' \in Seq(NewRow)
  BY DEF CursorEnds
<1> QED
  BY <1>1, <1>2 DEF CursorEnds, TypeOK
(* The statement's own types, in three parts.                              *)
Flags ==
    /\ lent \in BOOLEAN /\ used \in BOOLEAN /\ open \in BOOLEAN
    /\ leftBehind \in BOOLEAN /\ disturbed \in BOOLEAN

Control ==
    /\ holder \in {"caller", "frame", "cursor", "nobody"}
    /\ lent => holder = "caller"
    /\ phase \in {"none", "bind", "prepare", "construct"}

Numbers ==
    /\ numParams \in 0 .. MaxParams
    /\ numBound \in 0 .. numParams
    /\ placeholders \in 0 .. MaxParams
    /\ params \in [Param -> {"unbound", "live", "dead"}]
    /\ columns \in 0 .. MaxColumns
    /\ own \in 0 .. MaxColumns

(* Every step keeps the type invariant.                                    *)
LEMMA NextKeepsType ==
    ASSUME StatementTypeOK, PhaseInv, StatementNext
    PROVE  StatementTypeOK'
<1> SUFFICES TypeOK' /\ Flags' /\ Control' /\ Numbers'
  BY DEF StatementTypeOK, Flags, Control, Numbers
<1> DEFINE Goal == TypeOK' /\ Flags' /\ Control' /\ Numbers'
<1> HIDE DEF Goal
<1> USE StatementAssumption DEF Param
<1>1. TypeOK /\ Flags /\ Control /\ Numbers
  BY DEF StatementTypeOK, Flags, Control, Numbers
<1>2. /\ Dangling \in [Param -> {"unbound", "live", "dead"}]
      /\ Unbound \in [Param -> {"unbound", "live", "dead"}]
  BY <1>1 DEF Dangling, Unbound, Numbers
<1>3. ASSUME CursorEnds, StatementFreed, step = "idle" PROVE TypeOK'
  BY <1>1, <1>3, CursorEndsKeepsType DEF StatementFreed
<1>4. ASSUME NEW k \in 0 .. 3, Cleaned(k)
      PROVE  /\ open' \in BOOLEAN /\ used' \in BOOLEAN /\ columns' \in 0 .. MaxColumns
             /\ bound' \in {"columns", "bookmarks", "nothing"}
             /\ params' \in [Param -> {"unbound", "live", "dead"}]
  BY <1>1, <1>2, <1>4 DEF Cleaned, TypeOK, Flags, Numbers
<1>5. CASE AllocateStatement
  <2>1. TypeOK'
    BY <1>1, <1>5 DEF AllocateStatement, TypeOK, vars, table, lists, fetching
  <2>2. Flags'
    BY <1>1, <1>5 DEF Flags, AllocateStatement, vars, queryVars
  <2>3. Control'
    BY <1>1, <1>5 DEF Control, AllocateStatement, vars, queryVars
  <2>4. Numbers'
    BY <1>1, <1>5 DEF Numbers, AllocateStatement, vars, queryVars
  <2> QED
    BY <2>1, <2>2, <2>3, <2>4 DEF Goal
<1>6. ASSUME NEW k \in 0 .. MaxParams, NEW m \in 0 .. MaxParams, Query(k, m) PROVE Goal
  <2>1. TypeOK'
    BY <1>1, <1>6 DEF Query, TypeOK, vars, table, lists, fetching
  <2>2. Flags'
    BY <1>1, <1>6 DEF Flags, Query, vars, statementVars
  <2>3. Control'
    BY <1>1, <1>6 DEF Control, Query, vars, statementVars
  <2>4. Numbers'
    BY <1>1, <1>6 DEF Numbers, Query, vars, statementVars
  <2> QED
    BY <2>1, <2>2, <2>3, <2>4 DEF Goal
<1>7. CASE BindParam
  <2>0. numBound < numParams
    BY <1>1, <1>7 DEF BindParam, PhaseInv
  <2>1. TypeOK'
    BY <1>1, <1>7, <2>0 DEF BindParam, TypeOK, vars, table, lists, fetching
  <2>2. Flags'
    BY <1>1, <1>7, <2>0 DEF Flags, BindParam, statementVars
  <2>3. Control'
    BY <1>1, <1>7, <2>0 DEF Control, BindParam, statementVars
  <2>4. Numbers'
    BY <1>1, <1>7, <2>0 DEF Numbers, BindParam, statementVars
  <2> QED
    BY <2>1, <2>2, <2>3, <2>4 DEF Goal
<1>8. CASE QueryFails
  <2>0. step = "idle"
    BY <1>1, <1>8 DEF QueryFails, PhaseInv
  <2>1. TypeOK'
    BY <1>1, <1>8, <2>0, <1>3 DEF QueryFails, TypeOK, vars, table, lists, fetching
  <2>2. Flags'
    BY <1>1, <1>8, <2>0, <1>2 DEF Flags, QueryFails, UsedNow, QueryOver, CursorEnds, StatementFreed,
       statementVars
  <2>3. Control'
    BY <1>1, <1>8, <2>0, <1>2 DEF Control, QueryFails, QueryOver, CursorEnds, StatementFreed,
       statementVars
  <2>4. Numbers'
    BY <1>1, <1>8, <2>0, <1>2 DEF Numbers, QueryFails, QueryOver, CursorEnds, StatementFreed,
       statementVars
  <2> QED
    BY <2>1, <2>2, <2>3, <2>4 DEF Goal
<1>9. CASE Execute
  <2>0. step = "idle" /\ ~lent /\ used' \in BOOLEAN
    BY <1>1, <1>9 DEF Execute, CanExecute, UsedNow, StatementFreed, Flags, PhaseInv
  <2>1. TypeOK'
    BY <1>1, <1>9, <2>0, <1>3 DEF Execute, TypeOK, vars, table, lists, fetching
  <2>2. Flags'
    BY <1>1, <1>9, <2>0, <1>2 DEF Flags, Execute, QueryOver, CursorEnds, StatementFreed
  <2>3. Control'
    BY <1>1, <1>9, <2>0, <1>2 DEF Control, Execute, QueryOver, CursorEnds, StatementFreed
  <2>4. Numbers'
    BY <1>1, <1>9, <2>0, <1>2 DEF Numbers, Execute, QueryOver, CursorEnds, StatementFreed
  <2> QED
    BY <2>1, <2>2, <2>3, <2>4 DEF Goal
<1>10. CASE ExecuteForCursor
  <2>0. used' \in BOOLEAN
    BY <1>1, <1>10 DEF ExecuteForCursor, UsedNow, Flags
  <2>1. TypeOK'
    BY <1>1, <1>10, <2>0 DEF ExecuteForCursor, TypeOK, vars, table, lists, fetching
  <2>2. Flags'
    BY <1>1, <1>10, <2>0, <1>2 DEF Flags, ExecuteForCursor
  <2>3. Control'
    BY <1>1, <1>10, <2>0, <1>2 DEF Control, ExecuteForCursor
  <2>4. Numbers'
    BY <1>1, <1>10, <2>0, <1>2 DEF Numbers, ExecuteForCursor
  <2> QED
    BY <2>1, <2>2, <2>3, <2>4 DEF Goal
<1>11. ASSUME NEW w \in 1 .. MaxColumns, Construct(w) PROVE Goal
  <2>0. ~lent
    BY <1>1, <1>11 DEF Construct, PhaseInv
  <2>1. TypeOK'
    BY <1>1, <1>11, <2>0 DEF Construct, TypeOK, vars, table, lists, fetching
  <2>2. Flags'
    BY <1>1, <1>11, <2>0 DEF Flags, Construct
  <2>3. Control'
    BY <1>1, <1>11, <2>0 DEF Control, Construct
  <2>4. Numbers'
    BY <1>1, <1>11, <2>0 DEF Numbers, Construct
  <2> QED
    BY <2>1, <2>2, <2>3, <2>4 DEF Goal
<1>12. ASSUME NEW w \in 1 .. MaxColumns, ConstructFails(w) PROVE Goal
  <2>0. step = "idle"
    BY <1>1, <1>12 DEF ConstructFails, PhaseInv
  <2>1. TypeOK'
    BY <1>1, <1>12, <2>0, CursorEndsKeepsType DEF ConstructFails, StatementFreed, TypeOK
  <2>2. Flags'
    BY <1>1, <1>12, <2>0, <1>2 DEF Flags, ConstructFails, CursorEnds, StatementFreed
  <2>3. Control'
    BY <1>1, <1>12, <2>0, <1>2 DEF Control, ConstructFails, CursorEnds, StatementFreed
  <2>4. Numbers'
    BY <1>1, <1>12, <2>0, <1>2 DEF Numbers, ConstructFails, CursorEnds, StatementFreed
  <2> QED
    BY <2>1, <2>2, <2>3, <2>4 DEF Goal
<1>13. CASE MoveCursor
  <2>1. TypeOK'
    BY <1>1, <1>13 DEF MoveCursor, TypeOK, vars, table, lists, fetching
  <2>2. Flags'
    BY <1>1, <1>13 DEF Flags, MoveCursor, queryVars
  <2>3. Control'
    BY <1>1, <1>13 DEF Control, MoveCursor, queryVars
  <2>4. Numbers'
    BY <1>1, <1>13 DEF Numbers, MoveCursor, queryVars
  <2> QED
    BY <2>1, <2>2, <2>3, <2>4 DEF Goal
<1>14. CASE UseCursor
  <2>0. CursorAction
    BY <1>1, <1>14 DEF UseCursor, CursorAction
  <2>1. TypeOK'
    BY <1>1, <1>14, <2>0, CursorActionKeepsType DEF UseCursor
  <2>2. Flags'
    BY <1>1, <1>14, <2>0 DEF Flags, UseCursor, ColumnsFollow, queryVars
  <2>3. Control'
    BY <1>1, <1>14, <2>0 DEF Control, UseCursor, ColumnsFollow, queryVars
  <2>4. Numbers'
    BY <1>1, <1>14, <2>0 DEF Numbers, UseCursor, ColumnsFollow, queryVars
  <2> QED
    BY <2>1, <2>2, <2>3, <2>4 DEF Goal
<1>15. CASE DestroyCursor
  <2>0. step = "idle"
    BY <1>1, <1>15 DEF DestroyCursor, Idle
  <2>1. TypeOK'
    BY <1>1, <1>15, <2>0, CursorEndsKeepsType DEF DestroyCursor, StatementFreed, TypeOK
  <2>2. Flags'
    BY <1>1, <1>15, <2>0, <1>2 DEF Flags, DestroyCursor, CursorEnds, StatementFreed
  <2>3. Control'
    BY <1>1, <1>15, <2>0, <1>2 DEF Control, DestroyCursor, CursorEnds, StatementFreed
  <2>4. Numbers'
    BY <1>1, <1>15, <2>0, <1>2 DEF Numbers, DestroyCursor, CursorEnds, StatementFreed
  <2> QED
    BY <2>1, <2>2, <2>3, <2>4 DEF Goal
<1>16. CASE Release
  <2>0. step = "idle"
    BY <1>1, <1>16 DEF Release, Idle
  <2>1. TypeOK'
    BY <1>1, <1>16, <2>0, CursorEndsKeepsType DEF Release, Cleaned, TypeOK
  <2>2. Flags'
    BY <1>1, <1>16, <2>0, <1>2 DEF Flags, Release, CursorEnds, Cleaned
  <2>3. Control'
    BY <1>1, <1>16, <2>0, <1>2 DEF Control, Release, CursorEnds, Cleaned
  <2>4. Numbers'
    BY <1>1, <1>16, <2>0, <1>2 DEF Numbers, Release, CursorEnds, Cleaned
  <2> QED
    BY <2>1, <2>2, <2>3, <2>4 DEF Goal
<1>17. CASE ReleaseFails
  <2>0. \E k \in 0 .. 3 : Cleaned(k)
    BY <1>1, <1>17 DEF ReleaseFails
  <2>1. TypeOK'
    BY <1>1, <1>17, <2>0, <1>4 DEF ReleaseFails, TypeOK, vars, table, lists, fetching
  <2>2. Flags'
    BY <1>1, <1>17, <2>0, <1>4 DEF Flags, ReleaseFails
  <2>3. Control'
    BY <1>1, <1>17, <2>0, <1>4 DEF Control, ReleaseFails
  <2>4. Numbers'
    BY <1>1, <1>17, <2>0, <1>4 DEF Numbers, ReleaseFails
  <2> QED
    BY <2>1, <2>2, <2>3, <2>4 DEF Goal
<1>18. CASE CallerCleans
  <2>0. (\E k \in 0 .. 3 : Cleaned(k)) /\ leftBehind' \in BOOLEAN
    BY <1>1, <1>18 DEF CallerCleans
  <2>1. TypeOK'
    BY <1>1, <1>18, <2>0, <1>4 DEF CallerCleans, TypeOK, vars, table, lists, fetching
  <2>2. Flags'
    BY <1>1, <1>18, <2>0, <1>4 DEF Flags, CallerCleans
  <2>3. Control'
    BY <1>1, <1>18, <2>0, <1>4 DEF Control, CallerCleans
  <2>4. Numbers'
    BY <1>1, <1>18, <2>0, <1>4 DEF Numbers, CallerCleans
  <2> QED
    BY <2>1, <2>2, <2>3, <2>4 DEF Goal
<1>19. CASE CallerFrees
  <2>0. step = "idle"
    BY <1>1, <1>19 DEF CallerFrees, Idle
  <2>1. TypeOK'
    BY <1>1, <1>19, <2>0, <1>3 DEF CallerFrees, TypeOK, vars, table, lists, fetching
  <2>2. Flags'
    BY <1>1, <1>19, <2>0, <1>2 DEF Flags, CallerFrees, StatementFreed, CursorEnds
  <2>3. Control'
    BY <1>1, <1>19, <2>0, <1>2 DEF Control, CallerFrees, StatementFreed, CursorEnds
  <2>4. Numbers'
    BY <1>1, <1>19, <2>0, <1>2 DEF Numbers, CallerFrees, StatementFreed, CursorEnds
  <2> QED
    BY <2>1, <2>2, <2>3, <2>4 DEF Goal
<1> QED
    BY <1>5, <1>6, <1>7, <1>8, <1>9, <1>10, <1>11, <1>12, <1>13, <1>14, <1>15, <1>16, <1>17,
       <1>18, <1>19 DEF StatementNext, Goal

-----------------------------------------------------------------------------
(* The phases of a query.                                                  *)
LEMMA NextKeepsPhase ==
    ASSUME StatementTypeOK, PhaseInv, StatementNext
    PROVE  PhaseInv'
<1>1. CASE AllocateStatement
  BY <1>1 DEF PhaseInv, HasCursor, StatementTypeOK, AllocateStatement, vars, queryVars
<1>2. ASSUME NEW k \in 0 .. MaxParams, NEW m \in 0 .. MaxParams, Query(k, m) PROVE PhaseInv'
  BY <1>2 DEF PhaseInv, HasCursor, StatementTypeOK, Query, Idle, vars, statementVars
<1>3. CASE BindParam
  BY <1>3 DEF PhaseInv, HasCursor, StatementTypeOK, BindParam, vars, statementVars
<1>4. CASE QueryFails
  BY <1>4 DEF PhaseInv, HasCursor, StatementTypeOK, QueryFails, QueryOver, CursorEnds,
     StatementFreed, vars, statementVars
<1>5. CASE Execute
  BY <1>5 DEF PhaseInv, HasCursor, StatementTypeOK, Execute, CanExecute, QueryOver, CursorEnds,
     StatementFreed, vars
<1>6. CASE ExecuteForCursor
  BY <1>6 DEF PhaseInv, HasCursor, StatementTypeOK, ExecuteForCursor, CanExecute, vars
<1>7. ASSUME NEW w \in 1 .. MaxColumns, Construct(w) PROVE PhaseInv'
  BY <1>7 DEF PhaseInv, HasCursor, StatementTypeOK, Construct
<1>8. ASSUME NEW w \in 1 .. MaxColumns, ConstructFails(w) PROVE PhaseInv'
  BY <1>8 DEF PhaseInv, HasCursor, StatementTypeOK, ConstructFails, CursorEnds, StatementFreed
<1>9. CASE MoveCursor
  BY <1>9 DEF PhaseInv, HasCursor, StatementTypeOK, MoveCursor, Idle, queryVars
<1>10. CASE UseCursor
  BY <1>10 DEF PhaseInv, HasCursor, StatementTypeOK, UseCursor, queryVars
<1>11. CASE DestroyCursor \/ Release \/ CallerFrees
  BY <1>11 DEF PhaseInv, HasCursor, StatementTypeOK, DestroyCursor, Release, CallerFrees,
     Idle, CursorEnds, StatementFreed
<1>12. CASE ReleaseFails \/ CallerCleans
  BY <1>12 DEF PhaseInv, HasCursor, StatementTypeOK, ReleaseFails, CallerCleans, Idle
<1> QED
  BY <1>1, <1>2, <1>3, <1>4, <1>5, <1>6, <1>7, <1>8, <1>9, <1>10, <1>11, <1>12 DEF
     StatementNext

(* The parameters the driver reads.                                        *)
LEMMA NextKeepsParams ==
    ASSUME StatementTypeOK, PhaseInv, ParamsInv, StatementNext
    PROVE  ParamsInv'
<1> USE DEF Param
<1>0. /\ numBound \in Nat /\ numParams \in 0 .. MaxParams /\ used \in BOOLEAN
      /\ params \in [Param -> {"unbound", "live", "dead"}]
  BY StatementAssumption DEF StatementTypeOK
<1>1. ASSUME NEW k \in Nat, Cleaned(k), UNCHANGED numBound, numBound = 0 PROVE ParamsInv'
  BY <1>0, <1>1 DEF ParamsInv, Cleaned, Unbound
<1>2. ASSUME StatementFreed, numBound' = 0 PROVE ParamsInv'
  BY <1>2 DEF ParamsInv, StatementFreed, Unbound
<1>3. ASSUME UNCHANGED <<params, numBound, used>> PROVE ParamsInv'
  BY <1>3 DEF ParamsInv
<1>4. ASSUME params' = Dangling, UsedNow, numBound' = 0 PROVE ParamsInv'
  <2>1. \A i \in Param : params[i] = "unbound" => params'[i] = "unbound"
    BY <1>4 DEF Dangling
  <2>2. CASE numBound > 0
    <3>1. used'
      BY <1>4, <2>2 DEF UsedNow
    <3>2. \A i \in 1 .. numBound' : FALSE
      BY <1>4
    <3> QED
      BY <3>1, <3>2 DEF ParamsInv
  <2>3. CASE numBound = 0
    <3>1. used' <=> used
      BY <1>0, <1>4, <2>3 DEF UsedNow
    <3>2. \A i \in 1 .. numBound' : FALSE
      BY <1>4
    <3>3. \A i \in Param : i > 0
      OBVIOUS
    <3>4. \A i \in Param : ~used => params[i] = "unbound"
      BY <2>3, <3>3 DEF ParamsInv
    <3> QED
      BY <2>1, <3>1, <3>2, <3>4 DEF ParamsInv
  <2> QED
    BY <1>0, <2>2, <2>3
<1>5. CASE AllocateStatement
  BY <1>5, <1>3 DEF AllocateStatement, queryVars
<1>6. ASSUME NEW k \in 0 .. MaxParams, NEW m \in 0 .. MaxParams, Query(k, m) PROVE ParamsInv'
  <2>1. numBound = 0 /\ numBound' = 0
    BY <1>6 DEF Query, Idle, PhaseInv, StatementTypeOK
  <2> QED
    BY <1>3, <1>6, <2>1 DEF Query
<1>7. CASE BindParam
  <2>1. numBound + 1 \in Param
    BY <1>0, <1>7, StatementAssumption DEF BindParam, PhaseInv
  <2> QED
    BY <1>0, <1>7, <2>1 DEF ParamsInv, BindParam
<1>8. CASE QueryFails
  BY <1>2, <1>4, <1>8 DEF QueryFails, QueryOver
<1>9. CASE Execute \/ ExecuteForCursor
  BY <1>2, <1>4, <1>9 DEF Execute, ExecuteForCursor, QueryOver
<1>10. phase \in {"none", "construct"} => numBound = 0
  BY DEF PhaseInv, StatementTypeOK
<1>11. ASSUME NEW w \in 1 .. MaxColumns, Construct(w) \/ ConstructFails(w) PROVE ParamsInv'
  BY <1>2, <1>3, <1>10, <1>11 DEF Construct, ConstructFails
<1>12. CASE MoveCursor \/ UseCursor
  BY <1>3, <1>12 DEF MoveCursor, UseCursor, queryVars
<1>13. CASE DestroyCursor \/ CallerFrees
  BY <1>2, <1>3, <1>10, <1>13 DEF DestroyCursor, CallerFrees, Idle
<1>14. CASE Release \/ ReleaseFails \/ CallerCleans
  BY <1>1, <1>10, <1>14 DEF Release, ReleaseFails, CallerCleans, Idle
<1> QED
  BY <1>5, <1>6, <1>7, <1>8, <1>9, <1>11, <1>12, <1>13, <1>14 DEF StatementNext

(* The columns the driver writes.                                          *)
LEMMA NextKeepsColumns ==
    ASSUME StatementTypeOK, PhaseInv, ColumnsInv, StatementNext
    PROVE  ColumnsInv'
<1>1. CASE AllocateStatement
  BY <1>1 DEF ColumnsInv, OwnColumnsOnly, HasCursor, StatementTypeOK, AllocateStatement, vars
<1>2. ASSUME NEW k \in 0 .. MaxParams, NEW m \in 0 .. MaxParams, Query(k, m) PROVE ColumnsInv'
  BY <1>2 DEF ColumnsInv, OwnColumnsOnly, HasCursor, StatementTypeOK, Query, Idle, vars,
     statementVars
<1>3. CASE BindParam
  BY <1>3 DEF ColumnsInv, OwnColumnsOnly, HasCursor, StatementTypeOK, BindParam, vars,
     statementVars
<1>4. CASE QueryFails
  BY <1>4 DEF ColumnsInv, OwnColumnsOnly, HasCursor, StatementTypeOK, QueryFails, CursorEnds,
     StatementFreed, vars, statementVars
<1>5. CASE Execute
  BY <1>5 DEF ColumnsInv, OwnColumnsOnly, HasCursor, StatementTypeOK, Execute, CanExecute,
     CursorEnds, StatementFreed, PhaseInv, vars
<1>6. CASE ExecuteForCursor
  BY <1>6 DEF ColumnsInv, OwnColumnsOnly, HasCursor, StatementTypeOK, ExecuteForCursor, vars
<1>7. ASSUME NEW w \in 1 .. MaxColumns, Construct(w) PROVE ColumnsInv'
  BY <1>7 DEF ColumnsInv, OwnColumnsOnly, HasCursor, StatementTypeOK, Construct, PhaseInv
<1>8. ASSUME NEW w \in 1 .. MaxColumns, ConstructFails(w) PROVE ColumnsInv'
  BY <1>8 DEF ColumnsInv, OwnColumnsOnly, HasCursor, StatementTypeOK, ConstructFails,
     CursorEnds, StatementFreed, PhaseInv
<1>9. CASE MoveCursor
  BY <1>9 DEF ColumnsInv, OwnColumnsOnly, HasCursor, StatementTypeOK, MoveCursor
<1>10. CASE UseCursor
  BY <1>10 DEF ColumnsInv, OwnColumnsOnly, HasCursor, StatementTypeOK, UseCursor,
     ColumnsFollow
<1>11. CASE DestroyCursor \/ Release \/ CallerFrees
  BY <1>11 DEF ColumnsInv, OwnColumnsOnly, HasCursor, StatementTypeOK, DestroyCursor, Release,
     CallerFrees, CursorEnds, StatementFreed, Cleaned
<1>12. CASE ReleaseFails
  BY <1>12 DEF ColumnsInv, OwnColumnsOnly, HasCursor, StatementTypeOK, ReleaseFails, Cleaned
<1>13. CASE CallerCleans
  BY <1>13 DEF ColumnsInv, OwnColumnsOnly, HasCursor, StatementTypeOK, CallerCleans, Cleaned
<1> QED
  BY <1>1, <1>2, <1>3, <1>4, <1>5, <1>6, <1>7, <1>8, <1>9, <1>10, <1>11, <1>12, <1>13 DEF
     StatementNext

(* The number of rows fetched.                                             *)
LEMMA NextKeepsCount ==
    ASSUME StatementTypeOK, PhaseInv, CountInv, StatementNext
    PROVE  CountInv'
<1>1. CASE AllocateStatement
  BY <1>1 DEF CountInv, FreshCursorCounts, HasCursor, StatementTypeOK, AllocateStatement,
     vars, fetching
<1>2. ASSUME NEW k \in 0 .. MaxParams, NEW m \in 0 .. MaxParams, Query(k, m) PROVE CountInv'
  BY <1>2 DEF CountInv, FreshCursorCounts, HasCursor, StatementTypeOK, Query, vars, fetching,
     statementVars
<1>3. CASE BindParam
  BY <1>3 DEF CountInv, FreshCursorCounts, HasCursor, StatementTypeOK, BindParam, vars,
     fetching, statementVars
<1>4. CASE QueryFails
  BY <1>4 DEF CountInv, FreshCursorCounts, HasCursor, StatementTypeOK, QueryFails, CursorEnds,
     StatementFreed, vars, fetching, statementVars
<1>5. CASE Execute
  BY <1>5 DEF CountInv, FreshCursorCounts, HasCursor, StatementTypeOK, Execute, CursorEnds,
     StatementFreed, PhaseInv, vars, fetching
<1>6. CASE ExecuteForCursor
  BY <1>6 DEF CountInv, FreshCursorCounts, HasCursor, StatementTypeOK, ExecuteForCursor, vars,
     fetching
<1>7. ASSUME NEW w \in 1 .. MaxColumns, Construct(w) PROVE CountInv'
  BY <1>7 DEF CountInv, FreshCursorCounts, HasCursor, StatementTypeOK, Construct, fetching
<1>8. ASSUME NEW w \in 1 .. MaxColumns, ConstructFails(w) PROVE CountInv'
  BY <1>8 DEF CountInv, FreshCursorCounts, HasCursor, StatementTypeOK, ConstructFails,
     CursorEnds, StatementFreed, PhaseInv
<1>9. CASE MoveCursor
  BY <1>9 DEF CountInv, FreshCursorCounts, HasCursor, StatementTypeOK, MoveCursor, fetching
<1>10. CASE UseCursor /\ Fetch
  BY <1>10 DEF CountInv, FreshCursorCounts, HasCursor, StatementTypeOK, UseCursor, Fetch
<1>11. CASE UseCursor /\ ~Fetch
  BY <1>11 DEF CountInv, FreshCursorCounts, HasCursor, StatementTypeOK, UseCursor, fetching,
     DeleteRows, AddRows, Remove, Insert, ApplyStart, ApplyStartFails, DeleteFails, Rebind,
     RebindFails, AddFails, Throw
<1>12. CASE DestroyCursor \/ Release \/ CallerFrees
  BY <1>12 DEF CountInv, FreshCursorCounts, HasCursor, StatementTypeOK, DestroyCursor,
     Release, CallerFrees, CursorEnds, StatementFreed
<1>13. CASE ReleaseFails \/ CallerCleans
  BY <1>13 DEF CountInv, FreshCursorCounts, HasCursor, StatementTypeOK, ReleaseFails,
     CallerCleans, fetching
<1> QED
  BY <1>1, <1>2, <1>3, <1>4, <1>5, <1>6, <1>7, <1>8, <1>9, <1>10, <1>11, <1>12, <1>13 DEF
     StatementNext

(* The columns that inserts are sent with.                                 *)
LEMMA NextKeepsChanges ==
    ASSUME StatementTypeOK, PhaseInv, ChangesInv, StatementNext
    PROVE  ChangesInv'
<1>1. CASE AllocateStatement
  BY <1>1 DEF ChangesInv, InsertsUseColumns, HasCursor, StatementTypeOK, TypeOK,
     AllocateStatement, vars, table, lists
<1>2. ASSUME NEW k \in 0 .. MaxParams, NEW m \in 0 .. MaxParams, Query(k, m) PROVE ChangesInv'
  BY <1>2 DEF ChangesInv, InsertsUseColumns, HasCursor, StatementTypeOK, TypeOK, Query, vars,
     table, lists, statementVars
<1>3. CASE BindParam
  BY <1>3 DEF ChangesInv, InsertsUseColumns, HasCursor, StatementTypeOK, TypeOK, BindParam,
     vars, table, lists, statementVars
<1>4. CASE QueryFails
  BY <1>4 DEF ChangesInv, InsertsUseColumns, HasCursor, StatementTypeOK, TypeOK, QueryFails,
     CursorEnds, StatementFreed, PhaseInv, vars, table, lists, statementVars
<1>5. CASE Execute
  BY <1>5 DEF ChangesInv, InsertsUseColumns, HasCursor, StatementTypeOK, TypeOK, Execute,
     CanExecute, CursorEnds, StatementFreed, PhaseInv, vars, table, lists
<1>6. CASE ExecuteForCursor
  BY <1>6 DEF ChangesInv, InsertsUseColumns, HasCursor, StatementTypeOK, TypeOK,
     ExecuteForCursor, CanExecute, PhaseInv, vars, table, lists
<1>7. ASSUME NEW w \in 1 .. MaxColumns, Construct(w) PROVE ChangesInv'
  BY <1>7 DEF ChangesInv, InsertsUseColumns, HasCursor, StatementTypeOK, TypeOK, Construct,
     table, lists
<1>8. ASSUME NEW w \in 1 .. MaxColumns, ConstructFails(w) PROVE ChangesInv'
  BY <1>8 DEF ChangesInv, InsertsUseColumns, HasCursor, StatementTypeOK, TypeOK,
     ConstructFails, CursorEnds, StatementFreed, PhaseInv
<1>9. CASE MoveCursor
  BY <1>9 DEF ChangesInv, InsertsUseColumns, HasCursor, StatementTypeOK, TypeOK, MoveCursor,
     table, lists
<1>10. CASE UseCursor /\ open /\ AddRows
  BY <1>10 DEF ChangesInv, InsertsUseColumns, HasCursor, StatementTypeOK, TypeOK, UseCursor,
     AddRows, PhaseInv
<1>11. CASE UseCursor /\ Fetch
  BY <1>11 DEF ChangesInv, InsertsUseColumns, HasCursor, StatementTypeOK, TypeOK, UseCursor,
     Fetch, table, lists
<1>12. CASE UseCursor /\ DeleteRows
  BY <1>12 DEF ChangesInv, InsertsUseColumns, HasCursor, StatementTypeOK, TypeOK, UseCursor,
     DeleteRows
<1>13. ASSUME UseCursor, NEW r \in Row, Remove(r) PROVE ChangesInv'
  <2>1. deletes' # <<>>
    BY <1>13 DEF Remove, StatementTypeOK, TypeOK
  <2>2. UNCHANGED <<holder, lent, open, bound, rebindFailed, garbled, step>> /\ step = "idle"
    BY <1>13 DEF UseCursor, Remove, table
  <2> QED
    BY <2>1, <2>2 DEF ChangesInv, InsertsUseColumns, HasCursor
<1>14. ASSUME UseCursor, NEW r \in NewRow, Insert(r) PROVE ChangesInv'
  BY <1>14 DEF ChangesInv, InsertsUseColumns, HasCursor, StatementTypeOK, TypeOK, UseCursor,
     Insert, table
<1>15. CASE UseCursor /\ (ApplyStart \/ ApplyStartFails)
  <2>1. CASE ApplyStart
    BY <1>15, <2>1 DEF ChangesInv, InsertsUseColumns, HasCursor, StatementTypeOK, TypeOK, UseCursor,
       ApplyStart, StepAfterStart, table, lists
  <2>2. CASE ApplyStartFails
    BY <1>15, <2>2 DEF ChangesInv, InsertsUseColumns, HasCursor, StatementTypeOK, TypeOK, UseCursor,
       ApplyStartFails, Throw, table, lists
  <2> QED
    BY <1>15, <2>1, <2>2
<1>16. CASE UseCursor /\ (Rebind \/ RebindFails)
  BY <1>16 DEF ChangesInv, InsertsUseColumns, HasCursor, StatementTypeOK, TypeOK, UseCursor,
     Rebind, RebindFails, StepAfterDeletes, Throw, table, lists
<1>17. CASE UseCursor /\ (DeleteFails \/ AddFails)
  BY <1>17 DEF ChangesInv, InsertsUseColumns, HasCursor, StatementTypeOK, TypeOK, UseCursor,
     DeleteFails, AddFails, Throw, table, lists
<1>18. CASE DestroyCursor \/ Release \/ CallerFrees
  BY <1>18 DEF ChangesInv, InsertsUseColumns, HasCursor, StatementTypeOK, TypeOK,
     DestroyCursor, Release, CallerFrees, Idle, CursorEnds, StatementFreed
<1>19. CASE ReleaseFails
  BY <1>19 DEF ChangesInv, InsertsUseColumns, HasCursor, StatementTypeOK, TypeOK,
     ReleaseFails, Cleaned, Idle, table, lists
<1>20. CASE CallerCleans
  BY <1>20 DEF ChangesInv, InsertsUseColumns, HasCursor, StatementTypeOK, TypeOK,
     CallerCleans, Idle, table, lists
<1> QED
  BY <1>1, <1>2, <1>3, <1>4, <1>5, <1>6, <1>7, <1>8, <1>9, <1>10, <1>11, <1>12, <1>13, <1>14,
     <1>15, <1>16, <1>17, <1>18, <1>19, <1>20 DEF StatementNext, UseCursor

-----------------------------------------------------------------------------
(* A row handed to insert() is in one place.                               *)
LEMMA SameListsKeepInserts ==
    ASSUME EachInsertOnce, UNCHANGED <<added, refused, inserts, queued>>
    PROVE  EachInsertOnce'
BY DEF EachInsertOnce

(* A cursor that ends takes its pending rows with it, which were then      *)
(* never stored.                                                           *)
LEMMA CursorEndsKeepsInserts ==
    ASSUME TypeOK, EachInsertOnce, CursorEnds
    PROVE  EachInsertOnce'
<1> SUFFICES ASSUME NEW n \in NewRow
             PROVE  Cardinality(Places(inserts', n)) + added'[n]
                       + (IF n \in refused' THEN 1 ELSE 0) = IF n \in queued' THEN 1 ELSE 0
  BY DEF EachInsertOnce, Places
<1>1. Cardinality(Places(inserts', n)) = 0
  <2>1. Places(inserts', n) = {}
    BY DEF CursorEnds, Places
  <2> QED
    BY <2>1, FS_EmptySet
<1>2. /\ Cardinality(Places(inserts, n)) \in Nat
      /\ Cardinality(Places(inserts, n)) = 0 <=> n \notin Range(inserts)
  BY PlacesLaw DEF TypeOK
<1>3. Cardinality(Places(inserts, n)) + added[n] + (IF n \in refused THEN 1 ELSE 0)
         = IF n \in queued THEN 1 ELSE 0
  BY DEF EachInsertOnce, Places
<1>4. added' = added /\ refused' = refused /\ queued' = queued \ Range(inserts)
  BY DEF CursorEnds
<1>5. added[n] \in Nat
  BY DEF TypeOK
<1> QED
  BY <1>1, <1>2, <1>3, <1>4, <1>5

(* A row that is handed to insert() waits in one place.                    *)
LEMMA InsertKeepsInserts ==
    ASSUME TypeOK, EachInsertOnce, NEW new \in NewRow, Insert(new)
    PROVE  EachInsertOnce'
<1> SUFFICES ASSUME NEW n \in NewRow
             PROVE  Cardinality(Places(inserts', n)) + added'[n]
                       + (IF n \in refused' THEN 1 ELSE 0) = IF n \in queued' THEN 1 ELSE 0
  BY DEF EachInsertOnce, Places
<1>1. \A m \in NewRow :
         /\ Cardinality(Places(inserts, m)) \in Nat
         /\ Cardinality(Places(inserts, m)) = 0 <=> m \notin Range(inserts)
         /\ added[m] \in Nat
         /\ Cardinality(Places(inserts, m)) + added[m] + (IF m \in refused THEN 1 ELSE 0)
               = IF m \in queued THEN 1 ELSE 0
  <2>1. \A m \in NewRow :
           /\ Cardinality(Places(inserts, m)) \in Nat
           /\ Cardinality(Places(inserts, m)) = 0 <=> m \notin Range(inserts)
    BY PlacesLaw DEF TypeOK
  <2> QED
    BY <2>1 DEF TypeOK, EachInsertOnce, Places
<1>2. /\ added' = added /\ refused' = refused /\ queued' = queued \cup {new}
      /\ inserts' = Append(inserts, new) /\ new \notin queued
  BY DEF Insert, table
<1>3. /\ new \notin Range(inserts)
      /\ added[new] + (IF new \in refused THEN 1 ELSE 0) = 0
  BY <1>1, <1>2
<1>4. Cardinality(Places(inserts', n)) = IF n = new THEN 1 ELSE Cardinality(Places(inserts, n))
  BY <1>2, <1>3, AppendLaw DEF TypeOK
<1> QED
  BY <1>1, <1>2, <1>3, <1>4

(* Rows the driver has added are pending no more.                          *)
LEMMA AddRowsKeepsInserts ==
    ASSUME TypeOK, EachInsertOnce, AddRows
    PROVE  EachInsertOnce'
<1> SUFFICES ASSUME NEW n \in NewRow
             PROVE  Cardinality(Places(inserts', n)) + added'[n]
                       + (IF n \in refused' THEN 1 ELSE 0) = IF n \in queued' THEN 1 ELSE 0
  BY DEF EachInsertOnce, Places
<1>1. PICK taken \in SUBSET Range(inserts) :
         /\ added' = [m \in NewRow |-> IF m \in taken THEN added[m] + 1 ELSE added[m]]
         /\ refused' = refused \cup (Range(inserts) \ taken)
  BY DEF AddRows
<1>2. /\ Cardinality(Places(inserts, n)) \in Nat
      /\ Cardinality(Places(inserts, n)) = 0 <=> n \notin Range(inserts)
  BY PlacesLaw DEF TypeOK
<1>3. Cardinality(Places(inserts, n)) + added[n] + (IF n \in refused THEN 1 ELSE 0)
         = IF n \in queued THEN 1 ELSE 0
  BY DEF EachInsertOnce, Places
<1>4. added[n] \in Nat
  BY DEF TypeOK
<1>5. Cardinality(Places(inserts', n)) = 0
  <2>1. Places(inserts', n) = {}
    BY DEF AddRows, Places
  <2> QED
    BY <2>1, FS_EmptySet
<1>6. queued' = queued
  BY DEF AddRows
<1>7. n \in Range(inserts) =>
         Cardinality(Places(inserts, n)) = 1 /\ added[n] = 0 /\ n \notin refused /\ n \in queued
  BY <1>2, <1>3, <1>4
<1>8. CASE n \in taken
  BY <1>1, <1>5, <1>6, <1>7, <1>8
<1>9. CASE n \in Range(inserts) \ taken
  BY <1>1, <1>5, <1>6, <1>7, <1>9
<1>10. CASE n \notin Range(inserts)
  BY <1>1, <1>2, <1>3, <1>4, <1>5, <1>6, <1>10
<1> QED
  BY <1>8, <1>9, <1>10

(* Every step keeps the account of the rows inserted.                      *)
LEMMA NextKeepsInserts ==
    ASSUME StatementTypeOK, EachInsertOnce, StatementNext
    PROVE  EachInsertOnce'
<1>0. TypeOK
  BY DEF StatementTypeOK
<1>1. CASE AllocateStatement \/ BindParam \/ ExecuteForCursor
  BY <1>1, SameListsKeepInserts DEF AllocateStatement, BindParam, ExecuteForCursor, vars, table, lists
<1>2. ASSUME NEW k \in 0 .. MaxParams, NEW m \in 0 .. MaxParams, Query(k, m) PROVE EachInsertOnce'
  BY <1>2, SameListsKeepInserts DEF Query, vars, table, lists
<1>3. CASE QueryFails \/ Execute
  BY <1>0, <1>3, SameListsKeepInserts, CursorEndsKeepsInserts DEF QueryFails, Execute, vars, table, lists
<1>4. ASSUME NEW w \in 1 .. MaxColumns, Construct(w) PROVE EachInsertOnce'
  BY <1>4, SameListsKeepInserts DEF Construct, table, lists
<1>5. ASSUME NEW w \in 1 .. MaxColumns, ConstructFails(w) PROVE EachInsertOnce'
  BY <1>0, <1>5, CursorEndsKeepsInserts DEF ConstructFails
<1>6. CASE MoveCursor \/ ReleaseFails \/ CallerCleans
  BY <1>6, SameListsKeepInserts DEF MoveCursor, ReleaseFails, CallerCleans, table, lists
<1>7. CASE DestroyCursor \/ Release \/ CallerFrees
  BY <1>0, <1>7, CursorEndsKeepsInserts DEF DestroyCursor, Release, CallerFrees
<1>8. ASSUME NEW n \in NewRow, Insert(n) PROVE EachInsertOnce'
  BY <1>0, <1>8, InsertKeepsInserts
<1>9. CASE AddRows
  BY <1>0, <1>9, AddRowsKeepsInserts
<1>10. ASSUME NEW r \in Row, Remove(r) PROVE EachInsertOnce'
  BY <1>10, SameListsKeepInserts DEF Remove, table
<1>11. CASE Fetch \/ DeleteRows \/ ApplyStart \/ ApplyStartFails
  BY <1>11, SameListsKeepInserts DEF Fetch, DeleteRows, ApplyStart, ApplyStartFails, table, lists
<1>12. CASE DeleteFails \/ Rebind \/ RebindFails \/ AddFails
  BY <1>12, SameListsKeepInserts DEF DeleteFails, Rebind, RebindFails, AddFails, table, lists
<1>13. CASE UseCursor
  BY <1>8, <1>9, <1>10, <1>11, <1>12, <1>13 DEF UseCursor
<1> QED
  BY <1>1, <1>2, <1>3, <1>4, <1>5, <1>6, <1>7, <1>13 DEF StatementNext

-----------------------------------------------------------------------------
(* Every step keeps the invariant.                                         *)
LEMMA NextKeepsIInv == IInv /\ [StatementNext]_allVars => IInv'
<1>1. ASSUME IInv, StatementNext PROVE IInv'
  BY <1>1, NextKeepsType, NextKeepsPhase, NextKeepsParams, NextKeepsColumns, NextKeepsCount,
     NextKeepsChanges, NextKeepsInserts DEF IInv
<1>2. ASSUME IInv, UNCHANGED allVars PROVE IInv'
  <2> USE <1>2 DEF allVars, vars, table, lists, fetching, queryVars, statementVars
  <2>1. TypeOK'
    BY DEF IInv, StatementTypeOK, TypeOK
  <2>2. StatementTypeOK'
    BY <2>1 DEF IInv, StatementTypeOK
  <2>3. PhaseInv' /\ ParamsInv' /\ ColumnsInv' /\ CountInv'
    BY DEF IInv, PhaseInv, ParamsInv, ColumnsInv, OwnColumnsOnly, CountInv,
           FreshCursorCounts, HasCursor
  <2>4. ChangesInv' /\ EachInsertOnce'
    BY DEF IInv, ChangesInv, InsertsUseColumns, EachInsertOnce, HasCursor
  <2> QED
    BY <2>2, <2>3, <2>4 DEF IInv
<1> QED
  BY <1>1, <1>2

(* The invariant holds in every state.                                     *)
LEMMA AlwaysIInv == StatementSpec => []IInv
BY InitEstablishesIInv, NextKeepsIInv, PTL DEF StatementSpec

-----------------------------------------------------------------------------
(* The type invariant of a statement and its cursor.                       *)
THEOREM TypeCorrect == StatementSpec => []StatementTypeOK
<1>1. IInv => StatementTypeOK
  BY DEF IInv
<1> QED
  BY <1>1, AlwaysIInv, PTL

(* A query is executed with its own parameters, bound to live memory, and  *)
(* a placeholder without one is unbound, even if the statement has been    *)
(* through other queries and cursors that ended or failed anywhere; unless *)
(* the caller has kept the statement all along and uses it again.          *)
THEOREM ParametersAreLive == StatementSpec => []NoStaleParameter
<1>1. IInv => NoStaleParameter
  <2> SUFFICES ASSUME IInv, phase = "prepare", NEW i \in 1 .. placeholders
               PROVE  IF i <= numParams THEN params[i] = "live"
                                        ELSE used \/ params[i] = "unbound"
    BY DEF NoStaleParameter
  <2>1. /\ numBound = numParams /\ numParams \in 0 .. MaxParams
        /\ placeholders \in 0 .. MaxParams /\ used \in BOOLEAN
    BY StatementAssumption DEF IInv, StatementTypeOK, PhaseInv
  <2>2. i \in Param /\ (i <= numParams => i \in 1 .. numBound)
    BY <2>1, StatementAssumption DEF Param
  <2>3. CASE i <= numParams
    BY <2>2, <2>3 DEF IInv, ParamsInv
  <2>4. CASE ~(i <= numParams)
    <3>1. i > numBound
      BY <2>1, <2>2, <2>4, StatementAssumption DEF Param
    <3> QED
      BY <2>1, <2>2, <2>4, <3>1 DEF IInv, ParamsInv
  <2> QED
    BY <2>3, <2>4
<1> QED
  BY <1>1, AlwaysIInv, PTL

(* The driver writes a cursor's columns and no others, which would be      *)
(* written behind its rows, unless a cursor has left the statement to the  *)
(* caller other than by handle() &&.                                       *)
THEOREM ColumnsAreOwn == StatementSpec => []OwnColumnsOnly
<1>1. IInv => OwnColumnsOnly
  BY DEF IInv, ColumnsInv
<1> QED
  BY <1>1, AlwaysIInv, PTL

(* A cursor that has neither been moved nor applied changes makes of every *)
(* fetch the rows the driver has fetched.                                  *)
THEOREM CountsAreRight == StatementSpec => []FreshCursorCounts
<1>1. IInv => FreshCursorCounts
  BY DEF IInv, CountInv
<1> QED
  BY <1>1, AlwaysIInv, PTL

(* Inserts are sent with their columns bound, unless binding them again    *)
(* has failed.                                                             *)
THEOREM InsertsAreBound == StatementSpec => []InsertsUseColumns
<1>1. IInv => InsertsUseColumns
  BY DEF IInv, ChangesInv
<1> QED
  BY <1>1, AlwaysIInv, PTL

(* No row handed to insert() is lost or stored twice, whatever fails and   *)
(* however often apply_changes is called again.                            *)
THEOREM NoInsertTwice == StatementSpec => []EachInsertOnce
<1>1. IInv => EachInsertOnce
  BY DEF IInv
<1> QED
  BY <1>1, AlwaysIInv, PTL

(* Only SQL_ADD stores rows.                                               *)
LEMMA OnlyAddRowsAdds ==
    ASSUME IInv, [StatementNext]_allVars, added' # added
    PROVE  step = "insert"
<1> USE DEF vars, table, lists
<1>1. UNCHANGED allVars => added' = added
  BY DEF allVars
<1>2. AllocateStatement \/ BindParam \/ ExecuteForCursor => added' = added
  BY DEF AllocateStatement, BindParam, ExecuteForCursor
<1>3. \A k, m \in 0 .. MaxParams : Query(k, m) => added' = added
  BY DEF Query
<1>4. QueryFails \/ Execute => added' = added
  BY DEF QueryFails, Execute, CursorEnds
<1>5. \A w \in 1 .. MaxColumns : Construct(w) \/ ConstructFails(w) => added' = added
  BY DEF Construct, ConstructFails, CursorEnds
<1>6. MoveCursor \/ ReleaseFails \/ CallerCleans => added' = added
  BY DEF MoveCursor, ReleaseFails, CallerCleans
<1>7. DestroyCursor \/ Release \/ CallerFrees => added' = added
  BY DEF DestroyCursor, Release, CallerFrees, CursorEnds
<1>8. UseCursor => added' = added \/ step = "insert"
  BY DEF UseCursor, Fetch, DeleteRows, AddRows, Remove, Insert, ApplyStart, ApplyStartFails,
         DeleteFails, Rebind, RebindFails, AddFails
<1> QED
  BY <1>1, <1>2, <1>3, <1>4, <1>5, <1>6, <1>7, <1>8 DEF StatementNext

(* The inserts are sent when no deletes are pending.                       *)
THEOREM DeletesComeFirst == StatementSpec => InsertsWaitForDeletes
<1>1. IInv /\ [StatementNext]_allVars =>
         [\A n \in NewRow : added'[n] # added[n] => deletes = <<>>]_vars
  <2> SUFFICES ASSUME IInv, [StatementNext]_allVars, NEW n \in NewRow, added'[n] # added[n]
               PROVE  deletes = <<>>
    OBVIOUS
  <2>1. step = "insert"
    BY OnlyAddRowsAdds
  <2> QED
    BY <2>1 DEF IInv, ChangesInv
<1> QED
  BY <1>1, AlwaysIInv, PTL DEF StatementSpec, InsertsWaitForDeletes
=============================================================================
