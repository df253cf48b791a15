----------------------- MODULE ScrollableCursor_proofs ---------------------
(***************************************************************************)
(* For any result, any buffer size and any number of iterators: pos_ tells *)
(* the driver's position unless the driver is after the end or something   *)
(* else has moved it, and therefore no buffer is ever labelled with rows   *)
(* it does not hold, except one that was fetched from where the driver     *)
(* had strayed to.                                                         *)
(***************************************************************************)
EXTENDS ScrollableCursor, ResultSet_proofs

(* The two safety properties need each other: the label of the next buffer *)
(* is right because pos_ is, and pos_ is set from the label.               *)
IInv == TypeOK /\ PosTellsDriverPosition /\ BufferHoldsItsRows

(* A fetch asks for at least one row, bulk or not.                         *)
LEMMA ArraySizeType == ASSUME TypeOK PROVE ArraySize \in Nat \ {0}
BY ScrollableAssumption DEF ArraySize

(* Before the first fetch the invariant holds.                             *)
LEMMA InitEstablishesIInv == Init => IInv
<1> SUFFICES ASSUME Init PROVE IInv
  OBVIOUS
<1>1. /\ bookmarks \in BOOLEAN /\ numBound \in 0 .. NumColumns /\ dataRead \in BOOLEAN
      /\ strayed \in BOOLEAN /\ astray \subseteq Iterator
  BY DEF Init
<1>2. /\ driverNext \in Positions /\ driverRow \in 0 .. NumRows
      /\ pos \in Nat \ {0} /\ strays \in 0 .. MaxStray
      /\ bufferOf \in [Iterator -> Buffer \cup {Null, Absent}]
      /\ indexOf \in [Iterator -> Nat]
      /\ cached \in [Iterator -> Value \cup {Null}]
  BY NumRowsAssumption, ScrollableAssumption DEF Init, Positions, AfterEnd
<1>3. PosTellsDriverPosition /\ BufferHoldsItsRows
  BY ScrollableAssumption DEF Init, PosTellsDriverPosition, BufferHoldsItsRows, Iterating
<1> QED
  BY <1>1, <1>2, <1>3 DEF IInv, TypeOK

(* Where fetch_buffer reads: at the wanted row, or nothing at all.         *)
LEMMA FromLaw ==
    ASSUME IInv, NEW wanted \in Nat \ {0}
    PROVE  /\ From(wanted) \in Positions
           /\ ~strayed \/ wanted # pos => From(wanted) = wanted \/ From(wanted) = AfterEnd
BY NumRowsAssumption DEF IInv, TypeOK, PosTellsDriverPosition, From, Positions, AfterEnd

(* fetch_buffer keeps the invariant for every row it may be asked for.     *)
LEMMA FetchBufferKeepsIInv ==
    ASSUME IInv, NEW it \in Iterator, NEW wanted \in Nat \ {0},
           FetchBuffer(it, wanted)
    PROVE  IInv'
<1> DEFINE from == From(wanted)
           size == RowsetSize(from, ArraySize)
           buffer == IF size > 0 THEN [low |-> wanted, first |-> from, size |-> size] ELSE Null
<1> USE NumRowsAssumption, ScrollableAssumption
<1>1. /\ from \in Positions
      /\ ~strayed \/ wanted # pos => from = wanted \/ from = AfterEnd
  BY FromLaw
<1>2. /\ size \in Nat
      /\ PositionAfter(from, ArraySize) \in Positions
      /\ from + size = PositionAfter(from, ArraySize)
      /\ size = 0 <=> from = AfterEnd
      /\ size = 0 => PositionAfter(from, ArraySize) = AfterEnd
  <2>1. ArraySize \in Nat \ {0}
    BY ArraySizeType DEF IInv
  <2> QED
    BY <1>1, <2>1, RowsetLaw
<1>3. /\ driverNext' = PositionAfter(from, ArraySize)
      /\ driverRow' = IF size > 0 THEN from ELSE 0
      /\ dataRead' = FALSE
      /\ pos' = IF size > 0 THEN wanted + size ELSE pos
      /\ bufferOf' = [bufferOf EXCEPT ![it] = buffer]
      /\ indexOf' = [indexOf EXCEPT ![it] = 0]
      /\ cached' = [cached EXCEPT ![it] = Null]
      /\ bookmarks' = bookmarks /\ numBound' = numBound /\ strays' = strays
      /\ strayed' = (strayed /\ (wanted = pos \/ size = 0))
      /\ astray' = IF strayed /\ wanted = pos THEN astray \cup {it} ELSE astray \ {it}
  BY DEF FetchBuffer, DriverFetches, Stray, binding
<1>4. buffer \in Buffer \cup {Null}
  BY <1>1, <1>2 DEF Buffer, Positions
<1> HIDE DEF from, size, buffer
<1>5. TypeOK'
  <2>1. bookmarks' \in BOOLEAN /\ numBound' \in 0 .. NumColumns /\ dataRead' \in BOOLEAN
    BY <1>3 DEF IInv, TypeOK
  <2>2. /\ driverNext' \in Positions /\ driverRow' \in 0 .. NumRows
        /\ pos' \in Nat \ {0} /\ strays' \in 0 .. MaxStray
    BY <1>1, <1>2, <1>3 DEF IInv, TypeOK, Positions, AfterEnd
  <2>3. /\ bufferOf' \in [Iterator -> Buffer \cup {Null, Absent}]
        /\ indexOf' \in [Iterator -> Nat]
        /\ cached' \in [Iterator -> Value \cup {Null}]
    BY <1>3, <1>4 DEF IInv, TypeOK
  <2>4. strayed' \in BOOLEAN /\ astray' \subseteq Iterator
    BY <1>3 DEF IInv, TypeOK
  <2> QED
    BY <2>1, <2>2, <2>3, <2>4 DEF TypeOK
<1>6. PosTellsDriverPosition'
  BY <1>1, <1>2, <1>3 DEF IInv, TypeOK, PosTellsDriverPosition, Positions, AfterEnd
<1>7. BufferHoldsItsRows'
  <2> SUFFICES ASSUME NEW j \in Iterator, bufferOf'[j] \in Buffer
               PROVE  /\ bufferOf'[j].first + bufferOf'[j].size <= AfterEnd
                      /\ j \notin astray' => bufferOf'[j].low = bufferOf'[j].first
    BY DEF BufferHoldsItsRows, Iterating, AfterEnd
  <2>1. CASE j = it
    <3>1. bufferOf'[j] = buffer
      BY <2>1, <1>3 DEF IInv, TypeOK
    <3>2. size > 0 /\ buffer = [low |-> wanted, first |-> from, size |-> size]
      BY <3>1, <1>2 DEF buffer
    <3>3. it \notin astray' => ~strayed \/ wanted # pos
      BY <1>3
    <3> QED
      BY <2>1, <3>1, <3>2, <3>3, <1>1, <1>2 DEF Positions, AfterEnd
  <2>2. CASE j # it
    <3>1. bufferOf'[j] = bufferOf[j]
      BY <2>2, <1>3 DEF IInv, TypeOK
    <3>2. j \in astray' <=> j \in astray
      BY <2>2, <1>3
    <3> QED
      BY <3>1, <3>2 DEF IInv, BufferHoldsItsRows, Iterating
  <2> QED
    BY <2>1, <2>2
<1> QED
  BY <1>5, <1>6, <1>7 DEF IInv

(* The row behind a buffer is a number.                                    *)
LEMMA HighType ==
    ASSUME IInv, NEW it \in Iterator, AtLastIndex(it)
    PROVE  High(bufferOf[it]) \in Nat \ {0}
BY DEF IInv, TypeOK, AtLastIndex, Iterating, High, Buffer

(* Every step of the cursor and its iterators keeps the invariant.         *)
LEMMA StepKeepsIInv ==
    ASSUME IInv, [Next]_vars
    PROVE  IInv'
<1> USE NumRowsAssumption, ScrollableAssumption
<1>1. ASSUME NEW it \in Iterator, Fetch(it) PROVE IInv'
  BY <1>1, FetchBufferKeepsIInv DEF Fetch
<1>2. ASSUME NEW it \in Iterator, StepOver(it) PROVE IInv'
  BY <1>2, FetchBufferKeepsIInv, HighType DEF StepOver
<1>3. ASSUME NEW it \in Iterator, Step(it) PROVE IInv'
  BY <1>3 DEF Step, binding, straying, IInv, TypeOK, PosTellsDriverPosition, BufferHoldsItsRows, Iterating
<1>4. ASSUME NEW it \in Iterator, StepFails(it) PROVE IInv'
  BY <1>4 DEF StepFails, binding, straying, IInv, TypeOK, PosTellsDriverPosition, BufferHoldsItsRows, Iterating
<1>5. ASSUME NEW it \in Iterator, Dereference(it) PROVE IInv'
  <2>1. Row(it) \in Nat
    BY <1>5 DEF Dereference, InRange, Iterating, Row, Buffer, IInv, TypeOK
  <2>2. Construct(it) \in Value
    BY <2>1 DEF Construct, Value, IInv, TypeOK
  <2>3. dataRead' \in BOOLEAN
    BY <1>5 DEF Dereference, IInv, TypeOK
  <2>4. TypeOK'
    BY <1>5, <2>2, <2>3 DEF Dereference, binding, straying, IInv, TypeOK
  <2> QED
    BY <1>5, <2>4 DEF Dereference, straying, IInv, PosTellsDriverPosition, BufferHoldsItsRows, Iterating
<1>6. ASSUME NEW it \in Iterator, Drop(it) PROVE IInv'
  BY <1>6 DEF Drop, binding, IInv, TypeOK, PosTellsDriverPosition, BufferHoldsItsRows, Iterating
<1>7. ASSUME NEW i \in Iterator, NEW j \in Iterator, Copy(i, j) PROVE IInv'
  BY <1>7 DEF Copy, binding, IInv, TypeOK, PosTellsDriverPosition, BufferHoldsItsRows, Iterating
<1>8. ASSUME NEW from \in Positions, FetchOne(from) PROVE IInv'
  <2>1. /\ PositionAfter(from, 1) \in Positions
        /\ RowsetSize(from, 1) > 0 => from \in 0 .. NumRows
    BY RowsetLaw DEF Positions, AfterEnd
  <2>2. TypeOK'
    <3>1. dataRead' \in BOOLEAN
      BY <1>8 DEF FetchOne
    <3>2. /\ driverNext' \in Positions /\ driverRow' \in 0 .. NumRows
          /\ strays' \in 0 .. MaxStray
      BY <1>8, <2>1 DEF FetchOne, DriverFetches, IInv, TypeOK
    <3> QED
      BY <1>8, <3>1, <3>2 DEF FetchOne, binding, IInv, TypeOK
  <2>3. strayed' = TRUE
    BY <1>8 DEF FetchOne, IInv, TypeOK
  <2> QED
    BY <1>8, <2>2, <2>3
    DEF FetchOne, DriverFetches, IInv, PosTellsDriverPosition, BufferHoldsItsRows, Iterating
<1>9. ASSUME NEW next \in Positions, NEW row \in 0 .. NumRows, BulkOperation(next, row)
      PROVE  IInv'
  <2>1. TypeOK'
    BY <1>9 DEF BulkOperation, binding, IInv, TypeOK
  <2>2. strayed' = TRUE
    BY <1>9 DEF BulkOperation
  <2> QED
    BY <1>9, <2>1, <2>2
    DEF BulkOperation, IInv, PosTellsDriverPosition, BufferHoldsItsRows, Iterating
<1>10. CASE UNCHANGED vars
  BY <1>10 DEF vars, binding, straying, IInv, TypeOK, PosTellsDriverPosition, BufferHoldsItsRows, Iterating
<1>11. ASSUME NEW it \in Iterator, DereferenceFails(it) PROVE IInv'
  BY <1>11 DEF DereferenceFails, binding, straying, IInv, TypeOK, PosTellsDriverPosition,
               BufferHoldsItsRows, Iterating
<1> QED
  BY <1>1, <1>2, <1>3, <1>4, <1>5, <1>6, <1>7, <1>8, <1>9, <1>10, <1>11 DEF Next, Increment

(* The inductive invariant holds in every reachable state.                 *)
THEOREM InvariantHolds == Spec => []IInv
<1>1. Init => IInv
  BY InitEstablishesIInv
<1>2. IInv /\ [Next]_vars => IInv'
  BY StepKeepsIInv
<1> QED
  BY <1>1, <1>2, PTL DEF Spec

(* Every reachable state is well typed.                                    *)
THEOREM TypeCorrect == Spec => []TypeOK
<1>1. IInv => TypeOK
  BY DEF IInv
<1> QED
  BY <1>1, InvariantHolds, PTL

(* pos_ of ScrollableCursor::fetch_buffer mirrors the driver's position    *)
(* unless the driver has run off the end or strayed.                       *)
THEOREM PosIsRight == Spec => []PosTellsDriverPosition
<1>1. IInv => PosTellsDriverPosition
  BY DEF IInv
<1> QED
  BY <1>1, InvariantHolds, PTL

(* A buffer of a ScrollableCursor holds the rows its low_ names, however   *)
(* many iterators share the cursor, unless it was fetched from where the   *)
(* driver had strayed to.                                                  *)
THEOREM LabelsAreRight == Spec => []BufferHoldsItsRows
<1>1. IInv => BufferHoldsItsRows
  BY DEF IInv
<1> QED
  BY <1>1, InvariantHolds, PTL

-----------------------------------------------------------------------------
(* A step that takes an iterator from one row to another takes it one row  *)
(* further.                                                                *)
LEMMA StepReachesNextRow ==
    ASSUME IInv, [Next]_vars, NEW it \in Iterator, InRange(it), InRange(it)',
           it \notin astray \cup astray'
    PROVE  Row(it)' \in {Row(it), Row(it) + 1}
<1> USE NumRowsAssumption, ScrollableAssumption
<1>1. /\ bufferOf[it] \in Buffer /\ bufferOf'[it] \in Buffer
      /\ bufferOf[it].first \in Nat /\ bufferOf[it].size \in Nat /\ indexOf[it] \in Nat
  BY DEF InRange, Iterating, IInv, TypeOK, Buffer
<1>2. ASSUME UNCHANGED <<bufferOf, indexOf>> PROVE Row(it)' = Row(it)
  BY <1>2 DEF Row
<1>3. ASSUME NEW j \in Iterator, j # it,
             bufferOf'[it] = bufferOf[it], indexOf'[it] = indexOf[it]
      PROVE  Row(it)' = Row(it)
  BY <1>3 DEF Row
<1>4. ASSUME NEW j \in Iterator, Fetch(j) PROVE Row(it)' = Row(it)
  <2>1. j # it
    BY <1>1, <1>4 DEF Fetch
  <2>2. bufferOf'[it] = bufferOf[it] /\ indexOf'[it] = indexOf[it]
    BY <1>4, <2>1 DEF Fetch, FetchBuffer, IInv, TypeOK
  <2> QED
    BY <2>1, <2>2, <1>3
<1>5. ASSUME NEW j \in Iterator, Step(j) PROVE Row(it)' \in {Row(it), Row(it) + 1}
  BY <1>1, <1>5 DEF Step, Row, IInv, TypeOK
<1>6. ASSUME NEW j \in Iterator, StepFails(j) PROVE Row(it)' \in {Row(it), Row(it) + 1}
  BY <1>1, <1>6 DEF StepFails, Row, IInv, TypeOK
<1>7. ASSUME NEW j \in Iterator, StepOver(j) PROVE Row(it)' \in {Row(it), Row(it) + 1}
  <2>1. CASE j # it
    <3>1. bufferOf'[it] = bufferOf[it] /\ indexOf'[it] = indexOf[it]
      BY <1>7, <2>1 DEF StepOver, FetchBuffer, IInv, TypeOK
    <3> QED
      BY <2>1, <3>1, <1>3
  <2>2. CASE j = it
    <3>1. FetchBuffer(it, High(bufferOf[it])) /\ AtLastIndex(it)
      BY <1>7, <2>2 DEF StepOver, FetchBuffer
    <3>2. /\ bufferOf'[it].first = From(High(bufferOf[it]))
          /\ indexOf'[it] = 0
          /\ From(High(bufferOf[it])) # AfterEnd
      <4> DEFINE from == From(High(bufferOf[it]))
                 size == RowsetSize(from, ArraySize)
      <4>1. High(bufferOf[it]) \in Nat \ {0}
        BY <3>1, HighType
      <4>2. from \in Positions /\ ArraySize \in Nat \ {0}
        BY <4>1, FromLaw, ArraySizeType DEF IInv
      <4>3. size = 0 <=> from = AfterEnd
        BY <4>2, RowsetLaw
      <4>4. bufferOf'[it] = IF size > 0
                            THEN [low |-> High(bufferOf[it]), first |-> from, size |-> size]
                            ELSE Null
        BY <3>1 DEF FetchBuffer, IInv, TypeOK
      <4>5. indexOf'[it] = 0
        BY <3>1 DEF FetchBuffer, IInv, TypeOK
      <4> HIDE DEF from, size
      <4>6. size > 0 /\ bufferOf'[it].first = from
        BY <4>4, <1>1
      <4> QED
        BY <4>3, <4>5, <4>6 DEF from
    <3>3. From(High(bufferOf[it])) = High(bufferOf[it])
      <4>1. ~strayed \/ High(bufferOf[it]) # pos
        BY <3>1 DEF FetchBuffer, Stray
      <4> QED
        BY <3>1, <3>2, <4>1, FromLaw, HighType
    <3>4. High(bufferOf[it]) = bufferOf[it].first + indexOf[it] + 1
      BY <1>1, <3>1 DEF High, AtLastIndex, IInv, BufferHoldsItsRows, Iterating
    <3> QED
      BY <1>1, <3>2, <3>3, <3>4 DEF Row
  <2> QED
    BY <2>1, <2>2
<1>8. ASSUME NEW j \in Iterator, Drop(j) PROVE Row(it)' = Row(it)
  <2>1. j # it
    BY <1>1, <1>8 DEF Drop, IInv, TypeOK
  <2> QED
    BY <2>1, <1>3, <1>8 DEF Drop, IInv, TypeOK
<1>9. ASSUME NEW i \in Iterator, NEW j \in Iterator, Copy(i, j) PROVE Row(it)' = Row(it)
  <2>1. j # it
    BY <1>1, <1>9 DEF Copy
  <2> QED
    BY <2>1, <1>3, <1>9 DEF Copy, IInv, TypeOK
<1> QED
  BY <1>2, <1>4, <1>5, <1>6, <1>7, <1>8, <1>9
  DEF Next, Increment, Dereference, DereferenceFails, FetchOne, BulkOperation, vars

(* Passing from buffer to buffer neither skips nor repeats a row, for any  *)
(* number of iterators sharing the cursor.                                 *)
THEOREM RowsInOrder == Spec => IncrementReachesNextRow
<1>1. ASSUME IInv, [Next]_vars
      PROVE  [\A it \in Iterator :
                 InRange(it) /\ InRange(it)' /\ it \notin astray \cup astray'
                    => Row(it)' \in {Row(it), Row(it) + 1}]_vars
  BY <1>1, StepReachesNextRow
<1> QED
  BY <1>1, InvariantHolds, PTL DEF Spec, IncrementReachesNextRow
-----------------------------------------------------------------------------
(* Progress, and where an iterator comes to an end.                        *)

(* An increment from a row leads to the next row or to the end.  (One that *)
(* fetches the next rowset from where the driver has strayed to is astray.) *)
LeadsOn(it) ==
    InRange(it) /\ Increment(it) /\ it \notin astray \cup astray' =>
       bufferOf'[it] = Null \/ (InRange(it)' /\ Row(it)' = Row(it) + 1)

(* An iterator ends behind the last row, or where another one has left the *)
(* driver after the end and pos_ at the very row that is wanted next.      *)
EndsByDriver(it) ==
    StepOver(it) /\ ~strayed /\ it \notin astray =>
       (bufferOf'[it] = Null <=> \/ Row(it) = NumRows
                                 \/ driverNext = AfterEnd /\ pos = Row(it) + 1)

(* Passing to the next buffer: which rows it gets, and whether there is    *)
(* one.                                                                    *)
LEMMA PassingLaw ==
    ASSUME IInv, NEW it \in Iterator, StepOver(it), it \notin astray
    PROVE  /\ High(bufferOf[it]) = Row(it) + 1 /\ Row(it) \in Nat /\ Row(it) <= NumRows
           /\ bufferOf'[it] = Null <=> From(Row(it) + 1) = AfterEnd
           /\ bufferOf'[it] # Null =>
                 /\ bufferOf'[it] \in Buffer /\ bufferOf'[it].size > 0
                 /\ bufferOf'[it].first = From(Row(it) + 1)
           /\ indexOf'[it] = 0
<1> USE NumRowsAssumption, ScrollableAssumption
<1>1. /\ AtLastIndex(it) /\ FetchBuffer(it, High(bufferOf[it]))
      /\ bufferOf[it] \in Buffer /\ indexOf[it] \in Nat
      /\ indexOf[it] + 1 = bufferOf[it].size
      /\ bufferOf[it].first \in Nat /\ bufferOf[it].size \in Nat
      /\ bufferOf[it].first + bufferOf[it].size <= AfterEnd
      /\ bufferOf[it].low = bufferOf[it].first
  BY DEF StepOver, AtLastIndex, Iterating, IInv, TypeOK, Buffer, BufferHoldsItsRows
<1>2. High(bufferOf[it]) = Row(it) + 1 /\ Row(it) \in Nat /\ Row(it) <= NumRows
  BY <1>1 DEF High, Row, AfterEnd
<1> DEFINE from == From(Row(it) + 1)
           size == RowsetSize(from, ArraySize)
           b == [low |-> Row(it) + 1, first |-> from, size |-> size]
<1>3. from \in Positions /\ ArraySize \in Nat \ {0}
  BY <1>2, FromLaw, ArraySizeType DEF IInv
<1>4. size \in Nat /\ (size = 0 <=> from = AfterEnd) /\ from + size \in Positions
  BY <1>3, RowsetLaw
<1>5. bufferOf'[it] = (IF size > 0 THEN b ELSE Null) /\ indexOf'[it] = 0
  BY <1>1, <1>2 DEF FetchBuffer, IInv, TypeOK
<1>6. size > 0 => b \in Buffer
  BY <1>2, <1>3, <1>4 DEF Buffer, Positions, AfterEnd
<1>7. b.size = size /\ b.first = from
  OBVIOUS
<1> HIDE DEF from, size, b
<1>8. Null \notin Buffer
  OBVIOUS
<1> QED
  BY <1>1, <1>2, <1>4, <1>5, <1>6, <1>7, <1>8 DEF from, Row

(* One increment.                                                          *)
LEMMA IncrementLeadsOn ==
    ASSUME IInv, NEW it \in Iterator
    PROVE  LeadsOn(it) /\ EndsByDriver(it)
<1> USE NumRowsAssumption, ScrollableAssumption
<1>1. CASE Step(it)
  <2>1. /\ bufferOf[it] \in Buffer /\ bufferOf[it].first \in Nat /\ bufferOf[it].size \in Nat
        /\ indexOf[it] \in Nat /\ indexOf[it] < bufferOf[it].size
        /\ indexOf[it] + 1 # bufferOf[it].size
        /\ bufferOf' = bufferOf /\ indexOf'[it] = indexOf[it] + 1
    BY <1>1 DEF Step, InRange, AtLastIndex, Iterating, IInv, TypeOK, Buffer
  <2>2. InRange(it)' /\ Row(it)' = Row(it) + 1
    BY <2>1 DEF InRange, Iterating, Row
  <2>3. ~StepOver(it)
    BY <1>1 DEF Step, StepOver
  <2> QED
    BY <2>2, <2>3 DEF LeadsOn, EndsByDriver
<1>2. CASE StepOver(it)
  <2>1. LeadsOn(it)
    <3> SUFFICES ASSUME it \notin astray, it \notin astray', bufferOf'[it] # Null
                 PROVE  InRange(it)' /\ Row(it)' = Row(it) + 1
      BY DEF LeadsOn
    <3>1. /\ High(bufferOf[it]) = Row(it) + 1 /\ Row(it) \in Nat /\ indexOf'[it] = 0
          /\ From(Row(it) + 1) # AfterEnd
          /\ bufferOf'[it] \in Buffer /\ bufferOf'[it].size > 0
          /\ bufferOf'[it].first = From(Row(it) + 1)
      BY <1>2, PassingLaw
    <3>2. ~strayed \/ Row(it) + 1 # pos
      BY <1>2, <3>1 DEF StepOver, FetchBuffer, Stray
    <3>3. From(Row(it) + 1) = Row(it) + 1
      BY <3>1, <3>2, FromLaw
    <3> QED
      BY <3>1, <3>3 DEF InRange, Iterating, Row
  <2>2. EndsByDriver(it)
    <3> SUFFICES ASSUME ~strayed, it \notin astray
                 PROVE  bufferOf'[it] = Null <=> \/ Row(it) = NumRows
                                                 \/ driverNext = AfterEnd /\ pos = Row(it) + 1
      BY DEF EndsByDriver
    <3>1. /\ bufferOf'[it] = Null <=> From(Row(it) + 1) = AfterEnd
          /\ Row(it) \in Nat /\ Row(it) <= NumRows
      BY <1>2, PassingLaw
    <3>2. driverNext = pos \/ driverNext = AfterEnd
      BY DEF IInv, PosTellsDriverPosition
    <3> QED
      BY <3>1, <3>2 DEF From, AfterEnd
  <2> QED
    BY <2>1, <2>2
<1> QED
  BY <1>1, <1>2 DEF Increment, LeadsOn, EndsByDriver

(* However many iterators share the cursor, a loop over one of them makes  *)
(* no more increments than there are rows.                                 *)
THEOREM LoopsAdvance == Spec => [][\A it \in Iterator : LeadsOn(it)]_vars
<1>1. IInv => [\A it \in Iterator : LeadsOn(it)]_vars
  BY IncrementLeadsOn
<1> QED
  BY <1>1, InvariantHolds, PTL DEF Spec

(* The exact reach of the finding about early ends: pos_ names the row the *)
(* iterator wants next, but fetch_buffer has left it there when another    *)
(* iterator took the driver behind the last row.                           *)
THEOREM EndsEarlyOnlyByDriver == Spec => [][\A it \in Iterator : EndsByDriver(it)]_vars
<1>1. IInv => [\A it \in Iterator : EndsByDriver(it)]_vars
  BY IncrementLeadsOn
<1> QED
  BY <1>1, InvariantHolds, PTL DEF Spec
-----------------------------------------------------------------------------
(* One pass.  A caller with one iterator at a time, and nothing else that  *)
(* moves the driver, has the range that forward traversal promises.        *)

OnePass == MaxStray = 0 /\ \E it : Iterator = {it}

(* The range as the refinement maps it.                                    *)
At == [it \in Iterator |->
          IF bufferOf[it] = Absent THEN 0
          ELSE IF bufferOf[it] = Null THEN AfterEnd ELSE Row(it)]

(* The driver stands right behind the only buffer there is.  Where pos_ is *)
(* still that of the first row, so is the driver.                          *)
OnePassInv ==
    /\ strays = 0 /\ ~strayed /\ astray = {}
    /\ pos = 1 => driverNext = 1
    /\ \A it \in Iterator :
          Iterating(it) =>
             /\ High(bufferOf[it]) = pos /\ driverNext = pos
             /\ bufferOf[it].size > 0 /\ bufferOf[it].low > 0
             /\ indexOf[it] <= bufferOf[it].size

(* In one pass, fetch_buffer reads from the row wanted, or the row wanted  *)
(* is the end.                                                             *)
LEMMA OnePassFetch ==
    ASSUME OnePass, IInv, OnePassInv, NEW it \in Iterator,
           NEW wanted \in Nat \ {0}, wanted = 1 \/ wanted = driverNext,
           FetchBuffer(it, wanted)
    PROVE  OnePassInv' /\ At'[it] = wanted /\ wanted \in Positions
<1> DEFINE size == RowsetSize(wanted, ArraySize)
<1>1. /\ Iterator = {it} /\ pos \in Nat \ {0} /\ driverNext \in Positions
      /\ driverNext = pos \/ driverNext = AfterEnd
      /\ bufferOf \in [Iterator -> Buffer \cup {Null, Absent}] /\ indexOf \in [Iterator -> Nat]
      /\ Null \notin Buffer /\ Absent \notin Buffer \cup {Null}
      /\ ArraySize \in Nat \ {0} /\ NumRows \in Nat
  BY ScrollableAssumption, NumRowsAssumption, ArraySizeType
  DEF OnePass, OnePassInv, IInv, TypeOK, PosTellsDriverPosition
<1>2. From(wanted) = wanted /\ wanted \in Positions
  BY <1>1 DEF From, Positions, AfterEnd, OnePassInv
<1>3. /\ size \in 0 .. ArraySize
      /\ wanted + size = PositionAfter(wanted, ArraySize)
      /\ size = 0 <=> wanted = AfterEnd
  BY <1>1, <1>2, RowsetLaw
<1>4. /\ driverNext' = wanted + size
      /\ pos' = IF size > 0 THEN wanted + size ELSE pos
      /\ bufferOf'[it] = IF size > 0 THEN [low |-> wanted, first |-> wanted, size |-> size] ELSE Null
      /\ indexOf'[it] = 0
      /\ strays' = strays /\ ~strayed' /\ astray' = {}
  BY <1>1, <1>2, <1>3 DEF FetchBuffer, DriverFetches, Stray, OnePassInv
<1> HIDE DEF size
<1>5. CASE size > 0
  <2> DEFINE b == [low |-> wanted, first |-> wanted, size |-> size]
  <2>1. b \in Buffer /\ bufferOf'[it] = b
    BY <1>3, <1>4, <1>5 DEF Buffer
  <2>2. b.low = wanted /\ b.first = wanted /\ b.size = size
    OBVIOUS
  <2> HIDE DEF b
  <2>3. At'[it] = wanted
    BY <1>1, <1>4, <2>1, <2>2 DEF At, Row
  <2>4. High(bufferOf'[it]) = pos' /\ driverNext' = pos' /\ pos' # 1
    BY <1>3, <1>4, <1>5, <2>1, <2>2 DEF High
  <2>5. OnePassInv'
    BY <1>1, <1>3, <1>4, <1>5, <2>1, <2>2, <2>4 DEF OnePassInv, High
  <2> QED
    BY <1>2, <2>3, <2>5
<1>6. CASE size = 0
  <2>1. bufferOf'[it] = Null /\ driverNext' = wanted /\ pos' = pos /\ wanted = AfterEnd
    BY <1>3, <1>4, <1>6
  <2>2. At'[it] = wanted
    BY <1>1, <2>1 DEF At
  <2>3. pos = 1 => wanted = 1
    BY DEF OnePassInv
  <2>4. OnePassInv'
    BY <1>1, <1>4, <2>1, <2>3 DEF OnePassInv, Iterating
  <2> QED
    BY <1>2, <2>2, <2>4
<1> QED
  BY <1>3, <1>5, <1>6

(* Before the first fetch there is no iterator.                            *)
LEMMA OnePassBegins == Init => OnePassInv /\ Multipass!Init
BY ScrollableAssumption DEF Init, OnePassInv, Iterating, Multipass!Init

(* Each step of the only iterator is one of the range's, or none.          *)
LEMMA OnePassStep ==
    ASSUME OnePass, IInv, OnePassInv, [Next]_vars
    PROVE  OnePassInv' /\ [Multipass!Next]_At
<1>1. PICK i : Iterator = {i}
  BY DEF OnePass
<1>2. /\ i \in Iterator /\ MaxStray = 0
      /\ bufferOf \in [Iterator -> Buffer \cup {Null, Absent}] /\ indexOf \in [Iterator -> Nat]
      /\ Null \notin Buffer /\ Absent \notin Buffer \cup {Null}
      /\ NumRows \in Nat /\ AfterEnd \in Nat
  BY <1>1, ScrollableAssumption, NumRowsAssumption DEF OnePass, IInv, TypeOK, AfterEnd
<1>3. /\ At = [it \in Iterator |-> At[it]] /\ At' = [it \in Iterator |-> At'[it]]
      /\ \A x : [At EXCEPT ![i] = x] = [it \in Iterator |-> x]
  BY <1>1 DEF At
<1>4. ASSUME Iterating(i)
      PROVE  /\ bufferOf[i] \in Buffer /\ bufferOf[i] # Null /\ bufferOf[i] # Absent
             /\ At[i] = Row(i) /\ Row(i) \in Nat \ {0}
             /\ bufferOf[i].low = bufferOf[i].first
             /\ High(bufferOf[i]) = bufferOf[i].first + bufferOf[i].size
             /\ High(bufferOf[i]) = driverNext /\ High(bufferOf[i]) <= AfterEnd
             /\ InRange(i) => Row(i) \in 1 .. NumRows
  BY <1>2, <1>4 DEF Iterating, At, Row, High, InRange, Buffer, OnePassInv, IInv,
                    BufferHoldsItsRows, AfterEnd
<1>5. CASE Fetch(i)
  <2>1. OnePassInv' /\ At'[i] = 1
    BY <1>2, <1>5, OnePassFetch DEF Fetch
  <2>2. At[i] = 0
    BY <1>2, <1>5 DEF Fetch, At
  <2>3. At' = [At EXCEPT ![i] = 1]
    BY <1>1, <1>3, <2>1
  <2>4. Multipass!Begin(i)
    BY <2>2, <2>3 DEF Multipass!Begin, At
  <2> QED
    BY <1>2, <2>1, <2>4 DEF Multipass!Next
<1>6. CASE Step(i)
  <2>1. Iterating(i) /\ InRange(i)
    BY <1>6 DEF Step, InRange
  <2>2. /\ bufferOf' = bufferOf /\ indexOf'[i] = indexOf[i] + 1
        /\ pos' = pos /\ driverNext' = driverNext
        /\ strays' = strays /\ strayed' = strayed /\ astray' = astray
        /\ indexOf[i] < bufferOf[i].size
    BY <1>2, <1>6, <2>1 DEF Step, straying, InRange
  <2>3. OnePassInv'
    BY <1>1, <1>2, <1>4, <2>1, <2>2 DEF OnePassInv, Iterating, Buffer, High
  <2>4. At'[i] = At[i] + 1 /\ At[i] \in 1 .. NumRows
    BY <1>2, <1>4, <2>1, <2>2 DEF At, Row, Buffer
  <2>5. Multipass!Advance(i)
    BY <1>1, <1>3, <2>4 DEF Multipass!Advance, At
  <2> QED
    BY <1>2, <2>3, <2>5 DEF Multipass!Next
<1>7. CASE StepOver(i)
  <2>1. Iterating(i) /\ InRange(i) /\ indexOf[i] + 1 = bufferOf[i].size
    BY <1>2, <1>7 DEF StepOver, AtLastIndex, Iterating, InRange, Buffer
  <2>2. High(bufferOf[i]) \in Nat \ {0} /\ High(bufferOf[i]) = driverNext
    BY <1>2, <1>4, <2>1 DEF Buffer, OnePassInv
  <2>3. OnePassInv' /\ At'[i] = High(bufferOf[i])
    BY <1>2, <1>7, <2>2, OnePassFetch DEF StepOver
  <2>4. High(bufferOf[i]) = At[i] + 1 /\ At[i] \in 1 .. NumRows
    BY <1>2, <1>4, <2>1 DEF Row, Buffer
  <2>5. Multipass!Advance(i)
    BY <1>1, <1>3, <2>3, <2>4 DEF Multipass!Advance, At
  <2> QED
    BY <1>2, <2>3, <2>5 DEF Multipass!Next
<1>8. CASE StepFails(i)
  <2>1. Iterating(i) /\ InRange(i) /\ indexOf[i] + 1 = bufferOf[i].size
    BY <1>2, <1>8 DEF StepFails, AtLastIndex, Iterating, InRange, Buffer
  <2>2. /\ bufferOf' = bufferOf /\ indexOf'[i] = indexOf[i] + 1
        /\ pos' = pos /\ driverNext' = driverNext
        /\ strays' = strays /\ strayed' = strayed /\ astray' = astray
    BY <1>2, <1>8, <2>1 DEF StepFails, straying
  <2>3. OnePassInv'
    BY <1>1, <1>2, <1>4, <2>1, <2>2 DEF OnePassInv, Iterating, Buffer, High
  <2>4. At'[i] = At[i] + 1 /\ At[i] \in 1 .. NumRows
    BY <1>2, <1>4, <2>1, <2>2 DEF At, Row, Buffer
  <2>5. Multipass!Advance(i)
    BY <1>1, <1>3, <2>4 DEF Multipass!Advance, At
  <2> QED
    BY <1>2, <2>3, <2>5 DEF Multipass!Next
<1>9. CASE Dereference(i) \/ DereferenceFails(i) \/ UNCHANGED vars
  <2>1. /\ bufferOf' = bufferOf /\ indexOf' = indexOf
        /\ pos' = pos /\ driverNext' = driverNext
        /\ strays' = strays /\ strayed' = strayed /\ astray' = astray
    BY <1>9 DEF Dereference, DereferenceFails, vars, straying
  <2> QED
    BY <2>1 DEF OnePassInv, At, Row, Iterating, High
<1>10. CASE Drop(i)
  <2>1. /\ bufferOf'[i] = Absent /\ bufferOf[i] # Absent
        /\ pos' = pos /\ driverNext' = driverNext
        /\ strays' = strays /\ strayed' = strayed /\ astray' = {}
    BY <1>2, <1>10 DEF Drop, OnePassInv
  <2>2. OnePassInv'
    BY <1>1, <1>2, <2>1 DEF OnePassInv, Iterating
  <2>3. At'[i] = 0 /\ At[i] # 0
    <3>1. bufferOf[i] = Null \/ Iterating(i)
      BY <1>2, <2>1 DEF Iterating
    <3>2. AfterEnd # 0
      BY <1>2 DEF AfterEnd
    <3>3. bufferOf[i] = Null => At[i] = AfterEnd
      BY <1>2, <2>1 DEF At
    <3>4. At'[i] = 0
      BY <1>2, <2>1 DEF At
    <3> QED
      BY <1>4, <3>1, <3>2, <3>3, <3>4
  <2>4. Multipass!Drop(i)
    BY <1>1, <1>3, <2>3 DEF Multipass!Drop, At
  <2> QED
    BY <1>2, <2>2, <2>4 DEF Multipass!Next
<1>11. ASSUME NEW from \in Iterator, NEW to \in Iterator, Copy(from, to)
       PROVE  FALSE
  BY <1>1, <1>11 DEF Copy
<1>12. ~ \E from \in Positions : FetchOne(from)
  BY <1>2 DEF FetchOne, OnePassInv
<1>13. ~ \E next \in Positions, row \in 0 .. NumRows : BulkOperation(next, row)
  BY <1>2 DEF BulkOperation, OnePassInv
<1> QED
  BY <1>1, <1>5, <1>6, <1>7, <1>8, <1>9, <1>10, <1>11, <1>12, <1>13 DEF Next, Increment

(* One iterator at a time sees every row once, in order, and the end       *)
(* behind the last one, whatever fetches fail and for any sizes of result  *)
(* and rowset.                                                             *)
THEOREM OnePassIsMultipass == ASSUME OnePass PROVE Spec => Multipass!Spec
<1>1. IInv /\ OnePassInv /\ [Next]_vars => OnePassInv' /\ [Multipass!Next]_At
  BY OnePassStep
<1>2. Init => OnePassInv /\ Multipass!Init
  BY OnePassBegins
<1>3. Multipass!Spec <=> Multipass!Init /\ [][Multipass!Next]_At
  BY DEF Multipass!Spec, At
<1> QED
  BY <1>1, <1>2, <1>3, InvariantHolds, PTL DEF Spec
(* Where columns are left to SQLGetData, the driver's row is the one in    *)
(* the buffer, and so were the values read from both.                      *)
OnePassValueInv ==
    /\ ValueFromOneRow
    /\ ~BulkFetch => \A it \in Iterator :
          Iterating(it) => bufferOf[it].size = 1 /\ driverRow = bufferOf[it].first

(* A fetch keeps that: it replaces buffer, row and value.                  *)
LEMMA OnePassValueFetch ==
    ASSUME OnePass, IInv, OnePassInv, OnePassValueInv, NEW it \in Iterator,
           NEW wanted \in Nat \ {0}, FetchBuffer(it, wanted)
    PROVE  OnePassValueInv'
<1> DEFINE from == From(wanted)
           size == RowsetSize(from, ArraySize)
<1>1. /\ Iterator = {it} /\ ArraySize \in Nat \ {0} /\ from \in Positions
      /\ bufferOf \in [Iterator -> Buffer \cup {Null, Absent}]
      /\ cached \in [Iterator -> Value \cup {Null}]
      /\ Null \notin Buffer
  BY ScrollableAssumption, ArraySizeType, FromLaw DEF OnePass, IInv, TypeOK
<1>2. size \in 0 .. ArraySize
  BY <1>1, RowsetLaw
<1>3. /\ bufferOf'[it] = IF size > 0 THEN [low |-> wanted, first |-> from, size |-> size] ELSE Null
      /\ cached'[it] = Null /\ BulkFetch' = BulkFetch
      /\ driverRow' = IF size > 0 THEN from ELSE 0
  BY <1>1 DEF FetchBuffer, DriverFetches, binding, BulkFetch, Offsets
<1>4. ~BulkFetch => ArraySize = 1
  BY DEF ArraySize
<1> HIDE DEF from, size
<1>5. CASE size > 0
  <2>1. bufferOf'[it].first = from /\ bufferOf'[it].size = size
    BY <1>3, <1>5
  <2> QED
    BY <1>1, <1>2, <1>3, <1>4, <1>5, <2>1 DEF OnePassValueInv, ValueFromOneRow
<1>6. CASE size = 0
  BY <1>1, <1>3, <1>6 DEF OnePassValueInv, ValueFromOneRow, Iterating
<1> QED
  BY <1>2, <1>5, <1>6

(* So does every step of the only iterator.                                *)
LEMMA OnePassValueStep ==
    ASSUME OnePass, IInv, OnePassInv, OnePassValueInv, [Next]_vars
    PROVE  OnePassValueInv'
<1>1. PICK i : Iterator = {i}
  BY DEF OnePass
<1>2. /\ i \in Iterator /\ MaxStray = 0
      /\ bufferOf \in [Iterator -> Buffer \cup {Null, Absent}] /\ indexOf \in [Iterator -> Nat]
      /\ cached \in [Iterator -> Value \cup {Null}]
      /\ Null \notin Buffer /\ Absent \notin Buffer \cup {Null}
  BY <1>1, ScrollableAssumption DEF OnePass, IInv, TypeOK
<1>3. CASE Fetch(i)
  BY <1>2, <1>3, OnePassValueFetch DEF Fetch
<1>4. CASE StepOver(i)
  <2>1. High(bufferOf[i]) \in Nat \ {0}
    BY <1>2, <1>4, HighType DEF StepOver, AtLastIndex
  <2> QED
    BY <1>2, <1>4, <2>1, OnePassValueFetch DEF StepOver
<1>5. CASE Step(i) \/ StepFails(i)
  <2>1. /\ bufferOf' = bufferOf /\ cached'[i] = Null
        /\ driverRow' = driverRow /\ BulkFetch' = BulkFetch
    BY <1>2, <1>5 DEF Step, StepFails, binding, BulkFetch, Offsets
  <2> QED
    BY <1>1, <2>1 DEF OnePassValueInv, ValueFromOneRow, Iterating
<1>6. CASE Dereference(i)
  <2>1. /\ bufferOf' = bufferOf /\ indexOf' = indexOf /\ driverRow' = driverRow
        /\ numBound' = numBound /\ bookmarks' = bookmarks /\ BulkFetch' = BulkFetch
        /\ cached'[i] = Construct(i)
        /\ Iterating(i) /\ indexOf[i] < bufferOf[i].size
    BY <1>2, <1>6 DEF Dereference, InRange, binding, BulkFetch, Offsets
  <2>2. ASSUME NEW c \in Column, ~Misread(c) PROVE Construct(i)[c] = Row(i)
    <3>1. CASE c <= numBound
      BY <3>1 DEF Construct
    <3>2. CASE ~(c <= numBound)
      <4>1. Construct(i)[c] = driverRow
        BY <2>2, <3>2 DEF Construct
      <4>2. ~BulkFetch
        BY <2>2, <3>2, ScrollableAssumption
        DEF Column, Misread, BulkFetch, Offsets, IInv, TypeOK
      <4>3. /\ bufferOf[i].size = 1 /\ driverRow = bufferOf[i].first
            /\ bufferOf[i].first \in Nat
        BY <1>2, <2>1, <4>2 DEF OnePassValueInv, Iterating, Buffer
      <4> QED
        BY <1>2, <2>1, <4>1, <4>3 DEF Row
    <3> QED
      BY <3>1, <3>2
  <2>3. Row(i)' = Row(i) /\ \A c : Misread(c)' = Misread(c)
    BY <2>1 DEF Row, Misread, Offsets
  <2>4. ValueFromOneRow'
    BY <1>1, <2>1, <2>2, <2>3 DEF ValueFromOneRow
  <2> QED
    BY <1>1, <2>1, <2>4 DEF OnePassValueInv, Iterating
<1>7. CASE Drop(i)
  <2>1. /\ bufferOf'[i] = Absent /\ cached'[i] = Null
        /\ driverRow' = driverRow /\ BulkFetch' = BulkFetch
    BY <1>2, <1>7 DEF Drop, binding, BulkFetch, Offsets
  <2> QED
    BY <1>1, <1>2, <2>1 DEF OnePassValueInv, ValueFromOneRow, Iterating
<1>8. CASE DereferenceFails(i) \/ UNCHANGED vars
  <2>1. /\ bufferOf' = bufferOf /\ indexOf' = indexOf /\ driverRow' = driverRow
        /\ cached' = cached /\ numBound' = numBound /\ bookmarks' = bookmarks
    BY <1>8 DEF DereferenceFails, vars, binding
  <2> QED
    BY <2>1 DEF OnePassValueInv, ValueFromOneRow, Iterating, Row, Misread, BulkFetch, Offsets
<1>9. ASSUME NEW from \in Iterator, NEW to \in Iterator, Copy(from, to)
      PROVE  FALSE
  BY <1>1, <1>9 DEF Copy
<1>10. ~ \E from \in Positions : FetchOne(from)
  BY <1>2 DEF FetchOne, OnePassInv
<1>11. ~ \E next \in Positions, row \in 0 .. NumRows : BulkOperation(next, row)
  BY <1>2 DEF BulkOperation, OnePassInv
<1> QED
  BY <1>1, <1>3, <1>4, <1>5, <1>6, <1>7, <1>8, <1>9, <1>10, <1>11 DEF Next, Increment

(* With one iterator at a time a value never mixes two rows, whichever     *)
(* columns are bound, with bookmarks or without: the columns SQLGetData    *)
(* reads belong to the row whose other columns are in the buffer.          *)
THEOREM OnePassValues == ASSUME OnePass PROVE Spec => []ValueFromOneRow
<1>1. Init => OnePassValueInv
  BY ScrollableAssumption DEF Init, OnePassValueInv, ValueFromOneRow, Iterating
<1>2. IInv /\ OnePassInv /\ OnePassValueInv /\ [Next]_vars => OnePassInv' /\ OnePassValueInv'
  BY OnePassStep, OnePassValueStep
<1>3. OnePassValueInv => ValueFromOneRow
  BY DEF OnePassValueInv
<1> QED
  BY <1>1, <1>2, <1>3, OnePassBegins, InvariantHolds, PTL DEF Spec
=============================================================================
