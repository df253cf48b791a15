---------------------- MODULE ForwardOnlyCursor_proofs ---------------------
(***************************************************************************)
(* For any result, any buffer size and any number of iterators: the live   *)
(* buffers of a ForwardOnlyCursor are one chain that starts at buffer_,    *)
(* each is alive exactly as long as somebody can reach it, and no row is   *)
(* delivered twice or skipped.                                             *)
(***************************************************************************)
EXTENDS Integers, ForwardOnlyCursor, ResultSet_proofs

(* next_ leads to a later buffer, labelled with this one's high mark.      *)
LinksGoForward ==
    \A b \in Live :
        buffers[b].next # Null =>
           /\ buffers[b].next \in Live
           /\ buffers[b].first + buffers[b].size <= buffers[buffers[b].next].first
           /\ buffers[buffers[b].next].low = buffers[b].low + buffers[b].size

(* Only the first buffer of the chain can be dying.                        *)
DyingIsHead ==
    dying # Null => dying = head /\ dying \in Live

NonEmptyBuffers ==
    \A b \in Live :
       /\ buffers[b].size > 0 /\ buffers[b].first > 0
       /\ buffers[b].first + buffers[b].size <= driverNext

DistinctRows ==
    \A b, c \in Live : b # c => \/ buffers[b].first + buffers[b].size <= buffers[c].first
                                \/ buffers[c].first + buffers[c].size <= buffers[b].first

TakenApart ==
    /\ \A r \in taken : r < driverNext
    /\ \A b \in Live : \A r \in taken :
          r < buffers[b].first \/ buffers[b].first + buffers[b].size <= r

(* OneChainFromHead speaks of reachable shapes only through neighbours, so *)
(* it is inductive once the links are known to go forward.                 *)
IInv ==
    /\ TypeOK
    /\ OneChainFromHead
    /\ OwnedExactlyWhileReachable
    /\ LinksGoForward
    /\ DyingIsHead
    /\ NonEmptyBuffers
    /\ DistinctRows
    /\ TakenApart

(* Without iterators and buffers the invariant holds.                      *)
LEMMA InitEstablishesIInv == Init => IInv
<1> SUFFICES ASSUME Init PROVE IInv
  OBVIOUS
<1>1. Live = {}
  BY DEF Init, Live
<1>2. TypeOK
  BY <1>1, NumRowsAssumption, BufferAssumption DEF Init, TypeOK, Positions, AfterEnd, Live
<1> QED
  BY <1>1, <1>2, BufferAssumption
  DEF Init, IInv, OneChainFromHead, OwnedExactlyWhileReachable, Iterating, LinksGoForward,
      DyingIsHead, NonEmptyBuffers, DistinctRows, TakenApart

(* A rowset that is not empty makes a well-formed buffer behind everything *)
(* delivered so far.                                                       *)
LEMMA NewBufferLaw ==
    ASSUME TypeOK, NEW low \in Nat, RowsetSize(driverNext, BufferSize) > 0
    PROVE  /\ NewBuffer(low) \in BufferRecord
           /\ NewBuffer(low).low = low
           /\ NewBuffer(low).first = driverNext
           /\ NewBuffer(low).next = Null
           /\ NewBuffer(low).size \in Nat /\ NewBuffer(low).size > 0
           /\ driverNext + NewBuffer(low).size = PositionAfter(driverNext, BufferSize)
           /\ PositionAfter(driverNext, BufferSize) \in Positions
           /\ driverNext \in Nat \ {0}
<1>1. driverNext \in Positions /\ BufferSize \in Nat \ {0}
  BY BufferAssumption DEF TypeOK
<1>2. /\ RowsetSize(driverNext, BufferSize) \in Nat
      /\ PositionAfter(driverNext, BufferSize) \in Positions
      /\ driverNext + RowsetSize(driverNext, BufferSize) = PositionAfter(driverNext, BufferSize)
  BY <1>1, RowsetLaw
<1>3. driverNext \in Nat \ {0}
  BY <1>1, NumRowsAssumption DEF Positions, AfterEnd
<1> QED
  BY <1>2, <1>3 DEF NewBuffer, BufferRecord

(* Arithmetic of std::size_t stays in its range.                           *)
LEMMA ModuloType ==
    ASSUME NEW x \in Int PROVE x % SizeMod \in 0 .. SizeMod - 1
<1>1. SizeMod \in Nat /\ SizeMod > 0
  BY BufferAssumption, NumRowsAssumption
<1> QED
  BY <1>1

(* Moving within a buffer touches no ownership.                            *)
LEMMA IndexStepKeepsIInv ==
    ASSUME IInv, NEW it \in Iterator, Step(it) \/ StepFails(it)
    PROVE  IInv'
<1>1. NextIndex(it) \in 0 .. SizeMod - 1
  <2>1. indexOf[it] + 1 \in Nat
    BY BufferAssumption DEF IInv, TypeOK
  <2> QED
    BY <2>1, ModuloType DEF NextIndex
<1>2. /\ indexOf' = [indexOf EXCEPT ![it] = NextIndex(it)]
      /\ UNCHANGED <<driverNext, buffers, head, bufferOf, dying, taken>>
  BY DEF Step, StepFails
<1>3. TypeOK'
  BY <1>1, <1>2 DEF IInv, TypeOK, Live
<1> QED
  BY <1>2, <1>3
  DEF IInv, OneChainFromHead, OwnedExactlyWhileReachable, Iterating, Held, LinksGoForward,
      DyingIsHead, NonEmptyBuffers, DistinctRows, TakenApart, Live

(* An iterator exchanges what it holds for another live buffer or for      *)
(* nothing.  The buffer it lets go of is left to its other owners, or it   *)
(* was the first of the chain and dies.                                    *)
LEMMA ExchangeKeepsIInv ==
    ASSUME IInv, dying = Null, NEW it \in Iterator,
           NEW target \in Live \cup {Null, Absent}, target # bufferOf[it],
           bufferOf' = [bufferOf EXCEPT ![it] = target],
           indexOf' \in [Iterator -> 0 .. SizeMod - 1],
           dying' = IF Iterating(it) THEN Orphan(it, bufferOf[it]) ELSE Null,
           UNCHANGED <<driverNext, buffers, head, taken>>
    PROVE  IInv'
<1> USE BufferAssumption
<1> DEFINE b == bufferOf[it]
<1>1. Live' = Live /\ Live \subseteq BufferId
  BY DEF Live, IInv, TypeOK
<1>2. \/ dying' = Null
      \/ /\ dying' = b /\ b \in Live /\ b = head
         /\ \A j \in Iterator \ {it} : bufferOf[j] # b
         /\ \A c \in Live : buffers[c].next # b
  <2>1. CASE ~Iterating(it)
    BY <2>1
  <2>2. CASE Iterating(it)
    <3>1. b \in Live
      BY <2>2 DEF IInv, OwnedExactlyWhileReachable
    <3>2. CASE \/ \E j \in Iterator \ {it} : bufferOf[j] = b
               \/ \E c \in Live : buffers[c].next = b
      BY <2>2, <3>2 DEF Orphan
    <3>3. CASE /\ \A j \in Iterator \ {it} : bufferOf[j] # b
               /\ \A c \in Live : buffers[c].next # b
      <4>1. b = head
        BY <3>1, <3>3 DEF IInv, OneChainFromHead
      <4> QED
        BY <2>2, <3>1, <3>3, <4>1 DEF Orphan
    <3> QED
      BY <3>2, <3>3
  <2> QED
    BY <2>1, <2>2
<1>3. TypeOK'
  <2>1. bufferOf' \in [Iterator -> BufferId \cup {Null, Absent}]
    BY <1>1 DEF IInv, TypeOK
  <2>2. dying' \in BufferId \cup {Null}
    BY <1>1, <1>2
  <2> QED
    BY <2>1, <2>2 DEF IInv, TypeOK, Live
<1>4. DyingIsHead'
  BY <1>1, <1>2 DEF DyingIsHead
<1>5. OwnedExactlyWhileReachable'
  <2>1. ASSUME NEW j \in Iterator, Iterating(j)' PROVE bufferOf'[j] \in Live \ {dying'}
    <3>1. CASE j = it
      <4>1. bufferOf'[j] = target /\ target \in Live
        BY <3>1, <2>1, <1>1 DEF IInv, TypeOK, Iterating
      <4> QED
        BY <4>1, <1>1, <1>2
    <3>2. CASE j # it
      <4>1. bufferOf'[j] = bufferOf[j]
        BY <3>2 DEF IInv, TypeOK
      <4>2. bufferOf[j] \in Live
        BY <4>1, <2>1 DEF IInv, OwnedExactlyWhileReachable, Iterating
      <4> QED
        BY <3>2, <4>1, <4>2, <1>1, <1>2
    <3> QED
      BY <3>1, <3>2
  <2>2. ASSUME NEW c \in Live, c # dying' PROVE Held(c)'
    <3>1. Held(c)
      BY <1>1 DEF IInv, OwnedExactlyWhileReachable
    <3>2. CASE \E d \in Live : buffers[d].next = c
      BY <3>2, <1>1 DEF Held
    <3>3. CASE \E j \in Iterator \ {it} : bufferOf[j] = c
      BY <3>3 DEF Held, IInv, TypeOK
    <3>4. CASE /\ bufferOf[it] = c
               /\ \A d \in Live : buffers[d].next # c
               /\ \A j \in Iterator \ {it} : bufferOf[j] # c
      BY <3>4, <2>2, <1>1 DEF Iterating, Orphan
    <3> QED
      BY <3>1, <3>2, <3>3, <3>4 DEF Held
  <2> QED
    BY <2>1, <2>2, <1>1 DEF OwnedExactlyWhileReachable
<1>6. /\ OneChainFromHead' /\ LinksGoForward' /\ NonEmptyBuffers' /\ DistinctRows'
      /\ TakenApart'
  BY <1>1
  DEF IInv, OneChainFromHead, LinksGoForward, NonEmptyBuffers, DistinctRows, TakenApart
<1> QED
  BY <1>3, <1>4, <1>5, <1>6 DEF IInv

(* When buffer_ has expired nothing is alive: a second chain never starts  *)
(* beside a first one.                                                     *)
LEMMA ExpiredMeansNothingAlive ==
    ASSUME IInv, dying = Null, Expired
    PROVE  Live = {}
<1> SUFFICES ASSUME Live # {} PROVE FALSE
  OBVIOUS
<1>1. head \in Live
  BY DEF IInv, OneChainFromHead
<1>2. Held(head)
  BY <1>1, BufferAssumption DEF IInv, TypeOK, OwnedExactlyWhileReachable
<1> QED
  BY <1>1, <1>2 DEF Expired

(* fetch() keeps the invariant, whether it finds a buffer or makes one.    *)
LEMMA FetchKeepsIInv ==
    ASSUME IInv, NEW it \in Iterator, Fetch(it)
    PROVE  IInv'
<1> USE BufferAssumption
<1>1. CASE FetchAlive(it)
  <2>1. head \in Live /\ head # bufferOf[it] /\ ~Iterating(it)
    BY <1>1 DEF FetchAlive, Expired, IInv, TypeOK, Iterating
  <2>2. /\ bufferOf' = [bufferOf EXCEPT ![it] = head]
        /\ indexOf' = [indexOf EXCEPT ![it] = (1 + SizeMod - buffers[head].low) % SizeMod]
        /\ dying = Null /\ dying' = Null
        /\ UNCHANGED <<driverNext, buffers, head, taken>>
    BY <1>1 DEF FetchAlive, Begin
  <2>3. indexOf' \in [Iterator -> 0 .. SizeMod - 1]
    <3>1. (1 + SizeMod - buffers[head].low) % SizeMod \in 0 .. SizeMod - 1
      <4>1. 1 + SizeMod - buffers[head].low \in Int
        BY <2>1 DEF IInv, TypeOK, BufferRecord
      <4> QED
        BY <4>1, ModuloType
    <3> QED
      BY <2>2, <3>1 DEF IInv, TypeOK
  <2> QED
    BY <2>1, <2>2, <2>3, ExchangeKeepsIInv
<1>2. CASE FetchNew(it)
  <2>1. Live = {}
    BY <1>2, ExpiredMeansNothingAlive DEF FetchNew
  <2>2. PICK b \in FreeIds :
           /\ buffers' = [c \in Live \cup {b} |-> IF c = b THEN NewBuffer(1) ELSE buffers[c]]
           /\ head' = b
           /\ Begin(it, b, 1)
    BY <1>2 DEF FetchNew
  <2>0. /\ driverNext' = PositionAfter(driverNext, BufferSize)
        /\ dying = Null /\ UNCHANGED <<dying, taken>>
    BY <1>2 DEF FetchNew
  <2>3. /\ Live' = {b} /\ buffers'[b] = NewBuffer(1) /\ b \in BufferId
        /\ buffers' = [c \in {b} |-> NewBuffer(1)]
    BY <2>1, <2>2 DEF Live, FreeIds
  <2>4. /\ NewBuffer(1) \in BufferRecord
        /\ NewBuffer(1).first = driverNext /\ NewBuffer(1).next = Null
        /\ NewBuffer(1).size > 0
        /\ driverNext + NewBuffer(1).size = driverNext'
        /\ driverNext' \in Positions
        /\ driverNext \in Nat \ {0}
    BY <1>2, <2>0, <2>2, NewBufferLaw DEF FetchNew, IInv
  <2>5. bufferOf' = [bufferOf EXCEPT ![it] = b] /\ indexOf' \in [Iterator -> 0 .. SizeMod - 1]
    <3>1. (1 + SizeMod - 1) % SizeMod \in 0 .. SizeMod - 1
      BY ModuloType
    <3> QED
      BY <2>2, <3>1 DEF Begin, IInv, TypeOK
  <2>6. TypeOK'
    BY <2>0, <2>2, <2>3, <2>4, <2>5 DEF IInv, TypeOK, Live
  <2>7. OwnedExactlyWhileReachable'
    <3>1. ASSUME NEW j \in Iterator, j # it PROVE ~Iterating(j)'
      BY <2>1, <2>5, <3>1 DEF IInv, TypeOK, OwnedExactlyWhileReachable, Iterating
    <3>2. bufferOf'[it] = b
      BY <2>5 DEF IInv, TypeOK
    <3> QED
      BY <2>0, <2>2, <2>3, <3>1, <3>2 DEF OwnedExactlyWhileReachable, Held
  <2>8. OneChainFromHead'
    BY <2>0, <2>2, <2>3, <2>4 DEF OneChainFromHead, BufferRecord
  <2>9. TakenApart'
    BY <2>0, <2>2, <2>3, <2>4, NumRowsAssumption DEF IInv, TakenApart, TypeOK, BufferRecord
  <2>10. LinksGoForward' /\ DyingIsHead' /\ NonEmptyBuffers' /\ DistinctRows'
    BY <2>0, <2>2, <2>3, <2>4
    DEF LinksGoForward, DyingIsHead, NonEmptyBuffers, DistinctRows, BufferRecord
  <2> QED
    BY <2>6, <2>7, <2>8, <2>9, <2>10 DEF IInv
<1>3. CASE FetchNothing(it)
  <2>1. bufferOf[it] = Absent /\ bufferOf' = [bufferOf EXCEPT ![it] = Null]
        /\ dying = Null /\ UNCHANGED <<driverNext, buffers, head, indexOf, dying, taken>>
    BY <1>3 DEF FetchNothing
  <2>2. ~Iterating(it) /\ Null # bufferOf[it]
    BY <2>1 DEF Iterating
  <2> QED
    BY <2>1, <2>2, ExchangeKeepsIInv DEF IInv, TypeOK
<1> QED
  BY <1>1, <1>2, <1>3 DEF Fetch

(* fetch_one keeps the invariant: it moves the driver and no buffer.       *)
LEMMA FetchOneKeepsIInv ==
    ASSUME IInv, FetchOne
    PROVE  IInv'
<1> USE BufferAssumption
<1>1. /\ driverNext \in Nat \ {0} /\ driverNext' \in Positions
      /\ driverNext' = driverNext + 1 /\ driverNext \in 1 .. NumRows
  <2>1. driverNext \in Positions
    BY DEF IInv, TypeOK
  <2>2. RowsetSize(driverNext, 1) = 1 /\ driverNext' = PositionAfter(driverNext, 1)
    BY DEF FetchOne
  <2>3. driverNext + RowsetSize(driverNext, 1) = PositionAfter(driverNext, 1)
    BY <2>1, RowsetLaw
  <2>4. PositionAfter(driverNext, 1) \in Positions
    BY <2>1, RowsetLaw
  <2> QED
    BY <2>1, <2>2, <2>3, <2>4, NumRowsAssumption DEF Positions, AfterEnd
<1>2. /\ taken' = taken \cup {driverNext} /\ dying = Null
      /\ UNCHANGED <<buffers, head, bufferOf, indexOf, dying>>
  BY DEF FetchOne
<1>3. TypeOK' /\ Live' = Live
  BY <1>1, <1>2 DEF IInv, TypeOK, Live
<1>4. NonEmptyBuffers' /\ TakenApart'
  BY <1>1, <1>2, <1>3, NumRowsAssumption
  DEF IInv, TypeOK, NonEmptyBuffers, TakenApart, BufferRecord
<1> QED
  BY <1>2, <1>3, <1>4
  DEF IInv, OneChainFromHead, OwnedExactlyWhileReachable, Iterating, Held, LinksGoForward,
      DyingIsHead, DistinctRows

(* What an iterator lets go of keeps an owner, or was the first buffer.    *)
LEMMA OrphanLaw ==
    ASSUME IInv, NEW it \in Iterator, Iterating(it)
    PROVE  LET b == bufferOf[it] IN
           /\ b \in Live
           /\ \/ /\ Orphan(it, b) = Null
                 /\ \/ \E j \in Iterator \ {it} : bufferOf[j] = b
                    \/ \E c \in Live : buffers[c].next = b
              \/ /\ Orphan(it, b) = b /\ b = head
                 /\ \A j \in Iterator \ {it} : bufferOf[j] # b
                 /\ \A c \in Live : buffers[c].next # b
<1>1. bufferOf[it] \in Live
  BY DEF IInv, OwnedExactlyWhileReachable
<1> QED
  BY <1>1 DEF Orphan, IInv, OneChainFromHead

(* An increment that fetches the next buffer keeps the invariant.          *)
LEMMA ExtendKeepsIInv ==
    ASSUME IInv, NEW it \in Iterator, StepToFetched(it)
    PROVE  IInv'
<1> USE BufferAssumption
<1> DEFINE b == bufferOf[it]
           low == High(bufferOf[it])
           Orphaned == Orphan(it, bufferOf[it])
<1>1. /\ Iterating(it) /\ b \in Live /\ dying = Null /\ buffers[b].next = Null
      /\ RowsetSize(driverNext, BufferSize) > 0
  BY OrphanLaw DEF StepToFetched, AtLastIndex
<1>2. PICK n \in FreeIds :
         /\ buffers' = [c \in Live \cup {n} |->
                IF c = n THEN NewBuffer(low)
                ELSE IF c = b THEN [buffers[c] EXCEPT !.next = n] ELSE buffers[c]]
         /\ MoveTo(it, n)
  BY DEF StepToFetched
<1>3. /\ driverNext' = PositionAfter(driverNext, BufferSize)
      /\ UNCHANGED <<head, taken>>
      /\ bufferOf' = [bufferOf EXCEPT ![it] = n]
      /\ indexOf' = [indexOf EXCEPT ![it] = 0]
      /\ dying' = Orphaned
  BY <1>2 DEF StepToFetched, MoveTo
<1>4. /\ n \in BufferId /\ n \notin Live /\ n # head /\ n # b /\ n # Null
      /\ Live' = Live \cup {n}
      /\ Live \subseteq BufferId
      /\ buffers \in [Live -> BufferRecord]
  BY <1>1, <1>2 DEF FreeIds, Live, IInv, TypeOK
<1>5. low = buffers[b].low + buffers[b].size /\ low \in Nat
  BY <1>1, <1>4 DEF High, BufferRecord
<1>6. /\ NewBuffer(low) \in BufferRecord /\ NewBuffer(low).low = low
      /\ NewBuffer(low).first = driverNext /\ NewBuffer(low).next = Null
      /\ NewBuffer(low).size \in Nat /\ NewBuffer(low).size > 0
      /\ driverNext + NewBuffer(low).size = driverNext'
      /\ driverNext' \in Positions /\ driverNext \in Nat \ {0} /\ driverNext' \in Nat
  BY <1>1, <1>3, <1>5, NewBufferLaw, NumRowsAssumption DEF IInv, Positions, AfterEnd
<1> HIDE DEF low, Orphaned
<1>7. /\ buffers'[n] = NewBuffer(low)
      /\ buffers'[b].next = n
      /\ \A c \in Live : /\ buffers'[c].low = buffers[c].low
                         /\ buffers'[c].first = buffers[c].first
                         /\ buffers'[c].size = buffers[c].size
                         /\ c # b => buffers'[c].next = buffers[c].next
  BY <1>1, <1>2, <1>4 DEF BufferRecord
<1>8. /\ \A c \in Live : /\ buffers[c].low \in Nat /\ buffers[c].first \in Nat
                          /\ buffers[c].size \in Nat
                          /\ buffers[c].size > 0 /\ buffers[c].first > 0
                          /\ buffers[c].first + buffers[c].size <= driverNext
                          /\ buffers[c].next \in Live \cup {Null}
                          /\ buffers[c].next # n
  BY <1>4 DEF BufferRecord, IInv, NonEmptyBuffers, LinksGoForward
<1>9. \/ /\ Orphaned = Null
         /\ \/ \E j \in Iterator \ {it} : bufferOf[j] = b
            \/ \E c \in Live : buffers[c].next = b
      \/ /\ Orphaned = b /\ b = head
         /\ \A j \in Iterator \ {it} : bufferOf[j] # b
         /\ \A c \in Live : buffers[c].next # b
  BY <1>1, OrphanLaw DEF Orphaned
<1>10. TypeOK'
  <2>1. buffers' \in [Live' -> BufferRecord]
    BY <1>1, <1>2, <1>4, <1>6 DEF BufferRecord
  <2>2. dying' \in BufferId \cup {Null}
    BY <1>1, <1>3, <1>4, <1>9
  <2>3. indexOf' \in [Iterator -> 0 .. SizeMod - 1]
    BY <1>3, NumRowsAssumption DEF IInv, TypeOK
  <2> QED
    BY <1>3, <1>4, <1>6, <2>1, <2>2, <2>3 DEF IInv, TypeOK
<1>11. OneChainFromHead'
  <2>1. head' \in Live'
    BY <1>1, <1>3, <1>4 DEF IInv, OneChainFromHead
  <2>2. \A c \in Live' : buffers'[head'].first <= buffers'[c].first
    <3>1. head \in Live /\ head' = head
      BY <1>1, <1>3 DEF IInv, OneChainFromHead
    <3>2. buffers'[head].first <= buffers'[n].first
      BY <3>1, <1>6, <1>7, <1>8
    <3> QED
      BY <3>1, <3>2, <1>4, <1>7 DEF IInv, OneChainFromHead
  <2>3. \A c \in Live' \ {head'} : \E d \in Live' : buffers'[d].next = c
    <3> SUFFICES ASSUME NEW c \in Live, c # head PROVE \E d \in Live : buffers'[d].next = c
      BY <1>1, <1>3, <1>4, <1>7
    <3>1. PICK d \in Live : buffers[d].next = c
      BY DEF IInv, OneChainFromHead
    <3>2. d # b
      BY <3>1, <1>1, <1>4
    <3> QED
      BY <3>1, <3>2, <1>7
  <2>4. ASSUME NEW x \in Live', NEW y \in Live', buffers'[x].first < buffers'[y].first
        PROVE  /\ buffers'[x].next \in Live'
               /\ buffers'[buffers'[x].next].first <= buffers'[y].first
    <3>1. CASE x \in Live /\ y \in Live
      <4>1. /\ buffers[x].next \in Live
            /\ buffers[buffers[x].next].first <= buffers[y].first
        BY <2>4, <3>1, <1>7 DEF IInv, OneChainFromHead
      <4>2. x # b
        BY <4>1, <1>1, <1>4
      <4> QED
        BY <3>1, <4>1, <4>2, <1>4, <1>7
    <3>2. CASE x \in Live /\ y = n
      <4>1. CASE x = b
        BY <4>1, <3>2, <1>4, <1>7, <1>6
      <4>2. CASE x # b
        <5>1. ~(buffers[b].first < buffers[x].first)
          BY <3>2, <1>1, <1>4 DEF IInv, OneChainFromHead
        <5>2. buffers[x].first # buffers[b].first
          BY <3>2, <4>2, <1>1, <1>8 DEF IInv, DistinctRows
        <5>3. buffers[x].first < buffers[b].first
          BY <5>1, <5>2, <3>2, <1>1, <1>8
        <5>4. /\ buffers[x].next \in Live
              /\ buffers[buffers[x].next].first <= buffers[b].first
          BY <5>3, <3>2, <1>1 DEF IInv, OneChainFromHead
        <5>5. buffers[b].first <= driverNext
          BY <1>1, <1>8, <1>6
        <5>6. buffers[buffers[x].next].first <= driverNext
          BY <5>4, <5>5, <1>1, <1>6, <1>8
        <5> QED
          BY <5>4, <5>6, <3>2, <4>2, <1>4, <1>6, <1>7
      <4> QED
        BY <4>1, <4>2
    <3>3. CASE x = n /\ y \in Live
      BY <2>4, <3>3, <1>6, <1>7, <1>8
    <3>4. CASE x = n /\ y = n
      BY <2>4, <3>4, <1>6, <1>7
    <3> QED
      BY <3>1, <3>2, <3>3, <3>4, <1>4
  <2> QED
    BY <2>1, <2>2, <2>3, <2>4 DEF OneChainFromHead
<1>12. OwnedExactlyWhileReachable'
  <2>1. ASSUME NEW j \in Iterator, Iterating(j)' PROVE bufferOf'[j] \in Live' \ {dying'}
    <3>1. CASE j = it
      BY <3>1, <1>1, <1>3, <1>4, <1>9 DEF IInv, TypeOK
    <3>2. CASE j # it
      <4>1. bufferOf'[j] = bufferOf[j] /\ bufferOf[j] \in Live
        BY <3>2, <2>1, <1>3 DEF IInv, TypeOK, OwnedExactlyWhileReachable, Iterating
      <4> QED
        BY <3>2, <4>1, <1>3, <1>4, <1>9
    <3> QED
      BY <3>1, <3>2
  <2>2. ASSUME NEW c \in Live', c # dying' PROVE Held(c)'
    <3>1. CASE c = n
      BY <3>1, <1>1, <1>4, <1>7 DEF Held
    <3>2. CASE c \in Live
      <4>1. Held(c)
        BY <3>2, <1>1, <1>4 DEF IInv, OwnedExactlyWhileReachable
      <4>2. ASSUME NEW d \in Live, buffers[d].next = c PROVE Held(c)'
        <5>1. d # b
          BY <4>2, <3>2, <1>1, <1>4
        <5> QED
          BY <4>2, <5>1, <1>4, <1>7 DEF Held
      <4>3. ASSUME NEW j \in Iterator \ {it}, bufferOf[j] = c PROVE Held(c)'
        <5>1. bufferOf'[j] = c
          BY <4>3, <1>3 DEF IInv, TypeOK
        <5> QED
          BY <5>1 DEF Held
      <4>4. CASE bufferOf[it] = c
        BY <4>2, <4>3, <4>4, <2>2, <1>3, <1>9
      <4> QED
        BY <4>1, <4>2, <4>3, <4>4 DEF Held
    <3> QED
      BY <3>1, <3>2, <1>4
  <2> QED
    BY <2>1, <2>2 DEF OwnedExactlyWhileReachable
<1>13. LinksGoForward'
  <2> SUFFICES ASSUME NEW c \in Live', buffers'[c].next # Null
               PROVE  /\ buffers'[c].next \in Live'
                      /\ buffers'[c].first + buffers'[c].size <= buffers'[buffers'[c].next].first
                      /\ buffers'[buffers'[c].next].low = buffers'[c].low + buffers'[c].size
    BY DEF LinksGoForward
  <2>1. CASE c = b
    BY <2>1, <1>1, <1>4, <1>5, <1>6, <1>7, <1>8
  <2>2. CASE c \in Live /\ c # b
    BY <2>2, <1>4, <1>7, <1>8 DEF IInv, LinksGoForward
  <2> QED
    BY <2>1, <2>2, <1>4, <1>6, <1>7
<1>14. DyingIsHead'
  BY <1>1, <1>3, <1>4, <1>9 DEF DyingIsHead
<1>15. NonEmptyBuffers'
  <2> SUFFICES ASSUME NEW c \in Live'
               PROVE  /\ buffers'[c].size > 0 /\ buffers'[c].first > 0
                      /\ buffers'[c].first + buffers'[c].size <= driverNext'
    BY DEF NonEmptyBuffers
  <2> QED
    BY <1>4, <1>6, <1>7, <1>8
<1>16. DistinctRows'
  BY <1>4, <1>6, <1>7, <1>8 DEF IInv, DistinctRows
<1>17. TakenApart'
  <2>1. taken' = taken /\ \A r \in taken : r \in Nat /\ r < driverNext
    BY <1>3, NumRowsAssumption DEF IInv, TypeOK, TakenApart
  <2>2. \A c \in Live' : \A r \in taken :
           r < buffers'[c].first \/ buffers'[c].first + buffers'[c].size <= r
    BY <2>1, <1>4, <1>6, <1>7 DEF IInv, TakenApart
  <2> QED
    BY <2>1, <2>2, <1>6 DEF TakenApart
<1> QED
  BY <1>10, <1>11, <1>12, <1>13, <1>14, <1>15, <1>16, <1>17 DEF IInv

(* The destructor of the first buffer hands buffer_ on to the second one,  *)
(* which dies in turn unless an iterator stands in it.                     *)
LEMMA DestroyKeepsIInv ==
    ASSUME IInv, Destroy
    PROVE  IInv'
<1> USE BufferAssumption
<1> DEFINE next == buffers[dying].next
<1>1. /\ dying # Null /\ dying = head /\ dying \in Live
      /\ head' = IF next # Null THEN next ELSE head
      /\ dying' = IF next # Null /\ \A it \in Iterator : bufferOf[it] # next
                  THEN next ELSE Null
      /\ buffers' = [c \in Live \ {dying} |-> buffers[c]]
      /\ UNCHANGED <<driverNext, bufferOf, indexOf, taken>>
  BY DEF Destroy, IInv, DyingIsHead
<1>2. /\ Live' = Live \ {dying} /\ Live \subseteq BufferId
      /\ \A c \in Live' : buffers'[c] = buffers[c]
      /\ \A c \in Live : /\ buffers[c] \in BufferRecord
                         /\ buffers[c].first \in Nat /\ buffers[c].size \in Nat
                         /\ buffers[c].size > 0
  BY <1>1 DEF Live, IInv, TypeOK, BufferRecord, NonEmptyBuffers
<1>3. next # Null => /\ next \in Live /\ next # dying
  BY <1>1, <1>2 DEF IInv, LinksGoForward
<1>4. ASSUME NEW c \in Live \ {dying}
      PROVE  /\ next # Null /\ buffers[next].first <= buffers[c].first
             /\ buffers[dying].first < buffers[c].first
             /\ buffers[c].next # dying
  <2>1. buffers[dying].first <= buffers[c].first
    BY <1>1 DEF IInv, OneChainFromHead
  <2>2. buffers[dying].first # buffers[c].first
    BY <1>1, <1>2 DEF IInv, DistinctRows
  <2>3. buffers[dying].first < buffers[c].first
    BY <2>1, <2>2, <1>1, <1>2
  <2>4. next \in Live /\ buffers[next].first <= buffers[c].first
    BY <2>3, <1>1 DEF IInv, OneChainFromHead
  <2>5. buffers[c].next # dying
    BY <2>3, <1>1, <1>2 DEF IInv, LinksGoForward
  <2> QED
    BY <2>3, <2>4, <2>5, <1>2
<1> HIDE DEF next
<1>5. TypeOK'
  BY <1>1, <1>2, <1>3 DEF IInv, TypeOK
<1>6. OneChainFromHead'
  <2>1. ASSUME NEW c \in Live'
        PROVE  /\ head' = next /\ next \in Live'
               /\ buffers'[head'].first <= buffers'[c].first
    BY <1>1, <1>2, <1>3, <1>4
  <2>2. ASSUME NEW c \in Live' \ {head'} PROVE \E e \in Live' : buffers'[e].next = c
    <3>1. c \in Live /\ c # head /\ c # next
      BY <2>1, <1>1, <1>2
    <3>2. PICK e \in Live : buffers[e].next = c
      BY <3>1 DEF IInv, OneChainFromHead
    <3>3. e # dying
      BY <3>1, <3>2 DEF next
    <3> QED
      BY <3>2, <3>3, <1>2
  <2>3. ASSUME NEW x \in Live', NEW y \in Live', buffers'[x].first < buffers'[y].first
        PROVE  /\ buffers'[x].next \in Live'
               /\ buffers'[buffers'[x].next].first <= buffers'[y].first
    <3>1. /\ buffers[x].next \in Live
          /\ buffers[buffers[x].next].first <= buffers[y].first
      BY <2>3, <1>2 DEF IInv, OneChainFromHead
    <3>2. buffers[x].next # dying
      BY <1>2, <1>4
    <3> QED
      BY <3>1, <3>2, <1>2
  <2> QED
    BY <2>1, <2>2, <2>3 DEF OneChainFromHead
<1>7. OwnedExactlyWhileReachable'
  <2>1. ASSUME NEW j \in Iterator, Iterating(j)' PROVE bufferOf'[j] \in Live' \ {dying'}
    BY <2>1, <1>1, <1>2, <1>3 DEF IInv, OwnedExactlyWhileReachable, Iterating
  <2>2. ASSUME NEW c \in Live', c # dying' PROVE Held(c)'
    <3>1. Held(c) /\ c \in Live /\ c # dying
      BY <1>2 DEF IInv, OwnedExactlyWhileReachable
    <3>2. CASE \E j \in Iterator : bufferOf[j] = c
      BY <3>2, <1>1 DEF Held
    <3>3. CASE \E e \in Live : buffers[e].next = c
      <4>1. PICK e \in Live : buffers[e].next = c
        BY <3>3
      <4>2. CASE e = dying
        <5>1. next = c /\ next # Null
          BY <4>1, <4>2, <3>1, <1>2 DEF next
        <5> QED
          BY <5>1, <2>2, <1>1 DEF Held
      <4>3. CASE e # dying
        BY <4>1, <4>3, <1>2 DEF Held
      <4> QED
        BY <4>2, <4>3
    <3> QED
      BY <3>1, <3>2, <3>3 DEF Held
  <2> QED
    BY <2>1, <2>2 DEF OwnedExactlyWhileReachable
<1>8. LinksGoForward'
  <2> SUFFICES ASSUME NEW c \in Live', buffers'[c].next # Null
               PROVE  /\ buffers'[c].next \in Live'
                      /\ buffers'[c].first + buffers'[c].size <= buffers'[buffers'[c].next].first
                      /\ buffers'[buffers'[c].next].low = buffers'[c].low + buffers'[c].size
    BY DEF LinksGoForward
  <2> QED
    BY <1>2, <1>4 DEF IInv, LinksGoForward
<1>9. DyingIsHead'
  BY <1>1, <1>2, <1>3 DEF DyingIsHead
<1>10. NonEmptyBuffers' /\ DistinctRows' /\ TakenApart'
  BY <1>1, <1>2 DEF IInv, NonEmptyBuffers, DistinctRows, TakenApart
<1> QED
  BY <1>5, <1>6, <1>7, <1>8, <1>9, <1>10 DEF IInv

(* Every step of a cursor, its iterators and buffers keeps the invariant.  *)
LEMMA StepKeepsIInv ==
    ASSUME IInv, [Next]_vars
    PROVE  IInv'
<1> USE BufferAssumption
<1>1. ASSUME NEW it \in Iterator, Fetch(it) PROVE IInv'
  BY <1>1, FetchKeepsIInv
<1>2. ASSUME NEW it \in Iterator, Step(it) \/ StepFails(it) PROVE IInv'
  BY <1>2, IndexStepKeepsIInv
<1>3. ASSUME NEW it \in Iterator, StepToFetched(it) PROVE IInv'
  BY <1>3, ExtendKeepsIInv
<1>4. ASSUME NEW it \in Iterator, StepToKnown(it) PROVE IInv'
  <2> DEFINE target == buffers[bufferOf[it]].next
  <2>1. Iterating(it) /\ bufferOf[it] \in Live /\ target # Null
    BY <1>4, OrphanLaw DEF StepToKnown, AtLastIndex
  <2>2. target \in Live /\ target # bufferOf[it]
    BY <2>1 DEF IInv, LinksGoForward, NonEmptyBuffers, TypeOK, BufferRecord
  <2>3. /\ dying = Null /\ bufferOf' = [bufferOf EXCEPT ![it] = target]
        /\ indexOf' = [indexOf EXCEPT ![it] = 0]
        /\ dying' = Orphan(it, bufferOf[it])
        /\ UNCHANGED <<driverNext, buffers, head, taken>>
    BY <1>4 DEF StepToKnown, MoveTo
  <2>4. indexOf' \in [Iterator -> 0 .. SizeMod - 1]
    BY <2>3, NumRowsAssumption DEF IInv, TypeOK
  <2> QED
    BY <2>1, <2>2, <2>3, <2>4, ExchangeKeepsIInv
<1>5. ASSUME NEW it \in Iterator, StepToEnd(it) PROVE IInv'
  <2>1. Iterating(it)
    BY <1>5 DEF StepToEnd, AtLastIndex
  <2>2. /\ dying = Null /\ bufferOf' = [bufferOf EXCEPT ![it] = Null]
        /\ indexOf' = [indexOf EXCEPT ![it] = 0]
        /\ dying' = Orphan(it, bufferOf[it])
        /\ UNCHANGED <<driverNext, buffers, head, taken>>
    BY <1>5 DEF StepToEnd, MoveTo
  <2>3. indexOf' \in [Iterator -> 0 .. SizeMod - 1]
    BY <2>2, NumRowsAssumption DEF IInv, TypeOK
  <2> QED
    BY <2>1, <2>2, <2>3, ExchangeKeepsIInv DEF Iterating
<1>6. ASSUME NEW it \in Iterator, Drop(it) PROVE IInv'
  <2>1. /\ dying = Null /\ bufferOf[it] # Absent
        /\ bufferOf' = [bufferOf EXCEPT ![it] = Absent]
        /\ indexOf' = [indexOf EXCEPT ![it] = 0]
        /\ dying' = IF Iterating(it) THEN Orphan(it, bufferOf[it]) ELSE Null
        /\ UNCHANGED <<driverNext, buffers, head, taken>>
    BY <1>6 DEF Drop
  <2>2. indexOf' \in [Iterator -> 0 .. SizeMod - 1]
    BY <2>1, NumRowsAssumption DEF IInv, TypeOK
  <2> QED
    BY <2>1, <2>2, ExchangeKeepsIInv
<1>7. ASSUME NEW i \in Iterator, NEW j \in Iterator, Copy(i, j) PROVE IInv'
  <2>1. /\ dying = Null /\ bufferOf[i] # Absent /\ bufferOf[j] = Absent
        /\ bufferOf' = [bufferOf EXCEPT ![j] = bufferOf[i]]
        /\ indexOf' = [indexOf EXCEPT ![j] = indexOf[i]]
        /\ UNCHANGED <<driverNext, buffers, head, dying, taken>>
    BY <1>7 DEF Copy
  <2>2. bufferOf[i] \in Live \cup {Null, Absent}
    BY DEF IInv, TypeOK, OwnedExactlyWhileReachable, Iterating
  <2>3. ~Iterating(j) /\ indexOf' \in [Iterator -> 0 .. SizeMod - 1]
    BY <2>1 DEF Iterating, IInv, TypeOK
  <2> QED
    BY <2>1, <2>2, <2>3, ExchangeKeepsIInv
<1>8. CASE Destroy
  BY <1>8, DestroyKeepsIInv
<1>9. CASE FetchOne
  BY <1>9, FetchOneKeepsIInv
<1>10. CASE UNCHANGED vars
  BY <1>10
  DEF vars, IInv, TypeOK, OneChainFromHead, OwnedExactlyWhileReachable, Iterating, Held,
      LinksGoForward, DyingIsHead, NonEmptyBuffers, DistinctRows, TakenApart, Live
<1> QED
  BY <1>1, <1>2, <1>3, <1>4, <1>5, <1>6, <1>7, <1>8, <1>9, <1>10 DEF Next, Increment

(* The inductive invariant holds in every reachable state.                 *)
THEOREM InvariantHolds == Spec => []IInv
<1>1. Init => IInv
  BY InitEstablishesIInv
<1>2. IInv /\ [Next]_vars => IInv'
  BY StepKeepsIInv
<1> QED
  BY <1>1, <1>2, PTL DEF Spec

(* Every reachable state is well typed.                                    *)
THEOREM TypeCorrect == Spec => []TypeOK
<1>1. IInv => TypeOK
  BY DEF IInv
<1> QED
  BY <1>1, InvariantHolds, PTL

(* The live buffers are one chain and buffer_ is its first element: the    *)
(* asserts of ~Buffer and fetch_buffer cannot fail.                        *)
THEOREM ChainStartsAtHead == Spec => []OneChainFromHead
<1>1. IInv => OneChainFromHead
  BY DEF IInv
<1> QED
  BY <1>1, InvariantHolds, PTL

(* A buffer lives exactly as long as an iterator can reach it.             *)
THEOREM BuffersAreOwned == Spec => []OwnedExactlyWhileReachable
<1>1. IInv => OwnedExactlyWhileReachable
  BY DEF IInv
<1> QED
  BY <1>1, InvariantHolds, PTL

(* No row is in two buffers, or in a buffer and handed out by fetch_one.   *)
THEOREM NoRowTwice == Spec => []RowsDeliveredOnce
<1>1. ASSUME IInv PROVE RowsDeliveredOnce
  <2>1. /\ driverNext \in Nat
        /\ \A b \in Live : /\ buffers[b].first \in Nat /\ buffers[b].size \in Nat
                           /\ buffers[b].first > 0
                           /\ buffers[b].first + buffers[b].size <= driverNext
        /\ \A r \in taken : r \in Nat /\ r < driverNext
    BY <1>1, NumRowsAssumption
    DEF IInv, TypeOK, BufferRecord, NonEmptyBuffers, TakenApart, Positions, AfterEnd
  <2>2. \A b \in Live : RowsOf(b) \cap taken = {} /\ RowsOf(b) \subseteq 1 .. driverNext - 1
    BY <1>1, <2>1 DEF IInv, TakenApart, RowsOf
  <2>3. \A b, c \in Live : b # c => RowsOf(b) \cap RowsOf(c) = {}
    BY <1>1, <2>1 DEF IInv, DistinctRows, RowsOf
  <2> QED
    BY <2>1, <2>2, <2>3 DEF RowsDeliveredOnce
<1>2. IInv => RowsDeliveredOnce
  BY <1>1
<1> QED
  BY <1>2, InvariantHolds, PTL
-----------------------------------------------------------------------------
(* No row is skipped.                                                      *)

(* Where the rows behind buffer b go on: in the next buffer, or with the   *)
(* driver.                                                                 *)
GoesOnAt(b) == IF buffers[b].next = Null THEN driverNext ELSE buffers[buffers[b].next].first

(* What lies between a buffer and where it goes on has been taken by       *)
(* fetch_one.                                                              *)
GapsTaken ==
    \A b \in Live : buffers[b].first + buffers[b].size .. GoesOnAt(b) - 1 \subseteq taken

(* What is known of the numbers in a buffer.                               *)
LEMMA BufferLaw ==
    ASSUME IInv, NEW b \in Live
    PROVE  /\ b \in BufferId /\ buffers[b] \in BufferRecord
           /\ buffers[b].first \in Nat \ {0} /\ buffers[b].size \in Nat \ {0}
           /\ driverNext \in Nat \ {0} /\ driverNext <= NumRows + 1 /\ NumRows \in Nat
           /\ buffers[b].first + buffers[b].size <= driverNext
           /\ buffers[b].next # Null => /\ buffers[b].next \in Live
                                        /\ buffers[b].first + buffers[b].size
                                              <= buffers[buffers[b].next].first
BY NumRowsAssumption
DEF IInv, TypeOK, BufferRecord, NonEmptyBuffers, LinksGoForward, Positions, AfterEnd

(* No row lies between neighbours.                                         *)
LEMMA EmptyGap == \A n \in Nat : n .. n - 1 = {}
OBVIOUS

(* The chain has one last buffer.                                          *)
LEMMA OneLastBuffer ==
    ASSUME IInv, NEW b \in Live, NEW c \in Live, buffers[b].next = Null, buffers[c].next = Null
    PROVE  b = c
<1>1. Null \notin Live
  BY BufferAssumption DEF IInv, TypeOK
<1>2. ~(buffers[b].first < buffers[c].first) /\ ~(buffers[c].first < buffers[b].first)
  BY <1>1 DEF IInv, OneChainFromHead
<1>3. buffers[b].first = buffers[c].first /\ buffers[b].size > 0 /\ buffers[c].size > 0
  BY <1>2, BufferLaw
<1> QED
  BY <1>3, BufferLaw DEF IInv, DistinctRows

(* Each step leaves no gap but by fetch_one.                               *)
LEMMA StepKeepsGapsTaken ==
    ASSUME IInv, GapsTaken, [Next]_vars
    PROVE  GapsTaken'
<1> USE BufferAssumption
<1>1. IInv'
  BY StepKeepsIInv
<1>2. CASE UNCHANGED <<buffers, driverNext, taken>>
  BY <1>2 DEF GapsTaken, GoesOnAt, Live
<1>3. ASSUME NEW it \in Iterator, FetchNew(it) PROVE GapsTaken'
  <2>1. Live = {}
    BY <1>3, ExpiredMeansNothingAlive DEF FetchNew
  <2>2. PICK b \in FreeIds :
           buffers' = [c \in Live \cup {b} |-> IF c = b THEN NewBuffer(1) ELSE buffers[c]]
    BY <1>3 DEF FetchNew
  <2>3. Live' = {b} /\ buffers'[b] = NewBuffer(1)
    BY <2>1, <2>2 DEF Live
  <2>4. /\ NewBuffer(1).first = driverNext /\ NewBuffer(1).next = Null
        /\ driverNext + NewBuffer(1).size = driverNext' /\ driverNext' \in Nat
    BY <1>3, NewBufferLaw, NumRowsAssumption DEF FetchNew, IInv, Positions, AfterEnd
  <2>5. GoesOnAt(b)' = driverNext'
    BY <2>3, <2>4 DEF GoesOnAt
  <2>6. driverNext' .. driverNext' - 1 = {}
    BY <2>4, EmptyGap
  <2> QED
    BY <2>3, <2>4, <2>5, <2>6 DEF GapsTaken
<1>4. ASSUME NEW it \in Iterator, StepToFetched(it) PROVE GapsTaken'
  <2> DEFINE b == bufferOf[it]
             low == High(bufferOf[it])
  <2>1. b \in Live /\ buffers[b].next = Null /\ RowsetSize(driverNext, BufferSize) > 0
    BY <1>4, OrphanLaw DEF StepToFetched, AtLastIndex
  <2>2. PICK n \in FreeIds :
           buffers' = [c \in Live \cup {n} |->
                  IF c = n THEN NewBuffer(low)
                  ELSE IF c = b THEN [buffers[c] EXCEPT !.next = n] ELSE buffers[c]]
    BY <1>4 DEF StepToFetched
  <2>3. /\ n \in BufferId /\ n \notin Live /\ n # Null /\ n # b /\ Live' = Live \cup {n}
        /\ driverNext' = PositionAfter(driverNext, BufferSize) /\ taken' = taken
    BY <1>4, <2>1, <2>2 DEF FreeIds, Live, StepToFetched
  <2>4. low \in Nat
    BY <2>1, BufferLaw DEF High, BufferRecord
  <2>5. /\ NewBuffer(low).first = driverNext /\ NewBuffer(low).next = Null
        /\ driverNext + NewBuffer(low).size = driverNext' /\ driverNext' \in Nat
    BY <2>1, <2>3, <2>4, NewBufferLaw, NumRowsAssumption DEF IInv, Positions, AfterEnd
  <2>6. ASSUME NEW c \in Live'
        PROVE  buffers'[c].first + buffers'[c].size .. GoesOnAt(c)' - 1 \subseteq taken'
    <3>1. CASE c = n
      <4>1. buffers'[c] = NewBuffer(low)
        BY <2>2, <2>3, <3>1
      <4>2. GoesOnAt(c)' = driverNext'
        BY <4>1, <2>5 DEF GoesOnAt
      <4>3. driverNext' .. driverNext' - 1 = {}
        BY <2>5, EmptyGap
      <4> QED
        BY <4>1, <4>2, <4>3, <2>5
    <3>2. CASE c = b
      <4>1. buffers'[c] = [buffers[b] EXCEPT !.next = n] /\ buffers'[n] = NewBuffer(low)
        BY <2>1, <2>2, <2>3, <3>2
      <4>2. /\ buffers'[c].first = buffers[b].first /\ buffers'[c].size = buffers[b].size
            /\ buffers'[c].next = n
        BY <4>1, <2>1, BufferLaw DEF BufferRecord
      <4>3. GoesOnAt(c)' = driverNext /\ GoesOnAt(b) = driverNext
        BY <4>1, <4>2, <2>1, <2>3, <2>5 DEF GoesOnAt
      <4> QED
        BY <4>2, <4>3, <2>1, <2>3 DEF GapsTaken
    <3>3. CASE c # n /\ c # b
      <4>1. c \in Live /\ buffers'[c] = buffers[c]
        BY <2>2, <2>3, <3>3
      <4>2. buffers[c].next # Null
        BY <4>1, <2>1, <3>3, OneLastBuffer
      <4>3. buffers[c].next \in Live
        BY <4>1, <4>2, BufferLaw
      <4>4. buffers'[buffers[c].next].first = buffers[buffers[c].next].first
        <5>1. CASE buffers[c].next = b
          BY <5>1, <2>1, <2>2, <2>3, BufferLaw DEF BufferRecord
        <5>2. CASE buffers[c].next # b
          BY <5>2, <4>3, <2>2, <2>3
        <5> QED
          BY <5>1, <5>2
      <4>5. GoesOnAt(c)' = GoesOnAt(c)
        BY <4>1, <4>2, <4>4 DEF GoesOnAt
      <4> QED
        BY <4>1, <4>5, <2>3 DEF GapsTaken
    <3> QED
      BY <3>1, <3>2, <3>3
  <2> QED
    BY <2>6 DEF GapsTaken
<1>5. CASE Destroy
  <2>1. /\ buffers' = [c \in Live \ {dying} |-> buffers[c]]
        /\ driverNext' = driverNext /\ taken' = taken
    BY <1>5 DEF Destroy
  <2>2. Live' = Live \ {dying} /\ \A c \in Live' : buffers'[c] = buffers[c]
    BY <2>1 DEF Live
  <2>3. \A c \in Live' : buffers'[c].next # Null => buffers'[c].next \in Live'
    BY <1>1 DEF IInv, LinksGoForward
  <2> QED
    BY <2>1, <2>2, <2>3 DEF GapsTaken, GoesOnAt
<1>6. CASE FetchOne
  <2>1. /\ buffers' = buffers /\ Live' = Live /\ taken' = taken \cup {driverNext}
        /\ RowsetSize(driverNext, 1) = 1 /\ driverNext' = PositionAfter(driverNext, 1)
    BY <1>6 DEF FetchOne, Live
  <2>2. driverNext \in Positions /\ driverNext \in Nat
    BY NumRowsAssumption DEF IInv, TypeOK, Positions, AfterEnd
  <2>3. driverNext' = driverNext + 1
    BY <2>1, <2>2, RowsetLaw
  <2>4. ASSUME NEW c \in Live
        PROVE  buffers'[c].first + buffers'[c].size .. GoesOnAt(c)' - 1 \subseteq taken'
    <3>1. CASE buffers[c].next = Null
      <4>1. GoesOnAt(c) = driverNext /\ GoesOnAt(c)' = driverNext + 1
        BY <2>1, <2>3, <3>1 DEF GoesOnAt
      <4>2. /\ buffers[c].first + buffers[c].size .. driverNext - 1 \subseteq taken
            /\ buffers[c].first + buffers[c].size \in Nat
        BY <4>1, BufferLaw DEF GapsTaken
      <4> QED
        BY <4>1, <4>2, <2>1, <2>2
    <3>2. CASE buffers[c].next # Null
      <4>1. GoesOnAt(c)' = GoesOnAt(c)
        BY <2>1, <3>2 DEF GoesOnAt
      <4> QED
        BY <4>1, <2>1 DEF GapsTaken
    <3> QED
      BY <3>1, <3>2
  <2> QED
    BY <2>1, <2>4 DEF GapsTaken
<1> QED
  BY <1>2, <1>3, <1>4, <1>5, <1>6
  DEF Next, Fetch, FetchAlive, FetchNothing, Increment, Step, StepToKnown, StepToEnd, StepFails,
      Drop, Copy, vars

(* An iterator that passes from the last row of a buffer goes over rows    *)
(* only that fetch_one has taken.                                          *)
LEMMA PassingLaw ==
    ASSUME IInv, GapsTaken, NEW it \in Iterator, InRange(it), AtLastIndex(it)
    PROVE  /\ bufferOf[it] \in Live /\ Row(it) \in Nat
           /\ Row(it) + 1 <= GoesOnAt(bufferOf[it])
           /\ Row(it) + 1 .. GoesOnAt(bufferOf[it]) - 1 \subseteq taken
<1> DEFINE b == bufferOf[it]
<1>1. /\ b \in Live /\ indexOf[it] \in Nat /\ indexOf[it] < buffers[b].size
  BY NumRowsAssumption, BufferAssumption
  DEF InRange, Iterating, IInv, OwnedExactlyWhileReachable, TypeOK
<1>2. /\ buffers[b].first \in Nat /\ buffers[b].size \in Nat
      /\ buffers[b].first + buffers[b].size <= NumRows + 1 /\ NumRows \in Nat
      /\ buffers[b].first > 0
      /\ buffers[b].first + buffers[b].size <= GoesOnAt(b)
  BY <1>1, BufferLaw DEF GoesOnAt
<1>3. indexOf[it] + 1 = buffers[b].size
  <2>1. indexOf[it] + 1 < SizeMod /\ SizeMod \in Nat
    BY <1>1, <1>2, BufferAssumption
  <2>2. NextIndex(it) = indexOf[it] + 1
    BY <1>1, <2>1 DEF NextIndex
  <2> QED
    BY <2>2 DEF AtLastIndex
<1>4. Row(it) + 1 = buffers[b].first + buffers[b].size /\ Row(it) \in Nat
  BY <1>1, <1>2, <1>3 DEF Row
<1> QED
  BY <1>1, <1>2, <1>4 DEF GapsTaken

(* What the property says of one step.                                     *)
NoRowSkipped(it) ==
    InRange(it) =>
       /\ InRange(it)' =>
             /\ Row(it)' >= Row(it)
             /\ (Row(it) + 1) .. (Row(it)' - 1) \subseteq taken
       /\ bufferOf'[it] = Null => (Row(it) + 1) .. NumRows \subseteq taken

(* Each step keeps to it, whoever takes it.                                *)
LEMMA StepSkipsNoRow ==
    ASSUME IInv, GapsTaken, [Next]_vars, NEW it \in Iterator
    PROVE  NoRowSkipped(it)
<1> USE BufferAssumption
<1> SUFFICES ASSUME InRange(it) PROVE NoRowSkipped(it)
  BY DEF NoRowSkipped
<1> DEFINE b == bufferOf[it]
<1>1. /\ b \in Live /\ b # dying /\ b # Null /\ b # Absent /\ indexOf[it] \in Nat
      /\ indexOf[it] < buffers[b].size
  BY NumRowsAssumption DEF InRange, Iterating, IInv, OwnedExactlyWhileReachable, TypeOK
<1>2. /\ buffers[b].first \in Nat \ {0} /\ buffers[b].size \in Nat
      /\ buffers[b].first + buffers[b].size <= NumRows + 1 /\ NumRows \in Nat
      /\ SizeMod \in Nat /\ SizeMod > NumRows + 1
  BY <1>1, BufferLaw
<1>3. Row(it) \in Nat /\ (Row(it) + 1) .. (Row(it) - 1) = {}
  BY <1>1, <1>2 DEF Row
<1>4. CASE bufferOf'[it] = b /\ indexOf'[it] = indexOf[it] /\ buffers'[b] = buffers[b]
  BY <1>1, <1>3, <1>4 DEF NoRowSkipped, Row
<1>5. CASE Step(it) \/ StepFails(it)
  <2>1. /\ bufferOf' = bufferOf /\ buffers' = buffers
        /\ indexOf'[it] = NextIndex(it)
    BY <1>5 DEF Step, StepFails, IInv, TypeOK
  <2>2. indexOf[it] + 1 < SizeMod
    BY <1>1, <1>2
  <2>3. NextIndex(it) = indexOf[it] + 1
    BY <1>1, <1>2, <2>2 DEF NextIndex
  <2>4. Row(it)' = Row(it) + 1
    BY <1>1, <1>2, <2>1, <2>3 DEF Row
  <2>5. (Row(it) + 1) .. (Row(it)' - 1) = {}
    BY <1>3, <2>4
  <2> QED
    BY <1>1, <1>3, <2>1, <2>4, <2>5 DEF NoRowSkipped
<1>6. CASE StepToKnown(it)
  <2> DEFINE n == buffers[b].next
  <2>1. /\ AtLastIndex(it) /\ n # Null /\ buffers' = buffers
        /\ bufferOf'[it] = n /\ indexOf'[it] = 0
    BY <1>6 DEF StepToKnown, MoveTo, IInv, TypeOK
  <2>2. n \in Live /\ buffers[n].first \in Nat
    BY <1>1, <2>1, BufferLaw
  <2>3. Row(it)' = GoesOnAt(b)
    BY <2>1, <2>2 DEF Row, GoesOnAt
  <2>4. /\ Row(it) + 1 <= GoesOnAt(b) /\ GoesOnAt(b) \in Nat
        /\ Row(it) + 1 .. GoesOnAt(b) - 1 \subseteq taken
    BY <2>1, <2>2, PassingLaw DEF GoesOnAt
  <2> QED
    BY <1>3, <2>1, <2>3, <2>4 DEF NoRowSkipped
<1>7. CASE StepToFetched(it)
  <2>1. /\ AtLastIndex(it) /\ buffers[b].next = Null /\ RowsetSize(driverNext, BufferSize) > 0
    BY <1>7 DEF StepToFetched
  <2>2. PICK n \in FreeIds :
           /\ buffers' = [c \in Live \cup {n} |->
                  IF c = n THEN NewBuffer(High(b))
                  ELSE IF c = b THEN [buffers[c] EXCEPT !.next = n] ELSE buffers[c]]
           /\ MoveTo(it, n)
    BY <1>7 DEF StepToFetched
  <2>3. /\ bufferOf'[it] = n /\ indexOf'[it] = 0 /\ n # Null
        /\ buffers'[n] = NewBuffer(High(b))
    BY <2>2 DEF MoveTo, FreeIds, IInv, TypeOK
  <2>4. driverNext \in Nat /\ NewBuffer(High(b)).first = driverNext
    BY <1>1, BufferLaw DEF NewBuffer
  <2>5. Row(it)' = driverNext /\ GoesOnAt(b) = driverNext
    BY <2>1, <2>3, <2>4 DEF Row, GoesOnAt
  <2>6. Row(it) + 1 <= GoesOnAt(b) /\ Row(it) + 1 .. GoesOnAt(b) - 1 \subseteq taken
    BY <2>1, PassingLaw
  <2> QED
    BY <1>3, <2>3, <2>4, <2>5, <2>6 DEF NoRowSkipped
<1>8. CASE StepToEnd(it)
  <2>1. /\ AtLastIndex(it) /\ buffers[b].next = Null /\ RowsetSize(driverNext, BufferSize) = 0
        /\ bufferOf'[it] = Null
    BY <1>8 DEF StepToEnd, MoveTo, IInv, TypeOK
  <2>2. driverNext = NumRows + 1
    BY <2>1, RowsetLaw DEF IInv, TypeOK, AfterEnd
  <2>3. GoesOnAt(b) = NumRows + 1
    BY <2>1, <2>2 DEF GoesOnAt
  <2>4. Row(it) + 1 .. NumRows \subseteq taken
    BY <1>2, <2>1, <2>3, PassingLaw
  <2>5. ~InRange(it)'
    BY <2>1 DEF InRange, Iterating
  <2> QED
    BY <2>4, <2>5 DEF NoRowSkipped
<1>9. CASE Drop(it)
  <2>1. bufferOf'[it] = Absent
    BY <1>9 DEF Drop, IInv, TypeOK
  <2> QED
    BY <2>1 DEF NoRowSkipped, InRange, Iterating
<1>10. ASSUME NEW j \in Iterator, Fetch(j) PROVE NoRowSkipped(it)
  <2>1. j # it
    BY <1>1, <1>10 DEF Fetch, FetchAlive, FetchNew, FetchNothing
  <2>2. ~Expired
    BY <1>1, <1>10, ExpiredMeansNothingAlive DEF Fetch, FetchAlive, FetchNew, FetchNothing
  <2>3. FetchAlive(j)
    BY <1>10, <2>2 DEF Fetch, FetchNew, FetchNothing
  <2> QED
    BY <1>4, <2>1, <2>3 DEF FetchAlive, Begin, IInv, TypeOK
<1>11. ASSUME NEW j \in Iterator, j # it,
              Increment(j) \/ StepFails(j) \/ Drop(j)
       PROVE  NoRowSkipped(it)
  <2>1. bufferOf'[it] = b /\ indexOf'[it] = indexOf[it]
    BY <1>11 DEF Increment, Step, StepToKnown, StepToFetched, StepToEnd, MoveTo, StepFails, Drop,
                 IInv, TypeOK
  <2>2. CASE ~StepToFetched(j)
    BY <1>4, <1>11, <2>1, <2>2 DEF Increment, Step, StepToKnown, StepToEnd, StepFails, Drop
  <2>3. CASE StepToFetched(j)
    <3> DEFINE d == bufferOf[j]
    <3>1. PICK n \in FreeIds :
             buffers' = [c \in Live \cup {n} |->
                    IF c = n THEN NewBuffer(High(d))
                    ELSE IF c = d THEN [buffers[c] EXCEPT !.next = n] ELSE buffers[c]]
      BY <2>3 DEF StepToFetched
    <3>2. b # n /\ b \in Live
      BY <1>1 DEF FreeIds
    <3>3. buffers'[b].first = buffers[b].first
      <4>1. CASE b = d
        BY <1>1, <3>1, <3>2, <4>1, BufferLaw DEF BufferRecord
      <4>2. CASE b # d
        BY <3>1, <3>2, <4>2
      <4> QED
        BY <4>1, <4>2
    <3>4. Row(it)' = Row(it)
      BY <2>1, <3>3 DEF Row
    <3> QED
      BY <1>1, <1>3, <2>1, <3>4 DEF NoRowSkipped
  <2> QED
    BY <2>2, <2>3
<1>12. ASSUME NEW i \in Iterator, NEW j \in Iterator, Copy(i, j) PROVE NoRowSkipped(it)
  <2>1. j # it
    BY <1>1, <1>12 DEF Copy
  <2> QED
    BY <1>4, <1>12, <2>1 DEF Copy, IInv, TypeOK
<1>13. CASE Destroy
  <2>1. bufferOf' = bufferOf /\ indexOf' = indexOf /\ buffers' = [c \in Live \ {dying} |-> buffers[c]]
    BY <1>13 DEF Destroy
  <2> QED
    BY <1>1, <1>4, <2>1
<1>14. CASE FetchOne \/ UNCHANGED vars
  BY <1>4, <1>14 DEF FetchOne, vars
<1> QED
  BY <1>5, <1>6, <1>7, <1>8, <1>9, <1>10, <1>11, <1>12, <1>13, <1>14 DEF Next, Increment

(* A loop sees every row but those fetch_one has taken, whether it fetches *)
(* the next buffer or follows another iterator through next_, and the end  *)
(* is behind the last of them.                                             *)
THEOREM EveryRowReached == Spec => IncrementSkipsNoRow
<1>1. Init => GapsTaken
  BY DEF Init, GapsTaken, Live
<1>2. IInv /\ GapsTaken /\ [Next]_vars => GapsTaken'
  BY StepKeepsGapsTaken
<1>3. IInv /\ GapsTaken /\ [Next]_vars =>
         [\A it \in Iterator :
             InRange(it) =>
                /\ InRange(it)' =>
                      /\ Row(it)' >= Row(it)
                      /\ (Row(it) + 1) .. (Row(it)' - 1) \subseteq taken
                /\ bufferOf'[it] = Null => (Row(it) + 1) .. NumRows \subseteq taken]_vars
  BY StepSkipsNoRow DEF NoRowSkipped
<1> QED
  BY <1>1, <1>2, <1>3, InvariantHolds, PTL DEF Spec, IncrementSkipsNoRow
-----------------------------------------------------------------------------
(* Progress of a loop, and where a second fetch begins.                    *)

(* An increment from a row leads on: to a later row, or to the end.  So a  *)
(* loop that no failure interrupts makes at most NumRows increments.       *)
LeadsOn(it) ==
    InRange(it) /\ Increment(it) =>
       bufferOf'[it] = Null \/ (InRange(it)' /\ Row(it) < Row(it)')

(* A single loop goes on: within its buffer, into the next one or behind   *)
(* the last row.                                                           *)
LEMMA IncrementLeadsOn ==
    ASSUME IInv, GapsTaken, NEW it \in Iterator
    PROVE  LeadsOn(it)
<1> USE BufferAssumption
<1> SUFFICES ASSUME InRange(it), Increment(it)
             PROVE  bufferOf'[it] = Null \/ (InRange(it)' /\ Row(it) < Row(it)')
  BY DEF LeadsOn
<1> DEFINE b == bufferOf[it]
<1>1. /\ b \in Live /\ b \in BufferId /\ indexOf[it] \in Nat /\ indexOf[it] < buffers[b].size
  BY NumRowsAssumption DEF InRange, Iterating, IInv, OwnedExactlyWhileReachable, TypeOK
<1>2. /\ buffers[b].first \in Nat \ {0} /\ buffers[b].size \in Nat
      /\ buffers[b].first + buffers[b].size <= NumRows + 1 /\ NumRows \in Nat
      /\ SizeMod \in Nat /\ SizeMod > NumRows + 1
  BY <1>1, BufferLaw
<1>3. CASE Step(it)
  <2>1. /\ bufferOf' = bufferOf /\ buffers' = buffers /\ ~AtLastIndex(it)
        /\ indexOf'[it] = NextIndex(it)
    BY <1>3 DEF Step, IInv, TypeOK
  <2>2. indexOf[it] + 1 < SizeMod
    BY <1>1, <1>2
  <2>3. NextIndex(it) = indexOf[it] + 1
    BY <1>1, <1>2, <2>2 DEF NextIndex
  <2>4. NextIndex(it) # buffers[b].size
    BY <1>1, <2>1 DEF AtLastIndex, Iterating
  <2>5. indexOf'[it] < buffers'[bufferOf'[it]].size
    BY <1>1, <1>2, <2>1, <2>3, <2>4
  <2>6. Row(it)' = Row(it) + 1 /\ Row(it) \in Nat
    BY <1>1, <1>2, <2>1, <2>3 DEF Row
  <2> QED
    BY <1>1, <2>1, <2>5, <2>6 DEF InRange, Iterating
<1>4. CASE StepToKnown(it)
  <2> DEFINE n == buffers[b].next
  <2>1. /\ AtLastIndex(it) /\ n # Null /\ buffers' = buffers
        /\ bufferOf'[it] = n /\ indexOf'[it] = 0
    BY <1>4 DEF StepToKnown, MoveTo, IInv, TypeOK
  <2>2. n \in Live /\ n \in BufferId /\ buffers[n].first \in Nat /\ buffers[n].size > 0
    BY <1>1, <2>1, BufferLaw
  <2>3. Row(it)' = GoesOnAt(b)
    BY <2>1, <2>2 DEF Row, GoesOnAt
  <2>4. /\ Row(it) + 1 <= GoesOnAt(b) /\ GoesOnAt(b) \in Nat /\ Row(it) \in Nat
    BY <2>1, <2>2, PassingLaw DEF GoesOnAt
  <2>5. InRange(it)'
    BY <2>1, <2>2 DEF InRange, Iterating
  <2> QED
    BY <2>3, <2>4, <2>5
<1>5. CASE StepToFetched(it)
  <2>1. /\ AtLastIndex(it) /\ buffers[b].next = Null /\ RowsetSize(driverNext, BufferSize) > 0
    BY <1>5 DEF StepToFetched
  <2>2. PICK n \in FreeIds :
           /\ buffers' = [c \in Live \cup {n} |->
                  IF c = n THEN NewBuffer(High(b))
                  ELSE IF c = b THEN [buffers[c] EXCEPT !.next = n] ELSE buffers[c]]
           /\ MoveTo(it, n)
    BY <1>5 DEF StepToFetched
  <2>3. /\ bufferOf'[it] = n /\ indexOf'[it] = 0 /\ n \in BufferId
        /\ buffers'[n] = NewBuffer(High(b))
    BY <2>2 DEF MoveTo, FreeIds, IInv, TypeOK
  <2>4. High(b) \in Nat
    BY <1>1, BufferLaw DEF High, BufferRecord
  <2>5. /\ NewBuffer(High(b)).first = driverNext /\ NewBuffer(High(b)).size > 0
        /\ driverNext \in Nat
    BY <2>1, <2>4, NewBufferLaw DEF IInv
  <2>6. Row(it)' = driverNext /\ GoesOnAt(b) = driverNext
    BY <2>1, <2>3, <2>5 DEF Row, GoesOnAt
  <2>7. Row(it) + 1 <= GoesOnAt(b) /\ Row(it) \in Nat
    BY <2>1, PassingLaw
  <2>8. InRange(it)'
    BY <2>3, <2>5 DEF InRange, Iterating
  <2> QED
    BY <2>5, <2>6, <2>7, <2>8
<1>6. CASE StepToEnd(it)
  BY <1>6 DEF StepToEnd, MoveTo, IInv, TypeOK
<1> QED
  BY <1>3, <1>4, <1>5, <1>6 DEF Increment

(* A loop never stays on a row, turns back or leaves the buffer's rows.    *)
THEOREM LoopsAdvance == Spec => [][\A it \in Iterator : LeadsOn(it)]_vars
<1>1. Init => GapsTaken
  BY DEF Init, GapsTaken, Live
<1>2. IInv /\ GapsTaken /\ [Next]_vars => GapsTaken'
  BY StepKeepsGapsTaken
<1>3. IInv /\ GapsTaken /\ [Next]_vars => [\A it \in Iterator : LeadsOn(it)]_vars
  BY IncrementLeadsOn
<1> QED
  BY <1>1, <1>2, <1>3, InvariantHolds, PTL DEF Spec

(* The label low_ counts from 1 in the first buffer of a chain and never   *)
(* runs ahead of the row the buffer really begins with.                    *)
LabelsBehindRows ==
    \A b \in Live : 1 <= buffers[b].low /\ buffers[b].low <= buffers[b].first

(* A step labels a new buffer at most with the driver's position.          *)
LEMMA StepKeepsLabels ==
    ASSUME IInv, LabelsBehindRows, [Next]_vars
    PROVE  LabelsBehindRows'
<1> USE BufferAssumption
<1>1. CASE UNCHANGED buffers
  BY <1>1 DEF LabelsBehindRows, Live
<1>2. ASSUME NEW it \in Iterator, FetchNew(it) PROVE LabelsBehindRows'
  <2>1. PICK b \in FreeIds :
           buffers' = [c \in Live \cup {b} |-> IF c = b THEN NewBuffer(1) ELSE buffers[c]]
    BY <1>2 DEF FetchNew
  <2>2. Live' = Live \cup {b} /\ buffers'[b] = NewBuffer(1)
    BY <2>1 DEF Live
  <2>3. NewBuffer(1).low = 1 /\ NewBuffer(1).first = driverNext /\ driverNext \in Nat \ {0}
    BY <1>2, NewBufferLaw DEF FetchNew, IInv
  <2> QED
    BY <2>1, <2>2, <2>3 DEF LabelsBehindRows
<1>3. ASSUME NEW it \in Iterator, StepToFetched(it) PROVE LabelsBehindRows'
  <2> DEFINE b == bufferOf[it]
             low == High(bufferOf[it])
  <2>1. b \in Live /\ RowsetSize(driverNext, BufferSize) > 0
    BY <1>3, OrphanLaw DEF StepToFetched, AtLastIndex
  <2>2. PICK n \in FreeIds :
           buffers' = [c \in Live \cup {n} |->
                  IF c = n THEN NewBuffer(low)
                  ELSE IF c = b THEN [buffers[c] EXCEPT !.next = n] ELSE buffers[c]]
    BY <1>3 DEF StepToFetched
  <2>3. low \in Nat /\ 1 <= low /\ low <= driverNext
    BY <2>1, BufferLaw DEF High, BufferRecord, LabelsBehindRows
  <2>4. NewBuffer(low).low = low /\ NewBuffer(low).first = driverNext
    BY <2>1, <2>3, NewBufferLaw DEF IInv
  <2>5. ASSUME NEW c \in Live'
        PROVE  1 <= buffers'[c].low /\ buffers'[c].low <= buffers'[c].first
    <3>1. CASE c = n
      BY <2>2, <2>3, <2>4, <3>1
    <3>2. CASE c # n
      <4>1. /\ c \in Live
            /\ buffers'[c] = IF c = b THEN [buffers[c] EXCEPT !.next = n] ELSE buffers[c]
        BY <2>2, <3>2 DEF Live
      <4>2. buffers'[c].low = buffers[c].low /\ buffers'[c].first = buffers[c].first
        BY <4>1, BufferLaw DEF BufferRecord
      <4> QED
        BY <4>1, <4>2 DEF LabelsBehindRows
    <3> QED
      BY <3>1, <3>2
  <2> QED
    BY <2>5 DEF LabelsBehindRows
<1>4. CASE Destroy
  <2>1. buffers' = [c \in Live \ {dying} |-> buffers[c]]
    BY <1>4 DEF Destroy
  <2> QED
    BY <2>1 DEF LabelsBehindRows, Live
<1> QED
  BY <1>1, <1>2, <1>3, <1>4
  DEF Next, Fetch, FetchAlive, FetchNothing, Increment, Step, StepToKnown, StepToEnd, StepFails,
      Drop, Copy, FetchOne, vars

(* fetch() gives its iterator the index 1 - low_, which is in the buffer   *)
(* only if the buffer is the first of its chain.                           *)
OnARowIffFirst(it) ==
    Fetch(it) /\ Iterating(it)' => (InRange(it)' <=> buffers'[bufferOf'[it]].low = 1)

(* Taking 1 - low_ modulo 2^w never comes round to an index by chance.     *)
LEMMA FetchOnARowIffFirst ==
    ASSUME IInv, LabelsBehindRows, NEW it \in Iterator
    PROVE  OnARowIffFirst(it)
<1> USE BufferAssumption
<1> SUFFICES ASSUME Fetch(it), Iterating(it)'
             PROVE  InRange(it)' <=> buffers'[bufferOf'[it]].low = 1
  BY DEF OnARowIffFirst
<1>1. CASE FetchAlive(it)
  <2>1. /\ head \in Live /\ buffers' = buffers /\ bufferOf'[it] = head
        /\ indexOf'[it] = (1 + SizeMod - buffers[head].low) % SizeMod
    BY <1>1 DEF FetchAlive, Expired, Begin, IInv, TypeOK
  <2> DEFINE low == buffers[head].low
             size == buffers[head].size
  <2>2. /\ low \in Nat /\ 1 <= low /\ size \in Nat \ {0} /\ low + size <= NumRows + 1
        /\ NumRows \in Nat /\ SizeMod \in Nat /\ NumRows + 1 < SizeMod
    BY <2>1, BufferLaw DEF BufferRecord, LabelsBehindRows
  <2>3. InRange(it)' <=> indexOf'[it] < size
    BY <2>1 DEF InRange
  <2> HIDE DEF low, size
  <2>4. CASE low = 1
    <3>1. SizeMod % SizeMod = 0
      BY <2>2
    <3> QED
      BY <2>1, <2>2, <2>3, <2>4, <3>1 DEF low
  <2>5. CASE low # 1
    <3>1. 1 + SizeMod - low \in 0 .. SizeMod - 1 /\ 1 + SizeMod - low > size
      BY <2>2, <2>5
    <3>2. (1 + SizeMod - low) % SizeMod = 1 + SizeMod - low
      BY <2>2, <3>1
    <3> QED
      BY <2>1, <2>2, <2>3, <2>5, <3>1, <3>2 DEF low
  <2> QED
    BY <2>4, <2>5
<1>2. CASE FetchNew(it)
  <2>1. PICK b \in FreeIds :
           /\ buffers' = [c \in Live \cup {b} |-> IF c = b THEN NewBuffer(1) ELSE buffers[c]]
           /\ Begin(it, b, 1)
    BY <1>2 DEF FetchNew
  <2>2. /\ buffers'[b] = NewBuffer(1) /\ bufferOf'[it] = b
        /\ indexOf'[it] = (1 + SizeMod - 1) % SizeMod
    BY <2>1 DEF Begin, IInv, TypeOK
  <2>3. NewBuffer(1).low = 1 /\ NewBuffer(1).size \in Nat /\ NewBuffer(1).size > 0
    BY <1>2, NewBufferLaw DEF FetchNew, IInv
  <2>4. (1 + SizeMod - 1) % SizeMod = 0
    BY NumRowsAssumption
  <2> QED
    BY <2>2, <2>3, <2>4 DEF InRange
<1>3. CASE FetchNothing(it)
  BY <1>3 DEF FetchNothing, Iterating, IInv, TypeOK
<1> QED
  BY <1>1, <1>2, <1>3 DEF Fetch

(* The exact reach of the finding about a second fetch(): the iterator     *)
(* stands on a row just when no buffer before the one it begins in has     *)
(* been destroyed; otherwise its index is behind the end of the buffer.    *)
THEOREM RefetchNeedsFirstBuffer == Spec => [][\A it \in Iterator : OnARowIffFirst(it)]_vars
<1>1. Init => LabelsBehindRows
  BY DEF Init, LabelsBehindRows, Live
<1>2. IInv /\ LabelsBehindRows /\ [Next]_vars => LabelsBehindRows'
  BY StepKeepsLabels
<1>3. IInv /\ LabelsBehindRows => [\A it \in Iterator : OnARowIffFirst(it)]_vars
  BY FetchOnARowIffFirst
<1> QED
  BY <1>1, <1>2, <1>3, InvariantHolds, PTL DEF Spec
=============================================================================
