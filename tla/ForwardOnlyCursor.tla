------------------------- MODULE ForwardOnlyCursor -------------------------
(***************************************************************************)
(* ForwardOnlyCursor (details/cursor.hpp) and its ForwardIterator          *)
(* (details/iterator.hpp).                                                 *)
(*                                                                         *)
(* The rows fetched so far live in buffers.  A buffer owns the next one    *)
(* (next_, a shared_ptr filled the first time an iterator runs past the    *)
(* end of the buffer); iterators own the buffer they stand in; the cursor  *)
(* has only a weak reference (buffer_) to the first buffer still alive,    *)
(* which the destructor of a buffer advances.  Several iterators can be    *)
(* anywhere in the chain, and the driver can only go forward.              *)
(*                                                                         *)
(* A buffer is a record: the label low_, the first row it really holds,    *)
(* its number of rows and next_.  A buffer whose last owner lets go is     *)
(* `dying' until its destructor has run; nothing else happens meanwhile.   *)
(***************************************************************************)
EXTENDS ResultSet

CONSTANTS
    BufferSize,   \* rows fetched at once (BufferSize in details/cursor.hpp)
    SizeMod,      \* std::size_t counts modulo SizeMod
    Iterator,     \* the iterators a caller may have
    BufferId,     \* addresses of buffers
    Null,         \* a null shared_ptr or an empty weak_ptr
    Absent        \* an iterator that does not exist

ASSUME BufferAssumption ==
    /\ BufferSize \in Nat \ {0}
    /\ SizeMod \in Nat
    /\ SizeMod > NumRows + 1
    /\ Null \notin BufferId
    /\ Absent \notin BufferId \cup {Null}

VARIABLES
    driverNext,   \* the driver's position
    buffers,      \* [live buffers -> record]
    head,         \* ForwardOnlyCursor::buffer_
    bufferOf,     \* ForwardIterator::buffer_, Absent or Null (an end iterator)
    indexOf,      \* ForwardIterator::i_
    dying,        \* the buffer whose destructor is running
    taken         \* rows handed out by fetch_one

vars == <<driverNext, buffers, head, bufferOf, indexOf, dying, taken>>

Live == DOMAIN buffers

BufferRecord == [low : Nat, first : Nat, size : Nat, next : BufferId \cup {Null}]

TypeOK ==
    /\ driverNext \in Positions
    /\ Live \subseteq BufferId
    /\ buffers \in [Live -> BufferRecord]
    /\ head \in BufferId \cup {Null}
    /\ bufferOf \in [Iterator -> BufferId \cup {Null, Absent}]
    /\ indexOf \in [Iterator -> 0 .. SizeMod - 1]
    /\ dying \in BufferId \cup {Null}
    /\ taken \subseteq 1 .. NumRows

-----------------------------------------------------------------------------
(* Ownership.                                                              *)

(* Somebody's shared_ptr refers to b.                                      *)
Held(b) ==
    \/ \E it \in Iterator : bufferOf[it] = b
    \/ \E c \in Live : buffers[c].next = b

(* weak_ptr::expired: also true while the destructor of head is running.   *)
Expired == head \notin Live \/ ~Held(head)

(* Slip: copies of an iterator do not share the ownership of the buffer.   *)
OrphanUnshared(it, b) ==
    IF \E c \in Live : buffers[c].next = b THEN Null ELSE b

(* What is left without an owner when the iterator `it' lets go of b.      *)
Orphan(it, b) ==
    IF \/ \E j \in Iterator \ {it} : bufferOf[j] = b
       \/ \E c \in Live : buffers[c].next = b
    THEN Null ELSE b

(* make_shared: an address nobody uses.  The weak reference keeps the      *)
(* control block of an expired head.                                       *)
FreeIds == BufferId \ (Live \cup {head})

High(b) == buffers[b].low + buffers[b].size

(* Slip: a buffer is taken to be full, whatever fetched_ says.             *)
NewBufferFull(low) ==
    [low |-> low, first |-> driverNext, size |-> BufferSize, next |-> Null]

NewBuffer(low) ==
    [low |-> low, first |-> driverNext,
     size |-> RowsetSize(driverNext, BufferSize), next |-> Null]

Iterating(it) == bufferOf[it] \in BufferId

InRange(it) == Iterating(it) /\ indexOf[it] < buffers[bufferOf[it]].size

Row(it) == buffers[bufferOf[it]].first + indexOf[it]

RowsOf(b) == buffers[b].first .. buffers[b].first + buffers[b].size - 1

-----------------------------------------------------------------------------
Init ==
    /\ driverNext = 1
    /\ buffers = [b \in {} |-> NewBuffer(1)]
    /\ head = Null
    /\ bufferOf = [it \in Iterator |-> Absent]
    /\ indexOf = [it \in Iterator |-> 0]
    /\ dying = Null
    /\ taken = {}

(* const_iterator{1, buffer}: i_ is the difference of two std::size_t.     *)
Begin(it, b, low) ==
    /\ bufferOf' = [bufferOf EXCEPT ![it] = b]
    /\ indexOf' = [indexOf EXCEPT ![it] = (1 + SizeMod - low) % SizeMod]

(* fetch() when some buffer is alive: it begins in the first one.          *)
FetchAlive(it) ==
    /\ dying = Null
    /\ bufferOf[it] = Absent
    /\ ~Expired
    /\ Begin(it, head, buffers[head].low)
    /\ UNCHANGED <<driverNext, buffers, head, dying, taken>>

(* fetch() when none is: a temporary empty buffer, labelled 1, fetches its *)
(* successor, and the destructor of the temporary leaves it in buffer_.    *)
FetchNew(it) ==
    /\ dying = Null
    /\ bufferOf[it] = Absent
    /\ Expired
    /\ RowsetSize(driverNext, BufferSize) > 0
    /\ \E b \in FreeIds :
          /\ buffers' = [c \in Live \cup {b} |-> IF c = b THEN NewBuffer(1) ELSE buffers[c]]
          /\ head' = b
          /\ Begin(it, b, 1)
    /\ driverNext' = PositionAfter(driverNext, BufferSize)
    /\ UNCHANGED <<dying, taken>>

(* fetch() when the driver has no more rows: the end iterator.             *)
FetchNothing(it) ==
    /\ dying = Null
    /\ bufferOf[it] = Absent
    /\ Expired
    /\ RowsetSize(driverNext, BufferSize) = 0
    /\ bufferOf' = [bufferOf EXCEPT ![it] = Null]
    /\ UNCHANGED <<driverNext, buffers, head, indexOf, dying, taken>>

Fetch(it) == FetchAlive(it) \/ FetchNew(it) \/ FetchNothing(it)

(* buffer_ = buffer_->next(); i_ = 0                                       *)
MoveTo(it, b) ==
    /\ bufferOf' = [bufferOf EXCEPT ![it] = b]
    /\ indexOf' = [indexOf EXCEPT ![it] = 0]
    /\ dying' = Orphan(it, bufferOf[it])

NextIndex(it) == (indexOf[it] + 1) % SizeMod

AtLastIndex(it) == Iterating(it) /\ NextIndex(it) = buffers[bufferOf[it]].size

(* increment() within the buffer.                                          *)
Step(it) ==
    /\ dying = Null
    /\ Iterating(it)
    /\ ~AtLastIndex(it)
    /\ indexOf' = [indexOf EXCEPT ![it] = NextIndex(it)]
    /\ UNCHANGED <<driverNext, buffers, head, bufferOf, dying, taken>>

(* increment() past the last row of the buffer, into the memoised next_.   *)
StepToKnown(it) ==
    /\ dying = Null
    /\ AtLastIndex(it)
    /\ buffers[bufferOf[it]].next # Null
    /\ MoveTo(it, buffers[bufferOf[it]].next)
    /\ UNCHANGED <<driverNext, buffers, head, taken>>

(* Slip: next() does not look at next_ before it fetches.                  *)
StepToFetchedAgain(it) ==
    /\ dying = Null
    /\ AtLastIndex(it)
    /\ RowsetSize(driverNext, BufferSize) > 0
    /\ \E b \in FreeIds :
          /\ buffers' = [c \in Live \cup {b} |->
                IF c = b THEN NewBuffer(High(bufferOf[it])) ELSE buffers[c]]
          /\ MoveTo(it, b)
    /\ driverNext' = PositionAfter(driverNext, BufferSize)
    /\ UNCHANGED <<head, taken>>

(* increment() past the last row of the last buffer: next() fetches.       *)
StepToFetched(it) ==
    /\ dying = Null
    /\ AtLastIndex(it)
    /\ buffers[bufferOf[it]].next = Null
    /\ RowsetSize(driverNext, BufferSize) > 0
    /\ \E b \in FreeIds :
          /\ buffers' = [c \in Live \cup {b} |->
                IF c = b THEN NewBuffer(High(bufferOf[it]))
                ELSE IF c = bufferOf[it] THEN [buffers[c] EXCEPT !.next = b]
                ELSE buffers[c]]
          /\ MoveTo(it, b)
    /\ driverNext' = PositionAfter(driverNext, BufferSize)
    /\ UNCHANGED <<head, taken>>

(* Slip: SQL_NO_DATA leaves the iterator at the start of its old buffer.   *)
StepToEndStays(it) ==
    /\ dying = Null
    /\ AtLastIndex(it)
    /\ buffers[bufferOf[it]].next = Null
    /\ RowsetSize(driverNext, BufferSize) = 0
    /\ indexOf' = [indexOf EXCEPT ![it] = 0]
    /\ UNCHANGED <<driverNext, buffers, head, bufferOf, dying, taken>>

(* increment() past the last row of the result: SQL_NO_DATA, and the       *)
(* iterator becomes the end iterator.                                      *)
StepToEnd(it) ==
    /\ dying = Null
    /\ AtLastIndex(it)
    /\ buffers[bufferOf[it]].next = Null
    /\ RowsetSize(driverNext, BufferSize) = 0
    /\ MoveTo(it, Null)
    /\ UNCHANGED <<driverNext, buffers, head, taken>>

(* next() throws: i_ has been incremented, buffer_ has not been replaced.  *)
StepFails(it) ==
    /\ dying = Null
    /\ AtLastIndex(it)
    /\ buffers[bufferOf[it]].next = Null
    /\ indexOf' = [indexOf EXCEPT ![it] = NextIndex(it)]
    /\ UNCHANGED <<driverNext, buffers, head, bufferOf, dying, taken>>

Increment(it) ==
    Step(it) \/ StepToKnown(it) \/ StepToFetched(it) \/ StepToEnd(it)

(* The caller copies an iterator.                                          *)
Copy(from, to) ==
    /\ dying = Null
    /\ bufferOf[from] # Absent
    /\ bufferOf[to] = Absent
    /\ bufferOf' = [bufferOf EXCEPT ![to] = bufferOf[from]]
    /\ indexOf' = [indexOf EXCEPT ![to] = indexOf[from]]
    /\ UNCHANGED <<driverNext, buffers, head, dying, taken>>

(* The caller destroys an iterator.                                        *)
Drop(it) ==
    /\ dying = Null
    /\ bufferOf[it] # Absent
    /\ bufferOf' = [bufferOf EXCEPT ![it] = Absent]
    /\ indexOf' = [indexOf EXCEPT ![it] = 0]
    /\ dying' = IF Iterating(it) THEN Orphan(it, bufferOf[it]) ELSE Null
    /\ UNCHANGED <<driverNext, buffers, head, taken>>

(* Slip: ~Buffer leaves buffer_ of the cursor alone.                       *)
DestroyKeepsHead ==
    /\ dying # Null
    /\ LET next == buffers[dying].next
       IN  dying' = IF next # Null /\ \A it \in Iterator : bufferOf[it] # next
                    THEN next ELSE Null
    /\ buffers' = [c \in Live \ {dying} |-> buffers[c]]
    /\ UNCHANGED <<driverNext, head, bufferOf, indexOf, taken>>

(* ~Buffer: buffer_ of the cursor moves on to next_; then next_ is         *)
(* released, which may destroy the next buffer in turn.                    *)
Destroy ==
    /\ dying # Null
    /\ LET next == buffers[dying].next
       IN  /\ head' = IF next # Null THEN next ELSE head
           /\ dying' = IF next # Null /\ \A it \in Iterator : bufferOf[it] # next
                       THEN next ELSE Null
    /\ buffers' = [c \in Live \ {dying} |-> buffers[c]]
    /\ UNCHANGED <<driverNext, bufferOf, indexOf, taken>>

(* Slip: fetch_one() does not look for SQL_NO_DATA.                        *)
FetchOneUnchecked ==
    /\ dying = Null
    /\ taken' = taken \cup {driverNext}
    /\ driverNext' = PositionAfter(driverNext, 1)
    /\ UNCHANGED <<buffers, head, bufferOf, indexOf, dying>>

(* fetch_one(): one row straight from the driver, into no buffer.          *)
FetchOne ==
    /\ dying = Null
    /\ RowsetSize(driverNext, 1) = 1
    /\ taken' = taken \cup {driverNext}
    /\ driverNext' = PositionAfter(driverNext, 1)
    /\ UNCHANGED <<buffers, head, bufferOf, indexOf, dying>>

Next ==
    \/ \E it \in Iterator : Fetch(it) \/ Increment(it) \/ StepFails(it) \/ Drop(it)
    \/ \E from, to \in Iterator : Copy(from, to)
    \/ Destroy
    \/ FetchOne

(* A caller's loop goes on incrementing, and a destructor runs to its end. *)
Fairness ==
    /\ \A it \in Iterator : WF_vars(Increment(it))
    /\ WF_vars(Destroy)

Spec == Init /\ [][Next]_vars

FairSpec == Spec /\ Fairness

-----------------------------------------------------------------------------
(* Properties.                                                             *)

(* The asserts of ~Buffer and of fetch_buffer: the live buffers are one    *)
(* chain and buffer_ is its first one, whatever iterators are copied,      *)
(* advanced and destroyed in whatever order.  So a second fetch() finds    *)
(* the earliest rows still alive and never starts a second chain.          *)
OneChainFromHead ==
    /\ Live # {} => head \in Live
    /\ \A b \in Live : buffers[head].first <= buffers[b].first
    /\ \A b \in Live \ {head} : \E c \in Live : buffers[c].next = b
    /\ \A b, c \in Live :
          buffers[b].first < buffers[c].first =>
             /\ buffers[b].next \in Live
             /\ buffers[buffers[b].next].first <= buffers[c].first

(* No buffer outlives its last owner, and none is destroyed under an       *)
(* iterator: the memory of a traversal is what its iterators still reach.  *)
OwnedExactlyWhileReachable ==
    /\ \A it \in Iterator : Iterating(it) => bufferOf[it] \in Live \ {dying}
    /\ \A b \in Live \ {dying} : Held(b)

(* A row is delivered once: it is in one buffer, or fetch_one handed it    *)
(* out, never both, although the two share the driver's position.          *)
RowsDeliveredOnce ==
    /\ \A b \in Live : RowsOf(b) \cap taken = {} /\ RowsOf(b) \subseteq 1 .. driverNext - 1
    /\ \A b, c \in Live : b # c => RowsOf(b) \cap RowsOf(c) = {}
    /\ \A r \in taken : r < driverNext

(* An increment from a row leads to the next row nobody took with          *)
(* fetch_one, or to the end when there is none; in particular an iterator  *)
(* that follows another one through next_ sees the same rows.              *)
IncrementSkipsNoRow ==
    [][\A it \in Iterator :
          InRange(it) =>
             /\ InRange(it)' =>
                   /\ Row(it)' >= Row(it)
                   /\ (Row(it) + 1) .. (Row(it)' - 1) \subseteq taken
             /\ bufferOf'[it] = Null => (Row(it) + 1) .. NumRows \subseteq taken]_vars

(* A loop that keeps incrementing ends, unless a fetch failed under it.    *)
LoopsEnd ==
    \A it \in Iterator :
        Iterating(it) ~> (bufferOf[it] \in {Null, Absent} \/ ~InRange(it))

(* The iterator fetch() returns stands on a row of its buffer, as the      *)
(* assert of Buffer::operator[] wants.                                     *)
FetchBeginsOnARow == [][\A it \in Iterator : Fetch(it) /\ Iterating(it)' => InRange(it)']_vars
=============================================================================
