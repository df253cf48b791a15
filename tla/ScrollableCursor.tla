-------------------------- MODULE ScrollableCursor -------------------------
(***************************************************************************)
(* ScrollableCursor (details/cursor.hpp) and its ForwardIterator           *)
(* (details/iterator.hpp).                                                 *)
(*                                                                         *)
(* Every iterator owns the buffer it stands in; there is no chain.  An     *)
(* iterator that runs past its buffer asks the cursor for the rows from    *)
(* the buffer's high mark on.  The cursor has one number, pos_: when the   *)
(* wanted row is pos_ it fetches the next rowset, otherwise it positions   *)
(* absolutely.  All iterators share the driver's position.                 *)
(*                                                                         *)
(* Columns are bound up to the first that is too long.  The cursor knows   *)
(* how many by the number of its offsets_, of which bookmarks take one: it *)
(* fetches one row at a time unless there are as many as columns, and      *)
(* takes that many columns from the buffer when an iterator is             *)
(* dereferenced.  The others are read with SQLGetData from the driver's    *)
(* current row.  With bookmarks the first column that is not bound is      *)
(* therefore taken for one that is, and read from behind the row.          *)
(*                                                                         *)
(* A buffer is immutable here, so it is a value: the label low_, the first *)
(* row it really holds, and its number of rows.                            *)
(***************************************************************************)
EXTENDS ResultSet

CONSTANTS
    NumColumns,     \* columns of a row
    BufferSize,     \* rows fetched at once by bulk_fetch
    Iterator,       \* the iterators a caller may have
    MayFail,        \* whether SQLFetchScroll may fail
    MaxStray,       \* bound: how often fetch_one or a bulk operation moves
                    \* the driver
    Null,           \* the buffer of an end iterator
    Absent          \* an iterator that does not exist

Buffer == [low : Nat, first : Nat, size : Nat]

ASSUME ScrollableAssumption ==
    /\ NumColumns \in Nat \ {0}
    /\ BufferSize \in Nat \ {0}
    /\ MayFail \in BOOLEAN
    /\ MaxStray \in Nat
    /\ Null \notin Buffer
    /\ Absent \notin Buffer \cup {Null}

VARIABLES
    bookmarks,    \* the cursor has bookmarks (WithBookmarks)
    numBound,     \* columns bound: 1 .. numBound
    driverNext,   \* where SQL_FETCH_NEXT would start
    driverRow,    \* the row SQLGetData reads from, 0 if there is none
    dataRead,     \* its long columns have been read already
    pos,          \* ScrollableCursor::pos_
    bufferOf,     \* ForwardIterator::buffer_
    indexOf,      \* ForwardIterator::i_
    cached,       \* CachedValue::value_: the row each column is from, or
                  \* Null
    strays,       \* how often something has moved the driver of which pos_
                  \* did not hear
    strayed,      \* there was no absolute fetch since
    astray        \* iterators whose buffers were fetched in between with
                  \* SQL_FETCH_NEXT

binding == <<bookmarks, numBound>>

straying == <<strays, strayed, astray>>

vars == <<binding, driverNext, driverRow, dataRead, pos, bufferOf, indexOf, cached, straying>>

Column == 1 .. NumColumns

Value == [Column -> Nat]

TypeOK ==
    /\ bookmarks \in BOOLEAN
    /\ numBound \in 0 .. NumColumns
    /\ driverNext \in Positions
    /\ driverRow \in 0 .. NumRows
    /\ dataRead \in BOOLEAN
    /\ pos \in Nat \ {0}
    /\ bufferOf \in [Iterator -> Buffer \cup {Null, Absent}]
    /\ indexOf \in [Iterator -> Nat]
    /\ cached \in [Iterator -> Value \cup {Null}]
    /\ strays \in 0 .. MaxStray
    /\ strayed \in BOOLEAN
    /\ astray \subseteq Iterator

(* offsets_.size(): one for each bound column, and one for the bookmark.   *)
Offsets == numBound + (IF bookmarks THEN 1 ELSE 0)

BulkFetch == NumColumns <= Offsets

(* Slip: whole rowsets are fetched although some column is not bound.      *)
ArraySizeAlwaysBulk == BufferSize

ArraySize == IF BulkFetch THEN BufferSize ELSE 1

(* Slip: the next buffer is taken to begin a full rowset further on.       *)
HighOfFullRowset(b) == b.low + BufferSize

High(b) == b.low + b.size

Iterating(it) == bufferOf[it] \in Buffer

InRange(it) == Iterating(it) /\ indexOf[it] < bufferOf[it].size

Row(it) == bufferOf[it].first + indexOf[it]

(* A column that is not bound, but read through offsets_, whose end it is  *)
(* behind.                                                                 *)
Misread(c) == numBound < c /\ c <= Offsets

(* construct: a column is read from the buffer's row; from behind it,      *)
(* which is no row's value, 0; or from the driver's row.                   *)
Construct(it) ==
    [c \in Column |-> IF c <= numBound THEN Row(it) ELSE IF Misread(c) THEN 0 ELSE driverRow]

-----------------------------------------------------------------------------
(* Slip: pos_ counts from 0 where row numbers count from 1.                *)
InitFromZero ==
    /\ bookmarks \in BOOLEAN
    /\ numBound \in 0 .. NumColumns
    /\ driverNext = 1
    /\ driverRow = 0
    /\ dataRead = FALSE
    /\ pos = 0
    /\ bufferOf = [it \in Iterator |-> Absent]
    /\ indexOf = [it \in Iterator |-> 0]
    /\ cached = [it \in Iterator |-> Null]
    /\ strays = 0
    /\ strayed = FALSE
    /\ astray = {}

-----------------------------------------------------------------------------
Init ==
    /\ bookmarks \in BOOLEAN
    /\ numBound \in 0 .. NumColumns
    /\ driverNext = 1
    /\ driverRow = 0
    /\ dataRead = FALSE
    /\ pos = 1
    /\ bufferOf = [it \in Iterator |-> Absent]
    /\ indexOf = [it \in Iterator |-> 0]
    /\ cached = [it \in Iterator |-> Null]
    /\ strays = 0
    /\ strayed = FALSE
    /\ astray = {}

(* SQLFetchScroll of n rows that starts at row `from'.                     *)
DriverFetches(from, n) ==
    /\ driverNext' = PositionAfter(from, n)
    /\ driverRow' = IF RowsetSize(from, n) > 0 THEN from ELSE 0

(* Slip: fetch_buffer always asks for the next rowset.                     *)
FromDriver(wanted) == driverNext

(* fetch_buffer(wanted): where the driver fetches from.  An absolute       *)
(* position behind the result is after the end.                            *)
From(wanted) ==
    IF wanted = pos THEN driverNext
    ELSE IF wanted <= NumRows THEN wanted ELSE AfterEnd

(* An absolute fetch that returns rows brings the driver back to pos_.     *)
Stray(it, wanted, size) ==
    /\ strayed' = (strayed /\ (wanted = pos \/ size = 0))
    /\ astray' = IF strayed /\ wanted = pos THEN astray \cup {it} ELSE astray \ {it}
    /\ UNCHANGED strays

(* Slip: pos_ is maintained for SQL_FETCH_NEXT only.                       *)
FetchBufferForgetsPos(it, wanted) ==
    LET from == From(wanted)
        size == RowsetSize(from, ArraySize)
    IN  /\ DriverFetches(from, ArraySize)
        /\ dataRead' = FALSE
        /\ pos' = IF size > 0 /\ wanted = pos THEN wanted + size ELSE pos
        /\ bufferOf' = [bufferOf EXCEPT ![it] =
              IF size > 0 THEN [low |-> wanted, first |-> from, size |-> size] ELSE Null]
        /\ indexOf' = [indexOf EXCEPT ![it] = 0]
        /\ cached' = [cached EXCEPT ![it] = Null]
        /\ Stray(it, wanted, size)
        /\ UNCHANGED binding

(* Slip: a rowset that is not full is taken for the end.                   *)
FetchBufferFullOnly(it, wanted) ==
    LET from == From(wanted)
        size == RowsetSize(from, ArraySize)
    IN  /\ DriverFetches(from, ArraySize)
        /\ dataRead' = FALSE
        /\ pos' = IF size > 0 THEN wanted + size ELSE pos
        /\ bufferOf' = [bufferOf EXCEPT ![it] =
              IF size = ArraySize THEN [low |-> wanted, first |-> from, size |-> size] ELSE Null]
        /\ indexOf' = [indexOf EXCEPT ![it] = 0]
        /\ cached' = [cached EXCEPT ![it] = Null]
        /\ Stray(it, wanted, size)
        /\ UNCHANGED binding

(* fetch_buffer(wanted) on behalf of the iterator `it'.  pos_ follows the  *)
(* rows received and stays as it was when there are none.                  *)
FetchBuffer(it, wanted) ==
    LET from == From(wanted)
        size == RowsetSize(from, ArraySize)
    IN  /\ DriverFetches(from, ArraySize)
        /\ dataRead' = FALSE
        /\ pos' = IF size > 0 THEN wanted + size ELSE pos
        /\ bufferOf' = [bufferOf EXCEPT ![it] =
              IF size > 0 THEN [low |-> wanted, first |-> from, size |-> size] ELSE Null]
        /\ indexOf' = [indexOf EXCEPT ![it] = 0]
        /\ cached' = [cached EXCEPT ![it] = Null]
        /\ Stray(it, wanted, size)
        /\ UNCHANGED binding

(* fetch(): const_iterator{1, buffer}, or the end iterator.                *)
Fetch(it) ==
    /\ bufferOf[it] = Absent
    /\ FetchBuffer(it, 1)

AtLastIndex(it) == Iterating(it) /\ indexOf[it] + 1 = bufferOf[it].size

(* increment() within the buffer; it also drops the cached value.          *)
Step(it) ==
    /\ InRange(it)
    /\ ~AtLastIndex(it)
    /\ indexOf' = [indexOf EXCEPT ![it] = @ + 1]
    /\ cached' = [cached EXCEPT ![it] = Null]
    /\ UNCHANGED <<binding, driverNext, driverRow, dataRead, pos, bufferOf, straying>>

(* increment() past the last row of the buffer: next() of the buffer.      *)
StepOver(it) ==
    /\ AtLastIndex(it)
    /\ FetchBuffer(it, High(bufferOf[it]))

(* SQLFetchScroll fails under increment(): the value is gone and i_ has    *)
(* been incremented, but buffer_ has not been replaced.                    *)
StepFails(it) ==
    /\ MayFail
    /\ AtLastIndex(it)
    /\ indexOf' = [indexOf EXCEPT ![it] = @ + 1]
    /\ cached' = [cached EXCEPT ![it] = Null]
    /\ UNCHANGED <<binding, driverNext, driverRow, dataRead, pos, bufferOf, straying>>

Increment(it) == Step(it) \/ StepOver(it)

(* SQLGetData gives a column of the driver's row once: a second reading    *)
(* throws (SurrogateVector), which leaves everything as it was.            *)
DataReadable == BulkFetch \/ (driverRow # 0 /\ ~dataRead)

(* dereference() of an iterator without a value constructs one.            *)
Dereference(it) ==
    /\ InRange(it)
    /\ cached[it] = Null
    /\ DataReadable
    /\ cached' = [cached EXCEPT ![it] = Construct(it)]
    /\ dataRead' = (dataRead \/ ~BulkFetch)
    /\ UNCHANGED <<binding, driverNext, driverRow, pos, bufferOf, indexOf, straying>>

(* SQLGetData fails when some columns have been read already.              *)
DereferenceFails(it) ==
    /\ MayFail
    /\ InRange(it)
    /\ cached[it] = Null
    /\ ~BulkFetch /\ DataReadable
    /\ dataRead' = TRUE
    /\ UNCHANGED <<binding, driverNext, driverRow, pos, bufferOf, indexOf, cached, straying>>

(* The caller copies an iterator, its cached value included.               *)
Copy(from, to) ==
    /\ bufferOf[from] # Absent
    /\ bufferOf[to] = Absent
    /\ bufferOf' = [bufferOf EXCEPT ![to] = bufferOf[from]]
    /\ indexOf' = [indexOf EXCEPT ![to] = indexOf[from]]
    /\ cached' = [cached EXCEPT ![to] = cached[from]]
    /\ astray' = IF from \in astray THEN astray \cup {to} ELSE astray
    /\ UNCHANGED <<binding, driverNext, driverRow, dataRead, pos, strays, strayed>>

(* The caller destroys an iterator.                                        *)
Drop(it) ==
    /\ bufferOf[it] # Absent
    /\ bufferOf' = [bufferOf EXCEPT ![it] = Absent]
    /\ indexOf' = [indexOf EXCEPT ![it] = 0]
    /\ cached' = [cached EXCEPT ![it] = Null]
    /\ astray' = astray \ {it}
    /\ UNCHANGED <<binding, driverNext, driverRow, dataRead, pos, strays, strayed>>

(* fetch_one(orientation, offset): one row, from where the driver is or    *)
(* from the row the caller names; pos_ does not hear of it.  Its value is  *)
(* constructed at once, unless SQLGetData fails.                           *)
FetchOne(from) ==
    /\ strays < MaxStray
    /\ DriverFetches(from, 1)
    /\ \/ dataRead' = (driverRow' # 0 /\ ~BulkFetch)
       \/ MayFail /\ dataRead' = FALSE
    /\ strays' = strays + 1
    /\ strayed' = TRUE
    /\ UNCHANGED <<binding, pos, bufferOf, indexOf, cached, astray>>

(* SQLBulkOperations in apply_changes of a ModifiableCursor: the driver's  *)
(* position is undefined afterwards.                                       *)
BulkOperation(next, row) ==
    /\ strays < MaxStray
    /\ driverNext' = next
    /\ driverRow' = row
    /\ dataRead' \in BOOLEAN
    /\ strays' = strays + 1
    /\ strayed' = TRUE
    /\ UNCHANGED <<binding, pos, bufferOf, indexOf, cached, astray>>

Next ==
    \/ \E it \in Iterator :
          Fetch(it) \/ Increment(it) \/ StepFails(it) \/ Drop(it)
          \/ Dereference(it) \/ DereferenceFails(it)
    \/ \E from, to \in Iterator : Copy(from, to)
    \/ \E from \in Positions : FetchOne(from)
    \/ \E next \in Positions, row \in 0 .. NumRows : BulkOperation(next, row)

Fairness == \A it \in Iterator : WF_vars(Increment(it))

Spec == Init /\ [][Next]_vars

FairSpec == Spec /\ Fairness

-----------------------------------------------------------------------------
(* Properties.                                                             *)

(* pos_ tells where the driver is, unless the driver has run off the end,  *)
(* or has been moved by fetch_one or a bulk operation; the next absolute   *)
(* fetch puts that right.  Nothing else can go wrong with it.              *)
PosTellsDriverPosition ==
    ~strayed => driverNext = pos \/ driverNext = AfterEnd

(* However many iterators share the cursor, a buffer labelled low_ holds   *)
(* the rows from low_ on: fetch_buffer's choice between SQL_FETCH_NEXT and *)
(* SQL_FETCH_ABSOLUTE never hands out rows under a wrong number.  Only a   *)
(* buffer fetched as the next one after fetch_one or a bulk operation may  *)
(* hold other rows; buffers of other iterators, and later ones, do not.    *)
BufferHoldsItsRows ==
    \A it \in Iterator :
        Iterating(it) =>
           LET b == bufferOf[it]
           IN  /\ b.first + b.size <= AfterEnd
               /\ it \notin astray => b.low = b.first

(* Passing from one buffer to the next neither skips nor repeats a row,    *)
(* whichever iterators moved in between, and even if the driver has been   *)
(* moved as long as the next buffer is not fetched from where it is.       *)
IncrementReachesNextRow ==
    [][\A it \in Iterator :
          InRange(it) /\ InRange(it)' /\ it \notin astray \cup astray' =>
             Row(it)' \in {Row(it), Row(it) + 1}]_vars

(* The end iterator is reached behind the last row, as forward traversal   *)
(* promises.                                                               *)
EndsBehindLastRow ==
    [][\A it \in Iterator : InRange(it) /\ bufferOf'[it] = Null => Row(it) = NumRows]_vars

(* A value comes from one row, that of its iterator: the columns read with *)
(* SQLGetData belong to the row whose other columns are in the buffer,     *)
(* whatever number of rows offsets_ lets the cursor fetch at once, and     *)
(* even when bulk_fetch() holds with a column not bound.  That column,     *)
(* misread with bookmarks, is the only exception.                          *)
ValueFromOneRow ==
    \A it \in Iterator :
        cached[it] # Null =>
           \A c \in Column : ~Misread(c) => cached[it][c] = Row(it)

(* With one iterator at a time the range is a multi-pass range.            *)
Multipass == INSTANCE MultipassRange WITH
    at <- [it \in Iterator |->
              IF bufferOf[it] = Absent THEN 0
              ELSE IF bufferOf[it] = Null THEN AfterEnd ELSE Row(it)]

ImplementsMultipassRange == Multipass!FairSpec
=============================================================================
