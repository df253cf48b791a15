----------------------------- MODULE Surrogates ------------------------------
(***************************************************************************)
(* Surrogate and SurrogateVector (bindings/surrogate.hpp): the constructors *)
(* that read a column with SQLGetData, which hands out a long value in     *)
(* pieces and each piece once.  SurrogateVector reads Chunk elements first *)
(* and then, by what the indicator says, is done, reads the rest in one    *)
(* go, or chunk by chunk until SQL_NO_DATA.                                *)
(*                                                                         *)
(* Values are sequences of bytes; byte i of the column is the number i and *)
(* a zero byte is 0.  Assertions are recorded in `asserted' and do not end *)
(* the program.                                                            *)
(***************************************************************************)
EXTENDS Integers, Sequences

CONSTANTS
    Chunk,       \* chunk_size, in elements
    Capacity,    \* N of Surrogate<T[N]>, in elements
    Widths,      \* sizes of the element types T
    MaxLength    \* bound: bytes of the column

ASSUME SurrogatesAssumption ==
    /\ Chunk \in Nat \ {0, 1}
    /\ Capacity \in Nat \ {0}
    /\ Widths \subseteq Nat \ {0}
    /\ MaxLength \in Nat

NoTotal == -4    \* SQL_NO_TOTAL

NullData == -1   \* SQL_NULL_DATA

VARIABLES
    column,      \* the value, how the driver hands it out, and sizeof(T)
    taken,       \* bytes of it the driver has handed out
    over,        \* the driver answers SQL_NO_DATA from now on
    phase,       \* "new", "first", "chunks", "vector", "array" or "threw"
    buffer,      \* the bytes of the buffer, at last of value_
    total,
    indicator,   \* indicator_
    reached,     \* [end |-> end of the last write, size |-> of the buffer]
    asserted,    \* every assertion has held
    begun        \* what had been taken when this construction began

driver == <<taken, over>>

vars == <<column, driver, phase, buffer, total, indicator, reached, asserted, begun>>

Column == [length : 0 .. MaxLength, null : BOOLEAN, terminated : BOOLEAN,
           reports : {"rest", "nothing", "written"}, width : Widths]

Init ==
    /\ column \in {c \in Column : c.length % c.width = 0 /\ (c.null => c.length = 0)}
    /\ taken = 0
    /\ over = FALSE
    /\ phase = "new"
    /\ buffer = <<>>
    /\ total = 0
    /\ indicator = 0
    /\ reached = [end |-> 0, size |-> 0]
    /\ asserted = TRUE
    /\ begun = 0

-----------------------------------------------------------------------------
(* SQLGetData.  A character value is terminated, also where it is cut off; *)
(* when it is, the indicator tells what is left, nothing (SQL_NO_TOTAL),   *)
(* or, with the drivers the loop is made for, what was written.  Some      *)
(* drivers answer again for a null, as the tests know.                     *)

Terminator == IF column.terminated THEN 1 ELSE 0

Rest == column.length - taken

Fits(room) == Rest + Terminator <= room

Written(room) ==
    IF Fits(room) THEN Rest ELSE IF room = 0 THEN 0 ELSE room - Terminator

Reported(room) ==
    IF column.null THEN NullData
    ELSE IF Fits(room) \/ column.reports = "rest" THEN Rest
    ELSE IF column.reports = "nothing" THEN NoTotal
    ELSE Written(room)

(* The driver writes behind the first `at' bytes of `bytes'.               *)
GetData(bytes, at, room) ==
    LET n == Written(room)
    IN  /\ ~over
        /\ buffer' = [i \in DOMAIN bytes |->
              IF i \in at + 1 .. at + n THEN taken + i - at
              ELSE IF column.terminated /\ i = at + n + 1 THEN 0 ELSE bytes[i]]
        /\ taken' = taken + n
        /\ over' \in IF column.null THEN BOOLEAN ELSE {Fits(room)}
        /\ indicator' = Reported(room)
        /\ reached' = [end |-> at + room, size |-> Len(bytes)]

-----------------------------------------------------------------------------
Width == column.width

Bytes(elements) == elements * Width

(* vector::resize, which appends zeroes.                                   *)
Resize(bytes, elements) ==
    [i \in 1 .. Bytes(elements) |-> IF i \in DOMAIN bytes THEN bytes[i] ELSE 0]

Throw == phase' = "threw" /\ UNCHANGED <<column, buffer, total, indicator, reached, asserted>>

Check(condition) == asserted' = (asserted /\ condition)

(* The first call of SurrogateVector's constructor.                        *)
VectorStart ==
    /\ phase = "new"
    /\ GetData(Resize(<<>>, Chunk), 0, Bytes(Chunk))
    /\ phase' = "first"
    /\ UNCHANGED <<column, total, asserted, begun>>

(* Surrogate<T[N]>, and Surrogate<T> with one element.  A driver that can't *)
(* tell the length makes it throw, and one that can may tell of more than  *)
(* the array holds.                                                        *)
ArrayRead ==
    /\ phase = "new"
    /\ GetData(Resize(<<>>, Capacity), 0, Bytes(Capacity))
    /\ phase' = IF indicator' = NoTotal THEN "threw" ELSE "array"
    /\ UNCHANGED <<column, total, asserted, begun>>

(* The value has been read before.                                         *)
NothingLeft ==
    /\ phase = "new"
    /\ over
    /\ Throw
    /\ UNCHANGED <<driver, begun>>

(* The constructor returns with what has been collected.                   *)
Finish(elements) ==
    /\ total' = elements
    /\ buffer' = Resize(buffer, elements)
    /\ phase' = "vector"
    /\ UNCHANGED <<column, driver, indicator, reached, begun>>

(* Slip: any full chunk is taken for one of many.                          *)
ReadsByChunksIfFull ==
    \/ phase = "first" /\ (indicator = NoTotal \/ indicator >= Bytes(Chunk))
    \/ phase = "chunks"

ReadsByChunks ==
    \/ phase = "first" /\ indicator \in {NoTotal, Bytes(Chunk)}
    \/ phase = "chunks"

VectorNull ==
    /\ phase = "first"
    /\ indicator = NullData
    /\ phase' = "vector"
    /\ buffer' = <<>>
    /\ UNCHANGED <<column, driver, total, indicator, reached, asserted, begun>>

(* Everything has come at once.                                            *)
VectorShort ==
    /\ phase = "first"
    /\ indicator \in 0 .. Bytes(Chunk) - 1
    /\ Check(indicator % Width = 0)
    /\ Finish(indicator \div Width)

(* The driver has told the length of the value.                            *)
NeedsRest == phase = "first" /\ ~ReadsByChunks /\ indicator > Bytes(Chunk)

(* The rest is read in one go; its indicator is only asserted about.       *)
VectorRest ==
    LET elements == indicator \div Width
        room == Bytes(elements - Chunk)
    IN  /\ NeedsRest
        /\ GetData(Resize(buffer, elements), Bytes(Chunk), room)
        /\ total' = elements
        /\ phase' = "vector"
        /\ Check(/\ indicator % Width = 0
                 /\ Reported(room) % Width = 0
                 /\ Reported(room) \div Width + Chunk = elements)
        /\ UNCHANGED <<column, begun>>

-----------------------------------------------------------------------------
(* The loop over the chunks.                                               *)

(* The bytes of a chunk: all of it if the driver does not know.            *)
Got == IF indicator = NoTotal THEN Bytes(Chunk) ELSE indicator

Collected == total + Got \div Width

NeedsChunk == ReadsByChunks /\ Got = Bytes(Chunk)

LastChunk ==
    /\ ReadsByChunks
    /\ Got # Bytes(Chunk)
    /\ Check(Got % Width = 0 /\ Got < Bytes(Chunk))
    /\ Finish(Collected)

(* Slip: the driver may write as much as the whole buffer holds.           *)
RoomOfBuffer == Bytes(Collected + Chunk)

(* buffer.size() * sizeof(T) - total                                       *)
Room == Bytes(Collected + Chunk) - Collected

(* Slip: every chunk is read to the beginning.                             *)
ChunkAtBegin == 0

(* buffer.data() + total / sizeof(T)                                       *)
ChunkAt == Bytes(Collected \div Width)

NextChunk ==
    /\ NeedsChunk
    /\ GetData(Resize(buffer, Collected + Chunk), ChunkAt, Room)
    /\ total' = Collected
    /\ phase' = "chunks"
    /\ Check(Got % Width = 0)
    /\ UNCHANGED <<column, begun>>

(* Slip: the loop does not look at SQL_NO_DATA.                            *)
NoMoreChunksUnseen ==
    /\ NeedsChunk
    /\ over
    /\ UNCHANGED vars

NoMoreChunks ==
    /\ NeedsChunk
    /\ over
    /\ Check(Got % Width = 0)
    /\ total' = Collected
    /\ buffer' = Resize(buffer, Collected)
    /\ indicator' = 0
    /\ phase' = "vector"
    /\ UNCHANGED <<column, driver, reached, begun>>

(* A call of SQLGetData fails and throws; what earlier calls took is lost. *)
Fails ==
    /\ phase = "new" \/ NeedsRest \/ NeedsChunk
    /\ ~over
    /\ Throw
    /\ UNCHANGED <<driver, begun>>

(* The program constructs another surrogate for the same column.           *)
Again ==
    /\ phase \in {"vector", "array", "threw"}
    /\ phase' = "new"
    /\ buffer' = <<>>
    /\ total' = 0
    /\ indicator' = 0
    /\ begun' = taken
    /\ UNCHANGED <<column, driver, reached, asserted>>

Proceed ==
    \/ VectorNull \/ VectorShort \/ VectorRest
    \/ LastChunk \/ NextChunk \/ NoMoreChunks

Next == VectorStart \/ ArrayRead \/ NothingLeft \/ Fails \/ Proceed \/ Again

Spec == Init /\ [][Next]_vars

(* A constructor that has begun runs to its end.                           *)
FairSpec == Spec /\ WF_vars(Proceed)

-----------------------------------------------------------------------------
(* Properties.                                                             *)

(* What size() tells, in bytes.                                            *)
Size ==
    IF indicator = NullData THEN 0
    ELSE IF phase = "array" THEN Bytes(indicator \div Width) ELSE Len(buffer)

(* details::cast: the first size() elements, or nullopt for a null.        *)
Cast == [null |-> indicator = NullData, bytes |-> [i \in 1 .. Size |-> buffer[i]]]

(* copy2array: what the value does not fill is zeroed.                     *)
CopyToArray == [i \in 1 .. Bytes(Capacity) |-> IF i <= Size THEN buffer[i] ELSE 0]

(* The values the constructors are made for: SurrogateVector reads bytes   *)
(* longer than a chunk only if they are not terminated and, chunk by       *)
(* chunk, only if an element is a byte; an array has room for all.         *)
Suitable ==
    IF phase = "array" THEN column.length + Terminator <= Bytes(Capacity)
    ELSE \/ column.length + Terminator <= Bytes(Chunk) /\ column.length # Bytes(Chunk)
         \/ ~column.terminated /\ (Width = 1 \/ column.reports = "rest")

(* What is cast from a surrogate is the whole value, each byte once and in *)
(* its place, and is null for a null, whatever pieces the driver cut it    *)
(* into; copied to an array, it is filled up with zeroes.  Unless an       *)
(* earlier construction has taken a part of the value and failed or left   *)
(* the rest.                                                               *)
ValueIsWhole ==
    phase \in {"vector", "array"} /\ Suitable /\ begun = 0 =>
        /\ Cast = [null |-> column.null, bytes |-> [i \in 1 .. column.length |-> i]]
        /\ phase = "array" =>
              \A i \in DOMAIN CopyToArray :
                 CopyToArray[i] = IF i <= column.length THEN i ELSE 0

(* The driver is never allowed to write behind the end of the buffer, not  *)
(* even for the values that are put together wrongly.                      *)
WritesInsideBuffer == reached.end <= reached.size

(* The assertions of the constructor hold for values that are not          *)
(* terminated: the driver's numbers agree with the constructor's.          *)
AssertionsHold == ~column.terminated /\ Width = 1 => asserted

(* Whatever the driver answers, the constructor comes to an end.           *)
ConstructionEnds == phase \in {"first", "chunks"} ~> phase \in {"vector", "threw"}
=============================================================================
