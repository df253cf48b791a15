------------------------- MODULE Surrogates_proofs -------------------------
(***************************************************************************)
(* For elements of any sizes, chunks and arrays of any lengths and columns *)
(* of any length: SurrogateVector and Surrogate<T[N]> collect the whole    *)
(* value where they are made for it, and never let the driver write behind *)
(* the end of the buffer.                                                  *)
(***************************************************************************)
EXTENDS Surrogates, TLAPS

(* The values SurrogateVector puts together, and those an array can hold.  *)
Short == column.length + Terminator <= Bytes(Chunk) /\ column.length # Bytes(Chunk)

Plain == ~column.terminated /\ (Width = 1 \/ column.reports = "rest")

FitsArray == column.length + Terminator <= Bytes(Capacity)

(* What has been taken so far is in the buffer, byte by byte.              *)
Prefix == \A i \in 1 .. taken : i \in DOMAIN buffer /\ buffer[i] = i

TypeInv ==
    /\ column \in Column
    /\ column.length % column.width = 0
    /\ column.null => column.length = 0
    /\ taken \in 0 .. column.length
    /\ over \in BOOLEAN
    /\ phase \in {"new", "first", "chunks", "vector", "array", "threw"}
    /\ buffer \in Seq(Nat)
    /\ total \in Nat
    /\ indicator \in Int
    /\ reached \in [end : Nat, size : Nat]
    /\ begun \in Nat

(* Where a construction is.                                                *)
LoopInv ==
    /\ phase = "new" => taken = begun /\ total = 0
    /\ phase = "first" => total = 0
    /\ phase = "first" => IF column.null THEN indicator = NullData
                          ELSE indicator \in Nat \cup {NoTotal}
    /\ phase = "chunks" => ~column.null /\ indicator \in Nat \cup {NoTotal}
    /\ phase \in {"first", "chunks"} /\ indicator = NoTotal => column.reports = "nothing"

(* The driver's numbers agree with the constructor's.                      *)
NumbersInv ==
    ~column.terminated /\ Width = 1 =>
       /\ phase = "first" /\ indicator > Chunk => column.length - taken = indicator - Chunk
       /\ phase = "first" /\ indicator = Chunk /\ column.reports = "rest" => over
       /\ phase = "chunks" => indicator <= Chunk /\ (column.reports = "rest" => over)

(* After the first call all has come, or a chunk of it.                    *)
FirstInv ==
    phase = "first" /\ begun = 0 =>
       /\ Prefix
       /\ \/ /\ column.length + Terminator <= Bytes(Chunk)
             /\ taken = column.length
             /\ indicator = IF column.null THEN NullData ELSE column.length
             /\ ~column.null => over
          \/ /\ column.length + Terminator > Bytes(Chunk)
             /\ taken = Bytes(Chunk) - Terminator
             /\ ~column.null /\ ~over
             /\ indicator = CASE column.reports = "rest"    -> column.length
                              [] column.reports = "nothing" -> NoTotal
                              [] OTHER                      -> taken

(* After each further chunk, likewise; elements are bytes here.            *)
ChunksInv ==
    phase = "chunks" /\ begun = 0 /\ (Short \/ Plain) =>
       /\ Prefix
       /\ Width = 1 /\ ~column.terminated /\ column.reports # "rest"
       /\ \/ over /\ taken = column.length /\ total <= taken /\ indicator = column.length - total
          \/ ~over /\ taken = total + Chunk /\ indicator \in {NoTotal, Chunk}

(* At the end the value is whole.                                          *)
EndInv ==
    /\ phase = "vector" /\ begun = 0 /\ (Short \/ Plain) =>
          /\ (indicator = NullData) = column.null
          /\ Len(buffer) = column.length
          /\ \A i \in 1 .. column.length : buffer[i] = i
    /\ phase = "array" /\ begun = 0 /\ FitsArray =>
          /\ indicator = IF column.null THEN NullData ELSE column.length
          /\ taken = column.length /\ Prefix

IInv ==
    /\ TypeInv /\ LoopInv /\ WritesInsideBuffer
    /\ NumbersInv /\ AssertionsHold
    /\ FirstInv /\ ChunksInv /\ EndInv
-----------------------------------------------------------------------------
(* Bytes and elements.                                                     *)

LEMMA DivisionLaw ==
    ASSUME NEW x \in Nat, NEW w \in Nat \ {0}
    PROVE  /\ x \div w \in Nat /\ (x \div w) * w <= x
           /\ (x \div w) * w = x - (x % w) /\ x % w \in 0 .. w - 1
OBVIOUS

(* What fits into x bytes is not more than x holds.                        *)
LEMMA DivisionGrows ==
    ASSUME NEW x \in Nat, NEW w \in Nat \ {0}, NEW k \in Nat, k * w <= x
    PROVE  k <= x \div w
<1> DEFINE q == x \div w
<1>1. q \in Nat /\ x < q * w + w
  BY DivisionLaw
<1>2. (q + 1) * w = q * w + w
  BY <1>1
<1>3. k * w < (q + 1) * w /\ q \in Nat
  BY <1>1, <1>2
<1> HIDE DEF q
<1> SUFFICES ASSUME k > q PROVE FALSE
  BY <1>3 DEF q
<1>4. k >= q + 1
  BY <1>3
<1>5. k * w >= (q + 1) * w
  BY <1>3, <1>4
<1> QED
  BY <1>3, <1>5

(* Elements are at least a byte.                                           *)
LEMMA BytesLaw ==
    ASSUME column \in Column
    PROVE  /\ Width \in Nat \ {0} /\ Terminator \in {0, 1}
           /\ \A n \in Nat : Bytes(n) \in Nat /\ n <= Bytes(n)
           /\ \A m, n \in Nat : Bytes(m + n) = Bytes(m) + Bytes(n)
           /\ \A m, n \in Nat : m <= n => Bytes(n - m) = Bytes(n) - Bytes(m)
           /\ Chunk <= Bytes(Chunk) /\ Bytes(Chunk) \in Nat \ {0, 1}
           /\ Bytes(Capacity) \in Nat \ {0}
           /\ Width = 1 => \A n \in Nat : Bytes(n) = n
<1>1. Width \in Nat \ {0} /\ Terminator \in {0, 1}
  BY SurrogatesAssumption DEF Width, Column, Terminator
<1>2. ASSUME NEW n \in Nat PROVE Bytes(n) \in Nat /\ n <= Bytes(n)
  BY <1>1 DEF Bytes
<1>3. ASSUME NEW m \in Nat, NEW n \in Nat PROVE Bytes(m + n) = Bytes(m) + Bytes(n)
  BY <1>1 DEF Bytes
<1>4. ASSUME NEW m \in Nat, NEW n \in Nat, m <= n PROVE Bytes(n - m) = Bytes(n) - Bytes(m)
  BY <1>1 DEF Bytes
<1>5. Chunk \in Nat \ {0, 1} /\ Capacity \in Nat \ {0}
  BY SurrogatesAssumption
<1>6. /\ Chunk <= Bytes(Chunk) /\ Bytes(Chunk) \in Nat
      /\ Capacity <= Bytes(Capacity) /\ Bytes(Capacity) \in Nat
  BY <1>2, <1>5
<1>7. Width = 1 => \A n \in Nat : Bytes(n) = n
  BY DEF Bytes
<1>8. Bytes(Chunk) \in Nat \ {0, 1} /\ Bytes(Capacity) \in Nat \ {0}
  BY <1>5, <1>6
<1> HIDE DEF Bytes
<1> QED
  BY <1>1, <1>2, <1>3, <1>4, <1>6, <1>7, <1>8

(* The elements in a number of bytes.                                      *)
LEMMA ElementsLaw ==
    ASSUME column \in Column, NEW x \in Nat
    PROVE  /\ x \div Width \in Nat /\ Bytes(x \div Width) \in Nat /\ Bytes(x \div Width) <= x
           /\ x % Width = 0 => Bytes(x \div Width) = x
           /\ \A k \in Nat : Bytes(k) <= x => k <= x \div Width
           /\ Width = 1 => x \div Width = x /\ x % Width = 0
<1>1. Width \in Nat \ {0}
  BY BytesLaw
<1> DEFINE q == x \div Width
           r == x % Width
<1>2. q \in Nat /\ q * Width <= x /\ q * Width = x - r
  BY <1>1, DivisionLaw
<1>4. Bytes(q) = q * Width /\ Bytes(q) \in Nat
  BY <1>2, BytesLaw DEF Bytes
<1>5. r = 0 => Bytes(q) = x
  BY <1>2, <1>4
<1>6. Width = 1 => q = x /\ r = 0
  BY <1>1
<1>3. \A k \in Nat : Bytes(k) <= x => k <= q
  BY <1>1, DivisionGrows DEF Bytes
<1>7. Bytes(q) <= x
  BY <1>2, <1>4
<1> HIDE DEF q, r
<1> QED
  BY <1>2, <1>3, <1>4, <1>5, <1>6, <1>7 DEF q, r

(* A buffer that is resized keeps what it has room for.                    *)
LEMMA ResizeLaw ==
    ASSUME column \in Column, NEW bytes \in Seq(Nat), NEW elements \in Nat
    PROVE  /\ Resize(bytes, elements) \in Seq(Nat)
           /\ Len(Resize(bytes, elements)) = Bytes(elements)
           /\ DOMAIN Resize(bytes, elements) = 1 .. Bytes(elements)
           /\ \A i \in 1 .. Bytes(elements) :
                 i \in DOMAIN bytes => Resize(bytes, elements)[i] = bytes[i]
<1>1. Bytes(elements) \in Nat
  BY BytesLaw
<1> DEFINE n == Bytes(elements)
           s == [i \in 1 .. n |-> IF i \in DOMAIN bytes THEN bytes[i] ELSE 0]
<1>2. Resize(bytes, elements) = s
  BY DEF Resize
<1>3. n \in Nat
  BY <1>1
<1> HIDE DEF n
<1>4. \A i \in 1 .. n : (IF i \in DOMAIN bytes THEN bytes[i] ELSE 0) \in Nat
  OBVIOUS
<1>5. s \in Seq(Nat) /\ Len(s) = n /\ DOMAIN s = 1 .. n
  BY <1>3, <1>4
<1>6. \A i \in 1 .. n : i \in DOMAIN bytes => s[i] = bytes[i]
  OBVIOUS
<1> QED
  BY <1>2, <1>5, <1>6 DEF n

(* Nothing depends on the column but what the driver does.                 *)
LEMMA SameColumn ==
    ASSUME column' = column
    PROVE  /\ Width' = Width /\ Terminator' = Terminator
           /\ \A n : Bytes(n)' = Bytes(n)
           /\ Short' = Short /\ Plain' = Plain /\ FitsArray' = FitsArray
BY DEF Width, Terminator, Bytes, Short, Plain, FitsArray

(* A call of SQLGetData: what it writes, takes and answers.                *)
LEMMA GetDataLaw ==
    ASSUME TypeInv, NEW bytes \in Seq(Nat), NEW at \in Nat, NEW room \in Nat,
           GetData(bytes, at, room)
    PROVE  /\ ~over
           /\ Rest \in Nat /\ Written(room) \in Nat /\ Written(room) <= Rest
           /\ Fits(room) <=> column.length - taken + Terminator <= room
           /\ Fits(room) => Written(room) = Rest /\ taken' = column.length
           /\ ~Fits(room) /\ room > 0 => Written(room) = room - Terminator
           /\ taken' = taken + Written(room) /\ taken' \in 0 .. column.length
           /\ buffer' \in Seq(Nat) /\ Len(buffer') = Len(bytes)
           /\ DOMAIN buffer' = DOMAIN bytes
           /\ \A i \in DOMAIN bytes : i <= at => buffer'[i] = bytes[i]
           /\ \A i \in DOMAIN bytes : at < i /\ i <= at + Written(room) => buffer'[i] = taken + i - at
           /\ over' \in BOOLEAN /\ (~column.null => (over' <=> Fits(room)))
           /\ indicator' = Reported(room) /\ indicator' \in Int
           /\ reached' = [end |-> at + room, size |-> Len(bytes)]
<1>1. /\ taken \in Nat /\ column.length \in Nat /\ taken <= column.length
      /\ Terminator \in {0, 1} /\ column.null \in BOOLEAN
  BY BytesLaw, SurrogatesAssumption DEF TypeInv, Column
<1>2. Rest = column.length - taken /\ Rest \in Nat
  BY <1>1 DEF Rest
<1>3. /\ Written(room) \in Nat /\ Written(room) <= Rest
      /\ Fits(room) => Written(room) = Rest
      /\ ~Fits(room) /\ room > 0 => Written(room) = room - Terminator
  BY <1>1, <1>2 DEF Written, Fits
<1> DEFINE n == Written(room)
<1>4. /\ ~over
      /\ buffer' = [i \in DOMAIN bytes |->
             IF i \in at + 1 .. at + n THEN taken + i - at
             ELSE IF column.terminated /\ i = at + n + 1 THEN 0 ELSE bytes[i]]
      /\ taken' = taken + n
      /\ over' \in IF column.null THEN BOOLEAN ELSE {Fits(room)}
      /\ indicator' = Reported(room)
      /\ reached' = [end |-> at + room, size |-> Len(bytes)]
  BY DEF GetData
<1>5. n \in Nat
  BY <1>3
<1>6. taken' \in 0 .. column.length /\ (Fits(room) => taken' = column.length)
  BY <1>1, <1>2, <1>3, <1>4, SMTT(30)
<1> HIDE DEF n
<1>7. /\ buffer' \in Seq(Nat) /\ Len(buffer') = Len(bytes) /\ DOMAIN buffer' = DOMAIN bytes
  <2> DEFINE b(i) == IF i \in at + 1 .. at + n THEN taken + i - at
                     ELSE IF column.terminated /\ i = at + n + 1 THEN 0 ELSE bytes[i]
  <2>1. DOMAIN bytes = 1 .. Len(bytes) /\ Len(bytes) \in Nat
    OBVIOUS
  <2>2. \A i \in 1 .. Len(bytes) : b(i) \in Nat
    BY <1>1, <1>5, <2>1
  <2>3. buffer' = [i \in 1 .. Len(bytes) |-> b(i)]
    BY <1>4, <2>1
  <2> HIDE DEF b
  <2> QED
    BY <2>1, <2>2, <2>3
<1>8. /\ \A i \in DOMAIN bytes : i <= at => buffer'[i] = bytes[i]
      /\ \A i \in DOMAIN bytes : at < i /\ i <= at + n => buffer'[i] = taken + i - at
  BY <1>4, <1>5, SMTT(30)
<1>9. (Fits(room) <=> column.length - taken + Terminator <= room)
  BY <1>2 DEF Fits
<1>10. over' \in BOOLEAN /\ (~column.null => (over' <=> Fits(room)))
  <2>1. CASE column.null
    BY <1>4, <2>1
  <2>2. CASE ~column.null
    <3>1. over' = Fits(room)
      BY <1>4, <2>2
    <3>2. over' = (Rest + Terminator <= room)
      BY <3>1 DEF Fits
    <3>3. over' \in BOOLEAN
      BY <3>2
    <3> QED
      BY <2>2, <3>2, <3>3 DEF Fits
  <2> QED
    BY <1>1, <2>1, <2>2
<1>11. indicator' \in Int
  BY <1>2, <1>3, <1>4 DEF Reported, NullData, NoTotal
<1> QED
  BY <1>2, <1>3, <1>4, <1>6, <1>7, <1>8, <1>9, <1>10, <1>11 DEF n

(* What the invariant says of the numbers.                                 *)
LEMMA StateLaw ==
    ASSUME IInv
    PROVE  /\ TypeInv
           /\ column \in Column /\ column.length \in Nat /\ column.null \in BOOLEAN
           /\ column.terminated \in BOOLEAN /\ column.reports \in {"rest", "nothing", "written"}
           /\ taken \in Nat /\ taken <= column.length /\ over \in BOOLEAN
           /\ buffer \in Seq(Nat) /\ total \in Nat /\ indicator \in Int /\ begun \in Nat
           /\ Chunk \in Nat \ {0, 1} /\ Capacity \in Nat \ {0}
           /\ Terminator = IF column.terminated THEN 1 ELSE 0
           /\ column.length % Width = 0 /\ (column.null => column.length = 0)
           /\ NoTotal = -4 /\ NullData = -1
BY SurrogatesAssumption DEF IInv, TypeInv, Column, Terminator, NoTotal, NullData, Width

(* What a call takes, and whether the driver is done.                      *)
LEMMA GetDataTakes ==
    ASSUME TypeInv, NEW bytes \in Seq(Nat), NEW at \in Nat, NEW room \in Nat,
           GetData(bytes, at, room)
    PROVE  /\ ~over /\ Rest = column.length - taken /\ Rest \in Nat
           /\ (Fits(room) <=> column.length - taken + Terminator <= room)
           /\ Fits(room) => taken' = column.length
           /\ ~Fits(room) /\ room > 0 => taken' = taken + room - Terminator
           /\ taken' \in taken .. column.length
           /\ ~column.null => (over' <=> Fits(room))
           /\ over' \in BOOLEAN
<1>1. /\ ~over /\ Rest \in Nat /\ Written(room) \in Nat /\ Written(room) <= Rest
      /\ (Fits(room) <=> column.length - taken + Terminator <= room)
      /\ Fits(room) => Written(room) = Rest /\ taken' = column.length
      /\ ~Fits(room) /\ room > 0 => Written(room) = room - Terminator
      /\ taken' = taken + Written(room) /\ taken' \in 0 .. column.length
      /\ over' \in BOOLEAN /\ (~column.null => (over' <=> Fits(room)))
  BY GetDataLaw
<1>2. taken \in Nat /\ column.length \in Nat /\ Terminator \in {0, 1}
  BY BytesLaw, SurrogatesAssumption DEF TypeInv, Column
<1> QED
  BY <1>1, <1>2 DEF Rest

(* What the driver answers.                                                *)
LEMMA GetDataTells ==
    ASSUME TypeInv, NEW bytes \in Seq(Nat), NEW at \in Nat, NEW room \in Nat, room > 0,
           GetData(bytes, at, room)
    PROVE  /\ indicator' = Reported(room)
           /\ column.null => indicator' = NullData
           /\ ~column.null =>
                 /\ Fits(room) => indicator' = column.length - taken
                 /\ ~Fits(room) /\ column.reports = "rest" => indicator' = column.length - taken
                 /\ ~Fits(room) /\ column.reports = "nothing" => indicator' = NoTotal
                 /\ ~Fits(room) /\ column.reports = "written" => indicator' = room - Terminator
<1>1. indicator' = Reported(room) /\ (~Fits(room) => Written(room) = room - Terminator)
  BY GetDataLaw
<1>2. Rest = column.length - taken
  BY DEF Rest
<1>3. column.null \in BOOLEAN /\ Fits(room) \in BOOLEAN
  BY DEF TypeInv, Column, Fits
<1>4. "rest" # "nothing" /\ "rest" # "written" /\ "nothing" # "written"
  OBVIOUS
<1> QED
  BY <1>1, <1>2, <1>3, <1>4 DEF Reported

(* A call does not write behind the end of the buffer.                     *)
LEMMA GetDataInside ==
    ASSUME TypeInv, NEW bytes \in Seq(Nat), NEW at \in Nat, NEW room \in Nat,
           GetData(bytes, at, room), at + room <= Len(bytes)
    PROVE  WritesInsideBuffer'
<1>1. reached' = [end |-> at + room, size |-> Len(bytes)]
  BY DEF GetData
<1>2. reached'.end = at + room /\ reached'.size = Len(bytes)
  BY <1>1
<1> QED
  BY <1>2 DEF WritesInsideBuffer

(* A call keeps the types.                                                 *)
LEMMA GetDataTypes ==
    ASSUME TypeInv, NEW bytes \in Seq(Nat), NEW at \in Nat, NEW room \in Nat,
           GetData(bytes, at, room), column' = column, begun' = begun, total' \in Nat,
           phase' \in {"new", "first", "chunks", "vector", "array", "threw"}
    PROVE  TypeInv' /\ Len(buffer') = Len(bytes)
<1>1. /\ taken' \in 0 .. column.length /\ over' \in BOOLEAN /\ buffer' \in Seq(Nat)
      /\ Len(buffer') = Len(bytes)
      /\ indicator' \in Int /\ reached' = [end |-> at + room, size |-> Len(bytes)]
  BY GetDataLaw
<1>2. at + room \in Nat /\ Len(bytes) \in Nat
  OBVIOUS
<1>3. reached' \in [end : Nat, size : Nat]
  BY <1>1, <1>2
<1>4. taken' \in 0 .. column'.length
  BY <1>1
<1>5. /\ column' \in Column /\ column'.length % column'.width = 0
      /\ column'.null => column'.length = 0
      /\ begun' \in Nat
  BY DEF TypeInv
<1> QED
  BY <1>1, <1>3, <1>4, <1>5 DEF TypeInv

(* A call that writes behind what has been taken goes on where it ended.   *)
LEMMA GetDataGoesOn ==
    ASSUME TypeInv, NEW bytes \in Seq(Nat), NEW room \in Nat,
           GetData(bytes, taken, room), taken + room <= Len(bytes),
           \A i \in 1 .. taken : i \in DOMAIN bytes /\ bytes[i] = i
    PROVE  Prefix'
<1>1. taken \in Nat /\ column.length \in Nat /\ Terminator \in {0, 1}
  BY BytesLaw, SurrogatesAssumption DEF TypeInv, Column
<1> DEFINE n == Written(room)
<1>2. /\ n \in Nat /\ taken' = taken + n /\ DOMAIN buffer' = DOMAIN bytes
      /\ \A i \in DOMAIN bytes : i <= taken => buffer'[i] = bytes[i]
      /\ \A i \in DOMAIN bytes : taken < i /\ i <= taken + n => buffer'[i] = taken + i - taken
  BY <1>1, GetDataLaw
<1>3. n <= room
  <2>1. /\ Rest \in Nat /\ n <= Rest
        /\ (Fits(room) => Rest <= room) /\ (~Fits(room) /\ room > 0 => n = room - Terminator)
    BY <1>1, GetDataLaw DEF Rest
  <2>2. n = 0 \/ Fits(room) \/ room > 0
    BY <1>1, <2>1 DEF Written
  <2> QED
    BY <1>1, <1>2, <2>1, <2>2
<1> HIDE DEF n
<1>4. DOMAIN bytes = 1 .. Len(bytes) /\ Len(bytes) \in Nat
  OBVIOUS
<1> SUFFICES ASSUME NEW i \in 1 .. taken' PROVE i \in DOMAIN buffer' /\ buffer'[i] = i
  BY DEF Prefix
<1>5. i \in Nat \ {0} /\ i <= taken + n /\ i <= Len(bytes)
  BY <1>1, <1>2, <1>3, <1>4
<1>6. i \in DOMAIN bytes
  BY <1>4, <1>5
<1>7. CASE i <= taken
  BY <1>1, <1>2, <1>5, <1>6, <1>7
<1>8. CASE i > taken
  <2>1. buffer'[i] = taken + i - taken
    BY <1>2, <1>5, <1>6, <1>8
  <2> QED
    BY <1>1, <1>2, <1>5, <1>6, <2>1
<1> QED
  BY <1>1, <1>5, <1>7, <1>8
-----------------------------------------------------------------------------
(* The steps.                                                              *)

(* A buffer not yet written is a sequence.                                 *)
LEMMA EmptyBuffer == <<>> \in Seq(Nat) /\ Len(<<>>) = 0
OBVIOUS

LEMMA InitHolds == Init => IInv
<1> SUFFICES ASSUME Init PROVE IInv
  OBVIOUS
<1>1. /\ column \in Column /\ column.length % column.width = 0 /\ (column.null => column.length = 0)
      /\ taken = 0 /\ over = FALSE /\ phase = "new" /\ buffer = <<>> /\ total = 0
      /\ indicator = 0 /\ reached = [end |-> 0, size |-> 0] /\ asserted = TRUE /\ begun = 0
  BY DEF Init
<1>2. column.length \in Nat
  BY <1>1, SurrogatesAssumption DEF Column
<1>3. TypeInv
  <2>1. taken \in 0 .. column.length
    BY <1>1, <1>2
  <2>2. reached \in [end : Nat, size : Nat]
    BY <1>1
  <2>3. buffer \in Seq(Nat)
    BY <1>1, EmptyBuffer
  <2>4. /\ column \in Column /\ column.length % column.width = 0
        /\ column.null => column.length = 0
    BY <1>1
  <2>6. over \in BOOLEAN
    BY <1>1
  <2>7. total \in Nat /\ indicator \in Int /\ begun \in Nat
    BY <1>1
  <2>5. phase \in {"new", "first", "chunks", "vector", "array", "threw"}
    BY <1>1
  <2> QED
    BY <2>1, <2>2, <2>3, <2>4, <2>5, <2>6, <2>7 DEF TypeInv
<1>4. reached.end = 0 /\ reached.size = 0
  BY <1>1
<1> QED
  BY <1>1, <1>3, <1>4 DEF IInv, LoopInv, WritesInsideBuffer, NumbersInv, AssertionsHold, FirstInv,
                          ChunksInv, EndInv

(* The first call of SurrogateVector's constructor.                        *)
LEMMA VectorStartKeeps == IInv /\ VectorStart => IInv'
<1> SUFFICES ASSUME IInv, VectorStart PROVE IInv'
  OBVIOUS
<1> DEFINE bytes == Resize(<<>>, Chunk)
           room == Bytes(Chunk)
<1>1. /\ phase = "new" /\ phase' = "first" /\ column' = column /\ total' = total
      /\ asserted' = asserted /\ begun' = begun /\ GetData(bytes, 0, room)
  BY DEF VectorStart
<1>2. taken = begun /\ total = 0
  BY <1>1 DEF IInv, LoopInv
<1>3. /\ bytes \in Seq(Nat) /\ Len(bytes) = room /\ room \in Nat \ {0, 1}
  BY StateLaw, EmptyBuffer, ResizeLaw, BytesLaw
<1>4. Width' = Width /\ Terminator' = Terminator /\ room' = room
  BY <1>1, SameColumn
<1> HIDE DEF bytes, room
<1>5. /\ (Fits(room) <=> column.length - taken + Terminator <= room)
      /\ Fits(room) => taken' = column.length
      /\ ~Fits(room) => taken' = taken + room - Terminator
      /\ ~column.null => (over' <=> Fits(room))
  <2>1. TypeInv /\ 0 \in Nat /\ room \in Nat /\ room > 0 /\ bytes \in Seq(Nat)
        /\ GetData(bytes, 0, room)
    BY <1>1, <1>3, StateLaw
  <2> QED
    BY <2>1, GetDataTakes
<1>6. /\ column.null => indicator' = NullData
      /\ ~column.null /\ Fits(room) => indicator' = column.length - taken
      /\ ~column.null /\ ~Fits(room) =>
            /\ column.reports = "rest" => indicator' = column.length - taken
            /\ column.reports = "nothing" => indicator' = NoTotal
            /\ column.reports = "written" => indicator' = room - Terminator
  <2>1. TypeInv /\ 0 \in Nat /\ room \in Nat /\ room > 0 /\ bytes \in Seq(Nat)
        /\ GetData(bytes, 0, room)
    BY <1>1, <1>3, StateLaw
  <2> QED
    BY <2>1, GetDataTells
<1>7. TypeInv'
  BY <1>1, <1>2, <1>3, StateLaw, GetDataTypes
<1>8. LoopInv'
  <2>1. IF column.null THEN indicator' = NullData ELSE indicator' \in Nat \cup {NoTotal}
    BY <1>3, <1>6, StateLaw, SMTT(30)
  <2>2. indicator' = NoTotal => column.reports = "nothing"
    <3> SUFFICES ASSUME column.reports # "nothing" PROVE indicator' # NoTotal
      OBVIOUS
    <3>1. column.length - taken \in Nat /\ room - Terminator \in Nat
      <4>1. taken \in Nat /\ column.length \in Nat /\ taken <= column.length /\ Terminator \in {0, 1}
        BY StateLaw
      <4> QED
        BY <1>3, <4>1
    <3>2. column.reports = "rest" \/ column.reports = "written"
      BY StateLaw
    <3>3. indicator' \in {NullData, column.length - taken, room - Terminator}
      BY <1>6, <3>2
    <3> QED
      BY <3>1, <3>3 DEF NoTotal, NullData
  <2> QED
    BY <1>1, <1>2, <2>1, <2>2 DEF LoopInv
<1>9. WritesInsideBuffer'
  BY <1>1, <1>3, StateLaw, GetDataInside
<1>10. AssertionsHold' /\ ChunksInv' /\ EndInv'
  BY <1>1, <1>4 DEF AssertionsHold, ChunksInv, EndInv, IInv
<1>11. NumbersInv'
  <2> SUFFICES ASSUME ~column.terminated, Width = 1
               PROVE  /\ indicator' > Chunk => column.length - taken' = indicator' - Chunk
                      /\ indicator' = Chunk /\ column.reports = "rest" => over'
    BY <1>1, <1>4 DEF NumbersInv
  <2>1. room = Chunk /\ Terminator = 0
    BY StateLaw, BytesLaw DEF room
  <2>2. CASE column.null
    BY <1>6, <2>2, StateLaw
  <2>3. CASE ~column.null /\ Fits(room)
    BY <1>5, <1>6, <2>1, <2>3, StateLaw
  <2>4. CASE ~column.null /\ ~Fits(room)
    <3>1. taken' = taken + Chunk /\ column.length - taken > Chunk
      <4>1. taken \in Nat /\ column.length \in Nat /\ Chunk \in Nat
        BY StateLaw
      <4>2. taken' = taken + room - Terminator /\ ~(column.length - taken + Terminator <= room)
        BY <1>5, <2>4
      <4> QED
        BY <2>1, <4>1, <4>2
    <3>2. CASE column.reports = "rest"
      BY <1>6, <2>4, <3>1, <3>2, StateLaw
    <3>3. CASE column.reports = "nothing"
      BY <1>6, <2>4, <3>3, StateLaw
    <3>4. CASE column.reports = "written"
      BY <1>6, <2>1, <2>4, <3>4, StateLaw
    <3> QED
      BY <3>2, <3>3, <3>4, StateLaw
  <2> QED
    BY <2>2, <2>3, <2>4, StateLaw
<1>12. FirstInv'
  <2> SUFFICES ASSUME begun = 0
               PROVE  /\ Prefix'
                      /\ \/ /\ column.length + Terminator <= room
                            /\ taken' = column.length
                            /\ indicator' = IF column.null THEN NullData ELSE column.length
                            /\ ~column.null => over'
                         \/ /\ column.length + Terminator > room
                            /\ taken' = room - Terminator
                            /\ ~column.null /\ ~over'
                            /\ indicator' = CASE column.reports = "rest"    -> column.length
                                              [] column.reports = "nothing" -> NoTotal
                                              [] OTHER                      -> taken'
    BY <1>1, <1>4 DEF FirstInv, room
  <2>1. taken = 0 /\ Terminator \in {0, 1}
    BY <1>2, StateLaw
  <2>2. Prefix'
    <3>1. GetData(bytes, taken, room) /\ taken + room <= Len(bytes)
      BY <1>1, <1>3, <2>1
    <3>2. \A i \in 1 .. taken : i \in DOMAIN bytes /\ bytes[i] = i
      BY <2>1
    <3> QED
      BY <1>3, <3>1, <3>2, StateLaw, GetDataGoesOn
  <2>3. CASE Fits(room)
    BY <1>3, <1>5, <1>6, <2>1, <2>2, <2>3, StateLaw
  <2>4. CASE ~Fits(room)
    <3>1. column.length + Terminator > room /\ taken' = room - Terminator
      BY <1>3, <1>5, <2>1, <2>4, StateLaw, SMTT(30)
    <3>2. ~column.null
      <4>1. column.length \in Nat /\ (column.null => column.length = 0)
        BY StateLaw
      <4> QED
        BY <1>3, <2>1, <3>1, <4>1
    <3>3. ~over'
      BY <1>5, <2>4, <3>2
    <3>4. CASE column.reports = "rest"
      BY <1>6, <2>1, <2>2, <2>4, <3>1, <3>2, <3>3, <3>4, StateLaw
    <3>5. CASE column.reports = "nothing"
      BY <1>6, <2>1, <2>2, <2>4, <3>1, <3>2, <3>3, <3>5, StateLaw
    <3>6. CASE column.reports = "written"
      BY <1>6, <2>1, <2>2, <2>4, <3>1, <3>2, <3>3, <3>6, StateLaw
    <3> QED
      BY <3>4, <3>5, <3>6, StateLaw
  <2> QED
    BY <2>3, <2>4
<1> QED
  BY <1>7, <1>8, <1>9, <1>10, <1>11, <1>12 DEF IInv

(* Surrogate<T[N]>.                                                        *)
LEMMA ArrayReadKeeps == IInv /\ ArrayRead => IInv'
<1> SUFFICES ASSUME IInv, ArrayRead PROVE IInv'
  OBVIOUS
<1> DEFINE bytes == Resize(<<>>, Capacity)
           room == Bytes(Capacity)
<1>1. /\ phase = "new" /\ phase' \in {"threw", "array"} /\ column' = column /\ total' = total
      /\ asserted' = asserted /\ begun' = begun /\ GetData(bytes, 0, room)
  BY DEF ArrayRead
<1>2. taken = begun /\ total = 0
  BY <1>1 DEF IInv, LoopInv
<1>3. /\ bytes \in Seq(Nat) /\ Len(bytes) = room /\ room \in Nat \ {0}
  BY StateLaw, EmptyBuffer, ResizeLaw, BytesLaw
<1>4. Width' = Width /\ FitsArray' = FitsArray
  BY <1>1, SameColumn
<1> HIDE DEF bytes
<1>5. TypeInv'
  BY <1>1, <1>2, <1>3, StateLaw, GetDataTypes
<1>6. WritesInsideBuffer'
  <2> HIDE DEF room
  <2> QED
    BY <1>1, <1>3, StateLaw, GetDataInside
<1>7. LoopInv' /\ NumbersInv' /\ AssertionsHold' /\ FirstInv' /\ ChunksInv'
  BY <1>1, <1>4 DEF LoopInv, NumbersInv, AssertionsHold, FirstInv, ChunksInv, IInv
<1>8. EndInv'
  <2> SUFFICES ASSUME begun = 0, FitsArray
               PROVE  /\ indicator' = IF column.null THEN NullData ELSE column.length
                      /\ taken' = column.length /\ Prefix'
    BY <1>1, <1>4 DEF EndInv
  <2>1. taken = 0 /\ column.length + Terminator <= room
    BY <1>2 DEF FitsArray
  <2> HIDE DEF room
  <2>2. /\ Fits(room) /\ taken' = column.length
    BY <1>1, <1>3, <2>1, StateLaw, GetDataTakes
  <2>3. /\ column.null => indicator' = NullData
        /\ ~column.null => indicator' = column.length - taken
    BY <1>1, <1>3, <2>2, StateLaw, GetDataTells
  <2>4. Prefix'
    <3>1. GetData(bytes, taken, room) /\ taken + room <= Len(bytes)
      BY <1>1, <1>3, <2>1
    <3>2. \A i \in 1 .. taken : i \in DOMAIN bytes /\ bytes[i] = i
      BY <2>1
    <3> QED
      BY <1>3, <3>1, <3>2, StateLaw, GetDataGoesOn
  <2> QED
    BY <2>1, <2>2, <2>3, <2>4, StateLaw
<1> QED
  BY <1>5, <1>6, <1>7, <1>8 DEF IInv
(* The rest in one go: it begins where the first call has stopped writing. *)
LEMMA VectorRestKeeps == IInv /\ VectorRest => IInv'
<1> SUFFICES ASSUME IInv, VectorRest PROVE IInv'
  OBVIOUS
<1> DEFINE elements == indicator \div Width
           room == Bytes(elements - Chunk)
           bytes == Resize(buffer, elements)
           at == Bytes(Chunk)
<1>1. /\ phase = "first" /\ indicator > at /\ phase' = "vector" /\ column' = column
      /\ begun' = begun /\ total' = elements /\ GetData(bytes, at, room)
      /\ asserted' = (asserted /\ /\ indicator % Width = 0
                                  /\ Reported(room) % Width = 0
                                  /\ Reported(room) \div Width + Chunk = elements)
  BY DEF VectorRest, NeedsRest, Check
<1>2. at \in Nat \ {0, 1} /\ indicator \in Nat
  <2>1. at \in Nat \ {0, 1}
    BY StateLaw, BytesLaw
  <2> HIDE DEF at
  <2> QED
    BY <1>1, <2>1, StateLaw
<1>3. /\ elements \in Nat /\ Bytes(elements) \in Nat /\ Bytes(elements) <= indicator
      /\ Chunk <= elements
      /\ indicator % Width = 0 => Bytes(elements) = indicator
      /\ Width = 1 => elements = indicator /\ indicator % Width = 0
  <2>1. Chunk \in Nat /\ Bytes(Chunk) <= indicator
    <3>1. at <= indicator
      <4> HIDE DEF at
      <4> QED
        BY <1>1, <1>2
    <3> QED
      BY <3>1, StateLaw
  <2>2. column \in Column
    BY StateLaw
  <2> QED
    BY <1>2, <2>1, <2>2, ElementsLaw
<1> HIDE DEF elements
<1>4. room \in Nat /\ at + room = Bytes(elements)
  <2>1. Chunk \in Nat /\ column \in Column /\ elements - Chunk \in Nat
    BY <1>3, StateLaw
  <2>2. room \in Nat /\ room = Bytes(elements) - at
    BY <1>3, <2>1, BytesLaw
  <2> HIDE DEF room, at
  <2> QED
    BY <1>2, <1>3, <2>2
<1>5. /\ bytes \in Seq(Nat) /\ Len(bytes) = Bytes(elements) /\ DOMAIN bytes = 1 .. Bytes(elements)
      /\ \A i \in 1 .. Bytes(elements) : i \in DOMAIN buffer => bytes[i] = buffer[i]
  BY <1>3, StateLaw, ResizeLaw
<1>6. Width' = Width /\ Short' = Short /\ Plain' = Plain
  BY <1>1, SameColumn
<1> HIDE DEF room, bytes, at
<1>7. TypeInv' /\ Len(buffer') = Bytes(elements)
  BY <1>1, <1>2, <1>3, <1>4, <1>5, StateLaw, GetDataTypes
<1>8. WritesInsideBuffer'
  <2>1. at + room <= Len(bytes)
    BY <1>3, <1>4, <1>5
  <2> QED
    BY <1>1, <1>2, <1>4, <1>5, <2>1, StateLaw, GetDataInside
<1>9. LoopInv' /\ NumbersInv' /\ FirstInv' /\ ChunksInv'
  BY <1>1, <1>6 DEF LoopInv, NumbersInv, FirstInv, ChunksInv
<1>10. ~column.null
  BY <1>1, <1>2, StateLaw DEF IInv, LoopInv
<1>11. /\ (Fits(room) <=> column.length - taken + Terminator <= room)
       /\ Fits(room) => taken' = column.length
  <2>1. TypeInv /\ at \in Nat
    BY <1>2, StateLaw
  <2> QED
    BY <1>1, <1>4, <1>5, <2>1, GetDataTakes
<1>12. /\ Fits(room) => Reported(room) = column.length - taken
       /\ indicator' = Reported(room)
  <2>1. TypeInv /\ at \in Nat
    BY <1>2, StateLaw
  <2>2. indicator' = Reported(room)
    BY <1>1, <1>4, <1>5, <2>1, GetDataLaw
  <2> QED
    BY <1>10, <2>2 DEF Reported, Rest
<1>13. AssertionsHold'
  <2> SUFFICES ASSUME ~column.terminated, Width = 1 PROVE asserted'
    BY <1>1, <1>6 DEF AssertionsHold
  <2>1. at = Chunk /\ Terminator = 0 /\ elements = indicator /\ indicator % Width = 0
        /\ Bytes(elements) = indicator /\ Chunk \in Nat
    BY <1>3, StateLaw, BytesLaw DEF at
  <2>2. column.length - taken = indicator - Chunk
    BY <1>1, <2>1 DEF IInv, NumbersInv
  <2>3. room = indicator - Chunk
    BY <1>2, <1>4, <2>1
  <2>4. column.length - taken \in Nat
    BY StateLaw
  <2>5. Reported(room) = room
    BY <1>11, <1>12, <2>1, <2>2, <2>3, <2>4
  <2>6. Reported(room) % Width = 0 /\ Reported(room) \div Width = room
    BY <1>4, <2>5
  <2>7. Reported(room) \div Width + Chunk = elements
    BY <1>2, <2>1, <2>3, <2>6
  <2> QED
    BY <1>1, <2>1, <2>6, <2>7 DEF IInv, AssertionsHold
<1>14. EndInv'
  <2> SUFFICES ASSUME begun = 0, Short \/ Plain
               PROVE  /\ (indicator' = NullData) = column.null
                      /\ Len(buffer') = column.length
                      /\ \A i \in 1 .. column.length : buffer'[i] = i
    BY <1>1, <1>6 DEF EndInv
  <2>1. /\ Prefix /\ indicator = column.length /\ column.length + Terminator > at
        /\ taken = at - Terminator
    <3>1. /\ Prefix
          /\ \/ column.length + Terminator <= at /\ indicator = column.length
             \/ /\ column.length + Terminator > at /\ taken = at - Terminator
                /\ indicator = CASE column.reports = "rest"    -> column.length
                                 [] column.reports = "nothing" -> NoTotal
                                 [] OTHER                      -> taken
      BY <1>1, <1>10 DEF IInv, FirstInv, at
    <3>2. at \in Nat /\ indicator > at /\ Terminator \in {0, 1} /\ column.length \in Nat /\ NoTotal = -4
      BY <1>1, <1>2, StateLaw
    <3>3. ~(column.length + Terminator <= at /\ indicator = column.length)
      BY <3>2
    <3>4. taken = at - Terminator /\ column.length + Terminator > at
      BY <3>1, <3>3
    <3>5. indicator # taken /\ indicator # NoTotal
      BY <3>2, <3>4
    <3>6. indicator = column.length
      BY <3>1, <3>3, <3>5
    <3> QED
      BY <3>1, <3>4, <3>6
  <2>2. ~column.terminated /\ Terminator = 0
    <3>1. ~Short
      BY <1>2, <2>1, StateLaw DEF Short, at
    <3> QED
      BY <3>1, StateLaw DEF Plain
  <2>3. Bytes(elements) = column.length /\ taken = at
    BY <1>2, <1>3, <2>1, <2>2, StateLaw
  <2>4. column.length - taken = room /\ Fits(room)
    <3>1. column.length \in Nat /\ taken \in Nat
      BY StateLaw
    <3> QED
      BY <1>4, <1>11, <2>2, <2>3, <3>1
  <2>5. indicator' # NullData
    BY <1>4, <1>12, <2>4, StateLaw
  <2>6. Prefix' /\ taken' = column.length
    <3>1. GetData(bytes, taken, room) /\ taken + room <= Len(bytes)
      BY <1>1, <1>2, <1>4, <1>5, <2>3
    <3>2. ASSUME NEW i \in 1 .. taken PROVE i \in DOMAIN bytes /\ bytes[i] = i
      <4>1. i \in DOMAIN buffer /\ buffer[i] = i
        BY <2>1 DEF Prefix
      <4>2. i \in 1 .. Bytes(elements)
        BY <2>3, StateLaw
      <4> QED
        BY <1>5, <4>1, <4>2
    <3>3. Prefix'
      BY <1>4, <1>5, <3>1, <3>2, StateLaw, GetDataGoesOn
    <3> QED
      BY <1>11, <2>4, <3>3
  <2>7. (indicator' = NullData) = column.null
    BY <1>10, <2>5, StateLaw
  <2> QED
    BY <1>7, <2>3, <2>6, <2>7 DEF Prefix
<1> QED
  BY <1>7, <1>8, <1>9, <1>13, <1>14 DEF IInv
(* A null makes an empty vector.                                           *)
LEMMA VectorNullKeeps == IInv /\ VectorNull => IInv'
<1> SUFFICES ASSUME IInv, VectorNull PROVE IInv'
  OBVIOUS
<1>1. /\ phase = "first" /\ indicator = NullData /\ phase' = "vector" /\ buffer' = <<>>
      /\ column' = column /\ taken' = taken /\ over' = over /\ total' = total
      /\ indicator' = indicator /\ reached' = reached /\ asserted' = asserted /\ begun' = begun
  BY DEF VectorNull, driver
<1>2. Width' = Width
  BY <1>1, SameColumn
<1>3. column.null /\ column.length = 0
  BY <1>1, StateLaw DEF IInv, LoopInv
<1>4. TypeInv'
  BY <1>1, EmptyBuffer DEF IInv, TypeInv
<1>5. LoopInv' /\ WritesInsideBuffer' /\ NumbersInv' /\ AssertionsHold' /\ FirstInv' /\ ChunksInv'
  BY <1>1, <1>2 DEF IInv, LoopInv, WritesInsideBuffer, NumbersInv, AssertionsHold, FirstInv, ChunksInv
<1>6. EndInv'
  <2>1. (indicator' = NullData) = column'.null
    BY <1>1, <1>3
  <2>2. Len(buffer') = column'.length
    BY <1>1, <1>3, EmptyBuffer
  <2>3. \A i \in 1 .. column'.length : buffer'[i] = i
    BY <1>1, <1>3
  <2> QED
    BY <1>1, <1>3, <2>1, <2>2, <2>3 DEF EndInv
<1> QED
  BY <1>4, <1>5, <1>6 DEF IInv

(* What the end of the constructor leaves alone.                           *)
LEMMA FinishKeeps ==
    ASSUME IInv, NEW elements \in Nat, total' = elements, buffer' = Resize(buffer, elements),
           phase' = "vector", column' = column, taken' = taken, over' = over,
           indicator' \in Int, reached' = reached, begun' = begun
    PROVE  /\ TypeInv' /\ LoopInv' /\ WritesInsideBuffer' /\ NumbersInv' /\ FirstInv' /\ ChunksInv'
           /\ Width' = Width /\ Short' = Short /\ Plain' = Plain
<1>1. Width' = Width /\ Short' = Short /\ Plain' = Plain
  BY SameColumn
<1>2. buffer' \in Seq(Nat)
  BY StateLaw, ResizeLaw
<1>3. TypeInv'
  BY <1>2 DEF IInv, TypeInv
<1>4. LoopInv' /\ WritesInsideBuffer' /\ NumbersInv' /\ FirstInv' /\ ChunksInv'
  BY <1>1 DEF IInv, LoopInv, WritesInsideBuffer, NumbersInv, FirstInv, ChunksInv
<1> QED
  BY <1>1, <1>3, <1>4

(* A buffer that is cut to the whole value holds it.                       *)
LEMMA ResizedIsWhole ==
    ASSUME IInv, NEW elements \in Nat, buffer' = Resize(buffer, elements),
           Prefix, taken = column.length, Bytes(elements) = column.length
    PROVE  Len(buffer') = column.length /\ \A i \in 1 .. column.length : buffer'[i] = i
<1>1. /\ Len(buffer') = column.length
      /\ \A i \in 1 .. column.length : i \in DOMAIN buffer => buffer'[i] = buffer[i]
  <2>1. column \in Column /\ buffer \in Seq(Nat)
    BY StateLaw
  <2>2. /\ Len(Resize(buffer, elements)) = Bytes(elements)
        /\ \A i \in 1 .. Bytes(elements) :
              i \in DOMAIN buffer => Resize(buffer, elements)[i] = buffer[i]
    BY <2>1, ResizeLaw
  <2> QED
    BY <2>2
<1>2. \A i \in 1 .. column.length : i \in DOMAIN buffer /\ buffer[i] = i
  BY DEF Prefix
<1> QED
  BY <1>1, <1>2

(* Everything has come at once.                                            *)
LEMMA VectorShortKeeps == IInv /\ VectorShort => IInv'
<1> SUFFICES ASSUME IInv, VectorShort PROVE IInv'
  OBVIOUS
<1> DEFINE elements == indicator \div Width
<1>1. /\ phase = "first" /\ indicator \in 0 .. Bytes(Chunk) - 1
      /\ asserted' = (asserted /\ indicator % Width = 0)
      /\ total' = elements /\ buffer' = Resize(buffer, elements) /\ phase' = "vector"
      /\ column' = column /\ taken' = taken /\ over' = over
      /\ indicator' = indicator /\ reached' = reached /\ begun' = begun
  BY DEF VectorShort, Check, Finish, driver
<1>2. indicator \in Nat /\ Bytes(Chunk) \in Nat /\ indicator < Bytes(Chunk)
  BY <1>1, StateLaw, BytesLaw
<1>3. /\ elements \in Nat /\ (indicator % Width = 0 => Bytes(elements) = indicator)
      /\ Width = 1 => indicator % Width = 0
  BY <1>2, StateLaw, ElementsLaw
<1>4. /\ TypeInv' /\ LoopInv' /\ WritesInsideBuffer' /\ NumbersInv' /\ FirstInv' /\ ChunksInv'
      /\ Width' = Width /\ Short' = Short /\ Plain' = Plain
  <2> HIDE DEF elements
  <2> QED
    BY <1>1, <1>2, <1>3, FinishKeeps
<1>5. AssertionsHold'
  BY <1>1, <1>3, <1>4 DEF AssertionsHold, IInv
<1> HIDE DEF elements
<1>6. EndInv'
  <2> SUFFICES ASSUME begun = 0, Short \/ Plain
               PROVE  /\ (indicator = NullData) = column.null
                      /\ Len(buffer') = column.length
                      /\ \A i \in 1 .. column.length : buffer'[i] = i
    BY <1>1, <1>4 DEF EndInv
  <2>1. ~column.null /\ indicator # NullData /\ indicator # NoTotal
    BY <1>1, <1>2, StateLaw DEF IInv, LoopInv
  <2>2. /\ Prefix
        /\ \/ taken = column.length /\ indicator = column.length
           \/ /\ column.length + Terminator > Bytes(Chunk) /\ taken = Bytes(Chunk) - Terminator
              /\ indicator \in {column.length, NoTotal, taken}
    BY <1>1, <2>1 DEF IInv, FirstInv
  <2>3. taken = column.length /\ indicator = column.length
    <3>1. /\ column.length \in Nat /\ column.terminated \in BOOLEAN
          /\ Terminator = IF column.terminated THEN 1 ELSE 0
      BY StateLaw
    <3>2. ~(column.length + Terminator > Bytes(Chunk) /\ taken = Bytes(Chunk) - Terminator
            /\ indicator \in {column.length, NoTotal, taken})
      <4>1. CASE column.terminated
        BY <1>2, <2>1, <3>1, <4>1 DEF Short, Plain
      <4>2. CASE ~column.terminated
        BY <1>2, <2>1, <3>1, <4>2
      <4> QED
        BY <3>1, <4>1, <4>2
    <3> QED
      BY <2>2, <3>2
  <2>4. Bytes(elements) = column.length
    <3>1. indicator % Width = 0
      BY <2>3, StateLaw
    <3> QED
      BY <1>3, <2>3, <3>1
  <2>5. Len(buffer') = column.length /\ \A i \in 1 .. column.length : buffer'[i] = i
    BY <1>1, <1>3, <2>2, <2>3, <2>4, ResizedIsWhole
  <2>6. (indicator = NullData) = column.null
    BY <2>1, StateLaw
  <2> QED
    BY <2>5, <2>6
<1> QED
  BY <1>4, <1>5, <1>6 DEF IInv
(* A chunk is collected only if it is full; then the value is no null.     *)
LEMMA ChunkLaw ==
    ASSUME IInv, ReadsByChunks
    PROVE  /\ ~column.null /\ Got \in Nat /\ Bytes(Chunk) \in Nat \ {0, 1}
           /\ Collected \in Nat /\ Collected = total + Got \div Width /\ Got \div Width \in Nat
           /\ phase \in {"first", "chunks"}
           /\ phase = "first" => /\ indicator \in {NoTotal, Bytes(Chunk)} /\ Got = Bytes(Chunk)
                                 /\ total = 0
           /\ Width = 1 => Got \div Width = Got /\ Got % Width = 0 /\ Bytes(Chunk) = Chunk
           /\ Got % Width = 0 => Bytes(Got \div Width) = Got
           /\ indicator # NullData
<1>1. Bytes(Chunk) \in Nat \ {0, 1}
  BY StateLaw, BytesLaw
<1>2. /\ ~column.null /\ Got \in Nat /\ indicator # NullData
      /\ phase \in {"first", "chunks"}
      /\ phase = "first" => /\ indicator \in {NoTotal, Bytes(Chunk)} /\ Got = Bytes(Chunk)
                            /\ total = 0
  <2>1. CASE phase = "first"
    <3>1. indicator \in {NoTotal, Bytes(Chunk)} /\ total = 0
      BY <2>1 DEF ReadsByChunks, IInv, LoopInv
    <3>2. indicator # NullData
      BY <1>1, <3>1 DEF NoTotal, NullData
    <3>3. ~column.null
      BY <2>1, <3>2, StateLaw DEF IInv, LoopInv
    <3>4. Got = Bytes(Chunk)
      BY <3>1 DEF Got
    <3> QED
      BY <1>1, <2>1, <3>1, <3>2, <3>3, <3>4
  <2>2. CASE phase = "chunks"
    <3>1. ~column.null /\ indicator \in Nat \cup {NoTotal}
      BY <2>2 DEF IInv, LoopInv
    <3>2. indicator # NullData
      BY <3>1 DEF NoTotal, NullData
    <3>3. Got \in Nat
      BY <1>1, <3>1 DEF Got
    <3> QED
      BY <2>2, <3>1, <3>2, <3>3
  <2> QED
    BY <2>1, <2>2 DEF ReadsByChunks
<1> DEFINE g == Got
<1>3. /\ g \div Width \in Nat
      /\ g % Width = 0 => Bytes(g \div Width) = g
      /\ Width = 1 => g \div Width = g /\ g % Width = 0
  <2>1. g \in Nat /\ column \in Column
    BY <1>2, StateLaw
  <2> HIDE DEF g
  <2> QED
    BY <2>1, ElementsLaw
<1>4. Width = 1 => Bytes(Chunk) = Chunk
  BY StateLaw, BytesLaw
<1>5. Collected = total + g \div Width
  BY DEF Collected
<1> DEFINE q == g \div Width
<1>6. Collected \in Nat
  <2>1. q \in Nat /\ Collected = total + q /\ total \in Nat
    BY <1>3, <1>5, StateLaw
  <2> HIDE DEF q
  <2> QED
    BY <2>1
<1> QED
  BY <1>1, <1>2, <1>3, <1>4, <1>5, <1>6

(* What has been taken is what will be collected, while there is more.     *)
LEMMA CollectedLaw ==
    ASSUME IInv, NeedsChunk, ~over, begun = 0, Short \/ Plain
    PROVE  /\ Prefix /\ taken = Collected
           /\ Width = 1 /\ ~column.terminated /\ column.reports # "rest"
<1>1. /\ ReadsByChunks /\ Got = Bytes(Chunk)
  BY DEF NeedsChunk
<1>2. CASE phase = "first"
  <2>1. /\ indicator \in {NoTotal, Bytes(Chunk)} /\ total = 0 /\ ~column.null
        /\ Bytes(Chunk) \in Nat
    BY <1>1, <1>2, ChunkLaw
  <2>2. /\ Prefix /\ column.length + Terminator > Bytes(Chunk) /\ taken = Bytes(Chunk) - Terminator
        /\ column.reports = "rest" => indicator = column.length
    BY <1>2, <2>1 DEF IInv, FirstInv
  <2>3. /\ column.length \in Nat /\ Terminator = (IF column.terminated THEN 1 ELSE 0) /\ NoTotal = -4
    BY StateLaw
  <2>4. ~column.terminated
    BY <2>1, <2>2, <2>3 DEF Short, Plain
  <2>5. column.reports # "rest"
    BY <2>1, <2>2, <2>3, <2>4
  <2>6. Width = 1
    BY <2>1, <2>2, <2>3, <2>5 DEF Short, Plain
  <2>7. Collected = Bytes(Chunk)
    BY <1>1, <2>1, <2>6, ChunkLaw
  <2> QED
    BY <2>1, <2>2, <2>3, <2>4, <2>5, <2>6, <2>7
<1>3. CASE phase = "chunks"
  <2>1. /\ Prefix /\ Width = 1 /\ ~column.terminated /\ column.reports # "rest"
        /\ taken = total + Chunk
    BY <1>3 DEF IInv, ChunksInv
  <2>2. Collected = total + Chunk
    BY <1>1, <2>1, ChunkLaw
  <2> QED
    BY <2>1, <2>2
<1> QED
  BY <1>1, <1>2, <1>3, ChunkLaw

(* The room behind the chunks ends before the buffer does.                 *)
LEMMA RoomLaw ==
    ASSUME column \in Column, Collected \in Nat
    PROVE  /\ Room \in Nat /\ Room >= Chunk /\ ChunkAt \in Nat
           /\ Collected + Chunk \in Nat /\ Bytes(Collected + Chunk) \in Nat
           /\ ChunkAt + Room <= Bytes(Collected + Chunk)
           /\ Width = 1 => ChunkAt = Collected /\ Room = Chunk
<1>1. Chunk \in Nat \ {0, 1} /\ Collected + Chunk \in Nat
  BY SurrogatesAssumption
<1>2. Bytes(Collected + Chunk) \in Nat /\ Collected + Chunk <= Bytes(Collected + Chunk)
  BY <1>1, BytesLaw
<1>3. ChunkAt \in Nat /\ ChunkAt <= Collected
  BY ElementsLaw DEF ChunkAt
<1>4. Width = 1 => ChunkAt = Collected
  BY ElementsLaw DEF ChunkAt
<1>5. Width = 1 => Bytes(Collected + Chunk) = Collected + Chunk
  BY <1>1, BytesLaw
<1>6. Room = Bytes(Collected + Chunk) - Collected
  BY DEF Room
<1> HIDE DEF Room, ChunkAt, Collected, Bytes, Width
<1> QED
  BY <1>1, <1>2, <1>3, <1>4, <1>5, <1>6

(* The next chunk.                                                         *)
LEMMA NextChunkKeeps == IInv /\ NextChunk => IInv'
<1> SUFFICES ASSUME IInv, NextChunk PROVE IInv'
  OBVIOUS
<1> DEFINE bytes == Resize(buffer, Collected + Chunk)
           room == Room
<1>1. /\ ReadsByChunks /\ Got = Bytes(Chunk) /\ GetData(bytes, ChunkAt, room)
      /\ total' = Collected /\ phase' = "chunks" /\ asserted' = (asserted /\ Got % Width = 0)
      /\ column' = column /\ begun' = begun
  BY DEF NextChunk, NeedsChunk, Check
<1>2. /\ ~column.null /\ Collected \in Nat /\ phase \in {"first", "chunks"}
      /\ phase = "first" => indicator \in {NoTotal, Bytes(Chunk)}
      /\ Width = 1 => Got % Width = 0
  BY <1>1, ChunkLaw
<1>3. TypeInv /\ column \in Column /\ Chunk \in Nat \ {0, 1}
  BY StateLaw
<1>4. /\ room \in Nat /\ room > 0 /\ room > 1 /\ ChunkAt \in Nat /\ ChunkAt + room <= Bytes(Collected + Chunk)
      /\ Collected + Chunk \in Nat /\ Bytes(Collected + Chunk) \in Nat
      /\ Width = 1 => ChunkAt = Collected /\ room = Chunk
  <2> HIDE DEF bytes
  <2> QED
    BY <1>2, <1>3, RoomLaw
<1>5. /\ bytes \in Seq(Nat) /\ Len(bytes) = Bytes(Collected + Chunk)
      /\ DOMAIN bytes = 1 .. Bytes(Collected + Chunk)
      /\ \A i \in 1 .. Bytes(Collected + Chunk) : i \in DOMAIN buffer => bytes[i] = buffer[i]
  BY <1>3, <1>4, StateLaw, ResizeLaw
<1>6. /\ Width' = Width /\ Terminator' = Terminator /\ Bytes(Chunk)' = Bytes(Chunk)
      /\ Short' = Short /\ Plain' = Plain
  BY <1>1, SameColumn
<1> HIDE DEF bytes, room
<1>7. TypeInv'
  BY <1>1, <1>2, <1>3, <1>4, <1>5, GetDataTypes
<1>8. WritesInsideBuffer'
  BY <1>1, <1>3, <1>4, <1>5, GetDataInside
<1>9. /\ ~over
      /\ (Fits(room) <=> column.length - taken + Terminator <= room)
      /\ Fits(room) => taken' = column.length
      /\ ~Fits(room) => taken' = taken + room - Terminator
      /\ over' <=> Fits(room)
      /\ over' \in BOOLEAN
  BY <1>1, <1>2, <1>3, <1>4, <1>5, GetDataTakes
<1>10. /\ Fits(room) => indicator' = column.length - taken
       /\ ~Fits(room) =>
            /\ column.reports = "rest" => indicator' = column.length - taken
            /\ column.reports = "nothing" => indicator' = NoTotal
            /\ column.reports = "written" => indicator' = room - Terminator
  BY <1>1, <1>2, <1>3, <1>4, <1>5, GetDataTells
<1>11. LoopInv'
  <2>1. column.length - taken \in Nat /\ room - Terminator \in Nat
    <3>1. taken \in Nat /\ column.length \in Nat /\ taken <= column.length /\ Terminator \in {0, 1}
      BY StateLaw
    <3> QED
      BY <1>4, <3>1
  <2>2. indicator' \in Nat \cup {NoTotal} /\ (indicator' = NoTotal => column.reports = "nothing")
    BY <1>10, <2>1, StateLaw
  <2> QED
    BY <1>1, <1>2, <2>2 DEF LoopInv
<1>12. NumbersInv'
  <2> SUFFICES ASSUME ~column.terminated, Width = 1
               PROVE  indicator' <= Chunk /\ (column.reports = "rest" => over')
    BY <1>1, <1>6 DEF NumbersInv
  <2>1. column.reports # "rest"
    <3>1. CASE phase = "first"
      <4> SUFFICES ASSUME column.reports = "rest" PROVE FALSE
        OBVIOUS
      <4>1. indicator = Chunk
        BY <1>2, <3>1, StateLaw, BytesLaw DEF IInv, LoopInv
      <4> QED
        BY <1>9, <3>1, <4>1 DEF IInv, NumbersInv
    <3>2. CASE phase = "chunks"
      BY <1>9, <3>2 DEF IInv, NumbersInv
    <3> QED
      BY <1>2, <3>1, <3>2
  <2>2. room = Chunk /\ Terminator = 0 /\ taken \in Nat /\ column.length \in Nat /\ NoTotal = -4
    BY <1>4, StateLaw
  <2>3. CASE Fits(room)
    BY <1>3, <1>9, <1>10, <2>1, <2>2, <2>3
  <2>4. CASE ~Fits(room) /\ column.reports = "nothing"
    BY <1>3, <1>10, <2>1, <2>2, <2>4
  <2>5. CASE ~Fits(room) /\ column.reports = "written"
    BY <1>3, <1>10, <2>1, <2>2, <2>5
  <2> QED
    BY <2>1, <2>3, <2>4, <2>5, StateLaw
<1>13. AssertionsHold' /\ FirstInv' /\ EndInv'
  BY <1>1, <1>2, <1>6 DEF AssertionsHold, FirstInv, EndInv, IInv
<1>14. ChunksInv'
  <2> SUFFICES ASSUME begun = 0, Short \/ Plain
               PROVE  /\ Prefix'
                      /\ Width = 1 /\ ~column.terminated /\ column.reports # "rest"
                      /\ \/ /\ over' /\ taken' = column.length /\ total' <= taken'
                            /\ indicator' = column.length - total'
                         \/ ~over' /\ taken' = total' + Chunk /\ indicator' \in {NoTotal, Chunk}
    BY <1>1, <1>6 DEF ChunksInv
  <2>1. /\ Prefix /\ taken = Collected
        /\ Width = 1 /\ ~column.terminated /\ column.reports # "rest"
    BY <1>1, <1>9, CollectedLaw DEF NeedsChunk
  <2>2. /\ ChunkAt = taken /\ room = Chunk /\ Terminator = 0 /\ total' = taken
        /\ taken \in Nat /\ column.length \in Nat /\ taken <= column.length
    BY <1>1, <1>4, <2>1, StateLaw
  <2>3. Prefix'
    <3>1. GetData(bytes, taken, room) /\ taken + room <= Len(bytes)
      BY <1>1, <1>4, <1>5, <2>2
    <3>2. ASSUME NEW i \in 1 .. taken PROVE i \in DOMAIN bytes /\ bytes[i] = i
      <4>1. i \in DOMAIN buffer /\ buffer[i] = i
        BY <2>1 DEF Prefix
      <4>2. i \in 1 .. Bytes(Collected + Chunk)
        BY <1>4, <2>2
      <4> QED
        BY <1>5, <4>1, <4>2
    <3> QED
      BY <1>3, <1>4, <1>5, <3>1, <3>2, GetDataGoesOn
  <2>4. CASE Fits(room)
    BY <1>9, <1>10, <2>1, <2>2, <2>3, <2>4
  <2>5. CASE ~Fits(room)
    <3>1. ~over' /\ taken' = total' + Chunk
      BY <1>3, <1>9, <2>2, <2>5
    <3>2. indicator' \in {NoTotal, Chunk}
      BY <1>3, <1>10, <2>1, <2>2, <2>5, StateLaw
    <3> QED
      BY <2>1, <2>3, <3>1, <3>2
  <2> QED
    BY <2>4, <2>5
<1> QED
  BY <1>7, <1>8, <1>11, <1>12, <1>13, <1>14 DEF IInv
(* A chunk that is not full is the last one.                               *)
LEMMA LastChunkKeeps == IInv /\ LastChunk => IInv'
<1> SUFFICES ASSUME IInv, LastChunk PROVE IInv'
  OBVIOUS
<1>1. /\ ReadsByChunks /\ Got # Bytes(Chunk) /\ total' = Collected
      /\ asserted' = (asserted /\ Got % Width = 0 /\ Got < Bytes(Chunk))
      /\ buffer' = Resize(buffer, Collected) /\ phase' = "vector"
      /\ column' = column /\ taken' = taken /\ over' = over
      /\ indicator' = indicator /\ reached' = reached /\ begun' = begun
  BY DEF LastChunk, Check, Finish, driver
<1>2. /\ ~column.null /\ Got \in Nat /\ Collected \in Nat /\ Collected = total + Got \div Width
      /\ phase = "chunks" /\ indicator # NullData
      /\ Width = 1 => Got \div Width = Got /\ Got % Width = 0 /\ Bytes(Chunk) = Chunk
  BY <1>1, ChunkLaw
<1>3. indicator # NoTotal /\ Got = indicator
  BY <1>1 DEF Got
<1>4. /\ TypeInv' /\ LoopInv' /\ WritesInsideBuffer' /\ NumbersInv' /\ FirstInv' /\ ChunksInv'
      /\ Width' = Width /\ Short' = Short /\ Plain' = Plain
  <2>1. indicator' \in Int
    BY <1>1, StateLaw
  <2> QED
    BY <1>1, <1>2, <2>1, FinishKeeps
<1>5. AssertionsHold'
  <2> SUFFICES ASSUME ~column.terminated, Width = 1 PROVE asserted'
    BY <1>1, <1>4 DEF AssertionsHold
  <2>1. indicator <= Chunk /\ Bytes(Chunk) = Chunk /\ Got % Width = 0
    BY <1>2 DEF IInv, NumbersInv
  <2>2. Got < Bytes(Chunk)
    BY <1>1, <1>2, <1>3, <2>1, StateLaw
  <2> QED
    BY <1>1, <2>1, <2>2 DEF IInv, AssertionsHold
<1>6. EndInv'
  <2> SUFFICES ASSUME begun = 0, Short \/ Plain
               PROVE  /\ (indicator = NullData) = column.null
                      /\ Len(buffer') = column.length
                      /\ \A i \in 1 .. column.length : buffer'[i] = i
    BY <1>1, <1>4 DEF EndInv
  <2>1. /\ Prefix /\ Width = 1
        /\ \/ taken = column.length /\ indicator = column.length - total
           \/ indicator \in {NoTotal, Chunk}
    BY <1>2 DEF IInv, ChunksInv
  <2>2. taken = column.length /\ indicator = column.length - total
    BY <1>1, <1>2, <1>3, <2>1
  <2>3. Collected = column.length
    <3>1. Got \div Width = Got /\ Collected = total + Got \div Width
      BY <1>2, <2>1
    <3>2. Got = column.length - total
      BY <1>3, <2>2
    <3>3. column.length \in Nat /\ total \in Nat
      BY StateLaw
    <3>4. Collected = total + (column.length - total)
      BY <3>1, <3>2
    <3> QED
      BY <3>3, <3>4
  <2>4. Bytes(Collected) = column.length
    BY <1>2, <2>1, <2>3, StateLaw, BytesLaw
  <2>5. Len(buffer') = column.length /\ \A i \in 1 .. column.length : buffer'[i] = i
    BY <1>1, <1>2, <2>1, <2>2, <2>4, ResizedIsWhole
  <2>6. (indicator = NullData) = column.null
    BY <1>2, StateLaw
  <2> QED
    BY <2>5, <2>6
<1> QED
  BY <1>4, <1>5, <1>6 DEF IInv

(* SQL_NO_DATA behind a chunk that was full.                               *)
LEMMA NoMoreChunksKeeps == IInv /\ NoMoreChunks => IInv'
<1> SUFFICES ASSUME IInv, NoMoreChunks PROVE IInv'
  OBVIOUS
<1>1. /\ ReadsByChunks /\ Got = Bytes(Chunk) /\ over /\ total' = Collected
      /\ asserted' = (asserted /\ Got % Width = 0)
      /\ buffer' = Resize(buffer, Collected) /\ phase' = "vector" /\ indicator' = 0
      /\ column' = column /\ taken' = taken /\ over' = over
      /\ reached' = reached /\ begun' = begun
  BY DEF NoMoreChunks, NeedsChunk, Check, driver
<1>2. /\ ~column.null /\ Got \in Nat /\ Collected \in Nat /\ Collected = total + Got \div Width
      /\ phase \in {"first", "chunks"} /\ indicator # NullData
      /\ phase = "first" => indicator \in {NoTotal, Bytes(Chunk)} /\ total = 0
      /\ Width = 1 => Got \div Width = Got /\ Got % Width = 0 /\ Bytes(Chunk) = Chunk
      /\ Got % Width = 0 => Bytes(Got \div Width) = Got
      /\ Got \div Width \in Nat /\ Bytes(Chunk) \in Nat
  BY <1>1, ChunkLaw
<1>3. /\ TypeInv' /\ LoopInv' /\ WritesInsideBuffer' /\ NumbersInv' /\ FirstInv' /\ ChunksInv'
      /\ Width' = Width /\ Short' = Short /\ Plain' = Plain
  BY <1>1, <1>2, FinishKeeps
<1>4. AssertionsHold'
  BY <1>1, <1>2, <1>3 DEF AssertionsHold, IInv
<1>5. EndInv'
  <2> SUFFICES ASSUME begun = 0, Short \/ Plain
               PROVE  /\ (indicator' = NullData) = column.null
                      /\ Len(buffer') = column.length
                      /\ \A i \in 1 .. column.length : buffer'[i] = i
    BY <1>1, <1>3 DEF EndInv
  <2>1. Prefix /\ taken = column.length /\ Bytes(Collected) = column.length
    <3>1. CASE phase = "first"
      <4>1. Prefix /\ taken = column.length /\ indicator = column.length
        BY <1>1, <1>2, <3>1 DEF IInv, FirstInv
      <4>2. Got = column.length
        <5>1. indicator # NoTotal
          BY <4>1, StateLaw
        <5> QED
          BY <4>1, <5>1 DEF Got
      <4>3. Bytes(Got \div Width) = column.length
        BY <1>2, <4>2, StateLaw
      <4>4. Collected = Got \div Width
        <5> DEFINE q == Got \div Width
        <5>1. q \in Nat /\ Collected = total + q /\ total = 0
          BY <1>2, <3>1
        <5> HIDE DEF q
        <5>2. Collected = q
          BY <5>1
        <5> QED
          BY <5>2 DEF q
      <4> QED
        BY <4>1, <4>3, <4>4
    <3>2. CASE phase = "chunks"
      <4>1. /\ Prefix /\ Width = 1 /\ taken = column.length /\ total <= taken
            /\ indicator = column.length - total
        BY <1>1, <3>2 DEF IInv, ChunksInv
      <4>2. Got = column.length - total
        <5>1. indicator # NoTotal
          BY <4>1, StateLaw
        <5> QED
          BY <4>1, <5>1 DEF Got
      <4>3. Collected = column.length
        <5>1. Collected = total + (column.length - total)
          BY <1>2, <4>1, <4>2
        <5>2. column.length \in Nat /\ total \in Nat
          BY StateLaw
        <5> QED
          BY <5>1, <5>2
      <4>4. Bytes(Collected) = column.length
        BY <1>2, <4>1, <4>3, StateLaw, BytesLaw
      <4> QED
        BY <4>1, <4>4
    <3> QED
      BY <1>2, <3>1, <3>2
  <2>2. Len(buffer') = column.length /\ \A i \in 1 .. column.length : buffer'[i] = i
    BY <1>1, <1>2, <2>1, ResizedIsWhole
  <2>3. (indicator' = NullData) = column.null
    <3>1. column.null \in BOOLEAN /\ ~column.null
      BY <1>2, StateLaw
    <3>2. indicator' # NullData
      BY <1>1 DEF NullData
    <3> QED
      BY <3>1, <3>2
  <2> QED
    BY <2>2, <2>3
<1> QED
  BY <1>3, <1>4, <1>5 DEF IInv

(* A constructor that throws, and the next one, touch nothing of this.     *)
LEMMA ThrowKeeps == IInv /\ (NothingLeft \/ Fails) => IInv'
<1> SUFFICES ASSUME IInv, NothingLeft \/ Fails PROVE IInv'
  OBVIOUS
<1>1. /\ phase' = "threw" /\ buffer' = buffer /\ total' = total /\ indicator' = indicator
      /\ column' = column /\ taken' = taken /\ over' = over
      /\ reached' = reached /\ begun' = begun /\ asserted' = asserted
  BY DEF NothingLeft, Fails, Throw, driver
<1>2. Width' = Width
  BY <1>1, SameColumn
<1>3. TypeInv'
  BY <1>1 DEF IInv, TypeInv
<1> QED
  BY <1>1, <1>2, <1>3 DEF IInv, LoopInv, WritesInsideBuffer, NumbersInv, AssertionsHold, FirstInv,
                          ChunksInv, EndInv

LEMMA AgainKeeps == IInv /\ Again => IInv'
<1> SUFFICES ASSUME IInv, Again PROVE IInv'
  OBVIOUS
<1>1. /\ phase' = "new" /\ buffer' = <<>> /\ total' = 0 /\ indicator' = 0
      /\ column' = column /\ taken' = taken /\ over' = over
      /\ reached' = reached /\ begun' = taken /\ asserted' = asserted
  BY DEF Again, driver
<1>2. Width' = Width
  BY <1>1, SameColumn
<1>3. TypeInv'
  <2>1. taken \in Nat
    BY StateLaw
  <2> QED
    BY <1>1, <2>1, EmptyBuffer DEF IInv, TypeInv
<1> QED
  BY <1>1, <1>2, <1>3 DEF IInv, LoopInv, WritesInsideBuffer, NumbersInv, AssertionsHold, FirstInv,
                          ChunksInv, EndInv

LEMMA NextKeeps == IInv /\ [Next]_vars => IInv'
<1>1. CASE UNCHANGED vars
  <2>1. /\ phase' = phase /\ buffer' = buffer /\ total' = total /\ indicator' = indicator
        /\ column' = column /\ taken' = taken /\ over' = over
        /\ reached' = reached /\ begun' = begun /\ asserted' = asserted
    BY <1>1 DEF vars, driver
  <2> QED
    BY <2>1, SameColumn DEF IInv, TypeInv, LoopInv, WritesInsideBuffer, NumbersInv, AssertionsHold,
                            FirstInv, ChunksInv, EndInv, Prefix
<1> QED
  BY <1>1, VectorStartKeeps, ArrayReadKeeps, VectorRestKeeps, VectorNullKeeps, VectorShortKeeps,
     NextChunkKeeps, LastChunkKeeps, NoMoreChunksKeeps, ThrowKeeps, AgainKeeps DEF Next, Proceed

LEMMA AlwaysIInv == Spec => []IInv
<1> QED
  BY InitHolds, NextKeeps, PTL DEF Spec

-----------------------------------------------------------------------------
(* What surrogates promise.                                                *)

LEMMA CastLaw == IInv => ValueIsWhole
<1> SUFFICES ASSUME IInv, phase \in {"vector", "array"}, Suitable, begun = 0
             PROVE  /\ Cast = [null |-> column.null, bytes |-> [i \in 1 .. column.length |-> i]]
                    /\ phase = "array" =>
                          \A i \in DOMAIN CopyToArray :
                             CopyToArray[i] = IF i <= column.length THEN i ELSE 0
  BY DEF ValueIsWhole
<1>1. /\ column.length \in Nat /\ column.null \in BOOLEAN /\ (column.null => column.length = 0)
      /\ column.length % Width = 0 /\ NullData = -1 /\ column \in Column
      /\ Terminator \in {0, 1} /\ Bytes(Capacity) \in Nat
  BY StateLaw, BytesLaw
<1>2. /\ (indicator = NullData) = column.null /\ Size = column.length
      /\ \A i \in 1 .. column.length : buffer[i] = i
  <2>1. CASE phase = "vector"
    <3>1. Short \/ Plain
      BY <2>1 DEF Suitable, Short, Plain
    <3>2. /\ (indicator = NullData) = column.null /\ Len(buffer) = column.length
          /\ \A i \in 1 .. column.length : buffer[i] = i
      BY <2>1, <3>1 DEF IInv, EndInv
    <3> QED
      BY <1>1, <2>1, <3>2 DEF Size
  <2>2. CASE phase = "array"
    <3>1. FitsArray
      BY <2>2 DEF Suitable, FitsArray
    <3>2. /\ indicator = (IF column.null THEN NullData ELSE column.length)
          /\ taken = column.length /\ Prefix
      BY <2>2, <3>1 DEF IInv, EndInv
    <3>3. (indicator = NullData) = column.null
      BY <1>1, <3>2
    <3>4. Bytes(column.length \div Width) = column.length
      BY <1>1, ElementsLaw
    <3>5. Size = column.length
      <4>1. CASE column.null
        BY <1>1, <3>2, <4>1 DEF Size
      <4>2. CASE ~column.null
        BY <1>1, <2>2, <3>2, <3>3, <3>4, <4>2 DEF Size
      <4> QED
        BY <4>1, <4>2
    <3> QED
      BY <3>2, <3>3, <3>5 DEF Prefix
  <2> QED
    BY <2>1, <2>2
<1>3. Cast = [null |-> column.null, bytes |-> [i \in 1 .. column.length |-> i]]
  <2>1. [i \in 1 .. Size |-> buffer[i]] = [i \in 1 .. column.length |-> i]
    BY <1>2
  <2> QED
    BY <1>2, <2>1 DEF Cast
<1>4. ASSUME phase = "array", NEW i \in DOMAIN CopyToArray
      PROVE  CopyToArray[i] = IF i <= column.length THEN i ELSE 0
  <2>1. i \in 1 .. Bytes(Capacity)
    BY <1>4 DEF CopyToArray
  <2>2. CopyToArray[i] = IF i <= column.length THEN buffer[i] ELSE 0
    BY <1>2, <2>1 DEF CopyToArray
  <2>3. i <= column.length => buffer[i] = i
    BY <1>1, <1>2, <2>1
  <2> QED
    BY <2>2, <2>3
<1> QED
  BY <1>3, <1>4

(* What is cast from a surrogate is the whole value, with zeroes behind it *)
(* in an array, for the values the constructors are made for, whatever     *)
(* pieces the driver cuts them into and whatever it reports.               *)
THEOREM ValuesAreWhole == Spec => []ValueIsWhole
<1> QED
  BY AlwaysIInv, CastLaw, PTL

(* No call of SQLGetData is given more room than the buffer has behind the *)
(* place it writes to, for any value.                                      *)
THEOREM NeverBehindBuffer == Spec => []WritesInsideBuffer
<1>1. IInv => WritesInsideBuffer
  BY DEF IInv
<1> QED
  BY AlwaysIInv, <1>1, PTL

(* The assertions of SurrogateVector's constructor hold for values of      *)
(* bytes without terminator.                                               *)
THEOREM NoAssertionFails == Spec => []AssertionsHold
<1>1. IInv => AssertionsHold
  BY DEF IInv
<1> QED
  BY AlwaysIInv, <1>1, PTL

(* Each turn of the constructor is its last or brings the value's end      *)
(* nearer: a chunk takes at least a byte of those that are left, or the    *)
(* driver is done.                                                         *)
TurnAdvances ==
    Proceed =>
       \/ phase' = "vector"
       \/ /\ phase' = "chunks" /\ ~over
          /\ over' \/ (taken < taken' /\ taken' <= column.length)

(* The loop that reads chunk by chunk makes progress with every call, also *)
(* for a terminated value, whose last byte of a chunk is no part of it.    *)
THEOREM ChunksAdvance == Spec => [][TurnAdvances]_vars
<1>1. ASSUME IInv, Next PROVE TurnAdvances
  <2>1. CASE NextChunk
    <3> DEFINE bytes == Resize(buffer, Collected + Chunk)
               room == Room
    <3>1. /\ ReadsByChunks /\ GetData(bytes, ChunkAt, room) /\ phase' = "chunks"
      BY <2>1 DEF NextChunk, NeedsChunk
    <3>2. ~column.null /\ Collected \in Nat
      BY <1>1, <3>1, ChunkLaw
    <3>3. TypeInv /\ column \in Column /\ Chunk \in Nat \ {0, 1}
      BY <1>1, StateLaw
    <3>4. /\ room \in Nat /\ room > 1 /\ room > 0 /\ ChunkAt \in Nat
          /\ Collected + Chunk \in Nat /\ Bytes(Collected + Chunk) \in Nat
      <4> HIDE DEF bytes
      <4> QED
        BY <3>2, <3>3, RoomLaw
    <3>5. bytes \in Seq(Nat)
      BY <1>1, <3>3, <3>4, StateLaw, ResizeLaw
    <3> HIDE DEF bytes, room
    <3>6. /\ ~over /\ (~Fits(room) => taken' = taken + room - Terminator)
          /\ taken' \in taken .. column.length
          /\ over' <=> Fits(room)
      BY <3>1, <3>2, <3>3, <3>4, <3>5, GetDataTakes
    <3>7. taken \in Nat /\ column.length \in Nat /\ Terminator \in {0, 1}
      BY <1>1, StateLaw
    <3>8. ~Fits(room) => taken < taken' /\ taken' <= column.length
      BY <3>4, <3>6, <3>7
    <3> QED
      BY <3>1, <3>6, <3>8 DEF TurnAdvances
  <2>2. CASE VectorNull \/ VectorShort \/ VectorRest \/ LastChunk \/ NoMoreChunks
    BY <2>2 DEF VectorNull, VectorShort, VectorRest, LastChunk, NoMoreChunks, Finish, TurnAdvances
  <2> QED
    BY <2>1, <2>2 DEF Proceed, TurnAdvances
<1>2. IInv /\ [Next]_vars => [TurnAdvances]_vars
  BY <1>1
<1> QED
  BY AlwaysIInv, <1>2, PTL DEF Spec
=============================================================================
