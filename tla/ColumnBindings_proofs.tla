------------------------ MODULE ColumnBindings_proofs ------------------------
(***************************************************************************)
(* For any columns of any lengths, with and without bookmarks, in 32-bit   *)
(* and 64-bit builds: slots do not overlap, binding again restores what    *)
(* was bound, and values are read from where they were written.            *)
(***************************************************************************)
EXTENDS ColumnBindings, TLAPS

(* The columns whose slots offsets_ knows.                                 *)
Count == Len(offsets) - (IF bookmarks THEN 1 ELSE 0)

(* The driver's bindings when n columns are bound.                         *)
BoundUpTo(n) == (IF bookmarks THEN {0} ELSE {}) \cup 1 .. n

BookmarkEnd == (word + word + BookmarkLength + word - 1) \div word - 1

(* A column's slot as bind gives it to the driver, and as rebind does.     *)
FirstSlot(c) == SlotAt(MemberOffset(c - 1), columns[c].align, columns[c].length)

SecondSlot(c) ==
    SlotAt(MemberOffset(c - 1), columns[c].align,
           RebindLength(columns[c], MemberOffset(c - 1), MemberOffset(c)))

TypeInv ==
    /\ word \in Word
    /\ bookmarks \in BOOLEAN
    /\ columns \in [1 .. NumColumns -> Type]
    /\ phase \in {"start", "bind", "bound", "deleting", "rebind"}
    /\ bound \in 0 .. NumColumns
    /\ offsets \in Seq(Nat)
    /\ stride \in Nat

(* How far binding and binding again have come.                            *)
PhaseInv ==
    /\ phase = "start" => offsets = <<>> /\ bound = 0 /\ stride = 0
    /\ phase # "start" => Count \in 0 .. NumColumns
    /\ phase = "bind" => Count = bound /\ stride = 0
    /\ phase \in {"deleting", "rebind"} => bookmarks /\ stride = SizeOfBookmark
    /\ phase = "rebind" => bound < Count

(* Where slots end: each begins where the one before it ends.              *)
OffsetsInv ==
    phase # "start" =>
       /\ bookmarks => offsets[1] = BookmarkEnd
       /\ \A c \in 1 .. Count :
             /\ columns[c].kind \in {"fixed", "inplace", "array"}
             /\ MemberOffset(c) =
                   EndOfSlot(MemberOffset(c - 1), columns[c].align, columns[c].length)
       /\ \A c, d \in 0 .. Count : c < d => MemberOffset(c) < MemberOffset(d)

(* What the driver is told of these slots.                                 *)
TableInv ==
    /\ DOMAIN table = CASE phase = "start" -> {}
                        [] phase \in {"bind", "rebind"} -> BoundUpTo(bound)
                        [] phase = "deleting" -> {0}
                        [] phase = "bound" -> BoundUpTo(Count)
    /\ 0 \in DOMAIN table => table[0] = BookmarkSlot
    /\ \A c \in DOMAIN table \ {0} : table[c] = FirstSlot(c) \/ table[c] = SecondSlot(c)
    /\ phase = "bind" => \A c \in DOMAIN table \ {0} : table[c] = FirstSlot(c)

(* The bindings to be restored.                                            *)
FirstInv ==
    phase \notin {"start", "bind"} =>
       /\ first.stride = IF offsets = <<>> THEN 0 ELSE LastOffset * word
       /\ DOMAIN first.table = BoundUpTo(Count)
       /\ 0 \in DOMAIN first.table => first.table[0] = BookmarkSlot
       /\ \A c \in DOMAIN first.table \ {0} : first.table[c] = FirstSlot(c)
       /\ phase = "bound" => stride = first.stride

IInv == TypeInv /\ PhaseInv /\ OffsetsInv /\ TableInv /\ FirstInv

-----------------------------------------------------------------------------
(* Arithmetic of words, bytes and alignments.                              *)

(* Rounding up to an alignment.                                            *)
LEMMA RoundUpLaw ==
    ASSUME NEW n \in Nat, NEW unit \in {1, 2, 4, 8}
    PROVE  /\ RoundUp(n, unit) \in Nat
           /\ n <= RoundUp(n, unit)
           /\ RoundUp(n, unit) < n + unit
BY DEF RoundUp

(* A number of words is aligned to all that is not greater than a word.    *)
LEMMA WordsAligned ==
    ASSUME NEW w \in {4, 8}, NEW n \in Nat, NEW unit \in {1, 2, 4, 8}, unit <= w
    PROVE  RoundUp(n * w, unit) = n * w
<1>1. CASE w = 4
  BY <1>1 DEF RoundUp
<1>2. CASE w = 8
  BY <1>2 DEF RoundUp
<1> QED
  BY <1>1, <1>2

(* Rounding up keeps the order of addresses.                               *)
LEMMA RoundUpGrows ==
    ASSUME NEW m \in Nat, NEW n \in Nat, m <= n, NEW unit \in {1, 2, 4, 8}
    PROVE  RoundUp(m, unit) <= RoundUp(n, unit)
BY DEF RoundUp

(* A slot begins with the indicator; the value lies behind it and ends     *)
(* before the word that is the end of the slot.                            *)
LEMMA SlotLaw ==
    ASSUME word \in {4, 8}, NEW begin \in Nat, NEW align \in {1, 2, 4, 8}, NEW length \in Nat
    PROVE  /\ SlotAt(begin, align, length) \in Slot
           /\ SlotAt(begin, align, length).indicator = begin * word
           /\ SlotAt(begin, align, length).length = length
           /\ (begin + 1) * word <= SlotAt(begin, align, length).value
           /\ SlotAt(begin, align, length).value = ValueOffset((begin + 1) * word, align) - word
           /\ EndOfSlot(begin, align, length) \in Nat
           /\ begin < EndOfSlot(begin, align, length)
           /\ SlotAt(begin, align, length).value + length + word
                 <= EndOfSlot(begin, align, length) * word
<1> DEFINE v == RoundUp((begin + 1) * word + word, align)
<1>1. /\ begin * word \in Nat /\ (begin + 1) * word \in Nat
      /\ (begin + 1) * word = begin * word + word
      /\ (begin + 1) * word + word \in Nat
  BY word \in {4, 8}
<1>2. v \in Nat /\ (begin + 1) * word + word <= v
  BY <1>1, RoundUpLaw
<1>3. ValueOffset((begin + 1) * word, align) = v
  BY DEF ValueOffset
<1> HIDE DEF v
<1>4. /\ EndOfSlot(begin, align, length) \in Nat
      /\ v + length <= EndOfSlot(begin, align, length) * word
      /\ begin < EndOfSlot(begin, align, length)
  <2>0. EndOfSlot(begin, align, length) = (v + length + word - 1) \div word
    BY <1>3 DEF EndOfSlot
  <2>1. CASE word = 4
    BY <1>2, <2>0, <2>1
  <2>2. CASE word = 8
    BY <1>2, <2>0, <2>2
  <2> QED
    BY <2>1, <2>2
<1> QED
  BY <1>1, <1>2, <1>3, <1>4 DEF SlotAt, Slot
-----------------------------------------------------------------------------
(* Offsets.                                                                *)

(* The supported builds and types.                                         *)
LEMMA TypesLaw ==
    ASSUME TypeInv
    PROVE  /\ word \in {4, 8}
           /\ NumColumns \in Nat
           /\ \A c \in 1 .. NumColumns :
                 /\ columns[c].align \in {1, 2, 4, 8} /\ columns[c].length \in Nat
                 /\ columns[c].kind \in {"fixed", "inplace", "array", "none"}
                 /\ columns[c].kind = "array" => columns[c].align <= word
                 /\ columns[c].kind = "inplace" => columns[c].align = 1
                 /\ columns[c].text \in BOOLEAN
BY LayoutAssumption DEF TypeInv, Column

(* member_offset finds the ends of the slots that are there.               *)
LEMMA OffsetsLaw ==
    ASSUME TypeInv, Count \in 0 .. NumColumns
    PROVE  /\ \A c \in 0 .. Count : MemberOffset(c) \in Nat
           /\ offsets # <<>> => LastOffset = MemberOffset(Count)
           /\ offsets = <<>> <=> Count = 0 /\ ~bookmarks
           /\ MemberOffset(0) = IF bookmarks THEN offsets[1] ELSE 0
           /\ LastOffset \in Nat \/ offsets = <<>>
<1>1. Len(offsets) \in Nat /\ (\A i \in 1 .. Len(offsets) : offsets[i] \in Nat)
  BY DEF TypeInv
<1>2. offsets = <<>> <=> Len(offsets) = 0
  BY DEF TypeInv
<1>3. NumColumns \in Nat
  BY LayoutAssumption
<1>4. CASE bookmarks
  <2>1. Count = Len(offsets) - 1 /\ Len(offsets) # 0
    BY <1>1, <1>4 DEF Count
  <2>2. \A c : MemberOffset(c) = offsets[c + 1]
    BY <1>4 DEF MemberOffset
  <2>3. \A c \in 0 .. Count : c + 1 \in 1 .. Len(offsets)
    BY <1>1, <2>1
  <2>4. \A c \in 0 .. Count : MemberOffset(c) \in Nat
    BY <1>1, <2>2, <2>3
  <2>5. LastOffset = MemberOffset(Count)
    <3>1. Count + 1 = Len(offsets)
      BY <1>1, <2>1
    <3> QED
      BY <2>2, <3>1 DEF LastOffset
  <2>6. MemberOffset(0) = offsets[1]
    BY <2>2
  <2>7. LastOffset \in Nat
    BY <1>1, <2>1 DEF LastOffset
  <2> QED
    BY <1>2, <1>4, <2>1, <2>4, <2>5, <2>6, <2>7
<1>5. CASE ~bookmarks
  <2>1. Count = Len(offsets)
    BY <1>1, <1>5 DEF Count
  <2>2. \A c : MemberOffset(c) = IF c = 0 THEN 0 ELSE offsets[c]
    BY <1>5 DEF MemberOffset
  <2>3. \A c \in 0 .. Count : c # 0 => c \in 1 .. Len(offsets)
    BY <1>1, <2>1
  <2>4. \A c \in 0 .. Count : MemberOffset(c) \in Nat
    BY <1>1, <2>2, <2>3
  <2>5. Count # 0 => LastOffset = MemberOffset(Count) /\ LastOffset \in Nat
    BY <1>1, <2>1, <2>2 DEF LastOffset
  <2>6. MemberOffset(0) = 0
    BY <2>2
  <2> QED
    BY <1>2, <1>5, <2>1, <2>4, <2>5, <2>6
<1> QED
  BY <1>4, <1>5 DEF TypeInv

(* A slot more leaves the others where they were.                          *)
LEMMA AppendLaw ==
    ASSUME TypeInv, Count \in 0 .. NumColumns, NEW e \in Nat,
           offsets' = Append(offsets, e), UNCHANGED bookmarks
    PROVE  /\ Count' = Count + 1
           /\ \A c \in 0 .. Count : MemberOffset(c)' = MemberOffset(c)
           /\ MemberOffset(Count)' = e
           /\ bookmarks => offsets'[1] = offsets[1]
<1>1. Len(offsets) \in Nat /\ Len(offsets') = Len(offsets) + 1
  BY DEF TypeInv
<1>2. \A i \in 1 .. Len(offsets) : offsets'[i] = offsets[i]
  BY DEF TypeInv
<1>3. offsets'[Len(offsets) + 1] = e
  BY DEF TypeInv
<1>4. NumColumns \in Nat
  BY LayoutAssumption
<1>5. CASE bookmarks
  <2>1. Count = Len(offsets) - 1 /\ Count' = Len(offsets') - 1
    BY <1>5 DEF Count
  <2>2. \A c : MemberOffset(c) = offsets[c + 1] /\ MemberOffset(c)' = offsets'[c + 1]
    BY <1>5 DEF MemberOffset
  <2>3. \A c \in 0 .. Count : c + 1 \in 1 .. Len(offsets)
    BY <1>1, <2>1
  <2>4. \A c \in 0 .. Count : MemberOffset(c)' = MemberOffset(c)
    BY <1>2, <2>2, <2>3
  <2>5. Count' + 1 = Len(offsets) + 1
    BY <1>1, <2>1
  <2>6. MemberOffset(Count)' = e
    BY <1>3, <2>2, <2>5
  <2>7. 1 \in 1 .. Len(offsets) /\ Count' = Count + 1
    BY <1>1, <2>1
  <2> QED
    BY <1>2, <2>4, <2>6, <2>7
<1>6. CASE ~bookmarks
  <2>1. Count = Len(offsets) /\ Count' = Len(offsets')
    BY <1>1, <1>6 DEF Count
  <2>2. \A c : /\ MemberOffset(c) = IF c = 0 THEN 0 ELSE offsets[c]
               /\ MemberOffset(c)' = IF c = 0 THEN 0 ELSE offsets'[c]
    BY <1>6 DEF MemberOffset
  <2>3. \A c \in 0 .. Count : c # 0 => c \in 1 .. Len(offsets)
    BY <1>1, <2>1
  <2>4. \A c \in 0 .. Count : MemberOffset(c)' = MemberOffset(c)
    BY <1>2, <2>2, <2>3
  <2>5. Count' # 0 /\ Count' = Len(offsets) + 1
    BY <1>1, <2>1
  <2>6. MemberOffset(Count)' = e
    BY <1>3, <2>2, <2>5
  <2> QED
    BY <1>1, <1>6, <2>1, <2>4, <2>6
<1> QED
  BY <1>5, <1>6 DEF TypeInv

(* Offsets that stay give columns the slots they had.                      *)
LEMMA SameOffsetsLaw ==
    ASSUME UNCHANGED <<word, bookmarks, columns, offsets>>
    PROVE  /\ Count' = Count /\ LastOffset' = LastOffset /\ BookmarkSlot' = BookmarkSlot
           /\ BookmarkEnd' = BookmarkEnd
           /\ \A c : MemberOffset(c)' = MemberOffset(c)
           /\ \A c : FirstSlot(c)' = FirstSlot(c) /\ SecondSlot(c)' = SecondSlot(c)
           /\ \A n : BoundUpTo(n)' = BoundUpTo(n)
           /\ \A b, a, l : EndOfSlot(b, a, l)' = EndOfSlot(b, a, l)
BY DEF Count, LastOffset, BookmarkSlot, BookmarkEnd, MemberOffset, FirstSlot, SecondSlot,
       BoundUpTo, SlotAt, EndOfSlot, ValueOffset, RoundUp, RebindLength

(* The slot of a bookmark, and the stride of an array of them.             *)
LEMMA BookmarkLaw ==
    ASSUME word \in {4, 8}
    PROVE  /\ BookmarkSlot \in Slot /\ BookmarkSlot.indicator + word <= BookmarkSlot.value
           /\ BookmarkEnd \in Nat \ {0}
           /\ BookmarkSlot.value + BookmarkSlot.length <= BookmarkEnd * word
           /\ SizeOfBookmark = BookmarkEnd * word
<1>1. CASE word = 4
  BY <1>1 DEF BookmarkSlot, BookmarkEnd, BookmarkLength, SizeOfBookmark, RoundUp, Slot
<1>2. CASE word = 8
  BY <1>2 DEF BookmarkSlot, BookmarkEnd, BookmarkLength, SizeOfBookmark, RoundUp, Slot
<1> QED
  BY <1>1, <1>2

(* A column's slot lies between its offsets, as bound first and as bound   *)
(* again, when an array is as long as its slot.                            *)
LEMMA ColumnLaw ==
    ASSUME IInv, phase # "start", NEW c \in 1 .. Count
    PROVE  /\ c \in 1 .. NumColumns
           /\ MemberOffset(c - 1) \in Nat /\ MemberOffset(c) \in Nat
           /\ MemberOffset(c - 1) < MemberOffset(c)
           /\ \A s \in {FirstSlot(c), SecondSlot(c)} :
                 /\ s \in Slot
                 /\ s.indicator = MemberOffset(c - 1) * word
                 /\ s.value = ValueOffset((MemberOffset(c - 1) + 1) * word, columns[c].align) - word
                 /\ s.indicator + word <= s.value
                 /\ columns[c].length <= s.length
                 /\ s.value + s.length <= MemberOffset(c) * word
           /\ FirstSlot(c).length = columns[c].length
           /\ FirstSlot(c).value + FirstSlot(c).length + word <= MemberOffset(c) * word
<1> DEFINE begin == MemberOffset(c - 1)
           end == MemberOffset(c)
           align == columns[c].align
           length == columns[c].length
           again == RebindLength(columns[c], begin, end)
<1>1. /\ word \in {4, 8} /\ NumColumns \in Nat /\ Count \in 0 .. NumColumns
      /\ c \in 1 .. NumColumns /\ c - 1 \in 0 .. Count /\ c \in 0 .. Count
  BY TypesLaw DEF IInv, PhaseInv
<1>2. /\ align \in {1, 2, 4, 8} /\ length \in Nat
      /\ columns[c].kind = "array" => align <= word
  BY <1>1, TypesLaw DEF IInv
<1>3. begin \in Nat /\ end \in Nat
  BY <1>1, OffsetsLaw DEF IInv
<1>4. end = EndOfSlot(begin, align, length)
  BY DEF IInv, OffsetsInv
<1>5. FirstSlot(c) = SlotAt(begin, align, length) /\ SecondSlot(c) = SlotAt(begin, align, again)
  BY DEF FirstSlot, SecondSlot
<1> HIDE DEF begin, end, align, length
<1>6. /\ begin < end /\ end * word \in Nat
      /\ SlotAt(begin, align, length).value \in Nat
      /\ SlotAt(begin, align, length).value + length + word <= end * word
  <2>1. SlotAt(begin, align, length) \in Slot
    BY <1>1, <1>2, <1>3, SlotLaw
  <2>2. /\ begin < end
        /\ SlotAt(begin, align, length).value + length + word <= end * word
    BY <1>1, <1>2, <1>3, <1>4, SlotLaw
  <2>3. end * word \in Nat
    BY <1>1, <1>3
  <2> QED
    BY <2>1, <2>2, <2>3 DEF Slot
<1>7. /\ again \in Nat /\ length <= again
      /\ SlotAt(begin, align, length).value + again <= end * word
  <2>1. SlotAt(begin, align, length).value = ValueOffset((begin + 1) * word, align) - word
    BY DEF SlotAt
  <2>2. CASE columns[c].kind # "array"
    <3>1. again = length
      BY <2>2 DEF RebindLength, length
    <3> HIDE DEF again
    <3> QED
      BY <1>1, <1>2, <1>6, <3>1
  <2>3. CASE columns[c].kind = "array"
    <3>1. again = end * word - ValueOffset(begin * word, align)
      BY <2>3 DEF RebindLength, align
    <3>2. /\ begin * word + word = (begin + 1) * word
          /\ (begin + 1) * word + word = (begin + 2) * word
          /\ begin + 1 \in Nat /\ begin + 2 \in Nat
      BY <1>1, <1>3
    <3>3. /\ ValueOffset(begin * word, align) = (begin + 1) * word
          /\ ValueOffset((begin + 1) * word, align) = (begin + 2) * word
      <4>1. align \in {1, 2, 4, 8} /\ align <= word /\ word \in {4, 8}
        BY <1>1, <1>2, <2>3
      <4>2. /\ RoundUp((begin + 1) * word, align) = (begin + 1) * word
            /\ RoundUp((begin + 2) * word, align) = (begin + 2) * word
        BY <3>2, <4>1, WordsAligned
      <4>3. /\ ValueOffset(begin * word, align) = RoundUp(begin * word + word, align)
            /\ ValueOffset((begin + 1) * word, align) = RoundUp((begin + 1) * word + word, align)
        BY DEF ValueOffset
      <4> QED
        BY <3>2, <4>2, <4>3
    <3>4. CASE word = 4
      BY <1>2, <1>3, <1>6, <2>1, <3>1, <3>3, <3>4
    <3>5. CASE word = 8
      BY <1>2, <1>3, <1>6, <2>1, <3>1, <3>3, <3>5
    <3> QED
      BY <1>1, <3>4, <3>5
  <2> QED
    BY <2>2, <2>3
<1> HIDE DEF again
<1>8. ASSUME NEW l \in {length, again}
      PROVE  /\ SlotAt(begin, align, l) \in Slot
             /\ SlotAt(begin, align, l).indicator = begin * word
             /\ SlotAt(begin, align, l).value = ValueOffset((begin + 1) * word, align) - word
             /\ SlotAt(begin, align, l).indicator + word <= SlotAt(begin, align, l).value
             /\ length <= SlotAt(begin, align, l).length
             /\ SlotAt(begin, align, l).value + SlotAt(begin, align, l).length <= end * word
  <2>1. l \in Nat /\ length <= l
    BY <1>2, <1>7
  <2>6. word \in {4, 8} /\ begin \in Nat /\ align \in {1, 2, 4, 8}
    BY <1>1, <1>2, <1>3
  <2>2. /\ SlotAt(begin, align, l) \in Slot
        /\ (begin + 1) * word <= SlotAt(begin, align, l).value
    BY <2>1, <2>6, SlotLaw
  <2>7. /\ SlotAt(begin, align, l).indicator = begin * word
        /\ SlotAt(begin, align, l).value = ValueOffset((begin + 1) * word, align) - word
        /\ SlotAt(begin, align, l).length = l
    BY DEF SlotAt
  <2>3. SlotAt(begin, align, l).value = SlotAt(begin, align, length).value
    BY DEF SlotAt
  <2>4. (begin + 1) * word = begin * word + word
    BY <1>1, <1>3
  <2>5. SlotAt(begin, align, l).value + l <= end * word
    <3>1. CASE l = length
      BY <1>1, <1>2, <1>6, <2>3, <3>1
    <3>2. CASE l = again
      BY <1>7, <2>3, <3>2
    <3> QED
      BY <3>1, <3>2
  <2> QED
    BY <2>1, <2>2, <2>4, <2>5, <2>7
<1>9. FirstSlot(c).length = length /\ FirstSlot(c).value + FirstSlot(c).length + word <= end * word
  BY <1>5, <1>6 DEF SlotAt
<1> QED
  BY <1>1, <1>3, <1>5, <1>6, <1>8, <1>9 DEF begin, end, align, length

-----------------------------------------------------------------------------
(* The invariant.                                                          *)

(* It holds when nothing is bound.                                         *)
LEMMA InitHolds == Init => IInv
<1> SUFFICES ASSUME Init PROVE IInv
  OBVIOUS
<1>1. TypeInv
  BY LayoutAssumption DEF Init, TypeInv
<1> QED
  BY <1>1 DEF Init, IInv, PhaseInv, OffsetsInv, TableInv, FirstInv

(* The first slot is the bookmark's, if there is one.                      *)
LEMMA BindStartKeeps == IInv /\ BindStart => IInv'
<1> SUFFICES ASSUME IInv, BindStart PROVE IInv'
  OBVIOUS
<1>1. /\ UNCHANGED <<word, bookmarks, columns, bound, stride, first>>
      /\ phase = "start" /\ phase' = "bind" /\ offsets = <<>> /\ bound = 0 /\ stride = 0
      /\ DOMAIN table = {}
  BY DEF BindStart, IInv, PhaseInv, TableInv
<1>2. word \in {4, 8} /\ NumColumns \in Nat /\ BookmarkEnd \in Nat
  BY TypesLaw, BookmarkLaw DEF IInv
<1>3. /\ Count' = 0
      /\ offsets' \in Seq(Nat)
      /\ bookmarks => offsets'[1] = BookmarkEnd
  <2>1. CASE bookmarks
    <3>1. offsets' = <<BookmarkEnd>>
      BY <2>1 DEF BindStart, BookmarkEnd
    <3> QED
      BY <1>1, <1>2, <2>1, <3>1 DEF Count
  <2>2. CASE ~bookmarks
    BY <1>1, <2>2 DEF BindStart, Count
  <2> QED
    BY <2>1, <2>2 DEF IInv, TypeInv
<1>4. TypeInv' /\ PhaseInv'
  BY <1>1, <1>2, <1>3 DEF IInv, TypeInv, PhaseInv
<1>5. OffsetsInv'
  <2>1. BookmarkEnd' = BookmarkEnd
    BY <1>1 DEF BookmarkEnd
  <2> QED
    BY <1>1, <1>3, <2>1 DEF OffsetsInv
<1>6. TableInv'
  <2>1. BookmarkSlot' = BookmarkSlot
    BY <1>1 DEF BookmarkSlot
  <2>2. DOMAIN table' = BoundUpTo(0) /\ (0 \in DOMAIN table' => table'[0] = BookmarkSlot)
    BY <1>1 DEF BindStart, BoundUpTo
  <2>3. BoundUpTo(0)' = BoundUpTo(0) /\ BoundUpTo(0) \subseteq {0}
    BY <1>1 DEF BoundUpTo
  <2> QED
    BY <1>1, <2>1, <2>2, <2>3 DEF TableInv
<1>7. FirstInv'
  BY <1>1 DEF FirstInv
<1> QED
  BY <1>4, <1>5, <1>6, <1>7 DEF IInv

(* The next column gets a slot behind the others.                          *)
LEMMA BindColumnKeeps == IInv /\ BindColumn => IInv'
<1> SUFFICES ASSUME IInv, BindColumn PROVE IInv'
  OBVIOUS
<1>0. PICK n \in 0 .. NumColumns : n = bound
  BY DEF IInv, TypeInv
<1> DEFINE c == n + 1
           begin == MemberOffset(n)
           end == EndOfSlot(begin, columns[c].align, columns[c].length)
<1>1. /\ UNCHANGED <<word, bookmarks, columns, phase, stride, first>>
      /\ phase = "bind" /\ bound' = c /\ MoreToBind /\ stride = 0
      /\ Count = n /\ Count \in 0 .. NumColumns
  BY <1>0 DEF BindColumn, IInv, PhaseInv
<1>2. word \in {4, 8} /\ NumColumns \in Nat /\ n \in Nat
  BY TypesLaw DEF IInv
<1>3. /\ c \in 1 .. NumColumns
      /\ columns[c].kind \in {"fixed", "inplace", "array"}
      /\ columns[c].align \in {1, 2, 4, 8} /\ columns[c].length \in Nat
  <2>1. c \in 1 .. NumColumns
    BY <1>0, <1>1, <1>2 DEF MoreToBind
  <2>2. columns[c].kind \in {"fixed", "inplace", "array"}
    BY <1>0, <1>1 DEF MoreToBind, Bindable
  <2> QED
    BY <2>1, <2>2, TypesLaw DEF IInv
<1>4. begin = IF offsets = <<>> THEN 0 ELSE LastOffset
  BY <1>1, OffsetsLaw DEF IInv
<1>5. begin \in Nat
  BY <1>1, <1>2, OffsetsLaw DEF IInv
<1>6. offsets' = Append(offsets, end) /\ table' = [d \in DOMAIN table \cup {c} |->
         IF d = c THEN SlotAt(begin, columns[c].align, columns[c].length) ELSE table[d]]
  BY <1>0, <1>4 DEF BindColumn
<1> HIDE DEF begin, end
<1>7. end \in Nat /\ begin < end
  <2>1. /\ EndOfSlot(begin, columns[c].align, columns[c].length) \in Nat
        /\ begin < EndOfSlot(begin, columns[c].align, columns[c].length)
    <3> DEFINE align == columns[c].align
               length == columns[c].length
    <3>1. /\ word \in {4, 8} /\ begin \in Nat /\ align \in {1, 2, 4, 8} /\ length \in Nat
      BY <1>2, <1>3, <1>5
    <3> HIDE DEF align, length
    <3>2. EndOfSlot(begin, align, length) \in Nat /\ begin < EndOfSlot(begin, align, length)
      BY <3>1, SlotLaw
    <3> QED
      BY <3>2 DEF align, length
  <2> QED
    BY <2>1 DEF end
<1>8. /\ Count' = c
      /\ \A d \in 0 .. n : MemberOffset(d)' = MemberOffset(d)
      /\ MemberOffset(c)' = end
      /\ bookmarks => offsets'[1] = offsets[1]
  BY <1>1, <1>6, <1>7, AppendLaw DEF IInv
<1>9. TypeInv' /\ PhaseInv'
  BY <1>1, <1>2, <1>3, <1>6, <1>7, <1>8 DEF IInv, TypeInv, PhaseInv
<1>10. ASSUME NEW d \in 1 .. n
       PROVE  d \in 0 .. n /\ d - 1 \in 0 .. n /\ FirstSlot(d)' = FirstSlot(d)
  <2>1. d \in 0 .. n /\ d - 1 \in 0 .. n
    BY <1>2
  <2> QED
    BY <1>1, <1>8, <2>1 DEF FirstSlot, SlotAt, ValueOffset, RoundUp
<1>11. n = c - 1 /\ c # n /\ \A d \in 1 .. c : d = c \/ d \in 1 .. n
  BY <1>2
<1>12. OffsetsInv'
  <2>1. BookmarkEnd' = BookmarkEnd
    BY <1>1 DEF BookmarkEnd
  <2>2. ASSUME NEW d \in 1 .. c
        PROVE  /\ columns[d].kind \in {"fixed", "inplace", "array"}
               /\ MemberOffset(d)' =
                     EndOfSlot(MemberOffset(d - 1), columns[d].align, columns[d].length)'
    <3>1. MemberOffset(d - 1)' = MemberOffset(d - 1)
      <4>1. d - 1 \in 0 .. n
        BY <1>2
      <4> QED
        BY <1>8, <4>1
    <3>2. EndOfSlot(MemberOffset(d - 1), columns[d].align, columns[d].length)'
             = EndOfSlot(MemberOffset(d - 1), columns[d].align, columns[d].length)
      BY <1>1, <3>1 DEF EndOfSlot, ValueOffset, RoundUp
    <3>3. CASE d = c
      BY <1>3, <1>8, <1>11, <3>2, <3>3 DEF begin, end
    <3>4. CASE d \in 1 .. n
      BY <1>1, <1>8, <1>10, <3>2, <3>4 DEF IInv, OffsetsInv
    <3> QED
      BY <1>11, <3>3, <3>4
  <2>3. ASSUME NEW d \in 0 .. c, NEW e \in 0 .. c, d < e
        PROVE  MemberOffset(d)' < MemberOffset(e)'
    <3>1. d \in 0 .. n /\ MemberOffset(d) \in Nat /\ MemberOffset(d)' = MemberOffset(d)
      <4>1. d \in 0 .. n
        BY <1>2, <2>3
      <4> QED
        BY <1>1, <1>8, <4>1, OffsetsLaw DEF IInv
    <3>2. CASE e = c
      <4>1. MemberOffset(d) = begin \/ MemberOffset(d) < begin
        <5>1. d = n \/ d < n
          BY <1>2, <3>1
        <5>2. n \in 0 .. n
          BY <1>2
        <5> QED
          BY <1>1, <3>1, <5>1, <5>2 DEF begin, IInv, OffsetsInv
      <4> QED
        BY <1>5, <1>7, <1>8, <3>1, <3>2, <4>1
    <3>3. CASE e # c
      <4>1. e \in 0 .. n
        BY <1>2, <3>3
      <4> QED
        BY <1>1, <1>8, <2>3, <3>1, <4>1 DEF IInv, OffsetsInv
    <3> QED
      BY <3>2, <3>3
  <2> QED
    BY <1>1, <1>8, <2>1, <2>2, <2>3 DEF IInv, OffsetsInv
<1>13. TableInv'
  <2>1. BookmarkSlot' = BookmarkSlot
    BY <1>1 DEF BookmarkSlot
  <2>2. DOMAIN table = BoundUpTo(n) /\ BoundUpTo(c)' = BoundUpTo(n) \cup {c}
    BY <1>0, <1>1, <1>2 DEF IInv, TableInv, BoundUpTo
  <2>3. DOMAIN table' = BoundUpTo(c)'
    BY <1>6, <2>2
  <2>4. 0 \in DOMAIN table' => table'[0] = BookmarkSlot
    <3>1. c # 0
      BY <1>3
    <3> QED
      BY <1>6, <3>1 DEF IInv, TableInv
  <2>5. FirstSlot(c)' = SlotAt(begin, columns[c].align, columns[c].length)
    <3>1. MemberOffset(c - 1)' = begin
      <4>1. n \in 0 .. n
        BY <1>2
      <4> QED
        BY <1>8, <1>11, <4>1 DEF begin
    <3> QED
      BY <1>1, <3>1 DEF FirstSlot, SlotAt, ValueOffset, RoundUp
  <2>6. ASSUME NEW d \in DOMAIN table' \ {0} PROVE table'[d] = FirstSlot(d)'
    <3>1. CASE d = c
      BY <1>6, <2>5, <3>1
    <3>2. CASE d # c
      <4>1. d \in DOMAIN table \ {0} /\ table'[d] = table[d]
        BY <1>6, <3>2
      <4>2. d \in 1 .. n
        BY <2>2, <4>1 DEF BoundUpTo
      <4> QED
        BY <1>1, <1>10, <4>1, <4>2 DEF IInv, TableInv
    <3> QED
      BY <3>1, <3>2
  <2> QED
    BY <1>1, <2>1, <2>3, <2>4, <2>6 DEF TableInv
<1>14. FirstInv'
  BY <1>1 DEF FirstInv
<1> QED
  BY <1>9, <1>12, <1>13, <1>14 DEF IInv

(* What bind has told the driver is what has to be restored.               *)
LEMMA BindDoneKeeps == IInv /\ BindDone => IInv'
<1> SUFFICES ASSUME IInv, BindDone PROVE IInv'
  OBVIOUS
<1>1. /\ UNCHANGED <<word, bookmarks, columns, bound, offsets, table>>
      /\ phase = "bind" /\ phase' = "bound" /\ Count = bound /\ stride = 0
      /\ Count \in 0 .. NumColumns
  BY DEF BindDone, IInv, PhaseInv
<1>2. /\ stride' = IF offsets = <<>> THEN 0 ELSE LastOffset * word
      /\ first' = [table |-> table, stride |-> stride']
  BY <1>1 DEF BindDone
<1>3. stride' \in Nat /\ word \in {4, 8}
  BY <1>1, <1>2, OffsetsLaw, TypesLaw DEF IInv
<1>4. TypeInv' /\ PhaseInv'
  BY <1>1, <1>3, SameOffsetsLaw DEF IInv, TypeInv, PhaseInv
<1>5. OffsetsInv'
  BY <1>1, SameOffsetsLaw DEF IInv, OffsetsInv
<1>6. TableInv'
  BY <1>1, SameOffsetsLaw DEF IInv, TableInv
<1>7. FirstInv'
  BY <1>1, <1>2, SameOffsetsLaw DEF IInv, FirstInv, TableInv
<1> QED
  BY <1>4, <1>5, <1>6, <1>7 DEF IInv

(* To delete, the driver is told of bookmarks only.                        *)
LEMMA BindBookmarkArrayKeeps == IInv /\ BindBookmarkArray => IInv'
<1> SUFFICES ASSUME IInv, BindBookmarkArray PROVE IInv'
  OBVIOUS
<1>1. /\ UNCHANGED <<word, bookmarks, columns, bound, offsets, first>>
      /\ phase = "bound" /\ phase' = "deleting" /\ bookmarks
      /\ table' = [c \in {0} |-> BookmarkSlot] /\ stride' = SizeOfBookmark
  BY DEF BindBookmarkArray
<1>2. word \in {4, 8} /\ SizeOfBookmark \in Nat /\ SizeOfBookmark' = SizeOfBookmark
  <2>1. word \in {4, 8}
    BY TypesLaw DEF IInv
  <2> QED
    BY <1>1, <2>1, BookmarkLaw DEF SizeOfBookmark, RoundUp
<1>3. TypeInv' /\ PhaseInv'
  BY <1>1, <1>2, SameOffsetsLaw DEF IInv, TypeInv, PhaseInv
<1>4. OffsetsInv'
  BY <1>1, SameOffsetsLaw DEF IInv, OffsetsInv
<1>5. TableInv'
  BY <1>1, SameOffsetsLaw DEF IInv, TableInv
<1>6. FirstInv'
  BY <1>1, SameOffsetsLaw DEF IInv, FirstInv
<1> QED
  BY <1>3, <1>4, <1>5, <1>6 DEF IInv

(* Binding again begins with the bookmark, and may end with it.            *)
LEMMA RebindStartKeeps == IInv /\ RebindStart => IInv'
<1> SUFFICES ASSUME IInv, RebindStart PROVE IInv'
  OBVIOUS
<1>1. /\ UNCHANGED <<word, bookmarks, columns, offsets, stride, first>>
      /\ phase = "deleting" /\ bookmarks /\ bound' = 0
      /\ table' = [c \in {0} |-> BookmarkSlot] /\ stride = SizeOfBookmark
      /\ Count \in 0 .. NumColumns
  BY DEF RebindStart, IInv, PhaseInv
<1>2. word \in {4, 8} /\ NumColumns \in Nat /\ SizeOfBookmark' = SizeOfBookmark
  BY <1>1, TypesLaw DEF IInv, SizeOfBookmark, RoundUp
<1>3. phase' = IF Count # 0 THEN "rebind" ELSE "bound"
  <2>1. Len(offsets) \in Nat /\ Count = Len(offsets) - 1
    BY <1>1 DEF Count, IInv, TypeInv
  <2> QED
    BY <2>1 DEF RebindStart
<1>4. TypeInv' /\ PhaseInv'
  BY <1>1, <1>2, <1>3, SameOffsetsLaw DEF IInv, TypeInv, PhaseInv
<1>5. OffsetsInv'
  BY <1>1, <1>3, SameOffsetsLaw DEF IInv, OffsetsInv
<1>6. TableInv'
  <2>1. DOMAIN table' = {0} /\ table'[0] = BookmarkSlot /\ BoundUpTo(0)' = {0}
    BY <1>1 DEF BoundUpTo
  <2>2. Count = 0 => BoundUpTo(Count)' = {0}
    BY <1>1, <2>1, SameOffsetsLaw DEF BoundUpTo
  <2> QED
    BY <1>1, <1>3, <2>1, <2>2, SameOffsetsLaw DEF TableInv
<1>7. FirstInv'
  <2>1. Count = 0 => stride = first.stride
    <3> SUFFICES ASSUME Count = 0 PROVE stride = first.stride
      OBVIOUS
    <3>1. offsets # <<>> /\ LastOffset = BookmarkEnd
      BY <1>1, OffsetsLaw DEF IInv, OffsetsInv
    <3> QED
      BY <1>1, <1>2, <3>1, BookmarkLaw DEF IInv, FirstInv
  <2> QED
    BY <1>1, <1>3, <2>1, SameOffsetsLaw DEF IInv, FirstInv
<1> QED
  BY <1>4, <1>5, <1>6, <1>7 DEF IInv

(* The columns follow, until the last offset is reached.                   *)
LEMMA RebindColumnKeeps == IInv /\ RebindColumn => IInv'
<1> SUFFICES ASSUME IInv, RebindColumn PROVE IInv'
  OBVIOUS
<1>0. PICK n \in 0 .. NumColumns : n = bound
  BY DEF IInv, TypeInv
<1> DEFINE c == n + 1
<1>1. /\ UNCHANGED <<word, bookmarks, columns, offsets, first>>
      /\ phase = "rebind" /\ bookmarks /\ bound' = c /\ n < Count
      /\ Count \in 0 .. NumColumns /\ stride = SizeOfBookmark
      /\ phase' = IF MemberOffset(c) # LastOffset THEN "rebind" ELSE "bound"
      /\ stride' = IF MemberOffset(c) # LastOffset THEN stride ELSE LastOffset * word
      /\ table' = [d \in DOMAIN table \cup {c} |-> IF d = c THEN SecondSlot(c) ELSE table[d]]
  <2>1. c - 1 = n
    OBVIOUS
  <2> QED
    BY <1>0, <2>1 DEF RebindColumn, IInv, PhaseInv, SecondSlot
<1>2. word \in {4, 8} /\ NumColumns \in Nat /\ n \in Nat /\ SizeOfBookmark' = SizeOfBookmark
  BY <1>1, TypesLaw DEF IInv, SizeOfBookmark, RoundUp
<1>3. /\ c \in 1 .. Count /\ c \in 0 .. Count /\ c \in 1 .. NumColumns
      /\ offsets # <<>> /\ LastOffset = MemberOffset(Count) /\ LastOffset \in Nat
      /\ \A d \in 0 .. Count : MemberOffset(d) \in Nat
  BY <1>1, <1>2, OffsetsLaw DEF IInv
<1>4. MemberOffset(c) # LastOffset <=> c # Count
  <2>1. c # Count => MemberOffset(c) < MemberOffset(Count)
    BY <1>1, <1>2, <1>3 DEF IInv, OffsetsInv
  <2> QED
    BY <1>1, <1>3, <2>1
<1>5. phase' = IF c # Count THEN "rebind" ELSE "bound"
  BY <1>1, <1>4
<1>6. TypeInv' /\ PhaseInv'
  <2>1. stride' \in Nat
    BY <1>1, <1>2, <1>3 DEF IInv, TypeInv
  <2> QED
    BY <1>1, <1>2, <1>3, <1>4, <1>5, <2>1, SameOffsetsLaw DEF IInv, TypeInv, PhaseInv
<1>7. OffsetsInv'
  BY <1>1, <1>5, SameOffsetsLaw DEF IInv, OffsetsInv
<1>8. TableInv'
  <2>1. DOMAIN table = BoundUpTo(n) /\ BoundUpTo(c) = BoundUpTo(n) \cup {c}
    BY <1>0, <1>1, <1>2 DEF IInv, TableInv, BoundUpTo
  <2>2. DOMAIN table' = BoundUpTo(c)
    BY <1>1, <2>1
  <2>3. c # 0 /\ (0 \in DOMAIN table' => table'[0] = BookmarkSlot)
    BY <1>1, <1>3 DEF IInv, TableInv
  <2>4. \A d \in DOMAIN table' \ {0} : table'[d] = FirstSlot(d) \/ table'[d] = SecondSlot(d)
    BY <1>1 DEF IInv, TableInv
  <2> QED
    BY <1>1, <1>5, <2>2, <2>3, <2>4, SameOffsetsLaw DEF TableInv
<1>9. FirstInv'
  BY <1>1, <1>3, <1>4, <1>5, SameOffsetsLaw DEF IInv, FirstInv
<1> QED
  BY <1>6, <1>7, <1>8, <1>9 DEF IInv

(* Every step keeps the invariant.                                         *)
LEMMA NextKeepsIInv == IInv /\ [Next]_vars => IInv'
<1>1. ASSUME IInv, UNCHANGED vars PROVE IInv'
  <2>1. TypeInv' /\ PhaseInv' /\ OffsetsInv'
    BY <1>1, SameOffsetsLaw DEF vars, IInv, TypeInv, PhaseInv, OffsetsInv, SizeOfBookmark, RoundUp
  <2>2. TableInv' /\ FirstInv'
    BY <1>1, SameOffsetsLaw DEF vars, IInv, TableInv, FirstInv
  <2> QED
    BY <2>1, <2>2 DEF IInv
<1> QED
  BY <1>1, BindStartKeeps, BindColumnKeeps, BindDoneKeeps, BindBookmarkArrayKeeps,
     RebindStartKeeps, RebindColumnKeeps DEF Next

(* The invariant holds in every state.                                     *)
LEMMA AlwaysIInv == Spec => []IInv
BY InitHolds, NextKeepsIInv, PTL DEF Spec

-----------------------------------------------------------------------------
(* What the bindings are when binding has finished.                        *)

(* The bound columns are those with offsets.                               *)
LEMMA BoundLaw ==
    ASSUME IInv, phase = "bound"
    PROVE  /\ DOMAIN table = BoundUpTo(Count)
           /\ Count \in 0 .. NumColumns /\ NumColumns \in Nat /\ word \in {4, 8}
           /\ BoundColumns = 1 .. Count
           /\ \A c \in 1 .. Count : table[c] = FirstSlot(c) \/ table[c] = SecondSlot(c)
           /\ 0 \in DOMAIN table => bookmarks /\ table[0] = BookmarkSlot
<1>1. DOMAIN table = BoundUpTo(Count) /\ Count \in 0 .. NumColumns /\ NumColumns \in Nat
  BY LayoutAssumption DEF IInv, TableInv, PhaseInv
<1>2. BoundColumns = 1 .. Count
  BY <1>1 DEF BoundColumns, BoundUpTo
<1>3. 0 \in DOMAIN table => bookmarks /\ table[0] = BookmarkSlot
  BY <1>1 DEF BoundUpTo, IInv, TableInv
<1> QED
  BY <1>1, <1>2, <1>3, TypesLaw DEF BoundColumns, IInv, TableInv

(* Slots do not overlap, neither as bound first nor as bound again.        *)
LEMMA SlotsApart ==
    ASSUME IInv, phase = "bound"
    PROVE  SlotsDisjoint
<1>1. /\ DOMAIN table = BoundUpTo(Count) /\ BoundColumns = 1 .. Count
      /\ Count \in 0 .. NumColumns /\ NumColumns \in Nat /\ word \in {4, 8}
      /\ \A c \in 1 .. Count : table[c] = FirstSlot(c) \/ table[c] = SecondSlot(c)
      /\ 0 \in DOMAIN table => bookmarks /\ table[0] = BookmarkSlot
  BY BoundLaw
<1> DEFINE Bytes(c) == MemberOffset(c) * word
<1>2. ASSUME NEW c \in DOMAIN table
      PROVE  /\ c \in 0 .. Count /\ Bytes(c) \in Nat /\ SlotEnd(c) \in Nat
             /\ table[c].indicator + word <= table[c].value
             /\ SlotEnd(c) <= Bytes(c)
             /\ c # 0 => table[c].indicator = Bytes(c - 1)
  <2>1. CASE c = 0
    <3>1. MemberOffset(0) = BookmarkEnd
      BY <1>1, <2>1, OffsetsLaw DEF IInv, OffsetsInv
    <3> QED
      BY <1>1, <2>1, <3>1, BookmarkLaw DEF SlotEnd, Slot
  <2>2. CASE c # 0
    <3>1. c \in 1 .. Count
      BY <1>1, <2>2 DEF BoundColumns
    <3>2. /\ table[c] \in Slot /\ table[c].indicator = Bytes(c - 1)
          /\ table[c].indicator + word <= table[c].value
          /\ table[c].value + table[c].length <= Bytes(c)
      BY <1>1, <3>1, ColumnLaw
    <3>3. MemberOffset(c) \in Nat
      BY <3>1, ColumnLaw
    <3>4. Bytes(c) \in Nat
      BY <1>1, <3>3
    <3> HIDE DEF Bytes
    <3> QED
      BY <1>1, <3>1, <3>2, <3>4 DEF SlotEnd, Slot
  <2> QED
    BY <2>1, <2>2
<1>3. ASSUME NEW c \in 0 .. Count, NEW d \in 0 .. Count, c <= d
      PROVE  Bytes(c) <= Bytes(d) /\ Bytes(c) \in Nat /\ Bytes(d) \in Nat
  <2>1. MemberOffset(c) \in Nat /\ MemberOffset(d) \in Nat
    BY <1>1, OffsetsLaw DEF IInv
  <2>2. c = d \/ c < d
    BY <1>1, <1>3
  <2>3. MemberOffset(c) <= MemberOffset(d)
    BY <2>1, <2>2 DEF IInv, OffsetsInv
  <2> QED
    BY <1>1, <2>1, <2>3
<1>4. ASSUME NEW c \in DOMAIN table PROVE SlotEnd(c) <= stride
  <2>1. offsets # <<>> /\ LastOffset = MemberOffset(Count)
    BY <1>1, <1>2, <1>4, OffsetsLaw DEF IInv, BoundUpTo
  <2>2. stride = Bytes(Count)
    BY <2>1 DEF IInv, FirstInv
  <2>3. c \in 0 .. Count /\ Count \in 0 .. Count /\ c <= Count
    BY <1>1, <1>2
  <2>4. SlotEnd(c) <= Bytes(c) /\ Bytes(c) <= Bytes(Count)
    BY <1>2, <1>3, <2>3
  <2> QED
    BY <1>2, <1>3, <2>2, <2>3, <2>4
<1>5. ASSUME NEW c \in DOMAIN table, NEW d \in DOMAIN table, c < d
      PROVE  SlotEnd(c) <= table[d].indicator
  <2>1. c \in 0 .. Count /\ d \in 0 .. Count /\ d # 0 /\ d - 1 \in 0 .. Count /\ c <= d - 1
    BY <1>1, <1>2, <1>5
  <2>2. Bytes(c) <= Bytes(d - 1) /\ Bytes(d - 1) \in Nat
    BY <1>3, <2>1
  <2> QED
    BY <1>2, <2>1, <2>2
<1> QED
  BY <1>2, <1>4, <1>5 DEF SlotsDisjoint

(* Binding again restores the bindings from offsets_ alone.                *)
LEMMA SlotsComeBack ==
    ASSUME IInv, phase = "bound"
    PROVE  RebindRestores
<1>1. /\ DOMAIN table = BoundUpTo(Count) /\ BoundColumns = 1 .. Count
      /\ \A c \in 1 .. Count : table[c] = FirstSlot(c) \/ table[c] = SecondSlot(c)
      /\ 0 \in DOMAIN table => bookmarks /\ table[0] = BookmarkSlot
      /\ word \in {4, 8}
  BY BoundLaw
<1>2. /\ stride = first.stride /\ DOMAIN first.table = BoundUpTo(Count)
      /\ 0 \in DOMAIN first.table => first.table[0] = BookmarkSlot
      /\ \A c \in DOMAIN first.table \ {0} : first.table[c] = FirstSlot(c)
  BY DEF IInv, FirstInv
<1>3. ASSUME NEW c \in DOMAIN table
      PROVE  /\ table[c].indicator = first.table[c].indicator
             /\ table[c].value = first.table[c].value
             /\ table[c].length >= first.table[c].length
  <2>1. CASE c = 0
    <3>1. table[c] = BookmarkSlot /\ first.table[c] = BookmarkSlot /\ BookmarkSlot.length \in Nat
      BY <1>1, <1>2, <2>1, BookmarkLaw DEF Slot
    <3> QED
      BY <3>1
  <2>2. CASE c # 0
    <3>1. c \in 1 .. Count /\ first.table[c] = FirstSlot(c)
      BY <1>1, <1>2, <2>2 DEF BoundColumns
    <3>2. /\ table[c].indicator = FirstSlot(c).indicator /\ table[c].value = FirstSlot(c).value
          /\ columns[c].length <= table[c].length /\ FirstSlot(c).length = columns[c].length
          /\ table[c].length \in Nat /\ FirstSlot(c).length \in Nat
      BY <1>1, <3>1, ColumnLaw DEF Slot
    <3> QED
      BY <3>1, <3>2
  <2> QED
    BY <2>1, <2>2
<1> QED
  BY <1>1, <1>2, <1>3 DEF RebindRestores

(* What bulk_fetch() and construct make of the number of offsets.          *)
LEMMA BulkFetchLaw ==
    ASSUME IInv, phase = "bound"
    PROVE  BulkFetchMeansBound
<1>1. /\ Count \in 0 .. NumColumns /\ NumColumns \in Nat \ {0}
      /\ \A c \in 1 .. NumColumns : c \in DOMAIN table <=> c <= Count
      /\ bookmarks => 0 \in DOMAIN table
      /\ Len(offsets) = Count + (IF bookmarks THEN 1 ELSE 0)
  <2>1. DOMAIN table = BoundUpTo(Count) /\ Count \in 0 .. NumColumns
    BY BoundLaw
  <2>2. Len(offsets) = Count + (IF bookmarks THEN 1 ELSE 0)
    BY DEF Count, IInv, TypeInv
  <2> QED
    BY <2>1, <2>2, LayoutAssumption DEF BoundUpTo
<1>2. ASSUME NEW c \in 1 .. NumColumns
      PROVE  ReadsRow(c) <=> c \in DOMAIN table \/ (bookmarks /\ c - 1 \in DOMAIN table)
  <2>1. bookmarks => (c - 1 \in DOMAIN table <=> c <= Count + 1)
    <3>1. c = 1 \/ c - 1 \in 1 .. NumColumns
      BY <1>1
    <3> QED
      BY <1>1, <3>1
  <2> QED
    BY <1>1, <2>1 DEF ReadsRow
<1>3. BulkFetch <=> \A c \in 1 .. NumColumns : ReadsRow(c)
  <2>1. NumColumns \in 1 .. NumColumns /\ Len(offsets) \in Nat
    BY <1>1
  <2> QED
    BY <1>1, <2>1 DEF BulkFetch, ReadsRow
<1> QED
  BY <1>2, <1>3 DEF BulkFetchMeansBound

-----------------------------------------------------------------------------
(* Rows.                                                                   *)

(* A flyweight finds the value of a column behind its indicator, with room *)
(* up to the end of the slot; and at the driver's place, unless the        *)
(* alignment is greater than that of a word.                               *)
LEMMA ValueLaw ==
    ASSUME IInv, phase = "bound", NEW c \in BoundColumns, NEW row \in RowAddress
    PROVE  /\ c \in 1 .. NumColumns /\ word \in {4, 8}
           /\ Begin(c) \in Nat /\ End(c) \in Nat /\ Begin(c) * word \in Nat /\ End(c) * word \in Nat
           /\ (Begin(c) + 1) * word = Begin(c) * word + word
           /\ ValueAt(row, c) \in Nat
           /\ (Begin(c) + 1) * word <= ValueAt(row, c)
           /\ Room(c) \in Nat /\ ValueAt(row, c) + Room(c) <= End(c) * word
           /\ table[c] \in Slot /\ table[c].indicator = Begin(c) * word
           /\ table[c].indicator < table[c].value
           /\ columns[c].length \in Nat /\ columns[c].length <= table[c].length
           /\ columns[c].align <= word => ValueAt(row, c) = table[c].value
           /\ columns[c].kind # "array" => Room(c) = columns[c].length
           /\ columns[c].kind \in {"fixed", "inplace", "array"}
           /\ Width(c) \in Nat \ {0}
<1> DEFINE begin == MemberOffset(c - 1)
           end == MemberOffset(c)
           align == columns[c].align
           length == columns[c].length
           value == ValueOffset((begin + 1) * word, align) - word
<1>1. /\ word \in {4, 8} /\ c \in 1 .. Count /\ c \in 1 .. NumColumns
      /\ table[c] = FirstSlot(c) \/ table[c] = SecondSlot(c)
  BY BoundLaw
<1>2. /\ begin \in Nat /\ end \in Nat /\ begin < end
      /\ \A s \in {FirstSlot(c), SecondSlot(c)} :
            /\ s \in Slot /\ s.indicator = begin * word /\ s.value = value
            /\ s.indicator + word <= s.value /\ length <= s.length
      /\ FirstSlot(c).length = length
      /\ FirstSlot(c).value + FirstSlot(c).length + word <= end * word
  BY <1>1, ColumnLaw
<1>3. /\ align \in {1, 2, 4, 8} /\ length \in Nat
      /\ columns[c].kind = "array" => align <= word
      /\ columns[c].kind \in {"fixed", "inplace", "array"}
  BY <1>1, TypesLaw DEF IInv, OffsetsInv
<1>4. /\ begin * word \in Nat /\ end * word \in Nat
      /\ (begin + 1) * word = begin * word + word
      /\ (begin + 2) * word = begin * word + word + word
      /\ begin + 1 \in Nat /\ begin + 2 \in Nat
  BY <1>1, <1>2
<1>5. Begin(c) = begin /\ End(c) = end
  BY DEF Begin, End
<1>6. /\ table[c] \in Slot /\ table[c].indicator = begin * word /\ table[c].value = value
      /\ table[c].indicator + word <= table[c].value /\ length <= table[c].length
      /\ value \in Nat /\ value + length + word <= end * word
  BY <1>1, <1>2 DEF Slot
<1> DEFINE at == row + begin * word + word
<1>7. /\ at \in Nat /\ row \in Nat /\ row \in {0, word}
      /\ at = (begin + 1) * word \/ at = (begin + 2) * word
      /\ row = 0 => at = (begin + 1) * word
      /\ row = word => at = (begin + 2) * word
  BY <1>1, <1>4 DEF RowAddress
<1>8. ValueAt(row, c) = RoundUp(at, align) - row
  BY <1>5 DEF ValueAt, FlyweightValue, ValueOffset
<1>9. value = RoundUp((begin + 2) * word, align) - word
  BY <1>4 DEF ValueOffset
<1> HIDE DEF at, begin, end, align, length, value
<1>10. RoundUp(at, align) \in Nat /\ at <= RoundUp(at, align)
  BY <1>3, <1>7, RoundUpLaw
<1>11. ValueAt(row, c) \in Nat /\ (begin + 1) * word <= ValueAt(row, c)
  <2>1. CASE row = 0
    BY <1>4, <1>7, <1>8, <1>10, <2>1
  <2>2. CASE row = word
    BY <1>1, <1>4, <1>7, <1>8, <1>10, <2>2
  <2> QED
    BY <1>7, <2>1, <2>2
<1>12. align <= word => ValueAt(row, c) = (begin + 1) * word /\ value = (begin + 1) * word
  <2> SUFFICES ASSUME align <= word
               PROVE  ValueAt(row, c) = (begin + 1) * word /\ value = (begin + 1) * word
    OBVIOUS
  <2>1. /\ RoundUp((begin + 1) * word, align) = (begin + 1) * word
        /\ RoundUp((begin + 2) * word, align) = (begin + 2) * word
    BY <1>1, <1>3, <1>4, WordsAligned
  <2>2. CASE row = 0
    BY <1>1, <1>4, <1>7, <1>8, <1>9, <2>1, <2>2
  <2>3. CASE row = word
    BY <1>1, <1>4, <1>7, <1>8, <1>9, <2>1, <2>3
  <2> QED
    BY <1>7, <2>2, <2>3
<1>13. ValueAt(row, c) <= value + word
  <2> DEFINE further == (begin + 2) * word
  <2>1. further \in Nat /\ at <= further /\ value = RoundUp(further, align) - word
    <3>1. (begin + 1) * word \in Nat /\ (begin + 1) * word <= further /\ further \in Nat
      BY <1>1, <1>4
    <3> QED
      BY <1>7, <1>9, <3>1
  <2> HIDE DEF further
  <2>4. RoundUp(further, align) \in Nat /\ RoundUp(at, align) <= RoundUp(further, align)
    BY <1>3, <1>7, <2>1, RoundUpLaw, RoundUpGrows
  <2>2. CASE row = 0
    BY <1>1, <1>8, <1>10, <2>1, <2>2, <2>4
  <2>3. CASE row = word
    BY <1>1, <1>7, <1>8, <1>9, <2>1, <2>3
  <2> QED
    BY <1>7, <2>2, <2>3
<1>14. /\ Room(c) \in Nat /\ ValueAt(row, c) + Room(c) <= end * word
       /\ columns[c].kind # "array" => Room(c) = length
       /\ Width(c) \in Nat \ {0}
  <2>1. CASE columns[c].kind # "array"
    <3>1. Room(c) = length /\ Width(c) = 1
      BY <2>1 DEF Room, Width, length
    <3> QED
      BY <1>1, <1>3, <1>4, <1>6, <1>11, <1>13, <3>1
  <2>2. CASE columns[c].kind = "array"
    <3>1. Room(c) = ((end - begin - 1) * word) \div align /\ Width(c) = align
      BY <1>5, <2>2 DEF Room, Capacity, Width, align
    <3>2. (end - begin - 1) * word \in Nat
          /\ (begin + 1) * word + (end - begin - 1) * word = end * word
      <4>1. CASE word = 4
        BY <1>2, <4>1
      <4>2. CASE word = 8
        BY <1>2, <4>2
      <4> QED
        BY <1>1, <4>1, <4>2
    <3>3. Room(c) \in Nat /\ Room(c) <= (end - begin - 1) * word
      <4> DEFINE space == (end - begin - 1) * word
      <4>1. space \in Nat
        BY <3>2
      <4> HIDE DEF space
      <4>2. space \div align \in Nat /\ space \div align <= space
        BY <1>3, <4>1
      <4> QED
        BY <3>1, <4>2 DEF space
    <3>4. ValueAt(row, c) = (begin + 1) * word
      BY <1>3, <1>12, <2>2
    <3>5. ValueAt(row, c) + Room(c) <= end * word
      <4> DEFINE space == (end - begin - 1) * word
                 start == (begin + 1) * word
                 finish == end * word
      <4>1. start \in Nat /\ start + space = finish /\ space \in Nat
        BY <1>1, <1>4, <3>2
      <4>2. ValueAt(row, c) = start /\ Room(c) <= space /\ Room(c) \in Nat
        BY <3>3, <3>4
      <4> HIDE DEF space, start, finish
      <4>3. ValueAt(row, c) + Room(c) <= finish
        BY <4>1, <4>2
      <4> QED
        BY <4>3 DEF finish
    <3>6. Width(c) \in Nat \ {0}
      BY <1>3, <3>1
    <3> QED
      BY <2>2, <3>3, <3>5, <3>6
  <2> QED
    BY <2>1, <2>2
<1> QED
  BY <1>1, <1>2, <1>3, <1>4, <1>5, <1>6, <1>11, <1>12, <1>14 DEF begin, end, align, length

(* A value to be assigned or fetched.                                      *)
LEMMA SizeLaw ==
    ASSUME NEW c, NEW max \in Nat, NEW v \in Values(c, max), columns[c].length \in Nat
    PROVE  /\ v.null \in BOOLEAN /\ v.size \in Nat
           /\ v.null => v.size = 0
           /\ columns[c].kind = "fixed" /\ ~v.null => v.size = columns[c].length
           /\ columns[c].kind # "fixed" => v.size <= max
<1>1. CASE v = [null |-> TRUE, size |-> 0]
  BY <1>1
<1>2. CASE v # [null |-> TRUE, size |-> 0]
  <2>1. PICK n \in IF columns[c].kind = "fixed" THEN {columns[c].length} ELSE 0 .. max :
           v = [null |-> FALSE, size |-> n]
    BY <1>2 DEF Values
  <2>2. v.null = FALSE /\ v.size = n
    BY <2>1
  <2>3. CASE columns[c].kind = "fixed"
    BY <2>1, <2>2, <2>3
  <2>4. CASE columns[c].kind # "fixed"
    BY <2>1, <2>2, <2>4
  <2> QED
    BY <2>3, <2>4
<1> QED
  BY <1>1, <1>2

(* emplace writes into the slots of the columns only.                      *)
LEMMA AssignmentsStay ==
    ASSUME IInv, phase = "bound"
    PROVE  AssignStaysInSlot
<1> SUFFICES ASSUME NEW c \in BoundColumns, NEW v \in Values(c, Room(c) + 1),
                    NEW row \in RowAddress, NEW a \in DOMAIN Assign(c, v, row)
             PROVE  /\ a \in Begin(c) * word .. End(c) * word - 1
                    /\ a # Begin(c) * word => a >= (Begin(c) + 1) * word
  BY DEF AssignStaysInSlot
<1>1. /\ word \in {4, 8} /\ Begin(c) * word \in Nat /\ End(c) * word \in Nat
      /\ (Begin(c) + 1) * word = Begin(c) * word + word
      /\ ValueAt(row, c) \in Nat /\ (Begin(c) + 1) * word <= ValueAt(row, c)
      /\ Room(c) \in Nat /\ ValueAt(row, c) + Room(c) <= End(c) * word
      /\ columns[c].length \in Nat
  BY ValueLaw
<1>2. v.size \in Nat
  BY <1>1, SizeLaw
<1>3. Stored(c, v) \in Nat /\ Stored(c, v) <= Room(c)
  BY <1>1, <1>2 DEF Stored
<1>4. a = Begin(c) * word \/ a \in ValueAt(row, c) .. ValueAt(row, c) + Stored(c, v) - 1
  BY DEF Assign
<1> QED
  BY <1>1, <1>3, <1>4

(* What is read where an indicator and a value have been written.          *)
LEMMA ReadLaw ==
    ASSUME NEW memory, NEW indicator \in Nat, NEW value \in Nat, NEW v,
           v.null \in BOOLEAN, v.size \in Nat, v.null => v.size = 0,
           indicator \in DOMAIN memory,
           memory[indicator] = IF v.null THEN NullData ELSE v.size,
           \A i \in 1 .. v.size : value + i - 1 \in DOMAIN memory /\ memory[value + i - 1] = i
    PROVE  ReadAt(memory, indicator, value) = Whole(v)
<1> DEFINE At(a) == IF a \in DOMAIN memory THEN memory[a] ELSE 0
<1>1. At(indicator) = IF v.null THEN -1 ELSE v.size
  BY DEF NullData
<1>2. ReadAt(memory, indicator, value) = [null |-> At(indicator) = NullData,
                                          bytes |-> [i \in 1 .. At(indicator) |-> At(value + i - 1)]]
  BY DEF ReadAt
<1>3. (At(indicator) = NullData) = v.null
  BY <1>1 DEF NullData
<1>4. 1 .. At(indicator) = 1 .. v.size
  <2>1. CASE v.null
    BY <1>1, <2>1
  <2>2. CASE ~v.null
    BY <1>1, <2>2
  <2> QED
    BY <2>1, <2>2
<1>5. \A i \in 1 .. v.size : At(value + i - 1) = i
  OBVIOUS
<1> HIDE DEF At
<1>6. [i \in 1 .. At(indicator) |-> At(value + i - 1)] = [i \in 1 .. v.size |-> i]
  BY <1>4, <1>5
<1> QED
  BY <1>2, <1>3, <1>6 DEF Whole

(* A value that has been assigned is read and stored whole.                *)
LEMMA RowsComeBack ==
    ASSUME IInv, phase = "bound"
    PROVE  RowRoundTrip
<1> SUFFICES ASSUME NEW c \in BoundColumns, NEW v \in Values(c, Room(c)), NEW row \in RowAddress
             PROVE  LET memory == Assign(c, v, row)
                    IN  /\ Construct(c, memory, row) = Whole(v)
                        /\ columns[c].align <= word => DriverReads(c, memory) = Whole(v)
  BY DEF RowRoundTrip
<1> DEFINE memory == Assign(c, v, row)
           value == ValueAt(row, c)
           indicator == Begin(c) * word
<1>1. /\ word \in {4, 8} /\ indicator \in Nat
      /\ (Begin(c) + 1) * word = Begin(c) * word + word
      /\ value \in Nat /\ (Begin(c) + 1) * word <= value /\ Room(c) \in Nat
      /\ table[c].indicator = indicator
      /\ columns[c].align <= word => value = table[c].value
      /\ columns[c].length \in Nat
      /\ columns[c].kind # "array" => Room(c) = columns[c].length
  BY ValueLaw
<1>2. /\ v.null \in BOOLEAN /\ v.size \in Nat /\ v.size <= Room(c) /\ (v.null => v.size = 0)
  BY <1>1, SizeLaw
<1>3. Stored(c, v) = v.size
  BY <1>1, <1>2 DEF Stored
<1>4. memory = [a \in {indicator} \cup (IF v.null THEN {} ELSE value .. value + v.size - 1) |->
                   IF a # indicator THEN a - value + 1 ELSE IF v.null THEN NullData ELSE v.size]
  BY <1>3 DEF Assign
<1> HIDE DEF memory, value, indicator
<1>5. indicator < value
  BY <1>1 DEF indicator
<1>6. indicator \in DOMAIN memory /\ memory[indicator] = IF v.null THEN NullData ELSE v.size
  BY <1>4
<1>7. ASSUME NEW i \in 1 .. v.size
      PROVE  value + i - 1 \in DOMAIN memory /\ memory[value + i - 1] = i
  <2> DEFINE a == value + i - 1
  <2>1. ~v.null
    BY <1>2
  <2>2. a - value + 1 = i
    BY <1>1
  <2>3. a \in value .. value + v.size - 1 /\ a # indicator
    BY <1>1, <1>2, <1>5
  <2> HIDE DEF a
  <2>4. a \in DOMAIN memory /\ memory[a] = i
    BY <1>4, <2>1, <2>2, <2>3
  <2> QED
    BY <2>4 DEF a
<1>8. ReadAt(memory, indicator, value) = Whole(v)
  BY <1>1, <1>2, <1>6, <1>7, ReadLaw
<1> QED
  BY <1>1, <1>8 DEF Construct, DriverReads, memory, value, indicator

(* A value that has been fetched is read whole.                            *)
LEMMA FetchesComeBack ==
    ASSUME IInv, phase = "bound"
    PROVE  ReadsWhatDriverWrote
<1>1. ASSUME NEW c \in BoundColumns
      PROVE  ReadsRow(c)
  <2>1. c \in 1 .. Count /\ Len(offsets) \in Nat
    BY BoundLaw DEF IInv, TypeInv
  <2> QED
    BY <2>1 DEF Count, ReadsRow
<1>2. ASSUME NEW c \in BoundColumns, columns[c].align <= word,
             NEW v \in Values(c, columns[c].length), NEW row \in RowAddress,
             ~(columns[c].text /\ v.size = table[c].length)
      PROVE  Construct(c, DriverWrites(c, v), row) = Whole(v)
  <2> DEFINE memory == DriverWrites(c, v)
             value == table[c].value
             indicator == table[c].indicator
             limit == IF columns[c].text THEN table[c].length - 1 ELSE table[c].length
  <2>1. /\ indicator \in Nat /\ value \in Nat /\ indicator < value /\ table[c].length \in Nat
        /\ indicator = Begin(c) * word /\ value = ValueAt(row, c)
        /\ columns[c].length \in Nat /\ columns[c].length <= table[c].length
    BY <1>2, ValueLaw DEF Slot
  <2>2. /\ v.null \in BOOLEAN /\ v.size \in Nat /\ v.size <= columns[c].length
        /\ (v.null => v.size = 0)
    BY <2>1, SizeLaw
  <2>3. v.size <= limit \/ v.null
    BY <1>2, <2>1, <2>2
  <2> HIDE DEF limit
  <2> DEFINE n == IF v.null THEN 0 ELSE IF v.size <= limit THEN v.size ELSE limit
  <2>4. n = v.size
    BY <2>2, <2>3
  <2>5. memory = [a \in {indicator} \cup value .. value + n - 1
                      \cup (IF columns[c].text /\ ~v.null THEN {value + n} ELSE {}) |->
                     IF a = indicator THEN IF v.null THEN NullData ELSE v.size
                     ELSE IF a = value + n THEN 0 ELSE a - value + 1]
    BY DEF DriverWrites, limit
  <2> HIDE DEF n, memory, value, indicator
  <2>6. indicator \in DOMAIN memory /\ memory[indicator] = IF v.null THEN NullData ELSE v.size
    BY <2>5
  <2>7. ASSUME NEW i \in 1 .. v.size
        PROVE  value + i - 1 \in DOMAIN memory /\ memory[value + i - 1] = i
    <3> DEFINE a == value + i - 1
    <3>1. a \in value .. value + n - 1 /\ a # indicator /\ a # value + n
      BY <2>1, <2>2, <2>4
    <3>2. a - value + 1 = i
      BY <2>1
    <3> HIDE DEF a
    <3>3. a \in DOMAIN memory /\ memory[a] = i
      BY <2>5, <3>1, <3>2
    <3> QED
      BY <3>3 DEF a
  <2>8. ReadAt(memory, indicator, value) = Whole(v)
    BY <2>1, <2>2, <2>6, <2>7, ReadLaw
  <2> QED
    BY <2>1, <2>8 DEF Construct, memory
<1> QED
  BY <1>1, <1>2 DEF ReadsWhatDriverWrote

-----------------------------------------------------------------------------
(* The driver never writes one column over another or over the next row,   *)
(* as bound first and as bound again.                                      *)
THEOREM NoOverlap == Spec => []SlotsDisjoint
<1>1. IInv => SlotsDisjoint
  BY SlotsApart DEF SlotsDisjoint
<1> QED
  BY <1>1, AlwaysIInv, PTL

(* After deletes, the columns are bound as they were.                      *)
THEOREM BindingsComeBack == Spec => []RebindRestores
<1>1. IInv => RebindRestores
  BY SlotsComeBack DEF RebindRestores
<1> QED
  BY <1>1, AlwaysIInv, PTL

(* construct reads what is bound from the row, and rows are fetched many   *)
(* at once if that is every column; both one off with bookmarks.           *)
THEOREM BulkFetchIsExact == Spec => []BulkFetchMeansBound
<1>1. IInv => BulkFetchMeansBound
  BY BulkFetchLaw DEF BulkFetchMeansBound
<1> QED
  BY <1>1, AlwaysIInv, PTL

(* However long a value and wherever its row, emplace stays in its slot.   *)
THEOREM AssignmentsAreInside == Spec => []AssignStaysInSlot
<1>1. IInv => AssignStaysInSlot
  BY AssignmentsStay DEF AssignStaysInSlot
<1> QED
  BY <1>1, AlwaysIInv, PTL

(* Values that have been assigned are what is read and what is stored.     *)
THEOREM AssignedIsRead == Spec => []RowRoundTrip
<1>1. IInv => RowRoundTrip
  BY RowsComeBack DEF RowRoundTrip
<1> QED
  BY <1>1, AlwaysIInv, PTL

(* Values that have been fetched are what is read.                         *)
THEOREM FetchedIsRead == Spec => []ReadsWhatDriverWrote
<1>1. IInv => ReadsWhatDriverWrote
  BY FetchesComeBack DEF ReadsWhatDriverWrote
<1> QED
  BY <1>1, AlwaysIInv, PTL
=============================================================================
