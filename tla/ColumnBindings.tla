--------------------------- MODULE ColumnBindings ----------------------------
(***************************************************************************)
(* DynamicBindings (bindings/columns.hpp), DynamicLayout and the flyweights *)
(* (bindings/flyweight.hpp), VarBookmark::bind (details/bookmark.hpp).     *)
(*                                                                         *)
(* A row of a dynamically bound cursor is a block of SQLLEN words.  Binding *)
(* gives the columns their slots in the row one after another, up to the   *)
(* first one whose length is unknown or too big; the rest is read with     *)
(* SQLGetData.  The library remembers only where each slot ends (offsets_, *)
(* in words); the driver's own binding table says where it writes.  To     *)
(* delete rows, ModifiableCursor unbinds everything, binds an array of     *)
(* bookmarks and afterwards binds the columns again from offsets_ alone.   *)
(*                                                                         *)
(* Addresses are in bytes and relative to the row.  The code passes them   *)
(* one word higher, because a null address would unbind a column, and      *)
(* UtilityCursor::fetch2 takes the word off again.                         *)
(***************************************************************************)
EXTENDS Integers, Sequences

CONSTANTS
    NumColumns,      \* length of the fusion sequence
    Type,            \* what a column can be
    Word,            \* sizes of SQLLEN in the supported builds
    MaxBindable      \* max_bindable_data_size

BookmarkLength == 10

NullData == -1   \* SQL_NULL_DATA

(* A column of fixed size, a T[N], one whose size the driver describes     *)
(* (strings, vectors), or one that is not bound (NoBind); its length in    *)
(* bytes, the size and alignment of its elements, and whether the driver   *)
(* terminates it.  A static_assert in FlyweightArray keeps the elements of *)
(* an array from an alignment greater than that of SQLLEN.                 *)
Column == [kind : {"fixed", "inplace", "array", "none"}, length : Nat, align : Nat \ {0},
           text : BOOLEAN]

ASSUME LayoutAssumption ==
    /\ NumColumns \in Nat \ {0}
    /\ Type \subseteq Column
    /\ Word \subseteq {4, 8}
    /\ \A t \in Type : t.align \in {1, 2, 4, 8} /\ (t.kind = "inplace" => t.align = 1)
    /\ \A t \in Type, w \in Word : t.kind = "array" => t.align <= w
    /\ MaxBindable \in Nat

VARIABLES
    word,        \* sizeof(SQLLEN)
    bookmarks,   \* the cursor has the bookmarks attribute
    columns,     \* the columns of the sequence
    phase,       \* "start", "bind", "bound", "deleting" or "rebind"
    bound,       \* the columns bound so far
    offsets,     \* offsets_
    table,       \* the driver's bindings: column (0: bookmark) -> slot
    stride,      \* SQL_ATTR_ROW_BIND_TYPE
    first        \* the driver's bindings and stride when bind() had finished

vars == <<word, bookmarks, columns, phase, bound, offsets, table, stride, first>>

Slot == [indicator : Nat, value : Nat, length : Nat]

Init ==
    /\ word \in Word
    /\ bookmarks \in BOOLEAN
    /\ columns \in [1 .. NumColumns -> Type]
    /\ phase = "start"
    /\ bound = 0
    /\ offsets = <<>>
    /\ table = [c \in {} |-> 0]
    /\ stride = 0
    /\ first = [table |-> table, stride |-> 0]

-----------------------------------------------------------------------------
(* Layout.                                                                 *)

RoundUp(n, unit) == ((n + unit - 1) \div unit) * unit

(* DynamicLayout::value_offset.                                            *)
ValueOffset(indicator, align) == RoundUp(indicator + word, align)

(* What DynamicLayout::bind tells the driver for a slot that begins at     *)
(* word `begin'.                                                           *)
SlotAt(begin, align, length) ==
    [indicator |-> begin * word,
     value |-> ValueOffset((begin + 1) * word, align) - word,
     length |-> length]

(* Slip: the end of the slot is rounded down.                              *)
EndOfSlotDown(begin, align, length) ==
    (ValueOffset((begin + 1) * word, align) - word + length) \div word

(* The word DynamicLayout::bind returns as the end of the slot.  It counts *)
(* the extra word of the binding offset, so every slot has slack.          *)
EndOfSlot(begin, align, length) ==
    (ValueOffset((begin + 1) * word, align) + length + word - 1) \div word

BookmarkSlot == [indicator |-> 0, value |-> word, length |-> BookmarkLength]

SizeOfBookmark == RoundUp(word + BookmarkLength, word)

(* bind_column_dyn binds what the driver can describe and fits.            *)
Bindable(c) ==
    \/ c.kind \in {"fixed", "inplace"}
    \/ c.kind = "array" /\ c.length \in 1 .. MaxBindable

(* Slip: the slot of the bookmark is not counted.                          *)
MemberOffsetRaw(n) == IF n = 0 THEN 0 ELSE offsets[n]

(* member_offset<n>: the bookmark takes the first slot.                    *)
MemberOffset(n) ==
    IF bookmarks THEN offsets[n + 1]
    ELSE IF n = 0 THEN 0 ELSE offsets[n]

LastOffset == offsets[Len(offsets)]

(* Slip: a row with one column left to SQLGetData counts as bound.         *)
BulkFetchButOne == NumColumns <= Len(offsets) + 1

BulkFetch == NumColumns <= Len(offsets)

(* construct<c - 1> takes column c from the row, not from SQLGetData.      *)
ReadsRow(c) == Len(offsets) > c - 1

(* Where a flyweight over a slot that begins at word `begin' finds the     *)
(* value when the row is at address `row'.                                 *)
FlyweightValue(row, begin, align) == ValueOffset(row + begin * word, align) - row

(* FlyweightArray::capacity_.                                              *)
Capacity(begin, end, width) == ((end - begin - 1) * word) \div width

-----------------------------------------------------------------------------
(* Rows.  emplace assigns a row's values through flyweights, and the driver *)
(* takes them from there to add the row; value() constructs what the       *)
(* driver has fetched.  A value is null or has a size in elements, of which *)
(* byte i is the number i.  A row's memory is a function of the addresses  *)
(* in it; row is the address the row itself has.                           *)

Begin(c) == MemberOffset(c - 1)

End(c) == MemberOffset(c)

ValueAt(row, c) == FlyweightValue(row, Begin(c), columns[c].align)

(* The size of an element; a scalar is taken for a sequence of bytes.      *)
Width(c) == IF columns[c].kind = "array" THEN columns[c].align ELSE 1

(* What there is room for in the eyes of the flyweight.                    *)
Room(c) ==
    IF columns[c].kind = "array" THEN Capacity(Begin(c), End(c), Width(c)) ELSE columns[c].length

(* Slip: assign trusts the size of the value.                              *)
StoredAll(c, v) == v.size

(* The bytes assign copies of a value: as many as it has elements, or the  *)
(* flyweight has room for (an assertion of a debug build).                 *)
Stored(c, v) == IF v.size <= Room(c) THEN v.size ELSE Room(c)

(* Slip: the indicator tells the room, not the size.                       *)
AssignRoom(c, v, row) ==
    [a \in {Begin(c) * word} \cup
           (IF v.null THEN {} ELSE ValueAt(row, c) .. ValueAt(row, c) + Stored(c, v) - 1) |->
       IF a # Begin(c) * word THEN a - ValueAt(row, c) + 1
       ELSE IF v.null THEN NullData ELSE Room(c)]

(* assign: the indicator and, unless the value is null, the value itself.  *)
Assign(c, v, row) ==
    [a \in {Begin(c) * word} \cup
           (IF v.null THEN {} ELSE ValueAt(row, c) .. ValueAt(row, c) + Stored(c, v) - 1) |->
       IF a # Begin(c) * word THEN a - ValueAt(row, c) + 1
       ELSE IF v.null THEN NullData ELSE Stored(c, v)]

(* A reader that finds an indicator and a value in a row's memory, which   *)
(* is zeroed before something is assigned to it.                           *)
ReadAt(memory, indicator, value) ==
    LET At(a) == IF a \in DOMAIN memory THEN memory[a] ELSE 0
    IN  [null |-> At(indicator) = NullData,
         bytes |-> [i \in 1 .. At(indicator) |-> At(value + i - 1)]]

(* construct<c - 1>, by the flyweight's size() and value(), and cast.      *)
Construct(c, memory, row) == ReadAt(memory, Begin(c) * word, ValueAt(row, c))

(* SQLFetchScroll writes a value and its whole size, though it cuts a text *)
(* off that leaves no room for the terminator.                             *)
DriverWrites(c, v) ==
    LET limit == IF columns[c].text THEN table[c].length - 1 ELSE table[c].length
        n == IF v.null THEN 0 ELSE IF v.size <= limit THEN v.size ELSE limit
        value == table[c].value
    IN  [a \in {table[c].indicator} \cup value .. value + n - 1
               \cup (IF columns[c].text /\ ~v.null THEN {value + n} ELSE {}) |->
           IF a = table[c].indicator THEN IF v.null THEN NullData ELSE v.size
           ELSE IF a = value + n THEN 0 ELSE a - value + 1]

(* SQLBulkOperations(SQL_ADD), by the driver's own bindings.               *)
DriverReads(c, memory) == ReadAt(memory, table[c].indicator, table[c].value)

-----------------------------------------------------------------------------
(* bind<WithBookmarks>: the bookmark first, if there is one.               *)
BindStart ==
    /\ phase = "start"
    /\ phase' = "bind"
    /\ IF bookmarks
       THEN /\ table' = [c \in {0} |-> BookmarkSlot]
            /\ offsets' = <<(word + word + BookmarkLength + word - 1) \div word - 1>>
       ELSE UNCHANGED <<table, offsets>>
    /\ UNCHANGED <<word, bookmarks, columns, bound, stride, first>>

MoreToBind == bound < NumColumns /\ Bindable(columns[bound + 1])

(* bind_<bound>: a column that can be bound.                               *)
BindColumn ==
    /\ phase = "bind"
    /\ MoreToBind
    /\ LET c == columns[bound + 1]
           begin == IF offsets = <<>> THEN 0 ELSE LastOffset
       IN  /\ table' = [d \in DOMAIN table \cup {bound + 1} |->
                  IF d = bound + 1 THEN SlotAt(begin, c.align, c.length) ELSE table[d]]
           /\ offsets' = Append(offsets, EndOfSlot(begin, c.align, c.length))
    /\ bound' = bound + 1
    /\ UNCHANGED <<word, bookmarks, columns, phase, stride, first>>

(* bind_<bound>: the first column that cannot be bound, or the end.        *)
BindDone ==
    /\ phase = "bind"
    /\ ~MoreToBind
    /\ stride' = IF offsets = <<>> THEN stride ELSE LastOffset * word
    /\ first' = [table |-> table, stride |-> stride']
    /\ phase' = "bound"
    /\ UNCHANGED <<word, bookmarks, columns, bound, offsets, table>>

(* ModifiableCursor::apply_changes before it deletes: SQL_UNBIND, and an   *)
(* array of bookmarks.                                                     *)
BindBookmarkArray ==
    /\ phase = "bound"
    /\ bookmarks
    /\ table' = [c \in {0} |-> BookmarkSlot]
    /\ stride' = SizeOfBookmark
    /\ phase' = "deleting"
    /\ UNCHANGED <<word, bookmarks, columns, bound, offsets, first>>

(* rebind<true>.                                                           *)
RebindStart ==
    /\ phase = "deleting"
    /\ table' = [c \in {0} |-> BookmarkSlot]
    /\ phase' = IF Len(offsets) # 1 THEN "rebind" ELSE "bound"
    /\ bound' = 0
    /\ UNCHANGED <<word, bookmarks, columns, offsets, stride, first>>

(* The length rebind gives to the driver: a column whose length has been   *)
(* described gets the whole of its slot.                                   *)
RebindLength(c, begin, end) ==
    IF c.kind = "array" THEN end * word - ValueOffset(begin * word, c.align) ELSE c.length

(* Slip: the stride of the bookmark array stays.                           *)
RebindColumnKeepsStride ==
    /\ phase = "rebind"
    /\ LET c == columns[bound + 1]
           begin == MemberOffset(bound)
           end == MemberOffset(bound + 1)
       IN  /\ table' = [d \in DOMAIN table \cup {bound + 1} |->
                  IF d = bound + 1
                  THEN SlotAt(begin, c.align, RebindLength(c, begin, end))
                  ELSE table[d]]
           /\ phase' = IF end # LastOffset THEN "rebind" ELSE "bound"
    /\ bound' = bound + 1
    /\ UNCHANGED <<word, bookmarks, columns, offsets, stride, first>>

(* rebind_<bound>, and rebind<false>'s stride after the last one.          *)
RebindColumn ==
    /\ phase = "rebind"
    /\ LET c == columns[bound + 1]
           begin == MemberOffset(bound)
           end == MemberOffset(bound + 1)
       IN  /\ table' = [d \in DOMAIN table \cup {bound + 1} |->
                  IF d = bound + 1
                  THEN SlotAt(begin, c.align, RebindLength(c, begin, end))
                  ELSE table[d]]
           /\ phase' = IF end # LastOffset THEN "rebind" ELSE "bound"
           /\ stride' = IF end # LastOffset THEN stride ELSE LastOffset * word
    /\ bound' = bound + 1
    /\ UNCHANGED <<word, bookmarks, columns, offsets, first>>

Next ==
    \/ BindStart \/ BindColumn \/ BindDone
    \/ BindBookmarkArray \/ RebindStart \/ RebindColumn

Spec == Init /\ [][Next]_vars

-----------------------------------------------------------------------------
(* Properties.                                                             *)

SlotEnd(c) == table[c].value + table[c].length

(* The driver never writes one column over another, nor over the next row  *)
(* of the rowset, neither as bound first nor as bound again.               *)
SlotsDisjoint ==
    phase = "bound" =>
       /\ \A c \in DOMAIN table :
             /\ table[c].indicator + word <= table[c].value
             /\ SlotEnd(c) <= stride
       /\ \A c, d \in DOMAIN table : c < d => SlotEnd(c) <= table[d].indicator

(* Binding again from offsets_ alone restores what apply_changes undid:    *)
(* the same columns at the same places, as long at least, in rows of the   *)
(* same size.                                                              *)
RebindRestores ==
    phase = "bound" =>
       /\ stride = first.stride
       /\ DOMAIN table = DOMAIN first.table
       /\ \A c \in DOMAIN table :
             /\ table[c].indicator = first.table[c].indicator
             /\ table[c].value = first.table[c].value
             /\ table[c].length >= first.table[c].length

(* Where a row may be: a vector of SQLLEN is aligned to a word.            *)
RowAddress == {0, word}

BoundColumns == DOMAIN table \ {0}

(* A null, or a value of a scalar's size, or of any size up to `max'.      *)
Values(c, max) ==
    {[null |-> TRUE, size |-> 0]} \cup
    {[null |-> FALSE, size |-> n] :
       n \in IF columns[c].kind = "fixed" THEN {columns[c].length} ELSE 0 .. max}

Whole(v) == [null |-> v.null, bytes |-> [i \in 1 .. v.size |-> i]]

(* A value the driver has fetched is what construct reads from the row, not *)
(* with SQLGetData: whole, in every row, as bound first and as bound again. *)
(* Except for a text as long as its column was bound, which loses its last *)
(* character; wide characters, which are fetched as bytes; and a column    *)
(* whose alignment is greater than that of SQLLEN (a double in a 32-bit    *)
(* build), which is looked for elsewhere in every second row.              *)
ReadsWhatDriverWrote ==
    phase = "bound" =>
       \A c \in BoundColumns :
          /\ ReadsRow(c)
          /\ columns[c].align <= word /\ Width(c) = 1 =>
                \A v \in Values(c, columns[c].length), row \in RowAddress :
                   \/ Construct(c, DriverWrites(c, v), row) = Whole(v)
                   \/ columns[c].text /\ v.size = table[c].length

(* emplace writes a column's value and indicator between the words that    *)
(* offsets_ gives to the column, and nowhere else, however long the value  *)
(* and wherever the row: not over another column, the bookmark or the next *)
(* row.  So it is for elements of any size, although assign counts them    *)
(* where it copies bytes.                                                  *)
AssignStaysInSlot ==
    phase = "bound" =>
       \A c \in BoundColumns : \A v \in Values(c, Room(c) + 1), row \in RowAddress :
          \A a \in DOMAIN Assign(c, v, row) :
             /\ a \in Begin(c) * word .. End(c) * word - 1
             /\ a # Begin(c) * word => a >= (Begin(c) + 1) * word

(* A value that has been assigned is what construct reads and what the     *)
(* driver takes when it adds the row, as bound first and as bound again:   *)
(* whole if there is room for it, and null if it is null.  The driver finds *)
(* nothing where the alignment is greater than that of SQLLEN, and of wide *)
(* characters only a part has been assigned.                               *)
RowRoundTrip ==
    phase = "bound" =>
       \A c \in {d \in BoundColumns : Width(d) = 1} :
          \A v \in Values(c, Room(c)), row \in RowAddress :
             LET memory == Assign(c, v, row)
             IN  /\ Construct(c, memory, row) = Whole(v)
                 /\ columns[c].align <= word => DriverReads(c, memory) = Whole(v)

(* construct reads from the row what the driver has bound, and bulk_fetch() *)
(* lets rows be fetched many at once exactly if that is every column: none *)
(* is left to SQLGetData, which reads from one row only.  With bookmarks   *)
(* both are one off, as the bookmark is counted as a column: the first     *)
(* column that is not bound is read from the row, too.                     *)
BulkFetchMeansBound ==
    phase = "bound" =>
       /\ \A c \in 1 .. NumColumns :
             ReadsRow(c) <=> c \in DOMAIN table \/ (bookmarks /\ c - 1 \in DOMAIN table)
       /\ BulkFetch <=> \A c \in 1 .. NumColumns : ReadsRow(c)
=============================================================================
