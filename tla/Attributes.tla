----------------------------- MODULE Attributes ------------------------------
(***************************************************************************)
(* The attributes of a handle (attribute.hpp, details/attribute.hpp) and   *)
(* what a cursor makes of them (details/cursor.hpp).                       *)
(*                                                                         *)
(* A handle carries in its C++ type what has been set at the driver: a map *)
(* from attribute ids to values, here a set of records with at most one    *)
(* record per id.  What was set later replaces what was set before.        *)
(***************************************************************************)
EXTENDS Naturals

cursor_forward_only == [id |-> "cursor_type", value |-> "forward_only"]

(* Any of cursor_static, cursor_keyset_driven and cursor_dynamic.          *)
cursor_static == [id |-> "cursor_type", value |-> "static"]

nonscrollable == [id |-> "cursor_scrollable", value |-> "nonscrollable"]

scrollable == [id |-> "cursor_scrollable", value |-> "scrollable"]

concur_read_only == [id |-> "concurrency", value |-> "read_only"]

(* Any of concur_lock, concur_rowver and concur_values.                    *)
concur_lock == [id |-> "concurrency", value |-> "lock"]

bookmarks == [id |-> "use_bookmarks", value |-> "variable"]

odbc3 == [id |-> "odbc_version", value |-> "odbc3"]

mode_read_only == [id |-> "access_mode", value |-> "read_only"]

(* records_per_buffer_hint, which only the library knows about.            *)
records_per_buffer_hint == [id |-> "buffer_size_hint", value |-> "hint"]

EnvAttribute == {odbc3}

DbcAttribute == {mode_read_only}

StmtAttribute == {cursor_forward_only, cursor_static, nonscrollable, scrollable,
                  concur_read_only, concur_lock, bookmarks}

SyntheticAttribute == {records_per_buffer_hint}

Attribute == EnvAttribute \cup DbcAttribute \cup StmtAttribute \cup SyntheticAttribute

(* What may be set on a handle of a type: the rest is refused by a         *)
(* static_assert, and a synthetic attribute goes with any.                 *)
Applicable(type) ==
    SyntheticAttribute \cup
    (IF type = "env" THEN EnvAttribute ELSE IF type = "dbc" THEN DbcAttribute ELSE StmtAttribute)

-----------------------------------------------------------------------------
(* One value for an id.                                                    *)
IsMap(atts) == \A a, b \in atts : a.id = b.id => a = b

(* details::Merge: mp_map_replace for each attribute on the right.         *)
Merge(left, right) == {l \in left : \A r \in right : r.id # l.id} \cup right

Contains(atts, a) == a \in atts

IsSubset(left, right) == left \subseteq right

HasBookmarks(atts) == Contains(atts, bookmarks)

(* Slip: nonscrollable is not looked at.                                   *)
IsForwardOnlyCursorByType(atts) ==
    \/ Contains(atts, cursor_forward_only)
    \/ ~Contains(atts, scrollable) /\ ~Contains(atts, cursor_static)

IsForwardOnlyCursor(atts) ==
    \/ Contains(atts, cursor_forward_only)
    \/ Contains(atts, nonscrollable)
    \/ ~Contains(atts, scrollable) /\ ~Contains(atts, cursor_static)

IsReadOnlyCursor(atts) == Contains(atts, concur_read_only) \/ IsForwardOnlyCursor(atts)

(* Cursor and ScrollableCursorType: the class of cursor a query returns.   *)
CursorKind(atts) ==
    IF IsForwardOnlyCursor(atts) THEN "forward_only"
    ELSE IF IsReadOnlyCursor(atts) THEN "scrollable" ELSE "modifiable"
=============================================================================
