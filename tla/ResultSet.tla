----------------------------- MODULE ResultSet -----------------------------
(***************************************************************************)
(* The ODBC driver's side of an open cursor, as odbcx drives it: a result  *)
(* of NumRows rows, numbered from 1, and one position.  The position is    *)
(* given by the row at which SQLFetchScroll(SQL_FETCH_NEXT) would start;   *)
(* NumRows + 1 stands for "after the end".                                 *)
(*                                                                         *)
(* The driver is not part of the repository.  These operators say what     *)
(* UtilityCursor::fetch (details/cursor.hpp) relies on: a rowset of at     *)
(* most SQL_ATTR_ROW_ARRAY_SIZE rows, SQL_NO_DATA when there is none, and  *)
(* the position left behind the rowset, or after the end.                  *)
(***************************************************************************)
EXTENDS Naturals

CONSTANT NumRows   \* number of rows of the result

ASSUME NumRowsAssumption == NumRows \in Nat

AfterEnd == NumRows + 1

Positions == 1 .. AfterEnd

(* The number of rows SQLFetchScroll returns when the rowset starts at     *)
(* `from' and the array size is n; 0 is SQL_NO_DATA.                       *)
RowsetSize(from, n) ==
    IF from + n <= AfterEnd THEN n
    ELSE IF from <= NumRows THEN AfterEnd - from ELSE 0

(* The position SQLFetchScroll leaves behind: behind the rowset, and after *)
(* the end when it returned SQL_NO_DATA.                                   *)
PositionAfter(from, n) ==
    IF from + n <= AfterEnd THEN from + n ELSE AfterEnd
=============================================================================
