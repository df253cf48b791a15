-------------------------- MODULE ResultSet_proofs -------------------------
(* What the fetch operators of ResultSet return, for every result size.    *)
EXTENDS ResultSet, TLAPS

(* A rowset lies inside the result and its position is the row behind it;  *)
(* SQL_NO_DATA leaves the driver after the end.  fetch_buffer computes     *)
(* pos_ as the wanted row plus the rows received, which is only right      *)
(* because of this.                                                        *)
LEMMA RowsetLaw ==
    ASSUME NEW from \in Positions, NEW n \in Nat \ {0}
    PROVE  /\ RowsetSize(from, n) \in 0 .. n
           /\ PositionAfter(from, n) \in Positions
           /\ from + RowsetSize(from, n) = PositionAfter(from, n)
           /\ RowsetSize(from, n) = 0 <=> from = AfterEnd
           /\ RowsetSize(from, n) = 0 => PositionAfter(from, n) = AfterEnd
BY NumRowsAssumption DEF RowsetSize, PositionAfter, Positions, AfterEnd
=============================================================================
