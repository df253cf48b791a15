------------------------- MODULE MCModifiableCursor --------------------------
(* Small instances of ModifiableCursor.                                    *)
EXTENDS ModifiableCursor

CONSTANTS r1, r2, n1, n2

MCRow == {r1, r2}

MCNewRow == {n1, n2}
=============================================================================
