------------------------- MODULE MCScrollableCursor ------------------------
(* Small instances of ScrollableCursor.                                    *)
EXTENDS ScrollableCursor

CONSTANTS i1, i2

OneIterator == {i1}

TwoIterators == {i1, i2}
=============================================================================
