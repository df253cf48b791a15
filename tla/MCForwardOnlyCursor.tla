------------------------ MODULE MCForwardOnlyCursor ------------------------
(* Small instances of ForwardOnlyCursor.                                   *)
EXTENDS ForwardOnlyCursor

CONSTANTS i1, i2, b1, b2, b3, b4

MCIterator == {i1, i2}

MCBufferId == {b1, b2, b3, b4}
=============================================================================
