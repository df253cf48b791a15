---------------------------- MODULE MCStatement ------------------------------
(* A small instance of Statement.                                          *)
EXTENDS Statement

CONSTANTS r1, n1, n2

MCRow == {r1}

MCNewRow == {n1, n2}
=============================================================================
