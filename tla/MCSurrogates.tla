---------------------------- MODULE MCSurrogates -----------------------------
(* A small instance of Surrogates.                                         *)
EXTENDS Surrogates
=============================================================================
