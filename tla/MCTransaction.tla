---------------------------- MODULE MCTransaction ----------------------------
(* Small instances of Transaction.                                         *)
EXTENDS Transaction, TLC

CONSTANTS s1, s2, s3, w1, w2

MCScope == {s1, s2, s3}

MCWork == {w1, w2}

(* Neither scopes nor statements are told apart.                           *)
Symmetry == Permutations(MCScope) \cup Permutations(MCWork)
=============================================================================
