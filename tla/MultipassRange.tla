--------------------------- MODULE MultipassRange --------------------------
(***************************************************************************)
(* What a range of forward (multi-pass) iterators promises: every iterator *)
(* is a position of its own in the same sequence of rows.  Advancing one   *)
(* leaves the others alone, a copy repeats what the original would do, and *)
(* the end is reached behind the last row and nowhere else.                *)
(*                                                                         *)
(* ScrollableCursor declares its iterators boost::forward_traversal_tag.   *)
(***************************************************************************)
EXTENDS Naturals

CONSTANTS NumRows, Iterator

VARIABLE at   \* 0: no iterator; NumRows + 1: the end; otherwise the row

Init == at = [it \in Iterator |-> 0]

Begin(it) == at[it] = 0 /\ at' = [at EXCEPT ![it] = 1]

Advance(it) == at[it] \in 1 .. NumRows /\ at' = [at EXCEPT ![it] = @ + 1]

Copy(from, to) ==
    at[from] # 0 /\ at[to] = 0 /\ at' = [at EXCEPT ![to] = at[from]]

Drop(it) == at[it] # 0 /\ at' = [at EXCEPT ![it] = 0]

Next ==
    \/ \E it \in Iterator : Begin(it) \/ Advance(it) \/ Drop(it)
    \/ \E from, to \in Iterator : Copy(from, to)

Spec == Init /\ [][Next]_at

(* A loop that goes on advancing comes to the end.                         *)
FairSpec == Spec /\ \A it \in Iterator : WF_at(Advance(it))
=============================================================================
