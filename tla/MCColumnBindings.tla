-------------------------- MODULE MCColumnBindings ---------------------------
(* Small instances of ColumnBindings.                                      *)
EXTENDS ColumnBindings

MCType ==
    {[kind |-> "fixed", length |-> n, align |-> n, text |-> FALSE] : n \in {1, 4, 8}}
       \cup {[kind |-> "fixed", length |-> 16, align |-> 4, text |-> FALSE]}
       \cup {[kind |-> "inplace", length |-> 5, align |-> 1, text |-> TRUE]}
       \cup {[kind |-> "array", length |-> n, align |-> 1, text |-> TRUE] : n \in {0, 1, 9, 20}}
       \cup {[kind |-> "array", length |-> n, align |-> 1, text |-> FALSE] : n \in {8, 21}}
       \cup {[kind |-> "array", length |-> 9, align |-> 2, text |-> TRUE]}
       \cup {[kind |-> "none", length |-> 0, align |-> 1, text |-> FALSE]}

MCWord == {4, 8}
=============================================================================
