------------------------------ MODULE MCHandles ------------------------------
(* A small instance of Handles: one connection with one statement.        *)
EXTENDS Handles, TLC

CONSTANTS e1, d1, s1

MCEnv == {e1}

MCDbc == {d1}

MCStmt == {s1}

MCParent == (d1 :> e1) @@ (s1 :> d1)

MCRequests(type) ==
    CASE type = "env" -> {<<odbc3>>}
      [] type = "dbc" -> {<<>>}
      [] type = "stmt" -> {<<>>, <<cursor_static, records_per_buffer_hint, concur_lock>>,
                           <<nonscrollable>>, <<scrollable, concur_read_only>>,
                           <<cursor_forward_only>>}

MCLesserTypes == {{}}

MCRecordLists == {<<"too_long", "unreadable", "text">>}
=============================================================================
