----------------------------- MODULE MCConsole ------------------------------
(* Instance of Console for TLC: two agents with a row each, that of the    *)
(* first before that of the second in the order of the store.              *)
EXTENDS Console

MCCells   == <<"c1", "c2">>
MCAgentOf == [c \in {"c1", "c2"} |-> IF c = "c1" THEN "a" ELSE "b"]
MCMaxRequests == [cells |-> 2, alerts |-> 1, agents |-> 1]
=============================================================================
