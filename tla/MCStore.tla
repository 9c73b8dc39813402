------------------------------ MODULE MCStore -------------------------------
(* Instance of Store for TLC: one agent, which sends a heartbeat, two      *)
(* scores and an alert.                                                    *)
EXTENDS Store

MCIds     == {"beat", "score1", "score2", "alert1"}
MCKind    == [i \in MCIds |-> CASE i = "beat"                 -> "heartbeat"
                                [] i \in {"score1", "score2"} -> "score"
                                [] i = "alert1"               -> "alert"]
MCAgentOf == [i \in MCIds |-> "agent"]
MCStamp   == [i \in {"beat"} |-> 0]
=============================================================================
