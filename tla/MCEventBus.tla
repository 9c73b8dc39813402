----------------------------- MODULE MCEventBus -----------------------------
(* Instance of EventBus for TLC, wired as the agent ships: a detector's     *)
(* task emits telemetry and detections; plugin-scoring takes detections,    *)
(* and its handler awaits the scores it emits; the forwarder takes all.     *)
EXTENDS EventBus

ScoringChain == <<"score", "forward">>
AllKinds  == {"key", "detection", "score"}
CritKinds == {"detection", "score"}
TaskNames == {"detector", "host", "score", "forward"}

ScoringEmits == [t \in TaskNames |-> CASE t = "detector" -> {"key", "detection"}
                                       [] t = "score"    -> {"score"}
                                       [] OTHER          -> {}]
ScoringSubs  == [score |-> {"detection"}, forward |-> AllKinds]
=============================================================================
