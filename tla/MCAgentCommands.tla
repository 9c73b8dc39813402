-------------------------- MODULE MCAgentCommands --------------------------
(* Instance of AgentCommands for TLC: a console sink, a disabled library   *)
(* and one that takes the name of a built-in plugin; the process collector *)
(* starts before two plugins whose init has to alert; two processes share  *)
(* a pid.                                                                  *)
EXTENDS AgentCommands

Console == <<"console">>
TwoLibs == <<[name |-> "extra", lib |-> "one"], [name |-> "session", lib |-> "two"]>>
Orders  == {<<"process", "tamper", "session", "tty", "transport">>}
SaltAlerts == {{"session", "tty"}}
Denials == {{"extra"}}
OnePid  == [p \in Procs |-> 7]

(* levenshtein and its reference, on all lines of up to three characters.  *)
ASSUME LevenshteinAssumption ==
  \A a, b \in BoundedSeq(Printable, 3) : Levenshtein(a, b) = LeastEdits(a, b)
=============================================================================
