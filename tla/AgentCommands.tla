---------------------------- MODULE AgentCommands ----------------------------
(***************************************************************************)
(* What the agent binary may be started for, as far as it collects: `run`  *)
(* hosts the plugins; `shell` hosts none, and runs the tty collector's     *)
(* session directly.  Of the collector as a plugin, AgentProcess follows   *)
(* that it runs and emits; its bytes are followed here on their own, in    *)
(* every mode: what they make of the input depends on no other plugin.     *)
(***************************************************************************)
EXTENDS AgentProcess, Terminal

VARIABLE command (* "run" or "tty"                                         *)

commandVars == <<command, vars, terminal>>

(* The host's plugins are followed without the collector's bytes.          *)
CommandInit ==
  /\ command \in {"run", "tty"} /\ Init /\ TerminalInit
  /\ command = "run" => mode = "off"

Run(A) == command = "run" /\ A /\ UNCHANGED <<command, terminal>>
Tty(A) == command = "tty" /\ A /\ UNCHANGED <<command, vars>>

CommandSpec == CommandInit /\ [][Run(Next) \/ Tty(TerminalNext)]_commandVars

(* Every task that can go on does.  A select is fair to its branches, and  *)
(* a sender that waits for room is served in its turn.                     *)
FairCommands ==
  /\ CommandSpec
  /\ WF_commandVars(Run(Main)) /\ WF_commandVars(Run(Dispatch))
  /\ WF_commandVars(Run(Scanner)) /\ SF_commandVars(Run(ScanLeaves))
  /\ SF_commandVars(Run(Tripwire)) /\ WF_commandVars(Run(WatchStops))
  /\ WF_commandVars(Run(ActorStops)) /\ WF_commandVars(Run(DispatcherStops))
  /\ WF_commandVars(Run(JoinHandler))
=============================================================================
