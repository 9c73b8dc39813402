---------------------------- MODULE ProcessSampler ----------------------------
(***************************************************************************)
(* The process collector: plugins/plugin-process/src/lib.rs.  A loop       *)
(* samples /proc and emits one process.exec for every identity, a pid with *)
(* its start time, that it has not seen yet.  Pids are reused; a process   *)
(* may exit while /proc is walked, and its start time then reads as 0.     *)
(***************************************************************************)
EXTENDS Integers, Sequences, FiniteSets

CONSTANTS
  Procs,      (* the processes there will ever be, numbered by start time  *)
  PidOf,      (* their pids                                                *)
  Ignored,    (* those of system accounts, with interactive_uids_only      *)
  SeenCap     (* 65 536: a larger set of seen identities is pruned         *)

ASSUME SamplerAssumption ==
  Procs \subseteq Nat \ {0} /\ DOMAIN PidOf = Procs /\ Ignored \subseteq Procs /\ SeenCap \in Nat

VARIABLES
  forked,     (* processes started so far                                  *)
  alive,      (* processes that run                                        *)
  scan,       (* the loop: "off", "idle", "emitting", "ended"              *)
  seen,       (* identities emitted, or decided to be                      *)
  batch,      (* to_emit                                                   *)
  reports     (* history: reports[p], how often Key(p) came onto the bus   *)

sampler == <<forked, alive, scan, seen, batch, reports>>

(* The identity of p, and what it is when the start time is unreadable.    *)
Key(p) == [pid |-> PidOf[p], start |-> p]
NoStart(p) == [pid |-> PidOf[p], start |-> 0]

SamplerInit ==
  /\ forked = {} /\ alive = {} /\ scan = "off"
  /\ seen = {} /\ batch = {} /\ reports = [p \in Procs |-> 0]

Fork ==
  /\ scan \in {"idle", "emitting"}
  /\ \E p \in Procs \ forked :
       /\ \A q \in Procs \ forked : p <= q
       /\ \A q \in alive : PidOf[q] # PidOf[p]
       /\ forked' = forked \cup {p} /\ alive' = alive \cup {p}
  /\ UNCHANGED <<scan, seen, batch, reports>>

Exit ==
  /\ \E p \in alive : alive' = alive \ {p}
  /\ UNCHANGED <<forked, scan, seen, batch, reports>>

(* Mutated form: a set that has grown too large is emptied.                *)
Pruned_Clears(snapshot) == IF Cardinality(seen) > SeenCap THEN {} ELSE seen

(* A set that has grown too large keeps what the sample shows to be alive. *)
Pruned(snapshot) == IF Cardinality(seen) > SeenCap THEN seen \cap snapshot ELSE seen

(* A tick: scan, then pick what is new.  Processes in dying exit between   *)
(* the reads of their status and of their start time.                      *)
Sample ==
  /\ scan = "idle"
  /\ \E dying \in SUBSET alive :
       LET keys(P) == {IF p \in dying THEN NoStart(p) ELSE Key(p) : p \in P}
           kept    == Pruned(keys(alive))
       IN /\ batch' = keys(alive \ Ignored) \ kept
          /\ seen' = kept \cup batch'
          /\ alive' = alive \ dying
  /\ scan' = "emitting"
  /\ UNCHANGED <<forked, reports>>

(* The next identity is emitted: onto the bus, or dropped by it.           *)
EmitExec(onto_bus) ==
  /\ scan = "emitting"
  /\ \E k \in batch :
       /\ batch' = batch \ {k}
       /\ reports' = [p \in Procs |-> reports[p] + IF onto_bus /\ k = Key(p) THEN 1 ELSE 0]
  /\ UNCHANGED <<forked, alive, scan, seen>>

BatchDone ==
  /\ scan = "emitting" /\ batch = {} /\ scan' = "idle"
  /\ UNCHANGED <<forked, alive, seen, batch, reports>>

(* The stop signal is looked at between samples.                           *)
ScanStops ==
  /\ scan = "idle" /\ scan' = "ended"
  /\ UNCHANGED <<forked, alive, seen, batch, reports>>

(* No process is reported twice while its identity can be read, however    *)
(* often the set of seen identities is pruned and its pid reused.          *)
ReportedOnce == \A p \in Procs : reports[p] <= 1
=============================================================================
