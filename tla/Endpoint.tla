------------------------------ MODULE Endpoint ------------------------------
(***************************************************************************)
(* The hardened deployment of the agent: the install and uninstall         *)
(* commands (plugin-tamper/src/install.rs) work on the disk step by step   *)
(* and may fail or be killed between any two; systemd runs the agent and   *)
(* its guardian from the units they wrote; the agent's tamper plugin       *)
(* (plugin-tamper/src/lib.rs) compares the disk with the baseline it read  *)
(* when it started.  One command runs at a time, as an administrator would *)
(* do it, but the rest goes on meanwhile.  systemd itself is external: a   *)
(* unit is modelled by what its rendered directives make it do.            *)
(***************************************************************************)
EXTENDS ProtectedFiles, Sequences, FiniteSets

CONSTANTS Bins,         \* install paths an administrator may choose
          DefaultBin,   \* InstallSpec::default().install_path
          MaxCommands, MaxFailures, MaxKills, MaxAlterations

ASSUME EndpointAssumption ==
  /\ DefaultBin \in Bins
  /\ Bins \cap {"service", "guardian", "manifest", "token", "state"} = {}

VARIABLES
  disk,        \* the files, by path
  baseline,    \* what manifest.json says, once written
  recorded,    \* the install path in the last token written
  exec,        \* the ExecStart path in the last service unit written
  job,         \* the running install or uninstall: its plan and position
  last,        \* how the last command ended
  degraded,    \* what the last uninstall had to do without
  loadedExec,  \* the ExecStart path systemd has loaded, or "none"
  enabled,     \* whether the units start at boot
  unit,        \* state of the two units: "inactive", "active", "restart"
  image,       \* the binary each active unit's process executes, or "none"
  tamper,      \* the plugin in the running agent: its baseline and paths
  raised,      \* the alerts of the plugin's latest check
  spent        \* budgets used: commands, faults, kills, alterations

endpointVars == <<disk, baseline, recorded, exec, job, last, degraded, loadedExec,
          enabled, unit, image, tamper, raised, spent>>
systemd == <<loadedExec, enabled, unit, image>>
agent == <<tamper, raised>>

Paths == Bins \cup {"service", "guardian", "manifest", "token", "state"}
Units == {"service", "guardian"}
NoBaseline == [p \in {} |-> "none"]
NoCommand == [plan |-> <<>>, at |-> 1, bin |-> "none"]

-----------------------------------------------------------------------------
(* The rendered units and the set of files everything is about.            *)

\* Mutated form: only a crash restarts the agent, and nothing pulls the guardian in.
ServiceUnit_OnFailure(bin) ==
  [exec |-> bin, restart |-> "on-failure", requires |-> {}]
ServiceUnit(bin) == [exec |-> bin, restart |-> "always", requires |-> {"guardian"}]
GuardianUnit(bin) == [exec |-> bin, restart |-> "always", bindsTo |-> {"service"}]

ProtectedPaths(bin) == <<bin, "service", "guardian">>
Protected(bin) == Range(ProtectedPaths(bin))
Locked(bin) == ProtectedPaths(bin) \o <<"manifest">>

-----------------------------------------------------------------------------
(* The commands as plans: what each does to the machine, in order.  A      *)
(* "try" step is one whose failure the code only logs.                     *)

Step(op, path, try) == [op |-> op, path |-> path, try |-> try]
ForEach(op, paths, try) == [i \in DOMAIN paths |-> Step(op, paths[i], try)]

\* Mutated form: a reinstall forgets the lock the last install put on the manifest.
InstallPlan_KeepsLock(bin) ==
  <<Step("unlock", bin, TRUE), Step("write", bin, FALSE),
    Step("unlock", "service", TRUE), Step("unlock", "guardian", TRUE),
    Step("write", "service", FALSE), Step("write", "guardian", FALSE),
    Step("hash", "manifest", FALSE), Step("write", "token", FALSE),
    Step("reload", "units", FALSE), Step("enable", "units", FALSE)>>
  \o ForEach("lock", Locked(bin), FALSE)

InstallPlan(bin) ==
  <<Step("unlock", bin, TRUE), Step("write", bin, FALSE),
    Step("unlock", "service", TRUE), Step("unlock", "guardian", TRUE),
    Step("write", "service", FALSE), Step("write", "guardian", FALSE),
    Step("unlock", "manifest", TRUE), Step("hash", "manifest", FALSE),
    Step("write", "token", FALSE),
    Step("reload", "units", FALSE), Step("enable", "units", FALSE)>>
  \o ForEach("lock", Locked(bin), FALSE)

UninstallPlan(bin) ==
  ForEach("unlock", Locked(bin), TRUE)
  \o <<Step("disable", "units", TRUE), Step("reload", "units", TRUE)>>
  \o ForEach("remove", <<"service", "guardian", bin, "manifest", "token">>, FALSE)
  \o <<Step("remove", "state", TRUE), Step("reload", "units", TRUE)>>

\* Mutated form: the default paths are removed, whatever the token says.
EffectiveBin_Default(default) == default

\* load_spec_from_token: the recorded path if the token can be parsed.
EffectiveBin(default) == IF disk["token"].data = "whole" THEN recorded ELSE default

Spend(what, max) ==
  /\ spent[what] < max
  /\ spent' = [spent EXCEPT ![what] = @ + 1]

BeginInstall(bin) ==
  /\ job = NoCommand
  /\ Spend("commands", MaxCommands)
  /\ job' = [plan |-> InstallPlan(bin), at |-> 1, bin |-> bin]
  /\ tamper' = [tamper EXCEPT !.settled = FALSE]
  /\ UNCHANGED <<disk, baseline, recorded, exec, last, degraded, systemd, raised>>

\* Also for root only: the uid check comes before anything else.
BeginUninstall ==
  /\ job = NoCommand
  /\ Spend("commands", MaxCommands)
  /\ LET bin == EffectiveBin(DefaultBin)
     IN job' = [plan |-> UninstallPlan(bin), at |-> 1, bin |-> bin]
  /\ degraded' = IF disk["token"].data = "whole" THEN {} ELSE {"token"}
  /\ tamper' = [tamper EXCEPT !.settled = FALSE]
  /\ UNCHANGED <<disk, baseline, recorded, exec, last, systemd, raised>>

At(op) == job # NoCommand /\ job.plan[job.at].op = op
Here == job.plan[job.at].path

\* The command goes on, and returns Ok after its last step.
Advance ==
  IF job.at = Len(job.plan)
  THEN /\ job' = NoCommand
       /\ last' = IF job.plan = InstallPlan(job.bin)
                  THEN "installed" ELSE "removed"
  ELSE job' = [job EXCEPT !.at = @ + 1] /\ UNCHANGED last

\* The error goes up with `?`: what was done stays done.
Abort == job' = NoCommand /\ last' = "failed"
FailStep == IF job.plan[job.at].try THEN Advance ELSE Abort

Busy(path) == IF Exists(disk, path) THEN Range(image) ELSE {}

Unlock ==
  /\ At("unlock")
  /\ disk' = SetImmutable(disk, Here, FALSE)
  /\ Advance
  /\ UNCHANGED <<baseline, recorded, exec, degraded, systemd, agent, spent>>

\* immutable::set_immutable(path, true): a missing file is an error.
Lock ==
  /\ At("lock")
  /\ disk' = SetImmutable(disk, Here, TRUE)
  /\ IF Exists(disk, Here) THEN Advance ELSE Abort
  /\ UNCHANGED <<baseline, recorded, exec, degraded, systemd, agent, spent>>

WriteFile ==
  /\ At("write") \/ At("hash")
  /\ MayWrite(disk, Here, Busy(Here))
  /\ At("hash") => Readable(disk, Protected(job.bin))
  /\ disk' = Write(disk, Here, "whole")
  /\ baseline' = IF At("hash") THEN FromPaths(disk, Protected(job.bin)) ELSE baseline
  /\ recorded' = IF Here = "token" THEN job.bin ELSE recorded
  /\ exec' = IF Here = "service" THEN ServiceUnit(job.bin).exec ELSE exec
  /\ Advance
  /\ UNCHANGED <<degraded, systemd, agent, spent>>

\* The open fails, or a protected file cannot be read for the manifest.
WriteRefused ==
  /\ At("write") \/ At("hash")
  /\ ~MayWrite(disk, Here, Busy(Here))
     \/ (At("hash") /\ ~Readable(disk, Protected(job.bin)))
  /\ Abort
  /\ UNCHANGED <<disk, baseline, recorded, exec, degraded, systemd, agent, spent>>

\* The disk is full: the file is truncated and holds part of the data.
WriteFails ==
  /\ At("write") \/ At("hash")
  /\ MayWrite(disk, Here, Busy(Here))
  /\ Spend("faults", MaxFailures)
  /\ disk' = Write(disk, Here, "part")
  /\ Abort
  /\ UNCHANGED <<baseline, recorded, exec, degraded, systemd, agent>>

RemoveFile ==
  /\ At("remove")
  /\ IF MayRemove(disk, Here)
     THEN disk' = [disk EXCEPT ![Here] = Absent] /\ Advance
     ELSE UNCHANGED disk /\ FailStep
  /\ UNCHANGED <<baseline, recorded, exec, degraded, systemd, agent, spent>>

\* The command is killed, or its terminal goes away.
CommandDies ==
  /\ job # NoCommand
  /\ Spend("faults", MaxFailures)
  /\ Abort
  /\ UNCHANGED <<disk, baseline, recorded, exec, degraded, systemd, agent>>

-----------------------------------------------------------------------------
(* The tamper plugin in the agent process.                                 *)

\* Mutated form: the token is watched like the rest, though install leaves it unlocked.
Watched_Token == Protected(DefaultBin) \cup {"token"}
\* inject_tamper_defaults: the paths of the default layout, whatever was
\* chosen at install time.
Watched == Protected(DefaultBin)

NotImmutable == {p \in Watched : Exists(disk, p) /\ ~CheckImmutable(disk, p)}

\* init: the posture check, then the baseline is read once.  A manifest that
\* does not parse counts as none.
Started ==
  /\ tamper' = [baseline |-> IF disk["manifest"].data = "whole"
                             THEN baseline ELSE NoBaseline,
                settled |-> /\ job = NoCommand
                            /\ last = "installed"
                            /\ recorded = DefaultBin]
  /\ raised' = IF NotImmutable # {} THEN {<<"agent", "mis-deployed">>} ELSE {}

Check ==
  Verify(tamper.baseline, disk)
    \cup {<<p, "immutable bit cleared">> : p \in NotImmutable}
    \cup {<<p, "protected path missing">> :
            p \in {q \in Watched \ DOMAIN tamper.baseline : ~Exists(disk, q)}}

\* One turn of the watch loop.
Tick ==
  /\ unit["service"] = "active"
  /\ raised' = Check
  /\ UNCHANGED <<disk, baseline, recorded, exec, job, last, degraded, systemd,
                 tamper, spent>>

\* Root edits, replaces, deletes or unlocks a protected file.
Alter(p) ==
  /\ job = NoCommand
  /\ Spend("alterations", MaxAlterations)
  /\ Exists(disk, p)
  /\ disk' \in IF CheckImmutable(disk, p)
               THEN {SetImmutable(disk, p, FALSE)}
               ELSE {Write(disk, p, "edited"), Write(disk, p, "part"),
                     [disk EXCEPT ![p] = Absent], [disk EXCEPT ![p].type = "other"]}
  /\ last' = "altered"
  /\ tamper' = [tamper EXCEPT !.settled = FALSE]
  /\ UNCHANGED <<baseline, recorded, exec, job, degraded, systemd, raised>>

-----------------------------------------------------------------------------
(* systemd and the guardian.                                               *)

LoadedUnit == IF disk["service"] \in {Plain("whole"), [Plain("whole") EXCEPT !.flags = {"immutable"}]}
              THEN exec ELSE "none"

Startable == loadedExec # "none" /\ disk[loadedExec].type = "file"

\* A process started executes what systemd has loaded; one that goes on keeps
\* the binary it was started from.
SetUnits(next) ==
  /\ unit' = next
  /\ image' = [u \in Units |-> IF next[u] # "active" THEN "none"
                               ELSE IF unit[u] = "active" THEN image[u] ELSE loadedExec]

\* The units become active.  Starting the service starts what it requires.
StartUnits(us) ==
  LET all == us \cup (IF "service" \in us THEN ServiceUnit(loadedExec).requires ELSE {})
  IN /\ SetUnits([u \in Units |-> IF u \in all THEN "active" ELSE unit[u]])
     /\ IF "service" \in us /\ unit["service"] # "active"
        THEN Started ELSE UNCHANGED agent

\* A unit that is stopped takes along the units bound to it and those that
\* require it.
StopUnits == [u \in Units |-> "inactive"]

Gone == tamper' = [baseline |-> NoBaseline, settled |-> FALSE] /\ raised' = {}

Reload ==
  /\ At("reload")
  /\ loadedExec' = LoadedUnit
  /\ Advance
  /\ UNCHANGED <<disk, baseline, recorded, exec, degraded, enabled, unit, image, agent, spent>>

\* systemctl enable --now: units that are active already are left alone.
Enable ==
  /\ At("enable")
  /\ IF Startable
     THEN /\ enabled' = TRUE
          /\ StartUnits({u \in Units : unit[u] # "active"})
          /\ Advance
     ELSE Abort /\ UNCHANGED <<enabled, unit, image, agent>>
  /\ UNCHANGED <<disk, baseline, recorded, exec, degraded, loadedExec, spent>>

Disable ==
  /\ At("disable")
  /\ enabled' = FALSE
  /\ SetUnits(StopUnits)
  /\ Gone
  /\ Advance
  /\ UNCHANGED <<disk, baseline, recorded, exec, degraded, loadedExec, spent>>

\* systemctl exits non-zero.
SystemctlFails ==
  /\ At("reload") \/ At("enable") \/ At("disable")
  /\ Spend("faults", MaxFailures)
  /\ degraded' = degraded \cup IF At("disable") THEN {"systemctl"} ELSE {}
  /\ FailStep
  /\ UNCHANGED <<disk, baseline, recorded, exec, systemd, agent>>

\* A process dies; its unit's restart policy decides.
Kill(u) ==
  /\ unit[u] = "active"
  /\ Spend("kills", MaxKills)
  /\ LET policy == IF u = "service" THEN ServiceUnit(loadedExec).restart
                   ELSE GuardianUnit(loadedExec).restart
     IN SetUnits(IF policy = "always" THEN [unit EXCEPT ![u] = "restart"]
                 ELSE IF u \in GuardianUnit(loadedExec).bindsTo THEN StopUnits
                 ELSE [unit EXCEPT ![u] = "inactive"])
  /\ IF u = "service" THEN Gone ELSE UNCHANGED agent
  /\ UNCHANGED <<disk, baseline, recorded, exec, job, last, degraded, loadedExec,
                 enabled>>

\* RestartSec is over.
Restart(u) ==
  /\ unit[u] = "restart"
  /\ Startable
  /\ StartUnits({u})
  /\ UNCHANGED <<disk, baseline, recorded, exec, job, last, degraded, loadedExec,
                 enabled, spent>>

\* guard: the guardian asks for the state of the service and starts it.
ShouldRestart == unit["service"] # "active"
Guard ==
  /\ unit["guardian"] = "active"
  /\ ShouldRestart
  /\ Startable
  /\ StartUnits({"service"})
  /\ UNCHANGED <<disk, baseline, recorded, exec, job, last, degraded, loadedExec,
                 enabled, spent>>

\* systemctl stop, by root.
StopByRoot ==
  /\ job = NoCommand
  /\ unit["service"] # "inactive"
  /\ Spend("alterations", MaxAlterations)
  /\ SetUnits(StopUnits)
  /\ last' = "stopped"
  /\ Gone
  /\ UNCHANGED <<disk, baseline, recorded, exec, job, degraded, loadedExec,
                 enabled>>

\* The machine goes down, with whatever command was running, and comes up.
Reboot ==
  /\ Spend("faults", MaxFailures)
  /\ job' = NoCommand
  /\ last' = IF job = NoCommand THEN last ELSE "failed"
  /\ loadedExec' = LoadedUnit
  /\ SetUnits([u \in Units |-> IF enabled THEN "restart" ELSE "inactive"])
  /\ Gone
  /\ UNCHANGED <<disk, baseline, recorded, exec, degraded, enabled>>

-----------------------------------------------------------------------------
EndpointInit ==
  /\ disk = [p \in Paths |-> IF p = "state" THEN Plain("whole") ELSE Absent]
  /\ baseline = NoBaseline
  /\ recorded = DefaultBin
  /\ exec = DefaultBin
  /\ job = NoCommand
  /\ last = "never"
  /\ degraded = {}
  /\ loadedExec = "none"
  /\ enabled = FALSE
  /\ unit = [u \in Units |-> "inactive"]
  /\ image = [u \in Units |-> "none"]
  /\ tamper = [baseline |-> NoBaseline, settled |-> FALSE]
  /\ raised = {}
  /\ spent = [b \in {"commands", "faults", "kills", "alterations"} |-> 0]

CommandStep ==
  \/ Unlock \/ Lock \/ WriteFile \/ WriteRefused \/ RemoveFile
  \/ Reload \/ Enable \/ Disable

EndpointNext ==
  \/ \E bin \in Bins : BeginInstall(bin)
  \/ BeginUninstall
  \/ CommandStep
  \/ WriteFails \/ SystemctlFails \/ CommandDies \/ Reboot
  \/ Tick
  \/ \E p \in Paths \ {"token", "state"} : Alter(p)
  \/ \E u \in Units : Kill(u) \/ Restart(u)
  \/ Guard
  \/ StopByRoot

EndpointSpec == EndpointInit /\ [][EndpointNext]_endpointVars
\* systemd's timers, the guardian's loop and a command's own steps go on.
FairSpec ==
  /\ EndpointSpec
  /\ WF_endpointVars(CommandStep)
  /\ \A u \in Units : WF_endpointVars(Restart(u))

-----------------------------------------------------------------------------
\* Neither command meets a lock an earlier one left: whatever was installed,
\* interrupted or half removed before, what it writes or removes next is not
\* immutable (install.rs:320-321 and 411: "the state is never unremovable").
NeverBlocked ==
  At("write") \/ At("hash") \/ At("remove") => ~CheckImmutable(disk, Here)

\* Of what install writes, an uninstall that reports success has left no
\* file but, at most, binaries on other paths than the last token recorded,
\* and the units run no more and will not start at boot; unless the token
\* could not be read, and then it is the default install that is gone, or
\* systemctl itself failed.
Removed == last = "removed" /\ job = NoCommand
UninstallRemoves ==
  Removed =>
    /\ LET bin == IF "token" \in degraded THEN DefaultBin ELSE recorded
       IN \A p \in Protected(bin) \cup {"manifest", "token", "state"} : ~Exists(disk, p)
    /\ "systemctl" \notin degraded => ~enabled /\ \A u \in Units : unit[u] = "inactive"

\* An agent that started after a finished install, and saw neither another
\* command nor root at work since, raises no tamper alert: the manifest, the
\* locks and the watched paths agree.
HealthyIsQuiet == tamper.settled => raised = {}

\* While the agent is installed and nobody with root works on it, it is up
\* again after kills and reboots (as often as systemd restarts a unit).
Installed == last = "installed" /\ job = NoCommand
AgentComesBack == Installed ~> (unit["service"] = "active" \/ ~Installed)
=============================================================================
