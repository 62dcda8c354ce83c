-------------------------- MODULE ApplianceMaintenance --------------------------
(***************************************************************************)
(* The maintenance scripts of the NAS appliance that hold one lock:        *)
(* upgrade-appliance.sh and recover-appliance-upgrade.sh, which switch the *)
(* image of both containers through the journal of upgrade_transaction.py, *)
(* and restore-state.sh, which replaces the state directory under them.    *)
(*                                                                         *)
(* A script is a sequence of commands under "set -e".  Each is one step    *)
(* here, or as many as it makes durable changes, and may fail.  A signal   *)
(* may be caught by the trap while a command runs, which ends by itself or *)
(* is killed; the script or the machine may die anywhere.  A command that  *)
(* fails sends upgrade and restore to their cleanup functions.             *)
(***************************************************************************)
EXTENDS Naturals

CONSTANTS
    Images,         \* immutable image references
    BaseImage,      \* what Compose runs when there is no release environment
    Absent,         \* no release environment, or no journal
    MaxStarts,      \* bound: upgrades and restores that are started
    MaxFaults,      \* bound: commands that fail
    MaxSignals,     \* bound: signals caught by a trap
    MaxDeaths       \* bound: scripts, or machines, that die

PhaseNames == {"prepared", "switching", "selected", "recovering"}
Journal == [phase: PhaseNames, previous: Images, target: Images]

ASSUME ConstantsAssumption ==
    /\ BaseImage \in Images
    /\ Absent \notin Images \union Journal
    /\ {MaxStarts, MaxFaults, MaxSignals, MaxDeaths} \subseteq Nat

VARIABLES
    journal,    \* .echo-upgrade-transaction.json
    env,        \* the image echo-release.env selects
    main,       \* the echo-os container: its image, and whether it is running
    proxy,      \* the image of the echo-docker-control container
    dirs,       \* what the directories hold that the last restore knew of
    script,     \* the script that holds, or last held, the maintenance lock
    used        \* starts, faults, signals and deaths so far, for the bounds

world == <<journal, env, main, proxy, dirs>>
vars  == <<world, script, used>>

\* before is the state tree the restore found; empty is a directory that Docker
\* made for a bind mount.  nested: the old tree was moved into data itself.
Dirs == [data: {"none", "before", "restored", "empty"}, rollback: {"none", "before"},
         failed: {"none", "restored"}, nested: BOOLEAN]

\* Seeded fault: the recovery deletes the journal before the containers run.
RecoveryOrderFinishesFirst ==
    [recovering |-> "unwrite", unwrite |-> "finish", finish |-> "upproxy",
     upproxy |-> "upmain", upmain |-> "ended", verify |-> "ended"]

\* The commands of a recovery, alone or as the cleanup of an upgrade.
RecoveryOrder ==
    [recovering |-> "unwrite", unwrite |-> "upproxy", upproxy |-> "upmain",
     upmain |-> "verify", verify |-> "finish", finish |-> "ended"]

\* The commands, in the order of the scripts.  rollback is the cleanup function
\* of restore-state.sh: it enters at putback, undostop or upproxy.
Order ==
    [upgrade  |-> [preflight |-> "begin", begin |-> "switching", switching |-> "write",
                   write |-> "selected", selected |-> "upproxy", upproxy |-> "upmain",
                   upmain |-> "verify", verify |-> "commit", commit |-> "ended"],
     recovery |-> RecoveryOrder,
     restore  |-> [stop |-> "stage", stage |-> "displace", displace |-> "promote",
                   promote |-> "upproxy", upproxy |-> "upmain", upmain |-> "check",
                   check |-> "stopagain", stopagain |-> "ended"],
     rollback |-> [putback |-> "upproxy", undostop |-> "setaside", setaside |-> "reinstate",
                   reinstate |-> "upproxy", upproxy |-> "upmain", upmain |-> "ended"]]

Renames == {"displace", "promote", "putback", "setaside", "reinstate"}
Steps   == Renames \union
             {"preflight", "begin", "switching", "write", "selected", "commit",
              "recovering", "unwrite", "finish", "upproxy", "upmain", "verify",
              "stop", "stage", "check", "stopagain", "undostop"}

\* excused: a signal, or a failure inside cleanup, is part of the story.
Script == [op: {"none", "upgrade", "recover", "restore"}, plan: DOMAIN Order,
           pc: Steps \union {"ended"}, status: {"running", "ok", "failed", "dead"},
           target: Images, running: BOOLEAN, stopped: BOOLEAN,
           displaced: BOOLEAN, promoted: BOOLEAN, excused: BOOLEAN]
NoScript == [op |-> "none", plan |-> "upgrade", pc |-> "ended", status |-> "ok",
             target |-> BaseImage, running |-> FALSE, stopped |-> FALSE,
             displaced |-> FALSE, promoted |-> FALSE, excused |-> FALSE]

TypeOK ==
    /\ journal \in Journal \union {Absent}
    /\ env \in Images \union {Absent}
    /\ main \in [image: Images, up: BOOLEAN]
    /\ proxy \in Images
    /\ dirs \in Dirs
    /\ script \in Script
    /\ used \in [starts: Nat, faults: Nat, signals: Nat, deaths: Nat]

Init ==
    /\ journal = Absent
    /\ env \in {Absent, BaseImage}
    /\ main \in [image: {BaseImage}, up: BOOLEAN]
    /\ proxy = BaseImage
    /\ dirs = [data |-> "before", rollback |-> "none", failed |-> "none", nested |-> FALSE]
    /\ script = NoScript
    /\ used = [starts |-> 0, faults |-> 0, signals |-> 0, deaths |-> 0]

At(pc)   == script.pc = pc
Idle     == At("ended")
Selected == IF env = Absent THEN BaseImage ELSE env

Started == /\ used.starts < MaxStarts
           /\ used' = [used EXCEPT !.starts = @ + 1]
Fault   == /\ used.faults < MaxFaults
           /\ used' = [used EXCEPT !.faults = @ + 1]
Signal  == /\ used.signals < MaxSignals
           /\ used' = [used EXCEPT !.signals = @ + 1]

-----------------------------------------------------------------------------
(***************************************************************************)
(* The checks each script makes before its first change.                   *)
(***************************************************************************)

\* The image that runs is the one declared, and no transaction is pending.
StartUpgrade(image) ==
    /\ Idle
    /\ Started
    /\ journal = Absent
    /\ main.image # image
    /\ env \in {Absent, main.image}
    /\ script' = [NoScript EXCEPT !.op = "upgrade", !.plan = "upgrade", !.pc = "preflight",
                                  !.status = "running", !.target = image]
    /\ UNCHANGED world

\* By the unit at boot, or by an operator.  Without a journal it ends at once.
StartRecovery ==
    /\ Idle
    /\ journal # Absent
    /\ script' = [NoScript EXCEPT !.op = "recover", !.plan = "recovery",
                                  !.pc = "recovering", !.status = "running"]
    /\ UNCHANGED <<world, used>>

\* Rollback and failed directories are new names.  A pending upgrade is no
\* obstacle.
StartRestore ==
    /\ Idle
    /\ Started
    /\ dirs.data # "none"
    /\ dirs' = [data |-> "before", rollback |-> "none", failed |-> "none", nested |-> FALSE]
    /\ script' = [NoScript EXCEPT !.op = "restore", !.plan = "restore", !.status = "running",
                                  !.pc = IF main.up THEN "stop" ELSE "stage",
                                  !.running = main.up]
    /\ UNCHANGED <<journal, env, main, proxy>>

-----------------------------------------------------------------------------
(***************************************************************************)
(* What the commands do to the world.                                      *)
(***************************************************************************)

\* Backup, pull, schema check, staging and read-only checks, of no effect here.
Inspect ==
    /\ script.pc \in {"preflight", "verify", "stage", "check"}
    /\ UNCHANGED world

\* Seeded fault: begin takes its two images for one another.
BeginSwapped ==
    /\ At("begin")
    /\ journal' = [phase |-> "prepared", previous |-> script.target, target |-> main.image]
    /\ UNCHANGED <<env, main, proxy, dirs>>

Begin ==
    /\ At("begin")
    /\ journal' = [phase |-> "prepared", previous |-> main.image, target |-> script.target]
    /\ UNCHANGED <<env, main, proxy, dirs>>

\* Seeded fault: a recovery leaves the phase as it is.
SetPhaseForward ==
    /\ script.pc \in {"switching", "selected", "recovering"}
    /\ journal' = IF At("recovering") THEN journal ELSE [journal EXCEPT !.phase = script.pc]
    /\ UNCHANGED <<env, main, proxy, dirs>>

SetPhase ==
    /\ script.pc \in {"switching", "selected", "recovering"}
    /\ journal' = [journal EXCEPT !.phase = script.pc]
    /\ UNCHANGED <<env, main, proxy, dirs>>

WriteTarget ==
    /\ At("write")
    /\ env' = journal.target
    /\ UNCHANGED <<journal, main, proxy, dirs>>

\* The release environment is written even where there was none before.
WritePrevious ==
    /\ At("unwrite")
    /\ env' = journal.previous
    /\ UNCHANGED <<journal, main, proxy, dirs>>

\* commit and finish_recovery.
RemoveJournal ==
    /\ script.pc \in {"commit", "finish"}
    /\ journal' = Absent
    /\ UNCHANGED <<env, main, proxy, dirs>>

\* compose up: docker-control first, since echo-os depends on it.
UpProxy ==
    /\ At("upproxy")
    /\ proxy' = Selected
    /\ UNCHANGED <<journal, env, main, dirs>>

\* Docker makes an empty directory where the bind mount has none.
UpMain ==
    /\ At("upmain")
    /\ main' = [image |-> Selected, up |-> TRUE]
    /\ dirs' = IF dirs.data = "none" THEN [dirs EXCEPT !.data = "empty"] ELSE dirs
    /\ UNCHANGED <<journal, env, proxy>>

StopMain ==
    /\ script.pc \in {"stop", "stopagain", "undostop"}
    /\ main' = [main EXCEPT !.up = FALSE]
    /\ UNCHANGED <<journal, env, proxy, dirs>>

\* mv data rollback; mv restored data.
Displace ==
    /\ At("displace")
    /\ dirs' = [dirs EXCEPT !.data = "none", !.rollback = dirs.data]
    /\ UNCHANGED <<journal, env, main, proxy>>

Promote ==
    /\ At("promote")
    /\ dirs' = [dirs EXCEPT !.data = "restored"]
    /\ UNCHANGED <<journal, env, main, proxy>>

\* Seeded fault: the displaced state stays where it is.
PutBackNothing ==
    /\ At("putback")
    /\ UNCHANGED world

\* cleanup: mv rollback data, after a promotion that was not completed.
PutBack ==
    /\ At("putback")
    /\ dirs' = [dirs EXCEPT !.data = dirs.rollback, !.rollback = "none"]
    /\ UNCHANGED <<journal, env, main, proxy>>

\* restore_previous_directory: mv data failed; mv rollback data, which goes
\* into data if that is still there.
SetAside ==
    /\ At("setaside")
    /\ dirs' = [dirs EXCEPT !.failed = dirs.data, !.data = "none"]
    /\ UNCHANGED <<journal, env, main, proxy>>

Reinstate ==
    /\ At("reinstate")
    /\ dirs' = IF dirs.data = "none"
                 THEN [dirs EXCEPT !.data = dirs.rollback, !.rollback = "none"]
                 ELSE [dirs EXCEPT !.nested = TRUE, !.rollback = "none"]
    /\ UNCHANGED <<journal, env, main, proxy>>

Effect ==
    \/ Inspect \/ Begin \/ SetPhase \/ WriteTarget \/ WritePrevious \/ RemoveJournal
    \/ UpProxy \/ UpMain \/ StopMain \/ Displace \/ Promote
    \/ PutBack \/ SetAside \/ Reinstate

-----------------------------------------------------------------------------
(***************************************************************************)
(* How a script goes on.                                                   *)
(***************************************************************************)
Cleaning == script.plan = "rollback" \/ (script.op = "upgrade" /\ script.plan = "recovery")

\* What the containers must run before the journal may go.
Expected == IF script.plan = "upgrade" THEN script.target ELSE journal.previous

\* The checks of the journal's tool and of the scripts, command by command.
Permitted ==
    /\ At("begin") => journal = Absent /\ env \in {Absent, main.image}
    /\ At("switching") => journal.phase = "prepared" /\ env \in {Absent, journal.previous}
    /\ At("recovering") => journal # Absent
    /\ At("verify") => main.image = Expected /\ proxy = Expected
    /\ At("commit") => journal.phase = "selected" /\ env = journal.target
    /\ At("finish") => journal.phase = "recovering" /\ env = journal.previous
    /\ At("putback") => dirs.data = "none" /\ dirs.rollback # "none"

\* A service that was not running is stopped again, and is not restarted.
Onward ==
    IF \/ At("check") /\ script.running
       \/ script.pc \in {"putback", "reinstate"} /\ ~script.stopped
      THEN "ended" ELSE Order[script.plan][script.pc]

Proceed(excuse) ==
    script' = [script EXCEPT
        !.pc        = Onward,
        !.status    = IF Onward # "ended" THEN "running" ELSE IF Cleaning THEN "failed" ELSE "ok",
        !.stopped   = @ \/ At("stop"),
        !.displaced = (@ \/ At("displace")) /\ script.pc \notin {"promote", "putback"},
        !.promoted  = (@ \/ At("promote")) /\ ~At("reinstate"),
        !.excused   = @ \/ excuse]

\* Seeded fault: cleanup forgets that the old directory is displaced.
CleanupForgets ==
    IF script.plan = "restore" /\ script.stopped
      THEN [plan |-> "rollback", pc |-> "upproxy"]
    ELSE IF script.plan = "upgrade" /\ script.pc \notin {"preflight", "begin"}
      THEN [plan |-> "recovery", pc |-> "recovering"]
    ELSE [plan |-> script.plan, pc |-> "ended"]

\* Where a command that failed sends its script.
Cleanup ==
    IF script.plan = "upgrade" /\ script.pc \notin {"preflight", "begin"}
      THEN [plan |-> "recovery", pc |-> "recovering"]
    ELSE IF script.plan = "restore" /\ script.displaced THEN [plan |-> "rollback", pc |-> "putback"]
    ELSE IF script.plan = "restore" /\ script.promoted THEN [plan |-> "rollback", pc |-> "undostop"]
    ELSE IF script.plan = "restore" /\ script.stopped THEN [plan |-> "rollback", pc |-> "upproxy"]
    ELSE [plan |-> script.plan, pc |-> "ended"]

Fall(excuse) ==
    script' = [script EXCEPT !.plan = Cleanup.plan,
                             !.pc = Cleanup.pc,
                             !.status = IF Cleanup.pc = "ended" THEN "failed" ELSE "running",
                             !.excused = @ \/ excuse]

Step ==
    /\ ~Idle
    /\ Permitted
    /\ Effect
    /\ Proceed(FALSE)
    /\ UNCHANGED used

\* A check fails: fatal, except in the cleanup of the restore.
Refuse ==
    /\ ~Idle
    /\ ~Permitted
    /\ IF script.plan = "rollback" THEN Proceed(TRUE) ELSE Fall(FALSE)
    /\ UNCHANGED <<world, used>>

\* A command exits with an error.  Unless it is a rename it may have had its
\* effect.
StepFails ==
    /\ ~Idle
    /\ Permitted
    /\ script.plan # "rollback"
    /\ Fault
    /\ \/ UNCHANGED world
       \/ script.pc \notin Renames /\ Effect
    /\ Fall(FALSE)

\* Inside the cleanup function of the restore a failed rename is reported or
\* not noticed (errors are not fatal there), and the function goes on.
RollbackFails ==
    /\ script.plan = "rollback"
    /\ ~Idle
    /\ Fault
    /\ \/ UNCHANGED dirs
       \/ /\ At("reinstate")
          /\ dirs.data = "none"
          /\ dirs' = [dirs EXCEPT !.data = dirs.failed, !.failed = "none"]
    /\ IF script.pc \in {"upproxy", "upmain"} THEN Fall(TRUE) ELSE Proceed(TRUE)
    /\ UNCHANGED <<journal, env, main, proxy>>

\* A signal kills the command that runs, before or after its effect, and the
\* trap finds its status.
StepKilled ==
    /\ ~Idle
    /\ script.plan \in {"upgrade", "restore"}
    /\ Signal
    /\ UNCHANGED world \/ (Permitted /\ Effect)
    /\ Fall(TRUE)

\* A signal reaches the shell alone: the command ends well, the trap finds
\* status 0, and the script exits with it.
Terminated ==
    /\ ~Idle
    /\ script.plan \in {"upgrade", "restore"}
    /\ Signal
    /\ script' = [script EXCEPT !.pc = "ended", !.status = "ok", !.excused = TRUE]
    /\ UNCHANGED world

\* The script is killed, or the power fails.
Dies ==
    /\ ~Idle
    /\ used.deaths < MaxDeaths
    /\ used' = [used EXCEPT !.deaths = @ + 1]
    /\ script' = [script EXCEPT !.pc = "ended", !.status = "dead"]
    /\ UNCHANGED world

Next ==
    \/ \E image \in Images : StartUpgrade(image)
    \/ StartRecovery \/ StartRestore
    \/ Step \/ Refuse \/ StepFails \/ RollbackFails \/ StepKilled \/ Terminated \/ Dies

\* A script's commands end, and a pending transaction is recovered: by the unit
\* at the next boot, or by the operator the documentation sends to it.
Fairness == WF_vars(Step \/ Refuse) /\ WF_vars(StartRecovery)

Spec == Init /\ [][Next]_vars /\ Fairness

-----------------------------------------------------------------------------
(***************************************************************************)
(* What must hold.                                                         *)
(***************************************************************************)

\* Without a pending transaction both containers have the image the release
\* environment selects, whatever failed, was killed or lost power before.
SelectionRuns == journal = Absent => main.image = Selected /\ proxy = Selected

\* The release the appliance is on, as far as the next boot is concerned.
Release == IF journal = Absent THEN main.image ELSE journal.previous

\* The release changes only at once, with both containers already verified on
\* the new image: never by an upgrade that fails, nor by a recovery.
SwitchIsAtomic ==
    [][Release' # Release =>
         /\ script.op = "upgrade" /\ script.plan = "upgrade" /\ Release' = script.target
         /\ main.image = script.target /\ proxy = script.target /\ env = script.target]_vars

\* A restore that fails, by no signal and with no failure in its cleanup, has
\* the old state in its place, and runs a service that it stopped.
RestoreRollsBack ==
    script.op = "restore" /\ script.status = "failed" /\ ~script.excused =>
        dirs.data = "before" /\ (script.stopped => main.up)

\* Every interrupted upgrade is committed or recovered in the end.
Recovers == journal # Absent ~> journal = Absent

(***************************************************************************)
(* The inductive invariant.                                                *)
(***************************************************************************)

\* An upgrade that exits with status 0, by no signal, leaves no transaction
\* behind.
SuccessIsSettled ==
    script.op = "upgrade" /\ script.status = "ok" /\ ~script.excused => journal = Absent

\* What is known of the switch where a script stands.
SwitchInv ==
    /\ SuccessIsSettled
    /\ ~Idle => script.pc \in DOMAIN Order[script.plan]
    /\ ~Idle => script.op \in (CASE script.plan = "upgrade"  -> {"upgrade"}
                                [] script.plan = "recovery" -> {"upgrade", "recover"}
                                [] OTHER                    -> {"restore"})
    /\ script.pc \in {"preflight", "begin"} => journal = Absent
    /\ script.plan = "upgrade" /\ script.pc \notin {"preflight", "begin", "ended"} =>
         journal # Absent /\ journal.target = script.target
    /\ script.plan = "recovery" /\ script.pc \notin {"recovering", "ended"} => journal # Absent
    /\ At("commit") => main.image = script.target /\ proxy = script.target
    /\ At("finish") => main.image = journal.previous /\ proxy = journal.previous

\* Where the state trees are while a restore goes on, or is undone unexcused.
RestoreInv ==
    /\ script.plan = "restore" /\ script.pc \in {"stop", "stage", "displace"} =>
         dirs.data = "before" /\ ~script.displaced /\ ~script.promoted
    /\ script.plan = "restore" /\ At("promote") =>
         /\ script.displaced /\ ~script.promoted
         /\ dirs.data = "none" /\ dirs.rollback = "before"
    /\ script.plan = "restore" /\ script.pc \in {"upproxy", "upmain", "check", "stopagain"} =>
         /\ ~script.displaced /\ script.promoted
         /\ dirs.data = "restored" /\ dirs.rollback = "before"
    /\ script.pc \in {"undostop", "setaside"} => dirs.data = "restored" /\ dirs.rollback = "before"
    /\ script.plan = "rollback" /\ ~script.excused =>
         /\ script.pc \in {"putback", "reinstate"} => dirs.data = "none" /\ dirs.rollback = "before"
         /\ script.pc \in {"upproxy", "upmain"} => dirs.data = "before"

IInv == TypeOK /\ SwitchInv /\ SelectionRuns /\ RestoreInv /\ RestoreRollsBack
=============================================================================
