---------------------- MODULE ApplianceMaintenance_proofs ----------------------
(***************************************************************************)
(* Proofs about ApplianceMaintenance, for any images and any number of     *)
(* scripts, failing commands, signals and deaths.                          *)
(***************************************************************************)
EXTENDS ApplianceMaintenance, TLAPS

\* The types, of the world and of the script.
WorldOK ==
    /\ journal \in Journal \union {Absent}
    /\ env \in Images \union {Absent}
    /\ main \in [image: Images, up: BOOLEAN]
    /\ proxy \in Images
    /\ dirs \in Dirs

ScriptOK == script \in Script
UsedOK   == used \in [starts: Nat, faults: Nat, signals: Nat, deaths: Nat]

\* The parts of SwitchInv: where a script may stand, and what it relies on.
PlaceOK ==
    /\ ~Idle => script.pc \in DOMAIN Order[script.plan]
    /\ ~Idle => script.op \in (CASE script.plan = "upgrade"  -> {"upgrade"}
                                [] script.plan = "recovery" -> {"upgrade", "recover"}
                                [] OTHER                    -> {"restore"})

SwitchOK ==
    /\ SuccessIsSettled
    /\ script.pc \in {"preflight", "begin"} => journal = Absent
    /\ script.plan = "upgrade" /\ script.pc \notin {"preflight", "begin", "ended"} =>
         journal # Absent /\ journal.target = script.target
    /\ script.plan = "recovery" /\ script.pc \notin {"recovering", "ended"} => journal # Absent
    /\ At("commit") => main.image = script.target /\ proxy = script.target
    /\ At("finish") => main.image = journal.previous /\ proxy = journal.previous

LEMMA Parts ==
    IInv <=> /\ WorldOK /\ ScriptOK /\ UsedOK /\ PlaceOK /\ SwitchOK
             /\ SelectionRuns /\ RestoreInv /\ RestoreRollsBack
BY DEF IInv, TypeOK, SwitchInv, WorldOK, ScriptOK, UsedOK, PlaceOK, SwitchOK

LEMMA PartsNext ==
    IInv' <=> /\ WorldOK' /\ ScriptOK' /\ UsedOK' /\ PlaceOK' /\ SwitchOK'
              /\ SelectionRuns' /\ RestoreInv' /\ RestoreRollsBack'
BY DEF IInv, TypeOK, SwitchInv, WorldOK, ScriptOK, UsedOK, PlaceOK, SwitchOK

-----------------------------------------------------------------------------
(***************************************************************************)
(* The order of the commands.                                              *)
(***************************************************************************)

\* The commands of each plan, and what comes next.
LEMMA UpgradeOrder ==
    ASSUME script.plan = "upgrade", script.pc \in DOMAIN Order[script.plan]
    PROVE  \/ At("preflight") /\ Onward = "begin"
           \/ At("begin")     /\ Onward = "switching"
           \/ At("switching") /\ Onward = "write"
           \/ At("write")     /\ Onward = "selected"
           \/ At("selected")  /\ Onward = "upproxy"
           \/ At("upproxy")   /\ Onward = "upmain"
           \/ At("upmain")    /\ Onward = "verify"
           \/ At("verify")    /\ Onward = "commit"
           \/ At("commit")    /\ Onward = "ended"
BY DEF Order, Onward, At

LEMMA RecoveryOrdered ==
    ASSUME script.plan = "recovery", script.pc \in DOMAIN Order[script.plan]
    PROVE  \/ At("recovering") /\ Onward = "unwrite"
           \/ At("unwrite")    /\ Onward = "upproxy"
           \/ At("upproxy")    /\ Onward = "upmain"
           \/ At("upmain")     /\ Onward = "verify"
           \/ At("verify")     /\ Onward = "finish"
           \/ At("finish")     /\ Onward = "ended"
BY DEF Order, RecoveryOrder, Onward, At

LEMMA RestoreOrder ==
    ASSUME script.plan = "restore", script.pc \in DOMAIN Order[script.plan]
    PROVE  \/ At("stop")      /\ Onward = "stage"
           \/ At("stage")     /\ Onward = "displace"
           \/ At("displace")  /\ Onward = "promote"
           \/ At("promote")   /\ Onward = "upproxy"
           \/ At("upproxy")   /\ Onward = "upmain"
           \/ At("upmain")    /\ Onward = "check"
           \/ At("check")     /\ Onward \in {"stopagain", "ended"}
           \/ At("stopagain") /\ Onward = "ended"
BY DEF Order, Onward, At

LEMMA RollbackOrder ==
    ASSUME script.plan = "rollback", script.pc \in DOMAIN Order[script.plan]
    PROVE  \/ At("putback")   /\ Onward = (IF script.stopped THEN "upproxy" ELSE "ended")
           \/ At("undostop")  /\ Onward = "setaside"
           \/ At("setaside")  /\ Onward = "reinstate"
           \/ At("reinstate") /\ Onward = (IF script.stopped THEN "upproxy" ELSE "ended")
           \/ At("upproxy")   /\ Onward = "upmain"
           \/ At("upmain")    /\ Onward = "ended"
BY DEF Order, Onward, At

\* A place a plan has.
Place(plan, pc) ==
    \/ plan = "upgrade" /\ pc \in {"preflight", "begin", "switching", "write", "selected",
                                   "upproxy", "upmain", "verify", "commit"}
    \/ plan = "recovery" /\ pc \in {"recovering", "unwrite", "upproxy", "upmain", "verify", "finish"}
    \/ plan = "restore" /\ pc \in {"stop", "stage", "displace", "promote", "upproxy", "upmain",
                                   "check", "stopagain"}
    \/ plan = "rollback" /\ pc \in {"putback", "undostop", "setaside", "reinstate", "upproxy", "upmain"}

LEMMA Places ==
    ASSUME NEW plan \in DOMAIN Order, NEW pc
    PROVE  /\ pc \in DOMAIN Order[plan] <=> Place(plan, pc)
           /\ Place(plan, pc) => pc \in Steps /\ pc # "ended"
BY DEF Order, RecoveryOrder, Place, Steps, Renames

LEMMA Plans == DOMAIN Order = {"upgrade", "recovery", "restore", "rollback"}
BY DEF Order


-----------------------------------------------------------------------------
(***************************************************************************)
(* What a command does, whether or not its script notices.                 *)
(***************************************************************************)

\* A permitted command has had its effect.
Done == ~Idle /\ Permitted /\ Effect

LEMMA DoneTypes ==
    ASSUME IInv, Done
    PROVE  WorldOK'
<1> USE Parts, ConstantsAssumption DEF WorldOK, Done
<1>0. /\ script.target \in Images /\ main.image \in Images /\ Selected \in Images
  BY DEF ScriptOK, Script, Selected
<1>1. CASE Inspect
  BY <1>1 DEF Inspect, world
<1>2. CASE Begin
  BY <1>0, <1>2 DEF Begin, Journal, PhaseNames
<1>3. CASE SetPhase
  <2>1. journal \in Journal
    <3>1. journal # Absent
      <4>1. CASE At("recovering")
        BY <4>1 DEF Permitted
      <4>2. CASE script.pc \in {"switching", "selected"}
        BY <4>2, Plans, Places DEF At, SwitchOK, PlaceOK, Place, Idle, ScriptOK, Script
      <4> QED BY <1>3, <4>1, <4>2 DEF SetPhase, At
    <3> QED BY <3>1
  <2> QED BY <1>3, <2>1 DEF SetPhase, Journal, PhaseNames
<1>4. CASE WriteTarget
  <2>1. journal # Absent
    BY <1>4, Plans, Places DEF WriteTarget, At, SwitchOK, PlaceOK, Place, Idle, ScriptOK, Script
  <2> QED BY <1>4, <2>1 DEF WriteTarget, Journal
<1>5. CASE WritePrevious
  <2>1. journal # Absent
    BY <1>5, Plans, Places DEF WritePrevious, At, SwitchOK, PlaceOK, Place, Idle, ScriptOK, Script
  <2> QED BY <1>5, <2>1 DEF WritePrevious, Journal
<1>6. CASE RemoveJournal
  BY <1>6 DEF RemoveJournal
<1>7. CASE UpProxy
  BY <1>0, <1>7 DEF UpProxy
<1>8. CASE UpMain
  BY <1>0, <1>8 DEF UpMain, Dirs
<1>9. CASE StopMain
  BY <1>9 DEF StopMain
<1>10. CASE Displace
  <2>1. dirs.data = "before"
    BY <1>10, Plans, Places DEF Displace, At, RestoreInv, PlaceOK, Place, Idle, ScriptOK, Script
  <2> QED BY <1>10, <2>1 DEF Displace, Dirs
<1>11. CASE Promote
  BY <1>11 DEF Promote, Dirs
<1>12. CASE PutBack
  BY <1>12 DEF PutBack, Dirs
<1>13. CASE SetAside
  <2>1. dirs.data = "restored"
    BY <1>13 DEF SetAside, At, RestoreInv
  <2> QED BY <1>13, <2>1 DEF SetAside, Dirs
<1>14. CASE Reinstate
  BY <1>14 DEF Reinstate, Dirs
<1> QED
  BY <1>1, <1>2, <1>3, <1>4, <1>5, <1>6, <1>7, <1>8, <1>9, <1>10, <1>11, <1>12, <1>13, <1>14
     DEF Effect

\* What a command does to the journal.
LEMMA DoneJournal ==
    ASSUME IInv, Done
    PROVE  /\ At("begin") => /\ journal = Absent /\ journal' # Absent
                             /\ journal'.previous = main.image
                             /\ journal'.target = script.target
           /\ script.pc \in {"commit", "finish"} => journal # Absent /\ journal' = Absent
           /\ script.pc \in {"switching", "selected", "recovering"} =>
                /\ journal # Absent /\ journal' # Absent
                /\ journal'.previous = journal.previous /\ journal'.target = journal.target
           /\ script.pc \notin {"begin", "commit", "finish", "switching", "selected", "recovering"} =>
                journal' = journal
<1> USE Parts, ConstantsAssumption DEF Done
<1>0. script.plan \in DOMAIN Order /\ Place(script.plan, script.pc)
  BY Plans, Places DEF PlaceOK, ScriptOK, Script
<1>1. ASSUME At("begin")
      PROVE  /\ journal = Absent /\ journal' # Absent
             /\ journal'.previous = main.image /\ journal'.target = script.target
  <2>1. Begin /\ journal = Absent
    BY <1>1 DEF At, Effect, Inspect, SetPhase, WriteTarget, WritePrevious, RemoveJournal, UpProxy,
                UpMain, StopMain, Displace, Promote, PutBack, SetAside, Reinstate, Permitted
  <2>2. journal' \in Journal
    BY <2>1 DEF Begin, Journal, PhaseNames, WorldOK, ScriptOK, Script
  <2> QED BY <2>1, <2>2 DEF Begin
<1>2. ASSUME script.pc \in {"commit", "finish"} PROVE journal # Absent /\ journal' = Absent
  <2>1. RemoveJournal
    BY <1>2 DEF At, Effect, Inspect, Begin, SetPhase, WriteTarget, WritePrevious, UpProxy,
                UpMain, StopMain, Displace, Promote, PutBack, SetAside, Reinstate
  <2>2. journal # Absent
    BY <1>0, <1>2 DEF Place, SwitchOK
  <2> QED BY <2>1, <2>2 DEF RemoveJournal
<1>3. ASSUME script.pc \in {"switching", "selected", "recovering"}
      PROVE  /\ journal # Absent /\ journal' # Absent
             /\ journal'.previous = journal.previous /\ journal'.target = journal.target
  <2>1. SetPhase
    BY <1>3 DEF At, Effect, Inspect, Begin, RemoveJournal, WriteTarget, WritePrevious, UpProxy,
                UpMain, StopMain, Displace, Promote, PutBack, SetAside, Reinstate
  <2>2. journal # Absent
    BY <1>0, <1>3 DEF Place, SwitchOK, Permitted, At
  <2>3. journal \in Journal
    BY <2>2 DEF WorldOK
  <2>4. /\ journal' \in Journal
        /\ journal'.previous = journal.previous /\ journal'.target = journal.target
    BY <2>1, <2>3, <1>3 DEF SetPhase, Journal, PhaseNames
  <2> QED BY <2>2, <2>4
<1>4. ASSUME script.pc \notin {"begin", "commit", "finish", "switching", "selected", "recovering"}
      PROVE  journal' = journal
  BY <1>4 DEF At, Effect, Inspect, Begin, SetPhase, RemoveJournal, WriteTarget, WritePrevious,
              UpProxy, UpMain, StopMain, Displace, Promote, PutBack, SetAside, Reinstate, world
<1> QED BY <1>1, <1>2, <1>3, <1>4

\* What it does to the selection and to the containers.
LEMMA DoneContainers ==
    ASSUME IInv, Done
    PROVE  /\ At("write") => env' = journal.target
           /\ At("unwrite") => env' = journal.previous
           /\ script.pc \notin {"write", "unwrite"} => env' = env /\ Selected' = Selected
           /\ At("upproxy") => proxy' = Selected
           /\ ~At("upproxy") => proxy' = proxy
           /\ At("upmain") => main'.image = Selected /\ main'.up
           /\ ~At("upmain") => main'.image = main.image
           /\ script.pc \notin {"upmain", "stop", "stopagain", "undostop"} => main' = main
<1>1. main \in [image: Images, up: BOOLEAN]
  BY Parts DEF WorldOK
<1> QED
  BY <1>1 DEF Done, At, Effect, Inspect, Begin, SetPhase, RemoveJournal, WriteTarget,
              WritePrevious, UpProxy, UpMain, StopMain, Displace, Promote, PutBack, SetAside,
              Reinstate, world, Selected

\* What it does to the directories.
LEMMA DoneDirs ==
    ASSUME IInv, Done
    PROVE  /\ At("displace") => dirs'.data = "none" /\ dirs'.rollback = dirs.data
           /\ At("promote") => dirs'.data = "restored" /\ dirs'.rollback = dirs.rollback
           /\ At("putback") => dirs'.data = dirs.rollback
           /\ At("setaside") => dirs'.data = "none" /\ dirs'.rollback = dirs.rollback
           /\ At("reinstate") /\ dirs.data = "none" => dirs'.data = dirs.rollback
           /\ At("upmain") /\ dirs.data # "none" => dirs' = dirs
           /\ script.pc \notin Renames \union {"upmain"} => dirs' = dirs
<1>1. dirs \in Dirs
  BY Parts DEF WorldOK
<1> QED
  BY <1>1 DEF Done, At, Effect, Inspect, Begin, SetPhase, RemoveJournal, WriteTarget,
              WritePrevious, UpProxy, UpMain, StopMain, Displace, Promote, PutBack, SetAside,
              Reinstate, world, Dirs, Renames

-----------------------------------------------------------------------------
(***************************************************************************)
(* The containers run what is selected, and the release switches at once.  *)
(***************************************************************************)

\* Where a script stands.
LEMMA Standing ==
    ASSUME IInv, ~Idle
    PROVE  /\ script.plan \in DOMAIN Order /\ Place(script.plan, script.pc)
           /\ script.op \in (CASE script.plan = "upgrade"  -> {"upgrade"}
                               [] script.plan = "recovery" -> {"upgrade", "recover"}
                               [] OTHER                    -> {"restore"})
BY Parts, Plans, Places DEF PlaceOK, ScriptOK, Script

\* What is known where the journal is removed.
LEMMA Verified ==
    ASSUME IInv, Done
    PROVE  /\ At("commit") => /\ script.op = "upgrade" /\ script.plan = "upgrade"
                              /\ env = script.target /\ journal # Absent
                              /\ main.image = script.target /\ proxy = script.target
           /\ At("finish") => /\ env = journal.previous /\ journal # Absent
                              /\ main.image = env /\ proxy = env
<1>1. Place(script.plan, script.pc) /\ SwitchOK
  BY Standing, Parts DEF Done
<1>2. script.plan = "upgrade" => script.op = "upgrade"
  BY Standing DEF Done
<1> QED BY <1>1, <1>2 DEF Done, Permitted, At, Place, SwitchOK

LEMMA DoneSelects ==
    ASSUME IInv, Done
    PROVE  SelectionRuns'
<1> SUFFICES ASSUME journal' = Absent PROVE main'.image = Selected' /\ proxy' = Selected'
  BY DEF SelectionRuns
<1>1. CASE At("commit") \/ At("finish")
  <2>1. env \in Images /\ main.image = env /\ proxy = env
    BY <1>1, Verified, Parts DEF ScriptOK, Script, WorldOK
  <2>2. Selected = env
    BY <2>1, ConstantsAssumption DEF Selected
  <2> QED BY <1>1, <2>1, <2>2, DoneContainers DEF At
<1>2. CASE ~At("commit") /\ ~At("finish")
  <2>1. journal = Absent /\ main.image = Selected /\ proxy = Selected
    BY <1>2, DoneJournal, Parts DEF At, SelectionRuns
  <2>2. script.pc \notin {"write", "unwrite"}
    BY <2>1, Standing, Parts DEF Done, Place, SwitchOK
  <2> QED BY <2>1, <2>2, DoneContainers
<1> QED BY <1>1, <1>2

\* The step that may change the release.
LEMMA DoneRelease ==
    ASSUME IInv, Done, Release' # Release
    PROVE  /\ script.op = "upgrade" /\ script.plan = "upgrade" /\ Release' = script.target
           /\ main.image = script.target /\ proxy = script.target /\ env = script.target
<1>1. At("commit")
  <2>1. CASE At("finish")
    BY <2>1, Verified, DoneJournal, DoneContainers DEF At, Release
  <2>2. CASE ~At("commit") /\ ~At("finish")
    <3>1. CASE journal = Absent
      <4>1. main'.image = main.image
        BY <3>1, DoneContainers, Parts DEF SelectionRuns
      <4> QED BY <2>2, <3>1, <4>1, DoneJournal DEF At, Release
    <3>2. CASE journal # Absent
      BY <2>2, <3>2, DoneJournal DEF At, Release
    <3> QED BY <3>1, <3>2
  <2> QED BY <2>1, <2>2
<1>2. Release' = main.image
  BY <1>1, DoneJournal, DoneContainers DEF At, Release
<1> QED BY <1>1, <1>2, Verified

-----------------------------------------------------------------------------
(***************************************************************************)
(* The script goes on.                                                     *)
(***************************************************************************)
LEMMA Proceeds ==
    ASSUME IInv, ~Idle, NEW excuse \in BOOLEAN, Proceed(excuse)
    PROVE  /\ ScriptOK' /\ PlaceOK'
           /\ script'.pc = Onward /\ script'.plan = script.plan /\ script'.op = script.op
           /\ script'.target = script.target /\ script'.running = script.running
           /\ script'.status = (IF Onward # "ended" THEN "running"
                                ELSE IF Cleaning THEN "failed" ELSE "ok")
           /\ script'.stopped = (script.stopped \/ At("stop"))
           /\ script'.displaced = ((script.displaced \/ At("displace"))
                                      /\ script.pc \notin {"promote", "putback"})
           /\ script'.promoted = ((script.promoted \/ At("promote")) /\ ~At("reinstate"))
           /\ script'.excused = (script.excused \/ excuse)
<1>1. script \in Script
  BY Parts DEF ScriptOK
<1>2. /\ script'.pc = Onward /\ script'.plan = script.plan /\ script'.op = script.op
      /\ script'.target = script.target /\ script'.running = script.running
      /\ script'.status = (IF Onward # "ended" THEN "running"
                           ELSE IF Cleaning THEN "failed" ELSE "ok")
      /\ script'.stopped = (script.stopped \/ At("stop"))
      /\ script'.displaced = ((script.displaced \/ At("displace"))
                                 /\ script.pc \notin {"promote", "putback"})
      /\ script'.promoted = ((script.promoted \/ At("promote")) /\ ~At("reinstate"))
      /\ script'.excused = (script.excused \/ excuse)
  BY <1>1 DEF Proceed, Script
<1>3. Onward = "ended" \/ Place(script.plan, Onward)
  <2>1. script.pc \in DOMAIN Order[script.plan]
    BY Standing, Places
  <2> QED BY <2>1, Standing, Plans, UpgradeOrder, RecoveryOrdered, RestoreOrder, RollbackOrder DEF Place
<1>4. Onward \in Steps \union {"ended"}
  BY <1>3, Standing, Places
<1>5. ScriptOK'
  <2> DEFINE st == IF Onward # "ended" THEN "running" ELSE IF Cleaning THEN "failed" ELSE "ok"
             a  == script.stopped \/ At("stop")
             b  == (script.displaced \/ At("displace")) /\ script.pc \notin {"promote", "putback"}
             c  == (script.promoted \/ At("promote")) /\ ~At("reinstate")
             d  == script.excused \/ excuse
  <2>1. st \in {"running", "ok", "failed"} /\ a \in BOOLEAN /\ b \in BOOLEAN /\ c \in BOOLEAN
        /\ d \in BOOLEAN
    BY <1>1 DEF Script
  <2>2. script' = [script EXCEPT !.pc = Onward, !.status = st, !.stopped = a, !.displaced = b,
                                 !.promoted = c, !.excused = d]
    BY DEF Proceed
  <2> HIDE DEF st, a, b, c, d
  <2> QED BY <1>1, <1>4, <2>1, <2>2 DEF ScriptOK, Script
<1>6. PlaceOK'
  BY <1>2, <1>3, Standing, Places DEF PlaceOK, Idle, At
<1> QED BY <1>2, <1>5, <1>6

LEMMA ProceedSwitch ==
    ASSUME IInv, Done, Proceed(FALSE)
    PROVE  SwitchOK'
<1> USE Proceeds DEF Done
<1>0. /\ SwitchOK /\ script \in Script /\ script.pc \in DOMAIN Order[script.plan]
      /\ script.plan \in DOMAIN Order
  BY Parts, Standing, Places DEF ScriptOK
<1>1. CASE script.plan = "upgrade"
  BY <1>0, <1>1, UpgradeOrder, DoneJournal, DoneContainers
     DEF SwitchOK, At, SuccessIsSettled, Cleaning, Permitted, Expected
<1>2. CASE script.plan = "recovery"
  BY <1>0, <1>2, RecoveryOrdered, DoneJournal, DoneContainers
     DEF SwitchOK, At, SuccessIsSettled, Cleaning, Permitted, Expected
<1>3. CASE script.plan \in {"restore", "rollback"}
  <2>1. script.op = "restore"
    BY <1>3, Standing
  <2> QED BY <1>0, <1>3, <2>1, RestoreOrder, RollbackOrder DEF SwitchOK, At, SuccessIsSettled
<1> QED BY <1>0, <1>1, <1>2, <1>3, Plans

LEMMA ProceedRestore ==
    ASSUME IInv, Done, Proceed(FALSE)
    PROVE  RestoreInv' /\ RestoreRollsBack'
<1> USE Proceeds DEF Done
<1>0. /\ RestoreInv /\ script \in Script /\ script.pc \in DOMAIN Order[script.plan]
      /\ script.plan \in DOMAIN Order /\ main \in [image: Images, up: BOOLEAN]
  BY Parts, Standing, Places DEF ScriptOK, WorldOK
<1>1. CASE script.plan = "upgrade"
  BY <1>0, <1>1, UpgradeOrder, Standing DEF RestoreInv, RestoreRollsBack, At
<1>2. CASE script.plan = "recovery"
  BY <1>0, <1>2, RecoveryOrdered, Standing DEF RestoreInv, RestoreRollsBack, At
<1>3. CASE script.plan = "restore"
  <2>1. RestoreInv'
    BY <1>0, <1>3, RestoreOrder, DoneDirs DEF RestoreInv, At, Renames
  <2>2. RestoreRollsBack'
    BY <1>0, <1>3 DEF RestoreRollsBack, Cleaning
  <2> QED BY <2>1, <2>2
<1>4. CASE script.plan = "rollback"
  <2>1. RestoreInv'
    BY <1>0, <1>4, RollbackOrder, DoneDirs DEF RestoreInv, At, Renames
  <2>2. RestoreRollsBack'
    BY <1>0, <1>4, RollbackOrder, DoneDirs, DoneContainers DEF RestoreInv, RestoreRollsBack, At
  <2> QED BY <2>1, <2>2
<1> QED BY <1>0, <1>1, <1>2, <1>3, <1>4, Plans

-----------------------------------------------------------------------------
(***************************************************************************)
(* The script falls into its cleanup function.                             *)
(***************************************************************************)
LEMMA Falls ==
    ASSUME IInv, ~Idle, NEW excuse \in BOOLEAN, Fall(excuse)
    PROVE  /\ ScriptOK' /\ PlaceOK'
           /\ script'.pc = Cleanup.pc /\ script'.plan = Cleanup.plan /\ script'.op = script.op
           /\ script'.target = script.target
           /\ script'.status = (IF Cleanup.pc = "ended" THEN "failed" ELSE "running")
           /\ script'.stopped = script.stopped
           /\ script'.displaced = script.displaced /\ script'.promoted = script.promoted
           /\ script'.excused = (script.excused \/ excuse)
<1>1. script \in Script
  BY Parts DEF ScriptOK
<1>2. /\ Cleanup.pc = "ended" \/ Place(Cleanup.plan, Cleanup.pc)
      /\ Cleanup.plan \in DOMAIN Order
      /\ \/ Cleanup.plan = script.plan
         \/ script.plan = "upgrade" /\ Cleanup.plan = "recovery"
         \/ script.plan = "restore" /\ Cleanup.plan = "rollback"
  <2>1. \/ script.plan = "upgrade" /\ Cleanup = [plan |-> "recovery", pc |-> "recovering"]
        \/ script.plan = "restore" /\ Cleanup = [plan |-> "rollback", pc |-> "putback"]
        \/ script.plan = "restore" /\ Cleanup = [plan |-> "rollback", pc |-> "undostop"]
        \/ script.plan = "restore" /\ Cleanup = [plan |-> "rollback", pc |-> "upproxy"]
        \/ Cleanup = [plan |-> script.plan, pc |-> "ended"]
    BY DEF Cleanup
  <2>2. \/ script.plan = "upgrade" /\ Cleanup.plan = "recovery" /\ Cleanup.pc = "recovering"
        \/ script.plan = "restore" /\ Cleanup.plan = "rollback"
             /\ Cleanup.pc \in {"putback", "undostop", "upproxy"}
        \/ Cleanup.plan = script.plan /\ Cleanup.pc = "ended"
    BY <2>1
  <2> DEFINE plan == Cleanup.plan
             pc   == Cleanup.pc
  <2>3. \/ script.plan = "upgrade" /\ plan = "recovery" /\ pc = "recovering"
        \/ script.plan = "restore" /\ plan = "rollback" /\ pc \in {"putback", "undostop", "upproxy"}
        \/ plan = script.plan /\ pc = "ended"
    BY <2>2
  <2> HIDE DEF plan, pc
  <2>4. pc = "ended" \/ Place(plan, pc)
    BY <2>3 DEF Place
  <2>5. plan \in DOMAIN Order
    BY <2>3, Standing, Plans
  <2>6. \/ plan = script.plan
        \/ script.plan = "upgrade" /\ plan = "recovery"
        \/ script.plan = "restore" /\ plan = "rollback"
    BY <2>3
  <2> QED BY <2>4, <2>5, <2>6 DEF plan, pc
<1>3. Cleanup.pc \in Steps \union {"ended"}
  BY <1>2, Places
<1>4. /\ script'.pc = Cleanup.pc /\ script'.plan = Cleanup.plan /\ script'.op = script.op
      /\ script'.target = script.target
      /\ script'.status = (IF Cleanup.pc = "ended" THEN "failed" ELSE "running")
      /\ script'.stopped = script.stopped
      /\ script'.displaced = script.displaced /\ script'.promoted = script.promoted
      /\ script'.excused = (script.excused \/ excuse)
  BY <1>1 DEF Fall, Script
<1>5. ScriptOK'
  BY <1>1, <1>2, <1>3 DEF ScriptOK, Script, Fall
<1>6. PlaceOK'
  BY <1>2, <1>4, Standing, Plans, Places DEF PlaceOK, Idle, At
<1> QED BY <1>4, <1>5, <1>6

LEMMA FallSwitch ==
    ASSUME IInv, ~Idle, NEW excuse \in BOOLEAN, Fall(excuse)
    PROVE  SwitchOK'
<1>1. script'.pc \in {"ended", "recovering", "putback", "undostop", "upproxy"}
  BY Falls DEF Cleanup
<1>2. script'.pc = "upproxy" => script'.plan = "rollback"
  BY Falls DEF Cleanup
<1>3. script'.status # "ok" /\ (script'.plan = "upgrade" => script'.pc = "ended")
  BY Falls, Standing, Plans DEF Cleanup, Place
<1>4. script'.plan = "recovery" => script'.pc \in {"recovering", "ended"}
  BY <1>1, Falls DEF Cleanup
<1> QED BY <1>1, <1>2, <1>3, <1>4 DEF SwitchOK, SuccessIsSettled, At

LEMMA FallRestore ==
    ASSUME IInv, ~Idle, NEW excuse \in BOOLEAN, Fall(excuse),
           UNCHANGED world \/ (Done /\ (excuse \/ script.pc \notin Renames)),
           script.plan # "rollback" \/ excuse
    PROVE  RestoreInv' /\ RestoreRollsBack'
<1> USE Falls
<1>0. /\ RestoreInv /\ script \in Script /\ Place(script.plan, script.pc)
      /\ script.plan \in DOMAIN Order
  BY Parts, Standing DEF ScriptOK
<1>1. CASE script.plan = "restore"
  <2>1. script.pc \in {"upproxy", "upmain", "check", "stopagain"} => dirs' = dirs
    BY <1>0, <1>1, DoneDirs DEF RestoreInv, At, Renames, world
  <2>2. ~excuse => dirs' = dirs
    BY <1>0, <1>1, <2>1, DoneDirs DEF Place, Renames, world
  <2>3. CASE script.displaced
    <3>1. At("promote")
      BY <1>0, <1>1, <2>3 DEF Place, RestoreInv, At
    <3> QED BY <1>0, <1>1, <2>2, <2>3, <3>1 DEF Cleanup, RestoreInv, RestoreRollsBack, At
  <2>4. CASE ~script.displaced /\ script.promoted
    <3>1. script.pc \in {"upproxy", "upmain", "check", "stopagain"}
      BY <1>0, <1>1, <2>4 DEF Place, RestoreInv, At
    <3> QED BY <1>0, <1>1, <2>1, <2>4, <3>1 DEF Cleanup, RestoreInv, RestoreRollsBack, At
  <2>5. CASE ~script.displaced /\ ~script.promoted
    <3>1. script.pc \in {"stop", "stage", "displace"}
      BY <1>0, <1>1, <2>5 DEF Place, RestoreInv, At
    <3> QED BY <1>0, <1>1, <2>2, <2>5, <3>1 DEF Cleanup, RestoreInv, RestoreRollsBack, At
  <2> QED BY <2>3, <2>4, <2>5, <1>0 DEF Script
<1>2. CASE script.plan = "rollback"
  BY <1>0, <1>2 DEF Cleanup, RestoreInv, RestoreRollsBack, At
<1>3. CASE script.plan \in {"upgrade", "recovery"}
  BY <1>0, <1>3, Standing DEF Cleanup, RestoreInv, RestoreRollsBack, At
<1> QED BY <1>0, <1>1, <1>2, <1>3, Plans

-----------------------------------------------------------------------------
(***************************************************************************)
(* The invariant.                                                          *)
(***************************************************************************)
LEMMA Counted ==
    ASSUME UsedOK,
           \/ used' = used \/ Started \/ Fault \/ Signal
           \/ used' = [used EXCEPT !.deaths = @ + 1]
    PROVE  UsedOK'
BY DEF UsedOK, Started, Fault, Signal

\* A failure that is not noticed, or only reported, in the cleanup of a restore.
LEMMA RollbackGoesOn ==
    ASSUME IInv, ~Idle, script.plan = "rollback", Proceed(TRUE),
           UNCHANGED <<journal, env, main, proxy>>,
           dirs' # dirs => At("reinstate")
    PROVE  PlaceOK' /\ SwitchOK' /\ ScriptOK' /\ RestoreInv' /\ RestoreRollsBack'
<1>1. /\ SwitchOK /\ RestoreInv /\ script \in Script /\ script.pc \in DOMAIN Order[script.plan]
      /\ script.op = "restore"
  BY Parts, Standing, Places DEF ScriptOK
<1>2. SwitchOK'
  BY <1>1, Proceeds, RollbackOrder DEF SwitchOK, SuccessIsSettled, At
<1>3. RestoreInv' /\ RestoreRollsBack'
  BY <1>1, Proceeds, RollbackOrder DEF RestoreInv, RestoreRollsBack, At
<1> QED BY <1>2, <1>3, Proceeds

\* A script that ends without a word.
LEMMA EndKeeps ==
    ASSUME IInv, ~Idle, UNCHANGED world, UsedOK',
           \/ script' = [script EXCEPT !.pc = "ended", !.status = "dead"]
           \/ script' = [script EXCEPT !.pc = "ended", !.status = "ok", !.excused = TRUE]
    PROVE  IInv'
<1>1. script \in Script /\ WorldOK /\ SelectionRuns /\ SwitchOK
  BY Parts DEF ScriptOK
<1>2. ScriptOK' /\ PlaceOK'
  BY <1>1 DEF ScriptOK, Script, PlaceOK, Idle, At
<1>3. WorldOK' /\ SelectionRuns'
  BY <1>1 DEF world, WorldOK, SelectionRuns, Selected
<1>4. /\ script'.pc = "ended" /\ script'.op = script.op
      /\ script'.status = "dead" \/ (script'.status = "ok" /\ script'.excused)
  BY <1>1 DEF Script
<1>5. SwitchOK' /\ RestoreInv' /\ RestoreRollsBack'
  BY <1>4 DEF SwitchOK, SuccessIsSettled, RestoreInv, RestoreRollsBack, At
<1> QED BY <1>2, <1>3, <1>5, PartsNext

\* A script that starts.
LEMMA StartKeeps ==
    ASSUME IInv, Idle,
           (\E image \in Images : StartUpgrade(image)) \/ StartRecovery \/ StartRestore
    PROVE  IInv'
<1>0. WorldOK /\ SelectionRuns /\ UsedOK /\ NoScript \in Script
  BY Parts, ConstantsAssumption, Plans DEF NoScript, Script
<1>1. UsedOK'
  BY <1>0, Counted DEF StartUpgrade, StartRecovery, StartRestore
<1>2. WorldOK' /\ SelectionRuns'
  <2> DEFINE fresh == [data |-> "before", rollback |-> "none", failed |-> "none",
                       nested |-> FALSE]
  <2>a. fresh \in Dirs
    BY DEF Dirs
  <2>b. dirs' \in {fresh, dirs} /\ UNCHANGED <<journal, env, main, proxy>>
    BY DEF StartUpgrade, StartRecovery, StartRestore, world
  <2>1. dirs' \in Dirs /\ UNCHANGED <<journal, env, main, proxy>>
    BY <1>0, <2>a, <2>b DEF WorldOK
  <2> QED BY <1>0, <2>1 DEF WorldOK, SelectionRuns, Selected
<1>3. CASE \E image \in Images : StartUpgrade(image)
  <2>1. PICK image \in Images : StartUpgrade(image)
    BY <1>3
  <2>2. /\ script' \in Script /\ script'.op = "upgrade" /\ script'.plan = "upgrade"
        /\ script'.pc = "preflight" /\ script'.status = "running" /\ journal' = Absent
    BY <1>0, <2>1, Plans DEF StartUpgrade, Script, Steps, world
  <2>3. ScriptOK' /\ PlaceOK' /\ SwitchOK' /\ RestoreInv' /\ RestoreRollsBack'
    BY <2>2, Plans, Places DEF ScriptOK, PlaceOK, Place, Idle, At, SwitchOK, SuccessIsSettled,
                               RestoreInv, RestoreRollsBack
  <2> QED BY <1>1, <1>2, <2>3, PartsNext
<1>4. CASE StartRecovery
  <2>1. /\ script' \in Script /\ script'.op = "recover" /\ script'.plan = "recovery"
        /\ script'.pc = "recovering" /\ script'.status = "running"
    BY <1>0, <1>4, Plans DEF StartRecovery, Script, Steps
  <2>2. ScriptOK' /\ PlaceOK' /\ SwitchOK' /\ RestoreInv' /\ RestoreRollsBack'
    BY <2>1, Plans, Places DEF ScriptOK, PlaceOK, Place, Idle, At, SwitchOK, SuccessIsSettled,
                               RestoreInv, RestoreRollsBack
  <2> QED BY <1>1, <1>2, <2>2, PartsNext
<1>5. CASE StartRestore
  <2>1. main.up \in BOOLEAN
    BY <1>0 DEF WorldOK
  <2>2. /\ script' \in Script /\ script'.op = "restore" /\ script'.plan = "restore"
        /\ script'.pc \in {"stop", "stage"} /\ script'.status = "running"
        /\ ~script'.displaced /\ ~script'.promoted /\ dirs'.data = "before"
    BY <1>0, <1>5, <2>1, Plans DEF StartRestore, Script, Steps, NoScript
  <2>3. ScriptOK' /\ PlaceOK' /\ SwitchOK' /\ RestoreInv' /\ RestoreRollsBack'
    BY <2>2, Plans, Places DEF ScriptOK, PlaceOK, Place, Idle, At, SwitchOK, SuccessIsSettled,
                               RestoreInv, RestoreRollsBack
  <2> QED BY <1>1, <1>2, <2>3, PartsNext
<1> QED BY <1>3, <1>4, <1>5

LEMMA InitHolds == Init => IInv
<1> SUFFICES ASSUME Init PROVE IInv
  OBVIOUS
<1>1. WorldOK /\ UsedOK
  BY ConstantsAssumption DEF Init, WorldOK, UsedOK, Dirs
<1>2. ScriptOK
  BY ConstantsAssumption, Plans DEF Init, ScriptOK, NoScript, Script
<1>3. SelectionRuns
  BY ConstantsAssumption DEF Init, SelectionRuns, Selected
<1>4. PlaceOK /\ SwitchOK /\ RestoreInv /\ RestoreRollsBack
  BY DEF Init, NoScript, PlaceOK, Idle, At, SwitchOK, SuccessIsSettled, RestoreInv,
         RestoreRollsBack
<1> QED BY <1>1, <1>2, <1>3, <1>4, Parts

LEMMA NextKeeps == IInv /\ [Next]_vars => IInv'
<1> SUFFICES ASSUME IInv, [Next]_vars PROVE IInv'
  OBVIOUS
<1>0. WorldOK /\ SelectionRuns /\ UsedOK
  BY Parts
<1>a. UNCHANGED world => WorldOK' /\ SelectionRuns'
  BY <1>0 DEF world, WorldOK, SelectionRuns, Selected
<1>1. CASE (\E image \in Images : StartUpgrade(image)) \/ StartRecovery \/ StartRestore
  BY <1>1, StartKeeps DEF StartUpgrade, StartRecovery, StartRestore
<1>2. CASE Step
  <2>1. Done /\ Proceed(FALSE) /\ UsedOK'
    BY <1>0, <1>2, Counted DEF Step, Done
  <2> QED
    BY <2>1, DoneTypes, DoneSelects, Proceeds, ProceedSwitch, ProceedRestore, PartsNext DEF Done
<1>3. CASE Refuse
  <2>1. UNCHANGED world /\ UsedOK' /\ ~Idle
    BY <1>0, <1>3, Counted DEF Refuse
  <2>2. CASE script.plan = "rollback"
    BY <1>a, <1>3, <2>1, <2>2, RollbackGoesOn, PartsNext DEF Refuse, world
  <2>3. CASE script.plan # "rollback"
    BY <1>a, <1>3, <2>1, <2>3, Falls, FallSwitch, FallRestore, PartsNext DEF Refuse
  <2> QED BY <2>2, <2>3
<1>4. CASE StepFails
  <2>1. /\ UsedOK' /\ ~Idle /\ Fall(FALSE) /\ script.plan # "rollback"
        /\ UNCHANGED world \/ (Done /\ script.pc \notin Renames)
    BY <1>0, <1>4, Counted DEF StepFails, Done
  <2> QED
    BY <1>a, <2>1, DoneTypes, DoneSelects, Falls, FallSwitch, FallRestore, PartsNext
<1>5. CASE RollbackFails
  <2>1. /\ UsedOK' /\ ~Idle /\ script.plan = "rollback"
        /\ UNCHANGED <<journal, env, main, proxy>>
        /\ dirs' # dirs => At("reinstate")
    BY <1>0, <1>5, Counted DEF RollbackFails
  <2>2. WorldOK' /\ SelectionRuns'
    <3>1. dirs' \in Dirs
      BY <1>0, <1>5 DEF RollbackFails, WorldOK, Dirs
    <3> QED BY <1>0, <2>1, <3>1 DEF WorldOK, SelectionRuns, Selected
  <2>3. CASE script.pc \in {"upproxy", "upmain"}
    <3>1. Fall(TRUE) /\ UNCHANGED world
      BY <1>5, <2>1, <2>3 DEF RollbackFails, At, world
    <3> QED BY <2>1, <2>2, <3>1, Falls, FallSwitch, FallRestore, PartsNext
  <2>4. CASE script.pc \notin {"upproxy", "upmain"}
    BY <1>5, <2>1, <2>2, <2>4, RollbackGoesOn, PartsNext DEF RollbackFails
  <2> QED BY <2>3, <2>4
<1>6. CASE StepKilled
  <2>1. /\ UsedOK' /\ ~Idle /\ Fall(TRUE)
        /\ UNCHANGED world \/ Done
    BY <1>0, <1>6, Counted DEF StepKilled, Done
  <2> QED
    BY <1>a, <2>1, DoneTypes, DoneSelects, Falls, FallSwitch, FallRestore, PartsNext
<1>7. CASE Terminated \/ Dies
  <2>1. UsedOK'
    BY <1>0, <1>7, Counted DEF Terminated, Dies
  <2> QED BY <1>7, <2>1, EndKeeps DEF Terminated, Dies
<1>8. CASE UNCHANGED vars
  BY <1>8 DEF vars, world, IInv, TypeOK, SwitchInv, SuccessIsSettled, SelectionRuns, Selected,
              RestoreInv, RestoreRollsBack, Idle, At
<1> QED BY <1>1, <1>2, <1>3, <1>4, <1>5, <1>6, <1>7, <1>8 DEF Next

\* The inductive invariant: what every command relies on of the journal, the
\* containers and the directories, where its script may stand.
THEOREM Invariance == Spec => []IInv
BY InitHolds, NextKeeps, PTL DEF Spec

\* Without a pending transaction both containers have the image that is
\* selected, wherever scripts failed or died.
THEOREM Selections == Spec => []SelectionRuns
<1>1. IInv => SelectionRuns
  BY DEF IInv
<1> QED BY <1>1, Invariance, PTL

\* A restore that fails puts the old state back, and runs it again.
THEOREM Restored == Spec => []RestoreRollsBack
<1>1. IInv => RestoreRollsBack
  BY DEF IInv
<1> QED BY <1>1, Invariance, PTL

\* The release switches at once, when both containers run the target.
THEOREM AtomicSwitch == Spec => SwitchIsAtomic
<1>1. IInv /\ [Next]_vars =>
        [Release' # Release =>
           /\ script.op = "upgrade" /\ script.plan = "upgrade" /\ Release' = script.target
           /\ main.image = script.target /\ proxy = script.target /\ env = script.target]_vars
  <2> SUFFICES ASSUME IInv, Next, Release' # Release
               PROVE  /\ script.op = "upgrade" /\ script.plan = "upgrade"
                      /\ Release' = script.target
                      /\ main.image = script.target /\ proxy = script.target
                      /\ env = script.target
    OBVIOUS
  <2>1. ~UNCHANGED <<journal, main>>
    BY DEF Release
  <2>2. Done
    BY <2>1 DEF Next, StartUpgrade, StartRecovery, StartRestore, Step, Refuse, StepFails,
                RollbackFails, StepKilled, Terminated, Dies, world, Done
  <2> QED BY <2>2, DoneRelease
<1> QED BY <1>1, Invariance, PTL DEF Spec, SwitchIsAtomic
=============================================================================
