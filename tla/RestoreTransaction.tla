------------------------- MODULE RestoreTransaction -------------------------
(***************************************************************************)
(* The restore transaction of echo_restore_transaction.py: the home tree   *)
(* and the agent tree of a machine are swapped for staged ones by renames, *)
(* on two filesystems, under a journal of phases; a trial boot follows;    *)
(* Recovery then rolls back or commits.  The power may fail between any    *)
(* two steps, and Recovery resumes from the journal.                       *)
(*                                                                         *)
(* A directory is a node with a place, <<directory it is in, name>>.  Every*)
(* rename, mkdir and removal is followed by sync() before the journal is   *)
(* replaced, so a step that is lost with the power is a step not taken.    *)
(* Volumes are opened exclusively: one invocation runs at a time.          *)
(***************************************************************************)
EXTENDS Naturals

CONSTANTS
    MayInterruptCopy,   \* the agent copy may be interrupted half-way
    MayBackup,          \* echo-os-backup may run while the desktop is up
    MayLoseStaging,     \* the user may delete the staging directory they own
    MayChangeMind       \* a commit may follow a rollback cut short in its first move

ASSUME SwitchesAssumption ==
    {MayInterruptCopy, MayBackup, MayLoseStaging, MayChangeMind} \subseteq BOOLEAN

VARIABLES
    phase,      \* the journal: its phase, "none" when there is no journal
    at,         \* the place of each directory
    content,    \* of each tree: as planned, edited since, or incomplete
    backup,     \* what user-backup-state.json says of this restore
    system,     \* the desktop, Recovery, or the operation Recovery runs
    refused     \* history: an operation the phase admits could not go on

vars == <<phase, at, content, backup, system, refused>>

Promoting   == {"prepared", "home-retired", "home-installed",
                "staging-transferred", "agent-retired"}
RollingBack == {"rollback-agent-saved", "rollback-agent-restored",
                "rollback-staging-returned", "rollback-home-saved",
                "rollback-home-restored", "rollback-trial-preserved"}
Committing  == {"commit-authorized", "commit-home-removed", "commit-old-removed"}
Phases      == {"none", "promoted"} \union Promoting \union RollingBack \union Committing

\* The trees, the containers, and the staging directory inside a home.
Trees == {"oldHome", "newHome", "oldAgent", "newAgent"}
Boxes == {"rollbackHomeBox", "rollbackAgentBox", "newAgentBox"}
Nodes == Trees \union Boxes \union {"staging"}

Nowhere == <<"none", "none">>
NodeAt(place) == IF \E n \in Nodes : at[n] = place
                   THEN CHOOSE n \in Nodes : at[n] = place ELSE "none"
Exists(place) == NodeAt(place) # "none"
Present(n)    == n \in Nodes /\ at[n] # Nowhere

\* The paths of _paths().
ActiveHome    == <<"home", "echo">>
RollbackHome  == <<"rollbackHomeBox", "echo">>
ActiveAgent   == <<"lib", "echo-agent">>
RollbackAgent == <<"rollbackAgentBox", "echo-agent">>
NewAgent      == <<"newAgentBox", "echo-agent">>
RejectedAgent == <<"lib", "rejected">>
RestoreRoot(home) == <<NodeAt(home), "staging">>
StagedHome    == <<NodeAt(RestoreRoot(RollbackHome)), "home">>

\* Where _private_container makes each container.
BoxPlace == [rollbackHomeBox  |-> <<"home", "rollback">>,
             rollbackAgentBox |-> <<"lib", "rollback">>,
             newAgentBox      |-> <<"lib", "new">>]

Operations == {"promote", "rollback", "commit"}

TypeOK ==
    /\ phase \in Phases
    /\ at \in [Nodes -> ({"home", "lib", "none"} \union Nodes) \X
           {"none", "echo", "echo-agent", "rollback", "new", "rejected", "staging", "home"}]
    /\ content \in [Trees -> {"planned", "edited", "partial"}]
    /\ backup \in {"staged", "rolled-back", "committed", "other"}
    /\ system \in {"recovery", "desktop", "copy"} \union Operations
    /\ refused \in BOOLEAN

\* A verified restore is staged in the old home; nothing is promoted.
Init ==
    /\ phase = "none"
    /\ at = [n \in Nodes |->
               CASE n = "oldHome"  -> ActiveHome
                 [] n = "oldAgent" -> ActiveAgent
                 [] n = "staging"  -> <<"oldHome", "staging">>
                 [] n = "newHome"  -> <<"staging", "home">>
                 [] OTHER          -> Nowhere]
    /\ content = [t \in Trees |-> "planned"]
    /\ backup = "staged"
    /\ system = "recovery"
    /\ refused = FALSE

-----------------------------------------------------------------------------
(***************************************************************************)
(* An operation is a loop over the phases.  A move makes a container or    *)
(* removes it, renames one directory, verifies a tree and checkpoints;     *)
(* what was done before the power failed is found done and skipped.        *)
(***************************************************************************)
Move(ph, box, wanted, src, dst, tree, next) ==
    [phase |-> ph, box |-> box, wanted |-> wanted, src |-> src, dst |-> dst,
     tree |-> tree, next |-> next]

PromotionMoves ==
    {Move("prepared", "rollbackHomeBox", TRUE, ActiveHome, RollbackHome,
          "oldHome", "home-retired"),
     Move("home-retired", "none", FALSE, StagedHome, ActiveHome,
          "newHome", "home-installed"),
     Move("home-installed", "none", FALSE, RestoreRoot(RollbackHome),
          RestoreRoot(ActiveHome), "newHome", "staging-transferred"),
     Move("staging-transferred", "rollbackAgentBox", TRUE, ActiveAgent,
          RollbackAgent, "oldAgent", "agent-retired"),
     Move("agent-retired", "none", FALSE, NewAgent, ActiveAgent,
          "newAgent", "promoted")}

\* Seeded fault: the trial home is put back before the staging directory.
RollbackMovesSwapped ==
    {Move("promoted", "none", FALSE, ActiveAgent, NewAgent,
          "none", "rollback-agent-saved"),
     Move("rollback-agent-saved", "none", FALSE, RollbackAgent, ActiveAgent,
          "none", "rollback-agent-restored"),
     Move("rollback-agent-restored", "none", FALSE, ActiveHome, StagedHome,
          "none", "rollback-staging-returned"),
     Move("rollback-staging-returned", "none", FALSE, RestoreRoot(ActiveHome),
          RestoreRoot(RollbackHome), "none", "rollback-home-saved"),
     Move("rollback-home-saved", "none", FALSE, RollbackHome, ActiveHome,
          "none", "rollback-home-restored"),
     Move("rollback-home-restored", "rollbackHomeBox", FALSE,
          BoxPlace.newAgentBox, RejectedAgent, "none", "rollback-trial-preserved")}

RollbackMoves ==
    {Move("promoted", "none", FALSE, ActiveAgent, NewAgent,
          "none", "rollback-agent-saved"),
     Move("rollback-agent-saved", "none", FALSE, RollbackAgent, ActiveAgent,
          "none", "rollback-agent-restored"),
     Move("rollback-agent-restored", "none", FALSE, RestoreRoot(ActiveHome),
          RestoreRoot(RollbackHome), "none", "rollback-staging-returned"),
     Move("rollback-staging-returned", "none", FALSE, ActiveHome, StagedHome,
          "none", "rollback-home-saved"),
     Move("rollback-home-saved", "none", FALSE, RollbackHome, ActiveHome,
          "none", "rollback-home-restored"),
     Move("rollback-home-restored", "rollbackHomeBox", FALSE,
          BoxPlace.newAgentBox, RejectedAgent, "none", "rollback-trial-preserved")}

\* rollback() completes an interrupted promotion first.
Current ==
    {m \in PromotionMoves : system \in {"promote", "rollback"} /\ m.phase = phase}
    \union {m \in RollbackMoves : system = "rollback" /\ m.phase = phase}

BoxReady(m) == Present(m.box) = m.wanted
Empty(box)  == \A n \in Nodes : at[n][1] # box

\* _rename() renames, or finds the rename done.
Renamable(m) ==
    /\ Exists(m.src) /\ ~Exists(m.dst)
    /\ m.dst[1] \in {"home", "lib"} \/ Present(m.dst[1])
Renamed(m)  == Exists(m.dst) /\ ~Exists(m.src)
\* The digest of a promotion's tree, taken before or after the rename: on the
\* wrong tree the operation stops either way (see Stuck).
Verified(m) == \A t \in Trees \intersect {m.tree} : content[t] = "planned"

\* Paths health() requires of a promoted restore.
TrialPaths == {ActiveHome, RollbackHome, ActiveAgent, RollbackAgent,
               RestoreRoot(ActiveHome)} \union {BoxPlace[b] : b \in Boxes}

\* Seeded fault: health() looks at the active trees and not at the journal.
HealthyByTrees == Exists(ActiveHome) /\ Exists(ActiveAgent)

Healthy == \/ phase = "none"
           \/ phase = "promoted" /\ \A place \in TrialPaths : Exists(place)

\* build_plan() and load_staged_restore() find a staged restore and no path
\* of an earlier transaction.
Plannable ==
    /\ backup = "staged"
    /\ Exists(RestoreRoot(ActiveHome))
    /\ \A place \in {BoxPlace.rollbackHomeBox, BoxPlace.rollbackAgentBox,
                     RejectedAgent} : ~Exists(place)

\* Seeded fault: a rollback cannot be taken up again once it has begun.
AdmitsFirstOnly(op) ==
    CASE op = "promote"  -> phase \in Promoting \/ (phase = "none" /\ Plannable)
      [] op = "rollback" -> phase \in Promoting \union {"promoted"}
      [] op = "commit"   -> phase \in Committing \union {"promoted"}

\* The operations that do not refuse the journal's phase outright.
Admits(op) ==
    CASE op = "promote"  -> phase \in Promoting \/ (phase = "none" /\ Plannable)
      [] op = "rollback" -> phase \in Promoting \union {"promoted"} \union RollingBack
      [] op = "commit"   -> phase \in Committing \union {"promoted"}

\* A rollback has saved the trial's agent and not yet journaled it.
CutShort == phase = "promoted" /\ Exists(NewAgent)

Start(op) ==
    /\ system = "recovery"
    /\ Admits(op)
    /\ op = "commit" /\ CutShort => MayChangeMind
    /\ system' = op
    /\ UNCHANGED <<phase, at, content, backup, refused>>

-----------------------------------------------------------------------------
(***************************************************************************)
(* promote() before there is a journal: the staged agent is copied to the  *)
(* filesystem of the active one.                                           *)
(***************************************************************************)
MakeCopyBox ==
    /\ system = "promote"
    /\ phase = "none"
    /\ ~Present("newAgentBox")
    /\ at' = [at EXCEPT !["newAgentBox"] = BoxPlace.newAgentBox]
    /\ UNCHANGED <<phase, content, backup, system, refused>>

BeginCopy ==
    /\ system = "promote"
    /\ phase = "none"
    /\ Present("newAgentBox")
    /\ ~Exists(NewAgent)
    /\ at' = [at EXCEPT !["newAgent"] = NewAgent]
    /\ content' = [content EXCEPT !["newAgent"] = "partial"]
    /\ system' = "copy"
    /\ UNCHANGED <<phase, backup, refused>>

FinishCopy ==
    /\ system = "copy"
    /\ content' = [content EXCEPT !["newAgent"] = "planned"]
    /\ system' = "promote"
    /\ UNCHANGED <<phase, at, backup, refused>>

Journal ==
    /\ system = "promote"
    /\ phase = "none"
    /\ Exists(NewAgent)
    /\ content["newAgent"] = "planned"
    /\ phase' = "prepared"
    /\ UNCHANGED <<at, content, backup, system, refused>>

-----------------------------------------------------------------------------
(***************************************************************************)
(* The moves of a promotion or a rollback.                                 *)
(***************************************************************************)

\* _private_container and _remove_empty_container.
PrepareBox(m) ==
    /\ ~BoxReady(m)
    /\ m.wanted \/ Empty(m.box)
    /\ at' = [at EXCEPT ![m.box] = IF m.wanted THEN BoxPlace[m.box] ELSE Nowhere]
    /\ UNCHANGED <<phase, content, backup, system, refused>>

Rename(m) ==
    /\ BoxReady(m)
    /\ Renamable(m)
    /\ Verified(m)
    /\ at' = [at EXCEPT ![NodeAt(m.src)] = m.dst]
    /\ UNCHANGED <<phase, content, backup, system, refused>>

\* Seeded fault: the checkpoint is written before the rename.
CheckpointEarly(m) ==
    /\ BoxReady(m)
    /\ phase' = m.next
    /\ UNCHANGED <<at, content, backup, system, refused>>

Checkpoint(m) ==
    /\ BoxReady(m)
    /\ Renamed(m)
    /\ Verified(m)
    /\ phase' = m.next
    /\ UNCHANGED <<at, content, backup, system, refused>>

\* The move can neither be made nor be found done: an error is raised.
Stuck(m) ==
    IF BoxReady(m) THEN ~Verified(m) \/ (~Renamable(m) /\ ~Renamed(m))
                   ELSE ~m.wanted /\ ~Empty(m.box)

Promoted ==
    /\ system = "promote"
    /\ phase = "promoted"
    /\ system' = "recovery"
    /\ UNCHANGED <<phase, at, content, backup, refused>>

-----------------------------------------------------------------------------
(***************************************************************************)
(* commit() deletes what the trial replaced.                               *)
(***************************************************************************)
Authorize ==
    /\ system = "commit"
    /\ phase = "promoted"
    /\ phase' = "commit-authorized"
    /\ UNCHANGED <<at, content, backup, system, refused>>

\* Seeded fault: the old home is deleted before the commit is journaled.
ErasableUnauthorized(box) ==
    \/ phase \in {"promoted", "commit-authorized"} /\ box = "rollbackHomeBox"
    \/ phase = "commit-home-removed" /\ box \in Boxes \ {"rollbackHomeBox"}

Erasable(box) ==
    \/ phase = "commit-authorized" /\ box = "rollbackHomeBox"
    \/ phase = "commit-home-removed" /\ box = "rollbackAgentBox"
    \/ /\ phase = "commit-home-removed" /\ box = "newAgentBox"
       /\ ~Present("rollbackAgentBox")

\* Seeded fault: only the container goes.
UnderShallow(box) == {box}

\* What rmtree removes with a container.
Under(box) == {box} \union {n \in Nodes : at[n][1] = box \/
                             \E k \in Nodes : at[k][1] = box /\ at[n][1] = k}

Erase(box) ==
    /\ system = "commit"
    /\ Present(box)
    /\ Erasable(box)
    /\ at' = [n \in Nodes |-> IF n \in Under(box) THEN Nowhere ELSE at[n]]
    /\ UNCHANGED <<phase, content, backup, system, refused>>

\* The power fails inside rmtree: the trees under the container are incomplete.
EraseInterrupted(box) ==
    /\ system = "commit"
    /\ Present(box)
    /\ Erasable(box)
    /\ content' = [t \in Trees |-> IF t \in Under(box) THEN "partial" ELSE content[t]]
    /\ system' = "recovery"
    /\ UNCHANGED <<phase, at, backup, refused>>

Erased ==
    /\ system = "commit"
    /\ \/ /\ phase = "commit-authorized"
          /\ ~Present("rollbackHomeBox")
          /\ phase' = "commit-home-removed"
       \/ /\ phase = "commit-home-removed"
          /\ ~Present("rollbackAgentBox") /\ ~Present("newAgentBox")
          /\ phase' = "commit-old-removed"
    /\ UNCHANGED <<at, content, backup, system, refused>>

-----------------------------------------------------------------------------
(***************************************************************************)
(* The end of a rollback or a commit.                                      *)
(***************************************************************************)
Ending(action) ==
    \/ system = "rollback" /\ phase = "rollback-trial-preserved" /\ action = "rolled-back"
    \/ system = "commit" /\ phase = "commit-old-removed" /\ action = "committed"

\* _update_backup_action
RecordAction(action) ==
    /\ Ending(action)
    /\ backup = "staged"
    /\ backup' = action
    /\ UNCHANGED <<phase, at, content, system, refused>>

\* _remove_journal
RemoveJournal(action) ==
    /\ Ending(action)
    /\ backup = action
    /\ phase' = "none"
    /\ system' = "recovery"
    /\ UNCHANGED <<at, content, backup, refused>>

\* An operation the phase admits raises an error and leaves things as they are.
Refuse ==
    /\ \/ \E m \in Current : Stuck(m)
       \/ \E action \in {"rolled-back", "committed"} :
            Ending(action) /\ backup \notin {"staged", action}
       \/ /\ system = "promote" /\ phase = "none"
          /\ Exists(NewAgent) /\ content["newAgent"] # "planned"
    /\ refused' = TRUE
    /\ system' = "recovery"
    /\ UNCHANGED <<phase, at, content, backup>>

-----------------------------------------------------------------------------
(***************************************************************************)
(* Power, boots, and what happens while the desktop is up.                 *)
(***************************************************************************)
Crash ==
    /\ \/ system \in Operations
       \/ system = "copy" /\ MayInterruptCopy
    /\ system' = "recovery"
    /\ UNCHANGED <<phase, at, content, backup, refused>>

\* The health gate lets agent and desktop start.
BootDesktop ==
    /\ system = "recovery"
    /\ Healthy
    /\ system' = "desktop"
    /\ UNCHANGED <<phase, at, content, backup, refused>>

BootRecovery ==
    /\ system = "desktop"
    /\ system' = "recovery"
    /\ UNCHANGED <<phase, at, content, backup, refused>>

\* The user works on the trial.
Trial ==
    /\ system = "desktop"
    /\ phase = "promoted"
    /\ content' = [content EXCEPT !["newHome"] = "edited", !["newAgent"] = "edited"]
    /\ UNCHANGED <<phase, at, backup, system, refused>>

\* echo-os-backup init, backup, check or restore replaces the state file.
Backup ==
    /\ MayBackup
    /\ system = "desktop"
    /\ backup' = "other"
    /\ UNCHANGED <<phase, at, content, system, refused>>

LoseStaging ==
    /\ MayLoseStaging
    /\ system = "desktop"
    /\ phase = "promoted"
    /\ at' = [at EXCEPT !["staging"] = Nowhere]
    /\ UNCHANGED <<phase, content, backup, system, refused>>

-----------------------------------------------------------------------------
\* What a running operation does next.
Work ==
    \/ MakeCopyBox \/ BeginCopy \/ FinishCopy \/ Journal \/ Promoted
    \/ \E m \in Current : PrepareBox(m) \/ Rename(m) \/ Checkpoint(m)
    \/ Authorize \/ Erased \/ \E box \in Boxes : Erase(box)
    \/ \E action \in {"rolled-back", "committed"} :
         RecordAction(action) \/ RemoveJournal(action)
    \/ Refuse

Next ==
    \/ Work
    \/ \E op \in Operations : Start(op)
    \/ \E box \in Boxes : EraseInterrupted(box)
    \/ Crash \/ BootDesktop \/ BootRecovery \/ Trial \/ Backup \/ LoseStaging

Spec == Init /\ [][Next]_vars

\* Somebody at the Recovery console takes an interrupted transaction up again
\* (the desktop does not start before that), and the power does not fail
\* before every step for ever.
Resume == phase \notin {"none", "promoted"} /\ \E op \in Operations : Start(op)

FairSpec == Spec /\ SF_vars(Work) /\ WF_vars(Resume)

-----------------------------------------------------------------------------
(***************************************************************************)
(* What must hold.                                                         *)
(***************************************************************************)

\* No two directories are in one place, and every directory is in one that
\* exists: no rename overwrites, no removal leaves orphans (_rename, rmtree).
\* The staging directory goes with what the user has left in it.
Intact ==
    /\ TypeOK
    /\ \A m, n \in Nodes : m # n /\ at[m] = at[n] => at[m] = Nowhere
    /\ \A n \in Nodes : Present(n) => at[n][1] \in {"home", "lib"} \/ Present(at[n][1])

\* No old tree is damaged or deleted before the commit is journaled ("commit
\* is the sole deletion authorization", deploy/recovery/README.md).
OldKept ==
    [][\A t \in {"oldHome", "oldAgent"} :
         /\ Present(t) /\ at'[t] = Nowhere => phase \in Committing
         /\ content'[t] # content[t] => phase \in Committing]_<<at, content>>

\* restore-commit "explicitly deletes only the retained old Home and Agent
\* trees" (deploy/recovery/README.md).
OnlyOldDeleted ==
    [][\A t \in {"newHome", "newAgent"} : Present(t) => at'[t] # Nowhere]_at

\* The desktop only ever runs on a home and an agent that belong together, and
\* on a promoted pair only with the old pair retained.
BootPair ==
    system = "desktop" =>
        \/ NodeAt(ActiveHome) = "oldHome" /\ NodeAt(ActiveAgent) = "oldAgent"
        \/ /\ NodeAt(ActiveHome) = "newHome" /\ NodeAt(ActiveAgent) = "newAgent"
           /\ \/ phase = "none"
              \/ NodeAt(RollbackHome) = "oldHome" /\ NodeAt(RollbackAgent) = "oldAgent"

\* A finished rollback has put both old trees back and kept both trial trees;
\* a finished commit has left the trial trees active and no container behind.
Outcome ==
    phase = "none" =>
        /\ backup = "rolled-back" =>
             /\ at["oldHome"] = ActiveHome /\ at["oldAgent"] = ActiveAgent
             /\ at["staging"] = RestoreRoot(ActiveHome)
             /\ at["newHome"] = <<"staging", "home">>
             /\ at["newAgent"] = NewAgent /\ at["newAgentBox"] = RejectedAgent
        /\ backup = "committed" =>
             /\ at["newHome"] = ActiveHome /\ at["newAgent"] = ActiveAgent
             /\ \A n \in Boxes \union {"oldHome", "oldAgent"} : ~Present(n)

\* What happened outside the transaction, or before its journal.
Disturbed ==
    \/ backup = "other"
    \/ ~Present("staging")
    \/ content["newAgent"] = "partial"

\* However often it is interrupted, the transaction itself never gets into a
\* state its operations refuse to continue from.
RefusedOnlyWhenDisturbed == refused => Disturbed

\* "Every intermediate topology is resumable" (module docstring).
Resumable == ~refused

\* An interrupted transaction comes to an end: nothing, or a complete trial.
Completes ==
    phase \notin {"none", "promoted"} ~> phase \in {"none", "promoted"} \/ refused

(***************************************************************************)
(* The inductive invariant.  A promotion and the rollback after it move    *)
(* everything in one order, so the number of moves made, 0 to 16, says     *)
(* where all directories are; the journal's phase leaves a few of them.    *)
(***************************************************************************)
Layout(i) ==
    [n \in Nodes |->
       CASE n = "newAgentBox"      -> IF i = 0 THEN Nowhere
                                      ELSE IF i = 16 THEN RejectedAgent
                                      ELSE BoxPlace.newAgentBox
         [] n = "newAgent"         -> IF i < 2 THEN Nowhere
                                      ELSE IF i = 9 THEN ActiveAgent ELSE NewAgent
         [] n = "rollbackHomeBox"  -> IF i \in 3..14 THEN BoxPlace.rollbackHomeBox
                                      ELSE Nowhere
         [] n = "oldHome"          -> IF i \in 4..13 THEN RollbackHome ELSE ActiveHome
         [] n = "newHome"          -> IF i \in 5..12 THEN ActiveHome
                                      ELSE <<"staging", "home">>
         [] n = "staging"          -> IF i \in 6..11 THEN <<"newHome", "staging">>
                                      ELSE <<"oldHome", "staging">>
         [] n = "rollbackAgentBox" -> IF i < 7 THEN Nowhere
                                      ELSE BoxPlace.rollbackAgentBox
         [] n = "oldAgent"         -> IF i \in 8..10 THEN RollbackAgent ELSE ActiveAgent]

\* All is as after i moves, except for what has been removed or lost.
LaidOut(i, gone) == at = [n \in Nodes |-> IF n \in gone THEN Nowhere ELSE Layout(i)[n]]

\* The moves that may have been made in a phase.
MovesMade(ph) ==
    CASE ph = "prepared"                  -> 2..4
      [] ph = "home-retired"              -> 4..5
      [] ph = "home-installed"            -> 5..6
      [] ph = "staging-transferred"       -> 6..8
      [] ph = "agent-retired"             -> 8..9
      [] ph = "promoted"                  -> 9..10
      [] ph = "rollback-agent-saved"      -> 10..11
      [] ph = "rollback-agent-restored"   -> 11..12
      [] ph = "rollback-staging-returned" -> 12..13
      [] ph = "rollback-home-saved"       -> 13..14
      [] ph = "rollback-home-restored"    -> 14..16
      [] ph = "rollback-trial-preserved"  -> {16}

\* What is gone when a commit that began after i moves has removed k containers,
\* and how many it has removed in a phase.
Gone(i, k) ==
    (IF k >= 1 THEN {"rollbackHomeBox", "oldHome"} ELSE {}) \union
    (IF k >= 2 THEN {"rollbackAgentBox", "oldAgent"} ELSE {}) \union
    (IF k = 3 THEN {"newAgentBox"} ELSE {}) \union
    (IF k = 3 /\ i = 10 THEN {"newAgent"} ELSE {})

BoxesGone(ph) ==
    CASE ph = "commit-authorized"   -> 0..1
      [] ph = "commit-home-removed" -> 1..3
      [] ph = "commit-old-removed"  -> {3}

Lost == {{}, {"staging"}}

\* Nothing is journaled yet.
Preparing ==
    \E i \in 0..2 :
       /\ LaidOut(i, {})
       /\ \A t \in Trees \ {"newAgent"} : content[t] = "planned"
       /\ content["newAgent"] \in {"planned", "partial"}
       /\ i < 2 => ~refused /\ content["newAgent"] = "planned"
       /\ system = "copy" => i = 2 /\ ~refused /\ content["newAgent"] = "partial"
       /\ system \in {"promote", "copy"} => backup = "staged"
       /\ system \in {"promote", "copy", "recovery", "desktop"}
       /\ backup \in {"staged", "other"}

RolledBack ==
    /\ LaidOut(16, {})
    /\ system \in {"recovery", "desktop"}
    /\ backup \in {"rolled-back", "other"}

Committed ==
    /\ \E i \in 9..10, lost \in Lost :
         LaidOut(i, Gone(i, 3) \union lost) /\ (i = 10 => MayChangeMind)
    /\ system \in {"recovery", "desktop"}
    /\ backup \in {"committed", "other"}

\* Without a journal nothing has begun, or all has ended.
RestInv == phase = "none" => Preparing \/ RolledBack \/ Committed

\* A promotion finds the trees as planned.
PromotionInv ==
    phase \in Promoting =>
        /\ \E i \in MovesMade(phase) : LaidOut(i, {})
        /\ \A t \in Trees : content[t] = "planned"
        /\ system \in {"recovery", "promote", "rollback"}
        /\ backup \in {"staged", "other"}

\* In a trial nothing has moved back while the desktop runs, or when a commit
\* begins; the user may lose the staging directory.
TrialInv ==
    phase \in {"promoted"} \union RollingBack =>
        /\ \E i \in MovesMade(phase) :
             /\ LaidOut(i, {}) \/ (i < 12 /\ LaidOut(i, {"staging"}))
             /\ system = "desktop" => i = 9
             /\ system = "commit" /\ i = 10 => MayChangeMind
        /\ content["newAgent"] # "partial"
        /\ phase = "promoted" => system # "copy"
        /\ phase # "promoted" => system \in {"recovery", "rollback"}
        /\ \/ backup \in {"staged", "other"}
           \/ phase = "rollback-trial-preserved" /\ backup = "rolled-back"

CommitInv ==
    phase \in Committing =>
        /\ \E i \in 9..10, lost \in Lost, k \in BoxesGone(phase) :
             /\ LaidOut(i, Gone(i, k) \union lost)
             /\ i = 10 => MayChangeMind
             /\ i = 9 => content["newAgent"] # "partial"
        /\ system \in {"recovery", "commit"}
        /\ \/ backup \in {"staged", "other"}
           \/ phase = "commit-old-removed" /\ backup = "committed"

\* Wherever the power fails, the journal's phase and a number of moves made say
\* where every directory is, and which of them may be incomplete.
IInv == /\ TypeOK /\ RestInv /\ PromotionInv /\ TrialInv /\ CommitInv
        /\ RefusedOnlyWhenDisturbed
=============================================================================
