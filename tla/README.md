# A verification of Echo OS

Echo OS is a home-server operating system with an agent runtime built in
(`runtime/`), services of its own (`appliance/`) and the scripts that install,
update, back up and restore it (`deploy/`).  This directory holds TLA+
specifications of the parts of it that coordinate threads, processes, crashes
and restarts, the TLC configurations that check them on small instances, and
TLAPS proofs of what holds for every instance.

- [Inventory](#inventory): the parts, their state, what is hard about them
- [Modules](#modules): what models what
- [Runs](#runs): what each run checks, with its bounds and fairness
- [Proofs](#proofs): what is proved, and how
- [Disagreements](#disagreements): where a document and the code differ
- [Not modelled](#not-modelled)
- [Plan](#plan): what comes next, in which order

Run everything from this directory: `tlc -config MCToolEffects_workers.cfg
MCToolEffects`, `tlapm ToolEffects_proofs.tla`.

## Inventory

**Tool effect receipts** (`runtime/execution/tool_engine/effect_store.py`,
`effect_receipts.py`, called from `executor.py`).  A tool call has an *effect
key* (task, step, tool, canonical arguments).  Before a handler runs, the
process claims the key in a SQLite row shared by all workers (state, holder,
fencing token, lease), writes an intent to the append-only journal, marks the
row started and starts a heartbeat thread; afterwards it commits the result to
the row and appends the Step to the journal.  Each process keeps an index:
the keys it executes (`_live`), the intents and results it has read from the
journal, its heartbeats, all under one condition variable.  Operators review
receipts over HTTP and authorise retries.  Hard: two workers and two threads of
one worker deliver the same call; leases lapse while their owner is paused; a
crash between any two steps; a failed call deletes its row, which restarts the
token; indexes older than the row; approvals that race with owners.  Correct
means: the handler of a side effect runs once per authorisation, a result once
published is what everybody gets, nobody waits for ever.

**Redis effect store** (`redis_effect_store.py`, `core/hearts/redis_coordinator.py`).
The same protocol over Redis: the lease is one key with a TTL, the receipt
another; every write is a Lua script fenced by `holder|token`.  Hard: a claim is
several commands, so another process runs between acquiring the lease and
writing the receipt; the lease key disappears by itself.

**Restore transaction** (`deploy/recovery/echo_restore_transaction.py`).  A
restore drill swaps the home tree and the agent tree of a running system for
staged ones by renames, with a private journal of phases, and later commits or
rolls back.  Hard: power may be lost between a rename and the checkpoint that
records it, and again during the recovery; the copy of a tree and its removal
are not atomic; two trees must go together.

**Appliance maintenance** (`deploy/appliance/upgrade-appliance.sh` with
`upgrade_transaction.py`, `recover-appliance-upgrade.sh`, `restore-state.sh`).
An upgrade journals the previous and the target image, writes the target to
`echo-release.env`, recreates the two containers with Compose, checks what runs
and removes the journal; its trap, the boot unit or an operator takes it back.  A
state restore stops the service, renames the state directory away and the
restored one into its place, and undoes that in its trap.  All three hold one
maintenance lock.  Hard: commands that fail before or after they had their
effect, signals in the middle, scripts and machines that die, containers that are
recreated one after the other, a restore between an interrupted upgrade and its
recovery.  Correct means: without a journal the containers run what is selected,
the release changes only by a verified commit, a failed restore leaves the old
state in its place and running, a pending upgrade is settled in the end.

**Project task claims** (`projectos/engine.py`, `_store_task_claims.py`,
`store.py`, `_store_message_actions.py`).  A project has milestones and a
milestone tasks that depend on one another.  Each request that ticks the project
expires old claims, decomposes the milestone under a claim, claims ready tasks,
executes them, and lets a gate close or block the milestone; operators recover a
blocked project or reset, complete and skip tasks; messages add tasks.  Every
store call is one transaction and an operation is many.  Hard: what was read
before is stale when it is used, a claim passes its timeout while its worker
lives, results arrive late.  Correct means: a task that was given up is not run
again unseen, attempts are bounded, a claimed task belongs to its worker, no
milestone closes over open tasks.

**File-lock coordinator** (`core/hearts/coordinator.py`) and **leader
election** (`core/cerebrum/leader.py`).  Leases in files under `flock`, a
fencing counter in another file, a PID file.  Only the demonstration in
`runtime/tour.py` uses them so far.  Hard: `release` unlinks the file a
second process may have opened and be waiting to lock; the counter is shared by
scopes that do not share a lock.

**Circuit breaker** (`safety/budget_breaker/breaker.py`).  Closed, open, half
open with one probe.  Hard: results of calls that began before the trip arrive
after it, and a probe that never reports.

**Turn claims** (`platform/process/thread_turn_claim.py`).  One running turn per
chat thread over all processes, with claims that may be retained by a
background continuation.  **File leases** (`platform/io/lease.py`,
`execution/misc/file_write_leases.py`).  Purge, renewal, and write leases tied to
the content a session last read.  Hard in both: expiry against renewal, and
state read in one transaction and used in the next.

**Cancellation and approvals** (`safety/approval/`).  Linked cancellation
tokens, and approvals that may be answered after they timed out.

**Scheduling** (`execution/jobs`, `execution/cron_*`,
`execution/parallel_agents`, `execution/loops`).  Background jobs, missed ticks,
batches of dependent agents.

**Logs and projections** (`memory/threads`, `memory/journal`, `memory/cowork`,
`memory/goals`).  Append-only logs and full-snapshot mutations under a
cross-process lock.

**Everything else**: event buses, the WebSocket gateway, the NAS adapters, the
model-driven agent loop, user interfaces and content (see *Not modelled*).

How they interact: the executor is called by agent loops of every kind and calls
the receipts, the journal, file leases and budgets; the gateway starts turns
under turn claims and passes approvals and cancellations in; coordinators and
leader election decide which process runs schedulers; the gateway's requests tick
projects; the restore transaction and the maintenance scripts run outside the
runtime, with it stopped or on trial.

## Modules

| module | models |
|---|---|
| `EffectContract` | what the `EffectStore` protocol promises for one effect key, whatever the backend |
| `ToolEffects` | the SQLite store, the per-process index and the executor's use of them, for one effect key |
| `RedisEffects` | the Redis store under the same index and executor, command by command |
| `RestoreTransaction` | promotion, rollback and commit of a staged restore, the boots between them, power failures at any step |
| `ApplianceMaintenance` | upgrade, recovery and state restore of the appliance, command by command |
| `ProjectClaims` | ticks, operators and messages on the tasks of one milestone |
| `MCToolEffects`, `MCRedisEffects`, `MCApplianceMaintenance`, `MCProjectClaims` | small instances |
| `EffectContract_proofs`, `ToolEffects_proofs`, `ToolEffects_refinement`, `RedisEffects_proofs`, `RedisEffects_reviews`, `RestoreTransaction_proofs`, `ApplianceMaintenance_proofs`, `ProjectClaims_proofs` | theorems |

`ToolEffects` and `RedisEffects` both implement `EffectContract`; the other
modules stand alone, as the parts they model do.

### ToolEffects

One effect key is modelled; neither the store nor the index relates two keys.
`row` is the SQLite row, `journal` what the journal says of the key, `mem[p]` the
index of process p, `call[d]` one thread that runs `execute_step`, one call at a
time.  Each SQLite transaction, and each stretch of code under the condition
variable up to the next store call, is one action, so that threads and processes
interleave where the code lets them: `begin()` holds the lock from its refresh
to its claim (`LockFree`), and gives it up while it waits.  A process that is
restarted has a new holder id and an empty index, so it is a process that has
not delivered yet.

| code | actions |
|---|---|
| `begin`, waiting for a thread of the same process | `Deliver`, `Wait`, `WaitTimesOut`, `Enter` |
| `record_committed` | `Repair` |
| `claim`, one action per outcome | `ClaimVacant`, `ClaimCommitted`, `ClaimUnreadable`, `ClaimIndeterminate`, `ClaimBusy`, `ClaimOwn`, `ClaimLapsed` |
| `begin`, waiting for another process | `Poll` |
| file-write lease, intent, `mark_intent` | `PreflightFails`, `WriteIntent`, `MarkIntent`, `MarkIntentLost`, `MarkIntentFails` |
| handler | `EnterHandler`, `HandlerReturns` |
| accounting before `finish` | `EscapeBeforeFinish` |
| `finish` | `Commit`, `CommitLost`, `FinishFailed`, `FinishFails` |
| `write_step` | `WriteStep`, `StepAppendFails` |
| heartbeat, clock, process death | `Renew`, `LeaseExpires`, `Crash` |
| operator | `Review`, `AuthorizeRetry` |

Abstractions: a result is the number of the start that produced it, so that two
results can be told apart; a lease is live or not, and time is the action
`LeaseExpires`, which may come at any moment because a process may be paused for
any time; time-outs of waits may come at any moment too.  `ResultsDecay` says
whether a stored Step may fail to decode (another version of the program wrote
it).  `starts`, `executions`, `authorized` and `reviewed` are history.
Operators named in a comment *Seeded fault* are not part of the specification:
they are wrong versions of the definition that follows them, kept to show that
the properties notice.

### RestoreTransaction

A directory is a node; `at` gives its place, a parent and a name.  The nodes are
the old and the new home, the old and the new agent, the staging directory (the
new home waits inside it) and the three root-only containers.  `phase` is the
journal, `backup` the action recorded in `user-backup-state.json`, `content`
whether a tree is as planned, edited or incomplete, `system` what the machine is
doing: Recovery, the desktop, or one invocation of `promote`, `rollback` or
`commit` (the volumes are opened exclusively, so there is one).

| code | actions |
|---|---|
| `promote` up to the journal | `MakeCopyBox`, `BeginCopy`, `FinishCopy`, `Journal` |
| `_resume_promotion`, `rollback`: one phase each | `PrepareBox`, `Rename`, `Checkpoint` of the phase's `Move`; `Promoted` |
| `commit` | `Authorize`, `Erase`, `EraseInterrupted`, `Erased` |
| `_update_backup_action`, `_remove_journal` | `RecordAction`, `RemoveJournal` |
| every `raise` on an admitted phase | `Refuse` |
| `health` and the units that require it | `BootDesktop` |
| the machine and its user | `Crash`, `BootRecovery`, `Trial`, `Backup`, `LoseStaging` |

The eleven phases that move something do the same three things, so they are a
table, `PromotionMoves` and `RollbackMoves`, and three actions.  `rollback` of an
interrupted promotion completes it first (`Current`).  The code calls `sync()`
after every rename, mkdir and removal and before it replaces the journal, so a
step lost with the power is a step that was not taken.  Digests are reduced to
`content`; symlink, owner and mode checks are left out; one staged restore is
modelled, not the next one after it.  Four constants switch on what may happen
around the transaction: an interrupted copy, a backup during the trial, a lost
staging directory, and a commit after a rollback that was cut short.

### RedisEffects

`lease` is the lease key, which a TTL removes, `receipt` the receipt key,
`active[p]` the token the coordinator of process p believes to hold, `index[p]`
its receipt index, `call[p]` its delivery.  A Redis command or Lua script is one
action, so everything may happen between two commands of one `claim()`.

| code | actions |
|---|---|
| `begin` up to the store | `Deliver`, `Repair`, `Poll` |
| `acquire_lease`: GET, PEXPIRE, INCR with SET NX | `Lookup`, `Extend`, `Grab` |
| `claim` without, and with, the lease | `Refused`; `Read`, `LetGo`, `PublishDoubt`, `Publish`, `PublishLost` |
| an error of any of these, before or after Redis did its part | `BeginFails` |
| from the grant to the handler | `PreflightFails`, `WriteIntent`, `MarkIntent`, `MarkIntentLost`, `MarkIntentFails`, `EnterHandler`, `HandlerReturns` |
| `finish` and the Step | `EscapeBeforeFinish`, `Commit`, `CommitLost`, `FinishFailed`, `FinishFails`, `WriteStep`, `StepAppendFails` |
| TTL, heartbeat, death, operator | `LeaseLapses`, `RenewLost`, `Crash`, `Review`, `AuthorizeRetry` |

The index and the executor are those of `ToolEffects`, reduced to one delivery
thread per process.  A renewal that succeeds changes nothing here: a lease may
lapse at any moment, since its holder may be paused for any time.

### ApplianceMaintenance

`journal`, `env`, `main`, `proxy` and `dirs` are the world: the upgrade journal,
the selected image, the two containers and the state directories.  `script` is
the one script that holds the maintenance lock: what it does (`op`), which list
of commands it works on (`plan`), the next command (`pc`), its shell variables
and how it ended.  The command lists are the table `Order`; `Effect` is what each
command does, `Permitted` what it checks first, `Onward` and `Cleanup` where the
script goes after a success and after a failure.

| code | actions |
|---|---|
| checks before the first change | `StartUpgrade`, `StartRecovery`, `StartRestore` |
| a command that ends well | `Step` |
| a check that fails | `Refuse` |
| a command that fails, with or without its effect | `StepFails`; `RollbackFails` in the cleanup of the restore, where errors are not fatal |
| TERM or INT, to the command or to the shell alone | `StepKilled`, `Terminated` |
| SIGKILL, power failure | `Dies` |

A rename happens or not; every other command that fails may have had its effect.
Pull, schema check, backup, staging and verification change nothing that is
modelled and are one command.  `excused` remembers that a signal, or a failure
inside the cleanup, is part of the story of this script.

### ProjectClaims

One milestone with its tasks.  `project`, `milestone`, `task`, `claim` and
`planning` are the tables, each changed in one transaction per action; `tick[w]`
and `operation[o]` are the local variables of a request: where it is and what it
has read.

| code | actions |
|---|---|
| `tick`: expiry of claims | `StartTick`, `ExpirePlanning`, `ExpireTasks` |
| `_ensure_active_milestone` | `Activate`, `SaveActive`, `Activated`, `BlockProject`, `FinishProject` |
| `_ensure_tasks` | `Decompose`, `Publish` (a task set, or a failure) |
| `_run_frontier` | `Frontier`, `ClaimTask`, `Finalize` |
| `_gate_milestone` | `Gate`, `StopMilestone`, `CloseMilestone` |
| `recover` | `Recover`, `Survey`, `WriteTask`, `ReopenMilestone`, `ReopenProject` |
| `intervene_task` | `Intervene`, `AssertUnclaimed`, `WriteTask`, `ReopenMilestone`, `ReopenProject` |
| `commit_message_action` | `AddTask` |
| wall clock | `TaskClaimAges`, `PlanningClaimAges` |

What the assigner, the executor, QA and the gate say is chosen freely, an
exception being a refusal.  A worker that stops for ever is a worker that died,
so death needs no action.  `lost` and `budget` are history.

### EffectContract

An effect is free, attempted, done or uncertain.  `ToolEffects` implements it
under the mapping `Contract`: a vacant, claimed or re-authorised row is free, a
started one attempted.  The contract is what any backend must keep; it is stated
without holders, tokens and leases.

## Runs

| run | instance | checks |
|---|---|---|
| `effects_workers` | 3 workers of one thread, 4 deliveries, 1 crash, 1 fault, 1 retry | `IInv`, `AtMostOnce`, `ClaimableIsPaid`, `ResultsAgree`, `Settled`, `ContractSpec` |
| `effects_mixed` | 2 threads in one process and 1 in another, 3 deliveries, 1 crash, 1 fault, 2 retries; results may decay | `LeaseProtects`, `ReviewCoversStarts`, `Answered` |
| `effects_readonly` | as the first, read-only effect, no retries | `ResultsAgree`, `ReadOnlyNeverStuck`, `ContractSpec` |
| `effects_two_threads` | as the second, nothing fails | `AtMostOnce` is violated |
| `effects_journal_first` | one delivery | `JournalLeads` is violated |
| `redis_effects` | 3 hosts, 3 deliveries, 2 lapses, 1 crash, 1 fault, 2 retries | `IInv`, `AtMostOnce`, `ResultsAgree`, `DoubtIsEarned`, `ReviewCoversStarts`, `ContractSpec` |
| `restore_faults` | interrupted copies, backups and lost staging happen | `IInv`, `Intact`, `BootPair`, `Outcome`, `RefusedOnlyWhenDisturbed`, `OldKept`, `Completes` |
| `restore_backup_in_trial` | a backup may run in the trial | `Resumable` is violated |
| `restore_change_of_mind` | a commit may follow a rollback cut short | `OnlyOldDeleted` is violated |
| `maintenance_faults` | 3 images, 3 starts, 2 faults, 1 signal, 2 deaths | `IInv`, `SelectionRuns`, `RestoreRollsBack`, `SwitchIsAtomic`, `Recovers` |
| `project_claims` | 2 workers, 2 operators, 2 operations, a planned task and a message that depends on it, 2 attempts | `IInv`, `NothingRepeatedUnseen`, `RetryBudget`, `ClaimProtects`, `GateIsClosed` |
| `project_done` | the same with 1 operation | `DoneMeansDone` is violated |

The restore runs have no bounds: power may fail any number of times, and the
state space is finite (703 states in the first).  `MayChangeMind` is FALSE in
`restore_faults`: after the sequence it admits no agent is left, which is the
second restore disagreement below, and `Outcome` and `BootPair` fail with it.
`RefusedOnlyWhenDisturbed` and `Completes` excuse a transaction that something
outside it has disturbed, and an agent copy that was interrupted before there
was a journal: then nothing has moved, but every later promotion refuses until
somebody removes the copy.  `Completes` is checked under `FairSpec`: the power
does not fail before every single step for ever (`SF` of the operation's steps;
weak fairness would be too weak, since a power failure disables them), and
somebody at the Recovery console, the only place an interrupted transaction
boots to, takes it up again (`WF` of `Resume`).  No one need ever end a trial.

The bounds of the effect runs count deliveries, retries, crashes and faults; nothing else is
bounded.  They are in the guards, so the system stops when they are used up and
deadlock is not checked.  Four deliveries let an owner be taken over by a second
process, a third come in with an older index, and a fourth follow an approval;
one crash or fault at any point covers each window of the code once.
`IInv`, `AtMostOnce` and `ContractSpec` were also explored with two retries.
`ReviewCoversStarts` needs two: the second approval can be spent by a start its
operator has not seen.  It excuses an approval whose receipt was deleted and
created anew since the review: `authorize_retry` compares the token, and a new
receipt may have the old one's.

`AtMostOnce` needs one delivery thread per process (the instance `OneEach`); with
two, the code breaks it, see below.  The others hold for mixed processes.

`Answered` is checked under `FairSpec`: the threads of running processes are
scheduled (`WF` of the steps a thread takes when nothing fails), and leases that
are not renewed lapse.  A handler that never returns is excluded by its own
time-out in `execute_step`.  No delivery, fault, time-out, crash or operator is
assumed to come.  The property excuses runs with a fault: an exception between
the handler and `finish()` leaves the key in `_live` for good, with a heartbeat
that keeps the lease alive, and later deliveries of the effect are answered only
by their time-out.

**`redis_effects`**: three deliveries on three hosts let one host be overtaken
between any two of its commands, and a third judge what the two left; two lapses
let the overtaking host lose its lease as well.  Hosts are interchangeable
(symmetry); no liveness is checked here.

**`maintenance_faults`**: three starts let a restore come between an upgrade that
died and its recovery, or a second upgrade follow; two faults let a cleanup fail as well,
and two deaths a recovery die that follows a death.  Recoveries are not bounded.
`Recovers` assumes that a script's commands end (`WF` of `Step \/ Refuse`; Compose
and the checks have time-outs) and that a pending transaction is taken up (`WF` of
`StartRecovery`: the boot unit, or the operator whom the documentation sends to the
same script).  `RestoreRollsBack` and `SuccessIsSettled` excuse a script that was
signalled, see *Disagreements*.

**`project_claims`**: two ticks and two operations at once are what each hazard
needs: a worker that comes late, one that took over, an operator who reset
in between.  A task that depends on another keeps a stale frontier possible, and
two attempts make the last one differ from the first.  Nothing is assumed to go
on: a request may be gone at any step, so the module states no liveness.

## Proofs

All theorems hold for every value of the constants that the module's `ASSUME`
admits: any processes, workers, images, task graphs, and any bounds.  The last
column says what a theorem assumes beyond that.

| module | theorem | states | beyond the module's assumptions |
|---|---|---|---|
| `EffectContract_proofs` | `ContractKept` | the contract implies at most one attempt per approval | |
| `ToolEffects_proofs` | `TypeCorrect` | `[]TypeOK` | |
| | `Invariance`, `OncePerAuthorization`, `ClaimablePaid` | `[]IInv`, `[]AtMostOnce`, `[]ClaimableIsPaid` | one thread per process |
| `ToolEffects_refinement` | `OneResult`, `SettledResults` | `[]ResultsAgree`, `Settled` | one thread per process, results that do not decay |
| | `Implementation` | `ContractSpec` | one thread per process; a side effect, or results that do not decay |
| | `ReadOnly`, `LeasesProtect`, `ReviewsCover` | `[]ReadOnlyNeverStuck`, `LeaseProtects`, `ReviewCoversStarts` | none |
| `RedisEffects_proofs` | `Invariance`, `OncePerAuthorization`, `OneResult`, `Implementation` | `[]IInv`, `[]AtMostOnce`, `[]ResultsAgree`, `ContractSpec` | none |
| `RedisEffects_reviews` | `DoubtEarned`, `ReviewsCover` | `DoubtIsEarned`, `ReviewCoversStarts` | none |
| `RestoreTransaction_proofs` | `Invariance`, `IntactHolds`, `RefusedHolds`, `OldKeptHolds` | `[]IInv`, `[]Intact`, `[]RefusedOnlyWhenDisturbed`, `OldKept` | none |
| | `BootPairHolds`, `OutcomeHolds`, `OnlyOldDeletedHolds` | `[]BootPair`, `[]Outcome`, `OnlyOldDeleted` | no commit after a rollback cut short |
| | `ResumableHolds` | `[]Resumable` | no backup in the trial, no lost staging directory, no interrupted copy |
| `ApplianceMaintenance_proofs` | `Invariance`, `Selections`, `Restored`, `AtomicSwitch` | `[]IInv`, `[]SelectionRuns`, `[]RestoreRollsBack`, `SwitchIsAtomic` | none |
| `ProjectClaims_proofs` | `Invariance`, `NothingRepeated`, `Budgeted`, `ClaimsProtect`, `GateClosed` | `[]IInv`, `[]NothingRepeatedUnseen`, `[]RetryBudget`, `ClaimProtects`, `GateIsClosed` | none |
| | `DoneUnlessOvertaken` | `[]DoneMeansDone` | `[][NotOvertaken]_vars`: no milestone is reopened while a tick is about to save the project as done |

Each proof that a step preserves an invariant has one step per action.

**EffectContract.**  An account of approvals: only letting a delivery into the handler
spends one (`Spending`), only an operator's approval earns one (`Earning`), and a
side effect becomes free by an approval or by a doubt no attempt justifies
(`Freeing`).

**ToolEffects.**  `AtMostOnce` is not inductive.  `CreditInv` says of a side effect that wherever a
start is still possible (a row that can be claimed, or a call between its grant
and `mark_started` whose claim still matches) the authorisations are not spent.
To keep it, a failing call may only delete the row when it never started, which
`IntentInv` gives: a started call's index knows its intent.  And two calls must
not both match the row: `OwnerInv` says that the process that holds the row has
the key in `_live` and its working call has the row's token, which is where one
thread per process is needed: `ClaimOwn`, the branch that hands a process its own
lease again, is then never enabled.  `CountInv` ties handler entries to starts by
the number of calls that have started and not yet entered.

The refinement needs three facts more.  `HoldInv`: the working call that matches
a started row is the latest start, so that what it commits is the value the
contract allows.  `RangeInv`: a result comes from a start, so that a receipt put
back from the journal holds one, even when stored results decay.  `ResultInv`:
while they do not, whoever is about to repair, replay or journal a result has the
one that is committed.  All are invariants of this specification and need `IInv`.

What the theorems exclude breaks them, as TLC shows on small instances.  With two
threads in a process a side effect runs twice (`effects_two_threads`).  Once a stored
result cannot be read, the effect may be attempted again and yield another, so
`Settled` and `ResultsAgree` speak of readable results only.  A read-only effect
with such results does not keep the contract either: a receipt that was put back
from the journal and claimed anew is deleted when the earlier delivery
fails late.

`ReadOnly` rests on `NoIntent`: without a side effect no index
ever knows an intent, and only a known intent discredits a receipt.
`ReviewsCover` rests on `KeptInv`, which relates the receipt an operator saw to
the starts since, and `LeasesProtect` on the guards of each action that writes a
held row.

**RedisEffects.**  While a process is fenced nobody else writes the receipt.
`FenceInv` therefore says, for each place of a delivery, that the receipt is still
what the delivery read or wrote, on the condition that its lease stands; a script
whose lease lapsed changes nothing.  `CreditInv`, `CountInv` and `ResultInv` are
those of `ToolEffects`.  `RedisEffects_reviews` adds that the token of a lease is
newer than that of every receipt but its own (`TokenInv`), that a process
claims only a key it does not execute (`LiveInv`), and that a token seen on an
indeterminate receipt is on no lease (`ReviewInv`).  A claim that discredits a
started receipt then has a newer token than the receipt.

**RestoreTransaction.**  A promotion and the rollback after it make sixteen moves in
one order, so the number of moves made says where every directory is (`Layout`).
The journal is written behind the moves: a phase leaves one to three numbers
(`MovesMade`), and a commit adds which containers it has removed (`Gone`).  `IInv`
says that the places are those of one such number, less what was removed or lost
(`LaidOut`), and which trees may be edited or incomplete by then.  `MoveStep` is
the lemma everything rests on: what the code finds in the file system is what it
expects after that number, so a step goes to the next one, and nothing but an
edited tree or a lost staging directory makes it refuse.  The three theorems that
assume `MayChangeMind` FALSE exclude the sequence of `restore_change_of_mind`:
nothing else deletes a tree that is not old.  `ResumableHolds` excludes every
disturbance from outside, a backup first of all, and shows that the power alone,
failing at any step and any number of times, never leaves a journal the
operations refuse.

**ApplianceMaintenance.**  `IInv` states, for each place in the command lists, what
the next command relies on: which image is written, whether the journal is there,
which directories have been moved.  A step is an effect followed by a change of
place (`Onward`, or `Cleanup` after a failure), so the lemmas treat effects and
changes of place apart and the proof of `Next` combines them.

**ProjectClaims.**  `Matching`: a task is claimed exactly while it runs.  `Budget`:
the attempts it has left are covered by `MaxAttempts` and the resets so far.
`NothingRepeatedUnseen` is inductive with these two, since every start needs a
pending task, and only an operator makes a lost task pending again.
`DoneUnlessOvertaken` says that the race of `project_done` is the only way to a
project that is done over an open milestone.  `FinishInv`: what a tick about to
finish the project has read still holds, and a finished project with a reopened
milestone is about to be reopened itself.

Only model-checked: the liveness properties `Answered`, `Completes` and `Recovers`;
fairness is out of the prover's reach.  Every invariant and action property that
a passing run checks is also a theorem.

## Disagreements

- `effects_two_threads`.  The module docstring of `effect_receipts.py` says that
  "concurrent deliveries in one or many processes wait for the owner and then
  reuse its receipt".  Two threads of one process that poll the lease of another
  process do not: `begin()` checks `_live` before it polls and not again, and
  `claim()` answers "execute" to the holder of a live lease.  When the lease they
  wait for lapses before its owner started, the first thread claims it, the second
  is given the same claim, and the handler runs twice.
- `effects_journal_first`.  The docstring of `effect_store.py` describes a crash
  "between the journal Step append and the SQLite commit"; the executor commits
  first and appends afterwards.
- `restore_backup_in_trial`.  "Every intermediate topology is resumable"
  (docstring of `echo_restore_transaction.py`).  `rollback` and `commit` compare
  `user-backup-state.json` with the journal only in their last step, after trees
  were moved or deleted; `echo-os-backup`, which does not look at the restore
  journal, replaces that file when it runs during the trial.  Every attempt then
  ends in the same error, the journal stays, and the health gate refuses the
  normal boot.
- `restore_change_of_mind`.  `restore-commit` "explicitly deletes only the
  retained old Home and Agent trees" (`deploy/recovery/README.md`).  The first
  move of a rollback puts the trial's agent into the container that `commit`
  deletes.  If the power fails after that rename and before its checkpoint, the
  phase is still `promoted`, the commit token is offered, and a commit deletes
  both agents; without a journal the next boot is accepted.
- `project_done`.  "project done ⇔ all milestones done" (`engine.py:11`).  A tick
  reads that every milestone is done and then saves the project as done
  (`engine.py:605`).  If an operator resets a task in between, which reopens the
  milestone and the project, the tick's save overwrites that: the project is done
  over a pending task, a tick refuses to run it and `recover` to recover it.

Seen while modelling, without a run: the traps of `upgrade-appliance.sh` (line 113)
and `restore-state.sh` (line 167) act on `$?`.  A TERM that reaches only the shell, between two commands,
finds the status 0 of the command before: the script cleans nothing up and exits
with 0, and the journal stays for the next boot, where the bundle's README says
that a handled failure restores both containers before the journal is deleted.
The model has this (`Terminated`), and the properties excuse a signalled script.

## Not modelled

- **Restore**: what the section on `RestoreTransaction` leaves out, and the
  journal's temporary file, which is named by PID and opened exclusively
  (`echo_restore_transaction.py:386`).
- **Receipts**: the path without a store (`begin` on the journal alone), `abandon`
  and `release_unstarted` (no caller), a handler that keeps running after its
  time-out was reported; over Redis also `ping` and more than one thread per
  host, where a thread may see the receipt of its own process's claim
  (`redis_effect_store.py:250`).
- **Executor**: immunity, budgets, schemas, diffs and metrics, except where they
  can raise between the steps above.
- **Appliance**: `start-tls.sh` and `start-remote-access.sh`, which run Compose
  without the maintenance lock; what a check looks at beyond image and health.
- **Projects**: several milestones (the gate's next one is out of view), thread
  bindings and the block they cause while a decomposition is claimed
  (`engine.py:552`), deletion, `reset_attempts=False`.  `claim_task` does not look
  at the dependencies again after a stale frontier (`engine.py:737`); the model
  does that too, and no property is about the order of dependent tasks.  A reset
  that races the gate may leave a done milestone over a pending task
  (`engine.py:520`): `GateIsClosed` is therefore about the step that closes it.  A
  blocked project keeps a dead worker's claim until it runs again (`engine.py:216`).

Components of the inventory without a module are listed in `PROJECT.json` with
the reason.  Event buses and the gateway are I/O around the components above;
the agent loop's behaviour is a language model's; the NAS adapters drive other
programs; user interfaces and content keep no coordination state.

## Plan

1. `EffectContract`, `ToolEffects`, `RedisEffects` with their proofs and the
   refinements: done.
2. `RestoreTransaction` with its proofs: done.
3. `ApplianceMaintenance`, `ProjectClaims` with their proofs: done.
4. `CircuitBreaker`: one probe, late results.
5. `ThreadTurnClaim` with the distributed lock, `FileLeases`.
6. Cancellation and approvals, jobs, cron, orchestrator, supervisor.
7. `FileLockCoordinator` with leader election, when a component uses them.
8. The second restore after a first one, and several milestones of a project.
