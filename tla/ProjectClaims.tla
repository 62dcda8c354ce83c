----------------------------- MODULE ProjectClaims -----------------------------
(***************************************************************************)
(* ProjectOS: the loop that works off the tasks of one milestone of a      *)
(* project (engine.py), over the claims of the store                       *)
(* (_store_task_claims.py).                                                *)
(*                                                                         *)
(* Any number of requests tick the same project at once, and operators     *)
(* recover it or intervene in a task meanwhile.  Each call of the store is *)
(* one transaction, and one step; what a request read before is kept, and  *)
(* may be stale, in the state of the tick or of the operation.  Nothing    *)
(* makes a worker go on: one that stops for ever is one that died.  A      *)
(* claim is as old as the wall clock says, and may pass the timeout at any *)
(* time, whether its worker lives or not.                                  *)
(***************************************************************************)
EXTENDS Integers, FiniteSets

CONSTANTS
    Workers,        \* requests that tick the project
    Operators,      \* requests of an operator
    Tasks,          \* the tasks the milestone may get
    Plan,           \* those the decomposer returns; the others are messages
    Needs,          \* the tasks each task depends on
    Nobody,         \* who holds a claim that is not there
    MaxAttempts,    \* MAX_TASK_ATTEMPTS
    MaxOperations   \* bound: operations of the operators

ASSUME ConstantsAssumption ==
    /\ Nobody \notin Workers
    /\ Plan \subseteq Tasks /\ Plan # {}
    /\ Needs \in [Tasks -> SUBSET Tasks]
    /\ MaxAttempts \in Nat \ {0}
    /\ MaxOperations \in Nat

VARIABLES
    project,    \* projects.doc: status
    milestone,  \* milestones.doc: status
    task,       \* tasks.doc: status and attempts
    claim,      \* task_claims
    planning,   \* milestone_claims
    tick,       \* what each worker is doing, and what it has read
    operation,  \* what each operator is doing, and what they have read
    lost,       \* history: tasks whose execution was given up, not yet reviewed
    budget,     \* history: how often each task may still be started
    operated    \* operations so far, for the bound

store   == <<project, milestone, task, claim, planning>>
history == <<lost, budget>>
vars    == <<store, tick, operation, history, operated>>

Claim == [by: Workers \union {Nobody}, old: BOOLEAN]
Free  == [by |-> Nobody, old |-> FALSE]

Task   == [status: {"absent", "pending", "running", "blocked", "failed", "done"}, attempts: Nat]
NoTask == [status |-> "absent", attempts |-> 0]

Tick == [pc: {"idle", "milestones", "tasks", "activate", "activating", "activated", "decompose",
              "decomposing", "frontier", "claim", "executing", "stop", "close", "finish",
              "block", "blockplan"},
         ready: SUBSET Tasks, task: Tasks \union {Nobody}, expired: BOOLEAN]
NoTick == [pc |-> "idle", ready |-> {}, task |-> Nobody, expired |-> FALSE]

Operation == [pc: {"idle", "recover", "assert", "write", "reopen"}, kind: {"reset", "complete"},
              on: SUBSET Tasks, reopen: BOOLEAN]
NoOperation == [pc |-> "idle", kind |-> "reset", on |-> {}, reopen |-> FALSE]

TypeOK ==
    /\ project \in {"running", "blocked", "done"}
    /\ milestone \in {"pending", "active", "in_progress", "blocked", "done"}
    /\ task \in [Tasks -> Task]
    /\ claim \in [Tasks -> Claim]
    /\ planning \in Claim
    /\ tick \in [Workers -> Tick]
    /\ operation \in [Operators -> Operation]
    /\ lost \in SUBSET Tasks
    /\ budget \in [Tasks -> Int]
    /\ operated \in Nat

\* plan: a project runs with its milestones pending and no tasks.
Init ==
    /\ project = "running"
    /\ milestone = "pending"
    /\ task = [t \in Tasks |-> NoTask]
    /\ claim = [t \in Tasks |-> Free]
    /\ planning = Free
    /\ tick = [w \in Workers |-> NoTick]
    /\ operation = [o \in Operators |-> NoOperation]
    /\ lost = {}
    /\ budget = [t \in Tasks |-> MaxAttempts]
    /\ operated = 0

-----------------------------------------------------------------------------
Having(statuses) == {t \in Tasks : task[t].status \in statuses}
Existing == Tasks \ Having({"absent"})

\* ready_tasks: the frontier of the task graph.
Ready == {t \in Having({"pending"}) : Needs[t] \subseteq Having({"done"})}

\* _with_downstream_tasks
Downstream(some) ==
    {t \in Existing :
        \A closed \in SUBSET Existing :
            /\ some \subseteq closed
            /\ \A u \in Existing : Needs[u] \intersect closed # {} => u \in closed
            => t \in closed}

Open     == milestone \in {"active", "in_progress"}
Closed   == milestone \in {"blocked", "done"}
Runnable == project = "running"
NoClaims == planning = Free /\ \A t \in Tasks : claim[t] = Free

\* save_project without a rewrite: blocked and done are kept.
SaveProject(status) == project' = IF Runnable THEN status ELSE project

\* A milestone may be done with all its tasks done.
Finished == Existing = Having({"done"})

\* Seeded fault: save_milestone does not look at the tasks.
SavedUnchecked(status) == IF planning # Free \/ Closed THEN milestone ELSE status

\* What save_milestone makes of a status, without a rewrite.
Saved(status) ==
    IF planning # Free \/ Closed \/ (status = "done" /\ ~Finished) THEN milestone ELSE status

Goto(w, pc) == tick' = [tick EXCEPT ![w].pc = pc]
EndTick(w)  == tick' = [tick EXCEPT ![w] = NoTick]

-----------------------------------------------------------------------------
(***************************************************************************)
(* A tick.                                                                 *)
(***************************************************************************)
StartTick(w) ==
    /\ tick[w].pc = "idle"
    /\ Runnable
    /\ Goto(w, "milestones")
    /\ UNCHANGED <<store, operation, history, operated>>

\* orphan_stale_milestone_claims
ExpirePlanning(w) ==
    /\ tick[w].pc = "milestones"
    /\ LET abandoned == planning.old /\ Existing = {} /\ Open IN
         /\ planning' = IF planning.old THEN Free ELSE planning
         /\ milestone' = IF abandoned THEN "blocked" ELSE milestone
         /\ project' = IF abandoned /\ project # "done" THEN "blocked" ELSE project
         /\ tick' = [tick EXCEPT ![w].pc = "tasks", ![w].expired = abandoned]
    /\ UNCHANGED <<task, claim, operation, history, operated>>

\* orphan_stale_task_claims.  A tick that expired anything ends.
ExpireTasks(w) ==
    /\ tick[w].pc = "tasks"
    /\ LET stale     == {t \in Tasks : claim[t].old}
           abandoned == stale \intersect Having({"running"})
       IN
         /\ claim' = [t \in Tasks |-> IF t \in stale THEN Free ELSE claim[t]]
         /\ task' = [t \in Tasks |->
                       IF t \in abandoned THEN [task[t] EXCEPT !.status = "blocked"] ELSE task[t]]
         /\ milestone' = IF abandoned # {} /\ milestone # "done" THEN "blocked" ELSE milestone
         /\ project' = IF abandoned # {} /\ project # "done" THEN "blocked" ELSE project
         /\ lost' = lost \union abandoned
         /\ IF abandoned # {} \/ tick[w].expired THEN EndTick(w) ELSE Goto(w, "activate")
    /\ UNCHANGED <<planning, operation, budget, operated>>

\* _ensure_active_milestone reads the milestone,
Activate(w) ==
    /\ tick[w].pc = "activate"
    /\ Goto(w, CASE Open                    -> "decompose"
                 [] milestone = "blocked" -> "block"
                 [] milestone = "done"    -> "finish"
                 [] OTHER                 -> "activating")
    /\ UNCHANGED <<store, operation, history, operated>>

\* saves it,
SaveActive(w) ==
    /\ tick[w].pc = "activating"
    /\ milestone' = Saved("active")
    /\ IF Saved("active") = "active" THEN Goto(w, "activated") ELSE EndTick(w)
    /\ UNCHANGED <<project, task, claim, planning, operation, history, operated>>

\* and saves the project.
Activated(w) ==
    /\ tick[w].pc = "activated"
    /\ IF Runnable THEN Goto(w, "decompose") ELSE EndTick(w)
    /\ UNCHANGED <<store, operation, history, operated>>

\* _ensure_tasks: claim_milestone_decomposition
Decompose(w) ==
    /\ tick[w].pc = "decompose"
    /\ IF Existing = {} /\ Open /\ Runnable /\ planning = Free
         THEN planning' = [by |-> w, old |-> FALSE] /\ Goto(w, "decomposing")
         ELSE UNCHANGED planning /\ Goto(w, "frontier")
    /\ UNCHANGED <<project, milestone, task, claim, operation, history, operated>>

\* finalize_milestone_decomposition, of a task set or of a failure
Publish(w, tasks) ==
    /\ tick[w].pc = "decomposing"
    /\ IF planning.by = w /\ ~Closed
         THEN planning' = Free
         ELSE UNCHANGED planning
    /\ IF planning.by = w /\ ~Closed /\ Existing = {}
         THEN /\ task' = [t \in Tasks |->
                            IF t \in tasks THEN [status |-> "pending", attempts |-> 0] ELSE task[t]]
              /\ milestone' = IF tasks = {} THEN "blocked" ELSE "in_progress"
              /\ Goto(w, IF tasks = {} THEN "blockplan" ELSE "frontier")
         ELSE UNCHANGED <<task, milestone>> /\ Goto(w, "frontier")
    /\ UNCHANGED <<project, claim, operation, history, operated>>

\* _run_frontier reads the tasks once.
Frontier(w) ==
    /\ tick[w].pc = "frontier"
    /\ tick' = [tick EXCEPT ![w].pc = "claim", ![w].ready = Ready]
    /\ UNCHANGED <<store, operation, history, operated>>

\* claim_task
ClaimTask(w, t) ==
    /\ tick[w].pc = "claim"
    /\ t \in tick[w].ready
    /\ IF task[t].status = "pending" /\ Open /\ Runnable
         THEN /\ task' = [task EXCEPT ![t].status = "running", ![t].attempts = @ + 1]
              /\ claim' = [claim EXCEPT ![t] = [by |-> w, old |-> FALSE]]
              /\ budget' = [budget EXCEPT ![t] = @ - 1]
              /\ tick' = [tick EXCEPT ![w].pc = "executing", ![w].task = t,
                                      ![w].ready = @ \ {t}]
         ELSE /\ tick' = [tick EXCEPT ![w].ready = @ \ {t}]
              /\ UNCHANGED <<task, claim, budget>>
    /\ UNCHANGED <<project, milestone, planning, operation, lost, operated>>

\* Seeded faults: a result is accepted whenever the task runs, or always.
WinsWhileRunning(w) == task[tick[w].task].status = "running"
WinsAlways(w) == tick[w].pc = "executing"

\* The claim of a worker still holds.
Wins(w) ==
    /\ claim[tick[w].task].by = w
    /\ task[tick[w].task].status = "running"

\* Seeded fault: one more attempt than there are.
OutcomeOneMore(approved, attempts) ==
    IF approved THEN "done" ELSE IF attempts > MaxAttempts THEN "failed" ELSE "pending"

\* What an execution makes of its task: an error, or a refusal of QA, is retried.
Outcome(approved, attempts) ==
    IF approved THEN "done" ELSE IF attempts >= MaxAttempts THEN "failed" ELSE "pending"

\* finalize_task_claim, after the assigner, the executor and QA
Finalize(w, approved) ==
    /\ tick[w].pc = "executing"
    /\ LET t == tick[w].task IN
         IF Wins(w)
           THEN /\ task' = [task EXCEPT ![t].status = Outcome(approved, task[t].attempts)]
                /\ claim' = [claim EXCEPT ![t] = Free]
           ELSE UNCHANGED <<task, claim>>
    /\ tick' = [tick EXCEPT ![w].pc = "claim", ![w].task = Nobody]
    /\ UNCHANGED <<project, milestone, planning, operation, history, operated>>

\* _gate_milestone reads the tasks, and asks the gate when all are done.
Gate(w, met) ==
    /\ tick[w].pc = "claim"
    /\ tick[w].ready = {}
    /\ IF Existing # {} /\ Finished
         THEN Goto(w, IF met THEN "close" ELSE "stop")
         ELSE IF \/ Having({"failed"}) # {}
                 \/ Existing # {} /\ Having({"running"}) = {} /\ Ready = {}
           THEN Goto(w, "stop")
           ELSE EndTick(w)
    /\ UNCHANGED <<store, operation, history, operated>>

\* The milestone is saved as blocked, and then the project.
StopMilestone(w) ==
    /\ tick[w].pc = "stop"
    /\ milestone' = Saved("blocked")
    /\ IF Saved("blocked") = "blocked" THEN Goto(w, "block") ELSE EndTick(w)
    /\ UNCHANGED <<project, task, claim, planning, operation, history, operated>>

\* The milestone is saved as done, unless a task has been reopened or added.
CloseMilestone(w) ==
    /\ tick[w].pc = "close"
    /\ milestone' = Saved("done")
    /\ EndTick(w)
    /\ UNCHANGED <<project, task, claim, planning, operation, history, operated>>

\* _block_project.  After a failed decomposition the tick goes on.
BlockProject(w) ==
    /\ tick[w].pc \in {"block", "blockplan"}
    /\ SaveProject("blocked")
    /\ IF tick[w].pc = "block" THEN EndTick(w) ELSE Goto(w, "frontier")
    /\ UNCHANGED <<milestone, task, claim, planning, operation, history, operated>>

\* All milestones were done when they were read.
FinishProject(w) ==
    /\ tick[w].pc = "finish"
    /\ SaveProject("done")
    /\ EndTick(w)
    /\ UNCHANGED <<milestone, task, claim, planning, operation, history, operated>>

TickStep(w) ==
    \/ StartTick(w) \/ ExpirePlanning(w) \/ ExpireTasks(w)
    \/ Activate(w) \/ SaveActive(w) \/ Activated(w)
    \/ Decompose(w) \/ Publish(w, Plan) \/ Publish(w, {})
    \/ Frontier(w) \/ \E t \in Tasks : ClaimTask(w, t)
    \/ \E ok \in BOOLEAN : Finalize(w, ok) \/ Gate(w, ok)
    \/ StopMilestone(w) \/ CloseMilestone(w) \/ BlockProject(w) \/ FinishProject(w)

-----------------------------------------------------------------------------
(***************************************************************************)
(* The operator.                                                           *)
(***************************************************************************)
Operate ==
    /\ operated < MaxOperations
    /\ operated' = operated + 1

EndOperation(o) == operation' = [operation EXCEPT ![o] = NoOperation]

\* recover: assert_no_active_claims, for the whole project
Recover(o) ==
    /\ operation[o].pc = "idle"
    /\ Operate
    /\ project = "blocked"
    /\ NoClaims
    /\ operation' = [operation EXCEPT ![o].pc = "recover"]
    /\ UNCHANGED <<store, tick, history>>

\* It reads the tasks, and resets those that failed or those it was given with
\* all that depend on them.
Survey(o, given) ==
    /\ operation[o].pc = "recover"
    /\ given \subseteq Having({"blocked", "failed"})
    /\ LET on == IF given = {} THEN Having({"blocked", "failed"}) ELSE Downstream(given) IN
         operation' = [operation EXCEPT ![o].pc = "write", ![o].on = on,
                                        ![o].reopen = milestone = "blocked" \/ on # {}]
    /\ UNCHANGED <<store, tick, history, operated>>

\* intervene_task reads everything and looks for running tasks,
Intervene(o, kind, on) ==
    /\ operation[o].pc = "idle"
    /\ Operate
    /\ on \subseteq Existing \ Having({"running"})
    /\ operation' = [operation EXCEPT ![o] =
                       [pc |-> "assert", kind |-> kind, on |-> on,
                        reopen |-> Closed \/ project = "blocked"]]
    /\ UNCHANGED <<store, tick, history>>

\* and for claims.
AssertUnclaimed(o) ==
    /\ operation[o].pc = "assert"
    /\ IF planning = Free /\ \A t \in operation[o].on : claim[t] = Free
         THEN operation' = [operation EXCEPT ![o].pc = "write"]
         ELSE EndOperation(o)
    /\ UNCHANGED <<store, tick, history, operated>>

\* Seeded fault: save_task does not look for a claim.
WritableAlways(t) == t \in Tasks

\* save_task refuses to cross a claim, which ends the operation.
Writable(t) == claim[t] = Free

\* _reset_task_for_rerun, complete and skip.  The attempts of a completed task
\* do not matter any more.
WriteTask(o, t) ==
    /\ operation[o].pc = "write"
    /\ t \in operation[o].on
    /\ IF Writable(t)
         THEN /\ task' = [task EXCEPT ![t] =
                            IF operation[o].kind = "complete" THEN [@ EXCEPT !.status = "done"]
                            ELSE [status |-> "pending", attempts |-> 0]]
              /\ operation' = [operation EXCEPT ![o].on = @ \ {t}]
              /\ lost' = lost \ {t}
              /\ budget' = [budget EXCEPT ![t] = @ + MaxAttempts]
         ELSE EndOperation(o) /\ UNCHANGED <<task, lost, budget>>
    /\ UNCHANGED <<project, milestone, claim, planning, tick, operated>>

\* save_milestone with a rewrite refuses to cross a claim, too.
ReopenMilestone(o) ==
    /\ operation[o].pc = "write"
    /\ operation[o].on = {}
    /\ IF operation[o].reopen /\ planning = Free
         THEN /\ milestone' = "in_progress"
              /\ operation' = [operation EXCEPT ![o].pc = "reopen"]
         ELSE UNCHANGED milestone /\ EndOperation(o)
    /\ UNCHANGED <<project, task, claim, planning, tick, history, operated>>

ReopenProject(o) ==
    /\ operation[o].pc = "reopen"
    /\ project' = "running"
    /\ EndOperation(o)
    /\ UNCHANGED <<milestone, task, claim, planning, tick, history, operated>>

OperatorStep(o) ==
    \/ Recover(o)
    \/ \E given \in SUBSET Tasks : Survey(o, given)
    \/ \E t \in Existing :
         \/ \E kind \in {"reset", "complete"} : Intervene(o, kind, {t})
         \/ Intervene(o, "reset", Downstream({t}))
    \/ AssertUnclaimed(o) \/ \E t \in Tasks : WriteTask(o, t)
    \/ ReopenMilestone(o) \/ ReopenProject(o)

-----------------------------------------------------------------------------
\* commit_message_action: a message becomes a task.
AddTask(t) ==
    /\ t \in Tasks \ (Plan \union Existing)
    /\ Runnable
    /\ ~Closed
    /\ task' = [task EXCEPT ![t].status = "pending"]
    /\ UNCHANGED <<project, milestone, claim, planning, tick, operation, history, operated>>

\* A claim passes the timeout.
TaskClaimAges(t) ==
    /\ claim[t] # Free
    /\ claim' = [claim EXCEPT ![t].old = TRUE]
    /\ UNCHANGED <<project, milestone, task, planning, tick, operation, history, operated>>

PlanningClaimAges ==
    /\ planning # Free
    /\ planning' = [planning EXCEPT !.old = TRUE]
    /\ UNCHANGED <<project, milestone, task, claim, tick, operation, history, operated>>

Next ==
    \/ \E w \in Workers : TickStep(w)
    \/ \E o \in Operators : OperatorStep(o)
    \/ \E t \in Tasks : AddTask(t) \/ TaskClaimAges(t)
    \/ PlanningClaimAges

Spec == Init /\ [][Next]_vars

-----------------------------------------------------------------------------
(***************************************************************************)
(* What must hold.                                                         *)
(***************************************************************************)

\* The execution of a task that was given up may have had its effect: the task
\* is not started again before an operator has dealt with it.
NothingRepeatedUnseen == \A t \in lost : task[t].status = "blocked"

\* A task is never started more often than MaxAttempts, and as often again for
\* each time an operator reset it, whatever workers died or came late.
RetryBudget == \A t \in Tasks : budget[t] >= 0

\* While a task is claimed its status is changed by the worker whose claim it
\* is, or blocked once the claim is old: never by a late worker, nor by an
\* operator.
ClaimProtects ==
    [][\A t \in Tasks :
         claim[t] # Free /\ task'[t].status # task[t].status =>
           \/ claim[t].old /\ task'[t].status = "blocked"
           \/ \E w \in Workers : /\ claim[t].by = w
                                 /\ tick[w].pc = "executing" /\ tick[w].task = t
                                 /\ tick'[w].pc = "claim"]_vars

\* A milestone is only ever closed over tasks that are all done, although the
\* gate judged an older list.
GateIsClosed ==
    [][milestone # "done" /\ milestone' = "done" =>
         \A t \in Tasks : task'[t].status \in {"absent", "done"}]_vars

\* A project is done only with its milestone done.
DoneMeansDone ==
    project = "done" /\ (\A o \in Operators : operation[o].pc = "idle") => milestone = "done"

(***************************************************************************)
(* The inductive invariant.                                                *)
(***************************************************************************)
Matching(t) ==
    /\ claim[t] # Free <=> task[t].status = "running"
    /\ claim[t] # Free <=> claim[t].by # Nobody

Budget(t) ==
    /\ MaxAttempts <= budget[t] + task[t].attempts
    /\ task[t].attempts <= MaxAttempts
    /\ task[t].status = "pending" => task[t].attempts < MaxAttempts
    /\ task[t].status = "absent" => task[t].attempts = 0

IInv ==
    /\ TypeOK
    /\ \A t \in Tasks : Matching(t) /\ Budget(t)
    /\ planning # Free <=> planning.by # Nobody
    /\ \A w \in Workers : tick[w].pc = "executing" => tick[w].task \in Tasks
    /\ NothingRepeatedUnseen
=============================================================================
