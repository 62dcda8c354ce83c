-------------------------- MODULE ProjectClaims_proofs --------------------------
(***************************************************************************)
(* Proofs about ProjectClaims, for any numbers of workers, operators and   *)
(* tasks, any task graph and any number of operations.                     *)
(***************************************************************************)
EXTENDS ProjectClaims, TLAPS

\* What a tick and an operation may be between two steps.
TickOK      == tick \in [Workers -> Tick]
OperationOK == operation \in [Operators -> Operation]
Working     == \A w \in Workers : tick[w].pc = "executing" => tick[w].task \in Tasks

\* The part of the invariant that is about the tables.
ClaimsOK ==
    /\ \A t \in Tasks : Matching(t) /\ Budget(t)
    /\ planning # Free <=> planning.by # Nobody
    /\ NothingRepeatedUnseen

TablesOK ==
    /\ project \in {"running", "blocked", "done"}
    /\ milestone \in {"pending", "active", "in_progress", "blocked", "done"}
    /\ task \in [Tasks -> Task]
    /\ claim \in [Tasks -> Claim]
    /\ planning \in Claim
    /\ lost \in SUBSET Tasks
    /\ budget \in [Tasks -> Int]
    /\ operated \in Nat

\* Names of the parts.
LEMMA Parts ==
    IInv <=> TickOK /\ OperationOK /\ Working /\ ClaimsOK /\ TablesOK
BY DEF IInv, TypeOK, TickOK, OperationOK, Working, ClaimsOK, TablesOK

LEMMA PartsNext ==
    IInv' <=> TickOK' /\ OperationOK' /\ Working' /\ ClaimsOK' /\ TablesOK'
BY DEF IInv, TypeOK, TickOK, OperationOK, Working, ClaimsOK, TablesOK

-----------------------------------------------------------------------------
(***************************************************************************)
(* The state of a tick and of an operation.                                *)
(***************************************************************************)

\* A tick that goes to a step other than an execution, or ends, keeps its type.
LEMMA GotoKeeps ==
    ASSUME TickOK, Working, NEW w \in Workers,
           NEW pc \in {"idle", "milestones", "tasks", "activate", "activating", "activated",
                       "decompose", "decomposing", "frontier", "claim", "stop", "close",
                       "finish", "block", "blockplan"},
           Goto(w, pc) \/ EndTick(w)
    PROVE  TickOK' /\ Working'
<1>1. CASE Goto(w, pc)
  BY <1>1 DEF TickOK, Working, Goto, Tick
<1>2. CASE EndTick(w)
  BY <1>2 DEF TickOK, Working, EndTick, NoTick, Tick
<1> QED BY <1>1, <1>2

LEMMA TickSteps ==
    ASSUME IInv, NEW w \in Workers, TickStep(w)
    PROVE  TickOK' /\ Working'
<1> USE Parts
<1>1. CASE StartTick(w)
  BY <1>1, GotoKeeps DEF StartTick
<1>2. CASE ExpirePlanning(w)
  <2>1. PICK given \in BOOLEAN : tick' = [tick EXCEPT ![w].pc = "tasks", ![w].expired = given]
    BY <1>2 DEF ExpirePlanning, Open, TablesOK, Claim
  <2> QED BY <2>1 DEF TickOK, Working, Tick
<1>3. CASE ExpireTasks(w)
  BY <1>3, GotoKeeps DEF ExpireTasks
<1>4. CASE Activate(w)
  BY <1>4, GotoKeeps DEF Activate
<1>5. CASE SaveActive(w)
  BY <1>5, GotoKeeps DEF SaveActive
<1>6. CASE Activated(w)
  BY <1>6, GotoKeeps DEF Activated
<1>7. CASE Decompose(w)
  BY <1>7, GotoKeeps DEF Decompose
<1>8. CASE Publish(w, Plan) \/ Publish(w, {})
  BY <1>8, GotoKeeps DEF Publish
<1>9. CASE Frontier(w)
  BY <1>9 DEF Frontier, TickOK, Working, Tick, Ready, Having
<1>10. ASSUME NEW t \in Tasks, ClaimTask(w, t) PROVE TickOK' /\ Working'
  BY <1>10 DEF ClaimTask, TickOK, Working, Tick
<1>11. ASSUME NEW ok \in BOOLEAN, Finalize(w, ok) PROVE TickOK' /\ Working'
  BY <1>11 DEF Finalize, TickOK, Working, Tick
<1>12. ASSUME NEW ok \in BOOLEAN, Gate(w, ok) PROVE TickOK' /\ Working'
  BY <1>12, GotoKeeps DEF Gate
<1>13. CASE StopMilestone(w)
  BY <1>13, GotoKeeps DEF StopMilestone
<1>14. CASE CloseMilestone(w)
  BY <1>14, GotoKeeps DEF CloseMilestone
<1>15. CASE BlockProject(w)
  BY <1>15, GotoKeeps DEF BlockProject
<1>16. CASE FinishProject(w)
  BY <1>16, GotoKeeps DEF FinishProject
<1> QED
  BY <1>1, <1>2, <1>3, <1>4, <1>5, <1>6, <1>7, <1>8, <1>9, <1>10, <1>11, <1>12, <1>13,
     <1>14, <1>15, <1>16 DEF TickStep

\* What is downstream exists.
LEMMA DownstreamExists ==
    ASSUME NEW some
    PROVE  Downstream(some) \subseteq Existing
BY DEF Downstream

\* An operator changes the state of its own operation.
LEMMA OperationKeeps ==
    ASSUME OperationOK, NEW o \in Operators, NEW r \in Operation,
           operation' = [operation EXCEPT ![o] = r]
    PROVE  OperationOK'
BY DEF OperationOK

LEMMA EndKeeps ==
    ASSUME OperationOK, NEW o \in Operators, EndOperation(o)
    PROVE  OperationOK'
<1>1. NoOperation \in Operation
  BY DEF NoOperation, Operation
<1> QED BY <1>1, OperationKeeps DEF EndOperation

LEMMA OperatorSteps ==
    ASSUME IInv, NEW o \in Operators, OperatorStep(o)
    PROVE  OperationOK' /\ tick' = tick
<1>0. OperationOK /\ operation[o] \in Operation
  BY Parts DEF OperationOK
<1> DEFINE At(pc) == [operation[o] EXCEPT !.pc = pc]
<1>a. \A pc \in {"recover", "write", "reopen"} : At(pc) \in Operation
  BY <1>0 DEF Operation
<1> HIDE DEF At
<1>1. CASE Recover(o)
  <2>1. operation' = [operation EXCEPT ![o] = At("recover")]
    BY <1>1 DEF Recover, At
  <2> QED BY <1>0, <1>a, <1>1, <2>1, OperationKeeps DEF Recover
<1>2. ASSUME NEW given \in SUBSET Tasks, Survey(o, given) PROVE OperationOK' /\ tick' = tick
  <2> DEFINE on == IF given = {} THEN Having({"blocked", "failed"}) ELSE Downstream(given)
             r  == [operation[o] EXCEPT !.pc = "write", !.on = on,
                                        !.reopen = milestone = "blocked" \/ on # {}]
  <2>1. on \in SUBSET Tasks
    BY DownstreamExists DEF Existing, Having
  <2>2. operation' = [operation EXCEPT ![o] = r] /\ tick' = tick
    BY <1>2 DEF Survey
  <2> HIDE DEF on
  <2>3. (milestone = "blocked" \/ on # {}) \in BOOLEAN
    OBVIOUS
  <2>4. r \in Operation
    BY <1>0, <2>1, <2>3 DEF Operation
  <2> QED BY <1>0, <2>2, <2>4, OperationKeeps
<1>3. ASSUME NEW kind \in {"reset", "complete"}, NEW on, Intervene(o, kind, on)
      PROVE OperationOK' /\ tick' = tick
  <2> DEFINE r == [pc |-> "assert", kind |-> kind, on |-> on,
                   reopen |-> Closed \/ project = "blocked"]
  <2>1. r \in Operation
    BY <1>3 DEF Intervene, Existing, Operation, Closed
  <2>2. operation' = [operation EXCEPT ![o] = r] /\ tick' = tick
    BY <1>3 DEF Intervene
  <2> QED BY <1>0, <2>1, <2>2, OperationKeeps
<1>5. CASE AssertUnclaimed(o)
  <2>1. tick' = tick /\ (EndOperation(o) \/ operation' = [operation EXCEPT ![o] = At("write")])
    BY <1>5 DEF AssertUnclaimed, At
  <2> QED BY <1>0, <1>a, <2>1, OperationKeeps, EndKeeps
<1>6. ASSUME NEW t \in Tasks, WriteTask(o, t) PROVE OperationOK' /\ tick' = tick
  <2> DEFINE r == [operation[o] EXCEPT !.on = operation[o].on \ {t}]
  <2>1. r \in Operation
    BY <1>0 DEF Operation
  <2>2. tick' = tick /\ (EndOperation(o) \/ operation' = [operation EXCEPT ![o] = r])
    BY <1>6 DEF WriteTask
  <2> QED BY <1>0, <2>1, <2>2, OperationKeeps, EndKeeps
<1>7. CASE ReopenMilestone(o)
  <2>1. tick' = tick /\ (EndOperation(o) \/ operation' = [operation EXCEPT ![o] = At("reopen")])
    BY <1>7 DEF ReopenMilestone, At
  <2> QED BY <1>0, <1>a, <2>1, OperationKeeps, EndKeeps
<1>8. CASE ReopenProject(o)
  BY <1>0, <1>8, EndKeeps DEF ReopenProject
<1> QED BY <1>1, <1>2, <1>3, <1>5, <1>6, <1>7, <1>8 DEF OperatorStep

-----------------------------------------------------------------------------
(***************************************************************************)
(* The tables.                                                             *)
(***************************************************************************)

\* What the invariant says of one task.
TaskOK(t) ==
    /\ task[t] \in Task /\ claim[t] \in Claim /\ budget[t] \in Int
    /\ Matching(t) /\ Budget(t)
    /\ t \in lost => task[t].status = "blocked"

\* The tables of the tasks, task by task.
Domains == /\ DOMAIN task = Tasks /\ task = [t \in Tasks |-> task[t]]
           /\ DOMAIN claim = Tasks /\ claim = [t \in Tasks |-> claim[t]]
           /\ DOMAIN budget = Tasks /\ budget = [t \in Tasks |-> budget[t]]
           /\ lost \in SUBSET Tasks

TasksOK == Domains /\ \A t \in Tasks : TaskOK(t)

\* The other tables.
OthersOK ==
    /\ project \in {"running", "blocked", "done"}
    /\ milestone \in {"pending", "active", "in_progress", "blocked", "done"}
    /\ planning \in Claim
    /\ planning # Free <=> planning.by # Nobody
    /\ operated \in Nat

LEMMA Tables ==
    ClaimsOK /\ TablesOK <=> TasksOK /\ OthersOK
BY DEF ClaimsOK, TablesOK, TasksOK, OthersOK, Domains, TaskOK, NothingRepeatedUnseen

LEMMA TablesNext ==
    ClaimsOK' /\ TablesOK' <=> TasksOK' /\ OthersOK'
BY DEF ClaimsOK, TablesOK, TasksOK, OthersOK, Domains, TaskOK, NothingRepeatedUnseen

\* A step that leaves the tasks alone.
LEMMA SameTasks ==
    ASSUME TasksOK, UNCHANGED <<task, claim, budget, lost>>
    PROVE  TasksOK'
BY DEF TasksOK, Domains, TaskOK, Matching, Budget

\* A claim somebody holds is not free.
LEMMA Claims ==
    /\ Free \in Claim /\ Free.by = Nobody
    /\ \A w \in Workers : [by |-> w, old |-> FALSE] \in Claim
    /\ \A w \in Workers : w # Nobody
BY ConstantsAssumption DEF Free, Claim


\* A step that changes one task, its claim and its budget.
LEMMA OneTask ==
    ASSUME TasksOK, NEW t \in Tasks, NEW row \in Task, NEW c \in Claim, NEW b \in Int,
           task' = [task EXCEPT ![t] = row],
           claim' = [claim EXCEPT ![t] = c],
           budget' = [budget EXCEPT ![t] = b],
           lost' \subseteq lost,
           c # Free <=> row.status = "running",
           c # Free <=> c.by # Nobody,
           MaxAttempts <= b + row.attempts,
           row.attempts <= MaxAttempts,
           row.status = "pending" => row.attempts < MaxAttempts,
           row.status = "absent" => row.attempts = 0,
           t \in lost' => row.status = "blocked"
    PROVE  TasksOK'
<1>1. Domains'
  BY DEF TasksOK, Domains
<1>2. TaskOK(t)'
  <2>1. task'[t] = row /\ claim'[t] = c /\ budget'[t] = b
    BY DEF TasksOK, Domains
  <2> QED BY <2>1 DEF TaskOK, Matching, Budget
<1>3. ASSUME NEW u \in Tasks, u # t PROVE TaskOK(u)'
  <2>1. task'[u] = task[u] /\ claim'[u] = claim[u] /\ budget'[u] = budget[u]
    BY <1>3 DEF TasksOK, Domains
  <2>2. TaskOK(u)
    BY DEF TasksOK
  <2> QED BY <2>1, <2>2 DEF TaskOK, Matching, Budget
<1> QED BY <1>1, <1>2, <1>3 DEF TasksOK

\* The row of a task, and what is known of it.
LEMMA Row ==
    ASSUME TasksOK, NEW t \in Tasks
    PROVE  /\ task[t] \in Task /\ claim[t] \in Claim /\ budget[t] \in Int
           /\ Matching(t) /\ Budget(t) /\ budget[t] >= 0
           /\ t \in lost => task[t].status = "blocked"
           /\ task = [task EXCEPT ![t] = task[t]]
           /\ claim = [claim EXCEPT ![t] = claim[t]]
           /\ budget = [budget EXCEPT ![t] = budget[t]]
<1>1. TaskOK(t)
  BY DEF TasksOK
<1>2. budget[t] >= 0
  BY <1>1, ConstantsAssumption DEF TaskOK, Budget, Task
<1>3. /\ task = [task EXCEPT ![t] = task[t]]
      /\ claim = [claim EXCEPT ![t] = claim[t]]
      /\ budget = [budget EXCEPT ![t] = budget[t]]
  BY DEF TasksOK, Domains
<1> QED BY <1>1, <1>2, <1>3 DEF TaskOK

LEMMA ClaimTaskKeeps ==
    ASSUME TasksOK, NEW w \in Workers, NEW t \in Tasks, ClaimTask(w, t)
    PROVE  TasksOK'
<1>1. CASE UNCHANGED <<task, claim, budget>>
  BY <1>1, SameTasks DEF ClaimTask
<1>2. CASE ~UNCHANGED <<task, claim, budget>>
  <2> DEFINE row == [task[t] EXCEPT !.status = "running", !.attempts = @ + 1]
             c   == [by |-> w, old |-> FALSE]
  <2>1. /\ task[t].status = "pending"
        /\ task' = [task EXCEPT ![t].status = "running", ![t].attempts = @ + 1]
        /\ claim' = [claim EXCEPT ![t] = c]
        /\ budget' = [budget EXCEPT ![t] = budget[t] - 1]
        /\ lost' = lost
    BY <1>2 DEF ClaimTask
  <2>2. task' = [task EXCEPT ![t] = row]
    BY <2>1, Row DEF Task
  <2>a. task[t] \in Task
    BY Row
  <2>b. task[t].attempts \in Nat /\ task[t].attempts + 1 \in Nat
    BY <2>a DEF Task
  <2>3. row \in Task /\ row.status = "running" /\ row.attempts = task[t].attempts + 1
    BY <2>a, <2>b DEF Task
  <2>4. c \in Claim /\ c # Free /\ c.by # Nobody
    BY Claims
  <2>5. /\ budget[t] - 1 \in Int
        /\ MaxAttempts <= budget[t] - 1 + row.attempts
        /\ row.attempts <= MaxAttempts
    BY <2>1, <2>3, Row, ConstantsAssumption DEF Budget, Task
  <2>6. t \notin lost
    BY <2>1, Row
  <2> HIDE DEF row, c
  <2> QED BY <2>1, <2>2, <2>3, <2>4, <2>5, <2>6, OneTask
<1> QED BY <1>1, <1>2

LEMMA FinalizeKeeps ==
    ASSUME TasksOK, Working, NEW w \in Workers, NEW ok \in BOOLEAN, Finalize(w, ok)
    PROVE  TasksOK'
<1>1. CASE UNCHANGED <<task, claim>>
  BY <1>1, SameTasks DEF Finalize, history
<1>2. CASE ~UNCHANGED <<task, claim>>
  <2> DEFINE t   == tick[w].task
             row == [task[t] EXCEPT !.status = Outcome(ok, task[t].attempts)]
  <2>0. t \in Tasks
    BY DEF Finalize, Working
  <2>1. /\ task[t].status = "running"
        /\ task' = [task EXCEPT ![t].status = Outcome(ok, task[t].attempts)]
        /\ claim' = [claim EXCEPT ![t] = Free]
        /\ budget' = budget /\ lost' = lost
    BY <1>2 DEF Finalize, Wins, history
  <2> HIDE DEF t
  <2>2. task' = [task EXCEPT ![t] = row] /\ budget' = [budget EXCEPT ![t] = budget[t]]
    BY <2>0, <2>1, Row DEF Task
  <2>3. /\ Outcome(ok, task[t].attempts) \in {"done", "failed", "pending"}
        /\ Outcome(ok, task[t].attempts) = "pending" => task[t].attempts < MaxAttempts
    BY <2>0, Row, ConstantsAssumption DEF Outcome, Task
  <2>4. /\ row \in Task
        /\ row.status = Outcome(ok, task[t].attempts)
        /\ row.attempts = task[t].attempts
    BY <2>0, <2>3, Row DEF Task
  <2>5. budget[t] \in Int /\ MaxAttempts <= budget[t] + row.attempts /\ row.attempts <= MaxAttempts
    BY <2>0, <2>4, Row DEF Budget
  <2>6. t \notin lost
    BY <2>0, <2>1, Row
  <2> HIDE DEF row
  <2> QED BY <2>0, <2>1, <2>2, <2>3, <2>4, <2>5, <2>6, OneTask, Claims
<1> QED BY <1>1, <1>2

LEMMA WriteTaskKeeps ==
    ASSUME TasksOK, NEW o \in Operators, NEW t \in Tasks, WriteTask(o, t)
    PROVE  TasksOK'
<1>1. CASE UNCHANGED <<task, lost, budget>>
  BY <1>1, SameTasks DEF WriteTask
<1>2. CASE ~UNCHANGED <<task, lost, budget>>
  <2>1. /\ claim[t] = Free /\ claim' = claim
        /\ lost' = lost \ {t}
        /\ budget' = [budget EXCEPT ![t] = budget[t] + MaxAttempts]
        /\ \/ task' = [task EXCEPT ![t] = [task[t] EXCEPT !.status = "done"]]
           \/ task' = [task EXCEPT ![t] = [status |-> "pending", attempts |-> 0]]
    BY <1>2 DEF WriteTask, Writable
  <2>2. PICK row \in Task :
          /\ task' = [task EXCEPT ![t] = row]
          /\ row.status \in {"done", "pending"}
          /\ row.attempts <= MaxAttempts /\ row.attempts >= 0
          /\ row.status = "pending" => row.attempts < MaxAttempts
    <3>1. CASE task' = [task EXCEPT ![t] = [task[t] EXCEPT !.status = "done"]]
      <4> DEFINE row == [task[t] EXCEPT !.status = "done"]
      <4>1. /\ row \in Task /\ row.status = "done"
            /\ row.attempts <= MaxAttempts /\ row.attempts >= 0
        BY Row DEF Task, Budget
      <4> HIDE DEF row
      <4> QED BY <3>1, <4>1 DEF row
    <3>2. CASE task' = [task EXCEPT ![t] = [status |-> "pending", attempts |-> 0]]
      <4> DEFINE row == [status |-> "pending", attempts |-> 0]
      <4>1. /\ row \in Task /\ row.status = "pending"
            /\ row.attempts < MaxAttempts /\ row.attempts <= MaxAttempts /\ row.attempts >= 0
        BY ConstantsAssumption DEF Task
      <4> HIDE DEF row
      <4>2. task' = [task EXCEPT ![t] = row]
        BY <3>2 DEF row
      <4> QED BY <4>1, <4>2
    <3> QED BY <2>1, <3>1, <3>2
  <2>3. /\ budget[t] + MaxAttempts \in Int
        /\ MaxAttempts <= budget[t] + MaxAttempts + row.attempts
    BY <2>2, Row, ConstantsAssumption DEF Task
  <2>4. claim' = [claim EXCEPT ![t] = Free]
    BY <2>1, Row
  <2> QED BY <2>1, <2>2, <2>3, <2>4, OneTask, Claims
<1> QED BY <1>1, <1>2

LEMMA AddTaskKeeps ==
    ASSUME TasksOK, NEW t \in Tasks, AddTask(t)
    PROVE  TasksOK'
<1> DEFINE row == [task[t] EXCEPT !.status = "pending"]
<1>1. task[t].status = "absent"
  BY DEF AddTask, Existing, Having
<1>2. /\ row \in Task /\ row.status = "pending"
      /\ row.attempts = 0 /\ row.attempts = task[t].attempts
      /\ row.attempts < MaxAttempts /\ row.attempts <= MaxAttempts
  BY <1>1, Row, ConstantsAssumption DEF Task, Budget
<1>3. /\ task' = [task EXCEPT ![t] = row]
      /\ claim' = [claim EXCEPT ![t] = claim[t]]
      /\ budget' = [budget EXCEPT ![t] = budget[t]]
      /\ lost' = lost
  BY Row DEF AddTask, history
<1>4. claim[t] = Free /\ claim[t].by = Nobody /\ t \notin lost
  BY <1>1, Row, Claims DEF Matching
<1>5. budget[t] \in Int /\ MaxAttempts <= budget[t] + row.attempts
  BY <1>2, Row DEF Budget
<1> HIDE DEF row
<1> QED BY <1>2, <1>3, <1>4, <1>5, OneTask, Claims

LEMMA TaskClaimAgesKeeps ==
    ASSUME TasksOK, NEW t \in Tasks, TaskClaimAges(t)
    PROVE  TasksOK'
<1> DEFINE c == [claim[t] EXCEPT !.old = TRUE]
<1>1. c \in Claim /\ c.by = claim[t].by /\ claim[t].by # Nobody /\ task[t].status = "running"
  BY Row DEF Claim, Matching, TaskClaimAges
<1>2. c # Free
  BY <1>1, Claims
<1>3. /\ task' = [task EXCEPT ![t] = task[t]]
      /\ claim' = [claim EXCEPT ![t] = c]
      /\ budget' = [budget EXCEPT ![t] = budget[t]]
      /\ lost' = lost
  BY Row DEF TaskClaimAges, history
<1> HIDE DEF c
<1> QED BY <1>1, <1>2, <1>3, OneTask, Row DEF Budget

LEMMA ExpireTasksKeeps ==
    ASSUME TasksOK, NEW w \in Workers, ExpireTasks(w)
    PROVE  TasksOK'
<1>1. Domains'
  BY DEF TasksOK, Domains, ExpireTasks, Having
<1>2. ASSUME NEW t \in Tasks PROVE TaskOK(t)'
  <2>1. TaskOK(t)
    BY DEF TasksOK
  <2>2. CASE claim[t].old
    <3>1. claim[t] # Free /\ task[t].status = "running"
      BY <2>1, <2>2 DEF TaskOK, Matching, Free
    <3>2. /\ claim'[t] = Free /\ budget'[t] = budget[t]
          /\ task'[t] = [task[t] EXCEPT !.status = "blocked"]
      BY <2>2, <3>1 DEF ExpireTasks, Having
    <3>3. task'[t] \in Task /\ task'[t].status = "blocked" /\ task'[t].attempts = task[t].attempts
      BY <2>1, <3>2 DEF TaskOK, Task
    <3> QED BY <2>1, <3>2, <3>3, Claims DEF TaskOK, Matching, Budget
  <2>3. CASE ~claim[t].old
    <3>1. claim'[t] = claim[t] /\ budget'[t] = budget[t] /\ task'[t] = task[t]
      BY <2>3 DEF ExpireTasks, Having
    <3>2. t \in lost' => t \in lost
      BY <2>3 DEF ExpireTasks
    <3> QED BY <2>1, <3>1, <3>2 DEF TaskOK, Matching, Budget
  <2> QED BY <2>2, <2>3
<1> QED BY <1>1, <1>2 DEF TasksOK

LEMMA PublishKeeps ==
    ASSUME TasksOK, NEW w \in Workers, NEW tasks \in SUBSET Tasks, Publish(w, tasks)
    PROVE  TasksOK'
<1>1. CASE UNCHANGED task
  BY <1>1, SameTasks DEF Publish, history
<1>2. CASE ~UNCHANGED task
  <2>1. /\ Existing = {}
        /\ task' = [t \in Tasks |->
                      IF t \in tasks THEN [status |-> "pending", attempts |-> 0] ELSE task[t]]
        /\ claim' = claim /\ budget' = budget /\ lost' = lost
    BY <1>2 DEF Publish, history
  <2>2. Domains'
    BY <2>1 DEF TasksOK, Domains
  <2>3. ASSUME NEW t \in Tasks PROVE TaskOK(t)'
    <3>1. TaskOK(t) /\ task[t].status = "absent"
      BY <2>1 DEF TasksOK, Existing, Having
    <3>2. CASE t \notin tasks
      BY <2>1, <3>1, <3>2 DEF TaskOK, Matching, Budget
    <3>3. CASE t \in tasks
      <4>1. /\ task'[t] \in Task /\ task'[t].status = "pending" /\ task'[t].attempts = 0
            /\ claim'[t] = claim[t] /\ budget'[t] = budget[t] /\ lost' = lost
        BY <2>1, <3>3 DEF Task
      <4>2. task[t].attempts = 0 /\ t \notin lost
        BY <3>1 DEF TaskOK, Budget
      <4> QED BY <3>1, <4>1, <4>2, ConstantsAssumption DEF TaskOK, Matching, Budget
    <3> QED BY <3>2, <3>3
  <2> QED BY <2>2, <2>3 DEF TasksOK
<1> QED BY <1>1, <1>2

\* What is saved is a status.
LEMMA SavedStatus ==
    ASSUME OthersOK, NEW status \in {"active", "blocked", "done"}
    PROVE  Saved(status) \in {"pending", "active", "in_progress", "blocked", "done"}
BY DEF OthersOK, Saved

LEMMA TickKeepsOthers ==
    ASSUME OthersOK, NEW w \in Workers, TickStep(w)
    PROVE  OthersOK'
<1>1. CASE UNCHANGED <<project, milestone, planning, operated>>
  BY <1>1 DEF OthersOK
<1>2. CASE ExpirePlanning(w)
  <2>1. /\ planning' = Free \/ planning' = planning
        /\ milestone' \in {"blocked", milestone} /\ project' \in {"blocked", project}
        /\ operated' = operated
    BY <1>2 DEF ExpirePlanning
  <2> QED BY <2>1, Claims DEF OthersOK
<1>3. CASE ExpireTasks(w)
  <2>1. /\ milestone' \in {"blocked", milestone} /\ project' \in {"blocked", project}
        /\ UNCHANGED <<planning, operated>>
    BY <1>3 DEF ExpireTasks
  <2> QED BY <2>1 DEF OthersOK
<1>4. CASE Decompose(w)
  <2>1. /\ planning' = planning \/ planning' = [by |-> w, old |-> FALSE]
        /\ UNCHANGED <<project, milestone, operated>>
    BY <1>4 DEF Decompose
  <2> QED BY <2>1, Claims DEF OthersOK
<1>5. CASE Publish(w, Plan) \/ Publish(w, {})
  <2>1. /\ planning' = planning \/ planning' = Free
        /\ milestone' \in {milestone, "blocked", "in_progress"}
        /\ UNCHANGED <<project, operated>>
    BY <1>5 DEF Publish
  <2> QED BY <2>1, Claims DEF OthersOK
<1>6. CASE SaveActive(w) \/ StopMilestone(w) \/ CloseMilestone(w)
  BY <1>6, SavedStatus DEF SaveActive, StopMilestone, CloseMilestone, OthersOK
<1>7. CASE BlockProject(w) \/ FinishProject(w)
  BY <1>7 DEF BlockProject, FinishProject, SaveProject, OthersOK
<1> QED
  BY <1>1, <1>2, <1>3, <1>4, <1>5, <1>6, <1>7
     DEF TickStep, store, StartTick, Activate, Activated, Frontier, ClaimTask, Finalize, Gate

LEMMA OperatorKeepsOthers ==
    ASSUME OthersOK, NEW o \in Operators, OperatorStep(o)
    PROVE  OthersOK'
<1>1. UNCHANGED <<planning>> /\ (operated' = operated \/ operated' = operated + 1)
  BY DEF OperatorStep, store, Operate, Recover, Survey, Intervene, AssertUnclaimed, WriteTask,
         ReopenMilestone, ReopenProject
<1>2. project' \in {project, "running"} /\ milestone' \in {milestone, "in_progress"}
  BY DEF OperatorStep, store, Recover, Survey, Intervene, AssertUnclaimed, WriteTask,
         ReopenMilestone, ReopenProject
<1> QED BY <1>1, <1>2 DEF OthersOK

-----------------------------------------------------------------------------
(***************************************************************************)
(* The invariant.                                                          *)
(***************************************************************************)
LEMMA TickKeeps ==
    ASSUME IInv, NEW w \in Workers, TickStep(w)
    PROVE  IInv'
<1>1. TasksOK /\ OthersOK /\ Working /\ OperationOK
  BY Parts, Tables
<1>2. TickOK' /\ Working'
  BY TickSteps
<1>3. OperationOK'
  <2>1. operation' = operation
    BY DEF TickStep, StartTick, ExpirePlanning, ExpireTasks, Activate, SaveActive, Activated,
           Decompose, Publish, Frontier, ClaimTask, Finalize, Gate, StopMilestone,
           CloseMilestone, BlockProject, FinishProject
  <2> QED BY <1>1, <2>1 DEF OperationOK
<1>4. OthersOK'
  BY <1>1, TickKeepsOthers
<1>5. TasksOK'
  <2>1. CASE UNCHANGED <<task, claim, budget, lost>>
    BY <1>1, <2>1, SameTasks
  <2>2. CASE ExpireTasks(w)
    BY <1>1, <2>2, ExpireTasksKeeps
  <2>3. CASE Publish(w, Plan) \/ Publish(w, {})
    BY <1>1, <2>3, PublishKeeps, ConstantsAssumption
  <2>4. CASE \E t \in Tasks : ClaimTask(w, t)
    BY <1>1, <2>4, ClaimTaskKeeps
  <2>5. CASE \E ok \in BOOLEAN : Finalize(w, ok)
    BY <1>1, <2>5, FinalizeKeeps
  <2> QED
    BY <2>1, <2>2, <2>3, <2>4, <2>5
       DEF TickStep, store, history, StartTick, ExpirePlanning, Activate, SaveActive, Activated,
           Decompose, Frontier, Gate, StopMilestone, CloseMilestone, BlockProject, FinishProject
<1> QED BY <1>2, <1>3, <1>4, <1>5, PartsNext, TablesNext

LEMMA OperatorKeeps ==
    ASSUME IInv, NEW o \in Operators, OperatorStep(o)
    PROVE  IInv'
<1>1. TasksOK /\ OthersOK /\ Working /\ TickOK
  BY Parts, Tables
<1>2. OperationOK' /\ tick' = tick
  BY OperatorSteps
<1>3. TickOK' /\ Working'
  BY <1>1, <1>2 DEF TickOK, Working
<1>4. OthersOK'
  BY <1>1, OperatorKeepsOthers
<1>5. TasksOK'
  <2>1. CASE UNCHANGED <<task, claim, budget, lost>>
    BY <1>1, <2>1, SameTasks
  <2>2. CASE \E t \in Tasks : WriteTask(o, t)
    BY <1>1, <2>2, WriteTaskKeeps
  <2> QED
    BY <2>1, <2>2
       DEF OperatorStep, store, history, Recover, Survey, Intervene, AssertUnclaimed,
           ReopenMilestone, ReopenProject
<1> QED BY <1>2, <1>3, <1>4, <1>5, PartsNext, TablesNext

LEMMA OtherKeeps ==
    ASSUME IInv,
           (\E t \in Tasks : AddTask(t) \/ TaskClaimAges(t)) \/ PlanningClaimAges
    PROVE  IInv'
<1>1. TasksOK /\ OthersOK /\ Working /\ TickOK /\ OperationOK
  BY Parts, Tables
<1>2. tick' = tick /\ operation' = operation
  BY DEF AddTask, TaskClaimAges, PlanningClaimAges
<1>3. TickOK' /\ Working' /\ OperationOK'
  BY <1>1, <1>2 DEF TickOK, Working, OperationOK
<1>4. OthersOK' /\ TasksOK'
  <2>1. CASE \E t \in Tasks : AddTask(t) \/ TaskClaimAges(t)
    <3>1. OthersOK'
      BY <1>1, <2>1 DEF AddTask, TaskClaimAges, OthersOK
    <3> QED BY <1>1, <2>1, <3>1, AddTaskKeeps, TaskClaimAgesKeeps
  <2>2. CASE PlanningClaimAges
    <3>1. TasksOK'
      BY <1>1, <2>2, SameTasks DEF PlanningClaimAges, history
    <3>2. planning' \in Claim /\ planning'.by = planning.by /\ planning.by # Nobody
      BY <1>1, <2>2 DEF PlanningClaimAges, OthersOK, Claim
    <3> QED BY <1>1, <2>2, <3>1, <3>2, Claims DEF PlanningClaimAges, OthersOK
  <2> QED BY <2>1, <2>2
<1> QED BY <1>3, <1>4, PartsNext, TablesNext

LEMMA InitHolds == Init => IInv
<1> SUFFICES ASSUME Init PROVE IInv
  OBVIOUS
<1>1. TickOK /\ Working
  BY DEF Init, TickOK, Working, NoTick, Tick
<1>2. OperationOK
  BY DEF Init, OperationOK, NoOperation, Operation
<1>3. OthersOK
  BY Claims DEF Init, OthersOK
<1>4. Domains
  BY DEF Init, Domains
<1>5. ASSUME NEW t \in Tasks PROVE TaskOK(t)
  <2>1. task[t] = NoTask /\ claim[t] = Free /\ budget[t] = MaxAttempts /\ t \notin lost
    BY DEF Init
  <2>2. NoTask \in Task /\ NoTask.status = "absent" /\ NoTask.attempts = 0
    BY DEF NoTask, Task
  <2> QED BY <2>1, <2>2, Claims, ConstantsAssumption DEF TaskOK, Matching, Budget
<1> QED BY <1>1, <1>2, <1>3, <1>4, <1>5, Parts, Tables DEF TasksOK

LEMMA NextKeeps == IInv /\ [Next]_vars => IInv'
<1> SUFFICES ASSUME IInv, [Next]_vars PROVE IInv'
  OBVIOUS
<1>1. CASE UNCHANGED vars
  BY <1>1 DEF vars, store, history, IInv, TypeOK, Matching, Budget, NothingRepeatedUnseen
<1>2. CASE Next
  BY <1>2, TickKeeps, OperatorKeeps, OtherKeeps DEF Next
<1> QED BY <1>1, <1>2

\* The inductive invariant: claims match the tasks that run, the attempts that
\* are left cover those that may still be made, and no worker executes nothing.
THEOREM Invariance == Spec => []IInv
BY InitHolds, NextKeeps, PTL DEF Spec

\* What was given up is not started again before an operator has dealt with it,
\* however many workers come late.
THEOREM NothingRepeated == Spec => []NothingRepeatedUnseen
<1>1. IInv => NothingRepeatedUnseen
  BY DEF IInv
<1> QED BY <1>1, Invariance, PTL

\* No task is started more often than its attempts and resets allow.
THEOREM Budgeted == Spec => []RetryBudget
<1>1. IInv => RetryBudget
  BY Parts, Tables, Row DEF TasksOK, RetryBudget
<1> QED BY <1>1, Invariance, PTL

-----------------------------------------------------------------------------
(***************************************************************************)
(* What a step does to a claimed task, and to the milestone.               *)
(***************************************************************************)
LEMMA ProtectedStep ==
    ASSUME IInv, [Next]_vars, NEW t \in Tasks,
           claim[t] # Free, task'[t].status # task[t].status
    PROVE  \/ claim[t].old /\ task'[t].status = "blocked"
           \/ \E w \in Workers : /\ claim[t].by = w
                                 /\ tick[w].pc = "executing" /\ tick[w].task = t
                                 /\ tick'[w].pc = "claim"
<1>1. TasksOK /\ TickOK
  BY Parts, Tables
<1>2. task[t].status = "running" /\ task' # task
  BY <1>1, Row DEF Matching
<1>3. t \in Existing
  BY <1>2 DEF Existing, Having
<1>4. ASSUME NEW w \in Workers, TickStep(w)
      PROVE  \/ claim[t].old /\ task'[t].status = "blocked"
             \/ /\ claim[t].by = w
                /\ tick[w].pc = "executing" /\ tick[w].task = t
                /\ tick'[w].pc = "claim"
  <2>1. CASE ExpireTasks(w)
    BY <1>1, <1>2, <2>1, Row DEF ExpireTasks, Having, Task
  <2>2. CASE Publish(w, Plan) \/ Publish(w, {})
    BY <1>2, <1>3, <2>2 DEF Publish
  <2>3. ASSUME NEW u \in Tasks, ClaimTask(w, u) PROVE FALSE
    <3>1. u # t /\ task' = [task EXCEPT ![u].status = "running", ![u].attempts = @ + 1]
      BY <1>2, <2>3 DEF ClaimTask
    <3>2. task'[t] = task[t]
      BY <1>1, <3>1 DEF TasksOK, Domains
    <3> QED BY <3>2
  <2>4. ASSUME NEW ok \in BOOLEAN, Finalize(w, ok)
        PROVE  /\ claim[t].by = w
               /\ tick[w].pc = "executing" /\ tick[w].task = t
               /\ tick'[w].pc = "claim"
    <3>1. /\ Wins(w) /\ tick[w].pc = "executing"
          /\ task' = [task EXCEPT ![tick[w].task].status =
                        Outcome(ok, task[tick[w].task].attempts)]
          /\ tick' = [tick EXCEPT ![w].pc = "claim", ![w].task = Nobody]
      BY <1>2, <2>4 DEF Finalize
    <3>2. tick[w].task = t
      BY <1>1, <3>1 DEF TasksOK, Domains
    <3>3. tick'[w].pc = "claim"
      BY <1>1, <3>1 DEF TickOK, Tick
    <3> QED BY <3>1, <3>2, <3>3 DEF Wins
  <2> QED
    BY <1>2, <1>4, <2>1, <2>2, <2>3, <2>4
       DEF TickStep, store, StartTick, ExpirePlanning, Activate, SaveActive, Activated,
           Decompose, Frontier, Gate, StopMilestone, CloseMilestone, BlockProject, FinishProject
<1>5. ASSUME NEW o \in Operators, OperatorStep(o) PROVE FALSE
  <2>1. PICK u \in Tasks : WriteTask(o, u)
    BY <1>2, <1>5
       DEF OperatorStep, store, Recover, Survey, Intervene, AssertUnclaimed, ReopenMilestone,
           ReopenProject
  <2>2. u # t
    BY <1>2, <2>1 DEF WriteTask, Writable
  <2>3. task'[t] = task[t]
    BY <1>1, <2>1, <2>2 DEF WriteTask, TasksOK, Domains
  <2> QED BY <2>3
<1>6. ASSUME NEW u \in Tasks, AddTask(u) PROVE FALSE
  <2>1. u # t
    BY <1>3, <1>6 DEF AddTask
  <2>2. task'[t] = task[t]
    BY <1>1, <1>6, <2>1 DEF AddTask, TasksOK, Domains
  <2> QED BY <2>2
<1>7. ~UNCHANGED vars /\ (\A u \in Tasks : ~TaskClaimAges(u)) /\ ~PlanningClaimAges
  BY <1>2 DEF vars, store, TaskClaimAges, PlanningClaimAges
<1> QED BY <1>4, <1>5, <1>6, <1>7 DEF Next

\* A claimed task belongs to its worker: nobody else changes its status, except
\* to block it once the claim is old.
THEOREM ClaimsProtect == Spec => ClaimProtects
<1>1. IInv /\ [Next]_vars =>
        [\A t \in Tasks :
           claim[t] # Free /\ task'[t].status # task[t].status =>
             \/ claim[t].old /\ task'[t].status = "blocked"
             \/ \E w \in Workers : /\ claim[t].by = w
                                   /\ tick[w].pc = "executing" /\ tick[w].task = t
                                   /\ tick'[w].pc = "claim"]_vars
  BY ProtectedStep
<1> QED BY <1>1, Invariance, PTL DEF Spec, ClaimProtects

\* Whatever the gate judged, the milestone is closed over finished tasks only.
THEOREM GateClosed == Spec => GateIsClosed
<1>1. [Next]_vars =>
        [milestone # "done" /\ milestone' = "done" =>
           \A t \in Tasks : task'[t].status \in {"absent", "done"}]_vars
  <2> SUFFICES ASSUME Next, milestone # "done", milestone' = "done", NEW t \in Tasks
               PROVE  task'[t].status \in {"absent", "done"}
    OBVIOUS
  <2>1. PICK w \in Workers : CloseMilestone(w)
    <3>1. ASSUME NEW o \in Operators, OperatorStep(o) PROVE FALSE
      BY <3>1
         DEF OperatorStep, store, Recover, Survey, Intervene, AssertUnclaimed, WriteTask,
             ReopenMilestone, ReopenProject
    <3>2. PICK w \in Workers : TickStep(w)
      BY <3>1 DEF Next, AddTask, TaskClaimAges, PlanningClaimAges
    <3> QED
      BY <3>2
         DEF TickStep, store, StartTick, ExpirePlanning, ExpireTasks, Activate, SaveActive,
             Activated, Decompose, Publish, Frontier, ClaimTask, Finalize, Gate, StopMilestone,
             BlockProject, FinishProject, Saved
  <2>2. Finished /\ task' = task
    BY <2>1 DEF CloseMilestone, Saved
  <2> QED BY <2>2 DEF Finished, Existing, Having
<1> QED BY <1>1, PTL DEF Spec, GateIsClosed

-----------------------------------------------------------------------------
(***************************************************************************)
(* The end of the project.                                                 *)
(***************************************************************************)

\* No milestone that is done is reopened while a tick that has read it as done
\* has the project yet to save.
NotOvertaken ==
    milestone = "done" /\ milestone' # "done" => \A w \in Workers : tick[w].pc # "finish"

\* What a tick about to finish the project read still holds, and a finished
\* project of a reopened milestone is about to be reopened itself.
FinishInv ==
    /\ \A w \in Workers : tick[w].pc = "finish" => milestone = "done"
    /\ project = "done" =>
         milestone = "done" \/ \E o \in Operators : operation[o].pc = "reopen"

\* Only an operator reopens a milestone.
LEMMA DoneIsLeft ==
    ASSUME [Next]_vars, milestone = "done", milestone' # "done"
    PROVE  \E o \in Operators : ReopenMilestone(o)
<1>1. ASSUME NEW w \in Workers, TickStep(w) PROVE FALSE
  BY <1>1
     DEF TickStep, store, StartTick, ExpirePlanning, ExpireTasks, Activate, SaveActive, Activated,
         Decompose, Publish, Frontier, ClaimTask, Finalize, Gate, StopMilestone, CloseMilestone,
         BlockProject, FinishProject, Saved, Open, Closed
<1>2. PICK o \in Operators : OperatorStep(o)
  BY <1>1 DEF Next, vars, store, AddTask, TaskClaimAges, PlanningClaimAges
<1> QED
  BY <1>2 DEF OperatorStep, store, Recover, Survey, Intervene, AssertUnclaimed, WriteTask,
     ReopenProject

\* A tick comes to finish the project by reading that its milestone is done.
LEMMA FinishIsReached ==
    ASSUME TickOK, [Next]_vars, NEW w \in Workers, tick[w].pc # "finish", tick'[w].pc = "finish"
    PROVE  milestone = "done" /\ milestone' = "done"
<1>1. PICK v \in Workers : TickStep(v)
  BY DEF Next, vars, OperatorStep, store, Recover, Survey, Intervene, AssertUnclaimed, WriteTask,
         ReopenMilestone, ReopenProject, AddTask, TaskClaimAges, PlanningClaimAges
<1>2. ASSUME NEW pc, Goto(v, pc) PROVE pc = "finish"
  BY <1>2 DEF TickOK, Tick, Goto
<1>3. ~EndTick(v)
  BY DEF TickOK, Tick, EndTick, NoTick
<1>4. Activate(v)
  <2>1. ~StartTick(v) /\ ~Activated(v) /\ ~Decompose(v) /\ ~SaveActive(v) /\ ~ExpireTasks(v)
    BY <1>2, <1>3 DEF StartTick, Activated, Decompose, SaveActive, ExpireTasks
  <2>2. ~Publish(v, Plan) /\ ~Publish(v, {}) /\ \A met \in BOOLEAN : ~Gate(v, met)
    BY <1>2, <1>3 DEF Publish, Gate
  <2>3. ~StopMilestone(v) /\ ~CloseMilestone(v) /\ ~BlockProject(v) /\ ~FinishProject(v)
    BY <1>2, <1>3 DEF StopMilestone, CloseMilestone, BlockProject, FinishProject
  <2>4. ~ExpirePlanning(v) /\ ~Frontier(v)
    BY DEF ExpirePlanning, Frontier, TickOK, Tick
  <2>5. ASSUME NEW t \in Tasks, ClaimTask(v, t) PROVE FALSE
    BY <2>5 DEF ClaimTask, TickOK, Tick
  <2>6. ASSUME NEW ok \in BOOLEAN, Finalize(v, ok) PROVE FALSE
    <3>1. tick' = [tick EXCEPT ![v].pc = "claim", ![v].task = Nobody]
      BY <2>6 DEF Finalize
    <3> QED BY <3>1 DEF TickOK, Tick
  <2> QED BY <1>1, <2>1, <2>2, <2>3, <2>4, <2>5, <2>6 DEF TickStep
<1>5. milestone' = milestone
  BY <1>4 DEF Activate, store
<1>6. CASE milestone # "done"
  BY <1>2, <1>4, <1>6 DEF Activate, Open
<1> QED BY <1>5, <1>6

\* The project is saved as done by a tick that has read so.
LEMMA ProjectIsFinished ==
    ASSUME [Next]_vars, project # "done", project' = "done"
    PROVE  \E w \in Workers : FinishProject(w)
<1>1. ASSUME NEW o \in Operators, OperatorStep(o) PROVE FALSE
  BY <1>1
     DEF OperatorStep, store, Recover, Survey, Intervene, AssertUnclaimed, WriteTask,
         ReopenMilestone, ReopenProject
<1>2. PICK w \in Workers : TickStep(w)
  BY <1>1 DEF Next, vars, store, AddTask, TaskClaimAges, PlanningClaimAges
<1> QED
  BY <1>2
     DEF TickStep, store, StartTick, ExpirePlanning, ExpireTasks, Activate, SaveActive, Activated,
         Decompose, Publish, Frontier, ClaimTask, Finalize, Gate, StopMilestone, CloseMilestone,
         BlockProject, SaveProject

\* An operation that has the project yet to reopen does just that.
LEMMA ReopenIsLeft ==
    ASSUME OperationOK, [Next]_vars, NEW o \in Operators,
           operation[o].pc = "reopen", operation'[o].pc # "reopen"
    PROVE  project' = "running"
<1>0. ASSUME NEW w \in Workers, TickStep(w) PROVE FALSE
  BY <1>0
     DEF TickStep, store, StartTick, ExpirePlanning, ExpireTasks, Activate, SaveActive, Activated,
         Decompose, Publish, Frontier, ClaimTask, Finalize, Gate, StopMilestone, CloseMilestone,
         BlockProject, FinishProject
<1>1. PICK p \in Operators : OperatorStep(p)
  BY <1>0 DEF Next, vars, AddTask, TaskClaimAges, PlanningClaimAges
<1>2. ASSUME NEW q \in Operators, NEW r, q # o, operation' = [operation EXCEPT ![q] = r]
      PROVE  FALSE
  BY <1>2 DEF OperationOK
<1>3. p = o
  <2>1. \/ operation' = operation
        \/ \E r : operation' = [operation EXCEPT ![p] = r]
    <3>1. ASSUME NEW t \in Tasks, WriteTask(p, t)
          PROVE  \E r : operation' = [operation EXCEPT ![p] = r]
      <4>1. CASE Writable(t)
        <5> DEFINE r == [operation[p] EXCEPT !.on = @ \ {t}]
        <5>1. operation' = [operation EXCEPT ![p] = r]
          BY <3>1, <4>1 DEF WriteTask
        <5> QED BY <5>1
      <4>2. CASE ~Writable(t)
        BY <3>1, <4>2 DEF WriteTask, EndOperation
      <4> QED BY <4>1, <4>2
    <3> QED
      BY <1>1, <3>1 DEF OperatorStep, Recover, Survey, Intervene, AssertUnclaimed,
         ReopenMilestone, ReopenProject, EndOperation
  <2> QED BY <1>2, <2>1
<1> QED
  BY <1>1, <1>3 DEF OperatorStep, Recover, Survey, Intervene, AssertUnclaimed, WriteTask,
     ReopenMilestone, ReopenProject

LEMMA FinishStep ==
    ASSUME TickOK, OperationOK, FinishInv, [Next]_vars, [NotOvertaken]_vars
    PROVE  FinishInv'
<1>1. NotOvertaken
  BY DEF NotOvertaken, vars, store
<1>2. ASSUME NEW w \in Workers, tick'[w].pc = "finish" PROVE milestone' = "done"
  <2>1. CASE tick[w].pc = "finish"
    BY <1>1, <2>1 DEF FinishInv, NotOvertaken
  <2>2. CASE tick[w].pc # "finish"
    BY <1>2, <2>2, FinishIsReached
  <2> QED BY <2>1, <2>2
<1>3. ASSUME project' = "done", milestone' # "done"
      PROVE  \E o \in Operators : operation'[o].pc = "reopen"
  <2>1. CASE milestone = "done"
    <3>1. PICK o \in Operators : ReopenMilestone(o)
      BY <1>3, <2>1, DoneIsLeft
    <3> QED BY <1>3, <2>1, <3>1 DEF ReopenMilestone, OperationOK, Operation
  <2>2. CASE milestone # "done"
    <3>1. project = "done"
      <4>1. ASSUME NEW w \in Workers, FinishProject(w) PROVE FALSE
        BY <2>2, <4>1 DEF FinishProject, FinishInv
      <4> QED BY <1>3, <4>1, ProjectIsFinished
    <3>2. PICK o \in Operators : operation[o].pc = "reopen"
      BY <2>2, <3>1 DEF FinishInv
    <3> QED BY <1>3, <3>2, ReopenIsLeft
  <2> QED BY <2>1, <2>2
<1> QED BY <1>2, <1>3 DEF FinishInv

\* A project that is done has its milestone done, unless a reopening overtakes
\* a tick that is about to finish it: the late answer to an old reading is the
\* only way to the state project_done shows.
THEOREM DoneUnlessOvertaken == Spec /\ [][NotOvertaken]_vars => []DoneMeansDone
<1>1. Init => FinishInv
  BY DEF Init, NoTick, FinishInv
<1>2. IInv /\ FinishInv /\ [Next]_vars /\ [NotOvertaken]_vars => FinishInv'
  BY FinishStep, Parts
<1>3. FinishInv => DoneMeansDone
  BY DEF FinishInv, DoneMeansDone
<1> QED BY <1>1, <1>2, <1>3, Invariance, PTL DEF Spec
=============================================================================
