---------------------------- MODULE ToolEffects ----------------------------
(***************************************************************************)
(* Durable tool side effects: what happens to ONE effect key when the      *)
(* executor delivers the same tool call several times, from several        *)
(* processes, with crashes, lapsed leases and operator-approved retries.   *)
(*                                                                         *)
(*   row      the receipt in the SQLite store  (effect_store.py)           *)
(*   journal  what the append-only journal says of the key (journal.py)    *)
(*   mem      one ToolEffectReceiptIndex per process (effect_receipts.py)  *)
(*   call     one execute_step call per delivery thread (executor.py)      *)
(*                                                                         *)
(* The store, the index and the executor keep nothing across effect keys,  *)
(* so one key is enough.  A restarted worker has a new holder_id (a uuid)  *)
(* and an empty index, so it is a process that has not delivered yet, and  *)
(* a crashed process never comes back.                                     *)
(***************************************************************************)
EXTENDS Naturals, FiniteSets

CONSTANTS
    Processes,      \* worker processes, each with its own index and holder_id
    Deliverers,     \* threads that run execute_step, one call at a time each
    Home,           \* the process of each thread
    Nobody,         \* the holder of a receipt no process holds
    SideEffecting,  \* is_side_effecting(skill.affinity) for this effect
    MaxDeliveries,  \* bound: execute_step calls
    MaxRetries,     \* bound: retries operators authorise
    MaxCrashes,     \* bound: processes that die
    MaxFaults,      \* bound: store or journal errors, escaping exceptions
    ResultsDecay    \* a committed Step may fail to decode when it is replayed

ASSUME ConstantsAssumption ==
    /\ IsFiniteSet(Deliverers)
    /\ Home \in [Deliverers -> Processes]
    /\ Nobody \notin Processes
    /\ {SideEffecting, ResultsDecay} \subseteq BOOLEAN
    /\ {MaxDeliveries, MaxRetries, MaxCrashes, MaxFaults} \subseteq Nat

VARIABLES
    row, journal, mem, call,
    used,         \* deliveries, crashes and faults so far, for the bounds
    starts,       \* history: successful mark_started calls
    executions,   \* history: times the tool's handler was entered
    authorized,   \* history: retries operators authorised
    reviewed      \* the receipt an operator last looked at, kept if not deleted since

store   == <<row, journal>>
history == <<starts, executions, authorized, reviewed>>
vars    == <<row, journal, mem, call, used, history>>

(***************************************************************************)
(* The receipt row.  A result is the number of the start that produced it, *)
(* 0 is no result.  "live" abstracts lease_expires_at > now.               *)
(***************************************************************************)
Held == {"claimed", "started"}
RowStates == Held \union {"absent", "committed", "indeterminate", "retry_authorized"}

Row == [state: RowStates, holder: Processes \union {Nobody}, token: Nat,
        live: BOOLEAN, result: Nat]

NoRow == [state |-> "absent", holder |-> Nobody, token |-> 0,
          live |-> FALSE, result |-> 0]

\* Seeded fault: a receipt recognises its claimant by the token alone.
MatchesByToken(p, t) == row.token = t

Matches(p, t) == row.holder = p /\ row.token = t
Owns(p, t)    == Matches(p, t) /\ row.state \in Held

Claimed(p, t)    == [state |-> "claimed", holder |-> p, token |-> t,
                     live |-> TRUE, result |-> 0]
Uncertain(r)     == [r EXCEPT !.state = "indeterminate", !.live = FALSE]
Committed(r, v)  == [r EXCEPT !.state = "committed", !.live = FALSE, !.result = v]

(***************************************************************************)
(* A process's index: live is "key in _live", intent is "_intents has a    *)
(* side-effecting intent", result is _committed[key], unread says that the *)
(* journal holds a successful Step this index has not read.  beats are the *)
(* renewing threads, handle the one registered in _heartbeats[key].        *)
(***************************************************************************)
Beat == Deliverers \X Nat
Memory == [live: BOOLEAN, intent: BOOLEAN, result: Nat, unread: BOOLEAN,
           beats: SUBSET Beat, handle: SUBSET Beat]

NoMemory == [live |-> FALSE, intent |-> FALSE, result |-> 0, unread |-> FALSE,
             beats |-> {}, handle |-> {}]

\* The index after _refresh_from_journal.
Refreshed(p) ==
    [mem[p] EXCEPT !.intent = @ \/ journal.intent,
                   !.result = IF mem[p].unread THEN journal.result ELSE @,
                   !.unread = FALSE]

HeartbeatStopped(m) == [m EXCEPT !.beats = @ \ m.handle, !.handle = {}]

(***************************************************************************)
(* One delivery.  attempt is the start under which its handler ran (0      *)
(* before mark_started) or the result it replays; intent is begin()'s      *)
(* local copy of the intent, which a poll may leave stale.                 *)
(***************************************************************************)
Locked  == {"repair", "claim"}
Phases  == Locked \union {"idle", "begin", "polling", "granted", "intended", "started",
                          "running", "finishing", "journaling", "dead"}

Call == [pc: Phases, intent: BOOLEAN, token: Nat, attempt: Nat, ok: BOOLEAN]

NoCall == [pc |-> "idle", intent |-> FALSE, token |-> 0, attempt |-> 0, ok |-> FALSE]

\* The index's condition lock is free for d: begin() holds it from the
\* refresh to the claim, and gives it up while it waits.
LockFree(d) ==
    \A e \in Deliverers \ {d} : Home[e] = Home[d] => call[e].pc \notin Locked

At(d, pc) == call[d].pc = pc

TypeOK ==
    /\ row \in Row
    /\ journal \in [intent: BOOLEAN, result: Nat]
    /\ mem \in [Processes -> Memory]
    /\ call \in [Deliverers -> Call]
    /\ used \in [deliveries: Nat, crashes: Nat, faults: Nat]
    /\ starts \in Nat
    /\ executions \in Nat
    /\ authorized \in Nat
    /\ reviewed \in [seen: BOOLEAN, kept: BOOLEAN, token: Nat, starts: Nat]

Init ==
    /\ row = NoRow
    /\ journal = [intent |-> FALSE, result |-> 0]
    /\ mem = [p \in Processes |-> NoMemory]
    /\ call = [d \in Deliverers |-> NoCall]
    /\ used = [deliveries |-> 0, crashes |-> 0, faults |-> 0]
    /\ starts = 0
    /\ executions = 0
    /\ authorized = 0
    /\ reviewed = [seen |-> FALSE, kept |-> FALSE, token |-> 0, starts |-> 0]

Goto(d, pc) == call' = [call EXCEPT ![d].pc = pc]

\* One store or journal error, or one exception nothing catches.
Fault == /\ used.faults < MaxFaults
         /\ used' = [used EXCEPT !.faults = @ + 1]

-----------------------------------------------------------------------------
(***************************************************************************)
(* begin(): refresh, wait for another thread of this process, repair the   *)
(* receipt from the journal, claim, poll while another process is busy.    *)
(***************************************************************************)

\* The executor reaches begin() for one more delivery of the call.
Deliver(d) ==
    /\ At(d, "idle")
    /\ used.deliveries < MaxDeliveries
    /\ used' = [used EXCEPT !.deliveries = @ + 1]
    /\ call' = [call EXCEPT ![d] = [NoCall EXCEPT !.pc = "begin"]]
    /\ UNCHANGED <<store, mem, history>>

\* Another thread of this process is executing the effect: refresh and wait.
Wait(d) ==
    /\ At(d, "begin")
    /\ LockFree(d)
    /\ mem[Home[d]].live
    /\ mem' = [mem EXCEPT ![Home[d]] = Refreshed(Home[d])]
    /\ UNCHANGED <<store, call, used, history>>

\* wait_timeout_s ran out while waiting: the delivery ends "indeterminate".
WaitTimesOut(d) ==
    /\ At(d, "begin")
    /\ LockFree(d)
    /\ mem[Home[d]].live
    /\ Goto(d, "idle")
    /\ UNCHANGED <<store, mem, used, history>>

\* Nobody in this process executes the effect: go on to the store.
Enter(d) ==
    LET m == Refreshed(Home[d]) IN
    /\ At(d, "begin")
    /\ LockFree(d)
    /\ ~mem[Home[d]].live
    /\ mem' = [mem EXCEPT ![Home[d]] = m]
    /\ call' = [call EXCEPT ![d].pc = IF m.result # 0 THEN "repair" ELSE "claim",
                            ![d].intent = m.intent]
    /\ UNCHANGED <<store, used, history>>

\* record_committed: seed the receipt from the journal, unless a live lease
\* protects it.
Repair(d) ==
    /\ At(d, "repair")
    /\ row' = IF row.state \in Held /\ row.live
                THEN row ELSE Committed(row, mem[Home[d]].result)
    /\ Goto(d, "claim")
    /\ UNCHANGED <<journal, mem, used, history>>

\* claim() answered "execute" and left receipt r.
Grant(d, r) ==
    /\ row' = r
    /\ call' = [call EXCEPT ![d].pc = "granted", ![d].token = r.token]
    /\ mem' = [mem EXCEPT ![Home[d]].live = TRUE]

\* claim() answered "indeterminate" and left receipt r.
Refuse(d, r) ==
    /\ row' = r
    /\ Goto(d, "idle")
    /\ UNCHANGED mem

ClaimVacant(d) ==
    /\ At(d, "claim")
    /\ row.state = "absent"
    /\ IF call[d].intent /\ SideEffecting
         THEN Refuse(d, Uncertain(NoRow))
         ELSE Grant(d, Claimed(Home[d], 1))
    /\ UNCHANGED <<journal, used, history>>

ClaimCommitted(d) ==
    /\ At(d, "claim")
    /\ row.state = "committed"
    /\ call' = [call EXCEPT ![d].pc = "journaling", ![d].attempt = row.result]
    /\ mem' = [mem EXCEPT ![Home[d]].result = row.result]
    /\ UNCHANGED <<store, used, history>>

\* The stored Step no longer decodes (another version wrote it).
ClaimUnreadable(d) ==
    /\ At(d, "claim")
    /\ row.state = "committed"
    /\ ResultsDecay
    /\ Fault
    /\ Refuse(d, Uncertain(row))
    /\ UNCHANGED <<journal, history>>

ClaimIndeterminate(d) ==
    /\ At(d, "claim")
    /\ row.state = "indeterminate"
    /\ Refuse(d, row)
    /\ UNCHANGED <<journal, used, history>>

\* Another process holds a live lease: poll again, or give up at the deadline.
ClaimBusy(d) ==
    /\ At(d, "claim")
    /\ row.state \in Held
    /\ row.live
    /\ row.holder # Home[d]
    /\ \E pc \in {"polling", "idle"} : Goto(d, pc)
    /\ UNCHANGED <<store, mem, used, history>>

\* This process itself holds the live lease: claim() hands out its token again.
ClaimOwn(d) ==
    /\ At(d, "claim")
    /\ row.state \in Held
    /\ row.live
    /\ row.holder = Home[d]
    /\ Grant(d, row)
    /\ UNCHANGED <<journal, used, history>>

\* Seeded faults: the receipt's own state is ignored; read-only effects are
\* treated like side effects.
UnsafeByIntentOnly(d) ==
    SideEffecting /\ row.state # "retry_authorized" /\ call[d].intent
UnsafeForReadOnlyToo(d) ==
    row.state # "retry_authorized" /\ (row.state = "started" \/ call[d].intent)

\* The handler may have been entered under the lapsed receipt.
Unsafe(d) ==
    /\ SideEffecting
    /\ row.state # "retry_authorized"
    /\ row.state = "started" \/ call[d].intent

\* Seeded fault: the lease is not looked at before the take-over.
ClaimNotLapsed(d) ==
    /\ At(d, "claim")
    /\ row.state \in Held \union {"retry_authorized"}
    /\ IF Unsafe(d)
         THEN Refuse(d, Uncertain(row))
         ELSE Grant(d, Claimed(Home[d], row.token + 1))
    /\ UNCHANGED <<journal, used, history>>

ClaimLapsed(d) ==
    /\ At(d, "claim")
    /\ row.state \in Held \union {"retry_authorized"}
    /\ ~row.live
    /\ IF Unsafe(d)
         THEN Refuse(d, Uncertain(row))
         ELSE Grant(d, Claimed(Home[d], row.token + 1))
    /\ UNCHANGED <<journal, used, history>>

\* The poll interval passed: refresh, then repair or claim again.  A known
\* result skips the line that re-reads the intent.
Poll(d) ==
    LET m == Refreshed(Home[d]) IN
    /\ At(d, "polling")
    /\ LockFree(d)
    /\ mem' = [mem EXCEPT ![Home[d]] = m]
    /\ call' = [call EXCEPT ![d].pc = IF m.result # 0 THEN "repair" ELSE "claim",
                            ![d].intent = IF m.result # 0 THEN @ ELSE m.intent]
    /\ UNCHANGED <<store, used, history>>

\* record_committed or claim raised: the step fails, nothing was claimed.
BeginFails(d) ==
    /\ call[d].pc \in Locked
    /\ Fault
    /\ Goto(d, "idle")
    /\ UNCHANGED <<store, mem, history>>

-----------------------------------------------------------------------------
(***************************************************************************)
(* From the grant to the handler: file-write lease, durable intent,        *)
(* mark_started, handler.                                                  *)
(***************************************************************************)

\* The file-write lease is refused, the file drifted, or the intent cannot be
\* appended: the step fails before the handler.
PreflightFails(d) ==
    /\ At(d, "granted")
    /\ Goto(d, "finishing")
    /\ UNCHANGED <<store, mem, used, history>>

WriteIntent(d) ==
    /\ At(d, "granted")
    /\ Goto(d, "intended")
    /\ journal' = [journal EXCEPT !.intent = @ \/ SideEffecting]
    /\ UNCHANGED <<row, mem, used, history>>

\* The index after mark_intent has refreshed and recorded the new intent.
Intended(p) == [Refreshed(p) EXCEPT !.intent = @ \/ SideEffecting]

\* Seeded fault: mark_started is not fenced.
MarkIntentUnfenced(d) ==
    LET p == Home[d]
        beat == {<<d, call[d].token>>} IN
    /\ At(d, "intended")
    /\ LockFree(d)
    /\ row' = [row EXCEPT !.state = "started", !.live = TRUE]
    /\ starts' = starts + 1
    /\ call' = [call EXCEPT ![d].pc = "started", ![d].attempt = starts + 1]
    /\ mem' = [mem EXCEPT ![p] = [Intended(p) EXCEPT !.beats = @ \union beat,
                                                     !.handle = beat]]
    /\ UNCHANGED <<journal, used, executions, authorized, reviewed>>

\* mark_intent: mark_started succeeds and the heartbeat starts.
MarkIntent(d) ==
    LET p == Home[d]
        beat == {<<d, call[d].token>>} IN
    /\ At(d, "intended")
    /\ LockFree(d)
    /\ Owns(p, call[d].token)
    /\ row' = [row EXCEPT !.state = "started", !.live = TRUE]
    /\ starts' = starts + 1
    /\ call' = [call EXCEPT ![d].pc = "started", ![d].attempt = starts + 1]
    /\ mem' = [mem EXCEPT ![p] = [Intended(p) EXCEPT !.beats = @ \union beat,
                                                     !.handle = beat]]
    /\ UNCHANGED <<journal, used, executions, authorized, reviewed>>

\* mark_intent: the claim was lost; _live is released and the step fails.
MarkIntentLost(d) ==
    LET p == Home[d] IN
    /\ At(d, "intended")
    /\ LockFree(d)
    /\ ~Owns(p, call[d].token)
    /\ mem' = [mem EXCEPT ![p] = [Intended(p) EXCEPT !.live = FALSE]]
    /\ Goto(d, "finishing")
    /\ UNCHANGED <<store, used, history>>

\* mark_intent: mark_started raised; _live is kept and the step fails.
MarkIntentFails(d) ==
    LET p == Home[d] IN
    /\ At(d, "intended")
    /\ LockFree(d)
    /\ Fault
    /\ mem' = [mem EXCEPT ![p] = Intended(p)]
    /\ Goto(d, "finishing")
    /\ UNCHANGED <<store, history>>

\* The handler is entered: the side effect may happen from here on.
EnterHandler(d) ==
    /\ At(d, "started")
    /\ Goto(d, "running")
    /\ executions' = executions + 1
    /\ UNCHANGED <<store, mem, used, starts, authorized, reviewed>>

\* It returns a result, raises, times out or is cancelled.
HandlerReturns(d) ==
    /\ At(d, "running")
    /\ \E ok \in BOOLEAN :
         call' = [call EXCEPT ![d].pc = "finishing", ![d].ok = ok]
    /\ UNCHANGED <<store, mem, used, history>>

-----------------------------------------------------------------------------
(***************************************************************************)
(* finish(), then the journal Step.                                        *)
(***************************************************************************)

\* Budget accounting or its journal record raised between the handler and
\* finish(): the call ends with _live and the heartbeat left behind.
EscapeBeforeFinish(d) ==
    /\ At(d, "finishing")
    /\ Fault
    /\ Goto(d, "idle")
    /\ UNCHANGED <<store, mem, history>>

\* Seeded fault: finish() leaves the key in _live.
FinishedStillLive(p) == HeartbeatStopped(mem[p])

\* The index once finish() is through with the key.
Finished(p) == [HeartbeatStopped(mem[p]) EXCEPT !.live = FALSE]

\* commit() of a success.
Commit(d) ==
    LET p == Home[d] IN
    /\ At(d, "finishing")
    /\ LockFree(d)
    /\ call[d].ok
    /\ Owns(p, call[d].token)
    /\ row' = Committed(row, call[d].attempt)
    /\ mem' = [mem EXCEPT ![p] = [Finished(p) EXCEPT !.result = call[d].attempt]]
    /\ Goto(d, "journaling")
    /\ UNCHANGED <<journal, used, history>>

\* Seeded fault: the lost claim is not raised, and the Step is journaled.
CommitLostUnnoticed(d) ==
    LET p == Home[d] IN
    /\ At(d, "finishing")
    /\ LockFree(d)
    /\ call[d].ok
    /\ ~Owns(p, call[d].token)
    /\ mem' = [mem EXCEPT ![p] = Finished(p)]
    /\ Goto(d, "journaling")
    /\ UNCHANGED <<store, used, history>>

\* commit() found the claim lost: EffectLeaseLost leaves execute_step and no
\* Step is journaled.
CommitLost(d) ==
    LET p == Home[d] IN
    /\ At(d, "finishing")
    /\ LockFree(d)
    /\ call[d].ok
    /\ ~Owns(p, call[d].token)
    /\ mem' = [mem EXCEPT ![p] = Finished(p)]
    /\ Goto(d, "idle")
    /\ UNCHANGED <<store, used, history>>

\* Seeded faults: a failure deletes the receipt whatever the intent; a failure
\* is not fenced.
FinishFailedForgets(d) ==
    LET p == Home[d] IN
    /\ At(d, "finishing")
    /\ LockFree(d)
    /\ ~call[d].ok
    /\ row' = IF Matches(p, call[d].token) THEN NoRow ELSE row
    /\ mem' = [mem EXCEPT ![p] = Finished(p)]
    /\ Goto(d, "idle")
    /\ reviewed' = [reviewed EXCEPT !.kept = @ /\ row' # NoRow]
    /\ UNCHANGED <<journal, used, starts, executions, authorized>>
FinishFailedUnfenced(d) ==
    LET p == Home[d] IN
    /\ At(d, "finishing")
    /\ LockFree(d)
    /\ ~call[d].ok
    /\ row' = IF mem[p].intent THEN Uncertain(row) ELSE NoRow
    /\ mem' = [mem EXCEPT ![p] = Finished(p)]
    /\ Goto(d, "idle")
    /\ reviewed' = [reviewed EXCEPT !.kept = @ /\ row' # NoRow]
    /\ UNCHANGED <<journal, used, starts, executions, authorized>>

\* finish_failed: without a known side-effecting intent the receipt is
\* deleted, with one it becomes indeterminate.  The failed Step that is then
\* journaled changes nothing for this key.
FinishFailed(d) ==
    LET p == Home[d] IN
    /\ At(d, "finishing")
    /\ LockFree(d)
    /\ ~call[d].ok
    /\ row' = IF ~Matches(p, call[d].token) THEN row
              ELSE IF mem[p].intent THEN Uncertain(row) ELSE NoRow
    /\ mem' = [mem EXCEPT ![p] = Finished(p)]
    /\ Goto(d, "idle")
    /\ reviewed' = [reviewed EXCEPT !.kept = @ /\ row' # NoRow]
    /\ UNCHANGED <<journal, used, starts, executions, authorized>>

\* The store raised inside finish(): the heartbeat is stopped, _live stays.
FinishFails(d) ==
    LET p == Home[d] IN
    /\ At(d, "finishing")
    /\ LockFree(d)
    /\ Fault
    /\ mem' = [mem EXCEPT ![p] = HeartbeatStopped(mem[p])]
    /\ Goto(d, "idle")
    /\ UNCHANGED <<store, history>>

\* The successful (or replayed) Step is appended to the journal.
WriteStep(d) ==
    /\ At(d, "journaling")
    /\ journal' = [journal EXCEPT !.result = call[d].attempt]
    /\ mem' = [p \in Processes |-> [mem[p] EXCEPT !.unread = TRUE]]
    /\ Goto(d, "idle")
    /\ UNCHANGED <<row, used, history>>

\* The append raised, or the session budget did before it.
StepAppendFails(d) ==
    /\ At(d, "journaling")
    /\ Fault
    /\ Goto(d, "idle")
    /\ UNCHANGED <<store, mem, history>>

-----------------------------------------------------------------------------
(***************************************************************************)
(* Time, heartbeats, crashes, operators.                                   *)
(***************************************************************************)

\* lease_expires_at passes: a process may be paused for any time.
LeaseExpires ==
    /\ row.live
    /\ row' = [row EXCEPT !.live = FALSE]
    /\ UNCHANGED <<journal, mem, call, used, history>>

\* A heartbeat thread renews its claim, or ends when the claim is gone.
Renew(p, beat) ==
    /\ beat \in mem[p].beats
    /\ IF Owns(p, beat[2])
         THEN row' = [row EXCEPT !.live = TRUE] /\ UNCHANGED mem
         ELSE mem' = [mem EXCEPT ![p].beats = @ \ {beat}] /\ UNCHANGED row
    /\ UNCHANGED <<journal, call, used, history>>

Crash(p) ==
    /\ used.crashes < MaxCrashes
    /\ used' = [used EXCEPT !.crashes = @ + 1]
    /\ \E d \in Deliverers : Home[d] = p /\ ~At(d, "dead")
    /\ call' = [d \in Deliverers |->
                  IF Home[d] = p THEN [NoCall EXCEPT !.pc = "dead"] ELSE call[d]]
    /\ mem' = [mem EXCEPT ![p] = NoMemory]
    /\ UNCHANGED <<store, history>>

\* An operator lists the receipts and looks at an indeterminate one.
Review ==
    /\ row.state = "indeterminate"
    /\ reviewed' = [seen |-> TRUE, kept |-> TRUE, token |-> row.token, starts |-> starts]
    /\ UNCHANGED <<store, mem, call, used, starts, executions, authorized>>

\* Seeded fault: the token the operator saw is not compared.
AuthorizeRetryUnseen ==
    /\ authorized < MaxRetries
    /\ reviewed.seen
    /\ row.state = "indeterminate"
    /\ ~row.live
    /\ row' = [row EXCEPT !.state = "retry_authorized", !.holder = Nobody]
    /\ authorized' = authorized + 1
    /\ UNCHANGED <<journal, mem, call, used, starts, executions, reviewed>>

\* authorize_retry with the token the operator saw.
AuthorizeRetry ==
    /\ authorized < MaxRetries
    /\ reviewed.seen
    /\ row.state = "indeterminate"
    /\ row.token = reviewed.token
    /\ ~row.live
    /\ row' = [row EXCEPT !.state = "retry_authorized", !.holder = Nobody]
    /\ authorized' = authorized + 1
    /\ UNCHANGED <<journal, mem, call, used, starts, executions, reviewed>>

-----------------------------------------------------------------------------
Claim(d) ==
    \/ ClaimVacant(d) \/ ClaimCommitted(d) \/ ClaimIndeterminate(d)
    \/ ClaimBusy(d) \/ ClaimOwn(d) \/ ClaimLapsed(d)

\* What a thread of a running process does next when nothing fails.
Progress(d) ==
    \/ Wait(d) \/ Enter(d) \/ Repair(d) \/ Claim(d) \/ Poll(d)
    \/ WriteIntent(d) \/ MarkIntent(d) \/ MarkIntentLost(d)
    \/ EnterHandler(d) \/ HandlerReturns(d)
    \/ Commit(d) \/ CommitLost(d) \/ FinishFailed(d) \/ WriteStep(d)

Trouble(d) ==
    \/ WaitTimesOut(d) \/ BeginFails(d) \/ ClaimUnreadable(d) \/ PreflightFails(d)
    \/ MarkIntentFails(d) \/ EscapeBeforeFinish(d) \/ FinishFails(d) \/ StepAppendFails(d)

Next ==
    \/ \E d \in Deliverers : Deliver(d) \/ Progress(d) \/ Trouble(d)
    \/ \E p \in Processes : Crash(p) \/ \E beat \in mem[p].beats : Renew(p, beat)
    \/ LeaseExpires \/ Review \/ AuthorizeRetry

Spec == Init /\ [][Next]_vars

\* Threads of running processes are scheduled, handlers return and clocks
\* advance; nothing obliges a delivery, a fault, a time-out or an operator.
FairSpec ==
    /\ Spec
    /\ \A d \in Deliverers : WF_vars(Progress(d))
    /\ WF_vars(LeaseExpires)

-----------------------------------------------------------------------------
(***************************************************************************)
(* What must hold.                                                         *)
(***************************************************************************)

\* The handler of a side effect runs at most once, plus once for every retry
\* an operator authorised: no crash, lapsed lease, take-over, redelivery or
\* journal repair runs it again (effect_store.py, module docstring).
AtMostOnce == SideEffecting => executions <= 1 + authorized

\* A receipt that claim() may hand out has an authorisation to spend for every
\* start so far, however it got there: deletion by finish_failed, a take-over,
\* an approval.
ClaimableIsPaid ==
    SideEffecting /\ row.state \in {"absent", "claimed", "retry_authorized"}
        => starts <= authorized

\* The receipt and the journal never give different results for the effect.
ResultsAgree ==
    row.state = "committed" /\ journal.result # 0 => journal.result = row.result

\* A committed receipt keeps its result: late failures, stale owners and
\* repairs from a stale index do not touch it.
Settled ==
    [][row.state = "committed" =>
         row'.state = "committed" /\ row'.result = row.result]_row

\* While its lease is live a claim belongs to its process: nobody takes it
\* over, repairs it or marks it, and only its own failing delivery deletes it.
LeaseProtects ==
    [][row.state \in Held /\ row.live =>
         \/ row'.holder = row.holder /\ row'.token = row.token
         \/ /\ row' = NoRow
            /\ \E d \in Deliverers : /\ Home[d] = row.holder
                                     /\ call[d].token = row.token
                                     /\ At(d, "finishing")]_row

\* An authorisation covers what its operator saw: no delivery started between
\* the review and the authorisation, unless the receipt was deleted in between
\* (its tokens then begin anew, and may meet the one the operator saw).
ReviewCoversStarts ==
    [][authorized' > authorized /\ reviewed.kept => reviewed.starts = starts]_authorized

\* A read-only effect never needs an operator.
ReadOnlyNeverStuck == ~SideEffecting /\ ~ResultsDecay => row.state # "indeterminate"

\* "The journal remains the audit source of truth and can repair a receipt if
\* a process dies between the journal Step append and the SQLite commit"
\* (effect_store.py): the receipt is committed after the Step is journaled.
JournalLeads == row.state = "committed" => journal.result # 0

\* Unless a fault left a claim behind, every delivery gets an answer before its
\* time-out: owners finish, are taken over or are found dead (begin()'s loops).
Answered ==
    \A d \in Deliverers :
        At(d, "begin") ~> call[d].pc \in {"idle", "dead"} \/ used.faults > 0

(***************************************************************************)
(* The receipt keeps the contract of the EffectStore protocol.             *)
(***************************************************************************)
PhaseOf == [absent |-> "free", claimed |-> "free", retry_authorized |-> "free",
            started |-> "attempted", committed |-> "done",
            indeterminate |-> "uncertain"]

Contract == INSTANCE EffectContract
    WITH phase <- PhaseOf[row.state],
         attempts <- starts,
         approvals <- authorized,
         value <- IF row.state = "committed" THEN row.result ELSE 0

ContractSpec == Contract!Spec

(***************************************************************************)
(* The inductive invariant behind AtMostOnce, for processes that deliver   *)
(* the effect from one thread each.                                        *)
(***************************************************************************)
OneThreadEach == \A d, e \in Deliverers : Home[d] = Home[e] => d = e

Unstarted(d) == \/ call[d].pc \in {"granted", "intended"}
                \/ At(d, "finishing") /\ call[d].attempt = 0

Started(d) == \/ call[d].pc \in {"started", "running"}
              \/ At(d, "finishing") /\ call[d].attempt # 0

\* A start of a side effect has been paid for wherever another is still possible.
CreditInv ==
    SideEffecting =>
        /\ starts <= 1 + authorized
        /\ row.state \in {"absent", "claimed", "retry_authorized"} => starts <= authorized
        /\ \A d \in Deliverers :
             Unstarted(d) /\ Matches(Home[d], call[d].token) => starts <= authorized

\* Deliveries on the way from the grant to finish().
Working == {"granted", "intended", "started", "running", "finishing"}

\* The index of a running process knows the claim the process holds.
OwnerInv ==
    \A d \in Deliverers :
        /\ call[d].pc \in Locked \union {"polling"} => ~mem[Home[d]].live
        /\ row.state \in Held /\ row.holder = Home[d] /\ ~At(d, "dead") =>
             /\ mem[Home[d]].live
             /\ call[d].pc \in Working => call[d].token = row.token

\* The index of a started side effect knows its intent, so a failure cannot
\* delete the receipt.
IntentInv ==
    \A d \in Deliverers :
        /\ SideEffecting /\ Started(d) => mem[Home[d]].intent
        /\ call[d].pc \in {"started", "running"} => call[d].attempt # 0
        /\ call[d].pc \in Locked \union {"begin", "polling", "granted", "intended"}
             => call[d].attempt = 0

Pending == {d \in Deliverers : At(d, "started")}

\* Each start lets the handler be entered once.
CountInv == executions + Cardinality(Pending) <= starts

IInv == TypeOK /\ CreditInv /\ OwnerInv /\ IntentInv /\ CountInv
=============================================================================
