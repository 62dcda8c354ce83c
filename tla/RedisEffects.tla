---------------------------- MODULE RedisEffects ----------------------------
(***************************************************************************)
(* Durable tool side effects over Redis (redis_effect_store.py with        *)
(* redis_coordinator.py), for one effect key.  The lease is one Redis key, *)
(* which disappears by itself when its TTL runs out; the receipt is        *)
(* another and stays.  A Redis command or Lua script is atomic, a store    *)
(* method is not: claim() sends up to five, and whatever other processes   *)
(* do, or the lease lapsing, comes between any two of them.                *)
(*                                                                         *)
(* The executor and the receipt index around the store are those of        *)
(* ToolEffects, reduced to what one delivery thread per process meets (two *)
(* threads of one process are a subject of ToolEffects).  A restarted      *)
(* process has a new holder id: it is a process that has not delivered.    *)
(***************************************************************************)
EXTENDS Naturals, FiniteSets

CONSTANTS
    Processes,      \* worker processes, on any host
    Nobody,         \* the holder of no lease
    SideEffecting,  \* is_side_effecting(skill.affinity) for this effect
    MaxDeliveries,  \* bound: execute_step calls
    MaxRetries,     \* bound: retries operators authorise
    MaxLapses,      \* bound: leases that run out
    MaxCrashes,     \* bound: processes that die
    MaxFaults       \* bound: errors, before or after Redis did its part

ASSUME ConstantsAssumption ==
    /\ IsFiniteSet(Processes)
    /\ Nobody \notin Processes
    /\ SideEffecting \in BOOLEAN
    /\ {MaxDeliveries, MaxRetries, MaxLapses, MaxCrashes, MaxFaults} \subseteq Nat

VARIABLES
    lease,      \* the lease key: holder and fencing token
    receipt,    \* the receipt key
    tokens,     \* the fencing counter
    journal,    \* what the journal says of the key
    active,     \* _active[key] of each process: the token it holds, 0 if none
    index,      \* the ToolEffectReceiptIndex of each process
    call,       \* the delivery each process is working on
    used,       \* deliveries, lapses, crashes and faults so far, for the bounds
    starts,     \* history: "started" receipts published
    executions, \* history: times the handler was entered
    authorized, \* history: retries authorised
    reviewed    \* the receipt an operator last looked at

redis   == <<lease, receipt, tokens>>
history == <<starts, executions, authorized, reviewed>>
vars    == <<redis, journal, active, index, call, used, history>>

NoLease == [holder |-> Nobody, token |-> 0]
Absent  == [state |-> "absent", token |-> 0, result |-> 0]

Terminal == {"committed", "indeterminate"}
States   == Terminal \union {"absent", "claimed", "started", "retry_authorized"}

\* live: key in _live.  intent: a side-effecting intent is known.  known: the
\* result in _committed.  unread: the journal has a Step not read yet.  beat:
\* the heartbeat thread runs.
Index == [live: BOOLEAN, intent: BOOLEAN, known: Nat, unread: BOOLEAN, beat: BOOLEAN]
NoIndex == [live |-> FALSE, intent |-> FALSE, known |-> 0, unread |-> FALSE,
            beat |-> FALSE]

\* Where a delivery stands: inside claim(), up to the handler, after it.
Claiming == {"lookup", "extend", "grab", "refused", "read", "letgo", "publish"}
Working  == {"granted", "intended", "started", "running", "finishing"}
Phases   == Claiming \union Working
              \union {"idle", "repair", "polling", "journaling", "dead"}

\* seen is the receipt state claim() read; attempt the start the handler runs
\* under, or the result that is replayed.
Call == [pc: Phases, intent: BOOLEAN, token: Nat, seen: States,
         attempt: Nat, ok: BOOLEAN]
NoCall == [pc |-> "idle", intent |-> FALSE, token |-> 0, seen |-> "absent",
           attempt |-> 0, ok |-> FALSE]

TypeOK ==
    /\ lease \in [holder: Processes \union {Nobody}, token: Nat]
    /\ receipt \in [state: States, token: Nat, result: Nat]
    /\ {tokens, starts, executions, authorized} \subseteq Nat
    /\ journal \in [intent: BOOLEAN, result: Nat]
    /\ active \in [Processes -> Nat]
    /\ index \in [Processes -> Index]
    /\ call \in [Processes -> Call]
    /\ used \in [deliveries: Nat, lapses: Nat, crashes: Nat, faults: Nat]
    /\ reviewed \in [seen: BOOLEAN, token: Nat, starts: Nat]

Init ==
    /\ lease = NoLease
    /\ receipt = Absent
    /\ tokens = 0
    /\ journal = [intent |-> FALSE, result |-> 0]
    /\ active = [p \in Processes |-> 0]
    /\ index = [p \in Processes |-> NoIndex]
    /\ call = [p \in Processes |-> NoCall]
    /\ used = [deliveries |-> 0, lapses |-> 0, crashes |-> 0, faults |-> 0]
    /\ starts = 0
    /\ executions = 0
    /\ authorized = 0
    /\ reviewed = [seen |-> FALSE, token |-> 0, starts |-> 0]

At(p, pc)   == call[p].pc = pc
Goto(p, pc) == call' = [call EXCEPT ![p].pc = pc]

Fault == /\ used.faults < MaxFaults
         /\ used' = [used EXCEPT !.faults = @ + 1]

\* The test of every fenced script: the lease key still holds p's value.
Fenced(p) == active[p] # 0 /\ lease = [holder |-> p, token |-> active[p]]

Dropped(p)       == [active EXCEPT ![p] = 0]
Receipt(p, s, v) == [state |-> s, token |-> active[p], result |-> v]

\* The index after _refresh_from_journal.
Refreshed(p) ==
    [index[p] EXCEPT !.intent = @ \/ journal.intent,
                     !.known = IF index[p].unread THEN journal.result ELSE @,
                     !.unread = FALSE]

-----------------------------------------------------------------------------
(***************************************************************************)
(* begin(): refresh, repair from the journal, claim, poll while busy.      *)
(***************************************************************************)

\* A delivery whose process left the key in _live waits for its time-out and
\* does nothing else, so only the others are admitted.
Deliver(p) ==
    LET i == Refreshed(p) IN
    /\ At(p, "idle")
    /\ ~index[p].live
    /\ used.deliveries < MaxDeliveries
    /\ used' = [used EXCEPT !.deliveries = @ + 1]
    /\ index' = [index EXCEPT ![p] = i]
    /\ call' = [call EXCEPT ![p] = [NoCall EXCEPT !.intent = i.intent,
                    !.pc = IF i.known # 0 THEN "repair" ELSE "lookup"]]
    /\ UNCHANGED <<redis, journal, active, history>>

\* record_committed: put the journal's result back unless there is a lease.
\* (The token it stores is one it read before; nobody uses a committed one.)
Repair(p) ==
    /\ At(p, "repair")
    /\ receipt' = IF lease # NoLease THEN receipt
                  ELSE [receipt EXCEPT !.state = "committed", !.result = index[p].known]
    /\ Goto(p, "lookup")
    /\ UNCHANGED <<lease, tokens, journal, active, index, used, history>>

\* acquire_lease: GET.  A lease of its own is extended.
Lookup(p) ==
    /\ At(p, "lookup")
    /\ call' = [call EXCEPT ![p].pc = IF lease.holder = p THEN "extend" ELSE "grab",
                            ![p].token = lease.token]
    /\ UNCHANGED <<redis, journal, active, index, used, history>>

\* acquire_lease: PEXPIRE succeeds on whatever lease the key holds by now.
Extend(p) ==
    /\ At(p, "extend")
    /\ IF lease # NoLease
         THEN /\ active' = [active EXCEPT ![p] = call[p].token]
              /\ Goto(p, "read")
         ELSE /\ Goto(p, "grab")
              /\ UNCHANGED active
    /\ UNCHANGED <<redis, journal, index, used, history>>

\* acquire_lease: INCR and SET NX.  A number drawn for a SET that fails is
\* never seen again, so only the others are counted.
Grab(p) ==
    /\ At(p, "grab")
    /\ IF lease = NoLease
         THEN /\ tokens' = tokens + 1
              /\ lease' = [holder |-> p, token |-> tokens + 1]
              /\ active' = [active EXCEPT ![p] = tokens + 1]
              /\ Goto(p, "read")
         ELSE /\ Goto(p, "refused")
              /\ UNCHANGED <<lease, tokens, active>>
    /\ UNCHANGED <<receipt, journal, index, used, history>>

\* claim() without the lease: a terminal receipt answers, else it is busy, and
\* begin() polls until its deadline.
Refused(p) ==
    /\ At(p, "refused")
    /\ \/ /\ receipt.state = "committed"
          /\ call' = [call EXCEPT ![p].pc = "journaling", ![p].attempt = receipt.result]
          /\ index' = [index EXCEPT ![p].known = receipt.result]
       \/ /\ receipt.state = "indeterminate"
          /\ Goto(p, "idle")
          /\ UNCHANGED index
       \/ /\ receipt.state \notin Terminal
          /\ \E pc \in {"polling", "idle"} : Goto(p, pc)
          /\ UNCHANGED index
    /\ UNCHANGED <<redis, journal, active, used, history>>

\* claim() with the lease reads the receipt.
Read(p) ==
    /\ At(p, "read")
    /\ call' = [call EXCEPT ![p].pc = IF receipt.state \in Terminal THEN "letgo" ELSE "publish",
                            ![p].seen = receipt.state,
                            ![p].attempt = receipt.result]
    /\ UNCHANGED <<redis, journal, active, index, used, history>>

\* A terminal receipt: release the lease, then answer.
LetGo(p) ==
    /\ At(p, "letgo")
    /\ lease' = IF Fenced(p) THEN NoLease ELSE lease
    /\ active' = Dropped(p)
    /\ IF call[p].seen = "committed"
         THEN /\ index' = [index EXCEPT ![p].known = call[p].attempt]
              /\ Goto(p, "journaling")
         ELSE /\ Goto(p, "idle")
              /\ UNCHANGED index
    /\ UNCHANGED <<receipt, tokens, journal, used, history>>

\* Seeded fault: only the intent the delivery knows of counts.
UnsafeByIntentOnly(p) ==
    /\ SideEffecting
    /\ call[p].seen # "retry_authorized"
    /\ call[p].intent

\* The handler may have been entered under the receipt that was read.
Unsafe(p) ==
    /\ SideEffecting
    /\ call[p].seen # "retry_authorized"
    /\ call[p].seen = "started" \/ call[p].intent

\* The lease and the receipt after the fenced set-and-release of state s.
SetRelease(p, s, v) ==
    IF Fenced(p)
      THEN lease' = NoLease /\ receipt' = Receipt(p, s, v)
      ELSE UNCHANGED <<lease, receipt>>

\* claim(): the receipt becomes indeterminate, whether or not the script
\* still found the lease.
PublishDoubt(p) ==
    /\ At(p, "publish")
    /\ Unsafe(p)
    /\ SetRelease(p, "indeterminate", 0)
    /\ active' = Dropped(p)
    /\ Goto(p, "idle")
    /\ UNCHANGED <<tokens, journal, index, used, history>>

\* Seeded fault: the claim is published without comparing the lease.
PublishUnfenced(p) ==
    /\ At(p, "publish")
    /\ ~Unsafe(p)
    /\ receipt' = Receipt(p, "claimed", 0)
    /\ call' = [call EXCEPT ![p].pc = "granted", ![p].token = active[p], ![p].attempt = 0]
    /\ index' = [index EXCEPT ![p].live = TRUE]
    /\ UNCHANGED <<lease, tokens, journal, active, used, history>>

\* claim(): the receipt becomes claimed and the delivery may execute.
Publish(p) ==
    /\ At(p, "publish")
    /\ ~Unsafe(p)
    /\ Fenced(p)
    /\ receipt' = Receipt(p, "claimed", 0)
    /\ call' = [call EXCEPT ![p].pc = "granted", ![p].token = active[p], ![p].attempt = 0]
    /\ index' = [index EXCEPT ![p].live = TRUE]
    /\ UNCHANGED <<lease, tokens, journal, active, used, history>>

\* claim(): the lease lapsed since it was acquired.
PublishLost(p) ==
    /\ At(p, "publish")
    /\ ~Unsafe(p)
    /\ ~Fenced(p)
    /\ active' = Dropped(p)
    /\ \E pc \in {"polling", "idle"} : Goto(p, pc)
    /\ UNCHANGED <<redis, journal, index, used, history>>

\* The poll interval passed.
Poll(p) ==
    LET i == Refreshed(p) IN
    /\ At(p, "polling")
    /\ index' = [index EXCEPT ![p] = i]
    /\ call' = [call EXCEPT ![p].pc = IF i.known # 0 THEN "repair" ELSE "lookup",
                            ![p].intent = IF i.known # 0 THEN @ ELSE i.intent]
    /\ UNCHANGED <<redis, journal, active, used, history>>

\* A command of begin() raised.  Redis may have carried it out: the lease or the
\* claim may stand although the process was never told.
BeginFails(p) ==
    /\ call[p].pc \in Claiming \union {"repair"}
    /\ Fault
    /\ Goto(p, "idle")
    /\ \/ UNCHANGED redis
       \/ /\ At(p, "grab")
          /\ lease = NoLease
          /\ tokens' = tokens + 1
          /\ lease' = [holder |-> p, token |-> tokens + 1]
          /\ UNCHANGED receipt
       \/ /\ At(p, "letgo")
          /\ Fenced(p)
          /\ lease' = NoLease
          /\ UNCHANGED <<receipt, tokens>>
       \/ /\ At(p, "publish")
          /\ IF Unsafe(p)
               THEN SetRelease(p, "indeterminate", 0)
               ELSE Fenced(p) /\ receipt' = Receipt(p, "claimed", 0) /\ UNCHANGED lease
          /\ UNCHANGED tokens
    /\ UNCHANGED <<journal, active, index, history>>

-----------------------------------------------------------------------------
(***************************************************************************)
(* From the grant to the handler.                                          *)
(***************************************************************************)

\* The file-write lease is refused or the intent cannot be appended.
PreflightFails(p) ==
    /\ At(p, "granted")
    /\ Goto(p, "finishing")
    /\ UNCHANGED <<redis, journal, active, index, used, history>>

WriteIntent(p) ==
    /\ At(p, "granted")
    /\ Goto(p, "intended")
    /\ journal' = [journal EXCEPT !.intent = @ \/ SideEffecting]
    /\ UNCHANGED <<redis, active, index, used, history>>

Intended(p) == [Refreshed(p) EXCEPT !.intent = @ \/ SideEffecting]

\* mark_intent: the receipt becomes started and the heartbeat begins.
MarkIntent(p) ==
    /\ At(p, "intended")
    /\ Fenced(p)
    /\ receipt' = Receipt(p, "started", 0)
    /\ starts' = starts + 1
    /\ call' = [call EXCEPT ![p].pc = "started", ![p].attempt = starts + 1]
    /\ index' = [index EXCEPT ![p] = [Intended(p) EXCEPT !.beat = TRUE]]
    /\ UNCHANGED <<lease, tokens, journal, active, used, executions, authorized, reviewed>>

\* mark_intent: the claim was lost.
MarkIntentLost(p) ==
    /\ At(p, "intended")
    /\ ~Fenced(p)
    /\ index' = [index EXCEPT ![p] = [Intended(p) EXCEPT !.live = FALSE]]
    /\ Goto(p, "finishing")
    /\ UNCHANGED <<redis, journal, active, used, history>>

\* mark_started raised; Redis may have marked the receipt, which counts as a
\* start although the handler is not entered.
MarkIntentFails(p) ==
    /\ At(p, "intended")
    /\ Fault
    /\ index' = [index EXCEPT ![p] = Intended(p)]
    /\ Goto(p, "finishing")
    /\ \/ UNCHANGED <<receipt, starts>>
       \/ Fenced(p) /\ receipt' = Receipt(p, "started", 0) /\ starts' = starts + 1
    /\ UNCHANGED <<lease, tokens, journal, active, executions, authorized, reviewed>>

EnterHandler(p) ==
    /\ At(p, "started")
    /\ Goto(p, "running")
    /\ executions' = executions + 1
    /\ UNCHANGED <<redis, journal, active, index, used, starts, authorized, reviewed>>

HandlerReturns(p) ==
    /\ At(p, "running")
    /\ \E ok \in BOOLEAN :
         call' = [call EXCEPT ![p].pc = "finishing", ![p].ok = ok]
    /\ UNCHANGED <<redis, journal, active, index, used, history>>

-----------------------------------------------------------------------------
(***************************************************************************)
(* finish(), then the journal Step.                                        *)
(***************************************************************************)

\* An exception between the handler and finish(): _live and the heartbeat stay.
EscapeBeforeFinish(p) ==
    /\ At(p, "finishing")
    /\ Fault
    /\ Goto(p, "idle")
    /\ UNCHANGED <<redis, journal, active, index, history>>

Finished(p) == [index[p] EXCEPT !.live = FALSE, !.beat = FALSE]

\* commit() of a success.
Commit(p) ==
    /\ At(p, "finishing")
    /\ call[p].ok
    /\ Fenced(p)
    /\ SetRelease(p, "committed", call[p].attempt)
    /\ active' = Dropped(p)
    /\ index' = [index EXCEPT ![p] = [Finished(p) EXCEPT !.known = call[p].attempt]]
    /\ Goto(p, "journaling")
    /\ UNCHANGED <<tokens, journal, used, history>>

\* Seeded fault: the lost claim is not raised, and the Step is journaled.
CommitLostUnnoticed(p) ==
    /\ At(p, "finishing")
    /\ call[p].ok
    /\ ~Fenced(p)
    /\ active' = Dropped(p)
    /\ index' = [index EXCEPT ![p] = Finished(p)]
    /\ Goto(p, "journaling")
    /\ UNCHANGED <<redis, journal, used, history>>

\* commit() found the lease lost: EffectLeaseLost, nothing is journaled.
CommitLost(p) ==
    /\ At(p, "finishing")
    /\ call[p].ok
    /\ ~Fenced(p)
    /\ active' = Dropped(p)
    /\ index' = [index EXCEPT ![p] = Finished(p)]
    /\ Goto(p, "idle")
    /\ UNCHANGED <<redis, journal, used, history>>

\* Seeded fault: every failure deletes the receipt.
FinishFailedForgets(p) ==
    /\ At(p, "finishing")
    /\ ~call[p].ok
    /\ IF Fenced(p) THEN lease' = NoLease /\ receipt' = Absent
                    ELSE UNCHANGED <<lease, receipt>>
    /\ active' = Dropped(p)
    /\ index' = [index EXCEPT ![p] = Finished(p)]
    /\ Goto(p, "idle")
    /\ UNCHANGED <<tokens, journal, used, history>>

\* The receipt and the lease after finish_failed: without a known
\* side-effecting intent the receipt is deleted, with one it becomes
\* indeterminate.
Discredit(p) ==
    IF Fenced(p) /\ ~index[p].intent
      THEN lease' = NoLease /\ receipt' = Absent
      ELSE SetRelease(p, "indeterminate", 0)

FinishFailed(p) ==
    /\ At(p, "finishing")
    /\ ~call[p].ok
    /\ Discredit(p)
    /\ active' = Dropped(p)
    /\ index' = [index EXCEPT ![p] = Finished(p)]
    /\ Goto(p, "idle")
    /\ UNCHANGED <<tokens, journal, used, history>>

\* Seeded fault: finish() gives the key up although the store raised.
FinishFailsGivesUp(p) ==
    /\ At(p, "finishing")
    /\ Fault
    /\ index' = [index EXCEPT ![p] = Finished(p)]
    /\ Goto(p, "idle")
    /\ UNCHANGED <<redis, journal, active, history>>

\* The store raised inside finish(): _live stays.  Redis may have done its
\* part, but no Step is journaled.
FinishFails(p) ==
    /\ At(p, "finishing")
    /\ Fault
    /\ \/ UNCHANGED <<lease, receipt>>
       \/ IF call[p].ok THEN SetRelease(p, "committed", call[p].attempt)
                        ELSE Discredit(p)
    /\ index' = [index EXCEPT ![p].beat = FALSE]
    /\ Goto(p, "idle")
    /\ UNCHANGED <<tokens, journal, active, history>>

WriteStep(p) ==
    /\ At(p, "journaling")
    /\ journal' = [journal EXCEPT !.result = call[p].attempt]
    /\ index' = [q \in Processes |-> [index[q] EXCEPT !.unread = TRUE]]
    /\ Goto(p, "idle")
    /\ UNCHANGED <<redis, active, used, history>>

StepAppendFails(p) ==
    /\ At(p, "journaling")
    /\ Fault
    /\ Goto(p, "idle")
    /\ UNCHANGED <<redis, journal, active, index, history>>

-----------------------------------------------------------------------------
(***************************************************************************)
(* Time, heartbeats, crashes, operators.                                   *)
(***************************************************************************)

\* The TTL runs out.  A renewal resets it, which needs no step: a lease may
\* lapse at any moment, since its holder may be paused for any time.
LeaseLapses ==
    /\ lease # NoLease
    /\ used.lapses < MaxLapses
    /\ used' = [used EXCEPT !.lapses = @ + 1]
    /\ lease' = NoLease
    /\ UNCHANGED <<receipt, tokens, journal, active, index, call, history>>

\* A heartbeat finds the lease lost, drops it and ends.
RenewLost(p) ==
    /\ index[p].beat
    /\ ~Fenced(p)
    /\ active' = Dropped(p)
    /\ index' = [index EXCEPT ![p].beat = FALSE]
    /\ UNCHANGED <<redis, journal, call, used, history>>

\* A process dies; its lease stays until it lapses.
Crash(p) ==
    /\ ~At(p, "dead")
    /\ used.crashes < MaxCrashes
    /\ used' = [used EXCEPT !.crashes = @ + 1]
    /\ call' = [call EXCEPT ![p] = [NoCall EXCEPT !.pc = "dead"]]
    /\ index' = [index EXCEPT ![p] = NoIndex]
    /\ active' = Dropped(p)
    /\ UNCHANGED <<redis, journal, history>>

\* An operator lists the receipts and looks at an indeterminate one.
Review ==
    /\ receipt.state = "indeterminate"
    /\ reviewed' = [seen |-> TRUE, token |-> receipt.token, starts |-> starts]
    /\ UNCHANGED <<redis, journal, active, index, call, used, starts, executions, authorized>>

\* Seeded fault: the token the operator saw is not compared.
AuthorizeRetryUnseen ==
    /\ authorized < MaxRetries
    /\ reviewed.seen
    /\ lease = NoLease
    /\ receipt.state = "indeterminate"
    /\ receipt' = [receipt EXCEPT !.state = "retry_authorized"]
    /\ authorized' = authorized + 1
    /\ UNCHANGED <<lease, tokens, journal, active, index, call, used, starts, executions, reviewed>>

\* authorize_retry: one script, refused while there is a lease.
AuthorizeRetry ==
    /\ authorized < MaxRetries
    /\ reviewed.seen
    /\ lease = NoLease
    /\ receipt.state = "indeterminate"
    /\ receipt.token = reviewed.token
    /\ receipt' = [receipt EXCEPT !.state = "retry_authorized"]
    /\ authorized' = authorized + 1
    /\ UNCHANGED <<lease, tokens, journal, active, index, call, used, starts, executions, reviewed>>

-----------------------------------------------------------------------------
Begin(p) ==
    \/ Deliver(p) \/ Repair(p) \/ Lookup(p) \/ Extend(p) \/ Grab(p) \/ Refused(p)
    \/ Read(p) \/ LetGo(p) \/ PublishDoubt(p) \/ Publish(p) \/ PublishLost(p) \/ Poll(p)
    \/ BeginFails(p)

Execute(p) ==
    \/ PreflightFails(p) \/ WriteIntent(p) \/ MarkIntent(p) \/ MarkIntentLost(p)
    \/ MarkIntentFails(p) \/ EnterHandler(p) \/ HandlerReturns(p)

Finish(p) ==
    \/ EscapeBeforeFinish(p) \/ Commit(p) \/ CommitLost(p) \/ FinishFailed(p)
    \/ FinishFails(p) \/ WriteStep(p) \/ StepAppendFails(p)

Next ==
    \/ \E p \in Processes :
         Begin(p) \/ Execute(p) \/ Finish(p) \/ RenewLost(p) \/ Crash(p)
    \/ LeaseLapses \/ Review \/ AuthorizeRetry

Spec == Init /\ [][Next]_vars

-----------------------------------------------------------------------------
(***************************************************************************)
(* What must hold.                                                         *)
(***************************************************************************)

\* The handler of a side effect is entered at most once, plus once for every
\* retry an operator authorised, although claim() is several commands and the
\* lease may lapse, and be taken by another host, between any two.
AtMostOnce == SideEffecting => executions <= 1 + authorized

\* A published result is what everybody has: the journal and every index agree
\* with the receipt, which stays committed with that result.
ResultsAgree ==
    /\ journal.result # 0 =>
         receipt.state = "committed" /\ receipt.result = journal.result
    /\ \A p \in Processes : index[p].known # 0 =>
         receipt.state = "committed" /\ receipt.result = index[p].known

\* A started receipt becomes indeterminate only when its own delivery finishes
\* without a result, or under a newer token, when the lease had lapsed: a claim
\* never discredits the delivery that is still working under its own lease.
DoubtIsEarned ==
    [][receipt.state = "started" /\ receipt'.state = "indeterminate" =>
         \/ receipt'.token > receipt.token
         \/ \E p \in Processes : At(p, "finishing") /\ active[p] = receipt.token]_receipt

\* An authorisation covers what its operator saw: nothing was started between
\* the review and the authorisation.  Tokens are never drawn twice, so the
\* exception ToolEffects has to make for deleted receipts is not needed.
ReviewCoversStarts ==
    [][authorized' > authorized => reviewed.starts = starts]_authorized

(***************************************************************************)
(* The same contract as the SQLite receipts.                               *)
(***************************************************************************)
PhaseOf == [absent |-> "free", claimed |-> "free", retry_authorized |-> "free",
            started |-> "attempted", committed |-> "done",
            indeterminate |-> "uncertain"]

Contract == INSTANCE EffectContract
    WITH phase <- PhaseOf[receipt.state],
         attempts <- starts,
         approvals <- authorized,
         value <- IF receipt.state = "committed" THEN receipt.result ELSE 0,
         ResultsDecay <- FALSE

ContractSpec == Contract!Spec

(***************************************************************************)
(* The inductive invariant.  While a process is fenced nobody else writes  *)
(* the receipt, so what its delivery knows of it is still true.            *)
(***************************************************************************)
FenceInv ==
    \A p \in Processes : Fenced(p) =>
        /\ At(p, "publish") =>
             call[p].seen = receipt.state /\ receipt.state \notin Terminal
        /\ call[p].pc \in {"granted", "intended"} => receipt.state = "claimed"
        /\ At(p, "finishing") => receipt.state \in {"claimed", "started"}
        /\ At(p, "finishing") /\ ~index[p].intent /\ SideEffecting =>
             receipt.state = "claimed"
        /\ call[p].pc \in {"started", "running"} \/ (At(p, "finishing") /\ call[p].ok) =>
             receipt.state = "started" /\ call[p].attempt = starts

\* A started delivery's index knows its intent, and only a handler that was
\* entered has a result.
CallInv ==
    \A p \in Processes :
        /\ call[p].pc \in {"started", "running"} /\ SideEffecting => index[p].intent
        /\ call[p].pc \notin {"idle", "finishing", "journaling", "dead"} => ~call[p].ok

\* A start has been paid for wherever another one is possible.
CreditInv ==
    SideEffecting =>
        /\ starts <= 1 + authorized
        /\ receipt.state \in {"absent", "claimed", "retry_authorized"} => starts <= authorized

\* Each start lets the handler be entered once, and not after a failure.
Pending == {p \in Processes : At(p, "started")}
CountInv == executions + Cardinality(Pending) <= starts

\* Whoever is about to put a result somewhere has the committed one.
ResultInv ==
    /\ ResultsAgree
    /\ \A p \in Processes :
         /\ At(p, "repair") => index[p].known # 0
         /\ At(p, "journaling") \/ (At(p, "letgo") /\ call[p].seen = "committed") =>
              receipt.state = "committed" /\ receipt.result = call[p].attempt

IInv == TypeOK /\ FenceInv /\ CallInv /\ CreditInv /\ CountInv /\ ResultInv
=============================================================================
