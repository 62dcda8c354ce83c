------------------------- MODULE ToolEffects_refinement -------------------------
(***************************************************************************)
(* Proofs about ToolEffects, continued, with one delivery thread per       *)
(* process: while results can be read everybody has the same one and a     *)
(* committed receipt is settled, and the SQLite receipts implement the     *)
(* contract of the EffectStore protocol.  Whatever the threads: leases     *)
(* protect their holders, an authorisation covers what its operator saw,   *)
(* and a read-only effect never waits for an operator.                     *)
(***************************************************************************)
EXTENDS ToolEffects_proofs

-----------------------------------------------------------------------------
(* Read-only effects. *)

\* No intent is ever known, so nothing makes the receipt indeterminate.
NoIntent ==
    /\ TypeOK
    /\ ~journal.intent
    /\ \A p \in Processes : ~mem[p].intent
    /\ row.state # "indeterminate"

LEMMA NoIntentDelivery ==
    ASSUME SideEffecting = FALSE, ResultsDecay = FALSE, NoIntent,
           NEW d \in Deliverers, Deliver(d) \/ Progress(d) \/ Trouble(d)
    PROVE  NoIntent'
<1> USE DEF history, store, Goto, At, Row, Memory
<1>t. /\ mem \in [Processes -> Memory] /\ row \in Row /\ Home[d] \in Processes
      /\ journal \in [intent: BOOLEAN, result: Nat]
  BY HomeType DEF NoIntent, TypeOK
<1>i. /\ ~journal.intent /\ \A p \in Processes : ~mem[p].intent
      /\ row.state # "indeterminate"
  BY DEF NoIntent
<1>k. TypeOK'
  BY NextType DEF NoIntent, Next
<1> DEFINE Kept == /\ ~journal'.intent /\ \A p \in Processes : ~mem'[p].intent
                   /\ row'.state # "indeterminate"
<1>0. SUFFICES Kept
  BY <1>k DEF NoIntent
<1>1. CASE Deliver(d)
  BY <1>1, <1>t, <1>i DEF Deliver, NoCall
<1>2. CASE Wait(d)
  BY <1>2, <1>t, <1>i DEF Wait, Refreshed
<1>3. CASE WaitTimesOut(d)
  BY <1>3, <1>t, <1>i DEF WaitTimesOut
<1>4. CASE Enter(d)
  BY <1>4, <1>t, <1>i DEF Enter, Refreshed
<1>5. CASE Repair(d)
  BY <1>5, <1>t, <1>i DEF Repair, Committed
<1>6. CASE Poll(d)
  BY <1>6, <1>t, <1>i DEF Poll, Refreshed
<1>7. CASE BeginFails(d)
  BY <1>7, <1>t, <1>i DEF BeginFails
<1>8. CASE ClaimVacant(d)
  BY <1>8, <1>t, <1>i DEF ClaimVacant, Refuse, Grant, Uncertain, NoRow, Claimed
<1>9. CASE ClaimCommitted(d)
  BY <1>9, <1>t, <1>i DEF ClaimCommitted
<1>10. CASE ClaimUnreadable(d)
  BY <1>10, <1>t, <1>i DEF ClaimUnreadable, Refuse, Uncertain
<1>11. CASE ClaimIndeterminate(d)
  BY <1>11, <1>t, <1>i DEF ClaimIndeterminate, Refuse
<1>12. CASE ClaimBusy(d)
  BY <1>12, <1>t, <1>i DEF ClaimBusy
<1>13. CASE ClaimOwn(d)
  BY <1>13, <1>t, <1>i DEF ClaimOwn, Grant
<1>14. CASE ClaimLapsed(d)
  BY <1>14, <1>t, <1>i DEF ClaimLapsed, Unsafe, Refuse, Grant, Uncertain, Claimed
<1>15. CASE PreflightFails(d)
  BY <1>15, <1>t, <1>i DEF PreflightFails
<1>16. CASE WriteIntent(d)
  BY <1>16, <1>t, <1>i DEF WriteIntent
<1>17. CASE MarkIntent(d)
  BY <1>17, <1>t, <1>i DEF MarkIntent, Owns, Intended, Refreshed
<1>18. CASE MarkIntentLost(d)
  BY <1>18, <1>t, <1>i DEF MarkIntentLost, Owns, Intended, Refreshed
<1>19. CASE MarkIntentFails(d)
  BY <1>19, <1>t, <1>i DEF MarkIntentFails, Intended, Refreshed
<1>20. CASE EnterHandler(d)
  BY <1>20, <1>t, <1>i DEF EnterHandler
<1>21. CASE HandlerReturns(d)
  BY <1>21, <1>t, <1>i DEF HandlerReturns
<1>22. CASE EscapeBeforeFinish(d)
  BY <1>22, <1>t, <1>i DEF EscapeBeforeFinish
<1>23. CASE Commit(d)
  BY <1>23, <1>t, <1>i DEF Commit, Owns, Committed, Finished, HeartbeatStopped
<1>24. CASE CommitLost(d)
  BY <1>24, <1>t, <1>i DEF CommitLost, Owns, Finished, HeartbeatStopped
<1>25. CASE FinishFailed(d)
  BY <1>25, <1>t, <1>i DEF FinishFailed, Uncertain, NoRow, Finished, HeartbeatStopped
<1>26. CASE FinishFails(d)
  BY <1>26, <1>t, <1>i DEF FinishFails, HeartbeatStopped
<1>27. CASE WriteStep(d)
  BY <1>27, <1>t, <1>i DEF WriteStep
<1>28. CASE StepAppendFails(d)
  BY <1>28, <1>t, <1>i DEF StepAppendFails
<1>29. QED
  BY <1>1, <1>2, <1>3, <1>4, <1>5, <1>6, <1>7, <1>8, <1>9, <1>10, <1>11, <1>12, <1>13, <1>14,
     <1>15, <1>16, <1>17, <1>18, <1>19, <1>20, <1>21, <1>22, <1>23, <1>24, <1>25, <1>26, <1>27,
     <1>28 DEF Progress, Claim, Trouble

LEMMA NoIntentEnvironment ==
    ASSUME NoIntent,
           \/ \E p \in Processes : Crash(p) \/ \E beat \in mem[p].beats : Renew(p, beat)
           \/ LeaseExpires \/ Review \/ AuthorizeRetry
    PROVE  NoIntent'
<1>t. /\ mem \in [Processes -> Memory] /\ row \in Row
      /\ journal \in [intent: BOOLEAN, result: Nat]
  BY DEF NoIntent, TypeOK
<1>k. TypeOK'
  BY EnvironmentType DEF NoIntent
<1>1. /\ journal' = journal
      /\ \A p \in Processes : ~mem'[p].intent
      /\ row'.state # "indeterminate"
  BY <1>t DEF NoIntent, Crash, Renew, LeaseExpires, Review, AuthorizeRetry, NoMemory, store,
              Row, Memory
<1>2. QED
  BY <1>k, <1>1 DEF NoIntent

LEMMA NoIntentInit == Init => NoIntent
BY InitType DEF Init, NoIntent, NoRow, NoMemory

LEMMA NoIntentStep ==
    ASSUME SideEffecting = FALSE, ResultsDecay = FALSE, NoIntent, [Next]_vars
    PROVE  NoIntent'
<1>1. CASE UNCHANGED vars
  BY <1>1, NextType DEF NoIntent, vars, store
<1>2. CASE Next
  BY <1>2, NoIntentDelivery, NoIntentEnvironment DEF Next
<1>3. QED
  BY <1>1, <1>2

\* A read-only effect never needs an operator, for any processes, threads,
\* crashes and faults, while its results can be read (effect_store.py, claim
\* and finish_failed).
THEOREM ReadOnly == Spec => []ReadOnlyNeverStuck
<1>1. CASE SideEffecting = FALSE /\ ResultsDecay = FALSE
  <2>1. NoIntent /\ [Next]_vars => NoIntent'
    BY <1>1, NoIntentStep
  <2>2. NoIntent => ReadOnlyNeverStuck
    BY DEF NoIntent, ReadOnlyNeverStuck
  <2>3. QED
    BY <2>1, <2>2, NoIntentInit, PTL DEF Spec
<1>2. CASE ~(SideEffecting = FALSE /\ ResultsDecay = FALSE)
  <2>1. ReadOnlyNeverStuck
    BY <1>2, ConstantsAssumption DEF ReadOnlyNeverStuck, ConstantsAssumption
  <2>2. QED
    BY <2>1, PTL
<1>3. QED
  BY <1>1, <1>2

-----------------------------------------------------------------------------
(* One result. *)

\* What a delivery knows of the receipt while its claim matches.  ok is set by
\* a handler that was entered; a claim nobody holds matches nothing.
HoldInv ==
    /\ row.state \in {"absent", "retry_authorized"} => row.holder = Nobody
    /\ \A d \in Deliverers :
         /\ call[d].pc \notin {"idle", "finishing", "journaling", "dead"} => ~call[d].ok
         /\ At(d, "finishing") /\ call[d].ok => call[d].attempt # 0
         /\ Unstarted(d) /\ Matches(Home[d], call[d].token) => row.state # "started"
         /\ Started(d) /\ Matches(Home[d], call[d].token) =>
              /\ row.state # "claimed"
              /\ row.state = "started" => call[d].attempt = starts

\* Every result comes from a start.
RangeInv ==
    /\ journal.result <= starts /\ row.result <= starts
    /\ \A p \in Processes : mem[p].result <= starts
    /\ \A d \in Deliverers : /\ call[d].attempt <= starts
                             /\ At(d, "repair") => mem[Home[d]].result # 0

\* Whoever is about to put a result somewhere has the committed one, and nobody
\* still works under a committed claim.
ResultInv ==
    /\ journal.result # 0 => row.state = "committed" /\ row.result = journal.result
    /\ \A p \in Processes : mem[p].result # 0 =>
         row.state = "committed" /\ row.result = mem[p].result
    /\ \A d \in Deliverers :
         /\ At(d, "journaling") => row.state = "committed" /\ row.result = call[d].attempt
         /\ call[d].pc \in Working /\ Matches(Home[d], call[d].token) =>
              row.state # "committed"

\* Results agree as long as they can be read, and then a read-only effect is
\* never in doubt.
RInv ==
    /\ IInv /\ HoldInv /\ RangeInv
    /\ ResultsDecay = FALSE => ResultInv
    /\ ResultsDecay = FALSE /\ SideEffecting = FALSE => NoIntent

\* finish_failed writes only the receipt of its own claim.
LEMMA FailureRow ==
    ASSUME NEW d \in Deliverers, FinishFailed(d)
    PROVE  \/ row' = row
           \/ Matches(Home[d], call[d].token) /\ row' \in {Uncertain(row), NoRow}
BY DEF FinishFailed

LEMMA HoldDelivery ==
    ASSUME OneThreadEach, RInv, NEW d \in Deliverers, Deliver(d) \/ Progress(d) \/ Trouble(d)
    PROVE  HoldInv'
<1> USE DEF history, store, Goto, At, Matches, Held, Call, Row, HoldInv, Unstarted, Started
<1>h. \A e \in Deliverers : /\ Home[e] \in Processes /\ Home[e] # Nobody
                            /\ e # d => Home[e] # Home[d]
  BY OwnHomes
<1>t. /\ call \in [Deliverers -> Call] /\ mem \in [Processes -> Memory]
      /\ row \in Row /\ starts \in Nat
  BY DEF RInv, IInv, TypeOK
<1>i. HoldInv
  BY DEF RInv
<1>a. /\ call[d].pc \in {"started", "running"} => call[d].attempt # 0
      /\ call[d].pc \in {"repair", "claim", "begin", "polling", "granted", "intended"}
           => call[d].attempt = 0
  BY DEF RInv, IInv, IntentInv, Locked
<1>1. CASE Deliver(d)
  BY <1>1, <1>h, <1>t, <1>i, <1>a DEF Deliver, NoCall
<1>2. CASE Wait(d)
  BY <1>2, <1>h, <1>t, <1>i, <1>a DEF Wait, Refreshed
<1>3. CASE WaitTimesOut(d)
  BY <1>3, <1>h, <1>t, <1>i, <1>a, SMTT(30) DEF WaitTimesOut
<1>4. CASE Enter(d)
  BY <1>4, <1>h, <1>t, <1>i, <1>a DEF Enter, Refreshed
<1>5. CASE Repair(d)
  <2>1. /\ row'.holder = row.holder /\ row'.token = row.token
        /\ row'.state = "committed" \/ row'.state = row.state
    BY <1>5, <1>t DEF Repair, Committed
  <2>2. QED
    BY <1>5, <2>1, <1>h, <1>t, <1>i, <1>a DEF Repair
<1>6. CASE Poll(d)
  BY <1>6, <1>h, <1>t, <1>i, <1>a DEF Poll, Refreshed
<1>7. CASE BeginFails(d)
  BY <1>7, <1>h, <1>t, <1>i, <1>a DEF BeginFails
<1>8. CASE ClaimVacant(d)
  <2>1. CASE Refuse(d, Uncertain(NoRow))
    BY <1>8, <2>1, <1>h, <1>t, <1>i, <1>a DEF ClaimVacant, Refuse, Uncertain, NoRow
  <2>2. CASE Grant(d, Claimed(Home[d], 1))
    BY <1>8, <2>2, <1>h, <1>t, <1>i, <1>a DEF ClaimVacant, Grant, Claimed
  <2>3. QED
    BY <1>8, <2>1, <2>2 DEF ClaimVacant
<1>9. CASE ClaimCommitted(d)
  BY <1>9, <1>h, <1>t, <1>i, <1>a DEF ClaimCommitted
<1>10. CASE ClaimUnreadable(d)
  BY <1>10, <1>h, <1>t, <1>i, <1>a DEF ClaimUnreadable, Refuse, Uncertain
<1>11. CASE ClaimIndeterminate(d)
  BY <1>11, <1>h, <1>t, <1>i, <1>a DEF ClaimIndeterminate, Refuse
<1>12. CASE ClaimBusy(d)
  BY <1>12, <1>h, <1>t, <1>i, <1>a DEF ClaimBusy
<1>13. CASE ClaimOwn(d)
  BY <1>13, <1>h DEF ClaimOwn, RInv, IInv, OwnerInv, Locked
<1>14. CASE ClaimLapsed(d)
  <2>1. CASE Refuse(d, Uncertain(row))
    BY <1>14, <2>1, <1>h, <1>t, <1>i, <1>a DEF ClaimLapsed, Refuse, Uncertain
  <2>2. CASE Grant(d, Claimed(Home[d], row.token + 1))
    BY <1>14, <2>2, <1>h, <1>t, <1>i, <1>a DEF ClaimLapsed, Grant, Claimed
  <2>3. QED
    BY <1>14, <2>1, <2>2 DEF ClaimLapsed
<1>15. CASE PreflightFails(d)
  BY <1>15, <1>h, <1>t, <1>i, <1>a DEF PreflightFails
<1>16. CASE WriteIntent(d)
  BY <1>16, <1>h, <1>t, <1>i, <1>a DEF WriteIntent
<1>17. CASE MarkIntent(d)
  BY <1>17, <1>h, <1>t, <1>i, <1>a DEF MarkIntent, Owns, Intended, Refreshed
<1>18. CASE MarkIntentLost(d)
  BY <1>18, <1>h, <1>t, <1>i, <1>a DEF MarkIntentLost, Owns, Intended, Refreshed
<1>19. CASE MarkIntentFails(d)
  BY <1>19, <1>h, <1>t, <1>i, <1>a DEF MarkIntentFails, Intended, Refreshed
<1>20. CASE EnterHandler(d)
  BY <1>20, <1>h, <1>t, <1>i, <1>a DEF EnterHandler
<1>21. CASE HandlerReturns(d)
  BY <1>21, <1>h, <1>t, <1>i, <1>a DEF HandlerReturns
<1>22. CASE EscapeBeforeFinish(d)
  BY <1>22, <1>h, <1>t, <1>i, <1>a DEF EscapeBeforeFinish
<1>23. CASE Commit(d)
  BY <1>23, <1>h, <1>t, <1>i, <1>a DEF Commit, Owns, Committed, Finished, HeartbeatStopped
<1>24. CASE CommitLost(d)
  BY <1>24, <1>h, <1>t, <1>i, <1>a DEF CommitLost, Owns, Finished, HeartbeatStopped
<1>25. CASE FinishFailed(d)
  BY <1>25, <1>h, <1>t, <1>i, <1>a DEF FinishFailed, Uncertain, NoRow, Finished, HeartbeatStopped
<1>26. CASE FinishFails(d)
  BY <1>26, <1>h, <1>t, <1>i, <1>a DEF FinishFails, HeartbeatStopped
<1>27. CASE WriteStep(d)
  BY <1>27, <1>h, <1>t, <1>i, <1>a DEF WriteStep
<1>28. CASE StepAppendFails(d)
  BY <1>28, <1>h, <1>t, <1>i, <1>a DEF StepAppendFails
<1>29. QED
  BY <1>1, <1>2, <1>3, <1>4, <1>5, <1>6, <1>7, <1>8, <1>9, <1>10, <1>11, <1>12, <1>13, <1>14,
     <1>15, <1>16, <1>17, <1>18, <1>19, <1>20, <1>21, <1>22, <1>23, <1>24, <1>25, <1>26, <1>27,
     <1>28 DEF Progress, Claim, Trouble

LEMMA RangeDelivery ==
    ASSUME OneThreadEach, RInv, NEW d \in Deliverers, Deliver(d) \/ Progress(d) \/ Trouble(d)
    PROVE  RangeInv'
<1> USE DEF history, store, Goto, At, Held, Call, Row, Memory, RangeInv
<1>h. \A e \in Deliverers : /\ Home[e] \in Processes
                            /\ e # d => Home[e] # Home[d]
  BY OwnHomes
<1>t. /\ call \in [Deliverers -> Call] /\ mem \in [Processes -> Memory]
      /\ row \in Row /\ starts \in Nat /\ journal \in [intent: BOOLEAN, result: Nat]
  BY DEF RInv, IInv, TypeOK
<1>i. RangeInv
  BY DEF RInv
<1>1. CASE Deliver(d)
  BY <1>1, <1>h, <1>t, <1>i DEF Deliver, NoCall
<1>2. CASE Wait(d)
  BY <1>2, <1>h, <1>t, <1>i DEF Wait, Refreshed
<1>3. CASE WaitTimesOut(d)
  BY <1>3, <1>h, <1>t, <1>i DEF WaitTimesOut
<1>4. CASE Enter(d)
  BY <1>4, <1>h, <1>t, <1>i DEF Enter, Refreshed
<1>5. CASE Repair(d)
  BY <1>5, <1>h, <1>t, <1>i DEF Repair, Committed
<1>6. CASE Poll(d)
  BY <1>6, <1>h, <1>t, <1>i DEF Poll, Refreshed
<1>7. CASE BeginFails(d)
  BY <1>7, <1>h, <1>t, <1>i DEF BeginFails
<1>8. CASE ClaimVacant(d)
  <2>1. CASE Refuse(d, Uncertain(NoRow))
    BY <1>8, <2>1, <1>h, <1>t, <1>i DEF ClaimVacant, Refuse, Uncertain, NoRow
  <2>2. CASE Grant(d, Claimed(Home[d], 1))
    BY <1>8, <2>2, <1>h, <1>t, <1>i DEF ClaimVacant, Grant, Claimed
  <2>3. QED
    BY <1>8, <2>1, <2>2 DEF ClaimVacant
<1>9. CASE ClaimCommitted(d)
  BY <1>9, <1>h, <1>t, <1>i DEF ClaimCommitted
<1>10. CASE ClaimUnreadable(d)
  BY <1>10, <1>h, <1>t, <1>i DEF ClaimUnreadable, Refuse, Uncertain
<1>11. CASE ClaimIndeterminate(d)
  BY <1>11, <1>h, <1>t, <1>i DEF ClaimIndeterminate, Refuse
<1>12. CASE ClaimBusy(d)
  BY <1>12, <1>h, <1>t, <1>i DEF ClaimBusy
<1>13. CASE ClaimOwn(d)
  BY <1>13, <1>h DEF ClaimOwn, RInv, IInv, OwnerInv, Locked
<1>14. CASE ClaimLapsed(d)
  <2>1. CASE Refuse(d, Uncertain(row))
    BY <1>14, <2>1, <1>h, <1>t, <1>i DEF ClaimLapsed, Refuse, Uncertain
  <2>2. CASE Grant(d, Claimed(Home[d], row.token + 1))
    BY <1>14, <2>2, <1>h, <1>t, <1>i DEF ClaimLapsed, Grant, Claimed
  <2>3. QED
    BY <1>14, <2>1, <2>2 DEF ClaimLapsed
<1>15. CASE PreflightFails(d)
  BY <1>15, <1>h, <1>t, <1>i DEF PreflightFails
<1>16. CASE WriteIntent(d)
  BY <1>16, <1>h, <1>t, <1>i DEF WriteIntent
<1>17. CASE MarkIntent(d)
  BY <1>17, <1>h, <1>t, <1>i DEF MarkIntent, Owns, Intended, Refreshed
<1>18. CASE MarkIntentLost(d)
  BY <1>18, <1>h, <1>t, <1>i DEF MarkIntentLost, Owns, Intended, Refreshed
<1>19. CASE MarkIntentFails(d)
  BY <1>19, <1>h, <1>t, <1>i DEF MarkIntentFails, Intended, Refreshed
<1>20. CASE EnterHandler(d)
  BY <1>20, <1>h, <1>t, <1>i DEF EnterHandler
<1>21. CASE HandlerReturns(d)
  BY <1>21, <1>h, <1>t, <1>i DEF HandlerReturns
<1>22. CASE EscapeBeforeFinish(d)
  BY <1>22, <1>h, <1>t, <1>i DEF EscapeBeforeFinish
<1>23. CASE Commit(d)
  BY <1>23, <1>h, <1>t, <1>i DEF Commit, Owns, Committed, Finished, HeartbeatStopped
<1>24. CASE CommitLost(d)
  BY <1>24, <1>h, <1>t, <1>i DEF CommitLost, Owns, Finished, HeartbeatStopped
<1>25. CASE FinishFailed(d)
  BY <1>25, <1>h, <1>t, <1>i DEF FinishFailed, Uncertain, NoRow, Finished, HeartbeatStopped
<1>26. CASE FinishFails(d)
  BY <1>26, <1>h, <1>t, <1>i DEF FinishFails, HeartbeatStopped
<1>27. CASE WriteStep(d)
  BY <1>27, <1>h, <1>t, <1>i DEF WriteStep
<1>28. CASE StepAppendFails(d)
  BY <1>28, <1>h, <1>t, <1>i DEF StepAppendFails
<1>29. QED
  BY <1>1, <1>2, <1>3, <1>4, <1>5, <1>6, <1>7, <1>8, <1>9, <1>10, <1>11, <1>12, <1>13, <1>14,
     <1>15, <1>16, <1>17, <1>18, <1>19, <1>20, <1>21, <1>22, <1>23, <1>24, <1>25, <1>26, <1>27,
     <1>28 DEF Progress, Claim, Trouble

LEMMA ResultDelivery ==
    ASSUME OneThreadEach, ResultsDecay = FALSE, RInv,
           NEW d \in Deliverers, Deliver(d) \/ Progress(d) \/ Trouble(d)
    PROVE  ResultInv'
<1> USE DEF history, store, Goto, At, Matches, Held, Call, Row, Memory, ResultInv, Working
<1>h. \A e \in Deliverers : /\ Home[e] \in Processes /\ Home[e] # Nobody
                            /\ e # d => Home[e] # Home[d]
  BY OwnHomes
<1>t. /\ call \in [Deliverers -> Call] /\ mem \in [Processes -> Memory]
      /\ row \in Row /\ journal \in [intent: BOOLEAN, result: Nat]
  BY DEF RInv, IInv, TypeOK
<1>i. ResultInv /\ (At(d, "repair") => mem[Home[d]].result # 0)
  BY DEF RInv, RangeInv
<1>1. CASE Deliver(d)
  BY <1>1, <1>h, <1>t, <1>i DEF Deliver, NoCall
<1>2. CASE Wait(d)
  BY <1>2, <1>h, <1>t, <1>i DEF Wait, Refreshed
<1>3. CASE WaitTimesOut(d)
  BY <1>3, <1>h, <1>t, <1>i DEF WaitTimesOut
<1>4. CASE Enter(d)
  BY <1>4, <1>h, <1>t, <1>i DEF Enter, Refreshed
<1>5. CASE Repair(d)
  BY <1>5, <1>h, <1>t, <1>i DEF Repair, Committed
<1>6. CASE Poll(d)
  BY <1>6, <1>h, <1>t, <1>i DEF Poll, Refreshed
<1>7. CASE BeginFails(d)
  BY <1>7, <1>h, <1>t, <1>i DEF BeginFails
<1>8. CASE ClaimVacant(d)
  <2>1. /\ journal.result = 0 /\ \A p \in Processes : mem[p].result = 0
        /\ \A e \in Deliverers : ~At(e, "journaling")
    BY <1>8, <1>i DEF ClaimVacant
  <2>2. row'.state # "committed" /\ journal' = journal
    <3>1. Refuse(d, Uncertain(NoRow)) \/ Grant(d, Claimed(Home[d], 1))
      BY <1>8 DEF ClaimVacant
    <3>2. Uncertain(NoRow).state = "indeterminate" /\ Claimed(Home[d], 1).state = "claimed"
      BY DEF Uncertain, NoRow, Claimed
    <3>3. QED
      BY <1>8, <3>1, <3>2 DEF ClaimVacant, Refuse, Grant
  <2>3. /\ \A p \in Processes : mem'[p].result = mem[p].result
        /\ \A e \in Deliverers : call'[e].pc \in {call[e].pc, "idle", "granted"}
    BY <1>8, <1>h, <1>t DEF ClaimVacant, Refuse, Grant
  <2>4. QED
    BY <2>1, <2>2, <2>3
<1>9. CASE ClaimCommitted(d)
  BY <1>9, <1>h, <1>t, <1>i DEF ClaimCommitted
<1>10. CASE ClaimUnreadable(d)
  BY <1>10 DEF ClaimUnreadable
<1>11. CASE ClaimIndeterminate(d)
  BY <1>11, <1>h, <1>t, <1>i DEF ClaimIndeterminate, Refuse
<1>12. CASE ClaimBusy(d)
  BY <1>12, <1>h, <1>t, <1>i DEF ClaimBusy
<1>13. CASE ClaimOwn(d)
  BY <1>13, <1>h, <1>t, <1>i DEF ClaimOwn, Grant
<1>14. CASE ClaimLapsed(d)
  <2>1. CASE Refuse(d, Uncertain(row))
    BY <1>14, <2>1, <1>h, <1>t, <1>i DEF ClaimLapsed, Refuse, Uncertain
  <2>2. CASE Grant(d, Claimed(Home[d], row.token + 1))
    BY <1>14, <2>2, <1>h, <1>t, <1>i DEF ClaimLapsed, Grant, Claimed
  <2>3. QED
    BY <1>14, <2>1, <2>2 DEF ClaimLapsed
<1>15. CASE PreflightFails(d)
  BY <1>15, <1>h, <1>t, <1>i DEF PreflightFails
<1>16. CASE WriteIntent(d)
  BY <1>16, <1>h, <1>t, <1>i DEF WriteIntent
<1>17. CASE MarkIntent(d)
  BY <1>17, <1>h, <1>t, <1>i DEF MarkIntent, Owns, Intended, Refreshed
<1>18. CASE MarkIntentLost(d)
  BY <1>18, <1>h, <1>t, <1>i DEF MarkIntentLost, Owns, Intended, Refreshed
<1>19. CASE MarkIntentFails(d)
  BY <1>19, <1>h, <1>t, <1>i DEF MarkIntentFails, Intended, Refreshed
<1>20. CASE EnterHandler(d)
  BY <1>20, <1>h, <1>t, <1>i DEF EnterHandler
<1>21. CASE HandlerReturns(d)
  BY <1>21, <1>h, <1>t, <1>i DEF HandlerReturns
<1>22. CASE EscapeBeforeFinish(d)
  BY <1>22, <1>h, <1>t, <1>i DEF EscapeBeforeFinish
<1>23. CASE Commit(d)
  BY <1>23, <1>h, <1>t, <1>i DEF Commit, Owns, Committed, Finished, HeartbeatStopped
<1>24. CASE CommitLost(d)
  BY <1>24, <1>h, <1>t, <1>i DEF CommitLost, Owns, Finished, HeartbeatStopped
<1>25. CASE FinishFailed(d)
  <2>1. row' = row \/ (row.state # "committed" /\ row'.state # "committed")
    <3>1. CASE Matches(Home[d], call[d].token) /\ row' \in {Uncertain(row), NoRow}
      <4>1. row.state # "committed"
        BY <1>25, <1>i, <3>1 DEF FinishFailed
      <4>2. Uncertain(row).state # "committed" /\ NoRow.state # "committed"
        BY <1>t DEF Uncertain, NoRow
      <4>3. QED
        BY <3>1, <4>1, <4>2
    <3>2. QED
      BY <1>25, <3>1, FailureRow
  <2>2. /\ \A p \in Processes : mem'[p].result = mem[p].result
        /\ call' = [call EXCEPT ![d].pc = "idle"] /\ journal' = journal
    BY <1>25, <1>t DEF FinishFailed, Finished, HeartbeatStopped
  <2>3. QED
    BY <2>1, <2>2, <1>h, <1>t, <1>i
<1>26. CASE FinishFails(d)
  BY <1>26, <1>h, <1>t, <1>i DEF FinishFails, HeartbeatStopped
<1>27. CASE WriteStep(d)
  BY <1>27, <1>h, <1>t, <1>i, SMTT(30) DEF WriteStep
<1>28. CASE StepAppendFails(d)
  BY <1>28, <1>h, <1>t, <1>i DEF StepAppendFails
<1>29. QED
  BY <1>1, <1>2, <1>3, <1>4, <1>5, <1>6, <1>7, <1>8, <1>9, <1>10, <1>11, <1>12, <1>13, <1>14,
     <1>15, <1>16, <1>17, <1>18, <1>19, <1>20, <1>21, <1>22, <1>23, <1>24, <1>25, <1>26, <1>27,
     <1>28 DEF Progress, Claim, Trouble

\* Crashes forget, time and heartbeats only touch the lease, an approval makes
\* the receipt match nobody.
LEMMA SurroundingsStep ==
    ASSUME RInv,
           \/ \E p \in Processes : Crash(p) \/ \E beat \in mem[p].beats : Renew(p, beat)
           \/ LeaseExpires \/ Review \/ AuthorizeRetry
    PROVE  HoldInv' /\ RangeInv' /\ (ResultInv => ResultInv')
<1> USE DEF history, store, At, Matches, Held, Call, Row, Memory, Working, Unstarted, Started
<1>h. \A e \in Deliverers : Home[e] \in Processes /\ Home[e] # Nobody
  BY HomeType, ConstantsAssumption DEF ConstantsAssumption
<1>t. /\ call \in [Deliverers -> Call] /\ mem \in [Processes -> Memory]
      /\ row \in Row /\ starts \in Nat /\ journal \in [intent: BOOLEAN, result: Nat]
  BY DEF RInv, IInv, TypeOK
<1>i. HoldInv /\ RangeInv
  BY DEF RInv
<1>1. ASSUME NEW p \in Processes, Crash(p)
      PROVE  HoldInv' /\ RangeInv' /\ (ResultInv => ResultInv')
  <2>1. /\ UNCHANGED <<row, journal, starts>>
        /\ \A q \in Processes : mem'[q].result = mem[q].result \/ mem'[q].result = 0
        /\ \A e \in Deliverers :
             \/ call'[e] = call[e] /\ mem'[Home[e]] = mem[Home[e]]
             \/ call'[e].pc = "dead" /\ ~call'[e].ok /\ call'[e].attempt = 0
    BY <1>1, <1>h, <1>t DEF Crash, NoCall, NoMemory
  <2>2. HoldInv'
    BY <1>i, <2>1 DEF HoldInv
  <2>3. RangeInv'
    BY <1>i, <1>t, <2>1 DEF RangeInv
  <2>4. ResultInv => ResultInv'
    BY <2>1 DEF ResultInv
  <2>5. QED
    BY <2>2, <2>3, <2>4
<1>2. ASSUME /\ UNCHANGED <<call, starts, journal>>
             /\ \A q \in Processes : mem'[q].result = mem[q].result
             /\ row'.state = row.state /\ row'.holder = row.holder
             /\ row'.token = row.token /\ row'.result = row.result
      PROVE  HoldInv' /\ RangeInv' /\ (ResultInv => ResultInv')
  <2>1. HoldInv'
    BY <1>2, <1>i DEF HoldInv
  <2>2. RangeInv'
    BY <1>2, <1>h, <1>i DEF RangeInv
  <2>3. ResultInv => ResultInv'
    BY <1>2, <1>h DEF ResultInv
  <2>4. QED
    BY <2>1, <2>2, <2>3
<1>3. ASSUME NEW p \in Processes, NEW beat \in mem[p].beats, Renew(p, beat)
      PROVE  /\ UNCHANGED <<call, starts, journal>>
             /\ \A q \in Processes : mem'[q].result = mem[q].result
             /\ row'.state = row.state /\ row'.holder = row.holder
             /\ row'.token = row.token /\ row'.result = row.result
  BY <1>3, <1>t DEF Renew
<1>4. CASE LeaseExpires \/ Review
  BY <1>2, <1>4, <1>t DEF LeaseExpires, Review
<1>5. CASE AuthorizeRetry
  BY <1>5, <1>h, <1>t, <1>i DEF AuthorizeRetry, HoldInv, RangeInv, ResultInv
<1>6. QED
  BY <1>1, <1>2, <1>3, <1>4, <1>5

LEMMA RStep == OneThreadEach /\ RInv /\ [Next]_vars => RInv'
<1> SUFFICES ASSUME OneThreadEach, RInv, [Next]_vars PROVE RInv'
  OBVIOUS
<1>1. IInv'
  BY NextInvariant DEF RInv
<1>2. ResultsDecay = FALSE /\ SideEffecting = FALSE => NoIntent'
  BY NoIntentStep DEF RInv
<1>3. HoldInv' /\ RangeInv' /\ (ResultsDecay = FALSE => ResultInv')
  <2>1. CASE UNCHANGED vars
    BY <2>1 DEF RInv, vars, store, history, HoldInv, RangeInv, ResultInv, Unstarted, Started,
                At, Matches
  <2>2. ASSUME NEW d \in Deliverers, Deliver(d) \/ Progress(d) \/ Trouble(d)
        PROVE  HoldInv' /\ RangeInv' /\ (ResultsDecay = FALSE => ResultInv')
    BY <2>2, HoldDelivery, RangeDelivery, ResultDelivery
  <2>3. CASE \/ \E p \in Processes : Crash(p) \/ \E beat \in mem[p].beats : Renew(p, beat)
             \/ LeaseExpires \/ Review \/ AuthorizeRetry
    BY <2>3, SurroundingsStep DEF RInv
  <2>4. QED
    BY <2>1, <2>2, <2>3 DEF Next
<1>4. QED
  BY <1>1, <1>2, <1>3 DEF RInv

LEMMA RInit == Init => RInv
<1> SUFFICES ASSUME Init PROVE RInv
  OBVIOUS
<1>1. HoldInv /\ RangeInv /\ ResultInv
  BY HomeType DEF Init, HoldInv, RangeInv, ResultInv, Unstarted, Started, Working, At, Matches,
                  NoCall, NoRow, NoMemory
<1>2. QED
  BY <1>1, InitInvariant, NoIntentInit DEF RInv

\* In every behaviour deliveries know what they hold, and results agree while
\* they can be read.
LEMMA ResultInvariance ==
    ASSUME OneThreadEach
    PROVE  Spec => []RInv
BY RInit, RStep, PTL DEF Spec

\* The receipt and the journal never give different results (executor.py commits
\* first and journals what it has committed).
THEOREM OneResult ==
    ASSUME OneThreadEach, ResultsDecay = FALSE
    PROVE  Spec => []ResultsAgree
<1>1. RInv => ResultsAgree
  BY DEF RInv, ResultInv, ResultsAgree
<1>2. QED
  BY <1>1, ResultInvariance, PTL

-----------------------------------------------------------------------------
(* The contract. *)

\* A step that leaves the state and the result of the receipt alone leaves the
\* contract alone.
LEMMA Stutters ==
    ASSUME row'.state = row.state, row'.result = row.result, UNCHANGED <<starts, authorized>>
    PROVE  UNCHANGED Contract!vars
BY DEF Contract!vars

\* What a step of a delivery does to the receipt, seen from the contract.
LEMMA DeliveryImplements ==
    ASSUME OneThreadEach, SideEffecting = TRUE \/ ResultsDecay = FALSE, RInv,
           NEW d \in Deliverers, Deliver(d) \/ Progress(d) \/ Trouble(d)
    PROVE  [Contract!Next]_(Contract!vars)
<1> USE DEF history, store, Goto, At
<1>h. /\ Home[d] \in Processes /\ Home[d] # Nobody
      /\ {SideEffecting, ResultsDecay} \subseteq BOOLEAN
  BY OwnHomes, ConstantsAssumption DEF ConstantsAssumption
<1>t. /\ call \in [Deliverers -> Call] /\ mem \in [Processes -> Memory]
      /\ row \in Row /\ starts \in Nat /\ authorized \in Nat
  BY DEF RInv, IInv, TypeOK
<1>i. HoldInv /\ RangeInv /\ CreditInv /\ OwnerInv /\ IntentInv
  BY DEF RInv, IInv
<1>s. row.state \in {"absent", "claimed", "started", "committed", "indeterminate",
                     "retry_authorized"}
  BY <1>t DEF Row, RowStates, Held
<1>1. CASE \/ Deliver(d) \/ Wait(d) \/ WaitTimesOut(d) \/ Enter(d) \/ Poll(d) \/ BeginFails(d)
           \/ ClaimCommitted(d) \/ ClaimBusy(d) \/ PreflightFails(d) \/ WriteIntent(d)
           \/ MarkIntentLost(d) \/ MarkIntentFails(d) \/ EnterHandler(d) \/ HandlerReturns(d)
           \/ EscapeBeforeFinish(d) \/ CommitLost(d) \/ FinishFails(d) \/ WriteStep(d)
           \/ StepAppendFails(d)
  <2>1. UNCHANGED <<row, starts, authorized>>
    BY <1>1 DEF Deliver, Wait, WaitTimesOut, Enter, Poll, BeginFails, ClaimCommitted, ClaimBusy,
                PreflightFails, WriteIntent, MarkIntentLost, MarkIntentFails, EnterHandler,
                HandlerReturns, EscapeBeforeFinish, CommitLost, FinishFails, WriteStep,
                StepAppendFails
  <2>2. QED
    BY <2>1, Stutters
<1>2. CASE Repair(d)
  <2>0. UNCHANGED <<starts, authorized>>
    BY <1>2 DEF Repair
  <2>1. CASE row' = row
    BY <2>0, <2>1, Stutters
  <2>2. CASE row' = Committed(row, mem[Home[d]].result)
    <3>1. row'.state = "committed" /\ row'.result = mem[Home[d]].result
      BY <2>2, <1>t DEF Committed, Row
    <3>2. CASE ResultsDecay = FALSE
      <4>1. row.state = "committed" /\ row.result = mem[Home[d]].result
        BY <1>2, <1>h, <1>i, <3>2 DEF Repair, RInv, ResultInv, RangeInv
      <4>2. QED
        BY <2>0, <3>1, <4>1, Stutters
    <3>3. CASE ResultsDecay = TRUE
      <4>1. mem[Home[d]].result \in 1..starts
        BY <1>2, <1>h, <1>t, <1>i DEF Repair, RangeInv, Memory
      <4>2. Contract!Restore
        BY <2>0, <3>1, <3>3, <4>1 DEF Contract!Restore, PhaseOf
      <4>3. QED
        BY <4>2 DEF Contract!Next
    <3>4. QED
      BY <1>h, <3>2, <3>3
  <2>3. QED
    BY <1>2, <2>1, <2>2 DEF Repair
<1>3. CASE ClaimVacant(d)
  <2>1. row.state = "absent" /\ UNCHANGED <<starts, authorized>>
    BY <1>3 DEF ClaimVacant
  <2>2. row'.state \in {"indeterminate", "claimed"}
    <3>1. Refuse(d, Uncertain(NoRow)) \/ Grant(d, Claimed(Home[d], 1))
      BY <1>3 DEF ClaimVacant
    <3>2. Uncertain(NoRow).state = "indeterminate" /\ Claimed(Home[d], 1).state = "claimed"
      BY DEF Uncertain, NoRow, Claimed
    <3>3. QED
      BY <3>1, <3>2 DEF Refuse, Grant
  <2>3. CASE row'.state = "claimed"
    BY <2>1, <2>3 DEF Contract!vars, PhaseOf
  <2>4. CASE row'.state = "indeterminate"
    <3>1. Contract!Doubt
      BY <2>1, <2>4 DEF Contract!Doubt, PhaseOf
    <3>2. QED
      BY <2>1, <3>1 DEF Contract!Next
  <2>5. QED
    BY <2>2, <2>3, <2>4
<1>4. CASE ClaimUnreadable(d)
  <2>1. /\ row.state = "committed" /\ ResultsDecay /\ row'.state = "indeterminate"
        /\ UNCHANGED <<starts, authorized>>
    BY <1>4, <1>t DEF ClaimUnreadable, Refuse, Uncertain, Row
  <2>2. Contract!Doubt
    BY <2>1 DEF Contract!Doubt, PhaseOf
  <2>3. QED
    BY <2>2 DEF Contract!Next
<1>5. CASE ClaimIndeterminate(d)
  BY <1>5, Stutters DEF ClaimIndeterminate, Refuse
<1>6. CASE ClaimOwn(d)
  BY <1>6, Stutters DEF ClaimOwn, Grant
<1>7. CASE ClaimLapsed(d)
  <2>1. /\ row.state \in {"claimed", "started", "retry_authorized"}
        /\ UNCHANGED <<starts, authorized>>
    BY <1>7 DEF ClaimLapsed, Held
  <2>2. CASE Refuse(d, Uncertain(row))
    <3>1. row'.state = "indeterminate"
      BY <2>2, <1>t DEF Refuse, Uncertain, Row
    <3>2. Contract!Doubt
      BY <2>1, <3>1 DEF Contract!Doubt, PhaseOf
    <3>3. QED
      BY <2>1, <3>2 DEF Contract!Next
  <2>3. CASE ~Unsafe(d) /\ Grant(d, Claimed(Home[d], row.token + 1))
    <3>1. row'.state = "claimed"
      BY <2>3 DEF Grant, Claimed
    <3>2. CASE row.state = "started"
      <4>1. SideEffecting = FALSE
        BY <2>3, <3>2, ConstantsAssumption DEF Unsafe, ConstantsAssumption
      <4>2. Contract!Forget
        BY <2>1, <3>1, <3>2, <4>1 DEF Contract!Forget, PhaseOf
      <4>3. QED
        BY <3>2, <4>2 DEF Contract!Next
    <3>3. CASE row.state \in {"claimed", "retry_authorized"}
      BY <2>1, <3>1, <3>3 DEF Contract!vars, PhaseOf
    <3>4. QED
      BY <2>1, <3>2, <3>3
  <2>4. QED
    BY <1>7, <2>2, <2>3 DEF ClaimLapsed
<1>8. CASE MarkIntent(d)
  <2>1. row.state = "claimed"
    BY <1>8, <1>i DEF MarkIntent, Owns, Held, HoldInv, Unstarted
  <2>2. row'.state = "started" /\ starts' = starts + 1 /\ authorized' = authorized
    BY <1>8, <1>t DEF MarkIntent, Row
  <2>3. Contract!Attempt
    BY <2>1, <2>2 DEF Contract!Attempt, PhaseOf
  <2>4. QED
    BY <2>1, <2>3 DEF Contract!Next
<1>9. CASE Commit(d)
  <2>1. row.state = "started" /\ call[d].attempt = starts
    BY <1>9, <1>i DEF Commit, Owns, Held, HoldInv, Started
  <2>2. /\ row'.state = "committed" /\ row'.result = call[d].attempt
        /\ UNCHANGED <<starts, authorized>>
    BY <1>9, <1>t DEF Commit, Committed, Row
  <2>3. Contract!Publish
    BY <2>1, <2>2 DEF Contract!Publish, PhaseOf
  <2>4. QED
    BY <2>1, <2>3 DEF Contract!Next
<1>10. CASE FinishFailed(d)
  <2>0. UNCHANGED <<starts, authorized>>
    BY <1>10 DEF FinishFailed
  <2>1. CASE ~Matches(Home[d], call[d].token)
    BY <1>10, <2>0, <2>1, Stutters DEF FinishFailed
  <2>2. CASE Matches(Home[d], call[d].token)
    <3>1. /\ row.state \in {"claimed", "started", "indeterminate", "committed"}
          /\ row.state = "committed" => ResultsDecay = TRUE
      <4>1. row.state = "committed" /\ ResultsDecay = FALSE => FALSE
        BY <1>10, <2>2 DEF FinishFailed, RInv, ResultInv, Working
      <4>2. QED
        BY <4>1, <1>10, <2>2, <1>s, <1>h, <1>i, <1>t DEF FinishFailed, HoldInv, Matches
    <3>2. CASE mem[Home[d]].intent
      <4>1. row'.state = "indeterminate"
        BY <1>10, <2>2, <3>2, <1>t DEF FinishFailed, Uncertain, Row
      <4>2. CASE row.state = "indeterminate"
        BY <2>0, <4>1, <4>2 DEF Contract!vars
      <4>3. CASE row.state # "indeterminate"
        <5>1. Contract!Doubt
          BY <2>0, <3>1, <4>1, <4>3 DEF Contract!Doubt, PhaseOf
        <5>2. QED
          BY <3>1, <5>1 DEF Contract!Next
      <4>4. QED
        BY <4>2, <4>3
    <3>3. CASE ~mem[Home[d]].intent
      <4>1. row'.state = "absent"
        BY <1>10, <2>2, <3>3 DEF FinishFailed, NoRow
      <4>2. CASE row.state = "claimed"
        BY <2>0, <4>1, <4>2 DEF Contract!vars, PhaseOf
      <4>3. CASE SideEffecting = TRUE /\ row.state # "claimed"
        <5>1. Unstarted(d)
          BY <1>10, <1>i, <3>3, <4>3 DEF FinishFailed, IntentInv, Started, Unstarted
        <5>2. row.state # "started" /\ starts <= authorized
          BY <2>2, <4>3, <5>1, <1>i DEF HoldInv, CreditInv
        <5>3. Contract!Withdraw
          BY <2>0, <3>1, <4>1, <4>3, <5>2 DEF Contract!Withdraw, PhaseOf
        <5>4. QED
          BY <5>3 DEF Contract!Next
      <4>4. CASE SideEffecting = FALSE /\ row.state # "claimed"
        <5>1. row.state = "started"
          BY <1>h, <3>1, <4>4 DEF RInv, NoIntent
        <5>2. Contract!Forget
          BY <2>0, <4>1, <4>4, <5>1 DEF Contract!Forget, PhaseOf
        <5>3. QED
          BY <5>1, <5>2 DEF Contract!Next
      <4>5. QED
        BY <1>h, <4>2, <4>3, <4>4
    <3>4. QED
      BY <3>2, <3>3
  <2>3. QED
    BY <2>1, <2>2
<1>11. QED
  BY <1>1, <1>2, <1>3, <1>4, <1>5, <1>6, <1>7, <1>8, <1>9, <1>10 DEF Progress, Claim, Trouble

\* Every step is a step of the contract or a stutter.
LEMMA StepImplements ==
    ASSUME OneThreadEach, SideEffecting = TRUE \/ ResultsDecay = FALSE, RInv, [Next]_vars
    PROVE  [Contract!Next]_(Contract!vars)
<1>t. row \in Row
  BY DEF RInv, IInv, TypeOK
<1>1. ASSUME NEW d \in Deliverers, Deliver(d) \/ Progress(d) \/ Trouble(d)
      PROVE  [Contract!Next]_(Contract!vars)
  BY <1>1, DeliveryImplements
<1>2. CASE \/ \E p \in Processes : Crash(p) \/ \E beat \in mem[p].beats : Renew(p, beat)
           \/ LeaseExpires \/ Review \/ UNCHANGED vars
  <2>1. row'.state = row.state /\ row'.result = row.result /\ UNCHANGED <<starts, authorized>>
    BY <1>2, <1>t DEF Crash, Renew, LeaseExpires, Review, vars, store, history, Row
  <2>2. QED
    BY <2>1, Stutters
<1>3. CASE AuthorizeRetry
  <2>1. /\ row.state = "indeterminate" /\ row'.state = "retry_authorized"
        /\ authorized' = authorized + 1 /\ starts' = starts
    BY <1>3, <1>t DEF AuthorizeRetry, Row
  <2>2. Contract!Approve
    BY <2>1 DEF Contract!Approve, PhaseOf
  <2>3. QED
    BY <2>1, <2>2 DEF Contract!Next
<1>4. QED
  BY <1>1, <1>2, <1>3 DEF Next

\* The SQLite receipts keep the contract of the EffectStore protocol with one
\* delivery thread per process: those of a side effect always, those of a
\* read-only effect while its results can be read.
THEOREM Implementation ==
    ASSUME OneThreadEach, SideEffecting = TRUE \/ ResultsDecay = FALSE
    PROVE  Spec => ContractSpec
<1>1. Init => Contract!Init
  BY DEF Init, Contract!Init, NoRow, PhaseOf
<1>2. RInv /\ [Next]_vars => [Contract!Next]_(Contract!vars)
  BY StepImplements
<1>3. QED
  BY <1>1, <1>2, ResultInvariance, PTL DEF Spec, ContractSpec, Contract!Spec

-----------------------------------------------------------------------------
(* A committed receipt. *)

\* A step that writes a committed receipt writes the same result again.
LEMMA SettledStep ==
    ASSUME ResultsDecay = FALSE, RInv, [Next]_vars, row.state = "committed"
    PROVE  row'.state = "committed" /\ row'.result = row.result
<1>t. row \in Row /\ ResultInv /\ RangeInv
  BY DEF RInv, IInv, TypeOK
<1>h. \A d \in Deliverers : Home[d] \in Processes
  BY HomeType
<1>1. ASSUME NEW d \in Deliverers, Repair(d)
      PROVE  row'.state = "committed" /\ row'.result = row.result
  <2>1. mem[Home[d]].result = row.result
    BY <1>1, <1>h, <1>t DEF Repair, RangeInv, ResultInv
  <2>2. QED
    BY <1>1, <2>1, <1>t DEF Repair, Committed, Row
<1>2. ASSUME NEW d \in Deliverers, FinishFailed(d)
      PROVE  row' = row
  BY <1>2, <1>t DEF FinishFailed, ResultInv, Working, At
<1>3. ASSUME NEW d \in Deliverers, Deliver(d) \/ Progress(d) \/ Trouble(d),
             ~Repair(d), ~FinishFailed(d)
      PROVE  row' = row
  <2>1. CASE Claim(d) \/ ClaimUnreadable(d)
    BY <2>1 DEF Claim, ClaimVacant, ClaimCommitted, ClaimUnreadable, ClaimIndeterminate,
                ClaimBusy, ClaimOwn, ClaimLapsed, Held, store
  <2>2. ~MarkIntent(d) /\ ~Commit(d)
    BY DEF MarkIntent, Commit, Owns, Held
  <2>3. CASE UNCHANGED row
    BY <2>3
  <2>4. QED
    BY <1>3, <2>1, <2>2, <2>3
    DEF Progress, Trouble, Deliver, Wait, WaitTimesOut, Enter, Poll, BeginFails, PreflightFails,
        WriteIntent, MarkIntentLost, MarkIntentFails, EnterHandler, HandlerReturns,
        EscapeBeforeFinish, CommitLost, FinishFails, WriteStep, StepAppendFails, store
<1>4. CASE \/ \E p \in Processes : Crash(p) \/ \E beat \in mem[p].beats : Renew(p, beat)
           \/ LeaseExpires \/ Review \/ AuthorizeRetry \/ UNCHANGED vars
  BY <1>4, <1>t DEF Crash, Renew, LeaseExpires, Review, AuthorizeRetry, vars, store, Row
<1>5. QED
  BY <1>1, <1>2, <1>3, <1>4 DEF Next

\* A committed receipt keeps its result while results can be read, with one
\* delivery thread per process (effect_store.py, claim, finish_failed and
\* record_committed).
THEOREM SettledResults ==
    ASSUME OneThreadEach, ResultsDecay = FALSE
    PROVE  Spec => Settled
<1>1. RInv /\ [Next]_vars =>
        [row.state = "committed" => row'.state = "committed" /\ row'.result = row.result]_row
  BY SettledStep
<1>2. QED
  BY <1>1, ResultInvariance, PTL DEF Spec, Settled

-----------------------------------------------------------------------------
(* Leases and reviews, for any threads and any effect. *)

LEMMA LeaseStep ==
    ASSUME TypeOK, Next, row.state \in Held, row.live
    PROVE  \/ row'.holder = row.holder /\ row'.token = row.token
           \/ /\ row' = NoRow
              /\ \E d \in Deliverers : /\ Home[d] = row.holder
                                       /\ call[d].token = row.token
                                       /\ At(d, "finishing")
<1> USE DEF store, history, Held, Row
<1>t. row \in Row
  BY DEF TypeOK
<1>1. ASSUME NEW d \in Deliverers, FinishFailed(d)
      PROVE  \/ row'.holder = row.holder /\ row'.token = row.token
             \/ /\ row' = NoRow
                /\ \E e \in Deliverers : /\ Home[e] = row.holder
                                         /\ call[e].token = row.token
                                         /\ At(e, "finishing")
  BY <1>1, <1>t DEF FinishFailed, Matches, Uncertain
<1>2. ASSUME NEW d \in Deliverers, Deliver(d) \/ Progress(d) \/ Trouble(d), ~FinishFailed(d)
      PROVE  row'.holder = row.holder /\ row'.token = row.token
  <2>1. CASE Claim(d) \/ ClaimUnreadable(d)
    BY <2>1, <1>t DEF Claim, ClaimVacant, ClaimCommitted, ClaimUnreadable, ClaimIndeterminate,
                      ClaimBusy, ClaimOwn, ClaimLapsed, Grant, Refuse
  <2>2. CASE MarkIntent(d) \/ Commit(d) \/ Repair(d)
    BY <2>2, <1>t DEF MarkIntent, Commit, Repair, Committed
  <2>3. CASE UNCHANGED row
    BY <2>3
  <2>4. QED
    BY <1>2, <2>1, <2>2, <2>3
    DEF Progress, Trouble, Deliver, Wait, WaitTimesOut, Enter, Poll, BeginFails, PreflightFails,
        WriteIntent, MarkIntentLost, MarkIntentFails, EnterHandler, HandlerReturns,
        EscapeBeforeFinish, CommitLost, FinishFails, WriteStep, StepAppendFails
<1>3. CASE \/ \E p \in Processes : Crash(p) \/ \E beat \in mem[p].beats : Renew(p, beat)
           \/ LeaseExpires \/ Review \/ AuthorizeRetry
  BY <1>3, <1>t DEF Crash, Renew, LeaseExpires, Review, AuthorizeRetry
<1>4. QED
  BY <1>1, <1>2, <1>3 DEF Next

\* While its lease is live a claim belongs to its process (effect_store.py):
\* any threads, any effect.
THEOREM LeasesProtect == Spec => LeaseProtects
<1>1. TypeOK /\ [Next]_vars =>
        [row.state \in Held /\ row.live =>
           \/ row'.holder = row.holder /\ row'.token = row.token
           \/ /\ row' = NoRow
              /\ \E d \in Deliverers : /\ Home[d] = row.holder
                                       /\ call[d].token = row.token
                                       /\ At(d, "finishing")]_row
  BY LeaseStep DEF vars, store
<1>2. QED
  BY <1>1, TypeCorrect, PTL DEF Spec, LeaseProtects

\* A reviewed receipt that was not deleted has a newer token once anything was
\* claimed.
KeptInv ==
    reviewed.kept =>
        /\ row.state # "absent"
        /\ row.token >= reviewed.token
        /\ row.token = reviewed.token => row.state \notin Held /\ reviewed.starts = starts

LEMMA KeptFrame ==
    ASSUME KeptInv, UNCHANGED <<starts, reviewed>>, row'.token = row.token,
           row'.state = "absent" => row.state = "absent",
           row'.state \in Held => row.state \in Held
    PROVE  KeptInv'
BY DEF KeptInv

LEMMA KeptStep ==
    ASSUME TypeOK, KeptInv, Next
    PROVE  KeptInv'
<1> USE DEF store, history, Held, KeptInv
<1>t. /\ row \in Row /\ starts \in Nat
      /\ reviewed \in [seen: BOOLEAN, kept: BOOLEAN, token: Nat, starts: Nat]
  BY DEF TypeOK
<1> USE DEF Row, RowStates
<1>1. ASSUME NEW d \in Deliverers, FinishFailed(d)
      PROVE  KeptInv'
  <2>1. /\ reviewed' = [reviewed EXCEPT !.kept = @ /\ row' # NoRow]
        /\ starts' = starts
        /\ row' \in {row, Uncertain(row), NoRow}
    BY <1>1 DEF FinishFailed
  <2>2. CASE row' = NoRow
    BY <2>1, <2>2, <1>t
  <2>3. CASE row' = row
    BY <2>1, <2>3, <1>t
  <2>4. CASE row' = Uncertain(row)
    BY <2>1, <2>4, <1>t DEF Uncertain
  <2>5. QED
    BY <2>1, <2>2, <2>3, <2>4
<1>2. ASSUME NEW d \in Deliverers, Deliver(d) \/ Progress(d) \/ Trouble(d), ~FinishFailed(d)
      PROVE  KeptInv'
  <2>1. CASE ClaimVacant(d)
    BY <2>1, <1>t DEF ClaimVacant
  <2>2. CASE ClaimUnreadable(d) \/ ClaimIndeterminate(d) \/ ClaimOwn(d)
    <3>1. row' = Uncertain(row) \/ row' = row
      BY <2>2 DEF ClaimUnreadable, ClaimIndeterminate, ClaimOwn, Grant, Refuse
    <3>2. Uncertain(row).token = row.token /\ Uncertain(row).state = "indeterminate"
      BY <1>t DEF Uncertain
    <3>3. UNCHANGED <<starts, reviewed>>
      BY <2>2 DEF ClaimUnreadable, ClaimIndeterminate, ClaimOwn
    <3>4. QED
      BY <3>1, <3>2, <3>3, KeptFrame
  <2>3. CASE ClaimLapsed(d)
    <3>1. CASE Refuse(d, Uncertain(row))
      BY <2>3, <3>1, <1>t DEF ClaimLapsed, Refuse, Uncertain
    <3>2. CASE Grant(d, Claimed(Home[d], row.token + 1))
      BY <2>3, <3>2, <1>t DEF ClaimLapsed, Grant, Claimed
    <3>3. QED
      BY <2>3, <3>1, <3>2 DEF ClaimLapsed
  <2>4. CASE MarkIntent(d)
    BY <2>4, <1>t DEF MarkIntent, Owns
  <2>5. CASE Commit(d) \/ Repair(d)
    <3>1. \A v \in Nat : Committed(row, v).token = row.token /\ Committed(row, v).state = "committed"
      BY <1>t DEF Committed
    <3>2. call[d].attempt \in Nat /\ mem[Home[d]].result \in Nat
      BY HomeType DEF TypeOK, Call, Memory
    <3>3. row' \in {row, Committed(row, call[d].attempt), Committed(row, mem[Home[d]].result)}
      BY <2>5 DEF Commit, Repair
    <3>4. UNCHANGED <<starts, reviewed>>
      BY <2>5 DEF Commit, Repair
    <3>5. QED
      BY <3>1, <3>2, <3>3, <3>4, KeptFrame
  <2>6. CASE UNCHANGED <<row, starts, reviewed>>
    BY <2>6
  <2>7. QED
    BY <1>2, <2>1, <2>2, <2>3, <2>4, <2>5, <2>6
    DEF Progress, Trouble, Claim, ClaimCommitted, ClaimBusy, Deliver, Wait, WaitTimesOut, Enter,
        Poll, BeginFails, PreflightFails, WriteIntent, MarkIntentLost, MarkIntentFails,
        EnterHandler, HandlerReturns, EscapeBeforeFinish, CommitLost, FinishFails, WriteStep,
        StepAppendFails
<1>3. CASE \/ \E p \in Processes : Crash(p) \/ \E beat \in mem[p].beats : Renew(p, beat)
           \/ LeaseExpires \/ AuthorizeRetry
  <2>1. \/ row'.token = row.token /\ row'.state = row.state
        \/ row'.token = row.token /\ row'.state = "retry_authorized"
    BY <1>3, <1>t DEF Crash, Renew, LeaseExpires, AuthorizeRetry
  <2>2. UNCHANGED <<starts, reviewed>>
    BY <1>3 DEF Crash, Renew, LeaseExpires, AuthorizeRetry
  <2>3. QED
    BY <2>1, <2>2, KeptFrame
<1>4. CASE Review
  BY <1>4, <1>t DEF Review
<1>5. QED
  BY <1>1, <1>2, <1>3, <1>4 DEF Next

\* An authorisation covers what its operator saw, unless the receipt was deleted
\* in between (effect_store.py, authorize_retry): any threads, any effect.
THEOREM ReviewsCover == Spec => ReviewCoversStarts
<1> DEFINE Inv == TypeOK /\ KeptInv
<1>1. Init => Inv
  BY InitType DEF Init, KeptInv
<1>2. Inv /\ [Next]_vars => Inv'
  <2>1. ASSUME TypeOK, KeptInv, UNCHANGED vars PROVE KeptInv'
    BY <2>1 DEF KeptInv, vars, store, history
  <2>2. QED
    BY <2>1, KeptStep, NextType
<1>3. ASSUME TypeOK, KeptInv, [Next]_vars, authorized' > authorized, reviewed.kept
      PROVE  reviewed.starts = starts
  <2>1. authorized' # authorized
    <3>1. authorized \in Nat
      BY <1>3 DEF TypeOK
    <3>2. QED
      BY <3>1, <1>3
  <2>2. ASSUME NEW d \in Deliverers, Deliver(d) \/ Progress(d) PROVE UNCHANGED authorized
    BY <2>2 DEF Progress, history, Deliver, Wait, Enter, Repair, Claim, Poll, ClaimVacant,
       ClaimCommitted, ClaimUnreadable, ClaimIndeterminate, ClaimBusy, ClaimOwn, ClaimLapsed,
       WriteIntent, MarkIntent, MarkIntentLost, EnterHandler, HandlerReturns, Commit,
       CommitLost, FinishFailed, WriteStep
  <2>3. ASSUME NEW d \in Deliverers, Trouble(d) PROVE UNCHANGED authorized
    BY <2>3 DEF Trouble, history, WaitTimesOut, BeginFails, ClaimUnreadable, PreflightFails,
       MarkIntentFails, EscapeBeforeFinish, FinishFails, StepAppendFails
  <2>4. AuthorizeRetry
    BY <1>3, <2>1, <2>2, <2>3 DEF Next, vars, history, Crash, Renew, LeaseExpires, Review
  <2>5. QED
    BY <1>3, <2>4 DEF AuthorizeRetry, KeptInv
<1>4. QED
  BY <1>1, <1>2, <1>3, PTL DEF Spec, ReviewCoversStarts
=============================================================================
