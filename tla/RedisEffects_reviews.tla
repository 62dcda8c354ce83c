--------------------------- MODULE RedisEffects_reviews ---------------------------
(***************************************************************************)
(* Proofs about RedisEffects, continued: fencing tokens are never drawn    *)
(* twice, so a claim does not discredit the delivery that works under its  *)
(* own lease, and an authorisation covers what its operator saw.           *)
(***************************************************************************)
EXTENDS RedisEffects_proofs

\* The lease's token is the newest that was drawn for a receipt.  A receipt that
\* has it is not indeterminate, and if it was started its process knows of it.
TokenInv ==
    /\ lease.token <= tokens /\ receipt.token <= tokens
    /\ lease # NoLease => receipt.token <= lease.token
    /\ lease # NoLease => lease.holder \in Processes /\ lease.token # 0
    /\ lease # NoLease /\ receipt.token = lease.token =>
         /\ receipt.state # "indeterminate"
         /\ receipt.state = "started" =>
              \/ At(lease.holder, "dead")
              \/ index[lease.holder].live /\ active[lease.holder] = lease.token

\* A process claims only keys it does not execute.
LiveInv ==
    \A p \in Processes :
        /\ call[p].pc \in Claiming \union {"repair", "polling"} => ~index[p].live
        /\ call[p].pc \in {"granted", "intended"} => index[p].live

\* Nothing is started any more under the token that an operator saw.
ReviewInv ==
    reviewed.seen =>
        /\ reviewed.token <= tokens
        /\ lease # NoLease => lease.token # reviewed.token
        /\ receipt.state = "indeterminate" /\ receipt.token = reviewed.token =>
             reviewed.starts = starts

RInv == TokenInv /\ LiveInv /\ ReviewInv

\* A claim that is granted is live until its delivery finishes.
LEMMA LiveStep ==
    ASSUME TypeOK, RInv, Next
    PROVE  LiveInv'
<1> USE DEF redis, history, At, Goto, LiveInv, Claiming, Index, Call
<1>t. /\ lease \in [holder: Processes \union {Nobody}, token: Nat]
      /\ receipt \in [state: States, token: Nat, result: Nat]
      /\ tokens \in Nat /\ starts \in Nat
      /\ active \in [Processes -> Nat] /\ index \in [Processes -> Index]
      /\ call \in [Processes -> Call]
      /\ reviewed \in [seen: BOOLEAN, token: Nat, starts: Nat]
      /\ Nobody \notin Processes
  BY ConstantsAssumption DEF TypeOK, ConstantsAssumption
<1>i. LiveInv
  BY DEF RInv
<1>1. ASSUME NEW p \in Processes, Deliver(p) PROVE LiveInv'
  BY <1>1, <1>t, <1>i DEF Deliver, Refreshed, NoCall
<1>2. ASSUME NEW p \in Processes, Repair(p) PROVE LiveInv'
  BY <1>2, <1>t, <1>i DEF Repair
<1>3. ASSUME NEW p \in Processes, Lookup(p) PROVE LiveInv'
  BY <1>3, <1>t, <1>i DEF Lookup
<1>4. ASSUME NEW p \in Processes, Extend(p) PROVE LiveInv'
  <2>1. PICK pc \in {"read", "grab"} : Goto(p, pc)
    BY <1>4 DEF Extend
  <2>2. QED
    BY <1>4, <2>1, <1>t, <1>i DEF Extend
<1>5. ASSUME NEW p \in Processes, Grab(p) PROVE LiveInv'
  <2>1. PICK pc \in {"read", "refused"} : Goto(p, pc)
    BY <1>5 DEF Grab
  <2>2. QED
    BY <1>5, <2>1, <1>t, <1>i DEF Grab
<1>6. ASSUME NEW p \in Processes, Refused(p) PROVE LiveInv'
  <2>1. \A q \in Processes : index'[q].live = index[q].live
    <3>1. index' = index \/ index' = [index EXCEPT ![p].known = receipt.result]
      BY <1>6 DEF Refused
    <3>2. QED
      BY <3>1, <1>t
  <2>2. \A q \in Processes : \/ call'[q].pc = call[q].pc
                             \/ q = p /\ call'[q].pc \in {"journaling", "idle", "polling"}
    BY <1>6, <1>t DEF Refused
  <2>3. ~index[p].live
    BY <1>6, <1>i DEF Refused
  <2>4. QED
    BY <2>1, <2>2, <2>3, <1>i
<1>7. ASSUME NEW p \in Processes, Read(p) PROVE LiveInv'
  BY <1>7, <1>t, <1>i DEF Read
<1>8. ASSUME NEW p \in Processes, LetGo(p) PROVE LiveInv'
  BY <1>8, <1>t, <1>i DEF LetGo, Dropped
<1>9. ASSUME NEW p \in Processes, PublishDoubt(p) PROVE LiveInv'
  BY <1>9, <1>t, <1>i DEF PublishDoubt, SetRelease, Receipt, Dropped
<1>10. ASSUME NEW p \in Processes, Publish(p) PROVE LiveInv'
  BY <1>10, <1>t, <1>i DEF Publish, Receipt
<1>11. ASSUME NEW p \in Processes, PublishLost(p) PROVE LiveInv'
  BY <1>11, <1>t, <1>i DEF PublishLost, Dropped
<1>12. ASSUME NEW p \in Processes, Poll(p) PROVE LiveInv'
  BY <1>12, <1>t, <1>i DEF Poll, Refreshed
<1>13. ASSUME NEW p \in Processes, BeginFails(p) PROVE LiveInv'
  BY <1>13, <1>t, <1>i DEF BeginFails, SetRelease, Receipt
<1>14. ASSUME NEW p \in Processes, PreflightFails(p) PROVE LiveInv'
  BY <1>14, <1>t, <1>i DEF PreflightFails
<1>15. ASSUME NEW p \in Processes, WriteIntent(p) PROVE LiveInv'
  BY <1>15, <1>t, <1>i DEF WriteIntent
<1>16. ASSUME NEW p \in Processes, MarkIntent(p) PROVE LiveInv'
  BY <1>16, <1>t, <1>i DEF MarkIntent, Receipt, Intended, Refreshed
<1>17. ASSUME NEW p \in Processes, MarkIntentLost(p) PROVE LiveInv'
  BY <1>17, <1>t, <1>i DEF MarkIntentLost, Intended, Refreshed
<1>18. ASSUME NEW p \in Processes, MarkIntentFails(p) PROVE LiveInv'
  BY <1>18, <1>t, <1>i DEF MarkIntentFails, Receipt, Intended, Refreshed
<1>19. ASSUME NEW p \in Processes, EnterHandler(p) PROVE LiveInv'
  BY <1>19, <1>t, <1>i DEF EnterHandler
<1>20. ASSUME NEW p \in Processes, HandlerReturns(p) PROVE LiveInv'
  BY <1>20, <1>t, <1>i DEF HandlerReturns
<1>21. ASSUME NEW p \in Processes, EscapeBeforeFinish(p) PROVE LiveInv'
  BY <1>21, <1>t, <1>i DEF EscapeBeforeFinish
<1>22. ASSUME NEW p \in Processes, Commit(p) PROVE LiveInv'
  BY <1>22, <1>t, <1>i DEF Commit, SetRelease, Receipt, Dropped, Finished
<1>23. ASSUME NEW p \in Processes, CommitLost(p) PROVE LiveInv'
  BY <1>23, <1>t, <1>i DEF CommitLost, Dropped, Finished
<1>24. ASSUME NEW p \in Processes, FinishFailed(p) PROVE LiveInv'
  BY <1>24, <1>t, <1>i DEF FinishFailed, Discredit, SetRelease, Receipt, Dropped, Finished
<1>25. ASSUME NEW p \in Processes, FinishFails(p) PROVE LiveInv'
  BY <1>25, <1>t, <1>i DEF FinishFails, Discredit, SetRelease, Receipt
<1>26. ASSUME NEW p \in Processes, WriteStep(p) PROVE LiveInv'
  BY <1>26, <1>t, <1>i DEF WriteStep
<1>27. ASSUME NEW p \in Processes, StepAppendFails(p) PROVE LiveInv'
  BY <1>27, <1>t, <1>i DEF StepAppendFails
<1>28. ASSUME NEW p \in Processes, RenewLost(p) PROVE LiveInv'
  BY <1>28, <1>t, <1>i DEF RenewLost, Dropped
<1>29. ASSUME NEW p \in Processes, Crash(p) PROVE LiveInv'
  BY <1>29, <1>t, <1>i DEF Crash, Dropped, NoCall, NoIndex
<1>30. CASE LeaseLapses
  BY <1>30, <1>t, <1>i DEF LeaseLapses
<1>31. CASE Review
  BY <1>31, <1>t, <1>i DEF Review
<1>32. CASE AuthorizeRetry
  BY <1>32, <1>t, <1>i DEF AuthorizeRetry
<1>33. QED
  BY <1>1, <1>2, <1>3, <1>4, <1>5, <1>6, <1>7, <1>8, <1>9, <1>10, <1>11, <1>12, <1>13, <1>14,
     <1>15, <1>16, <1>17, <1>18, <1>19, <1>20, <1>21, <1>22, <1>23, <1>24, <1>25, <1>26, <1>27,
     <1>28, <1>29, <1>30, <1>31, <1>32
  DEF Next, Begin, Execute, Finish

\* A step of one process that does not touch Redis keeps TokenInv, unless the
\* process loses track of a delivery it has started under its lease.
LEMMA TokenFrame ==
    ASSUME TypeOK, TokenInv, NEW p \in Processes, UNCHANGED <<lease, receipt, tokens>>,
           \A q \in Processes : q # p =>
              call'[q].pc = call[q].pc /\ index'[q].live = index[q].live /\ active'[q] = active[q],
           At(p, "dead") => call'[p].pc = "dead",
           index[p].live /\ lease = [holder |-> p, token |-> active[p]] /\ active[p] # 0 =>
              index'[p].live /\ active'[p] = active[p]
    PROVE  TokenInv'
<1>t. /\ lease \in [holder: Processes \union {Nobody}, token: Nat]
      /\ receipt \in [state: States, token: Nat, result: Nat]
      /\ tokens \in Nat /\ starts \in Nat
      /\ active \in [Processes -> Nat] /\ index \in [Processes -> Index]
      /\ call \in [Processes -> Call]
      /\ reviewed \in [seen: BOOLEAN, token: Nat, starts: Nat]
      /\ Nobody \notin Processes
  BY ConstantsAssumption DEF TypeOK, ConstantsAssumption
<1>1. ASSUME lease # NoLease, receipt.token = lease.token, receipt.state = "started"
      PROVE  \/ call'[lease.holder].pc = "dead"
             \/ index'[lease.holder].live /\ active'[lease.holder] = lease.token
  <2>1. CASE lease.holder = p
    BY <1>t, <1>1, <2>1 DEF TokenInv, At
  <2>2. CASE lease.holder \in Processes /\ lease.holder # p
    BY <1>t, <1>1, <2>2 DEF TokenInv, At
  <2>3. QED
    BY <1>t, <1>1, <2>1, <2>2 DEF TokenInv
<1>2. QED
  BY <1>t, <1>1 DEF TokenInv, NoLease, At

\* Receipts take the token of the lease, and leases a new one.
LEMMA TokenStep ==
    ASSUME TypeOK, RInv, Next
    PROVE  TokenInv'
<1> USE DEF redis, history, At, Goto, TokenInv, LiveInv, Claiming, Index, Call, Fenced, NoLease, Absent
<1>t. /\ lease \in [holder: Processes \union {Nobody}, token: Nat]
      /\ receipt \in [state: States, token: Nat, result: Nat]
      /\ tokens \in Nat /\ starts \in Nat
      /\ active \in [Processes -> Nat] /\ index \in [Processes -> Index]
      /\ call \in [Processes -> Call]
      /\ reviewed \in [seen: BOOLEAN, token: Nat, starts: Nat]
      /\ Nobody \notin Processes
  BY ConstantsAssumption DEF TypeOK, ConstantsAssumption
<1>i. TokenInv /\ LiveInv
  BY DEF RInv
<1>1. ASSUME NEW p \in Processes, Deliver(p) PROVE TokenInv'
  BY <1>1, <1>t, <1>i DEF Deliver, Refreshed, NoCall
<1>2. ASSUME NEW p \in Processes, Repair(p) PROVE TokenInv'
  BY <1>2, <1>t, <1>i DEF Repair
<1>3. ASSUME NEW p \in Processes, Lookup(p) PROVE TokenInv'
  <2>1. /\ \A q \in Processes : q # p => /\ call'[q].pc = call[q].pc
                                         /\ index'[q].live = index[q].live
                                         /\ active'[q] = active[q]
        /\ UNCHANGED <<lease, receipt, tokens>>
    BY <1>3, <1>t DEF Lookup, Index, Call
  <2>2. ~At(p, "dead")
    BY <1>3 DEF Lookup
  <2>3. index[p].live /\ lease = [holder |-> p, token |-> active[p]] /\ active[p] # 0 =>
              index'[p].live /\ active'[p] = active[p]
    BY <1>3, <1>t, <1>i DEF Lookup, LiveInv, Claiming, Index, Call, Fenced
  <2>4. QED
    BY <2>1, <2>2, <2>3, <1>i, TokenFrame DEF RInv
<1>4. ASSUME NEW p \in Processes, Extend(p) PROVE TokenInv'
  <2>a. CASE lease # NoLease
    <3>1. /\ \A q \in Processes : q # p => /\ call'[q].pc = call[q].pc
                                           /\ index'[q].live = index[q].live
                                           /\ active'[q] = active[q]
          /\ UNCHANGED <<lease, receipt, tokens>>
      BY <1>4, <1>t, <2>a DEF Extend, Index, Call
    <3>2. ~At(p, "dead")
      BY <1>4 DEF Extend
    <3>3. index[p].live /\ lease = [holder |-> p, token |-> active[p]] /\ active[p] # 0 =>
                index'[p].live /\ active'[p] = active[p]
      BY <1>4, <1>t, <1>i, <2>a DEF Extend, LiveInv, Claiming, Index, Call, Fenced
    <3>4. QED
      BY <3>1, <3>2, <3>3, <1>i, TokenFrame DEF RInv
  <2>b. CASE ~(lease # NoLease)
    <3>1. /\ \A q \in Processes : q # p => /\ call'[q].pc = call[q].pc
                                           /\ index'[q].live = index[q].live
                                           /\ active'[q] = active[q]
          /\ UNCHANGED <<lease, receipt, tokens>>
      BY <1>4, <1>t, <2>b DEF Extend, Index, Call
    <3>2. ~At(p, "dead")
      BY <1>4 DEF Extend
    <3>3. index[p].live /\ lease = [holder |-> p, token |-> active[p]] /\ active[p] # 0 =>
                index'[p].live /\ active'[p] = active[p]
      BY <1>4, <1>t, <1>i, <2>b DEF Extend, LiveInv, Claiming, Index, Call, Fenced
    <3>4. QED
      BY <3>1, <3>2, <3>3, <1>i, TokenFrame DEF RInv
  <2>q. QED
    BY <2>a, <2>b
<1>5. ASSUME NEW p \in Processes, Grab(p) PROVE TokenInv'
  <2>a. CASE lease = NoLease
    BY <1>5, <2>a, <1>t, <1>i DEF Grab, TokenInv, NoLease
  <2>b. CASE ~(lease = NoLease)
    <3>1. /\ \A q \in Processes : q # p => /\ call'[q].pc = call[q].pc
                                           /\ index'[q].live = index[q].live
                                           /\ active'[q] = active[q]
          /\ UNCHANGED <<lease, receipt, tokens>>
      BY <1>5, <1>t, <2>b DEF Grab, Index, Call
    <3>2. ~At(p, "dead")
      BY <1>5 DEF Grab
    <3>3. index[p].live /\ lease = [holder |-> p, token |-> active[p]] /\ active[p] # 0 =>
                index'[p].live /\ active'[p] = active[p]
      BY <1>5, <1>t, <1>i, <2>b DEF Grab, LiveInv, Claiming, Index, Call, Fenced
    <3>4. QED
      BY <3>1, <3>2, <3>3, <1>i, TokenFrame DEF RInv
  <2>q. QED
    BY <2>a, <2>b
<1>6. ASSUME NEW p \in Processes, Refused(p) PROVE TokenInv'
  <2>1. /\ \A q \in Processes : q # p => /\ call'[q].pc = call[q].pc
                                         /\ index'[q].live = index[q].live
                                         /\ active'[q] = active[q]
        /\ UNCHANGED <<lease, receipt, tokens>>
    BY <1>6, <1>t DEF Refused, Index, Call
  <2>2. ~At(p, "dead")
    BY <1>6 DEF Refused
  <2>3. index[p].live /\ lease = [holder |-> p, token |-> active[p]] /\ active[p] # 0 =>
              index'[p].live /\ active'[p] = active[p]
    BY <1>6, <1>t, <1>i DEF Refused, LiveInv, Claiming, Index, Call, Fenced
  <2>4. QED
    BY <2>1, <2>2, <2>3, <1>i, TokenFrame DEF RInv
<1>7. ASSUME NEW p \in Processes, Read(p) PROVE TokenInv'
  <2>1. /\ \A q \in Processes : q # p => /\ call'[q].pc = call[q].pc
                                         /\ index'[q].live = index[q].live
                                         /\ active'[q] = active[q]
        /\ UNCHANGED <<lease, receipt, tokens>>
    BY <1>7, <1>t DEF Read, Index, Call
  <2>2. ~At(p, "dead")
    BY <1>7 DEF Read
  <2>3. index[p].live /\ lease = [holder |-> p, token |-> active[p]] /\ active[p] # 0 =>
              index'[p].live /\ active'[p] = active[p]
    BY <1>7, <1>t, <1>i DEF Read, LiveInv, Claiming, Index, Call, Fenced
  <2>4. QED
    BY <2>1, <2>2, <2>3, <1>i, TokenFrame DEF RInv
<1>8. ASSUME NEW p \in Processes, LetGo(p) PROVE TokenInv'
  <2>a. CASE Fenced(p)
    BY <1>8, <2>a, <1>t, <1>i DEF LetGo, TokenInv, NoLease
  <2>b. CASE ~(Fenced(p))
    <3>1. /\ \A q \in Processes : q # p => /\ call'[q].pc = call[q].pc
                                           /\ index'[q].live = index[q].live
                                           /\ active'[q] = active[q]
          /\ UNCHANGED <<lease, receipt, tokens>>
      BY <1>8, <1>t, <2>b DEF LetGo, Dropped, Index, Call
    <3>2. ~At(p, "dead")
      BY <1>8 DEF LetGo
    <3>3. index[p].live /\ lease = [holder |-> p, token |-> active[p]] /\ active[p] # 0 =>
                index'[p].live /\ active'[p] = active[p]
      BY <1>8, <1>t, <1>i, <2>b DEF LetGo, Dropped, LiveInv, Claiming, Index, Call, Fenced
    <3>4. QED
      BY <3>1, <3>2, <3>3, <1>i, TokenFrame DEF RInv
  <2>q. QED
    BY <2>a, <2>b
<1>9. ASSUME NEW p \in Processes, PublishDoubt(p) PROVE TokenInv'
  BY <1>9, <1>t, <1>i DEF PublishDoubt, SetRelease, Receipt, Dropped
<1>10. ASSUME NEW p \in Processes, Publish(p) PROVE TokenInv'
  BY <1>10, <1>t, <1>i DEF Publish, Receipt
<1>11. ASSUME NEW p \in Processes, PublishLost(p) PROVE TokenInv'
  BY <1>11, <1>t, <1>i DEF PublishLost, Dropped
<1>12. ASSUME NEW p \in Processes, Poll(p) PROVE TokenInv'
  <2>1. /\ \A q \in Processes : q # p => /\ call'[q].pc = call[q].pc
                                         /\ index'[q].live = index[q].live
                                         /\ active'[q] = active[q]
        /\ UNCHANGED <<lease, receipt, tokens>>
    BY <1>12, <1>t DEF Poll, Refreshed, Index, Call
  <2>2. ~At(p, "dead")
    BY <1>12 DEF Poll
  <2>3. index[p].live /\ lease = [holder |-> p, token |-> active[p]] /\ active[p] # 0 =>
              index'[p].live /\ active'[p] = active[p]
    BY <1>12, <1>t, <1>i DEF Poll, Refreshed, LiveInv, Claiming, Index, Call, Fenced
  <2>4. QED
    BY <2>1, <2>2, <2>3, <1>i, TokenFrame DEF RInv
<1>13. ASSUME NEW p \in Processes, BeginFails(p) PROVE TokenInv'
  BY <1>13, <1>t, <1>i DEF BeginFails, SetRelease, Receipt
<1>14. ASSUME NEW p \in Processes, PreflightFails(p) PROVE TokenInv'
  BY <1>14, <1>t, <1>i DEF PreflightFails
<1>15. ASSUME NEW p \in Processes, WriteIntent(p) PROVE TokenInv'
  BY <1>15, <1>t, <1>i DEF WriteIntent
<1>16. ASSUME NEW p \in Processes, MarkIntent(p) PROVE TokenInv'
  BY <1>16, <1>t, <1>i DEF MarkIntent, Receipt, Intended, Refreshed
<1>17. ASSUME NEW p \in Processes, MarkIntentLost(p) PROVE TokenInv'
  <2>1. /\ \A q \in Processes : q # p => /\ call'[q].pc = call[q].pc
                                         /\ index'[q].live = index[q].live
                                         /\ active'[q] = active[q]
        /\ UNCHANGED <<lease, receipt, tokens>>
    BY <1>17, <1>t DEF MarkIntentLost, Intended, Refreshed, Index, Call
  <2>2. ~At(p, "dead")
    BY <1>17 DEF MarkIntentLost
  <2>3. index[p].live /\ lease = [holder |-> p, token |-> active[p]] /\ active[p] # 0 =>
              index'[p].live /\ active'[p] = active[p]
    BY <1>17, <1>t, <1>i DEF MarkIntentLost, Intended, Refreshed, LiveInv, Claiming, Index, Call, Fenced
  <2>4. QED
    BY <2>1, <2>2, <2>3, <1>i, TokenFrame DEF RInv
<1>18. ASSUME NEW p \in Processes, MarkIntentFails(p) PROVE TokenInv'
  BY <1>18, <1>t, <1>i DEF MarkIntentFails, Receipt, Intended, Refreshed
<1>19. ASSUME NEW p \in Processes, EnterHandler(p) PROVE TokenInv'
  BY <1>19, <1>t, <1>i DEF EnterHandler
<1>20. ASSUME NEW p \in Processes, HandlerReturns(p) PROVE TokenInv'
  <2>1. /\ \A q \in Processes : q # p => /\ call'[q].pc = call[q].pc
                                         /\ index'[q].live = index[q].live
                                         /\ active'[q] = active[q]
        /\ UNCHANGED <<lease, receipt, tokens>>
    BY <1>20, <1>t DEF HandlerReturns, Index, Call
  <2>2. ~At(p, "dead")
    BY <1>20 DEF HandlerReturns
  <2>3. index[p].live /\ lease = [holder |-> p, token |-> active[p]] /\ active[p] # 0 =>
              index'[p].live /\ active'[p] = active[p]
    BY <1>20, <1>t, <1>i DEF HandlerReturns, LiveInv, Claiming, Index, Call, Fenced
  <2>4. QED
    BY <2>1, <2>2, <2>3, <1>i, TokenFrame DEF RInv
<1>21. ASSUME NEW p \in Processes, EscapeBeforeFinish(p) PROVE TokenInv'
  BY <1>21, <1>t, <1>i DEF EscapeBeforeFinish
<1>22. ASSUME NEW p \in Processes, Commit(p) PROVE TokenInv'
  BY <1>22, <1>t, <1>i DEF Commit, SetRelease, Receipt, Dropped, Finished
<1>23. ASSUME NEW p \in Processes, CommitLost(p) PROVE TokenInv'
  <2>1. /\ \A q \in Processes : q # p => /\ call'[q].pc = call[q].pc
                                         /\ index'[q].live = index[q].live
                                         /\ active'[q] = active[q]
        /\ UNCHANGED <<lease, receipt, tokens>>
    BY <1>23, <1>t DEF CommitLost, Dropped, Finished, Index, Call
  <2>2. ~At(p, "dead")
    BY <1>23 DEF CommitLost
  <2>3. index[p].live /\ lease = [holder |-> p, token |-> active[p]] /\ active[p] # 0 =>
              index'[p].live /\ active'[p] = active[p]
    BY <1>23, <1>t, <1>i DEF CommitLost, Dropped, Finished, LiveInv, Claiming, Index, Call, Fenced
  <2>4. QED
    BY <2>1, <2>2, <2>3, <1>i, TokenFrame DEF RInv
<1>24. ASSUME NEW p \in Processes, FinishFailed(p) PROVE TokenInv'
  <2>a. CASE Fenced(p)
    BY <1>24, <2>a, <1>t, <1>i DEF FinishFailed, Discredit, SetRelease, Receipt, Fenced, Absent, TokenInv, NoLease
  <2>b. CASE ~(Fenced(p))
    <3>1. /\ \A q \in Processes : q # p => /\ call'[q].pc = call[q].pc
                                           /\ index'[q].live = index[q].live
                                           /\ active'[q] = active[q]
          /\ UNCHANGED <<lease, receipt, tokens>>
      BY <1>24, <1>t, <2>b DEF FinishFailed, Discredit, SetRelease, Dropped, Finished, Index, Call
    <3>2. ~At(p, "dead")
      BY <1>24 DEF FinishFailed
    <3>3. index[p].live /\ lease = [holder |-> p, token |-> active[p]] /\ active[p] # 0 =>
                index'[p].live /\ active'[p] = active[p]
      BY <1>24, <1>t, <1>i, <2>b DEF FinishFailed, Discredit, SetRelease, Dropped, Finished, LiveInv, Claiming, Index, Call, Fenced
    <3>4. QED
      BY <3>1, <3>2, <3>3, <1>i, TokenFrame DEF RInv
  <2>q. QED
    BY <2>a, <2>b
<1>25. ASSUME NEW p \in Processes, FinishFails(p) PROVE TokenInv'
  BY <1>25, <1>t, <1>i DEF FinishFails, Discredit, SetRelease, Receipt
<1>26. ASSUME NEW p \in Processes, WriteStep(p) PROVE TokenInv'
  <2>1. /\ \A q \in Processes : q # p => /\ call'[q].pc = call[q].pc
                                         /\ index'[q].live = index[q].live
                                         /\ active'[q] = active[q]
        /\ UNCHANGED <<lease, receipt, tokens>>
    BY <1>26, <1>t DEF WriteStep, Index, Call
  <2>2. ~At(p, "dead")
    BY <1>26 DEF WriteStep
  <2>3. index[p].live /\ lease = [holder |-> p, token |-> active[p]] /\ active[p] # 0 =>
              index'[p].live /\ active'[p] = active[p]
    BY <1>26, <1>t, <1>i DEF WriteStep, LiveInv, Claiming, Index, Call, Fenced
  <2>4. QED
    BY <2>1, <2>2, <2>3, <1>i, TokenFrame DEF RInv
<1>27. ASSUME NEW p \in Processes, StepAppendFails(p) PROVE TokenInv'
  BY <1>27, <1>t, <1>i DEF StepAppendFails
<1>28. ASSUME NEW p \in Processes, RenewLost(p) PROVE TokenInv'
  BY <1>28, <1>t, <1>i DEF RenewLost, Dropped
<1>29. ASSUME NEW p \in Processes, Crash(p) PROVE TokenInv'
  BY <1>29, <1>t, <1>i DEF Crash, Dropped, NoCall, NoIndex
<1>30. CASE LeaseLapses
  BY <1>30, <1>t, <1>i DEF LeaseLapses
<1>31. CASE Review
  BY <1>31, <1>t, <1>i DEF Review
<1>32. CASE AuthorizeRetry
  BY <1>32, <1>t, <1>i DEF AuthorizeRetry
<1>33. QED
  BY <1>1, <1>2, <1>3, <1>4, <1>5, <1>6, <1>7, <1>8, <1>9, <1>10, <1>11, <1>12, <1>13, <1>14,
     <1>15, <1>16, <1>17, <1>18, <1>19, <1>20, <1>21, <1>22, <1>23, <1>24, <1>25, <1>26, <1>27,
     <1>28, <1>29, <1>30, <1>31, <1>32
  DEF Next, Begin, Execute, Finish

\* A token that was seen on an indeterminate receipt is on no lease.
LEMMA ReviewStep ==
    ASSUME TypeOK, RInv, Next
    PROVE  ReviewInv'
<1> USE DEF redis, history, At, Goto, TokenInv, ReviewInv, Fenced, NoLease, Absent
<1>t. /\ lease \in [holder: Processes \union {Nobody}, token: Nat]
      /\ receipt \in [state: States, token: Nat, result: Nat]
      /\ tokens \in Nat /\ starts \in Nat
      /\ active \in [Processes -> Nat] /\ index \in [Processes -> Index]
      /\ call \in [Processes -> Call]
      /\ reviewed \in [seen: BOOLEAN, token: Nat, starts: Nat]
      /\ Nobody \notin Processes
  BY ConstantsAssumption DEF TypeOK, ConstantsAssumption
<1>i. TokenInv /\ ReviewInv
  BY DEF RInv
<1>1. ASSUME NEW p \in Processes, Deliver(p) PROVE ReviewInv'
  BY <1>1, <1>t, <1>i DEF Deliver, Refreshed, NoCall
<1>2. ASSUME NEW p \in Processes, Repair(p) PROVE ReviewInv'
  BY <1>2, <1>t, <1>i DEF Repair
<1>3. ASSUME NEW p \in Processes, Lookup(p) PROVE ReviewInv'
  BY <1>3, <1>t, <1>i DEF Lookup
<1>4. ASSUME NEW p \in Processes, Extend(p) PROVE ReviewInv'
  BY <1>4, <1>t, <1>i DEF Extend
<1>5. ASSUME NEW p \in Processes, Grab(p) PROVE ReviewInv'
  BY <1>5, <1>t, <1>i DEF Grab
<1>6. ASSUME NEW p \in Processes, Refused(p) PROVE ReviewInv'
  BY <1>6, <1>t, <1>i DEF Refused
<1>7. ASSUME NEW p \in Processes, Read(p) PROVE ReviewInv'
  BY <1>7, <1>t, <1>i DEF Read
<1>8. ASSUME NEW p \in Processes, LetGo(p) PROVE ReviewInv'
  BY <1>8, <1>t, <1>i DEF LetGo, Dropped
<1>9. ASSUME NEW p \in Processes, PublishDoubt(p) PROVE ReviewInv'
  BY <1>9, <1>t, <1>i DEF PublishDoubt, SetRelease, Receipt, Dropped
<1>10. ASSUME NEW p \in Processes, Publish(p) PROVE ReviewInv'
  BY <1>10, <1>t, <1>i DEF Publish, Receipt
<1>11. ASSUME NEW p \in Processes, PublishLost(p) PROVE ReviewInv'
  BY <1>11, <1>t, <1>i DEF PublishLost, Dropped
<1>12. ASSUME NEW p \in Processes, Poll(p) PROVE ReviewInv'
  BY <1>12, <1>t, <1>i DEF Poll, Refreshed
<1>13. ASSUME NEW p \in Processes, BeginFails(p) PROVE ReviewInv'
  BY <1>13, <1>t, <1>i DEF BeginFails, SetRelease, Receipt
<1>14. ASSUME NEW p \in Processes, PreflightFails(p) PROVE ReviewInv'
  BY <1>14, <1>t, <1>i DEF PreflightFails
<1>15. ASSUME NEW p \in Processes, WriteIntent(p) PROVE ReviewInv'
  BY <1>15, <1>t, <1>i DEF WriteIntent
<1>16. ASSUME NEW p \in Processes, MarkIntent(p) PROVE ReviewInv'
  BY <1>16, <1>t, <1>i DEF MarkIntent, Receipt, Intended, Refreshed
<1>17. ASSUME NEW p \in Processes, MarkIntentLost(p) PROVE ReviewInv'
  BY <1>17, <1>t, <1>i DEF MarkIntentLost, Intended, Refreshed
<1>18. ASSUME NEW p \in Processes, MarkIntentFails(p) PROVE ReviewInv'
  BY <1>18, <1>t, <1>i DEF MarkIntentFails, Receipt, Intended, Refreshed
<1>19. ASSUME NEW p \in Processes, EnterHandler(p) PROVE ReviewInv'
  BY <1>19, <1>t, <1>i DEF EnterHandler
<1>20. ASSUME NEW p \in Processes, HandlerReturns(p) PROVE ReviewInv'
  BY <1>20, <1>t, <1>i DEF HandlerReturns
<1>21. ASSUME NEW p \in Processes, EscapeBeforeFinish(p) PROVE ReviewInv'
  BY <1>21, <1>t, <1>i DEF EscapeBeforeFinish
<1>22. ASSUME NEW p \in Processes, Commit(p) PROVE ReviewInv'
  BY <1>22, <1>t, <1>i DEF Commit, SetRelease, Receipt, Dropped, Finished
<1>23. ASSUME NEW p \in Processes, CommitLost(p) PROVE ReviewInv'
  BY <1>23, <1>t, <1>i DEF CommitLost, Dropped, Finished
<1>24. ASSUME NEW p \in Processes, FinishFailed(p) PROVE ReviewInv'
  BY <1>24, <1>t, <1>i DEF FinishFailed, Discredit, SetRelease, Receipt, Dropped, Finished
<1>25. ASSUME NEW p \in Processes, FinishFails(p) PROVE ReviewInv'
  BY <1>25, <1>t, <1>i DEF FinishFails, Discredit, SetRelease, Receipt
<1>26. ASSUME NEW p \in Processes, WriteStep(p) PROVE ReviewInv'
  BY <1>26, <1>t, <1>i DEF WriteStep
<1>27. ASSUME NEW p \in Processes, StepAppendFails(p) PROVE ReviewInv'
  BY <1>27, <1>t, <1>i DEF StepAppendFails
<1>28. ASSUME NEW p \in Processes, RenewLost(p) PROVE ReviewInv'
  BY <1>28, <1>t, <1>i DEF RenewLost, Dropped
<1>29. ASSUME NEW p \in Processes, Crash(p) PROVE ReviewInv'
  BY <1>29, <1>t, <1>i DEF Crash, Dropped, NoCall, NoIndex
<1>30. CASE LeaseLapses
  BY <1>30, <1>t, <1>i DEF LeaseLapses
<1>31. CASE Review
  BY <1>31, <1>t, <1>i DEF Review
<1>32. CASE AuthorizeRetry
  BY <1>32, <1>t, <1>i DEF AuthorizeRetry
<1>33. QED
  BY <1>1, <1>2, <1>3, <1>4, <1>5, <1>6, <1>7, <1>8, <1>9, <1>10, <1>11, <1>12, <1>13, <1>14,
     <1>15, <1>16, <1>17, <1>18, <1>19, <1>20, <1>21, <1>22, <1>23, <1>24, <1>25, <1>26, <1>27,
     <1>28, <1>29, <1>30, <1>31, <1>32
  DEF Next, Begin, Execute, Finish

-----------------------------------------------------------------------------
LEMMA RStutter == TypeOK /\ RInv /\ UNCHANGED vars => RInv'
BY DEF RInv, TokenInv, LiveInv, ReviewInv, vars, redis, history, At

LEMMA InitR == Init => RInv
BY ConstantsAssumption DEF ConstantsAssumption, Init, RInv, TokenInv, LiveInv, ReviewInv,
   At, NoLease, Absent, NoCall, NoIndex, Claiming

\* Every behaviour keeps the three invariants.
THEOREM Tokens == Spec => [](TypeOK /\ RInv)
<1>1. Init => TypeOK /\ RInv
  BY InitType, InitR
<1>2. TypeOK /\ RInv /\ [Next]_vars => (TypeOK /\ RInv)'
  BY TypeStep, TokenStep, LiveStep, ReviewStep, RStutter DEF RInv
<1>3. QED
  BY <1>1, <1>2, PTL DEF Spec

\* An authorisation covers what its operator saw: the token compared by the
\* script (redis_effect_store.py, authorize_retry) is never drawn again.
THEOREM ReviewsCover == Spec => ReviewCoversStarts
<1>1. ASSUME TypeOK, RInv, [Next]_vars, authorized' > authorized
      PROVE  reviewed.starts = starts
  <2>1. AuthorizeRetry
    <3>1. authorized' # authorized
      <4>1. authorized \in Nat
        BY <1>1 DEF TypeOK
      <4>2. QED
        BY <4>1, <1>1
    <3>2. ASSUME NEW p \in Processes, Begin(p) PROVE UNCHANGED authorized
      BY <3>2 DEF Begin, history, Deliver, Repair, Lookup, Extend, Grab, Refused, Read, LetGo,
         PublishDoubt, Publish, PublishLost, Poll, BeginFails
    <3>3. ASSUME NEW p \in Processes, Execute(p) PROVE UNCHANGED authorized
      BY <3>3 DEF Execute, history, PreflightFails, WriteIntent, MarkIntent, MarkIntentLost,
         MarkIntentFails, EnterHandler, HandlerReturns
    <3>4. ASSUME NEW p \in Processes, Finish(p) PROVE UNCHANGED authorized
      BY <3>4 DEF Finish, history, EscapeBeforeFinish, Commit, CommitLost, FinishFailed,
         FinishFails, WriteStep, StepAppendFails
    <3>5. ASSUME NEW p \in Processes, RenewLost(p) \/ Crash(p) PROVE UNCHANGED authorized
      BY <3>5 DEF history, RenewLost, Crash
    <3>6. QED
      BY <1>1, <3>1, <3>2, <3>3, <3>4, <3>5 DEF Next, LeaseLapses, Review, history, vars
  <2>2. QED
    BY <2>1, <1>1 DEF AuthorizeRetry, RInv, ReviewInv
<1>2. QED
  BY <1>1, Tokens, PTL DEF Spec, ReviewCoversStarts

\* What makes a started receipt indeterminate.
Doubted ==
    receipt.state = "started" /\ receipt'.state = "indeterminate" =>
       \/ receipt'.token > receipt.token
       \/ \E p \in Processes : At(p, "finishing") /\ active[p] = receipt.token

\* A fenced write of a process that works on it or has a newer token.
LEMMA FencedDoubt ==
    ASSUME TypeOK, RInv, NEW p \in Processes, SetRelease(p, "indeterminate", 0),
           At(p, "publish") \/ At(p, "finishing")
    PROVE  Doubted
<1>t. /\ lease \in [holder: Processes \union {Nobody}, token: Nat]
      /\ receipt \in [state: States, token: Nat, result: Nat]
      /\ tokens \in Nat /\ starts \in Nat
      /\ active \in [Processes -> Nat] /\ index \in [Processes -> Index]
      /\ call \in [Processes -> Call]
      /\ reviewed \in [seen: BOOLEAN, token: Nat, starts: Nat]
      /\ Nobody \notin Processes
  BY ConstantsAssumption DEF TypeOK, ConstantsAssumption
<1>1. SUFFICES ASSUME receipt.state = "started", receipt'.state = "indeterminate"
      PROVE  \/ receipt'.token > receipt.token
             \/ At(p, "finishing") /\ active[p] = receipt.token
  BY DEF Doubted
<1>2. /\ lease = [holder |-> p, token |-> active[p]] /\ lease # NoLease
      /\ receipt'.token = active[p] /\ receipt.token <= active[p]
  BY <1>1, <1>t DEF SetRelease, Fenced, Receipt, RInv, TokenInv, NoLease
<1>3. CASE receipt.token = active[p]
  BY <1>t, <1>1, <1>2, <1>3 DEF RInv, TokenInv, LiveInv, At, Claiming
<1>4. CASE receipt.token # active[p]
  BY <1>t, <1>2, <1>4
<1>5. QED
  BY <1>3, <1>4

\* A claim never discredits the delivery that works under its own lease
\* (redis_effect_store.py, claim's indeterminate write).
THEOREM DoubtEarned == Spec => DoubtIsEarned
<1>1. ASSUME TypeOK, RInv, [Next]_vars PROVE Doubted
  <2> USE DEF redis, history
  <2>1. ASSUME NEW p \in Processes, PublishDoubt(p) PROVE Doubted
    BY <1>1, <2>1, FencedDoubt DEF PublishDoubt
  <2>2. ASSUME NEW p \in Processes, BeginFails(p) PROVE Doubted
    <3>1. CASE At(p, "publish") /\ SetRelease(p, "indeterminate", 0)
      BY <1>1, <3>1, FencedDoubt
    <3>2. CASE UNCHANGED receipt
      BY <3>2 DEF Doubted
    <3>3. CASE receipt' = Receipt(p, "claimed", 0)
      BY <3>3 DEF Doubted, Receipt
    <3>4. QED
      BY <2>2, <3>1, <3>2, <3>3 DEF BeginFails
  <2>3. ASSUME NEW p \in Processes, Discredit(p), At(p, "finishing") PROVE Doubted
    <3>1. CASE Fenced(p) /\ ~index[p].intent
      BY <2>3, <3>1 DEF Discredit, Absent, Doubted
    <3>2. CASE ~(Fenced(p) /\ ~index[p].intent)
      BY <1>1, <2>3, <3>2, FencedDoubt DEF Discredit
    <3>3. QED
      BY <3>1, <3>2
  <2>4. ASSUME NEW p \in Processes, FinishFailed(p) PROVE Doubted
    BY <2>3, <2>4 DEF FinishFailed
  <2>5. ASSUME NEW p \in Processes, SetRelease(p, "committed", call[p].attempt) PROVE Doubted
    BY <2>5 DEF SetRelease, Receipt, Doubted
  <2>6. ASSUME NEW p \in Processes, FinishFails(p) PROVE Doubted
    <3>1. CASE UNCHANGED receipt
      BY <3>1 DEF Doubted
    <3>2. QED
      BY <2>3, <2>5, <2>6, <3>1 DEF FinishFails
  <2>7. ASSUME NEW p \in Processes, Commit(p) PROVE Doubted
    BY <2>5, <2>7 DEF Commit
  <2>8. ASSUME NEW p \in Processes,
               \/ Repair(p) \/ Publish(p) \/ MarkIntent(p) \/ MarkIntentFails(p)
        PROVE  Doubted
    <3>1. CASE Repair(p)
      <4>1. receipt' = receipt \/ receipt' = [receipt EXCEPT !.state = "committed",
                                                            !.result = index[p].known]
        BY <3>1 DEF Repair
      <4>2. [receipt EXCEPT !.state = "committed", !.result = index[p].known].state = "committed"
        BY <1>1 DEF TypeOK
      <4>3. QED
        BY <4>1, <4>2 DEF Doubted
    <3>2. CASE Publish(p) \/ MarkIntent(p)
      BY <3>2 DEF Publish, MarkIntent, Receipt, Doubted
    <3>3. CASE MarkIntentFails(p)
      BY <3>3 DEF MarkIntentFails, Receipt, Doubted
    <3>4. QED
      BY <2>8, <3>1, <3>2, <3>3
  <2>9. CASE AuthorizeRetry
    BY <2>9, <1>1 DEF AuthorizeRetry, Doubted
  <2>10. CASE UNCHANGED receipt
    BY <2>10 DEF Doubted
  <2>11. ASSUME NEW p \in Processes, Begin(p) PROVE Doubted
    BY <2>1, <2>2, <2>8, <2>10, <2>11 DEF Begin, Deliver, Lookup, Extend, Grab, Refused, Read,
       LetGo, PublishLost, Poll
  <2>12. ASSUME NEW p \in Processes, Execute(p) PROVE Doubted
    BY <2>8, <2>10, <2>12 DEF Execute, PreflightFails, WriteIntent, MarkIntentLost,
       EnterHandler, HandlerReturns
  <2>13. ASSUME NEW p \in Processes, Finish(p) PROVE Doubted
    BY <2>4, <2>6, <2>7, <2>10, <2>13 DEF Finish, EscapeBeforeFinish, CommitLost, WriteStep,
       StepAppendFails
  <2>14. QED
    BY <1>1, <2>9, <2>10, <2>11, <2>12, <2>13 DEF Next, vars, RenewLost, Crash, LeaseLapses,
       Review
<1>2. QED
  BY <1>1, Tokens, PTL DEF Spec, DoubtIsEarned, Doubted

=============================================================================
