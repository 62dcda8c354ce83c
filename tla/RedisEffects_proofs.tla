------------------------ MODULE RedisEffects_proofs ------------------------
(***************************************************************************)
(* Proofs about RedisEffects: for any hosts and any bounds the variables   *)
(* keep their types, a side effect is attempted at most once per           *)
(* authorisation, published results agree, and the receipts implement the  *)
(* contract of the EffectStore protocol.                                   *)
(***************************************************************************)
EXTENDS RedisEffects, FiniteSetTheorems, TLAPS

LEMMA InitType == Init => TypeOK
BY ConstantsAssumption DEF ConstantsAssumption, Init, TypeOK, NoLease, Absent, NoIndex,
   NoCall, Index, Call, Phases, Claiming, Working, States, Terminal

\* What the delivery of a process may be set to.
LEMMA CallTypes ==
    ASSUME TypeOK, NEW p \in Processes
    PROVE  \A pc \in Phases :
             /\ [call EXCEPT ![p].pc = pc] \in [Processes -> Call]
             /\ \A t \in Nat :
                  /\ [call EXCEPT ![p].pc = pc, ![p].token = t] \in [Processes -> Call]
                  /\ [call EXCEPT ![p].pc = pc, ![p].attempt = t] \in [Processes -> Call]
             /\ \A s \in States, t \in Nat :
                  [call EXCEPT ![p].pc = pc, ![p].seen = s, ![p].attempt = t]
                     \in [Processes -> Call]
             /\ \A t \in Nat, v \in Nat :
                  [call EXCEPT ![p].pc = pc, ![p].token = t, ![p].attempt = v]
                     \in [Processes -> Call]
             /\ \A b \in BOOLEAN :
                  /\ [call EXCEPT ![p].pc = pc, ![p].intent = b] \in [Processes -> Call]
                  /\ [call EXCEPT ![p].pc = pc, ![p].ok = b] \in [Processes -> Call]
                  /\ [call EXCEPT ![p] = [NoCall EXCEPT !.intent = b, !.pc = pc]]
                        \in [Processes -> Call]
<1>1. call \in [Processes -> Call] /\ call[p] \in Call
  BY DEF TypeOK
<1>2. NoCall \in Call
  BY DEF NoCall, Call, Phases, States, Terminal
<1>3. QED
  BY <1>1, <1>2, ZenonT(40) DEF Call

\* What the index of a process may be set to.
LEMMA IndexTypes ==
    ASSUME TypeOK, NEW p \in Processes
    PROVE  /\ {Refreshed(p), Intended(p), [Intended(p) EXCEPT !.beat = TRUE],
                [Intended(p) EXCEPT !.live = FALSE], Finished(p), NoIndex} \subseteq Index
           /\ \A i \in Index : [index EXCEPT ![p] = i] \in [Processes -> Index]
           /\ \A v \in Nat :
                /\ [Finished(p) EXCEPT !.known = v] \in Index
                /\ [index EXCEPT ![p].known = v] \in [Processes -> Index]
           /\ [index EXCEPT ![p].live = TRUE] \in [Processes -> Index]
           /\ [index EXCEPT ![p].beat = FALSE] \in [Processes -> Index]
<1>1. index \in [Processes -> Index] /\ index[p] \in Index
  BY DEF TypeOK
<1>2. journal.intent \in BOOLEAN /\ journal.result \in Nat
  BY DEF TypeOK
<1>3. Refreshed(p) \in Index
  BY <1>1, <1>2, Zenon DEF Refreshed, Index
<1>4. Intended(p) \in Index
  BY <1>3, ConstantsAssumption DEF Intended, Index, ConstantsAssumption
<1>5. Finished(p) \in Index /\ NoIndex \in Index
  BY <1>1, Zenon DEF Finished, NoIndex, Index
<1>6. QED
  BY <1>1, <1>3, <1>4, <1>5, Zenon DEF Index

\* What the receipt, the lease and a process's token may be set to.
LEMMA RedisTypes ==
    ASSUME TypeOK, NEW p \in Processes
    PROVE  /\ \A s \in States, v \in Nat :
                Receipt(p, s, v) \in [state: States, token: Nat, result: Nat]
           /\ Absent \in [state: States, token: Nat, result: Nat]
           /\ NoLease \in [holder: Processes \union {Nobody}, token: Nat]
           /\ Dropped(p) \in [Processes -> Nat]
           /\ \A t \in Nat : [active EXCEPT ![p] = t] \in [Processes -> Nat]
BY DEF TypeOK, Receipt, Absent, NoLease, Dropped, States, Terminal

\* The bound counters stay counters.
LEMMA FaultType ==
    ASSUME TypeOK, Fault
    PROVE  used' \in [deliveries: Nat, lapses: Nat, crashes: Nat, faults: Nat]
BY DEF TypeOK, Fault

\* The next lease and receipt are of their types.
RedisOK == /\ receipt' \in [state: States, token: Nat, result: Nat]
           /\ lease' \in [holder: Processes \union {Nobody}, token: Nat]

\* A delivery may be moved to any phase.
LEMMA GotoType ==
    ASSUME TypeOK, NEW p \in Processes, NEW pc \in Phases, Goto(p, pc)
    PROVE  call' \in [Processes -> Call]
BY CallTypes, Zenon DEF Goto

\* The values actions copy from one variable to another.
LEMMA FieldTypes ==
    ASSUME TypeOK, NEW p \in Processes
    PROVE  /\ call[p].attempt \in Nat /\ call[p].token \in Nat
           /\ active[p] \in Nat /\ index[p].known \in Nat
           /\ receipt.result \in Nat /\ receipt.token \in Nat /\ receipt.state \in States
           /\ lease.token \in Nat /\ tokens \in Nat /\ starts \in Nat
           /\ call[p].intent \in BOOLEAN /\ Refreshed(p).intent \in BOOLEAN
<1>1. Refreshed(p) \in Index
  BY IndexTypes, Zenon
<1>2. QED
  BY <1>1 DEF TypeOK, Call, Index

\* The lease and the receipt keep their types under the fenced scripts.
LEMMA ScriptTypes ==
    ASSUME TypeOK, NEW p \in Processes
    PROVE  /\ \A s \in States, v \in Nat : SetRelease(p, s, v) => RedisOK
           /\ Discredit(p) => RedisOK
<1>1. \A s \in States, v \in Nat : SetRelease(p, s, v) => RedisOK
  <2> SUFFICES ASSUME NEW s \in States, NEW v \in Nat, SetRelease(p, s, v) PROVE RedisOK
    OBVIOUS
  <2>1. CASE Fenced(p)
    BY <2>1, RedisTypes DEF SetRelease, RedisOK
  <2>2. CASE ~Fenced(p)
    BY <2>2 DEF SetRelease, RedisOK, TypeOK
  <2>3. QED
    BY <2>1, <2>2
<1>2. "indeterminate" \in States /\ 0 \in Nat
  BY DEF States, Terminal
<1>3. Discredit(p) => RedisOK
  BY <1>1, <1>2, RedisTypes DEF Discredit, RedisOK
<1>4. QED
  BY <1>1, <1>3

LEMMA TypeStep ==
    ASSUME TypeOK, [Next]_vars
    PROVE  TypeOK'
<1>1. ASSUME NEW p \in Processes, Deliver(p) PROVE TypeOK'
  <2>1. call' \in [Processes -> Call]
    <3>1. PICK pc \in Phases :
            call' = [call EXCEPT ![p] = [NoCall EXCEPT !.intent = Refreshed(p).intent,
                                                       !.pc = pc]]
      BY <1>1, Zenon DEF Deliver, Phases, Claiming
    <3>2. QED
      BY <3>1, CallTypes, FieldTypes, Zenon
  <2>2. index' \in [Processes -> Index]
    BY <1>1, IndexTypes, FieldTypes, Zenon DEF Deliver
  <2>3. QED
    BY <1>1, <2>1, <2>2 DEF Deliver, TypeOK, redis, history, RedisOK
<1>2. ASSUME NEW p \in Processes, Repair(p) PROVE TypeOK'
  <2>1. call' \in [Processes -> Call]
    BY <1>2, CallTypes, FieldTypes, Zenon DEF Repair, Goto, Phases, Claiming, Working
  <2>2. receipt' \in [state: States, token: Nat, result: Nat]
    BY <1>2, RedisTypes, FieldTypes, Zenon DEF Repair, TypeOK, States, Terminal
  <2>3. QED
    BY <1>2, <2>1, <2>2 DEF Repair, TypeOK, redis, history, RedisOK
<1>3. ASSUME NEW p \in Processes, Lookup(p) PROVE TypeOK'
  <2>1. call' \in [Processes -> Call]
    <3>1. PICK pc \in Phases : call' = [call EXCEPT ![p].pc = pc, ![p].token = lease.token]
      BY <1>3, Zenon DEF Lookup, Phases, Claiming
    <3>2. QED
      BY <3>1, CallTypes, FieldTypes, Zenon
  <2>2. QED
    BY <1>3, <2>1 DEF Lookup, TypeOK, redis, history, RedisOK
<1>4. ASSUME NEW p \in Processes, Extend(p) PROVE TypeOK'
  <2>1. PICK pc \in Phases : Goto(p, pc)
    BY <1>4 DEF Extend, Phases, Claiming, Working
  <2>2. call' \in [Processes -> Call]
    BY <2>1, GotoType
  <2>3. active' \in [Processes -> Nat]
    BY <1>4, RedisTypes, FieldTypes, Zenon DEF Extend, TypeOK
  <2>4. QED
    BY <1>4, <2>2, <2>3 DEF Extend, TypeOK, redis, history, RedisOK
<1>5. ASSUME NEW p \in Processes, Grab(p) PROVE TypeOK'
  <2>1. PICK pc \in Phases : Goto(p, pc)
    BY <1>5 DEF Grab, Phases, Claiming, Working
  <2>2. call' \in [Processes -> Call]
    BY <2>1, GotoType
  <2>3. /\ lease' \in [holder: Processes \union {Nobody}, token: Nat]
        /\ tokens' \in Nat /\ active' \in [Processes -> Nat]
    <3>1. CASE lease = NoLease
      <4>1. tokens + 1 \in Nat
        BY FieldTypes
      <4>2. /\ lease' = [holder |-> p, token |-> tokens + 1]
            /\ tokens' = tokens + 1
            /\ active' = [active EXCEPT ![p] = tokens + 1]
        BY <1>5, <3>1 DEF Grab
      <4>3. active' \in [Processes -> Nat]
        BY <4>1, <4>2, RedisTypes, Zenon
      <4>4. QED
        BY <4>1, <4>2, <4>3
    <3>2. CASE lease # NoLease
      BY <1>5, <3>2 DEF Grab, TypeOK
    <3>3. QED
      BY <3>1, <3>2
  <2>4. QED
    BY <1>5, <2>2, <2>3 DEF Grab, TypeOK, redis, history, RedisOK
<1>6. ASSUME NEW p \in Processes, Refused(p) PROVE TypeOK'
  <2>1. CASE receipt.state = "committed"
    <3>1. call' = [call EXCEPT ![p].pc = "journaling", ![p].attempt = receipt.result]
          /\ index' = [index EXCEPT ![p].known = receipt.result]
      BY <1>6, <2>1 DEF Refused, Terminal
    <3>2. call' \in [Processes -> Call] /\ index' \in [Processes -> Index]
      BY <3>1, CallTypes, IndexTypes, FieldTypes, Zenon DEF Phases
    <3>3. QED
      BY <1>6, <3>2 DEF Refused, TypeOK, redis, history
  <2>2. CASE receipt.state # "committed"
    <3>1. PICK pc \in Phases : Goto(p, pc)
      BY <1>6, <2>2 DEF Refused, Phases
    <3>2. QED
      BY <1>6, <2>2, <3>1, GotoType DEF Refused, TypeOK, redis, history
  <2>3. QED
    BY <2>1, <2>2 DEF Refused, TypeOK, redis, history, RedisOK
<1>7. ASSUME NEW p \in Processes, Read(p) PROVE TypeOK'
  <2>1. PICK pc \in Phases :
         call' = [call EXCEPT ![p].pc = pc, ![p].seen = receipt.state,
                              ![p].attempt = receipt.result]
    BY <1>7, Zenon DEF Read, Phases, Claiming
  <2>2. call' \in [Processes -> Call]
    BY <2>1, CallTypes, FieldTypes, Zenon
  <2>3. QED
    BY <1>7, <2>2 DEF Read, TypeOK, redis, history, RedisOK
<1>8. ASSUME NEW p \in Processes, LetGo(p) PROVE TypeOK'
  <2>1. PICK pc \in Phases : Goto(p, pc)
    BY <1>8 DEF LetGo, Phases, Claiming, Working
  <2>2. call' \in [Processes -> Call]
    BY <2>1, GotoType
  <2>3. index' \in [Processes -> Index]
    <3>1. CASE call[p].seen = "committed"
      <4>1. index' = [index EXCEPT ![p].known = call[p].attempt]
        BY <1>8, <3>1 DEF LetGo
      <4>2. QED
        BY <4>1, IndexTypes, FieldTypes, Zenon
    <3>2. CASE call[p].seen # "committed"
      BY <1>8, <3>2 DEF LetGo, TypeOK
    <3>3. QED
      BY <3>1, <3>2
  <2>4. receipt' \in [state: States, token: Nat, result: Nat]
    BY <1>8, RedisTypes, FieldTypes DEF LetGo, TypeOK, States, Terminal
  <2>5. lease' \in [holder: Processes \union {Nobody}, token: Nat]
    BY <1>8, RedisTypes DEF LetGo, TypeOK
  <2>6. active' \in [Processes -> Nat]
    BY <1>8, RedisTypes, FieldTypes DEF LetGo, TypeOK
  <2>7. QED
    BY <1>8, <2>2, <2>3, <2>4, <2>5, <2>6 DEF LetGo, TypeOK, redis, history, RedisOK
<1>9. ASSUME NEW p \in Processes, PublishDoubt(p) PROVE TypeOK'
  <2>1. call' \in [Processes -> Call]
    BY <1>9, CallTypes, FieldTypes, Zenon DEF PublishDoubt, Goto, Phases, Claiming, Working
  <2>2. RedisOK
    BY <1>9, ScriptTypes, FieldTypes DEF PublishDoubt, States, Terminal, RedisOK, TypeOK
  <2>3. active' \in [Processes -> Nat]
    BY <1>9, RedisTypes, FieldTypes DEF PublishDoubt, TypeOK
  <2>4. QED
    BY <1>9, <2>1, <2>2, <2>3 DEF PublishDoubt, TypeOK, redis, history, RedisOK
<1>10. ASSUME NEW p \in Processes, Publish(p) PROVE TypeOK'
  <2>1. call' \in [Processes -> Call]
    BY <1>10, CallTypes, FieldTypes, Zenon DEF Publish, Goto, Phases, Claiming, Working
  <2>2. index' \in [Processes -> Index]
    BY <1>10, IndexTypes, FieldTypes, Zenon DEF Publish
  <2>3. receipt' \in [state: States, token: Nat, result: Nat]
    BY <1>10, RedisTypes, FieldTypes, Zenon DEF Publish, TypeOK, States, Terminal
  <2>4. QED
    BY <1>10, <2>1, <2>2, <2>3 DEF Publish, TypeOK, redis, history, RedisOK
<1>11. ASSUME NEW p \in Processes, PublishLost(p) PROVE TypeOK'
  <2>1. PICK pc \in Phases : Goto(p, pc)
    BY <1>11 DEF PublishLost, Phases, Claiming, Working
  <2>2. call' \in [Processes -> Call]
    BY <2>1, GotoType
  <2>3. active' \in [Processes -> Nat]
    BY <1>11, RedisTypes, FieldTypes DEF PublishLost, TypeOK
  <2>4. QED
    BY <1>11, <2>2, <2>3 DEF PublishLost, TypeOK, redis, history, RedisOK
<1>12. ASSUME NEW p \in Processes, Poll(p) PROVE TypeOK'
  <2>1. call' \in [Processes -> Call]
    <3>1. PICK pc \in Phases, b \in BOOLEAN :
            call' = [call EXCEPT ![p].pc = pc, ![p].intent = b]
      BY <1>12, FieldTypes, Zenon DEF Poll, Phases, Claiming
    <3>2. QED
      BY <3>1, CallTypes, Zenon
  <2>2. index' \in [Processes -> Index]
    BY <1>12, IndexTypes, FieldTypes, Zenon DEF Poll
  <2>3. QED
    BY <1>12, <2>1, <2>2 DEF Poll, TypeOK, redis, history, RedisOK
<1>13. ASSUME NEW p \in Processes, BeginFails(p) PROVE TypeOK'
  <2>1. call' \in [Processes -> Call]
    BY <1>13, CallTypes, FieldTypes, Zenon DEF BeginFails, Goto, Phases, Claiming, Working
  <2>2. RedisOK /\ tokens' \in Nat
    <3> USE DEF RedisOK
    <3>1. CASE UNCHANGED redis
      BY <3>1 DEF redis, TypeOK
    <3>2. CASE tokens' = tokens + 1 /\ lease' = [holder |-> p, token |-> tokens + 1]
               /\ UNCHANGED receipt
      BY <3>2, FieldTypes DEF TypeOK
    <3>3. CASE lease' = NoLease /\ UNCHANGED <<receipt, tokens>>
      BY <3>3, RedisTypes DEF TypeOK
    <3>4. CASE SetRelease(p, "indeterminate", 0) /\ UNCHANGED tokens
      BY <3>4, ScriptTypes, FieldTypes DEF States, Terminal, TypeOK
    <3>5. CASE receipt' = Receipt(p, "claimed", 0) /\ UNCHANGED <<lease, tokens>>
      BY <3>5, RedisTypes, Zenon DEF States, TypeOK
    <3>6. QED
      BY <1>13, <3>1, <3>2, <3>3, <3>4, <3>5 DEF BeginFails
  <2>3. used' \in [deliveries: Nat, lapses: Nat, crashes: Nat, faults: Nat]
    BY <1>13, FaultType DEF BeginFails
  <2>4. QED
    BY <1>13, <2>1, <2>2, <2>3 DEF BeginFails, TypeOK, redis, history, RedisOK
<1>14. ASSUME NEW p \in Processes, PreflightFails(p) PROVE TypeOK'
  <2>1. call' \in [Processes -> Call]
    BY <1>14, CallTypes, FieldTypes, Zenon DEF PreflightFails, Goto, Phases, Claiming, Working
  <2>2. QED
    BY <1>14, <2>1 DEF PreflightFails, TypeOK, redis, history, RedisOK
<1>15. ASSUME NEW p \in Processes, WriteIntent(p) PROVE TypeOK'
  <2>1. call' \in [Processes -> Call]
    BY <1>15, CallTypes, FieldTypes, Zenon DEF WriteIntent, Goto, Phases, Claiming, Working
  <2>2. journal' \in [intent: BOOLEAN, result: Nat]
    BY <1>15, ConstantsAssumption DEF WriteIntent, TypeOK, ConstantsAssumption
  <2>3. QED
    BY <1>15, <2>1, <2>2 DEF WriteIntent, TypeOK, redis, history, RedisOK
<1>16. ASSUME NEW p \in Processes, MarkIntent(p) PROVE TypeOK'
  <2>1. starts + 1 \in Nat /\ "started" \in Phases
    BY FieldTypes DEF Phases, Working
  <2>2. call' \in [Processes -> Call]
    BY <1>16, <2>1, CallTypes, Zenon DEF MarkIntent
  <2>3. index' \in [Processes -> Index]
    BY <1>16, IndexTypes, FieldTypes, Zenon DEF MarkIntent
  <2>4. receipt' \in [state: States, token: Nat, result: Nat]
    BY <1>16, RedisTypes, FieldTypes DEF MarkIntent, TypeOK, States, Terminal
  <2>5. QED
    BY <1>16, <2>1, <2>2, <2>3, <2>4 DEF MarkIntent, TypeOK, redis, history, RedisOK
<1>17. ASSUME NEW p \in Processes, MarkIntentLost(p) PROVE TypeOK'
  <2>1. call' \in [Processes -> Call]
    BY <1>17, CallTypes, FieldTypes, Zenon DEF MarkIntentLost, Goto, Phases, Claiming, Working
  <2>2. index' \in [Processes -> Index]
    BY <1>17, IndexTypes, FieldTypes, Zenon DEF MarkIntentLost
  <2>3. QED
    BY <1>17, <2>1, <2>2 DEF MarkIntentLost, TypeOK, redis, history, RedisOK
<1>18. ASSUME NEW p \in Processes, MarkIntentFails(p) PROVE TypeOK'
  <2>1. call' \in [Processes -> Call]
    BY <1>18, CallTypes, FieldTypes, Zenon DEF MarkIntentFails, Goto, Phases, Claiming, Working
  <2>2. index' \in [Processes -> Index]
    BY <1>18, IndexTypes, FieldTypes, Zenon DEF MarkIntentFails
  <2>3. receipt' \in [state: States, token: Nat, result: Nat] /\ starts' \in Nat
    <3>1. CASE receipt' = Receipt(p, "started", 0) /\ starts' = starts + 1
      <4>1. "started" \in States /\ 0 \in Nat /\ starts + 1 \in Nat
        BY FieldTypes DEF States
      <4>2. QED
        BY <3>1, <4>1, RedisTypes
    <3>2. CASE UNCHANGED <<receipt, starts>>
      BY <3>2 DEF TypeOK
    <3>3. QED
      BY <1>18, <3>1, <3>2 DEF MarkIntentFails
  <2>4. used' \in [deliveries: Nat, lapses: Nat, crashes: Nat, faults: Nat]
    BY <1>18, FaultType DEF MarkIntentFails
  <2>5. QED
    BY <1>18, <2>1, <2>2, <2>3, <2>4 DEF MarkIntentFails, TypeOK, redis, history, RedisOK
<1>19. ASSUME NEW p \in Processes, EnterHandler(p) PROVE TypeOK'
  <2>1. call' \in [Processes -> Call]
    BY <1>19, CallTypes, FieldTypes, Zenon DEF EnterHandler, Goto, Phases, Claiming, Working
  <2>2. QED
    BY <1>19, <2>1 DEF EnterHandler, TypeOK, redis, history, RedisOK
<1>20. ASSUME NEW p \in Processes, HandlerReturns(p) PROVE TypeOK'
  <2>1. PICK b \in BOOLEAN : call' = [call EXCEPT ![p].pc = "finishing", ![p].ok = b]
    BY <1>20, Zenon DEF HandlerReturns
  <2>2. call' \in [Processes -> Call]
    BY <2>1, CallTypes, Zenon DEF Phases, Working
  <2>3. QED
    BY <1>20, <2>2 DEF HandlerReturns, TypeOK, redis, history, RedisOK
<1>21. ASSUME NEW p \in Processes, EscapeBeforeFinish(p) PROVE TypeOK'
  <2>1. call' \in [Processes -> Call]
    BY <1>21, CallTypes, FieldTypes, Zenon DEF EscapeBeforeFinish, Goto, Phases, Claiming, Working
  <2>2. used' \in [deliveries: Nat, lapses: Nat, crashes: Nat, faults: Nat]
    BY <1>21, FaultType DEF EscapeBeforeFinish
  <2>3. QED
    BY <1>21, <2>1, <2>2 DEF EscapeBeforeFinish, TypeOK, redis, history, RedisOK
<1>22. ASSUME NEW p \in Processes, Commit(p) PROVE TypeOK'
  <2>1. call' \in [Processes -> Call]
    BY <1>22, CallTypes, FieldTypes, Zenon DEF Commit, Goto, Phases, Claiming, Working
  <2>2. index' \in [Processes -> Index]
    BY <1>22, IndexTypes, FieldTypes, Zenon DEF Commit
  <2>3. RedisOK
    BY <1>22, ScriptTypes, FieldTypes DEF Commit, States, Terminal, RedisOK, TypeOK
  <2>4. active' \in [Processes -> Nat]
    BY <1>22, RedisTypes, FieldTypes DEF Commit, TypeOK
  <2>5. QED
    BY <1>22, <2>1, <2>2, <2>3, <2>4 DEF Commit, TypeOK, redis, history, RedisOK
<1>23. ASSUME NEW p \in Processes, CommitLost(p) PROVE TypeOK'
  <2>1. call' \in [Processes -> Call]
    BY <1>23, CallTypes, FieldTypes, Zenon DEF CommitLost, Goto, Phases, Claiming, Working
  <2>2. index' \in [Processes -> Index]
    BY <1>23, IndexTypes, FieldTypes, Zenon DEF CommitLost
  <2>3. active' \in [Processes -> Nat]
    BY <1>23, RedisTypes, FieldTypes DEF CommitLost, TypeOK
  <2>4. QED
    BY <1>23, <2>1, <2>2, <2>3 DEF CommitLost, TypeOK, redis, history, RedisOK
<1>24. ASSUME NEW p \in Processes, FinishFailed(p) PROVE TypeOK'
  <2>1. call' \in [Processes -> Call]
    BY <1>24, CallTypes, FieldTypes, Zenon DEF FinishFailed, Goto, Phases, Claiming, Working
  <2>2. index' \in [Processes -> Index]
    BY <1>24, IndexTypes, FieldTypes, Zenon DEF FinishFailed
  <2>3. RedisOK
    BY <1>24, ScriptTypes, FieldTypes DEF FinishFailed, States, Terminal, RedisOK, TypeOK
  <2>4. active' \in [Processes -> Nat]
    BY <1>24, RedisTypes, FieldTypes DEF FinishFailed, TypeOK
  <2>5. QED
    BY <1>24, <2>1, <2>2, <2>3, <2>4 DEF FinishFailed, TypeOK, redis, history, RedisOK
<1>25. ASSUME NEW p \in Processes, FinishFails(p) PROVE TypeOK'
  <2>1. call' \in [Processes -> Call]
    BY <1>25, CallTypes, FieldTypes, Zenon DEF FinishFails, Goto, Phases, Claiming, Working
  <2>2. index' \in [Processes -> Index]
    BY <1>25, IndexTypes, FieldTypes, Zenon DEF FinishFails
  <2>3. RedisOK
    BY <1>25, ScriptTypes, FieldTypes DEF FinishFails, States, Terminal, RedisOK, TypeOK
  <2>4. used' \in [deliveries: Nat, lapses: Nat, crashes: Nat, faults: Nat]
    BY <1>25, FaultType DEF FinishFails
  <2>5. QED
    BY <1>25, <2>1, <2>2, <2>3, <2>4 DEF FinishFails, TypeOK, redis, history, RedisOK
<1>26. ASSUME NEW p \in Processes, WriteStep(p) PROVE TypeOK'
  <2>1. call' \in [Processes -> Call]
    BY <1>26, CallTypes, FieldTypes, Zenon DEF WriteStep, Goto, Phases, Claiming, Working
  <2>2. \A q \in Processes : [index[q] EXCEPT !.unread = TRUE] \in Index
    <3>1. SUFFICES ASSUME NEW q \in Processes
                   PROVE  [index[q] EXCEPT !.unread = TRUE] \in Index
      OBVIOUS
    <3>2. index[q] \in Index
      BY DEF TypeOK
    <3>3. QED
      BY <3>2, Zenon DEF Index
  <2>3. index' \in [Processes -> Index]
    BY <1>26, <2>2 DEF WriteStep
  <2>4. journal' \in [intent: BOOLEAN, result: Nat]
    BY <1>26, FieldTypes, Zenon DEF WriteStep, TypeOK
  <2>5. QED
    BY <1>26, <2>1, <2>3, <2>4 DEF WriteStep, TypeOK, redis, history, RedisOK
<1>27. ASSUME NEW p \in Processes, StepAppendFails(p) PROVE TypeOK'
  <2>1. call' \in [Processes -> Call]
    BY <1>27, CallTypes, FieldTypes, Zenon DEF StepAppendFails, Goto, Phases, Claiming, Working
  <2>2. used' \in [deliveries: Nat, lapses: Nat, crashes: Nat, faults: Nat]
    BY <1>27, FaultType DEF StepAppendFails
  <2>3. QED
    BY <1>27, <2>1, <2>2 DEF StepAppendFails, TypeOK, redis, history, RedisOK
<1>28. ASSUME NEW p \in Processes, RenewLost(p) PROVE TypeOK'
  <2>1. index' \in [Processes -> Index]
    BY <1>28, IndexTypes, FieldTypes, Zenon DEF RenewLost
  <2>2. active' \in [Processes -> Nat]
    BY <1>28, RedisTypes, FieldTypes DEF RenewLost, TypeOK
  <2>3. QED
    BY <1>28, <2>1, <2>2 DEF RenewLost, TypeOK, redis, history, RedisOK
<1>29. ASSUME NEW p \in Processes, Crash(p) PROVE TypeOK'
  <2>1. [NoCall EXCEPT !.pc = "dead"] \in Call
    BY Zenon DEF NoCall, Call, Phases, States, Terminal
  <2>2. call' \in [Processes -> Call]
    BY <1>29, <2>1 DEF Crash, TypeOK
  <2>3. index' \in [Processes -> Index]
    BY <1>29, IndexTypes, FieldTypes, Zenon DEF Crash
  <2>4. active' \in [Processes -> Nat]
    BY <1>29, RedisTypes, FieldTypes DEF Crash, TypeOK
  <2>5. QED
    BY <1>29, <2>2, <2>3, <2>4 DEF Crash, TypeOK, redis, history, RedisOK
<1>30. CASE LeaseLapses
  BY <1>30, ConstantsAssumption DEF LeaseLapses, TypeOK, NoLease, redis, history
<1>31. CASE Review
  BY <1>31 DEF Review, TypeOK, redis
<1>32. CASE AuthorizeRetry
  <2>1. receipt' \in [state: States, token: Nat, result: Nat]
    BY <1>32 DEF AuthorizeRetry, TypeOK, States
  <2>2. QED
    BY <1>32, <2>1 DEF AuthorizeRetry, TypeOK
<1>33. CASE UNCHANGED vars
  BY <1>33 DEF vars, TypeOK, redis, history
<1>34. QED
  BY <1>1, <1>2, <1>3, <1>4, <1>5, <1>6, <1>7, <1>8, <1>9, <1>10, <1>11, <1>12,
     <1>13, <1>14, <1>15, <1>16, <1>17, <1>18, <1>19, <1>20, <1>21, <1>22,
     <1>23, <1>24, <1>25, <1>26, <1>27, <1>28, <1>29, <1>30, <1>31, <1>32,
     <1>33
  DEF Next, Begin, Execute, Finish

\* Nobody but the fenced process writes the receipt.
LEMMA FenceStep ==
    ASSUME TypeOK, FenceInv, CallInv, [Next]_vars
    PROVE  FenceInv'
<1> USE ConstantsAssumption DEF ConstantsAssumption, redis, history, Goto, At, TypeOK, FenceInv, CallInv, Fenced, Index, Call, Terminal, Working, NoLease, NoCall, Absent
<1>1. ASSUME NEW p \in Processes, Deliver(p) PROVE FenceInv'
  BY <1>1 DEF Deliver, Refreshed
<1>2. ASSUME NEW p \in Processes, Repair(p) PROVE FenceInv'
  BY <1>2 DEF Repair
<1>3. ASSUME NEW p \in Processes, Lookup(p) PROVE FenceInv'
  BY <1>3 DEF Lookup
<1>4. ASSUME NEW p \in Processes, Extend(p) PROVE FenceInv'
  BY <1>4, SMTT(30) DEF Extend
<1>5. ASSUME NEW p \in Processes, Grab(p) PROVE FenceInv'
  BY <1>5 DEF Grab
<1>6. ASSUME NEW p \in Processes, Refused(p) PROVE FenceInv'
  <2>1. /\ \A q \in Processes \ {p} : call'[q] = call[q]
        /\ call'[p].pc \in {"journaling", "polling", "idle"}
        /\ call'[p].ok = call[p].ok /\ call[p].pc = "refused"
    <3>1. CASE receipt.state = "committed"
      BY <1>6, <3>1, SMTT(30) DEF Refused
    <3>2. CASE receipt.state # "committed"
      <4>1. PICK pc \in {"polling", "idle"} : call' = [call EXCEPT ![p].pc = pc]
        BY <1>6, <3>2 DEF Refused
      <4>2. call[p].pc = "refused"
        BY <1>6 DEF Refused
      <4>3. QED
        BY <4>1, <4>2
    <3>3. QED
      BY <3>1, <3>2
  <2>2. \A q \in Processes : index'[q].intent = index[q].intent
    <3>1. CASE receipt.state = "committed"
      BY <1>6, <3>1 DEF Refused
    <3>2. CASE receipt.state # "committed"
      BY <1>6, <3>2 DEF Refused
    <3>3. QED
      BY <3>1, <3>2
  <2>3. UNCHANGED <<lease, receipt, active, starts>>
    BY <1>6 DEF Refused
  <2>4. QED
    BY <2>1, <2>2, <2>3
<1>7. ASSUME NEW p \in Processes, Read(p) PROVE FenceInv'
  BY <1>7 DEF Read
<1>8. ASSUME NEW p \in Processes, LetGo(p) PROVE FenceInv'
  BY <1>8 DEF LetGo, Fenced, Dropped
<1>9. ASSUME NEW p \in Processes, PublishDoubt(p) PROVE FenceInv'
  BY <1>9 DEF PublishDoubt, SetRelease, Fenced, Dropped, Receipt, Unsafe
<1>10. ASSUME NEW p \in Processes, Publish(p) PROVE FenceInv'
  BY <1>10 DEF Publish, Fenced, Receipt, Unsafe
<1>11. ASSUME NEW p \in Processes, PublishLost(p) PROVE FenceInv'
  BY <1>11 DEF PublishLost, Fenced, Dropped, Unsafe
<1>12. ASSUME NEW p \in Processes, Poll(p) PROVE FenceInv'
  BY <1>12 DEF Poll, Refreshed
<1>13. ASSUME NEW p \in Processes, BeginFails(p) PROVE FenceInv'
  BY <1>13 DEF BeginFails, Fault, Fenced, SetRelease, Receipt, Unsafe
<1>14. ASSUME NEW p \in Processes, PreflightFails(p) PROVE FenceInv'
  BY <1>14 DEF PreflightFails
<1>15. ASSUME NEW p \in Processes, WriteIntent(p) PROVE FenceInv'
  BY <1>15 DEF WriteIntent
<1>16. ASSUME NEW p \in Processes, MarkIntent(p) PROVE FenceInv'
  BY <1>16 DEF MarkIntent, Fenced, Receipt, Intended, Refreshed
<1>17. ASSUME NEW p \in Processes, MarkIntentLost(p) PROVE FenceInv'
  BY <1>17 DEF MarkIntentLost, Fenced, Intended, Refreshed
<1>18. ASSUME NEW p \in Processes, MarkIntentFails(p) PROVE FenceInv'
  BY <1>18, SMTT(30) DEF MarkIntentFails, Fault, Fenced, Receipt, Intended, Refreshed
<1>19. ASSUME NEW p \in Processes, EnterHandler(p) PROVE FenceInv'
  BY <1>19 DEF EnterHandler
<1>20. ASSUME NEW p \in Processes, HandlerReturns(p) PROVE FenceInv'
  BY <1>20 DEF HandlerReturns
<1>21. ASSUME NEW p \in Processes, EscapeBeforeFinish(p) PROVE FenceInv'
  BY <1>21 DEF EscapeBeforeFinish, Fault
<1>22. ASSUME NEW p \in Processes, Commit(p) PROVE FenceInv'
  BY <1>22 DEF Commit, SetRelease, Fenced, Dropped, Receipt, Finished
<1>23. ASSUME NEW p \in Processes, CommitLost(p) PROVE FenceInv'
  BY <1>23 DEF CommitLost, Fenced, Dropped, Finished
<1>24. ASSUME NEW p \in Processes, FinishFailed(p) PROVE FenceInv'
  BY <1>24 DEF FinishFailed, Discredit, SetRelease, Fenced, Dropped, Receipt, Finished
<1>25. ASSUME NEW p \in Processes, FinishFails(p) PROVE FenceInv'
  BY <1>25 DEF FinishFails, Fault, Discredit, SetRelease, Fenced, Receipt, Finished
<1>26. ASSUME NEW p \in Processes, WriteStep(p) PROVE FenceInv'
  <2>1. \A q \in Processes : index'[q].intent = index[q].intent
    BY <1>26 DEF WriteStep
  <2>2. UNCHANGED <<lease, receipt, active, starts>> /\ call' = [call EXCEPT ![p].pc = "idle"]
    BY <1>26 DEF WriteStep
  <2>3. QED
    BY <2>1, <2>2
<1>27. ASSUME NEW p \in Processes, StepAppendFails(p) PROVE FenceInv'
  BY <1>27 DEF StepAppendFails, Fault
<1>28. ASSUME NEW p \in Processes, RenewLost(p) PROVE FenceInv'
  BY <1>28 DEF RenewLost, Fenced, Dropped
<1>29. ASSUME NEW p \in Processes, Crash(p) PROVE FenceInv'
  BY <1>29 DEF Crash, Dropped
<1>30. CASE LeaseLapses
  BY <1>30 DEF LeaseLapses
<1>31. CASE Review
  BY <1>31 DEF Review
<1>32. CASE AuthorizeRetry
  BY <1>32 DEF AuthorizeRetry
<1>33. CASE UNCHANGED vars
  BY <1>33 DEF vars
<1>34. QED
  BY <1>1, <1>2, <1>3, <1>4, <1>5, <1>6, <1>7, <1>8, <1>9, <1>10, <1>11, <1>12,
     <1>13, <1>14, <1>15, <1>16, <1>17, <1>18, <1>19, <1>20, <1>21, <1>22,
     <1>23, <1>24, <1>25, <1>26, <1>27, <1>28, <1>29, <1>30, <1>31, <1>32,
     <1>33
  DEF Next, Begin, Execute, Finish

LEMMA CallStep ==
    ASSUME TypeOK, CallInv, [Next]_vars
    PROVE  CallInv'
<1> USE ConstantsAssumption DEF ConstantsAssumption, redis, history, Goto, At, TypeOK, CallInv, Index, Call, Working, NoCall, NoIndex, Claiming
<1>1. ASSUME NEW p \in Processes, Deliver(p) PROVE CallInv'
  BY <1>1 DEF Deliver, Refreshed
<1>2. ASSUME NEW p \in Processes, Repair(p) PROVE CallInv'
  BY <1>2 DEF Repair
<1>3. ASSUME NEW p \in Processes, Lookup(p) PROVE CallInv'
  BY <1>3 DEF Lookup
<1>4. ASSUME NEW p \in Processes, Extend(p) PROVE CallInv'
  <2>1. call[p].pc = "extend"
        /\ \E pc \in {"read", "grab"} : call' = [call EXCEPT ![p].pc = pc]
    BY <1>4 DEF Extend
  <2>2. UNCHANGED <<receipt, journal, index>>
    BY <1>4 DEF Extend
  <2>3. QED
    BY <2>1, <2>2
<1>5. ASSUME NEW p \in Processes, Grab(p) PROVE CallInv'
  <2>1. call[p].pc = "grab"
        /\ \E pc \in {"read", "refused"} : call' = [call EXCEPT ![p].pc = pc]
    BY <1>5 DEF Grab
  <2>2. UNCHANGED <<receipt, journal, index>>
    BY <1>5 DEF Grab
  <2>3. QED
    BY <2>1, <2>2
<1>6. ASSUME NEW p \in Processes, Refused(p) PROVE CallInv'
  <2>1. /\ \A q \in Processes \ {p} : call'[q] = call[q]
        /\ call'[p].pc \in {"journaling", "polling", "idle"}
        /\ call'[p].ok = call[p].ok /\ call[p].pc = "refused"
    <3>1. CASE receipt.state = "committed"
      BY <1>6, <3>1, SMTT(30) DEF Refused
    <3>2. CASE receipt.state # "committed"
      <4>1. PICK pc \in {"polling", "idle"} : call' = [call EXCEPT ![p].pc = pc]
        BY <1>6, <3>2 DEF Refused
      <4>2. call[p].pc = "refused"
        BY <1>6 DEF Refused
      <4>3. QED
        BY <4>1, <4>2
    <3>3. QED
      BY <3>1, <3>2
  <2>2. \A q \in Processes : index'[q].intent = index[q].intent
    <3>1. CASE receipt.state = "committed"
      BY <1>6, <3>1 DEF Refused
    <3>2. CASE receipt.state # "committed"
      BY <1>6, <3>2 DEF Refused
    <3>3. QED
      BY <3>1, <3>2
  <2>3. UNCHANGED <<lease, receipt, active, starts>>
    BY <1>6 DEF Refused
  <2>4. QED
    BY <2>1, <2>2, <2>3
<1>7. ASSUME NEW p \in Processes, Read(p) PROVE CallInv'
  BY <1>7 DEF Read
<1>8. ASSUME NEW p \in Processes, LetGo(p) PROVE CallInv'
  <2>1. call[p].pc = "letgo"
        /\ \E pc \in {"journaling", "idle"} : call' = [call EXCEPT ![p].pc = pc]
    BY <1>8 DEF LetGo
  <2>2. \A q \in Processes : index'[q].intent = index[q].intent
    <3>1. CASE call[p].seen = "committed"
      BY <1>8, <3>1 DEF LetGo
    <3>2. CASE call[p].seen # "committed"
      BY <1>8, <3>2 DEF LetGo
    <3>3. QED
      BY <3>1, <3>2
  <2>3. QED
    BY <2>1, <2>2
<1>9. ASSUME NEW p \in Processes, PublishDoubt(p) PROVE CallInv'
  BY <1>9 DEF PublishDoubt, SetRelease, Fenced, Dropped, Receipt, Unsafe
<1>10. ASSUME NEW p \in Processes, Publish(p) PROVE CallInv'
  BY <1>10 DEF Publish, Fenced, Receipt, Unsafe
<1>11. ASSUME NEW p \in Processes, PublishLost(p) PROVE CallInv'
  BY <1>11 DEF PublishLost, Fenced, Dropped, Unsafe
<1>12. ASSUME NEW p \in Processes, Poll(p) PROVE CallInv'
  <2>1. /\ call[p].pc = "polling"
        /\ call'[p].pc \in {"repair", "lookup"} /\ call'[p].ok = call[p].ok
        /\ \A q \in Processes \ {p} : call'[q] = call[q]
    BY <1>12 DEF Poll
  <2>2. \A q \in Processes : index[q].intent => index'[q].intent
    BY <1>12 DEF Poll, Refreshed
  <2>3. QED
    BY <2>1, <2>2
<1>13. ASSUME NEW p \in Processes, BeginFails(p) PROVE CallInv'
  BY <1>13 DEF BeginFails, Fault, Fenced, SetRelease, Receipt, Unsafe
<1>14. ASSUME NEW p \in Processes, PreflightFails(p) PROVE CallInv'
  BY <1>14 DEF PreflightFails
<1>15. ASSUME NEW p \in Processes, WriteIntent(p) PROVE CallInv'
  BY <1>15 DEF WriteIntent
<1>16. ASSUME NEW p \in Processes, MarkIntent(p) PROVE CallInv'
  BY <1>16 DEF MarkIntent, Fenced, Receipt, Intended, Refreshed
<1>17. ASSUME NEW p \in Processes, MarkIntentLost(p) PROVE CallInv'
  BY <1>17 DEF MarkIntentLost, Fenced, Intended, Refreshed
<1>18. ASSUME NEW p \in Processes, MarkIntentFails(p) PROVE CallInv'
  BY <1>18 DEF MarkIntentFails, Fault, Fenced, Receipt, Intended, Refreshed
<1>19. ASSUME NEW p \in Processes, EnterHandler(p) PROVE CallInv'
  BY <1>19 DEF EnterHandler
<1>20. ASSUME NEW p \in Processes, HandlerReturns(p) PROVE CallInv'
  BY <1>20 DEF HandlerReturns
<1>21. ASSUME NEW p \in Processes, EscapeBeforeFinish(p) PROVE CallInv'
  BY <1>21 DEF EscapeBeforeFinish, Fault
<1>22. ASSUME NEW p \in Processes, Commit(p) PROVE CallInv'
  BY <1>22 DEF Commit, SetRelease, Fenced, Dropped, Receipt, Finished
<1>23. ASSUME NEW p \in Processes, CommitLost(p) PROVE CallInv'
  BY <1>23 DEF CommitLost, Fenced, Dropped, Finished
<1>24. ASSUME NEW p \in Processes, FinishFailed(p) PROVE CallInv'
  BY <1>24 DEF FinishFailed, Discredit, SetRelease, Fenced, Dropped, Receipt, Finished
<1>25. ASSUME NEW p \in Processes, FinishFails(p) PROVE CallInv'
  BY <1>25 DEF FinishFails, Fault, Discredit, SetRelease, Fenced, Receipt, Finished
<1>26. ASSUME NEW p \in Processes, WriteStep(p) PROVE CallInv'
  <2>1. \A q \in Processes : index'[q].intent = index[q].intent
    BY <1>26 DEF WriteStep
  <2>2. UNCHANGED <<lease, receipt, active, starts>> /\ call' = [call EXCEPT ![p].pc = "idle"]
    BY <1>26 DEF WriteStep
  <2>3. QED
    BY <2>1, <2>2
<1>27. ASSUME NEW p \in Processes, StepAppendFails(p) PROVE CallInv'
  BY <1>27 DEF StepAppendFails, Fault
<1>28. ASSUME NEW p \in Processes, RenewLost(p) PROVE CallInv'
  BY <1>28 DEF RenewLost, Fenced, Dropped
<1>29. ASSUME NEW p \in Processes, Crash(p) PROVE CallInv'
  BY <1>29 DEF Crash, Dropped
<1>30. CASE LeaseLapses
  BY <1>30 DEF LeaseLapses
<1>31. CASE Review
  BY <1>31 DEF Review
<1>32. CASE AuthorizeRetry
  BY <1>32 DEF AuthorizeRetry
<1>33. CASE UNCHANGED vars
  BY <1>33 DEF vars
<1>34. QED
  BY <1>1, <1>2, <1>3, <1>4, <1>5, <1>6, <1>7, <1>8, <1>9, <1>10, <1>11, <1>12,
     <1>13, <1>14, <1>15, <1>16, <1>17, <1>18, <1>19, <1>20, <1>21, <1>22,
     <1>23, <1>24, <1>25, <1>26, <1>27, <1>28, <1>29, <1>30, <1>31, <1>32,
     <1>33
  DEF Next, Begin, Execute, Finish

\* A start is only made of a claimed receipt.
LEMMA CreditStep ==
    ASSUME TypeOK, FenceInv, CallInv, CreditInv, [Next]_vars
    PROVE  CreditInv'
<1> USE ConstantsAssumption DEF ConstantsAssumption, redis, history, Goto, At, TypeOK, FenceInv, CallInv, CreditInv, Call, Index, Terminal, Absent
<1>1. ASSUME NEW p \in Processes, Deliver(p) PROVE CreditInv'
  BY <1>1 DEF Deliver, Refreshed
<1>2. ASSUME NEW p \in Processes, Repair(p) PROVE CreditInv'
  BY <1>2 DEF Repair
<1>3. ASSUME NEW p \in Processes, Lookup(p) PROVE CreditInv'
  BY <1>3 DEF Lookup
<1>4. ASSUME NEW p \in Processes, Extend(p) PROVE CreditInv'
  BY <1>4 DEF Extend
<1>5. ASSUME NEW p \in Processes, Grab(p) PROVE CreditInv'
  BY <1>5 DEF Grab
<1>6. ASSUME NEW p \in Processes, Refused(p) PROVE CreditInv'
  BY <1>6 DEF Refused
<1>7. ASSUME NEW p \in Processes, Read(p) PROVE CreditInv'
  BY <1>7 DEF Read
<1>8. ASSUME NEW p \in Processes, LetGo(p) PROVE CreditInv'
  BY <1>8 DEF LetGo, Fenced, Dropped
<1>9. ASSUME NEW p \in Processes, PublishDoubt(p) PROVE CreditInv'
  BY <1>9 DEF PublishDoubt, SetRelease, Fenced, Dropped, Receipt, Unsafe
<1>10. ASSUME NEW p \in Processes, Publish(p) PROVE CreditInv'
  <2>1. /\ receipt.state \notin Terminal /\ call[p].seen = receipt.state
        /\ SideEffecting => receipt.state # "started"
    BY <1>10 DEF Publish, Unsafe
  <2>2. QED
    BY <1>10, <2>1 DEF Publish, Receipt, States
<1>11. ASSUME NEW p \in Processes, PublishLost(p) PROVE CreditInv'
  BY <1>11 DEF PublishLost, Fenced, Dropped, Unsafe
<1>12. ASSUME NEW p \in Processes, Poll(p) PROVE CreditInv'
  BY <1>12 DEF Poll, Refreshed
<1>13. ASSUME NEW p \in Processes, BeginFails(p) PROVE CreditInv'
  <2>1. CASE UNCHANGED receipt
    BY <1>13, <2>1 DEF BeginFails
  <2>2. CASE At(p, "publish") /\ Unsafe(p) /\ Fenced(p) /\ receipt' = Receipt(p, "indeterminate", 0)
    BY <1>13, <2>2 DEF BeginFails, Receipt
  <2>3. CASE At(p, "publish") /\ ~Unsafe(p) /\ Fenced(p) /\ receipt' = Receipt(p, "claimed", 0)
    <3>1. SideEffecting => receipt.state # "started" /\ receipt.state \notin Terminal
      BY <2>3 DEF Unsafe
    <3>2. QED
      BY <1>13, <2>3, <3>1 DEF BeginFails, Receipt, States
  <2>4. QED
    BY <1>13, <2>1, <2>2, <2>3 DEF BeginFails, SetRelease
<1>14. ASSUME NEW p \in Processes, PreflightFails(p) PROVE CreditInv'
  BY <1>14 DEF PreflightFails
<1>15. ASSUME NEW p \in Processes, WriteIntent(p) PROVE CreditInv'
  BY <1>15 DEF WriteIntent
<1>16. ASSUME NEW p \in Processes, MarkIntent(p) PROVE CreditInv'
  BY <1>16 DEF MarkIntent, Fenced, Receipt, Intended, Refreshed
<1>17. ASSUME NEW p \in Processes, MarkIntentLost(p) PROVE CreditInv'
  BY <1>17 DEF MarkIntentLost, Fenced, Intended, Refreshed
<1>18. ASSUME NEW p \in Processes, MarkIntentFails(p) PROVE CreditInv'
  BY <1>18 DEF MarkIntentFails, Fault, Fenced, Receipt, Intended, Refreshed
<1>19. ASSUME NEW p \in Processes, EnterHandler(p) PROVE CreditInv'
  BY <1>19 DEF EnterHandler
<1>20. ASSUME NEW p \in Processes, HandlerReturns(p) PROVE CreditInv'
  BY <1>20 DEF HandlerReturns
<1>21. ASSUME NEW p \in Processes, EscapeBeforeFinish(p) PROVE CreditInv'
  BY <1>21 DEF EscapeBeforeFinish, Fault
<1>22. ASSUME NEW p \in Processes, Commit(p) PROVE CreditInv'
  BY <1>22 DEF Commit, SetRelease, Fenced, Dropped, Receipt, Finished
<1>23. ASSUME NEW p \in Processes, CommitLost(p) PROVE CreditInv'
  BY <1>23 DEF CommitLost, Fenced, Dropped, Finished
<1>24. ASSUME NEW p \in Processes, FinishFailed(p) PROVE CreditInv'
  BY <1>24 DEF FinishFailed, Discredit, SetRelease, Fenced, Dropped, Receipt, Finished
<1>25. ASSUME NEW p \in Processes, FinishFails(p) PROVE CreditInv'
  BY <1>25 DEF FinishFails, Fault, Discredit, SetRelease, Fenced, Receipt, Finished
<1>26. ASSUME NEW p \in Processes, WriteStep(p) PROVE CreditInv'
  BY <1>26 DEF WriteStep
<1>27. ASSUME NEW p \in Processes, StepAppendFails(p) PROVE CreditInv'
  BY <1>27 DEF StepAppendFails, Fault
<1>28. ASSUME NEW p \in Processes, RenewLost(p) PROVE CreditInv'
  BY <1>28 DEF RenewLost, Fenced, Dropped
<1>29. ASSUME NEW p \in Processes, Crash(p) PROVE CreditInv'
  BY <1>29 DEF Crash, Dropped
<1>30. CASE LeaseLapses
  BY <1>30 DEF LeaseLapses
<1>31. CASE Review
  BY <1>31 DEF Review
<1>32. CASE AuthorizeRetry
  BY <1>32 DEF AuthorizeRetry
<1>33. CASE UNCHANGED vars
  BY <1>33 DEF vars
<1>34. QED
  BY <1>1, <1>2, <1>3, <1>4, <1>5, <1>6, <1>7, <1>8, <1>9, <1>10, <1>11, <1>12,
     <1>13, <1>14, <1>15, <1>16, <1>17, <1>18, <1>19, <1>20, <1>21, <1>22,
     <1>23, <1>24, <1>25, <1>26, <1>27, <1>28, <1>29, <1>30, <1>31, <1>32,
     <1>33
  DEF Next, Begin, Execute, Finish

\* A committed receipt is never replaced.
LEMMA ResultStep ==
    ASSUME TypeOK, FenceInv, ResultInv, [Next]_vars
    PROVE  ResultInv'
<1> USE ConstantsAssumption DEF ConstantsAssumption, redis, history, Goto, At, TypeOK, FenceInv, ResultInv, ResultsAgree, Call, Index, Terminal, NoCall, NoIndex, Absent
<1>1. ASSUME NEW p \in Processes, Deliver(p) PROVE ResultInv'
  BY <1>1 DEF Deliver, Refreshed
<1>2. ASSUME NEW p \in Processes, Repair(p) PROVE ResultInv'
  BY <1>2 DEF Repair
<1>3. ASSUME NEW p \in Processes, Lookup(p) PROVE ResultInv'
  BY <1>3 DEF Lookup
<1>4. ASSUME NEW p \in Processes, Extend(p) PROVE ResultInv'
  <2>1. call[p].pc = "extend"
        /\ \E pc \in {"read", "grab"} : call' = [call EXCEPT ![p].pc = pc]
    BY <1>4 DEF Extend
  <2>2. UNCHANGED <<receipt, journal, index>>
    BY <1>4 DEF Extend
  <2>3. QED
    BY <2>1, <2>2
<1>5. ASSUME NEW p \in Processes, Grab(p) PROVE ResultInv'
  <2>1. call[p].pc = "grab"
        /\ \E pc \in {"read", "refused"} : call' = [call EXCEPT ![p].pc = pc]
    BY <1>5 DEF Grab
  <2>2. UNCHANGED <<receipt, journal, index>>
    BY <1>5 DEF Grab
  <2>3. QED
    BY <2>1, <2>2
<1>6. ASSUME NEW p \in Processes, Refused(p) PROVE ResultInv'
  <2>1. UNCHANGED <<receipt, journal>>
    BY <1>6 DEF Refused
  <2>2. CASE receipt.state = "committed"
    <3>1. /\ call' = [call EXCEPT ![p].pc = "journaling", ![p].attempt = receipt.result]
          /\ index' = [index EXCEPT ![p].known = receipt.result]
      BY <1>6, <2>2, Zenon DEF Refused
    <3>2. QED
      BY <2>1, <2>2, <3>1
  <2>3. CASE receipt.state # "committed"
    <3>1. PICK pc \in {"polling", "idle"} : call' = [call EXCEPT ![p].pc = pc]
      BY <1>6, <2>3 DEF Refused
    <3>2. UNCHANGED index
      BY <1>6, <2>3 DEF Refused
    <3>3. QED
      BY <2>1, <2>3, <3>1, <3>2
  <2>4. QED
    BY <2>2, <2>3
<1>7. ASSUME NEW p \in Processes, Read(p) PROVE ResultInv'
  BY <1>7 DEF Read
<1>8. ASSUME NEW p \in Processes, LetGo(p) PROVE ResultInv'
  <2>1. UNCHANGED <<receipt, journal>>
    BY <1>8 DEF LetGo
  <2>2. CASE call[p].seen = "committed"
    <3>1. /\ call' = [call EXCEPT ![p].pc = "journaling"]
          /\ index' = [index EXCEPT ![p].known = call[p].attempt]
      BY <1>8, <2>2 DEF LetGo
    <3>2. QED
      BY <1>8, <2>1, <2>2, <3>1 DEF LetGo
  <2>3. CASE call[p].seen # "committed"
    <3>1. call' = [call EXCEPT ![p].pc = "idle"] /\ UNCHANGED index
      BY <1>8, <2>3 DEF LetGo
    <3>2. QED
      BY <2>1, <2>3, <3>1
  <2>4. QED
    BY <2>2, <2>3
<1>9. ASSUME NEW p \in Processes, PublishDoubt(p) PROVE ResultInv'
  BY <1>9 DEF PublishDoubt, SetRelease, Fenced, Dropped, Receipt, Unsafe
<1>10. ASSUME NEW p \in Processes, Publish(p) PROVE ResultInv'
  BY <1>10 DEF Publish, Fenced, Receipt, Unsafe
<1>11. ASSUME NEW p \in Processes, PublishLost(p) PROVE ResultInv'
  BY <1>11 DEF PublishLost, Fenced, Dropped, Unsafe
<1>12. ASSUME NEW p \in Processes, Poll(p) PROVE ResultInv'
  BY <1>12 DEF Poll, Refreshed
<1>13. ASSUME NEW p \in Processes, BeginFails(p) PROVE ResultInv'
  BY <1>13 DEF BeginFails, Fault, Fenced, SetRelease, Receipt, Unsafe
<1>14. ASSUME NEW p \in Processes, PreflightFails(p) PROVE ResultInv'
  BY <1>14 DEF PreflightFails
<1>15. ASSUME NEW p \in Processes, WriteIntent(p) PROVE ResultInv'
  BY <1>15 DEF WriteIntent
<1>16. ASSUME NEW p \in Processes, MarkIntent(p) PROVE ResultInv'
  BY <1>16 DEF MarkIntent, Fenced, Receipt, Intended, Refreshed
<1>17. ASSUME NEW p \in Processes, MarkIntentLost(p) PROVE ResultInv'
  BY <1>17 DEF MarkIntentLost, Fenced, Intended, Refreshed
<1>18. ASSUME NEW p \in Processes, MarkIntentFails(p) PROVE ResultInv'
  BY <1>18 DEF MarkIntentFails, Fault, Fenced, Receipt, Intended, Refreshed
<1>19. ASSUME NEW p \in Processes, EnterHandler(p) PROVE ResultInv'
  BY <1>19 DEF EnterHandler
<1>20. ASSUME NEW p \in Processes, HandlerReturns(p) PROVE ResultInv'
  BY <1>20 DEF HandlerReturns
<1>21. ASSUME NEW p \in Processes, EscapeBeforeFinish(p) PROVE ResultInv'
  BY <1>21 DEF EscapeBeforeFinish, Fault
<1>22. ASSUME NEW p \in Processes, Commit(p) PROVE ResultInv'
  BY <1>22 DEF Commit, SetRelease, Fenced, Dropped, Receipt, Finished
<1>23. ASSUME NEW p \in Processes, CommitLost(p) PROVE ResultInv'
  BY <1>23 DEF CommitLost, Fenced, Dropped, Finished
<1>24. ASSUME NEW p \in Processes, FinishFailed(p) PROVE ResultInv'
  BY <1>24 DEF FinishFailed, Discredit, SetRelease, Fenced, Dropped, Receipt, Finished
<1>25. ASSUME NEW p \in Processes, FinishFails(p) PROVE ResultInv'
  BY <1>25 DEF FinishFails, Fault, Discredit, SetRelease, Fenced, Receipt, Finished
<1>26. ASSUME NEW p \in Processes, WriteStep(p) PROVE ResultInv'
  BY <1>26 DEF WriteStep
<1>27. ASSUME NEW p \in Processes, StepAppendFails(p) PROVE ResultInv'
  BY <1>27 DEF StepAppendFails, Fault
<1>28. ASSUME NEW p \in Processes, RenewLost(p) PROVE ResultInv'
  BY <1>28 DEF RenewLost, Fenced, Dropped
<1>29. ASSUME NEW p \in Processes, Crash(p) PROVE ResultInv'
  BY <1>29 DEF Crash, Dropped
<1>30. CASE LeaseLapses
  BY <1>30 DEF LeaseLapses
<1>31. CASE Review
  BY <1>31 DEF Review
<1>32. CASE AuthorizeRetry
  BY <1>32 DEF AuthorizeRetry
<1>33. CASE UNCHANGED vars
  BY <1>33 DEF vars
<1>34. QED
  BY <1>1, <1>2, <1>3, <1>4, <1>5, <1>6, <1>7, <1>8, <1>9, <1>10, <1>11, <1>12,
     <1>13, <1>14, <1>15, <1>16, <1>17, <1>18, <1>19, <1>20, <1>21, <1>22,
     <1>23, <1>24, <1>25, <1>26, <1>27, <1>28, <1>29, <1>30, <1>31, <1>32,
     <1>33
  DEF Next, Begin, Execute, Finish

\* The deliveries that may still enter the handler can be counted.
LEMMA PendingFinite ==
    /\ IsFiniteSet(Pending) /\ Cardinality(Pending) \in Nat
    /\ IsFiniteSet(Pending') /\ Cardinality(Pending') \in Nat
<1>1. Pending \subseteq Processes /\ Pending' \subseteq Processes
  BY DEF Pending
<1>2. IsFiniteSet(Processes)
  BY ConstantsAssumption DEF ConstantsAssumption
<1>3. QED
  BY <1>1, <1>2, FS_Subset, FS_CardinalityType

\* A step that counts nothing and sends nobody to the handler keeps CountInv.
LEMMA QuietCount ==
    ASSUME TypeOK, CountInv, Pending' \subseteq Pending,
           executions' = executions, starts' \in Nat, starts' >= starts
    PROVE  CountInv'
<1>1. Cardinality(Pending') <= Cardinality(Pending)
  BY PendingFinite, FS_Subset
<1>2. QED
  BY <1>1, PendingFinite DEF CountInv, TypeOK

LEMMA CountStep ==
    ASSUME TypeOK, CountInv, [Next]_vars
    PROVE  CountInv'
<1> USE ConstantsAssumption DEF ConstantsAssumption, redis, history, Goto, At
<1>1. ASSUME NEW p \in Processes, Deliver(p) PROVE CountInv'
  <2>1. Pending' \subseteq Pending /\ executions' = executions /\ starts' = starts
    BY <1>1 DEF Deliver, Pending, TypeOK, Call, NoCall
  <2>2. QED
    BY <2>1, QuietCount DEF TypeOK
<1>2. ASSUME NEW p \in Processes, Repair(p) PROVE CountInv'
  <2>1. Pending' \subseteq Pending /\ executions' = executions /\ starts' = starts
    BY <1>2 DEF Repair, Pending, TypeOK, Call, NoCall
  <2>2. QED
    BY <2>1, QuietCount DEF TypeOK
<1>3. ASSUME NEW p \in Processes, Lookup(p) PROVE CountInv'
  <2>1. Pending' \subseteq Pending /\ executions' = executions /\ starts' = starts
    BY <1>3 DEF Lookup, Pending, TypeOK, Call, NoCall
  <2>2. QED
    BY <2>1, QuietCount DEF TypeOK
<1>4. ASSUME NEW p \in Processes, Extend(p) PROVE CountInv'
  <2>1. PICK pc \in {"read", "grab"} : call' = [call EXCEPT ![p].pc = pc]
    BY <1>4 DEF Extend
  <2>2. executions' = executions /\ starts' = starts
    BY <1>4 DEF Extend
  <2>3. Pending' \subseteq Pending
    BY <2>1 DEF Pending, TypeOK, Call
  <2>4. QED
    BY <2>2, <2>3, QuietCount DEF TypeOK
<1>5. ASSUME NEW p \in Processes, Grab(p) PROVE CountInv'
  <2>1. PICK pc \in {"read", "refused"} : call' = [call EXCEPT ![p].pc = pc]
    BY <1>5 DEF Grab
  <2>2. executions' = executions /\ starts' = starts
    BY <1>5 DEF Grab
  <2>3. Pending' \subseteq Pending
    BY <2>1 DEF Pending, TypeOK, Call
  <2>4. QED
    BY <2>2, <2>3, QuietCount DEF TypeOK
<1>6. ASSUME NEW p \in Processes, Refused(p) PROVE CountInv'
  <2>1. PICK pc \in {"polling", "idle", "journaling"} :
          \/ call' = [call EXCEPT ![p].pc = pc]
          \/ call' = [call EXCEPT ![p].pc = pc, ![p].attempt = receipt.result]
    BY <1>6 DEF Refused
  <2>2. executions' = executions /\ starts' = starts
    BY <1>6 DEF Refused
  <2>3. Pending' \subseteq Pending
    <3>1. call'[p].pc = pc /\ \A q \in Processes \ {p} : call'[q] = call[q]
      BY <2>1 DEF TypeOK, Call
    <3>2. QED
      BY <3>1 DEF Pending
  <2>4. QED
    BY <2>2, <2>3, QuietCount DEF TypeOK
<1>7. ASSUME NEW p \in Processes, Read(p) PROVE CountInv'
  <2>1. Pending' \subseteq Pending /\ executions' = executions /\ starts' = starts
    BY <1>7 DEF Read, Pending, TypeOK, Call, NoCall
  <2>2. QED
    BY <2>1, QuietCount DEF TypeOK
<1>8. ASSUME NEW p \in Processes, LetGo(p) PROVE CountInv'
  <2>1. PICK pc \in {"journaling", "idle"} : call' = [call EXCEPT ![p].pc = pc]
    BY <1>8 DEF LetGo
  <2>2. executions' = executions /\ starts' = starts
    BY <1>8 DEF LetGo
  <2>3. Pending' \subseteq Pending
    BY <2>1 DEF Pending, TypeOK, Call
  <2>4. QED
    BY <2>2, <2>3, QuietCount DEF TypeOK
<1>9. ASSUME NEW p \in Processes, PublishDoubt(p) PROVE CountInv'
  <2>1. Pending' \subseteq Pending /\ executions' = executions /\ starts' = starts
    BY <1>9 DEF PublishDoubt, Pending, TypeOK, Call, NoCall
  <2>2. QED
    BY <2>1, QuietCount DEF TypeOK
<1>10. ASSUME NEW p \in Processes, Publish(p) PROVE CountInv'
  <2>1. Pending' \subseteq Pending /\ executions' = executions /\ starts' = starts
    BY <1>10 DEF Publish, Pending, TypeOK, Call, NoCall
  <2>2. QED
    BY <2>1, QuietCount DEF TypeOK
<1>11. ASSUME NEW p \in Processes, PublishLost(p) PROVE CountInv'
  <2>1. PICK pc \in {"polling", "idle"} : call' = [call EXCEPT ![p].pc = pc]
    BY <1>11, Zenon DEF PublishLost
  <2>2. executions' = executions /\ starts' = starts
    BY <1>11 DEF PublishLost
  <2>3. Pending' \subseteq Pending
    BY <2>1 DEF Pending, TypeOK, Call
  <2>4. QED
    BY <2>2, <2>3, QuietCount DEF TypeOK
<1>12. ASSUME NEW p \in Processes, Poll(p) PROVE CountInv'
  <2>1. Pending' \subseteq Pending /\ executions' = executions /\ starts' = starts
    BY <1>12 DEF Poll, Pending, TypeOK, Call, NoCall
  <2>2. QED
    BY <2>1, QuietCount DEF TypeOK
<1>13. ASSUME NEW p \in Processes, BeginFails(p) PROVE CountInv'
  <2>1. Pending' \subseteq Pending /\ executions' = executions /\ starts' = starts
    BY <1>13 DEF BeginFails, Pending, TypeOK, Call, NoCall
  <2>2. QED
    BY <2>1, QuietCount DEF TypeOK
<1>14. ASSUME NEW p \in Processes, PreflightFails(p) PROVE CountInv'
  <2>1. Pending' \subseteq Pending /\ executions' = executions /\ starts' = starts
    BY <1>14 DEF PreflightFails, Pending, TypeOK, Call, NoCall
  <2>2. QED
    BY <2>1, QuietCount DEF TypeOK
<1>15. ASSUME NEW p \in Processes, WriteIntent(p) PROVE CountInv'
  <2>1. Pending' \subseteq Pending /\ executions' = executions /\ starts' = starts
    BY <1>15 DEF WriteIntent, Pending, TypeOK, Call, NoCall
  <2>2. QED
    BY <2>1, QuietCount DEF TypeOK
<1>16. ASSUME NEW p \in Processes, MarkIntent(p) PROVE CountInv'
  <2>1. Pending' = Pending \union {p} /\ p \notin Pending
    BY <1>16 DEF MarkIntent, Pending, TypeOK, Call
  <2>2. Cardinality(Pending') = Cardinality(Pending) + 1
    BY <2>1, PendingFinite, FS_AddElement
  <2>3. executions' = executions /\ starts' = starts + 1
    BY <1>16 DEF MarkIntent
  <2>4. QED
    BY <2>2, <2>3, PendingFinite DEF CountInv, TypeOK
<1>17. ASSUME NEW p \in Processes, MarkIntentLost(p) PROVE CountInv'
  <2>1. Pending' \subseteq Pending /\ executions' = executions /\ starts' = starts
    BY <1>17 DEF MarkIntentLost, Pending, TypeOK, Call, NoCall
  <2>2. QED
    BY <2>1, QuietCount DEF TypeOK
<1>18. ASSUME NEW p \in Processes, MarkIntentFails(p) PROVE CountInv'
  <2>1. Pending' \subseteq Pending /\ executions' = executions
    BY <1>18 DEF MarkIntentFails, Pending, TypeOK, Call
  <2>2. starts' = starts \/ starts' = starts + 1
    BY <1>18 DEF MarkIntentFails
  <2>3. QED
    BY <2>1, <2>2, QuietCount DEF TypeOK
<1>19. ASSUME NEW p \in Processes, EnterHandler(p) PROVE CountInv'
  <2>1. Pending' = Pending \ {p} /\ p \in Pending
    BY <1>19 DEF EnterHandler, Pending, TypeOK, Call
  <2>2. Cardinality(Pending') = Cardinality(Pending) - 1
    BY <2>1, PendingFinite, FS_RemoveElement
  <2>3. executions' = executions + 1 /\ starts' = starts
    BY <1>19 DEF EnterHandler
  <2>4. QED
    BY <2>2, <2>3, PendingFinite DEF CountInv, TypeOK
<1>20. ASSUME NEW p \in Processes, HandlerReturns(p) PROVE CountInv'
  <2>1. Pending' \subseteq Pending /\ executions' = executions /\ starts' = starts
    BY <1>20 DEF HandlerReturns, Pending, TypeOK, Call, NoCall
  <2>2. QED
    BY <2>1, QuietCount DEF TypeOK
<1>21. ASSUME NEW p \in Processes, EscapeBeforeFinish(p) PROVE CountInv'
  <2>1. Pending' \subseteq Pending /\ executions' = executions /\ starts' = starts
    BY <1>21 DEF EscapeBeforeFinish, Pending, TypeOK, Call, NoCall
  <2>2. QED
    BY <2>1, QuietCount DEF TypeOK
<1>22. ASSUME NEW p \in Processes, Commit(p) PROVE CountInv'
  <2>1. Pending' \subseteq Pending /\ executions' = executions /\ starts' = starts
    BY <1>22 DEF Commit, Pending, TypeOK, Call, NoCall
  <2>2. QED
    BY <2>1, QuietCount DEF TypeOK
<1>23. ASSUME NEW p \in Processes, CommitLost(p) PROVE CountInv'
  <2>1. Pending' \subseteq Pending /\ executions' = executions /\ starts' = starts
    BY <1>23 DEF CommitLost, Pending, TypeOK, Call, NoCall
  <2>2. QED
    BY <2>1, QuietCount DEF TypeOK
<1>24. ASSUME NEW p \in Processes, FinishFailed(p) PROVE CountInv'
  <2>1. Pending' \subseteq Pending /\ executions' = executions /\ starts' = starts
    BY <1>24 DEF FinishFailed, Pending, TypeOK, Call, NoCall
  <2>2. QED
    BY <2>1, QuietCount DEF TypeOK
<1>25. ASSUME NEW p \in Processes, FinishFails(p) PROVE CountInv'
  <2>1. Pending' \subseteq Pending /\ executions' = executions /\ starts' = starts
    BY <1>25 DEF FinishFails, Pending, TypeOK, Call, NoCall
  <2>2. QED
    BY <2>1, QuietCount DEF TypeOK
<1>26. ASSUME NEW p \in Processes, WriteStep(p) PROVE CountInv'
  <2>1. Pending' \subseteq Pending /\ executions' = executions /\ starts' = starts
    BY <1>26 DEF WriteStep, Pending, TypeOK, Call, NoCall
  <2>2. QED
    BY <2>1, QuietCount DEF TypeOK
<1>27. ASSUME NEW p \in Processes, StepAppendFails(p) PROVE CountInv'
  <2>1. Pending' \subseteq Pending /\ executions' = executions /\ starts' = starts
    BY <1>27 DEF StepAppendFails, Pending, TypeOK, Call, NoCall
  <2>2. QED
    BY <2>1, QuietCount DEF TypeOK
<1>28. ASSUME NEW p \in Processes, RenewLost(p) PROVE CountInv'
  <2>1. Pending' \subseteq Pending /\ executions' = executions /\ starts' = starts
    BY <1>28 DEF RenewLost, Pending, TypeOK, Call, NoCall
  <2>2. QED
    BY <2>1, QuietCount DEF TypeOK
<1>29. ASSUME NEW p \in Processes, Crash(p) PROVE CountInv'
  <2>1. Pending' \subseteq Pending /\ executions' = executions /\ starts' = starts
    BY <1>29 DEF Crash, Pending, TypeOK, Call, NoCall
  <2>2. QED
    BY <2>1, QuietCount DEF TypeOK
<1>30. CASE LeaseLapses
  <2>1. Pending' = Pending /\ executions' = executions /\ starts' = starts
    BY <1>30 DEF LeaseLapses, Pending
  <2>2. QED
    BY <2>1, QuietCount DEF TypeOK
<1>31. CASE Review
  <2>1. Pending' = Pending /\ executions' = executions /\ starts' = starts
    BY <1>31 DEF Review, Pending
  <2>2. QED
    BY <2>1, QuietCount DEF TypeOK
<1>32. CASE AuthorizeRetry
  <2>1. Pending' = Pending /\ executions' = executions /\ starts' = starts
    BY <1>32 DEF AuthorizeRetry, Pending
  <2>2. QED
    BY <2>1, QuietCount DEF TypeOK
<1>33. CASE UNCHANGED vars
  <2>1. Pending' = Pending /\ executions' = executions /\ starts' = starts
    BY <1>33 DEF vars, Pending
  <2>2. QED
    BY <2>1, QuietCount DEF TypeOK
<1>34. QED
  BY <1>1, <1>2, <1>3, <1>4, <1>5, <1>6, <1>7, <1>8, <1>9, <1>10, <1>11, <1>12,
     <1>13, <1>14, <1>15, <1>16, <1>17, <1>18, <1>19, <1>20, <1>21, <1>22,
     <1>23, <1>24, <1>25, <1>26, <1>27, <1>28, <1>29, <1>30, <1>31, <1>32,
     <1>33
  DEF Next, Begin, Execute, Finish

\* finish_failed is a step of the contract.
LEMMA DiscreditImplements ==
    ASSUME TypeOK, FenceInv, NEW p \in Processes, At(p, "finishing"), Discredit(p),
           UNCHANGED <<starts, authorized>>
    PROVE  [Contract!Next]_(Contract!vars)
<1>1. CASE ~Fenced(p)
  <2>1. UNCHANGED receipt
    BY <1>1 DEF Discredit, SetRelease
  <2>2. QED
    BY <2>1 DEF Contract!vars
<1>2. CASE Fenced(p) /\ index[p].intent
  <2>1. receipt.state \in {"claimed", "started"}
    BY <1>2 DEF FenceInv
  <2>2. receipt'.state = "indeterminate"
    BY <1>2 DEF Discredit, SetRelease, Receipt
  <2>3. Contract!Doubt
    BY <2>1, <2>2 DEF Contract!Doubt, PhaseOf
  <2>4. QED
    BY <2>3 DEF Contract!Next
<1>3. CASE Fenced(p) /\ ~index[p].intent
  <2>1. receipt.state = "claimed" \/ (receipt.state = "started" /\ ~SideEffecting)
    BY <1>3, ConstantsAssumption DEF FenceInv, ConstantsAssumption
  <2>2. receipt'.state = "absent"
    BY <1>3 DEF Discredit, Absent
  <2>3. CASE receipt.state = "claimed"
    BY <2>2, <2>3 DEF Contract!vars, PhaseOf
  <2>4. CASE receipt.state = "started" /\ ~SideEffecting
    <3>1. Contract!Forget
      BY <2>2, <2>4 DEF Contract!Forget, PhaseOf
    <3>2. QED
      BY <3>1 DEF Contract!Next
  <2>5. QED
    BY <2>1, <2>3, <2>4
<1>4. QED
  BY <1>1, <1>2, <1>3

\* Every step of the store is a step of the contract or leaves it alone.
LEMMA ContractStep ==
    ASSUME TypeOK, FenceInv, ResultInv, [Next]_vars
    PROVE  [Contract!Next]_(Contract!vars)
<1> USE ConstantsAssumption DEF ConstantsAssumption, redis, history, Goto, At
<1>1. ASSUME NEW p \in Processes, Deliver(p) PROVE [Contract!Next]_(Contract!vars)
  <2>1. UNCHANGED <<receipt, starts, authorized>>
    BY <1>1 DEF Deliver
  <2>2. QED
    BY <2>1 DEF Contract!vars
<1>2. ASSUME NEW p \in Processes, Repair(p) PROVE [Contract!Next]_(Contract!vars)
  <2>1. receipt' = receipt
    <3>1. index[p].known # 0 /\ receipt \in [state: States, token: Nat, result: Nat]
      BY <1>2 DEF Repair, ResultInv, TypeOK
    <3>2. receipt.state = "committed" /\ receipt.result = index[p].known
      BY <3>1 DEF ResultInv, ResultsAgree
    <3>3. QED
      BY <1>2, <3>1, <3>2, Zenon DEF Repair
  <2>2. QED
    BY <1>2, <2>1, Zenon DEF Repair, Contract!vars
<1>3. ASSUME NEW p \in Processes, Lookup(p) PROVE [Contract!Next]_(Contract!vars)
  <2>1. UNCHANGED <<receipt, starts, authorized>>
    BY <1>3 DEF Lookup
  <2>2. QED
    BY <2>1 DEF Contract!vars
<1>4. ASSUME NEW p \in Processes, Extend(p) PROVE [Contract!Next]_(Contract!vars)
  <2>1. UNCHANGED <<receipt, starts, authorized>>
    BY <1>4 DEF Extend
  <2>2. QED
    BY <2>1 DEF Contract!vars
<1>5. ASSUME NEW p \in Processes, Grab(p) PROVE [Contract!Next]_(Contract!vars)
  <2>1. UNCHANGED <<receipt, starts, authorized>>
    BY <1>5 DEF Grab
  <2>2. QED
    BY <2>1 DEF Contract!vars
<1>6. ASSUME NEW p \in Processes, Refused(p) PROVE [Contract!Next]_(Contract!vars)
  <2>1. UNCHANGED <<receipt, starts, authorized>>
    BY <1>6 DEF Refused
  <2>2. QED
    BY <2>1 DEF Contract!vars
<1>7. ASSUME NEW p \in Processes, Read(p) PROVE [Contract!Next]_(Contract!vars)
  <2>1. UNCHANGED <<receipt, starts, authorized>>
    BY <1>7 DEF Read
  <2>2. QED
    BY <2>1 DEF Contract!vars
<1>8. ASSUME NEW p \in Processes, LetGo(p) PROVE [Contract!Next]_(Contract!vars)
  <2>1. UNCHANGED <<receipt, starts, authorized>>
    BY <1>8 DEF LetGo
  <2>2. QED
    BY <2>1 DEF Contract!vars
<1>9. ASSUME NEW p \in Processes, PublishDoubt(p) PROVE [Contract!Next]_(Contract!vars)
  <2>1. CASE ~Fenced(p)
    <3>1. UNCHANGED <<receipt, starts, authorized>>
      BY <1>9, <2>1 DEF PublishDoubt, SetRelease
    <3>2. QED
      BY <3>1 DEF Contract!vars
  <2>2. CASE Fenced(p)
    <3>1. receipt.state \in {"absent", "claimed", "started", "retry_authorized"}
      BY <1>9, <2>2 DEF PublishDoubt, FenceInv, TypeOK, States, Terminal
    <3>2. receipt'.state = "indeterminate" /\ UNCHANGED <<starts, authorized>>
      BY <1>9, <2>2 DEF PublishDoubt, SetRelease, Receipt
    <3>3. Contract!Doubt
      BY <3>1, <3>2 DEF Contract!Doubt, PhaseOf
    <3>4. QED
      BY <3>3 DEF Contract!Next
  <2>3. QED
    BY <2>1, <2>2
<1>10. ASSUME NEW p \in Processes, Publish(p) PROVE [Contract!Next]_(Contract!vars)
  <2>1. receipt.state \in {"absent", "claimed", "retry_authorized"} \/ (receipt.state = "started" /\ ~SideEffecting)
      BY <1>10 DEF Publish, FenceInv, TypeOK, States, Terminal, Unsafe
  <2>2. receipt'.state = "claimed" /\ UNCHANGED <<starts, authorized>>
      BY <1>10 DEF Publish, Receipt
  <2>3. CASE receipt.state = "started"
    <3>1. Contract!Forget
        BY <2>1, <2>2, <2>3 DEF Contract!Forget, PhaseOf
    <3>2. QED
        BY <3>1 DEF Contract!Next
  <2>4. CASE receipt.state # "started"
      BY <2>1, <2>2, <2>4 DEF Contract!vars, PhaseOf
  <2>5. QED
      BY <2>3, <2>4
<1>11. ASSUME NEW p \in Processes, PublishLost(p) PROVE [Contract!Next]_(Contract!vars)
  <2>1. UNCHANGED <<receipt, starts, authorized>>
    BY <1>11 DEF PublishLost
  <2>2. QED
    BY <2>1 DEF Contract!vars
<1>12. ASSUME NEW p \in Processes, Poll(p) PROVE [Contract!Next]_(Contract!vars)
  <2>1. UNCHANGED <<receipt, starts, authorized>>
    BY <1>12 DEF Poll
  <2>2. QED
    BY <2>1 DEF Contract!vars
<1>13. ASSUME NEW p \in Processes, BeginFails(p) PROVE [Contract!Next]_(Contract!vars)
  <2>1. UNCHANGED <<starts, authorized>>
    BY <1>13 DEF BeginFails
  <2>2. CASE UNCHANGED receipt
    BY <2>1, <2>2 DEF Contract!vars
  <2>3. CASE At(p, "publish") /\ Unsafe(p) /\ Fenced(p) /\ receipt' = Receipt(p, "indeterminate", 0)
    <3>1. receipt.state \in {"absent", "claimed", "started", "retry_authorized"}
      BY <1>13, <2>3 DEF FenceInv, TypeOK, States, Terminal
    <3>2. receipt'.state = "indeterminate" /\ UNCHANGED <<starts, authorized>>
      BY <1>13, <2>3, <2>1 DEF Receipt
    <3>3. Contract!Doubt
      BY <3>1, <3>2 DEF Contract!Doubt, PhaseOf
    <3>4. QED
      BY <3>3 DEF Contract!Next
  <2>4. CASE At(p, "publish") /\ ~Unsafe(p) /\ Fenced(p) /\ receipt' = Receipt(p, "claimed", 0)
    <3>1. receipt.state \in {"absent", "claimed", "retry_authorized"} \/ (receipt.state = "started" /\ ~SideEffecting)
      BY <2>4 DEF FenceInv, TypeOK, States, Terminal, Unsafe
    <3>2. receipt'.state = "claimed" /\ UNCHANGED <<starts, authorized>>
      BY <2>1, <2>4 DEF Receipt
    <3>3. CASE receipt.state = "started"
      <4>1. Contract!Forget
        BY <3>1, <3>2, <3>3 DEF Contract!Forget, PhaseOf
      <4>2. QED
        BY <4>1 DEF Contract!Next
    <3>4. CASE receipt.state # "started"
      BY <3>1, <3>2, <3>4 DEF Contract!vars, PhaseOf
    <3>5. QED
      BY <3>3, <3>4
  <2>5. QED
    BY <1>13, <2>2, <2>3, <2>4 DEF BeginFails, SetRelease
<1>14. ASSUME NEW p \in Processes, PreflightFails(p) PROVE [Contract!Next]_(Contract!vars)
  <2>1. UNCHANGED <<receipt, starts, authorized>>
    BY <1>14 DEF PreflightFails
  <2>2. QED
    BY <2>1 DEF Contract!vars
<1>15. ASSUME NEW p \in Processes, WriteIntent(p) PROVE [Contract!Next]_(Contract!vars)
  <2>1. UNCHANGED <<receipt, starts, authorized>>
    BY <1>15 DEF WriteIntent
  <2>2. QED
    BY <2>1 DEF Contract!vars
<1>16. ASSUME NEW p \in Processes, MarkIntent(p) PROVE [Contract!Next]_(Contract!vars)
  <2>1. receipt.state = "claimed"
    BY <1>16 DEF MarkIntent, FenceInv
  <2>2. receipt'.state = "started" /\ starts' = starts + 1 /\ authorized' = authorized
    BY <1>16 DEF MarkIntent, Receipt
  <2>3. Contract!Attempt
    BY <2>1, <2>2 DEF Contract!Attempt, PhaseOf
  <2>4. QED
    BY <2>3 DEF Contract!Next
<1>17. ASSUME NEW p \in Processes, MarkIntentLost(p) PROVE [Contract!Next]_(Contract!vars)
  <2>1. UNCHANGED <<receipt, starts, authorized>>
    BY <1>17 DEF MarkIntentLost
  <2>2. QED
    BY <2>1 DEF Contract!vars
<1>18. ASSUME NEW p \in Processes, MarkIntentFails(p) PROVE [Contract!Next]_(Contract!vars)
  <2>1. CASE Fenced(p) /\ receipt' = Receipt(p, "started", 0) /\ starts' = starts + 1
    <3>1. receipt.state = "claimed"
      BY <1>18, <2>1 DEF MarkIntentFails, FenceInv
    <3>2. receipt'.state = "started" /\ starts' = starts + 1 /\ authorized' = authorized
      BY <1>18, <2>1 DEF MarkIntentFails, Receipt
    <3>3. Contract!Attempt
      BY <3>1, <3>2 DEF Contract!Attempt, PhaseOf
    <3>4. QED
      BY <3>3 DEF Contract!Next
  <2>2. CASE UNCHANGED <<receipt, starts>>
    <3>1. UNCHANGED authorized
      BY <1>18 DEF MarkIntentFails
    <3>2. QED
      BY <2>2, <3>1 DEF Contract!vars
  <2>3. QED
    BY <1>18, <2>1, <2>2 DEF MarkIntentFails
<1>19. ASSUME NEW p \in Processes, EnterHandler(p) PROVE [Contract!Next]_(Contract!vars)
  <2>1. UNCHANGED <<receipt, starts, authorized>>
    BY <1>19 DEF EnterHandler
  <2>2. QED
    BY <2>1 DEF Contract!vars
<1>20. ASSUME NEW p \in Processes, HandlerReturns(p) PROVE [Contract!Next]_(Contract!vars)
  <2>1. UNCHANGED <<receipt, starts, authorized>>
    BY <1>20 DEF HandlerReturns
  <2>2. QED
    BY <2>1 DEF Contract!vars
<1>21. ASSUME NEW p \in Processes, EscapeBeforeFinish(p) PROVE [Contract!Next]_(Contract!vars)
  <2>1. UNCHANGED <<receipt, starts, authorized>>
    BY <1>21 DEF EscapeBeforeFinish
  <2>2. QED
    BY <2>1 DEF Contract!vars
<1>22. ASSUME NEW p \in Processes, Commit(p) PROVE [Contract!Next]_(Contract!vars)
  <2>1. receipt.state = "started" /\ call[p].attempt = starts
    BY <1>22 DEF Commit, FenceInv
  <2>2. /\ receipt'.state = "committed" /\ receipt'.result = call[p].attempt
        /\ UNCHANGED <<starts, authorized>>
    BY <1>22 DEF Commit, SetRelease, Receipt
  <2>3. Contract!Publish
    BY <2>1, <2>2 DEF Contract!Publish, PhaseOf
  <2>4. QED
    BY <2>3 DEF Contract!Next
<1>23. ASSUME NEW p \in Processes, CommitLost(p) PROVE [Contract!Next]_(Contract!vars)
  <2>1. UNCHANGED <<receipt, starts, authorized>>
    BY <1>23 DEF CommitLost
  <2>2. QED
    BY <2>1 DEF Contract!vars
<1>24. ASSUME NEW p \in Processes, FinishFailed(p) PROVE [Contract!Next]_(Contract!vars)
  <2>1. UNCHANGED <<starts, authorized>> /\ Discredit(p) /\ At(p, "finishing")
    BY <1>24 DEF FinishFailed
  <2>2. QED
    BY <2>1, DiscreditImplements
<1>25. ASSUME NEW p \in Processes, FinishFails(p) PROVE [Contract!Next]_(Contract!vars)
  <2>1. UNCHANGED <<starts, authorized>> /\ At(p, "finishing")
    BY <1>25 DEF FinishFails
  <2>2. CASE UNCHANGED receipt
    BY <2>1, <2>2 DEF Contract!vars
  <2>3. CASE call[p].ok /\ Fenced(p) /\ SetRelease(p, "committed", call[p].attempt)
    <3>1. receipt.state = "started" /\ call[p].attempt = starts
      BY <1>25, <2>3 DEF FinishFails, FenceInv
    <3>2. /\ receipt'.state = "committed" /\ receipt'.result = call[p].attempt
          /\ UNCHANGED <<starts, authorized>>
      BY <1>25, <2>3, <2>1 DEF FinishFails, SetRelease, Receipt
    <3>3. Contract!Publish
      BY <3>1, <3>2 DEF Contract!Publish, PhaseOf
    <3>4. QED
      BY <3>3 DEF Contract!Next
  <2>4. CASE Discredit(p)
    BY <2>1, <2>4, DiscreditImplements
  <2>5. QED
    BY <1>25, <2>2, <2>3, <2>4 DEF FinishFails, SetRelease
<1>26. ASSUME NEW p \in Processes, WriteStep(p) PROVE [Contract!Next]_(Contract!vars)
  <2>1. UNCHANGED <<receipt, starts, authorized>>
    BY <1>26 DEF WriteStep
  <2>2. QED
    BY <2>1 DEF Contract!vars
<1>27. ASSUME NEW p \in Processes, StepAppendFails(p) PROVE [Contract!Next]_(Contract!vars)
  <2>1. UNCHANGED <<receipt, starts, authorized>>
    BY <1>27 DEF StepAppendFails
  <2>2. QED
    BY <2>1 DEF Contract!vars
<1>28. ASSUME NEW p \in Processes, RenewLost(p) PROVE [Contract!Next]_(Contract!vars)
  <2>1. UNCHANGED <<receipt, starts, authorized>>
    BY <1>28 DEF RenewLost
  <2>2. QED
    BY <2>1 DEF Contract!vars
<1>29. ASSUME NEW p \in Processes, Crash(p) PROVE [Contract!Next]_(Contract!vars)
  <2>1. UNCHANGED <<receipt, starts, authorized>>
    BY <1>29 DEF Crash
  <2>2. QED
    BY <2>1 DEF Contract!vars
<1>30. CASE LeaseLapses
  <2>1. UNCHANGED <<receipt, starts, authorized>>
    BY <1>30 DEF LeaseLapses
  <2>2. QED
    BY <2>1 DEF Contract!vars
<1>31. CASE Review
  <2>1. UNCHANGED <<receipt, starts, authorized>>
    BY <1>31 DEF Review
  <2>2. QED
    BY <2>1 DEF Contract!vars
<1>32. CASE AuthorizeRetry
  <2>1. /\ receipt.state = "indeterminate" /\ receipt'.state = "retry_authorized"
        /\ authorized' = authorized + 1 /\ starts' = starts
    BY <1>32 DEF AuthorizeRetry, TypeOK
  <2>2. Contract!Approve
    BY <2>1 DEF Contract!Approve, PhaseOf
  <2>3. QED
    BY <2>2 DEF Contract!Next
<1>33. CASE UNCHANGED vars
  <2>1. UNCHANGED <<receipt, starts, authorized>>
    BY <1>33 DEF vars
  <2>2. QED
    BY <2>1 DEF Contract!vars
<1>34. QED
  BY <1>1, <1>2, <1>3, <1>4, <1>5, <1>6, <1>7, <1>8, <1>9, <1>10, <1>11, <1>12,
     <1>13, <1>14, <1>15, <1>16, <1>17, <1>18, <1>19, <1>20, <1>21, <1>22,
     <1>23, <1>24, <1>25, <1>26, <1>27, <1>28, <1>29, <1>30, <1>31, <1>32,
     <1>33
  DEF Next, Begin, Execute, Finish

LEMMA InitInv == Init => IInv
<1> SUFFICES ASSUME Init PROVE IInv
  OBVIOUS
<1>1. TypeOK
  BY InitType
<1>2. FenceInv /\ CallInv /\ CreditInv /\ ResultInv
  BY ConstantsAssumption
  DEF ConstantsAssumption, Init, FenceInv, Fenced, CallInv, CreditInv, ResultInv,
      ResultsAgree, At, NoCall, NoIndex, Absent, NoLease, Working
<1>3. Pending = {}
  BY DEF Init, Pending, At, NoCall
<1>4. CountInv
  BY <1>3, FS_EmptySet DEF Init, CountInv
<1>5. QED
  BY <1>1, <1>2, <1>4 DEF IInv

LEMMA InvStep == IInv /\ [Next]_vars => IInv'
BY TypeStep, FenceStep, CallStep, CreditStep, CountStep, ResultStep DEF IInv

\* The inductive invariant holds: a fenced process knows the receipt, every
\* possible start is paid for, nobody holds a result that is not the committed
\* one.
THEOREM Invariance == Spec => []IInv
BY InitInv, InvStep, PTL DEF Spec

\* A side effect is entered at most once per authorisation, for any hosts and
\* whenever leases lapse (redis_effect_store.py, claim and its scripts).
THEOREM OncePerAuthorization == Spec => []AtMostOnce
<1>1. IInv => AtMostOnce
  <2> SUFFICES ASSUME IInv, SideEffecting PROVE executions <= 1 + authorized
    BY DEF AtMostOnce
  <2>1. starts <= 1 + authorized /\ executions + Cardinality(Pending) <= starts
    BY DEF IInv, CreditInv, CountInv
  <2>2. QED
    BY <2>1, PendingFinite DEF IInv, TypeOK
<1>2. QED
  BY <1>1, Invariance, PTL

\* The receipt, the journal and every index agree on the result.
THEOREM OneResult == Spec => []ResultsAgree
<1>1. IInv => ResultsAgree
  BY DEF IInv, ResultInv
<1>2. QED
  BY <1>1, Invariance, PTL

\* The Redis store keeps the contract of the EffectStore protocol.
THEOREM Implementation == Spec => ContractSpec
<1>1. Init => Contract!Init
  BY DEF Init, Contract!Init, Absent, PhaseOf
<1>2. IInv /\ [Next]_vars => [Contract!Next]_(Contract!vars)
  BY ContractStep DEF IInv
<1>3. QED
  BY <1>1, <1>2, Invariance, PTL DEF Spec, ContractSpec, Contract!Spec

=============================================================================
