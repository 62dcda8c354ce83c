------------------------ MODULE ToolEffects_proofs ------------------------
(***************************************************************************)
(* Proofs about ToolEffects: its variables keep their types, and a side    *)
(* effect runs at most once per authorisation when the deliveries of one   *)
(* process come from one thread.                                           *)
(***************************************************************************)
EXTENDS ToolEffects, FiniteSetTheorems, TLAPS

\* Moving a delivery to another phase keeps call's type.
LEMMA GotoType ==
    ASSUME TypeOK, NEW d \in Deliverers, NEW pc \in Phases, Goto(d, pc)
    PROVE  call' \in [Deliverers -> Call]
BY DEF TypeOK, Goto, Call

\* What _refresh_from_journal leaves in an index is an index.
LEMMA RefreshedType ==
    ASSUME TypeOK, NEW p \in Processes
    PROVE  Refreshed(p) \in Memory
<1>1. mem[p] \in Memory /\ journal.intent \in BOOLEAN /\ journal.result \in Nat
  BY DEF TypeOK
<1>2. QED
  BY <1>1 DEF Refreshed, Memory

\* The thread's process is a process.
LEMMA HomeType == \A d \in Deliverers : Home[d] \in Processes
BY ConstantsAssumption DEF ConstantsAssumption

\* The receipts the store writes are receipts.
LEMMA RowTypes ==
    /\ NoRow \in Row
    /\ \A p \in Processes, t \in Nat : Claimed(p, t) \in Row
    /\ \A r \in Row : Uncertain(r) \in Row
    /\ \A r \in Row, v \in Nat : Committed(r, v) \in Row
BY DEF NoRow, Row, RowStates, Held, Claimed, Uncertain, Committed

LEMMA InitType == Init => TypeOK
<1> USE ConstantsAssumption DEF ConstantsAssumption
<1> SUFFICES ASSUME Init PROVE TypeOK
  OBVIOUS
<1>1. NoMemory \in Memory
  BY DEF NoMemory, Memory
<1>2. NoCall \in Call
  BY DEF NoCall, Call, Phases, Locked
<1>3. QED
  BY <1>1, <1>2, RowTypes DEF Init, TypeOK

\* What the delivery and the index of a process may be set to.
LEMMA CallFieldTypes ==
    ASSUME TypeOK, NEW d \in Deliverers
    PROVE  /\ \A pc \in Phases : [call EXCEPT ![d].pc = pc] \in [Deliverers -> Call]
           /\ \A pc \in Phases, t \in Nat :
                [call EXCEPT ![d].pc = pc, ![d].token = t] \in [Deliverers -> Call]
           /\ \A pc \in Phases, v \in Nat :
                [call EXCEPT ![d].pc = pc, ![d].attempt = v] \in [Deliverers -> Call]
           /\ \A pc \in Phases, b \in BOOLEAN :
                [call EXCEPT ![d].pc = pc, ![d].intent = b] \in [Deliverers -> Call]
           /\ \A pc \in Phases, b \in BOOLEAN :
                [call EXCEPT ![d].pc = pc, ![d].ok = b] \in [Deliverers -> Call]
<1>1. call[d] \in Call /\ call \in [Deliverers -> Call]
  BY DEF TypeOK
<1>2. ASSUME NEW pc \in Phases PROVE [call EXCEPT ![d].pc = pc] \in [Deliverers -> Call]
  <2>1. [call[d] EXCEPT !.pc = pc] \in Call
    BY <1>1 DEF Call
  <2>2. QED
    BY <1>1, <2>1
<1>3. ASSUME NEW pc \in Phases, NEW t \in Nat
       PROVE  [call EXCEPT ![d].pc = pc, ![d].token = t] \in [Deliverers -> Call]
  <2>1. [call[d] EXCEPT !.pc = pc, !.token = t] \in Call
    BY <1>1 DEF Call
  <2>2. QED
    BY <1>1, <2>1
<1>4. ASSUME NEW pc \in Phases, NEW v \in Nat
       PROVE  [call EXCEPT ![d].pc = pc, ![d].attempt = v] \in [Deliverers -> Call]
  <2>1. [call[d] EXCEPT !.pc = pc, !.attempt = v] \in Call
    BY <1>1 DEF Call
  <2>2. QED
    BY <1>1, <2>1
<1>5. ASSUME NEW pc \in Phases, NEW b \in BOOLEAN
       PROVE  [call EXCEPT ![d].pc = pc, ![d].intent = b] \in [Deliverers -> Call]
  <2>1. [call[d] EXCEPT !.pc = pc, !.intent = b] \in Call
    BY <1>1 DEF Call
  <2>2. QED
    BY <1>1, <2>1
<1>6. ASSUME NEW pc \in Phases, NEW b \in BOOLEAN
       PROVE  [call EXCEPT ![d].pc = pc, ![d].ok = b] \in [Deliverers -> Call]
  <2>1. [call[d] EXCEPT !.pc = pc, !.ok = b] \in Call
    BY <1>1 DEF Call
  <2>2. QED
    BY <1>1, <2>1
<1>7. QED
  BY <1>2, <1>3, <1>4, <1>5, <1>6

LEMMA MemoryTypes ==
    ASSUME TypeOK, NEW d \in Deliverers, NEW p \in Processes
    PROVE  /\ mem[p] \in Memory
           /\ Intended(p) \in Memory
           /\ Finished(p) \in Memory
           /\ HeartbeatStopped(mem[p]) \in Memory
           /\ \A m \in Memory, b \in BOOLEAN : [m EXCEPT !.live = b] \in Memory
           /\ \A m \in Memory, v \in Nat : [m EXCEPT !.result = v] \in Memory
           /\ \A m \in Memory, t \in Nat :
                [m EXCEPT !.beats = @ \union {<<d, t>>}, !.handle = {<<d, t>>}] \in Memory
<1>1. mem[p] \in Memory
  BY DEF TypeOK
<1>2. Intended(p) \in Memory
  BY RefreshedType, ConstantsAssumption DEF Intended, Memory, ConstantsAssumption
<1>3. HeartbeatStopped(mem[p]) \in Memory
  BY <1>1 DEF HeartbeatStopped, Memory
<1>4. Finished(p) \in Memory
  BY <1>3 DEF Finished, Memory
<1>5. \A m \in Memory, t \in Nat :
         [m EXCEPT !.beats = @ \union {<<d, t>>}, !.handle = {<<d, t>>}] \in Memory
  <2>1. SUFFICES ASSUME NEW m \in Memory, NEW t \in Nat
                 PROVE  [m EXCEPT !.beats = @ \union {<<d, t>>},
                                  !.handle = {<<d, t>>}] \in Memory
    OBVIOUS
  <2>2. {<<d, t>>} \in SUBSET Beat
    BY DEF Beat
  <2>3. m.beats \union {<<d, t>>} \in SUBSET Beat
    BY <2>2 DEF Memory
  <2>4. QED
    BY <2>2, <2>3 DEF Memory
<1>6. QED
  BY <1>1, <1>2, <1>3, <1>4, <1>5 DEF Memory

\* The counters of the bounds stay counters.
LEMMA UsedTypes ==
    ASSUME TypeOK
    PROVE  /\ [used EXCEPT !.deliveries = @ + 1]
                \in [deliveries: Nat, crashes: Nat, faults: Nat]
           /\ [used EXCEPT !.crashes = @ + 1]
                \in [deliveries: Nat, crashes: Nat, faults: Nat]
           /\ [used EXCEPT !.faults = @ + 1]
                \in [deliveries: Nat, crashes: Nat, faults: Nat]
BY DEF TypeOK

\* begin() keeps the types.
LEMMA BeginType ==
    ASSUME TypeOK, NEW d \in Deliverers,
           \/ Deliver(d) \/ Wait(d) \/ WaitTimesOut(d) \/ Enter(d) \/ Repair(d)
           \/ Poll(d) \/ BeginFails(d)
    PROVE  TypeOK'
<1> USE DEF history, store
<1>h. Home[d] \in Processes
  BY HomeType
<1>p. {"idle", "begin", "claim", "repair"} \subseteq Phases
  BY DEF Phases, Locked
<1>1. CASE Deliver(d)
  <2>1. [NoCall EXCEPT !.pc = "begin"] \in Call
    BY <1>p DEF NoCall, Call
  <2>2. QED
    BY <1>1, <2>1, UsedTypes DEF Deliver, TypeOK
<1>2. CASE Wait(d)
  BY <1>2, <1>h, RefreshedType DEF Wait, TypeOK
<1>3. CASE WaitTimesOut(d)
  BY <1>3, <1>p, GotoType DEF WaitTimesOut, TypeOK
<1>m. Refreshed(Home[d]) \in Memory
  BY <1>h, RefreshedType
<1>4. CASE Enter(d)
  <2>1. call' \in [Deliverers -> Call]
    BY <1>4, <1>p, <1>m, CallFieldTypes DEF Enter, Memory
  <2>2. QED
    BY <1>4, <1>h, <1>m, <2>1 DEF Enter, TypeOK
<1>5. CASE Repair(d)
  <2>1. row' \in Row
    BY <1>5, <1>h, RowTypes DEF Repair, TypeOK, Memory
  <2>2. call' \in [Deliverers -> Call]
    BY <1>5, <1>p, GotoType DEF Repair
  <2>3. QED
    BY <1>5, <2>1, <2>2 DEF Repair, TypeOK
<1>6. CASE Poll(d)
  <2>1. call[d].intent \in BOOLEAN
    BY DEF TypeOK, Call
  <2>2. call' \in [Deliverers -> Call]
    BY <1>6, <1>p, <1>m, <2>1, CallFieldTypes DEF Poll, Memory
  <2>3. QED
    BY <1>6, <1>h, <1>m, <2>2 DEF Poll, TypeOK
<1>7. CASE BeginFails(d)
  <2>1. call' \in [Deliverers -> Call]
    BY <1>7, <1>p, GotoType DEF BeginFails
  <2>2. QED
    BY <1>7, <2>1, UsedTypes DEF BeginFails, Fault, TypeOK
<1>8. QED
  BY <1>1, <1>2, <1>3, <1>4, <1>5, <1>6, <1>7

\* Every answer of claim() keeps the types.
LEMMA GrantType ==
    ASSUME TypeOK, NEW d \in Deliverers, NEW r \in Row, Grant(d, r)
    PROVE  /\ row' \in Row
           /\ call' \in [Deliverers -> Call]
           /\ mem' \in [Processes -> Memory]
<1>1. "granted" \in Phases /\ r.token \in Nat
  BY DEF Phases, Row
<1>2. call' \in [Deliverers -> Call]
  BY <1>1, CallFieldTypes DEF Grant
<1>3. mem' \in [Processes -> Memory]
  <2>1. Home[d] \in Processes /\ mem \in [Processes -> Memory]
    BY HomeType DEF TypeOK
  <2>2. [mem[Home[d]] EXCEPT !.live = TRUE] \in Memory
    BY <2>1, MemoryTypes
  <2>3. QED
    BY <2>1, <2>2 DEF Grant
<1>4. QED
  BY <1>2, <1>3 DEF Grant

LEMMA RefuseType ==
    ASSUME TypeOK, NEW d \in Deliverers, NEW r \in Row, Refuse(d, r)
    PROVE  /\ row' \in Row
           /\ call' \in [Deliverers -> Call]
           /\ mem' \in [Processes -> Memory]
<1>1. "idle" \in Phases
  BY DEF Phases
<1>2. QED
  BY <1>1, GotoType DEF Refuse, TypeOK

LEMMA ClaimType ==
    ASSUME TypeOK, NEW d \in Deliverers, Claim(d) \/ ClaimUnreadable(d)
    PROVE  TypeOK'
<1> USE DEF history, store
<1>h. Home[d] \in Processes
  BY HomeType
<1>r. row \in Row /\ row.token + 1 \in Nat /\ row.result \in Nat
  BY DEF TypeOK, Row
<1>p. {"idle", "polling", "journaling"} \subseteq Phases
  BY DEF Phases
<1>1. CASE ClaimVacant(d)
  <2>1. Uncertain(NoRow) \in Row /\ Claimed(Home[d], 1) \in Row
    BY <1>h, RowTypes
  <2>2. CASE Refuse(d, Uncertain(NoRow))
    BY <1>1, <2>1, <2>2, RefuseType DEF ClaimVacant, TypeOK
  <2>3. CASE Grant(d, Claimed(Home[d], 1))
    BY <1>1, <2>1, <2>3, GrantType DEF ClaimVacant, TypeOK
  <2>4. QED
    BY <1>1, <2>2, <2>3 DEF ClaimVacant
<1>2. CASE ClaimCommitted(d)
  <2>1. call' \in [Deliverers -> Call]
    BY <1>2, <1>p, <1>r, CallFieldTypes DEF ClaimCommitted
  <2>2. mem' \in [Processes -> Memory]
    <3>1. mem \in [Processes -> Memory]
      BY DEF TypeOK
    <3>2. [mem[Home[d]] EXCEPT !.result = row.result] \in Memory
      BY <3>1, <1>h, <1>r, MemoryTypes
    <3>3. QED
      BY <1>2, <1>h, <3>1, <3>2 DEF ClaimCommitted
  <2>3. QED
    BY <1>2, <2>1, <2>2 DEF ClaimCommitted, TypeOK
<1>3. CASE ClaimIndeterminate(d)
  BY <1>3, <1>r, RefuseType DEF ClaimIndeterminate, TypeOK
<1>4. CASE ClaimBusy(d)
  <2>1. call' \in [Deliverers -> Call]
    BY <1>4, <1>p, GotoType DEF ClaimBusy
  <2>2. QED
    BY <1>4, <2>1 DEF ClaimBusy, TypeOK
<1>5. CASE ClaimOwn(d)
  BY <1>5, <1>r, GrantType DEF ClaimOwn, TypeOK
<1>6. CASE ClaimLapsed(d)
  <2>1. Uncertain(row) \in Row /\ Claimed(Home[d], row.token + 1) \in Row
    BY <1>h, <1>r, RowTypes
  <2>2. CASE Refuse(d, Uncertain(row))
    BY <1>6, <2>1, <2>2, RefuseType DEF ClaimLapsed, TypeOK
  <2>3. CASE Grant(d, Claimed(Home[d], row.token + 1))
    BY <1>6, <2>1, <2>3, GrantType DEF ClaimLapsed, TypeOK
  <2>4. QED
    BY <1>6, <2>2, <2>3 DEF ClaimLapsed
<1>7. CASE ClaimUnreadable(d)
  <2>1. Uncertain(row) \in Row
    BY <1>r, RowTypes
  <2>2. QED
    BY <1>7, <2>1, RefuseType, UsedTypes DEF ClaimUnreadable, Fault, TypeOK
<1>8. QED
  BY <1>1, <1>2, <1>3, <1>4, <1>5, <1>6, <1>7 DEF Claim

\* From the grant to the handler.
LEMMA StartType ==
    ASSUME TypeOK, NEW d \in Deliverers,
           \/ PreflightFails(d) \/ WriteIntent(d) \/ MarkIntent(d)
           \/ MarkIntentLost(d) \/ MarkIntentFails(d)
           \/ EnterHandler(d) \/ HandlerReturns(d)
    PROVE  TypeOK'
<1> USE DEF history, store
<1>h. Home[d] \in Processes
  BY HomeType
<1>p. {"intended", "started", "running", "finishing"} \subseteq Phases
  BY DEF Phases
<1>m. Intended(Home[d]) \in Memory
  BY <1>h, MemoryTypes
<1>1. CASE PreflightFails(d)
  BY <1>1, <1>p, GotoType DEF PreflightFails, TypeOK
<1>2. CASE WriteIntent(d)
  <2>1. call' \in [Deliverers -> Call]
    BY <1>2, <1>p, GotoType DEF WriteIntent
  <2>2. journal' \in [intent: BOOLEAN, result: Nat]
    BY <1>2 DEF WriteIntent, TypeOK
  <2>3. QED
    BY <1>2, <2>1, <2>2 DEF WriteIntent, TypeOK
<1>3. CASE MarkIntent(d)
  <2>1. starts + 1 \in Nat /\ call[d].token \in Nat
    BY DEF TypeOK, Call
  <2>2. call' \in [Deliverers -> Call]
    BY <1>3, <1>p, <2>1, CallFieldTypes DEF MarkIntent
  <2>3. row' \in Row
    BY <1>3 DEF MarkIntent, TypeOK, Row, RowStates, Held
  <2>b. [Intended(Home[d]) EXCEPT !.beats = @ \union {<<d, call[d].token>>},
                                  !.handle = {<<d, call[d].token>>}] \in Memory
    BY <1>h, <1>m, <2>1, MemoryTypes
  <2>4. mem' \in [Processes -> Memory]
    BY <1>3, <1>h, <2>b DEF MarkIntent, TypeOK
  <2>5. QED
    BY <1>3, <2>1, <2>2, <2>3, <2>4 DEF MarkIntent, TypeOK
<1>4. CASE MarkIntentLost(d)
  <2>1. call' \in [Deliverers -> Call]
    BY <1>4, <1>p, GotoType DEF MarkIntentLost
  <2>2. mem' \in [Processes -> Memory]
    BY <1>4, <1>h, <1>m, MemoryTypes DEF MarkIntentLost, TypeOK
  <2>3. QED
    BY <1>4, <2>1, <2>2 DEF MarkIntentLost, TypeOK
<1>5. CASE MarkIntentFails(d)
  <2>1. call' \in [Deliverers -> Call]
    BY <1>5, <1>p, GotoType DEF MarkIntentFails
  <2>2. mem' \in [Processes -> Memory]
    BY <1>5, <1>h, <1>m DEF MarkIntentFails, TypeOK
  <2>3. QED
    BY <1>5, <2>1, <2>2, UsedTypes DEF MarkIntentFails, Fault, TypeOK
<1>6. CASE EnterHandler(d)
  <2>1. call' \in [Deliverers -> Call]
    BY <1>6, <1>p, GotoType DEF EnterHandler
  <2>2. QED
    BY <1>6, <2>1 DEF EnterHandler, TypeOK
<1>7. CASE HandlerReturns(d)
  <2>1. call' \in [Deliverers -> Call]
    <3>1. PICK ok \in BOOLEAN :
                 call' = [call EXCEPT ![d].pc = "finishing", ![d].ok = ok]
      BY <1>7 DEF HandlerReturns
    <3>2. QED
      BY <1>p, <3>1, CallFieldTypes
  <2>2. QED
    BY <1>7, <2>1 DEF HandlerReturns, TypeOK
<1>8. QED
  BY <1>1, <1>2, <1>3, <1>4, <1>5, <1>6, <1>7

\* finish() and the journal Step.
LEMMA FinishType ==
    ASSUME TypeOK, NEW d \in Deliverers,
           \/ EscapeBeforeFinish(d) \/ Commit(d) \/ CommitLost(d)
           \/ FinishFailed(d) \/ FinishFails(d) \/ WriteStep(d) \/ StepAppendFails(d)
    PROVE  TypeOK'
<1> USE DEF history, store
<1>h. Home[d] \in Processes
  BY HomeType
<1>p. {"idle", "journaling"} \subseteq Phases
  BY DEF Phases
<1>a. call[d].attempt \in Nat /\ row \in Row
  BY DEF TypeOK, Call
<1>m. /\ Finished(Home[d]) \in Memory
      /\ [Finished(Home[d]) EXCEPT !.result = call[d].attempt] \in Memory
      /\ HeartbeatStopped(mem[Home[d]]) \in Memory
  BY <1>h, <1>a, MemoryTypes
<1>r. /\ Committed(row, call[d].attempt) \in Row
      /\ Uncertain(row) \in Row
      /\ NoRow \in Row
  BY <1>a, RowTypes
<1>1. CASE EscapeBeforeFinish(d)
  <2>1. call' \in [Deliverers -> Call]
    BY <1>1, <1>p, GotoType DEF EscapeBeforeFinish
  <2>2. QED
    BY <1>1, <2>1, UsedTypes DEF EscapeBeforeFinish, Fault, TypeOK
<1>2. CASE Commit(d)
  <2>1. call' \in [Deliverers -> Call]
    BY <1>2, <1>p, GotoType DEF Commit
  <2>2. mem' \in [Processes -> Memory]
    BY <1>2, <1>h, <1>m DEF Commit, TypeOK
  <2>3. QED
    BY <1>2, <1>r, <2>1, <2>2 DEF Commit, TypeOK
<1>3. CASE CommitLost(d)
  <2>1. call' \in [Deliverers -> Call]
    BY <1>3, <1>p, GotoType DEF CommitLost
  <2>2. mem' \in [Processes -> Memory]
    BY <1>3, <1>h, <1>m DEF CommitLost, TypeOK
  <2>3. QED
    BY <1>3, <2>1, <2>2 DEF CommitLost, TypeOK
<1>4. CASE FinishFailed(d)
  <2>1. call' \in [Deliverers -> Call]
    BY <1>4, <1>p, GotoType DEF FinishFailed
  <2>2. mem' \in [Processes -> Memory]
    BY <1>4, <1>h, <1>m DEF FinishFailed, TypeOK
  <2>3. row' \in Row
    BY <1>4, <1>a, <1>r DEF FinishFailed
  <2>4. QED
    BY <1>4, <2>1, <2>2, <2>3 DEF FinishFailed, TypeOK
<1>5. CASE FinishFails(d)
  <2>1. call' \in [Deliverers -> Call]
    BY <1>5, <1>p, GotoType DEF FinishFails
  <2>2. mem' \in [Processes -> Memory]
    BY <1>5, <1>h, <1>m DEF FinishFails, TypeOK
  <2>3. QED
    BY <1>5, <2>1, <2>2, UsedTypes DEF FinishFails, Fault, TypeOK
<1>6. CASE WriteStep(d)
  <2>1. call' \in [Deliverers -> Call]
    BY <1>6, <1>p, GotoType DEF WriteStep
  <2>2. mem' \in [Processes -> Memory]
    <3>1. \A p \in Processes : [mem[p] EXCEPT !.unread = TRUE] \in Memory
      BY DEF TypeOK, Memory
    <3>2. QED
      BY <1>6, <3>1 DEF WriteStep
  <2>3. journal' \in [intent: BOOLEAN, result: Nat]
    BY <1>6, <1>a DEF WriteStep, TypeOK
  <2>4. QED
    BY <1>6, <2>1, <2>2, <2>3 DEF WriteStep, TypeOK
<1>7. CASE StepAppendFails(d)
  <2>1. call' \in [Deliverers -> Call]
    BY <1>7, <1>p, GotoType DEF StepAppendFails
  <2>2. QED
    BY <1>7, <2>1, UsedTypes DEF StepAppendFails, Fault, TypeOK
<1>8. QED
  BY <1>1, <1>2, <1>3, <1>4, <1>5, <1>6, <1>7

\* Time, heartbeats, crashes and operators.
LEMMA EnvironmentType ==
    ASSUME TypeOK,
           \/ \E p \in Processes : Crash(p) \/ \E beat \in mem[p].beats : Renew(p, beat)
           \/ LeaseExpires \/ Review \/ AuthorizeRetry
    PROVE  TypeOK'
<1> USE DEF history, store
<1>1. ASSUME NEW p \in Processes, Crash(p)
      PROVE  TypeOK'
  <2>1. NoMemory \in Memory
    BY DEF NoMemory, Memory
  <2>2. [NoCall EXCEPT !.pc = "dead"] \in Call
    BY DEF NoCall, Call, Phases
  <2>3. call' \in [Deliverers -> Call]
    BY <1>1, <2>2 DEF Crash, TypeOK
  <2>4. QED
    BY <1>1, <2>1, <2>3, UsedTypes DEF Crash, TypeOK
<1>2. ASSUME NEW p \in Processes, NEW beat \in mem[p].beats, Renew(p, beat)
      PROVE  TypeOK'
  <2>1. CASE row' = [row EXCEPT !.live = TRUE] /\ UNCHANGED mem
    BY <1>2, <2>1 DEF Renew, TypeOK, Row
  <2>2. CASE mem' = [mem EXCEPT ![p].beats = @ \ {beat}] /\ UNCHANGED row
    <3>1. mem[p].beats \ {beat} \in SUBSET Beat
      BY DEF TypeOK, Memory
    <3>2. mem' \in [Processes -> Memory]
      BY <2>2, <3>1 DEF TypeOK, Memory
    <3>3. QED
      BY <1>2, <2>2, <3>2 DEF Renew, TypeOK
  <2>3. QED
    BY <1>2, <2>1, <2>2 DEF Renew
<1>3. CASE LeaseExpires
  BY <1>3 DEF LeaseExpires, TypeOK, Row
<1>4. CASE Review
  BY <1>4 DEF Review, TypeOK, Row
<1>5. CASE AuthorizeRetry
  <2>1. row' \in Row
    BY <1>5 DEF AuthorizeRetry, TypeOK, Row, RowStates
  <2>2. QED
    BY <1>5, <2>1 DEF AuthorizeRetry, TypeOK
<1>6. QED
  BY <1>1, <1>2, <1>3, <1>4, <1>5

LEMMA NextType == TypeOK /\ [Next]_vars => TypeOK'
<1> SUFFICES ASSUME TypeOK, [Next]_vars PROVE TypeOK'
  OBVIOUS
<1>1. ASSUME NEW d \in Deliverers, Deliver(d) \/ Progress(d) \/ Trouble(d)
      PROVE  TypeOK'
  BY <1>1, BeginType, ClaimType, StartType, FinishType DEF Progress, Trouble
<1>2. CASE \/ \E p \in Processes : Crash(p) \/ \E beat \in mem[p].beats : Renew(p, beat)
           \/ LeaseExpires \/ Review \/ AuthorizeRetry
  BY <1>2, EnvironmentType
<1>3. CASE UNCHANGED vars
  BY <1>3 DEF vars, store, history, TypeOK
<1>4. QED
  BY <1>1, <1>2, <1>3 DEF Next

\* The receipt, the journal, the indexes and the calls keep their types in
\* every behaviour, for any number of processes, threads and deliveries.
THEOREM TypeCorrect == Spec => []TypeOK
BY InitType, NextType, PTL DEF Spec

-----------------------------------------------------------------------------
(* The inductive invariant, for one delivery thread per process. *)

LEMMA OwnHomes ==
    OneThreadEach => \A d, e \in Deliverers : /\ Home[e] \in Processes /\ Home[e] # Nobody
                                              /\ e # d => Home[e] # Home[d]
BY HomeType, ConstantsAssumption DEF OneThreadEach, ConstantsAssumption

\* A step keeps a paid start wherever another one is possible.  Receipts are
\* granted only from states that are paid for, ClaimOwn is impossible by
\* OwnerInv, and a failure deletes a receipt only under an unstarted claim.
LEMMA CreditDelivery ==
    ASSUME OneThreadEach, SideEffecting = TRUE, IInv,
           NEW d \in Deliverers, Deliver(d) \/ Progress(d) \/ Trouble(d)
    PROVE  CreditInv'
<1> USE DEF history, store, Goto, At, Matches, Held, Call, Row, CreditInv, Unstarted
<1>h. \A e \in Deliverers : /\ Home[e] \in Processes /\ Home[e] # Nobody
                            /\ e # d => Home[e] # Home[d]
  BY OwnHomes
<1>t. /\ call \in [Deliverers -> Call] /\ mem \in [Processes -> Memory]
      /\ row \in Row /\ starts \in Nat /\ authorized \in Nat
  BY DEF IInv, TypeOK
<1>i. CreditInv /\ OwnerInv /\ IntentInv
  BY DEF IInv
<1>1. CASE Deliver(d)
  BY <1>1, <1>h, <1>t, <1>i DEF Deliver, NoCall
<1>2. CASE Wait(d)
  BY <1>2, <1>h, <1>t, <1>i DEF Wait
<1>3. CASE WaitTimesOut(d)
  BY <1>3, <1>h, <1>t, <1>i DEF WaitTimesOut
<1>4. CASE Enter(d)
  BY <1>4, <1>h, <1>t, <1>i DEF Enter
<1>5. CASE Repair(d)
  BY <1>5, <1>h, <1>t, <1>i DEF Repair, Committed
<1>6. CASE Poll(d)
  BY <1>6, <1>h, <1>t, <1>i DEF Poll
<1>7. CASE BeginFails(d)
  BY <1>7, <1>h, <1>t, <1>i DEF BeginFails
<1>8. CASE ClaimVacant(d)
  BY <1>8, <1>h, <1>t, <1>i DEF ClaimVacant, Refuse, Grant, Uncertain, NoRow, Claimed
<1>9. CASE ClaimCommitted(d)
  BY <1>9, <1>h, <1>t, <1>i DEF ClaimCommitted
<1>10. CASE ClaimUnreadable(d)
  BY <1>10, <1>h, <1>t, <1>i DEF ClaimUnreadable, Refuse, Uncertain
<1>11. CASE ClaimIndeterminate(d)
  BY <1>11, <1>h, <1>t, <1>i DEF ClaimIndeterminate, Refuse
<1>12. CASE ClaimBusy(d)
  BY <1>12, <1>h, <1>t, <1>i DEF ClaimBusy
<1>13. CASE ClaimOwn(d)
  BY <1>13, <1>h, <1>t, <1>i DEF ClaimOwn, Grant, OwnerInv, Locked, Memory
<1>14. CASE ClaimLapsed(d)
  <2>1. CASE Refuse(d, Uncertain(row))
    BY <1>14, <2>1, <1>h, <1>t, <1>i DEF ClaimLapsed, Refuse, Uncertain
  <2>2. CASE ~Unsafe(d) /\ Grant(d, Claimed(Home[d], row.token + 1))
    <3>1. starts <= authorized
      BY <1>14, <2>2, <1>i DEF ClaimLapsed, Unsafe
    <3>2. starts' = starts /\ authorized' = authorized
      BY <1>14 DEF ClaimLapsed
    <3>3. QED
      BY <1>t, <3>1, <3>2
  <2>3. QED
    BY <1>14, <2>1, <2>2 DEF ClaimLapsed
<1>15. CASE PreflightFails(d)
  BY <1>15, <1>h, <1>t, <1>i DEF PreflightFails
<1>16. CASE WriteIntent(d)
  BY <1>16, <1>h, <1>t, <1>i DEF WriteIntent
<1>17. CASE MarkIntent(d)
  BY <1>17, <1>h, <1>t, <1>i DEF MarkIntent, Owns
<1>18. CASE MarkIntentLost(d)
  BY <1>18, <1>h, <1>t, <1>i DEF MarkIntentLost, Owns
<1>19. CASE MarkIntentFails(d)
  BY <1>19, <1>h, <1>t, <1>i DEF MarkIntentFails
<1>20. CASE EnterHandler(d)
  BY <1>20, <1>h, <1>t, <1>i DEF EnterHandler
<1>21. CASE HandlerReturns(d)
  <2>1. PICK ok \in BOOLEAN :
               call' = [call EXCEPT ![d].pc = "finishing", ![d].ok = ok]
    BY <1>21 DEF HandlerReturns
  <2>2. call[d].attempt # 0
    BY <1>21, <1>i DEF HandlerReturns, IntentInv
  <2>3. QED
    BY <1>21, <2>1, <2>2, <1>h, <1>t, <1>i DEF HandlerReturns
<1>22. CASE EscapeBeforeFinish(d)
  BY <1>22, <1>h, <1>t, <1>i DEF EscapeBeforeFinish
<1>23. CASE Commit(d)
  BY <1>23, <1>h, <1>t, <1>i DEF Commit, Owns, Committed
<1>24. CASE CommitLost(d)
  BY <1>24, <1>h, <1>t, <1>i DEF CommitLost, Owns
<1>25. CASE FinishFailed(d)
  BY <1>25, <1>h, <1>t, <1>i DEF FinishFailed, Uncertain, NoRow, IntentInv, Started
<1>26. CASE FinishFails(d)
  BY <1>26, <1>h, <1>t, <1>i DEF FinishFails
<1>27. CASE WriteStep(d)
  BY <1>27, <1>h, <1>t, <1>i DEF WriteStep
<1>28. CASE StepAppendFails(d)
  BY <1>28, <1>h, <1>t, <1>i DEF StepAppendFails
<1>29. QED
  BY <1>1, <1>2, <1>3, <1>4, <1>5, <1>6, <1>7, <1>8, <1>9, <1>10, <1>11, <1>12, <1>13, <1>14, <1>15,
     <1>16, <1>17, <1>18, <1>19, <1>20, <1>21, <1>22, <1>23, <1>24, <1>25, <1>26, <1>27, <1>28 DEF Progress, Claim, Trouble

\* A step keeps a process's index aware of the claim the process holds.
LEMMA OwnerDelivery ==
    ASSUME OneThreadEach, IInv, NEW d \in Deliverers, Deliver(d) \/ Progress(d) \/ Trouble(d)
    PROVE  OwnerInv'
<1> USE DEF history, store, Goto, At, Matches, Held, Call, Row, Memory, OwnerInv, Working, Locked
<1>h. \A e \in Deliverers : /\ Home[e] \in Processes /\ Home[e] # Nobody
                            /\ e # d => Home[e] # Home[d]
  BY OwnHomes
<1>t. /\ call \in [Deliverers -> Call] /\ mem \in [Processes -> Memory]
      /\ row \in Row /\ starts \in Nat /\ authorized \in Nat
  BY DEF IInv, TypeOK
<1>i. OwnerInv
  BY DEF IInv
<1>1. CASE Deliver(d)
  BY <1>1, <1>h, <1>t, <1>i DEF Deliver, NoCall
<1>2. CASE Wait(d)
  BY <1>2, <1>h, <1>t, <1>i DEF Wait, Refreshed
<1>3. CASE WaitTimesOut(d)
  BY <1>3, <1>h, <1>t, <1>i DEF WaitTimesOut
<1>4. CASE Enter(d)
  BY <1>4, <1>h, <1>t, <1>i DEF Enter, Refreshed
<1>5. CASE Repair(d)
  BY <1>5, <1>h, <1>t, <1>i DEF Repair, Committed
<1>6. CASE Poll(d)
  BY <1>6, <1>h, <1>t, <1>i DEF Poll, Refreshed
<1>7. CASE BeginFails(d)
  BY <1>7, <1>h, <1>t, <1>i DEF BeginFails
<1>8. CASE ClaimVacant(d)
  <2>1. CASE Refuse(d, Uncertain(NoRow))
    BY <1>8, <2>1, <1>h, <1>t, <1>i DEF ClaimVacant, Refuse, Uncertain, NoRow
  <2>2. CASE Grant(d, Claimed(Home[d], 1))
    BY <1>8, <2>2, <1>h, <1>t, <1>i DEF ClaimVacant, Grant, Claimed
  <2>3. QED
    BY <1>8, <2>1, <2>2 DEF ClaimVacant
<1>9. CASE ClaimCommitted(d)
  BY <1>9, <1>h, <1>t, <1>i DEF ClaimCommitted
<1>10. CASE ClaimUnreadable(d)
  BY <1>10, <1>h, <1>t, <1>i DEF ClaimUnreadable, Refuse, Uncertain
<1>11. CASE ClaimIndeterminate(d)
  BY <1>11, <1>h, <1>t, <1>i DEF ClaimIndeterminate, Refuse
<1>12. CASE ClaimBusy(d)
  BY <1>12, <1>h, <1>t, <1>i DEF ClaimBusy
<1>13. CASE ClaimOwn(d)
  BY <1>13, <1>h, <1>t, <1>i DEF ClaimOwn, Grant
<1>14. CASE ClaimLapsed(d)
  <2>1. CASE Refuse(d, Uncertain(row))
    BY <1>14, <2>1, <1>h, <1>t, <1>i DEF ClaimLapsed, Refuse, Uncertain
  <2>2. CASE Grant(d, Claimed(Home[d], row.token + 1))
    BY <1>14, <2>2, <1>h, <1>t, <1>i DEF ClaimLapsed, Grant, Claimed
  <2>3. QED
    BY <1>14, <2>1, <2>2 DEF ClaimLapsed
<1>15. CASE PreflightFails(d)
  BY <1>15, <1>h, <1>t, <1>i DEF PreflightFails
<1>16. CASE WriteIntent(d)
  BY <1>16, <1>h, <1>t, <1>i DEF WriteIntent
<1>17. CASE MarkIntent(d)
  BY <1>17, <1>h, <1>t, <1>i DEF MarkIntent, Owns, Intended, Refreshed
<1>18. CASE MarkIntentLost(d)
  BY <1>18, <1>h, <1>t, <1>i DEF MarkIntentLost, Owns, Intended, Refreshed
<1>19. CASE MarkIntentFails(d)
  BY <1>19, <1>h, <1>t, <1>i DEF MarkIntentFails, Intended, Refreshed
<1>20. CASE EnterHandler(d)
  BY <1>20, <1>h, <1>t, <1>i DEF EnterHandler
<1>21. CASE HandlerReturns(d)
  BY <1>21, <1>h, <1>t, <1>i DEF HandlerReturns
<1>22. CASE EscapeBeforeFinish(d)
  BY <1>22, <1>h, <1>t, <1>i DEF EscapeBeforeFinish
<1>23. CASE Commit(d)
  BY <1>23, <1>h, <1>t, <1>i DEF Commit, Owns, Committed, Finished, HeartbeatStopped
<1>24. CASE CommitLost(d)
  BY <1>24, <1>h, <1>t, <1>i DEF CommitLost, Owns, Finished, HeartbeatStopped
<1>25. CASE FinishFailed(d)
  BY <1>25, <1>h, <1>t, <1>i DEF FinishFailed, Uncertain, NoRow, Finished, HeartbeatStopped
<1>26. CASE FinishFails(d)
  BY <1>26, <1>h, <1>t, <1>i DEF FinishFails, HeartbeatStopped
<1>27. CASE WriteStep(d)
  BY <1>27, <1>h, <1>t, <1>i DEF WriteStep
<1>28. CASE StepAppendFails(d)
  BY <1>28, <1>h, <1>t, <1>i DEF StepAppendFails
<1>29. QED
  BY <1>1, <1>2, <1>3, <1>4, <1>5, <1>6, <1>7, <1>8, <1>9, <1>10, <1>11, <1>12, <1>13, <1>14, <1>15,
     <1>16, <1>17, <1>18, <1>19, <1>20, <1>21, <1>22, <1>23, <1>24, <1>25, <1>26, <1>27, <1>28 DEF Progress, Claim, Trouble

\* A step keeps the intent of a started delivery in its index.
LEMMA IntentDelivery ==
    ASSUME OneThreadEach, IInv, NEW d \in Deliverers, Deliver(d) \/ Progress(d) \/ Trouble(d)
    PROVE  IntentInv'
<1> USE DEF history, store, Goto, At, Matches, Held, Call, Row, Memory, IntentInv, Started, Locked
<1>h. \A e \in Deliverers : /\ Home[e] \in Processes /\ Home[e] # Nobody
                            /\ e # d => Home[e] # Home[d]
  BY OwnHomes
<1>t. /\ call \in [Deliverers -> Call] /\ mem \in [Processes -> Memory]
      /\ row \in Row /\ starts \in Nat /\ authorized \in Nat
  BY DEF IInv, TypeOK
<1>i. IntentInv
  BY DEF IInv
<1>1. CASE Deliver(d)
  BY <1>1, <1>h, <1>t, <1>i DEF Deliver, NoCall
<1>2. CASE Wait(d)
  BY <1>2, <1>h, <1>t, <1>i DEF Wait, Refreshed
<1>3. CASE WaitTimesOut(d)
  BY <1>3, <1>h, <1>t, <1>i DEF WaitTimesOut
<1>4. CASE Enter(d)
  BY <1>4, <1>h, <1>t, <1>i DEF Enter, Refreshed
<1>5. CASE Repair(d)
  BY <1>5, <1>h, <1>t, <1>i DEF Repair, Committed
<1>6. CASE Poll(d)
  BY <1>6, <1>h, <1>t, <1>i DEF Poll, Refreshed
<1>7. CASE BeginFails(d)
  BY <1>7, <1>h, <1>t, <1>i DEF BeginFails
<1>8. CASE ClaimVacant(d)
  BY <1>8, <1>h, <1>t, <1>i DEF ClaimVacant, Refuse, Grant, Uncertain, NoRow, Claimed
<1>9. CASE ClaimCommitted(d)
  BY <1>9, <1>h, <1>t, <1>i DEF ClaimCommitted
<1>10. CASE ClaimUnreadable(d)
  BY <1>10, <1>h, <1>t, <1>i DEF ClaimUnreadable, Refuse, Uncertain
<1>11. CASE ClaimIndeterminate(d)
  BY <1>11, <1>h, <1>t, <1>i DEF ClaimIndeterminate, Refuse
<1>12. CASE ClaimBusy(d)
  BY <1>12, <1>h, <1>t, <1>i DEF ClaimBusy
<1>13. CASE ClaimOwn(d)
  BY <1>13, <1>h, <1>t, <1>i DEF ClaimOwn, Grant
<1>14. CASE ClaimLapsed(d)
  BY <1>14, <1>h, <1>t, <1>i DEF ClaimLapsed, Unsafe, Refuse, Grant, Uncertain, Claimed
<1>15. CASE PreflightFails(d)
  BY <1>15, <1>h, <1>t, <1>i DEF PreflightFails
<1>16. CASE WriteIntent(d)
  BY <1>16, <1>h, <1>t, <1>i DEF WriteIntent
<1>17. CASE MarkIntent(d)
  BY <1>17, <1>h, <1>t, <1>i DEF MarkIntent, Owns, Intended, Refreshed
<1>18. CASE MarkIntentLost(d)
  BY <1>18, <1>h, <1>t, <1>i DEF MarkIntentLost, Owns, Intended, Refreshed
<1>19. CASE MarkIntentFails(d)
  BY <1>19, <1>h, <1>t, <1>i DEF MarkIntentFails, Intended, Refreshed
<1>20. CASE EnterHandler(d)
  BY <1>20, <1>h, <1>t, <1>i DEF EnterHandler
<1>21. CASE HandlerReturns(d)
  BY <1>21, <1>h, <1>t, <1>i DEF HandlerReturns
<1>22. CASE EscapeBeforeFinish(d)
  BY <1>22, <1>h, <1>t, <1>i DEF EscapeBeforeFinish
<1>23. CASE Commit(d)
  BY <1>23, <1>h, <1>t, <1>i DEF Commit, Owns, Committed, Finished, HeartbeatStopped
<1>24. CASE CommitLost(d)
  BY <1>24, <1>h, <1>t, <1>i DEF CommitLost, Owns, Finished, HeartbeatStopped
<1>25. CASE FinishFailed(d)
  BY <1>25, <1>h, <1>t, <1>i DEF FinishFailed, Uncertain, NoRow, Finished, HeartbeatStopped
<1>26. CASE FinishFails(d)
  BY <1>26, <1>h, <1>t, <1>i DEF FinishFails, HeartbeatStopped
<1>27. CASE WriteStep(d)
  BY <1>27, <1>h, <1>t, <1>i DEF WriteStep
<1>28. CASE StepAppendFails(d)
  BY <1>28, <1>h, <1>t, <1>i DEF StepAppendFails
<1>29. QED
  BY <1>1, <1>2, <1>3, <1>4, <1>5, <1>6, <1>7, <1>8, <1>9, <1>10, <1>11, <1>12, <1>13, <1>14, <1>15,
     <1>16, <1>17, <1>18, <1>19, <1>20, <1>21, <1>22, <1>23, <1>24, <1>25, <1>26, <1>27, <1>28 DEF Progress, Claim, Trouble

\* The environment keeps the three invariants: a crash only forgets, a lease
\* that lapses or is renewed changes no claim, an approval pays for a start.
LEMMA EnvironmentStep ==
    ASSUME OneThreadEach, IInv,
           \/ \E p \in Processes : Crash(p) \/ \E beat \in mem[p].beats : Renew(p, beat)
           \/ LeaseExpires \/ Review \/ AuthorizeRetry
    PROVE  CreditInv' /\ OwnerInv' /\ IntentInv'
<1> USE DEF history, store, At, Matches, Held, Call, Row, Memory, CreditInv, OwnerInv,
            IntentInv, Unstarted, Started, Working, Locked
<1>h. \A e \in Deliverers : Home[e] \in Processes /\ Home[e] # Nobody
  BY OwnHomes
<1>t. /\ call \in [Deliverers -> Call] /\ mem \in [Processes -> Memory]
      /\ row \in Row /\ starts \in Nat /\ authorized \in Nat
  BY DEF IInv, TypeOK
<1>i. CreditInv /\ OwnerInv /\ IntentInv
  BY DEF IInv
<1>1. ASSUME NEW p \in Processes, Crash(p)
      PROVE  CreditInv' /\ OwnerInv' /\ IntentInv'
  <2>1. \A e \in Deliverers :
          \/ call'[e] = call[e] /\ mem'[Home[e]] = mem[Home[e]]
          \/ call'[e].pc = "dead"
    BY <1>1, <1>h, <1>t DEF Crash, NoCall
  <2>2. CreditInv'
    BY <1>1, <1>i, <2>1 DEF Crash
  <2>3. OwnerInv'
    BY <1>1, <1>i, <2>1 DEF Crash
  <2>4. IntentInv'
    BY <1>1, <1>i, <2>1 DEF Crash
  <2>5. QED
    BY <2>2, <2>3, <2>4
<1>2. ASSUME NEW p \in Processes, NEW beat \in mem[p].beats, Renew(p, beat)
      PROVE  CreditInv' /\ OwnerInv' /\ IntentInv'
  <2>1. /\ row'.state = row.state /\ row'.holder = row.holder /\ row'.token = row.token
        /\ UNCHANGED <<call, starts, authorized>>
    BY <1>2, <1>t DEF Renew
  <2>2. \A q \in Processes : mem'[q].live = mem[q].live /\ mem'[q].intent = mem[q].intent
    BY <1>2, <1>t DEF Renew
  <2>3. QED
    BY <1>h, <1>i, <2>1, <2>2
<1>3. CASE LeaseExpires
  BY <1>3, <1>h, <1>t, <1>i DEF LeaseExpires
<1>4. CASE Review
  BY <1>4, <1>h, <1>t, <1>i DEF Review
<1>5. CASE AuthorizeRetry
  BY <1>5, <1>h, <1>t, <1>i DEF AuthorizeRetry
<1>6. QED
  BY <1>1, <1>2, <1>3, <1>4, <1>5

\* The deliveries between mark_started and the handler are finitely many.
LEMMA PendingFinite ==
    /\ IsFiniteSet(Pending) /\ Cardinality(Pending) \in Nat
    /\ IsFiniteSet(Pending') /\ Cardinality(Pending') \in Nat
<1>1. IsFiniteSet(Deliverers)
  BY ConstantsAssumption DEF ConstantsAssumption
<1>2. Pending \subseteq Deliverers /\ Pending' \subseteq Deliverers
  BY DEF Pending
<1>3. QED
  BY <1>1, <1>2, FS_Subset, FS_CardinalityType

\* A step that starts nothing and enters no handler keeps the count.
LEMMA CountFrame ==
    ASSUME CountInv, TypeOK, Pending' \subseteq Pending, UNCHANGED <<starts, executions>>
    PROVE  CountInv'
<1>1. Cardinality(Pending') <= Cardinality(Pending)
  BY PendingFinite, FS_Subset
<1>2. QED
  BY <1>1, PendingFinite DEF CountInv, TypeOK

\* A step spends at most one start for each time a handler is entered.
LEMMA CountStep ==
    ASSUME IInv, Next
    PROVE  CountInv'
<1> USE DEF history, store, Goto, At, Pending, Call
<1>t. /\ CountInv /\ TypeOK /\ call \in [Deliverers -> Call]
      /\ starts \in Nat /\ executions \in Nat
  BY DEF IInv, TypeOK
<1>1. ASSUME NEW d \in Deliverers, MarkIntent(d)
      PROVE  CountInv'
  <2>1. Pending' = Pending \union {d} /\ d \notin Pending
    BY <1>1, <1>t DEF MarkIntent
  <2>2. Cardinality(Pending') = Cardinality(Pending) + 1
    BY <2>1, PendingFinite, FS_AddElement
  <2>3. starts' = starts + 1 /\ executions' = executions
    BY <1>1 DEF MarkIntent
  <2>4. QED
    BY <1>t, <2>2, <2>3, PendingFinite DEF CountInv
<1>2. ASSUME NEW d \in Deliverers, EnterHandler(d)
      PROVE  CountInv'
  <2>1. Pending' = Pending \ {d} /\ d \in Pending
    BY <1>2, <1>t DEF EnterHandler
  <2>2. Cardinality(Pending') = Cardinality(Pending) - 1
    BY <2>1, PendingFinite, FS_RemoveElement
  <2>3. starts' = starts /\ executions' = executions + 1
    BY <1>2 DEF EnterHandler
  <2>4. QED
    BY <1>t, <2>2, <2>3, PendingFinite DEF CountInv
<1>3. ASSUME NEW d \in Deliverers,
             Deliver(d) \/ Progress(d) \/ Trouble(d), ~MarkIntent(d), ~EnterHandler(d)
      PROVE  CountInv'
  <2> DEFINE Quiet == Pending' \subseteq Pending /\ UNCHANGED <<starts, executions>>
  <2>1. CASE \/ Deliver(d) \/ Wait(d) \/ WaitTimesOut(d) \/ Enter(d) \/ Repair(d)
             \/ Poll(d) \/ BeginFails(d)
    <3>1. Quiet
      BY <1>t, <2>1 DEF Deliver, Wait, WaitTimesOut, Enter, Repair, Poll, BeginFails, NoCall
    <3>2. QED
      BY <1>t, <3>1, CountFrame
  <2>2. CASE Claim(d) \/ ClaimUnreadable(d)
    <3>1. Quiet
      BY <1>t, <2>2 DEF Claim, ClaimVacant, ClaimCommitted, ClaimUnreadable, ClaimIndeterminate,
                        ClaimBusy, ClaimOwn, ClaimLapsed, Grant, Refuse
    <3>2. QED
      BY <1>t, <3>1, CountFrame
  <2>3. CASE \/ PreflightFails(d) \/ WriteIntent(d) \/ MarkIntentLost(d)
             \/ MarkIntentFails(d) \/ HandlerReturns(d)
    <3>1. Quiet
      BY <1>t, <2>3 DEF PreflightFails, WriteIntent, MarkIntentLost, MarkIntentFails,
                        HandlerReturns
    <3>2. QED
      BY <1>t, <3>1, CountFrame
  <2>4. CASE \/ EscapeBeforeFinish(d) \/ Commit(d) \/ CommitLost(d) \/ FinishFailed(d)
             \/ FinishFails(d) \/ WriteStep(d) \/ StepAppendFails(d)
    <3>1. Quiet
      BY <1>t, <2>4 DEF EscapeBeforeFinish, Commit, CommitLost, FinishFailed, FinishFails,
                        WriteStep, StepAppendFails
    <3>2. QED
      BY <1>t, <3>1, CountFrame
  <2>5. QED
    BY <1>3, <2>1, <2>2, <2>3, <2>4 DEF Progress, Trouble
<1>4. CASE \/ \E p \in Processes : Crash(p) \/ \E beat \in mem[p].beats : Renew(p, beat)
           \/ LeaseExpires \/ Review \/ AuthorizeRetry
  <2>1. UNCHANGED <<starts, executions>>
    BY <1>4 DEF Crash, Renew, LeaseExpires, Review, AuthorizeRetry
  <2>2. Pending' \subseteq Pending
    BY <1>4, <1>t DEF Crash, Renew, LeaseExpires, Review, AuthorizeRetry, NoCall
  <2>3. QED
    BY <1>t, <2>1, <2>2, CountFrame
<1>5. QED
  BY <1>1, <1>2, <1>3, <1>4 DEF Next

LEMMA InitInvariant == Init => IInv
<1> SUFFICES ASSUME Init PROVE IInv
  OBVIOUS
<1>1. Pending = {}
  BY DEF Init, Pending, At, NoCall
<1>2. CountInv
  BY <1>1, FS_EmptySet DEF CountInv, Init
<1>3. CreditInv /\ OwnerInv /\ IntentInv
  BY HomeType DEF Init, CreditInv, OwnerInv, IntentInv, Unstarted, Started, At, NoCall, NoRow,
                  Locked, Working, Held
<1>4. QED
  BY <1>2, <1>3, InitType DEF IInv

LEMMA NextInvariant == OneThreadEach /\ IInv /\ [Next]_vars => IInv'
<1> SUFFICES ASSUME OneThreadEach, IInv, [Next]_vars PROVE IInv'
  OBVIOUS
<1>1. TypeOK'
  BY NextType DEF IInv
<1>2. CASE UNCHANGED vars
  <2>1. UNCHANGED <<row, mem, call, starts, executions, authorized>>
    BY <1>2 DEF vars, store, history
  <2>2. CreditInv' /\ OwnerInv' /\ IntentInv'
    BY <2>1 DEF IInv, CreditInv, OwnerInv, IntentInv, Unstarted, Started, At, Matches
  <2>3. CountInv'
    BY <2>1 DEF IInv, CountInv, Pending, At
  <2>4. QED
    BY <1>1, <2>2, <2>3 DEF IInv
<1>3. CASE Next
  <2>0. SideEffecting = TRUE \/ SideEffecting = FALSE
    BY ConstantsAssumption DEF ConstantsAssumption
  <2>1. ASSUME NEW d \in Deliverers, Deliver(d) \/ Progress(d) \/ Trouble(d)
        PROVE  CreditInv'
    <3>1. CASE SideEffecting = TRUE
      BY <2>1, <3>1, CreditDelivery
    <3>2. CASE SideEffecting = FALSE
      BY <3>2 DEF CreditInv
    <3>3. QED
      BY <2>0, <3>1, <3>2
  <2>2. CreditInv' /\ OwnerInv' /\ IntentInv'
    BY <1>3, <2>1, OwnerDelivery, IntentDelivery, EnvironmentStep DEF Next
  <2>3. QED
    BY <1>1, <1>3, <2>2, CountStep DEF IInv
<1>4. QED
  BY <1>2, <1>3

\* With one delivery thread per process the inductive invariant holds in every
\* behaviour.
THEOREM Invariance ==
    ASSUME OneThreadEach
    PROVE  Spec => []IInv
BY InitInvariant, NextInvariant, PTL DEF Spec

\* With one delivery thread per process the handler of a side effect runs at
\* most once, plus once for every authorised retry, whatever the number of
\* processes, redeliveries, crashes, faults and lapsed leases.
THEOREM OncePerAuthorization ==
    ASSUME OneThreadEach
    PROVE  Spec => []AtMostOnce
<1>1. CASE SideEffecting = TRUE
  <2>1. IInv => AtMostOnce
    <3>1. SUFFICES ASSUME IInv PROVE executions <= 1 + authorized
      BY DEF AtMostOnce
    <3>2. executions \in Nat /\ starts \in Nat /\ authorized \in Nat
      BY <3>1 DEF IInv, TypeOK
    <3>3. starts <= 1 + authorized
      BY <1>1, <3>1 DEF IInv, CreditInv
    <3>4. executions + Cardinality(Pending) <= starts
      BY <3>1 DEF IInv, CountInv
    <3>5. QED
      BY <3>2, <3>3, <3>4, PendingFinite
  <2>2. QED
    BY <1>1, <2>1, Invariance, PTL
<1>2. CASE SideEffecting = FALSE
  <2>1. AtMostOnce
    BY <1>2 DEF AtMostOnce
  <2>2. QED
    BY <2>1, PTL
<1>3. QED
  BY <1>1, <1>2, ConstantsAssumption DEF ConstantsAssumption

\* Under the same assumption every receipt that claim() may hand out has an
\* authorisation left for each start so far.
THEOREM ClaimablePaid ==
    ASSUME OneThreadEach
    PROVE  Spec => []ClaimableIsPaid
<1>1. IInv => ClaimableIsPaid
  BY DEF IInv, CreditInv, ClaimableIsPaid
<1>2. QED
  BY <1>1, Invariance, PTL
===========================================================================
