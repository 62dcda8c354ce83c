----------------------- MODULE EffectContract_proofs -----------------------
(***************************************************************************)
(* The contract of the EffectStore protocol keeps its own promise, for any *)
(* number of attempts and approvals: a backend that implements the         *)
(* contract needs no further argument for OncePerApproval.                 *)
(*                                                                         *)
(* The argument is an account of approvals.  Letting a delivery into the   *)
(* handler is the only way to spend, and only a free effect is spent; so   *)
(* it is enough to look at the ways in which an effect becomes free.       *)
(***************************************************************************)
EXTENDS EffectContract, TLAPS

\* Nothing but a delivery let into the handler counts as an attempt.
LEMMA Spending ==
    ASSUME [Next]_vars, ~Attempt
    PROVE  attempts' = attempts
BY DEF Next, vars, Publish, Restore, Doubt, Withdraw, Approve, Forget

\* Approvals are never taken back.
LEMMA Earning ==
    ASSUME [Next]_vars
    PROVE  approvals' = approvals \/ (Approve /\ approvals' = approvals + 1)
BY DEF Next, vars, Attempt, Publish, Restore, Doubt, Withdraw, Approve, Forget

\* A side effect becomes free when a doubt is withdrawn or a retry is approved.
LEMMA Freeing ==
    ASSUME [Next]_vars, SideEffecting, phase # "free", phase' = "free"
    PROVE  Withdraw \/ Approve
BY DEF Next, vars, Attempt, Publish, Restore, Doubt, Forget

\* A result that is published is that of an attempt, and so a number.
LEMMA Typing ==
    ASSUME TypeOK, [Next]_vars
    PROVE  TypeOK'
<1>attempts. attempts' \in Nat
  BY Spending DEF Attempt, TypeOK
<1>approvals. approvals' \in Nat
  BY Earning DEF TypeOK
<1>value. value' \in Nat
  <2>restored. CASE Restore
    BY <2>restored DEF Restore, TypeOK
  <2>otherwise. CASE ~Restore
    BY <2>otherwise
       DEF Next, vars, Attempt, Publish, Doubt, Withdraw, Approve, Forget, TypeOK
  <2> QED BY <2>restored, <2>otherwise
<1>phase. phase' \in {"free", "attempted", "done", "uncertain"}
  BY DEF Next, vars, Attempt, Publish, Restore, Doubt, Withdraw, Approve, Forget, TypeOK
<1> QED BY <1>attempts, <1>approvals, <1>value, <1>phase DEF TypeOK

\* No step of the contract overdraws the approvals of a side effect.
LEMMA Covered ==
    ASSUME TypeOK, OncePerApproval, [Next]_vars, SideEffecting
    PROVE  /\ attempts' <= 1 + approvals'
           /\ phase' = "free" => attempts' <= approvals'
<1>spent. CASE Attempt
  BY <1>spent DEF Attempt, OncePerApproval, TypeOK
<1>unspent. CASE ~Attempt
  <2>same. attempts' = attempts /\ approvals <= approvals'
    BY <1>unspent, Spending, Earning DEF TypeOK
  <2>total. attempts' <= 1 + approvals'
    BY <2>same, Earning DEF OncePerApproval, TypeOK
  <2>free. ASSUME phase' = "free"
           PROVE  attempts' <= approvals'
    <3>still. CASE phase = "free"
      BY <2>same, <3>still, Earning DEF OncePerApproval, TypeOK
    <3>anew. CASE phase # "free"
      BY <2>free, <3>anew, Freeing DEF Withdraw, Approve, OncePerApproval, TypeOK
    <3> QED BY <3>still, <3>anew
  <2> QED BY <2>total, <2>free
<1> QED BY <1>spent, <1>unspent

\* The variables stay in their types, whatever the backend does.
THEOREM ContractTyped == Spec => []TypeOK
<1>begin. ASSUME Init PROVE TypeOK
  BY <1>begin DEF Init, TypeOK
<1> QED BY <1>begin, Typing, PTL DEF Spec

\* A side effect is attempted at most once, plus once for every approval, and
\* a free effect always has an approval left to spend (EffectStore, claim and
\* authorize_retry).
THEOREM ContractKept == Spec => []OncePerApproval
<1>begin. ASSUME Init PROVE OncePerApproval
  BY <1>begin DEF Init, OncePerApproval
<1>go_on. ASSUME TypeOK, OncePerApproval, [Next]_vars PROVE OncePerApproval'
  BY <1>go_on, Covered DEF OncePerApproval
<1> QED BY <1>begin, <1>go_on, ContractTyped, PTL DEF Spec
=============================================================================
