-------------------------- MODULE EffectContract --------------------------
(***************************************************************************)
(* What the EffectStore protocol promises for one effect key, whichever    *)
(* backend keeps the receipt.  An effect is free to be attempted, has been *)
(* attempted, is done with a result, or is uncertain: its handler may have *)
(* run and nobody knows the result.  Only an operator's approval makes an  *)
(* uncertain effect free again.                                            *)
(***************************************************************************)
EXTENDS Naturals

CONSTANTS
    SideEffecting,  \* a read-only effect may be attempted again at will
    ResultsDecay    \* a stored result may become unreadable

VARIABLES
    phase,      \* where the effect stands
    attempts,   \* times a delivery was allowed into the handler
    approvals,  \* retries operators approved
    value       \* the attempt whose result is published, 0 if none

vars == <<phase, attempts, approvals, value>>

TypeOK ==
    /\ phase \in {"free", "attempted", "done", "uncertain"}
    /\ {attempts, approvals, value} \subseteq Nat

Init == /\ phase = "free"
        /\ attempts = 0
        /\ approvals = 0
        /\ value = 0

\* A delivery is let into the handler.
Attempt ==
    /\ phase = "free"
    /\ phase' = "attempted"
    /\ attempts' = attempts + 1
    /\ UNCHANGED <<approvals, value>>

\* The latest attempt publishes its result.
Publish ==
    /\ phase = "attempted"
    /\ phase' = "done"
    /\ value' = attempts
    /\ UNCHANGED <<attempts, approvals>>

\* A result known from the journal is put back.  It replaces a published one
\* only where published results decay.
Restore ==
    /\ phase # "done" \/ ResultsDecay
    /\ phase' = "done"
    /\ value' \in 1..attempts
    /\ UNCHANGED <<attempts, approvals>>

\* The effect may have happened and there is no result to return.
Doubt ==
    /\ phase \in {"free", "attempted"} \/ (ResultsDecay /\ phase = "done")
    /\ phase' = "uncertain"
    /\ value' = 0
    /\ UNCHANGED <<attempts, approvals>>

\* A doubt no attempt since the last approval justifies may be withdrawn; so
\* may a result put back while the approved attempt had not begun.
Withdraw ==
    /\ phase = "uncertain" \/ (ResultsDecay /\ phase = "done")
    /\ attempts <= approvals
    /\ phase' = "free"
    /\ value' = 0
    /\ UNCHANGED <<attempts, approvals>>

Approve ==
    /\ phase = "uncertain"
    /\ phase' = "free"
    /\ approvals' = approvals + 1
    /\ UNCHANGED <<attempts, value>>

\* A read-only attempt leaves nothing behind.
Forget ==
    /\ ~SideEffecting
    /\ phase = "attempted"
    /\ phase' = "free"
    /\ UNCHANGED <<attempts, approvals, value>>

Next == Attempt \/ Publish \/ Restore \/ Doubt \/ Withdraw \/ Approve \/ Forget

Spec == Init /\ [][Next]_vars

(***************************************************************************)
(* The promise: a side effect is attempted at most once, plus once for     *)
(* every approval, and a free effect has an approval left to spend.        *)
(***************************************************************************)
OncePerApproval ==
    SideEffecting =>
        /\ attempts <= 1 + approvals
        /\ phase = "free" => attempts <= approvals
=============================================================================
