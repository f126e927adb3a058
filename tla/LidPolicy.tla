------------------------------ MODULE LidPolicy ------------------------------
(***************************************************************************)
(* What the lid policy promises, as a state machine: samples of the lid,   *)
(* the two power callbacks and passing time drive the decisions of         *)
(* LidTransitions.  The effects are reduced to what they leave pending.    *)
(***************************************************************************)
EXTENDS LidTransitions

VARIABLES
    policy,    \* see LidTransitions
    pending,   \* the saved states and the session the effects left behind
    action     \* what the last sample decided

vars == <<policy, pending, action>>

Sample(angle) ==
    LET decision == Decision(policy, angle, pending)
    IN  /\ policy' = decision.policy
        /\ action' = decision.action
        /\ pending' \in Outcomes(decision.action, pending)

WillSleep ==
    /\ policy' = WillSleepPolicy
    /\ pending' \in Outcomes("prepare", pending)
    /\ action' = "none"

DidWake ==
    /\ policy' = DidWakePolicy
    /\ action' = "none"
    /\ UNCHANGED pending

Tick ==
    /\ policy' = Elapsed(policy)
    /\ UNCHANGED <<pending, action>>

Init == policy = NewPolicy /\ pending = {} /\ action = "none"

Next == (\E angle \in Angles : Sample(angle)) \/ WillSleep \/ DidWake \/ Tick

Spec == Init /\ [][Next]_vars

TypeOK == policy \in Policy /\ pending \in SUBSET Pendings /\ action \in Actions
=============================================================================
