------------------------- MODULE LidTransitionsProofs -------------------------
(*****************************************************************************)
(* The operators of LidTransitions return policies and actions, for every    *)
(* angle, threshold and grace.                                               *)
(*****************************************************************************)
EXTENDS LidTransitions, TLAPS

\* The constants of LidTransitions are naturals.
LEMMA ConstantTypes ==
    /\ StabilitySamples \in Nat
    /\ CloseGrace \in Nat /\ OpenGrace \in Nat /\ WakeGrace \in Nat /\ RestoreHold \in Nat
BY TransitionsAssumption

\* A fresh MonitorState is a policy.
LEMMA NewPolicyType == NewPolicy \in Policy
BY ConstantTypes DEF NewPolicy, Policy

\* Elapse stays within its bound.
LEMMA ElapseType ==
    ASSUME NEW bound \in Nat, NEW n \in 0..bound
    PROVE  Elapse(n) \in 0..bound
BY DEF Elapse

\* The passing of time keeps a policy a policy.
LEMMA ElapsedType ==
    ASSUME NEW p \in Policy
    PROVE  Elapsed(p) \in Policy
<1>1. /\ Elapse(p.closeGrace) \in 0..CloseGrace /\ Elapse(p.openGrace) \in 0..OpenGrace
      /\ Elapse(p.wakeGrace) \in 0..WakeGrace /\ Elapse(p.hold) \in 0..RestoreHold
  BY ConstantTypes, ElapseType DEF Policy
<1> QED BY <1>1 DEF Elapsed, Policy

\* The reset of handle_will_sleep yields a policy.
LEMMA WillSleepPolicyType == WillSleepPolicy \in Policy
<1>1. CloseGrace \in 0..CloseGrace
  BY ConstantTypes
<1> QED BY <1>1, NewPolicyType DEF WillSleepPolicy, Policy

\* The reset of handle_did_wake yields a policy.
LEMMA DidWakePolicyType == DidWakePolicy \in Policy
<1>1. CloseGrace \in 0..CloseGrace /\ WakeGrace \in 0..WakeGrace
  BY ConstantTypes
<1> QED BY <1>1, NewPolicyType DEF DidWakePolicy, Policy

Decisions == [policy : Policy, action : Actions]

\* handle_fully_closed_locked returns a policy and an action.
LEMMA FullyClosedType ==
    ASSUME NEW p \in Policy, NEW changed, NEW pending
    PROVE  HandleFullyClosed(p, changed, pending) \in Decisions
<1>1. CloseGrace \in 0..CloseGrace /\ 0 \in 0..StabilitySamples
  BY ConstantTypes
<1>2. [p EXCEPT !.closeGrace = CloseGrace, !.awaiting = TRUE, !.streak = 0] \in Policy
  BY <1>1 DEF Policy
<1> QED BY <1>2 DEF HandleFullyClosed, Decisions, Actions

\* handle_partially_closed_locked returns a policy and an action.
LEMMA PartiallyClosedType ==
    ASSUME NEW p \in Policy, NEW angle \in Angles, NEW pending
    PROVE  HandlePartiallyClosed(p, angle, pending) \in Decisions
<1>1. NextStreak(p, angle) \in 0..StabilitySamples
  BY ConstantTypes DEF NextStreak, Policy
<1>2. 0 \in 0..StabilitySamples
  BY ConstantTypes
<1>3. /\ [p EXCEPT !.streak = 0] \in Policy
      /\ [p EXCEPT !.streak = NextStreak(p, angle)] \in Policy
  BY <1>1, <1>2 DEF Policy
<1> QED BY <1>3 DEF HandlePartiallyClosed, Decisions, Actions

\* handle_open_locked returns a policy and an action.
LEMMA OpenType ==
    ASSUME NEW p \in Policy, NEW changed, NEW pending
    PROVE  HandleOpen(p, changed, pending) \in Decisions
<1> DEFINE grace == IF changed THEN OpenGrace ELSE p.openGrace
           opened == [p EXCEPT !.streak = 0, !.awaiting = FALSE, !.openGrace = grace,
                               !.hold = HoldOnOpen(p, pending)]
<1>1. HoldOnOpen(p, pending) \in 0..RestoreHold
  BY ConstantTypes DEF HoldOnOpen, Policy
<1>2. 0 \in 0..StabilitySamples /\ grace \in 0..OpenGrace
  BY ConstantTypes DEF Policy
<1>3. opened \in Policy
  <2> HIDE DEF grace
  <2> QED BY <1>1, <1>2 DEF Policy
<1>4. HandleOpen(p, changed, pending).policy = opened
  BY DEF HandleOpen
<1>5. HandleOpen(p, changed, pending) =
        [policy |-> HandleOpen(p, changed, pending).policy,
         action |-> HandleOpen(p, changed, pending).action]
  BY DEF HandleOpen
<1>6. HandleOpen(p, changed, pending).action \in Actions
  BY DEF HandleOpen, Actions
<1> HIDE DEF opened
<1> QED BY <1>3, <1>4, <1>5, <1>6 DEF Decisions

\* The critical section of the loop returns a policy and an action.
LEMMA DecisionType ==
    ASSUME NEW p \in Policy, NEW angle \in Angles, NEW pending
    PROVE  Decision(p, angle, pending) \in Decisions
<1> DEFINE lid == LidStateForAngle(angle)
           changed == p.lastLid # lid
           handled == CASE lid = "fullyClosed"     -> HandleFullyClosed(p, changed, pending)
                        [] lid = "partiallyClosed" -> HandlePartiallyClosed(p, angle, pending)
                        [] lid = "open"            -> HandleOpen(p, changed, pending)
<1>1. lid \in LidStates
  BY DEF LidStateForAngle, LidStates
<1>2. handled \in Decisions
  <2> HIDE DEF lid
  <2> QED BY <1>1, FullyClosedType, PartiallyClosedType, OpenType DEF LidStates
<1>3. [handled EXCEPT !.policy.lastAngle = angle, !.policy.lastLid = lid] \in Decisions
  <2> HIDE DEF lid, handled
  <2> QED BY <1>1, <1>2 DEF Policy, Decisions
<1> QED BY <1>3 DEF Decision, Decisions, Actions
=============================================================================
