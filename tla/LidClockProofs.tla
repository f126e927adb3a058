--------------------------- MODULE LidClockProofs ---------------------------
(***************************************************************************)
(* What LidClock.tla promises, for every angle, grace and count, and that  *)
(* it implements LidPolicy.                                                *)
(*                                                                         *)
(* The inductive invariant ties the Instants of MonitorState to the        *)
(* history: awaiting_open_after_full_close is exactly "no open sample      *)
(* since", the streak is bounded by the samples that really fell, and      *)
(* while a hold runs keep_internal_restore_until is its start plus         *)
(* RestoreHold.                                                            *)
(*                                                                         *)
(* The machine that compares Instants with the current time decides        *)
(* exactly as the machine that counts the graces and the hold down: each   *)
(* step of LidClock is matched, through the mapping policyLeft, by the     *)
(* step of LidPolicy of the same name.                                     *)
(***************************************************************************)
EXTENDS LidClock, LidTransitionsProofs

\* awaiting_open_after_full_close means what it is called.
AwaitingOpen == awaiting = barred

\* A hold begins with the open sample that ends the bar.
HoldAfterOpen == heldFrom # Nothing => ~barred

\* keep_internal_restore_until is the end of the hold, until that has passed.
HoldKept ==
    heldFrom # Nothing => \/ now - heldFrom >= RestoreHold
                          \/ keepUntil = heldFrom + RestoreHold

\* A restore that gives the saved value up comes after the hold.
RestoreAfterHold ==
    action = "restore" /\ heldFrom # Nothing => now - heldFrom >= RestoreHold

Inv == /\ TypeOK
       /\ AwaitingOpen /\ HoldAfterOpen /\ HoldKept /\ RestoreAfterHold
       /\ DimsAfterOpenOnly /\ StartDebounced

\* The bounds of LidClock are naturals.
LEMMA ClockTypes == MaxTime \in Nat /\ MaxStreak \in Nat
BY ClockAssumption

\* No Instant or angle is mistaken for None.
LEMMA InstantTypes == Nothing \notin Int /\ Angles \subseteq Nat
BY TransitionsAssumption

\* What the effects leave pending is something that can be pending.
LEMMA OutcomesType ==
    ASSUME NEW act \in Actions, NEW before \in SUBSET Pendings, NEW after \in Outcomes(act, before)
    PROVE  after \in SUBSET Pendings
BY DEF Outcomes, Actions, Pendings

\* A decision keeps the types of what it touches.
LEMMA DecidedType ==
    ASSUME TypeOK, NEW angle \in Angles, NEW act \in Actions, Decided(angle, act)
    PROVE  /\ lastAngle' \in Angles \cup {Nothing} /\ lastLid' \in LidStates \cup {Nothing}
           /\ pending' \in SUBSET Pendings /\ action' = act
           /\ UNCHANGED <<now, wakeAt, sleeping>>
BY OutcomesType DEF TypeOK, Decided, LidStateForAngle, LidStates

\* A fully closed sample preserves the invariant: it bars dimming and ends any hold.
LEMMA FullyClosedInv ==
    ASSUME Inv, NEW angle \in Angles, FullyClosed(angle)
    PROVE  Inv'
<1> DEFINE act == IF lastLid # "fullyClosed" \/ "caffeinate" \in pending
                  THEN "prepare" ELSE "none"
<1>1. act \in Actions /\ act \in {"prepare", "none"}
  BY DEF Actions
<1>2. Decided(angle, act)
  BY DEF FullyClosed
<1>3. /\ lastAngle' \in Angles \cup {Nothing} /\ lastLid' \in LidStates \cup {Nothing}
      /\ pending' \in SUBSET Pendings /\ action' = act
      /\ UNCHANGED <<now, wakeAt, sleeping>>
  <2> HIDE DEF act
  <2> QED BY <1>1, <1>2, DecidedType DEF Inv
<1> HIDE DEF act
<1>4. TypeOK'
  BY <1>1, <1>3, ConstantTypes, ClockTypes, InstantTypes DEF Inv, TypeOK, FullyClosed
<1>5. AwaitingOpen' /\ HoldAfterOpen' /\ HoldKept' /\ RestoreAfterHold'
  BY DEF FullyClosed, AwaitingOpen, HoldAfterOpen, HoldKept, RestoreAfterHold
<1>6. DimsAfterOpenOnly' /\ StartDebounced'
  BY <1>1, <1>3 DEF DimsAfterOpenOnly, StartDebounced
<1> QED BY <1>4, <1>5, <1>6 DEF Inv

\* A partial sample preserves the invariant: it dims only when not suppressed.
LEMMA PartiallyClosedInv ==
    ASSUME Inv, NEW angle \in Angles, PartiallyClosed(angle)
    PROVE  Inv'
<1> DEFINE rising == lastAngle # Nothing /\ angle > lastAngle
<1>1. /\ UNCHANGED <<fullCloseAt, openAt, keepUntil, awaiting, barred, heldFrom>>
      /\ falling' = IF rising THEN 0 ELSE falling + 1
      /\ falling < MaxStreak
  BY DEF PartiallyClosed
<1>2. \/ streak' = 0 /\ Decided(angle, "none")
      \/ ~awaiting /\ streak' = 0 /\ Decided(angle, "resume")
      \/ ~awaiting /\ streak' = Count(rising)
           /\ Decided(angle, IF streak' >= StabilitySamples THEN "start" ELSE "none")
  BY DEF PartiallyClosed, Suppressed
<1>3. /\ lastAngle' \in Angles \cup {Nothing} /\ lastLid' \in LidStates \cup {Nothing}
      /\ pending' \in SUBSET Pendings
      /\ UNCHANGED <<now, wakeAt, sleeping>>
      /\ action' \in {"none", "resume", "start"}
      /\ action' # "none" => ~awaiting
      /\ action' = "start" => streak' >= StabilitySamples
  BY <1>2, DecidedType DEF Inv, Actions
<1>4. falling' \in 0..MaxStreak /\ streak' \in 0..falling'
  BY <1>1, <1>2, ClockTypes DEF Inv, TypeOK, Count
<1> HIDE DEF rising
<1>5. TypeOK'
  BY <1>1, <1>3, <1>4 DEF Inv, TypeOK, Actions
<1>6. AwaitingOpen' /\ HoldAfterOpen' /\ HoldKept' /\ RestoreAfterHold'
  BY <1>1, <1>3 DEF Inv, AwaitingOpen, HoldAfterOpen, HoldKept, RestoreAfterHold
<1>7. DimsAfterOpenOnly'
  BY <1>1, <1>3 DEF Inv, AwaitingOpen, DimsAfterOpenOnly
<1>8. StartDebounced'
  BY <1>3, <1>4, ConstantTypes, ClockTypes DEF StartDebounced
<1> QED BY <1>5, <1>6, <1>7, <1>8 DEF Inv

\* The end of the hold is at most RestoreHold away.
LEMMA HoldUntilType ==
    ASSUME TypeOK
    PROVE  HoldUntil \in 0..(now + RestoreHold) \cup {Nothing}
BY ConstantTypes DEF TypeOK, HoldUntil

\* An open sample preserves the invariant: it ends the bar and begins, keeps or
\* ends a hold.
LEMMA OpenInv ==
    ASSUME Inv, NEW angle \in Angles, Open(angle)
    PROVE  Inv'
<1> DEFINE clear == HoldUntil = Nothing \/ now >= HoldUntil
           act == IF pending = {} THEN "none" ELSE IF clear THEN "restore" ELSE "restoreKeep"
<1>1. /\ act \in Actions /\ act \in {"none", "restore", "restoreKeep"}
      /\ act = "restore" => clear
  BY DEF Actions
<1>2. Decided(angle, act)
  BY DEF Open
<1>3. /\ keepUntil' = IF pending # {} /\ clear THEN Nothing ELSE HoldUntil
      /\ streak' = 0 /\ awaiting' = FALSE /\ barred' = FALSE /\ falling' = 0
      /\ heldFrom' = IF barred /\ "internal" \in pending THEN now ELSE heldFrom
      /\ openAt' \in {openAt, now} /\ UNCHANGED fullCloseAt
  BY DEF Open
<1>4. /\ lastAngle' \in Angles \cup {Nothing} /\ lastLid' \in LidStates \cup {Nothing}
      /\ pending' \in SUBSET Pendings /\ action' = act
      /\ UNCHANGED <<now, wakeAt, sleeping>>
  <2> HIDE DEF act
  <2> QED BY <1>1, <1>2, DecidedType DEF Inv
<1> HIDE DEF act
<1>5. TypeOK'
  <2>1. keepUntil' \in 0..(now + RestoreHold) \cup {Nothing}
    BY <1>3, HoldUntilType DEF Inv
  <2>2. now \in Nat /\ {now, fullCloseAt, openAt, wakeAt, heldFrom} \subseteq 0..now \cup {Nothing}
    BY ClockTypes DEF Inv, TypeOK
  <2>3. {fullCloseAt, openAt, wakeAt}' \subseteq 0..now' \cup {Nothing}
    <3> HIDE DEF clear
    <3> QED BY <1>3, <1>4, <2>2
  <2>4. heldFrom' \in 0..now' \cup {Nothing}
    <3> HIDE DEF clear
    <3> QED BY <1>3, <1>4, <2>2
  <2>5. streak' \in 0..falling' /\ falling' \in 0..MaxStreak
    <3> HIDE DEF clear
    <3> QED BY <1>3, ClockTypes
  <2>6. /\ now' \in 0..MaxTime /\ keepUntil' \in 0..(now' + RestoreHold) \cup {Nothing}
        /\ action' \in Actions
    <3> HIDE DEF clear
    <3> QED BY <1>1, <1>4, <2>1 DEF Inv, TypeOK
  <2>7. awaiting' \in BOOLEAN /\ barred' \in BOOLEAN /\ sleeping' \in BOOLEAN
    BY <1>3, <1>4 DEF Inv, TypeOK
  <2> QED BY <1>4, <2>3, <2>4, <2>5, <2>6, <2>7 DEF TypeOK
<1>6. /\ now \in Nat /\ heldFrom \in 0..now \cup {Nothing}
      /\ keepUntil \in Nat \cup {Nothing} /\ Nothing \notin Int
  BY ClockTypes, ConstantTypes, InstantTypes DEF Inv, TypeOK
\* The end of the hold after a sample that finds the panel saved.
<1>7. CASE barred /\ "internal" \in pending
  <2>1. heldFrom' = now /\ HoldUntil = now + RestoreHold
    BY <1>3, <1>7 DEF Inv, AwaitingOpen, HoldUntil
  <2>2. clear => RestoreHold = 0
    BY <1>6, <2>1, ConstantTypes
  <2>3. HoldKept' /\ RestoreAfterHold'
    <3> HIDE DEF clear
    <3> QED BY <1>1, <1>3, <1>4, <1>6, <2>1, <2>2, ConstantTypes DEF HoldKept, RestoreAfterHold
  <2> QED BY <2>3, <1>1, <1>3, <1>4, <1>5
          DEF Inv, AwaitingOpen, HoldAfterOpen, DimsAfterOpenOnly, StartDebounced
<1>8. CASE ~(barred /\ "internal" \in pending)
  <2>1. heldFrom' = heldFrom /\ HoldUntil = keepUntil
    BY <1>3, <1>8 DEF Inv, AwaitingOpen, HoldUntil
  <2>2. heldFrom # Nothing /\ clear => now - heldFrom >= RestoreHold
    BY <1>6, <2>1, ConstantTypes DEF Inv, HoldKept
  <2>3. HoldKept' /\ RestoreAfterHold'
    <3> HIDE DEF clear
    <3> QED BY <1>1, <1>3, <1>4, <1>6, <2>1, <2>2, ConstantTypes
            DEF Inv, HoldKept, RestoreAfterHold
  <2> QED BY <2>3, <1>1, <1>3, <1>4, <1>5
          DEF Inv, AwaitingOpen, HoldAfterOpen, DimsAfterOpenOnly, StartDebounced
<1> QED BY <1>7, <1>8

\* The reset that both power callbacks share preserves the invariant.
LEMMA ForgetInv ==
    ASSUME Inv, Forget, wakeAt' \in {Nothing, now}, sleeping' \in BOOLEAN,
           pending' \in SUBSET Pendings
    PROVE  Inv'
<1>1. TypeOK'
  BY ConstantTypes, ClockTypes, InstantTypes DEF Inv, TypeOK, Forget, Actions
<1>2. AwaitingOpen' /\ HoldAfterOpen' /\ HoldKept' /\ RestoreAfterHold'
  BY DEF Forget, AwaitingOpen, HoldAfterOpen, HoldKept, RestoreAfterHold
<1>3. DimsAfterOpenOnly' /\ StartDebounced'
  BY DEF Forget, DimsAfterOpenOnly, StartDebounced
<1> QED BY <1>1, <1>2, <1>3 DEF Inv

\* The passing of time preserves the invariant.
LEMMA TickInv ==
    ASSUME Inv, Tick
    PROVE  Inv'
<1>1. /\ now \in Nat /\ now' = now + 1 /\ now' \in 0..MaxTime
      /\ 0..now \subseteq 0..now' /\ 0..(now + RestoreHold) \subseteq 0..(now' + RestoreHold)
  BY ConstantTypes, ClockTypes DEF Inv, TypeOK, Tick
<1>2. TypeOK'
  BY <1>1 DEF Inv, TypeOK, Tick, stampVars, historyVars
<1>3. HoldKept' /\ RestoreAfterHold'
  BY <1>1, ConstantTypes
  DEF Inv, TypeOK, HoldKept, RestoreAfterHold, Tick, stampVars, historyVars
<1> QED BY <1>2, <1>3
        DEF Inv, AwaitingOpen, HoldAfterOpen, DimsAfterOpenOnly, StartDebounced, Tick, historyVars

\* A sample ignored while the system sleeps preserves the invariant.
LEMMA IgnoredInv ==
    ASSUME Inv, NEW angle \in Angles, Ignored(angle)
    PROVE  Inv'
<1>1. TypeOK'
  BY DEF Inv, TypeOK, Ignored, stampVars, historyVars, Actions
<1>2. AwaitingOpen' /\ HoldAfterOpen' /\ HoldKept'
  BY DEF Inv, AwaitingOpen, HoldAfterOpen, HoldKept, Ignored, stampVars, historyVars
<1>3. RestoreAfterHold' /\ DimsAfterOpenOnly' /\ StartDebounced'
  BY DEF RestoreAfterHold, DimsAfterOpenOnly, StartDebounced, Ignored
<1> QED BY <1>1, <1>2, <1>3 DEF Inv

\* The initial states satisfy the invariant.
LEMMA InitInv == Init => Inv
<1> SUFFICES ASSUME Init PROVE Inv
  OBVIOUS
<1>1. TypeOK
  <2>1. 0 \in 0..MaxTime /\ 0 \in 0..MaxStreak /\ 0 \in 0..0
    BY ClockTypes
  <2> QED BY <2>1 DEF Init, TypeOK, Actions
<1>2. AwaitingOpen /\ HoldAfterOpen /\ HoldKept
  BY DEF Init, AwaitingOpen, HoldAfterOpen, HoldKept
<1>3. RestoreAfterHold /\ DimsAfterOpenOnly /\ StartDebounced
  BY DEF Init, RestoreAfterHold, DimsAfterOpenOnly, StartDebounced
<1> QED BY <1>1, <1>2, <1>3 DEF Inv

\* Every step preserves the invariant.
LEMMA NextInv ==
    ASSUME Inv, [Next]_vars
    PROVE  Inv'
<1>1. ASSUME NEW angle \in Angles, Sample(angle) PROVE Inv'
  BY <1>1, FullyClosedInv, PartiallyClosedInv, OpenInv, IgnoredInv DEF Sample
<1>2. CASE WillSleep
  <2>1. pending' \in SUBSET Pendings
    BY <1>2, OutcomesType DEF WillSleep, Inv, TypeOK, Actions
  <2> QED BY <1>2, <2>1, ForgetInv DEF WillSleep
<1>3. CASE DidWake
  BY <1>3, ForgetInv DEF DidWake, Inv, TypeOK
<1>4. CASE Tick
  BY <1>4, TickInv
<1>5. CASE UNCHANGED vars
  BY <1>5 DEF vars, Inv, TypeOK, AwaitingOpen, HoldAfterOpen, HoldKept, RestoreAfterHold,
              DimsAfterOpenOnly, StartDebounced, stampVars, historyVars
<1> QED BY <1>1, <1>2, <1>3, <1>4, <1>5 DEF Next

\* The invariant is one.
LEMMA Invariance == Spec => []Inv
BY InitInv, NextInv, PTL DEF Spec

\* Every variable has its type, no Instant lies in the future, and the streak
\* never counts more samples than fell.
THEOREM ClockTypeCorrect == Spec => []TypeOK
<1>1. Inv => TypeOK
  BY DEF Inv
<1> QED BY <1>1, Invariance, PTL

\* partial_dimming_suppression_reason keeps every half-open sample between a
\* full close, a sleep or a wake and the next open sample from dimming.
THEOREM NoDimBeforeOpen == Spec => []DimsAfterOpenOnly
<1>1. Inv => DimsAfterOpenOnly
  BY DEF Inv
<1> QED BY <1>1, Invariance, PTL

\* The streak of handle_partially_closed_locked lets no dim start before
\* StabilitySamples samples in a row at an angle that did not rise.
THEOREM NoDimOnNoise == Spec => []StartDebounced
<1>1. Inv => StartDebounced
  BY DEF Inv
<1> QED BY <1>1, Invariance, PTL

\* From the invariant, a step that restores and clears comes after the hold.
LEMMA HoldStep ==
    ASSUME Inv, [Next]_vars
    PROVE  [action' = "restore" /\ "internal" \in pending /\ heldFrom # Nothing
              => now - heldFrom >= RestoreHold]_vars
<1> SUFFICES ASSUME Next, action' = "restore", "internal" \in pending, heldFrom # Nothing
             PROVE  now - heldFrom >= RestoreHold
  OBVIOUS
<1>1. CASE Tick
  BY <1>1 DEF Tick, Inv, RestoreAfterHold
<1>2. CASE \E angle \in Angles : Open(angle)
  <2>1. Inv'
    BY NextInv
  <2>2. ~barred
    BY DEF Inv, HoldAfterOpen
  <2>3. heldFrom' = heldFrom /\ now' = now
    BY <1>2, <2>2 DEF Open, Decided
  <2> QED BY <2>1, <2>3 DEF Inv, RestoreAfterHold
<1>3. CASE \E angle \in Angles : FullyClosed(angle) \/ PartiallyClosed(angle) \/ Ignored(angle)
  BY <1>3 DEF FullyClosed, PartiallyClosed, Ignored, Decided
<1>4. CASE WillSleep \/ DidWake
  BY <1>4 DEF WillSleep, DidWake, Forget
<1> QED BY <1>1, <1>2, <1>3, <1>4 DEF Next, Sample

\* maybe_start_open_restore_hold and should_clear_internal_after_restore never
\* give a saved panel up before the hold that its open sample began is over.
THEOREM HoldIsHonoured == Spec => HoldHonoured
<1>1. Inv /\ [Next]_vars =>
        [action' = "restore" /\ "internal" \in pending /\ heldFrom # Nothing
           => now - heldFrom >= RestoreHold]_vars
  BY HoldStep
<1> QED BY <1>1, Invariance, PTL DEF Spec, HoldHonoured
-----------------------------------------------------------------------------
(* The refinement of LidPolicy. *)

\* The operators of LidTransitions that LidPolicy uses are those LidClock uses.
LEMMA SameOperators ==
    ASSUME NEW p, NEW angle, NEW set, NEW act
    PROVE  /\ LidPolicySpec!Decision(p, angle, set) = Decision(p, angle, set)
           /\ LidPolicySpec!Outcomes(act, set) = Outcomes(act, set)
           /\ LidPolicySpec!WillSleepPolicy = WillSleepPolicy
           /\ LidPolicySpec!DidWakePolicy = DidWakePolicy
           /\ LidPolicySpec!NewPolicy = NewPolicy
           /\ LidPolicySpec!Elapsed(p) = Elapsed(p)
<1>1. LidPolicySpec!NewPolicy = NewPolicy
  BY DEF NewPolicy, LidPolicySpec!NewPolicy
<1>2. LidPolicySpec!WillSleepPolicy = WillSleepPolicy
  BY <1>1 DEF WillSleepPolicy, LidPolicySpec!WillSleepPolicy
<1>3. LidPolicySpec!DidWakePolicy = DidWakePolicy
  BY <1>1 DEF DidWakePolicy, LidPolicySpec!DidWakePolicy
<1>4. LidPolicySpec!Elapsed(p) = Elapsed(p)
  BY DEF Elapsed, Elapse, LidPolicySpec!Elapsed, LidPolicySpec!Elapse
<1>5. LidPolicySpec!Outcomes(act, set) = Outcomes(act, set)
  BY DEF Outcomes, LidPolicySpec!Outcomes, Pendings, LidPolicySpec!Pendings
<1>6. LidPolicySpec!Decision(p, angle, set) = Decision(p, angle, set)
  BY DEF Decision, LidPolicySpec!Decision, LidStateForAngle, LidPolicySpec!LidStateForAngle,
         HandleFullyClosed, LidPolicySpec!HandleFullyClosed,
         HandlePartiallyClosed, LidPolicySpec!HandlePartiallyClosed,
         PartialDimmingSuppressed, LidPolicySpec!PartialDimmingSuppressed,
         NextStreak, LidPolicySpec!NextStreak,
         HandleOpen, LidPolicySpec!HandleOpen,
         HoldOnOpen, LidPolicySpec!HoldOnOpen
<1> QED BY <1>1, <1>2, <1>3, <1>4, <1>5, <1>6

\* An Instant is recent exactly while some of its grace is left.
LEMMA RecentLeft ==
    ASSUME TypeOK, NEW stamp \in 0..now \cup {Nothing}, NEW grace \in Nat
    PROVE  /\ Left(stamp, grace) \in 0..grace
           /\ Recent(stamp, grace) <=> Left(stamp, grace) > 0
BY ClockTypes, InstantTypes DEF TypeOK, Left, Recent

\* Both machines suppress partial dimming at the same time.
LEMMA SuppressedLeft ==
    ASSUME TypeOK
    PROVE  Suppressed <=> PartialDimmingSuppressed(policyLeft)
<1>1. {fullCloseAt, openAt, wakeAt} \subseteq 0..now \cup {Nothing}
  BY DEF TypeOK
<1>2. /\ policyLeft.awaiting = awaiting
      /\ policyLeft.closeGrace = Left(fullCloseAt, CloseGrace)
      /\ policyLeft.openGrace = Left(openAt, OpenGrace)
      /\ policyLeft.wakeGrace = Left(wakeAt, WakeGrace)
  BY DEF policyLeft
<1> QED BY <1>1, <1>2, RecentLeft, ConstantTypes DEF Suppressed, PartialDimmingSuppressed

\* Both streaks stay equal up to StabilitySamples.
LEMMA StreakLeft ==
    ASSUME TypeOK, NEW angle \in Angles, NEW count,
           count = Count(lastAngle # Nothing /\ angle > lastAngle)
    PROVE  NextStreak(policyLeft, angle)
             = IF count < StabilitySamples THEN count ELSE StabilitySamples
<1>1. /\ policyLeft.lastAngle = lastAngle
      /\ policyLeft.streak = IF streak < StabilitySamples THEN streak ELSE StabilitySamples
  BY DEF policyLeft
<1>2. streak \in Nat /\ lastAngle \in Angles \cup {Nothing}
  BY ClockTypes DEF TypeOK
<1> QED BY <1>1, <1>2, ConstantTypes DEF NextStreak, Count

\* Both holds have the same time left after maybe_start_open_restore_hold.
LEMMA HoldLeft ==
    ASSUME TypeOK, NEW until, until = HoldUntil
    PROVE  HoldOnOpen(policyLeft, pending)
             = IF until = Nothing \/ now >= until THEN 0 ELSE until - now
<1>1. /\ policyLeft.awaiting = awaiting
      /\ policyLeft.hold = IF keepUntil = Nothing \/ now >= keepUntil THEN 0 ELSE keepUntil - now
  BY DEF policyLeft
<1>2. now \in Nat /\ keepUntil \in Nat \cup {Nothing}
  BY ClockTypes, ConstantTypes DEF TypeOK
<1> QED BY <1>1, <1>2, ConstantTypes, InstantTypes DEF HoldOnOpen, HoldUntil

\* Policies with equal fields are equal.
LEMMA SamePolicy ==
    ASSUME NEW p \in Policy, NEW q \in Policy,
           p.lastAngle = q.lastAngle, p.lastLid = q.lastLid, p.streak = q.streak,
           p.closeGrace = q.closeGrace, p.openGrace = q.openGrace,
           p.wakeGrace = q.wakeGrace, p.hold = q.hold,
           p.awaiting = q.awaiting, p.sleeping = q.sleeping
    PROVE  p = q
BY DEF Policy

\* The refinement mapping yields a policy.
LEMMA PolicyLeftType ==
    ASSUME TypeOK
    PROVE  policyLeft \in Policy
<1>1. /\ Left(fullCloseAt, CloseGrace) \in 0..CloseGrace
      /\ Left(openAt, OpenGrace) \in 0..OpenGrace
      /\ Left(wakeAt, WakeGrace) \in 0..WakeGrace
  BY RecentLeft, ConstantTypes DEF TypeOK
<1>2. (IF keepUntil = Nothing \/ now >= keepUntil THEN 0 ELSE keepUntil - now) \in 0..RestoreHold
  BY ConstantTypes, ClockTypes, InstantTypes DEF TypeOK
<1>3. (IF streak < StabilitySamples THEN streak ELSE StabilitySamples) \in 0..StabilitySamples
  BY ConstantTypes, ClockTypes DEF TypeOK
<1> QED BY <1>1, <1>2, <1>3 DEF TypeOK, policyLeft, Policy

\* q is p with an angle and its lid state remembered.
Remembers(q, p, angle, lid) ==
    /\ q \in Policy
    /\ q.lastAngle = angle /\ q.lastLid = lid
    /\ q.streak = p.streak /\ q.closeGrace = p.closeGrace /\ q.openGrace = p.openGrace
    /\ q.wakeGrace = p.wakeGrace /\ q.hold = p.hold
    /\ q.awaiting = p.awaiting /\ q.sleeping = p.sleeping

\* Remembering an angle and its lid state changes those two fields only.
LEMMA RememberedType ==
    ASSUME NEW p \in Policy, NEW angle \in Angles, NEW lid \in LidStates
    PROVE  Remembers([p EXCEPT !.lastAngle = angle, !.lastLid = lid], p, angle, lid)
BY DEF Policy, Remembers

\* A decision is what the handler of the lid state returns, with the angle
\* remembered.
LEMMA DecisionFields ==
    ASSUME NEW p \in Policy, NEW angle \in Angles, NEW set, ~p.sleeping,
           NEW rec \in Decisions, NEW lid, lid = LidStateForAngle(angle),
           \/ lid = "fullyClosed" /\ rec = HandleFullyClosed(p, p.lastLid # lid, set)
           \/ lid = "partiallyClosed" /\ rec = HandlePartiallyClosed(p, angle, set)
           \/ lid = "open" /\ rec = HandleOpen(p, p.lastLid # lid, set)
    PROVE  /\ Decision(p, angle, set).action = rec.action
           /\ Remembers(Decision(p, angle, set).policy, rec.policy, angle, lid)
<1>1. lid \in LidStates
  BY DEF LidStateForAngle, LidStates
<1>2. Decision(p, angle, set) = [rec EXCEPT !.policy.lastAngle = angle, !.policy.lastLid = lid]
  <2>1. CASE lid = "fullyClosed" /\ rec = HandleFullyClosed(p, p.lastLid # lid, set)
    BY <2>1 DEF Decision
  <2>2. CASE lid = "partiallyClosed" /\ rec = HandlePartiallyClosed(p, angle, set)
    BY <2>2 DEF Decision
  <2>3. CASE lid = "open" /\ rec = HandleOpen(p, p.lastLid # lid, set)
    BY <2>3 DEF Decision
  <2> QED BY <2>1, <2>2, <2>3
<1>3. rec.policy \in Policy
  BY DEF Decisions
<1>4. /\ Decision(p, angle, set).action = rec.action
      /\ Decision(p, angle, set).policy
           = [rec.policy EXCEPT !.lastAngle = angle, !.lastLid = lid]
  BY <1>2 DEF Decisions
<1>5. Remembers([rec.policy EXCEPT !.lastAngle = angle, !.lastLid = lid], rec.policy, angle, lid)
  BY <1>1, <1>3, RememberedType
<1> QED BY <1>4, <1>5

\* What a handler returns for an angle of lid state lid.
Handled(p, angle, lid, set, rec) ==
    \/ lid = "fullyClosed" /\ rec = HandleFullyClosed(p, p.lastLid # lid, set)
    \/ lid = "partiallyClosed" /\ rec = HandlePartiallyClosed(p, angle, set)
    \/ lid = "open" /\ rec = HandleOpen(p, p.lastLid # lid, set)

\* The step leaves what rec decides, but for the angle and lid state remembered.
Maps(rec) ==
    /\ rec.action = action'
    /\ rec.policy.streak = policyLeft'.streak
    /\ rec.policy.closeGrace = policyLeft'.closeGrace
    /\ rec.policy.openGrace = policyLeft'.openGrace
    /\ rec.policy.wakeGrace = policyLeft'.wakeGrace
    /\ rec.policy.hold = policyLeft'.hold
    /\ rec.policy.awaiting = policyLeft'.awaiting
    /\ rec.policy.sleeping = policyLeft'.sleeping

\* A sample whose handler leaves what the step leaves is one of LidPolicy.
LEMMA SampleMaps ==
    ASSUME TypeOK, TypeOK', NEW angle \in Angles, ~sleeping,
           NEW lid, lid = LidStateForAngle(angle),
           NEW rec \in Decisions, Handled(policyLeft, angle, lid, pending, rec), Maps(rec),
           lastAngle' = angle, lastLid' = lid, pending' \in Outcomes(action', pending)
    PROVE  LidPolicySpec!Sample(angle)
<1> DEFINE d == Decision(policyLeft, angle, pending)
           q == d.policy
           r == policyLeft'
<1>1. policyLeft \in Policy /\ r \in Policy /\ policyLeft.sleeping = sleeping
  <2>1. TypeOK' => (policyLeft \in Policy)'
    BY PolicyLeftType, PTL
  <2> QED BY <2>1, PolicyLeftType DEF policyLeft
<1>2. d.action = rec.action /\ Remembers(q, rec.policy, angle, lid)
  BY <1>1, DecisionFields DEF Handled
<1>3. r.lastAngle = angle /\ r.lastLid = lid
  BY DEF policyLeft
<1> HIDE DEF d
<1>4. /\ q \in Policy
      /\ q.lastAngle = r.lastAngle /\ q.lastLid = r.lastLid /\ q.streak = r.streak
      /\ q.closeGrace = r.closeGrace /\ q.openGrace = r.openGrace
      /\ q.wakeGrace = r.wakeGrace /\ q.hold = r.hold
      /\ q.awaiting = r.awaiting /\ q.sleeping = r.sleeping
  BY <1>2, <1>3 DEF Remembers, Maps
<1>5. q = r
  <2> HIDE DEF q, r
  <2> QED BY <1>1, <1>4, SamePolicy
<1> QED BY <1>2, <1>5, SameOperators DEF LidPolicySpec!Sample, Maps, d

\* A fully closed sample is one of LidPolicy.
LEMMA FullyClosedMaps ==
    ASSUME TypeOK, TypeOK', NEW angle \in Angles, FullyClosed(angle)
    PROVE  LidPolicySpec!Sample(angle)
<1> DEFINE p == policyLeft
           rec == HandleFullyClosed(p, p.lastLid # "fullyClosed", pending)
<1>1. /\ UNCHANGED <<now, wakeAt, sleeping, openAt, keepUntil>>
      /\ ~sleeping /\ fullCloseAt' = now /\ awaiting' = TRUE /\ streak' = 0
      /\ lastAngle' = angle /\ lastLid' = "fullyClosed"
      /\ LidStateForAngle(angle) = "fullyClosed"
      /\ action' = IF lastLid # "fullyClosed" \/ "caffeinate" \in pending
                   THEN "prepare" ELSE "none"
      /\ pending' \in Outcomes(action', pending)
  BY DEF FullyClosed, Decided
<1>2. p \in Policy /\ p.lastLid = lastLid
  BY PolicyLeftType DEF policyLeft
<1>3. /\ rec \in Decisions /\ rec.action = action'
      /\ rec.policy.streak = 0 /\ rec.policy.closeGrace = CloseGrace /\ rec.policy.awaiting = TRUE
      /\ rec.policy.openGrace = p.openGrace /\ rec.policy.wakeGrace = p.wakeGrace
      /\ rec.policy.hold = p.hold /\ rec.policy.sleeping = p.sleeping
  <2> HIDE DEF p
  <2> QED BY <1>1, <1>2, FullyClosedType DEF HandleFullyClosed, Decisions, Policy
<1>4. Left(fullCloseAt, CloseGrace)' = CloseGrace
  BY <1>1, ConstantTypes, ClockTypes, InstantTypes DEF TypeOK, Left, Recent
<1>5. /\ policyLeft'.streak = 0 /\ policyLeft'.awaiting = TRUE
      /\ policyLeft'.openGrace = p.openGrace /\ policyLeft'.wakeGrace = p.wakeGrace
      /\ policyLeft'.hold = p.hold /\ policyLeft'.sleeping = p.sleeping
      /\ policyLeft'.closeGrace = CloseGrace
  BY <1>1, <1>4, ConstantTypes DEF policyLeft, Left, Recent
<1>6. Maps(rec) /\ Handled(p, angle, "fullyClosed", pending, rec)
  <2> HIDE DEF p
  <2>1. Handled(p, angle, "fullyClosed", pending, rec)
    BY DEF Handled
  <2> HIDE DEF rec
  <2> QED BY <1>3, <1>5, <2>1 DEF Maps
<1> HIDE DEF rec
<1> QED BY <1>1, <1>3, <1>6, SampleMaps DEF p

\* A partially closed sample is one of LidPolicy.
LEMMA PartiallyClosedMaps ==
    ASSUME TypeOK, TypeOK', NEW angle \in Angles, PartiallyClosed(angle)
    PROVE  LidPolicySpec!Sample(angle)
<1> DEFINE p == policyLeft
           rec == HandlePartiallyClosed(p, angle, pending)
           rising == lastAngle # Nothing /\ angle > lastAngle
           cap(n) == IF n < StabilitySamples THEN n ELSE StabilitySamples
<1>1. /\ UNCHANGED <<now, wakeAt, sleeping, openAt, keepUntil, fullCloseAt, awaiting>>
      /\ ~sleeping /\ lastAngle' = angle /\ lastLid' = "partiallyClosed"
      /\ LidStateForAngle(angle) = "partiallyClosed"
      /\ pending' \in Outcomes(action', pending)
  BY DEF PartiallyClosed, Decided
<1>2. \/ Suppressed /\ streak' = 0 /\ action' = "none"
      \/ /\ ~Suppressed /\ pending \cap {"internal", "keyboard"} # {}
         /\ streak' = 0 /\ action' = "resume"
      \/ /\ ~Suppressed /\ pending \cap {"internal", "keyboard"} = {}
         /\ streak' = Count(rising)
         /\ action' = IF streak' >= StabilitySamples THEN "start" ELSE "none"
  BY DEF PartiallyClosed, Decided
<1>3. /\ p \in Policy /\ (Suppressed <=> PartialDimmingSuppressed(p))
      /\ NextStreak(p, angle) = cap(Count(rising))
  BY PolicyLeftType, SuppressedLeft, StreakLeft
<1>4. Count(rising) \in Nat /\ cap(0) = 0 /\ StabilitySamples \in Nat
  BY ConstantTypes, ClockTypes DEF Count, TypeOK
<1>5. /\ rec \in Decisions /\ rec.action = action' /\ rec.policy.streak = cap(streak')
      /\ rec.policy.closeGrace = p.closeGrace /\ rec.policy.openGrace = p.openGrace
      /\ rec.policy.wakeGrace = p.wakeGrace /\ rec.policy.hold = p.hold
      /\ rec.policy.awaiting = p.awaiting /\ rec.policy.sleeping = p.sleeping
  <2> HIDE DEF p, rising
  <2>1. rec \in Decisions
    BY <1>3, PartiallyClosedType
  <2>2. rec.action = action' /\ rec.policy.streak = cap(streak')
    BY <1>2, <1>3, <1>4 DEF HandlePartiallyClosed, Policy
  <2>3. /\ rec.policy.closeGrace = p.closeGrace /\ rec.policy.openGrace = p.openGrace
        /\ rec.policy.wakeGrace = p.wakeGrace /\ rec.policy.hold = p.hold
        /\ rec.policy.awaiting = p.awaiting /\ rec.policy.sleeping = p.sleeping
    BY <1>3 DEF HandlePartiallyClosed, Policy
  <2> QED BY <2>1, <2>2, <2>3
<1>6. /\ policyLeft'.streak = cap(streak') /\ policyLeft'.awaiting = p.awaiting
      /\ policyLeft'.openGrace = p.openGrace /\ policyLeft'.wakeGrace = p.wakeGrace
      /\ policyLeft'.hold = p.hold /\ policyLeft'.sleeping = p.sleeping
      /\ policyLeft'.closeGrace = p.closeGrace
  BY <1>1 DEF policyLeft, Left, Recent
<1>7. Maps(rec) /\ Handled(p, angle, "partiallyClosed", pending, rec)
  <2> HIDE DEF p
  <2>1. Handled(p, angle, "partiallyClosed", pending, rec)
    BY DEF Handled
  <2> HIDE DEF rec
  <2> QED BY <1>5, <1>6, <2>1 DEF Maps
<1> HIDE DEF rec
<1> QED BY <1>1, <1>5, <1>7, SampleMaps DEF p

\* An open sample is one of LidPolicy.
LEMMA OpenMaps ==
    ASSUME TypeOK, TypeOK', NEW angle \in Angles, Open(angle)
    PROVE  LidPolicySpec!Sample(angle)
<1> DEFINE p == policyLeft
           rec == HandleOpen(p, p.lastLid # "open", pending)
           clear == HoldUntil = Nothing \/ now >= HoldUntil
           left == IF clear THEN 0 ELSE HoldUntil - now
<1>1. /\ UNCHANGED <<now, wakeAt, sleeping, fullCloseAt>>
      /\ ~sleeping /\ streak' = 0 /\ awaiting' = FALSE
      /\ openAt' = IF lastLid # "open" THEN now ELSE openAt
      /\ keepUntil' = IF pending # {} /\ clear THEN Nothing ELSE HoldUntil
      /\ lastAngle' = angle /\ lastLid' = "open"
      /\ LidStateForAngle(angle) = "open"
      /\ action' = IF pending = {} THEN "none" ELSE IF clear THEN "restore" ELSE "restoreKeep"
      /\ pending' \in Outcomes(action', pending)
  BY DEF Open, Decided
<1>2. p \in Policy /\ p.lastLid = lastLid /\ HoldOnOpen(p, pending) = left
  BY PolicyLeftType, HoldLeft DEF policyLeft
<1>3. left = 0 <=> clear
  BY HoldUntilType, ConstantTypes, ClockTypes, InstantTypes DEF TypeOK
<1>4. /\ rec \in Decisions /\ rec.action = action'
      /\ rec.policy.streak = 0 /\ rec.policy.awaiting = FALSE /\ rec.policy.hold = left
      /\ rec.policy.openGrace = IF lastLid # "open" THEN OpenGrace ELSE p.openGrace
      /\ rec.policy.closeGrace = p.closeGrace /\ rec.policy.wakeGrace = p.wakeGrace
      /\ rec.policy.sleeping = p.sleeping
  <2> HIDE DEF p, clear, left
  <2>1. rec \in Decisions
    BY <1>2, OpenType
  <2>2. rec.action = action'
    BY <1>1, <1>2, <1>3 DEF HandleOpen
  <2>3. /\ rec.policy.streak = 0 /\ rec.policy.awaiting = FALSE /\ rec.policy.hold = left
        /\ rec.policy.openGrace = IF lastLid # "open" THEN OpenGrace ELSE p.openGrace
        /\ rec.policy.closeGrace = p.closeGrace /\ rec.policy.wakeGrace = p.wakeGrace
        /\ rec.policy.sleeping = p.sleeping
    BY <1>2 DEF HandleOpen, Policy
  <2> QED BY <2>1, <2>2, <2>3
<1>5. /\ policyLeft'.streak = 0 /\ policyLeft'.awaiting = FALSE
      /\ policyLeft'.closeGrace = p.closeGrace /\ policyLeft'.wakeGrace = p.wakeGrace
      /\ policyLeft'.sleeping = p.sleeping
      /\ policyLeft'.openGrace = Left(openAt, OpenGrace)'
  <2> HIDE DEF clear
  <2> QED BY <1>1, ConstantTypes DEF policyLeft, Left, Recent
<1>6. policyLeft'.hold = left
  BY <1>1, <1>3 DEF policyLeft
<1>7. Left(openAt, OpenGrace)' = IF lastLid # "open" THEN OpenGrace ELSE p.openGrace
  <2>1. p.openGrace = Left(openAt, OpenGrace)
    BY DEF policyLeft
  <2>2. now \in Nat /\ Nothing \notin Int /\ now' = now
    BY <1>1, ClockTypes, InstantTypes DEF TypeOK
  <2> HIDE DEF p, clear
  <2> QED BY <1>1, <2>1, <2>2, ConstantTypes DEF Left, Recent
<1>8. Maps(rec) /\ Handled(p, angle, "open", pending, rec)
  <2> HIDE DEF p, left
  <2>1. Handled(p, angle, "open", pending, rec)
    BY DEF Handled
  <2> HIDE DEF rec
  <2> QED BY <1>4, <1>5, <1>6, <1>7, <2>1 DEF Maps
<1> HIDE DEF rec
<1> QED BY <1>1, <1>4, <1>8, SampleMaps DEF p

\* A sample ignored while the system sleeps is one of LidPolicy.
LEMMA IgnoredMaps ==
    ASSUME NEW angle \in Angles, Ignored(angle)
    PROVE  LidPolicySpec!Sample(angle)
<1>1. policyLeft.sleeping = TRUE
  BY DEF policyLeft, Ignored
<1>2. Decision(policyLeft, angle, pending) = [policy |-> policyLeft, action |-> "none"]
  BY <1>1 DEF Decision
<1>3. policyLeft' = policyLeft /\ action' = "none" /\ pending' = pending
  BY DEF Ignored, policyLeft, Left, Recent, stampVars
<1>4. pending \in Outcomes("none", pending)
  BY DEF Outcomes
<1> QED BY <1>2, <1>3, <1>4, SameOperators DEF LidPolicySpec!Sample

\* The fields of the policy after either power callback.
Forgotten(p, wakeGrace) ==
    /\ p.lastAngle = Nothing /\ p.lastLid = Nothing /\ p.streak = 0
    /\ p.closeGrace = CloseGrace /\ p.openGrace = 0 /\ p.wakeGrace = wakeGrace
    /\ p.hold = 0 /\ p.awaiting = TRUE

\* The reset of the power callbacks leaves the graces it starts.
LEMMA ForgetMaps ==
    ASSUME TypeOK, Forget, wakeAt' \in {Nothing, now}
    PROVE  /\ Forgotten(policyLeft', IF wakeAt' = now THEN WakeGrace ELSE 0)
           /\ policyLeft'.sleeping = sleeping'
<1>1. now \in Nat /\ Nothing \notin Int /\ now' = now
  BY ClockTypes, InstantTypes DEF TypeOK, Forget
<1>2. /\ Left(fullCloseAt, CloseGrace)' = CloseGrace /\ Left(openAt, OpenGrace)' = 0
      /\ Left(wakeAt, WakeGrace)' = IF wakeAt' = now THEN WakeGrace ELSE 0
  BY <1>1, ConstantTypes DEF Forget, Left, Recent
<1> QED BY <1>2, ConstantTypes DEF Forget, policyLeft, Forgotten

\* handle_will_sleep is WillSleep of LidPolicy.
LEMMA WillSleepMaps ==
    ASSUME TypeOK, TypeOK', WillSleep
    PROVE  LidPolicySpec!WillSleep
<1> DEFINE r == policyLeft'
<1>1. r \in Policy /\ WillSleepPolicy \in Policy
  <2>1. TypeOK' => (policyLeft \in Policy)'
    BY PolicyLeftType, PTL
  <2> QED BY <2>1, WillSleepPolicyType
<1>2. wakeAt' = Nothing /\ Nothing # now
  BY ClockTypes, InstantTypes DEF WillSleep, TypeOK
<1>3. Forgotten(r, 0) /\ r.sleeping = TRUE
  BY <1>2, ForgetMaps DEF WillSleep
<1>4. Forgotten(WillSleepPolicy, 0) /\ WillSleepPolicy.sleeping = TRUE
  BY DEF WillSleepPolicy, NewPolicy, Forgotten
<1>5. r = WillSleepPolicy
  <2> HIDE DEF r
  <2> QED BY <1>1, <1>3, <1>4, SamePolicy DEF Forgotten
<1>6. LidPolicySpec!WillSleepPolicy = WillSleepPolicy
  BY SameOperators
<1>7. LidPolicySpec!Outcomes("prepare", pending) = Outcomes("prepare", pending)
  BY SameOperators
<1> QED BY <1>5, <1>6, <1>7 DEF LidPolicySpec!WillSleep, WillSleep, Forget

\* handle_did_wake is DidWake of LidPolicy.
LEMMA DidWakeMaps ==
    ASSUME TypeOK, TypeOK', DidWake
    PROVE  LidPolicySpec!DidWake
<1> DEFINE r == policyLeft'
<1>1. r \in Policy /\ DidWakePolicy \in Policy
  <2>1. TypeOK' => (policyLeft \in Policy)'
    BY PolicyLeftType, PTL
  <2> QED BY <2>1, DidWakePolicyType
<1>2. Forgotten(r, WakeGrace) /\ r.sleeping = FALSE
  BY ForgetMaps DEF DidWake
<1>3. Forgotten(DidWakePolicy, WakeGrace) /\ DidWakePolicy.sleeping = FALSE
  BY DEF DidWakePolicy, NewPolicy, Forgotten
<1>4. r = DidWakePolicy
  <2> HIDE DEF r
  <2> QED BY <1>1, <1>2, <1>3, SamePolicy DEF Forgotten
<1>5. LidPolicySpec!DidWakePolicy = DidWakePolicy
  BY SameOperators
<1> QED BY <1>4, <1>5 DEF LidPolicySpec!DidWake, DidWake, Forget

\* The time left at an Instant after one tick more.
LEMMA LeftElapses ==
    ASSUME NEW time \in Nat, NEW stamp \in 0..time, NEW grace \in Nat
    PROVE  (IF (time + 1) - stamp < grace THEN grace - ((time + 1) - stamp) ELSE 0)
             = Elapse(IF time - stamp < grace THEN grace - (time - stamp) ELSE 0)
BY DEF Elapse

\* A tick of the clock counts every grace and the hold down.
LEMMA TickMaps ==
    ASSUME TypeOK, TypeOK', Tick
    PROVE  LidPolicySpec!Tick
<1> DEFINE p == policyLeft
           r == policyLeft'
           q == Elapsed(policyLeft)
<1>1. p \in Policy /\ r \in Policy /\ q \in Policy
  <2>1. TypeOK' => (policyLeft \in Policy)'
    BY PolicyLeftType, PTL
  <2> QED BY <2>1, PolicyLeftType, ElapsedType
<1>2. /\ now' = now + 1
      /\ UNCHANGED << lastAngle, lastLid, streak, fullCloseAt, openAt, wakeAt, keepUntil,
                     awaiting, sleeping, pending, action >>
  BY DEF Tick, stampVars
<1>3. now \in Nat /\ Nothing \notin Int
  BY ClockTypes, InstantTypes DEF TypeOK
<1>4. ASSUME NEW stamp \in 0..now \cup {Nothing}, NEW grace \in Nat
      PROVE  (IF stamp # Nothing /\ (now + 1) - stamp < grace
              THEN grace - ((now + 1) - stamp) ELSE 0) = Elapse(Left(stamp, grace))
  <2>1. CASE stamp = Nothing
    BY <2>1 DEF Left, Recent, Elapse
  <2>2. CASE stamp # Nothing
    BY <2>2, <1>3, LeftElapses DEF Left, Recent
  <2> QED BY <2>1, <2>2
<1>5. /\ Left(fullCloseAt, CloseGrace)' = Elapse(Left(fullCloseAt, CloseGrace))
      /\ Left(openAt, OpenGrace)' = Elapse(Left(openAt, OpenGrace))
      /\ Left(wakeAt, WakeGrace)' = Elapse(Left(wakeAt, WakeGrace))
  <2>1. {fullCloseAt, openAt, wakeAt} \subseteq 0..now \cup {Nothing}
    BY DEF TypeOK
  <2>2. /\ Left(fullCloseAt, CloseGrace)' =
             IF fullCloseAt # Nothing /\ (now + 1) - fullCloseAt < CloseGrace
             THEN CloseGrace - ((now + 1) - fullCloseAt) ELSE 0
        /\ Left(openAt, OpenGrace)' =
             IF openAt # Nothing /\ (now + 1) - openAt < OpenGrace
             THEN OpenGrace - ((now + 1) - openAt) ELSE 0
        /\ Left(wakeAt, WakeGrace)' =
             IF wakeAt # Nothing /\ (now + 1) - wakeAt < WakeGrace
             THEN WakeGrace - ((now + 1) - wakeAt) ELSE 0
    BY <1>2 DEF Left, Recent
  <2> QED BY <2>1, <2>2, <1>4, ConstantTypes
<1>6. r.hold = Elapse(p.hold)
  <2>1. keepUntil \in Nat \cup {Nothing}
    BY <1>3, ConstantTypes DEF TypeOK
  <2> QED BY <1>2, <1>3, <2>1 DEF policyLeft, Elapse
<1>7. /\ r.lastAngle = p.lastAngle /\ r.lastLid = p.lastLid /\ r.streak = p.streak
      /\ r.awaiting = p.awaiting /\ r.sleeping = p.sleeping
      /\ r.closeGrace = Elapse(p.closeGrace) /\ r.openGrace = Elapse(p.openGrace)
      /\ r.wakeGrace = Elapse(p.wakeGrace)
  BY <1>2, <1>5 DEF policyLeft
<1>8. /\ q.lastAngle = p.lastAngle /\ q.lastLid = p.lastLid /\ q.streak = p.streak
      /\ q.awaiting = p.awaiting /\ q.sleeping = p.sleeping
      /\ q.closeGrace = Elapse(p.closeGrace) /\ q.openGrace = Elapse(p.openGrace)
      /\ q.wakeGrace = Elapse(p.wakeGrace) /\ q.hold = Elapse(p.hold)
  <2> HIDE DEF p
  <2>1. q = Elapsed(p)
    BY DEF p
  <2> HIDE DEF q
  <2> QED BY <1>1, <2>1 DEF Elapsed, Policy
<1>9. r = q
  <2> HIDE DEF p, q, r
  <2> QED BY <1>1, <1>6, <1>7, <1>8, SamePolicy
<1>10. LidPolicySpec!Elapsed(policyLeft) = Elapsed(policyLeft)
  BY SameOperators
<1> QED BY <1>2, <1>9, <1>10 DEF LidPolicySpec!Tick

\* The initial state maps to the initial state.
LEMMA InitMaps == Init => LidPolicySpec!Init
<1> SUFFICES ASSUME Init PROVE LidPolicySpec!Init
  OBVIOUS
<1>1. policyLeft = NewPolicy
  <2>1. policyLeft \in Policy /\ NewPolicy \in Policy
    BY InitInv, PolicyLeftType, NewPolicyType DEF Inv
  <2>2. /\ policyLeft.lastAngle = Nothing /\ policyLeft.lastLid = Nothing
        /\ policyLeft.streak = 0 /\ policyLeft.closeGrace = 0 /\ policyLeft.openGrace = 0
        /\ policyLeft.wakeGrace = 0 /\ policyLeft.hold = 0
        /\ policyLeft.awaiting = FALSE /\ policyLeft.sleeping = FALSE
    BY ConstantTypes DEF Init, policyLeft, Left, Recent
  <2>3. /\ NewPolicy.lastAngle = Nothing /\ NewPolicy.lastLid = Nothing
        /\ NewPolicy.streak = 0 /\ NewPolicy.closeGrace = 0 /\ NewPolicy.openGrace = 0
        /\ NewPolicy.wakeGrace = 0 /\ NewPolicy.hold = 0
        /\ NewPolicy.awaiting = FALSE /\ NewPolicy.sleeping = FALSE
    BY DEF NewPolicy
  <2> QED BY <2>1, <2>2, <2>3, SamePolicy
<1> QED BY <1>1, SameOperators DEF Init, LidPolicySpec!Init

\* Every step maps to a step of LidPolicy or to none.
LEMMA NextMaps ==
    ASSUME TypeOK, TypeOK', [Next]_vars
    PROVE  [LidPolicySpec!Next]_LidPolicySpec!vars
<1>1. ASSUME NEW angle \in Angles, Sample(angle) PROVE LidPolicySpec!Next
  BY <1>1, FullyClosedMaps, PartiallyClosedMaps, OpenMaps, IgnoredMaps
  DEF Sample, LidPolicySpec!Next
<1>2. CASE WillSleep \/ DidWake \/ Tick
  BY <1>2, WillSleepMaps, DidWakeMaps, TickMaps DEF LidPolicySpec!Next
<1>3. CASE UNCHANGED vars
  BY <1>3 DEF vars, stampVars, LidPolicySpec!vars, policyLeft, Left, Recent
<1> QED BY <1>1, <1>2, <1>3 DEF Next

\* transitions.rs and power_events.rs, which compare Instants with `now`,
\* implement the policy that counts every grace and the hold down to zero.
THEOREM ImplementsPolicy == Spec => RefinesPolicy
<1>1. TypeOK /\ TypeOK' /\ [Next]_vars => [LidPolicySpec!Next]_LidPolicySpec!vars
  BY NextMaps
<1> QED BY <1>1, InitMaps, ClockTypeCorrect, PTL DEF Spec, RefinesPolicy, LidPolicySpec!Spec
=============================================================================
