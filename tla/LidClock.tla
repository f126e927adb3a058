------------------------------ MODULE LidClock ------------------------------
(***************************************************************************)
(* The lid policy as transitions.rs computes it: MonitorState keeps the    *)
(* Instants of the last full close, open and wake and the end of the       *)
(* restore hold, and every handler compares them with `now`.               *)
(*                                                                         *)
(* LidPolicy is the specification with the time left in their place; the   *)
(* mapping at the end says what is left at each Instant.                   *)
(***************************************************************************)
EXTENDS LidTransitions

CONSTANTS
    MaxTime,     \* bound on `now`
    MaxStreak    \* bound on `falling`, and so on below_threshold_streak

ASSUME ClockAssumption ==
    /\ MaxTime \in Nat
    /\ MaxStreak \in Nat /\ StabilitySamples <= MaxStreak

VARIABLES
    now,          \* Instant::now(), in ticks
    lastAngle, lastLid,
    streak,       \* below_threshold_streak
    fullCloseAt,  \* last_full_close_at
    openAt,       \* last_open_at
    wakeAt,       \* last_wake_at
    keepUntil,    \* keep_internal_restore_until
    awaiting,     \* awaiting_open_after_full_close
    sleeping,     \* system_sleeping
    pending, action,
    \* history
    barred,       \* no open sample since the last full close, sleep or wake
    falling,      \* partial samples in a row without the angle rising
    heldFrom      \* the open sample after it that found the panel saved

stampVars   == <<fullCloseAt, openAt, wakeAt, keepUntil>>
historyVars == <<barred, falling, heldFrom>>
vars == << now, lastAngle, lastLid, streak, stampVars, awaiting, sleeping,
           pending, action, historyVars >>

Instants == 0..MaxTime \cup {Nothing}

Init ==
    /\ now = 0
    /\ lastAngle = Nothing /\ lastLid = Nothing /\ streak = 0
    /\ fullCloseAt = Nothing /\ openAt = Nothing /\ wakeAt = Nothing
    /\ keepUntil = Nothing
    /\ awaiting = FALSE /\ sleeping = FALSE
    /\ pending = {} /\ action = "none"
    /\ barred = FALSE /\ falling = 0 /\ heldFrom = Nothing

\* Variant: the grace lasts one tick too long.
RecentInclusive(stamp, grace) == stamp # Nothing /\ now - stamp <= grace

\* since(timestamp, now) < grace; a timestamp never set is infinitely old.
Recent(stamp, grace) == stamp # Nothing /\ now - stamp < grace

\* Variant: the graces alone suppress dimming.
SuppressedByGraces ==
    \/ Recent(fullCloseAt, CloseGrace)
    \/ Recent(openAt, OpenGrace)
    \/ Recent(wakeAt, WakeGrace)

Suppressed ==
    \/ awaiting
    \/ Recent(fullCloseAt, CloseGrace)
    \/ Recent(openAt, OpenGrace)
    \/ Recent(wakeAt, WakeGrace)

\* A decision, the angle and lid state remembered with it, and its effects.
Decided(angle, act) ==
    /\ ~sleeping
    /\ action' = act
    /\ pending' \in Outcomes(act, pending)
    /\ lastAngle' = angle
    /\ lastLid' = LidStateForAngle(angle)
    /\ UNCHANGED <<now, wakeAt, sleeping>>

FullyClosed(angle) ==
    /\ LidStateForAngle(angle) = "fullyClosed"
    /\ fullCloseAt' = now
    /\ awaiting' = TRUE
    /\ streak' = 0
    /\ Decided(angle, IF lastLid # "fullyClosed" \/ "caffeinate" \in pending
                      THEN "prepare" ELSE "none")
    /\ barred' = TRUE /\ falling' = 0 /\ heldFrom' = Nothing
    /\ UNCHANGED <<openAt, keepUntil>>

\* Variant: a rising lid keeps the count.
CountIgnoringRise(rising) == streak + 1

Count(rising) == IF rising THEN 0 ELSE streak + 1

PartiallyClosed(angle) ==
    /\ LidStateForAngle(angle) = "partiallyClosed"
    /\ falling < MaxStreak
    /\ LET rising == lastAngle # Nothing /\ angle > lastAngle
       IN  /\ falling' = IF rising THEN 0 ELSE falling + 1
           /\ \/ /\ Suppressed
                 /\ streak' = 0
                 /\ Decided(angle, "none")
              \/ /\ ~Suppressed
                 /\ pending \cap {"internal", "keyboard"} # {}
                 /\ streak' = 0
                 /\ Decided(angle, "resume")
              \/ /\ ~Suppressed
                 /\ pending \cap {"internal", "keyboard"} = {}
                 /\ streak' = Count(rising)
                 /\ Decided(angle, IF streak' >= StabilitySamples THEN "start" ELSE "none")
    /\ UNCHANGED <<fullCloseAt, openAt, keepUntil, awaiting, barred, heldFrom>>

\* Variant: awaiting is cleared before the hold is considered, so it never starts.
HoldUntilLate == keepUntil

HoldUntil == IF awaiting /\ "internal" \in pending THEN now + RestoreHold ELSE keepUntil

\* The hold is started before the decision asks whether it has ended, and is
\* forgotten by the restore that clears.
Open(angle) ==
    /\ LidStateForAngle(angle) = "open"
    /\ streak' = 0
    /\ awaiting' = FALSE
    /\ openAt' = IF lastLid # "open" THEN now ELSE openAt
    /\ LET clear == HoldUntil = Nothing \/ now >= HoldUntil
       IN  /\ keepUntil' = IF pending # {} /\ clear THEN Nothing ELSE HoldUntil
           /\ Decided(angle, IF pending = {} THEN "none"
                             ELSE IF clear THEN "restore" ELSE "restoreKeep")
    /\ barred' = FALSE /\ falling' = 0
    /\ heldFrom' = IF barred /\ "internal" \in pending THEN now ELSE heldFrom
    /\ UNCHANGED fullCloseAt

\* The loop body while the system sleeps.
Ignored(angle) ==
    /\ sleeping
    /\ action' = "none"
    /\ UNCHANGED << now, lastAngle, lastLid, streak, stampVars, awaiting, sleeping,
                    pending, historyVars >>

Sample(angle) ==
    \/ FullyClosed(angle) \/ PartiallyClosed(angle) \/ Open(angle) \/ Ignored(angle)

\* Variant: below_threshold_streak survives a sleep.
ForgetKeepingStreak ==
    /\ lastAngle' = Nothing /\ lastLid' = Nothing
    /\ fullCloseAt' = now /\ openAt' = Nothing /\ keepUntil' = Nothing
    /\ awaiting' = TRUE
    /\ action' = "none"
    /\ barred' = TRUE /\ falling' = 0 /\ heldFrom' = Nothing
    /\ UNCHANGED <<now, streak>>

Forget ==
    /\ lastAngle' = Nothing /\ lastLid' = Nothing /\ streak' = 0
    /\ fullCloseAt' = now /\ openAt' = Nothing /\ keepUntil' = Nothing
    /\ awaiting' = TRUE
    /\ action' = "none"
    /\ barred' = TRUE /\ falling' = 0 /\ heldFrom' = Nothing
    /\ UNCHANGED now

WillSleep ==
    /\ Forget
    /\ sleeping' = TRUE
    /\ wakeAt' = Nothing
    /\ pending' \in Outcomes("prepare", pending)

DidWake ==
    /\ Forget
    /\ sleeping' = FALSE
    /\ wakeAt' = now
    /\ UNCHANGED pending

Tick ==
    /\ now < MaxTime
    /\ now' = now + 1
    /\ UNCHANGED << lastAngle, lastLid, streak, stampVars, awaiting, sleeping, pending,
                    action, historyVars >>

Next ==
    \/ \E angle \in Angles : Sample(angle)
    \/ WillSleep \/ DidWake \/ Tick

Spec == Init /\ [][Next]_vars

-----------------------------------------------------------------------------

\* Types, and no Instant lies in the future.
TypeOK ==
    /\ now \in 0..MaxTime
    /\ lastAngle \in Angles \cup {Nothing} /\ lastLid \in LidStates \cup {Nothing}
    /\ streak \in 0..falling
    /\ {fullCloseAt, openAt, wakeAt} \subseteq 0..now \cup {Nothing}
    /\ keepUntil \in 0..(now + RestoreHold) \cup {Nothing}
    /\ awaiting \in BOOLEAN /\ sleeping \in BOOLEAN
    /\ pending \in SUBSET Pendings /\ action \in Actions
    /\ barred \in BOOLEAN /\ falling \in 0..MaxStreak
    /\ heldFrom \in 0..now \cup {Nothing}

\* After a full close, a sleep or a wake nothing is dimmed before the lid has
\* been seen open: half-open positions on the way up keep the panel lit
\* (full_close_suppresses_partial_dimming_until_open, transitions.rs).
DimsAfterOpenOnly == action \in {"start", "resume"} => ~barred

\* A first dim follows StabilitySamples samples of a lid that is not rising;
\* one noisy or passing sample never darkens the panel.
StartDebounced == action = "start" => falling >= StabilitySamples

\* Once the lid opens after a full close with the panel saved, the saved value
\* is not given up before RestoreHold has passed, so that macOS relighting the
\* panel late is corrected.
HoldHonoured ==
    [][action' = "restore" /\ "internal" \in pending /\ heldFrom # Nothing
         => now - heldFrom >= RestoreHold]_vars

\* What is left of each Instant.
Left(stamp, grace) == IF Recent(stamp, grace) THEN grace - (now - stamp) ELSE 0

policyLeft ==
    [ lastAngle  |-> lastAngle,
      lastLid    |-> lastLid,
      streak     |-> IF streak < StabilitySamples THEN streak ELSE StabilitySamples,
      closeGrace |-> Left(fullCloseAt, CloseGrace),
      openGrace  |-> Left(openAt, OpenGrace),
      wakeGrace  |-> Left(wakeAt, WakeGrace),
      hold       |-> IF keepUntil = Nothing \/ now >= keepUntil THEN 0 ELSE keepUntil - now,
      awaiting   |-> awaiting,
      sleeping   |-> sleeping ]

LidPolicySpec == INSTANCE LidPolicy WITH policy <- policyLeft

\* Comparing Instants with `now` in every handler decides exactly as counting
\* the graces and the hold down would.
RefinesPolicy == LidPolicySpec!Spec
=============================================================================
