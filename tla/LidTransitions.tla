--------------------------- MODULE LidTransitions ---------------------------
(***************************************************************************)
(* The decisions of monitor/transitions.rs as operators: which action the  *)
(* monitor loop takes for a lid angle, and what the decision changes in    *)
(* MonitorState.                                                           *)
(*                                                                         *)
(* A `policy` is the part of MonitorState the handlers write, except the   *)
(* saved device states: the handlers only ask which of those are present,  *)
(* and `pending` is that set of names.  An Instant the code compares with  *)
(* `now` is modelled by the time left until the comparison turns, 0 when   *)
(* it already has or was never set; LidClock has the Instants and shows    *)
(* that the two agree.                                                     *)
(***************************************************************************)
EXTENDS Integers

CONSTANTS
    FullCloseAngle,     \* MONITOR_FULL_CLOSE_ANGLE
    Threshold,          \* MonitorConfig.threshold
    StabilitySamples,   \* MONITOR_PARTIAL_STABILITY_SAMPLES
    CloseGrace,         \* MONITOR_POST_CLOSE_GRACE_SECONDS, in ticks
    OpenGrace,          \* MONITOR_POST_OPEN_GRACE_SECONDS, in ticks
    WakeGrace,          \* MONITOR_POST_WAKE_GRACE_SECONDS, in ticks
    RestoreHold,        \* MONITOR_POST_OPEN_RESTORE_SECONDS, in ticks
    Angles,             \* the angles the sensor reports
    Nothing             \* Option::None

ASSUME TransitionsAssumption ==
    /\ FullCloseAngle \in Nat /\ Threshold \in Nat
    /\ FullCloseAngle < Threshold
    /\ StabilitySamples \in Nat
    /\ {CloseGrace, OpenGrace, WakeGrace, RestoreHold} \subseteq Nat
    /\ Angles \subseteq Nat
    /\ Nothing \notin Int
    /\ Nothing \notin {"fullyClosed", "partiallyClosed", "open"}

LidStates == {"fullyClosed", "partiallyClosed", "open"}

Actions == {"none", "restore", "restoreKeep", "prepare", "resume", "start"}

\* What the monitor can have pending: saved states and the caffeinate session.
Pendings == {"internal", "external", "keyboard", "caffeinate"}

Policy == [ lastAngle  : Angles \cup {Nothing},
            lastLid    : LidStates \cup {Nothing},
            streak     : 0..StabilitySamples,
            closeGrace : 0..CloseGrace,   \* from last_full_close_at
            openGrace  : 0..OpenGrace,    \* from last_open_at
            wakeGrace  : 0..WakeGrace,    \* from last_wake_at
            hold       : 0..RestoreHold,  \* from keep_internal_restore_until
            awaiting   : BOOLEAN,         \* awaiting_open_after_full_close
            sleeping   : BOOLEAN ]        \* system_sleeping

NewPolicy ==
    [ lastAngle |-> Nothing, lastLid |-> Nothing, streak |-> 0,
      closeGrace |-> 0, openGrace |-> 0, wakeGrace |-> 0, hold |-> 0,
      awaiting |-> FALSE, sleeping |-> FALSE ]

LidStateForAngle(angle) ==
    IF angle < FullCloseAngle THEN "fullyClosed"
    ELSE IF angle < Threshold THEN "partiallyClosed" ELSE "open"

-----------------------------------------------------------------------------
(* One operator per handler: the policy after it, and the action it picks. *)

HandleFullyClosed(p, changed, pending) ==
    [ policy |-> [p EXCEPT !.closeGrace = CloseGrace, !.awaiting = TRUE, !.streak = 0],
      action |-> IF changed \/ "caffeinate" \in pending THEN "prepare" ELSE "none" ]

PartialDimmingSuppressed(p) ==
    \/ p.awaiting
    \/ p.closeGrace > 0
    \/ p.openGrace > 0
    \/ p.wakeGrace > 0

\* Variant: a lid held still starts the count over.
NextStreakFromFalling(p, angle) ==
    IF p.lastAngle # Nothing /\ angle >= p.lastAngle THEN 0
    ELSE IF p.streak < StabilitySamples THEN p.streak + 1 ELSE StabilitySamples

\* The streak stops counting at StabilitySamples: beyond it the code only
\* asks whether the count is large enough.
NextStreak(p, angle) ==
    IF p.lastAngle # Nothing /\ angle > p.lastAngle THEN 0
    ELSE IF p.streak < StabilitySamples THEN p.streak + 1 ELSE StabilitySamples

HandlePartiallyClosed(p, angle, pending) ==
    LET streak == NextStreak(p, angle)
    IN  IF PartialDimmingSuppressed(p)
        THEN [policy |-> [p EXCEPT !.streak = 0], action |-> "none"]
        ELSE IF pending \cap {"internal", "keyboard"} # {}
        THEN [policy |-> [p EXCEPT !.streak = 0], action |-> "resume"]
        ELSE [ policy |-> [p EXCEPT !.streak = streak],
               action |-> IF streak >= StabilitySamples THEN "start" ELSE "none" ]

\* Variant: every open sample starts the hold again.
HoldOnEveryOpen(p, pending) == IF "internal" \in pending THEN RestoreHold ELSE p.hold

\* maybe_start_open_restore_hold, evaluated before awaiting is cleared.
HoldOnOpen(p, pending) ==
    IF p.awaiting /\ "internal" \in pending THEN RestoreHold ELSE p.hold

\* Variant: a restore is decided only when the lid has just opened.
HandleOpenOnce(p, changed, pending) ==
    LET hold == HoldOnOpen(p, pending)
    IN  [ policy |-> [p EXCEPT !.streak = 0, !.awaiting = FALSE,
                               !.openGrace = IF changed THEN OpenGrace ELSE @,
                               !.hold = hold],
          action |-> IF pending = {} \/ ~changed THEN "none"
                     ELSE IF hold = 0 THEN "restore" ELSE "restoreKeep" ]

HandleOpen(p, changed, pending) ==
    LET hold == HoldOnOpen(p, pending)
    IN  [ policy |-> [p EXCEPT !.streak = 0, !.awaiting = FALSE,
                               !.openGrace = IF changed THEN OpenGrace ELSE @,
                               !.hold = hold],
          action |-> IF pending = {} THEN "none"
                     ELSE IF hold = 0 THEN "restore" ELSE "restoreKeep" ]

\* The critical section of the loop body: nothing while the system sleeps,
\* else the handler of the lid state and the angle remembered.
Decision(p, angle, pending) ==
    LET lid     == LidStateForAngle(angle)
        changed == p.lastLid # lid
        handled == CASE lid = "fullyClosed"     -> HandleFullyClosed(p, changed, pending)
                     [] lid = "partiallyClosed" -> HandlePartiallyClosed(p, angle, pending)
                     [] lid = "open"            -> HandleOpen(p, changed, pending)
    IN  IF p.sleeping
        THEN [policy |-> p, action |-> "none"]
        ELSE [handled EXCEPT !.policy.lastAngle = angle, !.policy.lastLid = lid]

-----------------------------------------------------------------------------
(* The critical sections of the power callbacks, and the passing of time. *)

WillSleepPolicy ==
    [NewPolicy EXCEPT !.sleeping = TRUE, !.awaiting = TRUE, !.closeGrace = CloseGrace]

\* Variant: system_sleeping survives the wake.
DidWakePolicyStillSleeping ==
    [ NewPolicy EXCEPT !.sleeping = TRUE, !.awaiting = TRUE,
                       !.closeGrace = CloseGrace, !.wakeGrace = WakeGrace ]

DidWakePolicy ==
    [NewPolicy EXCEPT !.awaiting = TRUE, !.closeGrace = CloseGrace, !.wakeGrace = WakeGrace]

\* Variant: the difference of Instants is not clipped.
ElapseUnclipped(n) == n - 1

Elapse(n) == IF n = 0 THEN 0 ELSE n - 1

Elapsed(p) ==
    [p EXCEPT !.closeGrace = Elapse(@), !.openGrace = Elapse(@),
              !.wakeGrace = Elapse(@), !.hold = Elapse(@)]

-----------------------------------------------------------------------------
(* The effects, reduced to what they leave pending.  A restore may fail for *)
(* any device, "restoreKeep" and "prepare" hold on to the panel's state, a  *)
(* dim adds what it captured and may have to forget everything.             *)

Outcomes(action, pending) ==
    CASE action = "none"        -> {pending}
      [] action = "restore"     -> SUBSET pending
      [] action = "restoreKeep" -> {left \in SUBSET pending :
                                       "internal" \in pending => "internal" \in left}
      [] action = "prepare"     -> {pending, pending \ {"caffeinate"}}
      [] action \in {"start", "resume"} -> SUBSET Pendings
=============================================================================
