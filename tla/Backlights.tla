----------------------------- MODULE Backlights -----------------------------
(***************************************************************************)
(* The controllers of the built-in panel and of the keyboard backlight     *)
(* over brightness.c and keyboard_backlight.c, as effects.rs calls them:   *)
(* one at a time, under EFFECTS_LOCK.  The panel is addressed by a display *)
(* id that is cached across calls and looked up once more when a call with *)
(* it fails; a keyboard that dimmed itself is undimmed to read its level.  *)
(*                                                                         *)
(* Not here: frameworks that cannot be loaded or lack a selector, with     *)
(* which every call fails before it does anything.  A display id that is   *)
(* not online fails, so ids are not reused for other displays.             *)
(***************************************************************************)
EXTENDS Integers

CONSTANTS
    Levels,      \* brightness, 0 is dark
    Ids,         \* ids the built-in display may get
    Keyboards,   \* backlit keyboards
    Default,     \* keyboard 1, which is used when none is listed
    Nothing,     \* kCGNullDirectDisplay, and no call
    Faults       \* which of FaultKinds happen

\* The list of displays, a DisplayServices call, a new KeyboardBrightnessClient,
\* copyKeyboardBacklightIDs, setting one keyboard.
FaultKinds == {"displays", "panel", "client", "ids", "keyboard"}

Failed == -1   \* BrightnessGet and KeyboardBacklightGet on an error

Devices == {"panel", "keyboard"}

\* get_state and is_disabled read, restore_state and disable_from_state set,
\* disable reads and then sets.
Ops == {"read", "set", "disable"}

Steps == {"target", "try", "client", "wake", "level", "doze", "next"}

Calls == [ device : Devices, op : Ops, want : Levels, step : Steps,
           level  : Levels \cup {Failed},              \* what was read
           target : Ids \cup Keyboards \cup {Nothing},   \* what is addressed
           left   : SUBSET Keyboards,                    \* not come to yet
           again  : BOOLEAN ]   \* second try, was_suspended, any_ok

\* An error value is no brightness that was read.
Answers == { a \in [ device : Devices, want : Levels,
                     result : {"read", "done", "already", "failed"},
                     level  : Levels \cup {Failed} ] :
             a.result = "read" => a.level # Failed }

ASSUME BacklightsAssumption ==
    /\ Levels \subseteq Nat /\ 0 \in Levels
    /\ Nothing \notin Ids \cup Calls
    /\ Default \in Keyboards
    /\ Faults \subseteq FaultKinds

VARIABLES
    panel,       \* brightness of the built-in panel
    builtin,     \* the id it is online with, or Nothing
    cached,      \* cached_builtin_display_id
    keys,        \* brightness set for each keyboard
    idle,        \* keyboards dark after inactivity
    suspended,   \* keyboards whose idle dimming is suspended
    auto,        \* keyboards that follow the ambient light
    call,        \* the call in progress, or Nothing
    answer,      \* what the last call was and returned
    before,      \* brightness when it began
    quiet        \* nothing failed or changed while it ran

levels == <<panel, keys>>
shims  == <<cached, suspended, auto>>
vars   == <<levels, shims, builtin, idle, call, answer, before, quiet>>

May(kind) == kind \in Faults

Init ==
    /\ panel \in Levels /\ keys \in [Keyboards -> Levels]
    /\ builtin \in Ids /\ cached = Nothing
    /\ idle = {} /\ suspended = {} /\ auto \in {{}, Keyboards}
    /\ call = Nothing /\ answer = Nothing
    /\ before = levels /\ quiet = TRUE

-----------------------------------------------------------------------------
(* A call begins and returns. *)

Begin(device, op, level) ==
    [ device |-> device, op |-> op, want |-> level,
      step  |-> IF device = "panel" THEN "target" ELSE "client",
      level |-> Failed, target |-> Nothing, left |-> {}, again |-> FALSE ]

Call ==
    /\ call = Nothing
    /\ \E device \in Devices, op \in Ops, level \in Levels :
          /\ op # "set" => level = 0
          /\ call' = Begin(device, op, level)
          /\ quiet' = (device = "panel" => builtin # Nothing)
    /\ answer' = Nothing
    /\ before' = levels
    /\ UNCHANGED <<levels, shims, builtin, idle>>

Return(result, level) ==
    /\ call' = Nothing
    /\ answer' = [device |-> call.device, want |-> call.want, result |-> result, level |-> level]

\* disable goes on unless the device is dark; a read that failed counts as lit.
GoOn(level) ==
    IF level = 0 THEN Return("already", level)
    ELSE call' = Begin(call.device, "set", 0) /\ UNCHANGED answer

\* Variant: the error value is taken for a brightness.
HaveReadUnchecked(level) ==
    IF call.op = "disable" THEN GoOn(level) ELSE Return("read", level)

HaveRead(level) ==
    IF call.op = "disable" THEN GoOn(level)
    ELSE Return(IF level = Failed THEN "failed" ELSE "read", level)

HaveSet(done) == Return(IF done THEN "done" ELSE "failed", call.want)

\* An error of the call in progress.
HaveFailed == IF call.op = "set" THEN HaveSet(FALSE) ELSE HaveRead(Failed)

At(step) == call # Nothing /\ call.step = step

-----------------------------------------------------------------------------
(* BrightnessGet and BrightnessSet. *)

TryOn(id) ==
    /\ call' = [call EXCEPT !.step = "try", !.target = id]
    /\ UNCHANGED answer

\* brightnessTargetDisplay: the cached id, or what a scan finds and caches.
Target ==
    /\ At("target")
    /\ \/ cached # Nothing /\ TryOn(cached) /\ UNCHANGED <<cached, quiet>>
       \/ /\ cached = Nothing
          /\ cached' = builtin
          /\ IF builtin = Nothing THEN HaveFailed ELSE TryOn(builtin)
          /\ UNCHANGED quiet
       \/ /\ cached = Nothing /\ May("displays")
          /\ HaveFailed
          /\ quiet' = FALSE
          /\ UNCHANGED cached
    /\ UNCHANGED <<levels, suspended, auto, builtin, idle, before>>

\* Variant: the failed id stays cached.
RefreshKeepingId ==
    /\ call' = [call EXCEPT !.step = "target", !.again = TRUE]
    /\ UNCHANGED <<cached, answer>>

\* refreshBrightnessTargetDisplay, once per call: the failed id is dropped.
Refresh ==
    /\ cached' = IF cached = call.target THEN Nothing ELSE cached
    /\ call' = [call EXCEPT !.step = "target", !.again = TRUE]
    /\ UNCHANGED answer

TryFails == IF call.again THEN HaveFailed /\ UNCHANGED cached ELSE Refresh

\* DisplayServicesGetBrightness or DisplayServicesSetBrightness
Try ==
    /\ At("try")
    /\ \/ /\ call.target = builtin
          /\ IF call.op = "set" THEN panel' = call.want /\ HaveSet(TRUE)
                                ELSE HaveRead(panel) /\ UNCHANGED panel
          /\ UNCHANGED <<cached, quiet>>
       \/ /\ call.target # builtin
          /\ TryFails
          /\ UNCHANGED <<panel, quiet>>
       \/ /\ May("panel")
          /\ TryFails
          /\ quiet' = FALSE
          /\ UNCHANGED panel
    /\ UNCHANGED <<keys, suspended, auto, builtin, idle, before>>

-----------------------------------------------------------------------------
(* KeyboardBacklightGet and KeyboardBacklightSet, each with a new client. *)

\* Every listed keyboard is set, the first one is read; without a list keyboard
\* 1 stands for it.
Client ==
    /\ At("client")
    /\ \/ /\ May("client")
          /\ HaveFailed
          /\ quiet' = FALSE
       \/ /\ call.op = "set"
          /\ call' = [call EXCEPT !.step = "next", !.left = Keyboards]
          /\ UNCHANGED <<answer, quiet>>
       \/ /\ call.op # "set"
          /\ \E first \in Keyboards :
                call' = [call EXCEPT !.step = "wake", !.target = first]
          /\ UNCHANGED <<answer, quiet>>
       \/ /\ May("ids")
          /\ call' = [call EXCEPT !.step = IF call.op = "set" THEN "next" ELSE "wake",
                                  !.target = Default]
          /\ quiet' = FALSE
          /\ UNCHANGED answer
    /\ UNCHANGED <<levels, shims, builtin, idle, before>>

\* Variant: what the keyboard shows is read without suspending anything.
WakeNothing ==
    /\ At("wake")
    /\ call' = [call EXCEPT !.step = "level"]
    /\ UNCHANGED <<levels, shims, builtin, idle, answer, before, quiet>>

\* isBacklightDimmedOnKeyboard:, and suspendIdleDimming: if it is.
Wake ==
    /\ At("wake")
    /\ LET dimmed == call.target \in idle \ suspended
       IN  /\ call' = [call EXCEPT !.step = "level", !.again = dimmed]
           /\ suspended' = IF dimmed THEN suspended \cup {call.target} ELSE suspended
    /\ UNCHANGED <<levels, cached, auto, builtin, idle, answer, before, quiet>>

\* brightnessForKeyboard: is what the keyboard shows.
Shown(k) == IF k \in idle \ suspended THEN 0 ELSE keys[k]

Level ==
    /\ At("level")
    /\ call' = [call EXCEPT !.step = "doze", !.level = Shown(call.target)]
    /\ UNCHANGED <<levels, shims, builtin, idle, answer, before, quiet>>

\* suspendIdleDimming: off again, if it was on.
Doze ==
    /\ At("doze")
    /\ suspended' = IF call.again THEN suspended \ {call.target} ELSE suspended
    /\ HaveRead(call.level)
    /\ UNCHANGED <<levels, cached, auto, builtin, idle, before, quiet>>

\* setKeyboardBrightness, which also ends automatic brightness for good, for
\* every listed keyboard.
SetKeyboard(k) ==
    /\ At("next") /\ k \in call.left
    /\ auto' = auto \ {k}
    /\ \/ /\ keys' = [keys EXCEPT ![k] = call.want]
          /\ call' = [call EXCEPT !.left = @ \ {k}, !.again = TRUE]
          /\ UNCHANGED quiet
       \/ /\ May("keyboard")
          /\ call' = [call EXCEPT !.left = @ \ {k}]
          /\ quiet' = FALSE
          /\ UNCHANGED keys
    /\ UNCHANGED <<panel, cached, suspended, builtin, idle, answer, before>>

\* One that was set is enough; if none was, keyboard 1 is tried.
SetDefault ==
    /\ At("next") /\ call.left = {}
    /\ \/ /\ call.again
          /\ HaveSet(TRUE)
          /\ UNCHANGED <<keys, auto, quiet>>
       \/ /\ ~call.again
          /\ auto' = auto \ {Default}
          /\ keys' = [keys EXCEPT ![Default] = call.want]
          /\ HaveSet(TRUE)
          /\ UNCHANGED quiet
       \/ /\ ~call.again /\ May("keyboard")
          /\ auto' = auto \ {Default}
          /\ HaveSet(FALSE)
          /\ quiet' = FALSE
          /\ UNCHANGED keys
    /\ UNCHANGED <<panel, cached, suspended, builtin, idle, before>>

-----------------------------------------------------------------------------
(* The world. *)

\* The built-in display goes off and on line, and may get another id.
Reconfigure ==
    /\ builtin' \in (Ids \cup {Nothing}) \ {builtin}
    /\ quiet' = (quiet /\ (call # Nothing => call.device # "panel"))
    /\ UNCHANGED <<levels, shims, idle, call, answer, before>>

\* A keyboard darkens after inactivity, unless that is suspended.
IdleDim(k) ==
    /\ k \notin idle \cup suspended
    /\ idle' = idle \cup {k}
    /\ quiet' = (quiet /\ (call # Nothing => call.device # "keyboard"))
    /\ UNCHANGED <<levels, shims, builtin, call, answer, before>>

IdleEnds ==
    /\ idle # {} /\ idle' = {}
    /\ UNCHANGED <<levels, shims, builtin, call, answer, before, quiet>>

\* Between two calls; the last answer is history then.
User ==
    /\ call = Nothing
    /\ \/ panel' \in Levels /\ UNCHANGED keys
       \/ keys' \in [Keyboards -> Levels] /\ UNCHANGED panel
    /\ answer' = Nothing
    /\ UNCHANGED <<shims, builtin, idle, call, before, quiet>>

Calling ==
    \/ Target \/ Try
    \/ Client \/ Wake \/ Level \/ Doze \/ (\E k \in Keyboards : SetKeyboard(k)) \/ SetDefault

Next ==
    \/ Call \/ Calling
    \/ Reconfigure \/ (\E k \in Keyboards : IdleDim(k)) \/ IdleEnds \/ User

Spec == Init /\ [][Next]_vars

-----------------------------------------------------------------------------
(* Properties. *)

\* Types of every variable.
TypeOK ==
    /\ panel \in Levels /\ keys \in [Keyboards -> Levels]
    /\ builtin \in Ids \cup {Nothing} /\ cached \in Ids \cup {Nothing}
    /\ idle \in SUBSET Keyboards /\ suspended \in SUBSET Keyboards /\ auto \in SUBSET Keyboards
    /\ call \in Calls \cup {Nothing}
    /\ answer \in Answers \cup {Nothing}
    /\ before \in Levels \X [Keyboards -> Levels] /\ quiet \in BOOLEAN

Returned(device, results) ==
    answer # Nothing /\ answer.device = device /\ answer.result \in results

\* What a call answers is what it did: a panel that was read or set has that
\* brightness, one whose call failed the brightness it had.  A keyboard is read
\* by the level that was chosen for it, not by what it shows after inactivity;
\* all are set unless something failed, at least one if the call succeeded and
\* none if it failed; and idle dimming is on again.
AnswersTrue ==
    /\ Returned("panel", {"read", "already"}) => panel = answer.level
    /\ Returned("panel", {"done"})   => panel = answer.want
    /\ Returned("panel", {"failed"}) => panel = before[1]
    /\ Returned("keyboard", {"read", "already"}) /\ quiet =>
           \E k \in Keyboards : keys[k] = answer.level
    /\ Returned("keyboard", {"done"}) =>
           /\ \E k \in Keyboards : keys[k] = answer.want
           /\ quiet => \A k \in Keyboards : keys[k] = answer.want
    /\ Returned("keyboard", {"failed"}) => keys = before[2]
    /\ call = Nothing => suspended = {}

\* The cached id heals itself within the call that finds it stale: a call for a
\* panel that is online and stays so with one id fails only if something failed.
StaleIdHealed == Returned("panel", {"failed"}) => ~quiet
=============================================================================
