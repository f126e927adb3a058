-------------------------- MODULE BacklightsProofs --------------------------
(***************************************************************************)
(* What the controllers of the panel and of the keyboard backlight promise *)
(* of a call, for every set of displays, keyboards and levels: types, that *)
(* the answer is what the call did, and that a stale display id costs a try.*)
(*                                                                         *)
(* The calls are loops over tries and keyboards, so the inductive invariant*)
(* (Inv) says what a call has done when it is at a step (PanelCall, Reading,*)
(* Setting), always relative to the levels before it.  quiet, the ghost that*)
(* says nothing failed and nothing moved, selects the stronger half of each*)
(* part.                                                                   *)
(***************************************************************************)
EXTENDS Backlights, TLAPS

-----------------------------------------------------------------------------
(* The inductive invariant. *)

\* A panel call has changed nothing yet, and the id it tries is the cached one,
\* so that a failure drops it and the second try has the id of a new scan.
PanelCall ==
    /\ call.device = "panel" /\ call.step \in {"target", "try"}
    /\ panel = before[1] /\ suspended = {}
    /\ quiet => builtin # Nothing
    /\ call.step = "target" /\ call.again => cached = Nothing
    /\ call.step = "try" => call.target # Nothing /\ cached = call.target
    /\ call.step = "try" /\ call.again /\ quiet => call.target = builtin

\* A keyboard that is read is not dark for idleness once it has been woken, and
\* what suspends its idle dimming is this call.
Reading ==
    /\ call.step \in {"wake", "level", "doze"} /\ call.op # "set"
    /\ call.target \in Keyboards /\ keys = before[2]
    /\ suspended = IF call.again THEN {call.target} ELSE {}
    /\ call.step = "wake" => ~call.again
    /\ call.step = "level" /\ quiet => call.target \notin idle \ suspended
    /\ call.step = "doze" => call.level \in Levels
    /\ call.step = "doze" /\ quiet => keys[call.target] = call.level

\* Of the keyboards the call has come to, one was set if again says so, all if
\* it is quiet, and none otherwise.
Setting ==
    /\ call.step = "next" /\ call.op = "set" /\ suspended = {}
    /\ call.again => \E k \in Keyboards : keys[k] = call.want
    /\ ~call.again => keys = before[2]
    /\ quiet => \A k \in Keyboards \ call.left : keys[k] = call.want
    /\ quiet /\ ~call.again => call.left = Keyboards

\* A keyboard call is about to ask for its client, reads, or sets.
KeyboardCall ==
    /\ call.device = "keyboard"
    /\ \/ call.step = "client" /\ ~call.again /\ keys = before[2] /\ suspended = {}
       \/ Reading
       \/ Setting

\* While a call runs it has no answer yet.
CallInv == call # Nothing => answer = Nothing /\ (PanelCall \/ KeyboardCall)

\* The inductive invariant: a running call, or the answer of the last one.
Inv == CallInv /\ AnswersTrue /\ StaleIdHealed

-----------------------------------------------------------------------------
(* Calls and answers. *)

\* A new call is one.
LEMMA BeginIsCall ==
    ASSUME NEW d \in Devices, NEW op \in Ops, NEW level \in Levels
    PROVE  /\ Begin(d, op, level) \in Calls /\ Begin(d, op, level) # Nothing
           /\ Begin(d, op, level).device = d /\ Begin(d, op, level).op = op
           /\ Begin(d, op, level).want = level /\ ~Begin(d, op, level).again
           /\ Begin(d, op, level).left = {}
           /\ Begin(d, op, level).step = IF d = "panel" THEN "target" ELSE "client"
<1>1. Begin(d, op, level) \in Calls
  BY DEF Begin, Calls, Steps
<1>2. Calls # {} /\ Nothing \notin Calls
  BY BacklightsAssumption, <1>1
<1> QED BY <1>1, <1>2 DEF Begin

\* What Return leaves in call and answer.
LEMMA AnswerIs ==
    ASSUME call \in Calls, NEW result, NEW level, Return(result, level)
    PROVE  /\ call' = Nothing
           /\ answer' = [device |-> call.device, want |-> call.want, result |-> result,
                         level |-> level]
           /\ answer'.device = call.device /\ answer'.want = call.want
           /\ answer'.result = result /\ answer'.level = level
  BY DEF Return

\* An answer is one.
LEMMA AnswerTyped ==
    ASSUME call \in Calls, NEW result \in {"read", "done", "already", "failed"},
           NEW level \in Levels \cup {Failed}, result = "read" => level # Failed,
           Return(result, level)
    PROVE  answer' \in Answers
  BY AnswerIs DEF Answers, Calls

\* What comes of a read: an answer, or the set that follows in disable.
LEMMA ReadGives ==
    ASSUME call \in Calls, NEW level \in Levels \cup {Failed}, HaveRead(level)
    PROVE  \/ /\ call' = Nothing /\ answer' \in Answers
              /\ answer'.device = call.device /\ answer'.level = level
              /\ answer'.result \in {"read", "already", "failed"}
              /\ answer'.result = "failed" <=> level = Failed
           \/ /\ call' = Begin(call.device, "set", 0) /\ answer' = answer
              /\ call.op = "disable"
<1>1. Failed # 0 /\ Failed \notin Levels
  BY BacklightsAssumption DEF Failed
<1>2. CASE call.op = "disable" /\ level = 0
  <2>1. Return("already", level)
    BY <1>2 DEF HaveRead, GoOn
  <2> QED BY <1>1, <1>2, <2>1, AnswerIs, AnswerTyped
<1>3. CASE call.op = "disable" /\ level # 0
  BY <1>3 DEF HaveRead, GoOn
<1>4. CASE call.op # "disable"
  <2>1. Return(IF level = Failed THEN "failed" ELSE "read", level)
    BY <1>4 DEF HaveRead
  <2>2. CASE level = Failed
    BY <2>1, <2>2, AnswerIs, AnswerTyped
  <2>3. CASE level # Failed
    BY <2>1, <2>3, AnswerIs, AnswerTyped
  <2> QED BY <2>2, <2>3
<1> QED BY <1>2, <1>3, <1>4

\* What comes of a set.
LEMMA SetGives ==
    ASSUME call \in Calls, NEW done \in BOOLEAN, HaveSet(done)
    PROVE  /\ call' = Nothing /\ answer' \in Answers
           /\ answer'.device = call.device /\ answer'.want = call.want
           /\ answer'.result = IF done THEN "done" ELSE "failed"
<1>1. call.want \in Levels
  BY DEF Calls
<1> QED BY <1>1, AnswerIs, AnswerTyped DEF HaveSet

\* What comes of an error.
LEMMA FailureGives ==
    ASSUME call \in Calls, HaveFailed
    PROVE  \/ /\ call' = Nothing /\ answer' \in Answers
              /\ answer'.device = call.device /\ answer'.result = "failed"
           \/ /\ call' = Begin(call.device, "set", 0) /\ answer' = answer
              /\ call.op = "disable"
<1>1. CASE call.op = "set"
  BY <1>1, SetGives DEF HaveFailed
<1>2. CASE call.op # "set"
  BY <1>2, ReadGives DEF HaveFailed
<1> QED BY <1>1, <1>2

\* A call goes on.
LEMMA GoesOn ==
    ASSUME call' # Nothing, answer' = Nothing, PanelCall' \/ KeyboardCall'
    PROVE  Inv'
  BY DEF Inv, CallInv, AnswersTrue, StaleIdHealed, Returned

\* A panel call returns.
LEMMA PanelReturns ==
    ASSUME call' = Nothing, answer'.device = "panel", suspended' = {},
           answer'.result \in {"read", "already"} => panel' = answer'.level,
           answer'.result = "done" => panel' = answer'.want,
           answer'.result = "failed" => panel' = before'[1] /\ ~quiet'
    PROVE  Inv'
  BY DEF Inv, CallInv, AnswersTrue, StaleIdHealed, Returned

\* A keyboard call returns.
LEMMA KeyboardReturns ==
    ASSUME call' = Nothing, answer'.device = "keyboard", suspended' = {},
           answer'.result \in {"read", "already"} /\ quiet' =>
               \E k \in Keyboards : keys'[k] = answer'.level,
           answer'.result = "done" => \E k \in Keyboards : keys'[k] = answer'.want,
           answer'.result = "done" /\ quiet' => \A k \in Keyboards : keys'[k] = answer'.want,
           answer'.result = "failed" => keys' = before'[2]
    PROVE  Inv'
  BY DEF Inv, CallInv, AnswersTrue, StaleIdHealed, Returned

\* disable has read and now sets.
LEMMA PanelSets ==
    ASSUME call' = Begin("panel", "set", 0), answer' = Nothing, suspended' = {},
           panel' = before'[1], quiet' => builtin' # Nothing
    PROVE  Inv'
<1>1. "panel" \in Devices /\ "set" \in Ops /\ 0 \in Levels
  BY BacklightsAssumption DEF Devices, Ops
<1>2. /\ call' # Nothing /\ call'.device = "panel" /\ call'.step = "target"
      /\ ~call'.again
  <2>1. /\ Begin("panel", "set", 0) # Nothing /\ Begin("panel", "set", 0).device = "panel"
        /\ ~Begin("panel", "set", 0).again
        /\ Begin("panel", "set", 0).step = IF "panel" = "panel" THEN "target" ELSE "client"
    BY <1>1, BeginIsCall
  <2> QED BY <2>1
<1>3. PanelCall'
  BY <1>2 DEF PanelCall
<1> QED BY <1>2, <1>3, GoesOn

\* disable goes on with the set of the keyboard.
LEMMA KeyboardSets ==
    ASSUME call' = Begin("keyboard", "set", 0), answer' = Nothing, suspended' = {},
           keys' = before'[2]
    PROVE  Inv'
<1>1. "keyboard" \in Devices /\ "set" \in Ops /\ 0 \in Levels
  BY BacklightsAssumption DEF Devices, Ops
<1>2. /\ call' # Nothing /\ call'.device = "keyboard" /\ call'.step = "client"
      /\ ~call'.again
  <2>1. /\ Begin("keyboard", "set", 0) # Nothing /\ Begin("keyboard", "set", 0).device = "keyboard"
        /\ ~Begin("keyboard", "set", 0).again
        /\ Begin("keyboard", "set", 0).step = IF "keyboard" = "panel" THEN "target" ELSE "client"
    BY <1>1, BeginIsCall
  <2> QED BY <2>1
<1>3. KeyboardCall'
  BY <1>2 DEF KeyboardCall
<1> QED BY <1>2, <1>3, GoesOn

\* Where a panel call and where a keyboard call is.
LEMMA AtStep ==
    ASSUME TypeOK, Inv, NEW step, At(step)
    PROVE  /\ call \in Calls /\ call # Nothing /\ answer = Nothing
           /\ step \in {"target", "try"} => PanelCall
           /\ step = "client" =>
                 call.device = "keyboard" /\ ~call.again /\ keys = before[2] /\ suspended = {}
           /\ step \in {"wake", "level", "doze"} => call.device = "keyboard" /\ Reading
           /\ step = "next" => call.device = "keyboard" /\ Setting
<1>1. call \in Calls /\ call # Nothing /\ call.step = step
  BY DEF At, TypeOK
<1>2. answer = Nothing /\ (PanelCall \/ KeyboardCall)
  BY <1>1 DEF Inv, CallInv
<1> QED BY <1>1, <1>2 DEF PanelCall, KeyboardCall, Reading, Setting

-----------------------------------------------------------------------------
(* The panel. *)

\* An error of a panel call: with nothing to blame the error cannot happen.
LEMMA PanelFails ==
    ASSUME call \in Calls, PanelCall, answer = Nothing, HaveFailed, ~quiet',
           UNCHANGED <<panel, suspended, before>>
    PROVE  Inv'
<1>1. CASE call' = Nothing /\ answer'.device = call.device /\ answer'.result = "failed"
  BY <1>1, PanelReturns DEF PanelCall
<1>2. CASE call' = Begin(call.device, "set", 0) /\ answer' = answer
  BY <1>2, PanelSets DEF PanelCall
<1> QED BY <1>1, <1>2, FailureGives

\* A panel call has the id it tries.
LEMMA TriesOn ==
    ASSUME call \in Calls, call # Nothing, PanelCall, answer = Nothing, NEW id \in Ids, TryOn(id), cached' = id,
           call.again /\ quiet' => id = builtin,
           UNCHANGED <<panel, builtin, suspended, before, quiet>>
    PROVE  Inv'
<1>1. call' = [call EXCEPT !.step = "try", !.target = id] /\ answer' = Nothing
  BY DEF TryOn
<1>2. /\ call' \in Calls /\ call'.step = "try" /\ call'.target = id
      /\ call'.device = call.device /\ call'.again = call.again
  BY <1>1 DEF Calls, Steps
<1>3. call' # Nothing /\ id # Nothing
  BY <1>2, BacklightsAssumption
<1>4. PanelCall'
  BY <1>2, <1>3 DEF PanelCall
<1> QED BY <1>1, <1>3, <1>4, GoesOn

\* The panel's id comes from the cache or from a scan.
LEMMA TargetKeeps == TypeOK /\ Inv /\ Target => Inv'
<1> SUFFICES ASSUME TypeOK, Inv, Target PROVE Inv'
  OBVIOUS
<1>1. call \in Calls /\ call # Nothing /\ answer = Nothing /\ PanelCall /\ call.step = "target"
  BY AtStep DEF Target, At
<1>2. UNCHANGED <<panel, builtin, suspended, before>>
  BY DEF Target, levels
<1>3. cached \in Ids \cup {Nothing} /\ builtin \in Ids \cup {Nothing}
  BY DEF TypeOK
<1>4. CASE cached # Nothing /\ TryOn(cached) /\ UNCHANGED <<cached, quiet>>
  <2>1. ~call.again
    BY <1>1, <1>4 DEF PanelCall
  <2> QED BY <1>1, <1>2, <1>3, <1>4, <2>1, TriesOn
<1>5. CASE cached = Nothing /\ cached' = builtin /\ builtin # Nothing /\ TryOn(builtin) /\ UNCHANGED quiet
  BY <1>1, <1>2, <1>3, <1>5, TriesOn
<1>6. CASE builtin = Nothing /\ HaveFailed /\ UNCHANGED quiet
  <2>1. ~quiet'
    BY <1>1, <1>6 DEF PanelCall
  <2> QED BY <1>1, <1>2, <1>6, <2>1, PanelFails
<1>7. CASE HaveFailed /\ quiet' = FALSE
  BY <1>1, <1>2, <1>7, PanelFails
<1> QED BY <1>4, <1>5, <1>6, <1>7 DEF Target

\* The second try fails only if something failed or changed; the first one
\* drops the id.
LEMMA TryFailsKeeps ==
    ASSUME call \in Calls, call # Nothing, PanelCall, answer = Nothing, call.step = "try", TryFails,
           call.target # builtin \/ ~quiet',
           quiet' => quiet, UNCHANGED <<panel, builtin, suspended, before>>
    PROVE  Inv'
<1>1. CASE call.again
  <2>1. ~quiet'
    BY <1>1 DEF PanelCall
  <2> QED BY <1>1, <2>1, PanelFails DEF TryFails
<1>2. CASE ~call.again
  <2>1. /\ cached' = Nothing /\ call' = [call EXCEPT !.step = "target", !.again = TRUE]
        /\ answer' = Nothing
    BY <1>2 DEF TryFails, Refresh, PanelCall
  <2>2. /\ call' \in Calls /\ call'.step = "target" /\ call'.again = TRUE
        /\ call'.device = call.device
    BY <2>1 DEF Calls, Steps
  <2>3. call' # Nothing
    BY <2>2, BacklightsAssumption
  <2>4. PanelCall'
    BY <2>1, <2>2 DEF PanelCall
  <2> QED BY <2>1, <2>3, <2>4, GoesOn
<1> QED BY <1>1, <1>2

\* A try of the panel's id, and the second chance after an error.
LEMMA TryKeeps == TypeOK /\ Inv /\ Try => Inv'
<1> SUFFICES ASSUME TypeOK, Inv, Try PROVE Inv'
  OBVIOUS
<1>1. call \in Calls /\ call # Nothing /\ answer = Nothing /\ PanelCall /\ call.step = "try"
  BY AtStep DEF Try, At
<1>2. UNCHANGED <<builtin, suspended, before>>
  BY DEF Try
<1>3. call.device = "panel" /\ suspended' = {} /\ panel = before[1]
  BY <1>1, <1>2 DEF PanelCall
<1>4. CASE call.op = "set" /\ panel' = call.want /\ HaveSet(TRUE)
  <2>1. /\ call' = Nothing /\ answer'.device = "panel" /\ answer'.want = call.want
        /\ answer'.result = "done"
    BY <1>1, <1>3, <1>4, SetGives
  <2> QED BY <1>3, <1>4, <2>1, PanelReturns
<1>5. CASE HaveRead(panel) /\ UNCHANGED <<panel, quiet>>
  <2>1. panel \in Levels \cup {Failed} /\ panel # Failed
    BY BacklightsAssumption DEF TypeOK, Failed
  <2>2. CASE /\ call' = Nothing /\ answer'.device = call.device /\ answer'.level = panel
             /\ answer'.result \in {"read", "already"}
    BY <1>3, <1>5, <2>2, PanelReturns
  <2>3. CASE call' = Begin(call.device, "set", 0) /\ answer' = answer
    BY <1>1, <1>2, <1>3, <1>5, <2>3, PanelSets DEF PanelCall
  <2> QED BY <1>1, <1>5, <2>1, <2>2, <2>3, ReadGives
<1>6. CASE call.target # builtin /\ TryFails /\ UNCHANGED <<panel, quiet>>
  BY <1>1, <1>2, <1>6, TryFailsKeeps
<1>7. CASE TryFails /\ quiet' = FALSE /\ UNCHANGED panel
  BY <1>1, <1>2, <1>7, TryFailsKeeps
<1> QED BY <1>4, <1>5, <1>6, <1>7 DEF Try

-----------------------------------------------------------------------------
(* The keyboard. *)

\* An error before anything was set.
LEMMA KeyboardFails ==
    ASSUME call \in Calls, call.device = "keyboard", answer = Nothing, keys = before[2],
           suspended' = {}, HaveFailed, ~quiet', UNCHANGED <<keys, before>>
    PROVE  Inv'
<1>1. CASE call' = Nothing /\ answer'.device = call.device /\ answer'.result = "failed"
  BY <1>1, KeyboardReturns
<1>2. CASE call' = Begin(call.device, "set", 0) /\ answer' = answer
  BY <1>2, KeyboardSets
<1> QED BY <1>1, <1>2, FailureGives

\* The client is asked for the keyboards.
LEMMA ClientKeeps == TypeOK /\ Inv /\ Client => Inv'
<1> SUFFICES ASSUME TypeOK, Inv, Client PROVE Inv'
  OBVIOUS
<1>1. /\ call \in Calls /\ call # Nothing /\ answer = Nothing /\ call.device = "keyboard"
      /\ ~call.again /\ keys = before[2] /\ suspended = {}
  BY AtStep DEF Client
<1>2. UNCHANGED <<keys, suspended, before, builtin, idle>>
  BY DEF Client, levels, shims
<1>3. CASE HaveFailed /\ quiet' = FALSE
  BY <1>1, <1>2, <1>3, KeyboardFails
<1>4. CASE /\ call.op = "set" /\ call' = [call EXCEPT !.step = "next", !.left = Keyboards]
           /\ UNCHANGED answer
  <2>1. /\ call' \in Calls /\ call'.step = "next" /\ call'.left = Keyboards
        /\ call'.device = call.device /\ call'.again = call.again /\ call'.op = call.op
    BY <1>1, <1>4 DEF Calls, Steps
  <2>2. Setting'
    BY <1>1, <1>2, <1>4, <2>1 DEF Setting
  <2> QED BY <1>1, <1>4, <2>1, <2>2, GoesOn, BacklightsAssumption DEF KeyboardCall
<1>5. ASSUME NEW first \in Keyboards, call.op # "set",
             call' = [call EXCEPT !.step = "wake", !.target = first], UNCHANGED answer
      PROVE  Inv'
  <2>1. /\ call' \in Calls /\ call'.step = "wake" /\ call'.target = first
        /\ call'.device = call.device /\ call'.again = call.again /\ call'.op = call.op
    BY <1>1, <1>5 DEF Calls, Steps
  <2>2. Reading'
    BY <1>1, <1>2, <1>5, <2>1 DEF Reading
  <2> QED BY <1>1, <1>5, <2>1, <2>2, GoesOn, BacklightsAssumption DEF KeyboardCall
<1>6. CASE /\ call' = [call EXCEPT !.step = IF call.op = "set" THEN "next" ELSE "wake",
                                   !.target = Default]
           /\ quiet' = FALSE /\ UNCHANGED answer
  <2>1. /\ call' \in Calls /\ call'.step = IF call.op = "set" THEN "next" ELSE "wake"
        /\ call'.target = Default
        /\ call'.device = call.device /\ call'.again = call.again /\ call'.op = call.op
    BY <1>1, <1>6, BacklightsAssumption DEF Calls, Steps
  <2>2. CASE call.op = "set"
    <3>1. Setting'
      BY <1>1, <1>2, <1>6, <2>1, <2>2 DEF Setting
    <3> QED BY <1>1, <1>6, <2>1, <3>1, GoesOn, BacklightsAssumption DEF KeyboardCall
  <2>3. CASE call.op # "set"
    <3>1. Reading'
      BY <1>1, <1>2, <1>6, <2>1, <2>3, BacklightsAssumption DEF Reading
    <3> QED BY <1>1, <1>6, <2>1, <3>1, GoesOn, BacklightsAssumption DEF KeyboardCall
  <2> QED BY <2>2, <2>3
<1> QED BY <1>3, <1>4, <1>5, <1>6 DEF Client

\* A keyboard that is dark for idleness is woken by the call that reads it.
LEMMA WakeKeeps == TypeOK /\ Inv /\ Wake => Inv'
<1> SUFFICES ASSUME TypeOK, Inv, Wake PROVE Inv'
  OBVIOUS
<1>1. /\ call \in Calls /\ call # Nothing /\ answer = Nothing /\ call.device = "keyboard"
      /\ Reading /\ call.step = "wake"
  BY AtStep DEF Wake, At
<1>2. UNCHANGED <<keys, before, idle, answer>>
  BY DEF Wake, levels
<1>3. suspended = {} /\ call.target \in Keyboards /\ call.op # "set" /\ keys = before[2]
  BY <1>1 DEF Reading
<1>4. /\ call' = [call EXCEPT !.step = "level", !.again = call.target \in idle \ suspended]
      /\ suspended' = IF call.target \in idle \ suspended THEN {call.target} ELSE {}
  BY <1>3 DEF Wake
<1>5. /\ call' \in Calls /\ call'.step = "level" /\ call'.target = call.target
      /\ call'.device = call.device /\ call'.op = call.op
      /\ call'.again = (call.target \in idle \ suspended)
  <2> DEFINE dimmed == call.target \in idle \ suspended
  <2>1. dimmed \in BOOLEAN
    OBVIOUS
  <2>2. call' = [call EXCEPT !.step = "level", !.again = dimmed]
    BY <1>4
  <2> HIDE DEF dimmed
  <2>3. /\ call' \in Calls /\ call'.step = "level" /\ call'.target = call.target
        /\ call'.device = call.device /\ call'.op = call.op
        /\ call'.again = dimmed
    BY <1>1, <2>1, <2>2 DEF Calls, Steps
  <2> QED BY <2>3 DEF dimmed
<1>6. /\ suspended' = IF call'.again THEN {call'.target} ELSE {}
      /\ call'.target \notin idle' \ suspended'
  <2>1. CASE call.target \in idle \ suspended
    <3>1. call'.again /\ suspended' = {call.target} /\ call'.target = call.target
      BY <1>4, <1>5, <2>1
    <3> QED BY <3>1
  <2>2. CASE call.target \notin idle \ suspended
    BY <1>2, <1>3, <1>4, <1>5, <2>2
  <2> QED BY <2>1, <2>2
<1>7. Reading'
  BY <1>2, <1>3, <1>5, <1>6 DEF Reading
<1> QED BY <1>1, <1>2, <1>5, <1>7, GoesOn, BacklightsAssumption DEF KeyboardCall

\* A keyboard's brightness is read.
LEMMA LevelKeeps == TypeOK /\ Inv /\ Level => Inv'
<1> SUFFICES ASSUME TypeOK, Inv, Level PROVE Inv'
  OBVIOUS
<1>1. /\ call \in Calls /\ call # Nothing /\ answer = Nothing /\ call.device = "keyboard"
      /\ Reading /\ call.step = "level"
  BY AtStep DEF Level, At
<1>2. /\ UNCHANGED <<keys, before, idle, answer, suspended, quiet>>
      /\ call' = [call EXCEPT !.step = "doze", !.level = Shown(call.target)]
  BY DEF Level, levels, shims
<1>3. call.target \in Keyboards /\ call.op # "set" /\ keys = before[2]
  BY <1>1 DEF Reading
<1>4. /\ Shown(call.target) \in Levels
      /\ quiet => Shown(call.target) = keys[call.target]
  <2>1. keys[call.target] \in Levels /\ 0 \in Levels
    BY <1>3, BacklightsAssumption DEF TypeOK
  <2>2. quiet => call.target \notin idle \ suspended
    BY <1>1 DEF Reading
  <2> QED BY <2>1, <2>2 DEF Shown
<1>5. /\ call' \in Calls /\ call'.step = "doze" /\ call'.target = call.target
      /\ call'.device = call.device /\ call'.op = call.op /\ call'.again = call.again
      /\ call'.level = Shown(call.target)
  BY <1>1, <1>2, <1>4 DEF Calls, Steps
<1>6. suspended' = IF call'.again THEN {call'.target} ELSE {}
  BY <1>1, <1>2, <1>5 DEF Reading
<1>7. Reading'
  BY <1>2, <1>3, <1>4, <1>5, <1>6 DEF Reading
<1> QED BY <1>1, <1>2, <1>5, <1>7, GoesOn, BacklightsAssumption DEF KeyboardCall

\* Idle dimming is on again when the read returns.
LEMMA DozeKeeps == TypeOK /\ Inv /\ Doze => Inv'
<1> SUFFICES ASSUME TypeOK, Inv, Doze PROVE Inv'
  OBVIOUS
<1>1. /\ call \in Calls /\ call # Nothing /\ answer = Nothing /\ call.device = "keyboard"
      /\ Reading /\ call.step = "doze"
  BY AtStep DEF Doze, At
<1>2. UNCHANGED <<keys, before, quiet>> /\ HaveRead(call.level)
  BY DEF Doze, levels
<1>3. /\ call.target \in Keyboards /\ call.level \in Levels /\ keys = before[2]
      /\ quiet => keys[call.target] = call.level
  BY <1>1 DEF Reading
<1>4. suspended' = {}
  BY <1>1 DEF Doze, Reading
<1>5. call.level # Failed
  BY <1>3, BacklightsAssumption DEF Failed
<1>6. CASE /\ call' = Nothing /\ answer'.device = call.device /\ answer'.level = call.level
           /\ answer'.result \in {"read", "already"}
  BY <1>1, <1>2, <1>3, <1>4, <1>6, KeyboardReturns
<1>7. CASE call' = Begin(call.device, "set", 0) /\ answer' = answer
  BY <1>1, <1>2, <1>3, <1>4, <1>7, KeyboardSets
<1> QED BY <1>1, <1>2, <1>3, <1>5, <1>6, <1>7, ReadGives

\* A keyboard is set.
LEMMA SetKeyboardKeeps ==
    ASSUME TypeOK, Inv, NEW k \in Keyboards, SetKeyboard(k)
    PROVE  Inv'
<1>1. /\ call \in Calls /\ call # Nothing /\ answer = Nothing /\ call.device = "keyboard"
      /\ Setting /\ call.step = "next"
  BY AtStep DEF SetKeyboard, At
<1>2. /\ UNCHANGED <<before, suspended, answer>> /\ k \in call.left
      /\ keys \in [Keyboards -> Levels]
  BY DEF SetKeyboard, TypeOK
<1>3. CASE /\ keys' = [keys EXCEPT ![k] = call.want] /\ UNCHANGED quiet
           /\ call' = [call EXCEPT !.left = @ \ {k}, !.again = TRUE]
  <2>1. /\ call' \in Calls /\ call'.step = "next" /\ call'.op = call.op /\ call'.again
        /\ call'.device = call.device /\ call'.want = call.want
        /\ call'.left = call.left \ {k}
    BY <1>1, <1>3 DEF Calls
  <2>2. keys'[k] = call.want /\ \A j \in Keyboards \ {k} : keys'[j] = keys[j]
    BY <1>2, <1>3
  <2>3. Setting'
    BY <1>1, <1>2, <1>3, <2>1, <2>2 DEF Setting
  <2> QED BY <1>1, <1>2, <2>1, <2>3, GoesOn, BacklightsAssumption DEF KeyboardCall
<1>4. CASE /\ call' = [call EXCEPT !.left = @ \ {k}] /\ quiet' = FALSE /\ UNCHANGED keys
  <2>1. /\ call' \in Calls /\ call'.step = "next" /\ call'.op = call.op
        /\ call'.again = call.again
        /\ call'.device = call.device /\ call'.want = call.want
    BY <1>1, <1>4 DEF Calls
  <2>2. Setting'
    BY <1>1, <1>2, <1>4, <2>1 DEF Setting
  <2> QED BY <1>1, <1>2, <2>1, <2>2, GoesOn, BacklightsAssumption DEF KeyboardCall
<1> QED BY <1>3, <1>4 DEF SetKeyboard

\* With every keyboard dealt with, quietly means that each was set.
LEMMA SetDefaultKeeps == TypeOK /\ Inv /\ SetDefault => Inv'
<1> SUFFICES ASSUME TypeOK, Inv, SetDefault PROVE Inv'
  OBVIOUS
<1>1. /\ call \in Calls /\ call # Nothing /\ answer = Nothing /\ call.device = "keyboard"
      /\ Setting /\ call.step = "next"
  BY AtStep DEF SetDefault, At
<1>2. /\ UNCHANGED <<before, suspended>> /\ call.left = {} /\ suspended = {}
      /\ keys \in [Keyboards -> Levels] /\ Default \in Keyboards
  BY <1>1, BacklightsAssumption DEF SetDefault, TypeOK, Setting
<1>3. CASE call.again /\ HaveSet(TRUE) /\ UNCHANGED <<keys, quiet>>
  <2>1. /\ call' = Nothing /\ answer'.device = "keyboard" /\ answer'.want = call.want
        /\ answer'.result = "done"
    BY <1>1, <1>3, SetGives
  <2>2. /\ \E k \in Keyboards : keys[k] = call.want
        /\ quiet => \A k \in Keyboards : keys[k] = call.want
    BY <1>1, <1>2, <1>3 DEF Setting
  <2> QED BY <1>2, <1>3, <2>1, <2>2, KeyboardReturns
<1>4. CASE /\ ~call.again /\ keys' = [keys EXCEPT ![Default] = call.want] /\ HaveSet(TRUE)
           /\ UNCHANGED quiet
  <2>1. /\ call' = Nothing /\ answer'.device = "keyboard" /\ answer'.want = call.want
        /\ answer'.result = "done"
    BY <1>1, <1>4, SetGives
  <2>2. keys'[Default] = call.want
    BY <1>2, <1>4
  <2>3. ~quiet
    BY <1>1, <1>2, <1>4 DEF Setting
  <2> QED BY <1>2, <1>4, <2>1, <2>2, <2>3, KeyboardReturns
<1>5. CASE ~call.again /\ HaveSet(FALSE) /\ quiet' = FALSE /\ UNCHANGED keys
  <2>1. /\ call' = Nothing /\ answer'.device = "keyboard" /\ answer'.result = "failed"
    BY <1>1, <1>5, SetGives
  <2>2. keys' = before'[2]
    BY <1>1, <1>2, <1>5 DEF Setting
  <2> QED BY <1>2, <2>1, <2>2, KeyboardReturns
<1> QED BY <1>3, <1>4, <1>5 DEF SetDefault

-----------------------------------------------------------------------------
(* Calls begin, and the world goes on. *)

\* A call begins.
LEMMA CallKeeps == TypeOK /\ Inv /\ Call => Inv'
<1> SUFFICES ASSUME TypeOK, Inv, Call PROVE Inv'
  OBVIOUS
<1>1. suspended = {} /\ answer' = Nothing /\ before' = levels
      /\ UNCHANGED <<levels, shims, builtin, idle>>
  BY DEF Call, Inv, AnswersTrue
<1>2. PICK device \in Devices, op \in Ops, level \in Levels :
         /\ call' = Begin(device, op, level)
         /\ quiet' = (device = "panel" => builtin # Nothing)
  BY DEF Call
<1>3. /\ call' # Nothing /\ call'.device = device /\ ~call'.again
      /\ call'.step = IF device = "panel" THEN "target" ELSE "client"
  BY <1>2, BeginIsCall
<1>4. suspended' = {} /\ panel' = before'[1] /\ keys' = before'[2]
  BY <1>1 DEF levels, shims
<1>5. CASE device = "panel"
  <2>1. PanelCall'
    BY <1>1, <1>2, <1>3, <1>4, <1>5 DEF PanelCall
  <2> QED BY <1>1, <1>3, <2>1, GoesOn
<1>6. CASE device = "keyboard"
  <2>1. KeyboardCall'
    BY <1>3, <1>4, <1>6 DEF KeyboardCall
  <2> QED BY <1>1, <1>3, <2>1, GoesOn
<1> QED BY <1>5, <1>6 DEF Devices

\* What the world does to a device during its call makes the call not quiet.
LEMMA WorldKeeps ==
    ASSUME Inv, UNCHANGED <<panel, keys, cached, suspended, call, answer, before>>,
           quiet' => quiet,
           quiet' /\ call # Nothing /\ call.device = "panel" => builtin' = builtin,
           quiet' /\ call # Nothing /\ call.device = "keyboard" => idle' \subseteq idle,
           answer # Nothing /\ quiet => quiet'
    PROVE  Inv'
<1>1. AnswersTrue' /\ StaleIdHealed'
  BY DEF Inv, AnswersTrue, StaleIdHealed, Returned
<1>2. CASE call = Nothing
  BY <1>1, <1>2 DEF Inv, CallInv
<1>3. CASE call # Nothing /\ PanelCall
  <2>1. PanelCall'
    BY <1>3 DEF PanelCall
  <2> QED BY <1>1, <1>3, <2>1 DEF Inv, CallInv
<1>4. CASE call # Nothing /\ KeyboardCall
  <2>1. call.device = "keyboard"
    BY <1>4 DEF KeyboardCall
  <2>2. Reading => Reading'
    BY <1>4, <2>1 DEF Reading
  <2>3. Setting => Setting'
    BY <1>4, <2>1 DEF Setting
  <2>4. KeyboardCall'
    BY <1>4, <2>2, <2>3 DEF KeyboardCall
  <2> QED BY <1>1, <1>4, <2>4 DEF Inv, CallInv
<1> QED BY <1>2, <1>3, <1>4 DEF Inv, CallInv

\* Every step of a call, of the displays and of the keyboards.
LEMMA NextInv == TypeOK /\ Inv /\ [Next]_vars => Inv'
<1> SUFFICES ASSUME TypeOK, Inv, [Next]_vars PROVE Inv'
  OBVIOUS
<1>1. CASE Reconfigure
  <2>1. /\ UNCHANGED <<panel, keys, cached, suspended, idle, call, answer, before>>
        /\ quiet' = (quiet /\ (call # Nothing => call.device # "panel"))
    BY <1>1 DEF Reconfigure, levels, shims
  <2>2. answer # Nothing => call = Nothing
    BY DEF Inv, CallInv
  <2> QED BY <2>1, <2>2, WorldKeeps
<1>2. ASSUME NEW k \in Keyboards, IdleDim(k) PROVE Inv'
  <2>1. /\ UNCHANGED <<panel, keys, cached, suspended, builtin, call, answer, before>>
        /\ quiet' = (quiet /\ (call # Nothing => call.device # "keyboard"))
    BY <1>2 DEF IdleDim, levels, shims
  <2>2. answer # Nothing => call = Nothing
    BY DEF Inv, CallInv
  <2> QED BY <2>1, <2>2, WorldKeeps
<1>3. CASE IdleEnds
  <2>1. /\ UNCHANGED <<panel, keys, cached, suspended, builtin, call, answer, before, quiet>>
        /\ idle' = {}
    BY <1>3 DEF IdleEnds, levels, shims
  <2> QED BY <2>1, WorldKeeps
<1>4. CASE User
  <2>1. call' = Nothing /\ answer' = Nothing /\ suspended' = {}
    BY <1>4 DEF User, shims, Inv, AnswersTrue
  <2> QED BY <2>1 DEF Inv, CallInv, AnswersTrue, StaleIdHealed, Returned
<1>5. CASE UNCHANGED vars
  <2>1. /\ UNCHANGED <<panel, keys, cached, suspended, builtin, idle, call, answer, before>>
        /\ UNCHANGED quiet
    BY <1>5 DEF vars, levels, shims
  <2> QED BY <2>1, WorldKeeps
<1> QED BY <1>1, <1>2, <1>3, <1>4, <1>5, CallKeeps, TargetKeeps, TryKeeps, ClientKeeps,
           WakeKeeps, LevelKeeps, DozeKeeps, SetKeyboardKeeps, SetDefaultKeeps DEF Next, Calling

-----------------------------------------------------------------------------
(* Types. *)

\* What a call leaves in call and answer.
Outcome == call' \in Calls \cup {Nothing} /\ answer' \in Answers \cup {Nothing}

\* After a read: the level is the answer, or the set of disable follows.
LEMMA ReadOutcome ==
    ASSUME call \in Calls, answer \in Answers \cup {Nothing}, NEW level \in Levels \cup {Failed},
           HaveRead(level)
    PROVE  Outcome
<1>1. call.device \in Devices /\ "set" \in Ops /\ 0 \in Levels
  BY BacklightsAssumption DEF Calls, Ops
<1> QED BY <1>1, ReadGives, BeginIsCall DEF Outcome

\* After an error, which disable takes for a lit device when it was a read.
LEMMA FailureOutcome ==
    ASSUME call \in Calls, answer \in Answers \cup {Nothing}, HaveFailed
    PROVE  Outcome
<1>1. CASE call.op = "set"
  BY <1>1, SetGives DEF HaveFailed, Outcome
<1>2. CASE call.op # "set"
  BY <1>2, ReadOutcome DEF HaveFailed
<1> QED BY <1>1, <1>2

\* After a set.
LEMMA SetOutcome ==
    ASSUME call \in Calls, NEW done \in BOOLEAN, HaveSet(done)
    PROVE  Outcome
  BY SetGives DEF Outcome

\* Every step of a call.
LEMMA CallingOutcome == TypeOK /\ Inv /\ Calling => Outcome
<1> SUFFICES ASSUME TypeOK, Inv, Calling PROVE Outcome
  OBVIOUS
<1>1. /\ call \in Calls /\ answer \in Answers \cup {Nothing}
      /\ panel \in Levels /\ cached \in Ids \cup {Nothing} /\ builtin \in Ids \cup {Nothing}
  BY DEF TypeOK, Calling, Target, Try, Client, Wake, Level, Doze, SetKeyboard, SetDefault, At
<1>2. CASE Target
  <2>1. CASE HaveFailed
    BY <1>1, <2>1, FailureOutcome
  <2>2. ASSUME NEW id \in Ids, TryOn(id) PROVE Outcome
    BY <1>1, <2>2 DEF TryOn, Calls, Steps, Outcome
  <2> QED BY <1>1, <1>2, <2>1, <2>2 DEF Target
<1>3. CASE Try
  <2>1. CASE TryFails
    <3>1. CASE HaveFailed
      BY <1>1, <3>1, FailureOutcome
    <3>2. CASE Refresh
      BY <1>1, <3>2 DEF Refresh, Calls, Steps, Outcome
    <3> QED BY <2>1, <3>1, <3>2 DEF TryFails
  <2>2. CASE HaveSet(TRUE)
    BY <1>1, <2>2, SetOutcome
  <2>3. CASE HaveRead(panel)
    BY <1>1, <2>3, ReadOutcome
  <2> QED BY <1>3, <2>1, <2>2, <2>3 DEF Try
<1>4. CASE Client
  <2>1. CASE HaveFailed
    BY <1>1, <2>1, FailureOutcome
  <2>2. ASSUME NEW step \in Steps, NEW target \in Keyboards, answer' = answer,
               call' = [call EXCEPT !.step = step, !.target = target]
        PROVE  Outcome
    BY <1>1, <2>2 DEF Calls, Outcome
  <2>3. CASE call' = [call EXCEPT !.step = "next", !.left = Keyboards] /\ answer' = answer
    BY <1>1, <2>3 DEF Calls, Steps, Outcome
  <2>4. (IF call.op = "set" THEN "next" ELSE "wake") \in Steps /\ "wake" \in Steps
    BY DEF Steps
  <2> QED BY <1>4, <2>1, <2>2, <2>3, <2>4, BacklightsAssumption DEF Client
<1>5. CASE Wake
  <2> DEFINE dimmed == call.target \in idle \ suspended
  <2>1. dimmed \in BOOLEAN
    OBVIOUS
  <2>2. call' = [call EXCEPT !.step = "level", !.again = dimmed] /\ answer' = answer
    BY <1>5 DEF Wake
  <2> HIDE DEF dimmed
  <2> QED BY <1>1, <2>1, <2>2 DEF Calls, Steps, Outcome
<1>6. CASE Level
  <2>1. Shown(call.target) \in Levels
    <3>1. call.target \in Keyboards
      BY <1>6, AtStep DEF Level, Reading
    <3> QED BY <3>1, BacklightsAssumption DEF TypeOK, Shown
  <2> QED BY <1>1, <1>6, <2>1 DEF Level, Calls, Steps, Outcome
<1>7. CASE Doze
  <2>1. call.level \in Levels \cup {Failed}
    BY <1>1 DEF Calls
  <2> QED BY <1>1, <1>7, <2>1, ReadOutcome DEF Doze
<1>8. ASSUME NEW k \in Keyboards, SetKeyboard(k) PROVE Outcome
  <2>1. answer' = answer /\ \/ call' = [call EXCEPT !.left = @ \ {k}, !.again = TRUE]
                            \/ call' = [call EXCEPT !.left = @ \ {k}]
    BY <1>8 DEF SetKeyboard
  <2> QED BY <1>1, <2>1 DEF Calls, Outcome
<1>9. CASE SetDefault
  BY <1>1, <1>9, SetOutcome DEF SetDefault
<1> QED BY <1>2, <1>3, <1>4, <1>5, <1>6, <1>7, <1>8, <1>9 DEF Calling

\* The types of the devices.
LEMMA CallingTypes == TypeOK /\ Inv /\ Calling => TypeOK'
<1> SUFFICES ASSUME TypeOK, Inv, Calling PROVE TypeOK'
  OBVIOUS
<1>1. Outcome /\ call \in Calls /\ call.want \in Levels
  BY CallingOutcome
     DEF TypeOK, Calling, Target, Try, Client, Wake, Level, Doze, SetKeyboard, SetDefault, At, Calls
<1>2. UNCHANGED <<builtin, idle, before>>
  BY DEF Calling, Target, Try, Client, Wake, Level, Doze, SetKeyboard, SetDefault
<1>3. panel' \in Levels
  BY <1>1 DEF TypeOK, Calling, Target, Try, Client, Wake, Level, Doze, SetKeyboard, SetDefault, levels
<1>4. keys' \in [Keyboards -> Levels]
  BY <1>1 DEF TypeOK, Calling, Target, Try, Client, Wake, Level, Doze, SetKeyboard, SetDefault, levels
<1>5. cached' \in Ids \cup {Nothing}
  BY DEF TypeOK, Calling, Target, Try, TryFails, Refresh, Client, Wake, Level, Doze, SetKeyboard,
         SetDefault, shims
<1>6. suspended' \in SUBSET Keyboards
  <2>1. CASE Wake
    <3>1. call.target \in Keyboards
      BY <2>1, AtStep DEF Wake, Reading
    <3> QED BY <2>1, <3>1 DEF Wake, TypeOK
  <2>2. CASE Doze
    BY <2>2 DEF Doze, TypeOK
  <2> QED BY <2>1, <2>2 DEF TypeOK, Calling, Target, Try, Client, Level, SetKeyboard, SetDefault,
                            shims
<1>7. auto' \in SUBSET Keyboards
  BY DEF TypeOK, Calling, Target, Try, Client, Wake, Level, Doze, SetKeyboard, SetDefault, shims
<1>8. quiet' \in BOOLEAN
  BY DEF TypeOK, Calling, Target, Try, Client, Wake, Level, Doze, SetKeyboard, SetDefault
<1> QED BY <1>1, <1>2, <1>3, <1>4, <1>5, <1>6, <1>7, <1>8 DEF TypeOK, Outcome

\* Every step keeps the types.
LEMMA NextTypes == TypeOK /\ Inv /\ [Next]_vars => TypeOK'
<1> SUFFICES ASSUME TypeOK, Inv, [Next]_vars PROVE TypeOK'
  OBVIOUS
<1>1. CASE Call
  <2>1. PICK device \in Devices, op \in Ops, level \in Levels :
           /\ call' = Begin(device, op, level)
           /\ quiet' = (device = "panel" => builtin # Nothing)
    BY <1>1 DEF Call
  <2>2. call' \in Calls /\ quiet' \in BOOLEAN
    BY <2>1, BeginIsCall
  <2>3. before' \in Levels \X [Keyboards -> Levels]
    BY <1>1 DEF Call, levels, TypeOK
  <2> QED BY <1>1, <2>2, <2>3 DEF Call, levels, shims, TypeOK
<1>2. CASE Reconfigure
  <2>1. quiet' \in BOOLEAN
    BY <1>2 DEF Reconfigure
  <2>2. builtin' \in Ids \cup {Nothing}
    BY <1>2 DEF Reconfigure
  <2> QED BY <1>2, <2>1, <2>2 DEF Reconfigure, levels, shims, TypeOK
<1>3. ASSUME NEW k \in Keyboards, IdleDim(k) PROVE TypeOK'
  <2>1. quiet' \in BOOLEAN
    BY <1>3 DEF IdleDim
  <2>2. idle' \in SUBSET Keyboards
    BY <1>3 DEF IdleDim, TypeOK
  <2> QED BY <1>3, <2>1, <2>2 DEF IdleDim, levels, shims, TypeOK
<1>4. CASE IdleEnds
  BY <1>4 DEF IdleEnds, levels, shims, TypeOK
<1>5. CASE User
  BY <1>5 DEF User, shims, TypeOK
<1>6. CASE UNCHANGED vars
  BY <1>6 DEF vars, levels, shims, TypeOK
<1> QED BY <1>1, <1>2, <1>3, <1>4, <1>5, <1>6, CallingTypes DEF Next

\* At first no call has been made.
LEMMA InitInv == Init => TypeOK /\ Inv
<1> SUFFICES ASSUME Init PROVE TypeOK /\ Inv
  OBVIOUS
<1>1. TypeOK
  BY DEF Init, levels, TypeOK
<1>2. Inv
  BY DEF Init, Inv, CallInv, AnswersTrue, StaleIdHealed, Returned
<1> QED BY <1>1, <1>2

\* The types of the devices, the shims, the call and its answer.
THEOREM TypeCorrect == Spec => []TypeOK
  BY InitInv, NextInv, NextTypes, PTL DEF Spec

\* What a call answers is what it did, whatever fails and whatever the user,
\* the system and the built-in display do meanwhile.
THEOREM AnswersAreTrue == Spec => []AnswersTrue
<1>1. Inv => AnswersTrue
  BY DEF Inv
<1> QED BY <1>1, InitInv, NextInv, NextTypes, PTL DEF Spec

\* A stale id costs one try, never the call.
THEOREM StaleIdHeals == Spec => []StaleIdHealed
<1>1. Inv => StaleIdHealed
  BY DEF Inv
<1> QED BY <1>1, InitInv, NextInv, NextTypes, PTL DEF Spec
=============================================================================
