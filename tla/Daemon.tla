------------------------------- MODULE Daemon -------------------------------
(***************************************************************************)
(* The lidoff daemon: the monitor thread of monitor.rs, the power observer *)
(* thread that calls handle_will_sleep and handle_did_wake, the devices    *)
(* the effects drive, the recovery file, and what the world does to them:  *)
(* the lid, the user, system sleep, device faults, signals and crashes.    *)
(*                                                                         *)
(* A thread's position is the list of steps it still has to take in the    *)
(* function it is in, todo[t], written down once per function in program   *)
(* order.  A step is one device operation with the MonitorState update     *)
(* that follows it: these run under EFFECTS_LOCK and touch no field the    *)
(* other thread writes.  What the other thread can see between two device  *)
(* operations, between reading the lid and deciding, between taking and    *)
(* returning the external state, and between snapshot, truncation and      *)
(* write of the recovery file is a state of its own.                       *)
(***************************************************************************)
EXTENDS LidTransitions, Sequences, FiniteSets

CONSTANTS
    Levels,        \* brightness of panel and keyboard, 0 is dark
    Displays,      \* external display ids
    Environment,   \* which of EnvironmentKinds can happen
    Torn,          \* a recovery file that was truncated and not written
    Garbled        \* one with bytes of a write that failed: neither decodes

\* What the world may do: user and power events, process death, and one kind
\* of failure per fallible call.
EnvironmentKinds ==
    { "user", "relight", "hotplug", "sleep", "signal", "crash", "calm",
      "observer", "disk",
      "panelRead", "panelSet", "keysRead", "keysSet",
      "externalList", "externalDisable", "externalRestore",
      "cursorLock", "cursorUnlock", "caffeinateStart", "caffeinateStop" }

Option(S) == S \cup {Nothing}

SavedState == [ internal : Option(Levels),
                external : Option(SUBSET Displays),
                keyboard : Option(Levels) ]

ASSUME DaemonAssumption ==
    /\ Levels \subseteq Nat /\ 0 \in Levels
    /\ Environment \subseteq EnvironmentKinds
    /\ (\A ids \in SUBSET Displays : ids # Nothing) /\ Nothing \notin {"monitor", "power"}
    /\ SavedState \cap {Nothing, Torn, Garbled} = {}

VARIABLES
    \* memory of the process
    policy,        \* the fields of MonitorState LidTransitions decides on
    saved,         \* internal, external and keyboard display state
    lastNonzero,   \* last_nonzero_brightness, 0 for the initial -1.0
    caffeinate,    \* caffeinate_active, and the assertion it mirrors
    externalFlag,  \* EXTERNAL_DISPLAYS_DISABLED
    cursorLocked,  \* cursorLocked of cursor.c
    taken,         \* saved_state of restore_external_display_state
    shouldRun,     \* SHOULD_RUN
    effects,       \* the thread holding EFFECTS_LOCK, or Nothing
    todo,          \* the steps left to each thread
    angle,         \* the angle the monitor read and has not decided on
    changed,       \* `changed` of resume_partial_dim
    image,         \* the snapshot each thread is persisting
    alive,         \* whether the process exists
    \* the machine
    file,          \* the recovery file
    panel, keys,   \* brightness of the built-in panel and of the keyboard
    plugged, dark, \* external displays connected, and disabled by lidoff
    frozen,        \* mouse and cursor disassociated
    lid,           \* angle of the lid
    power,         \* system power state
    calm,          \* from here on nothing fails and nothing interrupts
    \* what was true before lidoff touched anything
    chosenPanel, chosenKeys,
    unsavedDim,    \* the keyboard was dimmed with nothing saved for it
    custody        \* whether the file knows what was dimmed, see Custodies

deviceVars  == <<panel, keys, plugged, dark, frozen>>
savedVars   == <<saved, lastNonzero, taken>>
flagVars    == <<caffeinate, externalFlag, cursorLocked>>
loopVars    == <<angle, changed, shouldRun, alive>>
fileVars    == <<file, image>>
worldVars   == <<lid, power, calm>>
ghostVars   == <<chosenPanel, chosenKeys, unsavedDim, custody>>

vars == << policy, effects, todo, deviceVars, savedVars, flagVars, loopVars,
           fileVars, worldVars, ghostVars >>

Threads == {"monitor", "power"}

NothingSaved == [internal |-> Nothing, external |-> Nothing, keyboard |-> Nothing]

PowerStates == {"awake", "leaving", "asleep", "waking"}

\* "onDisk": what is dimmed is in the recovery file.  "inMemory": it is on its
\* way there.  "lost": the process was killed in the middle of an action before
\* it got there.
Custodies == {"onDisk", "inMemory", "lost"}

-----------------------------------------------------------------------------
(* Functions as lists of steps, in program order. *)

\* Variant: the cursor is not reconnected.
RestoreEffectsWithoutCursor ==
    << "takeExternal", "restoreExternal", "restoreKeys", "restorePanel", "stopCaffeinate" >>

\* restore_display_state_locked, clear_internal_after_restore = TRUE
RestoreEffects ==
    << "unlockCursor", "takeExternal", "restoreExternal", "restoreKeys",
       "restorePanel", "stopCaffeinate" >>

\* restore_display_state_locked, clear_internal_after_restore = FALSE
KeepEffects ==
    << "unlockCursor", "takeExternal", "restoreExternal", "restoreKeys",
       "relightPanel", "stopCaffeinate" >>

\* Variant: the caffeinate session outlives the close.
PrepareEffectsCaffeinated == << "unlockCursor", "relightKeys", "relightPanel" >>

\* prepare_display_state_for_sleep_locked
PrepareEffects == << "unlockCursor", "relightKeys", "relightPanel", "stopCaffeinate" >>

Persist == << "snapshot", "persist" >>

\* execute_monitor_action persists before it gives EFFECTS_LOCK back,
\* the other callers after.
Inside(steps)  == << "acquire" >> \o steps \o Persist \o << "release" >>
Outside(steps) == << "acquire" >> \o steps \o << "release" >> \o Persist

\* Variants: nothing is persisted; the panel is dimmed before it is read.
StartStepsUnpersisted ==
    << "acquire", "readPanel", "dimPanel", "captureKeys", "captureExternal",
       "startCaffeinate", "lockCursor", "release" >>
StartStepsDimmingFirst ==
    << "acquire", "dimPanel", "readPanel", "captureKeys", "captureExternal",
       "startCaffeinate", "snapshot", "persist", "lockCursor", "release" >>

\* start_partial_dim
StartSteps ==
    << "acquire", "readPanel", "dimPanel", "captureKeys", "captureExternal",
       "startCaffeinate", "snapshot", "persist", "lockCursor", "release" >>

\* resume_partial_dim
ResumeSteps ==
    << "acquire", "redimPanel", "redimKeys", "lockCursor", "recaptureExternal",
       "startCaffeinate", "persistIfChanged" >>

\* What is left of either after its panel could not be dimmed.
ForgetSteps == Persist \o << "release" >>

ActionSteps(action) ==
    CASE action = "none"        -> << >>
      [] action = "restore"     -> Inside(RestoreEffects)
      [] action = "restoreKeep" -> Inside(KeepEffects)
      [] action = "prepare"     -> Inside(PrepareEffects)
      [] action = "resume"      -> ResumeSteps
      [] action = "start"       -> StartSteps

DeviceSteps ==
    { "unlockCursor", "takeExternal", "restoreExternal", "restoreKeys", "relightKeys",
      "restorePanel", "relightPanel", "stopCaffeinate",
      "readPanel", "dimPanel", "redimPanel", "captureKeys", "redimKeys",
      "captureExternal", "recaptureExternal", "startCaffeinate", "lockCursor" }

Steps ==
    DeviceSteps \cup
    { "acquire", "release", "persistIfChanged", "snapshot", "persist", "write",
      "relock", "load", "observe", "exit", "allow" }

\* Variants: what was restored stays in the file; nobody locks; nobody answers.
RecoverStepsUnpersisted  == << "acquire" >> \o RestoreEffects \o << "release", "observe" >>
ShutdownStepsUnpersisted == << "acquire" >> \o RestoreEffects \o << "release", "exit" >>
SleepStepsUnlocked       == PrepareEffects \o Persist \o << "allow" >>
SleepStepsUnanswered     == Outside(PrepareEffects)

BootSteps     == << "load" >>
RecoverSteps  == Outside(RestoreEffects) \o << "observe" >>
ShutdownSteps == Outside(RestoreEffects) \o << "exit" >>
SleepSteps    == Outside(PrepareEffects) \o << "allow" >>

-----------------------------------------------------------------------------
(* Stepping. *)

At(t, step) == todo[t] # << >> /\ Head(todo[t]) = step

Continue(t, steps) == todo' = [todo EXCEPT ![t] = steps]

Done(t) == Continue(t, Tail(todo[t]))

\* The world does this now.
May(kind) == kind \in Environment /\ ~calm

\* The monitor thread is in the sleep or the sensor read of its loop.
Resting == alive /\ todo["monitor"] = << >>

\* recover_state_if_needed and observer.start: no power callbacks yet.
Booting == \E step \in {"load", "observe"} :
              \E i \in DOMAIN todo["monitor"] : todo["monitor"][i] = step

Observing == alive /\ ~Booting

\* Blocked in handle_keyboard_backlight_disable_result on the state mutex its
\* caller still holds; from then on nobody gets that mutex.
Relocked == At("monitor", "relock")

Online == plugged \ dark

Pending ==
    { name \in {"internal", "external", "keyboard"} : saved[name] # Nothing }
        \cup (IF caffeinate THEN {"caffeinate"} ELSE {})

\* Variant: the external displays are not decoded.
FileContentsWithoutExternal ==
    IF file \in {Torn, Garbled} THEN NothingSaved ELSE [file EXCEPT !.external = Nothing]

\* What recovery_state::load makes of the file.
FileContents == IF file \in {Torn, Garbled} THEN NothingSaved ELSE file

\* What lidoff will still restore: the process's state, or without a process
\* what the next one will load.
Owed == IF alive /\ ~At("monitor", "load") THEN saved ELSE FileContents

\* A device was dimmed, or the file emptied: only memory knows what is owed.
Unsaved == custody' = IF custody = "lost" THEN "lost" ELSE "inMemory"

Init ==
    /\ policy = NewPolicy
    /\ saved = NothingSaved /\ lastNonzero = 0 /\ taken = Nothing
    /\ caffeinate = FALSE /\ externalFlag = FALSE /\ cursorLocked = FALSE
    /\ angle = Nothing /\ changed = FALSE /\ shouldRun = TRUE
    /\ alive = FALSE
    /\ effects = Nothing
    /\ todo = [t \in Threads |-> << >>]
    /\ file = NothingSaved /\ image = [t \in Threads |-> NothingSaved]
    /\ panel \in Levels /\ keys \in Levels
    /\ plugged = Displays /\ dark = {} /\ frozen = FALSE
    /\ lid \in Angles /\ power = "awake" /\ calm = FALSE
    /\ chosenPanel = panel /\ chosenKeys = keys /\ unsavedDim = FALSE
    /\ custody = "onDisk"

-----------------------------------------------------------------------------
(* EFFECTS_LOCK.  With it the monitor leaves the function that has `changed`. *)

Acquire(t) ==
    /\ At(t, "acquire")
    /\ effects = Nothing
    /\ effects' = t
    /\ Done(t)
    /\ UNCHANGED << policy, deviceVars, savedVars, flagVars, loopVars, fileVars,
                    worldVars, ghostVars >>

Release(t) ==
    /\ At(t, "release")
    /\ effects' = Nothing
    /\ Done(t)
    /\ changed' = IF t = "monitor" THEN FALSE ELSE changed
    /\ UNCHANGED << policy, deviceVars, savedVars, flagVars, angle, shouldRun, alive,
                    fileVars, worldVars, ghostVars >>

-----------------------------------------------------------------------------
(* Restoring and preparing for sleep.  A failed restore keeps what it owes. *)

\* The cursor is reconnected whatever cursorLocked says.
UnlockCursor(t) ==
    /\ At(t, "unlockCursor")
    /\ Done(t)
    /\ \/ frozen' = FALSE /\ cursorLocked' = FALSE
       \/ May("cursorUnlock") /\ UNCHANGED <<frozen, cursorLocked>>
    /\ UNCHANGED << policy, effects, panel, keys, plugged, dark, savedVars,
                    caffeinate, externalFlag, loopVars, fileVars, worldVars, ghostVars >>

\* The saved external state is moved out of MonitorState while it is restored.
TakeExternal ==
    /\ At("monitor", "takeExternal")
    /\ taken' = saved.external
    /\ saved' = [saved EXCEPT !.external = Nothing]
    /\ Done("monitor")
    /\ UNCHANGED << policy, effects, deviceVars, lastNonzero, flagVars, loopVars,
                    fileVars, worldVars, ghostVars >>

\* Variant: an incomplete restore forgets the displays.
ExternalForgotten(back) == saved.external

\* Unless all displays are back the whole list is put back.
ExternalAfter(back) == IF back = taken THEN saved.external ELSE taken

\* `back` are the displays enabled again; one that is unplugged may count
\* either way.
RestoreExternal ==
    /\ At("monitor", "restoreExternal")
    /\ Done("monitor")
    /\ \/ /\ taken # Nothing
          /\ \E back \in SUBSET taken :
                /\ ~May("externalRestore") => taken \cap plugged \subseteq back
                /\ dark' = dark \ back
                /\ saved' = [saved EXCEPT !.external = ExternalAfter(back)]
          /\ taken' = Nothing
          /\ externalFlag' = FALSE
       \/ /\ taken = Nothing
          /\ UNCHANGED <<dark, saved, taken, externalFlag>>
    /\ UNCHANGED << policy, effects, panel, keys, plugged, frozen, lastNonzero,
                    caffeinate, cursorLocked, loopVars, fileVars, worldVars, ghostVars >>

\* "restoreKeys" clears the saved state, "relightKeys" keeps it.
RestoreKeys(t) ==
    /\ At(t, "restoreKeys") \/ At(t, "relightKeys")
    /\ Done(t)
    /\ \/ /\ saved.keyboard # Nothing
          /\ keys' = saved.keyboard
          /\ saved' = IF At(t, "restoreKeys")
                      THEN [saved EXCEPT !.keyboard = Nothing] ELSE saved
       \/ /\ saved.keyboard = Nothing \/ May("keysSet")
          /\ UNCHANGED <<keys, saved>>
    /\ UNCHANGED << policy, effects, panel, plugged, dark, frozen, lastNonzero, taken,
                    flagVars, loopVars, fileVars, worldVars, ghostVars >>

\* "restorePanel" clears the saved state, "relightPanel" keeps it.
RestorePanel(t) ==
    /\ At(t, "restorePanel") \/ At(t, "relightPanel")
    /\ Done(t)
    /\ \/ /\ saved.internal # Nothing
          /\ panel' = saved.internal
          /\ lastNonzero' = saved.internal
          /\ saved' = IF At(t, "restorePanel")
                      THEN [saved EXCEPT !.internal = Nothing] ELSE saved
       \/ /\ saved.internal = Nothing \/ May("panelSet")
          /\ UNCHANGED <<panel, lastNonzero, saved>>
    /\ UNCHANGED << policy, effects, keys, plugged, dark, frozen, taken, flagVars,
                    loopVars, fileVars, worldVars, ghostVars >>

StopCaffeinate(t) ==
    /\ At(t, "stopCaffeinate")
    /\ Done(t)
    /\ \/ caffeinate' = FALSE
       \/ May("caffeinateStop") /\ UNCHANGED caffeinate
    /\ UNCHANGED << policy, effects, deviceVars, savedVars, externalFlag, cursorLocked,
                    loopVars, fileVars, worldVars, ghostVars >>

-----------------------------------------------------------------------------
(* Dimming, for the first time (start_partial_dim) and again (resume). *)

\* Variant: the last brightness seen goes before the current one.
SnapshotOfTheLast == IF lastNonzero > 0 THEN lastNonzero ELSE panel

\* brightness_snapshot_for_dim: a panel that is already dark is restored to
\* the last brightness seen.
SnapshotForDim == IF panel > 0 THEN panel ELSE lastNonzero

ReadPanel ==
    /\ At("monitor", "readPanel")
    /\ \/ /\ saved' = IF saved.internal = Nothing
                      THEN [saved EXCEPT !.internal = SnapshotForDim] ELSE saved
          /\ lastNonzero' = IF saved.internal = Nothing THEN SnapshotForDim ELSE lastNonzero
          /\ Done("monitor")
       \/ /\ May("panelRead")
          /\ Continue("monitor", <<"release">>)
          /\ UNCHANGED <<saved, lastNonzero>>
    /\ UNCHANGED << policy, effects, deviceVars, taken, flagVars, loopVars, fileVars,
                    worldVars, ghostVars >>

\* clear_pending_display_state and the early return.
ForgetPending ==
    /\ saved' = NothingSaved
    /\ Continue("monitor", ForgetSteps)

DimPanel ==
    /\ At("monitor", "dimPanel")
    /\ \/ /\ panel' = 0
          /\ Unsaved
          /\ Done("monitor")
          /\ UNCHANGED saved
       \/ /\ panel # 0 /\ May("panelSet")
          /\ ForgetPending
          /\ UNCHANGED <<panel, custody>>
    /\ UNCHANGED << policy, effects, keys, plugged, dark, frozen, lastNonzero, taken,
                    flagVars, loopVars, fileVars, worldVars, chosenPanel, chosenKeys, unsavedDim >>

\* A failed read counts as a lit panel.
RedimPanel ==
    /\ At("monitor", "redimPanel")
    /\ \/ /\ panel = 0
          /\ Done("monitor")
          /\ UNCHANGED <<panel, changed, saved, custody>>
       \/ /\ panel # 0 \/ May("panelRead")
          /\ panel' = 0
          /\ changed' = TRUE
          /\ Unsaved
          /\ Done("monitor")
          /\ UNCHANGED saved
       \/ /\ panel # 0 \/ May("panelRead")
          /\ May("panelSet")
          /\ ForgetPending
          /\ UNCHANGED <<panel, changed, custody>>
    /\ UNCHANGED << policy, effects, keys, plugged, dark, frozen, lastNonzero, taken,
                    flagVars, angle, shouldRun, alive, fileVars, worldVars,
                    chosenPanel, chosenKeys, unsavedDim >>

\* The guard taken to store the state lives until the function returns, so the
\* failure path locks the state mutex a second time and never comes back.
\* StartPartialDim is chosen without a saved keyboard state and nothing sets
\* one before this step.
CaptureKeys ==
    /\ At("monitor", "captureKeys")
    /\ \/ /\ saved' = [saved EXCEPT !.keyboard = keys]
          /\ keys' = 0
          /\ Unsaved
          /\ Done("monitor")
       \/ /\ keys # 0 /\ May("keysSet")
          /\ saved' = [saved EXCEPT !.keyboard = keys]
          /\ Continue("monitor", <<"relock">>)
          /\ UNCHANGED <<keys, custody>>
       \/ /\ May("keysRead")
          /\ Done("monitor")
          /\ UNCHANGED <<saved, keys, custody>>
    /\ UNCHANGED << policy, effects, panel, plugged, dark, frozen, lastNonzero, taken,
                    flagVars, loopVars, fileVars, worldVars, chosenPanel, chosenKeys, unsavedDim >>

\* disable_keyboard_backlight saves nothing before it dims, and forgets the
\* saved state when it cannot dim.
RedimKeys ==
    /\ At("monitor", "redimKeys")
    /\ Done("monitor")
    /\ \/ /\ keys = 0
          /\ UNCHANGED <<keys, changed, saved, unsavedDim, custody>>
       \/ /\ keys # 0 \/ May("keysRead")
          /\ keys' = 0
          /\ changed' = TRUE
          /\ Unsaved
          /\ unsavedDim' = (unsavedDim \/ saved.keyboard = Nothing)
          /\ UNCHANGED saved
       \/ /\ keys # 0 \/ May("keysRead")
          /\ May("keysSet")
          /\ saved' = [saved EXCEPT !.keyboard = Nothing]
          /\ UNCHANGED <<keys, changed, unsavedDim, custody>>
    /\ UNCHANGED << policy, effects, panel, plugged, dark, frozen, lastNonzero, taken,
                    flagVars, angle, shouldRun, alive, fileVars, worldVars,
                    chosenPanel, chosenKeys >>

\* Every online external display is disabled unless its call, or the commit of
\* all of them, fails; a list or prepare failure disables none.
DisableExternal(disabled) ==
    /\ ~May("externalDisable") => disabled = Online
    /\ dark' = dark \cup disabled
    /\ externalFlag' = (disabled # {})
    /\ Unsaved

\* capture_and_disable_external_display_state.  With a state left over from an
\* incomplete restore the displays are disabled and not written down.
CaptureExternal ==
    /\ At("monitor", "captureExternal")
    /\ Done("monitor")
    /\ \/ /\ ~externalFlag
          /\ \E disabled \in SUBSET Online :
                /\ DisableExternal(disabled)
                /\ saved' = IF saved.external = Nothing
                            THEN [saved EXCEPT !.external = disabled] ELSE saved
       \/ /\ externalFlag \/ May("externalList")
          /\ UNCHANGED <<dark, externalFlag, saved, custody>>
    /\ UNCHANGED << policy, effects, panel, keys, plugged, frozen, lastNonzero, taken,
                    caffeinate, cursorLocked, loopVars, fileVars, worldVars,
                    chosenPanel, chosenKeys, unsavedDim >>

\* Resuming leaves displays alone once there is a saved state; a capture that
\* was not complete does not count as a change.
RecaptureExternal ==
    /\ At("monitor", "recaptureExternal")
    /\ Done("monitor")
    /\ \/ /\ saved.external = Nothing /\ ~externalFlag
          /\ \E disabled \in SUBSET Online :
                /\ DisableExternal(disabled)
                /\ saved' = [saved EXCEPT !.external = disabled]
                /\ changed' = (changed \/ disabled = Online)
       \/ /\ saved.external # Nothing \/ externalFlag \/ May("externalList")
          /\ UNCHANGED <<dark, externalFlag, saved, changed, custody>>
    /\ UNCHANGED << policy, effects, panel, keys, plugged, frozen, lastNonzero, taken,
                    caffeinate, cursorLocked, angle, shouldRun, alive, fileVars,
                    worldVars, chosenPanel, chosenKeys, unsavedDim >>

StartCaffeinate ==
    /\ At("monitor", "startCaffeinate")
    /\ Done("monitor")
    /\ \/ /\ caffeinate' = TRUE
          /\ changed' = (changed \/ ~caffeinate)
       \/ /\ ~caffeinate /\ May("caffeinateStart")
          /\ UNCHANGED <<caffeinate, changed>>
    /\ UNCHANGED << policy, effects, deviceVars, savedVars, externalFlag, cursorLocked,
                    angle, shouldRun, alive, fileVars, worldVars, ghostVars >>

LockCursor ==
    /\ At("monitor", "lockCursor")
    /\ Done("monitor")
    /\ \/ /\ ~cursorLocked
          /\ cursorLocked' = TRUE /\ frozen' = TRUE
          /\ changed' = TRUE
       \/ /\ cursorLocked \/ May("cursorLock")
          /\ UNCHANGED <<cursorLocked, frozen, changed>>
    /\ UNCHANGED << policy, effects, panel, keys, plugged, dark, savedVars, caffeinate,
                    externalFlag, angle, shouldRun, alive, fileVars, worldVars, ghostVars >>

-----------------------------------------------------------------------------
(* The recovery file. *)

PersistIfChanged ==
    /\ At("monitor", "persistIfChanged")
    /\ Continue("monitor", IF changed THEN ForgetSteps ELSE <<"release">>)
    /\ UNCHANGED << policy, effects, deviceVars, savedVars, flagVars, loopVars,
                    fileVars, worldVars, ghostVars >>

Snapshot(t) ==
    /\ At(t, "snapshot")
    /\ ~Relocked
    /\ image' = [image EXCEPT ![t] = saved]
    /\ Done(t)
    /\ UNCHANGED << policy, effects, deviceVars, savedVars, flagVars, loopVars, file,
                    worldVars, ghostVars >>

\* Variant: a file removed while it is open is written all the same.
PersistedByPath(t, ok, removed) ==
    /\ image' = [image EXCEPT ![t] = NothingSaved]
    /\ custody' = IF ok /\ t = "monitor" /\ custody = "inMemory" THEN "onDisk" ELSE custody
    /\ Done(t)

\* A persist ends: the snapshot is dropped, and the monitor's own success puts
\* what it dimmed on disk.  A thread that has opened the file it removed is
\* left without one: its bytes go to a file that has no name any more.
Persisted(t, ok, removed) ==
    /\ image' = [u \in Threads |-> IF u = t \/ (removed /\ At(u, "write"))
                                   THEN NothingSaved ELSE image[u]]
    /\ custody' = IF ok /\ t = "monitor" /\ custody = "inMemory" THEN "onDisk" ELSE custody
    /\ Done(t)

\* Nothing saved removes the file; else fs::write opens it, truncating.
PersistImage(t) ==
    /\ At(t, "persist")
    /\ \/ /\ image[t] = NothingSaved
          /\ file' = NothingSaved
          /\ Persisted(t, TRUE, TRUE)
       \/ /\ image[t] # NothingSaved
          /\ file' = Torn
          /\ Unsaved
          /\ Continue(t, <<"write">> \o Tail(todo[t]))
          /\ UNCHANGED image
       \/ /\ May("disk")
          /\ UNCHANGED file
          /\ Persisted(t, FALSE, FALSE)
    /\ UNCHANGED << policy, effects, deviceVars, savedVars, flagVars, loopVars,
                    worldVars, chosenPanel, chosenKeys, unsavedDim >>

\* What a write that fails half-way can leave: nothing that decodes, and where
\* the other thread has written since this one truncated, any mixture of the two.
Spoilt(t) ==
    {file} \cup (IF image[t] = NothingSaved THEN {}
                 ELSE {Garbled} \cup (IF file = Torn THEN {} ELSE SavedState))

Write(t) ==
    /\ At(t, "write")
    /\ \/ /\ file' = IF image[t] = NothingSaved THEN file ELSE image[t]
          /\ Persisted(t, image[t] # NothingSaved, FALSE)
       \/ /\ May("disk")
          /\ file' \in Spoilt(t)
          /\ Persisted(t, FALSE, FALSE)
    /\ UNCHANGED << policy, effects, deviceVars, savedVars, flagVars, loopVars,
                    worldVars, chosenPanel, chosenKeys, unsavedDim >>

-----------------------------------------------------------------------------
(* The process and its monitor loop. *)

\* Process memory is gone; a cursor association may outlive its process.
Die ==
    /\ alive' = FALSE
    /\ policy' = NewPolicy
    /\ saved' = NothingSaved /\ lastNonzero' = 0 /\ taken' = Nothing
    /\ caffeinate' = FALSE /\ externalFlag' = FALSE /\ cursorLocked' = FALSE
    /\ angle' = Nothing /\ changed' = FALSE /\ shouldRun' = TRUE
    /\ effects' = Nothing
    /\ todo' = [t \in Threads |-> << >>]
    /\ image' = [t \in Threads |-> NothingSaved]
    /\ frozen' \in {frozen, FALSE}
    /\ UNCHANGED << file, panel, keys, plugged, dark, worldVars, chosenPanel, chosenKeys,
                    unsavedDim >>

\* launchd keeps the agent alive.  A sensor that does not open ends the new
\* process before it does anything.
Launch ==
    /\ ~alive
    /\ alive' = TRUE
    /\ Continue("monitor", BootSteps)
    /\ UNCHANGED << policy, effects, deviceVars, savedVars, flagVars, angle, changed,
                    shouldRun, fileVars, worldVars, ghostVars >>

\* recover_state_if_needed: an absent, torn or unreadable file restores nothing.
Load ==
    /\ At("monitor", "load")
    /\ \/ /\ FileContents # NothingSaved
          /\ saved' = FileContents
          /\ Continue("monitor", RecoverSteps)
       \/ /\ FileContents = NothingSaved \/ May("disk")
          /\ Continue("monitor", <<"observe">>)
          /\ UNCHANGED saved
    /\ UNCHANGED << policy, effects, deviceVars, lastNonzero, taken, flagVars, loopVars,
                    fileVars, worldVars, ghostVars >>

StartObserver ==
    /\ At("monitor", "observe")
    /\ Done("monitor")
    /\ UNCHANGED << policy, effects, deviceVars, savedVars, flagVars, loopVars,
                    fileVars, worldVars, ghostVars >>

\* run returns the error at once.
ObserverFails ==
    /\ At("monitor", "observe")
    /\ May("observer")
    /\ Die
    /\ UNCHANGED custody

\* A sensor error sleeps and reads again, which changes nothing.
ReadAngle ==
    /\ Resting /\ angle = Nothing
    /\ shouldRun
    /\ angle' = lid
    /\ UNCHANGED << policy, effects, todo, deviceVars, savedVars, flagVars, changed, shouldRun,
                    alive, fileVars, worldVars, ghostVars >>

\* One critical section: the handler and the action it returns, which is
\* carried out after the state mutex is released.
Decide ==
    /\ Resting /\ angle # Nothing
    /\ LET decision == Decision(policy, angle, Pending)
       IN  /\ policy' = decision.policy
           /\ Continue("monitor", ActionSteps(decision.action))
    /\ angle' = Nothing
    /\ UNCHANGED << effects, deviceVars, savedVars, flagVars, changed, shouldRun, alive,
                    fileVars, worldVars, ghostVars >>

LeaveLoop ==
    /\ Resting /\ angle = Nothing
    /\ ~shouldRun
    /\ Continue("monitor", ShutdownSteps)
    /\ UNCHANGED << policy, effects, deviceVars, savedVars, flagVars, loopVars,
                    fileVars, worldVars, ghostVars >>

\* The process ends wherever the power thread is.
Exit ==
    /\ At("monitor", "exit")
    /\ Die
    /\ UNCHANGED custody

Tick ==
    /\ Elapsed(policy) # policy
    /\ policy' = Elapsed(policy)
    /\ UNCHANGED << effects, todo, deviceVars, savedVars, flagVars, loopVars, fileVars,
                    worldVars, ghostVars >>

-----------------------------------------------------------------------------
(* The power thread. *)

WillSleep ==
    /\ Observing /\ ~Relocked
    /\ todo["power"] = << >>
    /\ power = "leaving"
    /\ policy' = WillSleepPolicy
    /\ Continue("power", SleepSteps)
    /\ UNCHANGED << effects, deviceVars, savedVars, flagVars, loopVars, fileVars,
                    worldVars, ghostVars >>

\* IOAllowPowerChange.
AllowSleep ==
    /\ At("power", "allow")
    /\ Done("power")
    /\ power' = "asleep"
    /\ UNCHANGED << policy, effects, deviceVars, savedVars, flagVars, loopVars, fileVars,
                    lid, calm, ghostVars >>

DidWake ==
    /\ Observing /\ ~Relocked
    /\ todo["power"] = << >>
    /\ power = "waking"
    /\ policy' = DidWakePolicy
    /\ power' = "awake"
    /\ UNCHANGED << effects, todo, deviceVars, savedVars, flagVars, loopVars, fileVars,
                    lid, calm, ghostVars >>

-----------------------------------------------------------------------------
(* The world. *)

PowerChange ==
    /\ \/ power = "awake"   /\ May("sleep")  /\ power' = "leaving"
       \/ power = "leaving" /\ ~Observing    /\ power' = "asleep"
       \/ power = "asleep"                   /\ power' = "waking"
       \/ power = "waking"  /\ ~Observing    /\ power' = "awake"
    /\ UNCHANGED << policy, effects, todo, deviceVars, savedVars, flagVars, loopVars,
                    fileVars, lid, calm, ghostVars >>

MoveLid ==
    /\ lid' \in Angles \ {lid}
    /\ UNCHANGED << policy, effects, todo, deviceVars, savedVars, flagVars, loopVars,
                    fileVars, power, calm, ghostVars >>

\* Brightness changes by the user or the system happen while the monitor
\* thread sleeps or lidoff does not run.  One while nothing is owed is the
\* user's choice; one while the device's saved value is kept ("relight"), dimmed
\* or in the restore hold, is not: lidoff will put the saved value over it.
BetweenActions == Resting \/ ~alive

ChangePanel ==
    /\ BetweenActions
    /\ panel' \in Levels \ {panel}
    /\ IF Owed.internal = Nothing
       THEN May("user") /\ chosenPanel' = panel'
       ELSE May("relight") /\ UNCHANGED chosenPanel
    /\ UNCHANGED << policy, effects, todo, keys, plugged, dark, frozen, savedVars,
                    flagVars, loopVars, fileVars, worldVars, chosenKeys, unsavedDim,
                    custody >>

ChangeKeys ==
    /\ BetweenActions
    /\ keys' \in Levels \ {keys}
    /\ IF Owed.keyboard = Nothing
       THEN May("user") /\ chosenKeys' = keys' /\ unsavedDim' = FALSE
       ELSE May("relight") /\ UNCHANGED <<chosenKeys, unsavedDim>>
    /\ UNCHANGED << policy, effects, todo, panel, plugged, dark, frozen, savedVars,
                    flagVars, loopVars, fileVars, worldVars, chosenPanel, custody >>

\* Unplugging may or may not end a display's disabled configuration.
Hotplug(d) ==
    /\ May("hotplug")
    /\ BetweenActions
    /\ \/ /\ d \in plugged
          /\ plugged' = plugged \ {d}
          /\ dark' \in {dark, dark \ {d}}
       \/ /\ d \notin plugged
          /\ plugged' = plugged \cup {d}
          /\ UNCHANGED dark
    /\ UNCHANGED << policy, effects, todo, panel, keys, frozen, savedVars, flagVars,
                    loopVars, fileVars, worldVars, ghostVars >>

Signal ==
    /\ alive /\ shouldRun
    /\ May("signal")
    /\ shouldRun' = FALSE
    /\ UNCHANGED << policy, effects, todo, deviceVars, savedVars, flagVars, angle, changed,
                    alive, fileVars, worldVars, ghostVars >>

Crash ==
    /\ alive
    /\ May("crash")
    /\ Die
    /\ custody' = IF custody = "inMemory" /\ ~Resting THEN "lost" ELSE custody

BecomeCalm ==
    /\ May("calm")
    /\ calm' = TRUE
    /\ UNCHANGED << policy, effects, todo, deviceVars, savedVars, flagVars, loopVars,
                    fileVars, lid, power, ghostVars >>

-----------------------------------------------------------------------------

MonitorOnly ==
    \/ TakeExternal \/ RestoreExternal
    \/ ReadPanel \/ DimPanel \/ RedimPanel \/ CaptureKeys \/ RedimKeys
    \/ CaptureExternal \/ RecaptureExternal \/ StartCaffeinate \/ LockCursor
    \/ PersistIfChanged
    \/ Load \/ StartObserver \/ ReadAngle \/ Decide \/ LeaveLoop \/ Exit

Shared(t) ==
    \/ Acquire(t) \/ Release(t)
    \/ UnlockCursor(t) \/ RestoreKeys(t) \/ RestorePanel(t) \/ StopCaffeinate(t)
    \/ Snapshot(t) \/ PersistImage(t) \/ Write(t)

Monitor == MonitorOnly \/ Shared("monitor")

PowerThread == WillSleep \/ AllowSleep \/ DidWake \/ Shared("power")

World ==
    \/ Launch \/ PowerChange \/ MoveLid \/ ChangePanel \/ ChangeKeys
    \/ (\E d \in Displays : Hotplug(d))
    \/ Signal \/ Crash \/ ObserverFails \/ BecomeCalm

Next == Monitor \/ PowerThread \/ World \/ Tick

Spec == Init /\ [][Next]_vars

\* Both threads are scheduled, time passes, launchd relaunches.
Fairness ==
    /\ WF_vars(Monitor) /\ WF_vars(PowerThread)
    /\ WF_vars(Tick) /\ WF_vars(Launch)

FairSpec == Spec /\ Fairness

-----------------------------------------------------------------------------
(* Properties. *)

\* Types of every variable.
TodoType   == todo \in [Threads -> Seq(Steps)]
DeviceType == /\ panel \in Levels /\ keys \in Levels
              /\ plugged \in SUBSET Displays /\ dark \in SUBSET Displays
              /\ frozen \in BOOLEAN
SavedType  == /\ saved \in SavedState
              /\ lastNonzero \in Levels
              /\ taken \in Option(SUBSET Displays)
FlagType   == caffeinate \in BOOLEAN /\ externalFlag \in BOOLEAN /\ cursorLocked \in BOOLEAN
LoopType   == /\ angle \in Option(Angles)
              /\ changed \in BOOLEAN /\ shouldRun \in BOOLEAN /\ alive \in BOOLEAN
FileType   == file \in SavedState \cup {Torn, Garbled} /\ image \in [Threads -> SavedState]
WorldType  == lid \in Angles /\ power \in PowerStates /\ calm \in BOOLEAN
GhostType  == /\ chosenPanel \in Levels /\ chosenKeys \in Levels
              /\ unsavedDim \in BOOLEAN /\ custody \in Custodies

TypeOK ==
    /\ policy \in Policy
    /\ effects \in Option(Threads)
    /\ TodoType /\ DeviceType /\ SavedType /\ FlagType /\ LoopType /\ FileType
    /\ WorldType /\ GhostType

\* The user's panel brightness is never lost: at every moment it is either on
\* the panel or what lidoff still owes it, in memory while the process lives
\* and in the file while it does not.  (A panel the user had at 0 may come back
\* at the last brightness seen, by design of brightness_snapshot_for_dim.)
PanelCustody ==
    \/ chosenPanel = 0 \/ custody = "lost"
    \/ panel = chosenPanel /\ Owed.internal = Nothing
    \/ Owed.internal = chosenPanel

\* What the keyboard comes back to: dark, once a resume has dimmed it with
\* nothing saved for it, until the user sets it again.
KeysDue == IF unsavedDim THEN 0 ELSE chosenKeys

\* The same for the keyboard backlight.
KeysCustody ==
    \/ custody = "lost"
    \/ keys = chosenKeys /\ Owed.keyboard = Nothing
    \/ Owed.keyboard = chosenKeys

Ids(ids) == IF ids = Nothing THEN {} ELSE ids

\* Every display lidoff has disabled is written down to be enabled again.
ExternalCustody ==
    custody = "lost" \/ dark \subseteq Ids(Owed.external) \cup Ids(taken)

Externals == INSTANCE DisplayContract
             WITH flag           <- externalFlag,
                  held           <- IF taken = Nothing THEN saved.external ELSE taken,
                  DisableMayFail <- "externalDisable" \in Environment,
                  RestoreMayFail <- "externalRestore" \in Environment

\* Within the life of a process the external displays are used by the contract
\* the controller implements (ExternalDisplays): no capture over a record, no
\* record given up before all of its displays are back.
UsesContract == Externals!Spec

\* The cursor never stays frozen with nothing pending: an open lid, or the next
\* process, would have no reason to call unlock_cursor.
CursorReleasable ==
    frozen /\ BetweenActions /\ custody # "lost" =>
        IF alive THEN Pending # {} ELSE FileContents # NothingSaved

\* What a thread that has the recovery file open is about to write.
Writing == [t \in Threads |-> IF At(t, "write") THEN image[t] ELSE Nothing]

Cell == INSTANCE StateFile
        WITH open <- Writing, DiskMayFail <- "disk" \in Environment

\* Saves, removals, failures and process ends reach the recovery file only in
\* the ways it supports (RecoveryFile).
UsesCell == Cell!Spec

\* Between two actions the recovery file says what memory says, so a crash
\* there neither loses a saved value nor revives one already restored.
FileMirrorsMemory ==
    Resting /\ todo["power"] = << >> => FileContents = saved

\* Once the monitor has dealt with a closed lid nothing keeps the machine
\* awake in the bag.
LetsItSleep ==
    Resting /\ policy.lastLid = "fullyClosed" => ~caffeinate

Stages == INSTANCE Lifecycle
          WITH stage    <- IF ~alive THEN "absent"
                           ELSE IF Booting THEN "recovering" ELSE "serving",
               callback <- todo["power"] # << >>

\* The power callbacks come as the start-up of the process lets them come
\* (Service), and every announced sleep waits for its callback and no longer.
UsesLifecycle == Stages!Spec

\* Devices and the process-wide flags of the shims are only touched under
\* EFFECTS_LOCK, by whichever thread.
EffectsSerialized ==
    \A t \in Threads : \A step \in DeviceSteps : At(t, step) => effects = t

\* A daemon told to stop, at whatever moment, leaves panel, keyboard, displays,
\* cursor and caffeinate session as the user had them, and no file, but for a
\* keyboard that a resume has dimmed with nothing saved for it.
CleanShutdown ==
    At("monitor", "exit") /\ custody # "lost" =>
        /\ chosenPanel # 0 => panel = chosenPanel
        /\ keys = KeysDue
        /\ dark = {} /\ ~frozen /\ ~caffeinate
        /\ file = NothingSaved

\* Nothing is owed any more.  What KeysDue excepts is not on record.
Restored ==
    /\ saved = NothingSaved /\ ~caffeinate
    /\ custody # "lost" => dark = {} /\ ~frozen

Settled(lidState) == LidStateForAngle(lid) = lidState /\ power = "awake" /\ alive

\* If the lid ends up open, with the machine awake and the daemon running,
\* everything on record is restored in the end, whatever the threads were doing.
RestoredWhenOpen == <>[]Settled("open") => <>[]Restored

\* The same with failing devices that work from some time on: a failed
\* restore is tried again until it succeeds.
RetriedWhenOpen == <>[](Settled("open") /\ calm) => <>[]Restored

\* If the lid ends up half closed the panel is dark and the machine kept awake
\* in the end, unless a full close before it still has to be followed by an open.
DimmedWhenPartial ==
    <>[]Settled("partiallyClosed") => <>[](policy.awaiting \/ (panel = 0 /\ caffeinate))

\* The system's sleep is not held up for good: every announced sleep is allowed.
SleepAnswered == [](power = "leaving" => <>(power = "asleep"))
=============================================================================
