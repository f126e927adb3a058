# lidoff in TLA+

`lidoff` is a macOS agent that watches the angle of a laptop's lid: half closed it
darkens the built-in panel and the keyboard, disables external displays, freezes the
cursor and keeps the machine awake; open again it puts everything back. This
directory models the daemon in TLA+, model-checks it with TLC and proves its main
promises with TLAPS. Source paths are relative to the repository; `effects.rs` and
its neighbours are in `crates/lidoff-daemon/src/monitor/`.

- [1 The system](#1-the-system)
- [2 The modules](#2-the-modules)
- [3 What the runs check](#3-what-the-runs-check)
- [4 What is proved](#4-what-is-proved)
- [5 What the models found](#5-what-the-models-found)
- [6 What is not modelled, and the plan](#6-what-is-not-modelled-and-the-plan)

## 1 The system

### Components

| part | source | state it keeps | operations |
|---|---|---|---|
| lid policy | `transitions.rs`, `state.rs` | last angle and lid state, streak, three timestamps, the restore hold, `awaiting_open_after_full_close`, `system_sleeping` | one handler per lid state, each returning a `MonitorAction` |
| monitor loop | `monitor.rs`, `lib.rs` | `SHOULD_RUN` | recover, start the observer, sample, decide, execute, shut down |
| effects | `effects.rs` | saved internal, keyboard and external state, `caffeinate_active`, `last_nonzero_brightness`, `EFFECTS_LOCK` | start, resume, restore, restore and keep, prepare for sleep |
| power callbacks | `power_events.rs` | (the monitor's state) | `handle_will_sleep`, `handle_did_wake` |
| recovery | `persistence.rs`, `recovery_state.rs` | the recovery file | snapshot, clear, write, load |
| device controllers | `lidoff-display` | dimmed brightness, cursor flag, external-display flag and configuration | read, set, capture, disable, restore |
| power shims | `lidoff-power` | power assertion, registration with IOKit | caffeinate start and stop; observer start, run, stop, acknowledge |
| lid sensor | `lidoff-lidsensor` | the HID manager and device | open, read, close |
| CLI | `crates/lidoff` | the LaunchAgent | install, uninstall, status, run |

### How they interact

Two threads share `MonitorState` under a mutex. The **monitor thread** reads an angle,
takes the state mutex for one handler, gives it back, and then executes the action the
handler chose, holding `EFFECTS_LOCK` (a static mutex) for the whole action and the
state mutex only for moments inside of it. The **power thread** runs the IOKit
callbacks: `will_sleep` resets the policy, restores brightness under `EFFECTS_LOCK`,
persists after giving that lock back, and only then returns to `power_observer.c`,
which acknowledges the sleep. `did_wake` only resets the policy. Both threads write
the recovery file, on one path and without a common lock. A third party is the next process: it has nothing but that file,
and `launchd` starts it whenever the last one ends.

### What is hard about it

- The decision and its execution are two critical sections; a sleep can fall between.
- Every action is a dozen fallible device calls, and what is left pending after some
  of them failed decides what later samples do.
- The recovery file is written after the devices were touched, is truncated before it
  is written, and is written by both threads without a common lock.
- A restore is retried only because something is still pending.
- Timing: three graces and a hold, compared with `<` and `>=` in two threads.
- One controller call is many calls of a framework: displays come and go inside a
  configuration transaction, the built-in display changes its id, a keyboard dims itself.
- A process can be asked to end, or to sleep, while it is still starting.

The hazards are listed at their lines in `PROJECT.json`, each with the properties
that would catch it.

### What makes the parts correct

- *policy*: nothing is dimmed on the way up after a full close; a first dim is
  debounced; the saved panel survives the restore hold.
- *effects and recovery*: at every moment each thing lidoff changed is either as the
  user had it or on record, in memory while the process lives and in the file while it
  does not; the file agrees with memory between actions.
- *controllers*: what a call answers is what it did; a call that fails half-way leaves
  nothing behind that a later call would carry out.
- *recovery file*: two threads, a full disk and a crash leave what was saved last, an
  empty file or one that does not decode, and never another thread's half; files of
  older versions load as meant.
- *service*: callbacks wait for the recovery, no thread waits for the other forever,
  every path that ends the process has released what it opened.
- *threads*: device operations of the two threads never mix; nobody waits forever.
- *as a whole*: an open lid ends up restored, a half-closed one dark and awake, a
  closed machine may sleep, a stopped daemon leaves nothing behind that is on record.

## 2 The modules

| module | what it is |
|---|---|
| `LidTransitions` | the handlers of `transitions.rs` as operators: policy and pending set in, policy and action out |
| `LidPolicy` | the abstract lid policy: those operators driven by samples, power callbacks and time, with graces that count down |
| `LidClock` | the policy as the code computes it, with `Instant`s compared against `now`; refines `LidPolicy` |
| `Daemon` | the daemon: both threads, the devices, the file, the process, and the world around them |
| `DisplayContract` | what `effects.rs` relies on when it calls the external display controller: every call takes effect at once |
| `ExternalDisplays` | that controller: `display_external.rs` over the configuration transaction of `skylight.c` |
| `Backlights` | the controllers of panel and keyboard over `brightness.c` and `keyboard_backlight.c` |
| `StateFile` | what the daemon relies on when it keeps its state in a file |
| `RecoveryFile` | that file: three encodings, and the open, truncate, write and remove calls of two threads |
| `Lifecycle` | what the power callbacks rely on: when they run and what waits for them |
| `Service` | a process from start to end: sensor, observer, start-up channel, run loop, loop, shutdown |
| `LaunchAgent` | `Service` under install, uninstall and `launchd` |
| `MCLidClock`, `MCDaemon` | the sets a `.cfg` cannot write |
| `LidTransitionsProofs`, `LidClockProofs` | what the handlers return; theorems about the policy over time |
| `DaemonProofs` | the daemon's types, its lock, the order of its steps, its caffeinate session, and its use of `StateFile` and `Lifecycle` |
| `CustodyProofs` | what the daemon owes its user, across processes and across threads, and its use of `DisplayContract` |
| `ExternalDisplaysProofs`, `BacklightsProofs` | theorems about the controllers |
| `RecoveryFileProofs` | theorems about the encodings and the recovery file |
| `LaunchAgentProofs` | theorems about `Service` under `LaunchAgent` |

### How they compose

Three parts of the daemon are state machines of their own, and a product of all of
them would be far too large to check. Each is split at an abstract specification:

| what is between | promised by | relied on by |
|---|---|---|
| `DisplayContract` | `ExternalDisplays` (`ImplementsContract`) | `Daemon` (`UsesContract`) |
| `StateFile` | `RecoveryFile` (`ImplementsCell`) | `Daemon` (`UsesCell`) |
| `Lifecycle` | `LaunchAgent` over `Service` (`ImplementsLifecycle`) | `Daemon` (`UsesLifecycle`) |

Both sides are refinements, by `INSTANCE ... WITH` over the variables of either side.
The left one says that the detailed component shows its user nothing else; the right
one that `Daemon`, which has the component inside it as a few variables, uses it in
the supported order and lets the component's variables take no step it does not
allow. The converse, that `Daemon` has every outcome the component can produce, is no
refinement and is not checked: it rests on the actions of `Daemon` being the calls of
`effects.rs` with all their outcomes. `LidClock` over
`LidPolicy` is the same idea for time, and `Daemon` drives the operators of
`LidTransitions`, as `LidPolicy` does.

### State

`Daemon`: `policy` holds the fields of `MonitorState` the handlers use; `saved` the
three optional device states; `caffeinate`, `externalFlag`, `cursorLocked` the flags of
the shims; `taken` the external state while `restore_external_display_state` has moved
it out; `effects` the holder of `EFFECTS_LOCK`; `todo[t]` what thread `t` still has to
do; `image[t]` the snapshot it is persisting; `file` the recovery file. `panel`, `keys`,
`plugged`, `dark`, `frozen`, `lid`, `power` are the machine.

`ExternalDisplays`: `config` is `skylight_config` with what is staged in it, `call` the
controller call in progress (ids the loop has not come to, ids that were staged),
`held` the record of the caller and `flag` the static `EXTERNAL_DISPLAYS_DISABLED`.

`Backlights`: `cached` is `cached_builtin_display_id`, `builtin` the id the display
really has, `idle` and `suspended` the keyboards that dimmed themselves and those that
may not; `call` and `answer` what is asked and what was returned.

`RecoveryFile`: `bytes` is the content under the path, `fd[t]` the file thread `t` has
open ("orphan" once its name was removed), `image[t]` what it is saving, `meant` what
an older version that left the file had meant by it.

`Service` and `LaunchAgent`: `main` and `observer` are the steps left to the two
threads, `startup` the channel between them, `sensor` and `ports` what the C files
hold, `plist` and `loaded` the agent.

### Steps

A function of `effects.rs` is a list of steps in program order (`RestoreEffects`,
`StartSteps`, ...). A thread's position is the list it has left. Each step is an action
of its own with the outcomes the call has in the code: success, failure, nothing to
do; an early return replaces the rest of the list (`ForgetSteps`, `<<"release">>`).
Places where the other thread can see the difference are separate steps: reading the
angle and deciding on it, deciding and acquiring the lock, taking and returning the
external state, snapshot, truncation and write of the file. `Service` is written in
the same way (`MainSteps`, `ObserverSteps`).

Within one device operation the code takes the state mutex more than once. That is one
step here because `EFFECTS_LOCK` keeps the other thread from those fields meanwhile
(`OneAtATime` in section 4) and the policy fields are not touched by effects. The one
place where a guard outlives its use, in `capture_and_disable_keyboard_backlight_state`,
is modelled: the step `relock` never ends and blocks whoever needs the state mutex.

### The world

`Environment` names what may happen in a run of `Daemon`: user and system brightness
changes (`user`, `relight`), `hotplug`, `sleep`, `signal`, `crash`, a failing observer,
one kind per fallible device call, a failing disk, and `calm`, after which nothing
fails and nothing interrupts. The lid moves freely in every run. `Faults` plays the
same part in the component modules.

Abstractions worth knowing:

- Brightness changes by the user or macOS happen between actions of the monitor,
  not inside one. While the saved value of the device is kept they are `relight`, which
  is not a choice of the user: lidoff will put the saved value over it. That includes
  a change by the user during the two seconds of the restore hold, with the lid open
  and the panel lit: the code overwrites it, and the model does not count it as lost.
- `chosenPanel` and `chosenKeys` are history variables, what the user last chose.
- `unsavedDim` is one too: a resume has dimmed the keyboard with nothing saved for it
  (section 5, `keys_after_hold`) and the user has not set it since. `KeysDue`, what the
  keyboard comes back to, is dark then and `chosenKeys` otherwise.
- `custody` is one too. The code dims several devices before it persists what they
  were, and truncates the file before it writes it; a crash in those windows loses
  the values and no order of the existing calls avoids it. `custody` becomes "lost"
  when a crash falls into them, and the custody properties say what holds otherwise.
- Time passes in ticks, and graces count down; `LidClock` shows that this is exact.
- `since(None, now)` is infinite; `Instant`s never run backwards.
- `Torn` is an empty file, `Garbled` one with bytes of a write that failed; neither
  decodes. They are told apart because bytes that garble a file can be completed by
  the other thread's write, and an empty file cannot.
- A token of `RecoveryFile` is one field of the bincode encoding. A write that stops
  stops between tokens, and a field is not read as one of another kind: what the bytes
  of a brightness would mean as a tag is left out.
- A display id in `Backlights` that is not online fails, so ids are not reused for
  other displays.
- `quiet` and `before` of `Backlights` are history variables, whether anything failed
  or changed during a call and the brightness when it began. Idle dimming that begins
  inside a call makes it not quiet: the code checks for it once, and a keyboard that
  dims itself between the check and the read is read as 0.
- Whether unplugging ends a display's disabled configuration, and whether macOS
  refuses to stage an absent display, is not known from the repository: both happen.
- A power observer whose registration failed ends its thread, and dropping
  `PowerObserver` does not wait for one that runs: the process ends with it.

Some definitions come with a neighbour marked *Variant*: the same operator with a
plausible mistake in it. Nothing in the specifications uses a variant; substituting
it for its neighbour makes TLC violate the property named in `PROJECT.json`, which is
how each property shows that it can fail.

## 3 What the runs check

| run | what may happen | asks |
|---|---|---|
| `lid_clock` | any samples, sleeps and wakes up to `MaxTime` | policy invariants, `HoldHonoured`, refinement of `LidPolicy` |
| `daemon_faults` | user, relight, hotplug, panel reads and external restores fail | no panel brightness is lost, the external displays are used by their contract |
| `daemon_restart` | crash, signal, a failing observer, partial external captures; two displays | custody of panel, displays and cursor across processes, file and memory agree, `CleanShutdown`, and the two liveness promises |
| `daemon_sleep` | sleep and wake at any step | `EffectsSerialized`, `LetsItSleep`, `SleepAnswered`, `RestoredWhenOpen`; the file and the callbacks are used as `StateFile` and `Lifecycle` say |
| `daemon_retry` | panel, keyboard read, cursor, caffeinate, observer and disk fail until `calm` | `PanelCustody`, `RetriedWhenOpen` |
| `external_displays` | hotplug at any step, staging and commit fail | `NothingStaged`, `FlagBacked`, refinement of `DisplayContract`, `WorkedOff` |
| `backlights` | every call of a framework fails, the display's id changes, keyboards dim themselves | `AnswersTrue`, `StaleIdHealed` |
| `recovery_file` | any file of an older version, writes that stop, process ends, both threads in any order | `ReadsOlderVersions`, `SavedIsLoaded`, refinement of `StateFile` |
| `service` | sensor, spawn and registration fail, crashes, signals, sleep, commands that fail half-way | `HoldsNothing`, refinement of `Lifecycle`, `LoadedRuns`, `UnloadedStops` |
| `keys_after_hold`, `relock`, `stale_file` | see section 5 | violations: what the documentation says and the code does not do |

`RestoredWhenOpen` and `RetriedWhenOpen` promise what is *on record*: in the end nothing
is saved any more, no session runs, displays and cursor are back. A keyboard that a
resume dimmed unsaved is not on record; `keys_after_hold` shows it. `LetsItSleep` speaks
of a lid the monitor has sampled: both power callbacks forget the last lid state, so
it is silent from a callback to the next sample, and an action decided before a sleep
may start a session after the preparation for it, until a sample after the wake.

### Bounds

- Angles: one per lid state for the daemon, which only asks for the state, and two
  half-open ones for the clock, so that the angle can rise, fall and stay.
- Levels: dark and lit; dark and two lit levels in `daemon_faults` and `backlights`,
  where restoring or answering the wrong one is the question. One level in
  `recovery_file`, where a field only differs from another by its place and kind.
- Displays: one in `Daemon`, and two where a capture can be partial; three in
  `external_displays`, so that one call can stage some, fail on one and have another
  unplugged. Two ids in `recovery_file`: lists of length 0, 1 and 2.
- Graces of one tick and a hold of two: each can be running, ending and over, and the
  hold can outlast the open grace, as in the code (1 s and 2 s). Two samples for the
  streak: one is not enough and two are.
- `MaxTime` of 4 lets a full close, the open after it and the whole hold fit;
  `MaxStreak` of 3 lets the streak pass its threshold by one.
- The streak in `LidTransitions` stops at the threshold; the code only compares it.
- Two display ids and two keyboards in `backlights`: the id changes to another and
  back, one keyboard can be set and the other not, and the one read need not be the
  default one.
- Raw angles 0, 90 and 181 in `service`: both ends and one the hinge cannot have.
- `Environment` is split over four runs. The split follows which events can interact
  on a property; section 5 lists the combinations that are known to fail.

### Fairness

`FairSpec` of `Daemon` assumes weak fairness of the monitor thread, the power thread,
the passing of time and `launchd`. All four are loops the operating system schedules:
the monitor polls at a fixed interval and never waits for an event, the power thread
runs a CFRunLoop, and the agent is installed with `KeepAlive::Always`. `LaunchAgent`
assumes the same of its two threads and of `launchd`. `ExternalDisplays` assumes that
a call runs to its end (`Calling`) and that the monitor samples an open lid again
(`CallRestore`), which is the loop of `monitor.rs`. No fairness is assumed of the
lid, the user, sleep, commands or any fault, nor that a failing device ever recovers:
`RetriedWhenOpen`, `WorkedOff` and `LoadedRuns` have `calm` as their premise instead.
A deadlock check is on in every run.

## 4 What is proved

Every theorem is about the specification TLC runs, for every value of the constants
that satisfies the named assumptions of its modules (`TransitionsAssumption`,
`ClockAssumption`, `DaemonAssumption`, `DisplaysAssumption`, `FileAssumption`,
`ServiceAssumption`, `BacklightsAssumption`): thresholds, graces and levels are
naturals, `Nothing` and the unreadable files are distinct from the values they are
told apart from, the faults are known ones, and the set of displays a state lists is
finite. TLC evaluates each of them in a run.

Some theorems hold in some environments only. The hypothesis is then a definition
over `Environment` or `Faults`, never over the behaviour:

| hypothesis | excludes |
|---|---|
| `SessionStops` | a caffeinate session that cannot be stopped |
| `Steady` | sleep, a failing disk, panel and keyboard that refuse a brightness |
| `Capturing` | listing displays, locking and unlocking the cursor fail |
| `WholeCaptures` | a display that cannot be disabled, unless `Capturing` |
| `Wired` | what `Capturing` excludes, hotplug, and external restores that are not complete |
| `Lasting` | a keyboard that refuses a brightness, crash and signal |
| `Honest` | a panel that refuses a brightness, unless it can always be read and nobody relights it while it is dimmed |
| `Reliable` | what `Lasting` excludes, and a panel that refuses a brightness |

Section 5 lists the environments in which the formulas fail, and with them why most
of these exclusions are needed. That `Steady` excludes sleep altogether is a limit of
the proofs: with it two threads write the file. The environments of `daemon_restart`
(`crash`, `signal`, `observer`, `externalDisable`), `daemon_faults` and `daemon_retry` are within
the hypotheses of the theorems about their safety properties, so those runs show small
instances of these theorems.

### The policy

| theorem | statement | argument |
|---|---|---|
| `LidClockProofs!ClockTypeCorrect` | `Spec => []TypeOK` | inductive: timestamps never lie in the future and the streak never exceeds the samples that fell |
| `LidClockProofs!NoDimBeforeOpen` | `Spec => []DimsAfterOpenOnly` | `awaiting` is exactly "no open sample since" |
| `LidClockProofs!NoDimOnNoise` | `Spec => []StartDebounced` | `streak <= falling` |
| `LidClockProofs!HoldIsHonoured` | `Spec => HoldHonoured` | while a hold runs `keepUntil` is its start plus `RestoreHold`, or that moment has passed |
| `LidClockProofs!ImplementsPolicy` | `Spec => RefinesPolicy` | under `policyLeft` every step of `LidClock` is the step of the same name of `LidPolicy`, or a stutter |

### The daemon

| theorem | statement | hypothesis | invariant |
|---|---|---|---|
| `DaemonProofs!TypeCorrect` | `Spec => []TypeOK` | | itself, with one lemma per action |
| `DaemonProofs!OneAtATime` | `Spec => []EffectsSerialized` | | `LockInv` |
| `DaemonProofs!NothingKeepsItAwake` | `Spec => []LetsItSleep` | `SessionStops` | `SessionInv` |
| `DaemonProofs!FileUsedAsACell` | `Spec => UsesCell` | | `UseInv` |
| `DaemonProofs!CallbacksKeepToLifecycle` | `Spec => UsesLifecycle` | | `UseInv` |
| `CustodyProofs!FileSaysWhatMemorySays` | `Spec => []FileMirrorsMemory` | `Steady`, `WholeCaptures` | `FileInv`, `CaptureInv` |
| `CustodyProofs!PanelSurvivesRestarts` | `Spec => []PanelCustody` | `Steady` | + `PanelInv` |
| `CustodyProofs!KeysSurviveRestarts` | `Spec => [](unsavedDim \/ KeysCustody)` | `Steady` | + `KeysInv` |
| `CustodyProofs!DisplaysSurviveRestarts` | `Spec => []ExternalCustody` | `Steady`, `Wired` | + `ExternalInv` |
| `CustodyProofs!CursorSurvivesRestarts` | `Spec => []CursorReleasable` | `Steady`, no `cursorUnlock` | + `CursorInv` |
| `CustodyProofs!StopsCleanly` | `Spec => []CleanShutdown` | `Steady`, `Wired`, no `caffeinateStop` | + `KeysInv`, `ShutdownInv` |
| `CustodyProofs!PanelNeverLost` | `Spec => []PanelCustody` | `Lasting`, `Honest` | `CustodyInv` |
| `CustodyProofs!DisplaysUsedByContract` | `Spec => UsesContract` | `Reliable` | `CustodyInv`, `ContractInv` |

Lists of steps grow by joining and shrink by `Tail`, so `DaemonProofs` first proves a
small algebra of "contains" and "nowhere after" (`HasJoin`, `NoneAfterJoin`,
`TailKeeps`). The invariants are statements about what a thread's list still contains.

*Locks.* `LockInv`: the list of the thread that has `EFFECTS_LOCK` is inside a locked
section, any other list is free of guarded steps or acquires first.

*Order.* Every step of the monitor's functions has a `Rank`. The lemma `StepsInOrder`
says of the list, in every environment, that the ranks of what is left increase, that it
is of one kind (it restores, starts or resumes), and that with a step left that may
change memory it has a `snapshot` or `persistIfChanged` left. It says nothing of what
the steps do: a dim that fails still forgets what was saved, and a partial capture in a
resume is not persisted (section 5). It is what lets the other proofs conclude, from
the step at the head, what is no longer to come.

*Session.* A sample that finds the lid closed while a session runs chooses an action
that stops it, and `SessionInv` follows the stop through the list: the power thread
stops sessions and starts none.

*Uses.* `UseInv` says of every list that a `write` is only at its head (`WritesFirst`:
what is truncated is written next, by the same thread, so `open` of `StateFile` is read
off the lists), of the monitor's that while a recovery is in it the observer still is
(`RunsToObserve`, so "recovering" ends once and no callback comes before), and of the
power thread's that it ends in the acknowledgement (`EndsWithAllow`, so that a callback
is answered exactly once). Each action is then matched with one step of either
specification (`Fits`).

*Across processes.* A crash can fall between any two steps, and the next process knows
the file only. No invariant about memory survives that, so each promise is stated twice
in its invariant: about memory while there is a process that has loaded it, and about
the file unless the persist that writes it down is still to come (`Unwritten`).
`FileInv` relates the two: file, snapshot on its way and memory, by what the list still
has of `snapshot`, `persist` and `write`. The less obvious parts:

- a resume persists only if something `changed`. That is enough for the panel
  because a resume saves nothing of it. It is not enough for a partial capture, which
  is stored and not counted; `CaptureInv` shows that it is persisted all the same as
  long as the cursor could be locked in the same list or was locked by a list that
  captured before (`Captured`), and that is the reason for `Capturing`;
- the keyboard is saved only by a start, which is chosen with nothing saved for it, and
  forgotten only once it is back. A resume saves nothing, so what it dims must be saved
  already; where it is not, `unsavedDim` records it and `KeysDue` is dark from there on
  (`KeysInv`). Nothing else loses the keyboard;
- the cursor is released because a frozen one implies a saved panel, in memory or in
  the file (`CursorInv`), which `open` and the recovery take for something to restore;
- `ShutdownInv` says what a list that ends in `exit` still puts right, device by
  device, so that at its end nothing is left.

*Across threads.* `PanelNeverLost` is the daemon's main promise while a process lives:
sleep at any step, hotplug, brightness changes and any other failure may happen.
`PanelCustody` is not inductive. What it needs, and what `CustodyInv` adds, is:

- a list that dims the panel has it saved or still reads it first (`Owing`), which is
  an order fact about the lists: no `readPanel` behind a `dimPanel`;
- a saved keyboard implies a saved panel. `handle_partially_closed_locked` resumes a
  dim when *either* is saved, and `resume_partial_dim` saves nothing. So a restore must
  clear the keyboard before the panel, which the order of
  `restore_display_state_locked` does as long as the keyboard's call succeeds;
- `clear_pending_display_state` forgets what is saved when a resume dimmed nothing,
  which is harmless only if the panel then shows the user's choice. Where the panel can
  refuse a brightness this is part of the invariant (`InCustody`): a panel that is lit
  while something is saved for it shows what the user chose;
- the power thread has no step that forgets a saved value;
- until the power observer runs, memory and file owe nothing (`Fresh`).

*Displays.* `DisplaysUsedByContract` rests on `CustodyInv`. The contract allows no
capture over a record and no disable over an empty one, and nothing in
`capture_and_disable_external_display_state` checks for the latter: it holds because a
capture that found no display leaves an empty record only together with a saved panel,
a start is only chosen without one, and `restore_display_state_locked` gives up the
record before the panel (`ExternalsFit`).

### The components

| theorem | statement | argument |
|---|---|---|
| `ExternalDisplaysProofs!ControllerTypeCorrect` | `Spec => []TypeOK` | part of `Inv` |
| `ExternalDisplaysProofs!NothingLeftStaged` | `Spec => []NothingStaged` | every call begins on a closed configuration and ends in `Closed` |
| `ExternalDisplaysProofs!FlagIsBacked` | `Spec => []FlagBacked` | the flag is set only by a call that returns ids, and a record goes only with the flag |
| `ExternalDisplaysProofs!ControllerImplementsContract` | `Spec => ImplementsContract` | `Finish` is the step of the contract, every other step of a call a stutter |
| `BacklightsProofs!TypeCorrect` | `Spec => []TypeOK` | part of `Inv` |
| `BacklightsProofs!AnswersAreTrue` | `Spec => []AnswersTrue` | `Inv`: what a call has done when it is at a step |
| `BacklightsProofs!StaleIdHeals` | `Spec => []StaleIdHealed` | a failed first try drops the cached id, and the second has the id of a new scan |
| `RecoveryFileProofs!TypeCorrect` | `Spec => []TypeOK` | with `FileInv` |
| `RecoveryFileProofs!SavedLoads` | `Spec => SavedIsLoaded` | `DecodeAgrees`, `OverlayShape` |
| `RecoveryFileProofs!OlderVersionsLoad` | `Spec => ReadsOlderVersions` | `FirstVersion`, `SecondVersion` |
| `RecoveryFileProofs!FileIsACell` | `Spec => ImplementsCell` | every call is a step of `StateFile` or a stutter |
| `LaunchAgentProofs!TypeCorrect` | `Spec => []TypeOK` | with `ServiceInv` |
| `LaunchAgentProofs!EndsHoldingNothing` | `Spec => []HoldsNothing` | `ServiceInv` at the last step |
| `LaunchAgentProofs!ServiceImplementsLifecycle` | `Spec => ImplementsLifecycle` | `ServiceInv`: no callback before `recover` is over |

`ExternalDisplaysProofs`: nothing is staged between calls, and within a call what is
staged is exactly what the configuration holds (`Staged`), while record and flag are
still what the call found (`Begun`). Hotplug inside a call is what makes this more than
bookkeeping: the contract's `Darken` and `Restore` allow a display that went missing to
be left as it is, and nothing else.

`BacklightsProofs`: one invariant per kind of call (`PanelCall`, `Reading`,
`Setting`), each relative to the brightness before the call and with a stronger half
for calls that were `quiet`.

`RecoveryFileProofs`: the encodings are over sets of any finite size, so what decoding
yields is proved by positions, not by cases. A file *agrees* with the tokens of a state
as far as it goes, and *fits* them if all are there; each field is read as written if
it fits and ends the file if it does not (`DecodeAgrees`). With that, a file of this
version that the other thread's longer one still shows behind loads as what was
written (`OverlayShape`), and each older layout fails to read as a newer one, or reads
as what it meant. `FileInv` says what the path can hold from the first moment a thread
touches it.

`LaunchAgentProofs`: the main thread runs one list and jumps, when something fails, to
where the list releases what it has. `ServiceInv` is the place in that list (`Place`),
what is held there (`Held`), and for the power thread the port and the channel that go
with its own list (`Watch`).

With both sides of all three abstract specifications proved, the split of the model is
not only checked on small instances: `FileUsedAsACell` with `FileIsACell`,
`CallbacksKeepToLifecycle` with `ServiceImplementsLifecycle`, and
`DisplaysUsedByContract` with `ControllerImplementsContract`.

### Only model-checked

- The custody properties beyond the hypotheses above: there they have counterexamples
  (section 5), or no run asks.
- `RestoredWhenOpen`, `RetriedWhenOpen`, `DimmedWhenPartial`, `SleepAnswered`,
  `WorkedOff`, `LoadedRuns` and `UnloadedStops`: liveness under fairness, which the
  proof system does not cover.
- The properties of the violation runs, which fail, `KeysCustody` among them.

## 5 What the models found

Violation runs, each with a shortest counterexample:

- `keys_after_hold`: after a full close and an open the keyboard's state is restored
  and cleared while the panel's is kept for two seconds. A half close within them
  resumes, dims the keyboard without saving it, and the next open leaves it dark.
- `relock`: a keyboard that cannot be dimmed makes the monitor lock the state mutex it
  already holds. The monitor hangs with `EFFECTS_LOCK` held.
- `stale_file`: `handle_will_sleep` snapshots and writes outside `EFFECTS_LOCK`; its
  older snapshot can replace what the monitor has written since.

Further combinations in which a formula does not hold, and which no passing run
contains:

| environment | formula | why |
|---|---|---|
| `signal` | `keys = chosenKeys` at `exit` | the sequence of `keys_after_hold`, ended by a signal instead of an open: the shutdown finds no saved keyboard state and leaves it dark, with no file. `CleanShutdown` excepts it, by `KeysDue` |
| `keysRead` | `KeysCustody` | a start that cannot read the keyboard leaves it lit and unsaved; the next resume dims it without saving it, by the same call |
| none | `dark = {}` while the monitor rests on a fully closed lid | README.md:116 of the repository says a full close restores external displays; `prepare_display_state_for_sleep_locked` leaves them disabled until the lid is open |
| `keysSet` | `PanelCustody` | a keyboard restore that fails once stays pending while the panel's saved value is cleared; the next half close resumes on the keyboard alone and dims the panel without saving it |
| `panelRead`, `panelSet` | `PanelCustody` | `is_disabled` takes a failed read for a lit panel; a failed set after it makes resume forget the saved value while the panel is dark |
| `panelSet`, `relight` | `PanelCustody` | macOS lights the dimmed panel; the next resume cannot dim it and forgets the saved value, while the panel shows what the user did not choose |
| `cursorUnlock` | `CursorReleasable`, `RetriedWhenOpen` | the result of `unlock_cursor` is dropped and nothing records that the cursor is still frozen |
| `crash`, `externalList`, `externalDisable` | `FileMirrorsMemory` | a partial capture during a resume is stored but not counted as a change, so not persisted |
| `panelSet`, `externalRestore`, `calm` | `RetriedWhenOpen` | an incomplete external restore leaves a list that a failing dim then forgets |
| `hotplug`, `externalRestore`, two displays | `ExternalCustody` | a start over a list that an incomplete restore left disables what is online and does not add it to the list |
| `signal`, `sleep` | `CleanShutdown` | the persist of a `will_sleep` can follow the last one of the shutdown and write the state it has just cleared |

Two more that are no formula of a module: with two keyboards a set succeeds when one
of them was set (`any_ok`), so one that failed stays as it was and is not tried again;
and setting a keyboard ends its automatic brightness, which nothing enables again.
`install.sh` calls `lidoff --disable` and `--enable`, which `main.rs` does not have.

## 6 What is not modelled, and the plan

Not modelled, and why:

- *logging*: output only; *build scripts, installer and release*: not part of the
  running system.
- *argument parsing* and *status*: the first keeps no state, the second reads two
  facts about the agent and changes none.
- *looking up private frameworks* in the C shims (`dlopen`, `dlsym`, selectors): it
  decides once whether every call fails before it does anything, which a run with that
  call failing covers.
- `get_state` and `copy_state_with_displays` of the external displays, which the daemon
  does not call, and the backup array of `skylight.c`, which only `SkylightRestoreAll`
  reads, which nothing calls.
- *a second process*: `lidoff run` beside the agent shares file and devices with it
  and no lock. Every model has one process at a time.
- *a lid sensor that goes stale*: the device is opened once. What it does over a
  sleep is not in the repository; a read may fail at any time in `Service`.
- the code behind `CFRunLoopRun`: nothing stops that loop, and the observer lives until
  the process ends.

Left to do: `PanelCustody` with crashes and sleep in one environment, which needs
`FileInv` for two writers and the failure of either.
