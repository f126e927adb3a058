--------------------------- MODULE CustodyProofs ---------------------------
(***************************************************************************)
(* What the daemon owes its user is never lost.                            *)
(*                                                                         *)
(* First, the end of the process at any moment, with the monitor thread    *)
(* alone: kill -9 between any two steps, a signal in the middle of an      *)
(* action, a power observer that does not start, and the recovery by the   *)
(* next process.  Inductive invariant, in parts that use the ones before:  *)
(*   FileInv      how the recovery file, the snapshot on its way and       *)
(*                memory are related at every step of a list;              *)
(*   CaptureInv   a locked cursor means the displays are written down,     *)
(*                which is why an incomplete capture is persisted;         *)
(*   PanelInv, KeysInv, ExternalInv, CursorInv                             *)
(*                each device is accounted for by memory and, unless the   *)
(*                list still comes to the persist (Unwritten), by the file;*)
(*   ShutdownInv  what the rest of a shutdown still has to put right.      *)
(* All of them speak of the steps the monitor has left, and rest on        *)
(* StepsInOrder.                                                           *)
(*                                                                         *)
(* Then the two threads together, in a process that lives and whose        *)
(* keyboard takes what it is told: PanelCustody under every interleaving   *)
(* with sleep, hotplug, changes of brightness and the failure of any other *)
(* call, also of the panel's unless the daemon is deceived about it.       *)
(* Inductive invariant (CustodyInv): a list that dims has the panel saved  *)
(* (Owing), the keyboard is only saved together with the panel, since a    *)
(* saved keyboard alone makes the next half close resume a dim, a restore  *)
(* clears the keyboard before the panel, and the power thread clears       *)
(* neither; where a panel can refuse, one that is lit shows the user's     *)
(* choice, so that what a failing dim forgets is not owed any more.        *)
(*                                                                         *)
(* On the same ground, the use of the external displays (ContractInv): a   *)
(* record is in memory or taken and about to come back, and an empty one   *)
(* always goes with a saved panel, so that no start disables over it.      *)
(***************************************************************************)
EXTENDS DaemonProofs

Excludes(kinds) == Environment \cap kinds = {}

\* The system does not sleep, so that the monitor thread is alone, and panel,
\* keyboard and recovery file take what they are told.
Steady == Excludes({"sleep", "disk", "panelSet", "keysSet"})

\* External displays can be listed and the cursor always be locked and unlocked.
Capturing == Excludes({"externalList", "cursorLock", "cursorUnlock"})

\* External displays stay connected and come back when they are told to.
Wired == Capturing /\ Excludes({"hotplug", "externalRestore"})

Alone == todo["power"] = << >> /\ power = "awake"

\* The steps the monitor has left.
Left == todo["monitor"]

\* The process has its state: recover_state_if_needed has read the file.
Loaded == alive /\ ~Has(Left, "load")

\* No capture of external displays goes into memory without being persisted.
WholeCaptures == Excludes({"externalDisable"}) \/ Capturing

Agree(a, b) ==
    /\ a.internal = b.internal /\ a.keyboard = b.keyboard
    /\ WholeCaptures => a.external = b.external

\* The steps on the way from memory to the file.
Saving == {"snapshot", "persist", "write", "persistIfChanged"}

FileInv ==
    /\ ~Loaded => saved = NothingSaved
    /\ Has(Left, "persist") /\ ~Has(Left, "snapshot") => image["monitor"] = saved
    /\ Has(Left, "write") => image["monitor"] = saved /\ saved # NothingSaved
    /\ Has(Left, "persistIfChanged") => changed \/ Agree(FileContents, saved)
    /\ Loaded /\ (\A x \in Saving : ~Has(Left, x)) => Agree(FileContents, saved)
    /\ Has(Left, "readPanel") => Agree(FileContents, saved)

\* The displays are written down, or were found to be by someone else.
Captured == saved.external # Nothing \/ externalFlag

CaptureInv ==
    /\ cursorLocked =>
          \/ Captured
          \/ Has(Left, "recaptureExternal") /\ ~Has(Left, "lockCursor")
    /\ Has(Left, "recaptureExternal") /\ ~Has(Left, "lockCursor") => changed \/ Captured
    /\ Has(Left, "lockCursor") =>
          Captured \/ Has(Left, "captureExternal") \/ Has(Left, "recaptureExternal")
    /\ Has(Left, "takeExternal") \/ Has(Left, "restoreExternal") =>
          ~cursorLocked \/ Has(Left, "unlockCursor")

\* The persist that writes down what was dimmed is still to come.
Unwritten ==
    /\ custody = "inMemory"
    /\ \/ Has(Left, "persist") \/ Has(Left, "write")
       \/ Has(Left, "persistIfChanged") /\ changed

\* The steps that come after the panel was saved.
Dims == {"dimPanel", "redimPanel", "captureKeys", "captureExternal", "recaptureExternal",
         "lockCursor"}

Owes(s, owed) ==
    /\ \A x \in Dims : Has(s, x) => Has(s, "readPanel") \/ owed.internal # Nothing
    /\ Has(s, "restorePanel") => Has(s, "restoreKeys") \/ owed.keyboard = Nothing
    /\ owed.keyboard # Nothing => owed.internal # Nothing

Known(owed) ==
    \/ chosenPanel = 0
    \/ panel = chosenPanel /\ owed.internal = Nothing
    \/ owed.internal = chosenPanel

PanelInv ==
    /\ Owes(Left, saved)
    /\ FileContents.keyboard # Nothing => FileContents.internal # Nothing
    /\ Loaded => custody = "lost" \/ Known(saved)
    /\ custody = "lost" \/ Unwritten \/ Known(FileContents)

KnownKeys(owed) ==
    \/ keys = KeysDue /\ owed.keyboard = Nothing
    \/ owed.keyboard = KeysDue

KeysInv ==
    /\ Has(Left, "captureKeys") => saved.keyboard = Nothing
    /\ Loaded => custody = "lost" \/ KnownKeys(saved)
    /\ custody = "lost" \/ Unwritten \/ KnownKeys(FileContents)

ExternalInv ==
    /\ plugged = Displays
    /\ Has(Left, "takeExternal") => Has(Left, "restoreExternal")
    /\ taken # Nothing => Has(Left, "restoreExternal") /\ ~Has(Left, "takeExternal")
    /\ Has(Left, "restorePanel") \/ Has(Left, "restoreExternal") =>
          Has(Left, "takeExternal") \/ saved.external = Nothing
    /\ Has(Left, "captureExternal") => saved.external = Nothing
    /\ saved.external # Nothing => saved.internal # Nothing
    /\ FileContents.external # Nothing => FileContents.internal # Nothing
    /\ Loaded => custody = "lost" \/ dark \subseteq Ids(saved.external) \cup Ids(taken)
    /\ custody = "lost" \/ Unwritten \/ dark \subseteq Ids(FileContents.external)

CursorInv ==
    /\ Has(Left, "persistIfChanged") => FileContents.internal = saved.internal
    /\ frozen /\ Has(Left, "restorePanel") => Has(Left, "unlockCursor")
    /\ Loaded /\ frozen => custody = "lost" \/ saved.internal # Nothing
    /\ frozen => custody = "lost" \/ Unwritten \/ FileContents.internal # Nothing

ShutdownInv ==
    Has(Left, "exit") =>
        /\ frozen => Has(Left, "unlockCursor")
        /\ caffeinate => Has(Left, "stopCaffeinate")
        /\ dark # {} => custody = "lost" \/ Has(Left, "restoreExternal")
        /\ saved.external # Nothing => Has(Left, "takeExternal")
        /\ saved.keyboard # Nothing => Has(Left, "restoreKeys")
        /\ saved.internal # Nothing => Has(Left, "restorePanel")
        /\ file = saved \/ \E x \in {"snapshot", "persist", "write"} : Has(Left, x)

-----------------------------------------------------------------------------
(* The monitor thread alone. *)

\* What every reachable state of a steady daemon satisfies.
Ground == TypeOK /\ LockInv /\ MonitorOrdered /\ Alone

\* What does not happen to a steady daemon.
LEMMA SteadyMay ==
    ASSUME Steady
    PROVE  ~May("sleep") /\ ~May("disk") /\ ~May("panelSet") /\ ~May("keysSet")
BY DEF Steady, Excludes, May

\* The power thread has nothing to do, and never gets anything to do.
LEMMA NextAlone ==
    ASSUME Steady, TypeOK, Alone, [Next]_vars
    PROVE  /\ Alone'
           /\ \/ MonitorOnly \/ Shared("monitor") \/ (World /\ ~PowerChange) \/ Tick
              \/ UNCHANGED vars
<1> "monitor" \in Threads /\ "power" \in Threads
  BY ThreadsDiffer
<1>1. todo["power"] = << >> /\ power = "awake" /\ todo \in [Threads -> Lists]
  BY DEF Alone, TypeOK, TodoType, Lists
<1>2. ASSUME PowerThread PROVE FALSE
  <2>1. ~WillSleep /\ ~DidWake
    BY <1>1 DEF WillSleep, DidWake
  <2>2. \A step : ~At("power", step)
    BY <1>1 DEF At
  <2>3. ~AllowSleep
    BY <2>2 DEF AllowSleep
  <2>4. ~Shared("power")
    BY <2>2 DEF Shared, Acquire, Release, UnlockCursor, RestoreKeys, RestorePanel,
       StopCaffeinate, Snapshot, PersistImage, Write
  <2> QED BY <1>2, <2>1, <2>3, <2>4 DEF PowerThread
<1>3. ASSUME PowerChange PROVE FALSE
  BY <1>1, <1>3, SteadyMay DEF PowerChange
<1>4. \/ MonitorOnly \/ Shared("monitor") \/ (World /\ ~PowerChange) \/ Tick
      \/ UNCHANGED vars
  BY <1>2, <1>3 DEF Next, Monitor
<1>5. ASSUME NEW steps, Continue("monitor", steps) PROVE todo'["power"] = todo["power"]
  BY <1>1, <1>5 DEF Continue
<1>6. CASE Die
  <2>1. todo'["power"] = << >> /\ power' = power
    BY <1>6 DEF Die, worldVars
  <2> QED BY <1>1, <1>4, <2>1 DEF Alone
<1>7. CASE MonitorOnly /\ ~Die
  <2>1. power' = power
    BY <1>7 DEF MonitorOnly, TakeExternal, RestoreExternal, ReadPanel, DimPanel, RedimPanel,
       CaptureKeys, RedimKeys, CaptureExternal, RecaptureExternal, StartCaffeinate,
       LockCursor, PersistIfChanged, Load, StartObserver, ReadAngle, Decide, LeaveLoop,
       Exit, worldVars
  <2>2. todo'["power"] = todo["power"]
    BY <1>5, <1>7 DEF MonitorOnly, TakeExternal, RestoreExternal, ReadPanel, DimPanel, RedimPanel,
       CaptureKeys, RedimKeys, CaptureExternal, RecaptureExternal, StartCaffeinate,
       LockCursor, PersistIfChanged, Load, StartObserver, ReadAngle, Decide, LeaveLoop,
       Exit, Done, ForgetPending
  <2> QED BY <1>1, <1>4, <2>1, <2>2 DEF Alone
<1>8. CASE Shared("monitor")
  <2>1. power' = power
    BY <1>8 DEF Shared, Acquire, Release, UnlockCursor, RestoreKeys, RestorePanel,
       StopCaffeinate, Snapshot, PersistImage, Write, worldVars
  <2>2. todo'["power"] = todo["power"]
    BY <1>5, <1>8 DEF Shared, Acquire, Release, UnlockCursor, RestoreKeys, RestorePanel,
       StopCaffeinate, Snapshot, PersistImage, Write, Persisted, Done
  <2> QED BY <1>1, <1>4, <2>1, <2>2 DEF Alone
<1>9. CASE World /\ ~PowerChange /\ ~Die
  <2>1. power' = power
    BY <1>9 DEF World, Launch, MoveLid, ChangePanel, ChangeKeys, Hotplug, Signal, Crash,
       ObserverFails, BecomeCalm, worldVars
  <2>2. todo'["power"] = todo["power"]
    BY <1>5, <1>9 DEF World, Launch, MoveLid, ChangePanel, ChangeKeys, Hotplug, Signal,
       Crash, ObserverFails, BecomeCalm
  <2> QED BY <1>1, <1>4, <2>1, <2>2 DEF Alone
<1>10. CASE Tick \/ UNCHANGED vars
  BY <1>1, <1>4, <1>10 DEF Tick, vars, worldVars, Alone
<1> QED BY <1>4, <1>6, <1>7, <1>8, <1>9, <1>10

\* The ground of the proofs below holds throughout.
LEMMA Grounded ==
    ASSUME Steady
    PROVE  Spec => []Ground
<1>1. Init => Alone
  BY ThreadsDiffer DEF Init, Alone
<1>2. TypeOK /\ Alone /\ [Next]_vars => Alone'
  BY NextAlone
<1>3. (Spec => []TypeOK) /\ (Spec => []LockInv) /\ (Spec => []MonitorOrdered)
  BY TypeCorrect, LockDiscipline, StepsInOrder
<1> QED BY <1>1, <1>2, <1>3, PTL DEF Spec, Ground

\* The monitor takes the next step of its list.
LEMMA Passing ==
    ASSUME Ground, todo["monitor"] # << >>, Done("monitor")
    PROVE  /\ Left \in Lists /\ Left' = Tail(Left) /\ Ordered(Left')
           /\ alive
           /\ Has(Left, Head(Left))
           /\ \A x : Has(Left', x) => Has(Left, x)
           /\ \A x : Has(Left, x) => Has(Left', x) \/ x = Head(Left)
           /\ \A x : Has(Left', x) /\ Rank(Head(Left)) > 0 /\ Rank(x) > 0 =>
                        Rank(Head(Left)) < Rank(x)
           /\ Has(Left, "load") => Head(Left) = "load"
<1>1. todo \in [Threads -> Lists] /\ "monitor" \in Threads
  BY ThreadsDiffer DEF Ground, TypeOK, TodoType, Lists
<1>2. Left \in Lists /\ Left # << >> /\ Left' = Tail(Left)
  BY <1>1 DEF Left, Done, Continue
<1>3. Ordered(Left)
  BY DEF Ground, MonitorOrdered, Left
<1>4. alive
  BY <1>1 DEF Ground, LockInv
<1>5. Has(Left, "load") => Head(Left) = "load"
  BY <1>2, <1>3, HeadHas, WithinHas DEF Ordered, Restoring, Starting, Resuming
<1> QED BY <1>2, <1>3, <1>4, <1>5, OrderedTail

\* The monitor goes on with another list.
LEMMA Jumping ==
    ASSUME Ground, NEW steps, Continue("monitor", steps)
    PROVE  Left' = steps
<1>1. todo \in [Threads -> Lists] /\ "monitor" \in Threads
  BY ThreadsDiffer DEF Ground, TypeOK, TodoType, Lists
<1> QED BY <1>1 DEF Left, Continue

\* Where a step is, its list is of the one kind that has it.
LEMMA Standing ==
    ASSUME Ground, NEW x, At("monitor", x)
    PROVE  /\ Left \in Lists /\ Left # << >> /\ Head(Left) = x /\ Has(Left, x)
           /\ Ordered(Left) /\ alive
           /\ x # "load" => Loaded
<1>1. todo \in [Threads -> Lists] /\ "monitor" \in Threads
  BY ThreadsDiffer DEF Ground, TypeOK, TodoType, Lists
<1>2. Left \in Lists /\ Left # << >> /\ Head(Left) = x /\ Ordered(Left)
  BY <1>1 DEF Left, At, Ground, MonitorOrdered
<1>3. alive
  BY <1>1 DEF Ground, LockInv, At
<1>4. Has(Left, "load") => x = "load"
  BY <1>2, HeadHas, WithinHas DEF Ordered, Restoring, Starting, Resuming
<1> QED BY <1>2, <1>3, <1>4, HeadHas DEF Loaded

\* The kinds of lists have little in common.
LEMMA Kinds ==
    ASSUME NEW s, Ordered(s)
    PROVE  /\ Has(s, "load") => \A x : Has(s, x) => x = "load"
           /\ Has(s, "persistIfChanged") \/ Has(s, "redimPanel") \/ Has(s, "redimKeys")
                \/ Has(s, "recaptureExternal") => \A x : Has(s, x) => x \in Resuming
           /\ Has(s, "readPanel") \/ Has(s, "dimPanel") \/ Has(s, "captureKeys")
                \/ Has(s, "captureExternal") => \A x : Has(s, x) => x \in Starting
           /\ Has(s, "exit") \/ Has(s, "restorePanel") \/ Has(s, "restoreKeys")
                \/ Has(s, "takeExternal") \/ Has(s, "restoreExternal")
                \/ Has(s, "unlockCursor") \/ Has(s, "observe") \/ Has(s, "stopCaffeinate")
                => \A x : Has(s, x) => x \in Restoring
BY WithinHas DEF Ordered, Restoring, Starting, Resuming

-----------------------------------------------------------------------------
(* File and memory. *)

\* A step that has no part in saving keeps the file invariant when it leaves
\* what is saved alone, or when it records something that is persisted later.
LEMMA FilePasses ==
    ASSUME Ground, FileInv, todo["monitor"] # << >>, Done("monitor"),
           Head(todo["monitor"]) \notin Saving \cup {"load"},
           UNCHANGED << file, image, alive >>,
           \/ saved' = saved /\ (Has(Left', "persistIfChanged") /\ changed => changed')
           \/ /\ Head(todo["monitor"]) \in Recording
              /\ Has(Left', "persistIfChanged") => changed' \/ Agree(FileContents, saved')
    PROVE  FileInv'
<1> DEFINE step == Head(Left)
<1>1. /\ Left \in Lists /\ Left' = Tail(Left) /\ Ordered(Left') /\ alive
      /\ Has(Left, step)
      /\ \A x : Has(Left', x) => Has(Left, x)
      /\ \A x : Has(Left, x) => Has(Left', x) \/ x = step
      /\ \A x : Has(Left', x) /\ Rank(step) > 0 /\ Rank(x) > 0 => Rank(step) < Rank(x)
      /\ ~Has(Left, "load")
  BY Passing DEF Left
<1>2. step \notin Saving /\ Ordered(Left)
  BY DEF Left, Ground, MonitorOrdered
<1>3. /\ Loaded /\ Loaded' /\ FileContents' = FileContents
      /\ \A x \in Saving : Has(Left', x) <=> Has(Left, x)
  BY <1>1, <1>2 DEF Loaded, FileContents
<1>4. CASE saved' = saved /\ (Has(Left', "persistIfChanged") /\ changed => changed')
  BY <1>1, <1>3, <1>4 DEF FileInv, Agree, Saving
<1>5. CASE step \in Recording /\ (Has(Left', "persistIfChanged") => changed' \/ Agree(FileContents, saved'))
  <2>1. Has(Left, "snapshot") \/ Has(Left, "persistIfChanged")
    BY <1>1, <1>2, <1>5 DEF Ordered
  <2>2. ~Has(Left', "write") /\ (Has(Left', "persist") => Has(Left', "snapshot"))
    BY <1>2, <1>3, <2>1, Kinds DEF Ordered, Saving, Resuming
  <2>3. ~Has(Left', "readPanel")
    BY <1>1, <1>5 DEF Rank, Recording
  <2>4. \E x \in Saving : Has(Left', x)
    BY <1>3, <2>1 DEF Saving
  <2>5. Has(Left', "persistIfChanged") => changed' \/ Agree(FileContents', saved')
    BY <1>3, <1>5
  <2> QED BY <1>3, <2>2, <2>3, <2>4, <2>5 DEF FileInv, Agree
<1> QED BY <1>4, <1>5 DEF Left

\* What touches neither the list, memory nor the file.
LEMMA FileUntouched ==
    ASSUME FileInv, UNCHANGED << todo, saved, file, image, alive, changed >>
    PROVE  FileInv'
BY DEF FileInv, Loaded, Left, FileContents, Agree

\* The end of the process leaves the file as it is.
LEMMA FileDies ==
    ASSUME Ground, FileInv, Die
    PROVE  FileInv'
<1>1. Left' = << >> /\ ~alive' /\ saved' = NothingSaved
  BY ThreadsDiffer DEF Die, Left
<1> QED BY <1>1, EmptyHas DEF FileInv, Loaded

\* The steps of a restore, and those around a section.
LEMMA FileRestores ==
    ASSUME Ground, FileInv,
           \/ Acquire("monitor") \/ Release("monitor") \/ UnlockCursor("monitor")
           \/ TakeExternal \/ RestoreExternal \/ RestoreKeys("monitor")
           \/ RestorePanel("monitor") \/ StopCaffeinate("monitor") \/ StartObserver
    PROVE  FileInv'
<1>1. CASE \/ Acquire("monitor") \/ UnlockCursor("monitor") \/ StopCaffeinate("monitor")
           \/ StartObserver
  BY <1>1, FilePasses DEF Acquire, UnlockCursor, StopCaffeinate, StartObserver, At, savedVars,
     fileVars, loopVars, Saving
<1>2. CASE Release("monitor")
  <2>1. /\ At("monitor", "release") /\ Done("monitor")
        /\ UNCHANGED << saved, file, image, alive >>
    BY <1>2 DEF Release, savedVars, fileVars
  <2>2. Has(Left, "release") /\ Ordered(Left)
    BY <2>1, Standing
  <2>3. ~Has(Left', "persistIfChanged")
    BY <2>1, <2>2, Kinds, Passing DEF At, Resuming
  <2> QED BY <2>1, <2>3, FilePasses DEF At, Saving
<1>3. CASE TakeExternal
  <2>1. /\ At("monitor", "takeExternal") /\ Done("monitor")
        /\ UNCHANGED << file, image, alive >>
    BY <1>3 DEF TakeExternal, fileVars, loopVars
  <2>2. ~Has(Left', "persistIfChanged")
    BY <2>1, Standing, Kinds, Passing DEF At, Restoring
  <2> QED BY <2>1, <2>2, FilePasses DEF At, Saving, Recording
<1>4. CASE RestoreExternal
  <2>1. /\ At("monitor", "restoreExternal") /\ Done("monitor")
        /\ UNCHANGED << file, image, alive >>
    BY <1>4 DEF RestoreExternal, fileVars, loopVars
  <2>2. ~Has(Left', "persistIfChanged")
    BY <2>1, Standing, Kinds, Passing DEF At, Restoring
  <2> QED BY <2>1, <2>2, FilePasses DEF At, Saving, Recording
<1>5. CASE RestoreKeys("monitor")
  <2>1. /\ \/ At("monitor", "restoreKeys")
           \/ At("monitor", "relightKeys") /\ saved' = saved
        /\ Done("monitor") /\ UNCHANGED << file, image, alive, changed >>
    BY <1>5 DEF RestoreKeys, fileVars, loopVars, At
  <2>2. CASE At("monitor", "restoreKeys")
    <3>1. ~Has(Left', "persistIfChanged")
      BY <2>1, <2>2, Standing, Kinds, Passing DEF At, Restoring
    <3> QED BY <2>1, <2>2, <3>1, FilePasses DEF At, Saving, Recording
  <2>3. CASE At("monitor", "relightKeys") /\ saved' = saved
    BY <2>1, <2>3, FilePasses DEF At, Saving
  <2> QED BY <2>1, <2>2, <2>3
<1>6. CASE RestorePanel("monitor")
  <2>1. /\ \/ At("monitor", "restorePanel")
           \/ At("monitor", "relightPanel") /\ saved' = saved
        /\ Done("monitor") /\ UNCHANGED << file, image, alive, changed >>
    BY <1>6 DEF RestorePanel, fileVars, loopVars, At
  <2>2. CASE At("monitor", "restorePanel")
    <3>1. ~Has(Left', "persistIfChanged")
      BY <2>1, <2>2, Standing, Kinds, Passing DEF At, Restoring
    <3> QED BY <2>1, <2>2, <3>1, FilePasses DEF At, Saving, Recording
  <2>3. CASE At("monitor", "relightPanel") /\ saved' = saved
    BY <2>1, <2>3, FilePasses DEF At, Saving
  <2> QED BY <2>1, <2>2, <2>3
<1> QED BY <1>1, <1>2, <1>3, <1>4, <1>5, <1>6

\* The steps of a dim.  An incomplete capture of external displays does not
\* count as a change: it is persisted because the cursor was locked just before.
LEMMA FileDims ==
    ASSUME Steady, Ground, FileInv, Capturing => CaptureInv,
           \/ DimPanel \/ RedimPanel \/ CaptureKeys \/ RedimKeys \/ CaptureExternal
           \/ RecaptureExternal \/ StartCaffeinate \/ LockCursor
    PROVE  FileInv'
<1>1. CASE DimPanel
  <2>1. /\ At("monitor", "dimPanel") /\ Done("monitor")
        /\ UNCHANGED << saved, file, image, alive, changed >>
    BY <1>1, SteadyMay DEF DimPanel, fileVars, loopVars
  <2> QED BY <2>1, FilePasses DEF At, Saving
<1>2. CASE RedimPanel
  <2>1. /\ At("monitor", "redimPanel") /\ Done("monitor") /\ (changed => changed')
        /\ UNCHANGED << saved, file, image, alive >>
    BY <1>2, SteadyMay DEF RedimPanel, fileVars
  <2> QED BY <2>1, FilePasses DEF At, Saving
<1>3. CASE CaptureKeys
  <2>1. /\ At("monitor", "captureKeys") /\ Done("monitor")
        /\ UNCHANGED << file, image, alive >>
    BY <1>3, SteadyMay DEF CaptureKeys, fileVars, loopVars
  <2>2. ~Has(Left', "persistIfChanged")
    BY <2>1, Standing, Kinds, Passing DEF At, Starting
  <2> QED BY <2>1, <2>2, FilePasses DEF At, Saving, Recording
<1>4. CASE RedimKeys
  <2>1. /\ At("monitor", "redimKeys") /\ Done("monitor") /\ (changed => changed')
        /\ UNCHANGED << saved, file, image, alive >>
    BY <1>4, SteadyMay DEF RedimKeys, fileVars
  <2> QED BY <2>1, FilePasses DEF At, Saving
<1>5. CASE CaptureExternal
  <2>1. /\ At("monitor", "captureExternal") /\ Done("monitor")
        /\ UNCHANGED << file, image, alive >>
    BY <1>5 DEF CaptureExternal, fileVars, loopVars
  <2>2. ~Has(Left', "persistIfChanged")
    BY <2>1, Standing, Kinds, Passing DEF At, Starting
  <2> QED BY <2>1, <2>2, FilePasses DEF At, Saving, Recording
<1>6. CASE RecaptureExternal
  <2>1. /\ At("monitor", "recaptureExternal") /\ Done("monitor")
        /\ UNCHANGED << file, image, alive >>
        /\ saved'.internal = saved.internal /\ saved'.keyboard = saved.keyboard
        /\ changed => changed'
        /\ \/ saved' = saved
           \/ ~Captured /\ (~May("externalDisable") => changed')
    <3>1. /\ At("monitor", "recaptureExternal") /\ Done("monitor")
          /\ UNCHANGED << file, image, alive >> /\ saved \in SavedState
          /\ changed \in BOOLEAN
      BY <1>6 DEF RecaptureExternal, fileVars, Ground, TypeOK, SavedType, LoopType
    <3>2. CASE UNCHANGED << saved, changed >>
      BY <3>1, <3>2
    <3>3. ASSUME ~Captured, NEW disabled \in SUBSET Online, DisableExternal(disabled),
                 saved' = [saved EXCEPT !.external = disabled],
                 changed' = (changed \/ disabled = Online)
          PROVE  /\ saved'.internal = saved.internal /\ saved'.keyboard = saved.keyboard
                 /\ changed => changed'
                 /\ ~May("externalDisable") => changed'
      BY <3>1, <3>3 DEF DisableExternal, SavedState
    <3>4. \/ UNCHANGED << saved, changed >>
          \/ /\ ~Captured
             /\ \E disabled \in SUBSET Online :
                   /\ DisableExternal(disabled)
                   /\ saved' = [saved EXCEPT !.external = disabled]
                   /\ changed' = (changed \/ disabled = Online)
      BY <1>6 DEF RecaptureExternal, Captured
    <3> QED BY <3>1, <3>2, <3>3, <3>4
  <2>2. Has(Left, "recaptureExternal") /\ ~Has(Left, "lockCursor")
    <3>1. Rank("recaptureExternal") = 10 /\ Rank("lockCursor") = 9
      BY DEF Rank
    <3>2. Head(Left) = "recaptureExternal"
      BY <2>1, Standing
    <3>3. ~Has(Left', "lockCursor")
      BY <2>1, <3>1, <3>2, Passing DEF At
    <3> QED BY <2>1, <3>2, <3>3, Passing, Standing DEF At
  <2>3. Has(Left', "persistIfChanged") => Has(Left, "persistIfChanged")
    BY <2>1, Passing DEF At
  <2>4. CASE saved' = saved
    BY <2>1, <2>4, FilePasses DEF At, Saving
  <2>5. CASE ~Captured /\ (~May("externalDisable") => changed')
    <3>1. Capturing => changed'
      BY <2>1, <2>2, <2>5 DEF CaptureInv
    <3>2. WholeCaptures => changed'
      BY <2>5, <3>1 DEF WholeCaptures, Excludes, May
    <3>3. Has(Left', "persistIfChanged") => changed' \/ Agree(FileContents, saved')
      BY <2>1, <2>3, <3>2 DEF FileInv, Agree
    <3> QED BY <2>1, <3>3, FilePasses DEF At, Saving, Recording
  <2> QED BY <2>1, <2>4, <2>5
<1>7. CASE StartCaffeinate
  <2>1. /\ At("monitor", "startCaffeinate") /\ Done("monitor") /\ (changed => changed')
        /\ UNCHANGED << saved, file, image, alive >>
    BY <1>7 DEF StartCaffeinate, fileVars, savedVars, Ground, TypeOK, LoopType, FlagType
  <2> QED BY <2>1, FilePasses DEF At, Saving
<1>8. CASE LockCursor
  <2>1. /\ At("monitor", "lockCursor") /\ Done("monitor") /\ (changed => changed')
        /\ UNCHANGED << saved, file, image, alive >>
    BY <1>8 DEF LockCursor, fileVars, savedVars
  <2> QED BY <2>1, FilePasses DEF At, Saving
<1> QED BY <1>1, <1>2, <1>3, <1>4, <1>5, <1>6, <1>7, <1>8

\* The panel was saved, or could not be read before anything was changed.
LEMMA FileReads ==
    ASSUME Ground, FileInv, ReadPanel
    PROVE  FileInv'
<1>1. At("monitor", "readPanel") /\ UNCHANGED << file, image, alive >>
  BY DEF ReadPanel, fileVars, loopVars
<1>2. CASE Done("monitor")
  <2>1. ~Has(Left', "persistIfChanged")
    BY <1>1, <1>2, Standing, Kinds, Passing DEF At, Starting
  <2> QED BY <1>1, <1>2, <2>1, FilePasses DEF At, Saving, Recording
<1>3. CASE Continue("monitor", << "release" >>) /\ saved' = saved
  <2>1. Left' = << "release" >> /\ \A x : Has(<< "release" >>, x) <=> x = "release"
    BY <1>3, Jumping, SingleHas
  <2>2. Loaded /\ Loaded' /\ FileContents' = FileContents
    BY <1>1, <2>1, Standing DEF Loaded, FileContents
  <2>3. Agree(FileContents, saved)
    BY <1>1, Standing DEF FileInv
  <2> QED BY <1>3, <2>1, <2>2, <2>3 DEF FileInv, Agree
<1> QED BY <1>2, <1>3 DEF ReadPanel
\* What the sections of a restore have, and the steps around them.
LEMMA RecoverHas ==
    ASSUME NEW x
    PROVE  /\ Has(RecoverSteps, x) <=>
                \/ x \in {"acquire", "release", "snapshot", "persist", "observe"}
                \/ Has(RestoreEffects, x)
           /\ Has(ShutdownSteps, x) <=>
                \/ x \in {"acquire", "release", "snapshot", "persist", "exit"}
                \/ Has(RestoreEffects, x)
<1>1. /\ Outside(RestoreEffects) \in Lists
      /\ Has(Outside(RestoreEffects), x)
            <=> x \in {"acquire", "release", "snapshot", "persist"} \/ Has(RestoreEffects, x)
  BY OutsideHas, StepListTypes
<1>2. << "observe" >> \in Lists /\ << "exit" >> \in Lists
  BY SingletonType DEF Steps
<1> QED BY <1>1, <1>2, HasJoin, SingleHas DEF RecoverSteps, ShutdownSteps

\* What a decision starts: nothing that saves unless it is a section of its own.
LEMMA DecidedHas ==
    ASSUME Ground, Decide
    PROVE  /\ Left = << >> /\ alive /\ Loaded
           /\ UNCHANGED << effects, deviceVars, savedVars, flagVars, changed, shouldRun, alive,
                           fileVars, worldVars, ghostVars >>
           /\ \/ Left' = << >>
              \/ \E s \in {RestoreEffects, KeepEffects, PrepareEffects} :
                    \A x : Has(Left', x) <=> \/ x \in {"acquire", "release", "snapshot", "persist"}
                                             \/ Has(s, x)
              \/ /\ \A x : Has(Left', x) <=> Has(StartSteps, x)
                 /\ saved.internal = Nothing /\ saved.keyboard = Nothing
              \/ /\ \A x : Has(Left', x) <=> Has(ResumeSteps, x)
                 /\ saved.internal # Nothing \/ saved.keyboard # Nothing
<1> DEFINE action == Decision(policy, angle, Pending).action
<1>1. policy \in Policy /\ angle \in Angles
  BY DEF Ground, TypeOK, LoopType, Option, Decide
<1>2. action \in Actions
  BY <1>1, DecisionType DEF Decisions
<1>3. /\ Left = << >> /\ alive
      /\ UNCHANGED << effects, deviceVars, savedVars, flagVars, changed, shouldRun, alive,
                      fileVars, worldVars, ghostVars >>
  BY DEF Decide, Resting, Left
<1>4. Left' = ActionSteps(action)
  BY Jumping DEF Decide
<1>5. /\ action = "resume" => saved.internal # Nothing \/ saved.keyboard # Nothing
      /\ action = "start" => saved.internal = Nothing /\ saved.keyboard = Nothing
  BY <1>1, DimPending DEF Pending
<1> HIDE DEF action
<1>6. /\ RestoreEffects \in Lists /\ KeepEffects \in Lists /\ PrepareEffects \in Lists
  BY StepListTypes
<1>7. Loaded
  BY <1>3, EmptyHas DEF Loaded
<1>8. CASE action \in {"restore", "restoreKeep", "prepare"}
  <2>1. PICK s \in {RestoreEffects, KeepEffects, PrepareEffects} : Left' = Inside(s)
    BY <1>4, <1>8 DEF ActionSteps
  <2> QED BY <1>3, <1>6, <1>7, <2>1, InsideHas
<1>9. CASE action \in {"none", "start", "resume"}
  BY <1>3, <1>4, <1>5, <1>7, <1>9 DEF ActionSteps
<1> QED BY <1>2, <1>8, <1>9 DEF Actions

\* The snapshot is taken, and what was in memory is on its way.
LEMMA FileSnapshot ==
    ASSUME Ground, FileInv, Snapshot("monitor")
    PROVE  FileInv'
<1>1. /\ At("monitor", "snapshot") /\ Done("monitor") /\ UNCHANGED << saved, file, alive >>
      /\ image' = [image EXCEPT !["monitor"] = saved]
  BY DEF Snapshot, savedVars, loopVars
<1>2. image'["monitor"] = saved
  BY <1>1, ThreadsDiffer DEF Ground, TypeOK, FileType
<1>3. /\ Has(Left, "snapshot") /\ Has(Left, "persist") /\ ~Has(Left, "write")
      /\ ~Has(Left, "persistIfChanged") /\ Loaded
  BY <1>1, Standing, Kinds DEF Ordered, Resuming
<1>4. /\ \A x : Has(Left', x) => Has(Left, x)
      /\ \A x : Has(Left, x) => Has(Left', x) \/ x = "snapshot"
  BY <1>1, Passing, Standing DEF At
<1>5. ~Has(Left', "readPanel")
  <2>1. Rank("readPanel") = 1 /\ Rank("snapshot") = 7
    BY DEF Rank
  <2> QED BY <1>1, <2>1, Passing, Standing DEF At
<1>6. Loaded'
  BY <1>1, <1>3, <1>4 DEF Loaded
<1>7. Has(Left', "persist")
  BY <1>3, <1>4
<1> QED BY <1>1, <1>2, <1>3, <1>4, <1>5, <1>6, <1>7 DEF FileInv, Saving

\* What follows a persist saves and reads no more.
LEMMA AfterPersist ==
    ASSUME Ground, NEW step \in {"persist", "write"}, At("monitor", step), Done("monitor")
    PROVE  /\ ~Has(Left, "snapshot") /\ Has(Left, step) /\ Loaded
           /\ \A x \in Saving \cup {"readPanel", "load"} : ~Has(Left', x)
           /\ \A x : Has(Left', x) => Has(Left, x)
<1>1. Rank(step) = 8
  BY DEF Rank
<1>2. /\ Rank("readPanel") = 1 /\ Rank("snapshot") = 7 /\ Rank("persist") = 8
      /\ Rank("write") = 8
  BY DEF Rank
<1>3. Head(Left) = step /\ Has(Left, step) /\ Ordered(Left) /\ Loaded
  BY Standing
<1>4. /\ \A x : Has(Left', x) => Has(Left, x)
      /\ \A x : Has(Left, x) => Has(Left', x) \/ x = step
      /\ \A x : Has(Left', x) /\ Rank(x) > 0 => 8 < Rank(x)
  BY <1>1, <1>3, Passing DEF At
<1>5. ~Has(Left', "readPanel") /\ ~Has(Left', "snapshot") /\ ~Has(Left', "persist")
      /\ ~Has(Left', "write")
  BY <1>2, <1>4
<1>6. ~Has(Left', "persistIfChanged") /\ ~Has(Left', "load")
  BY <1>3, <1>4, Kinds DEF Resuming, Loaded
<1> QED BY <1>3, <1>4, <1>5, <1>6 DEF Saving

\* An empty snapshot removes the file, another one truncates it.
LEMMA FilePersist ==
    ASSUME Steady, Ground, FileInv, PersistImage("monitor")
    PROVE  FileInv'
<1>1. At("monitor", "persist") /\ UNCHANGED << saved, alive >>
  BY DEF PersistImage, savedVars, loopVars
<1>2. /\ Left \in Lists /\ Left # << >> /\ Head(Left) = "persist" /\ Ordered(Left)
      /\ Has(Left, "persist") /\ Loaded
  BY <1>1, Standing
<1>3. ~Has(Left, "snapshot") /\ image["monitor"] = saved
  BY <1>2, OrderedWrite DEF FileInv
<1>4. CASE saved = NothingSaved
  <2>1. file' = NothingSaved /\ Done("monitor")
    BY <1>3, <1>4, SteadyMay DEF PersistImage, Persisted
  <2>2. \A x \in Saving \cup {"readPanel", "load"} : ~Has(Left', x)
    BY <1>1, <2>1, AfterPersist
  <2>3. FileContents' = saved'
    BY <1>1, <1>4, <2>1 DEF FileContents
  <2> QED BY <1>1, <1>2, <2>2, <2>3 DEF FileInv, Saving, Loaded, Agree
<1>5. CASE saved # NothingSaved
  <2>1. Continue("monitor", << "write" >> \o Tail(todo["monitor"])) /\ image' = image
    BY <1>3, <1>5, SteadyMay DEF PersistImage
  <2>2. Left' = << "write" >> \o Tail(Left)
    BY <2>1, Jumping DEF Left
  <2>3. /\ \A x : Has(Left', x) <=> x = "write" \/ Has(Tail(Left), x)
        /\ ~Has(Tail(Left), "persist") /\ Ordered(Left')
    BY <1>2, <2>2, OrderedWrite
  <2>4. \A x : Has(Tail(Left), x) => Has(Left, x)
    BY <1>2, TailKeeps
  <2>5. Has(Left', "write") /\ Loaded' /\ ~Has(Left', "persistIfChanged")
    BY <1>1, <1>2, <2>3, <2>4, Kinds DEF Loaded, Resuming
  <2>6. ~Has(Left', "readPanel")
    <3>1. Rank("persist") = 8 /\ Rank("readPanel") = 1
      BY DEF Rank
    <3> QED BY <1>2, <2>3, <3>1, OrderedTail
  <2>7. image'["monitor"] = saved' /\ saved' # NothingSaved
    BY <1>1, <1>3, <1>5, <2>1
  <2> QED BY <2>3, <2>5, <2>6, <2>7 DEF FileInv, Saving
<1> QED BY <1>4, <1>5

\* The snapshot is written.
LEMMA FileWrite ==
    ASSUME Steady, Ground, FileInv, Write("monitor")
    PROVE  /\ FileInv' /\ FileContents' = saved /\ file' = saved
           /\ \A x \in Saving : ~Has(Left', x)
<1>1. At("monitor", "write") /\ Done("monitor") /\ UNCHANGED << saved, alive >>
  BY DEF Write, Persisted, savedVars, loopVars
<1>2. image["monitor"] = saved /\ saved # NothingSaved
  BY <1>1, Standing DEF FileInv
<1>3. file' = saved
  BY <1>2, SteadyMay DEF Write
<1>4. FileContents' = saved
  BY <1>3, DaemonAssumption DEF FileContents, Ground, TypeOK, SavedType
<1>5. \A x \in Saving \cup {"readPanel", "load"} : ~Has(Left', x)
  BY <1>1, AfterPersist
<1>6. Loaded
  BY <1>1, Standing
<1> QED BY <1>1, <1>3, <1>4, <1>5, <1>6 DEF FileInv, Saving, Loaded, Agree
\* What changed is persisted, and what did not is in the file already.
LEMMA FilePersistIfChanged ==
    ASSUME Ground, FileInv, PersistIfChanged
    PROVE  FileInv'
<1>1. /\ At("monitor", "persistIfChanged") /\ UNCHANGED << saved, file, image, alive, changed >>
      /\ Continue("monitor", IF changed THEN ForgetSteps ELSE << "release" >>)
  BY DEF PersistIfChanged, savedVars, loopVars, fileVars
<1>2. Loaded /\ (changed \/ Agree(FileContents, saved))
  BY <1>1, Standing DEF FileInv
<1>3. CASE changed
  <2>1. Left' = ForgetSteps
    BY <1>1, <1>3, Jumping
  <2> QED BY <1>1, <1>2, <2>1, ForgetHas DEF FileInv, Loaded, Saving
<1>4. CASE ~changed
  <2>1. Left' = << "release" >> /\ \A x : Has(<< "release" >>, x) <=> x = "release"
    BY <1>1, <1>4, Jumping, SingleHas
  <2>2. FileContents' = FileContents
    BY <1>1 DEF FileContents
  <2> QED BY <1>1, <1>2, <1>4, <2>1, <2>2 DEF FileInv, Loaded, Agree
<1> QED BY <1>3, <1>4

\* The next process reads the file, and restores what it says.
LEMMA FileLoad ==
    ASSUME Steady, Ground, FileInv, Load
    PROVE  /\ FileInv' /\ saved = NothingSaved /\ saved' = FileContents
           /\ Left' = RecoverSteps \/ Left' = << "observe" >>
           /\ \A x : Has(Left, x) => x = "load"
           /\ alive /\ UNCHANGED << file, alive >>
<1>1. At("monitor", "load") /\ UNCHANGED << file, image, alive >>
  BY DEF Load, loopVars, fileVars
<1>2. /\ Has(Left, "load") /\ alive /\ ~Loaded /\ \A x : Has(Left, x) => x = "load"
      /\ saved = NothingSaved
  BY <1>1, Standing, Kinds DEF FileInv, Loaded
<1>3. FileContents' = FileContents
  BY <1>1 DEF FileContents
<1>4. CASE Continue("monitor", RecoverSteps) /\ saved' = FileContents
  <2>1. Left' = RecoverSteps
    BY <1>4, Jumping
  <2>2. /\ Has(Left', "snapshot") /\ ~Has(Left', "load")
        /\ ~Has(Left', "write") /\ ~Has(Left', "persistIfChanged")
        /\ ~Has(Left', "readPanel")
    BY <2>1, RecoverHas, EffectsHave
  <2> QED BY <1>1, <1>2, <1>4, <2>1, <2>2 DEF FileInv, Loaded, Saving
<1>5. CASE Continue("monitor", << "observe" >>) /\ saved' = saved /\ FileContents = NothingSaved
  <2>1. Left' = << "observe" >> /\ \A x : Has(<< "observe" >>, x) <=> x = "observe"
    BY <1>5, Jumping, SingleHas
  <2> QED BY <1>1, <1>2, <1>3, <1>5, <2>1 DEF FileInv, Loaded, Saving, Agree
<1> QED BY <1>4, <1>5, SteadyMay DEF Load

\* What a sample starts, file and memory agreeing.
LEMMA FileDecide ==
    ASSUME Ground, FileInv, Decide
    PROVE  FileInv'
<1>1. /\ Left = << >> /\ alive /\ Loaded /\ UNCHANGED << saved, file, image, alive >>
      /\ \/ Left' = << >>
         \/ \E s \in {RestoreEffects, KeepEffects, PrepareEffects} :
               \A x : Has(Left', x) <=> \/ x \in {"acquire", "release", "snapshot", "persist"}
                                        \/ Has(s, x)
         \/ \A x : Has(Left', x) <=> Has(StartSteps, x)
         \/ \A x : Has(Left', x) <=> Has(ResumeSteps, x)
  BY DecidedHas DEF savedVars, fileVars
<1>2. Agree(FileContents, saved) /\ FileContents' = FileContents
  BY <1>1, EmptyHas DEF FileInv, FileContents
<1>3. ~Has(Left', "load") /\ ~Has(Left', "write")
      /\ (Has(Left', "persist") => Has(Left', "snapshot"))
  BY <1>1, EmptyHas, EffectsHave, DimmingHas
<1>4. Agree(FileContents', saved')
  BY <1>1, <1>2 DEF Agree
<1> QED BY <1>1, <1>3, <1>4 DEF FileInv, Loaded

\* A process starts, and one that was told to stop leaves its loop.
LEMMA FileLoops ==
    ASSUME Ground, FileInv, Launch \/ LeaveLoop \/ ReadAngle
    PROVE  FileInv'
<1>1. CASE Launch
  <2>1. /\ ~alive /\ UNCHANGED << saved, file, image >> /\ Left' = BootSteps
    BY <1>1, Jumping DEF Launch, savedVars, fileVars
  <2>2. \A x : Has(Left', x) <=> x = "load"
    BY <2>1, SingleHas DEF BootSteps
  <2>3. saved = NothingSaved
    BY <2>1 DEF FileInv, Loaded
  <2> QED BY <2>1, <2>2, <2>3 DEF FileInv, Loaded
<1>2. CASE LeaveLoop
  <2>1. /\ alive /\ UNCHANGED << saved, file, image, alive >> /\ Left' = ShutdownSteps
    BY <1>2, Jumping DEF LeaveLoop, Resting, savedVars, fileVars, loopVars
  <2>2. /\ Has(Left', "snapshot") /\ ~Has(Left', "load")
        /\ ~Has(Left', "write") /\ ~Has(Left', "persistIfChanged")
        /\ ~Has(Left', "readPanel")
    BY <2>1, RecoverHas, EffectsHave
  <2> QED BY <2>1, <2>2 DEF FileInv, Loaded, Saving
<1>3. CASE ReadAngle
  BY <1>3, FileUntouched DEF ReadAngle, savedVars, fileVars
<1> QED BY <1>1, <1>2, <1>3

\* What the world does that leaves the process, its memory and the file alone.
LEMMA FileWorld ==
    ASSUME FileInv,
           \/ MoveLid \/ ChangePanel \/ ChangeKeys \/ Signal \/ BecomeCalm \/ Tick
           \/ (\E d \in Displays : Hotplug(d)) \/ UNCHANGED vars
    PROVE  FileInv'
<1>1. CASE MoveLid \/ BecomeCalm \/ Tick \/ Signal
  BY <1>1, FileUntouched
  DEF MoveLid, BecomeCalm, Tick, Signal, savedVars, fileVars, loopVars
<1>2. CASE ChangePanel \/ ChangeKeys
  BY <1>2, FileUntouched DEF ChangePanel, ChangeKeys, savedVars, fileVars, loopVars
<1>3. CASE \E d \in Displays : Hotplug(d)
  BY <1>3, FileUntouched DEF Hotplug, savedVars, fileVars, loopVars
<1>4. CASE UNCHANGED vars
  BY <1>4, FileUntouched DEF vars, savedVars, fileVars, loopVars
<1> QED BY <1>1, <1>2, <1>3, <1>4

\* No step of a steady daemon breaks the relation of file and memory.
LEMMA NextFile ==
    ASSUME Steady, Ground, FileInv, Capturing => CaptureInv, [Next]_vars
    PROVE  FileInv'
<1>1. CASE Die
  BY <1>1, FileDies
<1>2. CASE MonitorOnly /\ ~Die
  BY <1>2, FileRestores, FileDims, FileReads, FilePersistIfChanged, FileLoad, FileDecide,
     FileLoops DEF MonitorOnly, Exit
<1>3. CASE Shared("monitor")
  BY <1>3, FileRestores, FileSnapshot, FilePersist, FileWrite DEF Shared
<1>4. CASE World /\ ~PowerChange /\ ~Die
  BY <1>4, FileLoops, FileWorld DEF World, Crash, ObserverFails
<1>5. CASE Tick \/ UNCHANGED vars
  BY <1>5, FileWorld
<1> QED BY <1>1, <1>2, <1>3, <1>4, <1>5, NextAlone DEF Ground
-----------------------------------------------------------------------------
(* The locked cursor and the displays. *)

\* What locks, captures or takes nothing.
LEMMA CaptureKept ==
    ASSUME CaptureInv, cursorLocked' = cursorLocked, Captured => Captured',
           Has(Left', "recaptureExternal") /\ changed => changed',
           \A x \in {"recaptureExternal", "lockCursor", "captureExternal", "unlockCursor"} :
              Has(Left', x) <=> Has(Left, x),
           \A x \in {"takeExternal", "restoreExternal"} : Has(Left', x) => Has(Left, x)
    PROVE  CaptureInv'
BY DEF CaptureInv

\* The next step of a list does none of this.
LEMMA CapturePasses ==
    ASSUME Ground, CaptureInv, NEW step, At("monitor", step), Done("monitor"),
           cursorLocked' = cursorLocked, Captured => Captured',
           Has(Left', "recaptureExternal") /\ changed => changed',
           step \notin {"recaptureExternal", "lockCursor", "captureExternal", "unlockCursor"}
    PROVE  CaptureInv'
<1>1. /\ Head(Left) = step
      /\ \A x : Has(Left', x) => Has(Left, x)
      /\ \A x : Has(Left, x) => Has(Left', x) \/ x = step
  BY Standing, Passing DEF At
<1> QED BY <1>1, CaptureKept

\* Another list begins or what is left of one ends.
LEMMA CaptureJumps ==
    ASSUME CaptureInv, cursorLocked' = cursorLocked, Captured => Captured',
           ~Has(Left, "recaptureExternal"),
           Has(Left', "recaptureExternal") => Has(Left', "lockCursor"),
           Has(Left', "lockCursor") =>
              Has(Left', "captureExternal") \/ Has(Left', "recaptureExternal"),
           Has(Left', "takeExternal") \/ Has(Left', "restoreExternal") =>
              Has(Left', "unlockCursor")
    PROVE  CaptureInv'
BY DEF CaptureInv

\* Captured is about one field of what is saved.
LEMMA CapturedSame ==
    ASSUME saved'.external = saved.external, externalFlag' = externalFlag
    PROVE  Captured' = Captured
BY DEF Captured

\* In a restore the cursor is unlocked before the displays are taken.
LEMMA CaptureRestores ==
    ASSUME Capturing, Ground, CaptureInv,
           UnlockCursor("monitor") \/ TakeExternal \/ RestoreExternal
    PROVE  CaptureInv'
<1>1. PICK x \in {"unlockCursor", "takeExternal", "restoreExternal"} :
         At("monitor", x) /\ Done("monitor")
  BY DEF UnlockCursor, TakeExternal, RestoreExternal
<1>2. /\ Has(Left, x) /\ Head(Left) = x /\ Ordered(Left)
      /\ \A y : Has(Left', y) => Has(Left, y)
      /\ \A y : Has(Left, y) => Has(Left', y) \/ y = x
      /\ \A y : Has(Left', y) /\ Rank(x) > 0 /\ Rank(y) > 0 => Rank(x) < Rank(y)
  BY <1>1, Standing, Passing DEF At
<1>3. ~Has(Left', "lockCursor") /\ ~Has(Left', "recaptureExternal")
  BY <1>2, Kinds DEF Restoring
<1>4. ~cursorLocked'
  <2>1. CASE UnlockCursor("monitor")
    BY <2>1 DEF UnlockCursor, Capturing, Excludes, May
  <2>2. CASE TakeExternal \/ RestoreExternal
    <3>1. cursorLocked' = cursorLocked
      BY <2>2 DEF TakeExternal, RestoreExternal, flagVars
    <3>2. Has(Left, "takeExternal") \/ Has(Left, "restoreExternal")
      BY <2>2, Standing DEF TakeExternal, RestoreExternal
    <3>3. ~Has(Left, "unlockCursor")
      <4>1. Head(Left) \in {"takeExternal", "restoreExternal"}
        BY <2>2, Standing DEF TakeExternal, RestoreExternal
      <4>2. ~Has(Left', "unlockCursor")
        BY <1>2, <4>1 DEF Rank
      <4> QED BY <1>2, <4>1, <4>2
    <3> QED BY <3>1, <3>2, <3>3 DEF CaptureInv
  <2> QED BY <2>1, <2>2
<1> QED BY <1>3, <1>4 DEF CaptureInv

\* A capture that can list the displays writes something down, or finds them
\* disabled already.
LEMMA CaptureCaptures ==
    ASSUME Capturing, Ground, CaptureInv, CaptureExternal \/ RecaptureExternal
    PROVE  CaptureInv'
<1>1. /\ saved \in SavedState /\ ~May("externalList")
      /\ \A ids \in SUBSET Online : ids # Nothing
  BY DaemonAssumption DEF Ground, TypeOK, SavedType, DeviceType, Capturing, Excludes, May, Online
<1>2. ASSUME NEW ids \in SUBSET Online,
             saved' = IF saved.external = Nothing THEN [saved EXCEPT !.external = ids]
                      ELSE saved
      PROVE  saved'.external # Nothing
  BY <1>1, <1>2 DEF SavedState
<1>3. Captured' /\ cursorLocked' = cursorLocked
  <2>1. CASE CaptureExternal
    BY <1>1, <1>2, <2>1 DEF CaptureExternal, Captured
  <2>2. CASE RecaptureExternal
    BY <1>1, <1>2, <2>2 DEF RecaptureExternal, Captured
  <2> QED BY <2>1, <2>2
<1>4. PICK x \in {"captureExternal", "recaptureExternal"} :
         At("monitor", x) /\ Done("monitor")
  BY DEF CaptureExternal, RecaptureExternal
<1>5. /\ Has(Left, x) /\ Ordered(Left)
      /\ \A y : Has(Left', y) => Has(Left, y)
  BY <1>4, Standing, Passing DEF At
<1>6. ~Has(Left', "takeExternal") /\ ~Has(Left', "restoreExternal")
  BY <1>5, Kinds DEF Starting, Resuming
<1> QED BY <1>3, <1>6 DEF CaptureInv

\* The cursor is locked once the displays are written down, or before they are
\* for the second time, and that is a change to persist.
LEMMA CaptureLocks ==
    ASSUME Capturing, Ground, CaptureInv, LockCursor
    PROVE  CaptureInv'
<1>1. /\ At("monitor", "lockCursor") /\ Done("monitor") /\ UNCHANGED << saved, externalFlag >>
      /\ \/ changed' = TRUE
         \/ cursorLocked /\ UNCHANGED << cursorLocked, changed >>
  BY DEF LockCursor, savedVars, Capturing, Excludes, May
<1>2. Rank("lockCursor") = 9 /\ Rank("captureExternal") = 4
  BY DEF Rank
<1>3. /\ Has(Left, "lockCursor") /\ Head(Left) = "lockCursor" /\ Ordered(Left)
      /\ \A x : Has(Left', x) => Has(Left, x)
      /\ \A x : Has(Left, x) => Has(Left', x) \/ x = "lockCursor"
      /\ ~Has(Left', "lockCursor") /\ ~Has(Left, "captureExternal")
  BY <1>1, <1>2, Standing, Passing DEF At
<1>4. Captured' = Captured
  BY <1>1, CapturedSame
<1>5. Captured \/ Has(Left', "recaptureExternal")
  BY <1>3 DEF CaptureInv
<1>6. changed' \/ Captured
  BY <1>1, <1>3 DEF CaptureInv
<1>7. ~Has(Left', "takeExternal") /\ ~Has(Left', "restoreExternal")
  BY <1>3, Kinds DEF Restoring
<1> QED BY <1>3, <1>4, <1>5, <1>6, <1>7 DEF CaptureInv

\* The steps that neither lock nor capture.
LEMMA CaptureOthers ==
    ASSUME Steady, Ground, CaptureInv,
           \/ Acquire("monitor") \/ Release("monitor") \/ RestoreKeys("monitor")
           \/ RestorePanel("monitor") \/ StopCaffeinate("monitor") \/ Snapshot("monitor")
           \/ Write("monitor") \/ StartObserver \/ DimPanel \/ RedimPanel \/ CaptureKeys
           \/ RedimKeys \/ StartCaffeinate
    PROVE  CaptureInv'
<1>1. saved \in SavedState /\ changed \in BOOLEAN
  BY DEF Ground, TypeOK, SavedType, LoopType
<1>2. CASE \/ Acquire("monitor") \/ StopCaffeinate("monitor") \/ Snapshot("monitor")
           \/ Write("monitor") \/ StartObserver
  <2>1. /\ UNCHANGED << saved, externalFlag, cursorLocked, changed >> /\ Done("monitor")
        /\ \E step \in {"acquire", "stopCaffeinate", "snapshot", "write", "observe"} :
              At("monitor", step)
    BY <1>2 DEF Acquire, StopCaffeinate, Snapshot, Write, Persisted, StartObserver, savedVars,
       flagVars, loopVars
  <2> QED BY <2>1, CapturedSame, CapturePasses
<1>3. CASE Release("monitor")
  <2>1. /\ UNCHANGED << saved, externalFlag, cursorLocked >> /\ Done("monitor")
        /\ At("monitor", "release")
    BY <1>3 DEF Release, savedVars, flagVars
  <2>2. Has(Left, "release") /\ Ordered(Left)
    BY <2>1, Standing
  <2>3. ~Has(Left', "recaptureExternal")
    BY <2>1, <2>2, Kinds, Passing DEF At, Resuming
  <2> QED BY <2>1, <2>3, CapturedSame, CapturePasses
<1>4. CASE RestoreKeys("monitor") \/ RestorePanel("monitor")
  <2>1. /\ saved'.external = saved.external /\ UNCHANGED << externalFlag, cursorLocked, changed >>
        /\ Done("monitor")
        /\ \E step \in {"restoreKeys", "relightKeys", "restorePanel", "relightPanel"} :
              At("monitor", step)
    BY <1>1, <1>4 DEF RestoreKeys, RestorePanel, SavedState, flagVars, loopVars
  <2> QED BY <2>1, CapturedSame, CapturePasses
<1>5. CASE DimPanel \/ CaptureKeys
  <2>1. /\ saved'.external = saved.external /\ UNCHANGED << externalFlag, cursorLocked, changed >>
        /\ Done("monitor")
        /\ \E step \in {"dimPanel", "captureKeys"} : At("monitor", step)
    BY <1>1, <1>5, SteadyMay DEF DimPanel, CaptureKeys, SavedState, flagVars, loopVars
  <2> QED BY <2>1, CapturedSame, CapturePasses
<1>6. CASE RedimPanel \/ RedimKeys
  <2>1. /\ saved' = saved /\ UNCHANGED << externalFlag, cursorLocked >>
        /\ Done("monitor") /\ (changed => changed')
        /\ \E step \in {"redimPanel", "redimKeys"} : At("monitor", step)
    BY <1>1, <1>6, SteadyMay DEF RedimPanel, RedimKeys, flagVars
  <2> QED BY <2>1, CapturedSame, CapturePasses
<1>7. CASE StartCaffeinate
  <2>1. /\ saved' = saved /\ UNCHANGED << externalFlag, cursorLocked >>
        /\ Done("monitor") /\ (changed => changed')
        /\ At("monitor", "startCaffeinate")
    BY <1>1, <1>7 DEF StartCaffeinate, savedVars, Ground, TypeOK, FlagType
  <2> QED BY <2>1, CapturedSame, CapturePasses
<1> QED BY <1>2, <1>3, <1>4, <1>5, <1>6, <1>7

\* The steps that go on with another list.
LEMMA CaptureLists ==
    ASSUME Steady, Ground, CaptureInv, FileInv,
           \/ ReadPanel \/ PersistIfChanged \/ PersistImage("monitor") \/ Load \/ Decide
           \/ LeaveLoop \/ Launch
    PROVE  CaptureInv'
<1>1. saved \in SavedState
  BY DEF Ground, TypeOK, SavedType
<1>2. CASE ReadPanel
  <2>1. /\ At("monitor", "readPanel") /\ UNCHANGED << externalFlag, cursorLocked, changed >>
        /\ saved'.external = saved.external
    BY <1>1, <1>2 DEF ReadPanel, SavedState, flagVars, loopVars
  <2>2. CASE Done("monitor")
    BY <2>1, <2>2, CapturedSame, CapturePasses
  <2>3. CASE Continue("monitor", << "release" >>)
    <3>1. \A x : Has(Left', x) <=> x = "release"
      BY <2>3, Jumping, SingleHas
    <3>2. ~Has(Left, "recaptureExternal")
      BY <2>1, Standing, Kinds DEF Starting
    <3> QED BY <2>1, <3>1, <3>2, CapturedSame, CaptureJumps
  <2> QED BY <1>2, <2>2, <2>3 DEF ReadPanel
<1>3. CASE PersistIfChanged
  <2>1. /\ At("monitor", "persistIfChanged") /\ Continue("monitor", IF changed THEN ForgetSteps ELSE << "release" >>)
        /\ UNCHANGED << saved, externalFlag, cursorLocked >>
    BY <1>3 DEF PersistIfChanged, savedVars, flagVars
  <2>2. \A x : Has(Left', x) => x \in {"snapshot", "persist", "release"}
    BY <2>1, Jumping, SingleHas, ForgetHas
  <2>3. ~Has(Left, "recaptureExternal")
    <3>1. Rank("persistIfChanged") = 11 /\ Rank("recaptureExternal") = 10
      BY DEF Rank
    <3>2. /\ Left \in Lists /\ Left # << >> /\ Ordered(Left) /\ Head(Left) = "persistIfChanged"
      BY <2>1, Standing
    <3> QED BY <3>1, <3>2, OrderedTail
  <2> QED BY <2>1, <2>2, <2>3, CapturedSame, CaptureJumps
<1>4. CASE PersistImage("monitor")
  <2>1. /\ At("monitor", "persist") /\ UNCHANGED << saved, externalFlag, cursorLocked, changed >>
        /\ Done("monitor") \/ Continue("monitor", << "write" >> \o Tail(todo["monitor"]))
    BY <1>4 DEF PersistImage, Persisted, savedVars, flagVars, loopVars
  <2>2. CASE Done("monitor")
    BY <2>1, <2>2, CapturedSame, CapturePasses
  <2>3. CASE Continue("monitor", << "write" >> \o Tail(todo["monitor"]))
    <3>1. Left' = << "write" >> \o Tail(Left)
      BY <2>3, Jumping DEF Left
    <3>2. Left \in Lists /\ Left # << >> /\ Ordered(Left) /\ Head(Left) = "persist"
      BY <2>1, Standing
    <3>3. \A x : x \notin {"write", "persist"} => (Has(Left', x) <=> Has(Left, x))
      BY <3>1, <3>2, OrderedWrite, TailKeeps
    <3> QED BY <2>1, <3>3, CapturedSame, CaptureKept
  <2> QED BY <2>1, <2>2, <2>3
<1>5. CASE Load
  <2>1. UNCHANGED << externalFlag, cursorLocked >>
    BY <1>5 DEF Load, flagVars
  <2>2. /\ saved = NothingSaved /\ (Left' = RecoverSteps \/ Left' = << "observe" >>)
        /\ \A x : Has(Left, x) => x = "load"
    BY <1>5, FileLoad
  <2>3. Captured => Captured'
    BY <2>1, <2>2 DEF Captured, NothingSaved
  <2> QED BY <2>1, <2>2, <2>3, CaptureJumps, RecoverHas, EffectsHave, SingleHas
<1>6. CASE Decide
  <2>1. /\ Left = << >> /\ UNCHANGED << saved, externalFlag, cursorLocked >>
        /\ \/ Left' = << >>
           \/ \E s \in {RestoreEffects, KeepEffects, PrepareEffects} :
                 \A x : Has(Left', x) <=> \/ x \in {"acquire", "release", "snapshot", "persist"}
                                          \/ Has(s, x)
           \/ \A x : Has(Left', x) <=> Has(StartSteps, x)
           \/ \A x : Has(Left', x) <=> Has(ResumeSteps, x)
    BY <1>6, DecidedHas DEF savedVars, flagVars
  <2> QED BY <2>1, CapturedSame, CaptureJumps, EmptyHas, EffectsHave, DimmingHas
<1>7. CASE LeaveLoop
  <2>1. Left = << >> /\ Left' = ShutdownSteps /\ UNCHANGED << saved, externalFlag, cursorLocked >>
    BY <1>7, Jumping DEF LeaveLoop, Resting, Left, savedVars, flagVars
  <2> QED BY <2>1, CapturedSame, CaptureJumps, EmptyHas, RecoverHas, EffectsHave
<1>8. CASE Launch
  <2>1. Left' = BootSteps /\ ~alive /\ UNCHANGED << saved, externalFlag, cursorLocked >>
    BY <1>8, Jumping DEF Launch, savedVars, flagVars
  <2>2. Left = << >>
    BY <2>1, ThreadsDiffer DEF Ground, LockInv, Left
  <2> QED BY <2>1, <2>2, CapturedSame, CaptureJumps, EmptyHas, SingleHas DEF BootSteps
<1> QED BY <1>2, <1>3, <1>4, <1>5, <1>6, <1>7, <1>8

\* No step of a daemon that can always capture and lock leaves the cursor
\* locked over displays it has not written down.
LEMMA NextCapture ==
    ASSUME Steady, Capturing, Ground, FileInv, CaptureInv, [Next]_vars
    PROVE  CaptureInv'
<1>1. CASE Die
  <2>1. Left' = << >> /\ ~cursorLocked'
    BY <1>1, ThreadsDiffer DEF Die, Left
  <2> QED BY <2>1, EmptyHas DEF CaptureInv
<1>2. ASSUME UNCHANGED << todo, saved, externalFlag, cursorLocked, changed >>
      PROVE  CaptureInv'
  BY <1>2 DEF CaptureInv, Captured, Left
<1>3. CASE MonitorOnly /\ ~Die
  <2>1. CASE ReadAngle
    BY <1>2, <2>1 DEF ReadAngle, savedVars, flagVars
  <2> QED BY <1>3, <2>1, CaptureRestores, CaptureCaptures, CaptureLocks, CaptureOthers,
             CaptureLists DEF MonitorOnly, Exit
<1>4. CASE Shared("monitor")
  BY <1>4, CaptureRestores, CaptureOthers, CaptureLists DEF Shared
<1>5. CASE World /\ ~PowerChange /\ ~Die
  <2>1. CASE MoveLid \/ ChangePanel \/ ChangeKeys \/ Signal \/ BecomeCalm
    BY <1>2, <2>1
    DEF MoveLid, ChangePanel, ChangeKeys, Signal, BecomeCalm, savedVars, flagVars, loopVars
  <2>2. CASE \E d \in Displays : Hotplug(d)
    BY <1>2, <2>2 DEF Hotplug, savedVars, flagVars, loopVars
  <2> QED BY <1>5, <2>1, <2>2, CaptureLists DEF World, Crash, ObserverFails
<1>6. CASE Tick \/ UNCHANGED vars
  BY <1>2, <1>6 DEF Tick, vars, savedVars, flagVars, loopVars
<1> QED BY <1>1, <1>3, <1>4, <1>5, <1>6, NextAlone DEF Ground

-----------------------------------------------------------------------------
(* What is written, and what is not yet. *)

\* A step that records what it dims is followed by the persist of it.
LEMMA WrittenLater ==
    ASSUME Ground, NEW step \in Recording, At("monitor", step), Done("monitor"), Unsaved,
           Has(Left', "persistIfChanged") => changed'
    PROVE  custody' = "lost" \/ Unwritten'
<1>1. /\ Has(Left, step) /\ Ordered(Left)
      /\ \A x : Has(Left, x) => Has(Left', x) \/ x = step
  BY Standing, Passing DEF At
<1>2. Has(Left, "persist") \/ Has(Left, "persistIfChanged")
  BY <1>1 DEF Ordered
<1>3. Has(Left', "persist") \/ Has(Left', "persistIfChanged")
  BY <1>1, <1>2 DEF Recording
<1> QED BY <1>3 DEF Unsaved, Unwritten

\* A persist either puts what is in memory into the file, or is about to.
LEMMA Persists ==
    ASSUME Steady, Ground, FileInv, PersistImage("monitor") \/ Write("monitor")
    PROVE  /\ UNCHANGED << policy, effects, deviceVars, savedVars, flagVars, loopVars,
                           worldVars, chosenPanel, chosenKeys, unsavedDim >>
           /\ Loaded /\ Loaded' /\ Ordered(Left)
           /\ Head(Left) \in {"persist", "write"} /\ Has(Left, Head(Left))
           /\ custody = "lost" => custody' = "lost"
           /\ \A x : x \notin {"persist", "write"} => (Has(Left', x) <=> Has(Left, x))
           /\ \A x : Has(Left', x) /\ Rank(x) > 0 => 8 <= Rank(x)
           /\ \/ file' = saved /\ FileContents' = saved
              \/ /\ custody' = "lost" \/ Unwritten'
                 /\ FileContents' = NothingSaved
                 /\ Has(Left', "write")
<1>1. UNCHANGED << policy, effects, deviceVars, savedVars, flagVars, loopVars,
                   worldVars, chosenPanel, chosenKeys, unsavedDim >>
  BY DEF PersistImage, Write
<1>2. PICK step \in {"persist", "write"} : At("monitor", step)
  BY DEF PersistImage, Write
<1>3. /\ Left \in Lists /\ Left # << >> /\ Head(Left) = step /\ Ordered(Left) /\ Loaded
      /\ Has(Left, step)
  BY <1>2, Standing
<1>4. Rank("persist") = 8 /\ Rank("write") = 8
  BY DEF Rank
<1>5. ASSUME Done("monitor")
      PROVE  /\ \A x : x \notin {"persist", "write"} => (Has(Left', x) <=> Has(Left, x))
             /\ \A x : Has(Left', x) /\ Rank(x) > 0 => 8 <= Rank(x)
  <2>1. Left' = Tail(Left)
    BY <1>2, <1>5, Passing DEF At
  <2>2. /\ \A x : Has(Left', x) => Has(Left, x)
        /\ \A x : Has(Left, x) => Has(Left', x) \/ x = step
        /\ \A x : Has(Left', x) /\ Rank(step) > 0 /\ Rank(x) > 0 => Rank(step) < Rank(x)
    BY <1>3, <2>1, OrderedTail
  <2> QED BY <1>4, <2>2, RankType
<1>6. CASE Write("monitor")
  <2>1. /\ FileContents' = saved /\ file' = saved /\ Done("monitor")
        /\ (custody = "lost" => custody' = "lost")
    BY <1>6, FileWrite DEF Write, Persisted
  <2>2. Loaded'
    BY <1>1, <1>3, <1>5, <2>1 DEF Loaded, loopVars
  <2> QED BY <1>1, <1>3, <1>5, <2>1, <2>2
<1>7. CASE PersistImage("monitor") /\ image["monitor"] = NothingSaved
  <2>1. file' = NothingSaved /\ Done("monitor") /\ (custody = "lost" => custody' = "lost")
    BY <1>7, SteadyMay DEF PersistImage, Persisted
  <2>2. ~Has(Left, "snapshot") /\ Has(Left, "persist")
    BY <1>3, <1>7, OrderedWrite, Standing DEF PersistImage
  <2>3. saved = NothingSaved
    BY <1>7, <2>2 DEF FileInv
  <2>4. FileContents' = saved
    BY <2>1, <2>3 DEF FileContents
  <2>5. Loaded'
    BY <1>1, <1>3, <1>5, <2>1 DEF Loaded, loopVars
  <2> QED BY <1>1, <1>3, <1>5, <2>1, <2>3, <2>4, <2>5
<1>8. CASE PersistImage("monitor") /\ image["monitor"] # NothingSaved
  <2>1. /\ file' = Torn /\ Unsaved
        /\ Continue("monitor", << "write" >> \o Tail(todo["monitor"]))
        /\ Head(Left) = "persist"
    BY <1>8, SteadyMay, Standing DEF PersistImage
  <2>2. Left' = << "write" >> \o Tail(Left)
    BY <2>1, Jumping DEF Left
  <2>3. \A x : Has(Left', x) <=> x = "write" \/ Has(Tail(Left), x)
    BY <1>3, <2>1, <2>2, OrderedWrite
  <2>4. /\ \A x : Has(Left, x) => Has(Tail(Left), x) \/ x = "persist"
        /\ \A x : Has(Tail(Left), x) => Has(Left, x)
        /\ \A x : Has(Tail(Left), x) /\ Rank(x) > 0 => 8 < Rank(x)
    BY <1>3, <1>4, <2>1, OrderedTail
  <2>5. custody' = "lost" \/ Unwritten'
    BY <2>1, <2>3 DEF Unsaved, Unwritten
  <2>6. FileContents' = NothingSaved
    BY <2>1 DEF FileContents
  <2>7. custody = "lost" => custody' = "lost"
    BY <2>1 DEF Unsaved
  <2>8. \A x : x \notin {"persist", "write"} => (Has(Left', x) <=> Has(Left, x))
    BY <2>3, <2>4
  <2>9. \A x : Has(Left', x) /\ Rank(x) > 0 => 8 <= Rank(x)
    BY <1>4, <2>3, <2>4, RankType
  <2>10. Loaded'
    BY <1>1, <1>3, <2>8 DEF Loaded, loopVars
  <2> QED BY <1>1, <1>3, <2>1, <2>3, <2>5, <2>6, <2>7, <2>8, <2>9, <2>10
<1> QED BY <1>6, <1>7, <1>8

\* A process that ends by itself has nothing to persist any more; one that is
\* killed while it has loses custody.
LEMMA Ends ==
    ASSUME Ground, Exit \/ ObserverFails \/ Crash
    PROVE  /\ Left' = << >> /\ ~alive' /\ ~Loaded' /\ saved' = NothingSaved /\ taken' = Nothing
           /\ UNCHANGED << file, panel, keys, plugged, dark, chosenPanel, chosenKeys, unsavedDim >>
           /\ frozen' => frozen
           /\ custody = "lost" => custody' = "lost"
           /\ custody' = "lost" \/ ~Unwritten
           /\ FileContents' = FileContents
<1>1. Die /\ frozen \in BOOLEAN
  BY DEF Exit, ObserverFails, Crash, Ground, TypeOK, DeviceType
<1>2. /\ Left' = << >> /\ ~alive' /\ saved' = NothingSaved /\ taken' = Nothing
      /\ UNCHANGED << file, panel, keys, plugged, dark, chosenPanel, chosenKeys, unsavedDim >>
      /\ frozen' => frozen
  <2>1. frozen' = frozen \/ frozen' = FALSE
    BY <1>1 DEF Die
  <2>2. frozen' => frozen
    BY <1>1, <2>1
  <2> QED BY <1>1, <2>2, ThreadsDiffer DEF Die, Left
<1>3. CASE Exit \/ ObserverFails
  <2>1. PICK step \in {"exit", "observe"} : At("monitor", step)
    BY <1>3 DEF Exit, ObserverFails
  <2>2. /\ Rank("persist") = 8 /\ Rank("write") = 8 /\ Rank("exit") = 11
        /\ Rank("observe") = 11
    BY DEF Rank
  <2>3. /\ Left \in Lists /\ Left # << >> /\ Ordered(Left) /\ Head(Left) = step
        /\ Has(Left, step)
    BY <2>1, Standing
  <2>4. ~Has(Left, "persist") /\ ~Has(Left, "write") /\ ~Has(Left, "persistIfChanged")
    BY <2>2, <2>3, OrderedTail, Kinds DEF Restoring
  <2>5. ~Unwritten /\ custody' = custody
    BY <1>3, <2>4 DEF Unwritten, Exit, ObserverFails
  <2> QED BY <1>2, <2>5 DEF Loaded, FileContents
<1>4. CASE Crash
  <2>1. custody' = IF custody = "inMemory" /\ ~Resting THEN "lost" ELSE custody
    BY <1>4 DEF Crash
  <2>2. Resting => ~Unwritten
    BY EmptyHas DEF Resting, Unwritten, Left
  <2>3. custody # "inMemory" => ~Unwritten
    BY DEF Unwritten
  <2> QED BY <1>2, <2>1, <2>2, <2>3 DEF Loaded, FileContents
<1> QED BY <1>3, <1>4

\* Between two actions nothing is on its way, and what is owed is in memory or
\* in the file.
LEMMA Between ==
    ASSUME Ground, Left = << >>
    PROVE  /\ ~Unwritten /\ (\A x : ~Has(Left, x))
           /\ Loaded <=> alive
           /\ alive => Owed = saved
           /\ ~alive => Owed = FileContents
BY EmptyHas DEF Unwritten, Loaded, Owed, At, Left

-----------------------------------------------------------------------------
(* The panel. *)

\* A step that neither saves nor touches the panel.  What it dims besides the
\* panel makes custody a matter of memory, which the panel may outlive.
LEMMA PanelPasses ==
    ASSUME Ground, PanelInv, NEW step, At("monitor", step), Done("monitor"),
           step \notin {"load", "readPanel", "persist", "write", "persistIfChanged"},
           UNCHANGED << panel, chosenPanel, file, alive >>,
           saved'.internal = saved.internal,
           \/ saved'.keyboard \in {saved.keyboard, Nothing}
           \/ saved.internal # Nothing /\ ~Has(Left', "restorePanel"),
           step = "restoreKeys" => saved'.keyboard = Nothing,
           Has(Left', "persistIfChanged") /\ changed => changed',
           custody' = custody \/ Unsaved
    PROVE  PanelInv'
<1>1. /\ Head(Left) = step /\ Loaded
      /\ \A x : Has(Left', x) => Has(Left, x)
      /\ \A x : Has(Left, x) => Has(Left', x) \/ x = step
  BY Standing, Passing DEF At
<1>2. Owes(Left', saved')
  BY <1>1 DEF PanelInv, Owes, Dims
<1>3. FileContents' = FileContents /\ (Known(saved) => Known(saved)')
      /\ (Known(FileContents) => Known(FileContents)')
  BY DEF FileContents, Known
<1>4. /\ custody = "lost" => custody' = "lost"
      /\ custody = "inMemory" => custody' = "inMemory"
  BY DEF Unsaved
<1>5. Unwritten => Unwritten'
  BY <1>1, <1>4 DEF Unwritten
<1> QED BY <1>1, <1>2, <1>3, <1>4, <1>5 DEF PanelInv

\* What touches none of it.
LEMMA PanelUntouched ==
    ASSUME PanelInv, UNCHANGED << todo, saved, file, alive, changed, panel, chosenPanel, custody >>
    PROVE  PanelInv'
<1>1. FileContents' = FileContents /\ (Known(saved) => Known(saved)')
      /\ (Known(FileContents) => Known(FileContents)')
  BY DEF FileContents, Known
<1> QED BY <1>1 DEF PanelInv, Unwritten, Left, Loaded

\* The steps that are none of the panel's business.
LEMMA PanelOthers ==
    ASSUME Steady, Ground, PanelInv,
           \/ Acquire("monitor") \/ Release("monitor") \/ UnlockCursor("monitor")
           \/ TakeExternal \/ RestoreExternal \/ StopCaffeinate("monitor")
           \/ Snapshot("monitor") \/ StartObserver \/ RedimKeys \/ CaptureExternal
           \/ RecaptureExternal \/ StartCaffeinate \/ LockCursor
    PROVE  PanelInv'
<1>1. saved \in SavedState /\ changed \in BOOLEAN
  BY DEF Ground, TypeOK, SavedType, LoopType
<1>2. CASE \/ Acquire("monitor") \/ UnlockCursor("monitor") \/ StopCaffeinate("monitor")
           \/ Snapshot("monitor") \/ StartObserver
  <2>1. /\ \E step \in {"acquire", "unlockCursor", "stopCaffeinate", "snapshot", "observe"} :
              At("monitor", step)
        /\ Done("monitor")
        /\ UNCHANGED << panel, chosenPanel, file, alive, saved, changed, custody >>
    BY <1>2 DEF Acquire, UnlockCursor, StopCaffeinate, Snapshot, StartObserver, deviceVars,
       savedVars, loopVars, fileVars, ghostVars
  <2> QED BY <2>1, PanelPasses
<1>3. CASE Release("monitor")
  <2>1. /\ At("monitor", "release") /\ Done("monitor")
        /\ UNCHANGED << panel, chosenPanel, file, alive, saved, custody >>
    BY <1>3 DEF Release, deviceVars, savedVars, fileVars, ghostVars
  <2>2. ~Has(Left', "persistIfChanged")
    BY <2>1, Standing, Kinds, Passing DEF At, Resuming
  <2> QED BY <2>1, <2>2, PanelPasses
<1>4. CASE TakeExternal \/ RestoreExternal
  <2>1. /\ \E step \in {"takeExternal", "restoreExternal"} : At("monitor", step)
        /\ Done("monitor")
        /\ UNCHANGED << panel, chosenPanel, file, alive, changed, custody >>
        /\ saved'.internal = saved.internal /\ saved'.keyboard = saved.keyboard
    BY <1>1, <1>4 DEF TakeExternal, RestoreExternal, SavedState, deviceVars, loopVars, fileVars,
       ghostVars
  <2> QED BY <2>1, PanelPasses
<1>5. CASE RedimKeys \/ StartCaffeinate \/ LockCursor
  <2>1. /\ \E step \in {"redimKeys", "startCaffeinate", "lockCursor"} : At("monitor", step)
        /\ Done("monitor") /\ (changed => changed')
        /\ UNCHANGED << panel, chosenPanel, file, alive, saved >>
        /\ custody' = custody \/ Unsaved
    BY <1>1, <1>5, SteadyMay DEF RedimKeys, StartCaffeinate, LockCursor, savedVars, deviceVars,
       loopVars, fileVars, ghostVars, Ground, TypeOK, FlagType
  <2> QED BY <2>1, PanelPasses
<1>6. CASE CaptureExternal \/ RecaptureExternal
  <2>1. /\ \E step \in {"captureExternal", "recaptureExternal"} : At("monitor", step)
        /\ Done("monitor") /\ (changed => changed')
        /\ UNCHANGED << panel, chosenPanel, file, alive >>
        /\ custody' = custody \/ Unsaved
    BY <1>1, <1>6 DEF CaptureExternal, RecaptureExternal, DisableExternal, loopVars, fileVars
  <2>2. saved'.internal = saved.internal /\ saved'.keyboard = saved.keyboard
    BY <1>1, <1>6 DEF CaptureExternal, RecaptureExternal, SavedState
  <2> QED BY <2>1, <2>2, PanelPasses
<1> QED BY <1>2, <1>3, <1>4, <1>5, <1>6

\* The keyboard goes before the panel in a restore, and is only dimmed once the
\* panel is saved.
LEMMA PanelKeys ==
    ASSUME Steady, Ground, PanelInv, RestoreKeys("monitor") \/ CaptureKeys
    PROVE  PanelInv'
<1>1. saved \in SavedState
  BY DEF Ground, TypeOK, SavedType
<1>2. CASE RestoreKeys("monitor")
  <2>1. /\ \/ At("monitor", "restoreKeys") /\ saved'.keyboard = Nothing
           \/ At("monitor", "relightKeys") /\ saved'.keyboard = saved.keyboard
        /\ saved'.internal = saved.internal
        /\ Done("monitor")
        /\ UNCHANGED << panel, chosenPanel, file, alive, changed, custody >>
    BY <1>1, <1>2, SteadyMay DEF RestoreKeys, At, SavedState, loopVars, fileVars, ghostVars
  <2> QED BY <2>1, PanelPasses
<1>3. CASE CaptureKeys
  <2>1. /\ At("monitor", "captureKeys") /\ Done("monitor")
        /\ UNCHANGED << panel, chosenPanel, file, alive, changed >>
        /\ custody' = custody \/ Unsaved
        /\ saved'.internal = saved.internal
    BY <1>1, <1>3, SteadyMay DEF CaptureKeys, SavedState, loopVars, fileVars
  <2>2. saved.internal # Nothing
    <3>1. Rank("captureKeys") = 3 /\ Rank("readPanel") = 1
      BY DEF Rank
    <3>2. Has(Left, "captureKeys") /\ ~Has(Left, "readPanel")
      BY <2>1, <3>1, Standing, Passing DEF At
    <3> QED BY <3>2 DEF PanelInv, Owes, Dims
  <2>3. ~Has(Left', "restorePanel")
    <3>1. Has(Left, "captureKeys") /\ Ordered(Left)
      BY <2>1, Standing
    <3>2. ~Has(Left, "restorePanel")
      BY <3>1, Kinds DEF Starting
    <3> QED BY <2>1, <3>2, Passing DEF At
  <2> QED BY <2>1, <2>2, <2>3, PanelPasses
<1> QED BY <1>2, <1>3

\* A panel that was saved and is dark now is persisted by what follows.
LEMMA PanelDims ==
    ASSUME Steady, Ground, PanelInv, DimPanel \/ RedimPanel
    PROVE  PanelInv'
<1>1. PICK step \in {"dimPanel", "redimPanel"} :
         /\ At("monitor", step) /\ Done("monitor")
         /\ UNCHANGED << chosenPanel, file, alive, saved >>
         /\ \/ step = "redimPanel" /\ UNCHANGED << panel, changed, custody >>
            \/ /\ panel' = 0 /\ Unsaved
               /\ step = "redimPanel" => changed'
  BY SteadyMay DEF DimPanel, RedimPanel, loopVars, fileVars
<1>2. CASE UNCHANGED << panel, changed, custody >>
  BY <1>1, <1>2, PanelPasses
<1>3. CASE panel' = 0 /\ Unsaved /\ (step = "redimPanel" => changed')
  <2>1. /\ Head(Left) = step /\ Has(Left, step) /\ Ordered(Left) /\ Loaded
        /\ \A x : Has(Left', x) => Has(Left, x)
        /\ \A x : Has(Left, x) => Has(Left', x) \/ x = step
    BY <1>1, Standing, Passing DEF At
  <2>2. ~Has(Left, "readPanel")
    <3>1. Rank("dimPanel") = 2 /\ Rank("redimPanel") = 2 /\ Rank("readPanel") = 1
      BY DEF Rank
    <3> QED BY <1>1, <2>1, <3>1, Passing DEF At
  <2>3. saved.internal # Nothing
    BY <2>1, <2>2 DEF PanelInv, Owes, Dims
  <2>4. Owes(Left', saved')
    BY <1>1, <2>1, <2>3 DEF PanelInv, Owes
  <2>5. Known(saved) => Known(saved)'
    BY <1>1, <2>3 DEF Known
  <2>6. custody' = "lost" \/ Unwritten'
    <3>1. step = "dimPanel" => ~Has(Left', "persistIfChanged")
      BY <2>1, Kinds DEF Starting
    <3> QED BY <1>1, <1>3, <3>1, WrittenLater DEF Recording
  <2>7. FileContents' = FileContents /\ (custody = "lost" => custody' = "lost")
    BY <1>1, <1>3 DEF FileContents, Unsaved
  <2> QED BY <1>1, <2>1, <2>4, <2>5, <2>6, <2>7 DEF PanelInv
<1> QED BY <1>1, <1>2, <1>3

\* The brightness that is read is the one to be restored; where it could not be
\* read the file still says what memory says.
LEMMA PanelReads ==
    ASSUME Steady, Ground, FileInv, PanelInv, ReadPanel
    PROVE  PanelInv'
<1>1. /\ At("monitor", "readPanel") /\ saved \in SavedState
      /\ UNCHANGED << panel, chosenPanel, file, alive, changed, custody >>
  BY DEF ReadPanel, deviceVars, loopVars, fileVars, ghostVars, Ground, TypeOK, SavedType
<1>2. /\ Loaded /\ Has(Left, "readPanel")
      /\ Known(FileContents)' <=> Known(FileContents)
      /\ FileContents' = FileContents
  BY <1>1, Standing DEF FileContents, Known
<1>3. CASE Continue("monitor", << "release" >>) /\ saved' = saved
  <2>1. \A x : Has(Left', x) <=> x = "release"
    BY <1>3, Jumping, SingleHas
  <2>2. Agree(FileContents, saved)
    BY <1>2 DEF FileInv
  <2>3. custody = "lost" \/ Known(saved)
    BY <1>2 DEF PanelInv
  <2>4. Known(saved)' <=> Known(saved)
    BY <1>1, <1>3 DEF Known
  <2>5. Known(saved) => Known(FileContents)
    BY <2>2 DEF Agree, Known
  <2>6. Owes(Left', saved')
    BY <1>3, <2>1 DEF PanelInv, Owes, Dims
  <2> QED BY <1>1, <1>2, <2>3, <2>4, <2>5, <2>6 DEF PanelInv
<1>4. CASE /\ Done("monitor")
           /\ saved' = IF saved.internal = Nothing
                       THEN [saved EXCEPT !.internal = SnapshotForDim] ELSE saved
  <2>1. /\ \A x : Has(Left', x) => Has(Left, x)
        /\ \A x : Has(Left, x) => Has(Left', x) \/ x = "readPanel"
        /\ ~Has(Left', "restorePanel")
    BY <1>1, <1>4, Standing, Passing, Kinds DEF At, Starting
  <2>2. /\ SnapshotForDim # Nothing /\ panel \in Nat
        /\ panel # 0 => SnapshotForDim = panel
    BY TransitionsAssumption, DaemonAssumption
    DEF SnapshotForDim, Ground, TypeOK, DeviceType, SavedType
  <2>3. /\ saved'.internal # Nothing
        /\ saved.internal # Nothing => saved'.internal = saved.internal
        /\ saved.internal = Nothing => saved'.internal = SnapshotForDim
    BY <1>1, <1>4, <2>2 DEF SavedState
  <2>4. Owes(Left', saved')
    BY <2>1, <2>3 DEF PanelInv, Owes
  <2>5. Known(saved) => Known(saved)'
    <3>1. CASE panel = chosenPanel /\ chosenPanel # 0 /\ saved.internal = Nothing
      <4>1. saved'.internal = chosenPanel'
        BY <1>1, <2>2, <2>3, <3>1
      <4> QED BY <4>1 DEF Known
    <3>2. CASE saved.internal = chosenPanel /\ saved.internal # Nothing
      BY <1>1, <2>3, <3>2 DEF Known
    <3>3. CASE chosenPanel = 0
      BY <1>1, <3>3 DEF Known
    <3>4. CASE saved.internal = chosenPanel /\ saved.internal = Nothing
      <4>1. chosenPanel \in Int
        BY DaemonAssumption DEF Ground, TypeOK, GhostType
      <4> QED BY <3>4, <4>1, TransitionsAssumption
    <3> QED BY <3>1, <3>2, <3>3, <3>4 DEF Known
  <2>6. Unwritten => Unwritten'
    BY <1>1, <2>1 DEF Unwritten
  <2> QED BY <1>1, <1>2, <2>4, <2>5, <2>6 DEF PanelInv
<1> QED BY <1>3, <1>4 DEF ReadPanel

\* A panel that is lit again shows what the user chose, and what the file says
\* of it stays right.
LEMMA PanelRestores ==
    ASSUME Steady, Ground, PanelInv, RestorePanel("monitor")
    PROVE  PanelInv'
<1>1. /\ saved \in SavedState /\ Done("monitor")
      /\ At("monitor", "restorePanel") \/ At("monitor", "relightPanel")
      /\ UNCHANGED << chosenPanel, file, alive, changed, custody >>
      /\ \/ saved.internal = Nothing /\ UNCHANGED << panel, saved >>
         \/ saved.internal # Nothing /\ panel' = saved.internal
      /\ saved'.keyboard = saved.keyboard
      /\ saved' # saved => At("monitor", "restorePanel")
      /\ saved'.internal \in {saved.internal, Nothing}
      /\ saved'.internal = saved.internal => saved' = saved
  BY SteadyMay DEF RestorePanel, SavedState, loopVars, fileVars, ghostVars, Ground, TypeOK, SavedType
<1>2. PICK step \in {"restorePanel", "relightPanel"} :
         At("monitor", step) /\ (saved' # saved => step = "restorePanel")
  BY <1>1 DEF At
<1>3. CASE saved' = saved /\ panel' = panel
  BY <1>1, <1>2, <1>3, PanelPasses
<1>4. CASE saved.internal # Nothing /\ panel' = saved.internal
  <2>1. /\ Head(Left) = step /\ Has(Left, step) /\ Ordered(Left) /\ Loaded
        /\ \A x : Has(Left', x) => Has(Left, x)
        /\ \A x : Has(Left, x) => Has(Left', x) \/ x = step
        /\ \A x : Has(Left', x) /\ Rank(step) > 0 /\ Rank(x) > 0 => Rank(step) < Rank(x)
    <3>1. /\ Head(Left) = step /\ Has(Left, step) /\ Ordered(Left) /\ Loaded
          /\ todo["monitor"] # << >>
      BY <1>2, Standing DEF At
    <3> QED BY <1>1, <3>1, Passing
  <2>2. ~Has(Left', "restorePanel") /\ ~Has(Left, "restoreKeys")
    <3>1. /\ Rank("restorePanel") = 5 /\ Rank("relightPanel") = 5 /\ Rank("restoreKeys") = 4
      BY DEF Rank
    <3> QED BY <2>1, <3>1
  <2>3. \A x \in Dims : ~Has(Left', x) \/ saved'.internal # Nothing
    <3>1. CASE step = "restorePanel"
      BY <2>1, <3>1, Kinds DEF Dims, Restoring
    <3>2. CASE saved' = saved
      BY <1>4, <3>2
    <3> QED BY <1>2, <3>1, <3>2
  <2>4. saved' # saved => saved.keyboard = Nothing
    BY <1>2, <2>1, <2>2 DEF PanelInv, Owes
  <2>5. Owes(Left', saved')
    BY <1>1, <1>4, <2>1, <2>2, <2>3, <2>4 DEF PanelInv, Owes
  <2>6. FileContents' = FileContents
    BY <1>1 DEF FileContents
  <2>7. Known(saved) => Known(saved)' /\ (Known(FileContents) => Known(FileContents)')
    BY <1>1, <1>4, <2>6 DEF Known
  <2>8. Unwritten => Unwritten'
    BY <1>1, <1>2, <2>1 DEF Unwritten
  <2> QED BY <1>1, <2>1, <2>5, <2>6, <2>7, <2>8 DEF PanelInv
<1> QED BY <1>1, <1>3, <1>4

\* A snapshot that reaches the file puts what memory knows into it.
LEMMA PanelPersists ==
    ASSUME Steady, Ground, FileInv, PanelInv, PersistImage("monitor") \/ Write("monitor")
    PROVE  PanelInv'
<1>1. /\ UNCHANGED << panel, chosenPanel, saved >> /\ Loaded
      /\ custody = "lost" => custody' = "lost"
      /\ \A x : x \notin {"persist", "write"} => (Has(Left', x) <=> Has(Left, x))
      /\ \/ FileContents' = saved
         \/ (custody' = "lost" \/ Unwritten') /\ FileContents' = NothingSaved
  BY Persists DEF deviceVars, savedVars
<1>2. Owes(Left', saved')
  BY <1>1 DEF PanelInv, Owes, Dims
<1>3. Known(saved)' <=> Known(saved)
  BY <1>1 DEF Known
<1>4. custody = "lost" \/ Known(saved)
  BY <1>1 DEF PanelInv
<1>5. CASE FileContents' = saved
  <2>1. Known(FileContents)' <=> Known(saved)'
    BY <1>1, <1>5 DEF Known
  <2> QED BY <1>1, <1>2, <1>3, <1>4, <1>5, <2>1 DEF PanelInv, Owes
<1>6. CASE (custody' = "lost" \/ Unwritten') /\ FileContents' = NothingSaved
  BY <1>1, <1>2, <1>3, <1>4, <1>6 DEF PanelInv, NothingSaved
<1> QED BY <1>1, <1>5, <1>6

\* A list of no section is followed by another one that touches nothing before
\* it has read, or that relies on what is saved.
LEMMA PanelJumps ==
    ASSUME PanelInv, ~Unwritten,
           UNCHANGED << panel, chosenPanel, saved, file, custody >>,
           Loaded' => Loaded,
           \A x \in Dims : Has(Left', x) => Has(Left', "readPanel") \/ saved.internal # Nothing,
           Has(Left', "restorePanel") => Has(Left', "restoreKeys")
    PROVE  PanelInv'
<1>1. FileContents' = FileContents /\ (Known(saved)' <=> Known(saved))
      /\ (Known(FileContents)' <=> Known(FileContents))
  BY DEF FileContents, Known
<1>2. Owes(Left', saved')
  BY DEF PanelInv, Owes
<1> QED BY <1>1, <1>2 DEF PanelInv

\* The lists the loop starts, and the end of one.
LEMMA PanelLists ==
    ASSUME Ground, PanelInv, Decide \/ LeaveLoop \/ Launch \/ PersistIfChanged
    PROVE  PanelInv'
<1>1. UNCHANGED << panel, chosenPanel, saved, file, custody >>
  BY DEF Decide, LeaveLoop, Launch, PersistIfChanged, deviceVars, savedVars, fileVars, ghostVars
<1>2. CASE Decide
  <2>1. /\ Left = << >> /\ Loaded
        /\ \/ Left' = << >>
           \/ \E s \in {RestoreEffects, KeepEffects, PrepareEffects} :
                 \A x : Has(Left', x) <=> \/ x \in {"acquire", "release", "snapshot", "persist"}
                                          \/ Has(s, x)
           \/ \A x : Has(Left', x) <=> Has(StartSteps, x)
           \/ /\ \A x : Has(Left', x) <=> Has(ResumeSteps, x)
              /\ saved.internal # Nothing \/ saved.keyboard # Nothing
    BY <1>2, DecidedHas
  <2>2. ~Unwritten
    BY <2>1, EmptyHas DEF Unwritten
  <2>3. saved.keyboard # Nothing => saved.internal # Nothing
    BY DEF PanelInv, Owes
  <2> QED BY <1>1, <2>1, <2>2, <2>3, PanelJumps, EmptyHas, EffectsHave, DimmingHas DEF Dims
<1>3. CASE LeaveLoop
  <2>1. Left = << >> /\ alive /\ Left' = ShutdownSteps
    BY <1>3, Jumping DEF LeaveLoop, Resting, Left
  <2>2. ~Unwritten /\ Loaded
    BY <2>1, EmptyHas DEF Unwritten, Loaded
  <2> QED BY <1>1, <2>1, <2>2, PanelJumps, RecoverHas, EffectsHave DEF Dims
<1>4. CASE Launch
  <2>1. Left' = BootSteps /\ ~alive
    BY <1>4, Jumping DEF Launch
  <2>2. Left = << >>
    BY <2>1, ThreadsDiffer DEF Ground, LockInv, Left
  <2>3. \A x : Has(Left', x) <=> x = "load"
    BY <2>1, SingleHas DEF BootSteps
  <2>4. ~Unwritten
    BY <2>2, EmptyHas DEF Unwritten
  <2>5. ~Loaded'
    BY <2>3 DEF Loaded
  <2> QED BY <1>1, <2>3, <2>4, <2>5, PanelJumps DEF Dims
<1>5. CASE PersistIfChanged
  <2>1. /\ At("monitor", "persistIfChanged") /\ UNCHANGED << alive, changed >>
        /\ Continue("monitor", IF changed THEN ForgetSteps ELSE << "release" >>)
    BY <1>5 DEF PersistIfChanged, loopVars
  <2>2. /\ \A x : Has(Left', x) => x \in {"snapshot", "persist", "release"}
        /\ changed => Has(Left', "persist")
    BY <2>1, Jumping, SingleHas, ForgetHas
  <2>3. Loaded /\ ~Has(Left, "persist") /\ ~Has(Left, "write")
    BY <2>1, Standing, Kinds DEF Resuming
  <2>4. CASE Unwritten
    <3>1. Unwritten'
      BY <1>1, <2>2, <2>3, <2>4 DEF Unwritten
    <3>2. Owes(Left', saved')
      BY <1>1, <2>2 DEF PanelInv, Owes, Dims
    <3>3. FileContents' = FileContents /\ (Known(saved)' <=> Known(saved))
      BY <1>1 DEF FileContents, Known
    <3> QED BY <1>1, <2>3, <3>1, <3>2, <3>3 DEF PanelInv
  <2>5. CASE ~Unwritten
    BY <1>1, <2>2, <2>3, <2>5, PanelJumps DEF Dims
  <2> QED BY <2>4, <2>5
<1> QED BY <1>2, <1>3, <1>4, <1>5

\* What the next process loads is what the file knows of the panel.
LEMMA PanelLoads ==
    ASSUME Steady, Ground, FileInv, PanelInv, Load
    PROVE  PanelInv'
<1>1. /\ saved' = FileContents /\ (Left' = RecoverSteps \/ Left' = << "observe" >>)
      /\ \A x : Has(Left, x) => x = "load"
      /\ UNCHANGED << file, alive >>
  BY FileLoad
<1>2. UNCHANGED << panel, chosenPanel, custody >>
  BY DEF Load, deviceVars, ghostVars
<1>3. FileContents' = FileContents /\ (Known(saved)' <=> Known(FileContents))
      /\ (Known(FileContents)' <=> Known(FileContents))
  BY <1>1, <1>2 DEF FileContents, Known
<1>4. ~Unwritten
  BY <1>1 DEF Unwritten
<1>5. Owes(Left', saved')
  BY <1>1, RecoverHas, EffectsHave, SingleHas DEF PanelInv, Owes, Dims
<1> QED BY <1>2, <1>3, <1>4, <1>5 DEF PanelInv

\* The end of a process.
LEMMA PanelDies ==
    ASSUME Ground, PanelInv, Exit \/ ObserverFails \/ Crash
    PROVE  PanelInv'
<1>1. /\ Left' = << >> /\ ~Loaded' /\ saved' = NothingSaved
      /\ UNCHANGED << panel, chosenPanel >> /\ FileContents' = FileContents
      /\ custody = "lost" => custody' = "lost"
      /\ custody' = "lost" \/ ~Unwritten
  BY Ends
<1>2. Known(FileContents)' <=> Known(FileContents)
  BY <1>1 DEF Known
<1>3. Owes(Left', saved')
  BY <1>1, EmptyHas DEF Owes, NothingSaved
<1> QED BY <1>1, <1>2, <1>3 DEF PanelInv

\* A change by the user is his choice, one of a panel that is owed is not.
LEMMA PanelChanges ==
    ASSUME Ground, FileInv, PanelInv, ChangePanel
    PROVE  PanelInv'
<1>1. /\ UNCHANGED << todo, saved, file, alive, changed, custody >>
      /\ IF Owed.internal = Nothing THEN chosenPanel' = panel' ELSE UNCHANGED chosenPanel
      /\ Resting \/ ~alive
  BY DEF ChangePanel, BetweenActions, savedVars, fileVars, loopVars
<1>2. Left = << >> /\ Left' = Left
  BY <1>1, ThreadsDiffer DEF Ground, LockInv, Left, Resting
<1>3. ~Unwritten /\ (\A x : ~Has(Left, x))
  BY <1>2, EmptyHas DEF Unwritten
<1>4. FileContents' = FileContents /\ (Loaded' <=> Loaded)
  BY <1>1, <1>2 DEF FileContents, Loaded
<1>5. Owes(Left', saved')
  BY <1>1, <1>2 DEF PanelInv
<1>6. ASSUME NEW owed, owed.internal = Owed.internal, Known(owed), owed' = owed
      PROVE  Known(owed)'
  BY <1>1, <1>6 DEF Known
<1>7. CASE alive
  <2>1. Loaded /\ Agree(FileContents, saved) /\ Owed = saved
    BY <1>2, <1>3, <1>7 DEF Loaded, FileInv, Owed, At, Left
  <2>2. (Known(saved) => Known(saved)') /\ (Known(FileContents) => Known(FileContents)')
    BY <1>1, <1>4, <1>6, <2>1 DEF Agree
  <2> QED BY <1>1, <1>3, <1>4, <1>5, <2>2 DEF PanelInv
<1>8. CASE ~alive
  <2>1. ~Loaded /\ Owed = FileContents
    BY <1>8 DEF Loaded, Owed
  <2>2. Known(FileContents) => Known(FileContents)'
    BY <1>4, <1>6, <2>1
  <2> QED BY <1>1, <1>3, <1>4, <1>5, <2>1, <2>2 DEF PanelInv
<1> QED BY <1>7, <1>8

\* No step of a steady daemon loses the panel.
LEMMA NextPanel ==
    ASSUME Steady, Ground, FileInv, PanelInv, [Next]_vars
    PROVE  PanelInv'
<1>1. CASE MonitorOnly
  <2>1. CASE ReadAngle
    BY <2>1, PanelUntouched DEF ReadAngle, deviceVars, savedVars, fileVars, ghostVars
  <2> QED BY <1>1, <2>1, PanelOthers, PanelKeys, PanelDims, PanelReads, PanelLists, PanelLoads,
             PanelDies DEF MonitorOnly
<1>2. CASE Shared("monitor")
  BY <1>2, PanelOthers, PanelKeys, PanelRestores, PanelPersists DEF Shared
<1>3. CASE World /\ ~PowerChange
  <2>1. CASE MoveLid \/ ChangeKeys \/ Signal \/ BecomeCalm
    BY <2>1, PanelUntouched DEF MoveLid, ChangeKeys, Signal, BecomeCalm, deviceVars, savedVars,
       fileVars, loopVars, ghostVars
  <2>2. CASE \E d \in Displays : Hotplug(d)
    BY <2>2, PanelUntouched DEF Hotplug, savedVars, fileVars, loopVars, ghostVars
  <2> QED BY <1>3, <2>1, <2>2, PanelLists, PanelDies, PanelChanges DEF World
<1>4. CASE Tick \/ UNCHANGED vars
  BY <1>4, PanelUntouched DEF Tick, vars, deviceVars, savedVars, fileVars, loopVars, ghostVars
<1> QED BY <1>1, <1>2, <1>3, <1>4, NextAlone DEF Ground

-----------------------------------------------------------------------------
(* The keyboard. *)

\* A step that leaves the keyboard and what is saved of it alone.
LEMMA KeysPasses ==
    ASSUME Ground, KeysInv, NEW step, At("monitor", step), Done("monitor"),
           step \notin {"load", "persist", "write", "persistIfChanged"},
           UNCHANGED << keys, chosenKeys, unsavedDim, file, alive >>,
           saved'.keyboard = saved.keyboard,
           Has(Left', "persistIfChanged") /\ changed => changed',
           custody' = custody \/ Unsaved
    PROVE  KeysInv'
<1>1. /\ Head(Left) = step /\ Loaded
      /\ \A x : Has(Left', x) => Has(Left, x)
      /\ \A x : Has(Left, x) => Has(Left', x) \/ x = step
  BY Standing, Passing DEF At
<1>2. FileContents' = FileContents /\ (KnownKeys(saved) => KnownKeys(saved)')
      /\ (KnownKeys(FileContents) => KnownKeys(FileContents)')
  BY DEF FileContents, KnownKeys, KeysDue
<1>3. /\ custody = "lost" => custody' = "lost"
      /\ custody = "inMemory" => custody' = "inMemory"
  BY DEF Unsaved
<1>4. Unwritten => Unwritten'
  BY <1>1, <1>3 DEF Unwritten
<1> QED BY <1>1, <1>2, <1>3, <1>4 DEF KeysInv

\* What touches none of it.
LEMMA KeysUntouched ==
    ASSUME KeysInv,
           UNCHANGED << todo, saved, file, alive, changed, keys, chosenKeys, unsavedDim, custody >>
    PROVE  KeysInv'
<1>1. FileContents' = FileContents /\ (KnownKeys(saved) => KnownKeys(saved)')
      /\ (KnownKeys(FileContents) => KnownKeys(FileContents)')
  BY DEF FileContents, KnownKeys, KeysDue
<1> QED BY <1>1 DEF KeysInv, Unwritten, Left, Loaded

\* The steps that are none of the keyboard's business.
LEMMA KeysOthers ==
    ASSUME Steady, Ground, KeysInv,
           \/ Acquire("monitor") \/ Release("monitor") \/ UnlockCursor("monitor")
           \/ TakeExternal \/ RestoreExternal \/ RestorePanel("monitor")
           \/ StopCaffeinate("monitor") \/ Snapshot("monitor") \/ StartObserver
           \/ DimPanel \/ RedimPanel \/ CaptureExternal \/ RecaptureExternal
           \/ StartCaffeinate \/ LockCursor
    PROVE  KeysInv'
<1>1. saved \in SavedState /\ changed \in BOOLEAN
  BY DEF Ground, TypeOK, SavedType, LoopType
<1>2. CASE \/ Acquire("monitor") \/ UnlockCursor("monitor") \/ StopCaffeinate("monitor")
           \/ Snapshot("monitor") \/ StartObserver
  <2>1. /\ \E step \in {"acquire", "unlockCursor", "stopCaffeinate", "snapshot", "observe"} :
              At("monitor", step)
        /\ Done("monitor")
        /\ UNCHANGED << keys, chosenKeys, unsavedDim, file, alive, saved, changed, custody >>
    BY <1>2 DEF Acquire, UnlockCursor, StopCaffeinate, Snapshot, StartObserver, deviceVars,
       savedVars, loopVars, fileVars, ghostVars
  <2> QED BY <2>1, KeysPasses
<1>3. CASE Release("monitor")
  <2>1. /\ At("monitor", "release") /\ Done("monitor")
        /\ UNCHANGED << keys, chosenKeys, unsavedDim, file, alive, saved, custody >>
    BY <1>3 DEF Release, deviceVars, savedVars, fileVars, ghostVars
  <2>2. ~Has(Left', "persistIfChanged")
    BY <2>1, Standing, Kinds, Passing DEF At, Resuming
  <2> QED BY <2>1, <2>2, KeysPasses
<1>4. CASE TakeExternal \/ RestoreExternal
  <2>1. /\ \E step \in {"takeExternal", "restoreExternal"} : At("monitor", step)
        /\ Done("monitor")
        /\ UNCHANGED << keys, chosenKeys, unsavedDim, file, alive, changed, custody >>
        /\ saved'.keyboard = saved.keyboard
    BY <1>1, <1>4 DEF TakeExternal, RestoreExternal, SavedState, deviceVars, loopVars, fileVars,
       ghostVars
  <2> QED BY <2>1, KeysPasses
<1>5. CASE RestorePanel("monitor")
  <2>1. /\ \E step \in {"restorePanel", "relightPanel"} : At("monitor", step)
        /\ Done("monitor")
        /\ UNCHANGED << keys, chosenKeys, unsavedDim, file, alive, changed, custody >>
        /\ saved'.keyboard = saved.keyboard
    BY <1>1, <1>5 DEF RestorePanel, SavedState, loopVars, fileVars, ghostVars
  <2> QED BY <2>1, KeysPasses
<1>6. CASE DimPanel \/ RedimPanel \/ StartCaffeinate \/ LockCursor
  <2>1. /\ \E step \in {"dimPanel", "redimPanel", "startCaffeinate", "lockCursor"} :
              At("monitor", step)
        /\ Done("monitor") /\ (changed => changed')
        /\ UNCHANGED << keys, chosenKeys, unsavedDim, file, alive, saved >>
        /\ custody' = custody \/ Unsaved
    BY <1>1, <1>6, SteadyMay DEF DimPanel, RedimPanel, StartCaffeinate, LockCursor, savedVars,
       deviceVars, loopVars, fileVars, ghostVars, Ground, TypeOK, FlagType
  <2> QED BY <2>1, KeysPasses
<1>7. CASE CaptureExternal \/ RecaptureExternal
  <2>1. /\ \E step \in {"captureExternal", "recaptureExternal"} : At("monitor", step)
        /\ Done("monitor") /\ (changed => changed')
        /\ UNCHANGED << keys, chosenKeys, unsavedDim, file, alive >>
        /\ custody' = custody \/ Unsaved
    BY <1>1, <1>7 DEF CaptureExternal, RecaptureExternal, DisableExternal, loopVars, fileVars
  <2>2. saved'.keyboard = saved.keyboard
    BY <1>1, <1>7 DEF CaptureExternal, RecaptureExternal, SavedState
  <2> QED BY <2>1, <2>2, KeysPasses
<1> QED BY <1>2, <1>3, <1>4, <1>5, <1>6, <1>7

\* A keyboard that is lit again shows what it is due, and what the file says of
\* it stays right.
LEMMA KeysRestores ==
    ASSUME Steady, Ground, KeysInv, RestoreKeys("monitor")
    PROVE  KeysInv'
<1>1. /\ saved \in SavedState /\ Done("monitor")
      /\ UNCHANGED << chosenKeys, unsavedDim, file, alive, changed, custody >>
      /\ \/ saved.keyboard = Nothing /\ UNCHANGED << keys, saved >>
         \/ saved.keyboard # Nothing /\ keys' = saved.keyboard
      /\ saved'.keyboard \in {saved.keyboard, Nothing}
  BY SteadyMay DEF RestoreKeys, SavedState, loopVars, fileVars, ghostVars, Ground, TypeOK, SavedType
<1>2. PICK step \in {"restoreKeys", "relightKeys"} : At("monitor", step)
  BY DEF RestoreKeys
<1>3. CASE UNCHANGED << keys, saved >>
  BY <1>1, <1>2, <1>3, KeysPasses
<1>4. CASE saved.keyboard # Nothing /\ keys' = saved.keyboard
  <2>1. /\ Head(Left) = step /\ Loaded
        /\ \A x : Has(Left', x) => Has(Left, x)
        /\ \A x : Has(Left, x) => Has(Left', x) \/ x = step
    BY <1>1, <1>2, Standing, Passing DEF At
  <2>2. FileContents' = FileContents
    BY <1>1 DEF FileContents
  <2>3. KnownKeys(saved) => KnownKeys(saved)' /\ (KnownKeys(FileContents) => KnownKeys(FileContents)')
    BY <1>1, <1>4, <2>2 DEF KnownKeys, KeysDue
  <2>4. Unwritten => Unwritten'
    BY <1>1, <1>2, <2>1 DEF Unwritten
  <2>5. ~Has(Left', "captureKeys")
    BY <1>4, <2>1 DEF KeysInv
  <2>6. custody = "lost" \/ KnownKeys(saved)
    BY <2>1 DEF KeysInv
  <2> QED BY <1>1, <2>1, <2>3, <2>4, <2>5, <2>6 DEF KeysInv
<1> QED BY <1>1, <1>3, <1>4

\* A keyboard that was saved and is dark now is persisted by what follows; one
\* that a resume dims with nothing saved is not due anything else.
LEMMA KeysDims ==
    ASSUME Steady, Ground, KeysInv, CaptureKeys \/ RedimKeys
    PROVE  KeysInv'
<1>1. PICK step \in {"captureKeys", "redimKeys"} : At("monitor", step)
  BY DEF CaptureKeys, RedimKeys
<1>2. /\ saved \in SavedState
      /\ Done("monitor") /\ UNCHANGED << chosenKeys, file, alive >>
  BY SteadyMay DEF CaptureKeys, RedimKeys, loopVars, fileVars, Ground, TypeOK, SavedType
<1>3. /\ Head(Left) = step /\ Has(Left, step) /\ Ordered(Left) /\ Loaded
      /\ \A x : Has(Left', x) => Has(Left, x)
      /\ FileContents' = FileContents
  BY <1>1, <1>2, Standing, Passing DEF At, FileContents
<1>4. custody = "lost" \/ KnownKeys(saved)
  BY <1>3 DEF KeysInv
<1>5. step \in Recording
  BY DEF Recording
<1>6. CASE CaptureKeys /\ Unsaved /\ saved' = [saved EXCEPT !.keyboard = keys]
  <2>1. /\ At("monitor", "captureKeys")
        /\ saved'.keyboard = keys /\ Unsaved /\ UNCHANGED << unsavedDim, changed >>
    BY <1>2, <1>6, SteadyMay DEF CaptureKeys, SavedState, loopVars
  <2>2. step = "captureKeys" /\ saved.keyboard = Nothing
    BY <1>1, <1>3, <2>1 DEF At, KeysInv
  <2>3. ~Has(Left', "persistIfChanged") /\ ~Has(Left', "captureKeys")
    <3>1. ~Has(Left, "persistIfChanged")
      BY <1>3, <2>2, Kinds DEF Starting
    <3>2. \A x : Has(Left', x) /\ Rank(step) > 0 /\ Rank(x) > 0 => Rank(step) < Rank(x)
      BY <1>1, <1>2, Standing, Passing DEF At
    <3>3. Rank("captureKeys") = 3
      BY DEF Rank
    <3> QED BY <1>3, <2>2, <3>1, <3>2, <3>3
  <2>4. custody' = "lost" \/ Unwritten'
    BY <1>1, <1>2, <1>5, <2>1, <2>3, WrittenLater
  <2>5. KeysDue # Nothing
    BY TransitionsAssumption, DaemonAssumption DEF KeysDue, Ground, TypeOK, GhostType
  <2>6. KnownKeys(saved) => KnownKeys(saved)'
    BY <1>2, <2>1, <2>2, <2>5 DEF KnownKeys, KeysDue
  <2> QED BY <1>3, <1>4, <2>1, <2>3, <2>4, <2>6 DEF KeysInv, Unsaved
<1>7. CASE /\ RedimKeys /\ keys' = 0 /\ Unsaved /\ UNCHANGED saved
           /\ unsavedDim' = (unsavedDim \/ saved.keyboard = Nothing) /\ changed'
  <2>1. custody' = "lost" \/ Unwritten'
    BY <1>1, <1>2, <1>5, <1>7, WrittenLater
  <2>2. KnownKeys(saved) => KnownKeys(saved)'
    <3>1. CASE saved.keyboard = Nothing
      BY <1>7, <3>1 DEF KnownKeys, KeysDue
    <3>2. CASE saved.keyboard # Nothing
      BY <1>2, <1>7, <3>2 DEF KnownKeys, KeysDue
    <3> QED BY <3>1, <3>2
  <2>3. ~Has(Left', "captureKeys")
    <3>1. step = "redimKeys"
      BY <1>1, <1>7 DEF RedimKeys, At
    <3> QED BY <1>3, <3>1, Kinds DEF Resuming
  <2> QED BY <1>3, <1>4, <1>7, <2>1, <2>2, <2>3 DEF KeysInv, Unsaved
<1>8. CASE UNCHANGED << unsavedDim, changed, custody, keys, saved >>
  BY <1>1, <1>2, <1>8, KeysPasses
<1>9. CASE CaptureKeys
  <2>1. \/ Unsaved /\ saved' = [saved EXCEPT !.keyboard = keys]
        \/ UNCHANGED << unsavedDim, changed, custody, keys, saved >>
    BY <1>9, SteadyMay DEF CaptureKeys, loopVars
  <2> QED BY <1>6, <1>8, <1>9, <2>1
<1>10. CASE RedimKeys
  <2>1. \/ /\ keys' = 0 /\ Unsaved /\ UNCHANGED saved
           /\ unsavedDim' = (unsavedDim \/ saved.keyboard = Nothing) /\ changed'
        \/ UNCHANGED << unsavedDim, changed, custody, keys, saved >>
    BY <1>10, SteadyMay DEF RedimKeys
  <2> QED BY <1>7, <1>8, <1>10, <2>1
<1> QED BY <1>9, <1>10

\* Where the panel could not be read the file still says what memory says.
LEMMA KeysReads ==
    ASSUME Steady, Ground, FileInv, KeysInv, ReadPanel
    PROVE  KeysInv'
<1>1. /\ At("monitor", "readPanel") /\ saved \in SavedState
      /\ UNCHANGED << keys, chosenKeys, unsavedDim, file, alive, changed, custody >>
      /\ saved'.keyboard = saved.keyboard
  BY DEF ReadPanel, deviceVars, loopVars, fileVars, ghostVars, Ground, TypeOK, SavedType, SavedState
<1>2. CASE Done("monitor")
  BY <1>1, <1>2, KeysPasses
<1>3. CASE Continue("monitor", << "release" >>)
  <2>1. \A x : Has(Left', x) <=> x = "release"
    BY <1>3, Jumping, SingleHas
  <2>2. Loaded /\ Has(Left, "readPanel") /\ FileContents' = FileContents
    BY <1>1, Standing DEF FileContents
  <2>3. Agree(FileContents, saved) /\ (custody = "lost" \/ KnownKeys(saved))
    BY <2>2 DEF FileInv, KeysInv
  <2>4. /\ KnownKeys(saved) => KnownKeys(FileContents)
        /\ KnownKeys(saved) => KnownKeys(saved)'
        /\ KnownKeys(FileContents) => KnownKeys(FileContents)'
    BY <1>1, <2>2, <2>3 DEF Agree, KnownKeys, KeysDue
  <2> QED BY <1>1, <2>1, <2>3, <2>4 DEF KeysInv
<1> QED BY <1>2, <1>3 DEF ReadPanel

\* A snapshot that reaches the file puts what memory knows into it.
LEMMA KeysPersists ==
    ASSUME Steady, Ground, FileInv, KeysInv, PersistImage("monitor") \/ Write("monitor")
    PROVE  KeysInv'
<1>1. /\ UNCHANGED << keys, chosenKeys, unsavedDim, saved >> /\ Loaded
      /\ custody = "lost" => custody' = "lost"
      /\ \A x : x \notin {"persist", "write"} => (Has(Left', x) <=> Has(Left, x))
      /\ \/ FileContents' = saved
         \/ custody' = "lost" \/ Unwritten'
  BY Persists DEF deviceVars, savedVars
<1>2. KnownKeys(saved)' <=> KnownKeys(saved)
  BY <1>1 DEF KnownKeys, KeysDue
<1>3. custody = "lost" \/ KnownKeys(saved)
  BY <1>1 DEF KeysInv
<1>4. FileContents' = saved => (KnownKeys(FileContents)' <=> KnownKeys(saved)')
  BY <1>1 DEF KnownKeys
<1> QED BY <1>1, <1>2, <1>3, <1>4 DEF KeysInv

\* The lists the loop starts, and the end of one.
LEMMA KeysLists ==
    ASSUME Ground, KeysInv, Decide \/ LeaveLoop \/ Launch \/ PersistIfChanged
    PROVE  KeysInv'
<1>1. UNCHANGED << keys, chosenKeys, unsavedDim, saved, file, custody >>
  BY DEF Decide, LeaveLoop, Launch, PersistIfChanged, deviceVars, savedVars, fileVars, ghostVars
<1>2. /\ FileContents' = FileContents /\ (KnownKeys(saved) => KnownKeys(saved)')
      /\ KnownKeys(FileContents) => KnownKeys(FileContents)'
  BY <1>1 DEF FileContents, KnownKeys, KeysDue
<1>3. CASE Decide
  <2>1. /\ Left = << >> /\ Loaded
        /\ Has(Left', "captureKeys") => saved.keyboard = Nothing
    BY <1>3, DecidedHas, EmptyHas, EffectsHave, DimmingHas
  <2> QED BY <1>1, <1>2, <2>1, EmptyHas DEF KeysInv, Unwritten
<1>4. CASE LeaveLoop
  <2>1. Left = << >> /\ alive /\ Left' = ShutdownSteps
    BY <1>4, Jumping DEF LeaveLoop, Resting, Left
  <2>2. Loaded /\ ~Unwritten /\ ~Has(Left', "captureKeys")
    BY <2>1, EmptyHas, RecoverHas, EffectsHave DEF Unwritten, Loaded
  <2> QED BY <1>1, <1>2, <2>2 DEF KeysInv
<1>5. CASE Launch
  <2>1. Left' = BootSteps /\ Left = << >>
    BY <1>5, Jumping, ThreadsDiffer DEF Launch, Ground, LockInv, Left
  <2>2. \A x : Has(Left', x) <=> x = "load"
    BY <2>1, SingleHas DEF BootSteps
  <2>3. ~Unwritten /\ ~Loaded'
    BY <2>1, <2>2, EmptyHas DEF Unwritten, Loaded
  <2> QED BY <1>1, <1>2, <2>2, <2>3 DEF KeysInv
<1>6. CASE PersistIfChanged
  <2>1. /\ At("monitor", "persistIfChanged") /\ UNCHANGED << alive, changed >>
        /\ Continue("monitor", IF changed THEN ForgetSteps ELSE << "release" >>)
    BY <1>6 DEF PersistIfChanged, loopVars
  <2>2. /\ \A x : Has(Left', x) => x \in {"snapshot", "persist", "release"}
        /\ changed => Has(Left', "persist")
    BY <2>1, Jumping, SingleHas, ForgetHas
  <2>3. Loaded /\ ~Has(Left, "persist") /\ ~Has(Left, "write")
    BY <2>1, Standing, Kinds DEF Resuming
  <2>4. Unwritten => Unwritten'
    BY <1>1, <2>2, <2>3 DEF Unwritten
  <2> QED BY <1>1, <1>2, <2>2, <2>3, <2>4 DEF KeysInv
<1> QED BY <1>3, <1>4, <1>5, <1>6

\* A process takes over what the file says, and the end of one leaves it.
LEMMA KeysProcess ==
    ASSUME Steady, Ground, FileInv, KeysInv, Load \/ Exit \/ ObserverFails \/ Crash
    PROVE  KeysInv'
<1>1. CASE Load
  <2>1. /\ saved' = FileContents /\ (Left' = RecoverSteps \/ Left' = << "observe" >>)
        /\ \A x : Has(Left, x) => x = "load"
        /\ UNCHANGED << file, alive >>
    BY <1>1, FileLoad
  <2>2. UNCHANGED << keys, chosenKeys, unsavedDim, custody >>
    BY <1>1 DEF Load, deviceVars, ghostVars
  <2>3. FileContents' = FileContents /\ (KnownKeys(saved)' <=> KnownKeys(FileContents))
        /\ (KnownKeys(FileContents)' <=> KnownKeys(FileContents))
    BY <2>1, <2>2 DEF FileContents, KnownKeys, KeysDue
  <2>4. ~Unwritten /\ ~Has(Left', "captureKeys")
    BY <2>1, RecoverHas, EffectsHave, SingleHas DEF Unwritten
  <2> QED BY <2>2, <2>3, <2>4 DEF KeysInv
<1>2. CASE Exit \/ ObserverFails \/ Crash
  <2>1. /\ Left' = << >> /\ ~Loaded'
        /\ UNCHANGED << keys, chosenKeys, unsavedDim >> /\ FileContents' = FileContents
        /\ custody = "lost" => custody' = "lost"
        /\ custody' = "lost" \/ ~Unwritten
    BY <1>2, Ends
  <2>2. KnownKeys(FileContents)' <=> KnownKeys(FileContents)
    BY <2>1 DEF KnownKeys, KeysDue
  <2> QED BY <2>1, <2>2, EmptyHas DEF KeysInv
<1> QED BY <1>1, <1>2

\* A change by the user is his choice, one of a keyboard that is owed is not.
LEMMA KeysChanges ==
    ASSUME Ground, FileInv, KeysInv, ChangeKeys
    PROVE  KeysInv'
<1>1. /\ UNCHANGED << todo, saved, file, alive, changed, custody >>
      /\ IF Owed.keyboard = Nothing THEN chosenKeys' = keys' /\ ~unsavedDim'
         ELSE UNCHANGED << chosenKeys, unsavedDim >>
      /\ Resting \/ ~alive
  BY DEF ChangeKeys, BetweenActions, savedVars, fileVars, loopVars
<1>2. Left = << >> /\ Left' = Left
  BY <1>1, ThreadsDiffer DEF Ground, LockInv, Left, Resting
<1>3. ~Unwritten /\ (\A x : ~Has(Left, x))
  BY <1>2, EmptyHas DEF Unwritten
<1>4. FileContents' = FileContents /\ (Loaded' <=> Loaded)
  BY <1>1, <1>2 DEF FileContents, Loaded
<1>5. ASSUME NEW owed, owed.keyboard = Owed.keyboard, KnownKeys(owed), owed' = owed
      PROVE  KnownKeys(owed)'
  <2>1. KeysDue # Nothing
    BY TransitionsAssumption, DaemonAssumption DEF KeysDue, Ground, TypeOK, GhostType
  <2> QED BY <1>1, <1>5, <2>1 DEF KnownKeys, KeysDue
<1>6. CASE alive
  <2>1. Loaded /\ Agree(FileContents, saved) /\ Owed = saved
    BY <1>2, <1>3, <1>6 DEF Loaded, FileInv, Owed, At, Left
  <2>2. (KnownKeys(saved) => KnownKeys(saved)') /\ (KnownKeys(FileContents) => KnownKeys(FileContents)')
    BY <1>1, <1>4, <1>5, <2>1 DEF Agree
  <2> QED BY <1>1, <1>2, <1>3, <1>4, <2>2 DEF KeysInv
<1>7. CASE ~alive
  <2>1. ~Loaded /\ Owed = FileContents
    BY <1>7 DEF Loaded, Owed
  <2>2. KnownKeys(FileContents) => KnownKeys(FileContents)'
    BY <1>4, <1>5, <2>1
  <2> QED BY <1>1, <1>2, <1>3, <1>4, <2>1, <2>2 DEF KeysInv
<1> QED BY <1>6, <1>7

\* No step of a steady daemon loses the keyboard but a resume with nothing saved.
LEMMA NextKeys ==
    ASSUME Steady, Ground, FileInv, KeysInv, [Next]_vars
    PROVE  KeysInv'
<1>1. CASE MonitorOnly
  <2>1. CASE ReadAngle
    BY <2>1, KeysUntouched DEF ReadAngle, deviceVars, savedVars, fileVars, ghostVars
  <2> QED BY <1>1, <2>1, KeysOthers, KeysDims, KeysReads, KeysLists, KeysProcess DEF MonitorOnly
<1>2. CASE Shared("monitor")
  BY <1>2, KeysOthers, KeysRestores, KeysPersists DEF Shared
<1>3. CASE World /\ ~PowerChange
  <2>1. CASE MoveLid \/ ChangePanel \/ Signal \/ BecomeCalm
    BY <2>1, KeysUntouched DEF MoveLid, ChangePanel, Signal, BecomeCalm, deviceVars, savedVars,
       fileVars, loopVars, ghostVars
  <2>2. CASE \E d \in Displays : Hotplug(d)
    BY <2>2, KeysUntouched DEF Hotplug, savedVars, fileVars, loopVars, ghostVars
  <2> QED BY <1>3, <2>1, <2>2, KeysLists, KeysProcess, KeysChanges DEF World
<1>4. CASE Tick \/ UNCHANGED vars
  BY <1>4, KeysUntouched DEF Tick, vars, deviceVars, savedVars, fileVars, loopVars, ghostVars
<1> QED BY <1>1, <1>2, <1>3, <1>4, NextAlone DEF Ground

-----------------------------------------------------------------------------
(* The external displays. *)

\* A step that leaves the displays and what is saved of them alone.
LEMMA ExternalPasses ==
    ASSUME Ground, ExternalInv, NEW step, At("monitor", step), Done("monitor"),
           step \notin {"load", "takeExternal", "restoreExternal", "persist", "write",
                        "persistIfChanged"},
           UNCHANGED << plugged, dark, taken, file, alive >>,
           saved'.external = saved.external,
           saved.internal # Nothing => saved'.internal # Nothing \/ saved.external = Nothing,
           Has(Left', "persistIfChanged") /\ changed => changed',
           custody' = custody \/ Unsaved
    PROVE  ExternalInv'
<1>1. /\ Head(Left) = step /\ Loaded
      /\ \A x : Has(Left', x) => Has(Left, x)
      /\ \A x : Has(Left, x) => Has(Left', x) \/ x = step
  BY Standing, Passing DEF At
<1>2. FileContents' = FileContents
  BY DEF FileContents
<1>3. /\ custody = "lost" => custody' = "lost"
      /\ custody = "inMemory" => custody' = "inMemory"
  BY DEF Unsaved
<1>4. Unwritten => Unwritten'
  BY <1>1, <1>3 DEF Unwritten
<1> QED BY <1>1, <1>2, <1>3, <1>4 DEF ExternalInv

\* What touches none of it.
LEMMA ExternalUntouched ==
    ASSUME ExternalInv,
           UNCHANGED << todo, saved, taken, file, alive, changed, plugged, dark, custody >>
    PROVE  ExternalInv'
BY DEF ExternalInv, Unwritten, Left, Loaded, FileContents

\* The steps that are none of the displays' business.
LEMMA ExternalOthers ==
    ASSUME Steady, Ground, PanelInv, ExternalInv,
           \/ Acquire("monitor") \/ Release("monitor") \/ UnlockCursor("monitor")
           \/ RestoreKeys("monitor") \/ StopCaffeinate("monitor") \/ Snapshot("monitor")
           \/ StartObserver \/ DimPanel \/ RedimPanel \/ CaptureKeys \/ RedimKeys
           \/ StartCaffeinate \/ LockCursor
    PROVE  ExternalInv'
<1>1. saved \in SavedState /\ changed \in BOOLEAN
  BY DEF Ground, TypeOK, SavedType, LoopType
<1>2. CASE \/ Acquire("monitor") \/ UnlockCursor("monitor") \/ StopCaffeinate("monitor")
           \/ Snapshot("monitor") \/ StartObserver
  <2>1. /\ \E step \in {"acquire", "unlockCursor", "stopCaffeinate", "snapshot", "observe"} :
              At("monitor", step)
        /\ Done("monitor")
        /\ UNCHANGED << plugged, dark, taken, file, alive, saved, changed, custody >>
    BY <1>2 DEF Acquire, UnlockCursor, StopCaffeinate, Snapshot, StartObserver, deviceVars,
       savedVars, loopVars, fileVars, ghostVars
  <2> QED BY <2>1, ExternalPasses
<1>3. CASE Release("monitor")
  <2>1. /\ At("monitor", "release") /\ Done("monitor")
        /\ UNCHANGED << plugged, dark, taken, file, alive, saved, custody >>
    BY <1>3 DEF Release, deviceVars, savedVars, fileVars, ghostVars
  <2>2. ~Has(Left', "persistIfChanged")
    BY <2>1, Standing, Kinds, Passing DEF At, Resuming
  <2> QED BY <2>1, <2>2, ExternalPasses
<1>4. CASE RestoreKeys("monitor") \/ CaptureKeys
  <2>1. /\ \E step \in {"restoreKeys", "relightKeys", "captureKeys"} : At("monitor", step)
        /\ Done("monitor")
        /\ UNCHANGED << plugged, dark, taken, file, alive, changed >>
        /\ custody' = custody \/ Unsaved
        /\ saved'.external = saved.external /\ saved'.internal = saved.internal
    BY <1>1, <1>4, SteadyMay DEF RestoreKeys, CaptureKeys, SavedState, loopVars, fileVars, ghostVars
  <2> QED BY <2>1, ExternalPasses
<1>5. CASE DimPanel \/ RedimPanel \/ RedimKeys \/ StartCaffeinate \/ LockCursor
  <2>1. /\ \E step \in {"dimPanel", "redimPanel", "redimKeys", "startCaffeinate", "lockCursor"} :
              At("monitor", step)
        /\ Done("monitor") /\ (changed => changed')
        /\ UNCHANGED << plugged, dark, taken, file, alive, saved >>
        /\ custody' = custody \/ Unsaved
    BY <1>1, <1>5, SteadyMay DEF DimPanel, RedimPanel, RedimKeys, StartCaffeinate, LockCursor,
       savedVars, deviceVars, loopVars, fileVars, ghostVars, Ground, TypeOK, FlagType
  <2> QED BY <2>1, ExternalPasses
<1> QED BY <1>2, <1>3, <1>4, <1>5

\* The panel is restored after the displays, which are then no longer saved, and
\* its reading is the first thing to be saved.
LEMMA ExternalPanels ==
    ASSUME Steady, Wired, Ground, FileInv, ExternalInv, RestorePanel("monitor") \/ ReadPanel
    PROVE  ExternalInv'
<1>1. saved \in SavedState
  BY DEF Ground, TypeOK, SavedType
<1>2. CASE RestorePanel("monitor")
  <2>1. /\ Done("monitor") /\ UNCHANGED << plugged, dark, taken, file, alive, changed, custody >>
        /\ saved'.external = saved.external
        /\ \/ At("monitor", "restorePanel")
           \/ At("monitor", "relightPanel") /\ saved' = saved
    BY <1>1, <1>2 DEF RestorePanel, At, SavedState, loopVars, fileVars, ghostVars
  <2>2. CASE At("monitor", "restorePanel")
    <3>1. Rank("restorePanel") = 5 /\ Rank("takeExternal") = 2
      BY DEF Rank
    <3>2. Has(Left, "restorePanel") /\ ~Has(Left, "takeExternal")
      BY <2>1, <2>2, <3>1, Standing, Passing DEF At
    <3>3. saved.external = Nothing
      BY <3>2 DEF ExternalInv
    <3> QED BY <2>1, <2>2, <3>3, ExternalPasses
  <2>3. CASE At("monitor", "relightPanel") /\ saved' = saved
    BY <2>1, <2>3, ExternalPasses
  <2> QED BY <2>1, <2>2, <2>3
<1>3. CASE ReadPanel
  <2>1. /\ At("monitor", "readPanel") /\ saved'.external = saved.external
        /\ UNCHANGED << plugged, dark, taken, file, alive, changed, custody >>
        /\ \/ Done("monitor")
           \/ Continue("monitor", << "release" >>) /\ saved' = saved
        /\ saved.internal # Nothing => saved' = saved
    BY <1>1, <1>3 DEF ReadPanel, SavedState, deviceVars, loopVars, fileVars, ghostVars
  <2>2. CASE Done("monitor")
    BY <2>1, <2>2, ExternalPasses
  <2>3. CASE Continue("monitor", << "release" >>) /\ saved' = saved
    <3>1. \A x : Has(Left', x) <=> x = "release"
      BY <2>3, Jumping, SingleHas
    <3>2. Loaded /\ Has(Left, "readPanel") /\ Ordered(Left)
      BY <2>1, Standing
    <3>3. Agree(FileContents, saved) /\ WholeCaptures
      BY <3>2 DEF FileInv, WholeCaptures, Wired
    <3>4. ~Has(Left, "restoreExternal")
      BY <3>2, Kinds DEF Starting
    <3>5. taken = Nothing /\ FileContents.external = saved.external
      BY <3>3, <3>4 DEF ExternalInv, Agree
    <3>6. custody = "lost" \/ dark \subseteq Ids(saved.external)
      BY <3>2, <3>5 DEF ExternalInv, Ids
    <3>7. FileContents' = FileContents
      BY <2>1 DEF FileContents
    <3> QED BY <2>1, <2>3, <3>1, <3>2, <3>5, <3>6, <3>7 DEF ExternalInv
  <2> QED BY <2>1, <2>2, <2>3
<1> QED BY <1>2, <1>3

\* What was taken comes back as a whole.
LEMMA ExternalsBack ==
    ASSUME Wired, Ground, ExternalInv, RestoreExternal
    PROVE  /\ saved' = saved /\ saved.external = Nothing
           /\ taken' = Nothing /\ dark' = dark \ Ids(taken)
<1>1. saved \in SavedState /\ taken \in Option(SUBSET Displays)
  BY DEF Ground, TypeOK, SavedType
<1>2. saved.external = Nothing
  <2>1. Rank("takeExternal") = 2 /\ Rank("restoreExternal") = 3
    BY DEF Rank
  <2>2. Has(Left, "restoreExternal") /\ ~Has(Left, "takeExternal")
    BY <2>1, Standing, Passing DEF RestoreExternal, At
  <2> QED BY <2>2 DEF ExternalInv
<1>3. CASE taken = Nothing
  BY <1>2, <1>3 DEF RestoreExternal, Ids
<1>4. CASE taken # Nothing
  <2>1. PICK back \in SUBSET taken :
          /\ ~May("externalRestore") => taken \cap plugged \subseteq back
          /\ dark' = dark \ back
          /\ saved' = [saved EXCEPT !.external = ExternalAfter(back)]
          /\ taken' = Nothing
    BY <1>4 DEF RestoreExternal
  <2>2. taken \subseteq Displays /\ plugged = Displays /\ ~May("externalRestore")
    BY <1>1, <1>4 DEF ExternalInv, Wired, Excludes, May, Option
  <2>3. back = taken
    BY <2>1, <2>2
  <2> QED BY <1>1, <1>2, <1>4, <2>1, <2>3 DEF ExternalAfter, Ids, SavedState
<1> QED BY <1>3, <1>4

\* The displays are taken out of memory, and come back as a whole.
LEMMA ExternalRestores ==
    ASSUME Wired, Ground, ExternalInv, TakeExternal \/ RestoreExternal
    PROVE  ExternalInv'
<1>1. saved \in SavedState /\ taken \in Option(SUBSET Displays)
  BY DEF Ground, TypeOK, SavedType
<1>2. PICK step \in {"takeExternal", "restoreExternal"} :
         /\ At("monitor", step) /\ Done("monitor")
         /\ UNCHANGED << file, alive, custody, changed, plugged >>
         /\ saved'.internal = saved.internal
         /\ \/ step = "takeExternal" /\ TakeExternal
            \/ step = "restoreExternal" /\ RestoreExternal
  BY <1>1 DEF TakeExternal, RestoreExternal, SavedState, deviceVars, loopVars, fileVars, ghostVars
<1>3. /\ Head(Left) = step /\ Loaded /\ Has(Left, step) /\ Ordered(Left)
      /\ todo["monitor"] # << >>
  BY <1>2, Standing DEF At
<1>4. /\ \A x : Has(Left', x) => Has(Left, x)
      /\ \A x : Has(Left, x) => Has(Left', x) \/ x = step
      /\ \A x : Has(Left', x) /\ Rank(step) > 0 /\ Rank(x) > 0 => Rank(step) < Rank(x)
  BY <1>2, <1>3, Passing
<1>5. ~Has(Left', "captureExternal")
  BY <1>3, <1>4, Kinds DEF Restoring
<1>6. /\ FileContents' = FileContents
      /\ Unwritten => Unwritten'
  BY <1>2, <1>4 DEF FileContents, Unwritten
<1>7. Rank("takeExternal") = 2 /\ Rank("restoreExternal") = 3
  BY DEF Rank
<1>8. CASE step = "takeExternal" /\ TakeExternal
  <2>1. /\ taken' = saved.external /\ saved'.external = Nothing /\ dark' = dark
    BY <1>1, <1>8 DEF TakeExternal, SavedState, deviceVars
  <2>2. taken = Nothing /\ Has(Left', "restoreExternal") /\ ~Has(Left', "takeExternal")
    BY <1>3, <1>4, <1>7, <1>8 DEF ExternalInv
  <2>3. custody = "lost" \/ dark' \subseteq Ids(saved'.external) \cup Ids(taken')
    BY <1>3, <2>1, <2>2 DEF ExternalInv, Ids
  <2> QED BY <1>2, <1>5, <1>6, <2>1, <2>2, <2>3 DEF ExternalInv
<1>9. CASE step = "restoreExternal" /\ RestoreExternal
  <2>1. /\ ~Has(Left', "restoreExternal") /\ ~Has(Left', "takeExternal")
        /\ ~Has(Left, "takeExternal")
    BY <1>4, <1>7, <1>9
  <2>2. /\ saved' = saved /\ saved.external = Nothing
        /\ taken' = Nothing /\ dark' = dark \ Ids(taken)
    BY <1>9, ExternalsBack
  <2>3. custody = "lost" \/ dark' \subseteq Ids(saved'.external) \cup Ids(taken')
    BY <1>3, <2>2 DEF ExternalInv, Ids
  <2> QED BY <1>2, <1>5, <1>6, <2>1, <2>2, <2>3 DEF ExternalInv
<1> QED BY <1>2, <1>8, <1>9

\* The displays that are disabled are all written down, and persisted.
LEMMA ExternalCaptures ==
    ASSUME Steady, Wired, Ground, CaptureInv, PanelInv, ExternalInv,
           CaptureExternal \/ RecaptureExternal
    PROVE  ExternalInv'
<1>1. saved \in SavedState /\ changed \in BOOLEAN
  BY DEF Ground, TypeOK, SavedType, LoopType
<1>2. PICK step \in {"captureExternal", "recaptureExternal"} :
         /\ At("monitor", step) /\ Done("monitor")
         /\ UNCHANGED << plugged, taken, file, alive >>
         /\ \/ UNCHANGED << dark, saved, changed, custody >>
            \/ \E disabled \in SUBSET Online :
                  /\ DisableExternal(disabled)
                  /\ saved.external = Nothing => saved' = [saved EXCEPT !.external = disabled]
                  /\ step = "recaptureExternal" => ~Captured /\ (changed => changed')
                  /\ step = "captureExternal" => changed' = changed
  <2>1. CASE CaptureExternal
    <3>1. /\ At("monitor", "captureExternal") /\ Done("monitor")
          /\ UNCHANGED << plugged, taken, file, alive, changed >>
          /\ \/ UNCHANGED << dark, saved, custody >>
             \/ \E disabled \in SUBSET Online :
                   /\ DisableExternal(disabled)
                   /\ saved.external = Nothing => saved' = [saved EXCEPT !.external = disabled]
      BY <2>1 DEF CaptureExternal, loopVars, fileVars
    <3> QED BY <3>1
  <2>2. CASE RecaptureExternal
    <3>1. /\ At("monitor", "recaptureExternal") /\ Done("monitor")
          /\ UNCHANGED << plugged, taken, file, alive >>
          /\ \/ UNCHANGED << dark, saved, changed, custody >>
             \/ /\ ~Captured
                /\ \E disabled \in SUBSET Online :
                      /\ DisableExternal(disabled)
                      /\ saved' = [saved EXCEPT !.external = disabled]
                      /\ changed' = (changed \/ disabled = Online)
      BY <2>2 DEF RecaptureExternal, Captured, fileVars
    <3> QED BY <1>1, <3>1
  <2> QED BY <2>1, <2>2
<1>3. CASE UNCHANGED << dark, saved, changed, custody >>
  BY <1>2, <1>3, ExternalPasses
<1>4. ASSUME NEW disabled \in SUBSET Online,
             DisableExternal(disabled),
             saved.external = Nothing => saved' = [saved EXCEPT !.external = disabled],
             step = "recaptureExternal" => ~Captured /\ (changed => changed'),
             step = "captureExternal" => changed' = changed
      PROVE  ExternalInv'
  <2>1. /\ Head(Left) = step /\ Loaded /\ Has(Left, step) /\ Ordered(Left)
        /\ todo["monitor"] # << >>
    BY <1>2, Standing DEF At
  <2>2. /\ \A x : Has(Left', x) => Has(Left, x)
        /\ \A x : Has(Left, x) => Has(Left', x) \/ x = step
        /\ \A x : Has(Left', x) /\ Rank(step) > 0 /\ Rank(x) > 0 => Rank(step) < Rank(x)
    BY <1>2, <2>1, Passing
  <2>3. /\ Rank("captureExternal") = 4 /\ Rank("recaptureExternal") = 10
        /\ Rank("readPanel") = 1 /\ Rank("lockCursor") = 9
    BY DEF Rank
  <2>4. /\ ~Has(Left, "takeExternal") /\ ~Has(Left, "restoreExternal")
        /\ ~Has(Left, "restorePanel") /\ ~Has(Left, "readPanel")
        /\ ~Has(Left', "captureExternal")
    BY <2>1, <2>2, <2>3, Kinds DEF Starting, Resuming
  <2>5. saved.internal # Nothing /\ taken = Nothing
    BY <2>1, <2>4 DEF PanelInv, Owes, Dims, ExternalInv
  <2>6. saved.external = Nothing
    BY <1>4, <2>1 DEF ExternalInv, Captured
  <2>7. /\ saved'.external = disabled /\ disabled # Nothing
        /\ saved'.internal = saved.internal
        /\ dark' = dark \cup disabled /\ Unsaved
    BY <1>1, <1>4, <2>6, DaemonAssumption
    DEF SavedState, DisableExternal, Online, Ground, TypeOK, DeviceType
  <2>8. custody = "lost" \/ dark = {}
    BY <2>1, <2>5, <2>6 DEF ExternalInv, Ids
  <2>9. Has(Left', "persistIfChanged") => changed'
    <3>1. CASE step = "captureExternal"
      BY <2>1, <2>2, <3>1, Kinds DEF Starting
    <3>2. CASE step = "recaptureExternal"
      <4>1. ~Has(Left, "lockCursor")
        BY <2>1, <2>2, <2>3, <3>2
      <4> QED BY <1>4, <2>1, <3>2, <4>1 DEF CaptureInv
    <3> QED BY <3>1, <3>2
  <2>10. custody' = "lost" \/ Unwritten'
    BY <1>2, <2>7, <2>9, WrittenLater DEF Recording
  <2>11. (custody = "lost" => custody' = "lost") /\ FileContents' = FileContents
    BY <1>2, <2>7 DEF Unsaved, FileContents
  <2>12. custody' = "lost" \/ dark' \subseteq Ids(saved'.external)
    BY <2>7, <2>8, <2>11 DEF Ids
  <2> QED BY <1>2, <2>2, <2>4, <2>5, <2>7, <2>10, <2>11, <2>12 DEF ExternalInv
<1> QED BY <1>2, <1>3, <1>4

\* What reaches the file is written down in it.
LEMMA ExternalPersists ==
    ASSUME Steady, Ground, FileInv, ExternalInv, PersistImage("monitor") \/ Write("monitor")
    PROVE  ExternalInv'
<1>1. /\ UNCHANGED << plugged, dark, taken, saved >> /\ Loaded /\ Ordered(Left)
      /\ custody = "lost" => custody' = "lost"
      /\ \A x : x \notin {"persist", "write"} => (Has(Left', x) <=> Has(Left, x))
      /\ \A x : Has(Left', x) /\ Rank(x) > 0 => 8 <= Rank(x)
      /\ \/ FileContents' = saved
         \/ (custody' = "lost" \/ Unwritten') /\ FileContents' = NothingSaved
  BY Persists DEF deviceVars, savedVars
<1>2. ~Has(Left, "restoreExternal")
  <2>1. Rank("restoreExternal") = 3
    BY DEF Rank
  <2> QED BY <1>1, <2>1
<1>3. custody = "lost" \/ dark \subseteq Ids(saved.external)
  BY <1>1, <1>2 DEF ExternalInv, Ids
<1>4. CASE FileContents' = saved
  BY <1>1, <1>3, <1>4 DEF ExternalInv
<1>5. CASE (custody' = "lost" \/ Unwritten') /\ FileContents' = NothingSaved
  BY <1>1, <1>5 DEF ExternalInv, NothingSaved
<1> QED BY <1>1, <1>4, <1>5

\* Where nothing is on its way to the file, another list can begin.
LEMMA ExternalJumps ==
    ASSUME ExternalInv, ~Unwritten, taken = Nothing,
           UNCHANGED << plugged, dark, taken, saved, file, custody >>,
           Loaded' => Loaded,
           Has(Left', "takeExternal") => Has(Left', "restoreExternal"),
           Has(Left', "restorePanel") \/ Has(Left', "restoreExternal") => Has(Left', "takeExternal"),
           Has(Left', "captureExternal") => saved.external = Nothing
    PROVE  ExternalInv'
BY DEF ExternalInv, FileContents

\* The lists the loop starts, and the end of one.
LEMMA ExternalLists ==
    ASSUME Ground, ExternalInv, Decide \/ LeaveLoop \/ Launch \/ PersistIfChanged
    PROVE  ExternalInv'
<1>1. UNCHANGED << plugged, dark, taken, saved, file, custody >>
  BY DEF Decide, LeaveLoop, Launch, PersistIfChanged, deviceVars, savedVars, fileVars, ghostVars
<1>2. CASE Decide
  <2>1. /\ Left = << >> /\ Loaded
        /\ \/ Left' = << >>
           \/ \E s \in {RestoreEffects, KeepEffects, PrepareEffects} :
                 \A x : Has(Left', x) <=> \/ x \in {"acquire", "release", "snapshot", "persist"}
                                          \/ Has(s, x)
           \/ /\ \A x : Has(Left', x) <=> Has(StartSteps, x)
              /\ saved.internal = Nothing
           \/ \A x : Has(Left', x) <=> Has(ResumeSteps, x)
    BY <1>2, DecidedHas
  <2>2. ~Unwritten /\ taken = Nothing
    BY <2>1, Between DEF ExternalInv
  <2>3. saved.internal = Nothing => saved.external = Nothing
    BY DEF ExternalInv
  <2> QED BY <1>1, <2>1, <2>2, <2>3, ExternalJumps, EmptyHas, EffectsHave, DimmingHas
<1>3. CASE LeaveLoop
  <2>1. Left = << >> /\ alive /\ Left' = ShutdownSteps
    BY <1>3, Jumping DEF LeaveLoop, Resting, Left
  <2>2. ~Unwritten /\ Loaded /\ taken = Nothing
    BY <2>1, Between DEF ExternalInv
  <2> QED BY <1>1, <2>1, <2>2, ExternalJumps, RecoverHas, EffectsHave
<1>4. CASE Launch
  <2>1. Left' = BootSteps /\ ~alive
    BY <1>4, Jumping DEF Launch
  <2>2. Left = << >>
    BY <2>1, ThreadsDiffer DEF Ground, LockInv, Left
  <2>3. \A x : Has(Left', x) <=> x = "load"
    BY <2>1, SingleHas DEF BootSteps
  <2>4. ~Unwritten /\ taken = Nothing
    BY <2>2, Between DEF ExternalInv
  <2>5. ~Loaded'
    BY <2>3 DEF Loaded
  <2> QED BY <1>1, <2>3, <2>4, <2>5, ExternalJumps
<1>5. CASE PersistIfChanged
  <2>1. /\ At("monitor", "persistIfChanged") /\ UNCHANGED << alive, changed >>
        /\ Continue("monitor", IF changed THEN ForgetSteps ELSE << "release" >>)
    BY <1>5 DEF PersistIfChanged, loopVars
  <2>2. /\ \A x : Has(Left', x) => x \in {"snapshot", "persist", "release"}
        /\ changed => Has(Left', "persist")
    BY <2>1, Jumping, SingleHas, ForgetHas
  <2>3. Loaded /\ ~Has(Left, "persist") /\ ~Has(Left, "write") /\ ~Has(Left, "restoreExternal")
    BY <2>1, Standing, Kinds DEF Resuming
  <2>4. taken = Nothing
    BY <2>3 DEF ExternalInv
  <2>5. CASE Unwritten
    <3>1. Unwritten'
      BY <1>1, <2>2, <2>3, <2>5 DEF Unwritten
    <3>2. FileContents' = FileContents
      BY <1>1 DEF FileContents
    <3> QED BY <1>1, <2>2, <2>3, <2>4, <3>1, <3>2 DEF ExternalInv
  <2>6. CASE ~Unwritten
    BY <1>1, <2>2, <2>3, <2>4, <2>6, ExternalJumps
  <2> QED BY <2>5, <2>6
<1> QED BY <1>2, <1>3, <1>4, <1>5

\* What the next process loads, and the end of this one.
LEMMA ExternalLives ==
    ASSUME Steady, Ground, FileInv, ExternalInv, Load \/ Exit \/ ObserverFails \/ Crash
    PROVE  ExternalInv'
<1>1. CASE Load
  <2>1. /\ saved' = FileContents /\ (Left' = RecoverSteps \/ Left' = << "observe" >>)
        /\ \A x : Has(Left, x) => x = "load"
        /\ UNCHANGED << file, alive >>
    BY <1>1, FileLoad
  <2>2. UNCHANGED << plugged, dark, taken, custody >>
    BY <1>1 DEF Load, deviceVars, ghostVars
  <2>3. FileContents' = FileContents /\ ~Unwritten /\ taken = Nothing
    BY <2>1 DEF FileContents, Unwritten, ExternalInv
  <2>4. /\ ~Has(Left', "captureExternal")
        /\ Has(Left', "takeExternal") => Has(Left', "restoreExternal")
        /\ Has(Left', "restorePanel") \/ Has(Left', "restoreExternal") => Has(Left', "takeExternal")
    BY <2>1, RecoverHas, EffectsHave, SingleHas
  <2> QED BY <2>1, <2>2, <2>3, <2>4 DEF ExternalInv
<1>2. CASE Exit \/ ObserverFails \/ Crash
  <2>1. /\ Left' = << >> /\ ~Loaded' /\ saved' = NothingSaved /\ taken' = Nothing
        /\ UNCHANGED << plugged, dark >> /\ FileContents' = FileContents
        /\ custody = "lost" => custody' = "lost"
        /\ custody' = "lost" \/ ~Unwritten
    BY <1>2, Ends
  <2> QED BY <2>1, EmptyHas DEF ExternalInv, NothingSaved
<1> QED BY <1>1, <1>2

\* No step of a steady and wired daemon forgets a display.
LEMMA NextExternal ==
    ASSUME Steady, Wired, Ground, FileInv, CaptureInv, PanelInv, ExternalInv, [Next]_vars
    PROVE  ExternalInv'
<1>1. CASE MonitorOnly
  <2>1. CASE ReadAngle
    BY <2>1, ExternalUntouched DEF ReadAngle, deviceVars, savedVars, fileVars, ghostVars
  <2> QED BY <1>1, <2>1, ExternalOthers, ExternalPanels, ExternalRestores, ExternalCaptures,
             ExternalLists, ExternalLives DEF MonitorOnly
<1>2. CASE Shared("monitor")
  BY <1>2, ExternalOthers, ExternalPanels, ExternalPersists DEF Shared
<1>3. CASE World /\ ~PowerChange
  <2>1. CASE MoveLid \/ ChangePanel \/ ChangeKeys \/ Signal \/ BecomeCalm
    BY <2>1, ExternalUntouched DEF MoveLid, ChangePanel, ChangeKeys, Signal, BecomeCalm,
       deviceVars, savedVars, fileVars, loopVars, ghostVars
  <2>2. \A d \in Displays : ~Hotplug(d)
    BY DEF Hotplug, May, Wired, Excludes
  <2> QED BY <1>3, <2>1, <2>2, ExternalLists, ExternalLives DEF World
<1>4. CASE Tick \/ UNCHANGED vars
  BY <1>4, ExternalUntouched DEF Tick, vars, deviceVars, savedVars, fileVars, loopVars, ghostVars
<1> QED BY <1>1, <1>2, <1>3, <1>4, NextAlone DEF Ground

-----------------------------------------------------------------------------
(* The cursor. *)

\* A step that neither locks nor unlocks it, and leaves the panel saved.
LEMMA CursorPasses ==
    ASSUME Ground, CursorInv, NEW step, At("monitor", step), Done("monitor"),
           step \notin {"load", "unlockCursor", "persist", "write", "persistIfChanged"},
           UNCHANGED << frozen, file, alive >>,
           saved'.internal = saved.internal,
           Has(Left', "persistIfChanged") /\ changed => changed',
           custody' = custody \/ Unsaved
    PROVE  CursorInv'
<1>1. /\ Head(Left) = step /\ Loaded
      /\ \A x : Has(Left', x) => Has(Left, x)
      /\ \A x : Has(Left, x) => Has(Left', x) \/ x = step
  BY Standing, Passing DEF At
<1>2. FileContents' = FileContents
  BY DEF FileContents
<1>3. /\ custody = "lost" => custody' = "lost"
      /\ custody = "inMemory" => custody' = "inMemory"
  BY DEF Unsaved
<1>4. Unwritten => Unwritten'
  BY <1>1, <1>3 DEF Unwritten
<1> QED BY <1>1, <1>2, <1>3, <1>4 DEF CursorInv

\* What touches none of it.
LEMMA CursorUntouched ==
    ASSUME CursorInv, UNCHANGED << todo, saved, file, alive, changed, frozen, custody >>
    PROVE  CursorInv'
BY DEF CursorInv, Unwritten, Left, Loaded, FileContents

\* The steps that are none of the cursor's business.
LEMMA CursorOthers ==
    ASSUME Steady, Ground, CursorInv,
           \/ Acquire("monitor") \/ Release("monitor") \/ TakeExternal \/ RestoreExternal
           \/ RestoreKeys("monitor") \/ StopCaffeinate("monitor") \/ Snapshot("monitor")
           \/ StartObserver \/ DimPanel \/ RedimPanel \/ CaptureKeys \/ RedimKeys
           \/ CaptureExternal \/ RecaptureExternal \/ StartCaffeinate
    PROVE  CursorInv'
<1>1. saved \in SavedState /\ changed \in BOOLEAN
  BY DEF Ground, TypeOK, SavedType, LoopType
<1>2. CASE \/ Acquire("monitor") \/ StopCaffeinate("monitor") \/ Snapshot("monitor")
           \/ StartObserver
  <2>1. /\ \E step \in {"acquire", "stopCaffeinate", "snapshot", "observe"} :
              At("monitor", step)
        /\ Done("monitor") /\ UNCHANGED << frozen, file, alive, saved, changed, custody >>
    BY <1>2 DEF Acquire, StopCaffeinate, Snapshot, StartObserver, deviceVars,
       savedVars, loopVars, fileVars, ghostVars
  <2> QED BY <2>1, CursorPasses
<1>3. CASE Release("monitor")
  <2>1. /\ At("monitor", "release") /\ Done("monitor")
        /\ UNCHANGED << frozen, file, alive, saved, custody >>
    BY <1>3 DEF Release, deviceVars, savedVars, fileVars, ghostVars
  <2>2. ~Has(Left', "persistIfChanged")
    BY <2>1, Standing, Kinds, Passing DEF At, Resuming
  <2> QED BY <2>1, <2>2, CursorPasses
<1>4. CASE TakeExternal \/ RestoreExternal \/ RestoreKeys("monitor") \/ CaptureKeys
  <2>1. /\ \E step \in {"takeExternal", "restoreExternal", "restoreKeys", "relightKeys",
                        "captureKeys"} : At("monitor", step)
        /\ Done("monitor") /\ UNCHANGED << frozen, file, alive, changed >>
        /\ custody' = custody \/ Unsaved
        /\ saved'.internal = saved.internal
    BY <1>1, <1>4, SteadyMay DEF TakeExternal, RestoreExternal, RestoreKeys, CaptureKeys,
       SavedState, deviceVars, loopVars, fileVars, ghostVars
  <2> QED BY <2>1, CursorPasses
<1>5. CASE DimPanel \/ RedimPanel \/ RedimKeys \/ StartCaffeinate
  <2>1. /\ \E step \in {"dimPanel", "redimPanel", "redimKeys", "startCaffeinate"} :
              At("monitor", step)
        /\ Done("monitor") /\ (changed => changed')
        /\ UNCHANGED << frozen, file, alive, saved >>
        /\ custody' = custody \/ Unsaved
    BY <1>1, <1>5, SteadyMay DEF DimPanel, RedimPanel, RedimKeys, StartCaffeinate,
       savedVars, deviceVars, loopVars, fileVars, ghostVars, Ground, TypeOK, FlagType
  <2> QED BY <2>1, CursorPasses
<1>6. CASE CaptureExternal \/ RecaptureExternal
  <2>1. /\ \E step \in {"captureExternal", "recaptureExternal"} : At("monitor", step)
        /\ Done("monitor") /\ (changed => changed')
        /\ UNCHANGED << frozen, file, alive >>
        /\ custody' = custody \/ Unsaved
    BY <1>1, <1>6 DEF CaptureExternal, RecaptureExternal, DisableExternal, loopVars, fileVars
  <2>2. saved'.internal = saved.internal
    BY <1>1, <1>6 DEF CaptureExternal, RecaptureExternal, SavedState
  <2> QED BY <2>1, <2>2, CursorPasses
<1> QED BY <1>2, <1>3, <1>4, <1>5, <1>6

\* The cursor is unlocked by every restore, and only locked with the panel in
\* the file: after its persist in a first dim, before it in a resumed one.
LEMMA CursorLocks ==
    ASSUME Excludes({"cursorUnlock"}), Ground, FileInv, PanelInv, CursorInv,
           UnlockCursor("monitor") \/ LockCursor
    PROVE  CursorInv'
<1>1. CASE UnlockCursor("monitor")
  <2>1. /\ At("monitor", "unlockCursor") /\ Done("monitor") /\ frozen' = FALSE
        /\ UNCHANGED << saved, file >>
    BY <1>1 DEF UnlockCursor, Excludes, May, savedVars, fileVars
  <2>2. Has(Left', "persistIfChanged") => Has(Left, "persistIfChanged")
    BY <2>1, Passing DEF At
  <2> QED BY <2>1, <2>2 DEF CursorInv, FileContents
<1>2. CASE LockCursor
  <2>1. /\ At("monitor", "lockCursor") /\ Done("monitor")
        /\ UNCHANGED << saved, file, alive, custody >>
    BY <1>2 DEF LockCursor, savedVars, fileVars, ghostVars
  <2>2. /\ Head(Left) = "lockCursor" /\ Has(Left, "lockCursor") /\ Ordered(Left) /\ Loaded
        /\ Left \in Lists /\ Left # << >>
    BY <2>1, Standing
  <2>3. \A x : Has(Left', x) => Has(Left, x)
    BY <2>1, Passing DEF At
  <2>4. /\ ~Has(Left, "snapshot") /\ ~Has(Left, "persist") /\ ~Has(Left, "write")
        /\ ~Has(Left, "readPanel")
    <3>1. /\ Rank("lockCursor") = 9 /\ Rank("snapshot") = 7 /\ Rank("persist") = 8
          /\ Rank("write") = 8 /\ Rank("readPanel") = 1
      BY DEF Rank
    <3> QED BY <2>2, <3>1, OrderedTail
  <2>5. saved.internal # Nothing
    BY <2>2, <2>4 DEF PanelInv, Owes, Dims
  <2>6. FileContents.internal = saved.internal
    <3>1. CASE Has(Left, "persistIfChanged")
      BY <3>1 DEF CursorInv
    <3>2. CASE ~Has(Left, "persistIfChanged")
      <4>1. Agree(FileContents, saved)
        BY <2>2, <2>4, <3>2 DEF FileInv, Saving
      <4> QED BY <4>1 DEF Agree
    <3> QED BY <3>1, <3>2
  <2>7. ~Has(Left', "restorePanel") /\ FileContents' = FileContents
    BY <2>1, <2>2, <2>3, Kinds DEF Restoring, FileContents
  <2> QED BY <2>1, <2>3, <2>5, <2>6, <2>7 DEF CursorInv
<1> QED BY <1>1, <1>2

\* When the panel is restored the cursor has been unlocked; where it cannot be
\* read the file knows what memory knows.
LEMMA CursorPanels ==
    ASSUME Steady, Ground, FileInv, CursorInv, RestorePanel("monitor") \/ ReadPanel
    PROVE  CursorInv'
<1>1. saved \in SavedState
  BY DEF Ground, TypeOK, SavedType
<1>2. CASE RestorePanel("monitor")
  <2>1. /\ Done("monitor") /\ UNCHANGED << frozen, file, alive, changed, custody >>
        /\ \/ At("monitor", "restorePanel")
           \/ At("monitor", "relightPanel") /\ saved' = saved
    BY <1>1, <1>2 DEF RestorePanel, At, loopVars, fileVars, ghostVars
  <2>2. CASE At("monitor", "restorePanel")
    <3>1. Rank("restorePanel") = 5 /\ Rank("unlockCursor") = 1
      BY DEF Rank
    <3>2. Has(Left, "restorePanel") /\ ~Has(Left, "unlockCursor") /\ Ordered(Left)
      BY <2>1, <2>2, <3>1, Standing, Passing DEF At
    <3>3. ~frozen
      BY <3>2 DEF CursorInv
    <3>4. ~Has(Left, "persistIfChanged")
      BY <3>2, Kinds DEF Restoring
    <3>5. ~Has(Left', "persistIfChanged")
      BY <2>1, <2>2, <3>4, Passing DEF At
    <3> QED BY <2>1, <3>3, <3>5 DEF CursorInv
  <2>3. CASE At("monitor", "relightPanel") /\ saved' = saved
    BY <2>1, <2>3, CursorPasses
  <2> QED BY <2>1, <2>2, <2>3
<1>3. CASE ReadPanel
  <2>1. /\ At("monitor", "readPanel") /\ UNCHANGED << frozen, file, alive, changed, custody >>
        /\ FileContents' = FileContents
    BY <1>3 DEF ReadPanel, deviceVars, loopVars, fileVars, ghostVars, FileContents
  <2>2. Loaded /\ Has(Left, "readPanel") /\ Ordered(Left)
    BY <2>1, Standing
  <2>3. Agree(FileContents, saved)
    BY <2>2 DEF FileInv
  <2>4. frozen => custody = "lost" \/ FileContents.internal # Nothing
    BY <2>2, <2>3 DEF CursorInv, Agree
  <2>5. ~Has(Left', "persistIfChanged") /\ ~Has(Left', "restorePanel")
    <3>1. CASE Done("monitor")
      <4>1. ~Has(Left, "persistIfChanged") /\ ~Has(Left, "restorePanel")
        BY <2>2, Kinds DEF Starting
      <4> QED BY <2>1, <3>1, <4>1, Passing DEF At
    <3>2. CASE Continue("monitor", << "release" >>)
      BY <3>2, Jumping, SingleHas
    <3> QED BY <1>3, <3>1, <3>2 DEF ReadPanel
  <2>6. saved.internal # Nothing => saved' = saved
    BY <1>3 DEF ReadPanel
  <2> QED BY <2>1, <2>2, <2>4, <2>5, <2>6 DEF CursorInv
<1> QED BY <1>2, <1>3

\* What reaches the file.
LEMMA CursorPersists ==
    ASSUME Steady, Ground, FileInv, CursorInv, PersistImage("monitor") \/ Write("monitor")
    PROVE  CursorInv'
<1>1. /\ UNCHANGED << frozen, saved >> /\ Loaded /\ Ordered(Left)
      /\ Head(Left) \in {"persist", "write"} /\ Has(Left, Head(Left))
      /\ custody = "lost" => custody' = "lost"
      /\ \A x : x \notin {"persist", "write"} => (Has(Left', x) <=> Has(Left, x))
      /\ \/ FileContents' = saved
         \/ (custody' = "lost" \/ Unwritten') /\ FileContents' = NothingSaved
  BY Persists DEF deviceVars, savedVars
<1>2. ~Has(Left', "persistIfChanged")
  BY <1>1, Kinds DEF Resuming
<1> QED BY <1>1, <1>2 DEF CursorInv

\* Where nothing is on its way to the file, another list can begin.
LEMMA CursorJumps ==
    ASSUME CursorInv, ~Unwritten,
           UNCHANGED << frozen, saved, file, custody >>,
           Loaded' => Loaded,
           Has(Left', "persistIfChanged") => FileContents.internal = saved.internal,
           Has(Left', "restorePanel") => Has(Left', "unlockCursor")
    PROVE  CursorInv'
BY DEF CursorInv, FileContents

\* The lists the loop starts, and the end of one.
LEMMA CursorLists ==
    ASSUME Ground, FileInv, CursorInv, Decide \/ LeaveLoop \/ Launch \/ PersistIfChanged
    PROVE  CursorInv'
<1>1. UNCHANGED << frozen, saved, file, custody >>
  BY DEF Decide, LeaveLoop, Launch, PersistIfChanged, deviceVars, savedVars, fileVars, ghostVars
<1>2. CASE Decide
  <2>1. /\ Left = << >> /\ Loaded
        /\ \/ Left' = << >>
           \/ \E s \in {RestoreEffects, KeepEffects, PrepareEffects} :
                 \A x : Has(Left', x) <=> \/ x \in {"acquire", "release", "snapshot", "persist"}
                                          \/ Has(s, x)
           \/ \A x : Has(Left', x) <=> Has(StartSteps, x)
           \/ \A x : Has(Left', x) <=> Has(ResumeSteps, x)
    BY <1>2, DecidedHas
  <2>2. ~Unwritten /\ Agree(FileContents, saved)
    BY <2>1, Between DEF FileInv
  <2>3. FileContents.internal = saved.internal
    BY <2>2 DEF Agree
  <2> QED BY <1>1, <2>1, <2>2, <2>3, CursorJumps, EmptyHas, EffectsHave, DimmingHas
<1>3. CASE LeaveLoop
  <2>1. Left = << >> /\ alive /\ Left' = ShutdownSteps
    BY <1>3, Jumping DEF LeaveLoop, Resting, Left
  <2>2. ~Unwritten /\ Loaded
    BY <2>1, Between
  <2> QED BY <1>1, <2>1, <2>2, CursorJumps, RecoverHas, EffectsHave
<1>4. CASE Launch
  <2>1. Left' = BootSteps /\ ~alive
    BY <1>4, Jumping DEF Launch
  <2>2. Left = << >>
    BY <2>1, ThreadsDiffer DEF Ground, LockInv, Left
  <2>3. \A x : Has(Left', x) <=> x = "load"
    BY <2>1, SingleHas DEF BootSteps
  <2>4. ~Unwritten /\ ~Loaded'
    BY <2>2, <2>3, Between DEF Loaded
  <2> QED BY <1>1, <2>3, <2>4, CursorJumps
<1>5. CASE PersistIfChanged
  <2>1. /\ At("monitor", "persistIfChanged") /\ UNCHANGED << alive, changed >>
        /\ Continue("monitor", IF changed THEN ForgetSteps ELSE << "release" >>)
    BY <1>5 DEF PersistIfChanged, loopVars
  <2>2. /\ \A x : Has(Left', x) => x \in {"snapshot", "persist", "release"}
        /\ changed => Has(Left', "persist")
    BY <2>1, Jumping, SingleHas, ForgetHas
  <2>3. Loaded /\ ~Has(Left, "persist") /\ ~Has(Left, "write")
    BY <2>1, Standing, Kinds DEF Resuming
  <2>4. CASE Unwritten
    <3>1. Unwritten' /\ FileContents' = FileContents
      BY <1>1, <2>2, <2>3, <2>4 DEF Unwritten, FileContents
    <3> QED BY <1>1, <2>2, <2>3, <3>1 DEF CursorInv
  <2>5. CASE ~Unwritten
    BY <1>1, <2>2, <2>3, <2>5, CursorJumps
  <2> QED BY <2>4, <2>5
<1> QED BY <1>2, <1>3, <1>4, <1>5

\* What the next process loads, and the end of this one.
LEMMA CursorLives ==
    ASSUME Steady, Ground, FileInv, CursorInv, Load \/ Exit \/ ObserverFails \/ Crash
    PROVE  CursorInv'
<1>1. CASE Load
  <2>1. /\ saved' = FileContents /\ (Left' = RecoverSteps \/ Left' = << "observe" >>)
        /\ \A x : Has(Left, x) => x = "load"
        /\ UNCHANGED << file, alive >>
    BY <1>1, FileLoad
  <2>2. UNCHANGED << frozen, custody >>
    BY <1>1 DEF Load, deviceVars, ghostVars
  <2>3. FileContents' = FileContents /\ ~Unwritten
    BY <2>1 DEF FileContents, Unwritten
  <2>4. /\ ~Has(Left', "persistIfChanged")
        /\ Has(Left', "restorePanel") => Has(Left', "unlockCursor")
    BY <2>1, RecoverHas, EffectsHave, SingleHas
  <2> QED BY <2>1, <2>2, <2>3, <2>4 DEF CursorInv
<1>2. CASE Exit \/ ObserverFails \/ Crash
  <2>1. /\ Left' = << >> /\ ~Loaded' /\ (frozen' => frozen) /\ FileContents' = FileContents
        /\ custody = "lost" => custody' = "lost"
        /\ custody' = "lost" \/ ~Unwritten
    BY <1>2, Ends
  <2> QED BY <2>1, EmptyHas DEF CursorInv
<1> QED BY <1>1, <1>2

\* No step of a steady daemon leaves the cursor frozen for good.
LEMMA NextCursor ==
    ASSUME Steady, Excludes({"cursorUnlock"}), Ground, FileInv, PanelInv, CursorInv, [Next]_vars
    PROVE  CursorInv'
<1>1. CASE MonitorOnly
  <2>1. CASE ReadAngle
    BY <2>1, CursorUntouched DEF ReadAngle, deviceVars, savedVars, fileVars, ghostVars
  <2> QED BY <1>1, <2>1, CursorOthers, CursorLocks, CursorPanels, CursorLists, CursorLives
          DEF MonitorOnly
<1>2. CASE Shared("monitor")
  BY <1>2, CursorOthers, CursorLocks, CursorPanels, CursorPersists DEF Shared
<1>3. CASE World /\ ~PowerChange
  <2>1. CASE MoveLid \/ ChangePanel \/ ChangeKeys \/ Signal \/ BecomeCalm
    BY <2>1, CursorUntouched DEF MoveLid, ChangePanel, ChangeKeys, Signal, BecomeCalm,
       deviceVars, savedVars, fileVars, loopVars, ghostVars
  <2>2. CASE \E d \in Displays : Hotplug(d)
    BY <2>2, CursorUntouched DEF Hotplug, savedVars, fileVars, loopVars, ghostVars
  <2> QED BY <1>3, <2>1, <2>2, CursorLists, CursorLives DEF World
<1>4. CASE Tick \/ UNCHANGED vars
  BY <1>4, CursorUntouched DEF Tick, vars, deviceVars, savedVars, fileVars, loopVars, ghostVars
<1> QED BY <1>1, <1>2, <1>3, <1>4, NextAlone DEF Ground

-----------------------------------------------------------------------------
(* The end of a daemon that was told to stop. *)

\* A list that does not end in an exit says nothing about it.
LEMMA NoShutdown ==
    ASSUME Ground, NEW step, At("monitor", step), Done("monitor"), step \notin Restoring
    PROVE  ShutdownInv'
<1>1. Has(Left, step) /\ Ordered(Left)
  BY Standing
<1>2. ~Has(Left, "exit")
  BY <1>1, Kinds
<1>3. ~Has(Left', "exit")
  BY <1>2, Passing DEF At
<1> QED BY <1>3 DEF ShutdownInv

\* A step of a shutdown that does not record what it restored.
LEMMA ShutdownPasses ==
    ASSUME Ground, ShutdownInv, NEW step, At("monitor", step), Done("monitor"),
           step \notin {"persist", "write"},
           UNCHANGED << saved, file >>,
           custody = "lost" => custody' = "lost",
           frozen' => frozen /\ step # "unlockCursor",
           caffeinate' => caffeinate /\ step # "stopCaffeinate",
           custody # "lost" /\ dark' # {} => dark # {} /\ step # "restoreExternal",
           step = "takeExternal" => saved.external = Nothing,
           step = "restoreKeys" => saved.keyboard = Nothing,
           step = "restorePanel" => saved.internal = Nothing
    PROVE  ShutdownInv'
<1>1. /\ Has(Left, step) /\ Head(Left) = step /\ Ordered(Left)
      /\ \A x : Has(Left', x) => Has(Left, x)
      /\ \A x : Has(Left, x) => Has(Left', x) \/ x = step
  BY Standing, Passing DEF At
<1>2. (\E x \in {"snapshot", "persist", "write"} : Has(Left, x))
        => (\E x \in {"snapshot", "persist", "write"} : Has(Left', x))
  BY <1>1 DEF Ordered
<1> QED BY <1>1, <1>2 DEF ShutdownInv

\* A step of a shutdown that records what it restored is followed by a persist.
LEMMA ShutdownRecords ==
    ASSUME Ground, ShutdownInv, At("monitor", Head(Left)), Done("monitor"),
           Head(Left) \in {"takeExternal", "restoreKeys", "restorePanel"},
           UNCHANGED << frozen, caffeinate, dark, custody >>,
           saved'.external = IF Head(Left) = "takeExternal" THEN Nothing ELSE saved.external,
           saved'.keyboard = IF Head(Left) = "restoreKeys" THEN Nothing ELSE saved.keyboard,
           saved'.internal = IF Head(Left) = "restorePanel" THEN Nothing ELSE saved.internal
    PROVE  ShutdownInv'
<1> DEFINE step == Head(Left)
<1>1. /\ Has(Left, step) /\ Ordered(Left)
      /\ \A x : Has(Left', x) => Has(Left, x)
      /\ \A x : Has(Left, x) => Has(Left', x) \/ x = step
  BY Standing, Passing DEF At
<1>2. Has(Left', "snapshot")
  <2>1. ~Has(Left, "persistIfChanged")
    BY <1>1, Kinds DEF Resuming
  <2> QED BY <1>1, <2>1 DEF Ordered, Recording
<1> QED BY <1>1, <1>2 DEF ShutdownInv

\* The steps of a shutdown.
LEMMA ShutdownRestores ==
    ASSUME Steady, Wired, Excludes({"caffeinateStop"}), Ground, ExternalInv, ShutdownInv,
           \/ Acquire("monitor") \/ Release("monitor") \/ UnlockCursor("monitor")
           \/ TakeExternal \/ RestoreExternal \/ RestoreKeys("monitor")
           \/ RestorePanel("monitor") \/ StopCaffeinate("monitor") \/ Snapshot("monitor")
           \/ StartObserver
    PROVE  ShutdownInv'
<1>1. /\ saved \in SavedState /\ frozen \in BOOLEAN /\ caffeinate \in BOOLEAN
      /\ dark \in SUBSET Displays
  BY DEF Ground, TypeOK, SavedType, DeviceType, FlagType
<1>2. CASE Acquire("monitor") \/ Release("monitor") \/ Snapshot("monitor") \/ StartObserver
  <2>1. /\ \E step \in {"acquire", "release", "snapshot", "observe"} : At("monitor", step)
        /\ Done("monitor") /\ UNCHANGED << saved, file, custody, frozen, caffeinate, dark >>
    BY <1>2 DEF Acquire, Release, Snapshot, StartObserver, savedVars, fileVars, ghostVars,
       deviceVars, flagVars
  <2> QED BY <2>1, ShutdownPasses
<1>3. CASE UnlockCursor("monitor")
  <2>1. /\ At("monitor", "unlockCursor") /\ Done("monitor") /\ ~frozen'
        /\ UNCHANGED << saved, file, custody, caffeinate, dark >>
    BY <1>3 DEF UnlockCursor, Wired, Capturing, Excludes, May, savedVars, fileVars, ghostVars
  <2> QED BY <2>1, ShutdownPasses
<1>4. CASE StopCaffeinate("monitor")
  <2>1. /\ At("monitor", "stopCaffeinate") /\ Done("monitor") /\ ~caffeinate'
        /\ UNCHANGED << saved, file, custody, frozen, dark >>
    BY <1>4 DEF StopCaffeinate, Excludes, May, savedVars, fileVars, ghostVars, deviceVars
  <2> QED BY <2>1, ShutdownPasses
<1>5. CASE TakeExternal
  <2>1. /\ At("monitor", "takeExternal") /\ Done("monitor")
        /\ UNCHANGED << frozen, caffeinate, dark, custody >>
        /\ saved'.external = Nothing /\ saved'.keyboard = saved.keyboard
        /\ saved'.internal = saved.internal
    BY <1>1, <1>5 DEF TakeExternal, SavedState, deviceVars, flagVars, ghostVars
  <2>2. Head(Left) = "takeExternal"
    BY <2>1, Standing
  <2> QED BY <2>1, <2>2, ShutdownRecords
<1>6. CASE RestoreExternal
  <2>1. /\ At("monitor", "restoreExternal") /\ Done("monitor")
        /\ UNCHANGED << frozen, caffeinate, custody, file >>
    BY <1>6 DEF RestoreExternal, fileVars, ghostVars
  <2>2. saved' = saved /\ saved.external = Nothing /\ dark' = dark \ Ids(taken)
    BY <1>6, ExternalsBack
  <2>3. Loaded
    BY <2>1, Standing
  <2>4. dark' # {} => custody = "lost"
    BY <2>2, <2>3 DEF ExternalInv, Ids
  <2> QED BY <2>1, <2>2, <2>4, ShutdownPasses
<1>7. CASE RestoreKeys("monitor")
  <2>1. /\ \/ At("monitor", "restoreKeys")
           \/ At("monitor", "relightKeys") /\ saved' = saved
        /\ At("monitor", "restoreKeys") => saved'.keyboard = Nothing
        /\ Done("monitor") /\ UNCHANGED << frozen, caffeinate, dark, custody, file >>
        /\ saved'.external = saved.external /\ saved'.internal = saved.internal
    BY <1>1, <1>7, SteadyMay DEF RestoreKeys, At, SavedState, fileVars, flagVars, ghostVars
  <2>2. CASE At("monitor", "restoreKeys")
    <3>1. Head(Left) = "restoreKeys"
      BY <2>2, Standing
    <3> QED BY <2>1, <2>2, <3>1, ShutdownRecords
  <2>3. CASE At("monitor", "relightKeys") /\ saved' = saved
    BY <2>1, <2>3, ShutdownPasses
  <2> QED BY <2>1, <2>2, <2>3
<1>8. CASE RestorePanel("monitor")
  <2>1. /\ \/ At("monitor", "restorePanel")
           \/ At("monitor", "relightPanel") /\ saved' = saved
        /\ At("monitor", "restorePanel") => saved'.internal = Nothing
        /\ Done("monitor") /\ UNCHANGED << frozen, caffeinate, dark, custody, file >>
        /\ saved'.external = saved.external /\ saved'.keyboard = saved.keyboard
    BY <1>1, <1>8, SteadyMay DEF RestorePanel, At, SavedState, fileVars, flagVars, ghostVars
  <2>2. CASE At("monitor", "restorePanel")
    <3>1. Head(Left) = "restorePanel"
      BY <2>2, Standing
    <3> QED BY <2>1, <2>2, <3>1, ShutdownRecords
  <2>3. CASE At("monitor", "relightPanel") /\ saved' = saved
    BY <2>1, <2>3, ShutdownPasses
  <2> QED BY <2>1, <2>2, <2>3
<1> QED BY <1>2, <1>3, <1>4, <1>5, <1>6, <1>7, <1>8

\* The file is removed, or written with what could not be restored.
LEMMA ShutdownPersists ==
    ASSUME Steady, Ground, FileInv, ShutdownInv, PersistImage("monitor") \/ Write("monitor")
    PROVE  ShutdownInv'
<1>1. /\ UNCHANGED << saved, frozen, dark, caffeinate >>
      /\ custody = "lost" => custody' = "lost"
      /\ \A x : x \notin {"persist", "write"} => (Has(Left', x) <=> Has(Left, x))
      /\ file' = saved \/ Has(Left', "write")
  BY Persists DEF deviceVars, savedVars, flagVars
<1> QED BY <1>1 DEF ShutdownInv

\* The dims, whose lists have no exit.
LEMMA ShutdownDims ==
    ASSUME Steady, Ground,
           \/ DimPanel \/ RedimPanel \/ CaptureKeys \/ RedimKeys \/ CaptureExternal
           \/ RecaptureExternal \/ StartCaffeinate \/ LockCursor
           \/ ReadPanel \/ PersistIfChanged
    PROVE  ShutdownInv'
<1>1. CASE \/ DimPanel \/ RedimPanel \/ CaptureKeys \/ RedimKeys \/ CaptureExternal
           \/ RecaptureExternal \/ StartCaffeinate \/ LockCursor
  <2>1. /\ \E step \in {"dimPanel", "redimPanel", "captureKeys", "redimKeys", "captureExternal",
                        "recaptureExternal", "startCaffeinate", "lockCursor"} :
              At("monitor", step)
        /\ Done("monitor")
    BY <1>1, SteadyMay DEF DimPanel, RedimPanel, CaptureKeys, RedimKeys, CaptureExternal,
       RecaptureExternal, StartCaffeinate, LockCursor
  <2> QED BY <2>1, NoShutdown DEF Restoring
<1>2. CASE ReadPanel
  <2>1. CASE Done("monitor")
    BY <1>2, <2>1, NoShutdown DEF ReadPanel, Restoring
  <2>2. CASE Continue("monitor", << "release" >>)
    <3>1. ~Has(Left', "exit")
      BY <2>2, Jumping, SingleHas
    <3> QED BY <3>1 DEF ShutdownInv
  <2> QED BY <1>2, <2>1, <2>2 DEF ReadPanel
<1>3. CASE PersistIfChanged
  <2>1. ~Has(Left', "exit")
    BY <1>3, Jumping, SingleHas, ForgetHas DEF PersistIfChanged
  <2> QED BY <2>1 DEF ShutdownInv
<1> QED BY <1>1, <1>2, <1>3

\* The loop is left with everything still to do, and all else is no shutdown.
LEMMA ShutdownLists ==
    ASSUME Steady, Ground, FileInv,
           Load \/ Decide \/ LeaveLoop \/ Launch \/ Exit \/ ObserverFails \/ Crash
    PROVE  ShutdownInv'
<1>1. CASE LeaveLoop
  <2>1. Left' = ShutdownSteps
    BY <1>1, Jumping DEF LeaveLoop
  <2>2. \A x \in {"unlockCursor", "stopCaffeinate", "restoreExternal", "takeExternal",
                  "restoreKeys", "restorePanel", "snapshot"} : Has(Left', x)
    BY <2>1, RecoverHas, EffectsHave
  <2> QED BY <2>2 DEF ShutdownInv
<1>2. CASE Load
  <2>1. ~Has(Left', "exit")
    BY <1>2, FileLoad, RecoverHas, EffectsHave, SingleHas
  <2> QED BY <2>1 DEF ShutdownInv
<1>3. CASE Decide
  <2>1. ~Has(Left', "exit")
    BY <1>3, DecidedHas, EmptyHas, EffectsHave, DimmingHas
  <2> QED BY <2>1 DEF ShutdownInv
<1>4. CASE Launch
  <2>1. ~Has(Left', "exit")
    BY <1>4, Jumping, SingleHas DEF Launch, BootSteps
  <2> QED BY <2>1 DEF ShutdownInv
<1>5. CASE Exit \/ ObserverFails \/ Crash
  <2>1. ~Has(Left', "exit")
    BY <1>5, Ends, EmptyHas
  <2> QED BY <2>1 DEF ShutdownInv
<1> QED BY <1>1, <1>2, <1>3, <1>4, <1>5

\* What touches none of it.
LEMMA ShutdownUntouched ==
    ASSUME ShutdownInv, UNCHANGED << todo, saved, file, frozen, caffeinate, dark, custody >>
    PROVE  ShutdownInv'
BY DEF ShutdownInv, Left

\* A shutdown skips nothing.
LEMMA NextShutdown ==
    ASSUME Steady, Wired, Excludes({"caffeinateStop"}), Ground, FileInv, ExternalInv, ShutdownInv,
           [Next]_vars
    PROVE  ShutdownInv'
<1>1. CASE MonitorOnly
  <2>1. CASE ReadAngle
    BY <2>1, ShutdownUntouched DEF ReadAngle, deviceVars, savedVars, fileVars, flagVars, ghostVars
  <2> QED BY <1>1, <2>1, ShutdownRestores, ShutdownDims, ShutdownLists DEF MonitorOnly
<1>2. CASE Shared("monitor")
  BY <1>2, ShutdownRestores, ShutdownPersists DEF Shared
<1>3. CASE World /\ ~PowerChange
  <2>1. CASE MoveLid \/ ChangePanel \/ ChangeKeys \/ Signal \/ BecomeCalm
    BY <2>1, ShutdownUntouched DEF MoveLid, ChangePanel, ChangeKeys, Signal, BecomeCalm,
       deviceVars, savedVars, fileVars, flagVars, ghostVars
  <2>2. \A d \in Displays : ~Hotplug(d)
    BY DEF Hotplug, May, Wired, Excludes
  <2> QED BY <1>3, <2>1, <2>2, ShutdownLists DEF World
<1>4. CASE Tick \/ UNCHANGED vars
  BY <1>4, ShutdownUntouched DEF Tick, vars, deviceVars, savedVars, fileVars, flagVars, ghostVars
<1> QED BY <1>1, <1>2, <1>3, <1>4, NextAlone DEF Ground

-----------------------------------------------------------------------------
(* What holds of every behaviour. *)

\* The first process finds nothing saved and everything as the user left it.
LEMMA InitRestart ==
    ASSUME Init
    PROVE  /\ FileInv /\ CaptureInv /\ PanelInv /\ KeysInv /\ ExternalInv /\ CursorInv
           /\ ShutdownInv
<1>1. Left = << >> /\ ~alive
  BY ThreadsDiffer DEF Init, Left
<1>2. \A x : ~Has(Left, x)
  BY <1>1, EmptyHas
<1>3. /\ saved = NothingSaved /\ taken = Nothing /\ ~cursorLocked /\ ~frozen /\ dark = {}
      /\ plugged = Displays /\ chosenPanel = panel /\ file = NothingSaved
      /\ chosenKeys = keys /\ ~unsavedDim
  BY DEF Init
<1>4. ~Loaded /\ FileContents = NothingSaved
  BY <1>1, <1>3 DEF Loaded, FileContents
<1>5. FileInv /\ CaptureInv /\ ShutdownInv
  BY <1>2, <1>3, <1>4 DEF FileInv, CaptureInv, ShutdownInv
<1>6. PanelInv /\ CursorInv
  BY <1>2, <1>3, <1>4 DEF PanelInv, Owes, Known, CursorInv, NothingSaved
<1>7. ExternalInv
  BY <1>2, <1>3, <1>4 DEF ExternalInv, NothingSaved
<1>8. KeysInv
  BY <1>2, <1>3, <1>4 DEF KeysInv, KnownKeys, KeysDue, NothingSaved
<1> QED BY <1>5, <1>6, <1>7, <1>8

\* Where the process is between two actions, or is not, the file has what it has.
LEMMA OwedWhere ==
    ASSUME Ground
    PROVE  \/ Loaded /\ Owed = saved
           \/ ~Unwritten /\ Owed = FileContents
<1>1. CASE At("monitor", "load")
  <2>1. /\ Has(Left, "load") /\ Ordered(Left)
        /\ \A x : Has(Left, x) => x = "load"
    BY <1>1, Standing, Kinds
  <2> QED BY <1>1, <2>1 DEF Unwritten, Owed
<1>2. CASE ~alive
  <2>1. Left = << >>
    BY <1>2, ThreadsDiffer DEF Ground, LockInv, Left
  <2> QED BY <1>2, <2>1, Between
<1>3. CASE alive /\ ~At("monitor", "load")
  <2>1. ~Has(Left, "load")
    <3>1. CASE Left = << >>
      BY <3>1, EmptyHas
    <3>2. CASE Left # << >>
      <4>1. /\ Left \in Lists /\ Ordered(Left) /\ Head(Left) # "load"
        BY <1>3, <3>2, ThreadsDiffer DEF Ground, TypeOK, TodoType, Lists, MonitorOrdered, Left, At
      <4>2. Has(Left, Head(Left))
        BY <3>2, <4>1, HeadHas
      <4> QED BY <4>1, <4>2, Kinds
    <3> QED BY <3>1, <3>2
  <2> QED BY <1>3, <2>1 DEF Loaded, Owed
<1> QED BY <1>1, <1>2, <1>3

\* Between two actions the recovery file says what memory says, kill -9 and
\* signals included: a crash there neither loses a saved value nor revives one
\* already restored.  (persist_display_state after every action that changes
\* something; monitor.rs, persistence.rs.)
THEOREM FileSaysWhatMemorySays ==
    ASSUME Steady, WholeCaptures
    PROVE  Spec => []FileMirrorsMemory
<1> DEFINE Inv == FileInv /\ (Capturing => CaptureInv)
<1>1. Init => Inv
  BY InitRestart
<1>2. Ground /\ Inv /\ [Next]_vars => Inv'
  BY NextFile, NextCapture
<1>3. ASSUME Ground, Inv PROVE FileMirrorsMemory
  <2>1. ASSUME Resting PROVE FileContents = saved
    <3>1. Left = << >> /\ alive
      BY <2>1 DEF Resting, Left
    <3>2. Agree(FileContents, saved)
      BY <1>3, <3>1, Between DEF FileInv
    <3>3. FileContents \in SavedState /\ saved \in SavedState
      BY <1>3, NothingSavedType DEF Ground, TypeOK, FileType, SavedType, FileContents
    <3> QED BY <3>2, <3>3 DEF Agree, SavedState
  <2> QED BY <2>1 DEF FileMirrorsMemory
<1>4. Spec => []Ground
  BY Grounded
<1> QED BY <1>1, <1>2, <1>3, <1>4, PTL DEF Spec

\* The user's panel brightness survives kill -9, a signal in the middle of an
\* action, and a start that fails: it is on the panel, in memory, or in the
\* file the next process reads.
THEOREM PanelSurvivesRestarts ==
    ASSUME Steady
    PROVE  Spec => []PanelCustody
<1> DEFINE Inv == FileInv /\ (Capturing => CaptureInv) /\ PanelInv
<1>1. Init => Inv
  BY InitRestart
<1>2. Ground /\ Inv /\ [Next]_vars => Inv'
  BY NextFile, NextCapture, NextPanel
<1>3. ASSUME Ground, Inv PROVE PanelCustody
  <2>1. custody = "lost" \/ Known(Owed)
    BY <1>3, OwedWhere DEF PanelInv
  <2> QED BY <2>1 DEF PanelCustody, Known
<1>4. Spec => []Ground
  BY Grounded
<1> QED BY <1>1, <1>2, <1>3, <1>4, PTL DEF Spec

\* The user's keyboard brightness survives the same, with one exception: a
\* resume that dimmed the keyboard with nothing saved for it, and only until the
\* user sets it again.  (disable_keyboard_backlight, called by
\* resume_partial_dim; every other step of effects.rs saves before it dims and
\* forgets only what it has put back.)
THEOREM KeysSurviveRestarts ==
    ASSUME Steady
    PROVE  Spec => [](unsavedDim \/ KeysCustody)
<1> DEFINE Inv == FileInv /\ (Capturing => CaptureInv) /\ KeysInv
<1>1. Init => Inv
  BY InitRestart
<1>2. Ground /\ Inv /\ [Next]_vars => Inv'
  BY NextFile, NextCapture, NextKeys
<1>3. ASSUME Ground, Inv PROVE unsavedDim \/ KeysCustody
  <2>1. custody = "lost" \/ KnownKeys(Owed)
    BY <1>3, OwedWhere DEF KeysInv
  <2> QED BY <2>1 DEF KeysCustody, KnownKeys, KeysDue
<1>4. Spec => []Ground
  BY Grounded
<1> QED BY <1>1, <1>2, <1>3, <1>4, PTL DEF Spec

\* Every display lidoff has disabled is written down, in memory, on its way
\* through restore_external_display_state, or in the file, whenever the process
\* ends.
THEOREM DisplaysSurviveRestarts ==
    ASSUME Steady, Wired
    PROVE  Spec => []ExternalCustody
<1> DEFINE Inv == FileInv /\ CaptureInv /\ PanelInv /\ ExternalInv
<1>1. Init => Inv
  BY InitRestart
<1>2. Ground /\ Inv /\ [Next]_vars => Inv'
  BY NextFile, NextCapture, NextPanel, NextExternal DEF Wired
<1>3. ASSUME Ground, Inv PROVE ExternalCustody
  <2>1. custody = "lost" \/ dark \subseteq Ids(Owed.external) \cup Ids(taken)
    BY <1>3, OwedWhere DEF ExternalInv
  <2> QED BY <2>1 DEF ExternalCustody
<1>4. Spec => []Ground
  BY Grounded
<1> QED BY <1>1, <1>2, <1>3, <1>4, PTL DEF Spec

\* A frozen cursor always comes with something pending, which is the only
\* reason an open lid or the next process has to unlock it.
THEOREM CursorSurvivesRestarts ==
    ASSUME Steady, Excludes({"cursorUnlock"})
    PROVE  Spec => []CursorReleasable
<1> DEFINE Inv == FileInv /\ (Capturing => CaptureInv) /\ PanelInv /\ CursorInv
<1>1. Init => Inv
  BY InitRestart
<1>2. Ground /\ Inv /\ [Next]_vars => Inv'
  BY NextFile, NextCapture, NextPanel, NextCursor
<1>3. ASSUME Ground, Inv PROVE CursorReleasable
  <2>1. ASSUME frozen, BetweenActions, custody # "lost"
        PROVE  IF alive THEN Pending # {} ELSE FileContents # NothingSaved
    <3>1. Left = << >>
      BY <1>3, <2>1, ThreadsDiffer DEF BetweenActions, Resting, Ground, LockInv, Left
    <3>2. ~Unwritten /\ (Loaded <=> alive)
      BY <1>3, <3>1, Between
    <3>3. CASE alive
      <4>1. saved.internal # Nothing
        BY <1>3, <2>1, <3>2, <3>3 DEF CursorInv
      <4>2. "internal" \in Pending
        BY <4>1 DEF Pending
      <4> QED BY <3>3, <4>2
    <3>4. CASE ~alive
      <4>1. FileContents.internal # Nothing
        BY <1>3, <2>1, <3>2 DEF CursorInv
      <4> QED BY <3>4, <4>1 DEF NothingSaved
    <3> QED BY <3>3, <3>4
  <2> QED BY <2>1 DEF CursorReleasable
<1>4. Spec => []Ground
  BY Grounded
<1> QED BY <1>1, <1>2, <1>3, <1>4, PTL DEF Spec

\* A daemon told to stop, at whatever moment, leaves panel, keyboard, displays,
\* cursor and caffeinate session as the user had them, and no recovery file; the
\* keyboard with the exception above.  (monitor.rs, after the loop.)
THEOREM StopsCleanly ==
    ASSUME Steady, Wired, Excludes({"caffeinateStop"})
    PROVE  Spec => []CleanShutdown
<1> DEFINE Inv == FileInv /\ CaptureInv /\ PanelInv /\ KeysInv /\ ExternalInv /\ ShutdownInv
<1>1. Init => Inv
  BY InitRestart
<1>2. Ground /\ Inv /\ [Next]_vars => Inv'
  BY NextFile, NextCapture, NextPanel, NextKeys, NextExternal, NextShutdown DEF Wired
<1>3. ASSUME Ground, Inv, At("monitor", "exit"), custody # "lost"
      PROVE  /\ chosenPanel # 0 => panel = chosenPanel
             /\ keys = KeysDue
             /\ dark = {} /\ ~frozen /\ ~caffeinate
             /\ file = NothingSaved
  <2>1. /\ Left \in Lists /\ Left # << >> /\ Head(Left) = "exit" /\ Has(Left, "exit")
        /\ Ordered(Left) /\ Loaded
    BY <1>3, Standing
  <2>2. \A x : Has(Left, x) /\ Rank(x) > 0 => x = "exit" \/ 11 < Rank(x)
    <3>1. Rank("exit") = 11
      BY DEF Rank
    <3> QED BY <2>1, <3>1, OrderedTail
  <2>3. \A x \in {"unlockCursor", "stopCaffeinate", "restoreExternal", "takeExternal",
                  "restoreKeys", "restorePanel", "snapshot", "persist", "write"} : ~Has(Left, x)
    <3>1. /\ Rank("unlockCursor") = 1 /\ Rank("stopCaffeinate") = 6
          /\ Rank("restoreExternal") = 3 /\ Rank("takeExternal") = 2
          /\ Rank("restoreKeys") = 4 /\ Rank("restorePanel") = 5 /\ Rank("snapshot") = 7
          /\ Rank("persist") = 8 /\ Rank("write") = 8
      BY DEF Rank
    <3> QED BY <2>2, <3>1
  <2>4. /\ ~frozen /\ ~caffeinate /\ dark = {} /\ file = saved
        /\ saved.external = Nothing /\ saved.keyboard = Nothing /\ saved.internal = Nothing
    BY <1>3, <2>1, <2>3 DEF ShutdownInv
  <2>5. saved = NothingSaved
    BY <1>3, <2>4 DEF Ground, TypeOK, SavedType, SavedState, NothingSaved
  <2>6. Known(saved) /\ KnownKeys(saved)
    BY <1>3, <2>1 DEF PanelInv, KeysInv
  <2>7. chosenPanel # Nothing /\ KeysDue # Nothing
    BY <1>3, DaemonAssumption, TransitionsAssumption DEF Ground, TypeOK, GhostType, KeysDue
  <2> QED BY <2>4, <2>5, <2>6, <2>7 DEF Known, KnownKeys
<1>4. Ground /\ Inv => CleanShutdown
  BY <1>3 DEF CleanShutdown
<1>5. Spec => []Ground
  BY Grounded
<1> QED BY <1>1, <1>2, <1>4, <1>5, PTL DEF Spec

-----------------------------------------------------------------------------
(* Two threads, one process. *)

\* Nothing ends the process once it observes power events, and the keyboard
\* takes what it is told.
Lasting == Excludes({"keysSet", "crash", "signal"})

\* The panel takes what it is told too, or at least always says what it shows
\* and is not lit again behind the daemon's back.
Honest == Excludes({"panelSet"}) \/ Excludes({"panelRead", "relight"})

Reliable == Lasting /\ Excludes({"panelSet"})

DimSteps == {"redimPanel", "dimPanel", "captureKeys"}

\* The order of the steps that save, dim and restore panel and keyboard.
Shape(s) ==
    /\ NoneAfter(s, "readPanel", "dimPanel") /\ NoneAfter(s, "readPanel", "captureKeys")
    /\ NoneAfter(s, "restoreKeys", "restorePanel")
    /\ Has(s, "restorePanel") => \A x \in DimSteps : ~Has(s, x)
    /\ ~Has(s, "exit")

\* What the monitor's list still does fits what is saved.
Owing(s, owed) ==
    /\ Shape(s)
    /\ Has(s, "redimPanel") => owed.internal # Nothing
    /\ Has(s, "dimPanel") \/ Has(s, "captureKeys") =>
          Has(s, "readPanel") \/ owed.internal # Nothing
    /\ Has(s, "restorePanel") => Has(s, "restoreKeys") \/ owed.keyboard = Nothing
    /\ owed.keyboard # Nothing => owed.internal # Nothing

\* No step of the power thread forgets what is saved.
PowerKeeps == ~Has(todo["power"], "restorePanel") /\ ~Has(todo["power"], "restoreKeys")

\* Until the power observer runs nothing was ever saved.
Fresh ==
    ~Observing =>
        /\ file = NothingSaved /\ saved = NothingSaved
        /\ todo["power"] = << >>
        /\ todo["monitor"] \in {<< >>, << "load" >>, << "observe" >>}

InCustody ==
    \/ chosenPanel = 0
    \/ panel = chosenPanel /\ saved.internal = Nothing
    \/ /\ saved.internal = chosenPanel
       /\ Excludes({"panelSet"}) \/ panel \in {0, chosenPanel}

CustodyInv ==
    /\ shouldRun
    /\ Fresh
    /\ Owing(todo["monitor"], saved)
    /\ PowerKeeps
    /\ InCustody

-----------------------------------------------------------------------------
(* Lists. *)

\* What is left after the first step.
LEMMA ShapeTail ==
    ASSUME NEW s \in Lists, s # << >>, Shape(s)
    PROVE  Shape(Tail(s))
<1>1. /\ \A x : Has(Tail(s), x) => Has(s, x)
      /\ \A x, y : NoneAfter(s, x, y) => NoneAfter(Tail(s), x, y)
  BY TailKeeps
<1> QED BY <1>1 DEF Shape

\* Steps that do not save or restore leave the rest as it was owed, and a
\* state that forgets at most the keyboard owes no more.
LEMMA OwingTail ==
    ASSUME NEW s \in Lists, s # << >>, NEW owed, NEW left, Owing(s, owed),
           Head(s) \notin {"readPanel", "restoreKeys"},
           owed.internal # Nothing => left.internal # Nothing,
           left.keyboard \in {owed.keyboard, Nothing}
    PROVE  Owing(Tail(s), left)
<1>1. /\ \A x : Has(Tail(s), x) => Has(s, x)
      /\ \A x : Has(s, x) => Has(Tail(s), x) \/ x = Head(s)
  BY TailKeeps
<1>2. Shape(Tail(s))
  BY ShapeTail DEF Owing
<1> QED BY <1>1, <1>2 DEF Owing

\* The panel was saved.
LEMMA OwingRead ==
    ASSUME NEW s \in Lists, s # << >>, NEW owed, NEW left, Owing(s, owed),
           Head(s) = "readPanel",
           left.internal # Nothing, left.keyboard = owed.keyboard
    PROVE  Owing(Tail(s), left)
<1>1. /\ \A x : Has(Tail(s), x) => Has(s, x)
      /\ \A x : Has(s, x) => Has(Tail(s), x) \/ x = Head(s)
  BY TailKeeps
<1>2. Shape(Tail(s))
  BY ShapeTail DEF Owing
<1> QED BY <1>1, <1>2 DEF Owing

\* The keyboard was restored and forgotten.
LEMMA OwingKeysRestored ==
    ASSUME NEW s \in Lists, s # << >>, NEW owed, NEW left, Owing(s, owed),
           Head(s) = "restoreKeys",
           left.internal = owed.internal, left.keyboard = Nothing
    PROVE  Owing(Tail(s), left)
<1>1. /\ \A x : Has(Tail(s), x) => Has(s, x)
      /\ \A x : Has(s, x) => Has(Tail(s), x) \/ x = Head(s)
  BY TailKeeps
<1>2. Shape(Tail(s))
  BY ShapeTail DEF Owing
<1> QED BY <1>1, <1>2 DEF Owing

\* The panel was restored and forgotten: the keyboard was before it.
LEMMA OwingPanelRestored ==
    ASSUME NEW s \in Lists, s # << >>, NEW owed, NEW left, Owing(s, owed),
           Head(s) = "restorePanel",
           left.internal = Nothing, left.keyboard = owed.keyboard
    PROVE  Owing(Tail(s), left)
<1>1. /\ \A x : Has(Tail(s), x) => Has(s, x)
      /\ \A x : Has(s, x) => Has(Tail(s), x) \/ x = Head(s)
      /\ \A x : NoneAfter(s, x, Head(s)) => ~Has(Tail(s), x)
  BY TailKeeps
<1>2. Shape(Tail(s))
  BY ShapeTail DEF Owing
<1>3. Has(s, "restorePanel")
  <2>1. 1 \in 1..Len(s) /\ s[1] = "restorePanel"
    BY DEF Lists
  <2> QED BY <2>1 DEF Has
<1>4. ~Has(s, "restoreKeys")
  <2>1. ~Has(Tail(s), "restoreKeys")
    BY <1>1 DEF Owing, Shape
  <2> QED BY <1>1, <2>1
<1>5. left.keyboard = Nothing
  BY <1>3, <1>4 DEF Owing
<1>6. \A x \in DimSteps : ~Has(Tail(s), x)
  BY <1>1, <1>3 DEF Owing, Shape
<1> QED BY <1>2, <1>5, <1>6 DEF Owing, DimSteps

\* The keyboard was saved next to the panel.
LEMMA OwingKeysSaved ==
    ASSUME NEW s \in Lists, s # << >>, NEW owed, NEW left, Owing(s, owed),
           Head(s) = "captureKeys",
           left.internal = owed.internal
    PROVE  Owing(Tail(s), left) /\ owed.internal # Nothing
<1>1. /\ \A x : Has(Tail(s), x) => Has(s, x)
      /\ \A x : Has(s, x) => Has(Tail(s), x) \/ x = Head(s)
      /\ \A x : NoneAfter(s, x, Head(s)) => ~Has(Tail(s), x)
  BY TailKeeps
<1>2. Shape(Tail(s))
  BY ShapeTail DEF Owing
<1>3. Has(s, "captureKeys")
  <2>1. 1 \in 1..Len(s) /\ s[1] = "captureKeys"
    BY DEF Lists
  <2> QED BY <2>1 DEF Has
<1>4. ~Has(s, "readPanel")
  <2>1. ~Has(Tail(s), "readPanel")
    BY <1>1 DEF Owing, Shape
  <2> QED BY <1>1, <2>1
<1>5. owed.internal # Nothing
  BY <1>3, <1>4 DEF Owing
<1>6. ~Has(s, "restorePanel")
  BY <1>3 DEF Owing, Shape, DimSteps
<1> QED BY <1>1, <1>2, <1>5, <1>6 DEF Owing

\* A panel about to be dimmed is saved.
LEMMA OwingDim ==
    ASSUME NEW s \in Lists, s # << >>, NEW owed, Owing(s, owed),
           Head(s) \in {"dimPanel", "redimPanel"}
    PROVE  owed.internal # Nothing
<1>1. Has(s, Head(s))
  <2>1. 1 \in 1..Len(s) /\ s[1] = Head(s)
    BY DEF Lists
  <2> QED BY <2>1 DEF Has
<1>2. CASE Head(s) = "redimPanel"
  BY <1>1, <1>2 DEF Owing
<1>3. CASE Head(s) = "dimPanel"
  <2>1. ~Has(Tail(s), "readPanel")
    BY <1>3, TailKeeps DEF Owing, Shape
  <2>2. ~Has(s, "readPanel")
    BY <1>3, <2>1, TailKeeps
  <2> QED BY <1>1, <1>3, <2>2 DEF Owing
<1> QED BY <1>2, <1>3

\* A list that neither dims nor restores the panel owes nothing of its own.
LEMMA OwingPlain ==
    ASSUME NEW s \in Lists, NEW owed, NEW old, NEW other, Owing(other, old),
           owed.internal = old.internal, owed.keyboard = old.keyboard,
           \A x \in DimSteps \cup {"restorePanel", "exit"} : ~Has(s, x)
    PROVE  Owing(s, owed)
<1>1. NoneAfter(s, "readPanel", "dimPanel") /\ NoneAfter(s, "readPanel", "captureKeys")
  BY NoneAfterAbsent DEF DimSteps
<1>2. NoneAfter(s, "restoreKeys", "restorePanel")
  BY NoneAfterAbsent
<1> QED BY <1>1, <1>2 DEF Owing, Shape, DimSteps

\* A step put in front that has no part in this.
LEMMA OwingWrite ==
    ASSUME NEW s \in Lists, NEW owed, Owing(s, owed)
    PROVE  Owing(<< "write" >> \o s, owed)
<1>1. << "write" >> \in Lists
  BY StepListTypes
<1>2. \A x : Has(<< "write" >> \o s, x) <=> x = "write" \/ Has(s, x)
  BY <1>1, HasJoin, SingleHas
<1>3. ASSUME NEW x, NEW y, y # "write", NoneAfter(s, x, y)
      PROVE  NoneAfter(<< "write" >> \o s, x, y)
  <2>1. NoneAfter(<< "write" >>, x, y) /\ ~Has(<< "write" >>, y)
    BY <1>3, SingleHas
  <2> QED BY <1>1, <1>3, <2>1, NoneAfterJoin
<1>4. Shape(<< "write" >> \o s)
  BY <1>2, <1>3 DEF Owing, Shape, DimSteps
<1> QED BY <1>2, <1>4 DEF Owing

Booters == {"load", "observe"}

\* A restore section restores the keyboard before the panel.
LEMMA RestoreShape == Shape(Inside(RestoreEffects))
<1>1. /\ Persist \in Lists /\ << "acquire" >> \in Lists /\ << "release" >> \in Lists
      /\ RestoreEffects \in Lists /\ Inside(RestoreEffects) \in Lists
  BY StepListTypes
<1>2. \A x : Has(Inside(RestoreEffects), x) <=>
                \/ x \in {"acquire", "release", "snapshot", "persist"}
                \/ Has(RestoreEffects, x)
  BY <1>1, InsideHas
<1> DEFINE before == << "acquire" >> \o RestoreEffects
           persisted == before \o Persist
<1>3. before \in Lists /\ persisted \in Lists
  BY <1>1, JoinType
<1>4. NoneAfter(RestoreEffects, "restoreKeys", "restorePanel")
  BY DEF RestoreEffects, NoneAfter
<1>5. NoneAfter(before, "restoreKeys", "restorePanel")
  BY <1>1, <1>4, NoneAfterJoin, SingleHas
<1>6. ~Has(Persist, "restoreKeys")
  BY DEF Persist, Has
<1>7. NoneAfter(persisted, "restoreKeys", "restorePanel")
  BY <1>1, <1>3, <1>5, <1>6, NoneAfterJoin, NoneAfterAbsent
<1>8. NoneAfter(persisted \o << "release" >>, "restoreKeys", "restorePanel")
  BY <1>1, <1>3, <1>7, NoneAfterJoin, SingleHas
<1>9. NoneAfter(Inside(RestoreEffects), "restoreKeys", "restorePanel")
  BY <1>8 DEF Inside
<1>10. /\ NoneAfter(Inside(RestoreEffects), "readPanel", "dimPanel")
       /\ NoneAfter(Inside(RestoreEffects), "readPanel", "captureKeys")
  BY <1>2, EffectsHave, NoneAfterAbsent
<1> QED BY <1>2, <1>9, <1>10, EffectsHave DEF Shape, DimSteps

\* A start reads the panel once, before it dims.
LEMMA StartShape == Shape(StartSteps)
<1>1. /\ NoneAfter(StartSteps, "readPanel", "dimPanel")
      /\ NoneAfter(StartSteps, "readPanel", "captureKeys")
  BY DEF StartSteps, NoneAfter
<1>2. NoneAfter(StartSteps, "restoreKeys", "restorePanel")
  BY DimmingHas, NoneAfterAbsent
<1> QED BY <1>1, <1>2, DimmingHas DEF Shape, DimSteps

\* A resume neither reads nor restores.
LEMMA ResumeShape == Shape(ResumeSteps)
<1>1. /\ NoneAfter(ResumeSteps, "readPanel", "dimPanel")
      /\ NoneAfter(ResumeSteps, "readPanel", "captureKeys")
      /\ NoneAfter(ResumeSteps, "restoreKeys", "restorePanel")
  BY DimmingHas, NoneAfterAbsent
<1> QED BY <1>1, DimmingHas DEF Shape, DimSteps

-----------------------------------------------------------------------------
(* How a step moves a thread, and what it leaves of the invariant. *)

\* The calls that do not fail, and the events that do not happen.
LEMMA NeverMay ==
    /\ Lasting => ~May("keysSet") /\ ~May("crash") /\ ~May("signal")
    /\ Excludes({"panelSet"}) => ~May("panelSet")
    /\ Excludes({"panelRead", "relight"}) => ~May("panelRead") /\ ~May("relight")
BY DEF Lasting, Excludes, May

\* A thread beyond the boot steps: the process observes power events.
LEMMA WorkObserves ==
    ASSUME TypeOK, CustodyInv, NEW t \in Threads, todo[t] # << >>,
           Head(todo[t]) \notin Booters
    PROVE  Observing /\ todo[t] \in Lists
<1>1. todo[t] \in Lists
  BY DEF TypeOK, TodoType, Lists
<1>2. ASSUME ~Observing PROVE FALSE
  BY <1>2, ThreadsDiffer DEF CustodyInv, Fresh, Booters
<1> QED BY <1>1, <1>2

\* While it does not, memory and file both owe nothing.
LEMMA OwedIsSaved ==
    ASSUME TypeOK, CustodyInv
    PROVE  Owed.internal = saved.internal
<1>1. CASE Observing
  <2>1. alive /\ ~Has(todo["monitor"], "load") /\ todo["monitor"] \in Lists
    BY <1>1, ObservingHas, ThreadsDiffer DEF TypeOK, TodoType, Lists
  <2>2. ~At("monitor", "load")
    <3> SUFFICES ASSUME At("monitor", "load") PROVE FALSE
      OBVIOUS
    <3>1. 1 \in 1..Len(todo["monitor"]) /\ todo["monitor"][1] = "load"
      BY <2>1 DEF At, Lists
    <3> QED BY <2>1, <3>1 DEF Has
  <2> QED BY <2>1, <2>2 DEF Owed
<1>2. CASE ~Observing
  BY <1>2 DEF CustodyInv, Fresh, Owed, FileContents
<1> QED BY <1>1, <1>2

\* The brightness of the panel and what is saved of it stay.
LEMMA CustodyUntouched ==
    ASSUME CustodyInv, UNCHANGED << panel, chosenPanel >>,
           saved'.internal = saved.internal
    PROVE  InCustody'
BY DEF CustodyInv, InCustody

\* The monitor goes on with a list.
LEMMA MonitorMoves ==
    ASSUME TypeOK, TypeOK', CustodyInv, Observing, NEW steps \in Lists,
           Continue("monitor", steps), \A x \in Booters : ~Has(steps, x),
           UNCHANGED << shouldRun, alive >>, Owing(steps, saved'), InCustody'
    PROVE  CustodyInv'
<1>1. todo' = [todo EXCEPT !["monitor"] = steps] /\ todo \in [Threads -> Lists]
  BY DEF Continue, TypeOK, TodoType, Lists
<1>2. todo'["monitor"] = steps /\ todo'["power"] = todo["power"]
  BY <1>1, ThreadsDiffer
<1>3. Observing'
  BY <1>2, ObservingHas DEF Booters
<1>4. PowerKeeps'
  BY <1>2 DEF CustodyInv, PowerKeeps
<1> QED BY <1>2, <1>3, <1>4 DEF CustodyInv, Fresh

\* The monitor takes the next step of its list.
LEMMA MonitorPasses ==
    ASSUME TypeOK, TypeOK', CustodyInv, todo["monitor"] # << >>,
           Head(todo["monitor"]) \notin Booters, Done("monitor"),
           UNCHANGED << shouldRun, alive >>,
           Owing(Tail(todo["monitor"]), saved'), InCustody'
    PROVE  CustodyInv'
<1>1. Observing /\ todo["monitor"] \in Lists
  BY WorkObserves, ThreadsDiffer
<1>2. Tail(todo["monitor"]) \in Lists
  BY <1>1, TailType
<1>3. \A x \in Booters : ~Has(Tail(todo["monitor"]), x)
  BY <1>1, ObservingHas, TailKeeps DEF Booters
<1> QED BY <1>1, <1>2, <1>3, MonitorMoves DEF Done

\* A step that neither reads nor restores panel or keyboard.
LEMMA MonitorWorks ==
    ASSUME TypeOK, TypeOK', CustodyInv, todo["monitor"] # << >>,
           Head(todo["monitor"]) \notin Booters \cup {"readPanel", "restoreKeys"},
           Done("monitor"), UNCHANGED << shouldRun, alive >>,
           saved'.internal = saved.internal,
           saved'.keyboard \in {saved.keyboard, Nothing}, InCustody'
    PROVE  CustodyInv'
<1>1. todo["monitor"] \in Lists
  BY WorkObserves, ThreadsDiffer
<1>2. Owing(Tail(todo["monitor"]), saved')
  BY <1>1, OwingTail DEF CustodyInv
<1> QED BY <1>2, MonitorPasses

\* The power thread goes on with a list; it forgets nothing.
LEMMA PowerMoves ==
    ASSUME TypeOK, TypeOK', CustodyInv, Observing, NEW steps \in Lists,
           Continue("power", steps),
           ~Has(steps, "restorePanel"), ~Has(steps, "restoreKeys"),
           UNCHANGED << saved, shouldRun, alive >>, InCustody'
    PROVE  CustodyInv'
<1>1. todo' = [todo EXCEPT !["power"] = steps] /\ todo \in [Threads -> Lists]
  BY DEF Continue, TypeOK, TodoType, Lists
<1>2. todo'["power"] = steps /\ todo'["monitor"] = todo["monitor"]
  BY <1>1, ThreadsDiffer
<1>3. Observing'
  BY <1>2, ObservingHas
<1>4. PowerKeeps'
  BY <1>2 DEF PowerKeeps
<1> QED BY <1>2, <1>3, <1>4 DEF CustodyInv, Fresh

\* The power thread takes the next step of its list.
LEMMA PowerPasses ==
    ASSUME TypeOK, TypeOK', CustodyInv, todo["power"] # << >>,
           Head(todo["power"]) \notin Booters, Done("power"),
           UNCHANGED << saved, shouldRun, alive >>, InCustody'
    PROVE  CustodyInv'
<1>1. Observing /\ todo["power"] \in Lists
  BY WorkObserves, ThreadsDiffer
<1>2. Tail(todo["power"]) \in Lists
  BY <1>1, TailType
<1>3. ~Has(Tail(todo["power"]), "restorePanel") /\ ~Has(Tail(todo["power"]), "restoreKeys")
  BY <1>1, TailKeeps DEF CustodyInv, PowerKeeps
<1> QED BY <1>1, <1>2, <1>3, PowerMoves DEF Done

\* Either thread takes a step that touches neither panel nor saved state.
LEMMA AnyPasses ==
    ASSUME TypeOK, TypeOK', CustodyInv, NEW t \in Threads, todo[t] # << >>,
           Head(todo[t]) \notin Booters \cup {"readPanel", "restoreKeys"}, Done(t),
           UNCHANGED << saved, panel, chosenPanel, shouldRun, alive >>
    PROVE  CustodyInv'
<1>1. InCustody'
  BY CustodyUntouched
<1>2. CASE t = "monitor"
  BY <1>1, <1>2, MonitorWorks
<1>3. CASE t = "power"
  BY <1>1, <1>3, PowerPasses
<1> QED BY <1>2, <1>3, ThreadsDiffer

\* No thread moves.
LEMMA NobodyMoves ==
    ASSUME TypeOK, TypeOK', CustodyInv,
           UNCHANGED << todo, saved, file, shouldRun, alive >>, InCustody'
    PROVE  CustodyInv'
<1>1. Observing' <=> Observing
  BY ObservingHas
<1>2. Fresh'
  BY <1>1 DEF CustodyInv, Fresh
<1>3. Owing(todo["monitor"], saved)' /\ PowerKeeps'
  BY DEF CustodyInv, PowerKeeps
<1> QED BY <1>2, <1>3 DEF CustodyInv

-----------------------------------------------------------------------------
(* The invariant, action by action. *)

\* Setting one saved state leaves the others.
LEMMA SavedFields ==
    ASSUME NEW s \in SavedState, NEW v
    PROVE  /\ [s EXCEPT !.internal = v].internal = v
           /\ [s EXCEPT !.internal = v].keyboard = s.keyboard
           /\ [s EXCEPT !.keyboard = v].internal = s.internal
           /\ [s EXCEPT !.keyboard = v].keyboard = v
           /\ [s EXCEPT !.external = v].internal = s.internal
           /\ [s EXCEPT !.external = v].keyboard = s.keyboard
BY DEF SavedState

\* The panel was not dimmed, and what was pending is forgotten: it shows what
\* the user chose.
LEMMA ForgetCustody ==
    ASSUME TypeOK, TypeOK', CustodyInv, Observing, ForgetPending, panel # 0,
           saved.internal # Nothing, ~Excludes({"panelSet"}),
           UNCHANGED << panel, chosenPanel, shouldRun, alive >>
    PROVE  CustodyInv'
<1>1. saved'.internal = Nothing /\ saved'.keyboard = Nothing
  BY DEF ForgetPending, NothingSaved
<1>2. InCustody'
  BY <1>1 DEF CustodyInv, InCustody
<1>3. /\ ForgetSteps \in Lists
      /\ \A x : Has(ForgetSteps, x) <=> x \in {"snapshot", "persist", "release"}
  BY ForgetHas, StepListTypes
<1>4. Shape(ForgetSteps)
  BY <1>3, NoneAfterAbsent DEF Shape, DimSteps
<1>5. Owing(ForgetSteps, saved')
  BY <1>1, <1>3, <1>4 DEF Owing
<1> QED BY <1>2, <1>3, <1>5, MonitorMoves DEF ForgetPending, Booters

\* Restoring or relighting the panel.
LEMMA RestorePanelCustody ==
    ASSUME Lasting, TypeOK, TypeOK', CustodyInv, NEW t \in Threads, RestorePanel(t)
    PROVE  CustodyInv'
<1>1. /\ todo[t] # << >> /\ Head(todo[t]) \in {"restorePanel", "relightPanel"}
      /\ todo[t] \in Lists /\ Done(t) /\ UNCHANGED << chosenPanel, shouldRun, alive >>
  BY DEF RestorePanel, At, ghostVars, loopVars, TypeOK, TodoType, Lists
<1>2. /\ Has(todo[t], Head(todo[t])) /\ Head(todo[t]) \notin Booters
  <2>1. 1 \in 1..Len(todo[t]) /\ todo[t][1] = Head(todo[t])
    BY <1>1 DEF Lists
  <2> QED BY <1>1, <2>1 DEF Has, Booters
<1>3. CASE UNCHANGED << panel, saved >>
  BY <1>1, <1>2, <1>3, AnyPasses
<1>4. saved \in SavedState /\ saved' \in SavedState
  BY DEF TypeOK, SavedType
<1> DEFINE Lit(step) ==
              /\ saved.internal # Nothing /\ panel' = saved.internal
              /\ Head(todo[t]) = step
<1>5. CASE Lit("relightPanel") /\ saved' = saved
  <2>1. saved' = saved
    BY <1>5
  <2>2. InCustody'
    BY <1>1, <1>5, <2>1 DEF CustodyInv, InCustody
  <2>3. CASE t = "monitor"
    BY <1>1, <1>2, <1>5, <2>1, <2>2, <2>3, MonitorWorks
  <2>4. CASE t = "power"
    BY <1>1, <1>2, <2>1, <2>2, <2>4, PowerPasses
  <2> QED BY <2>3, <2>4, ThreadsDiffer
<1>6. CASE Lit("restorePanel") /\ saved' = [saved EXCEPT !.internal = Nothing]
  <2>1. t = "monitor"
    BY <1>2, <1>6, ThreadsDiffer DEF CustodyInv, PowerKeeps
  <2>2. saved'.internal = Nothing /\ saved'.keyboard = saved.keyboard
    BY <1>4, <1>6 DEF SavedState
  <2>3. InCustody'
    BY <1>1, <1>6, <2>2 DEF CustodyInv, InCustody
  <2>4. Owing(Tail(todo[t]), saved')
    BY <1>1, <1>6, <2>1, <2>2, OwingPanelRestored DEF CustodyInv
  <2> QED BY <1>1, <1>2, <2>1, <2>3, <2>4, MonitorPasses
<1> QED BY <1>1, <1>3, <1>5, <1>6 DEF RestorePanel, At

\* Restoring or relighting the keyboard.
LEMMA RestoreKeysCustody ==
    ASSUME Lasting, TypeOK, TypeOK', CustodyInv, NEW t \in Threads, RestoreKeys(t)
    PROVE  CustodyInv'
<1>1. /\ todo[t] # << >> /\ Head(todo[t]) \in {"restoreKeys", "relightKeys"}
      /\ todo[t] \in Lists /\ Done(t) /\ UNCHANGED << panel, chosenPanel, shouldRun, alive >>
  BY DEF RestoreKeys, At, ghostVars, loopVars, TypeOK, TodoType, Lists
<1>2. /\ Has(todo[t], Head(todo[t])) /\ Head(todo[t]) \notin Booters
  <2>1. 1 \in 1..Len(todo[t]) /\ todo[t][1] = Head(todo[t])
    BY <1>1 DEF Lists
  <2> QED BY <1>1, <2>1 DEF Has, Booters
<1>3. saved \in SavedState /\ saved' \in SavedState
  BY DEF TypeOK, SavedType
<1>4. CASE Head(todo[t]) = "relightKeys"
  <2>1. saved' = saved
    BY <1>4 DEF RestoreKeys, At
  <2> QED BY <1>1, <1>2, <1>4, <2>1, AnyPasses
<1>5. CASE Head(todo[t]) = "restoreKeys"
  <2>1. t = "monitor"
    BY <1>2, <1>5, ThreadsDiffer DEF CustodyInv, PowerKeeps
  <2>2. saved'.internal = saved.internal /\ saved'.keyboard = Nothing
    BY <1>3, <1>5, NeverMay DEF RestoreKeys, At, SavedState
  <2>3. InCustody'
    BY <1>1, <2>2, CustodyUntouched
  <2>4. Owing(Tail(todo[t]), saved')
    BY <1>1, <1>5, <2>1, <2>2, OwingKeysRestored DEF CustodyInv
  <2> QED BY <1>1, <1>2, <2>1, <2>3, <2>4, MonitorPasses
<1> QED BY <1>1, <1>4, <1>5

\* Reading the panel: what is saved is what the user chose.
LEMMA ReadPanelCustody ==
    ASSUME TypeOK, TypeOK', CustodyInv, ReadPanel
    PROVE  CustodyInv'
<1>1. /\ todo["monitor"] # << >> /\ Head(todo["monitor"]) = "readPanel"
      /\ UNCHANGED << panel, chosenPanel, shouldRun, alive >>
  BY DEF ReadPanel, At, ghostVars, loopVars, deviceVars
<1>2. Observing /\ todo["monitor"] \in Lists
  BY <1>1, WorkObserves, ThreadsDiffer DEF Booters
<1>3. CASE /\ Done("monitor")
           /\ saved' = IF saved.internal = Nothing
                       THEN [saved EXCEPT !.internal = SnapshotForDim] ELSE saved
  <2>1. /\ saved \in SavedState /\ panel \in Nat /\ chosenPanel \in Nat
        /\ SnapshotForDim \in Nat
    BY DaemonAssumption DEF TypeOK, SavedType, DeviceType, GhostType, SnapshotForDim
  <2>3. CASE saved.internal # Nothing /\ saved' = saved
    <3>1. Owing(Tail(todo["monitor"]), saved')
      BY <1>1, <1>2, <2>3, OwingRead DEF CustodyInv
    <3> QED BY <1>1, <1>3, <2>3, <3>1, CustodyUntouched, MonitorPasses DEF Booters
  <2>4. CASE saved.internal = Nothing /\ saved' = [saved EXCEPT !.internal = SnapshotForDim]
    <3>1. saved'.internal = SnapshotForDim /\ saved'.keyboard = saved.keyboard
      BY <2>1, <2>4, SavedFields
    <3>2. Nothing \notin Int
      BY TransitionsAssumption
    <3>3. SnapshotForDim # Nothing
      BY <2>1, <3>2
    <3>4. InCustody'
      <4>1. chosenPanel = 0 \/ panel = chosenPanel
        BY <2>1, <2>4, <3>2 DEF CustodyInv, InCustody
      <4>2. panel = chosenPanel /\ chosenPanel # 0 => SnapshotForDim = chosenPanel
        BY <2>1 DEF SnapshotForDim
      <4> QED BY <1>1, <3>1, <4>1, <4>2 DEF InCustody
    <3>5. Owing(Tail(todo["monitor"]), saved')
      BY <1>1, <1>2, <3>1, <3>3, OwingRead DEF CustodyInv
    <3> QED BY <1>1, <1>3, <3>4, <3>5, MonitorPasses DEF Booters
  <2> QED BY <1>3, <2>3, <2>4
<1>4. CASE Continue("monitor", << "release" >>) /\ UNCHANGED saved
  <2>1. << "release" >> \in Lists /\ \A x : Has(<< "release" >>, x) <=> x = "release"
    BY SingleHas, StepListTypes
  <2>2. Owing(<< "release" >>, saved')
    BY <1>4, <2>1, OwingPlain, ThreadsDiffer DEF CustodyInv, DimSteps
  <2> QED BY <1>1, <1>2, <1>4, <2>1, <2>2, CustodyUntouched, MonitorMoves DEF Booters
<1> QED BY <1>3, <1>4 DEF ReadPanel

\* Dimming the panel for the first time.
LEMMA DimPanelCustody ==
    ASSUME Honest, TypeOK, TypeOK', CustodyInv, DimPanel
    PROVE  CustodyInv'
<1>1. /\ todo["monitor"] # << >> /\ Head(todo["monitor"]) = "dimPanel"
      /\ UNCHANGED << chosenPanel, shouldRun, alive >>
  BY DEF DimPanel, At, loopVars
<1>2. Observing /\ todo["monitor"] \in Lists
  BY <1>1, WorkObserves, ThreadsDiffer DEF Booters
<1>3. saved.internal # Nothing
  BY <1>1, <1>2, OwingDim DEF CustodyInv
<1>4. CASE panel' = 0 /\ Done("monitor") /\ UNCHANGED saved
  <2>1. InCustody'
    BY <1>1, <1>3, <1>4 DEF CustodyInv, InCustody
  <2> QED BY <1>1, <1>4, <2>1, MonitorWorks DEF Booters
<1>5. CASE panel # 0 /\ May("panelSet") /\ ForgetPending /\ UNCHANGED panel
  BY <1>1, <1>2, <1>3, <1>5, NeverMay, ForgetCustody
<1> QED BY <1>4, <1>5 DEF DimPanel

\* Dimming it again.
LEMMA RedimPanelCustody ==
    ASSUME Honest, TypeOK, TypeOK', CustodyInv, RedimPanel
    PROVE  CustodyInv'
<1>1. /\ todo["monitor"] # << >> /\ Head(todo["monitor"]) = "redimPanel"
      /\ UNCHANGED << chosenPanel, shouldRun, alive >>
  BY DEF RedimPanel, At
<1>2. Observing /\ todo["monitor"] \in Lists
  BY <1>1, WorkObserves, ThreadsDiffer DEF Booters
<1>3. saved.internal # Nothing
  BY <1>1, <1>2, OwingDim DEF CustodyInv
<1>4. CASE panel' = 0 /\ Done("monitor") /\ UNCHANGED saved
  <2>1. InCustody'
    BY <1>1, <1>3, <1>4 DEF CustodyInv, InCustody
  <2> QED BY <1>1, <1>4, <2>1, MonitorWorks DEF Booters
<1>5. CASE /\ panel # 0 \/ May("panelRead")
           /\ May("panelSet") /\ ForgetPending /\ UNCHANGED panel
  <2>1. panel # 0 /\ ~Excludes({"panelSet"})
    BY <1>5, NeverMay DEF Honest
  <2> QED BY <1>1, <1>2, <1>3, <1>5, <2>1, ForgetCustody
<1> QED BY <1>4, <1>5 DEF RedimPanel

\* Saving and dimming the keyboard.
LEMMA CaptureKeysCustody ==
    ASSUME Lasting, TypeOK, TypeOK', CustodyInv, CaptureKeys
    PROVE  CustodyInv'
<1>1. /\ todo["monitor"] # << >> /\ Head(todo["monitor"]) = "captureKeys"
      /\ Done("monitor") /\ UNCHANGED << panel, chosenPanel, shouldRun, alive >>
      /\ saved' = [saved EXCEPT !.keyboard = keys] \/ saved' = saved
  BY NeverMay DEF CaptureKeys, At, loopVars
<1>2. todo["monitor"] \in Lists
  BY <1>1, WorkObserves, ThreadsDiffer DEF Booters
<1>3. saved'.internal = saved.internal
  <2>1. saved \in SavedState
    BY DEF TypeOK, SavedType
  <2>2. [saved EXCEPT !.keyboard = keys].internal = saved.internal
    BY <2>1, SavedFields
  <2> QED BY <1>1, <2>2
<1>4. Owing(Tail(todo["monitor"]), saved')
  BY <1>1, <1>2, <1>3, OwingKeysSaved DEF CustodyInv
<1> QED BY <1>1, <1>3, <1>4, CustodyUntouched, MonitorPasses DEF Booters

\* Dimming the keyboard again.
LEMMA RedimKeysCustody ==
    ASSUME Lasting, TypeOK, TypeOK', CustodyInv, RedimKeys
    PROVE  CustodyInv'
<1>1. /\ todo["monitor"] # << >> /\ Head(todo["monitor"]) = "redimKeys"
      /\ Done("monitor")
      /\ UNCHANGED << saved, panel, chosenPanel, shouldRun, alive >>
  BY NeverMay DEF RedimKeys, At
<1> QED BY <1>1, AnyPasses, ThreadsDiffer DEF Booters

\* The steps on external displays.
LEMMA ExternalCustodyKept ==
    ASSUME TypeOK, TypeOK', CustodyInv,
           TakeExternal \/ RestoreExternal \/ CaptureExternal \/ RecaptureExternal
    PROVE  CustodyInv'
<1>1. /\ todo["monitor"] # << >>
      /\ Head(todo["monitor"]) \in {"takeExternal", "restoreExternal",
                                    "captureExternal", "recaptureExternal"}
      /\ Done("monitor") /\ UNCHANGED << panel, chosenPanel, shouldRun, alive >>
  BY DEF TakeExternal, RestoreExternal, CaptureExternal, RecaptureExternal, At,
         deviceVars, loopVars, ghostVars
<1>2. ASSUME NEW v, saved' = [saved EXCEPT !.external = v]
      PROVE  saved'.internal = saved.internal /\ saved'.keyboard = saved.keyboard
  <2>1. saved \in SavedState
    BY DEF TypeOK, SavedType
  <2> QED BY <1>2, <2>1, SavedFields
<1>3. saved'.internal = saved.internal /\ saved'.keyboard = saved.keyboard
  <2>1. CASE TakeExternal
    BY <1>2, <2>1 DEF TakeExternal
  <2>2. CASE RestoreExternal
    BY <1>2, <2>2 DEF RestoreExternal
  <2>3. CASE CaptureExternal
    BY <1>2, <2>3 DEF CaptureExternal
  <2>4. CASE RecaptureExternal
    BY <1>2, <2>4 DEF RecaptureExternal
  <2> QED BY <2>1, <2>2, <2>3, <2>4
<1> QED BY <1>1, <1>3, CustodyUntouched, MonitorWorks DEF Booters

\* The file, and the steps of restores and dims that touch other devices.
LEMMA OtherDevicesCustody ==
    ASSUME TypeOK, TypeOK', CustodyInv, NEW t \in Threads,
           \/ Acquire(t) \/ Release(t) \/ UnlockCursor(t) \/ StopCaffeinate(t)
           \/ Snapshot(t) \/ Write(t)
    PROVE  CustodyInv'
<1>1. /\ todo[t] # << >>
      /\ Head(todo[t]) \in {"acquire", "release", "unlockCursor", "stopCaffeinate",
                            "snapshot", "write"}
      /\ Done(t) /\ UNCHANGED << saved, panel, chosenPanel, shouldRun, alive >>
  BY DEF Acquire, Release, UnlockCursor, StopCaffeinate, Snapshot, Write, Persisted, At,
         deviceVars, savedVars, loopVars, ghostVars
<1> QED BY <1>1, AnyPasses DEF Booters

\* Persisting, up to the truncation.
LEMMA PersistCustody ==
    ASSUME TypeOK, TypeOK', CustodyInv, NEW t \in Threads, PersistImage(t)
    PROVE  CustodyInv'
<1>1. /\ todo[t] # << >> /\ Head(todo[t]) = "persist"
      /\ UNCHANGED << saved, panel, chosenPanel, shouldRun, alive >>
      /\ Done(t) \/ Continue(t, << "write" >> \o Tail(todo[t]))
  BY DEF PersistImage, Persisted, At, deviceVars, savedVars, loopVars
<1>2. CASE Done(t)
  BY <1>1, <1>2, AnyPasses DEF Booters
<1>3. CASE Continue(t, << "write" >> \o Tail(todo[t]))
  <2>1. Observing /\ todo[t] \in Lists
    BY <1>1, WorkObserves DEF Booters
  <2>2. /\ Tail(todo[t]) \in Lists /\ << "write" >> \in Lists
        /\ << "write" >> \o Tail(todo[t]) \in Lists
    BY <1>1, <2>1, TailType, JoinType, StepListTypes
  <2>3. \A x : Has(<< "write" >> \o Tail(todo[t]), x) => x = "write" \/ Has(todo[t], x)
    BY <1>1, <2>1, <2>2, HasJoin, SingleHas, TailKeeps
  <2>4. InCustody'
    BY <1>1, CustodyUntouched
  <2>5. CASE t = "monitor"
    <3>1. Owing(Tail(todo[t]), saved)
      BY <1>1, <2>1, <2>5, OwingTail DEF CustodyInv
    <3>2. Owing(<< "write" >> \o Tail(todo[t]), saved')
      BY <1>1, <2>2, <3>1, OwingWrite
    <3>3. \A x \in Booters : ~Has(<< "write" >> \o Tail(todo[t]), x)
      BY <2>1, <2>3, <2>5, ObservingHas DEF Booters
    <3> QED BY <1>1, <1>3, <2>1, <2>2, <2>4, <2>5, <3>2, <3>3, MonitorMoves
  <2>6. CASE t = "power"
    <3>1. /\ ~Has(<< "write" >> \o Tail(todo[t]), "restorePanel")
          /\ ~Has(<< "write" >> \o Tail(todo[t]), "restoreKeys")
      BY <2>3, <2>6 DEF CustodyInv, PowerKeeps
    <3> QED BY <1>1, <1>3, <2>1, <2>2, <2>4, <2>6, <3>1, PowerMoves
  <2> QED BY <2>5, <2>6, ThreadsDiffer
<1> QED BY <1>1, <1>2, <1>3

\* The caffeinate session and the cursor of a dim, and its end.
LEMMA EndOfDimCustody ==
    ASSUME TypeOK, TypeOK', CustodyInv, StartCaffeinate \/ LockCursor \/ PersistIfChanged
    PROVE  CustodyInv'
<1>1. CASE StartCaffeinate \/ LockCursor
  <2>1. /\ todo["monitor"] # << >>
        /\ Head(todo["monitor"]) \in {"startCaffeinate", "lockCursor"}
        /\ Done("monitor") /\ UNCHANGED << saved, panel, chosenPanel, shouldRun, alive >>
    BY <1>1 DEF StartCaffeinate, LockCursor, At, deviceVars, savedVars, ghostVars
  <2> QED BY <2>1, AnyPasses, ThreadsDiffer DEF Booters
<1>2. CASE PersistIfChanged
  <2>1. /\ todo["monitor"] # << >> /\ Head(todo["monitor"]) = "persistIfChanged"
        /\ UNCHANGED << saved, panel, chosenPanel, shouldRun, alive >>
        /\ \/ Continue("monitor", ForgetSteps)
           \/ Continue("monitor", << "release" >>)
    BY <1>2 DEF PersistIfChanged, At, deviceVars, savedVars, loopVars, ghostVars
  <2>2. Observing /\ InCustody'
    BY <2>1, WorkObserves, CustodyUntouched, ThreadsDiffer DEF Booters
  <2>3. /\ ForgetSteps \in Lists /\ << "release" >> \in Lists /\ Persist \in Lists
        /\ \A x : Has(<< "release" >>, x) <=> x = "release"
    BY SingleHas, StepListTypes
  <2>4. \A x : Has(ForgetSteps, x) <=> x \in {"snapshot", "persist", "release"}
    <3>1. \A x : Has(Persist, x) <=> x \in {"snapshot", "persist"}
      BY DEF Persist, Has
    <3>2. \A x : Has(Persist \o << "release" >>, x) <=> Has(Persist, x) \/ x = "release"
      BY <2>3, HasJoin
    <3> QED BY <3>1, <3>2 DEF ForgetSteps
  <2>5. Owing(ForgetSteps, saved') /\ Owing(<< "release" >>, saved')
    BY <2>1, <2>3, <2>4, OwingPlain DEF CustodyInv, DimSteps
  <2> QED BY <2>1, <2>2, <2>3, <2>4, <2>5, MonitorMoves DEF Booters
<1> QED BY <1>1, <1>2

\* What a sample starts fits what is saved: it resumes with the panel saved.
LEMMA DecideCustody ==
    ASSUME TypeOK, TypeOK', CustodyInv, Decide
    PROVE  CustodyInv'
<1> DEFINE action == Decision(policy, angle, Pending).action
           steps == ActionSteps(action)
<1>1. /\ alive /\ todo["monitor"] = << >> /\ Continue("monitor", steps)
      /\ UNCHANGED << saved, panel, chosenPanel, shouldRun, alive >>
  BY DEF Decide, Resting, deviceVars, savedVars, ghostVars
<1>2. policy \in Policy /\ angle \in Angles
  BY DEF TypeOK, LoopType, Option, Decide
<1>3. steps \in Lists /\ action \in Actions
  BY <1>2, DecideResult, DecisionType DEF Decisions
<1>4. InCustody'
  BY <1>1, CustodyUntouched
<1>5. action = "resume" => saved.internal # Nothing
  BY <1>2, DimPending DEF Pending, CustodyInv, Owing
<1> HIDE DEF action
<1>6. Observing
  BY <1>1, ObservingHas DEF Has
<1>7. Owing(<< >>, saved) /\ saved' = saved
  BY <1>1 DEF CustodyInv
<1>8. /\ RestoreEffects \in Lists /\ KeepEffects \in Lists /\ PrepareEffects \in Lists
      /\ Inside(RestoreEffects) \in Lists /\ Inside(KeepEffects) \in Lists
      /\ Inside(PrepareEffects) \in Lists
      /\ << >> \in Lists /\ StartSteps \in Lists /\ ResumeSteps \in Lists
  BY StepListTypes
<1>9. CASE action = "none"
  <2>1. steps = << >>
    BY <1>9 DEF ActionSteps
  <2> QED BY <1>1, <1>4, <1>6, <1>7, <1>8, <2>1, MonitorMoves DEF Has
<1>10. CASE action = "restore"
  <2>1. steps = Inside(RestoreEffects)
    BY <1>10 DEF ActionSteps
  <2>2. \A x : Has(Inside(RestoreEffects), x) <=>
                 \/ x \in {"acquire", "release", "snapshot", "persist"}
                 \/ Has(RestoreEffects, x)
    BY <1>8, InsideHas
  <2>3. Owing(Inside(RestoreEffects), saved')
    BY <1>7, <2>2, EffectsHave, RestoreShape DEF Owing
  <2>4. \A x \in Booters : ~Has(Inside(RestoreEffects), x)
    BY <2>2, EffectsHave DEF Booters
  <2> QED BY <1>1, <1>4, <1>6, <1>8, <2>1, <2>3, <2>4, MonitorMoves
<1>11. CASE action \in {"restoreKeep", "prepare"}
  <2>1. steps = Inside(KeepEffects) \/ steps = Inside(PrepareEffects)
    BY <1>11 DEF ActionSteps
  <2>2. \A x \in DimSteps \cup Booters \cup {"restorePanel", "exit"} : ~Has(steps, x)
    <3>1. \A x : /\ Has(Inside(KeepEffects), x) <=>
                      \/ x \in {"acquire", "release", "snapshot", "persist"}
                      \/ Has(KeepEffects, x)
                 /\ Has(Inside(PrepareEffects), x) <=>
                      \/ x \in {"acquire", "release", "snapshot", "persist"}
                      \/ Has(PrepareEffects, x)
      BY <1>8, InsideHas
    <3> QED BY <2>1, <3>1, EffectsHave DEF DimSteps, Booters
  <2>3. Owing(steps, saved')
    BY <1>3, <1>7, <2>2, OwingPlain
  <2> QED BY <1>1, <1>3, <1>4, <1>6, <2>2, <2>3, MonitorMoves
<1>12. CASE action = "start"
  <2>1. steps = StartSteps
    BY <1>12 DEF ActionSteps
  <2>2. Owing(StartSteps, saved')
    BY <1>7, DimmingHas, StartShape DEF Owing
  <2>3. \A x \in Booters : ~Has(StartSteps, x)
    BY DimmingHas DEF Booters
  <2> QED BY <1>1, <1>4, <1>6, <1>8, <2>1, <2>2, <2>3, MonitorMoves
<1>13. CASE action = "resume"
  <2>1. steps = ResumeSteps
    BY <1>13 DEF ActionSteps
  <2>2. Owing(ResumeSteps, saved')
    BY <1>5, <1>7, <1>13, DimmingHas, ResumeShape DEF Owing
  <2>3. \A x \in Booters : ~Has(ResumeSteps, x)
    BY DimmingHas DEF Booters
  <2> QED BY <1>1, <1>4, <1>6, <1>8, <2>1, <2>2, <2>3, MonitorMoves
<1> QED BY <1>3, <1>9, <1>10, <1>11, <1>12, <1>13 DEF Actions

\* A daemon starts with nothing owed, and has not been told to stop.
LEMMA BootCustody ==
    ASSUME TypeOK, TypeOK', CustodyInv, Launch \/ Load \/ StartObserver \/ ReadAngle
    PROVE  CustodyInv'
<1>1. todo \in [Threads -> Lists] /\ "monitor" \in Threads /\ "power" \in Threads
  BY ThreadsDiffer DEF TypeOK, TodoType, Lists
<1>2. /\ << "load" >> \in Lists /\ << "observe" >> \in Lists
      /\ \A x, y : Has(<< y >>, x) <=> x = y
  BY SingletonType, SingleHas DEF Steps
<1>3. \A steps \in {<< "load" >>, << "observe" >>, << >>} : Owing(steps, saved)
  <2>1. /\ \A x : ~Has(<< >>, x)
        /\ << >> \in Lists
    BY StepListTypes DEF Has
  <2> QED BY <1>2, <2>1, OwingPlain DEF CustodyInv, DimSteps
<1>4. CASE Launch
  <2>1. /\ ~alive /\ alive' /\ todo' = [todo EXCEPT !["monitor"] = << "load" >>]
        /\ UNCHANGED << saved, file, panel, chosenPanel, shouldRun >>
    BY <1>4 DEF Launch, Continue, BootSteps, deviceVars, savedVars, fileVars, ghostVars
  <2>2. /\ file = NothingSaved /\ saved = NothingSaved /\ todo["power"] = << >>
    BY <2>1 DEF CustodyInv, Fresh, Observing
  <2>3. todo'["monitor"] = << "load" >> /\ todo'["power"] = << >>
    BY <1>1, <2>1, <2>2
  <2>4. Fresh' /\ PowerKeeps'
    BY <2>1, <2>2, <2>3 DEF Fresh, PowerKeeps, Has
  <2> QED BY <1>3, <2>1, <2>3, <2>4, CustodyUntouched DEF CustodyInv
<1>5. CASE Load
  <2>1. At("monitor", "load") /\ UNCHANGED << file, panel, chosenPanel, shouldRun >>
    BY <1>5 DEF Load, deviceVars, fileVars, ghostVars, loopVars
  <2>2. Has(todo["monitor"], "load")
    <3>1. 1 \in 1..Len(todo["monitor"]) /\ todo["monitor"][1] = "load"
      BY <1>1, <2>1 DEF At, Lists
    <3> QED BY <3>1 DEF Has
  <2>3. ~Observing
    BY <2>2, ObservingHas
  <2>4. file = NothingSaved /\ saved = NothingSaved /\ todo["power"] = << >>
    BY <2>3 DEF CustodyInv, Fresh
  <2>5. FileContents = NothingSaved
    BY <2>4 DEF FileContents
  <2>6. todo' = [todo EXCEPT !["monitor"] = << "observe" >>] /\ saved' = saved
    BY <1>5, <2>5 DEF Load, Continue
  <2>7. todo'["monitor"] = << "observe" >> /\ todo'["power"] = << >>
    BY <1>1, <2>4, <2>6
  <2>8. Fresh' /\ PowerKeeps'
    BY <2>1, <2>4, <2>6, <2>7 DEF Fresh, PowerKeeps, Has
  <2> QED BY <1>3, <2>1, <2>6, <2>7, <2>8, CustodyUntouched DEF CustodyInv
<1>6. CASE StartObserver
  <2>1. /\ At("monitor", "observe") /\ todo' = [todo EXCEPT !["monitor"] = Tail(todo["monitor"])]
        /\ UNCHANGED << saved, file, panel, chosenPanel, shouldRun, alive >>
    BY <1>6 DEF StartObserver, Done, Continue, deviceVars, savedVars, fileVars,
       ghostVars, loopVars
  <2>2. Has(todo["monitor"], "observe")
    <3>1. 1 \in 1..Len(todo["monitor"]) /\ todo["monitor"][1] = "observe"
      BY <1>1, <2>1 DEF At, Lists
    <3> QED BY <3>1 DEF Has
  <2>3. ~Observing
    BY <2>2, ObservingHas
  <2>4. /\ file = NothingSaved /\ saved = NothingSaved /\ todo["power"] = << >>
        /\ todo["monitor"] \in {<< >>, << "load" >>, << "observe" >>}
    BY <2>3 DEF CustodyInv, Fresh
  <2>5. todo["monitor"] = << "observe" >>
    BY <2>1, <2>4 DEF At
  <2>6. todo'["monitor"] = << >> /\ todo'["power"] = << >>
    BY <1>1, <2>1, <2>4, <2>5
  <2>7. Fresh' /\ PowerKeeps'
    BY <2>1, <2>4, <2>6 DEF Fresh, PowerKeeps, Has
  <2> QED BY <1>3, <2>1, <2>6, <2>7, CustodyUntouched DEF CustodyInv
<1>7. CASE ReadAngle
  <2>1. UNCHANGED << todo, saved, file, panel, chosenPanel, shouldRun, alive >>
    BY <1>7 DEF ReadAngle, deviceVars, savedVars, fileVars, ghostVars
  <2> QED BY <2>1, CustodyUntouched, NobodyMoves
<1> QED BY <1>4, <1>5, <1>6, <1>7

\* The power callbacks forget nothing.
LEMMA PowerCustody ==
    ASSUME TypeOK, TypeOK', CustodyInv, WillSleep \/ AllowSleep \/ DidWake
    PROVE  CustodyInv'
<1>1. CASE WillSleep
  <2>1. /\ Observing /\ Continue("power", SleepSteps)
        /\ UNCHANGED << saved, panel, chosenPanel, shouldRun, alive >>
    BY <1>1 DEF WillSleep, deviceVars, savedVars, ghostVars, loopVars
  <2>2. ~Has(SleepSteps, "restorePanel") /\ ~Has(SleepSteps, "restoreKeys")
    BY SleepHas, EffectsHave
  <2> QED BY <2>1, <2>2, CustodyUntouched, PowerMoves, StepListTypes
<1>2. CASE AllowSleep
  <2>1. /\ todo["power"] # << >> /\ Head(todo["power"]) = "allow" /\ Done("power")
        /\ UNCHANGED << saved, panel, chosenPanel, shouldRun, alive >>
    BY <1>2 DEF AllowSleep, At, deviceVars, savedVars, ghostVars, loopVars
  <2> QED BY <2>1, AnyPasses, ThreadsDiffer DEF Booters
<1>3. CASE DidWake
  <2>1. UNCHANGED << todo, saved, file, panel, chosenPanel, shouldRun, alive >>
    BY <1>3 DEF DidWake, deviceVars, savedVars, fileVars, ghostVars, loopVars
  <2> QED BY <2>1, CustodyUntouched, NobodyMoves
<1> QED BY <1>1, <1>2, <1>3

\* A power observer that does not start ends a process that owes nothing.
LEMMA ObserverFailsCustody ==
    ASSUME TypeOK, TypeOK', CustodyInv, ObserverFails
    PROVE  CustodyInv'
<1>1. todo \in [Threads -> Lists] /\ "monitor" \in Threads /\ "power" \in Threads
  BY ThreadsDiffer DEF TypeOK, TodoType, Lists
<1>2. Has(todo["monitor"], "observe")
  <2>1. 1 \in 1..Len(todo["monitor"]) /\ todo["monitor"][1] = "observe"
    BY <1>1 DEF ObserverFails, At, Lists
  <2> QED BY <2>1 DEF Has
<1>3. file = NothingSaved /\ saved = NothingSaved
  BY <1>2, ObservingHas DEF CustodyInv, Fresh
<1>4. /\ saved' = NothingSaved /\ todo' = [t \in Threads |-> << >>] /\ shouldRun'
      /\ UNCHANGED << file, panel, chosenPanel >>
  BY DEF ObserverFails, Die
<1>5. todo'["monitor"] = << >> /\ todo'["power"] = << >>
  BY <1>1, <1>4
<1>6. Owing(<< >>, saved)
  <2>1. \A x : ~Has(<< >>, x)
    BY DEF Has
  <2> QED BY <2>1, OwingPlain, StepListTypes DEF CustodyInv
<1>7. InCustody' /\ Fresh' /\ PowerKeeps'
  BY <1>3, <1>4, <1>5, CustodyUntouched DEF Fresh, PowerKeeps, Has
<1> QED BY <1>3, <1>4, <1>5, <1>6, <1>7 DEF CustodyInv

\* A change of brightness is a new choice while nothing is owed, and else
\* leaves what is owed.
LEMMA ChangePanelCustody ==
    ASSUME Honest, TypeOK, TypeOK', CustodyInv, ChangePanel
    PROVE  CustodyInv'
<1>1. UNCHANGED << todo, saved, file, shouldRun, alive >>
  BY DEF ChangePanel, savedVars, fileVars, loopVars
<1>2. Owed.internal = saved.internal
  BY OwedIsSaved
<1>3. IF saved.internal = Nothing THEN chosenPanel' = panel'
      ELSE chosenPanel' = chosenPanel /\ Excludes({"panelSet"})
  BY <1>2, NeverMay DEF ChangePanel, Honest
<1>4. InCustody'
  BY <1>1, <1>3 DEF CustodyInv, InCustody
<1> QED BY <1>1, <1>4, NobodyMoves

\* The other events do not concern the panel.
LEMMA WorldCustody ==
    ASSUME TypeOK, TypeOK', CustodyInv,
           \/ PowerChange \/ MoveLid \/ ChangeKeys \/ BecomeCalm \/ Tick
           \/ \E d \in Displays : Hotplug(d)
    PROVE  CustodyInv'
<1>1. CASE PowerChange \/ MoveLid \/ BecomeCalm \/ Tick
  <2>1. UNCHANGED << todo, saved, file, panel, chosenPanel, shouldRun, alive >>
    BY <1>1 DEF PowerChange, MoveLid, BecomeCalm, Tick, deviceVars, savedVars, fileVars,
       ghostVars, loopVars
  <2> QED BY <2>1, CustodyUntouched, NobodyMoves
<1>2. CASE ChangeKeys
  <2>1. UNCHANGED << todo, saved, file, panel, chosenPanel, shouldRun, alive >>
    BY <1>2 DEF ChangeKeys, savedVars, fileVars, loopVars
  <2> QED BY <2>1, CustodyUntouched, NobodyMoves
<1>3. CASE \E d \in Displays : Hotplug(d)
  <2>1. UNCHANGED << todo, saved, file, panel, chosenPanel, shouldRun, alive >>
    BY <1>3 DEF Hotplug, savedVars, fileVars, loopVars, ghostVars
  <2> QED BY <2>1, CustodyUntouched, NobodyMoves
<1> QED BY <1>1, <1>2, <1>3

\* What does not happen to a reliable daemon that runs.
LEMMA NoEndCustody ==
    ASSUME Lasting, TypeOK, CustodyInv
    PROVE  ~Signal /\ ~Crash /\ ~LeaveLoop /\ ~Exit
<1>1. ~Signal /\ ~Crash
  BY NeverMay DEF Signal, Crash
<1>2. ~LeaveLoop
  BY DEF LeaveLoop, CustodyInv
<1>3. ASSUME Exit PROVE FALSE
  <2>1. 1 \in 1..Len(todo["monitor"]) /\ todo["monitor"][1] = "exit"
    BY <1>3, ThreadsDiffer DEF Exit, At, TypeOK, TodoType
  <2> QED BY <2>1 DEF CustodyInv, Owing, Shape, Has
<1> QED BY <1>1, <1>2, <1>3

\* No step of a reliable daemon breaks the invariant.
LEMMA NextCustody ==
    ASSUME Lasting, Honest, TypeOK, TypeOK', CustodyInv, [Next]_vars
    PROVE  CustodyInv'
<1>1. ASSUME NEW t \in Threads, Shared(t) PROVE CustodyInv'
  BY <1>1, RestorePanelCustody, RestoreKeysCustody, OtherDevicesCustody, PersistCustody
  DEF Shared
<1>2. CASE MonitorOnly
  BY <1>2, NoEndCustody, ExternalCustodyKept, ReadPanelCustody, DimPanelCustody,
     RedimPanelCustody, CaptureKeysCustody, RedimKeysCustody, EndOfDimCustody,
     BootCustody, DecideCustody
  DEF MonitorOnly
<1>3. CASE PowerThread
  BY <1>1, <1>3, PowerCustody, ThreadsDiffer DEF PowerThread
<1>4. CASE World
  BY <1>4, NoEndCustody, BootCustody, WorldCustody, ChangePanelCustody,
     ObserverFailsCustody DEF World
<1>5. CASE Tick
  BY <1>5, WorldCustody
<1>6. CASE UNCHANGED vars
  <2>1. UNCHANGED << todo, saved, file, panel, chosenPanel, shouldRun, alive >>
    BY <1>6 DEF vars, deviceVars, savedVars, fileVars, ghostVars, loopVars
  <2> QED BY <2>1, CustodyUntouched, NobodyMoves
<1> QED BY <1>1, <1>2, <1>3, <1>4, <1>5, <1>6, ThreadsDiffer DEF Next, Monitor

\* No daemon runs at first, and nothing is owed.
LEMMA InitCustody == Init => CustodyInv
<1> SUFFICES ASSUME Init PROVE CustodyInv
  OBVIOUS
<1>1. todo["monitor"] = << >> /\ todo["power"] = << >>
  BY ThreadsDiffer DEF Init
<1>2. \A x : ~Has(<< >>, x)
  BY DEF Has
<1>3. Shape(<< >>)
  BY <1>2, NoneAfterAbsent DEF Shape
<1>4. saved.internal = Nothing /\ saved.keyboard = Nothing
  BY DEF Init, NothingSaved
<1>5. Owing(todo["monitor"], saved)
  BY <1>1, <1>2, <1>3, <1>4 DEF Owing
<1>6. InCustody /\ PowerKeeps /\ Fresh
  BY <1>1, <1>2, <1>4 DEF Init, InCustody, PowerKeeps, Fresh
<1> QED BY <1>5, <1>6 DEF Init, CustodyInv

\* The panel is never dark with nothing saved, however the two threads, sleep,
\* hotplug and the failing calls interleave: PanelCustody holds of every daemon
\* whose process lives and whose keyboard takes what it is told, also where the
\* panel refuses to be dimmed or restored, unless reads of it fail as well or
\* it is lit again behind the daemon's back.
THEOREM PanelNeverLost ==
    ASSUME Lasting, Honest
    PROVE  Spec => []PanelCustody
<1>1. Init => CustodyInv
  BY InitCustody
<1>2. TypeOK /\ TypeOK' /\ CustodyInv /\ [Next]_vars => CustodyInv'
  BY NextCustody
<1>3. TypeOK /\ CustodyInv => PanelCustody
  BY OwedIsSaved DEF CustodyInv, InCustody, PanelCustody
<1>4. Spec => []TypeOK
  BY TypeCorrect
<1> QED BY <1>1, <1>2, <1>3, <1>4, PTL DEF Spec

-----------------------------------------------------------------------------
(* The external displays, as the contract of their controller has them. *)

\* The record, wherever it is during a restore.
Held == IF taken = Nothing THEN saved.external ELSE taken

ContractStep == [Externals!Next]_<< plugged, dark, externalFlag, Held >>

\* Steps that a record of external displays depends on.
ExternalSteps == { "takeExternal", "restoreExternal", "captureExternal", "recaptureExternal",
                   "readPanel", "restorePanel" }

\* What the monitor's list still does fits the record.  A record that was taken
\* is about to be put back or given up.  An empty one goes with a saved panel,
\* and is restored before the panel is: a start, which has no saved panel, finds
\* none, and so never disables displays over an empty record.
ExternalsFit(s, owed, moved) ==
    /\ Has(s, "takeExternal") => Has(s, "restoreExternal")
    /\ moved # Nothing =>
          owed.external = Nothing /\ Has(s, "restoreExternal") /\ ~Has(s, "takeExternal")
    /\ owed.external = {} => owed.internal # Nothing
    /\ Has(s, "restorePanel") => Has(s, "takeExternal") \/ owed.external # {}
    /\ Has(s, "captureExternal") =>
          owed.external # {} /\ (Has(s, "readPanel") \/ owed.internal # Nothing)
    /\ Has(s, "recaptureExternal") => owed.internal # Nothing

\* The displays are marked as disabled only in a process that has recovered.
ContractInv ==
    /\ ExternalsFit(Left, saved, taken)
    /\ ~Observing => ~externalFlag

\* A step of a daemon in custody whose process goes on.
Living == /\ TypeOK /\ MonitorOrdered /\ CustodyInv /\ ContractInv
          /\ Observing => Observing'

\* The step is one of the contract, or none of it, and keeps the invariant.
KeepsContract == ContractInv' /\ ContractStep

\* A step that leaves displays and record alone, and a list that fits.
LEMMA ContractUnused ==
    ASSUME Living, UNCHANGED << plugged, dark, externalFlag, taken >>,
           saved'.external = saved.external, ExternalsFit(Left', saved', taken)
    PROVE  KeepsContract
BY DEF Living, ContractInv, KeepsContract, ContractStep, Held

\* It fits when it has the same steps as before for the same record.
LEMMA ContractIdle ==
    ASSUME Living, UNCHANGED << plugged, dark, externalFlag, taken >>,
           saved'.external = saved.external,
           saved.internal # Nothing => saved'.internal # Nothing,
           \A x \in ExternalSteps : Has(Left', x) <=> Has(Left, x)
    PROVE  KeepsContract
<1>1. ExternalsFit(Left', saved', taken)
  BY DEF Living, ContractInv, ExternalsFit, ExternalSteps
<1> QED BY <1>1, ContractUnused

\* Nobody moves the monitor.
LEMMA ContractUntouched ==
    ASSUME Living, UNCHANGED << plugged, dark, externalFlag, taken, saved, Left >>
    PROVE  KeepsContract
BY ContractIdle

\* What is left after a step of the monitor.
LEMMA MonitorTail ==
    ASSUME TypeOK, MonitorOrdered, Done("monitor"), Left # << >>
    PROVE  /\ Left \in Lists /\ Left' = Tail(Left)
           /\ Ordered(Left)
           /\ Has(Left, Head(Left))
           /\ \A x : Has(Left', x) => Has(Left, x)
           /\ \A x : Has(Left, x) => Has(Left', x) \/ x = Head(Left)
           /\ \A x : Has(Left', x) /\ Rank(Head(Left)) > 0 /\ Rank(x) > 0 =>
                        Rank(Head(Left)) < Rank(x)
<1>1. /\ todo \in [Threads -> Lists] /\ "monitor" \in Threads
      /\ todo' = [todo EXCEPT !["monitor"] = Tail(Left)]
  BY ThreadsDiffer DEF TypeOK, TodoType, Lists, Done, Continue, Left
<1>2. Left \in Lists /\ Left' = Tail(Left) /\ Ordered(Left)
  BY <1>1 DEF Left, MonitorOrdered
<1> QED BY <1>2, OrderedTail

\* The monitor takes a step that the record does not depend on.
LEMMA ContractPasses ==
    ASSUME Living, Done("monitor"), Left # << >>, Head(Left) \notin ExternalSteps,
           UNCHANGED << plugged, dark, externalFlag, taken >>,
           saved'.external = saved.external,
           saved.internal # Nothing => saved'.internal # Nothing
    PROVE  KeepsContract
<1>1. \A x \in ExternalSteps : Has(Left', x) <=> Has(Left, x)
  BY MonitorTail DEF Living
<1> QED BY <1>1, ContractIdle

\* The power thread's steps are not the monitor's.
LEMMA PowerApart ==
    ASSUME TypeOK, NEW steps, Continue("power", steps)
    PROVE  UNCHANGED Left
BY ThreadsDiffer DEF Continue, TypeOK, TodoType, Left

\* Either thread takes a step that the record does not depend on.
LEMMA ContractGoesOn ==
    ASSUME Living, NEW t \in Threads, Done(t), todo[t] # << >>,
           Head(todo[t]) \notin ExternalSteps,
           UNCHANGED << plugged, dark, externalFlag, taken, saved >>
    PROVE  KeepsContract
<1>1. CASE t = "monitor"
  BY <1>1, ContractPasses DEF Left
<1>2. CASE t = "power"
  BY <1>2, PowerApart, ContractUntouched DEF Done, Living
<1> QED BY <1>1, <1>2, ThreadsDiffer

\* A list that has no part in the record fits when none is on its way.
LEMMA ContractJumps ==
    ASSUME Living, NEW steps \in Lists, Continue("monitor", steps),
           \A x \in ExternalSteps : ~Has(steps, x), ~Has(Left, "restoreExternal"),
           UNCHANGED << plugged, dark, externalFlag, taken, saved >>
    PROVE  KeepsContract
<1>1. Left' = steps
  BY ThreadsDiffer DEF Continue, TypeOK, TodoType, Left, Living
<1>2. ExternalsFit(Left', saved', taken)
  BY <1>1 DEF Living, ContractInv, ExternalsFit, ExternalSteps
<1> QED BY <1>2, ContractUnused

-----------------------------------------------------------------------------
(* The invariant, action by action. *)

\* Brightness steps of either thread.
LEMMA ContractKeys ==
    ASSUME Living, NEW t \in Threads, RestoreKeys(t)
    PROVE  KeepsContract
<1>1. /\ Done(t) /\ todo[t] # << >> /\ todo[t] \in Lists
      /\ Head(todo[t]) \in {"restoreKeys", "relightKeys"}
      /\ UNCHANGED << plugged, dark, externalFlag, taken >>
  BY DEF RestoreKeys, At, flagVars, Living, TypeOK, TodoType, Lists
<1>2. saved \in SavedState
  BY DEF Living, TypeOK, SavedType
<1>3. CASE t = "monitor"
  <2>1. saved'.external = saved.external /\ saved'.internal = saved.internal
    BY <1>2 DEF RestoreKeys, SavedState
  <2> QED BY <1>1, <1>3, <2>1, ContractPasses DEF Left, ExternalSteps
<1>4. CASE t = "power"
  <2>1. Has(todo[t], Head(todo[t]))
    BY <1>1, HeadHas
  <2>2. saved' = saved
    BY <1>1, <1>4, <2>1 DEF Living, CustodyInv, PowerKeeps, RestoreKeys, At
  <2> QED BY <1>1, <2>2, ContractGoesOn DEF ExternalSteps
<1> QED BY <1>3, <1>4, ThreadsDiffer

\* Restoring the panel gives up what was saved of it; by then there is no empty
\* record any more.
LEMMA ContractPanel ==
    ASSUME Living, NEW t \in Threads, RestorePanel(t)
    PROVE  KeepsContract
<1>1. /\ Done(t) /\ todo[t] # << >> /\ todo[t] \in Lists
      /\ Head(todo[t]) \in {"restorePanel", "relightPanel"}
      /\ UNCHANGED << plugged, dark, externalFlag, taken >>
  BY DEF RestorePanel, At, flagVars, Living, TypeOK, TodoType, Lists
<1>2. saved \in SavedState
  BY DEF Living, TypeOK, SavedType
<1>3. Has(todo[t], Head(todo[t]))
  BY <1>1, HeadHas
<1>4. CASE Head(todo[t]) = "relightPanel"
  <2>1. saved' = saved
    BY <1>4 DEF RestorePanel, At
  <2> QED BY <1>1, <1>4, <2>1, ContractGoesOn DEF ExternalSteps
<1>5. CASE Head(todo[t]) = "restorePanel"
  <2>1. t = "monitor"
    BY <1>3, <1>5, ThreadsDiffer DEF Living, CustodyInv, PowerKeeps
  <2>2. saved'.external = saved.external
    BY <1>2 DEF RestorePanel, SavedState
  <2>3. /\ Left # << >> /\ Head(Left) = "restorePanel" /\ Done("monitor")
    BY <1>1, <1>5, <2>1 DEF Left
  <2>4. /\ \A x : Has(Left', x) => Has(Left, x)
        /\ \A x \in ExternalSteps : Has(Left, x) => Has(Left', x) \/ x = "restorePanel"
        /\ \A x : Has(Left, x) => x \in Restoring
        /\ ~Has(Left, "takeExternal")
    <3>1. /\ Ordered(Left) /\ Has(Left, "restorePanel")
          /\ \A x : Has(Left', x) => Has(Left, x)
          /\ \A x : Has(Left, x) => Has(Left', x) \/ x = "restorePanel"
          /\ \A x : Has(Left', x) /\ Rank("restorePanel") > 0 /\ Rank(x) > 0 =>
                       Rank("restorePanel") < Rank(x)
      BY <2>3, MonitorTail DEF Living
    <3>2. Rank("restorePanel") = 5 /\ Rank("takeExternal") = 2
      BY DEF Rank
    <3> QED BY <3>1, <3>2, Kinds
  <2>5. saved.external # {}
    BY <1>3, <1>5, <2>1, <2>4 DEF Living, ContractInv, ExternalsFit, Left
  <2>6. ExternalsFit(Left', saved', taken)
    BY <2>2, <2>4, <2>5 DEF Living, ContractInv, ExternalsFit, ExternalSteps, Restoring
  <2> QED BY <1>1, <2>2, <2>6, ContractUnused
<1> QED BY <1>1, <1>4, <1>5

\* The steps both threads take that have no part in the record.
LEMMA ContractShared ==
    ASSUME Living, NEW t \in Threads,
           \/ Acquire(t) \/ Release(t) \/ UnlockCursor(t) \/ StopCaffeinate(t)
           \/ Snapshot(t) \/ Write(t)
    PROVE  KeepsContract
<1>1. /\ todo[t] # << >>
      /\ Head(todo[t]) \in {"acquire", "release", "unlockCursor", "stopCaffeinate",
                            "snapshot", "write"}
      /\ Done(t) /\ UNCHANGED << saved, plugged, dark, externalFlag, taken >>
  BY DEF Acquire, Release, UnlockCursor, StopCaffeinate, Snapshot, Write, Persisted, At,
         deviceVars, savedVars, flagVars
<1> QED BY <1>1, ContractGoesOn DEF ExternalSteps

\* Persisting, up to the truncation.
LEMMA ContractPersist ==
    ASSUME Living, NEW t \in Threads, PersistImage(t)
    PROVE  KeepsContract
<1>1. /\ todo[t] # << >> /\ Head(todo[t]) = "persist" /\ todo[t] \in Lists
      /\ UNCHANGED << saved, plugged, dark, externalFlag, taken >>
      /\ Done(t) \/ Continue(t, << "write" >> \o Tail(todo[t]))
  BY DEF PersistImage, Persisted, At, deviceVars, savedVars, flagVars, Living, TypeOK,
         TodoType, Lists
<1>2. CASE Done(t)
  BY <1>1, <1>2, ContractGoesOn DEF ExternalSteps
<1>3. CASE t = "monitor" /\ Continue(t, << "write" >> \o Tail(todo[t]))
  <2>1. /\ Tail(Left) \in Lists /\ << "write" >> \in Lists
    BY <1>1, <1>3, TailType, StepListTypes DEF Left
  <2>2. Left' = << "write" >> \o Tail(Left)
    BY <1>3, ThreadsDiffer DEF Continue, TypeOK, TodoType, Left, Living
  <2>3. \A x : Has(Left', x) <=> x = "write" \/ Has(Tail(Left), x)
    BY <2>1, <2>2, HasJoin, SingleHas
  <2>4. /\ \A x : Has(Tail(Left), x) => Has(Left, x)
        /\ \A x : Has(Left, x) => Has(Tail(Left), x) \/ x = "persist"
    BY <1>1, <1>3, TailKeeps DEF Left
  <2>5. \A x \in ExternalSteps : Has(Left', x) <=> Has(Left, x)
    BY <2>3, <2>4 DEF ExternalSteps
  <2> QED BY <1>1, <2>5, ContractIdle
<1>4. CASE t = "power" /\ Continue(t, << "write" >> \o Tail(todo[t]))
  BY <1>1, <1>4, PowerApart, ContractUntouched DEF Living
<1> QED BY <1>1, <1>2, <1>3, <1>4, ThreadsDiffer

\* The dimming steps without a part in the record.
LEMMA ContractDims ==
    ASSUME Reliable, Living,
           DimPanel \/ RedimPanel \/ CaptureKeys \/ RedimKeys \/ StartCaffeinate \/ LockCursor
    PROVE  KeepsContract
<1>1. /\ Left # << >> /\ Done("monitor")
      /\ Head(Left) \in {"dimPanel", "redimPanel", "captureKeys", "redimKeys",
                         "startCaffeinate", "lockCursor"}
      /\ UNCHANGED << plugged, dark, externalFlag, taken >>
      /\ saved' = [saved EXCEPT !.keyboard = keys] \/ saved' = saved
  BY NeverMay DEF Reliable, DimPanel, RedimPanel, CaptureKeys, RedimKeys, StartCaffeinate, LockCursor,
                  At, Left, flagVars, deviceVars, savedVars
<1>2. saved'.external = saved.external /\ saved'.internal = saved.internal
  <2>1. saved \in SavedState
    BY DEF Living, TypeOK, SavedType
  <2> QED BY <1>1, <2>1 DEF SavedState
<1> QED BY <1>1, <1>2, ContractPasses DEF ExternalSteps

\* A start saves the panel, or ends.
LEMMA ContractReads ==
    ASSUME Living, ReadPanel
    PROVE  KeepsContract
<1>1. /\ Left # << >> /\ Head(Left) = "readPanel" /\ Left \in Lists
      /\ UNCHANGED << plugged, dark, externalFlag, taken >>
  BY ThreadsDiffer DEF ReadPanel, At, Left, flagVars, deviceVars, Living, TypeOK, TodoType, Lists
<1>2. Has(Left, "readPanel") /\ \A x : Has(Left, x) => x \in Starting
  <2>1. Has(Left, "readPanel")
    BY <1>1, HeadHas
  <2> QED BY <2>1, Kinds DEF Living, MonitorOrdered, Left
<1>3. CASE /\ Done("monitor")
           /\ saved' = IF saved.internal = Nothing
                       THEN [saved EXCEPT !.internal = SnapshotForDim] ELSE saved
  <2>1. saved \in SavedState /\ SnapshotForDim \in Nat
    BY DaemonAssumption DEF Living, TypeOK, SavedType, DeviceType, SnapshotForDim
  <2>2. saved'.external = saved.external /\ saved'.internal # Nothing
    <3>1. Nothing \notin Int
      BY TransitionsAssumption
    <3> QED BY <1>3, <2>1, <3>1 DEF SavedState
  <2>3. \A x \in ExternalSteps \ {"readPanel"} : Has(Left', x) <=> Has(Left, x)
    BY <1>1, <1>3, MonitorTail DEF Living
  <2>4. ExternalsFit(Left', saved', taken)
    BY <1>2, <2>2, <2>3 DEF Living, ContractInv, ExternalsFit, ExternalSteps, Starting
  <2> QED BY <1>1, <2>2, <2>4, ContractUnused
<1>4. CASE Continue("monitor", << "release" >>) /\ UNCHANGED saved
  <2>1. << "release" >> \in Lists /\ \A x : Has(<< "release" >>, x) <=> x = "release"
    BY SingleHas, StepListTypes
  <2>2. ~Has(Left, "restoreExternal")
    BY <1>2 DEF Starting
  <2> QED BY <1>1, <1>4, <2>1, <2>2, ContractJumps DEF ExternalSteps
<1> QED BY <1>3, <1>4 DEF ReadPanel

\* A resume persists what changed, or ends.
LEMMA ContractEndsDim ==
    ASSUME Living, PersistIfChanged
    PROVE  KeepsContract
<1>1. /\ Left # << >> /\ Head(Left) = "persistIfChanged" /\ Left \in Lists
      /\ UNCHANGED << plugged, dark, externalFlag, taken, saved >>
      /\ Continue("monitor", ForgetSteps) \/ Continue("monitor", << "release" >>)
  BY ThreadsDiffer DEF PersistIfChanged, At, Left, flagVars, deviceVars, savedVars, Living,
                       TypeOK, TodoType, Lists
<1>2. ~Has(Left, "restoreExternal")
  <2>1. Has(Left, "persistIfChanged")
    BY <1>1, HeadHas
  <2>2. \A x : Has(Left, x) => x \in Resuming
    BY <2>1, Kinds DEF Living, MonitorOrdered, Left
  <2> QED BY <2>2 DEF Resuming
<1>3. /\ << "release" >> \in Lists /\ ForgetSteps \in Lists
      /\ \A x : Has(<< "release" >>, x) <=> x = "release"
      /\ \A x : Has(ForgetSteps, x) <=> x \in {"snapshot", "persist", "release"}
  BY SingleHas, ForgetHas, StepListTypes
<1> QED BY <1>1, <1>2, <1>3, ContractJumps DEF ExternalSteps

\* The record is taken out of the state.
LEMMA ContractTakes ==
    ASSUME Living, TakeExternal
    PROVE  KeepsContract
<1>1. /\ Left # << >> /\ Head(Left) = "takeExternal" /\ Done("monitor")
      /\ taken' = saved.external /\ saved' = [saved EXCEPT !.external = Nothing]
      /\ UNCHANGED << plugged, dark, externalFlag >>
  BY DEF TakeExternal, At, Left, flagVars, deviceVars
<1>2. /\ Ordered(Left) /\ Has(Left, "takeExternal")
      /\ \A x : Has(Left', x) => Has(Left, x)
      /\ \A x : Has(Left, x) => Has(Left', x) \/ x = "takeExternal"
      /\ \A x : Has(Left', x) /\ Rank("takeExternal") > 0 /\ Rank(x) > 0 =>
                   Rank("takeExternal") < Rank(x)
  BY <1>1, MonitorTail DEF Living
<1>3. ~Has(Left', "takeExternal")
  <2>1. Rank("takeExternal") = 2
    BY DEF Rank
  <2> QED BY <1>2, <2>1
<1>4. \A x : Has(Left, x) => x \in Restoring
  BY <1>2, Kinds
<1>5. /\ saved'.external = Nothing /\ saved'.internal = saved.internal
      /\ {} # Nothing
  <2>1. saved \in SavedState
    BY DEF Living, TypeOK, SavedType
  <2> QED BY <1>1, <2>1, DaemonAssumption DEF SavedState
<1>6. taken = Nothing /\ Has(Left, "restoreExternal")
  BY <1>2 DEF Living, ContractInv, ExternalsFit
<1>7. ExternalsFit(Left', saved', taken')
  BY <1>2, <1>3, <1>4, <1>5, <1>6 DEF ExternalsFit, Restoring
<1>8. Held' = Held
  BY <1>1, <1>5, <1>6 DEF Held
<1> QED BY <1>1, <1>7, <1>8 DEF Living, ContractInv, KeepsContract, ContractStep

\* It is put back unless all of its displays are on again.
LEMMA ContractRestores ==
    ASSUME Living, RestoreExternal
    PROVE  KeepsContract
<1>1. /\ Left # << >> /\ Head(Left) = "restoreExternal" /\ Done("monitor")
      /\ UNCHANGED plugged
  BY DEF RestoreExternal, At, Left
<1>2. /\ Ordered(Left) /\ Has(Left, "restoreExternal")
      /\ \A x : Has(Left', x) => Has(Left, x)
      /\ \A x : Has(Left, x) => Has(Left', x) \/ x = "restoreExternal"
      /\ \A x : Has(Left', x) /\ Rank("restoreExternal") > 0 /\ Rank(x) > 0 =>
                   Rank("restoreExternal") < Rank(x)
  BY <1>1, MonitorTail DEF Living
<1>3. ~Has(Left', "takeExternal") /\ ~Has(Left, "takeExternal")
  <2>1. Rank("takeExternal") = 2 /\ Rank("restoreExternal") = 3
    BY DEF Rank
  <2> QED BY <1>2, <2>1
<1>4. \A x : Has(Left, x) => x \in Restoring
  BY <1>2, Kinds
<1>5. saved \in SavedState /\ taken \in Option(SUBSET Displays) /\ {} # Nothing
  BY DaemonAssumption DEF Living, TypeOK, SavedType
<1>6. CASE taken = Nothing
  <2>1. UNCHANGED << dark, saved, taken, externalFlag >>
    BY <1>6 DEF RestoreExternal
  <2>2. ExternalsFit(Left', saved', taken)
    BY <1>2, <1>3, <1>4, <1>6, <2>1 DEF Living, ContractInv, ExternalsFit, Restoring
  <2> QED BY <1>1, <2>1, <2>2, ContractUnused
<1>7. CASE taken # Nothing
  <2>1. PICK back \in SUBSET taken :
           /\ ~May("externalRestore") => taken \cap plugged \subseteq back
           /\ dark' = dark \ back
           /\ saved' = [saved EXCEPT !.external = ExternalAfter(back)]
           /\ taken' = Nothing /\ ~externalFlag'
    BY <1>7 DEF RestoreExternal
  <2>2. /\ saved.external = Nothing /\ ~Has(Left, "takeExternal")
    BY <1>7 DEF Living, ContractInv, ExternalsFit
  <2>3. saved'.external = ExternalAfter(back) /\ saved'.internal = saved.internal
    BY <1>5, <2>1 DEF SavedState
  <2>4. ExternalAfter(back) = IF back = taken THEN Nothing ELSE taken
    BY <2>2 DEF ExternalAfter
  <2>5. saved'.external # {}
    BY <1>5, <2>3, <2>4
  <2>6. ExternalsFit(Left', saved', taken')
    BY <1>2, <1>3, <1>4, <2>1, <2>5 DEF ExternalsFit, Restoring
  <2>7. Held = taken /\ Held' = IF back = Held THEN Nothing ELSE Held
    BY <1>7, <2>1, <2>3, <2>4 DEF Held
  <2>8. Externals!Restore
    <3>1. "externalRestore" \in Environment \/ Held \cap plugged \subseteq back
      BY <2>1, <2>7 DEF May
    <3> QED BY <1>1, <1>7, <2>1, <2>7, <3>1 DEF Externals!Restore, Held
  <2> QED BY <2>1, <2>6, <2>8 DEF KeepsContract, ContractInv, ContractStep, Externals!Next
<1> QED BY <1>6, <1>7

\* Displays are disabled by a capture that finds no record, or over a record
\* that is not empty.
LEMMA ContractDisables ==
    ASSUME Living, NEW ids \in SUBSET Online, DisableExternal(ids), ~externalFlag,
           taken = Nothing, taken' = Nothing, UNCHANGED plugged,
           \/ saved.external = Nothing /\ saved'.external = ids
           \/ saved.external \notin {Nothing, {}} /\ saved'.external = saved.external
    PROVE  ContractStep
<1>1. /\ dark' = dark \cup ids /\ externalFlag' = (ids # {})
      /\ "externalDisable" \in Environment \/ ids = Online
  BY DEF DisableExternal, May
<1>2. Externals!Online = Online /\ Held = saved.external /\ Held' = saved'.external
  BY DEF Externals!Online, Online, Held
<1>3. Externals!Darken(ids)
  <2>1. {} \in SUBSET (ids \ plugged) /\ dark' = dark \cup (ids \ {})
    BY <1>1
  <2> QED BY <1>1, <1>2, <2>1 DEF Externals!Darken
<1>4. ids \in SUBSET Displays
  BY DEF Online, Living, TypeOK, DeviceType
<1>5. CASE saved.external = Nothing /\ saved'.external = ids
  <2>1. Externals!Capture
    BY <1>2, <1>3, <1>4, <1>5 DEF Externals!Capture, Held
  <2> QED BY <2>1 DEF ContractStep, Externals!Next
<1>6. CASE saved.external \notin {Nothing, {}} /\ saved'.external = saved.external
  <2>1. Externals!Disable
    BY <1>2, <1>3, <1>4, <1>6 DEF Externals!Disable, Held
  <2> QED BY <2>1 DEF ContractStep, Externals!Next
<1> QED BY <1>5, <1>6

\* A start captures once the panel is saved.
LEMMA ContractCaptures ==
    ASSUME Living, CaptureExternal
    PROVE  KeepsContract
<1>1. /\ Left # << >> /\ Head(Left) = "captureExternal" /\ Done("monitor")
      /\ UNCHANGED << plugged, taken >>
  BY DEF CaptureExternal, At, Left
<1>2. /\ Ordered(Left) /\ Has(Left, "captureExternal")
      /\ \A x : Has(Left', x) => Has(Left, x)
      /\ \A x : Has(Left', x) /\ Rank("captureExternal") > 0 /\ Rank(x) > 0 =>
                   Rank("captureExternal") < Rank(x)
      /\ \A x : Has(Left, x) => Has(Left', x) \/ x = "captureExternal"
  BY <1>1, MonitorTail DEF Living
<1>3. ~Has(Left, "readPanel") /\ ~Has(Left', "captureExternal")
  <2>1. Rank("captureExternal") = 4 /\ Rank("readPanel") = 1
    BY DEF Rank
  <2> QED BY <1>2, <2>1
<1>4. \A x : Has(Left, x) => x \in Starting
  BY <1>2, Kinds
<1>5. taken = Nothing
  BY <1>4 DEF Living, ContractInv, ExternalsFit, Starting
<1>6. saved.external # {} /\ saved.internal # Nothing
  BY <1>2, <1>3 DEF Living, ContractInv, ExternalsFit
<1>7. saved \in SavedState
  BY DEF Living, TypeOK, SavedType
<1>8. Observing /\ Observing'
  BY <1>1, WorkObserves, ThreadsDiffer DEF Living, Left, Booters
<1>9. CASE UNCHANGED << dark, externalFlag, saved >>
  <2>1. ExternalsFit(Left', saved', taken)
    BY <1>2, <1>3, <1>4, <1>5, <1>6, <1>9 DEF ExternalsFit, Starting
  <2> QED BY <1>1, <1>9, <2>1, ContractUnused
<1>10. CASE /\ ~externalFlag
            /\ \E ids \in SUBSET Online :
                  /\ DisableExternal(ids)
                  /\ saved' = IF saved.external = Nothing
                              THEN [saved EXCEPT !.external = ids] ELSE saved
  <2>1. PICK ids \in SUBSET Online :
           /\ DisableExternal(ids)
           /\ saved' = IF saved.external = Nothing
                       THEN [saved EXCEPT !.external = ids] ELSE saved
    BY <1>10
  <2>2. /\ saved'.internal = saved.internal
        /\ \/ saved.external = Nothing /\ saved'.external = ids
           \/ saved.external \notin {Nothing, {}} /\ saved'.external = saved.external
    BY <1>6, <1>7, <2>1 DEF SavedState
  <2>3. ContractStep
    BY <1>1, <1>5, <1>10, <2>1, <2>2, ContractDisables
  <2>4. ExternalsFit(Left', saved', taken')
    BY <1>1, <1>2, <1>3, <1>4, <1>5, <1>6, <2>2 DEF ExternalsFit, Starting
  <2> QED BY <1>8, <2>3, <2>4 DEF KeepsContract, ContractInv
<1> QED BY <1>9, <1>10 DEF CaptureExternal

\* A resume captures when there is no record.
LEMMA ContractRecaptures ==
    ASSUME Living, RecaptureExternal
    PROVE  KeepsContract
<1>1. /\ Left # << >> /\ Head(Left) = "recaptureExternal" /\ Done("monitor")
      /\ UNCHANGED << plugged, taken >>
  BY DEF RecaptureExternal, At, Left
<1>2. /\ Ordered(Left) /\ Has(Left, "recaptureExternal")
      /\ \A x : Has(Left', x) => Has(Left, x)
      /\ \A x : Has(Left', x) /\ Rank("recaptureExternal") > 0 /\ Rank(x) > 0 =>
                   Rank("recaptureExternal") < Rank(x)
  BY <1>1, MonitorTail DEF Living
<1>3. \A x : Has(Left, x) => x \in Resuming
  BY <1>2, Kinds
<1>4. taken = Nothing /\ saved.internal # Nothing
  BY <1>2, <1>3 DEF Living, ContractInv, ExternalsFit, Resuming
<1>5. saved \in SavedState
  BY DEF Living, TypeOK, SavedType
<1>6. Observing /\ Observing'
  BY <1>1, WorkObserves, ThreadsDiffer DEF Living, Left, Booters
<1>7. ASSUME saved'.internal # Nothing, taken' = Nothing
      PROVE  ExternalsFit(Left', saved', taken')
  BY <1>2, <1>3, <1>7 DEF ExternalsFit, Resuming
<1>8. CASE UNCHANGED << dark, externalFlag, saved >>
  BY <1>1, <1>4, <1>7, <1>8, ContractUnused
<1>9. CASE /\ saved.external = Nothing /\ ~externalFlag
           /\ \E ids \in SUBSET Online :
                 DisableExternal(ids) /\ saved' = [saved EXCEPT !.external = ids]
  <2>1. PICK ids \in SUBSET Online :
           DisableExternal(ids) /\ saved' = [saved EXCEPT !.external = ids]
    BY <1>9
  <2>2. saved'.internal = saved.internal /\ saved'.external = ids
    BY <1>5, <2>1 DEF SavedState
  <2>3. ContractStep
    BY <1>1, <1>4, <1>9, <2>1, <2>2, ContractDisables
  <2> QED BY <1>1, <1>4, <1>6, <1>7, <2>2, <2>3 DEF KeepsContract, ContractInv
<1> QED BY <1>8, <1>9 DEF RecaptureExternal

\* A restore finds the record; a start finds none that is empty, and a resume
\* the panel saved.
LEMMA ContractDecides ==
    ASSUME Living, Decide
    PROVE  KeepsContract
<1> DEFINE action == Decision(policy, angle, Pending).action
           steps == ActionSteps(action)
<1>1. /\ Left = << >> /\ Continue("monitor", steps)
      /\ UNCHANGED << plugged, dark, externalFlag, taken, saved >>
  BY DEF Decide, Resting, deviceVars, savedVars, flagVars, Left
<1>2. Left' = steps
  BY <1>1, ThreadsDiffer DEF Continue, TypeOK, TodoType, Left, Living
<1>3. policy \in Policy /\ angle \in Angles
  BY DEF Living, TypeOK, LoopType, Option, Decide
<1>4. action \in Actions
  BY <1>3, DecisionType DEF Decisions
<1>5. /\ action = "resume" => saved.internal # Nothing
      /\ action = "start" => saved.internal = Nothing
  BY <1>3, DimPending DEF Pending, CustodyInv, Owing, Living
<1>6. taken = Nothing /\ (saved.external = {} => saved.internal # Nothing)
  BY <1>1, EmptyHas DEF Living, ContractInv, ExternalsFit
<1> HIDE DEF action
<1>7. RestoreEffects \in Lists /\ KeepEffects \in Lists /\ PrepareEffects \in Lists
  BY StepListTypes
<1>8. \A x : /\ Has(Inside(RestoreEffects), x) <=>
                  x \in {"acquire", "release", "snapshot", "persist"} \/ Has(RestoreEffects, x)
             /\ Has(Inside(KeepEffects), x) <=>
                  x \in {"acquire", "release", "snapshot", "persist"} \/ Has(KeepEffects, x)
             /\ Has(Inside(PrepareEffects), x) <=>
                  x \in {"acquire", "release", "snapshot", "persist"} \/ Has(PrepareEffects, x)
  BY <1>7, InsideHas
<1>9. ExternalsFit(steps, saved, Nothing)
  <2>1. CASE action = "none"
    BY <1>6, <2>1, EmptyHas DEF ActionSteps, ExternalsFit
  <2>2. CASE action = "restore"
    <3>1. steps = Inside(RestoreEffects)
      BY <2>2 DEF ActionSteps
    <3> QED BY <1>6, <1>8, <3>1, EffectsHave DEF ExternalsFit
  <2>3. CASE action = "restoreKeep"
    <3>1. steps = Inside(KeepEffects)
      BY <2>3 DEF ActionSteps
    <3> QED BY <1>6, <1>8, <3>1, EffectsHave DEF ExternalsFit
  <2>4. CASE action = "prepare"
    <3>1. steps = Inside(PrepareEffects)
      BY <2>4 DEF ActionSteps
    <3> QED BY <1>6, <1>8, <3>1, EffectsHave DEF ExternalsFit
  <2>5. CASE action = "start"
    <3>1. steps = StartSteps
      BY <2>5 DEF ActionSteps
    <3> QED BY <1>5, <1>6, <2>5, <3>1, DimmingHas DEF ExternalsFit
  <2>6. CASE action = "resume"
    <3>1. steps = ResumeSteps
      BY <2>6 DEF ActionSteps
    <3> QED BY <1>5, <1>6, <2>6, <3>1, DimmingHas DEF ExternalsFit
  <2> QED BY <1>4, <2>1, <2>2, <2>3, <2>4, <2>5, <2>6 DEF Actions
<1> QED BY <1>1, <1>2, <1>6, <1>9, ContractUnused

\* Start-up: the daemon launches, finds nothing to recover, and observes.
LEMMA ContractBoots ==
    ASSUME Living, Launch \/ Load \/ StartObserver \/ ReadAngle
    PROVE  KeepsContract
<1>1. UNCHANGED << plugged, dark, externalFlag, taken >>
  BY DEF Launch, Load, StartObserver, ReadAngle, deviceVars, savedVars, flagVars
<1>2. /\ << "load" >> \in Lists /\ << "observe" >> \in Lists
      /\ \A x, y : Has(<< y >>, x) <=> x = y
  BY SingletonType, SingleHas DEF Steps
<1>3. CASE ReadAngle
  BY <1>1, <1>3, ContractUntouched DEF ReadAngle, savedVars, Left
<1>4. CASE StartObserver
  BY <1>1, <1>4, ContractPasses DEF StartObserver, At, Left, savedVars, ExternalSteps
<1>5. CASE Launch
  <2>1. ~Observing /\ Continue("monitor", << "load" >>) /\ UNCHANGED saved
    BY <1>5 DEF Launch, Observing, BootSteps, savedVars
  <2>2. ~Has(Left, "restoreExternal")
    BY <2>1, <1>2, EmptyHas DEF Living, CustodyInv, Fresh, Left
  <2> QED BY <1>1, <1>2, <2>1, <2>2, ContractJumps DEF ExternalSteps
<1>6. CASE Load
  <2>1. Left \in Lists /\ Left # << >> /\ Head(Left) = "load"
    BY <1>6, ThreadsDiffer DEF Load, At, Left, Living, TypeOK, TodoType, Lists
  <2>2. Has(Left, "load")
    BY <2>1, HeadHas
  <2>3. ~Observing
    BY <2>2, ObservingHas DEF Living, Left
  <2>4. file = NothingSaved
    BY <2>3 DEF Living, CustodyInv, Fresh
  <2>5. FileContents = NothingSaved
    BY <2>4 DEF FileContents
  <2>6. Continue("monitor", << "observe" >>) /\ saved' = saved
    BY <1>6, <2>5 DEF Load
  <2>7. ~Has(Left, "restoreExternal")
    BY <2>2, Kinds DEF Living, MonitorOrdered, Left
  <2> QED BY <1>1, <1>2, <2>6, <2>7, ContractJumps DEF ExternalSteps
<1> QED BY <1>3, <1>4, <1>5, <1>6

\* A process whose power observer does not start has disabled nothing.
LEMMA ContractObserverFails ==
    ASSUME Living, ObserverFails
    PROVE  KeepsContract
<1>1. Left \in Lists /\ Left # << >> /\ Head(Left) = "observe"
  BY ThreadsDiffer DEF ObserverFails, At, Left, Living, TypeOK, TodoType, Lists
<1>2. Has(Left, "observe")
  BY <1>1, HeadHas
<1>3. ~Observing
  BY <1>2, ObservingHas DEF Living, Left
<1>4. /\ saved = NothingSaved /\ ~externalFlag /\ todo["monitor"] \in {<< >>, << "load" >>, << "observe" >>}
  BY <1>3 DEF Living, CustodyInv, Fresh, ContractInv
<1>5. ~Has(Left, "restoreExternal")
  BY <1>4, SingleHas, EmptyHas DEF Left
<1>6. taken = Nothing
  BY <1>5 DEF Living, ContractInv, ExternalsFit
<1>7. /\ saved' = NothingSaved /\ taken' = Nothing /\ externalFlag' = FALSE
      /\ todo' = [t \in Threads |-> << >>] /\ UNCHANGED << plugged, dark >>
  BY DEF ObserverFails, Die
<1>8. Left' = << >>
  BY <1>7, ThreadsDiffer DEF Left
<1>9. externalFlag' = externalFlag
  BY <1>4, <1>7 DEF Living, TypeOK, FlagType
<1>10. ExternalsFit(Left', saved', taken)
  <2>1. {} # Nothing
    BY DaemonAssumption
  <2> QED BY <1>6, <1>7, <1>8, <2>1, EmptyHas DEF ExternalsFit, NothingSaved
<1> QED BY <1>4, <1>6, <1>7, <1>9, <1>10, ContractUnused

\* The power callbacks, and events that have no part in the record.
LEMMA ContractElsewhere ==
    ASSUME Living,
           \/ WillSleep \/ AllowSleep \/ DidWake
           \/ PowerChange \/ MoveLid \/ ChangePanel \/ ChangeKeys \/ BecomeCalm \/ Tick
    PROVE  KeepsContract
<1>1. UNCHANGED << plugged, dark, externalFlag, taken, saved >>
  BY DEF WillSleep, AllowSleep, DidWake, PowerChange, MoveLid, ChangePanel, ChangeKeys,
         BecomeCalm, Tick, deviceVars, savedVars, flagVars
<1>2. CASE WillSleep \/ AllowSleep
  <2>1. UNCHANGED Left
    BY <1>2, PowerApart DEF WillSleep, AllowSleep, Done, Living
  <2> QED BY <1>1, <2>1, ContractUntouched
<1>3. CASE ~(WillSleep \/ AllowSleep)
  <2>1. UNCHANGED Left
    BY <1>3 DEF DidWake, PowerChange, MoveLid, ChangePanel, ChangeKeys, BecomeCalm, Tick, Left
  <2> QED BY <1>1, <2>1, ContractUntouched
<1> QED BY <1>2, <1>3

\* Plugging and unplugging is the contract's too.
LEMMA ContractHotplug ==
    ASSUME Living, NEW d \in Displays, Hotplug(d)
    PROVE  KeepsContract
<1>1. UNCHANGED << externalFlag, taken, saved, Left >>
  BY DEF Hotplug, flagVars, savedVars, Left
<1>2. Held' = Held /\ ContractInv'
  BY <1>1 DEF Held, Living, ContractInv
<1>3. Externals!Hotplug
  BY <1>1, <1>2 DEF Hotplug, Externals!Hotplug, Held
<1> QED BY <1>2, <1>3 DEF KeepsContract, ContractStep, Externals!Next

\* Every step of a reliable daemon.
LEMMA NextContract ==
    ASSUME Reliable, Living, [Next]_vars
    PROVE  KeepsContract
<1>1. ASSUME NEW t \in Threads, Shared(t) PROVE KeepsContract
  BY <1>1, ContractKeys, ContractPanel, ContractShared, ContractPersist DEF Shared
<1>2. CASE MonitorOnly
  BY <1>2, NoEndCustody, ContractTakes, ContractRestores, ContractReads, ContractDims,
     ContractCaptures, ContractRecaptures, ContractEndsDim, ContractBoots, ContractDecides
  DEF MonitorOnly, Living, Reliable
<1>3. CASE PowerThread
  BY <1>1, <1>3, ContractElsewhere, ThreadsDiffer DEF PowerThread
<1>4. CASE World
  BY <1>4, NoEndCustody, ContractBoots, ContractElsewhere, ContractHotplug,
     ContractObserverFails DEF World, Living, Reliable
<1>5. CASE Tick
  BY <1>5, ContractElsewhere
<1>6. CASE UNCHANGED vars
  BY <1>6, ContractUntouched DEF vars, deviceVars, savedVars, flagVars, Left
<1> QED BY <1>1, <1>2, <1>3, <1>4, <1>5, <1>6, ThreadsDiffer DEF Next, Monitor

\* A reliable daemon that observes power events goes on to.
LEMMA GoesOnObserving ==
    ASSUME Reliable, TypeOK, CustodyInv, [Next]_vars,
           [Stages!Next]_<< Stage, Callback, power >>, Observing
    PROVE  Observing'
<1>1. alive'
  <2>1. ~ObserverFails
    <3> SUFFICES ASSUME ObserverFails PROVE FALSE
      OBVIOUS
    <3>1. todo["monitor"] \in Lists /\ todo["monitor"] # << >> /\ Head(todo["monitor"]) = "observe"
      BY ThreadsDiffer DEF ObserverFails, At, TypeOK, TodoType, Lists
    <3>2. Has(todo["monitor"], "observe")
      BY <3>1, HeadHas
    <3> QED BY <3>2, ObservingHas
  <2>2. ~Exit /\ ~Crash
    BY NoEndCustody DEF Reliable
  <2>3. alive
    BY DEF Observing
  <2>4. ASSUME NEW t \in Threads, Shared(t) PROVE alive'
    BY <2>3, <2>4 DEF Shared, Acquire, Release, UnlockCursor, RestoreKeys, RestorePanel,
       StopCaffeinate, Snapshot, PersistImage, Write, loopVars
  <2>5. CASE MonitorOnly
    BY <2>2, <2>3, <2>5 DEF MonitorOnly, TakeExternal, RestoreExternal, ReadPanel, DimPanel,
       RedimPanel, CaptureKeys, RedimKeys, CaptureExternal, RecaptureExternal,
       StartCaffeinate, LockCursor, PersistIfChanged, Load, StartObserver, ReadAngle, Decide,
       LeaveLoop, loopVars
  <2>6. CASE PowerThread
    BY <2>3, <2>4, <2>6, ThreadsDiffer
    DEF PowerThread, WillSleep, AllowSleep, DidWake, loopVars
  <2>7. CASE World
    BY <2>1, <2>2, <2>3, <2>7 DEF World, Launch, PowerChange, MoveLid, ChangePanel, ChangeKeys,
       Hotplug, Signal, BecomeCalm, loopVars
  <2>8. CASE Tick \/ UNCHANGED vars
    BY <2>3, <2>8 DEF Tick, vars, loopVars
  <2> QED BY <2>4, <2>5, <2>6, <2>7, <2>8, ThreadsDiffer DEF Next, Monitor
<1>2. Stage = "serving" /\ Stage' # "absent"
  BY <1>1 DEF Stage, Observing
<1>3. Stage' = "serving"
  BY <1>2 DEF Stages!Next, Stages!Launch, Stages!Serve, Stages!End, Stages!WillSleep,
     Stages!AllowSleep, Stages!DidWake, Stages!PowerChange, Stage
<1> QED BY <1>1, <1>3 DEF Stage, Observing

\* At first nothing is disabled and nothing on record.
LEMMA InitContract ==
    ASSUME Init
    PROVE  ContractInv /\ Externals!Init
<1>1. Left = << >>
  BY ThreadsDiffer DEF Init, Left
<1>2. saved.external = Nothing /\ taken = Nothing /\ ~externalFlag /\ {} # Nothing
  BY DaemonAssumption DEF Init, NothingSaved
<1>3. ContractInv
  BY <1>1, <1>2, EmptyHas DEF ContractInv, ExternalsFit
<1>4. Externals!Init
  BY <1>2 DEF Init, Externals!Init
<1> QED BY <1>3, <1>4

\* Within the life of a process whose panel and keyboard take what they are
\* told, the external displays are used by the contract their controller
\* implements, however the two threads, sleep, hotplug, failing displays and a
\* failing disk interleave: nothing is captured over a record, nothing disabled
\* over an empty one, and no record is given up before all its displays are back.
THEOREM DisplaysUsedByContract ==
    ASSUME Reliable
    PROVE  Spec => UsesContract
<1>1. Init => ContractInv /\ Externals!Init /\ CustodyInv
  BY InitContract, InitCustody
<1>2. /\ TypeOK /\ TypeOK' /\ MonitorOrdered /\ CustodyInv /\ ContractInv
      /\ [Next]_vars /\ [Stages!Next]_<< Stage, Callback, power >>
      => CustodyInv' /\ ContractInv' /\ ContractStep
  BY NextCustody, NextContract, GoesOnObserving DEF Living, KeepsContract, Reliable, Honest
<1>3. UsesContract <=> Externals!Init /\ [][Externals!Next]_<< plugged, dark, externalFlag, Held >>
  BY DEF UsesContract, Externals!Spec, Externals!contractVars, Held
<1>4. Spec => []TypeOK /\ []MonitorOrdered
  BY TypeCorrect, StepsInOrder
<1>5. Spec => [][Stages!Next]_<< Stage, Callback, power >>
  BY StepsFit
<1> QED BY <1>1, <1>2, <1>3, <1>4, <1>5, PTL DEF Spec, ContractStep
=============================================================================
