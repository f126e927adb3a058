---------------------------- MODULE DaemonProofs ----------------------------
(***************************************************************************)
(* What holds of the daemon in every environment: the types of its         *)
(* variables, that EFFECTS_LOCK serialises the effects of the two threads, *)
(* that the monitor takes its steps in the order of its functions, that a  *)
(* closed lid ends the caffeinate session, and that file and callbacks are *)
(* used as specified.  In between, the small algebra of lists of steps     *)
(* that this and the other proofs about Daemon rest on: lists grow by      *)
(* joining and shrink by Tail, so it speaks of what a list has and in      *)
(* which order.                                                            *)
(*                                                                         *)
(* Types: one lemma per action; in each the groups of variables the action *)
(* leaves alone keep their type by Kept.                                   *)
(*                                                                         *)
(* Lock: the inductive invariant (LockInv) says that the list of the       *)
(* thread that has the lock is inside a locked section (Locked), that of   *)
(* any other thread needs no lock (Free) or acquires it before it does     *)
(* (Opening).                                                              *)
(*                                                                         *)
(* Order: every list the monitor can be in is of one kind, its steps have  *)
(* increasing ranks, and what changes the saved state is followed by what  *)
(* persists it (Ordered).                                                  *)
(*                                                                         *)
(* Session: a running session has its stop still to come once the lid is   *)
(* known to be closed (SessionInv).                                        *)
(*                                                                         *)
(* Use: the daemon uses the recovery file and the power callbacks as their *)
(* abstract specifications say.  A step of a thread maps to a step of      *)
(* StateFile when it is one of the two steps of a save, and to a step of   *)
(* Lifecycle when it starts or ends what a list stands for: recovery, a    *)
(* callback.  UseInv says what the lists must have for that: a write only  *)
(* in front, observe and allow at the end, and nothing that cuts a         *)
(* recovery short.                                                         *)
(***************************************************************************)
EXTENDS Daemon, LidTransitionsProofs

Lists == Seq(Steps)

\* One step is a list of steps.
LEMMA SingletonType ==
    ASSUME NEW step \in Steps
    PROVE  << step >> \in Lists
BY DEF Lists

\* Two lists joined are a list of steps.
LEMMA JoinType ==
    ASSUME NEW s \in Lists, NEW u \in Lists
    PROVE  s \o u \in Lists
BY DEF Lists

\* What is left after a step is a list of steps.
LEMMA TailType ==
    ASSUME NEW s \in Lists, s # << >>
    PROVE  Tail(s) \in Lists
BY DEF Lists

\* Every function of the daemon is a list of steps.
LEMMA StepListTypes ==
    /\ RestoreEffects \in Lists /\ KeepEffects \in Lists /\ PrepareEffects \in Lists
    /\ StartSteps \in Lists /\ ResumeSteps \in Lists /\ ForgetSteps \in Lists
    /\ BootSteps \in Lists /\ RecoverSteps \in Lists /\ ShutdownSteps \in Lists
    /\ SleepSteps \in Lists
    /\ \A steps \in Lists : Inside(steps) \in Lists
    /\ << >> \in Lists /\ << "release" >> \in Lists /\ << "relock" >> \in Lists
    /\ << "write" >> \in Lists /\ << "observe" >> \in Lists
    /\ Persist \in Lists /\ << "acquire" >> \in Lists
<1>1. /\ RestoreEffects \in Lists /\ KeepEffects \in Lists /\ PrepareEffects \in Lists
      /\ Persist \in Lists /\ StartSteps \in Lists /\ ResumeSteps \in Lists
      /\ BootSteps \in Lists /\ << >> \in Lists
  BY DEF Lists, RestoreEffects, KeepEffects, PrepareEffects, Persist, StartSteps,
     ResumeSteps, BootSteps, Steps, DeviceSteps
<1>2. /\ << "acquire" >> \in Lists /\ << "release" >> \in Lists /\ << "observe" >> \in Lists
      /\ << "exit" >> \in Lists /\ << "allow" >> \in Lists
      /\ << "relock" >> \in Lists /\ << "write" >> \in Lists
  BY SingletonType DEF Steps
<1> QED
  BY <1>1, <1>2, JoinType
  DEF ForgetSteps, RecoverSteps, ShutdownSteps, SleepSteps, Outside, Inside

\* Every monitor action is a list of steps.
LEMMA ActionStepsType ==
    ASSUME NEW action \in Actions
    PROVE  ActionSteps(action) \in Lists
BY StepListTypes DEF ActionSteps, Actions

\* Finishing a step keeps the type of todo.
LEMMA DoneType ==
    ASSUME TodoType, NEW t \in Threads, NEW step, At(t, step), Done(t)
    PROVE  TodoType'
BY TailType DEF TodoType, At, Done, Continue, Lists

\* Continuing with a list of steps keeps the type of todo.
LEMMA ContinueType ==
    ASSUME TodoType, NEW t \in Threads, NEW steps \in Lists, Continue(t, steps)
    PROVE  TodoType'
BY DEF TodoType, Continue, Lists

\* A group of variables left unchanged keeps its type.
LEMMA Kept ==
    ASSUME TypeOK
    PROVE  /\ UNCHANGED policy => (policy \in Policy)'
           /\ UNCHANGED effects => (effects \in Option(Threads))'
           /\ UNCHANGED todo => TodoType'
           /\ UNCHANGED deviceVars => DeviceType'
           /\ UNCHANGED savedVars => SavedType'
           /\ UNCHANGED flagVars => FlagType'
           /\ UNCHANGED loopVars => LoopType'
           /\ UNCHANGED fileVars => FileType'
           /\ UNCHANGED worldVars => WorldType'
           /\ UNCHANGED ghostVars => GhostType'
BY DEF TypeOK, TodoType, DeviceType, SavedType, FlagType, LoopType, FileType,
     WorldType, GhostType, deviceVars, savedVars, flagVars, loopVars, fileVars,
     worldVars, ghostVars

\* What the critical section decides has its types.
LEMMA DecideResult ==
    ASSUME TypeOK, Decide
    PROVE  /\ Decision(policy, angle, Pending).policy \in Policy
           /\ ActionSteps(Decision(policy, angle, Pending).action) \in Lists
<1>1. angle \in Angles
  BY DEF TypeOK, LoopType, Option, Decide
<1>2. Decision(policy, angle, Pending) \in Decisions
  BY <1>1, DecisionType DEF TypeOK
<1> QED BY <1>2, ActionStepsType DEF Decisions

\* Acquire preserves the types.
LEMMA AcquireType ==
    ASSUME TypeOK, NEW t \in Threads, Acquire(t)
    PROVE  TypeOK'
<1>1. TodoType'
  BY DoneType DEF TypeOK, Acquire
<1>2. (effects \in Option(Threads))'
  BY DEF TypeOK, Acquire, Option
<1>3. /\ (policy \in Policy)' /\ DeviceType' /\ SavedType' /\ FlagType'
      /\ LoopType' /\ FileType' /\ WorldType' /\ GhostType'
  BY Kept DEF Acquire
<1> QED BY <1>1, <1>2, <1>3 DEF TypeOK

\* Release preserves the types.
LEMMA ReleaseType ==
    ASSUME TypeOK, NEW t \in Threads, Release(t)
    PROVE  TypeOK'
<1>1. TodoType'
  BY DoneType DEF TypeOK, Release
<1>2. (effects \in Option(Threads))'
  BY DEF TypeOK, Release, Option
<1>3. LoopType'
  BY DEF TypeOK, LoopType, Release, Option
<1>4. /\ (policy \in Policy)' /\ DeviceType' /\ SavedType' /\ FlagType'
      /\ FileType' /\ WorldType' /\ GhostType'
  BY Kept DEF Release
<1> QED BY <1>1, <1>2, <1>3, <1>4 DEF TypeOK

\* UnlockCursor preserves the types.
LEMMA UnlockCursorType ==
    ASSUME TypeOK, NEW t \in Threads, UnlockCursor(t)
    PROVE  TypeOK'
<1>1. TodoType'
  BY DoneType DEF TypeOK, UnlockCursor
<1>2. DeviceType'
  BY DEF TypeOK, DeviceType, UnlockCursor
<1>3. FlagType'
  BY DEF TypeOK, FlagType, UnlockCursor
<1>4. /\ (policy \in Policy)' /\ (effects \in Option(Threads))' /\ SavedType'
      /\ LoopType' /\ FileType' /\ WorldType' /\ GhostType'
  BY Kept DEF UnlockCursor
<1> QED BY <1>1, <1>2, <1>3, <1>4 DEF TypeOK

\* RestoreKeys preserves the types.
LEMMA RestoreKeysType ==
    ASSUME TypeOK, NEW t \in Threads, RestoreKeys(t)
    PROVE  TypeOK'
<1>1. TodoType'
  BY DoneType DEF TypeOK, RestoreKeys, SavedType, SavedState, Option
<1>2. DeviceType'
  BY DEF TypeOK, DeviceType, RestoreKeys, SavedType, SavedState, Option
<1>3. SavedType'
  BY DEF TypeOK, SavedType, RestoreKeys, SavedState, Option
<1>4. /\ (policy \in Policy)' /\ (effects \in Option(Threads))' /\ FlagType'
      /\ LoopType' /\ FileType' /\ WorldType' /\ GhostType'
  BY Kept DEF RestoreKeys
<1> QED BY <1>1, <1>2, <1>3, <1>4 DEF TypeOK

\* RestorePanel preserves the types.
LEMMA RestorePanelType ==
    ASSUME TypeOK, NEW t \in Threads, RestorePanel(t)
    PROVE  TypeOK'
<1>1. TodoType'
  BY DoneType DEF TypeOK, RestorePanel, SavedType, SavedState, Option
<1>2. DeviceType'
  BY DEF TypeOK, DeviceType, RestorePanel, SavedType, SavedState, Option
<1>3. SavedType'
  BY DEF TypeOK, SavedType, RestorePanel, SavedState, Option
<1>4. /\ (policy \in Policy)' /\ (effects \in Option(Threads))' /\ FlagType'
      /\ LoopType' /\ FileType' /\ WorldType' /\ GhostType'
  BY Kept DEF RestorePanel
<1> QED BY <1>1, <1>2, <1>3, <1>4 DEF TypeOK

\* StopCaffeinate preserves the types.
LEMMA StopCaffeinateType ==
    ASSUME TypeOK, NEW t \in Threads, StopCaffeinate(t)
    PROVE  TypeOK'
<1>1. TodoType'
  BY DoneType DEF TypeOK, StopCaffeinate
<1>2. FlagType'
  BY DEF TypeOK, FlagType, StopCaffeinate
<1>3. /\ (policy \in Policy)' /\ (effects \in Option(Threads))' /\ DeviceType'
      /\ SavedType' /\ LoopType' /\ FileType' /\ WorldType' /\ GhostType'
  BY Kept DEF StopCaffeinate
<1> QED BY <1>1, <1>2, <1>3 DEF TypeOK

\* Snapshot preserves the types.
LEMMA SnapshotType ==
    ASSUME TypeOK, NEW t \in Threads, Snapshot(t)
    PROVE  TypeOK'
<1>1. TodoType'
  BY DoneType DEF TypeOK, Snapshot, SavedType
<1>2. FileType'
  BY DEF TypeOK, FileType, Snapshot, SavedType
<1>3. /\ (policy \in Policy)' /\ (effects \in Option(Threads))' /\ DeviceType'
      /\ SavedType' /\ FlagType' /\ LoopType' /\ WorldType' /\ GhostType'
  BY Kept DEF Snapshot
<1> QED BY <1>1, <1>2, <1>3 DEF TypeOK

\* An empty state is a state.
LEMMA NothingSavedType == NothingSaved \in SavedState
BY DEF NothingSaved, SavedState, Option

\* The end of a persist keeps the type of image.
LEMMA PersistedType ==
    ASSUME FileType, NEW t \in Threads, NEW ok, NEW removed, Persisted(t, ok, removed)
    PROVE  image' \in [Threads -> SavedState]
BY NothingSavedType DEF FileType, Persisted

\* PersistImage preserves the types.
LEMMA PersistImageType ==
    ASSUME TypeOK, NEW t \in Threads, PersistImage(t)
    PROVE  TypeOK'
<1>1. TodoType'
  BY DoneType, ContinueType, TailType, JoinType, StepListTypes
  DEF TypeOK, PersistImage, Unsaved, At, TodoType, Lists, Persisted
<1>2. FileType'
  BY PersistedType, NothingSavedType
  DEF TypeOK, FileType, PersistImage, Unsaved, At, TodoType, Lists
<1>3. GhostType'
  BY DEF TypeOK, GhostType, PersistImage, Unsaved, At, TodoType, Lists, Persisted,
     Custodies
<1>4. /\ (policy \in Policy)' /\ (effects \in Option(Threads))' /\ DeviceType'
      /\ SavedType' /\ FlagType' /\ LoopType' /\ WorldType'
  BY Kept DEF PersistImage
<1> QED BY <1>1, <1>2, <1>3, <1>4 DEF TypeOK

\* Write preserves the types.
LEMMA WriteType ==
    ASSUME TypeOK, NEW t \in Threads, Write(t)
    PROVE  TypeOK'
<1>1. TodoType'
  BY DoneType DEF TypeOK, Write, Persisted
<1>2. FileType'
  BY PersistedType, NothingSavedType DEF TypeOK, FileType, Write, Spoilt
<1>3. GhostType'
  BY DEF TypeOK, GhostType, Write, Persisted, Custodies
<1>4. /\ (policy \in Policy)' /\ (effects \in Option(Threads))' /\ DeviceType'
      /\ SavedType' /\ FlagType' /\ LoopType' /\ WorldType'
  BY Kept DEF Write
<1> QED BY <1>1, <1>2, <1>3, <1>4 DEF TypeOK

\* TakeExternal preserves the types.
LEMMA TakeExternalType ==
    ASSUME TypeOK, TakeExternal
    PROVE  TypeOK'
<1>1. TodoType'
  BY DoneType DEF TypeOK, TakeExternal, Threads
<1>2. SavedType'
  BY DEF TypeOK, SavedType, TakeExternal, SavedState, Option
<1>3. /\ (policy \in Policy)' /\ (effects \in Option(Threads))' /\ DeviceType'
      /\ FlagType' /\ LoopType' /\ FileType' /\ WorldType' /\ GhostType'
  BY Kept DEF TakeExternal
<1> QED BY <1>1, <1>2, <1>3 DEF TypeOK

\* RestoreExternal preserves the types.
LEMMA RestoreExternalType ==
    ASSUME TypeOK, RestoreExternal
    PROVE  TypeOK'
<1>1. TodoType'
  BY DoneType DEF TypeOK, RestoreExternal, ExternalAfter, Threads
<1>2. DeviceType'
  BY DEF TypeOK, DeviceType, RestoreExternal, ExternalAfter
<1>3. SavedType'
  BY DEF TypeOK, SavedType, RestoreExternal, ExternalAfter, SavedState, Option
<1>4. FlagType'
  BY DEF TypeOK, FlagType, RestoreExternal, ExternalAfter
<1>5. /\ (policy \in Policy)' /\ (effects \in Option(Threads))' /\ LoopType'
      /\ FileType' /\ WorldType' /\ GhostType'
  BY Kept DEF RestoreExternal
<1> QED BY <1>1, <1>2, <1>3, <1>4, <1>5 DEF TypeOK

\* ReadPanel preserves the types.
LEMMA ReadPanelType ==
    ASSUME TypeOK, ReadPanel
    PROVE  TypeOK'
<1>1. TodoType'
  BY DoneType, ContinueType, StepListTypes
  DEF TypeOK, ReadPanel, SnapshotForDim, DeviceType, Threads
<1>2. SavedType'
  BY DEF TypeOK, SavedType, ReadPanel, SnapshotForDim, DeviceType, SavedState, Option
<1>3. /\ (policy \in Policy)' /\ (effects \in Option(Threads))' /\ DeviceType'
      /\ FlagType' /\ LoopType' /\ FileType' /\ WorldType' /\ GhostType'
  BY Kept DEF ReadPanel
<1> QED BY <1>1, <1>2, <1>3 DEF TypeOK

\* DimPanel preserves the types.
LEMMA DimPanelType ==
    ASSUME TypeOK, DimPanel
    PROVE  TypeOK'
<1>1. TodoType'
  BY DoneType, ContinueType, StepListTypes
  DEF TypeOK, DimPanel, ForgetPending, Unsaved, NothingSaved, Threads
<1>2. DeviceType'
  BY DaemonAssumption
  DEF TypeOK, DeviceType, DimPanel, ForgetPending, Unsaved, NothingSaved
<1>3. SavedType'
  BY DEF TypeOK, SavedType, DimPanel, ForgetPending, Unsaved, NothingSaved, SavedState,
     Option
<1>4. GhostType'
  BY DEF TypeOK, GhostType, DimPanel, ForgetPending, Unsaved, NothingSaved, Custodies
<1>5. /\ (policy \in Policy)' /\ (effects \in Option(Threads))' /\ FlagType'
      /\ LoopType' /\ FileType' /\ WorldType'
  BY Kept DEF DimPanel
<1> QED BY <1>1, <1>2, <1>3, <1>4, <1>5 DEF TypeOK

\* RedimPanel preserves the types.
LEMMA RedimPanelType ==
    ASSUME TypeOK, RedimPanel
    PROVE  TypeOK'
<1>1. TodoType'
  BY DoneType, ContinueType, StepListTypes
  DEF TypeOK, RedimPanel, ForgetPending, Unsaved, NothingSaved, Threads
<1>2. DeviceType'
  BY DaemonAssumption
  DEF TypeOK, DeviceType, RedimPanel, ForgetPending, Unsaved, NothingSaved
<1>3. SavedType'
  BY DEF TypeOK, SavedType, RedimPanel, ForgetPending, Unsaved, NothingSaved,
     SavedState, Option
<1>4. GhostType'
  BY DEF TypeOK, GhostType, RedimPanel, ForgetPending, Unsaved, NothingSaved, Custodies
<1>5. LoopType'
  BY DEF TypeOK, LoopType, RedimPanel, ForgetPending, Unsaved, NothingSaved, Option
<1>6. /\ (policy \in Policy)' /\ (effects \in Option(Threads))' /\ FlagType'
      /\ FileType' /\ WorldType'
  BY Kept DEF RedimPanel
<1> QED BY <1>1, <1>2, <1>3, <1>4, <1>5, <1>6 DEF TypeOK

\* CaptureKeys preserves the types.
LEMMA CaptureKeysType ==
    ASSUME TypeOK, CaptureKeys
    PROVE  TypeOK'
<1>1. TodoType'
  BY DoneType, ContinueType, StepListTypes
  DEF TypeOK, CaptureKeys, Unsaved, DeviceType, Threads
<1>2. DeviceType'
  BY DaemonAssumption DEF TypeOK, DeviceType, CaptureKeys, Unsaved
<1>3. SavedType'
  BY DEF TypeOK, SavedType, CaptureKeys, Unsaved, DeviceType, SavedState, Option
<1>4. GhostType'
  BY DEF TypeOK, GhostType, CaptureKeys, Unsaved, DeviceType, Custodies
<1>5. /\ (policy \in Policy)' /\ (effects \in Option(Threads))' /\ FlagType'
      /\ LoopType' /\ FileType' /\ WorldType'
  BY Kept DEF CaptureKeys
<1> QED BY <1>1, <1>2, <1>3, <1>4, <1>5 DEF TypeOK

\* RedimKeys preserves the types.
LEMMA RedimKeysType ==
    ASSUME TypeOK, RedimKeys
    PROVE  TypeOK'
<1>1. TodoType'
  BY DoneType DEF TypeOK, RedimKeys, Unsaved, Threads
<1>2. DeviceType'
  BY DaemonAssumption DEF TypeOK, DeviceType, RedimKeys, Unsaved
<1>3. SavedType'
  BY DEF TypeOK, SavedType, RedimKeys, Unsaved, SavedState, Option
<1>4. LoopType'
  BY DEF TypeOK, LoopType, RedimKeys, Unsaved, Option
<1>5. GhostType'
  BY DEF TypeOK, GhostType, RedimKeys, Unsaved, Custodies
<1>6. /\ (policy \in Policy)' /\ (effects \in Option(Threads))' /\ FlagType'
      /\ FileType' /\ WorldType'
  BY Kept DEF RedimKeys
<1> QED BY <1>1, <1>2, <1>3, <1>4, <1>5, <1>6 DEF TypeOK

\* CaptureExternal preserves the types.
LEMMA CaptureExternalType ==
    ASSUME TypeOK, CaptureExternal
    PROVE  TypeOK'
<1>1. TodoType'
  BY DoneType
  DEF TypeOK, CaptureExternal, DisableExternal, Online, Unsaved, DeviceType, Threads
<1>2. DeviceType'
  BY DEF TypeOK, DeviceType, CaptureExternal, DisableExternal, Online, Unsaved
<1>3. SavedType'
  BY DEF TypeOK, SavedType, CaptureExternal, DisableExternal, Online, Unsaved,
     DeviceType, SavedState, Option
<1>4. FlagType'
  BY DEF TypeOK, FlagType, CaptureExternal, DisableExternal, Online, Unsaved, DeviceType
<1>5. GhostType'
  BY DEF TypeOK, GhostType, CaptureExternal, DisableExternal, Online, Unsaved,
     DeviceType, Custodies
<1>6. /\ (policy \in Policy)' /\ (effects \in Option(Threads))' /\ LoopType'
      /\ FileType' /\ WorldType'
  BY Kept DEF CaptureExternal
<1> QED BY <1>1, <1>2, <1>3, <1>4, <1>5, <1>6 DEF TypeOK

\* RecaptureExternal preserves the types.
LEMMA RecaptureExternalType ==
    ASSUME TypeOK, RecaptureExternal
    PROVE  TypeOK'
<1>1. TodoType'
  BY DoneType
  DEF TypeOK, RecaptureExternal, DisableExternal, Online, Unsaved, DeviceType, Threads
<1>2. DeviceType'
  BY DEF TypeOK, DeviceType, RecaptureExternal, DisableExternal, Online, Unsaved
<1>3. SavedType'
  BY DEF TypeOK, SavedType, RecaptureExternal, DisableExternal, Online, Unsaved,
     DeviceType, SavedState, Option
<1>4. FlagType'
  BY DEF TypeOK, FlagType, RecaptureExternal, DisableExternal, Online, Unsaved,
     DeviceType
<1>5. LoopType'
  BY DEF TypeOK, LoopType, RecaptureExternal, DisableExternal, Online, Unsaved,
     DeviceType, Option
<1>6. GhostType'
  BY DEF TypeOK, GhostType, RecaptureExternal, DisableExternal, Online, Unsaved,
     DeviceType, Custodies
<1>7. /\ (policy \in Policy)' /\ (effects \in Option(Threads))' /\ FileType'
      /\ WorldType'
  BY Kept DEF RecaptureExternal
<1> QED BY <1>1, <1>2, <1>3, <1>4, <1>5, <1>6, <1>7 DEF TypeOK

\* StartCaffeinate preserves the types.
LEMMA StartCaffeinateType ==
    ASSUME TypeOK, StartCaffeinate
    PROVE  TypeOK'
<1>1. TodoType'
  BY DoneType DEF TypeOK, StartCaffeinate, Threads
<1>2. FlagType'
  BY DEF TypeOK, FlagType, StartCaffeinate
<1>3. LoopType'
  BY DEF TypeOK, LoopType, StartCaffeinate, Option
<1>4. /\ (policy \in Policy)' /\ (effects \in Option(Threads))' /\ DeviceType'
      /\ SavedType' /\ FileType' /\ WorldType' /\ GhostType'
  BY Kept DEF StartCaffeinate
<1> QED BY <1>1, <1>2, <1>3, <1>4 DEF TypeOK

\* LockCursor preserves the types.
LEMMA LockCursorType ==
    ASSUME TypeOK, LockCursor
    PROVE  TypeOK'
<1>1. TodoType'
  BY DoneType DEF TypeOK, LockCursor, Threads
<1>2. DeviceType'
  BY DEF TypeOK, DeviceType, LockCursor
<1>3. FlagType'
  BY DEF TypeOK, FlagType, LockCursor
<1>4. LoopType'
  BY DEF TypeOK, LoopType, LockCursor, Option
<1>5. /\ (policy \in Policy)' /\ (effects \in Option(Threads))' /\ SavedType'
      /\ FileType' /\ WorldType' /\ GhostType'
  BY Kept DEF LockCursor
<1> QED BY <1>1, <1>2, <1>3, <1>4, <1>5 DEF TypeOK

\* PersistIfChanged preserves the types.
LEMMA PersistIfChangedType ==
    ASSUME TypeOK, PersistIfChanged
    PROVE  TypeOK'
<1>1. TodoType'
  BY ContinueType, StepListTypes DEF TypeOK, PersistIfChanged, Threads
<1>2. /\ (policy \in Policy)' /\ (effects \in Option(Threads))' /\ DeviceType'
      /\ SavedType' /\ FlagType' /\ LoopType' /\ FileType' /\ WorldType'
      /\ GhostType'
  BY Kept DEF PersistIfChanged
<1> QED BY <1>1, <1>2 DEF TypeOK

\* Load preserves the types.
LEMMA LoadType ==
    ASSUME TypeOK, Load
    PROVE  TypeOK'
<1>1. TodoType'
  BY ContinueType, StepListTypes
  DEF TypeOK, Load, FileContents, NothingSaved, FileType, Threads
<1>2. SavedType'
  BY DEF TypeOK, SavedType, Load, FileContents, NothingSaved, FileType, SavedState,
     Option
<1>3. /\ (policy \in Policy)' /\ (effects \in Option(Threads))' /\ DeviceType'
      /\ FlagType' /\ LoopType' /\ FileType' /\ WorldType' /\ GhostType'
  BY Kept DEF Load
<1> QED BY <1>1, <1>2, <1>3 DEF TypeOK

\* StartObserver preserves the types.
LEMMA StartObserverType ==
    ASSUME TypeOK, StartObserver
    PROVE  TypeOK'
<1>1. TodoType'
  BY DoneType DEF TypeOK, StartObserver, Threads
<1>2. /\ (policy \in Policy)' /\ (effects \in Option(Threads))' /\ DeviceType'
      /\ SavedType' /\ FlagType' /\ LoopType' /\ FileType' /\ WorldType'
      /\ GhostType'
  BY Kept DEF StartObserver
<1> QED BY <1>1, <1>2 DEF TypeOK

\* ReadAngle preserves the types.
LEMMA ReadAngleType ==
    ASSUME TypeOK, ReadAngle
    PROVE  TypeOK'
<1>1. LoopType'
  BY DEF TypeOK, LoopType, ReadAngle, WorldType, Option
<1>2. /\ (policy \in Policy)' /\ (effects \in Option(Threads))' /\ TodoType'
      /\ DeviceType' /\ SavedType' /\ FlagType' /\ FileType' /\ WorldType'
      /\ GhostType'
  BY Kept DEF ReadAngle
<1> QED BY <1>1, <1>2 DEF TypeOK

\* Decide preserves the types.
LEMMA DecideType ==
    ASSUME TypeOK, Decide
    PROVE  TypeOK'
<1>1. TodoType'
  BY DecideResult, ContinueType DEF TypeOK, Decide, Threads
<1>2. (policy \in Policy)'
  BY DecideResult DEF TypeOK, Decide
<1>3. LoopType'
  BY DEF TypeOK, LoopType, Decide, Option
<1>4. /\ (effects \in Option(Threads))' /\ DeviceType' /\ SavedType'
      /\ FlagType' /\ FileType' /\ WorldType' /\ GhostType'
  BY Kept DEF Decide
<1> QED BY <1>1, <1>2, <1>3, <1>4 DEF TypeOK

\* LeaveLoop preserves the types.
LEMMA LeaveLoopType ==
    ASSUME TypeOK, LeaveLoop
    PROVE  TypeOK'
<1>1. TodoType'
  BY ContinueType, StepListTypes DEF TypeOK, LeaveLoop, Threads
<1>2. /\ (policy \in Policy)' /\ (effects \in Option(Threads))' /\ DeviceType'
      /\ SavedType' /\ FlagType' /\ LoopType' /\ FileType' /\ WorldType'
      /\ GhostType'
  BY Kept DEF LeaveLoop
<1> QED BY <1>1, <1>2 DEF TypeOK

\* Tick preserves the types.
LEMMA TickType ==
    ASSUME TypeOK, Tick
    PROVE  TypeOK'
<1>1. (policy \in Policy)'
  BY ElapsedType DEF TypeOK, Tick
<1>2. /\ (effects \in Option(Threads))' /\ TodoType' /\ DeviceType'
      /\ SavedType' /\ FlagType' /\ LoopType' /\ FileType' /\ WorldType'
      /\ GhostType'
  BY Kept DEF Tick
<1> QED BY <1>1, <1>2 DEF TypeOK

\* WillSleep preserves the types.
LEMMA WillSleepType ==
    ASSUME TypeOK, WillSleep
    PROVE  TypeOK'
<1>1. TodoType'
  BY ContinueType, StepListTypes DEF TypeOK, WillSleep, Threads
<1>2. (policy \in Policy)'
  BY WillSleepPolicyType DEF TypeOK, WillSleep
<1>3. /\ (effects \in Option(Threads))' /\ DeviceType' /\ SavedType'
      /\ FlagType' /\ LoopType' /\ FileType' /\ WorldType' /\ GhostType'
  BY Kept DEF WillSleep
<1> QED BY <1>1, <1>2, <1>3 DEF TypeOK

\* AllowSleep preserves the types.
LEMMA AllowSleepType ==
    ASSUME TypeOK, AllowSleep
    PROVE  TypeOK'
<1>1. TodoType'
  BY DoneType DEF TypeOK, AllowSleep, Threads
<1>2. WorldType'
  BY DEF TypeOK, WorldType, AllowSleep, PowerStates
<1>3. /\ (policy \in Policy)' /\ (effects \in Option(Threads))' /\ DeviceType'
      /\ SavedType' /\ FlagType' /\ LoopType' /\ FileType' /\ GhostType'
  BY Kept DEF AllowSleep
<1> QED BY <1>1, <1>2, <1>3 DEF TypeOK

\* DidWake preserves the types.
LEMMA DidWakeType ==
    ASSUME TypeOK, DidWake
    PROVE  TypeOK'
<1>1. (policy \in Policy)'
  BY DidWakePolicyType DEF TypeOK, DidWake
<1>2. WorldType'
  BY DEF TypeOK, WorldType, DidWake, PowerStates
<1>3. /\ (effects \in Option(Threads))' /\ TodoType' /\ DeviceType'
      /\ SavedType' /\ FlagType' /\ LoopType' /\ FileType' /\ GhostType'
  BY Kept DEF DidWake
<1> QED BY <1>1, <1>2, <1>3 DEF TypeOK

\* Launch preserves the types.
LEMMA LaunchType ==
    ASSUME TypeOK, Launch
    PROVE  TypeOK'
<1>1. TodoType'
  BY ContinueType, StepListTypes DEF TypeOK, Launch, Threads
<1>2. LoopType'
  BY DEF TypeOK, LoopType, Launch, Option
<1>3. /\ (policy \in Policy)' /\ (effects \in Option(Threads))' /\ DeviceType'
      /\ SavedType' /\ FlagType' /\ FileType' /\ WorldType' /\ GhostType'
  BY Kept DEF Launch
<1> QED BY <1>1, <1>2, <1>3 DEF TypeOK

\* PowerChange preserves the types.
LEMMA PowerChangeType ==
    ASSUME TypeOK, PowerChange
    PROVE  TypeOK'
<1>1. WorldType'
  BY DEF TypeOK, WorldType, PowerChange, PowerStates
<1>2. /\ (policy \in Policy)' /\ (effects \in Option(Threads))' /\ TodoType'
      /\ DeviceType' /\ SavedType' /\ FlagType' /\ LoopType' /\ FileType'
      /\ GhostType'
  BY Kept DEF PowerChange
<1> QED BY <1>1, <1>2 DEF TypeOK

\* MoveLid preserves the types.
LEMMA MoveLidType ==
    ASSUME TypeOK, MoveLid
    PROVE  TypeOK'
<1>1. WorldType'
  BY DEF TypeOK, WorldType, MoveLid, PowerStates
<1>2. /\ (policy \in Policy)' /\ (effects \in Option(Threads))' /\ TodoType'
      /\ DeviceType' /\ SavedType' /\ FlagType' /\ LoopType' /\ FileType'
      /\ GhostType'
  BY Kept DEF MoveLid
<1> QED BY <1>1, <1>2 DEF TypeOK

\* ChangePanel preserves the types.
LEMMA ChangePanelType ==
    ASSUME TypeOK, ChangePanel
    PROVE  TypeOK'
<1>1. DeviceType'
  BY DEF TypeOK, DeviceType, ChangePanel
<1>2. GhostType'
  BY DEF TypeOK, GhostType, ChangePanel, Custodies
<1>3. /\ (policy \in Policy)' /\ (effects \in Option(Threads))' /\ TodoType'
      /\ SavedType' /\ FlagType' /\ LoopType' /\ FileType' /\ WorldType'
  BY Kept DEF ChangePanel
<1> QED BY <1>1, <1>2, <1>3 DEF TypeOK

\* ChangeKeys preserves the types.
LEMMA ChangeKeysType ==
    ASSUME TypeOK, ChangeKeys
    PROVE  TypeOK'
<1>1. DeviceType'
  BY DEF TypeOK, DeviceType, ChangeKeys
<1>2. GhostType'
  BY DEF TypeOK, GhostType, ChangeKeys, Custodies
<1>3. /\ (policy \in Policy)' /\ (effects \in Option(Threads))' /\ TodoType'
      /\ SavedType' /\ FlagType' /\ LoopType' /\ FileType' /\ WorldType'
  BY Kept DEF ChangeKeys
<1> QED BY <1>1, <1>2, <1>3 DEF TypeOK

\* Signal preserves the types.
LEMMA SignalType ==
    ASSUME TypeOK, Signal
    PROVE  TypeOK'
<1>1. LoopType'
  BY DEF TypeOK, LoopType, Signal, Option
<1>2. /\ (policy \in Policy)' /\ (effects \in Option(Threads))' /\ TodoType'
      /\ DeviceType' /\ SavedType' /\ FlagType' /\ FileType' /\ WorldType'
      /\ GhostType'
  BY Kept DEF Signal
<1> QED BY <1>1, <1>2 DEF TypeOK

\* BecomeCalm preserves the types.
LEMMA BecomeCalmType ==
    ASSUME TypeOK, BecomeCalm
    PROVE  TypeOK'
<1>1. WorldType'
  BY DEF TypeOK, WorldType, BecomeCalm, PowerStates
<1>2. /\ (policy \in Policy)' /\ (effects \in Option(Threads))' /\ TodoType'
      /\ DeviceType' /\ SavedType' /\ FlagType' /\ LoopType' /\ FileType'
      /\ GhostType'
  BY Kept DEF BecomeCalm
<1> QED BY <1>1, <1>2 DEF TypeOK

\* The death of the process preserves the types.
LEMMA DieType ==
    ASSUME TypeOK, Die, UNCHANGED custody \/ custody' \in Custodies
    PROVE  TypeOK'
<1>1. (policy \in Policy)'
  BY NewPolicyType DEF Die
<1>2. (effects \in Option(Threads))'
  BY DEF Die, Option
<1>3. TodoType'
  BY StepListTypes DEF Die, TodoType, Lists
<1>4. DeviceType'
  BY DEF TypeOK, DeviceType, Die
<1>5. SavedType'
  BY NothingSavedType, DaemonAssumption DEF Die, SavedType, Option
<1>6. FlagType' /\ LoopType'
  BY DEF Die, FlagType, LoopType, Option
<1>7. FileType'
  BY NothingSavedType DEF TypeOK, FileType, Die
<1>8. WorldType'
  BY Kept DEF Die
<1>9. GhostType'
  BY DEF TypeOK, GhostType, Die
<1> QED BY <1>1, <1>2, <1>3, <1>4, <1>5, <1>6, <1>7, <1>8, <1>9 DEF TypeOK

\* Hotplug preserves the types.
LEMMA HotplugType ==
    ASSUME TypeOK, NEW d \in Displays, Hotplug(d)
    PROVE  TypeOK'
<1>1. DeviceType'
  BY DEF TypeOK, DeviceType, Hotplug
<1>2. /\ (policy \in Policy)' /\ (effects \in Option(Threads))' /\ TodoType'
      /\ SavedType' /\ FlagType' /\ LoopType' /\ FileType' /\ WorldType' /\ GhostType'
  BY Kept DEF Hotplug
<1> QED BY <1>1, <1>2 DEF TypeOK

\* The initial states have their types.
LEMMA InitType == Init => TypeOK
<1> SUFFICES ASSUME Init PROVE TypeOK
  OBVIOUS
<1>1. policy \in Policy /\ effects \in Option(Threads)
  BY NewPolicyType DEF Init, Option
<1>2. TodoType
  BY StepListTypes DEF Init, TodoType, Lists
<1>3. SavedType /\ FileType
  BY NothingSavedType, DaemonAssumption DEF Init, SavedType, FileType, Option
<1>4. DeviceType /\ FlagType /\ LoopType
  BY DEF Init, DeviceType, FlagType, LoopType, Option
<1>5. WorldType /\ GhostType
  BY DEF Init, WorldType, GhostType, PowerStates, Custodies
<1> QED BY <1>1, <1>2, <1>3, <1>4, <1>5 DEF TypeOK

\* Every step preserves the types.
LEMMA NextType ==
    ASSUME TypeOK, [Next]_vars
    PROVE  TypeOK'
<1>1. ASSUME NEW t \in Threads, Shared(t) PROVE TypeOK'
  BY <1>1, AcquireType, ReleaseType, UnlockCursorType, RestoreKeysType,
     RestorePanelType,
     StopCaffeinateType, SnapshotType, PersistImageType, WriteType
  DEF Shared
<1>2. ASSUME ObserverFails \/ Crash \/ Exit PROVE TypeOK'
  BY <1>2, DieType DEF ObserverFails, Crash, Exit, TypeOK, GhostType, Custodies
<1>3. CASE MonitorOnly
  BY <1>3, <1>2, TakeExternalType, RestoreExternalType, ReadPanelType, DimPanelType,
     RedimPanelType, CaptureKeysType, RedimKeysType, CaptureExternalType,
     RecaptureExternalType, StartCaffeinateType, LockCursorType, PersistIfChangedType,
     LoadType, StartObserverType, ReadAngleType, DecideType, LeaveLoopType
  DEF MonitorOnly
<1>4. CASE Monitor
  BY <1>1, <1>3, <1>4 DEF Monitor, Threads
<1>5. CASE PowerThread
  BY <1>1, <1>5, WillSleepType, AllowSleepType, DidWakeType DEF PowerThread, Threads
<1>6. CASE World
  BY <1>2, <1>6, LaunchType, PowerChangeType, MoveLidType, ChangePanelType,
     ChangeKeysType,
     HotplugType, SignalType, BecomeCalmType
  DEF World
<1>7. CASE Tick
  BY <1>7, TickType
<1>8. CASE UNCHANGED vars
  BY <1>8, Kept DEF vars, TypeOK
<1> QED BY <1>4, <1>5, <1>6, <1>7, <1>8 DEF Next

\* Every variable of the daemon has its type in every reachable state, whatever
\* the world does: no thread ever holds a step outside its functions, no device
\* leaves its range, and the lock has at most the two owners.
THEOREM TypeCorrect == Spec => []TypeOK
<1>1. Init => TypeOK
  BY InitType
<1>2. TypeOK /\ [Next]_vars => TypeOK'
  BY NextType
<1> QED BY <1>1, <1>2, PTL DEF Spec

-----------------------------------------------------------------------------
(* Steps in a list, and their order. *)

Has(s, x) == \E i \in 1..Len(s) : s[i] = x

\* No x comes after a y.
NoneAfter(s, x, y) ==
    \A i, j \in 1..Len(s) : i < j /\ s[i] = y => s[j] # x

\* What two lists have, joined, is what either has.
LEMMA HasJoin ==
    ASSUME NEW s \in Lists, NEW u \in Lists, NEW x
    PROVE  Has(s \o u, x) <=> Has(s, x) \/ Has(u, x)
<1>1. /\ Len(s) \in Nat /\ Len(u) \in Nat /\ Len(s \o u) = Len(s) + Len(u)
      /\ \A i \in 1..Len(s) : (s \o u)[i] = s[i]
      /\ \A i \in 1..Len(u) : (s \o u)[Len(s) + i] = u[i]
  BY DEF Lists
<1>2. ASSUME NEW i \in 1..Len(s \o u), (s \o u)[i] = x PROVE Has(s, x) \/ Has(u, x)
  <2>1. CASE i <= Len(s)
    BY <1>1, <1>2, <2>1 DEF Has
  <2>2. CASE i > Len(s)
    <3>1. i - Len(s) \in 1..Len(u) /\ (s \o u)[Len(s) + (i - Len(s))] = x
      BY <1>1, <1>2, <2>2
    <3> QED BY <1>1, <3>1 DEF Has
  <2> QED BY <1>1, <2>1, <2>2
<1>3. Has(s, x) => Has(s \o u, x)
  BY <1>1 DEF Has
<1>4. Has(u, x) => Has(s \o u, x)
  BY <1>1 DEF Has
<1> QED BY <1>2, <1>3, <1>4 DEF Has

\* Order survives a join that puts no x behind a y.
LEMMA NoneAfterJoin ==
    ASSUME NEW s \in Lists, NEW u \in Lists, NEW x, NEW y,
           NoneAfter(s, x, y), NoneAfter(u, x, y), ~(Has(s, y) /\ Has(u, x))
    PROVE  NoneAfter(s \o u, x, y)
<1>1. /\ Len(s) \in Nat /\ Len(u) \in Nat /\ Len(s \o u) = Len(s) + Len(u)
      /\ \A i \in 1..Len(s \o u) :
            (s \o u)[i] = IF i <= Len(s) THEN s[i] ELSE u[i - Len(s)]
  BY DEF Lists
<1> SUFFICES ASSUME NEW i \in 1..Len(s \o u), NEW j \in 1..Len(s \o u), i < j,
                    (s \o u)[i] = y, (s \o u)[j] = x
             PROVE  FALSE
  BY DEF NoneAfter
<1>2. CASE j <= Len(s)
  BY <1>1, <1>2 DEF NoneAfter
<1>3. CASE i > Len(s)
  <2>1. /\ i - Len(s) \in 1..Len(u) /\ j - Len(s) \in 1..Len(u) /\ i - Len(s) < j - Len(s)
        /\ u[i - Len(s)] = y /\ u[j - Len(s)] = x
    BY <1>1, <1>3
  <2> QED BY <2>1 DEF NoneAfter
<1>4. CASE i <= Len(s) /\ j > Len(s)
  <2>1. i \in 1..Len(s) /\ s[i] = y /\ j - Len(s) \in 1..Len(u) /\ u[j - Len(s)] = x
    BY <1>1, <1>4
  <2> QED BY <2>1 DEF Has
<1> QED BY <1>1, <1>2, <1>3, <1>4

\* A list without x, or without y, has no x after a y.
LEMMA NoneAfterAbsent ==
    ASSUME NEW s, NEW x, NEW y, ~Has(s, x) \/ ~Has(s, y)
    PROVE  NoneAfter(s, x, y)
BY DEF Has, NoneAfter

\* What is left after the first step has what the list had, in the same order.
LEMMA TailKeeps ==
    ASSUME NEW s \in Lists, s # << >>
    PROVE  /\ \A x : Has(Tail(s), x) => Has(s, x)
           /\ \A x : Has(s, x) => Has(Tail(s), x) \/ x = Head(s)
           /\ \A x, y : NoneAfter(s, x, y) => NoneAfter(Tail(s), x, y)
           /\ \A x : NoneAfter(s, x, Head(s)) => ~Has(Tail(s), x)
<1>1. /\ Len(s) \in Nat /\ Len(s) > 0 /\ Len(Tail(s)) = Len(s) - 1 /\ Head(s) = s[1]
      /\ \A i \in 1..(Len(s) - 1) : Tail(s)[i] = s[i + 1] /\ i + 1 \in 1..Len(s)
  BY DEF Lists
<1>2. ASSUME NEW x, Has(Tail(s), x) PROVE Has(s, x)
  BY <1>1, <1>2 DEF Has
<1>3. ASSUME NEW x, Has(s, x) PROVE Has(Tail(s), x) \/ x = Head(s)
  <2>1. PICK i \in 1..Len(s) : s[i] = x
    BY <1>3 DEF Has
  <2>2. CASE i = 1
    BY <1>1, <2>1, <2>2
  <2>3. CASE i # 1
    <3>1. i - 1 \in 1..Len(Tail(s)) /\ Tail(s)[i - 1] = x
      BY <1>1, <2>1, <2>3
    <3> QED BY <3>1 DEF Has
  <2> QED BY <2>2, <2>3
<1>4. ASSUME NEW x, NEW y, NoneAfter(s, x, y) PROVE NoneAfter(Tail(s), x, y)
  <2> SUFFICES ASSUME NEW i \in 1..Len(Tail(s)), NEW j \in 1..Len(Tail(s)), i < j,
                      Tail(s)[i] = y, Tail(s)[j] = x
               PROVE  FALSE
    BY DEF NoneAfter
  <2>1. i + 1 \in 1..Len(s) /\ j + 1 \in 1..Len(s) /\ i + 1 < j + 1 /\ s[i + 1] = y /\ s[j + 1] = x
    BY <1>1
  <2> QED BY <1>4, <2>1 DEF NoneAfter
<1>5. ASSUME NEW x, NoneAfter(s, x, Head(s)), Has(Tail(s), x) PROVE FALSE
  <2>1. PICK i \in 1..Len(Tail(s)) : Tail(s)[i] = x
    BY <1>5 DEF Has
  <2>2. 1 \in 1..Len(s) /\ i + 1 \in 1..Len(s) /\ 1 < i + 1 /\ s[i + 1] = x
    BY <1>1, <2>1
  <2> QED BY <1>1, <1>5, <2>2 DEF NoneAfter
<1> QED BY <1>2, <1>3, <1>4, <1>5

\* A list of one step.
LEMMA SingleHas ==
    ASSUME NEW step
    PROVE  /\ \A x : Has(<< step >>, x) <=> x = step
           /\ \A x, y : NoneAfter(<< step >>, x, y)
BY DEF Has, NoneAfter

\* The first step of a join is that of its first part.
LEMMA JoinHead ==
    ASSUME NEW s \in Lists, NEW u \in Lists, s # << >>
    PROVE  s \o u # << >> /\ Head(s \o u) = Head(s)
BY DEF Lists

-----------------------------------------------------------------------------
(* What the daemon's lists contain. *)

\* The threads, and Nothing, are three values.
LEMMA ThreadsDiffer ==
    /\ Nothing \notin Threads
    /\ \A t \in Threads : t \in {"monitor", "power"}
    /\ "monitor" \in Threads /\ "power" \in Threads
BY DaemonAssumption DEF Threads

\* The empty list has nothing, and what has something is not empty.
LEMMA EmptyHas ==
    \A x : ~Has(<< >>, x)
BY DEF Has

\* A list starts with something it has.
LEMMA HeadHas ==
    ASSUME NEW s \in Lists, s # << >>
    PROVE  Has(s, Head(s))
<1>1. 1 \in 1..Len(s) /\ s[1] = Head(s)
  BY DEF Lists
<1> QED BY <1>1 DEF Has

\* Booting, in terms of the steps left.
LEMMA ObservingHas ==
    /\ TypeOK => (Observing <=> /\ alive
                                /\ ~Has(todo["monitor"], "load")
                                /\ ~Has(todo["monitor"], "observe"))
    /\ TypeOK' => (Observing' <=> /\ alive'
                                  /\ ~Has(todo'["monitor"], "load")
                                  /\ ~Has(todo'["monitor"], "observe"))
<1>1. ASSUME NEW s \in Lists, NEW x
      PROVE  (\E i \in DOMAIN s : s[i] = x) <=> Has(s, x)
  BY DEF Lists, Has
<1>2. TypeOK => todo["monitor"] \in Lists
  BY ThreadsDiffer DEF TypeOK, TodoType, Lists
<1>3. TypeOK' => todo'["monitor"] \in Lists
  BY ThreadsDiffer DEF TypeOK, TodoType, Lists
<1>4. ASSUME TypeOK
      PROVE  Booting <=> Has(todo["monitor"], "load") \/ Has(todo["monitor"], "observe")
  <2>1. \A x : (\E i \in DOMAIN todo["monitor"] : todo["monitor"][i] = x)
               <=> Has(todo["monitor"], x)
    BY <1>1, <1>2, <1>4
  <2> QED BY <2>1 DEF Booting
<1>5. ASSUME TypeOK'
      PROVE  Booting' <=> Has(todo'["monitor"], "load") \/ Has(todo'["monitor"], "observe")
  <2>1. \A x : (\E i \in DOMAIN todo'["monitor"] : todo'["monitor"][i] = x)
               <=> Has(todo'["monitor"], x)
    BY <1>1, <1>3, <1>5
  <2> QED BY <2>1 DEF Booting
<1> QED BY <1>4, <1>5 DEF Observing

\* What a section of a restore or a sleep preparation contains.
LEMMA InsideHas ==
    ASSUME NEW s \in Lists, NEW x
    PROVE  Has(Inside(s), x) <=> \/ x \in {"acquire", "release", "snapshot", "persist"}
                                 \/ Has(s, x)
<1>1. Persist \in Lists /\ << "acquire" >> \in Lists /\ << "release" >> \in Lists
  BY StepListTypes
<1>2. << "acquire" >> \o s \in Lists /\ (<< "acquire" >> \o s) \o Persist \in Lists
  BY <1>1, JoinType
<1>3. Has(Persist, x) <=> x \in {"snapshot", "persist"}
  BY DEF Persist, Has
<1>4. Has(<< "acquire" >> \o s, x) <=> x = "acquire" \/ Has(s, x)
  BY <1>1, HasJoin, SingleHas
<1>5. Has((<< "acquire" >> \o s) \o Persist, x)
         <=> x = "acquire" \/ Has(s, x) \/ Has(Persist, x)
  BY <1>1, <1>2, <1>4, HasJoin
<1>6. Has(((<< "acquire" >> \o s) \o Persist) \o << "release" >>, x)
         <=> x = "acquire" \/ Has(s, x) \/ Has(Persist, x) \/ x = "release"
  BY <1>1, <1>2, <1>5, HasJoin, SingleHas
<1> QED BY <1>3, <1>6 DEF Inside

\* The same for a section that persists after it gave the lock back.
LEMMA OutsideHas ==
    ASSUME NEW s \in Lists, NEW x
    PROVE  /\ Outside(s) \in Lists
           /\ Has(Outside(s), x) <=> \/ x \in {"acquire", "release", "snapshot", "persist"}
                                     \/ Has(s, x)
<1>1. Persist \in Lists /\ << "acquire" >> \in Lists /\ << "release" >> \in Lists
  BY StepListTypes
<1>2. << "acquire" >> \o s \in Lists /\ (<< "acquire" >> \o s) \o << "release" >> \in Lists
  BY <1>1, JoinType
<1>3. Has(Persist, x) <=> x \in {"snapshot", "persist"}
  BY DEF Persist, Has
<1>4. Has(<< "acquire" >> \o s, x) <=> x = "acquire" \/ Has(s, x)
  BY <1>1, HasJoin, SingleHas
<1>5. Has((<< "acquire" >> \o s) \o << "release" >>, x)
         <=> x = "acquire" \/ Has(s, x) \/ x = "release"
  BY <1>1, <1>2, <1>4, HasJoin, SingleHas
<1>6. Has(((<< "acquire" >> \o s) \o << "release" >>) \o Persist, x)
         <=> x = "acquire" \/ Has(s, x) \/ x = "release" \/ Has(Persist, x)
  BY <1>1, <1>2, <1>5, HasJoin
<1> QED BY <1>1, <1>2, <1>3, <1>6, JoinType DEF Outside

\* What the sleep callback does.
LEMMA SleepHas ==
    ASSUME NEW x
    PROVE  Has(SleepSteps, x)
             <=> \/ x \in {"acquire", "release", "snapshot", "persist", "allow"}
                 \/ Has(PrepareEffects, x)
<1>1. PrepareEffects \in Lists /\ << "allow" >> \in Lists
  BY StepListTypes, SingletonType DEF Steps
<1>2. /\ Outside(PrepareEffects) \in Lists
      /\ Has(Outside(PrepareEffects), x)
            <=> x \in {"acquire", "release", "snapshot", "persist"} \/ Has(PrepareEffects, x)
  BY <1>1, OutsideHas
<1> QED BY <1>1, <1>2, HasJoin, SingleHas DEF SleepSteps

\* What the device lists contain.
LEMMA EffectsHave ==
    ASSUME NEW x
    PROVE  /\ Has(RestoreEffects, x) <=>
                x \in {"unlockCursor", "takeExternal", "restoreExternal", "restoreKeys",
                       "restorePanel", "stopCaffeinate"}
           /\ Has(KeepEffects, x) <=>
                x \in {"unlockCursor", "takeExternal", "restoreExternal", "restoreKeys",
                       "relightPanel", "stopCaffeinate"}
           /\ Has(PrepareEffects, x) <=>
                x \in {"unlockCursor", "relightKeys", "relightPanel", "stopCaffeinate"}
<1>1. Has(RestoreEffects, x) <=>
        x \in {"unlockCursor", "takeExternal", "restoreExternal", "restoreKeys",
               "restorePanel", "stopCaffeinate"}
  BY DEF RestoreEffects, Has
<1>2. Has(KeepEffects, x) <=>
        x \in {"unlockCursor", "takeExternal", "restoreExternal", "restoreKeys",
               "relightPanel", "stopCaffeinate"}
  BY DEF KeepEffects, Has
<1>3. Has(PrepareEffects, x) <=>
        x \in {"unlockCursor", "relightKeys", "relightPanel", "stopCaffeinate"}
  BY DEF PrepareEffects, Has
<1> QED BY <1>1, <1>2, <1>3

\* What the lists that dim contain.
LEMMA DimmingHas ==
    ASSUME NEW x
    PROVE  /\ Has(StartSteps, x) <=>
                x \in {"acquire", "readPanel", "dimPanel", "captureKeys",
                       "captureExternal", "startCaffeinate", "snapshot", "persist",
                       "lockCursor", "release"}
           /\ Has(ResumeSteps, x) <=>
                x \in {"acquire", "redimPanel", "redimKeys", "lockCursor",
                       "recaptureExternal", "startCaffeinate", "persistIfChanged"}
<1>1. Has(StartSteps, x) <=>
        x \in {"acquire", "readPanel", "dimPanel", "captureKeys",
               "captureExternal", "startCaffeinate", "snapshot", "persist",
               "lockCursor", "release"}
  <2>1. StartSteps = << "acquire", "readPanel", "dimPanel", "captureKeys",
               "captureExternal", "startCaffeinate", "snapshot", "persist",
               "lockCursor", "release" >>
    BY DEF StartSteps
  <2> QED BY <2>1 DEF Has
<1>2. Has(ResumeSteps, x) <=>
        x \in {"acquire", "redimPanel", "redimKeys", "lockCursor",
               "recaptureExternal", "startCaffeinate", "persistIfChanged"}
  BY DEF ResumeSteps, Has
<1> QED BY <1>1, <1>2

\* A dim is only resumed with panel or keyboard pending, and only started with
\* neither.
LEMMA DimPending ==
    ASSUME NEW p \in Policy, NEW a \in Angles, NEW pending
    PROVE  /\ Decision(p, a, pending).action = "resume" => pending \cap {"internal", "keyboard"} # {}
           /\ Decision(p, a, pending).action = "start" => pending \cap {"internal", "keyboard"} = {}
<1> DEFINE position == LidStateForAngle(a)
           moved == p.lastLid # position
           handled == CASE position = "fullyClosed"     -> HandleFullyClosed(p, moved, pending)
                        [] position = "partiallyClosed" -> HandlePartiallyClosed(p, a, pending)
                        [] position = "open"            -> HandleOpen(p, moved, pending)
<1>1. position \in {"fullyClosed", "partiallyClosed", "open"}
  BY DEF LidStateForAngle
<1> SUFFICES ASSUME NEW action \in {"resume", "start"}, Decision(p, a, pending).action = action
             PROVE  /\ action = "resume" => pending \cap {"internal", "keyboard"} # {}
                    /\ action = "start" => pending \cap {"internal", "keyboard"} = {}
  OBVIOUS
<1>2. ASSUME NEW c
      PROVE  /\ HandleFullyClosed(p, c, pending).action # action
             /\ HandleOpen(p, c, pending).action # action
  BY DEF HandleFullyClosed, HandleOpen
<1>3. handled.action = action
  <2>1. handled \in Decisions
    BY <1>1, FullyClosedType, PartiallyClosedType, OpenType
  <2>2. handled = [policy |-> handled.policy, action |-> handled.action]
    BY <2>1 DEF Decisions
  <2> HIDE DEF handled
  <2>3. [handled EXCEPT !.policy.lastAngle = a, !.policy.lastLid = position].action = handled.action
    BY <2>2
  <2> QED BY <2>3 DEF Decision, handled
<1>4. position = "partiallyClosed"
  BY <1>1, <1>2, <1>3
<1>5. HandlePartiallyClosed(p, a, pending).action = action
  BY <1>3, <1>4
<1> QED BY <1>5 DEF HandlePartiallyClosed

-----------------------------------------------------------------------------
(* What the list of a thread says about EFFECTS_LOCK. *)

\* Steps that end or decide the end of a locked section, and all steps that
\* are only taken inside of one.
Enders  == {"release", "relock", "persistIfChanged"}
Guarded == DeviceSteps \cup Enders

\* Nothing left needs the lock.
Free(s) == \A x \in Guarded \cup {"acquire"} : ~Has(s, x)

\* Inside a locked section: it ends, and nothing after it needs the lock.
Locked(s) ==
    /\ ~Has(s, "acquire") /\ ~Has(s, "load")
    /\ \E x \in Enders : Has(s, x)
    /\ \A x \in Guarded : NoneAfter(s, x, "release")

\* In front of one.
Opening(s) ==
    /\ s # << >> /\ Head(s) = "acquire"
    /\ NoneAfter(s, "acquire", "acquire") /\ ~Has(s, "load")
    /\ \E x \in Enders : Has(s, x)
    /\ \A x \in Guarded : NoneAfter(s, x, "release")

\* An opening list that is not closed yet.
Body(s) ==
    /\ s # << >> /\ Head(s) = "acquire"
    /\ NoneAfter(s, "acquire", "acquire") /\ ~Has(s, "load")
    /\ \A x \in Enders : ~Has(s, x)

\* A thread has the lock exactly while it is inside a locked section.
LockInv ==
    /\ ~alive => effects = Nothing /\ \A t \in Threads : todo[t] = << >>
    /\ \A t \in Threads : IF effects = t THEN Locked(todo[t])
                          ELSE Free(todo[t]) \/ Opening(todo[t])

\* Steps without locks lengthen a body.
LEMMA BodyJoin ==
    ASSUME NEW s \in Lists, NEW u \in Lists, Body(s),
           \A x \in Enders \cup {"acquire", "load"} : ~Has(u, x)
    PROVE  Body(s \o u)
<1>1. s \o u # << >> /\ Head(s \o u) = "acquire"
  BY JoinHead DEF Body
<1>2. NoneAfter(u, "acquire", "acquire")
  BY NoneAfterAbsent
<1>3. NoneAfter(s \o u, "acquire", "acquire")
  BY <1>2, NoneAfterJoin DEF Body
<1>4. \A x : Has(s \o u, x) <=> Has(s, x) \/ Has(u, x)
  BY HasJoin
<1> QED BY <1>1, <1>3, <1>4 DEF Body

\* A body that ends with the release of the lock opens a section.
LEMMA BodyReleased ==
    ASSUME NEW s \in Lists, Body(s)
    PROVE  Opening(s \o << "release" >>)
<1>1. << "release" >> \in Lists
  BY SingletonType DEF Steps
<1>2. /\ \A x : Has(<< "release" >>, x) <=> x = "release"
      /\ \A x, y : NoneAfter(<< "release" >>, x, y)
  BY SingleHas
<1>3. s \o << "release" >> # << >> /\ Head(s \o << "release" >>) = "acquire"
  BY <1>1, JoinHead DEF Body
<1>4. \A x : Has(s \o << "release" >>, x) <=> Has(s, x) \/ x = "release"
  BY <1>1, <1>2, HasJoin
<1>5. NoneAfter(s \o << "release" >>, "acquire", "acquire")
  BY <1>1, <1>2, NoneAfterJoin DEF Body
<1>6. ASSUME NEW x \in Guarded
      PROVE  NoneAfter(s \o << "release" >>, x, "release")
  <2>1. ~Has(s, "release")
    BY DEF Body, Enders
  <2>2. NoneAfter(s, x, "release")
    BY <2>1, NoneAfterAbsent
  <2> QED BY <1>1, <1>2, <2>1, <2>2, NoneAfterJoin
<1> QED BY <1>3, <1>4, <1>5, <1>6 DEF Opening, Body, Enders

\* What follows an opening list without needing the lock.
LEMMA OpeningJoin ==
    ASSUME NEW s \in Lists, NEW u \in Lists, Opening(s), Free(u), ~Has(u, "load")
    PROVE  Opening(s \o u)
<1>1. s \o u # << >> /\ Head(s \o u) = "acquire"
  BY JoinHead DEF Opening
<1>2. ~Has(u, "acquire")
  BY DEF Free
<1>3. NoneAfter(s \o u, "acquire", "acquire")
  BY <1>2, NoneAfterAbsent, NoneAfterJoin DEF Opening
<1>4. \A x : Has(s \o u, x) <=> Has(s, x) \/ Has(u, x)
  BY HasJoin
<1>5. ASSUME NEW x \in Guarded PROVE NoneAfter(s \o u, x, "release")
  <2>1. ~Has(u, x)
    BY DEF Free
  <2>2. NoneAfter(u, x, "release") /\ NoneAfter(s, x, "release")
    BY <2>1, NoneAfterAbsent DEF Opening
  <2> QED BY <2>1, <2>2, NoneAfterJoin
<1> QED BY <1>1, <1>3, <1>4, <1>5 DEF Opening

\* A list that acquires the lock first, then only works on devices.
LEMMA AcquiringBody == Body(<< "acquire" >>)
<1>1. << "acquire" >> # << >> /\ Head(<< "acquire" >>) = "acquire"
  OBVIOUS
<1> QED BY <1>1, SingleHas DEF Body, Enders

\* The device sections of restore and sleep, and a persist, end no section.
LEMMA PlainLists ==
    ASSUME NEW s \in {RestoreEffects, KeepEffects, PrepareEffects, Persist},
           NEW x \in Enders \cup {"acquire", "load"}
    PROVE  ~Has(s, x)
<1>1. CASE s = RestoreEffects
  BY <1>1 DEF RestoreEffects, Has, Enders
<1>2. CASE s = KeepEffects
  BY <1>2 DEF KeepEffects, Has, Enders
<1>3. CASE s = PrepareEffects
  BY <1>3 DEF PrepareEffects, Has, Enders
<1>4. CASE s = Persist
  BY <1>4 DEF Persist, Has, Enders
<1> QED BY <1>1, <1>2, <1>3, <1>4

\* What comes after a section outside of it.
LEMMA AfterLists ==
    /\ Free(Persist) /\ ~Has(Persist, "load")
    /\ \A step \in {"observe", "exit", "allow"} :
          Free(<< step >>) /\ ~Has(<< step >>, "load") /\ << step >> \in Lists
<1>1. Free(Persist) /\ ~Has(Persist, "load")
  BY DEF Free, Persist, Has, Guarded, Enders, DeviceSteps
<1>2. ASSUME NEW step \in {"observe", "exit", "allow"}
      PROVE  Free(<< step >>) /\ ~Has(<< step >>, "load") /\ << step >> \in Lists
  <2>1. \A x : Has(<< step >>, x) <=> x = step
    BY SingleHas
  <2>2. << step >> \in Lists
    BY SingletonType DEF Steps
  <2> QED BY <2>1, <2>2 DEF Free, Guarded, Enders, DeviceSteps
<1> QED BY <1>1, <1>2

\* A section that persists inside, and one that persists outside, of the lock.
LEMMA SectionsOpen ==
    ASSUME NEW s \in {RestoreEffects, KeepEffects, PrepareEffects}
    PROVE  Opening(Inside(s)) /\ Opening(Outside(s)) /\ Outside(s) \in Lists
<1>1. s \in Lists /\ Persist \in Lists /\ << "acquire" >> \in Lists /\ << "release" >> \in Lists
  BY StepListTypes
<1>2. << "acquire" >> \o s \in Lists /\ (<< "acquire" >> \o s) \o Persist \in Lists
  BY <1>1, JoinType
<1>3. Body(<< "acquire" >> \o s)
  BY <1>1, AcquiringBody, PlainLists, BodyJoin
<1>4. Body((<< "acquire" >> \o s) \o Persist)
  BY <1>1, <1>2, <1>3, PlainLists, BodyJoin
<1>5. Opening(((<< "acquire" >> \o s) \o Persist) \o << "release" >>)
  BY <1>2, <1>4, BodyReleased
<1>6. Opening((<< "acquire" >> \o s) \o << "release" >>)
  BY <1>2, <1>3, BodyReleased
<1>7. (<< "acquire" >> \o s) \o << "release" >> \in Lists
  BY <1>1, <1>2, JoinType
<1>8. Opening(((<< "acquire" >> \o s) \o << "release" >>) \o Persist)
  BY <1>1, <1>6, <1>7, AfterLists, OpeningJoin
<1>9. ((<< "acquire" >> \o s) \o << "release" >>) \o Persist \in Lists
  BY <1>1, <1>7, JoinType
<1> QED BY <1>5, <1>8, <1>9 DEF Inside, Outside

\* Starting a dim is a section.
LEMMA StartOpens == Opening(StartSteps)
<1>1. StartSteps # << >> /\ Head(StartSteps) = "acquire"
  BY DEF StartSteps
<1>2. NoneAfter(StartSteps, "acquire", "acquire") /\ ~Has(StartSteps, "load")
  BY DEF StartSteps, NoneAfter, Has
<1>3. Has(StartSteps, "release") /\ "release" \in Enders
  <2>1. 10 \in 1..Len(StartSteps) /\ StartSteps[10] = "release"
    BY DEF StartSteps
  <2> QED BY <2>1 DEF Has, Enders
<1>4. ASSUME NEW x \in Guarded PROVE NoneAfter(StartSteps, x, "release")
  BY DEF StartSteps, NoneAfter
<1> QED BY <1>1, <1>2, <1>3, <1>4 DEF Opening

\* Resuming one is a section that persistIfChanged ends.
LEMMA ResumeOpens == Opening(ResumeSteps)
<1>1. ResumeSteps # << >> /\ Head(ResumeSteps) = "acquire"
  BY DEF ResumeSteps
<1>2. NoneAfter(ResumeSteps, "acquire", "acquire") /\ ~Has(ResumeSteps, "load")
  BY DEF ResumeSteps, NoneAfter, Has
<1>3. Has(ResumeSteps, "persistIfChanged") /\ "persistIfChanged" \in Enders
  <2>1. 7 \in 1..Len(ResumeSteps) /\ ResumeSteps[7] = "persistIfChanged"
    BY DEF ResumeSteps
  <2> QED BY <2>1 DEF Has, Enders
<1>4. ASSUME NEW x \in Guarded PROVE NoneAfter(ResumeSteps, x, "release")
  BY DEF ResumeSteps, NoneAfter
<1> QED BY <1>1, <1>2, <1>3, <1>4 DEF Opening

\* What is left of a dim that was given up.
LEMMA ForgetLocked ==
    /\ Locked(ForgetSteps) /\ ForgetSteps \in Lists
    /\ Locked(<< "release" >>) /\ << "release" >> \in Lists
    /\ Locked(<< "relock" >>) /\ << "relock" >> \in Lists
<1>1. /\ << "release" >> \in Lists /\ << "relock" >> \in Lists
      /\ Persist \in Lists /\ ForgetSteps \in Lists
  BY StepListTypes
<1>2. Locked(<< "release" >>) /\ Locked(<< "relock" >>)
  BY SingleHas DEF Locked, Enders
<1>3. \A x : Has(ForgetSteps, x) <=> Has(Persist, x) \/ x = "release"
  BY <1>1, HasJoin, SingleHas DEF ForgetSteps
<1>4. ASSUME NEW x \in Guarded PROVE NoneAfter(ForgetSteps, x, "release")
  <2>1. NoneAfter(Persist, x, "release") /\ ~Has(Persist, "release")
    BY AfterLists, NoneAfterAbsent DEF Free, Guarded, Enders
  <2>2. NoneAfter(<< "release" >>, x, "release")
    BY SingleHas
  <2> QED BY <1>1, <2>1, <2>2, NoneAfterJoin DEF ForgetSteps
<1>5. ~Has(ForgetSteps, "acquire") /\ ~Has(ForgetSteps, "load") /\ Has(ForgetSteps, "release")
  BY <1>3, AfterLists DEF Free
<1> QED BY <1>1, <1>2, <1>4, <1>5 DEF Locked, Enders

\* What a sample starts.
LEMMA ActionOpens ==
    ASSUME NEW action \in Actions
    PROVE  Free(ActionSteps(action)) \/ Opening(ActionSteps(action))
<1>1. Free(<< >>)
  BY DEF Free, Has
<1> QED BY <1>1, SectionsOpen, StartOpens, ResumeOpens DEF ActionSteps, Actions

-----------------------------------------------------------------------------
(* How a step moves a thread relative to the lock. *)

\* Only the holder of the lock is at a step that needs it.
LEMMA HolderWorks ==
    ASSUME TypeOK, LockInv, NEW t \in Threads, todo[t] # << >>,
           Head(todo[t]) \in Guarded
    PROVE  effects = t
<1>1. todo[t] \in Lists /\ 1 \in 1..Len(todo[t]) /\ todo[t][1] = Head(todo[t])
  BY DEF TypeOK, TodoType, Lists
<1>2. Has(todo[t], Head(todo[t]))
  BY <1>1 DEF Has
<1>3. ~Free(todo[t])
  BY <1>2 DEF Free
<1>4. Head(todo[t]) # "acquire"
  BY DEF Guarded, Enders, DeviceSteps
<1> QED BY <1>3, <1>4 DEF LockInv, Opening

\* Steps that neither take nor give back the lock keep a thread inside or
\* outside of its section.
LEMMA PassingKeeps ==
    ASSUME NEW s \in Lists, s # << >>,
           Head(s) \notin Enders \cup {"acquire", "load"}
    PROVE  /\ Locked(s) => Locked(Tail(s))
           /\ Free(s) \/ Opening(s) => Free(Tail(s))
<1>1. /\ \A x : Has(Tail(s), x) => Has(s, x)
      /\ \A x : Has(s, x) => Has(Tail(s), x) \/ x = Head(s)
      /\ \A x, y : NoneAfter(s, x, y) => NoneAfter(Tail(s), x, y)
  BY TailKeeps
<1>2. Locked(s) => Locked(Tail(s))
  BY <1>1 DEF Locked
<1>3. Free(s) => Free(Tail(s))
  BY <1>1 DEF Free
<1>4. ~Opening(s)
  BY DEF Opening
<1> QED BY <1>2, <1>3, <1>4

\* A step that leaves the threads where they are.
LEMMA LockKept ==
    ASSUME LockInv, UNCHANGED << effects, todo >>, alive => alive'
    PROVE  LockInv'
BY DEF LockInv

\* A thread moves past a step that is not about the lock.
LEMMA LockPassed ==
    ASSUME TypeOK, LockInv, NEW t \in Threads, todo[t] # << >>,
           Head(todo[t]) \notin Enders \cup {"acquire", "load"},
           Done(t), UNCHANGED << effects, alive >>
    PROVE  LockInv'
<1>1. todo \in [Threads -> Lists]
  BY DEF TypeOK, TodoType, Lists
<1>2. todo' = [todo EXCEPT ![t] = Tail(todo[t])]
  BY DEF Done, Continue
<1>3. alive
  BY DEF LockInv
<1>4. IF effects = t THEN Locked(Tail(todo[t]))
      ELSE Free(Tail(todo[t]))
  BY <1>1, PassingKeeps DEF LockInv
<1> QED BY <1>1, <1>2, <1>3, <1>4 DEF LockInv

\* The holder of the lock goes on with other steps inside of its section.
LEMMA LockJumped ==
    ASSUME TypeOK, LockInv, NEW t \in Threads, todo[t] # << >>,
           Head(todo[t]) \in Guarded,
           NEW steps \in Lists, Locked(steps), Continue(t, steps),
           UNCHANGED << effects, alive >>
    PROVE  LockInv'
<1>1. todo \in [Threads -> Lists]
  BY DEF TypeOK, TodoType, Lists
<1>2. todo' = [todo EXCEPT ![t] = steps]
  BY DEF Continue
<1>3. alive
  BY DEF LockInv
<1>4. effects = t
  BY HolderWorks
<1> QED BY <1>1, <1>2, <1>3, <1>4 DEF LockInv

\* A thread that is outside of any section goes on with other steps.
LEMMA LockStarted ==
    ASSUME TypeOK, LockInv, NEW t \in Threads, ~Locked(todo[t]),
           NEW steps \in Lists, Free(steps) \/ Opening(steps), Continue(t, steps),
           alive', UNCHANGED effects
    PROVE  LockInv'
<1>1. todo \in [Threads -> Lists]
  BY DEF TypeOK, TodoType, Lists
<1>2. todo' = [todo EXCEPT ![t] = steps]
  BY DEF Continue
<1>3. effects # t
  BY DEF LockInv
<1> QED BY <1>1, <1>2, <1>3 DEF LockInv

\* A thread takes the lock.
LEMMA LockTaken ==
    ASSUME TypeOK, LockInv, NEW t \in Threads, Acquire(t)
    PROVE  LockInv'
<1>1. todo \in [Threads -> Lists] /\ todo[t] # << >> /\ Head(todo[t]) = "acquire"
  BY DEF TypeOK, TodoType, Lists, Acquire, At
<1>2. /\ todo' = [todo EXCEPT ![t] = Tail(todo[t])] /\ effects = Nothing /\ effects' = t
      /\ alive' = alive
  BY DEF Acquire, Done, Continue, loopVars
<1>3. alive
  BY <1>1 DEF LockInv
<1>4. /\ \A x : Has(Tail(todo[t]), x) => Has(todo[t], x)
      /\ \A x : Has(todo[t], x) => Has(Tail(todo[t]), x) \/ x = Head(todo[t])
      /\ \A x, y : NoneAfter(todo[t], x, y) => NoneAfter(Tail(todo[t]), x, y)
      /\ \A x : NoneAfter(todo[t], x, Head(todo[t])) => ~Has(Tail(todo[t]), x)
  BY <1>1, TailKeeps
<1>5. Has(todo[t], "acquire")
  <2>1. 1 \in 1..Len(todo[t]) /\ todo[t][1] = "acquire"
    BY <1>1 DEF Lists
  <2> QED BY <2>1 DEF Has
<1>6. Opening(todo[t])
  BY <1>2, <1>5, ThreadsDiffer DEF LockInv, Free
<1>7. Locked(Tail(todo[t]))
  BY <1>1, <1>4, <1>6 DEF Opening, Locked, Enders
<1> QED BY <1>1, <1>2, <1>3, <1>7, ThreadsDiffer DEF LockInv

\* A thread gives the lock back.
LEMMA LockGiven ==
    ASSUME TypeOK, LockInv, NEW t \in Threads, Release(t)
    PROVE  LockInv'
<1>1. todo \in [Threads -> Lists] /\ todo[t] # << >> /\ Head(todo[t]) = "release"
  BY DEF TypeOK, TodoType, Lists, Release, At
<1>2. /\ todo' = [todo EXCEPT ![t] = Tail(todo[t])] /\ effects' = Nothing
      /\ alive' = alive
  BY DEF Release, Done, Continue
<1>3. alive
  BY <1>1 DEF LockInv
<1>4. effects = t
  BY <1>1, HolderWorks DEF Guarded, Enders
<1>5. Locked(todo[t])
  BY <1>4 DEF LockInv
<1>6. /\ \A x : Has(Tail(todo[t]), x) => Has(todo[t], x)
      /\ \A x : NoneAfter(todo[t], x, Head(todo[t])) => ~Has(Tail(todo[t]), x)
  BY <1>1, TailKeeps
<1>7. Free(Tail(todo[t]))
  BY <1>1, <1>5, <1>6 DEF Locked, Free
<1> QED BY <1>1, <1>2, <1>3, <1>4, <1>7, ThreadsDiffer DEF LockInv

\* A dead process holds no lock.
LEMMA LockDropped ==
    ASSUME Die
    PROVE  LockInv'
<1>1. Free(<< >>)
  BY DEF Free, Has
<1>2. effects' = Nothing /\ todo' = [t \in Threads |-> << >>]
  BY DEF Die
<1> QED BY <1>1, <1>2, ThreadsDiffer DEF LockInv

\* The write that follows the truncation of the file.
LEMMA LockWriting ==
    ASSUME TypeOK, LockInv, NEW t \in Threads, At(t, "persist"),
           Continue(t, << "write" >> \o Tail(todo[t])), UNCHANGED << effects, alive >>
    PROVE  LockInv'
<1>1. todo \in [Threads -> Lists] /\ todo[t] # << >> /\ Head(todo[t]) = "persist"
  BY DEF TypeOK, TodoType, Lists, At
<1>2. todo' = [todo EXCEPT ![t] = << "write" >> \o Tail(todo[t])]
  BY DEF Continue
<1>3. alive
  BY <1>1 DEF LockInv
<1>4. Tail(todo[t]) \in Lists /\ << "write" >> \in Lists
  BY <1>1, TailType, StepListTypes
<1>5. Head(todo[t]) \notin Enders \cup {"acquire", "load"}
  BY <1>1 DEF Enders
<1>6. IF effects = t THEN Locked(Tail(todo[t])) ELSE Free(Tail(todo[t]))
  BY <1>1, <1>5, PassingKeeps DEF LockInv
<1>7. \A x : Has(<< "write" >> \o Tail(todo[t]), x) <=> x = "write" \/ Has(Tail(todo[t]), x)
  BY <1>4, HasJoin, SingleHas
<1>8. ASSUME NEW x, NoneAfter(Tail(todo[t]), x, "release")
      PROVE  NoneAfter(<< "write" >> \o Tail(todo[t]), x, "release")
  <2>1. NoneAfter(<< "write" >>, x, "release") /\ ~Has(<< "write" >>, "release")
    BY SingleHas
  <2> QED BY <1>4, <1>8, <2>1, NoneAfterJoin
<1>9. IF effects = t THEN Locked(<< "write" >> \o Tail(todo[t]))
      ELSE Free(<< "write" >> \o Tail(todo[t]))
  <2>1. "write" \notin Guarded \cup {"acquire", "load"}
    BY DEF Guarded, Enders, DeviceSteps
  <2>2. CASE effects = t
    BY <1>6, <1>7, <1>8, <2>2 DEF Locked
  <2>3. CASE effects # t
    BY <1>6, <1>7, <2>1, <2>3 DEF Free
  <2> QED BY <2>2, <2>3
<1> QED BY <1>1, <1>2, <1>3, <1>9 DEF LockInv

\* The steps both threads take.
LEMMA SharedLock ==
    ASSUME TypeOK, LockInv, NEW t \in Threads, Shared(t)
    PROVE  LockInv'
<1>1. CASE UnlockCursor(t)
  BY <1>1, LockPassed DEF UnlockCursor, At, Enders, loopVars
<1>2. CASE RestoreKeys(t)
  BY <1>2, LockPassed DEF RestoreKeys, At, Enders, loopVars
<1>3. CASE RestorePanel(t)
  BY <1>3, LockPassed DEF RestorePanel, At, Enders, loopVars
<1>4. CASE StopCaffeinate(t)
  BY <1>4, LockPassed DEF StopCaffeinate, At, Enders, loopVars
<1>5. CASE Snapshot(t)
  BY <1>5, LockPassed DEF Snapshot, At, Enders, loopVars
<1>6. CASE Write(t)
  BY <1>6, LockPassed DEF Write, Persisted, At, Enders, loopVars
<1>7. CASE PersistImage(t)
  <2>1. UNCHANGED << effects, alive >> /\ At(t, "persist")
    BY <1>7 DEF PersistImage, loopVars
  <2>2. CASE Done(t)
    BY <2>1, <2>2, LockPassed DEF At, Enders
  <2>3. CASE Continue(t, << "write" >> \o Tail(todo[t]))
    BY <2>1, <2>3, LockWriting
  <2> QED BY <1>7, <2>2, <2>3 DEF PersistImage, Persisted
<1> QED BY <1>1, <1>2, <1>3, <1>4, <1>5, <1>6, <1>7, LockTaken, LockGiven DEF Shared

\* The device steps of the monitor.
LEMMA DimmingLock ==
    ASSUME TypeOK, LockInv,
           \/ TakeExternal \/ RestoreExternal
           \/ ReadPanel \/ DimPanel \/ RedimPanel \/ CaptureKeys \/ RedimKeys
           \/ CaptureExternal \/ RecaptureExternal \/ StartCaffeinate \/ LockCursor
           \/ PersistIfChanged
    PROVE  LockInv'
<1> "monitor" \in Threads
  BY ThreadsDiffer
<1>1. CASE TakeExternal
  BY <1>1, LockPassed DEF TakeExternal, At, Enders, loopVars
<1>2. CASE RestoreExternal
  BY <1>2, LockPassed DEF RestoreExternal, At, Enders, loopVars
<1>3. CASE RedimKeys
  BY <1>3, LockPassed DEF RedimKeys, At, Enders
<1>4. CASE CaptureExternal
  BY <1>4, LockPassed DEF CaptureExternal, At, Enders, loopVars
<1>5. CASE RecaptureExternal
  BY <1>5, LockPassed DEF RecaptureExternal, At, Enders
<1>6. CASE StartCaffeinate
  BY <1>6, LockPassed DEF StartCaffeinate, At, Enders
<1>7. CASE LockCursor
  BY <1>7, LockPassed DEF LockCursor, At, Enders
<1>8. CASE ReadPanel
  <2>1. UNCHANGED << effects, alive >> /\ At("monitor", "readPanel")
    BY <1>8 DEF ReadPanel, loopVars
  <2>2. CASE Done("monitor")
    BY <2>1, <2>2, LockPassed DEF At, Enders
  <2>3. CASE Continue("monitor", << "release" >>)
    BY <2>1, <2>3, LockJumped, ForgetLocked DEF At, Guarded, DeviceSteps
  <2> QED BY <1>8, <2>2, <2>3 DEF ReadPanel
<1>9. CASE DimPanel
  <2>1. UNCHANGED << effects, alive >> /\ At("monitor", "dimPanel")
    BY <1>9 DEF DimPanel, loopVars
  <2>2. CASE Done("monitor")
    BY <2>1, <2>2, LockPassed DEF At, Enders
  <2>3. CASE Continue("monitor", ForgetSteps)
    BY <2>1, <2>3, LockJumped, ForgetLocked DEF At, Guarded, DeviceSteps
  <2> QED BY <1>9, <2>2, <2>3 DEF DimPanel, ForgetPending
<1>10. CASE RedimPanel
  <2>1. UNCHANGED << effects, alive >> /\ At("monitor", "redimPanel")
    BY <1>10 DEF RedimPanel
  <2>2. CASE Done("monitor")
    BY <2>1, <2>2, LockPassed DEF At, Enders
  <2>3. CASE Continue("monitor", ForgetSteps)
    BY <2>1, <2>3, LockJumped, ForgetLocked DEF At, Guarded, DeviceSteps
  <2> QED BY <1>10, <2>2, <2>3 DEF RedimPanel, ForgetPending
<1>11. CASE CaptureKeys
  <2>1. UNCHANGED << effects, alive >> /\ At("monitor", "captureKeys")
    BY <1>11 DEF CaptureKeys, loopVars
  <2>2. CASE Done("monitor")
    BY <2>1, <2>2, LockPassed DEF At, Enders
  <2>3. CASE Continue("monitor", << "relock" >>)
    BY <2>1, <2>3, LockJumped, ForgetLocked DEF At, Guarded, DeviceSteps
  <2> QED BY <1>11, <2>2, <2>3 DEF CaptureKeys
<1>12. CASE PersistIfChanged
  <2>1. /\ UNCHANGED << effects, alive >> /\ At("monitor", "persistIfChanged")
        /\ \/ Continue("monitor", ForgetSteps)
           \/ Continue("monitor", << "release" >>)
    BY <1>12 DEF PersistIfChanged, loopVars
  <2> QED BY <2>1, LockJumped, ForgetLocked DEF At, Guarded, Enders
<1> QED BY <1>1, <1>2, <1>3, <1>4, <1>5, <1>6, <1>7, <1>8, <1>9, <1>10, <1>11, <1>12

\* The steps of the monitor's loop, and of the power callbacks.
LEMMA LoopLock ==
    ASSUME TypeOK, LockInv,
           \/ Launch \/ Load \/ StartObserver \/ ReadAngle \/ Decide \/ LeaveLoop
           \/ WillSleep \/ AllowSleep \/ DidWake
    PROVE  LockInv'
<1> "monitor" \in Threads /\ "power" \in Threads
  BY ThreadsDiffer
<1>1. ~Locked(<< >>)
  BY DEF Locked, Has
<1>2. CASE Launch
  <2>1. Free(BootSteps) /\ BootSteps \in Lists
    BY StepListTypes, SingleHas DEF BootSteps, Free, Guarded, Enders, DeviceSteps
  <2>2. todo["monitor"] = << >>
    BY <1>2 DEF Launch, LockInv
  <2> QED BY <1>1, <1>2, <2>1, <2>2, LockStarted DEF Launch
<1>3. CASE Load
  <2>1. At("monitor", "load") /\ alive' = alive /\ alive /\ UNCHANGED effects
    BY <1>3, ThreadsDiffer DEF Load, loopVars, LockInv, At
  <2>2. ~Locked(todo["monitor"])
    <3>1. 1 \in 1..Len(todo["monitor"]) /\ todo["monitor"][1] = "load"
      BY <2>1 DEF TypeOK, TodoType, At
    <3> QED BY <3>1 DEF Locked, Has
  <2>3. Opening(RecoverSteps) /\ RecoverSteps \in Lists
    BY SectionsOpen, AfterLists, OpeningJoin, StepListTypes DEF RecoverSteps
  <2>4. Free(<< "observe" >>) /\ << "observe" >> \in Lists
    BY AfterLists
  <2>5. Continue("monitor", RecoverSteps) \/ Continue("monitor", << "observe" >>)
    BY <1>3 DEF Load
  <2> QED BY <2>1, <2>2, <2>3, <2>4, <2>5, LockStarted
<1>4. CASE StartObserver
  BY <1>4, LockPassed DEF StartObserver, At, Enders, loopVars
<1>5. CASE ReadAngle
  BY <1>5, LockKept DEF ReadAngle
<1>6. CASE Decide
  <2>1. ActionSteps(Decision(policy, angle, Pending).action) \in Lists
    BY <1>6, DecideResult
  <2>2. Decision(policy, angle, Pending).action \in Actions
    <3>1. angle \in Angles
      BY <1>6 DEF TypeOK, LoopType, Option, Decide
    <3> QED BY <3>1, DecisionType DEF TypeOK, Decisions
  <2>3. /\ Continue("monitor", ActionSteps(Decision(policy, angle, Pending).action))
        /\ UNCHANGED << effects, alive >> /\ alive /\ todo["monitor"] = << >>
    BY <1>6 DEF Decide, Resting
  <2> QED BY <1>1, <2>1, <2>2, <2>3, ActionOpens, LockStarted
<1>7. CASE LeaveLoop
  <2>1. Opening(ShutdownSteps) /\ ShutdownSteps \in Lists
    BY SectionsOpen, AfterLists, OpeningJoin, StepListTypes DEF ShutdownSteps
  <2>2. /\ Continue("monitor", ShutdownSteps)
        /\ UNCHANGED << effects, alive >> /\ alive /\ todo["monitor"] = << >>
    BY <1>7 DEF LeaveLoop, Resting, loopVars
  <2> QED BY <1>1, <2>1, <2>2, LockStarted
<1>8. CASE WillSleep
  <2>1. Opening(SleepSteps) /\ SleepSteps \in Lists
    BY SectionsOpen, AfterLists, OpeningJoin, StepListTypes DEF SleepSteps
  <2>2. /\ Continue("power", SleepSteps)
        /\ UNCHANGED << effects, alive >> /\ alive /\ todo["power"] = << >>
    BY <1>8 DEF WillSleep, Observing, loopVars
  <2> QED BY <1>1, <2>1, <2>2, LockStarted
<1>9. CASE AllowSleep
  BY <1>9, LockPassed DEF AllowSleep, At, Enders, loopVars
<1>10. CASE DidWake
  BY <1>10, LockKept DEF DidWake, loopVars
<1> QED BY <1>2, <1>3, <1>4, <1>5, <1>6, <1>7, <1>8, <1>9, <1>10

\* What the world does moves no thread but by ending the process.
LEMMA WorldLock ==
    ASSUME TypeOK, LockInv,
           \/ PowerChange \/ MoveLid \/ ChangePanel \/ ChangeKeys
           \/ (\E d \in Displays : Hotplug(d))
           \/ Signal \/ Crash \/ ObserverFails \/ Exit \/ BecomeCalm \/ Tick
    PROVE  LockInv'
<1>1. CASE ObserverFails \/ Crash \/ Exit
  BY <1>1, LockDropped DEF ObserverFails, Crash, Exit
<1>2. CASE PowerChange \/ MoveLid \/ ChangePanel \/ ChangeKeys
  BY <1>2, LockKept DEF PowerChange, MoveLid, ChangePanel, ChangeKeys, loopVars
<1>3. CASE \E d \in Displays : Hotplug(d)
  BY <1>3, LockKept DEF Hotplug, loopVars
<1>4. CASE Signal \/ BecomeCalm \/ Tick
  BY <1>4, LockKept DEF Signal, BecomeCalm, Tick, loopVars
<1> QED BY <1>1, <1>2, <1>3, <1>4

\* No step breaks the lock's discipline.
LEMMA NextLock ==
    ASSUME TypeOK, LockInv, [Next]_vars
    PROVE  LockInv'
<1>1. CASE Monitor
  BY <1>1, SharedLock, DimmingLock, LoopLock, WorldLock, ThreadsDiffer
  DEF Monitor, MonitorOnly
<1>2. CASE PowerThread
  BY <1>2, SharedLock, LoopLock, ThreadsDiffer DEF PowerThread
<1>3. CASE World
  BY <1>3, LoopLock, WorldLock DEF World
<1>4. CASE Tick
  BY <1>4, WorldLock
<1>5. CASE UNCHANGED vars
  BY <1>5, LockKept DEF vars, loopVars
<1> QED BY <1>1, <1>2, <1>3, <1>4, <1>5 DEF Next

\* The discipline of the lock holds throughout.
LEMMA LockDiscipline == Spec => []LockInv
<1>1. Init => LockInv
  <2>1. Free(<< >>)
    BY DEF Free, Has
  <2> QED BY <2>1, ThreadsDiffer DEF Init, LockInv
<1>2. TypeOK /\ LockInv /\ [Next]_vars => LockInv'
  BY NextLock
<1>3. Spec => []TypeOK
  BY TypeCorrect
<1> QED BY <1>1, <1>2, <1>3, PTL DEF Spec

\* Only the thread that has EFFECTS_LOCK touches devices and the flags of the
\* shims, whatever the list it is working through and whatever fails.
THEOREM OneAtATime == Spec => []EffectsSerialized
<1>1. TypeOK /\ LockInv => EffectsSerialized
  <2> SUFFICES ASSUME TypeOK, LockInv, NEW t \in Threads, NEW step \in DeviceSteps,
                      At(t, step)
               PROVE  effects = t
    BY DEF EffectsSerialized
  <2> QED BY HolderWorks DEF At, Guarded
<1>2. (Spec => []TypeOK) /\ (Spec => []LockInv)
  BY TypeCorrect, LockDiscipline
<1> QED BY <1>1, <1>2, PTL DEF Spec

-----------------------------------------------------------------------------
(* The order of the monitor's steps. *)

\* The place of a step in the lists it is in; 0 for those that have several.
Rank(step) ==
    CASE step = "unlockCursor"                     -> 1
      [] step = "takeExternal"                     -> 2
      [] step = "restoreExternal"                  -> 3
      [] step \in {"restoreKeys", "relightKeys"}   -> 4
      [] step \in {"restorePanel", "relightPanel"} -> 5
      [] step = "stopCaffeinate"                   -> 6
      [] step = "readPanel"                        -> 1
      [] step \in {"dimPanel", "redimPanel"}       -> 2
      [] step \in {"captureKeys", "redimKeys"}     -> 3
      [] step = "captureExternal"                  -> 4
      [] step = "snapshot"                         -> 7
      [] step \in {"persist", "write"}             -> 8
      [] step = "lockCursor"                       -> 9
      [] step = "recaptureExternal"                -> 10
      [] step = "persistIfChanged"                 -> 11
      [] step \in {"observe", "exit"}              -> 11
      [] OTHER                                     -> 0

InOrder(s) ==
    \A i, j \in 1..Len(s) :
        i < j /\ Rank(s[i]) > 0 /\ Rank(s[j]) > 0 => Rank(s[i]) < Rank(s[j])

\* What restores, a first dim and a resumed one consist of.
Restoring == { "acquire", "unlockCursor", "takeExternal", "restoreExternal", "restoreKeys",
               "relightKeys", "restorePanel", "relightPanel", "stopCaffeinate", "release",
               "snapshot", "persist", "write", "observe", "exit" }
Starting  == { "acquire", "readPanel", "dimPanel", "captureKeys", "captureExternal",
               "startCaffeinate", "snapshot", "persist", "write", "lockCursor", "release",
               "relock" }
Resuming  == { "acquire", "redimPanel", "redimKeys", "lockCursor", "recaptureExternal",
               "startCaffeinate", "persistIfChanged" }

Within(s, kind) == \A i \in 1..Len(s) : s[i] \in kind

\* Steps that change what is saved.
Recording == { "takeExternal", "restoreExternal", "restoreKeys", "restorePanel", "readPanel",
               "dimPanel", "redimPanel", "captureKeys", "redimKeys", "captureExternal",
               "recaptureExternal" }

\* A list is of one kind and in order, and with a step left that may change what
\* is saved it has one left that decides whether to persist.
Ordered(s) ==
    /\ InOrder(s)
    /\ Within(s, Restoring) \/ Within(s, Starting) \/ Within(s, Resuming) \/ Within(s, {"load"})
    /\ \A x \in Recording : Has(s, x) => Has(s, "snapshot") \/ Has(s, "persistIfChanged")
    /\ Has(s, "snapshot") => Has(s, "persist") /\ ~Has(s, "write")

MonitorOrdered == Ordered(todo["monitor"])

\* A list of one kind has nothing of another.
LEMMA WithinHas == \A s, kind : Within(s, kind) <=> \A x : Has(s, x) => x \in kind
BY DEF Within, Has

\* A rank is a natural.
LEMMA RankType == \A x : Rank(x) \in Nat
BY DEF Rank

\* A list in order whose second part comes after its first.
LEMMA InOrderJoin ==
    ASSUME NEW s \in Lists, NEW u \in Lists, InOrder(s), InOrder(u),
           \A x, y : Has(s, x) /\ Has(u, y) /\ Rank(x) > 0 /\ Rank(y) > 0 => Rank(x) < Rank(y)
    PROVE  InOrder(s \o u)
<1>1. /\ Len(s) \in Nat /\ Len(u) \in Nat /\ Len(s \o u) = Len(s) + Len(u)
      /\ \A i \in 1..Len(s \o u) :
            (s \o u)[i] = IF i <= Len(s) THEN s[i] ELSE u[i - Len(s)]
  BY DEF Lists
<1> SUFFICES ASSUME NEW i \in 1..Len(s \o u), NEW j \in 1..Len(s \o u), i < j,
                    Rank((s \o u)[i]) > 0, Rank((s \o u)[j]) > 0
             PROVE  Rank((s \o u)[i]) < Rank((s \o u)[j])
  BY DEF InOrder
<1>2. CASE j <= Len(s)
  BY <1>1, <1>2 DEF InOrder
<1>3. CASE i > Len(s)
  <2>1. /\ i - Len(s) \in 1..Len(u) /\ j - Len(s) \in 1..Len(u) /\ i - Len(s) < j - Len(s)
        /\ (s \o u)[i] = u[i - Len(s)] /\ (s \o u)[j] = u[j - Len(s)]
    BY <1>1, <1>3
  <2> QED BY <2>1 DEF InOrder
<1>4. CASE i <= Len(s) /\ j > Len(s)
  <2>1. /\ i \in 1..Len(s) /\ (s \o u)[i] = s[i]
        /\ j - Len(s) \in 1..Len(u) /\ (s \o u)[j] = u[j - Len(s)]
    BY <1>1, <1>4
  <2>2. Has(s, s[i]) /\ Has(u, u[j - Len(s)])
    BY <2>1 DEF Has
  <2> QED BY <2>1, <2>2
<1> QED BY <1>1, <1>2, <1>3, <1>4

\* A list of one step is in order.
LEMMA InOrderSingle ==
    ASSUME NEW x
    PROVE  InOrder(<< x >>)
BY DEF InOrder

\* What follows the first step of a list in order comes later.
LEMMA InOrderTail ==
    ASSUME NEW s \in Lists, s # << >>, InOrder(s)
    PROVE  /\ InOrder(Tail(s))
           /\ \A x : Has(Tail(s), x) /\ Rank(Head(s)) > 0 /\ Rank(x) > 0 =>
                        Rank(Head(s)) < Rank(x)
<1>1. /\ Len(s) \in Nat /\ Len(s) > 0 /\ Len(Tail(s)) = Len(s) - 1 /\ Head(s) = s[1]
      /\ \A i \in 1..(Len(s) - 1) : Tail(s)[i] = s[i + 1] /\ i + 1 \in 1..Len(s)
  BY DEF Lists
<1>2. InOrder(Tail(s))
  <2> SUFFICES ASSUME NEW i \in 1..Len(Tail(s)), NEW j \in 1..Len(Tail(s)), i < j,
                      Rank(Tail(s)[i]) > 0, Rank(Tail(s)[j]) > 0
               PROVE  Rank(Tail(s)[i]) < Rank(Tail(s)[j])
    BY DEF InOrder
  <2>1. /\ i + 1 \in 1..Len(s) /\ j + 1 \in 1..Len(s) /\ i + 1 < j + 1
        /\ Tail(s)[i] = s[i + 1] /\ Tail(s)[j] = s[j + 1]
    BY <1>1
  <2> QED BY <2>1 DEF InOrder
<1>3. ASSUME NEW x, Has(Tail(s), x), Rank(Head(s)) > 0, Rank(x) > 0
      PROVE  Rank(Head(s)) < Rank(x)
  <2>1. PICK i \in 1..Len(Tail(s)) : Tail(s)[i] = x
    BY <1>3 DEF Has
  <2>2. 1 \in 1..Len(s) /\ i + 1 \in 1..Len(s) /\ 1 < i + 1 /\ s[i + 1] = x
    BY <1>1, <2>1
  <2> QED BY <1>1, <1>3, <2>2 DEF InOrder
<1> QED BY <1>2, <1>3

\* What is left of an ordered list is ordered, and all of it comes after the
\* first step.
LEMMA OrderedTail ==
    ASSUME NEW s \in Lists, s # << >>, Ordered(s)
    PROVE  /\ Ordered(Tail(s))
           /\ Has(s, Head(s))
           /\ \A x : Has(Tail(s), x) => Has(s, x)
           /\ \A x : Has(s, x) => Has(Tail(s), x) \/ x = Head(s)
           /\ \A x : Has(Tail(s), x) /\ Rank(Head(s)) > 0 /\ Rank(x) > 0 =>
                        Rank(Head(s)) < Rank(x)
<1>1. /\ Has(s, Head(s))
      /\ \A x : Has(Tail(s), x) => Has(s, x)
      /\ \A x : Has(s, x) => Has(Tail(s), x) \/ x = Head(s)
  BY TailKeeps, HeadHas
<1>2. /\ InOrder(Tail(s))
      /\ \A x : Has(Tail(s), x) /\ Rank(Head(s)) > 0 /\ Rank(x) > 0 => Rank(Head(s)) < Rank(x)
  BY InOrderTail DEF Ordered
<1>3. \/ Within(Tail(s), Restoring) \/ Within(Tail(s), Starting)
      \/ Within(Tail(s), Resuming) \/ Within(Tail(s), {"load"})
  BY <1>1, WithinHas DEF Ordered
<1>4. ASSUME NEW x \in Recording, Has(Tail(s), x)
      PROVE  Has(Tail(s), "snapshot") \/ Has(Tail(s), "persistIfChanged")
  <2>1. Has(s, x) /\ (Has(s, "snapshot") \/ Has(s, "persistIfChanged"))
    BY <1>1, <1>4 DEF Ordered
  <2>2. Rank(x) \in 1..10
    BY DEF Recording, Rank
  <2>3. Head(s) # "persistIfChanged"
    <3> SUFFICES ASSUME Head(s) = "persistIfChanged" PROVE FALSE
      OBVIOUS
    <3>1. Rank(Head(s)) = 11
      BY DEF Rank
    <3> QED BY <1>2, <1>4, <2>2, <3>1
  <2>4. Head(s) # "snapshot"
    <3> SUFFICES ASSUME Head(s) = "snapshot" PROVE FALSE
      OBVIOUS
    <3>1. Rank(Head(s)) = 7
      BY DEF Rank
    <3>2. Rank(x) > 7
      BY <1>2, <1>4, <2>2, <3>1
    <3>3. x = "recaptureExternal"
      BY <3>2 DEF Recording, Rank
    <3>4. Within(s, Resuming)
      BY <2>1, <3>3, WithinHas DEF Ordered, Restoring, Starting
    <3> QED BY <1>1, <3>4, WithinHas DEF Resuming
  <2> QED BY <1>1, <2>1, <2>3, <2>4
<1>5. Has(Tail(s), "snapshot") => Has(Tail(s), "persist") /\ ~Has(Tail(s), "write")
  <2>1. ASSUME Has(Tail(s), "snapshot") PROVE Head(s) # "persist"
    <3> SUFFICES ASSUME Head(s) = "persist" PROVE FALSE
      OBVIOUS
    <3>1. Rank(Head(s)) = 8 /\ Rank("snapshot") = 7
      BY DEF Rank
    <3> QED BY <1>2, <2>1, <3>1
  <2> QED BY <1>1, <2>1 DEF Ordered
<1> QED BY <1>1, <1>2, <1>3, <1>4, <1>5 DEF Ordered

\* The rank of a step of a restore, and of what a section ends with.
LEMMA RestoreRanks ==
    /\ \A x \in {"unlockCursor", "takeExternal", "restoreExternal", "restoreKeys", "relightKeys",
                 "restorePanel", "relightPanel", "stopCaffeinate"} : Rank(x) \in 1..6
    /\ Rank("acquire") = 0 /\ Rank("release") = 0 /\ Rank("relock") = 0 /\ Rank("load") = 0
    /\ Rank("snapshot") = 7 /\ Rank("persist") = 8 /\ Rank("write") = 8
    /\ Rank("observe") = 11 /\ Rank("exit") = 11
BY DEF Rank

\* What a section of device steps in order does is ordered, whether it persists
\* before it gives the lock back or after.
LEMMA SectionOrdered ==
    ASSUME NEW s \in Lists, InOrder(s),
           \A x : Has(s, x) => x \in {"unlockCursor", "takeExternal", "restoreExternal",
                                      "restoreKeys", "relightKeys", "restorePanel",
                                      "relightPanel", "stopCaffeinate"}
    PROVE  /\ Ordered(Inside(s))
           /\ \A x \in {"observe", "exit"} : Ordered(Outside(s) \o << x >>)
<1>1. /\ Persist \in Lists /\ << "acquire" >> \in Lists /\ << "release" >> \in Lists
      /\ \A x : Has(Persist, x) <=> x \in {"snapshot", "persist"}
  <2>1. \A x : Has(Persist, x) <=> x \in {"snapshot", "persist"}
    BY DEF Persist, Has
  <2> QED BY <2>1, StepListTypes
<1>2. InOrder(Persist)
  BY RestoreRanks DEF Persist, InOrder
<1>3. \A x : Has(s, x) => Rank(x) \in 1..6
  BY RestoreRanks
<1> DEFINE opened == << "acquire" >> \o s
           persisted == opened \o Persist
           released == opened \o << "release" >>
<1>4. opened \in Lists /\ \A x : Has(opened, x) <=> x = "acquire" \/ Has(s, x)
  BY <1>1, JoinType, HasJoin, SingleHas
<1>5. InOrder(opened)
  BY <1>1, InOrderJoin, InOrderSingle, SingleHas, RestoreRanks
<1>6. ASSUME NEW x, Has(opened, x) PROVE Rank(x) < 7
  <2>1. Rank("acquire") = 0
    BY RestoreRanks
  <2>2. Has(s, x) => Rank(x) \in 1..6
    BY <1>3
  <2>3. x = "acquire" \/ Has(s, x)
    BY <1>4, <1>6
  <2>4. CASE x = "acquire"
    BY <2>1, <2>4
  <2>5. CASE Has(s, x)
    BY <2>2, <2>5
  <2> QED BY <2>3, <2>4, <2>5
<1> HIDE DEF opened
<1>7. persisted \in Lists /\ \A x : Has(persisted, x) <=> Has(opened, x) \/ Has(Persist, x)
  BY <1>1, <1>4, JoinType, HasJoin
<1>8. InOrder(persisted)
  <2>1. \A x, y : Has(opened, x) /\ Has(Persist, y) => Rank(x) < Rank(y)
    BY <1>1, <1>6, RestoreRanks, RankType
  <2> QED BY <1>1, <1>2, <1>4, <1>5, <2>1, InOrderJoin
<1>9. /\ released \in Lists /\ InOrder(released)
      /\ \A x : Has(released, x) <=> Has(opened, x) \/ x = "release"
  <2>1. released \in Lists /\ \A x : Has(released, x) <=> Has(opened, x) \/ x = "release"
    BY <1>1, <1>4, JoinType, HasJoin, SingleHas
  <2>2. \A y : Has(<< "release" >>, y) => ~(Rank(y) > 0)
    BY SingleHas, RestoreRanks
  <2>3. InOrder(released)
    BY <1>1, <1>4, <1>5, <2>2, InOrderJoin, InOrderSingle
  <2> QED BY <2>1, <2>3
<1> HIDE DEF persisted, released
<1>10. Ordered(Inside(s))
  <2>1. Inside(s) = persisted \o << "release" >>
    BY DEF Inside, persisted, opened
  <2>2. InOrder(Inside(s))
    BY <1>1, <1>7, <1>8, <2>1, InOrderJoin, InOrderSingle, SingleHas, RestoreRanks
  <2>3. \A x : Has(Inside(s), x)
                 <=> x \in {"acquire", "release", "snapshot", "persist"} \/ Has(s, x)
    BY InsideHas
  <2>4. Within(Inside(s), Restoring)
    BY <2>3, WithinHas DEF Restoring
  <2> QED BY <2>2, <2>3, <2>4 DEF Ordered
<1>11. ASSUME NEW x \in {"observe", "exit"} PROVE Ordered(Outside(s) \o << x >>)
  <2>1. /\ Outside(s) \in Lists /\ Outside(s) = released \o Persist
        /\ \A y : Has(Outside(s), y)
                    <=> y \in {"acquire", "release", "snapshot", "persist"} \/ Has(s, y)
    BY OutsideHas DEF Outside, released, opened
  <2>2. InOrder(Outside(s))
    <3>1. \A y, z : Has(released, y) /\ Has(Persist, z) => Rank(y) < Rank(z)
      BY <1>1, <1>6, <1>9, RestoreRanks, RankType
    <3> QED BY <1>1, <1>2, <1>9, <2>1, <3>1, InOrderJoin
  <2>3. << x >> \in Lists /\ \A y : Has(<< x >>, y) <=> y = x
    BY SingletonType, SingleHas DEF Steps
  <2>4. \A y : Has(Outside(s) \o << x >>, y) <=> Has(Outside(s), y) \/ y = x
    BY <2>1, <2>3, HasJoin
  <2>5. InOrder(Outside(s) \o << x >>)
    <3>1. \A y : Has(Outside(s), y) => Rank(y) < 11
      BY <1>3, <2>1, RestoreRanks
    <3>2. \A y, z : Has(Outside(s), y) /\ Has(<< x >>, z) => Rank(y) < Rank(z)
      BY <2>3, <3>1, RestoreRanks
    <3> QED BY <2>1, <2>2, <2>3, <3>2, InOrderJoin, InOrderSingle
  <2>6. Within(Outside(s) \o << x >>, Restoring)
    BY <2>1, <2>4, WithinHas DEF Restoring
  <2> QED BY <2>1, <2>4, <2>5, <2>6 DEF Ordered
<1> QED BY <1>10, <1>11

\* The sections of device steps are in order.
LEMMA EffectsOrdered ==
    /\ Ordered(Inside(RestoreEffects)) /\ Ordered(Inside(KeepEffects))
    /\ Ordered(Inside(PrepareEffects))
    /\ Ordered(RecoverSteps) /\ Ordered(ShutdownSteps)
<1>1. RestoreEffects \in Lists /\ KeepEffects \in Lists /\ PrepareEffects \in Lists
  BY StepListTypes
<1>2. InOrder(RestoreEffects)
  BY DEF RestoreEffects, InOrder, Rank
<1>3. InOrder(KeepEffects)
  BY DEF KeepEffects, InOrder, Rank
<1>4. InOrder(PrepareEffects)
  BY DEF PrepareEffects, InOrder, Rank
<1>5. /\ Ordered(Inside(RestoreEffects))
      /\ \A x \in {"observe", "exit"} : Ordered(Outside(RestoreEffects) \o << x >>)
  BY <1>1, <1>2, EffectsHave, SectionOrdered
<1>6. Ordered(Inside(KeepEffects)) /\ Ordered(Inside(PrepareEffects))
  BY <1>1, <1>3, <1>4, EffectsHave, SectionOrdered
<1> QED BY <1>5, <1>6 DEF RecoverSteps, ShutdownSteps

\* The two lists that dim are ordered.
LEMMA DimmingOrdered == Ordered(StartSteps) /\ Ordered(ResumeSteps)
<1>1. InOrder(StartSteps)
  BY DEF StartSteps, InOrder, Rank
<1>2. InOrder(ResumeSteps)
  BY DEF ResumeSteps, InOrder, Rank
<1>3. Within(StartSteps, Starting) /\ Within(ResumeSteps, Resuming)
  BY DimmingHas, WithinHas DEF Starting, Resuming
<1>4. /\ Has(StartSteps, "snapshot") /\ Has(StartSteps, "persist") /\ ~Has(StartSteps, "write")
      /\ Has(ResumeSteps, "persistIfChanged") /\ ~Has(ResumeSteps, "snapshot")
  BY DimmingHas
<1> QED BY <1>1, <1>2, <1>3, <1>4 DEF Ordered

\* What is left of a dim that ends early, and what forgets it, is ordered.
LEMMA ForgetHas ==
    ASSUME NEW x
    PROVE  Has(ForgetSteps, x) <=> x \in {"snapshot", "persist", "release"}
<1>1. Persist \in Lists /\ << "release" >> \in Lists
  BY StepListTypes
<1>2. Has(Persist, x) <=> x \in {"snapshot", "persist"}
  BY DEF Persist, Has
<1> QED BY <1>1, <1>2, HasJoin, SingleHas DEF ForgetSteps

\* The short lists are ordered.
LEMMA ShortOrdered ==
    /\ Ordered(<< >>) /\ Ordered(BootSteps) /\ Ordered(ForgetSteps)
    /\ \A x \in {"release", "relock", "observe"} : Ordered(<< x >>)
<1>1. Ordered(<< >>)
  BY EmptyHas, WithinHas DEF Ordered, InOrder
<1>2. Ordered(BootSteps)
  BY SingleHas, InOrderSingle, WithinHas DEF BootSteps, Ordered, Recording
<1>3. Ordered(ForgetSteps)
  <2>1. Persist \in Lists /\ << "release" >> \in Lists
    BY StepListTypes
  <2>2. InOrder(Persist)
    BY RestoreRanks DEF Persist, InOrder
  <2>3. InOrder(ForgetSteps)
    BY <2>1, <2>2, InOrderJoin, InOrderSingle, SingleHas, RestoreRanks DEF ForgetSteps
  <2>4. Within(ForgetSteps, Restoring)
    BY ForgetHas, WithinHas DEF Restoring
  <2> QED BY <2>3, <2>4, ForgetHas DEF Ordered, Recording
<1>4. ASSUME NEW x \in {"release", "relock", "observe"} PROVE Ordered(<< x >>)
  <2>1. /\ \A y : Has(<< x >>, y) <=> y = x
        /\ InOrder(<< x >>)
    BY SingleHas, InOrderSingle
  <2>2. Within(<< x >>, Restoring) \/ Within(<< x >>, Starting)
    BY <2>1, WithinHas DEF Restoring, Starting
  <2> QED BY <2>1, <2>2 DEF Ordered, Recording
<1> QED BY <1>1, <1>2, <1>3, <1>4

\* The write takes the place of the persist that opened the file.
LEMMA OrderedWrite ==
    ASSUME NEW s \in Lists, s # << >>, Ordered(s), Head(s) = "persist"
    PROVE  /\ Ordered(<< "write" >> \o Tail(s))
           /\ \A x : Has(<< "write" >> \o Tail(s), x) <=> x = "write" \/ Has(Tail(s), x)
           /\ ~Has(s, "snapshot") /\ ~Has(Tail(s), "persist") /\ ~Has(Tail(s), "write")
<1>1. Tail(s) \in Lists /\ << "write" >> \in Lists
  BY TailType, StepListTypes
<1>2. /\ Ordered(Tail(s)) /\ Has(s, "persist")
      /\ \A x : Has(Tail(s), x) => Has(s, x)
      /\ \A x : Has(s, x) => Has(Tail(s), x) \/ x = "persist"
      /\ \A x : Has(Tail(s), x) /\ Rank(x) > 0 => 8 < Rank(x)
  BY OrderedTail, RestoreRanks
<1>3. /\ \A x : Has(<< "write" >> \o Tail(s), x) <=> x = "write" \/ Has(Tail(s), x)
      /\ ~Has(s, "snapshot") /\ ~Has(Tail(s), "persist") /\ ~Has(Tail(s), "write")
  BY <1>1, <1>2, HasJoin, SingleHas, RestoreRanks
<1>4. InOrder(<< "write" >> \o Tail(s))
  <2>1. InOrder(Tail(s))
    BY <1>2 DEF Ordered
  <2> QED BY <1>1, <1>2, <2>1, InOrderJoin, InOrderSingle, SingleHas, RestoreRanks
<1>5. Within(Tail(s), Restoring) \/ Within(Tail(s), Starting)
  BY <1>2, WithinHas DEF Ordered, Resuming
<1>6. \/ Within(<< "write" >> \o Tail(s), Restoring)
      \/ Within(<< "write" >> \o Tail(s), Starting)
  BY <1>3, <1>5, WithinHas DEF Restoring, Starting
<1>7. \A x \in Recording : Has(Tail(s), x) => Has(Tail(s), "persistIfChanged")
  BY <1>2, <1>3 DEF Ordered
<1> QED BY <1>2, <1>3, <1>4, <1>6, <1>7 DEF Ordered, Recording

\* Every action's list is ordered.
LEMMA ActionOrdered ==
    ASSUME NEW action \in Actions
    PROVE  Ordered(ActionSteps(action))
BY EffectsOrdered, DimmingOrdered, ShortOrdered DEF ActionSteps, Actions

\* A thread takes the next step of its list.
LEMMA OrderPasses ==
    ASSUME TypeOK, MonitorOrdered, NEW t \in Threads, todo[t] # << >>, Done(t)
    PROVE  MonitorOrdered'
<1>1. todo' = [todo EXCEPT ![t] = Tail(todo[t])] /\ todo \in [Threads -> Lists]
  BY DEF Done, Continue, TypeOK, TodoType, Lists
<1>2. \/ todo'["monitor"] = todo["monitor"]
      \/ todo["monitor"] # << >> /\ todo'["monitor"] = Tail(todo["monitor"])
  <2>1. CASE t = "monitor"
    BY <1>1, <2>1, ThreadsDiffer
  <2>2. CASE t = "power"
    BY <1>1, <2>2, ThreadsDiffer
  <2> QED BY <2>1, <2>2, ThreadsDiffer
<1> QED BY <1>1, <1>2, OrderedTail, ThreadsDiffer DEF MonitorOrdered

\* A thread goes on with a list.
LEMMA OrderJumps ==
    ASSUME TypeOK, MonitorOrdered, NEW t \in Threads, NEW steps, Continue(t, steps),
           t = "power" \/ Ordered(steps)
    PROVE  MonitorOrdered'
<1>1. todo' = [todo EXCEPT ![t] = steps] /\ todo \in [Threads -> Lists]
  BY DEF Continue, TypeOK, TodoType, Lists
<1>2. \/ todo'["monitor"] = todo["monitor"]
      \/ t = "monitor" /\ todo'["monitor"] = steps
  <2>1. CASE t = "monitor"
    BY <1>1, <2>1, ThreadsDiffer
  <2>2. CASE t = "power"
    BY <1>1, <2>2, ThreadsDiffer
  <2> QED BY <2>1, <2>2, ThreadsDiffer
<1> QED BY <1>2 DEF MonitorOrdered

\* The steps both threads take.
LEMMA SharedOrder ==
    ASSUME TypeOK, MonitorOrdered, NEW t \in Threads, Shared(t)
    PROVE  MonitorOrdered'
<1>1. CASE \/ Acquire(t) \/ Release(t) \/ UnlockCursor(t) \/ StopCaffeinate(t)
           \/ RestoreKeys(t) \/ RestorePanel(t) \/ Snapshot(t)
  BY <1>1, OrderPasses
  DEF Acquire, Release, UnlockCursor, StopCaffeinate, RestoreKeys, RestorePanel, Snapshot, At
<1>2. CASE Write(t)
  BY <1>2, OrderPasses DEF Write, Persisted, At
<1>3. CASE PersistImage(t)
  <2>1. todo[t] # << >> /\ Head(todo[t]) = "persist"
    BY <1>3 DEF PersistImage, At
  <2>2. CASE Done(t)
    BY <2>1, <2>2, OrderPasses
  <2>3. CASE Continue(t, << "write" >> \o Tail(todo[t]))
    <3>1. t = "monitor" => Ordered(<< "write" >> \o Tail(todo[t]))
      BY <2>1, OrderedWrite, ThreadsDiffer DEF MonitorOrdered, TypeOK, TodoType, Lists
    <3> QED BY <2>3, <3>1, OrderJumps, ThreadsDiffer
  <2> QED BY <1>3, <2>2, <2>3 DEF PersistImage, Persisted
<1> QED BY <1>1, <1>2, <1>3 DEF Shared

\* The steps only the monitor takes.
LEMMA MonitorOnlyOrder ==
    ASSUME TypeOK, MonitorOrdered, MonitorOnly
    PROVE  MonitorOrdered'
<1> "monitor" \in Threads
  BY ThreadsDiffer
<1>1. CASE \/ TakeExternal \/ RestoreExternal \/ RedimKeys \/ CaptureExternal
           \/ RecaptureExternal \/ StartCaffeinate \/ LockCursor \/ StartObserver
  BY <1>1, OrderPasses
  DEF TakeExternal, RestoreExternal, RedimKeys, CaptureExternal, RecaptureExternal,
      StartCaffeinate, LockCursor, StartObserver, At
<1>2. CASE ReadPanel
  BY <1>2, OrderPasses, OrderJumps, ShortOrdered DEF ReadPanel, At
<1>3. CASE DimPanel
  BY <1>3, OrderPasses, OrderJumps, ShortOrdered DEF DimPanel, ForgetPending, At
<1>4. CASE RedimPanel
  BY <1>4, OrderPasses, OrderJumps, ShortOrdered DEF RedimPanel, ForgetPending, At
<1>5. CASE CaptureKeys
  BY <1>5, OrderPasses, OrderJumps, ShortOrdered DEF CaptureKeys, At
<1>6. CASE PersistIfChanged
  <2>1. Continue("monitor", ForgetSteps) \/ Continue("monitor", << "release" >>)
    BY <1>6 DEF PersistIfChanged
  <2> QED BY <2>1, OrderJumps, ShortOrdered
<1>7. CASE Load
  <2>1. Continue("monitor", RecoverSteps) \/ Continue("monitor", << "observe" >>)
    BY <1>7 DEF Load
  <2> QED BY <2>1, OrderJumps, ShortOrdered, EffectsOrdered
<1>8. CASE ReadAngle
  BY <1>8 DEF ReadAngle, MonitorOrdered
<1>9. CASE Decide
  <2>1. Decision(policy, angle, Pending).action \in Actions
    <3>1. angle \in Angles
      BY <1>9 DEF TypeOK, LoopType, Option, Decide
    <3> QED BY <3>1, DecisionType DEF TypeOK, Decisions
  <2>2. Continue("monitor", ActionSteps(Decision(policy, angle, Pending).action))
    BY <1>9 DEF Decide
  <2> QED BY <2>1, <2>2, OrderJumps, ActionOrdered
<1>10. CASE LeaveLoop
  BY <1>10, OrderJumps, EffectsOrdered DEF LeaveLoop
<1>11. CASE Exit
  <2>1. todo'["monitor"] = << >>
    BY <1>11 DEF Exit, Die
  <2> QED BY <2>1, ShortOrdered DEF MonitorOrdered
<1> QED BY <1>1, <1>2, <1>3, <1>4, <1>5, <1>6, <1>7, <1>8, <1>9, <1>10, <1>11
        DEF MonitorOnly

\* No step puts the monitor's list out of order.
LEMMA NextOrdered ==
    ASSUME TypeOK, MonitorOrdered, [Next]_vars
    PROVE  MonitorOrdered'
<1> "monitor" \in Threads /\ "power" \in Threads
  BY ThreadsDiffer
<1>1. CASE Monitor
  BY <1>1, SharedOrder, MonitorOnlyOrder DEF Monitor
<1>2. CASE PowerThread
  <2>1. CASE WillSleep
    BY <2>1, OrderJumps DEF WillSleep
  <2>2. CASE AllowSleep
    BY <2>2, OrderPasses DEF AllowSleep, At
  <2>3. CASE DidWake
    BY <2>3 DEF DidWake, MonitorOrdered
  <2> QED BY <1>2, <2>1, <2>2, <2>3, SharedOrder DEF PowerThread
<1>3. CASE World
  <2>1. CASE Launch
    BY <2>1, OrderJumps, ShortOrdered DEF Launch
  <2>2. CASE Crash \/ ObserverFails
    <3>1. todo'["monitor"] = << >>
      BY <2>2 DEF Crash, ObserverFails, Die
    <3> QED BY <3>1, ShortOrdered DEF MonitorOrdered
  <2>3. CASE PowerChange \/ MoveLid \/ ChangePanel \/ ChangeKeys \/ Signal \/ BecomeCalm
    BY <2>3 DEF PowerChange, MoveLid, ChangePanel, ChangeKeys, Signal, BecomeCalm, MonitorOrdered
  <2>4. CASE \E d \in Displays : Hotplug(d)
    BY <2>4 DEF Hotplug, MonitorOrdered
  <2> QED BY <1>3, <2>1, <2>2, <2>3, <2>4 DEF World
<1>4. CASE Tick
  BY <1>4 DEF Tick, MonitorOrdered
<1>5. CASE UNCHANGED vars
  BY <1>5 DEF vars, MonitorOrdered
<1> QED BY <1>1, <1>2, <1>3, <1>4, <1>5 DEF Next

\* What is left of the monitor's list is always of one kind and in the order of
\* the functions, and while a step that may change what is saved is left, so is
\* a snapshot or the question whether to take one.  It says nothing of what the
\* steps do: the invariants about memory, file and devices are stated over it.
LEMMA StepsInOrder == Spec => []MonitorOrdered
<1>1. Init => MonitorOrdered
  <2>1. Init => todo["monitor"] = << >>
    BY ThreadsDiffer DEF Init
  <2> QED BY <2>1, ShortOrdered DEF MonitorOrdered
<1>2. TypeOK /\ MonitorOrdered /\ [Next]_vars => MonitorOrdered'
  BY NextOrdered
<1>3. Spec => []TypeOK
  BY TypeCorrect
<1> QED BY <1>1, <1>2, <1>3, PTL DEF Spec
-----------------------------------------------------------------------------
(* The caffeinate session and a closed lid. *)

\* A session outlives the decision about a closed lid only until the step that
\* stops it, and no list that starts one runs on after such a decision.
SessionInv ==
    /\ policy.lastLid = "fullyClosed" /\ caffeinate => Has(todo["monitor"], "stopCaffeinate")
    /\ Has(todo["monitor"], "startCaffeinate") => policy.lastLid # "fullyClosed"

\* Stopping a session does not fail.
SessionStops == "caffeinateStop" \notin Environment

\* What a decision means for the session: it leaves the policy alone, or the
\* lid is not closed, or the session is stopped unless there is none.
LEMMA DecisionSession ==
    ASSUME NEW p \in Policy, NEW a \in Angles, NEW pending
    PROVE  LET decision == Decision(p, a, pending)
           IN  \/ decision.policy = p /\ decision.action = "none"
               \/ decision.policy.lastLid # "fullyClosed"
               \/ decision.action = "prepare"
               \/ decision.action = "none" /\ "caffeinate" \notin pending
<1> DEFINE position == LidStateForAngle(a)
           moved == p.lastLid # position
           handled == CASE position = "fullyClosed"     -> HandleFullyClosed(p, moved, pending)
                        [] position = "partiallyClosed" -> HandlePartiallyClosed(p, a, pending)
                        [] position = "open"            -> HandleOpen(p, moved, pending)
           noted == [handled EXCEPT !.policy.lastAngle = a, !.policy.lastLid = position]
<1>1. position \in {"fullyClosed", "partiallyClosed", "open"}
  BY DEF LidStateForAngle
<1>2. Decision(p, a, pending) = IF p.sleeping THEN [policy |-> p, action |-> "none"] ELSE noted
  BY DEF Decision
<1>3. handled \in Decisions
  BY <1>1, FullyClosedType, PartiallyClosedType, OpenType
<1>4. /\ handled = [policy |-> handled.policy, action |-> handled.action]
      /\ handled.policy \in Policy
  BY <1>3 DEF Decisions
<1>5. position = "fullyClosed" =>
         \/ handled.action = "prepare"
         \/ handled.action = "none" /\ "caffeinate" \notin pending
  BY DEF HandleFullyClosed
<1> HIDE DEF handled, position
<1>6. noted.action = handled.action /\ noted.policy.lastLid = position
  BY <1>4 DEF Policy
<1> HIDE DEF noted
<1> QED BY <1>2, <1>5, <1>6

\* The session's part of a step: the lid the policy knows stays, no session
\* begins, and the monitor's list gets nothing new and loses the stop only
\* with the session.
LEMMA SessionKept ==
    ASSUME SessionInv,
           policy'.lastLid = policy.lastLid \/ policy'.lastLid # "fullyClosed",
           caffeinate' => caffeinate \/ policy'.lastLid # "fullyClosed",
           Has(todo'["monitor"], "startCaffeinate") => Has(todo["monitor"], "startCaffeinate"),
           caffeinate' /\ Has(todo["monitor"], "stopCaffeinate") =>
               Has(todo'["monitor"], "stopCaffeinate")
    PROVE  SessionInv'
BY DEF SessionInv

\* A thread takes the next step of its list and begins no session; if that is
\* the stop, there is none left.
LEMMA SessionPasses ==
    ASSUME TypeOK, MonitorOrdered, SessionInv, NEW t \in Threads, todo[t] # << >>, Done(t),
           policy' = policy, caffeinate' => caffeinate,
           At(t, "stopCaffeinate") => ~caffeinate'
    PROVE  SessionInv'
<1>1. todo' = [todo EXCEPT ![t] = Tail(todo[t])] /\ todo \in [Threads -> Lists]
  BY DEF Done, Continue, TypeOK, TodoType, Lists
<1>2. CASE t = "monitor"
  <2>1. todo'["monitor"] = Tail(todo["monitor"])
    BY <1>1, <1>2, ThreadsDiffer
  <2>2. /\ \A x : Has(Tail(todo["monitor"]), x) => Has(todo["monitor"], x)
        /\ \A x : Has(todo["monitor"], x) =>
                     Has(Tail(todo["monitor"]), x) \/ x = Head(todo["monitor"])
    BY <1>1, <1>2, OrderedTail, ThreadsDiffer DEF MonitorOrdered
  <2> QED BY <1>2, <2>1, <2>2, SessionKept DEF At
<1>3. CASE t = "power"
  <2>1. todo'["monitor"] = todo["monitor"]
    BY <1>1, <1>3, ThreadsDiffer
  <2> QED BY <2>1, SessionKept
<1> QED BY <1>2, <1>3, ThreadsDiffer

\* The monitor leaves a list that stops no session for one that starts none.
LEMMA SessionJumps ==
    ASSUME TypeOK, SessionInv, NEW steps, Continue("monitor", steps),
           ~Has(todo["monitor"], "stopCaffeinate"), ~Has(steps, "startCaffeinate"),
           policy' = policy, caffeinate' = caffeinate
    PROVE  SessionInv'
<1>1. todo'["monitor"] = steps
  BY ThreadsDiffer DEF Continue, TypeOK, TodoType
<1> QED BY <1>1, SessionKept

\* A list that dims or loads stops no session.
LEMMA NoStopYet ==
    ASSUME TypeOK, MonitorOrdered, todo["monitor"] # << >>,
           Head(todo["monitor"]) \in {"readPanel", "dimPanel", "redimPanel", "captureKeys",
                                      "persistIfChanged", "load"}
    PROVE  ~Has(todo["monitor"], "stopCaffeinate")
<1>1. todo["monitor"] \in Lists
  BY ThreadsDiffer DEF TypeOK, TodoType, Lists
<1>2. Has(todo["monitor"], Head(todo["monitor"]))
  BY <1>1, HeadHas
<1> QED BY <1>2, WithinHas DEF MonitorOrdered, Ordered, Restoring, Starting, Resuming

\* Recovering and shutting down start no session.
LEMMA RestoringStarts ==
    ~Has(RecoverSteps, "startCaffeinate") /\ ~Has(ShutdownSteps, "startCaffeinate")
<1>1. /\ Outside(RestoreEffects) \in Lists
      /\ ~Has(Outside(RestoreEffects), "startCaffeinate")
  BY OutsideHas, EffectsHave, StepListTypes
<1>2. /\ << "observe" >> \in Lists /\ << "exit" >> \in Lists
      /\ ~Has(<< "observe" >>, "startCaffeinate") /\ ~Has(<< "exit" >>, "startCaffeinate")
  BY SingletonType, SingleHas DEF Steps
<1> QED BY <1>1, <1>2, HasJoin DEF RecoverSteps, ShutdownSteps

\* The steps both threads take.
LEMMA SharedSession ==
    ASSUME TypeOK, MonitorOrdered, SessionInv, SessionStops, NEW t \in Threads, Shared(t)
    PROVE  SessionInv'
<1>1. CASE Acquire(t) \/ Release(t) \/ Snapshot(t)
  <2>1. ~At(t, "stopCaffeinate") /\ todo[t] # << >> /\ Done(t)
    BY <1>1 DEF Acquire, Release, Snapshot, At
  <2>2. UNCHANGED << policy, caffeinate >>
    BY <1>1 DEF Acquire, Release, Snapshot, flagVars
  <2> QED BY <2>1, <2>2, SessionPasses
<1>2. CASE UnlockCursor(t) \/ RestoreKeys(t) \/ RestorePanel(t)
  <2>1. ~At(t, "stopCaffeinate") /\ todo[t] # << >> /\ Done(t)
    BY <1>2 DEF UnlockCursor, RestoreKeys, RestorePanel, At
  <2>2. UNCHANGED << policy, caffeinate >>
    BY <1>2 DEF UnlockCursor, RestoreKeys, RestorePanel, flagVars
  <2> QED BY <2>1, <2>2, SessionPasses
<1>3. CASE StopCaffeinate(t)
  <2>1. todo[t] # << >> /\ Done(t) /\ policy' = policy /\ ~caffeinate'
    BY <1>3 DEF StopCaffeinate, At, May, SessionStops
  <2> QED BY <2>1, SessionPasses
<1>4. CASE Write(t)
  <2>1. ~At(t, "stopCaffeinate") /\ todo[t] # << >> /\ Done(t)
    BY <1>4 DEF Write, Persisted, At
  <2>2. UNCHANGED << policy, caffeinate >>
    BY <1>4 DEF Write, flagVars
  <2> QED BY <2>1, <2>2, SessionPasses
<1>5. CASE PersistImage(t)
  <2>1. Head(todo[t]) = "persist" /\ todo[t] # << >> /\ UNCHANGED << policy, caffeinate >>
    BY <1>5 DEF PersistImage, At, flagVars
  <2>2. CASE Done(t)
    BY <2>1, <2>2, SessionPasses DEF At
  <2>3. CASE Continue(t, << "write" >> \o Tail(todo[t]))
    <3>1. todo' = [todo EXCEPT ![t] = << "write" >> \o Tail(todo[t])] /\ todo \in [Threads -> Lists]
      BY <2>3 DEF Continue, TypeOK, TodoType, Lists
    <3>2. CASE t = "monitor"
      <4>1. todo'["monitor"] = << "write" >> \o Tail(todo["monitor"])
        BY <3>1, <3>2, ThreadsDiffer
      <4>2. /\ todo["monitor"] \in Lists /\ todo["monitor"] # << >>
            /\ Ordered(todo["monitor"]) /\ Head(todo["monitor"]) = "persist"
        BY <2>1, <3>1, <3>2, ThreadsDiffer DEF MonitorOrdered
      <4>3. \A x : Has(<< "write" >> \o Tail(todo["monitor"]), x)
                      <=> x = "write" \/ Has(Tail(todo["monitor"]), x)
        BY <4>2, OrderedWrite
      <4>4. /\ \A x : Has(Tail(todo["monitor"]), x) => Has(todo["monitor"], x)
            /\ \A x : Has(todo["monitor"], x) => Has(Tail(todo["monitor"]), x) \/ x = "persist"
        BY <4>2, OrderedTail
      <4> QED BY <2>1, <4>1, <4>3, <4>4, SessionKept
    <3>3. CASE t = "power"
      <4>1. todo'["monitor"] = todo["monitor"]
        BY <3>1, <3>3, ThreadsDiffer
      <4> QED BY <2>1, <4>1, SessionKept
    <3> QED BY <3>2, <3>3, ThreadsDiffer
  <2> QED BY <1>5, <2>2, <2>3 DEF PersistImage, Persisted
<1> QED BY <1>1, <1>2, <1>3, <1>4, <1>5 DEF Shared

\* The steps only the monitor takes.
LEMMA MonitorOnlySession ==
    ASSUME TypeOK, MonitorOrdered, SessionInv, MonitorOnly
    PROVE  SessionInv'
<1> "monitor" \in Threads
  BY ThreadsDiffer
<1>1. CASE TakeExternal \/ RestoreExternal \/ RedimKeys \/ CaptureExternal
  <2>1. /\ ~At("monitor", "stopCaffeinate") /\ todo["monitor"] # << >> /\ Done("monitor")
    BY <1>1 DEF TakeExternal, RestoreExternal, RedimKeys, CaptureExternal, At
  <2>2. UNCHANGED << policy, caffeinate >>
    BY <1>1 DEF TakeExternal, RestoreExternal, RedimKeys, CaptureExternal, flagVars
  <2> QED BY <2>1, <2>2, SessionPasses
<1>2. CASE RecaptureExternal \/ LockCursor \/ StartObserver
  <2>1. ~At("monitor", "stopCaffeinate") /\ todo["monitor"] # << >> /\ Done("monitor")
    BY <1>2 DEF RecaptureExternal, LockCursor, StartObserver, At
  <2>2. UNCHANGED << policy, caffeinate >>
    BY <1>2 DEF RecaptureExternal, LockCursor, StartObserver, flagVars
  <2> QED BY <2>1, <2>2, SessionPasses
<1>3. CASE StartCaffeinate
  <2>1. /\ todo["monitor"] # << >> /\ Head(todo["monitor"]) = "startCaffeinate"
        /\ todo' = [todo EXCEPT !["monitor"] = Tail(todo["monitor"])] /\ policy' = policy
    BY <1>3 DEF StartCaffeinate, At, Done, Continue
  <2>2. todo["monitor"] \in Lists /\ todo'["monitor"] = Tail(todo["monitor"])
    BY <2>1 DEF TypeOK, TodoType, Lists
  <2>3. /\ Has(todo["monitor"], "startCaffeinate")
        /\ \A x : Has(Tail(todo["monitor"]), x) => Has(todo["monitor"], x)
    BY <2>1, <2>2, OrderedTail DEF MonitorOrdered
  <2> QED BY <2>1, <2>2, <2>3 DEF SessionInv
<1>4. CASE ReadPanel
  <2>1. UNCHANGED << policy, caffeinate >> /\ At("monitor", "readPanel")
    BY <1>4 DEF ReadPanel, flagVars
  <2>2. ~Has(todo["monitor"], "stopCaffeinate") /\ todo["monitor"] # << >>
    BY <2>1, NoStopYet DEF At
  <2>3. Done("monitor") \/ Continue("monitor", << "release" >>)
    BY <1>4 DEF ReadPanel
  <2> QED BY <2>1, <2>2, <2>3, SessionPasses, SessionJumps, SingleHas DEF At
<1>5. CASE DimPanel \/ RedimPanel
  <2>1. UNCHANGED << policy, caffeinate >> /\ (At("monitor", "dimPanel") \/ At("monitor", "redimPanel"))
    BY <1>5 DEF DimPanel, RedimPanel, flagVars
  <2>2. ~Has(todo["monitor"], "stopCaffeinate") /\ todo["monitor"] # << >>
    BY <2>1, NoStopYet DEF At
  <2>3. Done("monitor") \/ Continue("monitor", ForgetSteps)
    BY <1>5 DEF DimPanel, RedimPanel, ForgetPending
  <2>4. ~Has(ForgetSteps, "startCaffeinate")
    BY ForgetHas
  <2> QED BY <2>1, <2>2, <2>3, <2>4, SessionPasses, SessionJumps DEF At
<1>6. CASE CaptureKeys
  <2>1. UNCHANGED << policy, caffeinate >> /\ At("monitor", "captureKeys")
    BY <1>6 DEF CaptureKeys, flagVars
  <2>2. ~Has(todo["monitor"], "stopCaffeinate") /\ todo["monitor"] # << >>
    BY <2>1, NoStopYet DEF At
  <2>3. Done("monitor") \/ Continue("monitor", << "relock" >>)
    BY <1>6 DEF CaptureKeys
  <2> QED BY <2>1, <2>2, <2>3, SessionPasses, SessionJumps, SingleHas DEF At
<1>7. CASE PersistIfChanged
  <2>1. UNCHANGED << policy, caffeinate >> /\ At("monitor", "persistIfChanged")
    BY <1>7 DEF PersistIfChanged, flagVars
  <2>2. ~Has(todo["monitor"], "stopCaffeinate")
    BY <2>1, NoStopYet DEF At
  <2>3. Continue("monitor", ForgetSteps) \/ Continue("monitor", << "release" >>)
    BY <1>7 DEF PersistIfChanged
  <2>4. ~Has(ForgetSteps, "startCaffeinate") /\ ~Has(<< "release" >>, "startCaffeinate")
    BY ForgetHas, SingleHas
  <2> QED BY <2>1, <2>2, <2>3, <2>4, SessionJumps
<1>8. CASE Load
  <2>1. UNCHANGED << policy, caffeinate >> /\ At("monitor", "load")
    BY <1>8 DEF Load, flagVars
  <2>2. ~Has(todo["monitor"], "stopCaffeinate")
    BY <2>1, NoStopYet DEF At
  <2>3. Continue("monitor", RecoverSteps) \/ Continue("monitor", << "observe" >>)
    BY <1>8 DEF Load
  <2>4. ~Has(RecoverSteps, "startCaffeinate") /\ ~Has(<< "observe" >>, "startCaffeinate")
    BY RestoringStarts, SingleHas
  <2> QED BY <2>1, <2>2, <2>3, <2>4, SessionJumps
<1>9. CASE ReadAngle
  BY <1>9, SessionKept DEF ReadAngle, flagVars
<1>10. CASE Decide
  <2> DEFINE decision == Decision(policy, angle, Pending)
  <2>1. policy \in Policy /\ angle \in Angles
    BY <1>10 DEF TypeOK, LoopType, Option, Decide
  <2>2. /\ policy' = decision.policy /\ caffeinate' = caffeinate
        /\ todo'["monitor"] = ActionSteps(decision.action)
        /\ todo["monitor"] = << >>
    BY <1>10 DEF Decide, Resting, Continue, flagVars, TypeOK, TodoType
  <2>3. \/ decision.policy = policy /\ decision.action = "none"
        \/ decision.policy.lastLid # "fullyClosed"
        \/ decision.action = "prepare"
        \/ decision.action = "none" /\ "caffeinate" \notin Pending
    BY <2>1, DecisionSession
  <2> HIDE DEF decision
  <2>4. CASE decision.action = "none"
    <3>1. todo'["monitor"] = << >>
      BY <2>2, <2>4 DEF ActionSteps
    <3>2. ~Has(todo'["monitor"], "startCaffeinate")
      BY <3>1, EmptyHas
    <3>3. caffeinate => "caffeinate" \in Pending
      BY DEF Pending
    <3>4. caffeinate => policy.lastLid # "fullyClosed"
      BY <2>2, EmptyHas DEF SessionInv
    <3> QED BY <2>2, <2>3, <2>4, <3>2, <3>3, <3>4 DEF SessionInv
  <2>5. CASE decision.action = "prepare"
    <3>1. todo'["monitor"] = Inside(PrepareEffects)
      BY <2>2, <2>5 DEF ActionSteps
    <3>2. Has(todo'["monitor"], "stopCaffeinate") /\ ~Has(todo'["monitor"], "startCaffeinate")
      BY <3>1, InsideHas, EffectsHave, StepListTypes
    <3> QED BY <3>2 DEF SessionInv
  <2>6. CASE decision.policy.lastLid # "fullyClosed"
    BY <2>2, <2>6 DEF SessionInv
  <2> QED BY <2>3, <2>4, <2>5, <2>6
<1>11. CASE LeaveLoop
  <2>1. /\ policy' = policy /\ caffeinate' = caffeinate
        /\ todo["monitor"] = << >> /\ Continue("monitor", ShutdownSteps)
    BY <1>11 DEF LeaveLoop, Resting, flagVars
  <2> QED BY <2>1, SessionJumps, EmptyHas, RestoringStarts
<1>12. CASE Exit
  <2>1. ~caffeinate' /\ todo'["monitor"] = << >>
    BY <1>12 DEF Exit, Die
  <2> QED BY <2>1, EmptyHas DEF SessionInv
<1> QED BY <1>1, <1>2, <1>3, <1>4, <1>5, <1>6, <1>7, <1>8, <1>9, <1>10, <1>11, <1>12
        DEF MonitorOnly

\* No step keeps a session past a closed lid.
LEMMA NextSession ==
    ASSUME SessionStops, TypeOK, LockInv, MonitorOrdered, SessionInv, [Next]_vars
    PROVE  SessionInv'
<1> "monitor" \in Threads /\ "power" \in Threads /\ "monitor" # "power"
  BY ThreadsDiffer
<1> todo \in [Threads -> Lists]
  BY DEF TypeOK, TodoType, Lists
<1>1. CASE Monitor
  BY <1>1, SharedSession, MonitorOnlySession DEF Monitor
<1>2. CASE PowerThread
  <2>1. CASE WillSleep
    <3>1. todo'["monitor"] = todo["monitor"] /\ caffeinate' = caffeinate
      BY <2>1 DEF WillSleep, Continue, flagVars
    <3>2. policy'.lastLid = Nothing
      BY <2>1 DEF WillSleep, WillSleepPolicy, NewPolicy
    <3> QED BY <3>1, <3>2, TransitionsAssumption, SessionKept
  <2>2. CASE AllowSleep
    <3>1. ~At("power", "stopCaffeinate") /\ todo["power"] # << >> /\ Done("power")
      BY <2>2 DEF AllowSleep, At
    <3> QED BY <2>2, <3>1, SessionPasses DEF AllowSleep, flagVars
  <2>3. CASE DidWake
    <3>1. policy'.lastLid = Nothing
      BY <2>3 DEF DidWake, DidWakePolicy, NewPolicy
    <3> QED BY <2>3, <3>1, TransitionsAssumption, SessionKept DEF DidWake, flagVars
  <2> QED BY <1>2, <2>1, <2>2, <2>3, SharedSession DEF PowerThread
<1>3. CASE World
  <2>1. CASE Launch
    <3>1. todo'["monitor"] = << "load" >> /\ UNCHANGED << policy, caffeinate >>
      BY <2>1 DEF Launch, Continue, BootSteps, flagVars
    <3>2. todo["monitor"] = << >>
      BY <2>1 DEF Launch, LockInv
    <3> QED BY <3>1, <3>2, EmptyHas, SingleHas DEF SessionInv
  <2>2. CASE Crash \/ ObserverFails
    <3>1. ~caffeinate' /\ todo'["monitor"] = << >>
      BY <2>2 DEF Crash, ObserverFails, Die
    <3> QED BY <3>1, EmptyHas DEF SessionInv
  <2>3. CASE PowerChange \/ MoveLid \/ ChangePanel \/ ChangeKeys \/ Signal \/ BecomeCalm
    BY <2>3, SessionKept
    DEF PowerChange, MoveLid, ChangePanel, ChangeKeys, Signal, BecomeCalm, flagVars
  <2>4. CASE \E d \in Displays : Hotplug(d)
    BY <2>4, SessionKept DEF Hotplug, flagVars
  <2> QED BY <1>3, <2>1, <2>2, <2>3, <2>4 DEF World
<1>4. CASE Tick
  <2>1. policy'.lastLid = policy.lastLid
    BY <1>4 DEF Tick, Elapsed, TypeOK, Policy
  <2> QED BY <1>4, <2>1, SessionKept DEF Tick, flagVars
<1>5. CASE UNCHANGED vars
  BY <1>5, SessionKept DEF vars, flagVars
<1> QED BY <1>1, <1>2, <1>3, <1>4, <1>5 DEF Next

\* Where a caffeinate session can be stopped when it is asked to, nothing keeps
\* the machine awake once the monitor has dealt with a closed lid, whatever
\* else fails and whatever the power thread is in the middle of.
THEOREM NothingKeepsItAwake ==
    ASSUME SessionStops
    PROVE  Spec => []LetsItSleep
<1>1. Init => SessionInv
  <2>1. Init => ~caffeinate /\ todo["monitor"] = << >>
    BY ThreadsDiffer DEF Init
  <2> QED BY <2>1, EmptyHas DEF SessionInv
<1>2. TypeOK /\ LockInv /\ MonitorOrdered /\ SessionInv /\ [Next]_vars => SessionInv'
  BY NextSession
<1>3. SessionInv => LetsItSleep
  BY EmptyHas DEF SessionInv, LetsItSleep, Resting
<1>4. (Spec => []TypeOK) /\ (Spec => []LockInv) /\ (Spec => []MonitorOrdered)
  BY TypeCorrect, LockDiscipline, StepsInOrder
<1> QED BY <1>1, <1>2, <1>3, <1>4, PTL DEF Spec

-----------------------------------------------------------------------------
(* What lists have. *)

\* What only a list that starts the process, a save or a callback has.
Boots    == {"load", "observe"}
Special  == Boots \cup {"write", "allow"}

\* Steps after which the monitor may go on with other steps than the next.
Jumps == {"readPanel", "dimPanel", "redimPanel", "captureKeys", "persistIfChanged"}

Plain(s) == \A x \in Special : ~Has(s, x)

\* A thread writes the file it has just opened.
WritesFirst(s) == s # << >> => ~Has(Tail(s), "write")

\* Recovery runs to the step that starts the observer, the last of its kind.
RunsToObserve(s) ==
    /\ \A x \in Boots : NoneAfter(s, x, "observe")
    /\ (\E x \in Boots : Has(s, x)) => \A x \in Jumps : ~Has(s, x)

\* A callback ends with its answer.
EndsWithAllow(s) ==
    /\ s # << >> => Has(s, "allow")
    /\ \A x \in Steps : NoneAfter(s, x, "allow")

UseInv ==
    /\ \A t \in Threads : WritesFirst(todo[t])
    /\ RunsToObserve(todo["monitor"])
    /\ EndsWithAllow(todo["power"])

\* The steps of a restore or of the preparation for sleep.
Undoing == { "unlockCursor", "takeExternal", "restoreExternal", "restoreKeys", "relightKeys",
             "restorePanel", "relightPanel", "stopCaffeinate" }

\* A restore has no other steps.
LEMMA UndoingHas ==
    ASSUME NEW s \in {RestoreEffects, KeepEffects, PrepareEffects}, NEW x, Has(s, x)
    PROVE  x \in Undoing
<1>1. CASE s = RestoreEffects
  BY <1>1 DEF RestoreEffects, Has, Undoing
<1>2. CASE s = KeepEffects
  BY <1>2 DEF KeepEffects, Has, Undoing
<1>3. CASE s = PrepareEffects
  BY <1>3 DEF PrepareEffects, Has, Undoing
<1> QED BY <1>1, <1>2, <1>3

Closing == {"acquire", "release", "snapshot", "persist"}

\* A section around such steps has besides them only its lock and its persist.
LEMMA SectionHas ==
    ASSUME NEW s \in {RestoreEffects, KeepEffects, PrepareEffects}
    PROVE  /\ Inside(s) \in Lists /\ Outside(s) \in Lists
           /\ \A x : Has(Inside(s), x) => x \in Undoing \cup Closing
           /\ \A x : Has(Outside(s), x) => x \in Undoing \cup Closing
<1>1. /\ s \in Lists /\ Persist \in Lists
      /\ << "acquire" >> \in Lists /\ << "release" >> \in Lists
  BY StepListTypes
<1>2. \A x : Has(Persist, x) => x \in Closing
  BY DEF Persist, Has, Closing
<1>3. \A x : Has(s, x) => x \in Undoing
  BY UndoingHas
<1>4. << "acquire" >> \o s \in Lists
  BY <1>1, JoinType
<1>5. \A x : Has(<< "acquire" >> \o s, x) => x \in Undoing \cup Closing
  BY <1>1, <1>3, HasJoin, SingleHas DEF Closing
<1>6. Inside(s) \in Lists /\ \A x : Has(Inside(s), x) => x \in Undoing \cup Closing
  <2>1. << "acquire" >> \o s \o Persist \in Lists
    BY <1>1, <1>4, JoinType
  <2>2. \A x : Has(<< "acquire" >> \o s \o Persist, x) => x \in Undoing \cup Closing
    BY <1>1, <1>2, <1>4, <1>5, HasJoin
  <2> QED BY <1>1, <2>1, <2>2, JoinType, HasJoin, SingleHas DEF Inside, Closing
<1>7. Outside(s) \in Lists /\ \A x : Has(Outside(s), x) => x \in Undoing \cup Closing
  <2>1. << "acquire" >> \o s \o << "release" >> \in Lists
    BY <1>1, <1>4, JoinType
  <2>2. \A x : Has(<< "acquire" >> \o s \o << "release" >>, x) => x \in Undoing \cup Closing
    BY <1>1, <1>4, <1>5, HasJoin, SingleHas DEF Closing
  <2> QED BY <1>1, <1>2, <2>1, <2>2, JoinType, HasJoin DEF Outside
<1> QED BY <1>6, <1>7

\* Neither these nor a dim have steps that start the process, a write or an
\* answer.
LEMMA ActionPlain ==
    ASSUME NEW action \in Actions
    PROVE  Plain(ActionSteps(action))
<1>1. Plain(<< >>)
  BY EmptyHas DEF Plain
<1>2. \A s \in {RestoreEffects, KeepEffects, PrepareEffects} : Plain(Inside(s))
  BY SectionHas DEF Plain, Special, Boots, Undoing, Closing
<1>3. Plain(StartSteps)
  BY DEF Plain, Special, Boots, Has, StartSteps
<1>4. Plain(ResumeSteps)
  BY DEF Plain, Special, Boots, Has, ResumeSteps
<1> QED BY <1>1, <1>2, <1>3, <1>4 DEF ActionSteps, Actions

\* Nor has what is left of a dim that was given up.
LEMMA ForgetPlain ==
    Plain(ForgetSteps) /\ Plain(<< "release" >>) /\ Plain(<< "relock" >>)
<1>1. Plain(<< "release" >>) /\ Plain(<< "relock" >>)
  BY SingleHas DEF Plain, Special, Boots
<1>2. Persist \in Lists /\ << "release" >> \in Lists
  BY StepListTypes
<1>3. \A x : Has(ForgetSteps, x) => Has(Persist, x) \/ x = "release"
  BY <1>2, HasJoin, SingleHas DEF ForgetSteps
<1>4. \A x : Has(Persist, x) => x \in Closing
  BY DEF Persist, Has, Closing
<1> QED BY <1>1, <1>3, <1>4 DEF Plain, Special, Boots, Closing

\* A plain list keeps the invariant of the monitor's list.
LEMMA PlainKeeps ==
    ASSUME NEW s \in Lists, Plain(s)
    PROVE  WritesFirst(s) /\ RunsToObserve(s)
<1>1. WritesFirst(s)
  BY TailKeeps DEF WritesFirst, Plain, Special
<1>2. \A x \in Boots : NoneAfter(s, x, "observe") /\ ~Has(s, x)
  BY NoneAfterAbsent DEF Plain, Special, Boots
<1> QED BY <1>1, <1>2 DEF RunsToObserve

\* What recovery and a callback consist of.
LEMMA EndedLists ==
    /\ RecoverSteps \in Lists /\ ~Has(RecoverSteps, "write") /\ RunsToObserve(RecoverSteps)
    /\ Has(RecoverSteps, "observe")
    /\ SleepSteps \in Lists /\ ~Has(SleepSteps, "write") /\ EndsWithAllow(SleepSteps)
    /\ Plain(ShutdownSteps) /\ ShutdownSteps \in Lists
<1>1. ASSUME NEW step \in {"observe", "exit", "allow"},
             NEW s \in {RestoreEffects, KeepEffects, PrepareEffects}
      PROVE  /\ Outside(s) \o << step >> \in Lists
             /\ Has(Outside(s) \o << step >>, step)
             /\ \A x : Has(Outside(s) \o << step >>, x) => x \in Undoing \cup Closing \cup {step}
             /\ \A x : NoneAfter(Outside(s) \o << step >>, x, step)
  <2>1. << step >> \in Lists /\ Outside(s) \in Lists
    BY AfterLists, SectionHas
  <2>2. /\ \A x : Has(<< step >>, x) <=> x = step
        /\ \A x, y : NoneAfter(<< step >>, x, y)
    BY SingleHas
  <2>3. ~Has(Outside(s), step)
    BY SectionHas DEF Undoing, Closing
  <2>4. ASSUME NEW x PROVE NoneAfter(Outside(s) \o << step >>, x, step)
    <3>1. NoneAfter(Outside(s), x, step)
      BY <2>3, NoneAfterAbsent
    <3> QED BY <2>1, <2>2, <2>3, <3>1, NoneAfterJoin
  <2> QED BY <2>1, <2>2, <2>4, JoinType, HasJoin, SectionHas
<1>2. /\ RecoverSteps \in Lists /\ ~Has(RecoverSteps, "write") /\ RunsToObserve(RecoverSteps)
      /\ Has(RecoverSteps, "observe")
  BY <1>1 DEF RecoverSteps, RunsToObserve, Jumps, Undoing, Closing
<1>3. SleepSteps \in Lists /\ ~Has(SleepSteps, "write") /\ EndsWithAllow(SleepSteps)
  BY <1>1 DEF SleepSteps, EndsWithAllow, Undoing, Closing
<1>4. Plain(ShutdownSteps) /\ ShutdownSteps \in Lists
  BY <1>1 DEF ShutdownSteps, Plain, Special, Boots, Undoing, Closing
<1> QED BY <1>2, <1>3, <1>4

-----------------------------------------------------------------------------
(* How a step moves the threads, and what the two abstract specifications    *)
(* see of it.                                                                *)

Stage == IF ~alive THEN "absent" ELSE IF Booting THEN "recovering" ELSE "serving"

Callback == todo["power"] # << >>

\* The step is none of StateFile, and none of Lifecycle.
FileUnused == UNCHANGED << file, Writing >>
LifeUnused == UNCHANGED << Stage, Callback, power >>

\* Booting, by what the monitor's list has.
LEMMA BootingHas ==
    ASSUME TypeOK
    PROVE  Booting <=> \E x \in Boots : Has(todo["monitor"], x)
<1>1. todo["monitor"] \in Lists
  BY ThreadsDiffer DEF TypeOK, TodoType, Lists
<1>2. DOMAIN todo["monitor"] = 1..Len(todo["monitor"])
  BY <1>1 DEF Lists
<1> QED BY <1>2 DEF Booting, Boots, Has

\* The same after a step that keeps the types.
LEMMA BootingHasNext ==
    ASSUME TypeOK'
    PROVE  Booting' <=> \E x \in Boots : Has(todo["monitor"]', x)
<1>1. todo["monitor"]' \in Lists
  BY ThreadsDiffer DEF TypeOK, TodoType, Lists
<1>2. DOMAIN todo["monitor"]' = 1..Len(todo["monitor"]')
  BY <1>1 DEF Lists
<1> QED BY <1>2 DEF Booting, Boots, Has

\* A step that moves no thread and leaves the file alone.
LEMMA Stayed ==
    ASSUME UseInv, UNCHANGED << todo, alive, file, image >>
    PROVE  UseInv' /\ FileUnused /\ UNCHANGED << Stage, Callback >>
BY DEF UseInv, FileUnused, Writing, At, Stage, Booting, Callback

\* A list without its first step keeps the invariant, and has no write.
LEMMA TailUse ==
    ASSUME NEW s \in Lists, s # << >>
    PROVE  /\ WritesFirst(s) => WritesFirst(Tail(s)) /\ ~Has(Tail(s), "write")
           /\ RunsToObserve(s) => RunsToObserve(Tail(s))
           /\ EndsWithAllow(s) /\ Head(s) # "allow" => EndsWithAllow(Tail(s)) /\ Tail(s) # << >>
           /\ EndsWithAllow(s) /\ Head(s) = "allow" => Tail(s) = << >>
<1>1. /\ \A x : Has(Tail(s), x) => Has(s, x)
      /\ \A x : Has(s, x) => Has(Tail(s), x) \/ x = Head(s)
      /\ \A x, y : NoneAfter(s, x, y) => NoneAfter(Tail(s), x, y)
      /\ \A x : NoneAfter(s, x, Head(s)) => ~Has(Tail(s), x)
  BY TailKeeps
<1>2. Tail(s) \in Lists
  BY TailType
<1>3. WritesFirst(s) => WritesFirst(Tail(s)) /\ ~Has(Tail(s), "write")
  <2>1. Tail(s) # << >> /\ Has(Tail(Tail(s)), "write") => Has(Tail(s), "write")
    BY <1>2, TailKeeps
  <2> QED BY <2>1 DEF WritesFirst
<1>4. RunsToObserve(s) => RunsToObserve(Tail(s))
  BY <1>1 DEF RunsToObserve
<1>5. EndsWithAllow(s) /\ Head(s) # "allow" => EndsWithAllow(Tail(s)) /\ Tail(s) # << >>
  BY <1>1, EmptyHas DEF EndsWithAllow
<1>6. EndsWithAllow(s) /\ Head(s) = "allow" => Tail(s) = << >>
  <2> SUFFICES ASSUME EndsWithAllow(s), Head(s) = "allow", Tail(s) # << >> PROVE FALSE
    OBVIOUS
  <2>1. Head(Tail(s)) \in Steps /\ Has(Tail(s), Head(Tail(s)))
    <3>1. \A u \in Lists : u # << >> => Head(u) \in Steps
      BY DEF Lists
    <3> QED BY <1>2, <3>1, HeadHas
  <2>2. NoneAfter(s, Head(Tail(s)), Head(s))
    BY <2>1 DEF EndsWithAllow
  <2> QED BY <1>1, <2>1, <2>2
<1> QED BY <1>3, <1>4, <1>5, <1>6

\* A thread moves past a step that is none of the special ones, and opens no
\* file by it.
LEMMA PassedTodo ==
    ASSUME TypeOK, TypeOK', UseInv, NEW t \in Threads, todo[t] # << >>,
           Head(todo[t]) \notin Boots \cup {"allow"}, Done(t), UNCHANGED alive
    PROVE  UseInv' /\ UNCHANGED << Stage, Callback >> /\ ~At(t, "write")'
<1>1. todo \in [Threads -> Lists] /\ todo[t] \in Lists
  BY DEF TypeOK, TodoType, Lists
<1>2. todo' = [todo EXCEPT ![t] = Tail(todo[t])]
  BY DEF Done, Continue
<1>3. todo'[t] = Tail(todo[t]) /\ \A u \in Threads \ {t} : todo'[u] = todo[u]
  BY <1>1, <1>2
<1>4. WritesFirst(Tail(todo[t])) /\ ~Has(Tail(todo[t]), "write")
  BY <1>1, TailUse DEF UseInv
<1>5. UseInv'
  <2>1. \A u \in Threads : WritesFirst(todo'[u])
    BY <1>3, <1>4 DEF UseInv
  <2>2. RunsToObserve(todo'["monitor"])
    BY <1>1, <1>3, TailUse, ThreadsDiffer DEF UseInv
  <2>3. EndsWithAllow(todo'["power"])
    BY <1>1, <1>3, TailUse, ThreadsDiffer DEF UseInv
  <2> QED BY <2>1, <2>2, <2>3 DEF UseInv
<1>6. ~At(t, "write")'
  <2>1. Tail(todo[t]) # << >> => Head(Tail(todo[t])) # "write"
    BY <1>1, <1>4, TailType, HeadHas
  <2> QED BY <1>3, <2>1 DEF At
<1>7. Booting' <=> Booting
  <2>1. CASE t = "monitor"
    <3>1. \A x \in Boots : Has(todo'[t], x) <=> Has(todo[t], x)
      BY <1>1, <1>3, TailKeeps
    <3> QED BY <2>1, <3>1, BootingHas, BootingHasNext
  <2>2. CASE t # "monitor"
    BY <1>3, <2>2, ThreadsDiffer DEF Booting
  <2> QED BY <2>1, <2>2
<1>8. Callback' <=> Callback
  BY <1>1, <1>3, TailUse, ThreadsDiffer DEF Callback, UseInv
<1> QED BY <1>5, <1>6, <1>7, <1>8 DEF Stage

\* One that was no write and left the file alone; it may take or drop the
\* thread's own snapshot.
LEMMA Passed ==
    ASSUME TypeOK, TypeOK', UseInv, NEW t \in Threads, todo[t] # << >>,
           Head(todo[t]) \notin Special, Done(t),
           UNCHANGED << alive, file >>,
           \A u \in Threads \ {t} : image'[u] = image[u]
    PROVE  UseInv' /\ FileUnused /\ UNCHANGED << Stage, Callback >>
<1>1. UseInv' /\ UNCHANGED << Stage, Callback >> /\ ~At(t, "write")'
  BY PassedTodo DEF Special
<1>2. ~At(t, "write")
  BY DEF At, Special
<1>3. \A u \in Threads \ {t} : At(u, "write")' = At(u, "write")
  BY DEF At, Done, Continue, TypeOK, TodoType
<1>4. \A u \in Threads : (IF At(u, "write") THEN image[u] ELSE Nothing)'
                         = IF At(u, "write") THEN image[u] ELSE Nothing
  BY <1>1, <1>2, <1>3
<1> QED BY <1>1, <1>4 DEF FileUnused, Writing

\* The monitor goes on with other steps, from where it rests or gives up.
LEMMA Moved ==
    ASSUME TypeOK, TypeOK', UseInv,
           todo["monitor"] = << >> \/ Head(todo["monitor"]) \in Jumps,
           NEW steps \in Lists, Plain(steps), Continue("monitor", steps),
           UNCHANGED << alive, file, image >>
    PROVE  UseInv' /\ FileUnused /\ UNCHANGED << Stage, Callback >>
<1>1. todo \in [Threads -> Lists] /\ todo["monitor"] \in Lists
  BY ThreadsDiffer DEF TypeOK, TodoType, Lists
<1>2. todo' = [todo EXCEPT !["monitor"] = steps]
  BY DEF Continue
<1>3. todo'["monitor"] = steps /\ todo'["power"] = todo["power"]
  BY <1>1, <1>2, ThreadsDiffer
<1>4. UseInv'
  BY <1>3, PlainKeeps, ThreadsDiffer DEF UseInv
<1>5. FileUnused
  <2>1. ~At("monitor", "write") /\ ~At("monitor", "write")'
    <3>1. steps # << >> => Head(steps) # "write"
      BY HeadHas DEF Plain, Special
    <3> QED BY <1>3, <3>1 DEF At, Jumps
  <2>2. At("power", "write")' = At("power", "write")
    BY <1>3 DEF At
  <2>3. \A u \in Threads : (IF At(u, "write") THEN image[u] ELSE Nothing)'
                            = IF At(u, "write") THEN image[u] ELSE Nothing
    BY <2>1, <2>2, ThreadsDiffer
  <2> QED BY <2>3 DEF FileUnused, Writing
<1>6. ~Booting /\ ~Booting'
  <2>1. ~Booting'
    BY <1>3, BootingHasNext DEF Plain, Special
  <2>2. todo["monitor"] # << >> => Has(todo["monitor"], Head(todo["monitor"]))
    BY <1>1, HeadHas
  <2>3. ~Booting
    BY <2>2, BootingHas, EmptyHas DEF UseInv, RunsToObserve
  <2> QED BY <2>1, <2>3
<1> QED BY <1>3, <1>4, <1>5, <1>6 DEF Stage, Callback

-----------------------------------------------------------------------------
(* The steps, one by one. *)

\* What a step must be for each of the two specifications.
Fits ==
    /\ UseInv'
    /\ [Cell!Next]_<< file, Writing >>
    /\ [Stages!Next]_<< Stage, Callback, power >>

\* A step neither of them sees.
LEMMA Unseen ==
    ASSUME UseInv', FileUnused, LifeUnused
    PROVE  Fits
BY DEF Fits, FileUnused, LifeUnused

\* Steps on the devices and on the lock, and the snapshot.
LEMMA SharedFits ==
    ASSUME TypeOK, TypeOK', UseInv, NEW t \in Threads,
           \/ Acquire(t) \/ Release(t)
           \/ UnlockCursor(t) \/ RestoreKeys(t) \/ RestorePanel(t) \/ StopCaffeinate(t)
           \/ Snapshot(t)
    PROVE  Fits
<1>1. /\ todo[t] # << >> /\ Head(todo[t]) \notin Special /\ Done(t)
      /\ UNCHANGED << alive, file, power >>
      /\ \A u \in Threads \ {t} : image'[u] = image[u]
  <2>1. CASE Acquire(t) \/ Release(t)
    BY <2>1 DEF Acquire, Release, At, Special, Boots, loopVars, fileVars, worldVars
  <2>2. CASE UnlockCursor(t) \/ StopCaffeinate(t)
    BY <2>2 DEF UnlockCursor, StopCaffeinate, At, Special, Boots, loopVars, fileVars, worldVars
  <2>3. CASE RestoreKeys(t) \/ RestorePanel(t)
    BY <2>3 DEF RestoreKeys, RestorePanel, At, Special, Boots, loopVars, fileVars, worldVars
  <2>4. CASE Snapshot(t)
    BY <2>4 DEF Snapshot, At, Special, Boots, loopVars, worldVars, TypeOK, FileType
  <2> QED BY <2>1, <2>2, <2>3, <2>4
<1> QED BY <1>1, Passed, Unseen DEF LifeUnused

\* Steps only the monitor takes in its lists, past which it may jump.
LEMMA MonitorFits ==
    ASSUME TypeOK, TypeOK', UseInv,
           \/ TakeExternal \/ RestoreExternal
           \/ ReadPanel \/ DimPanel \/ RedimPanel \/ CaptureKeys \/ RedimKeys
           \/ CaptureExternal \/ RecaptureExternal \/ StartCaffeinate \/ LockCursor
           \/ PersistIfChanged
    PROVE  Fits
<1>1. UNCHANGED << alive, file, image, power >>
  BY DEF TakeExternal, RestoreExternal, ReadPanel, DimPanel, RedimPanel, CaptureKeys,
         RedimKeys, CaptureExternal, RecaptureExternal, StartCaffeinate, LockCursor,
         PersistIfChanged, loopVars, fileVars, worldVars
<1>2. /\ todo["monitor"] # << >> /\ Head(todo["monitor"]) \notin Special
      /\ \/ Done("monitor")
         \/ /\ Head(todo["monitor"]) \in Jumps
            /\ \E steps \in {ForgetSteps, << "release" >>, << "relock" >>} :
                  Continue("monitor", steps)
  <2>1. CASE TakeExternal \/ RestoreExternal \/ RedimKeys \/ CaptureExternal
    BY <2>1 DEF TakeExternal, RestoreExternal, RedimKeys, CaptureExternal, At, Special, Boots
  <2>2. CASE RecaptureExternal \/ StartCaffeinate \/ LockCursor
    BY <2>2 DEF RecaptureExternal, StartCaffeinate, LockCursor, At, Special, Boots
  <2>3. CASE ReadPanel
    BY <2>3 DEF ReadPanel, At, Special, Boots, Jumps
  <2>4. CASE DimPanel
    BY <2>4 DEF DimPanel, ForgetPending, At, Special, Boots, Jumps
  <2>5. CASE RedimPanel
    BY <2>5 DEF RedimPanel, ForgetPending, At, Special, Boots, Jumps
  <2>6. CASE CaptureKeys
    BY <2>6 DEF CaptureKeys, At, Special, Boots, Jumps
  <2>7. CASE PersistIfChanged
    BY <2>7 DEF PersistIfChanged, At, Special, Boots, Jumps
  <2> QED BY <2>1, <2>2, <2>3, <2>4, <2>5, <2>6, <2>7
<1>3. CASE Done("monitor")
  <2>1. \A u \in Threads \ {"monitor"} : image'[u] = image[u]
    BY <1>1
  <2> QED BY <1>1, <1>2, <1>3, <2>1, Passed, Unseen, ThreadsDiffer DEF LifeUnused
<1>4. CASE ~Done("monitor")
  <2>1. PICK steps \in {ForgetSteps, << "release" >>, << "relock" >>} :
           Continue("monitor", steps)
    BY <1>2, <1>4
  <2>2. Plain(steps) /\ steps \in Lists
    BY ForgetPlain, ForgetLocked
  <2>3. UseInv' /\ FileUnused /\ UNCHANGED << Stage, Callback >>
    BY <1>1, <1>2, <1>4, <2>1, <2>2, Moved
  <2> QED BY <1>1, <2>3, Unseen DEF LifeUnused
<1> QED BY <1>3, <1>4

\* A sample is read and decided on, and the loop ends.
LEMMA LoopFits ==
    ASSUME TypeOK, TypeOK', UseInv, ReadAngle \/ Decide \/ LeaveLoop
    PROVE  Fits
<1>1. CASE ReadAngle
  BY <1>1, Stayed, Unseen DEF ReadAngle, LifeUnused, fileVars, worldVars
<1>2. CASE Decide
  <2> DEFINE steps == ActionSteps(Decision(policy, angle, Pending).action)
  <2>1. Decision(policy, angle, Pending).action \in Actions
    <3>1. angle \in Angles
      BY <1>2 DEF TypeOK, LoopType, Option, Decide
    <3> QED BY <3>1, DecisionType DEF TypeOK, Decisions
  <2>2. steps \in Lists /\ Plain(steps)
    BY <1>2, <2>1, DecideResult, ActionPlain
  <2>3. /\ todo["monitor"] = << >> /\ Continue("monitor", steps)
        /\ UNCHANGED << alive, file, image, power >>
    BY <1>2 DEF Decide, Resting, fileVars, worldVars
  <2> HIDE DEF steps
  <2>4. UseInv' /\ FileUnused /\ UNCHANGED << Stage, Callback >>
    BY <2>2, <2>3, Moved
  <2> QED BY <2>3, <2>4, Unseen DEF LifeUnused
<1>3. CASE LeaveLoop
  <2>1. /\ todo["monitor"] = << >> /\ Continue("monitor", ShutdownSteps)
        /\ UNCHANGED << alive, file, image, power >>
    BY <1>3 DEF LeaveLoop, Resting, loopVars, fileVars, worldVars
  <2>2. UseInv' /\ FileUnused /\ UNCHANGED << Stage, Callback >>
    BY <2>1, EndedLists, Moved
  <2> QED BY <2>1, <2>2, Unseen DEF LifeUnused
<1> QED BY <1>1, <1>2, <1>3

\* What the world does without touching the process.
LEMMA WorldFits ==
    ASSUME TypeOK, TypeOK', UseInv,
           \/ MoveLid \/ ChangePanel \/ ChangeKeys \/ Signal \/ BecomeCalm \/ Tick
           \/ (\E d \in Displays : Hotplug(d))
    PROVE  Fits
<1>1. UNCHANGED << todo, alive, file, image, power >>
  BY DEF MoveLid, ChangePanel, ChangeKeys, Signal, BecomeCalm, Tick, Hotplug,
         loopVars, fileVars, worldVars
<1> QED BY <1>1, Stayed, Unseen DEF LifeUnused

\* A file that is removed takes along what the other thread is about to write;
\* a save opens the file in one step and writes it in the next.
LEMMA PersistFits ==
    ASSUME TypeOK, TypeOK', UseInv, NEW t \in Threads, PersistImage(t)
    PROVE  Fits
<1>1. /\ todo \in [Threads -> Lists] /\ todo[t] \in Lists
      /\ todo[t] # << >> /\ Head(todo[t]) = "persist" /\ At(t, "persist")
      /\ image \in [Threads -> SavedState] /\ image' \in [Threads -> SavedState]
      /\ Nothing \notin SavedState
  BY DaemonAssumption DEF TypeOK, TodoType, FileType, Lists, PersistImage, At
<1>2. UNCHANGED << alive, power >> /\ Head(todo[t]) \notin Special
  BY <1>1 DEF PersistImage, loopVars, worldVars, Special, Boots
<1>3. CASE image[t] = NothingSaved /\ file' = NothingSaved /\ Persisted(t, TRUE, TRUE)
  <2>1. Done(t)
    BY <1>3 DEF Persisted
  <2>2. todo' = [todo EXCEPT ![t] = Tail(todo[t])]
    BY <2>1 DEF Done, Continue
  <2>3. UseInv' /\ UNCHANGED << Stage, Callback >> /\ ~At(t, "write")'
    BY <1>1, <1>2, <2>1, PassedTodo DEF Special
  <2>4. ~At(t, "write")
    BY <1>1 DEF At
  <2>5. \A u \in Threads \ {t} : At(u, "write")' = At(u, "write")
    BY <1>1, <2>2 DEF At
  <2>6. Cell!Clear(t)
    <3>1. Writing[t] = Nothing
      BY <2>4 DEF Writing
    <3>2. \A u \in Threads : Writing'[u] = IF Writing[u] = Nothing THEN Nothing ELSE NothingSaved
      BY <1>1, <1>3, <2>3, <2>4, <2>5 DEF Writing, Persisted
    <3>3. Writing' = [u \in Threads |-> IF Writing[u] = Nothing THEN Nothing ELSE NothingSaved]
      BY <3>2 DEF Writing
    <3> QED BY <1>3, <3>1, <3>3 DEF Cell!Clear
  <2> QED BY <1>2, <2>3, <2>6 DEF Fits, Cell!Next
<1>4. CASE image[t] # NothingSaved /\ file' = Torn
           /\ Continue(t, << "write" >> \o Tail(todo[t])) /\ UNCHANGED image
  <2> DEFINE steps == << "write" >> \o Tail(todo[t])
  <2>1. todo'[t] = steps /\ \A u \in Threads \ {t} : todo'[u] = todo[u]
    BY <1>1, <1>4 DEF Continue
  <2>2. /\ steps \in Lists /\ steps # << >> /\ Head(steps) = "write" /\ Tail(steps) = Tail(todo[t])
        /\ \A x : Has(steps, x) <=> x = "write" \/ Has(Tail(todo[t]), x)
    <3>1. << "write" >> \in Lists /\ Tail(todo[t]) \in Lists
      BY <1>1, TailType, StepListTypes
    <3>2. Tail(steps) = Tail(todo[t])
      BY <3>1 DEF Lists
    <3>3. << "write" >> # << >> /\ Head(<< "write" >>) = "write"
      OBVIOUS
    <3>4. steps \in Lists /\ steps # << >> /\ Head(steps) = "write"
      BY <3>1, <3>3, JoinType, JoinHead
    <3>5. \A x : Has(steps, x) <=> Has(<< "write" >>, x) \/ Has(Tail(todo[t]), x)
      BY <3>1, HasJoin
    <3> QED BY <3>2, <3>4, <3>5, SingleHas
  <2>3. \A x, y : y # "write" /\ NoneAfter(Tail(todo[t]), x, y) => NoneAfter(steps, x, y)
    <3> SUFFICES ASSUME NEW x, NEW y, y # "write", NoneAfter(Tail(todo[t]), x, y)
                 PROVE  NoneAfter(steps, x, y)
      OBVIOUS
    <3>1. << "write" >> \in Lists /\ Tail(todo[t]) \in Lists
      BY <1>1, TailType, StepListTypes
    <3>2. NoneAfter(<< "write" >>, x, y) /\ ~Has(<< "write" >>, y)
      BY SingleHas
    <3> QED BY <3>1, <3>2, NoneAfterJoin
  <2> HIDE DEF steps
  <2>4. UseInv'
    <3>1. ~Has(Tail(todo[t]), "write")
      BY <1>1 DEF UseInv, WritesFirst
    <3>2. \A u \in Threads : WritesFirst(todo'[u])
      BY <2>1, <2>2, <3>1, <1>1 DEF UseInv, WritesFirst
    <3>3. RunsToObserve(todo'["monitor"])
      <4>1. CASE t = "monitor"
        <5>1. RunsToObserve(Tail(todo[t]))
          BY <1>1, <4>1, TailUse DEF UseInv
        <5> QED BY <2>1, <2>2, <2>3, <4>1, <5>1 DEF RunsToObserve, Boots, Jumps
      <4>2. CASE t # "monitor"
        BY <2>1, <4>2, ThreadsDiffer DEF UseInv
      <4> QED BY <4>1, <4>2
    <3>4. EndsWithAllow(todo'["power"])
      <4>1. CASE t = "power"
        <5>1. EndsWithAllow(Tail(todo[t])) /\ Tail(todo[t]) # << >>
          BY <1>1, <4>1, TailUse DEF UseInv
        <5> QED BY <2>1, <2>2, <2>3, <4>1, <5>1 DEF EndsWithAllow
      <4>2. CASE t # "power"
        BY <2>1, <4>2, ThreadsDiffer DEF UseInv
      <4> QED BY <4>1, <4>2
    <3> QED BY <3>2, <3>3, <3>4 DEF UseInv
  <2>5. UNCHANGED << Stage, Callback >>
    <3>1. Booting' <=> Booting
      <4>1. CASE t = "monitor"
        <5>1. \A x \in Boots : Has(todo'[t], x) <=> Has(todo[t], x)
          BY <1>1, <2>1, <2>2, TailKeeps DEF Boots
        <5> QED BY <4>1, <5>1, BootingHas, BootingHasNext
      <4>2. CASE t # "monitor"
        BY <2>1, <4>2, ThreadsDiffer DEF Booting
      <4> QED BY <4>1, <4>2
    <3>2. Callback' <=> Callback
      BY <1>1, <2>1, <2>2, ThreadsDiffer DEF Callback
    <3> QED BY <1>2, <3>1, <3>2 DEF Stage
  <2>6. Cell!Truncate(t)
    <3>1. ~At(t, "write") /\ At(t, "write")' /\ \A u \in Threads \ {t} : At(u, "write")' = At(u, "write")
      BY <1>1, <2>1, <2>2 DEF At
    <3>2. Writing[t] = Nothing /\ Writing'[t] = image[t]
      BY <1>4, <3>1 DEF Writing
    <3>3. Writing' = [Writing EXCEPT ![t] = Writing'[t]]
      BY <1>4, <3>1 DEF Writing
    <3> QED BY <1>1, <1>4, <3>2, <3>3 DEF Cell!Truncate
  <2> QED BY <1>2, <2>4, <2>5, <2>6 DEF Fits, Cell!Next
<1>5. CASE UNCHANGED file /\ Persisted(t, FALSE, FALSE)
  <2>1. Done(t) /\ \A u \in Threads \ {t} : image'[u] = image[u]
    BY <1>5 DEF Persisted
  <2> QED BY <1>1, <1>2, <1>5, <2>1, Passed, Unseen DEF LifeUnused
<1> QED BY <1>3, <1>4, <1>5 DEF PersistImage

\* What is written is what was truncated for, unless the write stops half-way.
LEMMA WriteFits ==
    ASSUME TypeOK, TypeOK', UseInv, NEW t \in Threads, Write(t)
    PROVE  Fits
<1>1. /\ todo \in [Threads -> Lists] /\ todo[t] \in Lists
      /\ todo[t] # << >> /\ Head(todo[t]) = "write" /\ At(t, "write")
      /\ image \in [Threads -> SavedState] /\ image[t] # Nothing
  BY DaemonAssumption DEF TypeOK, TodoType, FileType, Lists, Write, At
<1>2. /\ Done(t) /\ UNCHANGED << alive, power >>
      /\ \A u \in Threads \ {t} : image'[u] = image[u]
  BY DEF Write, Persisted, loopVars, worldVars
<1>3. UseInv' /\ UNCHANGED << Stage, Callback >> /\ ~At(t, "write")'
  BY <1>1, <1>2, PassedTodo DEF Boots
<1>4. \A u \in Threads \ {t} : At(u, "write")' = At(u, "write")
  BY <1>1, <1>2 DEF At, Done, Continue
<1>5. /\ Writing[t] = image[t] /\ Writing[t] # Nothing
      /\ Writing' = [Writing EXCEPT ![t] = Nothing]
  BY <1>1, <1>2, <1>3, <1>4 DEF Writing
<1>6. Cell!Write(t) \/ Cell!WriteFails(t)
  <2>1. CASE file' = IF image[t] = NothingSaved THEN file ELSE image[t]
    BY <1>5, <2>1 DEF Cell!Write
  <2>2. CASE May("disk") /\ file' \in Spoilt(t)
    BY <1>5, <2>2 DEF Cell!WriteFails, Cell!Spoilt, Spoilt, May
  <2> QED BY <2>1, <2>2 DEF Write
<1> QED BY <1>2, <1>3, <1>6 DEF Fits, Cell!Next

\* The end of the process, at any step.
LEMMA DieFits ==
    ASSUME Die
    PROVE  Fits
<1>1. /\ todo' = [t \in Threads |-> << >>] /\ ~alive' /\ UNCHANGED << file, power >>
  BY DEF Die, worldVars
<1>2. UseInv'
  <2>1. WritesFirst(<< >>) /\ RunsToObserve(<< >>) /\ EndsWithAllow(<< >>)
    BY EmptyHas, NoneAfterAbsent DEF WritesFirst, RunsToObserve, EndsWithAllow
  <2> QED BY <1>1, <2>1, ThreadsDiffer DEF UseInv
<1>3. Cell!End
  BY <1>1 DEF Cell!End, Writing, At
<1>4. Stages!End
  BY <1>1, ThreadsDiffer DEF Stages!End
<1> QED BY <1>2, <1>3, <1>4 DEF Fits, Cell!Next, Stages!Next, Stage, Callback

\* A new process recovers first.
LEMMA LaunchFits ==
    ASSUME TypeOK, TypeOK', LockInv, UseInv, Launch
    PROVE  Fits
<1>1. /\ todo = [t \in Threads |-> << >>] /\ todo' = [todo EXCEPT !["monitor"] = << "load" >>]
      /\ ~alive /\ alive' = TRUE /\ UNCHANGED << file, image, power >>
  BY DEF Launch, Continue, BootSteps, LockInv, TypeOK, TodoType, fileVars, worldVars
<1>2. todo'["monitor"] = << "load" >> /\ todo'["power"] = todo["power"]
  BY <1>1, ThreadsDiffer
<1>3. << "load" >> # << >> /\ Tail(<< "load" >>) = << >> /\ Head(<< "load" >>) = "load"
  OBVIOUS
<1>4. UseInv'
  <2>1. RunsToObserve(<< "load" >>) /\ WritesFirst(<< "load" >>)
    BY <1>3, EmptyHas, SingleHas DEF RunsToObserve, WritesFirst, Jumps
  <2> QED BY <1>2, <2>1, ThreadsDiffer DEF UseInv
<1>5. FileUnused
  BY <1>1, <1>2, <1>3, ThreadsDiffer DEF FileUnused, Writing, At
<1>6. Booting'
  BY <1>2, SingleHas, BootingHasNext DEF Boots
<1>7. Stages!Launch
  BY <1>1, <1>2, <1>6 DEF Stages!Launch
<1> QED BY <1>4, <1>5, <1>7 DEF Fits, FileUnused, Stages!Next, Stage, Callback

\* Loading is one step of the recovery.
LEMMA LoadFits ==
    ASSUME TypeOK, TypeOK', UseInv, Load
    PROVE  Fits
<1>1. PICK steps \in {RecoverSteps, << "observe" >>} : Continue("monitor", steps)
  BY DEF Load
<1>2. /\ todo["monitor"] \in Lists /\ todo["monitor"] # << >> /\ Head(todo["monitor"]) = "load"
      /\ todo'["monitor"] = steps /\ todo'["power"] = todo["power"]
      /\ UNCHANGED << alive, file, image, power >>
  BY <1>1, ThreadsDiffer
  DEF Load, At, Continue, TypeOK, TodoType, Lists, loopVars, fileVars, worldVars
<1>3. /\ steps \in Lists /\ ~Has(steps, "write") /\ RunsToObserve(steps) /\ Has(steps, "observe")
  <2>1. RunsToObserve(<< "observe" >>)
    BY SingleHas DEF RunsToObserve, Jumps
  <2> QED BY <2>1, EndedLists, SingleHas, StepListTypes
<1>4. UseInv'
  BY <1>2, <1>3, TailKeeps, ThreadsDiffer DEF UseInv, WritesFirst
<1>5. FileUnused
  <2>1. ~At("monitor", "write") /\ ~At("monitor", "write")'
    BY <1>2, <1>3, HeadHas DEF At
  <2>2. At("power", "write")' = At("power", "write")
    BY <1>2 DEF At
  <2>3. \A u \in Threads : (IF At(u, "write") THEN image[u] ELSE Nothing)'
                           = IF At(u, "write") THEN image[u] ELSE Nothing
    BY <1>2, <2>1, <2>2, ThreadsDiffer
  <2> QED BY <1>2, <2>3 DEF FileUnused, Writing
<1>6. Booting /\ Booting'
  BY <1>2, <1>3, HeadHas, BootingHas, BootingHasNext DEF Boots
<1> QED BY <1>2, <1>4, <1>5, <1>6, Unseen DEF LifeUnused, Stage, Callback

\* The last step of the recovery starts the observer.
LEMMA ObserveFits ==
    ASSUME TypeOK, TypeOK', LockInv, UseInv, StartObserver
    PROVE  Fits
<1>1. /\ todo["monitor"] \in Lists /\ todo["monitor"] # << >> /\ Head(todo["monitor"]) = "observe"
      /\ todo'["monitor"] = Tail(todo["monitor"]) /\ todo'["power"] = todo["power"]
      /\ UNCHANGED << alive, file, image, power >>
  BY ThreadsDiffer
  DEF StartObserver, At, Done, Continue, TypeOK, TodoType, Lists, loopVars, fileVars, worldVars
<1>2. alive
  BY <1>1, ThreadsDiffer DEF LockInv
<1>3. ~Has(Tail(todo["monitor"]), "load") /\ ~Has(Tail(todo["monitor"]), "observe")
  BY <1>1, TailKeeps DEF UseInv, RunsToObserve, Boots
<1>4. Booting /\ ~Booting'
  BY <1>1, <1>3, HeadHas, BootingHas, BootingHasNext DEF Boots
<1>5. UseInv'
  BY <1>1, TailUse, ThreadsDiffer DEF UseInv
<1>6. FileUnused
  <2>1. ~At("monitor", "write") /\ ~At("monitor", "write")'
    <3>1. ~Has(Tail(todo["monitor"]), "write") /\ Tail(todo["monitor"]) \in Lists
      BY <1>1, TailUse, TailType, ThreadsDiffer DEF UseInv
    <3> QED BY <1>1, <3>1, HeadHas DEF At
  <2>2. At("power", "write")' = At("power", "write")
    BY <1>1 DEF At
  <2>3. \A u \in Threads : (IF At(u, "write") THEN image[u] ELSE Nothing)'
                           = IF At(u, "write") THEN image[u] ELSE Nothing
    BY <1>1, <2>1, <2>2, ThreadsDiffer
  <2> QED BY <1>1, <2>3 DEF FileUnused, Writing
<1>7. Stages!Serve
  BY <1>1, <1>2, <1>4 DEF Stages!Serve
<1> QED BY <1>5, <1>6, <1>7 DEF Fits, FileUnused, Stages!Next, Stage, Callback

\* The callbacks, and the power states that wait for them.
LEMMA PowerFits ==
    ASSUME TypeOK, TypeOK', LockInv, UseInv,
           WillSleep \/ AllowSleep \/ DidWake \/ PowerChange
    PROVE  Fits
<1>1. todo \in [Threads -> Lists]
  BY DEF TypeOK, TodoType, Lists
<1>2. CASE WillSleep
  <2>1. /\ todo'["power"] = SleepSteps /\ todo'["monitor"] = todo["monitor"]
        /\ todo["power"] = << >> /\ power = "leaving" /\ alive /\ ~Booting
        /\ UNCHANGED << alive, file, image, power >>
    BY <1>1, <1>2, ThreadsDiffer DEF WillSleep, Continue, Observing, loopVars, fileVars, worldVars
  <2>2. SleepSteps # << >>
    BY StepListTypes, JoinHead, SectionsOpen, AfterLists, OpeningJoin DEF SleepSteps, Opening
  <2>4. UseInv'
    BY <2>1, EndedLists, TailKeeps, ThreadsDiffer DEF UseInv, WritesFirst
  <2>5. FileUnused
    <3>1. ~At("power", "write") /\ ~At("power", "write")'
      BY <2>1, EndedLists, HeadHas DEF At
    <3>2. At("monitor", "write")' = At("monitor", "write")
      BY <2>1 DEF At
    <3>3. \A u \in Threads : (IF At(u, "write") THEN image[u] ELSE Nothing)'
                             = IF At(u, "write") THEN image[u] ELSE Nothing
      BY <2>1, <3>1, <3>2, ThreadsDiffer
    <3> QED BY <2>1, <3>3 DEF FileUnused, Writing
  <2>6. Booting' <=> Booting
    BY <2>1 DEF Booting
  <2>7. Stages!WillSleep
    BY <2>1, <2>2, <2>6 DEF Stages!WillSleep
  <2> QED BY <2>4, <2>5, <2>7 DEF Fits, FileUnused, Stages!Next, Stage, Callback
<1>3. CASE AllowSleep
  <2>1. /\ todo'["power"] = Tail(todo["power"]) /\ todo'["monitor"] = todo["monitor"]
        /\ todo["power"] # << >> /\ Head(todo["power"]) = "allow" /\ power' = "asleep"
        /\ UNCHANGED << alive, file, image >>
    BY <1>1, <1>3, ThreadsDiffer DEF AllowSleep, At, Done, Continue, loopVars, fileVars
  <2>2. todo'["power"] = << >>
    BY <1>1, <2>1, TailUse, ThreadsDiffer DEF UseInv
  <2>3. UseInv'
    BY <2>1, <2>2, EmptyHas, NoneAfterAbsent, ThreadsDiffer DEF UseInv, WritesFirst, EndsWithAllow
  <2>4. FileUnused
    <3>1. ~At("power", "write") /\ ~At("power", "write")'
      BY <2>1, <2>2 DEF At
    <3>2. At("monitor", "write")' = At("monitor", "write")
      BY <2>1 DEF At
    <3>3. \A u \in Threads : (IF At(u, "write") THEN image[u] ELSE Nothing)'
                             = IF At(u, "write") THEN image[u] ELSE Nothing
      BY <2>1, <3>1, <3>2, ThreadsDiffer
    <3> QED BY <2>1, <3>3 DEF FileUnused, Writing
  <2>5. Booting' <=> Booting
    BY <2>1 DEF Booting
  <2>6. Stages!AllowSleep
    BY <2>1, <2>2, <2>5 DEF Stages!AllowSleep
  <2> QED BY <2>3, <2>4, <2>6 DEF Fits, FileUnused, Stages!Next, Stage, Callback
<1>4. CASE DidWake \/ PowerChange
  <2>1. UNCHANGED << todo, alive, file, image >>
    BY <1>4 DEF DidWake, PowerChange, loopVars, fileVars
  <2>2. UseInv' /\ FileUnused /\ UNCHANGED << Stage, Callback >>
    BY <2>1, Stayed
  <2>3. Stages!DidWake \/ Stages!PowerChange
    BY <1>4, <2>2 DEF DidWake, PowerChange, Stages!DidWake, Stages!PowerChange, Observing,
                      Stage, Callback
  <2> QED BY <2>2, <2>3 DEF Fits, FileUnused, Stages!Next, Stage, Callback
<1> QED BY <1>2, <1>3, <1>4

\* Every step fits both.
LEMMA NextFits ==
    ASSUME TypeOK, TypeOK', LockInv, UseInv, [Next]_vars
    PROVE  Fits
<1>1. \A t \in Threads : Shared(t) => Fits
  BY SharedFits, PersistFits, WriteFits DEF Shared
<1>2. CASE Monitor
  BY <1>1, <1>2, MonitorFits, LoopFits, LoadFits, ObserveFits, DieFits, ThreadsDiffer
  DEF Monitor, MonitorOnly, Exit
<1>3. CASE PowerThread
  BY <1>1, <1>3, PowerFits, ThreadsDiffer DEF PowerThread
<1>4. CASE World
  BY <1>4, LaunchFits, PowerFits, WorldFits, DieFits DEF World, Crash, ObserverFails
<1>5. CASE Tick
  BY <1>5, WorldFits
<1>6. CASE UNCHANGED vars
  BY <1>6, Stayed, Unseen DEF vars, loopVars, fileVars, worldVars, LifeUnused
<1> QED BY <1>2, <1>3, <1>4, <1>5, <1>6 DEF Next

\* Initially no file is open and no process runs.
LEMMA InitFits ==
    ASSUME Init
    PROVE  UseInv /\ Cell!Init /\ Stages!Init
<1>1. /\ todo = [t \in Threads |-> << >>] /\ file = NothingSaved /\ ~alive /\ power = "awake"
  BY DEF Init
<1>2. WritesFirst(<< >>) /\ RunsToObserve(<< >>) /\ EndsWithAllow(<< >>)
  BY EmptyHas, NoneAfterAbsent DEF WritesFirst, RunsToObserve, EndsWithAllow
<1>3. UseInv
  BY <1>1, <1>2, ThreadsDiffer DEF UseInv
<1>4. Cell!Init
  BY <1>1, NothingSavedType DEF Cell!Init, Writing, At
<1>5. Stages!Init
  BY <1>1, ThreadsDiffer DEF Stages!Init
<1> QED BY <1>3, <1>4, <1>5

-----------------------------------------------------------------------------
(* Both specifications, for every environment. *)

\* The invariant that every step keeps, with the step itself.
LEMMA StepsFit ==
    Spec => /\ Cell!Init /\ Stages!Init
            /\ [][Cell!Next]_<< file, Writing >> /\ [][Stages!Next]_<< Stage, Callback, power >>
<1>1. Init => LockInv /\ UseInv /\ Cell!Init /\ Stages!Init
  <2>1. Init => LockInv
    <3>1. Free(<< >>)
      BY EmptyHas DEF Free
    <3> QED BY <3>1, ThreadsDiffer DEF Init, LockInv
  <2> QED BY <2>1, InitFits
<1>2. TypeOK /\ TypeOK' /\ LockInv /\ UseInv /\ [Next]_vars
         => /\ LockInv' /\ UseInv'
            /\ [Cell!Next]_<< file, Writing >> /\ [Stages!Next]_<< Stage, Callback, power >>
  BY NextLock, NextFits DEF Fits
<1>3. Spec => []TypeOK
  BY TypeCorrect
<1> QED BY <1>1, <1>2, <1>3, PTL DEF Spec

\* The recovery file is only saved, cleared and left half-written in the ways
\* that StateFile has, and so in the ways RecoveryFile supports.
THEOREM FileUsedAsACell == Spec => UsesCell
<1>1. UsesCell <=> Cell!Init /\ [][Cell!Next]_<< file, Writing >>
  BY DEF UsesCell, Cell!Spec
<1> QED BY <1>1, StepsFit

\* Callbacks run only in a process that has recovered, one at a time, and an
\* announced sleep waits for the answer of the one it caused.
THEOREM CallbacksKeepToLifecycle == Spec => UsesLifecycle
<1>1. UsesLifecycle <=> Stages!Init /\ [][Stages!Next]_<< Stage, Callback, power >>
  BY DEF UsesLifecycle, Stages!Spec, Stages!lifecycleVars, Stage, Callback
<1> QED BY <1>1, StepsFit
=============================================================================
