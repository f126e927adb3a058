------------------------- MODULE LaunchAgentProofs -------------------------
(***************************************************************************)
(* What the service promises from launch to exit, with the LaunchAgent that*)
(* starts and stops it: types, that it ends holding nothing, and that it   *)
(* lives as Lifecycle says.                                                *)
(*                                                                         *)
(* The main thread runs one list from front to back and, when something    *)
(* fails, jumps to where the list releases what it has.  So the inductive  *)
(* invariant (ServiceInv) is the place of the thread in that list (Place), *)
(* with what it holds there (Held); and, for the power thread, the port and*)
(* the channel its list goes with (Watch).  Its other half is the order the*)
(* functions give: the observer is spawned after the recovery, which is why*)
(* a callback always finds a recovered process with POWER_STATE set.       *)
(***************************************************************************)
EXTENDS LaunchAgent, SequenceTheorems, TLAPS

\* The steps of the main thread.
Steps == { "handlers", "manager", "managerOpen", "device", "deviceOpen", "report",
           "setPowerState", "recover", "spawn", "receive", "loop", "restore",
           "closeSensor", "exit" }

\* What is left at the i-th step.
Rest(i) == SubSeq(MainSteps, i, 14)

\* main and run_service, step by step.
LEMMA MainStepsShape ==
    /\ MainSteps \in Seq(Steps) /\ Len(MainSteps) = 14
    /\ MainSteps[1] = "handlers"
    /\ \A k \in 1 .. 5 : MainSteps[k + 1] = SensorSteps[k]
    /\ MainSteps[7] = "setPowerState" /\ MainSteps[8] = "recover" /\ MainSteps[9] = "spawn"
    /\ MainSteps[10] = "receive" /\ MainSteps[11] = "loop" /\ MainSteps[12] = "restore"
    /\ MainSteps[13] = "closeSensor" /\ MainSteps[14] = "exit"
<1> DEFINE end == << "setPowerState", "recover", "spawn", "receive", "loop", "restore",
                     "closeSensor", "exit" >>
           start == <<"handlers">> \o SensorSteps
<1>1. SensorSteps \in Seq(Steps) /\ Len(SensorSteps) = 5
  BY DEF SensorSteps, Steps
<1>2. /\ start \in Seq(Steps) /\ Len(start) = 6
      /\ start[1] = "handlers" /\ \A k \in 1 .. 5 : start[k + 1] = SensorSteps[k]
  <2>1. /\ start \in Seq(Steps) /\ Len(start) = 6
        /\ \A k \in 1 .. 6 : start[k] = IF k <= 1 THEN <<"handlers">>[k] ELSE SensorSteps[k - 1]
    <3>1. <<"handlers">> \in Seq(Steps) /\ Len(<<"handlers">>) = 1
                                        /\ <<"handlers">>[1] = "handlers"
      BY DEF Steps
    <3>2. /\ <<"handlers">> \o SensorSteps \in Seq(Steps)
          /\ Len(<<"handlers">> \o SensorSteps) = Len(<<"handlers">>) + Len(SensorSteps)
          /\ \A k \in 1 .. Len(<<"handlers">>) + Len(SensorSteps) :
                (<<"handlers">> \o SensorSteps)[k] =
                   IF k <= Len(<<"handlers">>) THEN <<"handlers">>[k]
                   ELSE SensorSteps[k - Len(<<"handlers">>)]
      BY <1>1, <3>1, ConcatProperties
    <3> QED BY <1>1, <3>1, <3>2
  <2> HIDE DEF start
  <2> QED BY <2>1
<1>3. /\ end \in Seq(Steps) /\ Len(end) = 8
      /\ end[1] = "setPowerState" /\ end[2] = "recover" /\ end[3] = "spawn"
      /\ end[4] = "receive" /\ end[5] = "loop" /\ end[6] = "restore"
      /\ end[7] = "closeSensor" /\ end[8] = "exit"
  BY DEF Steps
<1>4. MainSteps = start \o end
  BY DEF MainSteps
<1> HIDE DEF start, end
<1>5. /\ MainSteps \in Seq(Steps) /\ Len(MainSteps) = 14
      /\ \A k \in 1 .. 14 : MainSteps[k] = IF k <= 6 THEN start[k] ELSE end[k - 6]
  <2>1. start \in Seq(Steps) /\ end \in Seq(Steps) /\ Len(start) = 6 /\ Len(end) = 8
    BY <1>2, <1>3
  <2>2. /\ start \o end \in Seq(Steps) /\ Len(start \o end) = Len(start) + Len(end)
        /\ \A k \in 1 .. Len(start) + Len(end) :
              (start \o end)[k] = IF k <= Len(start) THEN start[k] ELSE end[k - Len(start)]
    BY <2>1, ConcatProperties
  <2>3. 6 + 8 = 14
    OBVIOUS
  <2>4. MainSteps \in Seq(Steps) /\ Len(MainSteps) = 14
    BY <1>4, <2>1, <2>2, <2>3
  <2>5. \A k \in 1 .. 14 : MainSteps[k] = IF k <= 6 THEN start[k] ELSE end[k - 6]
    BY <1>4, <2>1, <2>2, <2>3
  <2> QED BY <2>4, <2>5
<1>6. \A k \in 1 .. 6 : MainSteps[k] = start[k]
  BY <1>5
<1>7. \A k \in 1 .. 5 : MainSteps[k + 1] = SensorSteps[k]
  BY <1>2, <1>6
<1>8. \A k \in 7 .. 14 : MainSteps[k] = end[k - 6]
  BY <1>5
<1>9. /\ MainSteps[7] = end[1] /\ MainSteps[8] = end[2] /\ MainSteps[9] = end[3]
      /\ MainSteps[10] = end[4] /\ MainSteps[11] = end[5] /\ MainSteps[12] = end[6]
      /\ MainSteps[13] = end[7] /\ MainSteps[14] = end[8]
  BY <1>8
<1> QED BY <1>2, <1>3, <1>5, <1>6, <1>7, <1>9

\* The rest of the list starts with its step and goes on with the rest after it.
LEMMA RestShape ==
    ASSUME NEW i \in 1 .. 14
    PROVE  /\ Rest(i) # << >> /\ Head(Rest(i)) = MainSteps[i] /\ Tail(Rest(i)) = Rest(i + 1)
           /\ Rest(i) \in Seq(Steps) /\ Len(Rest(i)) = 15 - i
<1>1. /\ MainSteps \in Seq(Steps) /\ i \in 1 .. Len(MainSteps) /\ 14 \in i .. Len(MainSteps)
      /\ \A k \in i .. 14 : MainSteps[k] \in Steps
      /\ i <= 14 /\ i \in Int /\ 14 - i + 1 = 15 - i
  <2>1. MainSteps \in Seq(Steps) /\ Len(MainSteps) = 14
    BY MainStepsShape
  <2>2. i \in Int /\ 1 <= i /\ i <= 14 /\ 14 - i + 1 = 15 - i
    OBVIOUS
  <2>3. \A k \in i .. 14 : k \in 1 .. Len(MainSteps)
    BY <2>1, <2>2
  <2>4. \A k \in i .. 14 : MainSteps[k] \in Steps
    BY <2>1, <2>3, ElementOfSeq
  <2>5. i \in 1 .. Len(MainSteps) /\ 14 \in i .. Len(MainSteps)
    BY <2>1, <2>2
  <2> QED BY <2>1, <2>2, <2>4, <2>5
<1>2. Head(Rest(i)) = MainSteps[i] /\ Tail(Rest(i)) = Rest(i + 1)
  BY <1>1, HeadTailOfSubSeq DEF Rest
<1>3. /\ SubSeq(MainSteps, i, 14) \in Seq(Steps)
      /\ Len(SubSeq(MainSteps, i, 14)) = IF i <= 14 THEN 14 - i + 1 ELSE 0
  BY <1>1, SubSeqProperties
<1>4. Rest(i) \in Seq(Steps) /\ Len(Rest(i)) = 15 - i
  BY <1>1, <1>3 DEF Rest
<1>5. Rest(i) # << >>
  BY <1>4
<1> QED BY <1>2, <1>4, <1>5

\* The rest after the last step, all of the list, and its ends when the sensor
\* and the loop are left early.
LEMMA RestEnds ==
    /\ Rest(15) = << >> /\ Rest(1) = MainSteps
    /\ Rest(14) = <<"exit">> /\ Rest(13) = GiveUpSteps
<1>1. Rest(15) = << >>
  BY SubSeqEmpty DEF Rest
<1>2. Rest(1) = MainSteps
  BY MainStepsShape, SubSeqFull DEF Rest
<1>3. Rest(14) = <<"exit">>
  <2>1. Rest(14) \in Seq(Steps) /\ Len(Rest(14)) = 1 /\ Head(Rest(14)) = MainSteps[14]
    <3>1. 14 \in 1 .. 14 /\ 15 - 14 = 1
      OBVIOUS
    <3> QED BY <3>1, RestShape
  <2> QED BY <2>1, MainStepsShape
<1>4. Rest(13) = GiveUpSteps
  <2>1. /\ Rest(13) \in Seq(Steps) /\ Len(Rest(13)) = 2 /\ Head(Rest(13)) = MainSteps[13]
        /\ Tail(Rest(13)) = Rest(14)
    <3>1. 13 \in 1 .. 14 /\ 15 - 13 = 2 /\ 13 + 1 = 14
      OBVIOUS
    <3> QED BY <3>1, RestShape
  <2>2. MainSteps[13] = "closeSensor"
    BY MainStepsShape
  <2>3. GiveUpSteps \in Seq(Steps) /\ Len(GiveUpSteps) = 2 /\ Head(GiveUpSteps) = "closeSensor"
        /\ Tail(GiveUpSteps) = <<"exit">>
    BY DEF GiveUpSteps, Steps
  <2>4. /\ Rest(13)[1] = "closeSensor" /\ GiveUpSteps[1] = "closeSensor"
        /\ Rest(13)[2] = "exit" /\ GiveUpSteps[2] = "exit"
    <3>1. Rest(13)[1] = Head(Rest(13)) /\ Rest(13)[2] = Tail(Rest(13))[1]
      BY <2>1
    <3>2. Rest(14)[1] = "exit"
      BY <1>3
    <3> QED BY <2>1, <2>2, <3>1, <3>2 DEF GiveUpSteps
  <2>5. \A k \in 1 .. 2 : Rest(13)[k] = GiveUpSteps[k]
    BY <2>4
  <2> QED BY <2>1, <2>3, <2>5, SeqEqual
<1> QED BY <1>1, <1>2, <1>3, <1>4

-----------------------------------------------------------------------------
(* The inductive invariant. *)

\* What lid_sensor.c holds when the main thread is at its i-th step.
Held(i) ==
    CASE i \in {1, 2, 14, 15} -> {}
      [] i = 3 -> {"manager"}
      [] i = 4 -> {"manager", "managerOpen"}
      [] i = 5 -> {"manager", "managerOpen", "device"}
      [] i \in 6 .. 13 -> Resources

\* The main thread is at its i-th step: what it holds, and when there is no
\* observer yet.
Place(i) ==
    /\ main = Rest(i) /\ sensor = Held(i)
    /\ i \in 8 .. 13 => powerState
    /\ i \in 1 .. 9 \cup {15} => observer = << >> /\ startup = Nothing

\* The power thread is where the ports and the channel say.
Watch ==
    \/ observer = << >> /\ ports = "none" /\ startup \in {Nothing, 1}
    \/ observer = ObserverSteps /\ ports = "none" /\ startup = Nothing
    \/ observer = FailureSteps /\ ports \in {"none", "partial"} /\ startup = Nothing
    \/ observer = <<"notifyFailure">> /\ ports = "none" /\ startup = Nothing
    \/ observer = <<"notify", "serve">> /\ ports = "registered" /\ startup = Nothing
    \/ /\ observer \in {<<"serve">>, <<"allow", "serve">>, <<"willSleep", "allow", "serve">>}
       /\ ports = "registered" /\ startup = 0

\* The threads are where the resources, the ports and the channel say.
ServiceInv ==
    /\ Watch
    /\ observer # << >> => powerState
    /\ \E i \in 1 .. 15 : Place(i)

\* Where the main thread is when it is at a step.
LEMMA WhereAt ==
    ASSUME NEW i \in 1 .. 15, Place(i), NEW step, At(main, step)
    PROVE  /\ i \in 1 .. 14 /\ MainSteps[i] = step /\ Tail(main) = Rest(i + 1)
<1>1. i # 15
  BY RestEnds DEF Place, At
<1>2. i \in 1 .. 14
  BY <1>1
<1>3. Head(main) = MainSteps[i] /\ Tail(main) = Rest(i + 1)
  BY <1>2, RestShape DEF Place
<1> QED BY <1>2, <1>3 DEF At

\* Every step occurs once in the list.
LEMMA Positions ==
    ASSUME NEW i \in 1 .. 14
    PROVE  /\ MainSteps[i] = "handlers" => i = 1
           /\ \A k \in 1 .. 5 : MainSteps[i] = SensorSteps[k] => i = k + 1
           /\ MainSteps[i] = "setPowerState" => i = 7
           /\ MainSteps[i] = "recover" => i = 8
           /\ MainSteps[i] = "spawn" => i = 9
           /\ MainSteps[i] = "receive" => i = 10
           /\ MainSteps[i] = "loop" => i = 11
           /\ MainSteps[i] = "restore" => i = 12
           /\ MainSteps[i] = "closeSensor" => i = 13
           /\ MainSteps[i] = "exit" => i = 14
<1>1. /\ SensorSteps[1] = "manager" /\ SensorSteps[2] = "managerOpen"
      /\ SensorSteps[3] = "device" /\ SensorSteps[4] = "deviceOpen"
      /\ SensorSteps[5] = "report"
  BY DEF SensorSteps
<1>2. /\ MainSteps[2] = "manager" /\ MainSteps[3] = "managerOpen"
      /\ MainSteps[4] = "device" /\ MainSteps[5] = "deviceOpen" /\ MainSteps[6] = "report"
  <2>1. \A k \in 1 .. 5 : MainSteps[k + 1] = SensorSteps[k]
    BY MainStepsShape
  <2> QED BY <1>1, <2>1
<1>3. /\ MainSteps[1] = "handlers"
      /\ MainSteps[7] = "setPowerState" /\ MainSteps[8] = "recover" /\ MainSteps[9] = "spawn"
      /\ MainSteps[10] = "receive" /\ MainSteps[11] = "loop" /\ MainSteps[12] = "restore"
      /\ MainSteps[13] = "closeSensor" /\ MainSteps[14] = "exit"
  BY MainStepsShape
<1>4. i \in {1, 2, 3, 4, 5, 6, 7, 8, 9, 10, 11, 12, 13, 14}
  OBVIOUS
<1>5. \A k \in 1 .. 5 : k \in {1, 2, 3, 4, 5}
  OBVIOUS
<1> QED BY <1>1, <1>2, <1>3, <1>4, <1>5

\* The lists of the power thread.
LEMMA ObserverLists ==
    /\ Head(ObserverSteps) = "register" /\ Tail(ObserverSteps) = <<"notify", "serve">>
    /\ Head(FailureSteps) = "cleanup" /\ Tail(FailureSteps) = <<"notifyFailure">>
    /\ Head(<<"notifyFailure">>) = "notifyFailure" /\ Tail(<<"notifyFailure">>) = << >>
    /\ Head(<<"notify", "serve">>) = "notify" /\ Tail(<<"notify", "serve">>) = <<"serve">>
    /\ Head(<<"serve">>) = "serve"
    /\ CallbackSteps \o <<"serve">> = <<"willSleep", "allow", "serve">>
    /\ Head(<<"willSleep", "allow", "serve">>) = "willSleep"
    /\ Tail(<<"willSleep", "allow", "serve">>) = <<"allow", "serve">>
    /\ Head(<<"allow", "serve">>) = "allow" /\ Tail(<<"allow", "serve">>) = <<"serve">>
    /\ ObserverSteps # << >> /\ FailureSteps # << >> /\ <<"notifyFailure">> # << >>
    /\ <<"notify", "serve">> # << >> /\ <<"serve">> # << >> /\ <<"allow", "serve">> # << >>
    /\ <<"willSleep", "allow", "serve">> # << >>
<1>1. /\ Head(ObserverSteps) = "register" /\ Head(FailureSteps) = "cleanup"
      /\ Head(<<"notifyFailure">>) = "notifyFailure" /\ Head(<<"notify", "serve">>) = "notify"
      /\ Head(<<"serve">>) = "serve" /\ Head(<<"allow", "serve">>) = "allow"
      /\ Head(<<"willSleep", "allow", "serve">>) = "willSleep"
  BY DEF ObserverSteps, FailureSteps
<1>2. Tail(ObserverSteps) = <<"notify", "serve">>
  BY DEF ObserverSteps
<1>3. Tail(FailureSteps) = <<"notifyFailure">>
  BY DEF FailureSteps
<1>4. Tail(<<"notifyFailure">>) = << >>
  OBVIOUS
<1>5. Tail(<<"notify", "serve">>) = <<"serve">>
  OBVIOUS
<1>6. CallbackSteps \o <<"serve">> = <<"willSleep", "allow", "serve">>
  <2> DEFINE kinds == {"willSleep", "allow", "serve"}
             joined == CallbackSteps \o <<"serve">>
             whole == <<"willSleep", "allow", "serve">>
  <2>1. /\ CallbackSteps \in Seq(kinds) /\ Len(CallbackSteps) = 2
        /\ CallbackSteps[1] = "willSleep" /\ CallbackSteps[2] = "allow"
    BY DEF CallbackSteps
  <2>2. <<"serve">> \in Seq(kinds) /\ Len(<<"serve">>) = 1 /\ <<"serve">>[1] = "serve"
    OBVIOUS
  <2>3. /\ whole \in Seq(kinds) /\ Len(whole) = 3
        /\ whole[1] = "willSleep" /\ whole[2] = "allow" /\ whole[3] = "serve"
    OBVIOUS
  <2>4. /\ joined \in Seq(kinds) /\ Len(joined) = Len(CallbackSteps) + Len(<<"serve">>)
        /\ \A k \in 1 .. Len(CallbackSteps) + Len(<<"serve">>) :
              joined[k] = IF k <= Len(CallbackSteps) THEN CallbackSteps[k]
                          ELSE <<"serve">>[k - Len(CallbackSteps)]
    <3>1. CallbackSteps \in Seq(kinds) /\ <<"serve">> \in Seq(kinds)
      BY <2>1, <2>2
    <3> HIDE DEF kinds
    <3> QED BY <3>1, ConcatProperties
  <2> HIDE DEF kinds, joined, whole
  <2>5. /\ joined \in Seq(kinds) /\ Len(joined) = 3
        /\ joined[1] = "willSleep" /\ joined[2] = "allow" /\ joined[3] = "serve"
    BY <2>1, <2>2, <2>4
  <2>6. \A k \in 1 .. 3 : joined[k] = whole[k]
    BY <2>3, <2>5
  <2> QED BY <2>3, <2>5, <2>6, SeqEqual DEF joined, whole
<1>7. Tail(<<"willSleep", "allow", "serve">>) = <<"allow", "serve">>
  OBVIOUS
<1>8. Tail(<<"allow", "serve">>) = <<"serve">>
  OBVIOUS
<1>9. /\ ObserverSteps # << >> /\ FailureSteps # << >> /\ <<"notifyFailure">> # << >>
      /\ <<"notify", "serve">> # << >> /\ <<"serve">> # << >> /\ <<"allow", "serve">> # << >>
      /\ <<"willSleep", "allow", "serve">> # << >>
  BY DEF ObserverSteps, FailureSteps
<1> QED BY <1>1, <1>2, <1>3, <1>4, <1>5, <1>6, <1>7, <1>8, <1>9

-----------------------------------------------------------------------------
(* The steps of the main thread. *)

\* A step of the main thread that leaves the power thread alone takes Place
\* from one of its steps to another.
LEMMA MainMoves ==
    ASSUME ServiceInv, NEW i \in 1 .. 15, Place(i), NEW j \in 1 .. 15,
           main' = Rest(j), sensor' = Held(j), powerState => powerState',
           j \in 8 .. 13 => powerState',
           j \in 1 .. 9 \cup {15} => i \in 1 .. 9 \cup {15},
           UNCHANGED <<observer, startup, ports>>
    PROVE  ServiceInv'
<1>1. Place(j)'
  BY DEF Place
<1>2. Watch'
  BY DEF ServiceInv, Watch
<1> QED BY <1>1, <1>2 DEF ServiceInv

\* ctrlc::set_handler is the first step and acquires nothing.
LEMMA HandlersKeep == ServiceInv /\ InstallSignalHandlers => ServiceInv'
<1> SUFFICES ASSUME ServiceInv, InstallSignalHandlers PROVE ServiceInv'
  OBVIOUS
<1>1. PICK i \in 1 .. 15 : Place(i)
  BY DEF ServiceInv
<1>2. i = 1 /\ main' = Rest(2)
  <2>1. i \in 1 .. 14 /\ MainSteps[i] = "handlers" /\ Tail(main) = Rest(i + 1)
    BY <1>1, WhereAt DEF InstallSignalHandlers
  <2>2. i = 1
    BY <2>1, Positions
  <2> QED BY <2>1, <2>2 DEF InstallSignalHandlers
<1>3. Held(1) = Held(2)
  BY DEF Held
<1> QED BY <1>1, <1>2, <1>3, MainMoves DEF InstallSignalHandlers, Place

\* Held, place by place.
LEMMA HeldIs ==
    /\ Held(1) = {} /\ Held(2) = {} /\ Held(3) = {"manager"}
    /\ Held(4) = {"manager", "managerOpen"}
    /\ Held(5) = {"manager", "managerOpen", "device"}
    /\ \A i \in 6 .. 13 : Held(i) = Resources
    /\ Held(6) = Resources /\ Held(7) = Resources
    /\ Held(14) = {} /\ Held(15) = {}
  BY DEF Held

\* Each step of LidSensorInit has what the steps before it acquired, and one
\* that fails releases just that.
LEMMA SensorKeeps ==
    ASSUME ServiceInv, NEW k \in DOMAIN SensorSteps, OpenSensor(SensorSteps[k])
    PROVE  ServiceInv'
<1>0. k \in 1 .. 5
  BY DEF SensorSteps
<1>1. PICK i \in 1 .. 15 : Place(i)
  BY DEF ServiceInv
<1>2. i = k + 1 /\ Tail(main) = Rest(k + 2)
  <2>1. i \in 1 .. 14 /\ MainSteps[i] = SensorSteps[k] /\ Tail(main) = Rest(i + 1)
    BY <1>1, WhereAt DEF OpenSensor
  <2>2. i = k + 1
    BY <1>0, <2>1, Positions
  <2> QED BY <1>0, <2>1, <2>2
<1>3. Held(k + 1) \cup ({SensorSteps[k]} \cap Resources) = Held(k + 2)
  <2>1. k \in {1, 2, 3, 4, 5}
    BY <1>0
  <2>2. /\ SensorSteps[1] = "manager" /\ SensorSteps[2] = "managerOpen"
        /\ SensorSteps[3] = "device" /\ SensorSteps[4] = "deviceOpen"
        /\ SensorSteps[5] = "report"
    BY DEF SensorSteps
  <2>3. /\ {"manager"} \cap Resources = {"manager"}
        /\ {"managerOpen"} \cap Resources = {"managerOpen"}
        /\ {"device"} \cap Resources = {"device"}
        /\ {"deviceOpen"} \cap Resources = {"deviceOpen"}
        /\ {"report"} \cap Resources = {}
    BY DEF Resources
  <2>4. /\ Held(3) = Held(2) \cup {"manager"} /\ Held(4) = Held(3) \cup {"managerOpen"}
        /\ Held(5) = Held(4) \cup {"device"} /\ Held(6) = Held(5) \cup {"deviceOpen"}
        /\ Held(7) = Held(6) \cup {}
    BY HeldIs DEF Resources
  <2>5. /\ 1 + 1 = 2 /\ 1 + 2 = 3 /\ 2 + 1 = 3 /\ 2 + 2 = 4 /\ 3 + 1 = 4 /\ 3 + 2 = 5
        /\ 4 + 1 = 5 /\ 4 + 2 = 6 /\ 5 + 1 = 6 /\ 5 + 2 = 7
    OBVIOUS
  <2> QED BY <2>1, <2>2, <2>3, <2>4, <2>5
<1>4. Held(k + 1) \ Released(SensorSteps[k]) = Held(14)
  BY <1>0 DEF Held, SensorSteps, Resources, Released
<1>5. UNCHANGED <<observer, startup, ports, powerState>>
  BY DEF OpenSensor
<1>6. CASE main' = Tail(main) /\ sensor' = sensor \cup ({SensorSteps[k]} \cap Resources)
  <2>1. main' = Rest(k + 2) /\ sensor' = Held(k + 2)
    BY <1>1, <1>2, <1>3, <1>6 DEF Place
  <2>2. k + 2 \in 1 .. 15 /\ k + 2 \notin 8 .. 13 /\ k + 2 # 15 /\ i \in 1 .. 9 \cup {15}
    BY <1>0, <1>2
  <2> QED BY <1>1, <1>5, <2>1, <2>2, MainMoves
<1>7. CASE main' = <<"exit">> /\ sensor' = sensor \ Released(SensorSteps[k])
  BY <1>0, <1>1, <1>2, <1>4, <1>5, <1>7, MainMoves, RestEnds DEF Place
<1> QED BY <1>6, <1>7 DEF OpenSensor
\* POWER_STATE is set before anything can use it.
LEMMA PowerStateKeeps == ServiceInv /\ SetPowerState => ServiceInv'
<1> SUFFICES ASSUME ServiceInv, SetPowerState PROVE ServiceInv'
  OBVIOUS
<1>1. PICK i \in 1 .. 15 : Place(i)
  BY DEF ServiceInv
<1>2. i = 7 /\ main' = Rest(8)
  <2>1. i \in 1 .. 14 /\ MainSteps[i] = "setPowerState" /\ Tail(main) = Rest(i + 1)
    BY <1>1, WhereAt DEF SetPowerState
  <2>2. i = 7
    BY <2>1, Positions
  <2> QED BY <2>1, <2>2 DEF SetPowerState
<1> QED BY <1>1, <1>2, HeldIs, MainMoves DEF SetPowerState, Place

\* The steps that stand for device operations only move the main thread on.
LEMMA EffectsKeep == ServiceInv /\ Effects => ServiceInv'
<1> SUFFICES ASSUME ServiceInv, Effects PROVE ServiceInv'
  OBVIOUS
<1>1. PICK i \in 1 .. 15 : Place(i)
  BY DEF ServiceInv
<1>2. (i = 8 \/ i = 12) /\ main' = Rest(i + 1)
  <2>1. /\ i \in 1 .. 14 /\ Tail(main) = Rest(i + 1)
        /\ MainSteps[i] = "recover" \/ MainSteps[i] = "restore"
    BY <1>1, WhereAt DEF Effects
  <2>2. i = 8 \/ i = 12
    BY <2>1, Positions
  <2> QED BY <2>1, <2>2 DEF Effects
<1>3. Held(8) = Held(9) /\ Held(12) = Held(13)
  BY HeldIs
<1>4. CASE i = 8
  BY <1>1, <1>2, <1>3, <1>4, MainMoves DEF Effects, Place
<1>5. CASE i = 12
  BY <1>1, <1>2, <1>3, <1>5, MainMoves DEF Effects, Place
<1> QED BY <1>2, <1>4, <1>5

\* The power thread starts in a process that has set POWER_STATE.
LEMMA SpawnKeeps == ServiceInv /\ Spawn => ServiceInv'
<1> SUFFICES ASSUME ServiceInv, Spawn PROVE ServiceInv'
  OBVIOUS
<1>1. PICK i \in 1 .. 15 : Place(i)
  BY DEF ServiceInv
<1>2. i = 9 /\ Tail(main) = Rest(10)
  <2>1. i \in 1 .. 14 /\ MainSteps[i] = "spawn" /\ Tail(main) = Rest(i + 1)
    BY <1>1, WhereAt DEF Spawn
  <2>2. i = 9
    BY <2>1, Positions
  <2> QED BY <2>1, <2>2
<1>3. Held(9) = Held(10) /\ Held(9) = Held(13)
  BY HeldIs
<1>4. powerState /\ observer = << >> /\ startup = Nothing /\ sensor = Held(9)
  BY <1>1, <1>2 DEF Place
<1>5. ports = "none"
  BY <1>4, ObserverLists DEF ServiceInv, Watch
<1>6. UNCHANGED <<sensor, powerState, startup, ports>>
  BY DEF Spawn
<1>7. CASE main' = Tail(main) /\ observer' = ObserverSteps
  <2>1. Place(10)'
    BY <1>2, <1>3, <1>4, <1>6, <1>7 DEF Place
  <2>2. Watch'
    BY <1>4, <1>5, <1>6, <1>7 DEF Watch
  <2> QED BY <1>4, <1>6, <2>1, <2>2 DEF ServiceInv
<1>8. CASE main' = GiveUpSteps /\ UNCHANGED observer
  BY <1>1, <1>2, <1>3, <1>4, <1>6, <1>8, MainMoves, RestEnds
<1> QED BY <1>7, <1>8 DEF Spawn

\* The main thread goes on with the observer's status, or gives up.
LEMMA ReceiveKeeps == ServiceInv /\ Receive => ServiceInv'
<1> SUFFICES ASSUME ServiceInv, Receive PROVE ServiceInv'
  OBVIOUS
<1>1. PICK i \in 1 .. 15 : Place(i)
  BY DEF ServiceInv
<1>2. i = 10 /\ Tail(main) = Rest(11)
  <2>1. i \in 1 .. 14 /\ MainSteps[i] = "receive" /\ Tail(main) = Rest(i + 1)
    BY <1>1, WhereAt DEF Receive
  <2>2. i = 10
    BY <2>1, Positions
  <2> QED BY <2>1, <2>2
<1>3. Held(10) = Held(11) /\ Held(10) = Held(13)
  BY HeldIs
<1>4. powerState /\ sensor = Held(10)
  BY <1>1, <1>2 DEF Place
<1>5. UNCHANGED <<sensor, powerState, observer, startup, ports>>
  BY DEF Receive
<1>6. main' = Rest(11) \/ main' = Rest(13)
  BY <1>2, RestEnds DEF Receive
<1>7. CASE main' = Rest(11)
  BY <1>1, <1>2, <1>3, <1>4, <1>5, <1>7, MainMoves
<1>8. CASE main' = Rest(13)
  BY <1>1, <1>2, <1>3, <1>4, <1>5, <1>8, MainMoves
<1> QED BY <1>6, <1>7, <1>8

\* What the invariant is about does not change.
LEMMA ServiceKept ==
    ASSUME ServiceInv, UNCHANGED <<main, observer, sensor, powerState, startup, ports>>
    PROVE  ServiceInv'
  BY DEF ServiceInv, Watch, Place

\* The loop ends with all that the process holds.
LEMMA LeaveLoopKeeps == ServiceInv /\ LeaveLoop => ServiceInv'
<1> SUFFICES ASSUME ServiceInv, LeaveLoop PROVE ServiceInv'
  OBVIOUS
<1>1. PICK i \in 1 .. 15 : Place(i)
  BY DEF ServiceInv
<1>2. i = 11 /\ main' = Rest(12)
  <2>1. i \in 1 .. 14 /\ MainSteps[i] = "loop" /\ Tail(main) = Rest(i + 1)
    BY <1>1, WhereAt DEF LeaveLoop
  <2>2. i = 11
    BY <2>1, Positions
  <2> QED BY <2>1, <2>2 DEF LeaveLoop
<1> QED BY <1>1, <1>2, HeldIs, MainMoves DEF LeaveLoop, Place

\* LidSensorClose releases what LidSensorInit acquired.
LEMMA CloseSensorKeeps == ServiceInv /\ CloseSensor => ServiceInv'
<1> SUFFICES ASSUME ServiceInv, CloseSensor PROVE ServiceInv'
  OBVIOUS
<1>1. PICK i \in 1 .. 15 : Place(i)
  BY DEF ServiceInv
<1>2. i = 13 /\ main' = Rest(14)
  <2>1. i \in 1 .. 14 /\ MainSteps[i] = "closeSensor" /\ Tail(main) = Rest(i + 1)
    BY <1>1, WhereAt DEF CloseSensor
  <2>2. i = 13
    BY <2>1, Positions
  <2> QED BY <2>1, <2>2 DEF CloseSensor
<1> QED BY <1>1, <1>2, HeldIs, MainMoves DEF CloseSensor, Place

\* A process that ended, and a new one, hold nothing.
LEMMA ProcessStarts ==
    ASSUME NEW i \in {1, 15}, Process(Rest(i))
    PROVE  ServiceInv'
<1>1. Place(i)'
  BY HeldIs DEF Process, Place
<1>2. Watch' /\ observer' = << >>
  BY DEF Process, Watch
<1>3. i \in 1 .. 15
  OBVIOUS
<1> QED BY <1>1, <1>2, <1>3 DEF ServiceInv

\* Every step of the main thread.
LEMMA MainKeeps == ServiceInv /\ Main => ServiceInv'
<1>1. ServiceInv /\ Sample => ServiceInv'
  BY ServiceKept DEF Sample
<1>2. ServiceInv /\ Exit => ServiceInv'
  BY ProcessStarts, RestEnds DEF Exit
<1> QED BY <1>1, <1>2, HandlersKeep, SensorKeeps, PowerStateKeeps, EffectsKeep, SpawnKeeps,
           ReceiveKeeps, LeaveLoopKeeps, CloseSensorKeeps DEF Main

-----------------------------------------------------------------------------
(* The steps of the power thread and of the world. *)

\* A step of the power thread leaves the main thread where it is.
LEMMA PowerThreadMoves ==
    ASSUME ServiceInv, observer # << >>, Watch', UNCHANGED <<main, sensor, powerState>>
    PROVE  ServiceInv'
<1>1. PICK i \in 1 .. 15 : Place(i)
  BY DEF ServiceInv
<1>2. i \notin 1 .. 9 \cup {15}
  BY <1>1 DEF Place
<1>3. Place(i)'
  BY <1>1, <1>2 DEF Place
<1>4. powerState
  BY DEF ServiceInv
<1> QED BY <1>3, <1>4 DEF ServiceInv

\* The ports are released before the main thread hears of a failure, and it
\* hears of nothing else before.
LEMMA PowerThreadKeeps == ServiceInv /\ PowerThread => ServiceInv'
<1> SUFFICES ASSUME ServiceInv, PowerThread PROVE ServiceInv'
  OBVIOUS
<1>1. CASE Register
  <2>1. observer = ObserverSteps /\ startup = Nothing
    BY <1>1, ObserverLists DEF Register, At, ServiceInv, Watch
  <2>2. Watch'
    BY <1>1, <2>1, ObserverLists DEF Register, Watch
  <2> QED BY <1>1, <2>1, <2>2, ObserverLists, PowerThreadMoves DEF Register
<1>2. CASE Cleanup
  <2>1. observer = FailureSteps /\ startup = Nothing
    BY <1>2, ObserverLists DEF Cleanup, At, ServiceInv, Watch
  <2>2. Watch'
    BY <1>2, <2>1, ObserverLists DEF Cleanup, Watch
  <2> QED BY <1>2, <2>1, <2>2, ObserverLists, PowerThreadMoves DEF Cleanup
<1>3. CASE Notify
  <2>1. \/ observer = <<"notify", "serve">> /\ ports = "registered" /\ At(observer, "notify")
        \/ observer = <<"notifyFailure">> /\ ports = "none" /\ ~At(observer, "notify")
    BY <1>3, ObserverLists DEF Notify, At, ServiceInv, Watch
  <2>2. Watch'
    BY <1>3, <2>1, ObserverLists DEF Notify, Watch
  <2> QED BY <1>3, <2>1, <2>2, ObserverLists, PowerThreadMoves DEF Notify
<1>4. CASE PowerCallback
  <2>1. observer = <<"serve">> /\ ports = "registered" /\ startup = 0
    BY <1>4, ObserverLists DEF PowerCallback, At, ServiceInv, Watch
  <2>2. Watch'
    BY <1>4, <2>1, ObserverLists DEF PowerCallback, Watch, Unchanged
  <2> QED BY <1>4, <2>1, <2>2, ObserverLists, PowerThreadMoves DEF PowerCallback, Unchanged
<1>5. CASE WillSleep
  <2>1. /\ observer \in {<<"allow", "serve">>, <<"willSleep", "allow", "serve">>}
        /\ ports = "registered" /\ startup = 0
    BY <1>5, ObserverLists DEF WillSleep, At, ServiceInv, Watch
  <2>2. Watch'
    BY <1>5, <2>1, ObserverLists DEF WillSleep, Watch, Unchanged
  <2> QED BY <1>5, <2>1, <2>2, ObserverLists, PowerThreadMoves DEF WillSleep, Unchanged
<1> QED BY <1>1, <1>2, <1>3, <1>4, <1>5 DEF PowerThread

\* A signal ends the process or only clears SHOULD_RUN.
LEMMA TerminateKeeps == ServiceInv /\ Terminate => ServiceInv'
  BY ProcessStarts, RestEnds, ServiceKept DEF Terminate

\* The system's sleep, a signal and a crash.
LEMMA WorldKeeps == ServiceInv /\ ServiceWorld => ServiceInv'
<1>1. ServiceInv /\ PowerChange => ServiceInv'
  BY ServiceKept DEF PowerChange, Unchanged
<1>2. ServiceInv /\ Signal => ServiceInv'
  BY TerminateKeeps DEF Signal
<1>3. ServiceInv /\ Crash => ServiceInv'
  BY ProcessStarts, RestEnds DEF Crash
<1>4. ServiceInv /\ BecomeCalm => ServiceInv'
  BY ServiceKept DEF BecomeCalm
<1> QED BY <1>1, <1>2, <1>3, <1>4 DEF ServiceWorld

-----------------------------------------------------------------------------
(* The agent, and the theorems about invariants. *)

\* Before the first launch there is no process.
LEMMA InitInv == Init => ServiceInv
<1> SUFFICES ASSUME Init PROVE ServiceInv
  OBVIOUS
<1>1. /\ main = << >> /\ observer = << >> /\ sensor = {} /\ startup = Nothing
      /\ ports = "none"
  BY DEF Init, ServiceInit, InitialProcess
<1>2. Place(15)
  BY <1>1, RestEnds, HeldIs DEF Place
<1>3. Watch
  BY <1>1 DEF Watch
<1> QED BY <1>1, <1>2, <1>3 DEF ServiceInv

\* Every step of the service, the CLI, launchd and the system.
LEMMA NextInv == ServiceInv /\ [Next]_vars => ServiceInv'
<1> SUFFICES ASSUME ServiceInv, [Next]_vars PROVE ServiceInv'
  OBVIOUS
<1>1. CASE UNCHANGED serviceVars
  BY <1>1, ServiceKept DEF serviceVars
<1>2. CASE Unload
  BY <1>1, <1>2, TerminateKeeps DEF Unload
<1>3. CASE Launch
  BY <1>3, ProcessStarts, RestEnds DEF Launch
<1>4. CASE Main \/ PowerThread \/ ServiceWorld
  BY <1>4, MainKeeps, PowerThreadKeeps, WorldKeeps
<1>5. CASE UNCHANGED vars
  BY <1>1, <1>5 DEF vars
<1>6. CASE Install \/ Uninstall \/ CommandFails \/ ChangePlist \/ Bootstrap \/ Login
  BY <1>1, <1>6 DEF Install, Uninstall, CommandFails, ChangePlist, Bootstrap, Login
<1>7. CASE Bootout \/ UserUnloads
  BY <1>2, <1>7 DEF Bootout, UserUnloads
<1> QED BY <1>3, <1>4, <1>5, <1>6, <1>7 DEF Next, Command

\* A process whose threads have steps left exists.
LEMMA ThreadsNeedAProcess == ServiceInv => (observer # << >> => main # << >>)
<1> SUFFICES ASSUME ServiceInv, observer # << >> PROVE main # << >>
  OBVIOUS
<1>1. PICK i \in 1 .. 15 : Place(i)
  BY DEF ServiceInv
<1>2. i \in 1 .. 14
  BY <1>1 DEF Place
<1> QED BY <1>1, <1>2, RestShape DEF Place

\* The types, but for the one that relates the threads.
Types ==
    /\ sensor \subseteq Resources /\ report \in {0, 1}
    /\ angle \in (RawAngles \cap 0 .. 180) \cup {Nothing}
    /\ powerState \in BOOLEAN /\ shouldRun \in BOOLEAN /\ calm \in BOOLEAN
    /\ startup \in {Nothing, 0, 1}
    /\ ports \in {"none", "partial", "registered"}
    /\ power \in {"awake", "asking", "leaving", "asleep", "waking"}
    /\ plist \in BOOLEAN /\ loaded \in BOOLEAN

\* A new or an ended process has the initial values.
LEMMA ProcessTypes ==
    ASSUME Types, NEW steps, Process(steps), UNCHANGED <<Lasting, plist>>, loaded' \in BOOLEAN
    PROVE  Types'
  BY DEF Types, Process, Lasting

\* The variables that steps about power, signals and the agent change.
LEMMA TypesKept ==
    ASSUME Types, UNCHANGED <<sensor, report, angle, startup, ports>>,
           power' \in {"awake", "asking", "leaving", "asleep", "waking"}, powerState' \in BOOLEAN,
           shouldRun' \in BOOLEAN, calm' \in BOOLEAN, plist' \in BOOLEAN, loaded' \in BOOLEAN
    PROVE  Types'
  BY DEF Types

\* A signal leaves a process as it is or ends it.
LEMMA TerminateTypes ==
    ASSUME Types, Terminate, UNCHANGED <<Lasting, plist>>, loaded' \in BOOLEAN
    PROVE  Types'
<1>1. CASE Process(<< >>)
  BY <1>1, ProcessTypes
<1>2. CASE ~Process(<< >>)
  <2>1. /\ shouldRun' = FALSE /\ calm' = calm /\ power' = power /\ plist' = plist
        /\ UNCHANGED <<sensor, report, angle, powerState, startup, ports>>
    BY <1>2 DEF Terminate, Lasting
  <2>2. /\ shouldRun' \in BOOLEAN /\ calm' \in BOOLEAN /\ plist' \in BOOLEAN
        /\ powerState' \in BOOLEAN
    BY <2>1 DEF Types
  <2>3. power' \in {"awake", "asking", "leaving", "asleep", "waking"}
    BY <2>1 DEF Types
  <2> QED BY <2>1, <2>2, <2>3, TypesKept
<1> QED BY <1>1, <1>2

\* Every step of the main thread.
LEMMA MainTypes == Types /\ Main /\ UNCHANGED agentVars => Types'
<1> SUFFICES ASSUME Types, Main, UNCHANGED agentVars PROVE Types'
  OBVIOUS
<1> USE DEF agentVars, Lasting
<1>1. CASE InstallSignalHandlers \/ SetPowerState \/ Effects \/ Spawn \/ Receive \/ LeaveLoop
  <2>1. /\ UNCHANGED <<sensor, report, angle, startup, ports, shouldRun, Lasting>>
        /\ powerState' = powerState \/ powerState' = TRUE
    BY <1>1 DEF InstallSignalHandlers, SetPowerState, Effects, Spawn, Receive, LeaveLoop
  <2>2. /\ shouldRun' \in BOOLEAN /\ calm' \in BOOLEAN /\ plist' \in BOOLEAN
        /\ loaded' \in BOOLEAN /\ powerState' \in BOOLEAN
    BY <2>1 DEF Types
  <2>3. power' \in {"awake", "asking", "leaving", "asleep", "waking"}
    BY <2>1 DEF Types
  <2> QED BY <2>1, <2>2, <2>3, TypesKept
<1>2. ASSUME NEW i \in DOMAIN SensorSteps, OpenSensor(SensorSteps[i]) PROVE Types'
  BY <1>2 DEF OpenSensor, Types
<1>3. CASE Sample
  BY <1>3, ServiceAssumption DEF Sample, AngleOrError, Types
<1>4. CASE CloseSensor
  BY <1>4 DEF CloseSensor, Types
<1>5. CASE Exit
  BY <1>5, ProcessTypes DEF Exit, Types
<1> QED BY <1>1, <1>2, <1>3, <1>4, <1>5 DEF Main

\* Every step of the power thread.
LEMMA PowerThreadTypes == Types /\ PowerThread /\ UNCHANGED agentVars => Types'
<1> SUFFICES ASSUME Types, PowerThread, UNCHANGED agentVars PROVE Types'
  OBVIOUS
<1>1. CASE Register \/ Cleanup \/ Notify
  BY <1>1 DEF Register, Cleanup, Notify, Types, agentVars, Lasting
<1>2. CASE PowerCallback \/ WillSleep
  <2>1. /\ UNCHANGED <<sensor, report, angle, powerState, startup, ports, shouldRun, calm>>
        /\ power' \in {"leaving", "awake", "asleep", power}
    BY <1>2 DEF PowerCallback, WillSleep, Unchanged
  <2>2. power' \in {"awake", "asking", "leaving", "asleep", "waking"}
    BY <2>1 DEF Types
  <2>3. /\ shouldRun' \in BOOLEAN /\ calm' \in BOOLEAN /\ plist' \in BOOLEAN
        /\ loaded' \in BOOLEAN /\ powerState' \in BOOLEAN
    BY <2>1 DEF Types, agentVars
  <2> QED BY <2>1, <2>2, <2>3, TypesKept
<1> QED BY <1>1, <1>2 DEF PowerThread

\* The system's sleep, a signal and a crash.
LEMMA WorldTypes == Types /\ ServiceWorld /\ UNCHANGED agentVars => Types'
<1> SUFFICES ASSUME Types, ServiceWorld, UNCHANGED agentVars PROVE Types'
  OBVIOUS
<1>1. CASE PowerChange \/ BecomeCalm
  <2>1. /\ UNCHANGED <<sensor, report, angle, powerState, startup, ports, shouldRun>>
        /\ calm' \in {calm, TRUE}
        /\ power' \in {"asking", "leaving", "awake", "asleep", "waking", power}
    BY <1>1 DEF PowerChange, BecomeCalm, Unchanged
  <2>2. power' \in {"awake", "asking", "leaving", "asleep", "waking"}
    BY <2>1 DEF Types
  <2>3. /\ shouldRun' \in BOOLEAN /\ calm' \in BOOLEAN /\ plist' \in BOOLEAN
        /\ loaded' \in BOOLEAN /\ powerState' \in BOOLEAN
    BY <2>1 DEF Types, agentVars
  <2> QED BY <2>1, <2>2, <2>3, TypesKept
<1>2. CASE Signal
  BY <1>2, TerminateTypes DEF Signal, agentVars, Types
<1>3. CASE Crash
  BY <1>3, ProcessTypes DEF Crash, agentVars, Types
<1> QED BY <1>1, <1>2, <1>3 DEF ServiceWorld

\* Every step of the service, the CLI, launchd and the system.
LEMMA NextTypes == Types /\ [Next]_vars => Types'
<1> SUFFICES ASSUME Types, [Next]_vars PROVE Types'
  OBVIOUS
<1>1. CASE UNCHANGED serviceVars /\ plist' \in BOOLEAN /\ loaded' \in BOOLEAN
  BY <1>1 DEF serviceVars, Types
<1>2. CASE Unload /\ UNCHANGED plist
  <2>1. CASE UNCHANGED serviceVars
    BY <1>1, <1>2, <2>1 DEF Unload, Types
  <2>2. CASE Terminate /\ UNCHANGED Lasting
    BY <1>2, <2>2, TerminateTypes DEF Unload
  <2> QED BY <1>2, <2>1, <2>2 DEF Unload
<1>3. CASE Launch
  BY <1>3, ProcessTypes DEF Launch, agentVars, Types
<1>4. CASE (Main \/ PowerThread \/ ServiceWorld) /\ UNCHANGED agentVars
  BY <1>4, MainTypes, PowerThreadTypes, WorldTypes
<1>5. CASE UNCHANGED vars
  BY <1>1, <1>5 DEF vars, agentVars, Types
<1>6. CASE Install \/ Uninstall \/ CommandFails \/ ChangePlist \/ Bootstrap \/ Login
  BY <1>1, <1>6 DEF Install, Uninstall, CommandFails, ChangePlist, Bootstrap, Login, Types
<1>7. CASE Bootout \/ UserUnloads
  BY <1>2, <1>7 DEF Bootout, UserUnloads
<1> QED BY <1>3, <1>4, <1>5, <1>6, <1>7 DEF Next, Command

\* Every variable of the service and the agent keeps its type, and no thread
\* outlives the process.
THEOREM TypeCorrect == Spec => []TypeOK
<1>1. Init => Types
  BY DEF Init, ServiceInit, InitialProcess, Types
<1>2. ServiceInv /\ Types => TypeOK
  BY ThreadsNeedAProcess DEF Types, TypeOK, ServiceTypeOK
<1> QED BY <1>1, <1>2, InitInv, NextInv, NextTypes, PTL DEF Spec

\* Whichever path leads to the end of the process, the sensor is closed, and an
\* observer that did not start has nothing registered.
THEOREM EndsHoldingNothing == Spec => []HoldsNothing
<1>1. ServiceInv => HoldsNothing
  <2> SUFFICES ASSUME ServiceInv, At(main, "exit") PROVE sensor = {} /\ (startup = 1 => ports = "none")
    BY DEF HoldsNothing
  <2>1. PICK i \in 1 .. 15 : Place(i)
    BY DEF ServiceInv
  <2>2. i = 14
    BY <2>1, WhereAt, Positions
  <2>3. sensor = {}
    BY <2>1, <2>2, HeldIs DEF Place
  <2>4. startup = 1 => ports = "none"
    BY ServiceAssumption DEF ServiceInv, Watch
  <2> QED BY <2>3, <2>4
<1> QED BY <1>1, InitInv, NextInv, PTL DEF Spec

-----------------------------------------------------------------------------
(* The service implements the abstract life of a process. *)

\* The stages, told by the main thread's list and the ports alone.
Told ==
    IF main = << >> THEN "absent" ELSE IF Registered THEN "serving" ELSE "recovering"

\* The ports are registered only after the recovery, by a process that has set
\* POWER_STATE; that is what makes a callback safe.
LEMMA RegisteredRecovered == ServiceInv /\ Registered => powerState /\ ~Recovering
<1> SUFFICES ASSUME ServiceInv, Registered PROVE powerState /\ ~Recovering
  OBVIOUS
<1>1. observer # << >>
  BY ObserverLists DEF ServiceInv, Watch, Registered
<1>2. PICK i \in 1 .. 15 : Place(i)
  BY DEF ServiceInv
<1>3. i \in 10 .. 14
  BY <1>1, <1>2 DEF Place
<1>4. /\ DOMAIN Rest(i) = 1 .. 15 - i
      /\ \A k \in 1 .. 15 - i : Rest(i)[k] = MainSteps[i + k - 1]
  <2>1. /\ i \in Int /\ 14 \in Int /\ 14 - i + 1 = 15 - i
        /\ \A k \in i .. 14 : k \in 1 .. 14
    BY <1>3
  <2>2. MainSteps \in Seq(Steps) /\ Len(MainSteps) = 14
    BY MainStepsShape
  <2>3. \A k \in i .. 14 : MainSteps[k] \in Steps
    BY <2>1, <2>2, ElementOfSeq
  <2>4. \A k \in 1 .. 14 - i + 1 : SubSeq(MainSteps, i, 14)[k] = MainSteps[i + k - 1]
    BY <2>1, <2>3, SubSeqProperties
  <2>5. Rest(i) \in Seq(Steps) /\ Len(Rest(i)) = 15 - i
    <3>1. i \in 1 .. 14
      BY <1>3
    <3> QED BY <3>1, RestShape
  <2> QED BY <2>1, <2>4, <2>5 DEF Rest
<1>5. \A k \in 1 .. 15 - i : i + k - 1 \in 1 .. 14 /\ i + k - 1 # 8
  BY <1>3
<1>6. \A k \in 1 .. 15 - i : MainSteps[i + k - 1] # "recover"
  BY <1>5, Positions
<1>7. ~Recovering
  BY <1>2, <1>4, <1>6 DEF Recovering, Place
<1> QED BY <1>1, <1>7 DEF ServiceInv

\* The mapped stage is that.
LEMMA StageTold == ServiceInv => Stage = Told
  BY RegisteredRecovered DEF Stage, Told

\* The same after a step.
LEMMA StageToldThen == ServiceInv' => Stage' = Told'
<1>1. (ServiceInv => Stage = Told)'
  BY StageTold, PTL
<1> QED BY <1>1

\* A step of Lifecycle under the mapping, or a stutter.
LifecycleStep == [Stages!Next]_Stages!lifecycleVars

\* A step that changes none of the three is a stutter.
LEMMA Stutters ==
    ASSUME ServiceInv, ServiceInv', main = << >> <=> main' = << >>,
           Registered <=> Registered', InCallback' = InCallback, Announced' = Announced
    PROVE  LifecycleStep
  BY StageTold, StageToldThen DEF Told, LifecycleStep, Stages!lifecycleVars

\* The process ends, wherever its threads are.
LEMMA Ends ==
    ASSUME ServiceInv, ServiceInv', Process(<< >>), UNCHANGED power
    PROVE  LifecycleStep
<1>1. main' = << >> /\ observer' = << >> /\ Announced' = Announced
  BY DEF Process, Announced
<1>2. Stage' = "absent" /\ InCallback' = FALSE
  BY <1>1, StageTold, StageToldThen DEF Told, InCallback, At
<1> QED BY <1>1, <1>2 DEF LifecycleStep, Stages!Next, Stages!End

\* The main thread ends the process at its last step, and otherwise stutters.
LEMMA MainImplements ==
    ASSUME ServiceInv, ServiceInv', Main
    PROVE  LifecycleStep
<1>1. CASE Exit
  BY <1>1, Ends DEF Exit, Lasting
<1>2. CASE ~Exit
  <2>1. main # << >> /\ UNCHANGED <<ports, power>>
    BY <1>2 DEF Main, InstallSignalHandlers, OpenSensor, SetPowerState, Effects, Spawn, Receive,
                Sample, LeaveLoop, CloseSensor, At, Lasting
  <2>2. main' # << >>
    <3>1. PICK i \in 1 .. 15 : Place(i)
      BY DEF ServiceInv
    <3>2. main' = Tail(main) \/ main' = Rest(14) \/ main' = Rest(13) \/ main' = main
      BY <1>2, RestEnds DEF Main, InstallSignalHandlers, OpenSensor, SetPowerState, Effects,
                            Spawn, Receive, Sample, LeaveLoop, CloseSensor
    <3>3. Rest(14) # << >> /\ Rest(13) # << >>
      BY RestShape
    <3>4. CASE main' = Tail(main) /\ ~At(main, "exit")
      <4>1. i # 15 /\ i # 14
        BY <2>1, <3>1, <3>4, RestEnds DEF Place, At
      <4>2. i \in 1 .. 14 /\ i + 1 \in 1 .. 14
        BY <4>1
      <4> QED BY <3>1, <3>4, <4>2, RestShape DEF Place
    <3>5. CASE At(main, "exit")
      BY <1>2, <2>1, <3>5 DEF Main, InstallSignalHandlers, OpenSensor, SetPowerState, Effects,
                         Spawn, Receive, Sample, LeaveLoop, CloseSensor, At, SensorSteps
    <3> QED BY <2>1, <3>2, <3>3, <3>4, <3>5
  <2>3. InCallback' = InCallback
    <3>1. observer' = observer \/ (observer = << >> /\ observer' = ObserverSteps)
      <4>1. ASSUME Spawn PROVE observer = << >>
        <5>1. PICK i \in 1 .. 15 : Place(i)
          BY DEF ServiceInv
        <5>2. i \in 1 .. 14 /\ MainSteps[i] = "spawn"
          BY <4>1, <5>1, WhereAt DEF Spawn
        <5>3. i = 9
          BY <5>2, Positions
        <5> QED BY <5>1, <5>3 DEF Place
      <4> QED BY <1>2, <4>1 DEF Main, InstallSignalHandlers, OpenSensor, SetPowerState, Effects,
                                Spawn, Receive, Sample, LeaveLoop, CloseSensor
    <3> QED BY <3>1, ObserverLists DEF InCallback, At
  <2> QED BY <2>1, <2>2, <2>3, Stutters DEF Registered, Announced
<1> QED BY <1>1, <1>2

\* Registering the ports begins the service; a callback is a callback.
LEMMA PowerThreadImplements ==
    ASSUME ServiceInv, ServiceInv', PowerThread
    PROVE  LifecycleStep
<1>1. observer # << >> /\ UNCHANGED main
  BY DEF PowerThread, Register, Cleanup, Notify, PowerCallback, WillSleep, Unchanged, At
<1>2. main # << >>
  BY <1>1, ThreadsNeedAProcess
<1>3. CASE Register
  <2>1. observer = ObserverSteps /\ ports = "none"
    BY <1>3, ObserverLists DEF Register, At, ServiceInv, Watch
  <2>2. InCallback' = FALSE /\ InCallback = FALSE /\ Announced' = Announced
    BY <1>3, <2>1, ObserverLists DEF Register, InCallback, At, Announced, Lasting
  <2>3. CASE Registered'
    BY <1>1, <1>2, <2>1, <2>2, <2>3, StageTold, StageToldThen
       DEF Registered, Told, LifecycleStep, Stages!Next, Stages!Serve
  <2>4. CASE ~Registered'
    BY <1>1, <1>2, <2>1, <2>2, <2>4, Stutters DEF Registered
  <2> QED BY <2>3, <2>4
<1>4. CASE Cleanup \/ Notify
  <2>1. InCallback' = FALSE /\ InCallback = FALSE
    BY <1>4, ObserverLists DEF Cleanup, Notify, InCallback, At, ServiceInv, Watch
  <2>2. (Registered <=> Registered') /\ Announced' = Announced
    BY <1>4, ObserverLists DEF Cleanup, Notify, At, ServiceInv, Watch, Registered, Announced, Lasting
  <2> QED BY <1>1, <1>2, <2>1, <2>2, Stutters
<1>5. CASE PowerCallback
  <2>1. observer = <<"serve">> /\ ports = "registered" /\ ports' = "registered"
    BY <1>5, ObserverLists DEF PowerCallback, At, ServiceInv, Watch, Unchanged
  <2>2. Stage = "serving" /\ Stage' = "serving" /\ InCallback = FALSE
    BY <1>1, <1>2, <2>1, StageTold, StageToldThen, ObserverLists DEF Told, Registered, InCallback, At
  <2>3. CASE power = "asking"
    <3>1. Announced = "awake" /\ Announced' = "leaving" /\ InCallback' = FALSE
      BY <1>5, <2>1, <2>3, ObserverLists DEF PowerCallback, Announced, InCallback, At
    <3> QED BY <2>2, <3>1 DEF LifecycleStep, Stages!Next, Stages!PowerChange
  <2>4. CASE power = "leaving"
    <3>1. Announced = "leaving" /\ Announced' = "leaving" /\ InCallback' = TRUE
      BY <1>5, <2>1, <2>4, ObserverLists DEF PowerCallback, Announced, InCallback, At
    <3> QED BY <2>2, <3>1 DEF LifecycleStep, Stages!Next, Stages!WillSleep
  <2>5. CASE power = "waking"
    <3>1. Announced = "waking" /\ Announced' = "awake" /\ InCallback' = FALSE
      BY <1>5, <2>1, <2>5, ObserverLists DEF PowerCallback, Announced, InCallback, At
    <3> QED BY <2>2, <3>1 DEF LifecycleStep, Stages!Next, Stages!DidWake
  <2> QED BY <1>5, <2>3, <2>4, <2>5 DEF PowerCallback
<1>6. CASE WillSleep
  <2>1. /\ \/ observer = <<"allow", "serve">> /\ observer' = <<"serve">>
           \/ /\ observer = <<"willSleep", "allow", "serve">>
              /\ observer' = <<"allow", "serve">>
        /\ ports = "registered" /\ ports' = "registered"
    BY <1>6, ObserverLists DEF WillSleep, At, ServiceInv, Watch, Unchanged
  <2>2. Stage = "serving" /\ Stage' = "serving" /\ InCallback = TRUE
    BY <1>1, <1>2, <2>1, StageTold, StageToldThen, ObserverLists DEF Told, Registered, InCallback, At
  <2>3. CASE observer = <<"allow", "serve">>
    <3>1. Announced' = "asleep" /\ InCallback' = FALSE
      BY <1>6, <2>1, <2>3, ObserverLists DEF WillSleep, Announced, InCallback, At
    <3> QED BY <2>2, <3>1 DEF LifecycleStep, Stages!Next, Stages!AllowSleep
  <2>4. CASE observer = <<"willSleep", "allow", "serve">>
    <3>1. Announced' = Announced /\ InCallback' = TRUE
      BY <1>6, <2>1, <2>4, ObserverLists DEF WillSleep, Announced, InCallback, At
    <3> QED BY <1>1, <1>2, <2>1, <2>2, <3>1, Stutters DEF Registered
  <2> QED BY <2>1, <2>3, <2>4
<1> QED BY <1>3, <1>4, <1>5, <1>6 DEF PowerThread

\* A signal ends the process or leaves it where it is.
LEMMA TerminateImplements ==
    ASSUME ServiceInv, ServiceInv', Terminate, UNCHANGED power
    PROVE  LifecycleStep
<1>1. CASE Process(<< >>)
  BY <1>1, Ends
<1>2. CASE UNCHANGED <<main, observer, ports>>
  BY <1>2, Stutters DEF Registered, InCallback, Announced, At
<1> QED BY <1>1, <1>2 DEF Terminate

\* The system waits for a process that serves, and for no other.
LEMMA WorldImplements ==
    ASSUME ServiceInv, ServiceInv', ServiceWorld
    PROVE  LifecycleStep
<1>1. CASE PowerChange
  <2>1. UNCHANGED <<main, ports, observer>>
    BY <1>1 DEF PowerChange, Unchanged
  <2>2. Stage' = Stage /\ InCallback' = InCallback /\ (Stage = "serving" => Registered)
    BY <2>1, StageTold, StageToldThen DEF Told, Registered, InCallback, At
  <2>3. \/ Announced' = Announced
        \/ Announced = "awake" /\ Announced' = "leaving"
        \/ Announced = "leaving" /\ ~Registered /\ Announced' = "asleep"
        \/ Announced = "asleep" /\ Announced' = "waking"
        \/ Announced = "waking" /\ ~Registered /\ Announced' = "awake"
    BY <1>1 DEF PowerChange, Announced
  <2> QED BY <2>2, <2>3 DEF LifecycleStep, Stages!Next, Stages!PowerChange, Stages!lifecycleVars
<1>2. CASE Signal
  BY <1>2, TerminateImplements DEF Signal, Lasting
<1>3. CASE Crash
  BY <1>3, Ends DEF Crash, Lasting
<1>4. CASE BecomeCalm
  BY <1>4, Stutters DEF BecomeCalm, Registered, InCallback, Announced, At
<1> QED BY <1>1, <1>2, <1>3, <1>4 DEF ServiceWorld

\* Every step of the service and the agent maps to one of Lifecycle or a stutter.
LEMMA NextImplements ==
    ASSUME ServiceInv, ServiceInv', [Next]_vars
    PROVE  LifecycleStep
<1>1. CASE UNCHANGED serviceVars
  BY <1>1, Stutters DEF serviceVars, Registered, InCallback, Announced, At
<1>2. CASE Unload
  BY <1>1, <1>2, TerminateImplements DEF Unload, Lasting
<1>3. CASE Launch
  <2>1. main = << >> /\ observer = << >>
    BY <1>3, ThreadsNeedAProcess DEF Launch
  <2>2. main' # << >> /\ observer' = << >> /\ ~Registered'
    <3>1. Rest(1) # << >>
      BY RestShape
    <3> QED BY <1>3, <3>1, RestEnds DEF Launch, Process, Registered
  <2>3. Stage = "absent" /\ Stage' = "recovering"
    BY <2>1, <2>2, StageTold, StageToldThen DEF Told
  <2>4. InCallback' = InCallback /\ Announced' = Announced
    BY <1>3, <2>1, <2>2 DEF InCallback, At, Announced, Launch, Lasting
  <2> QED BY <2>3, <2>4 DEF LifecycleStep, Stages!Next, Stages!Launch
<1>4. CASE Main \/ PowerThread \/ ServiceWorld
  BY <1>4, MainImplements, PowerThreadImplements, WorldImplements
<1>5. CASE UNCHANGED vars
  BY <1>1, <1>5 DEF vars
<1>6. CASE Install \/ Uninstall \/ CommandFails \/ ChangePlist \/ Bootstrap \/ Login
  BY <1>1, <1>6 DEF Install, Uninstall, CommandFails, ChangePlist, Bootstrap, Login
<1>7. CASE Bootout \/ UserUnloads
  BY <1>2, <1>7 DEF Bootout, UserUnloads
<1> QED BY <1>3, <1>4, <1>5, <1>6, <1>7 DEF Next, Command

\* However start-up, registration, failure, signals and system sleep interleave,
\* the process lives as Lifecycle says: a callback runs only after the recovery
\* and one at a time, and no sleep passes a process that serves.
THEOREM ServiceImplementsLifecycle == Spec => ImplementsLifecycle
<1>1. Init => Stages!Init
  <2> SUFFICES ASSUME Init PROVE Stages!Init
    OBVIOUS
  <2>1. main = << >> /\ observer = << >> /\ power = "awake"
    BY DEF Init, ServiceInit, InitialProcess
  <2> QED BY <2>1 DEF Stages!Init, Stage, InCallback, Announced, At
<1>2. ServiceInv /\ ServiceInv' /\ [Next]_vars => [Stages!Next]_Stages!lifecycleVars
  BY NextImplements DEF LifecycleStep
<1> QED BY <1>1, <1>2, InitInv, NextInv, PTL DEF Spec, ImplementsLifecycle, Stages!Spec
=============================================================================
