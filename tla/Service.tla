------------------------------ MODULE Service ------------------------------
(***************************************************************************)
(* A lidoff process from start to end: lib.rs::run and the skeleton of     *)
(* monitor::run on the main thread, the sensor lid_sensor.c opens, reads   *)
(* and closes, PowerObserver::start with its startup channel, and the run  *)
(* loop of power_observer.c on the power thread, which IOKit asks before   *)
(* the system sleeps.  What the monitor and the callbacks do to devices is *)
(* in Daemon; here they are steps without effect.                          *)
(*                                                                         *)
(* As in Daemon a thread is at the head of the list of steps it still has  *)
(* to take.  A list that is empty is a thread that does not exist.         *)
(***************************************************************************)
EXTENDS Integers, Sequences

CONSTANTS
    RawAngles,   \* angles the sensor's report can hold
    Nothing,     \* no angle, no startup status
    Faults       \* which of FaultKinds happen

FaultKinds == {"sensor", "spawn", "register", "crash", "signal"}

ASSUME ServiceAssumption ==
    RawAngles \subseteq Nat /\ Nothing \notin RawAngles \cup {0, 1} /\ Faults \subseteq FaultKinds

VARIABLES
    main, observer,   \* steps left to the main and to the power thread
    sensor,           \* what lid_sensor.c holds, see SensorSteps
    report,           \* lidReportID
    angle,            \* what get_angle returned last
    powerState,       \* POWER_STATE is set
    startup,          \* the startup channel
    ports,            \* of power_observer.c: "none", "partial" or "registered"
    shouldRun,        \* SHOULD_RUN
    power,            \* system power state
    calm              \* from here on nothing fails and nobody signals

serviceVars == << main, observer, sensor, report, angle, powerState, startup, ports,
                  shouldRun, power, calm >>

\* Each step of LidSensorInit acquires the resource of its name.
SensorSteps == <<"manager", "managerOpen", "device", "deviceOpen", "report">>

Resources == {"manager", "managerOpen", "device", "deviceOpen"}

\* Variant: the observer starts before the recovery.
MainStepsObserverFirst ==
    <<"handlers">> \o SensorSteps
        \o << "setPowerState", "spawn", "receive", "recover", "loop", "restore",
              "closeSensor", "exit" >>

\* lib.rs::run and monitor::run
MainSteps ==
    <<"handlers">> \o SensorSteps
        \o << "setPowerState", "recover", "spawn", "receive", "loop", "restore",
              "closeSensor", "exit" >>

\* monitor::run returns an error: the sensor is dropped, the process ends.
GiveUpSteps == <<"closeSensor", "exit">>

\* Variant: the status is sent when the run loop ends.
ObserverStepsLate == <<"register", "serve", "notify">>

\* PowerObserverRunLoop; "serve" is CFRunLoopRun, which does not return.
ObserverSteps == <<"register", "notify", "serve">>

\* Variant: the status is sent before the ports are released.
FailureStepsNotifyingFirst == <<"notifyFailure", "cleanup">>

FailureSteps == <<"cleanup", "notifyFailure">>

CallbackSteps == <<"willSleep", "allow">>

At(thread, step) == thread # << >> /\ Head(thread) = step

May(kind) == kind \in Faults /\ ~calm

Lasting == <<power, calm>>

InitialProcess(steps) ==
    /\ main = steps /\ observer = << >>
    /\ sensor = {} /\ report = 1 /\ angle = Nothing
    /\ powerState = FALSE /\ startup = Nothing /\ ports = "none" /\ shouldRun = TRUE

\* The process, its threads and all it holds are gone, or there anew.
Process(steps) ==
    /\ main' = steps /\ observer' = << >>
    /\ sensor' = {} /\ report' = 1 /\ angle' = Nothing
    /\ powerState' = FALSE /\ startup' = Nothing /\ ports' = "none" /\ shouldRun' = TRUE

ServiceInit == InitialProcess(<< >>) /\ power = "awake" /\ calm = FALSE

-----------------------------------------------------------------------------
(* The main thread. *)

InstallSignalHandlers ==
    /\ At(main, "handlers")
    /\ main' = Tail(main)
    /\ UNCHANGED << observer, sensor, report, angle, powerState, startup, ports, shouldRun,
                    Lasting >>

\* What a failed step of LidSensorInit releases.
Released(step) ==
    CASE step = "manager"     -> {}
      [] step = "managerOpen" -> {"manager"}
      [] step = "device"      -> {"managerOpen", "manager"}
      [] step = "deviceOpen"  -> {"device", "managerOpen", "manager"}
      [] step = "report"      -> Resources

\* LidSensorInit, in a process that has not opened it before.
OpenSensor(step) ==
    /\ At(main, step)
    /\ \/ /\ sensor' = sensor \cup ({step} \cap Resources)
          /\ report' \in (IF step = "report" THEN {1, 0} ELSE {report})
          /\ main' = Tail(main)
       \/ /\ May("sensor")
          /\ sensor' = sensor \ Released(step)
          /\ main' = <<"exit">>
          /\ UNCHANGED report
    /\ UNCHANGED <<observer, angle, powerState, startup, ports, shouldRun, Lasting>>

SetPowerState ==
    /\ At(main, "setPowerState")
    /\ powerState' = TRUE
    /\ main' = Tail(main)
    /\ UNCHANGED <<observer, sensor, report, angle, startup, ports, shouldRun, Lasting>>

\* recover_state_if_needed, and the restore and persist after the loop.
Effects ==
    /\ At(main, "recover") \/ At(main, "restore")
    /\ main' = Tail(main)
    /\ UNCHANGED << observer, sensor, report, angle, powerState, startup, ports, shouldRun,
                    Lasting >>

\* PowerObserver::start
Spawn ==
    /\ At(main, "spawn")
    /\ \/ main' = Tail(main) /\ observer' = ObserverSteps
       \/ May("spawn") /\ main' = GiveUpSteps /\ UNCHANGED observer
    /\ UNCHANGED << sensor, report, angle, powerState, startup, ports, shouldRun, Lasting >>

Receive ==
    /\ At(main, "receive")
    /\ startup # Nothing
    /\ main' = IF startup = 0 THEN Tail(main) ELSE GiveUpSteps
    /\ UNCHANGED << observer, sensor, report, angle, powerState, startup, ports, shouldRun,
                    Lasting >>

\* Variant: any angle of the report is returned.
AngleOf(raw) == raw

\* LidSensorGetAngle
AngleOrError(raw) == IF raw <= 180 THEN raw ELSE Nothing

\* One turn of the loop; an error is waited out like the interval.
Sample ==
    /\ At(main, "loop")
    /\ shouldRun
    /\ \/ \E raw \in RawAngles : angle' = AngleOrError(raw)
       \/ May("sensor") /\ angle' = Nothing
    /\ UNCHANGED << main, observer, sensor, report, powerState, startup, ports, shouldRun,
                    Lasting >>

\* Variant: the flag is only looked at after an angle was read.
LeaveLoopWithAngle ==
    /\ At(main, "loop")
    /\ ~shouldRun /\ angle # Nothing
    /\ main' = Tail(main)
    /\ UNCHANGED << observer, sensor, report, angle, powerState, startup, ports, shouldRun,
                    Lasting >>

LeaveLoop ==
    /\ At(main, "loop")
    /\ ~shouldRun
    /\ main' = Tail(main)
    /\ UNCHANGED << observer, sensor, report, angle, powerState, startup, ports, shouldRun,
                    Lasting >>

\* Dropping the PowerObserver detaches its thread, dropping the LidSensor
\* closes it.
CloseSensor ==
    /\ At(main, "closeSensor")
    /\ sensor' = {} /\ report' = 1
    /\ main' = Tail(main)
    /\ UNCHANGED <<observer, angle, powerState, startup, ports, shouldRun, Lasting>>

Exit == At(main, "exit") /\ Process(<< >>) /\ UNCHANGED Lasting

Main ==
    \/ InstallSignalHandlers
    \/ (\E i \in DOMAIN SensorSteps : OpenSensor(SensorSteps[i]))
    \/ SetPowerState \/ Effects \/ Spawn \/ Receive \/ Sample \/ LeaveLoop
    \/ CloseSensor \/ Exit

-----------------------------------------------------------------------------
(* The power thread. *)

Registered == ports = "registered"

\* IORegisterForSystemPower may fail with some of its results set.
Register ==
    /\ At(observer, "register")
    /\ \/ ports' = "registered" /\ observer' = Tail(observer)
       \/ May("register") /\ ports' \in {"none", "partial"} /\ observer' = FailureSteps
    /\ UNCHANGED <<main, sensor, report, angle, powerState, startup, shouldRun, Lasting>>

\* cleanupPowerNotifications
Cleanup ==
    /\ At(observer, "cleanup")
    /\ ports' = "none"
    /\ observer' = Tail(observer)
    /\ UNCHANGED <<main, sensor, report, angle, powerState, startup, shouldRun, Lasting>>

\* handle_power_observer_startup: the channel has room for its one message.
Notify ==
    /\ At(observer, "notify") \/ At(observer, "notifyFailure")
    /\ startup' = IF At(observer, "notify") THEN 0 ELSE 1
    /\ observer' = Tail(observer)
    /\ UNCHANGED <<main, sensor, report, angle, powerState, ports, shouldRun, Lasting>>

Unchanged == UNCHANGED << main, sensor, report, angle, powerState, startup, ports, shouldRun,
                          calm >>

\* powerCallback, one disjunct per message it handles.
PowerCallback ==
    /\ At(observer, "serve")
    /\ \/ power = "asking"  /\ power' = "leaving" /\ UNCHANGED observer
       \/ power = "leaving" /\ observer' = CallbackSteps \o observer /\ UNCHANGED power
       \/ power = "waking"  /\ power' = "awake" /\ UNCHANGED observer
    /\ Unchanged

\* handle_will_sleep returns, and IOAllowPowerChange acknowledges.
WillSleep ==
    /\ At(observer, "willSleep") \/ At(observer, "allow")
    /\ observer' = Tail(observer)
    /\ power' = IF At(observer, "allow") THEN "asleep" ELSE power
    /\ Unchanged

PowerThread == Register \/ Cleanup \/ Notify \/ PowerCallback \/ WillSleep

-----------------------------------------------------------------------------
(* IOKit and the process's surroundings. *)

\* The system asks before an idle sleep, announces every sleep, and waits for
\* those who are registered.
PowerChange ==
    /\ \/ power = "awake"   /\ power' \in {"asking", "leaving"}
       \/ power = "asking"  /\ ~Registered /\ power' = "leaving"
       \/ power = "asking"  /\ power' = "awake"
       \/ power = "leaving" /\ ~Registered /\ power' = "asleep"
       \/ power = "asleep"  /\ power' = "waking"
       \/ power = "waking"  /\ ~Registered /\ power' = "awake"
    /\ Unchanged /\ UNCHANGED observer

\* Without its handler a signal ends the process.
Terminate ==
    /\ main # << >>
    /\ IF At(main, "handlers") THEN Process(<< >>)
       ELSE shouldRun' = FALSE /\ UNCHANGED << main, observer, sensor, report, angle,
                                               powerState, startup, ports >>

Signal == May("signal") /\ Terminate /\ UNCHANGED Lasting

Crash == May("crash") /\ main # << >> /\ Process(<< >>) /\ UNCHANGED Lasting

BecomeCalm ==
    /\ ~calm /\ calm' = TRUE
    /\ UNCHANGED << main, observer, sensor, report, angle, powerState, startup, ports,
                    shouldRun, power >>

ServiceWorld == PowerChange \/ Signal \/ Crash \/ BecomeCalm

-----------------------------------------------------------------------------
(* Properties. *)

\* Types of every variable; an angle the monitor gets is one a hinge can have.
ServiceTypeOK ==
    /\ sensor \subseteq Resources /\ report \in {0, 1}
    /\ angle \in (RawAngles \cap 0 .. 180) \cup {Nothing}
    /\ powerState \in BOOLEAN /\ shouldRun \in BOOLEAN /\ calm \in BOOLEAN
    /\ startup \in {Nothing, 0, 1}
    /\ ports \in {"none", "partial", "registered"}
    /\ power \in {"awake", "asking", "leaving", "asleep", "waking"}
    /\ (observer # << >> => main # << >>)

\* A process about to end, on whichever path, has closed the sensor, and one
\* whose observer did not start keeps nothing registered.
HoldsNothing == At(main, "exit") => sensor = {} /\ (startup = 1 => ports = "none")

Recovering == \E i \in DOMAIN main : main[i] = "recover"

\* The process, the callback and the power state as Lifecycle sees them.
Stage ==
    IF main = << >> THEN "absent"
    ELSE IF Registered /\ powerState /\ ~Recovering THEN "serving" ELSE "recovering"

InCallback == At(observer, "willSleep") \/ At(observer, "allow")

Announced == IF power = "asking" THEN "awake" ELSE power

Stages == INSTANCE Lifecycle
          WITH stage <- Stage, callback <- InCallback, power <- Announced

\* However start-up, registration and system sleep interleave, a callback runs
\* only after the recovery, and no sleep passes a process that serves.
ImplementsLifecycle == Stages!Spec
=============================================================================
