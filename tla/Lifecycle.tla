----------------------------- MODULE Lifecycle -----------------------------
(***************************************************************************)
(* What the power callbacks rely on: they run only in a process that has   *)
(* recovered what its predecessor left, one at a time, and a sleep that is *)
(* announced to such a process waits until its callback has returned.      *)
(* Service, the start-up of the two threads over the lid sensor and IOKit, *)
(* implements this, and the two threads of Daemon live by it.              *)
(***************************************************************************)
VARIABLES
    stage,      \* of the process: "absent", "recovering" or "serving"
    callback,   \* handle_will_sleep is running
    power       \* system power state

lifecycleVars == <<stage, callback, power>>

Init == stage = "absent" /\ callback = FALSE /\ power = "awake"

Launch == stage = "absent" /\ stage' = "recovering" /\ UNCHANGED <<callback, power>>

Serve == stage = "recovering" /\ stage' = "serving" /\ UNCHANGED <<callback, power>>

\* At any moment, also inside a callback.
End == stage' = "absent" /\ callback' = FALSE /\ UNCHANGED power

WillSleep ==
    /\ stage = "serving" /\ ~callback /\ power = "leaving"
    /\ callback' = TRUE
    /\ UNCHANGED <<stage, power>>

AllowSleep ==
    /\ callback
    /\ callback' = FALSE
    /\ power' = "asleep"
    /\ UNCHANGED stage

DidWake ==
    /\ stage = "serving" /\ ~callback /\ power = "waking"
    /\ power' = "awake"
    /\ UNCHANGED <<stage, callback>>

\* The system asks nobody who does not serve.
PowerChange ==
    /\ \/ power = "awake"   /\ power' = "leaving"
       \/ power = "leaving" /\ stage # "serving" /\ power' = "asleep"
       \/ power = "asleep"  /\ power' = "waking"
       \/ power = "waking"  /\ stage # "serving" /\ power' = "awake"
    /\ UNCHANGED <<stage, callback>>

Next == Launch \/ Serve \/ End \/ WillSleep \/ AllowSleep \/ DidWake \/ PowerChange

Spec == Init /\ [][Next]_lifecycleVars
=============================================================================
