---------------------------- MODULE LaunchAgent ----------------------------
(***************************************************************************)
(* The launch agent around the process: install and uninstall of lidoff.rs *)
(* as launchd and the lunchd crate carry them out, and launchd itself,     *)
(* which keeps the process of a loaded agent alive.  A command may fail    *)
(* between two of its steps, and the user may unload the agent or log in   *)
(* again, so plist and loaded agent come in every combination.             *)
(***************************************************************************)
EXTENDS Service

VARIABLES
    plist,     \* the agent's property list exists
    loaded,    \* launchd has loaded the agent
    command    \* steps left to the lidoff command that is running

agentVars == <<plist, loaded, command>>
vars      == <<serviceVars, agentVars>>

Init == ServiceInit /\ plist \in BOOLEAN /\ loaded = FALSE /\ command = << >>

-----------------------------------------------------------------------------
(* The commands; one that has nothing to do returns an error at once. *)

Install ==
    /\ command = << >> /\ ~calm
    /\ ~(plist /\ loaded)
    /\ command' = <<"writePlist", "bootstrap">>
    /\ UNCHANGED <<serviceVars, plist, loaded>>

Uninstall ==
    /\ command = << >> /\ ~calm
    /\ plist \/ loaded
    /\ command' = <<"bootout", "removePlist">>
    /\ UNCHANGED <<serviceVars, plist, loaded>>

\* The command reports an error.
CommandFails == command # << >> /\ ~calm /\ command' = << >> /\ UNCHANGED <<serviceVars, plist, loaded>>

ChangePlist ==
    /\ \/ At(command, "writePlist")  /\ plist' = TRUE
       \/ At(command, "removePlist") /\ plist' = FALSE
    /\ command' = Tail(command)
    /\ UNCHANGED <<serviceVars, loaded>>

Bootstrap ==
    /\ At(command, "bootstrap")
    /\ loaded' = TRUE
    /\ command' = Tail(command)
    /\ UNCHANGED <<serviceVars, plist>>

\* Unloading an agent sends SIGTERM to its process.
Unload ==
    /\ loaded' = FALSE
    /\ IF loaded /\ main # << >> THEN Terminate /\ UNCHANGED Lasting
       ELSE UNCHANGED serviceVars

Bootout ==
    /\ At(command, "bootout")
    /\ Unload
    /\ command' = Tail(command)
    /\ UNCHANGED plist

-----------------------------------------------------------------------------
(* launchd and the user. *)

\* RunAtLoad and KeepAlive::Always
Launch ==
    /\ loaded /\ main = << >>
    /\ Process(MainSteps)
    /\ UNCHANGED <<Lasting, agentVars>>

\* launchctl bootout, or the end of the session.
UserUnloads == loaded /\ ~calm /\ Unload /\ UNCHANGED <<plist, command>>

Login == plist /\ ~loaded /\ ~calm /\ loaded' = TRUE /\ UNCHANGED <<serviceVars, plist, command>>

-----------------------------------------------------------------------------

Command == ChangePlist \/ Bootstrap \/ Bootout

Next ==
    \/ Install \/ Uninstall \/ CommandFails \/ Command
    \/ Launch \/ UserUnloads \/ Login
    \/ (Main \/ PowerThread \/ ServiceWorld) /\ UNCHANGED agentVars

Spec == Init /\ [][Next]_vars

\* Both threads are scheduled, and launchd keeps a loaded agent alive.
FairSpec ==
    /\ Spec
    /\ WF_vars(Main /\ UNCHANGED agentVars) /\ WF_vars(PowerThread /\ UNCHANGED agentVars)
    /\ WF_vars(Launch)

-----------------------------------------------------------------------------
(* Properties. *)

\* Types of every variable of the service and of the agent.
TypeOK == ServiceTypeOK /\ plist \in BOOLEAN /\ loaded \in BOOLEAN

\* A loaded agent ends up sampling the lid, once the sensor and the observer
\* work: whatever failed, crashed or signalled before, no thread is left
\* waiting for the other.
LoadedRuns == <>[](loaded /\ calm) => <>[]At(main, "loop")

\* An agent that stays unloaded ends its process, wherever the SIGTERM met it
\* and whatever the sensor does.
UnloadedStops == <>[]~loaded => <>[](main = << >>)
=============================================================================
