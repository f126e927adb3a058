--------------------------- MODULE DisplayContract ---------------------------
(***************************************************************************)
(* What effects.rs relies on when it calls the external display            *)
(* controller: every call takes effect at once, a capture puts on record   *)
(* what it disables, and a restore that was not complete keeps the record. *)
(* ExternalDisplays, the controller over a transaction of the window       *)
(* server, implements this; the external displays of Daemon are used in    *)
(* this way.                                                               *)
(***************************************************************************)
EXTENDS Integers, FiniteSets

CONSTANTS
    Displays,         \* external display ids
    Nothing,          \* Option::None
    DisableMayFail,   \* some online displays may not be disabled
    RestoreMayFail    \* some plugged displays may not be enabled again

VARIABLES
    plugged,   \* displays connected
    dark,      \* displays disabled in the window server
    flag,      \* EXTERNAL_DISPLAYS_DISABLED
    held       \* external_display_state: the ids on record, or Nothing

contractVars == <<plugged, dark, flag, held>>

Online == plugged \ dark

Init == plugged = Displays /\ dark = {} /\ flag = FALSE /\ held = Nothing

\* A display that is unplugged meanwhile may be left as it is.
Darken(ids) ==
    /\ DisableMayFail \/ ids = Online
    /\ \E missed \in SUBSET (ids \ plugged) : dark' = dark \cup (ids \ missed)
    /\ flag' = (ids # {})

\* ExternalDisplays::capture_and_disable
Capture ==
    /\ held = Nothing /\ ~flag
    /\ \E ids \in SUBSET Displays : Darken(ids) /\ held' = ids
    /\ UNCHANGED plugged

\* ExternalDisplays::disable, which records nothing
Disable ==
    /\ held \notin {Nothing, {}} /\ ~flag
    /\ \E ids \in SUBSET Displays : Darken(ids)
    /\ UNCHANGED <<plugged, held>>

\* ExternalDisplays::restore_state
Restore ==
    /\ held # Nothing
    /\ \E back \in SUBSET held :
          /\ RestoreMayFail \/ held \cap plugged \subseteq back
          /\ dark' = dark \ back
          /\ held' = IF back = held THEN Nothing ELSE held
    /\ flag' = FALSE
    /\ UNCHANGED plugged

\* Unplugging may or may not end a display's disabled configuration.
Hotplug ==
    /\ \E d \in Displays :
          \/ plugged' = plugged \ {d} /\ dark' \in {dark, dark \ {d}}
          \/ plugged' = plugged \cup {d} /\ UNCHANGED dark
    /\ UNCHANGED <<flag, held>>

Next == Capture \/ Disable \/ Restore \/ Hotplug

Spec == Init /\ [][Next]_contractVars
=============================================================================
