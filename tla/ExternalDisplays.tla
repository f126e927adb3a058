-------------------------- MODULE ExternalDisplays --------------------------
(***************************************************************************)
(* The external display controller of display_external.rs over skylight.c: *)
(* a call lists the online displays, stages one change per display in a    *)
(* configuration of the window server, and completes or cancels it.        *)
(* Displays come and go at any of these steps.  The calls are made the way *)
(* effects.rs makes them, under EFFECTS_LOCK, one at a time.               *)
(*                                                                         *)
(* Not here: the backup array of skylight.c, which has a slot for every    *)
(* listed display and is only read by SkylightRestoreAll, which nothing    *)
(* calls; get_state, which the daemon does not use; and calls that fail    *)
(* before they stage anything, which change nothing.                       *)
(***************************************************************************)
EXTENDS Integers, FiniteSets

CONSTANTS
    Displays,   \* external display ids
    Nothing,    \* Option::None, and a NULL configuration
    Faults      \* which of FaultKinds happen

FaultKinds == {"configure", "commit"}

ASSUME DisplaysAssumption ==
    /\ \A ids \in SUBSET Displays : ids # Nothing
    /\ Nothing \notin [off : SUBSET Displays, on : SUBSET Displays]
    /\ Nothing \notin [ op : {"capture", "disable", "restore"},
                        left : SUBSET Displays, staged : SUBSET Displays ]
    /\ Faults \subseteq FaultKinds

VARIABLES
    plugged, dark,   \* the window server: connected, and disabled
    flag,            \* EXTERNAL_DISPLAYS_DISABLED
    held,            \* external_display_state of the caller
    config,          \* skylight_config: changes staged, or Nothing
    call,            \* the call in progress, or Nothing
    lit,             \* whether the lid asks for lit displays
    calm             \* from here on nothing fails and nothing is (un)plugged

world == <<plugged, lit, calm>>
vars  == <<plugged, dark, flag, held, config, call, lit, calm>>

Configs == [off : SUBSET Displays, on : SUBSET Displays]

Calls == { c \in [ op     : {"capture", "disable", "restore"},
                   left   : SUBSET Displays,      \* ids the loop has not come to
                   staged : SUBSET Displays ] :   \* ids that were staged
              c.left \cap c.staged = {} }

May(kind) == kind \in Faults /\ ~calm

\* online_displays without the built-in one; a disabled display is not online.
Online == plugged \ dark

Init ==
    /\ plugged = Displays /\ dark = {}
    /\ flag = FALSE /\ held = Nothing
    /\ config = Nothing /\ call = Nothing
    /\ lit \in BOOLEAN /\ calm = FALSE

-----------------------------------------------------------------------------
(* The calls. *)

\* Variant: every listed display counts as done.
BeginCountingAll(op, ids) ==
    /\ call = Nothing
    /\ call' = [op |-> op, left |-> ids, staged |-> ids]
    /\ UNCHANGED <<dark, flag, held, config, world>>

Begin(op, ids) ==
    /\ call = Nothing
    /\ call' = [op |-> op, left |-> ids, staged |-> {}]
    /\ UNCHANGED <<dark, flag, held, config, world>>

\* capture_and_disable
CallCapture == ~lit /\ held = Nothing /\ ~flag /\ Begin("capture", Online)

\* disable: start_partial_dim finds a state that an incomplete restore left
CallDisable == ~lit /\ held \notin {Nothing, {}} /\ ~flag /\ Begin("disable", Online)

\* Variant: it is only tried while the flag is set.
CallRestoreFlagged == lit /\ held # Nothing /\ flag /\ Begin("restore", held)

\* restore_state, on every sample while a state is left
CallRestore == lit /\ held # Nothing /\ Begin("restore", held)

\* CGBeginDisplayConfiguration, unless a configuration is open.
Opened == IF config = Nothing THEN [off |-> {}, on |-> {}] ELSE config

\* skylightSetDisplayEnabled; a missing display may be refused.
Stage(d) ==
    /\ call # Nothing /\ d \in call.left
    /\ \/ /\ call' = [call EXCEPT !.left = @ \ {d}, !.staged = @ \cup {d}]
          /\ config' = IF call.op = "restore"
                       THEN [Opened EXCEPT !.on = @ \cup {d}]
                       ELSE [Opened EXCEPT !.off = @ \cup {d}]
       \/ /\ May("configure") \/ d \notin plugged
          /\ call' = [call EXCEPT !.left = @ \ {d}]
          /\ config' \in {config, Opened}
    /\ UNCHANGED <<dark, flag, held, world>>

Changes == Opened.off \cup Opened.on

\* Variant: the failed or cancelled configuration stays open.
ClosedWhenComplete(complete) == IF complete THEN Nothing ELSE config

\* SkylightFinalize closes the configuration whether or not it completed.
Closed(complete) == Nothing

\* Variant: the flag goes by what was staged, completed or not.
ReturnStaged(ids) ==
    /\ flag' = (call.op # "restore" /\ call.staged # {})
    /\ held' = CASE call.op = "capture" -> ids
                 [] call.op = "disable" -> held
                 [] call.op = "restore" -> IF ids = held THEN Nothing ELSE held

\* Variant: a restore that gets any display back counts as done.
ReturnDoneEarly(ids) ==
    /\ flag' = (call.op # "restore" /\ ids # {})
    /\ held' = CASE call.op = "capture" -> ids
                 [] call.op = "disable" -> held
                 [] call.op = "restore" -> IF ids # {} THEN Nothing ELSE held

\* What the call leaves behind, given the ids its completed configuration has.
Return(ids) ==
    /\ flag' = (call.op # "restore" /\ ids # {})
    /\ held' = CASE call.op = "capture" -> ids
                 [] call.op = "disable" -> held
                 [] call.op = "restore" -> IF ids = held THEN Nothing ELSE held

\* CGCompleteDisplayConfiguration applies all changes or none; a configuration
\* without any is cancelled.  What the call returns follows from it.
Finish ==
    /\ call # Nothing /\ call.left = {}
    /\ \/ /\ \E missed \in SUBSET (Opened.off \ plugged) :
                dark' = (dark \cup (Opened.off \ missed)) \ Opened.on
          /\ Return(call.staged)
          /\ config' = Closed(TRUE)
       \/ /\ May("commit") \/ ~(Changes \subseteq plugged)
          /\ Changes # {}
          /\ Return({})
          /\ config' = Closed(FALSE)
          /\ UNCHANGED dark
    /\ call' = Nothing
    /\ UNCHANGED world

-----------------------------------------------------------------------------
(* The world. *)

\* Unplugging may or may not end a display's disabled configuration.
Hotplug(d) ==
    /\ ~calm
    /\ \/ d \in plugged /\ plugged' = plugged \ {d} /\ dark' \in {dark, dark \ {d}}
       \/ d \notin plugged /\ plugged' = plugged \cup {d} /\ UNCHANGED dark
    /\ UNCHANGED <<flag, held, config, call, lit, calm>>

MoveLid == lit' = ~lit /\ UNCHANGED <<plugged, dark, flag, held, config, call, calm>>

BecomeCalm ==
    /\ ~calm /\ calm' = TRUE
    /\ UNCHANGED <<plugged, dark, flag, held, config, call, lit>>

Calling == (\E d \in Displays : Stage(d)) \/ Finish

Next ==
    \/ CallCapture \/ CallDisable \/ CallRestore \/ Calling
    \/ (\E d \in Displays : Hotplug(d)) \/ MoveLid \/ BecomeCalm

Spec == Init /\ [][Next]_vars

\* A call runs to its end, and the monitor samples an open lid again and again.
FairSpec == Spec /\ WF_vars(Calling) /\ WF_vars(CallRestore)

-----------------------------------------------------------------------------
(* Properties. *)

\* Types of every variable.
TypeOK ==
    /\ plugged \in SUBSET Displays /\ dark \in SUBSET Displays
    /\ flag \in BOOLEAN /\ lit \in BOOLEAN /\ calm \in BOOLEAN
    /\ held \in (SUBSET Displays) \cup {Nothing}
    /\ config \in Configs \cup {Nothing}
    /\ call \in Calls \cup {Nothing}

\* No call leaves changes staged in skylight_config: the next call, which opens
\* a configuration only if there is none, would carry them out.
NothingStaged == call = Nothing => config = Nothing

\* EXTERNAL_DISPLAYS_DISABLED never outlives the record: with the flag set and
\* no ids on record a half close would neither disable nor restore a display.
FlagBacked == flag => held \notin {Nothing, {}}

Contract == INSTANCE DisplayContract
            WITH DisableMayFail <- TRUE, RestoreMayFail <- TRUE

\* Whatever is unplugged or fails between two steps of a call, each call takes
\* effect as one step the caller can rely on.
ImplementsContract == Contract!Spec

\* A record that an incomplete restore left is worked off once all displays are
\* back and the calls work.
WorkedOff == <>[](lit /\ calm /\ plugged = Displays) => <>[](held = Nothing)
=============================================================================
