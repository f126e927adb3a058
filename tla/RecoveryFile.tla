---------------------------- MODULE RecoveryFile ----------------------------
(***************************************************************************)
(* The recovery file of recovery_state.rs: its encoding in three versions, *)
(* and the open, truncate, write and remove calls of the two threads that  *)
(* persist, on one path.  A file removed while a thread has it open keeps  *)
(* that thread's bytes without a name; two threads that have it open       *)
(* overwrite each other from the start.                                    *)
(*                                                                         *)
(* A token is one field of the bincode encoding.  A field is not read as   *)
(* one of another kind: what the bytes of a brightness would mean as a tag *)
(* is left out.                                                            *)
(***************************************************************************)
EXTENDS Integers, SequencesExt

CONSTANTS
    Levels,     \* brightness of panel and keyboard
    Displays,   \* external display ids
    Nothing,    \* Option::None
    Torn,       \* what an empty file decodes to
    Garbled,    \* what any other that is not a state decodes to
    Faults      \* {"disk"} if writes and removals may fail

Option(S) == S \cup {Nothing}

SavedState == [ internal : Option(Levels),
                external : Option(SUBSET Displays),
                keyboard : Option(Levels) ]

\* One field as it is encoded: its kind and its value.  Only version 1 wrote a
\* brightness of -1.
Tokens == ({"version"} \X {1, 2, 3}) \cup ({"tag"} \X {0, 1}) \cup ({"bool"} \X BOOLEAN)
             \cup ({"f32"} \X (Levels \cup {-1})) \cup ({"len"} \X Nat)
             \cup ({"id"} \X Displays)

\* What stands for no file, no value or no state is none of those.
ASSUME FileAssumption ==
    /\ Levels \subseteq Nat
    /\ IsFiniteSet(Displays)
    /\ \A ids \in SUBSET Displays : ids \notin {Nothing, Garbled}
    /\ SavedState \cap {Nothing, Torn, Garbled} = {}
    /\ Garbled \notin Nat \cup {Nothing, Torn}
    /\ Nothing \notin Seq(Tokens)

VARIABLES
    bytes,    \* the tokens under the path, or Nothing without a file
    cell,     \* what they decode to, NothingSaved without a file
    legacy,   \* whether state.plist exists
    fd,       \* of each thread: "closed", "open", or "orphan" once removed
    image,    \* the state each thread saves
    alive,    \* whether the process exists
    loaded,   \* what load returned
    meant     \* what an older lidoff that left the file meant, until it is touched

vars == <<bytes, cell, legacy, fd, image, alive, loaded, meant>>

Threads == {"monitor", "power"}

NothingSaved == [internal |-> Nothing, external |-> Nothing, keyboard |-> Nothing]

-----------------------------------------------------------------------------
(* Encoding. *)

LevelTokens(level) ==
    IF level = Nothing THEN << <<"tag", 0>> >> ELSE << <<"tag", 1>>, <<"f32", level>> >>

ListOf == [ids \in SUBSET Displays |-> SetToSeq(ids)]

IdTokens(ids) ==
    IF ids = Nothing THEN << <<"tag", 0>> >>
    ELSE << <<"tag", 1>>, <<"len", Len(ListOf[ids])>> >>
             \o [i \in DOMAIN ListOf[ids] |-> <<"id", ListOf[ids][i]>>]

\* PersistedState, version 3.
Encode(state) ==
    << <<"version", 3>> >> \o LevelTokens(state.internal) \o IdTokens(state.external)
        \o LevelTokens(state.keyboard)

\* PreKeyboardBacklightPersistedState, as the version that had it wrote it.
EncodeV2(state) ==
    << <<"version", 2>> >> \o LevelTokens(state.internal) \o IdTokens(state.external)

\* LegacyPersistedState: -1 is a brightness that was never read.
V1States == [ pendingPanel : BOOLEAN, brightness : Levels \cup {-1},
              pendingExternal : BOOLEAN, external : Option(SUBSET Displays) ]

EncodeV1(old) ==
    << <<"version", 1>>, <<"bool", old.pendingPanel>>, <<"f32", old.brightness>>,
       <<"bool", old.pendingExternal>> >> \o IdTokens(old.external)

-----------------------------------------------------------------------------
(* Decoding.  A field is its value and where the next one starts; one that  *)
(* is cut off or of another kind ends the file.                             *)

IsField(b, i, kind) == i \in DOMAIN b /\ b[i][1] = kind

NoField(b) == [value |-> Garbled, next |-> Len(b) + 1]

Field(b, i, kind) ==
    IF IsField(b, i, kind) THEN [value |-> b[i][2], next |-> i + 1] ELSE NoField(b)

LevelAt(b, i) ==
    LET tag == Field(b, i, "tag")
    IN  IF tag.value = 0 THEN [value |-> Nothing, next |-> i + 1]
        ELSE Field(b, tag.next, "f32")

IdsAt(b, i) ==
    LET tag == Field(b, i, "tag")
        len == Field(b, tag.next, "len")
        ids == len.next .. len.next + len.value - 1
    IN  CASE tag.value = 0 -> [value |-> Nothing, next |-> i + 1]
          [] tag.value # 0 /\ len.value # Garbled /\ (\A j \in ids : IsField(b, j, "id")) ->
                [value |-> {b[j][2] : j \in ids}, next |-> len.next + len.value]
          [] OTHER -> NoField(b)

DecodeV3(b) ==
    LET internal == LevelAt(b, 2)
        external == IdsAt(b, internal.next)
        keyboard == LevelAt(b, external.next)
    IN  IF keyboard.value = Garbled THEN Garbled
        ELSE [internal |-> internal.value, external |-> external.value,
              keyboard |-> keyboard.value]

DecodeV2(b) ==
    LET internal == LevelAt(b, 2)
        external == IdsAt(b, internal.next)
    IN  IF external.value = Garbled THEN Garbled
        ELSE [internal |-> internal.value, external |-> external.value, keyboard |-> Nothing]

\* Variants: the flags of version 1 are not asked; nor whether its brightness
\* was ever read.
DecodeV1Unasked(b) ==
    LET panel    == Field(b, 3, "f32")
        external == IdsAt(b, 5)
    IN  IF external.value = Garbled THEN Garbled
        ELSE [internal |-> IF panel.value >= 0 THEN panel.value ELSE Nothing,
              external |-> external.value, keyboard |-> Nothing]
DecodeV1Unread(b) ==
    LET panel    == Field(b, 3, "f32")
        external == IdsAt(b, 5)
    IN  IF external.value = Garbled THEN Garbled
        ELSE [internal |-> IF b[2][2] THEN panel.value ELSE Nothing,
              external |-> IF b[4][2] THEN external.value ELSE Nothing, keyboard |-> Nothing]

\* Version 1 said in flags what was pending.
DecodeV1(b) ==
    LET panel    == Field(b, 3, "f32")
        external == IdsAt(b, 5)
    IN  IF external.value = Garbled THEN Garbled
        ELSE [ internal |-> IF b[2][2] /\ panel.value >= 0 THEN panel.value ELSE Nothing,
               external |-> IF b[4][2] THEN external.value ELSE Nothing,
               keyboard |-> Nothing ]

\* Variant: what follows the state makes the file invalid.
DecodeStrictly(b) ==
    IF b = << >> THEN Torn
    ELSE IF DecodeV3(b) = Garbled THEN Garbled
    ELSE IF b = Encode(DecodeV3(b)) THEN DecodeV3(b) ELSE Garbled

\* decode_state: the first byte selects the version, and bincode::deserialize
\* leaves bytes behind the state alone.
Decode(b) ==
    IF b = << >> THEN Torn
    ELSE CASE b[1][2] = 3 -> DecodeV3(b)
           [] b[1][2] = 2 -> DecodeV2(b)
           [] b[1][2] = 1 -> DecodeV1(b)

Contents(b) == IF b = Nothing THEN NothingSaved ELSE Decode(b)

Leaves(b) == bytes' = b /\ cell' = Contents(b)

-----------------------------------------------------------------------------
(* The path.  An older lidoff may have left a file of its own version. *)

V1Meaning(old) ==
    [ internal |-> IF old.pendingPanel /\ old.brightness # -1 THEN old.brightness ELSE Nothing,
      external |-> IF old.pendingExternal THEN old.external ELSE Nothing,
      keyboard |-> Nothing ]

Init ==
    /\ \/ bytes = Nothing /\ meant = NothingSaved
       \/ \E old \in V1States : bytes = EncodeV1(old) /\ meant = V1Meaning(old)
       \/ \E old \in [internal : Option(Levels), external : Option(SUBSET Displays)] :
             /\ bytes = EncodeV2(old)
             /\ meant = [internal |-> old.internal, external |-> old.external,
                         keyboard |-> Nothing]
    /\ cell = Contents(bytes)
    /\ legacy \in BOOLEAN
    /\ fd = [t \in Threads |-> "closed"] /\ image = [t \in Threads |-> NothingSaved]
    /\ alive = FALSE /\ loaded = Nothing

\* load, at the start of the process: state.plist goes first, and an error on
\* it is only logged.
Load ==
    /\ ~alive
    /\ alive' = TRUE
    /\ legacy' \in {FALSE} \cup (IF "disk" \in Faults THEN {legacy} ELSE {})
    /\ loaded' = IF bytes = Nothing \/ cell \in {Torn, Garbled} THEN Nothing ELSE cell
    /\ UNCHANGED <<bytes, cell, fd, image, meant>>

\* save opens the file, creating or truncating it.
Open(t) ==
    /\ alive /\ fd[t] = "closed"
    /\ \E state \in SavedState \ {NothingSaved} : image' = [image EXCEPT ![t] = state]
    /\ fd' = [fd EXCEPT ![t] = "open"]
    /\ Leaves(<< >>)
    /\ meant' = Nothing
    /\ UNCHANGED <<legacy, alive, loaded>>

Closed(t) ==
    /\ fd' = [fd EXCEPT ![t] = "closed"]
    /\ image' = [image EXCEPT ![t] = NothingSaved]

\* The first tokens over what is there.
Overlay(tokens) == tokens \o SubSeq(bytes, Len(tokens) + 1, Len(bytes))

\* fs::write, to the open file whether or not it still has a name.
Write(t) ==
    /\ fd[t] # "closed"
    /\ Leaves(IF fd[t] = "open" THEN Overlay(Encode(image[t])) ELSE bytes)
    /\ Closed(t)
    /\ UNCHANGED <<legacy, alive, loaded, meant>>

\* The disk is full before the last token.
WriteFails(t) ==
    /\ fd[t] # "closed"
    /\ "disk" \in Faults
    /\ \E n \in 0 .. Len(Encode(image[t])) - 1 :
          Leaves(IF fd[t] = "open" THEN Overlay(SubSeq(Encode(image[t]), 1, n)) ELSE bytes)
    /\ Closed(t)
    /\ UNCHANGED <<legacy, alive, loaded, meant>>

\* Variant: the file is emptied in place.
ClearInPlace(t) ==
    /\ alive /\ fd[t] = "closed"
    /\ Leaves(<< >>)
    /\ meant' = Nothing
    /\ UNCHANGED <<legacy, fd, image, alive, loaded>>

\* clear
Clear(t) ==
    /\ alive /\ fd[t] = "closed"
    /\ Leaves(Nothing)
    /\ fd' = [u \in Threads |-> IF fd[u] = "open" THEN "orphan" ELSE fd[u]]
    /\ meant' = Nothing
    /\ UNCHANGED <<legacy, image, alive, loaded>>

\* The process ends at any of these steps.
End ==
    /\ alive
    /\ alive' = FALSE
    /\ fd' = [t \in Threads |-> "closed"] /\ image' = [t \in Threads |-> NothingSaved]
    /\ loaded' = Nothing
    /\ UNCHANGED <<bytes, cell, legacy, meant>>

Next ==
    \/ Load \/ End
    \/ \E t \in Threads : Open(t) \/ Write(t) \/ WriteFails(t) \/ Clear(t)

Spec == Init /\ [][Next]_vars

-----------------------------------------------------------------------------
(* Properties. *)

\* What each thread is about to write under the path.
Pending == [t \in Threads |-> CASE fd[t] = "closed" -> Nothing
                                 [] fd[t] = "open"   -> image[t]
                                 [] fd[t] = "orphan" -> NothingSaved]

Cell == INSTANCE StateFile
        WITH file        <- cell,
             open        <- Pending,
             DiskMayFail <- "disk" \in Faults

\* Types of every variable; a thread without the file open has no snapshot.
TypeOK ==
    /\ bytes \in Option(Seq(Tokens)) /\ cell \in SavedState \cup {Torn, Garbled}
    /\ legacy \in BOOLEAN /\ alive \in BOOLEAN
    /\ fd \in [Threads -> {"closed", "open", "orphan"}]
    /\ image \in [Threads -> SavedState]
    /\ \A t \in Threads : fd[t] = "closed" <=> image[t] = NothingSaved
    /\ loaded \in Option(SavedState) /\ meant \in Option(SavedState)

\* Whatever the two threads and the disk do to it, the file loads as the cell
\* the daemon relies on: what was written last in full, unless it was removed
\* or truncated since.
ImplementsCell == Cell!Spec

\* A save that returned Ok is what the next process loads, also from a file in
\* which the other thread left a longer state.
SavedIsLoaded ==
    [][\A t \in Threads : Write(t) /\ fd[t] = "open" => cell' = image[t]]_vars

\* The first process of this version finds what the last one of an older
\* version still owed (legacy_v1_state_decodes_into_optional_display_state,
\* legacy_v2_state_decodes_without_keyboard_backlight_state).
ReadsOlderVersions ==
    [][alive' /\ ~alive /\ meant \notin {Nothing, NothingSaved} => loaded' = meant]_vars
=============================================================================
