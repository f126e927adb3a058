----------------------------- MODULE StateFile -----------------------------
(***************************************************************************)
(* What the daemon relies on when it keeps its state in the recovery file: *)
(* a save empties the file and fills it in a second step, a file removed   *)
(* in between takes the bytes with it, and only a write that fails after   *)
(* another thread's write can leave a state nobody saved.  RecoveryFile,   *)
(* the file as its encoding and an open file description per thread,       *)
(* implements this, and Daemon uses the file in this way.                  *)
(***************************************************************************)
CONSTANTS
    Threads,        \* who saves and clears
    SavedState,     \* what can be saved
    NothingSaved,   \* what an absent file stands for
    Nothing,        \* no save in progress
    Torn,           \* a file that was truncated and not written
    Garbled,        \* one with bytes of a write that failed: neither decodes
    DiskMayFail     \* a write may stop half-way

VARIABLES
    file,   \* what the file decodes to
    open    \* what each thread is about to write; NothingSaved if its file is gone

Init ==
    /\ file \in SavedState \cup {Torn, Garbled}
    /\ open = [t \in Threads |-> Nothing]

Truncate(t) ==
    /\ open[t] = Nothing
    /\ file' = Torn
    /\ open'[t] \in SavedState \ {NothingSaved}
    /\ open' = [open EXCEPT ![t] = open'[t]]

Clear(t) ==
    /\ open[t] = Nothing
    /\ file' = NothingSaved
    /\ open' = [u \in Threads |-> IF open[u] = Nothing THEN Nothing ELSE NothingSaved]

Write(t) ==
    /\ open[t] # Nothing
    /\ file' = IF open[t] = NothingSaved THEN file ELSE open[t]
    /\ open' = [open EXCEPT ![t] = Nothing]

\* What a write that stops half-way can leave.
Spoilt(t) ==
    {file} \cup (IF open[t] = NothingSaved THEN {}
                 ELSE {Garbled} \cup (IF file = Torn THEN {} ELSE SavedState))

WriteFails(t) ==
    /\ open[t] # Nothing
    /\ DiskMayFail
    /\ file' \in Spoilt(t)
    /\ open' = [open EXCEPT ![t] = Nothing]

\* The process ends.
End == open' = [t \in Threads |-> Nothing] /\ UNCHANGED file

Next == End \/ \E t \in Threads : Truncate(t) \/ Clear(t) \/ Write(t) \/ WriteFails(t)

Spec == Init /\ [][Next]_<<file, open>>
=============================================================================
