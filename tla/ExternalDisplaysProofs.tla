----------------------- MODULE ExternalDisplaysProofs -----------------------
(*****************************************************************************)
(* The external display controller implements its contract, for any set of   *)
(* displays and any faults. The window server's transaction is what has to   *)
(* be understood: while a call runs, the open configuration holds exactly    *)
(* the changes the call has counted (Staged), and the record and the flag    *)
(* are what the call found when it began (Begun).                            *)
(*****************************************************************************)
EXTENDS ExternalDisplays, TLAPS

\* What a call found when it began still holds when it returns.
Begun ==
    call # Nothing =>
        /\ call.op = "capture" => held = Nothing /\ ~flag
        /\ call.op = "disable" => held \notin {Nothing, {}} /\ ~flag
        /\ call.op = "restore" => held # Nothing /\ call.left \cup call.staged \subseteq held

\* The open configuration holds the changes the call counts, and no others.
Staged ==
    call # Nothing =>
        /\ call.op = "restore" => Opened.on = call.staged /\ Opened.off = {}
        /\ call.op # "restore" => Opened.off = call.staged /\ Opened.on = {}

Inv == TypeOK /\ NothingStaged /\ FlagBacked /\ Begun /\ Staged

\* The fields of a call.
LEMMA CallFields ==
    ASSUME NEW c \in Calls
    PROVE  /\ c.op \in {"capture", "disable", "restore"}
           /\ c.left \in SUBSET Displays /\ c.staged \in SUBSET Displays
           /\ c # Nothing
BY DisplaysAssumption DEF Calls

\* What the program starts with.
LEMMA InitInv == Init => Inv
BY DisplaysAssumption
DEF Init, Inv, TypeOK, NothingStaged, FlagBacked, Begun, Staged

\* A call that begins over a closed configuration keeps the invariant.
LEMMA BeginInv ==
    ASSUME Inv, NEW op \in {"capture", "disable", "restore"}, NEW ids \in SUBSET Displays,
           Begin(op, ids),
           op = "capture" => held = Nothing /\ ~flag,
           op = "disable" => held \notin {Nothing, {}} /\ ~flag,
           op = "restore" => held # Nothing /\ ids \subseteq held
    PROVE  Inv'
<1> DEFINE c == [op |-> op, left |-> ids, staged |-> {}]
<1>1. /\ call' = c /\ c \in Calls /\ c # Nothing
      /\ c.op = op /\ c.left = ids /\ c.staged = {}
  BY DisplaysAssumption DEF Begin, Calls
<1>2. UNCHANGED <<dark, flag, held, config, world>> /\ config = Nothing
  BY DEF Begin, Inv, NothingStaged
<1> HIDE DEF c
<1>3. TypeOK' /\ NothingStaged' /\ FlagBacked'
  BY <1>1, <1>2 DEF Inv, TypeOK, NothingStaged, FlagBacked, world
<1>4. Begun'
  BY <1>1, <1>2 DEF Begun
<1>5. Staged'
  BY <1>1, <1>2 DEF Staged, Opened
<1> QED BY <1>3, <1>4, <1>5 DEF Inv

\* The three calls begin in that way.
LEMMA CallInv ==
    ASSUME Inv, CallCapture \/ CallDisable \/ CallRestore
    PROVE  Inv'
<1>1. plugged \in SUBSET Displays /\ Online \in SUBSET Displays
  BY DEF Inv, TypeOK, Online
<1>2. CASE CallCapture
  BY <1>1, <1>2, BeginInv DEF CallCapture
<1>3. CASE CallDisable
  BY <1>1, <1>3, BeginInv DEF CallDisable
<1>4. CASE CallRestore
  <2>1. held \in SUBSET Displays /\ held # Nothing /\ Begin("restore", held)
    BY <1>4 DEF CallRestore, Inv, TypeOK
  <2> QED BY <2>1, BeginInv
<1> QED BY <1>2, <1>3, <1>4

\* Staging one display keeps configuration and count together.
LEMMA StageInv ==
    ASSUME Inv, NEW d \in Displays, Stage(d)
    PROVE  Inv'
<1>1. /\ call \in Calls /\ call # Nothing /\ d \in call.left
      /\ UNCHANGED <<dark, flag, held, world>>
  BY DEF Stage, Inv, TypeOK
<1>2. Opened \in Configs
  BY DEF Opened, Inv, TypeOK, Configs
<1>3. CASE /\ call' = [call EXCEPT !.left = @ \ {d}, !.staged = @ \cup {d}]
           /\ config' = IF call.op = "restore"
                        THEN [Opened EXCEPT !.on = @ \cup {d}]
                        ELSE [Opened EXCEPT !.off = @ \cup {d}]
  <2>1. /\ call' \in Calls /\ call'.op = call.op
        /\ call'.left = call.left \ {d} /\ call'.staged = call.staged \cup {d}
    BY <1>1, <1>3 DEF Calls
  <2>2. /\ config' \in Configs
        /\ call.op = "restore" => config'.on = Opened.on \cup {d} /\ config'.off = Opened.off
        /\ call.op # "restore" => config'.off = Opened.off \cup {d} /\ config'.on = Opened.on
    BY <1>2, <1>3 DEF Configs
  <2>3. Opened' = config'
    BY <2>2, DisplaysAssumption DEF Opened, Configs
  <2>4. TypeOK' /\ NothingStaged' /\ FlagBacked'
    BY <1>1, <2>1, <2>2, CallFields DEF Inv, TypeOK, NothingStaged, FlagBacked, world
  <2>5. Begun'
    BY <1>1, <2>1 DEF Inv, Begun
  <2>6. Staged'
    BY <1>1, <2>1, <2>2, <2>3 DEF Inv, Staged
  <2> QED BY <2>4, <2>5, <2>6 DEF Inv
<1>4. CASE call' = [call EXCEPT !.left = @ \ {d}] /\ config' \in {config, Opened}
  <2>1. /\ call' \in Calls /\ call'.op = call.op
        /\ call'.left = call.left \ {d} /\ call'.staged = call.staged
    BY <1>1, <1>4 DEF Calls
  <2>2. config' \in Configs \cup {Nothing} /\ Opened' = Opened
    BY <1>2, <1>4, DisplaysAssumption DEF Opened, Inv, TypeOK, Configs
  <2>3. TypeOK' /\ NothingStaged' /\ FlagBacked'
    BY <1>1, <2>1, <2>2, CallFields DEF Inv, TypeOK, NothingStaged, FlagBacked, world
  <2>4. Begun' /\ Staged'
    BY <1>1, <2>1, <2>2 DEF Inv, Begun, Staged
  <2> QED BY <2>3, <2>4 DEF Inv
<1> QED BY <1>3, <1>4 DEF Stage

\* How a call ends: which of its displays were changed, and what it records.
LEMMA FinishEnds ==
    ASSUME Inv, Finish
    PROVE  \E ids \in {{}, call.staged} :
              /\ Return(ids)
              /\ call.op = "restore" => dark' = dark \ ids
              /\ call.op # "restore" =>
                    \E missed \in SUBSET (ids \ plugged) : dark' = dark \cup (ids \ missed)
              /\ call \in Calls /\ call # Nothing
              /\ call' = Nothing /\ config' = Nothing
              /\ UNCHANGED world
<1>1. /\ call \in Calls /\ call # Nothing /\ call' = Nothing /\ config' = Nothing
      /\ UNCHANGED world
  BY DEF Finish, Closed, Inv, TypeOK
<1>2. /\ call.op = "restore" => Opened.on = call.staged /\ Opened.off = {}
      /\ call.op # "restore" => Opened.off = call.staged /\ Opened.on = {}
  BY <1>1 DEF Inv, Staged
<1>3. CASE /\ \E missed \in SUBSET (Opened.off \ plugged) :
                 dark' = (dark \cup (Opened.off \ missed)) \ Opened.on
           /\ Return(call.staged)
  <2>1. PICK missed \in SUBSET (Opened.off \ plugged) :
            dark' = (dark \cup (Opened.off \ missed)) \ Opened.on
    BY <1>3
  <2>2. call.op = "restore" => dark' = dark \ call.staged
    BY <1>2, <2>1
  <2>3. call.op # "restore" => missed \in SUBSET (call.staged \ plugged)
                               /\ dark' = dark \cup (call.staged \ missed)
    BY <1>2, <2>1
  <2> QED BY <1>1, <1>3, <2>2, <2>3
<1>4. CASE Return({}) /\ UNCHANGED dark
  BY <1>1, <1>4
<1> QED BY <1>3, <1>4 DEF Finish

\* A call that ends leaves nothing staged and no flag without a record.
LEMMA FinishInv ==
    ASSUME Inv, Finish
    PROVE  Inv'
<1>1. PICK ids \in {{}, call.staged} :
          /\ Return(ids)
          /\ call.op = "restore" => dark' = dark \ ids
          /\ call.op # "restore" =>
                \E missed \in SUBSET (ids \ plugged) : dark' = dark \cup (ids \ missed)
          /\ call \in Calls /\ call # Nothing
          /\ call' = Nothing /\ config' = Nothing
          /\ UNCHANGED world
  BY FinishEnds
<1>2. call.op \in {"capture", "disable", "restore"} /\ ids \in SUBSET Displays
  BY <1>1, CallFields
<1>3. /\ dark' \in SUBSET Displays
      /\ flag' \in BOOLEAN /\ held' \in (SUBSET Displays) \cup {Nothing}
  BY <1>1, <1>2 DEF Return, Inv, TypeOK
<1>4. TypeOK' /\ NothingStaged' /\ Begun' /\ Staged'
  BY <1>1, <1>3 DEF Inv, TypeOK, NothingStaged, Begun, Staged, world
<1>5. FlagBacked'
  BY <1>1, <1>2, DisplaysAssumption DEF Return, Inv, FlagBacked, Begun
<1> QED BY <1>4, <1>5 DEF Inv

\* The world touches neither the configuration nor what the controller knows.
LEMMA WorldInv ==
    ASSUME Inv, (\E d \in Displays : Hotplug(d)) \/ MoveLid \/ BecomeCalm
    PROVE  Inv'
<1>1. /\ UNCHANGED <<flag, held, config, call>>
      /\ plugged' \in SUBSET Displays /\ dark' \in SUBSET Displays
      /\ lit' \in BOOLEAN /\ calm' \in BOOLEAN
  BY DEF Hotplug, MoveLid, BecomeCalm, Inv, TypeOK
<1> QED BY <1>1 DEF Inv, TypeOK, NothingStaged, FlagBacked, Begun, Staged, Opened

\* Every step keeps the invariant.
LEMMA NextInv == Inv /\ [Next]_vars => Inv'
<1> SUFFICES ASSUME Inv, [Next]_vars PROVE Inv'
  OBVIOUS
<1>1. CASE UNCHANGED vars
  BY <1>1 DEF vars, Inv, TypeOK, NothingStaged, FlagBacked, Begun, Staged, Opened
<1>2. CASE Next
  BY <1>2, CallInv, StageInv, FinishInv, WorldInv DEF Next, Calling
<1> QED BY <1>1, <1>2

\* The invariant holds for ever.
LEMMA Invariance == Spec => []Inv
BY InitInv, NextInv, PTL DEF Spec

\* Every variable keeps its type, whatever is staged, fails or is unplugged.
THEOREM ControllerTypeCorrect == Spec => []TypeOK
BY Invariance, PTL DEF Inv

\* No call leaves changes in skylight_config for the next one to carry out.
THEOREM NothingLeftStaged == Spec => []NothingStaged
BY Invariance, PTL DEF Inv

\* EXTERNAL_DISPLAYS_DISABLED never outlives the record.
THEOREM FlagIsBacked == Spec => []FlagBacked
BY Invariance, PTL DEF Inv

-----------------------------------------------------------------------------
(* The refinement. *)

\* The variables of the contract.
contracted == <<plugged, dark, flag, held>>

\* Beginning and staging change nothing the caller can see.
LEMMA SilentStep ==
    ASSUME \/ CallCapture \/ CallDisable \/ CallRestore \/ MoveLid \/ BecomeCalm
           \/ \E d \in Displays : Stage(d)
    PROVE  UNCHANGED contracted
BY DEF CallCapture, CallDisable, CallRestore, Begin, MoveLid, BecomeCalm, Stage, world,
       contracted

\* A call that ends is the call of that name of the contract.
LEMMA FinishStep ==
    ASSUME Inv, Finish
    PROVE  Contract!Capture \/ Contract!Disable \/ Contract!Restore
<1>1. PICK ids \in {{}, call.staged} :
          /\ Return(ids)
          /\ call.op = "restore" => dark' = dark \ ids
          /\ call.op # "restore" =>
                \E missed \in SUBSET (ids \ plugged) : dark' = dark \cup (ids \ missed)
          /\ call \in Calls /\ call # Nothing
          /\ call' = Nothing /\ config' = Nothing
          /\ UNCHANGED world
  BY FinishEnds
<1>2. call.op \in {"capture", "disable", "restore"} /\ ids \in SUBSET Displays
  BY <1>1, CallFields
<1>3. UNCHANGED plugged
  BY <1>1 DEF world
<1>4. CASE call.op = "capture"
  <2>1. Contract!Darken(ids) /\ held' = ids /\ held = Nothing /\ ~flag
    BY <1>1, <1>4 DEF Contract!Darken, Return, Inv, Begun
  <2> QED BY <1>2, <1>3, <2>1 DEF Contract!Capture
<1>5. CASE call.op = "disable"
  <2>1. Contract!Darken(ids) /\ held' = held /\ held \notin {Nothing, {}} /\ ~flag
    BY <1>1, <1>5 DEF Contract!Darken, Return, Inv, Begun
  <2> QED BY <1>2, <1>3, <2>1 DEF Contract!Disable
<1>6. CASE call.op = "restore"
  <2>1. /\ held # Nothing /\ ids \in SUBSET held
        /\ flag' = FALSE /\ dark' = dark \ ids
        /\ held' = IF ids = held THEN Nothing ELSE held
    BY <1>1, <1>6 DEF Return, Inv, Begun
  <2> QED BY <1>3, <2>1 DEF Contract!Restore
<1> QED BY <1>2, <1>4, <1>5, <1>6

\* Plugging and unplugging are those of the contract.
LEMMA HotplugStep ==
    ASSUME NEW d \in Displays, Hotplug(d)
    PROVE  Contract!Hotplug
BY DEF Hotplug, Contract!Hotplug

\* The initial states of the controller are those of the contract.
LEMMA ContractInit == Init => Contract!Init
BY DEF Init, Contract!Init

\* Every step of the controller is a step of the contract or none.
LEMMA ContractStep ==
    Inv /\ [Next]_vars => [Contract!Next]_(Contract!contractVars)
<1> SUFFICES ASSUME Inv, [Next]_vars
             PROVE  Contract!Next \/ UNCHANGED contracted
  BY DEF Contract!contractVars, contracted
<1>1. CASE UNCHANGED vars
  BY <1>1 DEF vars, contracted
<1>2. CASE Next
  BY <1>2, SilentStep, FinishStep, HotplugStep DEF Next, Calling, Contract!Next
<1> QED BY <1>1, <1>2

\* Whatever is unplugged or fails between two steps of a call, each call takes
\* effect as one step of the contract.
THEOREM ControllerImplementsContract == Spec => ImplementsContract
BY InitInv, NextInv, ContractInit, ContractStep, PTL
DEF Spec, ImplementsContract, Contract!Spec
=============================================================================
