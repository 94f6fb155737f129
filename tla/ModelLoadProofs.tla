--------------------------- MODULE ModelLoadProofs ---------------------------
(***************************************************************************)
(* That the seven looks of a load implement the single look of module       *)
(* AtomicLoad, for any number of loads and models and however often the     *)
(* disk changes between two looks.                                          *)
(***************************************************************************)
EXTENDS ModelLoad, TLAPS

\* What AtomicLoad sees of a load.
Settled(l) == IF pc[l] # "map" THEN result[l]
              ELSE IF MapIsJson[l] THEN held[l] ELSE {"bad_output_map"}
Looking    == {l \in Loader : pc[l] \notin {"idle", "map"}}

\* A deployed model file holds a model or something broken, and a directory
\* that is none holds nothing.
LEMMA DiskFacts ==
    ASSUME NEW d \in Disk
    PROVE  /\ d.dir \in {"absent", "file", "directory"}
           /\ d.dir # "directory" => d.file = {}
           /\ d.file # {} /\ d.file # {Broken} => \E m \in Model : d.file = {m} /\ m # Broken
BY DEF Disk

LEMMA InitLoadInv == Init => LoadInv
BY DEF Init, LoadInv, Looks

\* The steps that end a load, or move it on, keep the invariant.
LEMMA EndKeepsLoadInv ==
    ASSUME NEW l \in Loader, NEW r \in Model \cup Reasons, LoadInv, End(l, r)
    PROVE  LoadInv'
BY DEF End, LoadInv, Looks

LEMMA GotoKeepsLoadInv ==
    ASSUME NEW l \in Loader, NEW look \in Looks \ {"map"}, LoadInv, Goto(l, look)
    PROVE  LoadInv'
BY DEF Goto, LoadInv

LEMMA StepKeepsLoadInv ==
    ASSUME NEW l \in Loader, LoadInv, Step(l)
    PROVE  LoadInv'
<1>1. CASE Begin(l)
  BY <1>1 DEF Begin, LoadInv, Looks
<1>2. CASE DirExists(l) \/ DirIsDir(l) \/ FileExists(l)
  BY <1>2, EndKeepsLoadInv, GotoKeepsLoadInv
     DEF DirExists, DirIsDir, FileExists, NoModel, Looks, Reasons
<1>3. CASE DirExistsAgain(l) \/ DirIsDirAgain(l) \/ FileExistsAgain(l)
  BY <1>3, EndKeepsLoadInv, GotoKeepsLoadInv
     DEF DirExistsAgain, DirIsDirAgain, FileExistsAgain, Looks, Reasons
<1>4. CASE Read(l)
  <2>1. CASE disk.file \in {{}, {Broken}}
    BY <1>4, <2>1, EndKeepsLoadInv DEF Read, Reasons
  <2>2. CASE disk.file \notin {{}, {Broken}}
    <3>1. PICK m \in Model : disk.file = {m}
      BY <2>2, DiskFacts DEF LoadInv
    <3> QED BY <1>4, <2>2, <3>1 DEF Read, LoadInv, Looks
  <2> QED BY <2>1, <2>2
<1>5. CASE ParseOutputMap(l)
  BY <1>5, EndKeepsLoadInv DEF ParseOutputMap, LoadInv, Reasons
<1> QED BY <1>1, <1>2, <1>3, <1>4, <1>5 DEF Step

LEMMA NextKeepsLoadInv == LoadInv /\ [Next]_vars => LoadInv'
<1> SUFFICES ASSUME LoadInv, [Next]_vars PROVE LoadInv'
  OBVIOUS
<1>1. CASE Operator
  BY <1>1 DEF Operator, LoadInv
<1>2. CASE \E l \in Loader : Step(l)
  BY <1>2, StepKeepsLoadInv
<1>3. CASE UNCHANGED vars
  BY <1>3 DEF vars, LoadInv
<1> QED BY <1>1, <1>2, <1>3 DEF Next

\* The type of the variables, and that a load which has read a model has read
\* exactly one (adapter.rs:29).
THEOREM LoadsHoldOneModel == Spec => []LoadInv
BY InitLoadInv, NextKeepsLoadInv, PTL DEF Spec
-----------------------------------------------------------------------------
(* The refinement.                                                           *)

\* Ending a load that has not settled yet is the one look of AtomicLoad.
LEMMA EndIsFinish ==
    ASSUME NEW l \in Loader, NEW r \in Outcomes[l][disk],
           LoadInv, l \in Looking, End(l, r)
    PROVE  Atomic!Finish(l)
<1>1. Looking' = Looking \ {l}
  BY DEF Looking, End, LoadInv
<1>2. [k \in Loader |-> Settled(k)]' = [[k \in Loader |-> Settled(k)] EXCEPT ![l] = {r}]
  BY DEF Settled, End, LoadInv
<1> QED BY <1>1, <1>2 DEF Atomic!Finish, End, Looking, Settled

\* Moving on to another look is not seen by AtomicLoad.
LEMMA GotoIsStutter ==
    ASSUME NEW l \in Loader, NEW look \in Looks \ {"idle", "map"},
           LoadInv, l \in Looking, Goto(l, look)
    PROVE  UNCHANGED <<disk, Looking, [k \in Loader |-> Settled(k)]>>
BY DEF Looking, Settled, Goto, LoadInv

LEMMA StepRefines ==
    ASSUME NEW l \in Loader, LoadInv, Step(l)
    PROVE  \/ Atomic!Begin(l)
           \/ Atomic!Finish(l)
           \/ UNCHANGED <<disk, Looking, [k \in Loader |-> Settled(k)]>>
<1>d. disk \in Disk
  BY DEF LoadInv
<1>o. Outcomes[l][disk] =
        (IF MapIsJson[l] THEN disk.file \ {Broken} ELSE {"bad_output_map"})
        \cup (IF disk.dir = "absent" THEN {"dir_missing"} ELSE {})
        \cup (IF disk.dir # "directory" THEN {"not_a_dir"} ELSE {})
        \cup (IF disk.file = {} THEN {"model_missing"} ELSE {})
        \cup (IF disk.file \in {{}, {Broken}} THEN {"model_broken"} ELSE {})
        \cup (IF disk.file = {} /\ ModelType[l] = "" THEN {"type_unset"} ELSE {})
        \cup (IF disk.file = {} /\ ModelType[l] = "other" THEN {"type_unknown"} ELSE {})
  BY <1>d DEF Outcomes
<1>1. CASE Begin(l)
  <2>1. Looking' = Looking \cup {l} /\ l \notin Looking
    BY <1>1 DEF Begin, Looking, LoadInv
  <2>2. [k \in Loader |-> Settled(k)]' = [[k \in Loader |-> Settled(k)] EXCEPT ![l] = {}]
    BY <1>1 DEF Begin, Settled, LoadInv
  <2> QED BY <1>1, <2>1, <2>2 DEF Atomic!Begin, Begin, Looking, Settled
<1>2. CASE DirExists(l) \/ DirIsDir(l) \/ FileExists(l)
  <2>1. l \in Looking
    BY <1>2 DEF DirExists, DirIsDir, FileExists, Looking
  <2>2. CASE NoModel(l) /\ disk.file = {}
    <3>1. CASE ModelType[l] = "onnx"
      BY <2>1, <2>2, <3>1, GotoIsStutter DEF NoModel, Looks
    <3>2. CASE ModelType[l] # "onnx"
      BY <1>o, <2>1, <2>2, <3>2, ModelTypeAssumption, EndIsFinish DEF NoModel
    <3> QED BY <3>1, <3>2
  <2>3. CASE Goto(l, "is_dir") \/ Goto(l, "file_exists") \/ Goto(l, "exists_again")
    BY <2>1, <2>3, GotoIsStutter DEF Looks
  <2> QED BY <1>2, <1>d, <2>2, <2>3, DiskFacts DEF DirExists, DirIsDir, FileExists
<1>3. CASE DirExistsAgain(l) \/ DirIsDirAgain(l) \/ FileExistsAgain(l)
  <2>1. l \in Looking
    BY <1>3 DEF DirExistsAgain, DirIsDirAgain, FileExistsAgain, Looking
  <2>2. \/ \E r \in Outcomes[l][disk] : End(l, r)
        \/ \E look \in Looks \ {"idle", "map"} : Goto(l, look)
    BY <1>3, <1>o DEF DirExistsAgain, DirIsDirAgain, FileExistsAgain, Looks
  <2> QED BY <2>1, <2>2, EndIsFinish, GotoIsStutter
<1>4. CASE Read(l)
  <2>1. l \in Looking
    BY <1>4 DEF Read, Looking
  <2>2. CASE disk.file \in {{}, {Broken}}
    BY <1>4, <1>o, <2>1, <2>2, EndIsFinish DEF Read
  <2>3. CASE disk.file \notin {{}, {Broken}}
    <3>1. PICK m \in Model : disk.file = {m} /\ m # Broken
      BY <1>d, <2>3, DiskFacts
    <3> DEFINE r == IF MapIsJson[l] THEN m ELSE "bad_output_map"
    <3>2. r \in Outcomes[l][disk]
      BY <1>o, <3>1
    <3>3. Looking' = Looking \ {l}
      BY <1>4, <2>3 DEF Read, Looking, LoadInv
    <3>4. [k \in Loader |-> Settled(k)]' = [[k \in Loader |-> Settled(k)] EXCEPT ![l] = {r}]
      BY <1>4, <2>3, <3>1 DEF Read, Settled, LoadInv
    <3>5. disk' = disk
      BY <1>4, <2>3 DEF Read
    <3> QED BY <2>1, <3>2, <3>3, <3>4, <3>5 DEF Atomic!Finish, Looking, Settled
  <2> QED BY <2>2, <2>3
<1>5. CASE ParseOutputMap(l)
  <2>1. PICK m \in Model : held[l] = {m}
    BY <1>5 DEF ParseOutputMap, LoadInv
  <2>2. End(l, IF MapIsJson[l] THEN m ELSE "bad_output_map")
    BY <1>5, <2>1 DEF ParseOutputMap
  <2>3. pc[l] = "map"
    BY <1>5 DEF ParseOutputMap
  <2>4. Looking' = Looking
    BY <2>2, <2>3 DEF End, Looking, LoadInv
  <2>5. [k \in Loader |-> Settled(k)]' = [k \in Loader |-> Settled(k)]
    BY <2>1, <2>2, <2>3 DEF End, Settled, LoadInv
  <2> QED BY <2>2, <2>4, <2>5 DEF End
<1> QED BY <1>1, <1>2, <1>3, <1>4, <1>5 DEF Step

\* Whatever the operator does between two looks of a load, the load returns
\* what one single look could have returned (adapter.rs:29, adapter.rs:179).
THEOREM LoadIsAtomic == Spec => ImplementsAtomicLoad
<1>1. Init => Atomic!Init
  BY DEF Init, Atomic!Init
<1>2. LoadInv /\ [Next]_vars => [Atomic!Next]_(Atomic!loadVars)
  <2> SUFFICES ASSUME LoadInv, [Next]_vars
               PROVE  [Atomic!Next]_(Atomic!loadVars)
    OBVIOUS
  <2>1. CASE Operator
    BY <2>1 DEF Operator, Disk, LoadInv, Atomic!Next, Atomic!Change
  <2>2. CASE \E l \in Loader : Step(l)
    BY <2>2, StepRefines DEF Atomic!Next, Atomic!loadVars, Looking, Settled
  <2>3. CASE UNCHANGED vars
    BY <2>3 DEF vars, Atomic!loadVars
  <2> QED BY <2>1, <2>2, <2>3 DEF Next
<1> QED BY <1>1, <1>2, LoadsHoldOneModel, PTL
        DEF Spec, ImplementsAtomicLoad, Atomic!Spec
=============================================================================
