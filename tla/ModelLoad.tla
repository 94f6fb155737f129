------------------------------- MODULE ModelLoad -------------------------------
(***************************************************************************)
(* Loading the model (load_adapter and OnnxAdapter::new, with               *)
(* AppConfig::model_path) while operators work on SM_MODEL_DIR, which       *)
(* several server processes may share.  A load looks at the disk up to      *)
(* seven times, and the disk may change between any two looks:              *)
(*                                                                          *)
(*   is there a model?   directory exists, is a directory, file exists      *)
(*   load it             the same three looks again, then the file is read  *)
(***************************************************************************)
EXTENDS Naturals

CONSTANTS
    Loader,     \* the calls that may load the model, of any process
    Model,      \* the models an operator may deploy
    ModelType,  \* ModelType[l]: MODEL_TYPE of its process, "onnx", "" or "other"
    MapIsJson   \* MapIsJson[l]: its ONNX_OUTPUT_MAP_JSON is empty or a JSON map

ASSUME ModelTypeAssumption == ModelType \in [Loader -> {"onnx", "", "other"}]
ASSUME MapAssumption       == MapIsJson \in [Loader -> BOOLEAN]

VARIABLES
    disk,   \* disk.dir: what SM_MODEL_DIR is; disk.file: the file, as a set
    pc,     \* pc[l]: the next look of load l, "idle" when it has ended
    held,   \* held[l]: the model l has read
    result  \* result[l]: {} or the model or the error l ended with

vars == <<disk, pc, held, result>>

\* A file that tract cannot load, half written or not a model.
Broken  == "broken"
Disk    == [dir : {"absent", "file"}, file : {{}}]
              \cup [dir : {"directory"}, file : {{}, {Broken}} \cup {{m} : m \in Model}]
Looks   == {"idle", "exists", "is_dir", "file_exists", "exists_again",
            "is_dir_again", "file_exists_again", "read", "map"}
Reasons == {"dir_missing", "not_a_dir", "model_missing", "model_broken",
            "bad_output_map", "type_unset", "type_unknown"}

Init ==
    /\ disk \in Disk
    /\ pc = [l \in Loader |-> "idle"]
    /\ held = [l \in Loader |-> {}]
    /\ result = [l \in Loader |-> {}]

Goto(l, look) == pc' = [pc EXCEPT ![l] = look] /\ UNCHANGED <<disk, held, result>>

End(l, r) ==
    /\ pc' = [pc EXCEPT ![l] = "idle"]
    /\ held' = [held EXCEPT ![l] = {}]
    /\ result' = [result EXCEPT ![l] = {r}]
    /\ UNCHANGED disk

Begin(l) ==
    /\ pc[l] = "idle"
    /\ pc' = [pc EXCEPT ![l] = "exists"]
    /\ result' = [result EXCEPT ![l] = {}]
    /\ UNCHANGED <<disk, held>>

\* Fault: without a model the load fails whatever MODEL_TYPE is.
NoModelFails(l) == End(l, IF ModelType[l] = "other" THEN "type_unknown" ELSE "type_unset")

\* The first look round only decides whether to load at all: MODEL_TYPE=onnx
\* loads regardless of what it found.
NoModel(l) ==
    IF ModelType[l] = "onnx" THEN Goto(l, "exists_again")
    ELSE End(l, IF ModelType[l] = "other" THEN "type_unknown" ELSE "type_unset")

DirExists(l) ==
    /\ pc[l] = "exists"
    /\ IF disk.dir = "absent" THEN NoModel(l) ELSE Goto(l, "is_dir")

DirIsDir(l) ==
    /\ pc[l] = "is_dir"
    /\ IF disk.dir # "directory" THEN NoModel(l) ELSE Goto(l, "file_exists")

FileExists(l) ==
    /\ pc[l] = "file_exists"
    /\ IF disk.file = {} THEN NoModel(l) ELSE Goto(l, "exists_again")

DirExistsAgain(l) ==
    /\ pc[l] = "exists_again"
    /\ IF disk.dir = "absent" THEN End(l, "dir_missing") ELSE Goto(l, "is_dir_again")

DirIsDirAgain(l) ==
    /\ pc[l] = "is_dir_again"
    /\ IF disk.dir # "directory" THEN End(l, "not_a_dir") ELSE Goto(l, "file_exists_again")

FileExistsAgain(l) ==
    /\ pc[l] = "file_exists_again"
    /\ IF disk.file = {} THEN End(l, "model_missing") ELSE Goto(l, "read")

\* Fault: a model that does not load is returned all the same.
ReadUnchecked(l) ==
    /\ pc[l] = "read"
    /\ IF disk.file = {} THEN End(l, "model_broken")
       ELSE /\ pc' = [pc EXCEPT ![l] = "map"]
            /\ held' = [held EXCEPT ![l] = disk.file]
            /\ UNCHANGED <<disk, result>>

\* The file is opened and read; it may have gone since the last look.
Read(l) ==
    /\ pc[l] = "read"
    /\ IF disk.file \in {{}, {Broken}} THEN End(l, "model_broken")
       ELSE /\ pc' = [pc EXCEPT ![l] = "map"]
            /\ held' = [held EXCEPT ![l] = disk.file]
            /\ UNCHANGED <<disk, result>>

\* The output map is configuration; a model that was read is kept or dropped.
ParseOutputMap(l) ==
    /\ pc[l] = "map"
    /\ IF MapIsJson[l] THEN \E m \in held[l] : End(l, m) ELSE End(l, "bad_output_map")

\* The operator creates, replaces or removes the directory or the file.
Operator == disk' \in Disk /\ disk' # disk /\ UNCHANGED <<pc, held, result>>

Step(l) ==
    \/ Begin(l) \/ DirExists(l) \/ DirIsDir(l) \/ FileExists(l)
    \/ DirExistsAgain(l) \/ DirIsDirAgain(l) \/ FileExistsAgain(l)
    \/ Read(l) \/ ParseOutputMap(l)

Next == Operator \/ \E l \in Loader : Step(l)

Spec == Init /\ [][Next]_vars
-----------------------------------------------------------------------------
\* The types of the variables; and a load that comes to its last look holds
\* one model, never something broken, whatever is on disk by then
\* (adapter.rs:34-44).
LoadInv ==
    /\ disk \in Disk
    /\ pc \in [Loader -> Looks]
    /\ held \in [Loader -> SUBSET Model]
    /\ result \in [Loader -> SUBSET (Model \cup Reasons)]
    /\ \A l \in Loader : pc[l] = "map" => \E m \in Model : held[l] = {m}

\* What a load may truthfully return of a disk: the model that is there if it
\* can be used, and every error the disk or the configuration gives cause for.
Outcomes == [l \in Loader |-> [d \in Disk |->
    (IF MapIsJson[l] THEN d.file \ {Broken} ELSE {"bad_output_map"})
    \cup (IF d.dir = "absent" THEN {"dir_missing"} ELSE {})
    \cup (IF d.dir # "directory" THEN {"not_a_dir"} ELSE {})
    \cup (IF d.file = {} THEN {"model_missing"} ELSE {})
    \cup (IF d.file \in {{}, {Broken}} THEN {"model_broken"} ELSE {})
    \cup (IF d.file = {} /\ ModelType[l] = "" THEN {"type_unset"} ELSE {})
    \cup (IF d.file = {} /\ ModelType[l] = "other" THEN {"type_unknown"} ELSE {})]]

\* A load that has read the model is over as far as the disk is concerned:
\* what it returns is settled although it has not returned.
Atomic == INSTANCE AtomicLoad
    WITH loading <- {l \in Loader : pc[l] \notin {"idle", "map"}},
         result  <- [l \in Loader |->
            IF pc[l] # "map" THEN result[l]
            ELSE IF MapIsJson[l] THEN held[l] ELSE {"bad_output_map"}]

\* A load returns a model that was deployed, or reports an error that was
\* true, at one moment between its call and its return, however the disk
\* changes between its looks: there is no half of one deployment and half of
\* the next, and no model that cannot be used (adapter.rs:29, adapter.rs:179).
ImplementsAtomicLoad == Atomic!Spec
=============================================================================
