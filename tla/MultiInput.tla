------------------------------ MODULE MultiInput ------------------------------
(***************************************************************************)
(* The stages that turn the body of a request into ParsedInput.tensors when *)
(* ONNX_INPUT_MAP_JSON is set (parse_onnx_multi_input, build_onnx_tensors). *)
(* A record is a function from request keys to JSON values.                 *)
(*                                                                          *)
(* They read from a configuration                                           *)
(*   inputMap      ONNX_INPUT_MAP_JSON: a function from request keys to     *)
(*                 names of ONNX inputs                                     *)
(* (ONNX_DYNAMIC_BATCH only turns on a check of the lengths of the tensors, *)
(* which are all made of as many values as there are records) and from a    *)
(* request its docs.                                                        *)
(***************************************************************************)
EXTENDS Prediction, Functions

\* A map that is no JSON has no keys.
ASSUME InputMapAssumption == \A s \in Servers : s.cfg.mapIsJson \/ DOMAIN s.cfg.inputMap = {}

AllObjects(s) == \A i \in DOMAIN s : s[i].type = "object"
Fields(s)     == [i \in DOMAIN s |-> s[i].fields]

RecordsField(doc) == IF HasField(doc, "instances") THEN doc.fields["instances"] ELSE doc

\* An object is one record, a list of objects one each.
RecordsOf(scoped) ==
    IF scoped.type = "object" THEN Ok(<<scoped.fields>>)
    ELSE IF scoped.type = "array" /\ AllObjects(scoped.items) THEN Ok(Fields(scoped.items))
    ELSE Err

ParseJsonRecords(docs)  == IF Len(docs) # 1 THEN Err ELSE RecordsOf(RecordsField(docs[1]))
ParseJsonlRecords(docs) == IF AllObjects(docs) THEN Ok(Fields(docs)) ELSE Err

LoadMultiInputRecords(type) ==
    IF type = "json" THEN ParseJsonRecords(request.docs)
    ELSE ParseJsonlRecords(request.docs)

InputNames == Range(cfg.inputMap)

\* The values of a request key, one per record.
Column(records, key)   == [i \in DOMAIN records |-> records[i][key]]
HasColumn(records, key) == \A i \in DOMAIN records : key \in DOMAIN records[i]
HasColumns(records)     == \A key \in DOMAIN cfg.inputMap : HasColumn(records, key)

Built(new) ==
    /\ tensors' = new
    /\ Advance("batch") /\ UNCHANGED <<rows, batch, outputVars>>

\* Fault: a record without a value is left out of the tensor.
BuildTensorsSkipping(records) ==
    Built([name \in InputNames |->
        LET key == CHOOSE k \in DOMAIN cfg.inputMap : cfg.inputMap[k] = name
            having == SelectSeq(records, LAMBDA r : key \in DOMAIN r)
        IN  Column(having, key)])

\* Every mapped key must be in every record.  Of two keys mapped to the same
\* input the one that the hash map yields last wins.
BuildTensors(records) ==
    IF HasColumns(records)
    THEN \E last \in [InputNames -> DOMAIN cfg.inputMap] :
            /\ \A name \in InputNames : cfg.inputMap[last[name]] = name
            /\ Built([name \in InputNames |-> Column(records, last[name])])
    ELSE Goto("malformed")

ParseMultiInput ==
    /\ stage = "records"
    /\ IF LoadMultiInputRecords(contentType) \in {Err, Ok(<<>>)} THEN Goto("malformed")
       ELSE BuildTensors(Only(LoadMultiInputRecords(contentType)))
-----------------------------------------------------------------------------
\* The values of key are vectors of numbers.
Vectors(records, key) ==
    \A i \in DOMAIN records :
        records[i][key].type = "array" /\ AllNumbers(records[i][key].items)

\* Row i is the vector that record i has under key.
RowsAre(records, key) ==
    rows = [i \in DOMAIN records |-> Numbers(records[i][key].items)]

\* A row comes from one record and all rows from the same key, whatever order
\* the hash map of the input map has, and when several keys share an input.
\* The exception are bare numbers, which make one row of all records
\* (adapter.rs:194, adapter.rs:74).
RowsComeFromOneKey ==
    stage = "predict" /\ Mapped =>
        \E records \in LoadMultiInputRecords(contentType) : \E key \in DOMAIN cfg.inputMap :
            /\ HasColumn(records, key)
            /\ \/ Vectors(records, key) /\ RowsAre(records, key)
               \/ /\ AllNumbers(Column(records, key))
                  /\ rows = <<Numbers(Column(records, key))>>

\* The body, read as of this type, lists the records the client means: an object
\* per line, or a list of objects, bare or under "instances", or one object.
WritesRecords(type) ==
    LET objects == [i \in DOMAIN request.records |-> Object(request.records[i])]
        docs    == request.docs
    IN  \/ type = "jsonl" /\ docs = objects
        \/ /\ type = "json" /\ Len(docs) = 1
           /\ \/ docs[1] = Array(objects)
              \/ HasField(docs[1], "instances") /\ docs[1].fields["instances"] = Array(objects)
              \/ docs = objects /\ ~HasField(docs[1], "instances")

SameLength(records, key) ==
    \A i \in DOMAIN records : Len(records[i][key].items) = Len(records[1][key].items)

\* The records are those the client wrote: if they have a vector under every
\* mapped key, all of one length, they reach the model as these vectors, in
\* JSON as in JSON Lines, unless the model would need more than one tensor, or
\* they are more than max_records (input.rs:179, adapter.rs:59, http.rs:155).
VectorsAccepted ==
    /\ stage \in {"malformed", "panics", "too_many", "rejected", "predict"}
    /\ Mapped /\ ValidInputMode
    /\ WritesRecords(contentType) /\ request.records # <<>>
    /\ \A key \in DOMAIN cfg.inputMap :
          /\ HasColumn(request.records, key)
          /\ Vectors(request.records, key) /\ SameLength(request.records, key)
    => /\ stage = IF Len(request.records) > cfg.maxRecords THEN "too_many"
                  ELSE IF \E x, y \in InputNames : x # y THEN "rejected" ELSE "predict"
       /\ stage = "predict" => \E key \in DOMAIN cfg.inputMap : RowsAre(request.records, key)
=============================================================================
