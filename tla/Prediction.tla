------------------------------ MODULE Prediction ------------------------------
(***************************************************************************)
(* A prediction request on its way through a handler, and what its stages   *)
(* share.  The stages themselves are in the modules MediaTypes (which media *)
(* types hold), TabularInput and MultiInput (from the body to the rows the  *)
(* model gets), OutputFormat (from the model's outputs to the answer) and   *)
(* Invocation (the handlers, which run them).                               *)
(***************************************************************************)
EXTENDS NumericRows, FiniteSets, SequencesExt

CONSTANTS
    Servers,       \* the servers considered, see below
    Requests(_),   \* Requests(s): the requests sent to server s, see below
    Infer(_, _),   \* Infer(m, rows): what model m makes of rows, its outputs
                   \* as the set of a sequence of tensors, {} if it fails
    Values         \* the values that bodies are made of, with all their parts

(* A server has the fields cfg, its AppConfig; loadable, whether the model    *)
(* under SM_MODEL_DIR can be loaded; and model, that model.  A configuration *)
(* has the fields                                                            *)
(*   maxBodyBytes, maxRecords             MAX_BODY_BYTES, MAX_RECORDS        *)
(*   inputMode            INPUT_MODE: "tabular" or "other"                  *)
(*   mapIsJson            whether ONNX_INPUT_MAP_JSON is unset, or a JSON   *)
(*                        object of strings                                 *)
(*   timeoutFits          whether ACQUIRE_TIMEOUT_S fits a Duration         *)
(*   defaultContentType, defaultAccept    media texts, see MediaTypes        *)
(* and those the modules of the stages list.  A request has the fields       *)
(*   contentType, accept  as the client states them, see MediaTypes          *)
(*   size                 the length of the body                             *)
(*   lines, docs          the body, see TabularInput                         *)
(*   matrix, header       the rows the client means, and the header it writes *)
(*                        above them in CSV, in a sequence, see TabularInput  *)
(*   records              the records the client means, see MultiInput       *)
(* of which the server sees the first five only.                             *)

ASSUME ValuesAssumption ==
    /\ {v.items : v \in Values} \subseteq Seq(Values)
    /\ UNION {Range(v.fields) : v \in Values} \subseteq Values
    /\ \A v \in Values : v.type = "number" => v = Number(v.number)

ASSUME RequestAssumption ==
    \A requests \in {Requests(s) : s \in Servers} :
        /\ {r.lines : r \in requests} \subseteq Seq(Seq(Values))
        /\ {r.docs : r \in requests} \subseteq Seq(Values)
        /\ {r.matrix : r \in requests} \subseteq Seq(Seq(Values))
        /\ {r.header : r \in requests} \subseteq Seq(Seq(Values))
        /\ \A r \in requests : r.records \in Seq(ToSet(r.records))

VARIABLES
    server,       \* the server, the same over both protocols
    request,      \* the request in progress
    protocol,     \* the protocol it is sent over now, "http" or "grpc"
    answers,      \* answers[p]: the answer it got over protocol p
    stage,        \* what happens to it next, or its outcome
    contentType,  \* the media type its body is read as
    accept,       \* the media type its answer is asked for in
    rows,         \* ParsedInput.x, then the rows of the model's input tensor
    tensors,      \* ParsedInput.tensors
    batch,        \* ParsedInput::batch_size, the batch_size of the gRPC metadata
    outputs,      \* what the model returned
    value,        \* predict's result: the JSON value under each response key
    body          \* the answer: its content type, its JSON keys, its CSV lines

cfg == server.cfg

sessionVars == <<server, request, protocol, answers>>
mediaVars   == <<contentType, accept>>
inputVars   == <<rows, tensors, batch>>
outputVars  == <<outputs, value, body>>
vars        == <<sessionVars, stage, mediaVars, inputVars, outputVars>>

NoTensors == <<>>
NoBody    == [type |-> "none", keys |-> {}, lines |-> <<>>]

\* The outcomes: how a request can be refused, or answered with predictions.
Refusals == {"too_large",  \* longer than max_body_bytes
             "malformed",  \* parse_payload or batch_size returns Err
             "panics",     \* feature selection indexes past the end of a row, or
                           \* the time to wait for a permit is no Duration
             "too_many",   \* more than max_records records
             "internal",   \* the model cannot be loaded
             "rejected",   \* the adapter refuses the input
             "failed"}     \* the model or the reading of its outputs fails
Outcomes == Refusals \cup {"ok"}

\* The two handlers run the same stages, in different orders.
AfterMedia  == IF protocol = "http" THEN "dispatch" ELSE "ensure"

\* Fault: nobody ensures that the adapter is loaded.
AfterBatchUnensured == "rows"
AfterBatch  == IF protocol = "http" THEN "ensure"   ELSE "rows"
AfterEnsure == IF protocol = "http" THEN "rows"     ELSE "dispatch"

\* A body of this type goes the way of the ONNX input map.
IsJsonContentType(type) == type \in {"json", "jsonl"}
ShouldUseOnnxMultiInput(type) == DOMAIN cfg.inputMap # {} /\ IsJsonContentType(type)
Mapped == ShouldUseOnnxMultiInput(contentType)

\* INPUT_MODE knows one mode only.
ValidInputMode == cfg.inputMode = "tabular"

\* The parts of a sequence that are not to be dropped.
Without(s, dropped) ==
    FlattenSeq([i \in DOMAIN s |-> IF s[i] \in dropped THEN <<>> ELSE <<s[i]>>])

Rectangular(m) == \A i \in DOMAIN m : Len(m[i]) = Len(m[1])

\* Steps of a request that only move it on, and those that leave its media
\* types alone.
Goto(next)    == stage' = next /\ UNCHANGED <<sessionVars, mediaVars, inputVars, outputVars>>
Advance(next) == stage' = next /\ UNCHANGED <<sessionVars, mediaVars>>
=============================================================================
