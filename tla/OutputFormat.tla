----------------------------- MODULE OutputFormat -----------------------------
(***************************************************************************)
(* From the outputs of the model to the body of the answer (the end of      *)
(* OnnxAdapter::predict, tensor_to_json, format_output):                    *)
(*                                                                          *)
(*   choose -> format -> ok                                                 *)
(*                                                                          *)
(* The stages read from a configuration                                     *)
(*   outputMap        ONNX_OUTPUT_MAP_JSON: a function from response keys   *)
(*                    to selectors, empty when unset                        *)
(*   outputName       ONNX_OUTPUT_NAME: a selector                          *)
(*   outputIndex      ONNX_OUTPUT_INDEX                                     *)
(*   predictionsOnly  RETURN_PREDICTIONS_ONLY                               *)
(* A selector is the set of the number it reads as: {} when unset or some   *)
(* other text.  A tensor has the fields                                     *)
(*   dtype  "f32", "i64" or "other"                                         *)
(*   shape  its dimensions, and data, its elements in row-major order       *)
(***************************************************************************)
EXTENDS Prediction

CONSTANTS
    NaN,    \* an element that is not a number, or infinite
    Plain   \* the key of a value that is no object

ASSUME PlainAssumption == \A s \in Servers : Plain \notin DOMAIN s.cfg.outputMap

IsSelector(sel) == sel \subseteq Nat /\ \A m, n \in sel : m = n
ASSUME OutputAssumption ==
    \A s \in Servers :
        /\ s.cfg.outputIndex \in Nat
        /\ IsSelector(s.cfg.outputName)
        /\ \A key \in DOMAIN s.cfg.outputMap : IsSelector(s.cfg.outputMap[key])
-----------------------------------------------------------------------------
(* What a session of the ONNX runtime returns.                              *)

\* A tensor of rank 1 or 2 has the elements that its shape says.
IsTensor(t) ==
    /\ t.shape \in Seq(Nat)
    /\ Len(t.data) \in Nat /\ DOMAIN t.data = 1..Len(t.data)
    /\ Len(t.shape) = 1 => Len(t.data) = t.shape[1]
    /\ Len(t.shape) = 2 => Len(t.data) = t.shape[1] * t.shape[2]

AreOutputs(outs) ==
    /\ Len(outs) \in Nat \ {0} /\ DOMAIN outs = 1..Len(outs)
    /\ \A i \in DOMAIN outs : IsTensor(outs[i])
-----------------------------------------------------------------------------
(* Choosing outputs; they count from 0.                                     *)

\* Fault: the index is compared with the number of outputs.
UnclampedByOne(n, count) == IF n < count THEN n ELSE count
Clamped(n, count) == IF n < count THEN n ELSE count - 1

\* A selector that is no number stands for the output by default.
Index(selector, default, count) == Clamped(IF selector = {} THEN default ELSE Only(selector), count)

\* The index of the output under each response key, of as many outputs.
Chosen(count) ==
    IF DOMAIN cfg.outputMap # {}
    THEN [key \in DOMAIN cfg.outputMap |-> Index(cfg.outputMap[key], 0, count)]
    ELSE [key \in {Plain} |-> Index(cfg.outputName, cfg.outputIndex, count)]

\* tensor_to_json: rows for rank 2, the elements in order for any other rank.
\* An element JSON has no number for becomes null.
Elements(data) == [i \in DOMAIN data |-> IF data[i] = NaN THEN Other ELSE Number(data[i])]

\* Fault: the rows of a rank 2 tensor are as long as there are rows.
TransposedJson(t) ==
    IF Len(t.shape) = 2
    THEN Array([i \in 1..t.shape[2] |->
                  Array(Elements(SubSeq(t.data, (i - 1) * t.shape[1] + 1, i * t.shape[1])))])
    ELSE Array(Elements(t.data))

TensorToJson(t) ==
    IF Len(t.shape) = 2
    THEN Array([i \in 1..t.shape[1] |->
                  Array(Elements(SubSeq(t.data, (i - 1) * t.shape[2] + 1, i * t.shape[2])))])
    ELSE Array(Elements(t.data))
-----------------------------------------------------------------------------
(* Formatting.                                                              *)

\* A line per row, or per value; a field that is no number is left empty.
CsvLines(v) ==
    [i \in DOMAIN v.items |-> IF IsMatrix(v) THEN v.items[i].items ELSE <<v.items[i]>>]

\* The output under a response key.
Output(outs, key) == outs[Chosen(Len(outs))[key] + 1]

\* All of the response keys, or an error.
ChosenValues(outs) ==
    IF \E key \in DOMAIN Chosen(Len(outs)) : Output(outs, key).dtype = "other" THEN Err
    ELSE Ok([key \in DOMAIN Chosen(Len(outs)) |-> TensorToJson(Output(outs, key))])

Choose ==
    /\ stage = "choose"
    /\ IF ChosenValues(outputs) = Err THEN Goto("failed")
       ELSE /\ value' = Only(ChosenValues(outputs))
            /\ Advance("format") /\ UNCHANGED <<inputVars, outputs, body>>

\* The JSON keys of predictions that are no object.
WrapPredictionsIfNeeded == IF cfg.predictionsOnly THEN {Plain} ELSE {"predictions"}

\* Fault: an object is written as CSV too.
FormatMapAsCsv(predictions, wanted) ==
    IF wanted = "csv"
    THEN [type |-> "text/csv", keys |-> {},
          lines |-> CsvLines(predictions[CHOOSE key \in DOMAIN predictions : TRUE])]
    ELSE [type |-> "application/json", keys |-> DOMAIN predictions, lines |-> <<>>]

\* An object stays as it is whatever was asked for; CSV is what it is for those
\* who ask for it; JSON is wrapped unless configured otherwise.
FormatOutput(predictions, wanted) ==
    IF DOMAIN predictions = {Plain} /\ wanted = "csv"
    THEN [type |-> "text/csv", keys |-> {}, lines |-> CsvLines(predictions[Plain])]
    ELSE [type |-> "application/json", lines |-> <<>>,
          keys |-> IF DOMAIN predictions = {Plain} THEN WrapPredictionsIfNeeded
                   ELSE DOMAIN predictions]

Format ==
    /\ stage = "format"
    /\ body' = FormatOutput(value, accept)
    /\ Advance("ok") /\ UNCHANGED <<inputVars, outputs, value>>

OutputStep == Choose \/ Format
-----------------------------------------------------------------------------
\* Every configured selector names an output the model has, and the one it
\* asks for when there is one (adapter.rs:153-174).
ChosenOutputExists ==
    stage = "choose" =>
        \A key \in DOMAIN Chosen(Len(outputs)) :
            LET asked == IF key # Plain THEN cfg.outputMap[key]
                         ELSE IF cfg.outputName = {} THEN {cfg.outputIndex}
                         ELSE cfg.outputName
                index == Chosen(Len(outputs))[key]
            IN  /\ index \in 0..(Len(outputs) - 1)
                /\ \A n \in asked : n < Len(outputs) => index = n

\* The items of an answer: JSON array items, or CSV lines.
ItemsOf(key) == IF body.type = "text/csv" THEN body.lines
                ELSE [i \in DOMAIN value[key].items |->
                        IF IsMatrix(value[key]) THEN value[key].items[i].items
                        ELSE <<value[key].items[i]>>]

\* No prediction is lost, repeated or moved to another record between the
\* tensor and the body: an answer has an item per record, in JSON and in CSV
\* alike, and the items hold the elements of the record (adapter.rs:101,
\* input.rs:398).  Outputs of other ranks than 1 and 2 are flattened.
AnswerHasAnItemPerRecord ==
    stage = "ok" =>
        \A key \in DOMAIN value :
            LET t == Output(outputs, key)
                width == IF Len(t.shape) = 2 THEN t.shape[2] ELSE 1
            IN  /\ Len(t.shape) \in {1, 2} => Len(ItemsOf(key)) = t.shape[1]
                /\ \A i \in DOMAIN ItemsOf(key) : Len(ItemsOf(key)[i]) = width
                /\ FlattenSeq(ItemsOf(key)) = Elements(t.data)

\* An answer with configured response keys has all of them, whatever the
\* client accepts (lib.rs:129).
ResponseKeysComplete ==
    stage = "ok" /\ DOMAIN cfg.outputMap # {} =>
        body.type = "application/json" /\ body.keys = DOMAIN cfg.outputMap

\* "returns JSON predictions: {"predictions":[0,0,0]}" (README.md:18-22): an
\* answer in JSON is an object with the key "predictions".
PredictionsUnderTheirKey ==
    stage = "ok" /\ body.type = "application/json" => body.keys = {"predictions"}
=============================================================================
