--------------------------- MODULE InvocationProofs ---------------------------
(***************************************************************************)
(* Theorems about Invocation.  Each states a property of Invocation.cfg for *)
(* every set of servers, requests and models.  Those here do not depend on  *)
(* what the decoders make of a body, which is the matter of InputProofs and *)
(* MeaningProofs; that the protocols agree is in ParityProofs.              *)
(***************************************************************************)
EXTENDS InputLemmas

\* The steps that parse_payload takes before the batch size is known.
ParseStep == Dispatch \/ TabularStep \/ ParseMultiInput

LEMMA HandlerCases ==
    ASSUME HandlerStep
    PROVE  \/ RefuseLoadError \/ CheckSize \/ AcquirePermit \/ ResolveMediaTypes \/ Ensure
           \/ ParseStep \/ ParsedInputStep \/ Run \/ OutputStep
  BY DEF HandlerStep, ParseStep

\* What is decoded and selected depends on the server and the request only.
LEMMA FeatureIdxStays ==
    ASSUME NEW n, UNCHANGED server PROVE FeatureIdx(n)' = FeatureIdx(n)
  BY DEF FeatureIdx, cfg

LEMMA SelectionStays ==
    ASSUME NEW x, UNCHANGED server
    PROVE  /\ Selecting' = Selecting
           /\ Reaches(x)' = Reaches(x) /\ Selected(x)' = Selected(x)
  <1>1. Idx(x)' = Idx(x)
    BY FeatureIdxStays DEF Idx
  <1>2. Selecting' = Selecting
    BY DEF Selecting, cfg
  <1>3. Reaches(x)' = Reaches(x)
    BY <1>1 DEF Reaches
  <1>4. Selected(x)' = Selected(x)
    BY <1>1 DEF Selected
  <1> QED BY <1>2, <1>3, <1>4

LEMMA MatrixStays ==
    ASSUME NEW type, UNCHANGED <<server, request>>
    PROVE  ParseTabularMatrix(type)' = ParseTabularMatrix(type)
  <1>1. ASSUME NEW lines PROVE CsvBody(lines)' = CsvBody(lines)
    BY DEF CsvBody, cfg
  <1>2. ParseCsvRows(request.lines)' = ParseCsvRows(request.lines)
    BY <1>1 DEF ParseCsvRows, cfg
  <1> QED BY <1>2 DEF ParseTabularMatrix
-----------------------------------------------------------------------------
(* What the variables hold before a handler has filled them.                 *)

\* The stages before the rows and the tensors of a request are read, and
\* between two requests.
Unread == \/ stage \in {"idle", "arrived", "permit", "media", "dispatch", "decode", "records",
                        "answered"}
          \/ stage = "ensure" /\ protocol = "grpc"

\* Nothing of an earlier request is left, and nothing is answered before its
\* time: a refusal carries no predictions.
NothingLeft ==
    /\ protocol \in Protocols
    /\ stage = "idle" => protocol = "http"
    /\ Unread => rows = <<>>
    /\ Unread \/ stage \in {"shape", "select"} => tensors = NoTensors
    /\ stage \notin {"format", "ok"} => value = <<>>
    /\ stage # "ok" => body = NoBody

LEMMA NothingLeftInit == Init => NothingLeft
  BY DEF Init, NothingLeft, Unread, Protocols

LEMMA NothingLeftStep == NothingLeft /\ [Next]_vars => NothingLeft'
  <1> SUFFICES ASSUME NothingLeft, [Next]_vars PROVE NothingLeft'
    OBVIOUS
  <1> USE DEF NothingLeft, Unread, sessionVars, mediaVars, inputVars, outputVars
  <1>1. CASE Send
    BY <1>1 DEF Send
  <1>2. CASE RefuseLoadError \/ CheckSize \/ AcquirePermit \/ ResolveMediaTypes \/ Ensure
    BY <1>2
    DEF RefuseLoadError, CheckSize, AcquirePermit, ResolveMediaTypes, Ensure, Goto,
        AfterMedia, AfterEnsure, Protocols
  <1>3. CASE Dispatch \/ Decode \/ CheckShape \/ Select
    BY <1>3 DEF Dispatch, Decode, CheckShape, Select, Goto, Advance
  <1>4. CASE ParseMultiInput
    BY <1>4 DEF ParseMultiInput, BuildTensors, Built, Goto, Advance
  <1>5. CASE ParsedInputStep
    BY <1>5
    DEF ParsedInputStep, CheckBatch, Sized, AfterBatch, ToRows, RowsToTensor, Goto, Advance
  <1>6. CASE Run
    BY <1>6 DEF Run, Goto, Advance
  <1>7. CASE Choose \/ Format
    BY <1>7 DEF Choose, Format, Goto, Advance
  <1>8. CASE ReplyHttp \/ ReplyGrpc
    BY <1>8 DEF ReplyHttp, ReplyGrpc, Reply, Dropped, Protocols
  <1>9. CASE NextRequest
    BY <1>9 DEF NextRequest, Protocols
  <1>10. CASE UNCHANGED vars
    BY <1>10 DEF vars
  <1> QED
    BY <1>1, <1>2, <1>3, <1>4, <1>5, <1>6, <1>7, <1>8, <1>9, <1>10
    DEF Next, HandlerStep, TabularStep, OutputStep
-----------------------------------------------------------------------------
(* The answer's keys and the choice of outputs.                             *)

\* From the choice to the answer the keys are those of the configuration, and
\* a model that did not fail has an output.
OutputInv ==
    /\ server \in Servers
    /\ stage = "choose" => Len(outputs) \in Nat \ {0}
    /\ stage = "format" => DOMAIN value = DOMAIN Chosen(Len(outputs))
    /\ ResponseKeysComplete

LEMMA OutputInit == Init => OutputInv
  BY DEF Init, OutputInv, ResponseKeysComplete

\* A step that reaches no stage of OutputFormat and no answer owes nothing.
LEMMA OutputElsewhere ==
    ASSUME OutputInv, UNCHANGED server, stage' \notin {"choose", "format", "ok"}
    PROVE  OutputInv'
  BY DEF OutputInv, ResponseKeysComplete

LEMMA OutputStepKeeps == OutputInv /\ [Next]_vars => OutputInv'
  <1> SUFFICES ASSUME OutputInv, [Next]_vars PROVE OutputInv'
    OBVIOUS
  <1>1. CASE Send \/ NextRequest \/ ReplyHttp \/ ReplyGrpc
    BY <1>1, OutputElsewhere DEF Send, NextRequest, ReplyHttp, ReplyGrpc
  <1>2. CASE RefuseLoadError \/ CheckSize \/ AcquirePermit \/ ResolveMediaTypes \/ Ensure
    BY <1>2, OutputElsewhere
    DEF RefuseLoadError, CheckSize, AcquirePermit, ResolveMediaTypes, Ensure, Goto, sessionVars,
        AfterMedia, AfterEnsure
  <1>3. CASE ParseStep
    BY <1>3, OutputElsewhere
    DEF ParseStep, Dispatch, TabularStep, Decode, CheckShape, Select, ParseMultiInput,
        BuildTensors, Built, Goto, Advance, sessionVars
  <1>4. CASE ParsedInputStep
    BY <1>4, OutputElsewhere
    DEF ParsedInputStep, CheckBatch, Sized, ToRows, RowsToTensor, Goto, Advance,
        sessionVars, AfterBatch
  <1>5. CASE Run
    <2>1. CASE stage' = "failed"
      BY <1>5, <2>1, OutputElsewhere DEF Run, Goto, Advance, sessionVars
    <2>2. CASE stage' = "choose" /\ AreOutputs(outputs')
      BY <1>5, <2>2 DEF Run, Goto, Advance, sessionVars, OutputInv, ResponseKeysComplete, AreOutputs
    <2> QED BY <1>5, <2>1, <2>2 DEF Run, Goto, Advance
  <1>6. CASE Choose
    <2>1. CASE stage' = "failed"
      BY <1>6, <2>1, OutputElsewhere DEF Choose, Goto, Advance, sessionVars
    <2>2. CASE stage' = "format"
      <3>1. UNCHANGED <<server, outputs>>
        BY <1>6, <2>2 DEF Choose, Goto, Advance, sessionVars
      <3>2. DOMAIN value' = DOMAIN Chosen(Len(outputs))
        BY <1>6, <2>2 DEF Choose, Goto, Advance, ChosenValues, Err, Ok, Only
      <3>3. DOMAIN Chosen(Len(outputs))' = DOMAIN Chosen(Len(outputs))
        BY <3>1 DEF Chosen, cfg
      <3> QED BY <2>2, <3>1, <3>2, <3>3 DEF OutputInv, ResponseKeysComplete
    <2> QED BY <1>6, <2>1, <2>2 DEF Choose, Goto, Advance
  <1>7. CASE Format
    <2>1. stage' = "ok" /\ UNCHANGED server /\ stage = "format"
      BY <1>7 DEF Format, Advance, sessionVars
    <2>2. ASSUME DOMAIN cfg.outputMap # {}
          PROVE  body'.type = "application/json" /\ body'.keys = DOMAIN cfg.outputMap
      <3>1. DOMAIN value = DOMAIN cfg.outputMap
        BY <2>1, <2>2 DEF OutputInv, Chosen
      <3>2. DOMAIN value # {Plain}
        BY <3>1, PlainAssumption DEF OutputInv, cfg
      <3> QED BY <1>7, <3>1, <3>2 DEF Format, FormatOutput
    <2> QED BY <2>1, <2>2 DEF OutputInv, ResponseKeysComplete, cfg
  <1>8. CASE UNCHANGED vars
    <2>1. DOMAIN Chosen(Len(outputs))' = DOMAIN Chosen(Len(outputs))
      BY <1>8 DEF Chosen, cfg, vars, sessionVars, outputVars
    <2> QED
      BY <1>8, <2>1 DEF OutputInv, ResponseKeysComplete, cfg, vars, sessionVars, outputVars
  <1> QED BY <1>1, <1>2, <1>3, <1>4, <1>5, <1>6, <1>7, <1>8, HandlerCases DEF Next, OutputStep

\* An answer with configured response keys has all of them and is JSON,
\* whatever the client accepts (lib.rs:129).
THEOREM AnswerHasItsKeys == Spec => []ResponseKeysComplete
  <1>1. OutputInv => ResponseKeysComplete
    BY DEF OutputInv
  <1> QED BY OutputInit, OutputStepKeeps, <1>1, PTL DEF Spec

\* A selector is cut to the outputs there are, and not changed if it is one.
LEMMA IndexInRange ==
    ASSUME NEW count \in Nat \ {0}, NEW sel, IsSelector(sel), NEW default \in Nat
    PROVE  /\ Index(sel, default, count) \in 0..(count - 1)
           /\ \A n \in sel : n < count => Index(sel, default, count) = n
           /\ sel = {} /\ default < count => Index(sel, default, count) = default
  <1>1. CASE sel = {}
    BY <1>1 DEF Index, Clamped
  <1>2. CASE sel # {}
    <2>1. PICK n \in sel : sel = {n} /\ n \in Nat
      BY <1>2 DEF IsSelector
    <2>2. Only(sel) = n
      BY <2>1 DEF Only
    <2> QED BY <1>2, <2>1, <2>2 DEF Index, Clamped
  <1> QED BY <1>1, <1>2

LEMMA ChosenInRange == OutputInv => ChosenOutputExists
  <1> DEFINE count == Len(outputs)
  <1> SUFFICES ASSUME OutputInv, stage = "choose", NEW key \in DOMAIN Chosen(count)
               PROVE  LET asked == IF key # Plain THEN cfg.outputMap[key]
                                   ELSE IF cfg.outputName = {} THEN {cfg.outputIndex}
                                   ELSE cfg.outputName
                          index == Chosen(count)[key]
                      IN  /\ index \in 0..(count - 1)
                          /\ \A n \in asked : n < count => index = n
    BY DEF ChosenOutputExists
  <1>1. count \in Nat \ {0}
    BY DEF OutputInv
  <1> HIDE DEF count
  <1>2. CASE DOMAIN cfg.outputMap # {}
    <2>1. key \in DOMAIN cfg.outputMap /\ Chosen(count)[key] = Index(cfg.outputMap[key], 0, count)
      BY <1>2 DEF Chosen
    <2>2. key # Plain
      BY <2>1, PlainAssumption DEF OutputInv, cfg
    <2>3. IsSelector(cfg.outputMap[key])
      BY <2>1, OutputAssumption DEF OutputInv, cfg
    <2> QED BY <1>1, <2>1, <2>2, <2>3, IndexInRange
  <1>3. CASE DOMAIN cfg.outputMap = {}
    <2>1. key = Plain /\ Chosen(count)[key] = Index(cfg.outputName, cfg.outputIndex, count)
      BY <1>3 DEF Chosen
    <2>2. IsSelector(cfg.outputName) /\ cfg.outputIndex \in Nat
      BY OutputAssumption DEF OutputInv, cfg
    <2>3. CASE cfg.outputName = {}
      BY <1>1, <2>1, <2>2, <2>3, IndexInRange
    <2>4. CASE cfg.outputName # {}
      BY <1>1, <2>1, <2>2, <2>4, IndexInRange
    <2> QED BY <2>3, <2>4
  <1> QED BY <1>2, <1>3

\* Every selector names an output the model has, and the one it asks for when
\* there is one, for models with any number of outputs (adapter.rs:153-174).
THEOREM SelectorsNameOutputs == Spec => []ChosenOutputExists
  BY OutputInit, OutputStepKeeps, ChosenInRange, PTL DEF Spec
-----------------------------------------------------------------------------
(* Servers without a model.                                                 *)

\* How far a request gets when the model cannot be loaded: over gRPC nowhere,
\* over HTTP to the stage that would load it.
HttpReach == {"idle", "arrived", "permit", "media", "dispatch", "decode", "shape", "select",
              "records", "batch", "ensure", "too_large", "malformed", "panics", "too_many", "internal"}
GrpcReach == {"arrived", "internal", "answered"}

UnloadedInv ==
    /\ DOMAIN answers = Protocols
    /\ protocol \in Protocols
    /\ ~server.loadable =>
          /\ protocol = "http" => stage \in HttpReach
          /\ protocol = "grpc" => stage \in GrpcReach /\ answers["http"].code # "ok"
          /\ stage = "answered" => answers["grpc"].code = "internal"

LEMMA UnloadedInit == Init => UnloadedInv
  BY DEF Init, UnloadedInv, HttpReach, Protocols

\* Over gRPC the load error is all there is to look at.
LEMMA GrpcStopsAtLoadError ==
    ASSUME UnloadedInv, ~server.loadable, protocol = "grpc", HandlerStep
    PROVE  stage' = "internal" /\ UNCHANGED sessionVars
  <1>1. stage \in GrpcReach
    BY DEF UnloadedInv
  <1> QED
    BY <1>1
    DEF GrpcReach, HandlerStep, RefuseLoadError, CheckSize, AcquirePermit, ResolveMediaTypes,
        Ensure, Dispatch, TabularStep, Decode, CheckShape, Select, ParseMultiInput, ParsedInputStep, CheckBatch,
        ToRows, RowsToTensor, Run, OutputStep, Choose, Format, Goto

\* Over HTTP every step stays short of the adapter.
LEMMA HttpStopsAtEnsure ==
    ASSUME UnloadedInv, ~server.loadable, protocol = "http", HandlerStep
    PROVE  stage' \in HttpReach /\ UNCHANGED sessionVars
  <1>1. stage \in HttpReach
    BY DEF UnloadedInv
  <1> USE DEF HttpReach, Goto
  <1>2. CASE RefuseLoadError \/ CheckSize \/ AcquirePermit \/ ResolveMediaTypes \/ Ensure
    BY <1>2 DEF RefuseLoadError, CheckSize, AcquirePermit, ResolveMediaTypes, Ensure, AfterMedia
  <1>3. CASE ParseStep
    BY <1>3
    DEF ParseStep, Dispatch, TabularStep, Decode, CheckShape, Select, ParseMultiInput,
        BuildTensors, Built, Advance
  <1>4. CASE ParsedInputStep
    BY <1>1, <1>4
    DEF ParsedInputStep, CheckBatch, Sized, AfterBatch, ToRows, RowsToTensor, Advance
  <1>5. CASE Run \/ OutputStep
    BY <1>1, <1>5 DEF Run, OutputStep, Choose, Format
  <1> QED BY <1>2, <1>3, <1>4, <1>5, HandlerCases

\* The handlers touch neither the answers nor which protocol is in use.
LEMMA HandlerKeepsSession == HandlerStep => UNCHANGED sessionVars
  BY DEF HandlerStep, RefuseLoadError, CheckSize, AcquirePermit, ResolveMediaTypes, Ensure,
         Dispatch, TabularStep, Decode, CheckShape, Select, ParseMultiInput, BuildTensors, Built,
         ParsedInputStep, CheckBatch, Sized, ToRows, RowsToTensor, Run,
         OutputStep, Choose, Format, Goto, Advance

LEMMA UnloadedStep == UnloadedInv /\ [Next]_vars => UnloadedInv'
  <1> SUFFICES ASSUME UnloadedInv, [Next]_vars PROVE UnloadedInv'
    OBVIOUS
  <1>1. CASE HandlerStep
    <2>1. UNCHANGED sessionVars
      BY <1>1, HandlerKeepsSession
    <2>2. CASE server.loadable
      BY <2>1, <2>2 DEF UnloadedInv, sessionVars
    <2>3. CASE ~server.loadable /\ protocol = "http"
      BY <1>1, <2>1, <2>3, HttpStopsAtEnsure DEF UnloadedInv, sessionVars, HttpReach
    <2>4. CASE ~server.loadable /\ protocol = "grpc"
      BY <1>1, <2>1, <2>4, GrpcStopsAtLoadError DEF UnloadedInv, sessionVars, GrpcReach
    <2> QED BY <2>2, <2>3, <2>4 DEF UnloadedInv, Protocols
  <1>2. CASE Send
    BY <1>2 DEF Send, UnloadedInv, HttpReach, GrpcReach, Protocols
  <1>3. CASE ReplyHttp
    <2>1. ASSUME ~server.loadable PROVE HttpCode(stage) # "ok"
      BY <1>3, <2>1 DEF ReplyHttp, UnloadedInv, HttpReach, HttpCode
    <2> QED
      BY <1>3, <2>1 DEF ReplyHttp, Reply, UnloadedInv, GrpcReach, Protocols
  <1>4. CASE ReplyGrpc
    <2>1. ASSUME ~server.loadable PROVE stage = "internal"
      BY <1>4, <2>1 DEF ReplyGrpc, Reply, UnloadedInv, GrpcReach, Outcomes, Refusals
    <2>2. GrpcCode("internal") = "internal"
      BY DEF GrpcCode
    <2> QED
      BY <1>4, <2>1, <2>2 DEF ReplyGrpc, Reply, UnloadedInv, GrpcReach, Protocols
  <1>5. CASE NextRequest
    BY <1>5 DEF NextRequest, UnloadedInv, HttpReach, Protocols
  <1>6. CASE UNCHANGED vars
    BY <1>6 DEF vars, sessionVars, UnloadedInv
  <1> QED BY <1>1, <1>2, <1>3, <1>4, <1>5, <1>6 DEF Next

\* HTTP's answer is fixed before the gRPC one, and stays.
LEMMA UnloadedNeverPredicts == UnloadedInv => NoModelNoPrediction
  BY DEF UnloadedInv, NoModelNoPrediction, Protocols, HttpReach

\* A server without a model never predicts, and over gRPC says nothing else of
\* a request, whatever the request (grpc_service.rs:119, http.rs:240).
THEOREM NoPredictionWithoutModel == Spec => []NoModelNoPrediction
  BY UnloadedInit, UnloadedStep, UnloadedNeverPredicts, PTL DEF Spec
-----------------------------------------------------------------------------
(* Records under an input map.                                              *)

\* The tensors hold a value of every record each, all of one tensor from the
\* same key.
BuiltFromRecords ==
    \E records \in LoadMultiInputRecords(contentType), last \in [InputNames -> DOMAIN cfg.inputMap] :
        /\ \A key \in DOMAIN cfg.inputMap : HasColumn(records, key)
        /\ tensors = [name \in InputNames |-> Column(records, last[name])]

\* What the property promises of the rows.
RowsFromOneKey ==
    \E records \in LoadMultiInputRecords(contentType) : \E key \in DOMAIN cfg.inputMap :
        /\ HasColumn(records, key)
        /\ \/ Vectors(records, key) /\ RowsAre(records, key)
           \/ /\ AllNumbers(Column(records, key))
              /\ rows = <<Numbers(Column(records, key))>>

\* The stages between the decoding of the body and the use of the tensors, in
\* the order of either protocol.
HoldsTensors == stage \in {"batch", "rows"} \/ (stage = "ensure" /\ protocol = "http")
HoldsRows    == stage \in {"tensor", "predict", "choose", "format", "ok"}

RecordsInv ==
    /\ stage \in {"decode", "shape", "select"} => ~Mapped
    /\ HoldsTensors /\ Mapped => BuiltFromRecords
    /\ HoldsRows /\ Mapped => RowsFromOneKey

LEMMA RecordsInit == Init => RecordsInv
  BY DEF Init, RecordsInv, HoldsTensors, HoldsRows

\* A step to a stage of other modules owes nothing.
LEMMA RecordsElsewhere ==
    ASSUME stage' \notin {"decode", "shape", "select", "batch", "rows"}, ~HoldsRows',
           stage' = "ensure" => protocol' = "grpc"
    PROVE  RecordsInv'
  BY DEF RecordsInv, HoldsTensors, HoldsRows

\* While the request and its media type stay, what was found stays.
LEMMA TensorsStay ==
    ASSUME UNCHANGED <<server, request, contentType, tensors>>
    PROVE  BuiltFromRecords' <=> BuiltFromRecords
  BY DEF BuiltFromRecords, LoadMultiInputRecords, InputNames, cfg

LEMMA RowsFromOneKeyStay ==
    ASSUME UNCHANGED <<server, request, contentType, rows>>
    PROVE  RowsFromOneKey' <=> RowsFromOneKey
  BY DEF RowsFromOneKey, LoadMultiInputRecords, RowsAre, cfg

LEMMA MappedStays ==
    ASSUME UNCHANGED <<server, contentType>> PROVE Mapped' <=> Mapped
  BY DEF Mapped, ShouldUseOnnxMultiInput, IsJsonContentType, cfg

\* Vectors become a row each; bare numbers become one row of them all; any
\* other values are refused.
LEMMA ReadingAColumn ==
    ASSUME NEW records, NEW key, NEW found \in ValueToNumericRows(Array(Column(records, key)))
    PROVE  \/ /\ Vectors(records, key)
              /\ found = [i \in DOMAIN records |-> Numbers(records[i][key].items)]
           \/ AllNumbers(Column(records, key)) /\ found = <<Numbers(Column(records, key))>>
  <1> DEFINE v == Array(Column(records, key))
  <1>1. v.type = "array" /\ v.items = Column(records, key)
    BY DEF Array
  <1>2. DOMAIN v.items = DOMAIN records /\ \A i \in DOMAIN records : v.items[i] = records[i][key]
    BY <1>1 DEF Column
  <1> HIDE DEF v
  <1>3. CASE IsMatrix(v) /\ \A i \in DOMAIN v.items :
                v.items[i].type = "array" /\ AllNumbers(v.items[i].items)
    <2>1. found = [i \in DOMAIN v.items |-> Numbers(v.items[i].items)]
      BY <1>1, <1>3 DEF ValueToNumericRows, Ok, v
    <2>2. Vectors(records, key)
      BY <1>2, <1>3 DEF Vectors
    <2>3. found = [i \in DOMAIN records |-> Numbers(records[i][key].items)]
      BY <1>2, <2>1
    <2> QED BY <2>2, <2>3
  <1>4. CASE ~(IsMatrix(v) /\ \A i \in DOMAIN v.items :
                v.items[i].type = "array" /\ AllNumbers(v.items[i].items))
    <2>1. AllNumbers(v.items) /\ found = <<Numbers(v.items)>>
      BY <1>1, <1>4 DEF ValueToNumericRows, Ok, Err, v
    <2> QED BY <1>1, <2>1
  <1> QED BY <1>3, <1>4

LEMMA ToRowsKeeps ==
    ASSUME RecordsInv, ToRows PROVE RecordsInv'
  <1>1. stage = "rows" /\ UNCHANGED <<server, request, contentType>>
    BY DEF ToRows, Goto, Advance, sessionVars, mediaVars
  <1>2. CASE stage' = "rejected"
    BY <1>2, RecordsElsewhere DEF HoldsRows
  <1>3. CASE stage' = "tensor" /\ ~Mapped
    BY <1>1, <1>3, MappedStays DEF RecordsInv, HoldsTensors, HoldsRows
  <1>4. CASE stage' = "tensor" /\ Mapped
    <2>1. PICK records \in LoadMultiInputRecords(contentType), last \in [InputNames -> DOMAIN cfg.inputMap] :
              /\ \A key \in DOMAIN cfg.inputMap : HasColumn(records, key)
              /\ tensors = [name \in InputNames |-> Column(records, last[name])]
      BY <1>1, <1>4 DEF RecordsInv, HoldsTensors, BuiltFromRecords
    <2>2. DOMAIN tensors # {}
      BY <1>4, <2>1 DEF InputNames, Range, Mapped, ShouldUseOnnxMultiInput
    <2>3. PICK name \in DOMAIN tensors : rows' \in ValueToNumericRows(Array(tensors[name]))
      BY <1>4, <2>2 DEF ToRows, Goto, Advance, ParsedInputToRows, Err, Only
    <2>4. last[name] \in DOMAIN cfg.inputMap /\ tensors[name] = Column(records, last[name])
      BY <2>1, <2>3
    <2>5. RowsFromOneKey'
      <3>1. \/ /\ Vectors(records, last[name])
               /\ rows' = [i \in DOMAIN records |-> Numbers(records[i][last[name]].items)]
            \/ /\ AllNumbers(Column(records, last[name]))
               /\ rows' = <<Numbers(Column(records, last[name]))>>
        BY <2>3, <2>4, ReadingAColumn
      <3>2. HasColumn(records, last[name])
        BY <2>1, <2>4
      <3>3. LoadMultiInputRecords(contentType)' = LoadMultiInputRecords(contentType) /\ cfg' = cfg
        BY <1>1 DEF LoadMultiInputRecords, cfg
      <3> QED BY <2>4, <3>1, <3>2, <3>3 DEF RowsFromOneKey, RowsAre
    <2> QED BY <1>4, <2>5 DEF RecordsInv, HoldsTensors, HoldsRows
  <1> QED BY <1>2, <1>3, <1>4 DEF ToRows, Goto, Advance

LEMMA ParseMultiInputKeeps ==
    ASSUME RecordsInv, ParseMultiInput PROVE RecordsInv'
  <1>1. CASE stage' = "malformed"
    BY <1>1, RecordsElsewhere DEF HoldsRows
  <1>2. CASE stage' # "malformed"
    <2>1. PICK records \in LoadMultiInputRecords(contentType) : BuildTensors(records)
      BY <1>2 DEF ParseMultiInput, Goto, Err, Only
    <2>2. PICK last \in [InputNames -> DOMAIN cfg.inputMap] :
              Built([name \in InputNames |-> Column(records, last[name])])
      BY <1>2, <2>1 DEF BuildTensors, Goto
    <2>3. \A key \in DOMAIN cfg.inputMap : HasColumn(records, key)
      BY <1>2, <2>1 DEF BuildTensors, HasColumns, Goto
    <2>4. stage' = "batch" /\ UNCHANGED <<server, request, contentType>>
      BY <2>2 DEF Built, Advance, sessionVars, mediaVars
    <2>5. tensors' = [name \in InputNames |-> Column(records, last[name])]
      BY <2>2 DEF Built
    <2>6. /\ LoadMultiInputRecords(contentType)' = LoadMultiInputRecords(contentType)
          /\ InputNames' = InputNames /\ cfg' = cfg
      BY <2>4 DEF LoadMultiInputRecords, InputNames, cfg
    <2>7. BuiltFromRecords'
      BY <2>3, <2>5, <2>6 DEF BuiltFromRecords
    <2> QED BY <2>4, <2>7 DEF RecordsInv, HoldsTensors, HoldsRows
  <1> QED BY <1>1, <1>2

LEMMA RecordsStep == RecordsInv /\ [Next]_vars => RecordsInv'
  <1> SUFFICES ASSUME RecordsInv, [Next]_vars PROVE RecordsInv'
    OBVIOUS
  <1> USE DEF Goto, Advance, sessionVars, mediaVars, inputVars
  <1>1. CASE Send \/ NextRequest \/ ReplyHttp \/ ReplyGrpc
    BY <1>1, RecordsElsewhere DEF Send, NextRequest, ReplyHttp, ReplyGrpc, HoldsRows
  <1>2. CASE RefuseLoadError \/ CheckSize \/ AcquirePermit
    BY <1>2, RecordsElsewhere DEF RefuseLoadError, CheckSize, AcquirePermit, HoldsRows
  <1>3. CASE ResolveMediaTypes
    BY <1>3 DEF ResolveMediaTypes, AfterMedia, RecordsInv, HoldsTensors, HoldsRows
  <1>4. CASE Ensure
    BY <1>4, RecordsElsewhere, TensorsStay, MappedStays
    DEF Ensure, AfterEnsure, RecordsInv, HoldsTensors, HoldsRows
  <1>5. CASE Dispatch
    BY <1>5, RecordsElsewhere, MappedStays DEF Dispatch, RecordsInv, HoldsTensors, HoldsRows
  <1>6. CASE TabularStep
    <2>1. ~Mapped
      BY <1>6 DEF TabularStep, Decode, CheckShape, Select, RecordsInv
    <2>2. UNCHANGED <<server, contentType>>
      BY <1>6 DEF TabularStep, Decode, CheckShape, Select
    <2> QED BY <2>1, <2>2, MappedStays DEF RecordsInv
  <1>7. CASE ParseMultiInput
    BY <1>7, ParseMultiInputKeeps
  <1>8. CASE CheckBatch
    BY <1>8, RecordsElsewhere, TensorsStay, MappedStays
    DEF CheckBatch, Sized, AfterBatch, RecordsInv, HoldsTensors, HoldsRows
  <1>9. CASE ToRows
    BY <1>9, ToRowsKeeps
  <1>10. CASE RowsToTensor
    BY <1>10, RecordsElsewhere, RowsFromOneKeyStay, MappedStays
    DEF RowsToTensor, RecordsInv, HoldsTensors, HoldsRows
  <1>11. CASE Run \/ OutputStep
    BY <1>11, RecordsElsewhere, RowsFromOneKeyStay, MappedStays
    DEF Run, OutputStep, Choose, Format, RecordsInv, HoldsTensors, HoldsRows
  <1>12. CASE UNCHANGED vars
    BY <1>12, TensorsStay, RowsFromOneKeyStay, MappedStays DEF vars, RecordsInv, HoldsTensors, HoldsRows
  <1> QED
    BY <1>1, <1>2, <1>3, <1>4, <1>5, <1>6, <1>7, <1>8, <1>9, <1>10, <1>11, <1>12, HandlerCases
    DEF Next, ParseStep, ParsedInputStep

LEMMA RecordsGiveTheRows == RecordsInv => RowsComeFromOneKey
  BY DEF RecordsInv, HoldsRows, RowsFromOneKey, RowsComeFromOneKey

\* All rows of the model's tensor come from the same key, one from each record,
\* or are one row of bare numbers, for every input map, in whatever order the
\* hash map yields it (adapter.rs:194, adapter.rs:74).
THEOREM OneKeyGivesTheRows == Spec => []RowsComeFromOneKey
  BY RecordsInit, RecordsStep, RecordsGiveTheRows, PTL DEF Spec
-----------------------------------------------------------------------------
(* What tensor_to_json makes of a tensor.                                    *)

\* The elements of a tensor are a sequence, as long as the tensor.
LEMMA ElementsType ==
    ASSUME NEW d, Len(d) \in Nat, DOMAIN d = 1..Len(d)
    PROVE  /\ Elements(d) \in Seq(Range(Elements(d)))
           /\ Len(Elements(d)) = Len(d)
           /\ DOMAIN Elements(d) = 1..Len(d)
  <1> DEFINE e == Elements(d)
             n == Len(d)
  <1>1. e = [i \in 1..n |-> e[i]]
    BY DEF Elements
  <1> HIDE DEF e, n
  <1>2. \A i \in 1..n : e[i] \in Range(e)
    BY <1>1 DEF Range
  <1>3. n \in Nat
    BY DEF n
  <1>4. e \in Seq(Range(e)) /\ Len(e) = n /\ DOMAIN e = 1..n
    BY <1>1, <1>2, <1>3
  <1> QED BY <1>4 DEF e, n

\* Slicing and converting commute.
LEMMA ElementsOfSlice ==
    ASSUME NEW d, Len(d) \in Nat, DOMAIN d = 1..Len(d),
           NEW a \in Nat, NEW b \in Nat, a <= b, b <= Len(d)
    PROVE  /\ Elements(SubSeq(d, a + 1, b)) = SubSeq(Elements(d), a + 1, b)
           /\ Len(Elements(SubSeq(d, a + 1, b))) = b - a
  <1> DEFINE s == SubSeq(d, a + 1, b)
             e == SubSeq(Elements(d), a + 1, b)
             S == {d[i] : i \in 1..Len(d)}
             E == {Elements(d)[i] : i \in 1..Len(d)}
  <1>1. \A i \in (a + 1)..b : i \in 1..Len(d)
    OBVIOUS
  <1>2. /\ s \in Seq(S) /\ Len(s) = b - a
        /\ \A i \in 1..(b - a) : s[i] = d[a + i]
    <2>1. \A i \in (a + 1)..b : d[i] \in S
      BY <1>1
    <2> HIDE DEF S
    <2>2. /\ s \in Seq(S)
          /\ Len(s) = IF a + 1 <= b THEN b - (a + 1) + 1 ELSE 0
          /\ \A i \in 1..(b - (a + 1) + 1) : s[i] = d[a + 1 + i - 1]
      BY <2>1, SubSeqProperties
    <2> QED BY <2>2
  <1>3. /\ e \in Seq(E) /\ Len(e) = b - a
        /\ \A i \in 1..(b - a) : e[i] = Elements(d)[a + i]
    <2>1. \A i \in (a + 1)..b : Elements(d)[i] \in E
      BY <1>1
    <2> HIDE DEF E
    <2>2. /\ e \in Seq(E)
          /\ Len(e) = IF a + 1 <= b THEN b - (a + 1) + 1 ELSE 0
          /\ \A i \in 1..(b - (a + 1) + 1) : e[i] = Elements(d)[a + 1 + i - 1]
      BY <2>1, SubSeqProperties
    <2> QED BY <2>2
  <1> HIDE DEF s, e, S, E
  <1>4. DOMAIN s = 1..(b - a) /\ DOMAIN e = 1..(b - a)
    BY <1>2, <1>3, LenProperties
  <1>5. ASSUME NEW i \in 1..(b - a) PROVE Elements(s)[i] = e[i]
    <2>1. a + i \in 1..Len(d)
      OBVIOUS
    <2> QED BY <1>2, <1>3, <1>4, <2>1 DEF Elements
  <1>6. Elements(s) = [i \in 1..(b - a) |-> e[i]]
    BY <1>4, <1>5 DEF Elements
  <1>7. e = [i \in 1..(b - a) |-> e[i]]
    BY <1>3, <1>4, LenProperties
  <1> QED BY <1>3, <1>6, <1>7 DEF s, e

\* The items of a tensor: an item per row or per element, of as many elements
\* as a row has, and all elements of the tensor in their order.
ItemsOfTensor(items, t) ==
    LET width == IF Len(t.shape) = 2 THEN t.shape[2] ELSE 1
    IN  /\ Len(t.shape) \in {1, 2} => Len(items) = t.shape[1]
        /\ \A i \in DOMAIN items : Len(items[i]) = width
        /\ FlattenSeq(items) = Elements(t.data)

\* A tensor of rank 2 has a line per row.
LEMMA RankTwoLines ==
    ASSUME NEW t, IsTensor(t), Len(t.shape) = 2
    PROVE  ItemsOfTensor(CsvLines(TensorToJson(t)), t)
  <1> DEFINE r == t.shape[1]
             w == t.shape[2]
             e == Elements(t.data)
             Part(i) == SubSeq(e, (i - 1) * w + 1, i * w)
             items == CsvLines(TensorToJson(t))
  <1>1. r \in Nat /\ w \in Nat /\ Len(t.data) = r * w
    BY DEF IsTensor
  <1>2. e \in Seq(Range(e)) /\ Len(e) = r * w
    BY <1>1, ElementsType DEF IsTensor
  <1>3. ASSUME NEW i \in 1..r
        PROVE  /\ Elements(SubSeq(t.data, (i - 1) * w + 1, i * w)) = Part(i)
               /\ Len(Part(i)) = w
    <2> DEFINE a == (i - 1) * w
               b == i * w
               c == (r - i) * w
    <2>1. i \in Nat /\ i - 1 \in Nat /\ r - i \in Nat
      BY <1>1
    <2>2. a \in Nat /\ b \in Nat /\ c \in Nat
      BY <1>1, <2>1
    <2>3. b = a + w /\ r * w = b + c
      BY <1>1, <2>1
    <2> HIDE DEF a, b, c
    <2>4. a <= b /\ b <= Len(t.data) /\ b - a = w
      BY <1>1, <2>2, <2>3
    <2>5. /\ Elements(SubSeq(t.data, a + 1, b)) = SubSeq(e, a + 1, b)
          /\ Len(Elements(SubSeq(t.data, a + 1, b))) = b - a
      BY <2>2, <2>4, ElementsOfSlice DEF IsTensor
    <2> QED BY <2>4, <2>5 DEF a, b
  <1>4. items = [i \in 1..r |-> Part(i)]
    <2> DEFINE v == TensorToJson(t)
               Item(i) == Array(Elements(SubSeq(t.data, (i - 1) * w + 1, i * w)))
    <2>1. v = Array([i \in 1..r |-> Item(i)])
      BY DEF TensorToJson
    <2>2. v.type = "array" /\ v.items = [i \in 1..r |-> Item(i)]
      BY <2>1 DEF Array
    <2>3. \A i \in 1..r : Item(i).type = "array" /\ Item(i).items = Part(i)
      BY <1>3 DEF Array
    <2> HIDE DEF v, Item, Part, r, w, e
    <2>4. DOMAIN v.items = 1..r /\ \A i \in 1..r : v.items[i] = Item(i)
      BY <2>2
    <2>5. ASSUME NEW i \in 1..r PROVE IsMatrix(v)
      <3>1. 1 \in 1..r
        BY <1>1
      <3>2. v.items # <<>>
        <4>1. DOMAIN <<>> = {}
          OBVIOUS
        <4> QED BY <2>4, <3>1, <4>1
      <3> QED BY <2>2, <2>3, <2>4, <3>1, <3>2 DEF IsMatrix
    <2>6. \A i \in 1..r : (IF IsMatrix(v) THEN v.items[i].items ELSE <<v.items[i]>>) = Part(i)
      BY <2>3, <2>4, <2>5
    <2>7. CsvLines(v) = [i \in 1..r |-> Part(i)]
      BY <2>4, <2>6 DEF CsvLines
    <2> QED BY <2>7 DEF v
  <1>5. FlattenSeq(items) = e
    <2> HIDE DEF e, r, w, items
    <2>1. FlattenSeq([i \in 1..r |-> SubSeq(e, (i - 1) * w + 1, i * w)]) = e
      BY <1>1, <1>2, FlattenSlices
    <2> QED BY <1>4, <2>1
  <1>6. Len(items) = r /\ DOMAIN items = 1..r /\ \A i \in 1..r : Len(items[i]) = w
    <2> HIDE DEF items, Part, r
    <2> QED BY <1>1, <1>3, <1>4
  <1> QED BY <1>5, <1>6 DEF ItemsOfTensor

\* A tensor of any other rank has a line per element.
LEMMA OtherRankLines ==
    ASSUME NEW t, IsTensor(t), Len(t.shape) # 2
    PROVE  ItemsOfTensor(CsvLines(TensorToJson(t)), t)
  <1> DEFINE n == Len(t.data)
             e == Elements(t.data)
             v == TensorToJson(t)
             Part(i) == SubSeq(e, (i - 1) * 1 + 1, i * 1)
             items == CsvLines(v)
  <1>1. n \in Nat /\ (Len(t.shape) = 1 => n = t.shape[1])
    BY DEF IsTensor
  <1>2. e \in Seq(Range(e)) /\ Len(e) = n /\ DOMAIN e = 1..n
    BY ElementsType DEF IsTensor
  <1>3. v.type = "array" /\ v.items = e
    BY DEF TensorToJson, Array
  <1>4. \A i \in 1..n : e[i].type # "array"
    BY <1>2 DEF Elements, Other, Number
  <1> HIDE DEF e, v, n
  <1>5. ~ IsMatrix(v)
    <2>1. CASE n = 0
      <3>1. e = <<>>
        BY <1>2, <2>1, EmptySeq
      <3> QED BY <1>3, <3>1 DEF IsMatrix
    <2>2. CASE n # 0
      <3>1. 1 \in 1..n
        BY <1>1, <2>2
      <3> QED BY <1>3, <1>4, <3>1 DEF IsMatrix
    <2> QED BY <2>1, <2>2
  <1>6. items = [i \in 1..n |-> <<e[i]>>]
    BY <1>2, <1>3, <1>5 DEF CsvLines
  <1>7. ASSUME NEW i \in 1..n PROVE Part(i) = <<e[i]>>
    <2> DEFINE s == SubSeq(e, i, i)
    <2>1. (i - 1) * 1 + 1 = i /\ i * 1 = i /\ i \in Int
      OBVIOUS
    <2>2. \A j \in i..i : e[j] \in Range(e)
      BY <1>2 DEF Range
    <2>3. s \in Seq(Range(e)) /\ Len(s) = 1 /\ s[1] = e[i]
      BY <2>1, <2>2, SubSeqProperties
    <2> HIDE DEF s
    <2>4. s = <<e[i]>>
      BY <2>3
    <2> QED BY <2>1, <2>4 DEF s
  <1>8. items = [i \in 1..n |-> Part(i)]
    BY <1>6, <1>7
  <1>9. FlattenSeq(items) = e
    <2> HIDE DEF items
    <2>1. n * 1 = n
      BY <1>1
    <2>2. FlattenSeq([i \in 1..n |-> SubSeq(e, (i - 1) * 1 + 1, i * 1)]) = e
      BY <1>1, <1>2, <2>1, FlattenSlices
    <2> QED BY <1>8, <2>2
  <1>10. Len(items) = n /\ DOMAIN items = 1..n /\ \A i \in 1..n : Len(items[i]) = 1
    <2> HIDE DEF items
    <2> QED BY <1>1, <1>6
  <1> QED BY <1>1, <1>9, <1>10 DEF ItemsOfTensor, e, v

LEMMA TensorLines ==
    ASSUME NEW t, IsTensor(t) PROVE ItemsOfTensor(CsvLines(TensorToJson(t)), t)
  BY RankTwoLines, OtherRankLines
-----------------------------------------------------------------------------
(* From the outputs to the answer.                                           *)

\* From the choice to the answer the outputs are those of the rows; what is
\* formatted is what tensor_to_json makes of the chosen ones, and the answer is
\* the format of that.
ItemInv ==
    /\ server \in Servers
    /\ stage \in {"choose", "format", "ok"} =>
          AreOutputs(outputs) /\ outputs \in Infer(server.model, rows)
    /\ stage \in {"format", "ok"} =>
          value = [key \in DOMAIN Chosen(Len(outputs)) |-> TensorToJson(Output(outputs, key))]
    /\ stage = "ok" => \E wanted : body = FormatOutput(value, wanted)

LEMMA ItemInit == Init => ItemInv
  BY DEF Init, ItemInv

LEMMA ItemElsewhere ==
    ASSUME ItemInv, UNCHANGED server, stage' \notin {"choose", "format", "ok"}
    PROVE  ItemInv'
  BY DEF ItemInv

\* The outputs under the response keys depend on the server only.
LEMMA KeysStay ==
    ASSUME UNCHANGED <<server, outputs>>
    PROVE  /\ (DOMAIN Chosen(Len(outputs)))' = DOMAIN Chosen(Len(outputs))
           /\ \A key : Output(outputs, key)' = Output(outputs, key)
  <1>1. Chosen(Len(outputs))' = Chosen(Len(outputs))
    BY DEF Chosen, cfg
  <1> QED BY <1>1 DEF Output

LEMMA ItemStep == ItemInv /\ [Next]_vars => ItemInv'
  <1> SUFFICES ASSUME ItemInv, [Next]_vars PROVE ItemInv'
    OBVIOUS
  <1>1. CASE Send \/ NextRequest \/ ReplyHttp \/ ReplyGrpc
    BY <1>1, ItemElsewhere DEF Send, NextRequest, ReplyHttp, ReplyGrpc
  <1>2. CASE RefuseLoadError \/ CheckSize \/ AcquirePermit \/ ResolveMediaTypes \/ Ensure
    BY <1>2, ItemElsewhere
    DEF RefuseLoadError, CheckSize, AcquirePermit, ResolveMediaTypes, Ensure, Goto, sessionVars,
        AfterMedia, AfterEnsure
  <1>3. CASE ParseStep
    BY <1>3, ItemElsewhere
    DEF ParseStep, Dispatch, TabularStep, Decode, CheckShape, Select, ParseMultiInput,
        BuildTensors, Built, Goto, Advance, sessionVars
  <1>4. CASE ParsedInputStep
    BY <1>4, ItemElsewhere
    DEF ParsedInputStep, CheckBatch, Sized, ToRows, RowsToTensor, Goto, Advance,
        sessionVars, AfterBatch
  <1>5. CASE Run
    <2>1. CASE stage' = "failed"
      BY <1>5, <2>1, ItemElsewhere DEF Run, Goto, Advance, sessionVars
    <2>2. CASE stage' = "choose" /\ AreOutputs(outputs')
      <3>1. AreOutputs(outputs)'
        BY <2>2 DEF AreOutputs, IsTensor
      <3>2. outputs' \in Infer(server.model, rows) /\ UNCHANGED <<server, rows>>
        BY <1>5, <2>2 DEF Run, Goto, Advance, sessionVars, inputVars, Only, Err
      <3> QED BY <2>2, <3>1, <3>2 DEF ItemInv
    <2> QED BY <1>5, <2>1, <2>2 DEF Run, Goto, Advance
  <1>6. CASE Choose
    <2>1. CASE stage' = "failed"
      BY <1>6, <2>1, ItemElsewhere DEF Choose, Goto, Advance, sessionVars
    <2>2. CASE stage' = "format"
      <3>1. UNCHANGED <<server, rows, outputs>> /\ stage = "choose"
        BY <1>6, <2>2 DEF Choose, Goto, Advance, sessionVars, inputVars
      <3>2. value' = [key \in DOMAIN Chosen(Len(outputs)) |-> TensorToJson(Output(outputs, key))]
        BY <1>6, <2>2 DEF Choose, Goto, Advance, ChosenValues, Err, Ok, Only
      <3>3. AreOutputs(outputs)'
        BY <3>1 DEF ItemInv, AreOutputs, IsTensor
      <3> QED BY <2>2, <3>1, <3>2, <3>3, KeysStay DEF ItemInv
    <2> QED BY <1>6, <2>1, <2>2 DEF Choose, Goto, Advance
  <1>7. CASE Format
    <2>1. stage' = "ok" /\ UNCHANGED <<server, rows, outputs, value>> /\ stage = "format"
      BY <1>7 DEF Format, Advance, sessionVars, inputVars
    <2>2. body' = FormatOutput(value, accept)
      BY <1>7 DEF Format
    <2>3. \A wanted : FormatOutput(value, wanted)' = FormatOutput(value, wanted)
      BY <2>1 DEF FormatOutput, WrapPredictionsIfNeeded, cfg
    <2>4. AreOutputs(outputs)'
      BY <2>1 DEF ItemInv, AreOutputs, IsTensor
    <2> QED BY <2>1, <2>2, <2>3, <2>4, KeysStay DEF ItemInv
  <1>8. CASE UNCHANGED vars
    <2>1. UNCHANGED <<server, stage, rows, outputs, value, body>>
      BY <1>8 DEF vars, sessionVars, inputVars, outputVars
    <2>2. \A wanted : FormatOutput(value, wanted)' = FormatOutput(value, wanted)
      BY <2>1 DEF FormatOutput, WrapPredictionsIfNeeded, cfg
    <2>3. AreOutputs(outputs)' <=> AreOutputs(outputs)
      BY <2>1 DEF AreOutputs, IsTensor
    <2> QED BY <2>1, <2>2, <2>3, KeysStay DEF ItemInv
  <1> QED BY <1>1, <1>2, <1>3, <1>4, <1>5, <1>6, <1>7, <1>8, HandlerCases DEF Next, OutputStep

\* Every key is given an output there is.
LEMMA ChosenIsThere ==
    ASSUME server \in Servers, NEW count \in Nat \ {0}, NEW key \in DOMAIN Chosen(count)
    PROVE  Chosen(count)[key] \in 0..(count - 1)
  <1>1. CASE DOMAIN cfg.outputMap # {}
    <2>1. key \in DOMAIN cfg.outputMap /\ Chosen(count)[key] = Index(cfg.outputMap[key], 0, count)
      BY <1>1 DEF Chosen
    <2>2. IsSelector(cfg.outputMap[key])
      BY <2>1, OutputAssumption DEF cfg
    <2> QED BY <2>1, <2>2, IndexInRange
  <1>2. CASE DOMAIN cfg.outputMap = {}
    <2>1. key = Plain /\ Chosen(count)[key] = Index(cfg.outputName, cfg.outputIndex, count)
      BY <1>2 DEF Chosen
    <2>2. IsSelector(cfg.outputName) /\ cfg.outputIndex \in Nat
      BY OutputAssumption DEF cfg
    <2> QED BY <2>1, <2>2, IndexInRange
  <1> QED BY <1>1, <1>2

\* The items of an answer are the lines of a tensor of the model, in JSON as in
\* CSV.
LEMMA ItemsAreLines ==
    ASSUME ItemInv, stage = "ok", NEW key \in DOMAIN value
    PROVE  /\ key \in DOMAIN Chosen(Len(outputs))
           /\ Chosen(Len(outputs))[key] + 1 \in DOMAIN outputs
           /\ IsTensor(Output(outputs, key))
           /\ value[key] = TensorToJson(Output(outputs, key))
           /\ ItemsOf(key) = CsvLines(value[key])
  <1> DEFINE t == Output(outputs, key)
  <1>1. key \in DOMAIN Chosen(Len(outputs)) /\ value[key] = TensorToJson(t)
    BY DEF ItemInv
  <1>2. IsTensor(t) /\ Chosen(Len(outputs))[key] + 1 \in DOMAIN outputs
    <2> DEFINE count == Len(outputs)
    <2>1. /\ count \in Nat \ {0} /\ DOMAIN outputs = 1..count
          /\ \A i \in 1..count : IsTensor(outputs[i])
      BY DEF ItemInv, AreOutputs
    <2>2. server \in Servers
      BY DEF ItemInv
    <2> HIDE DEF count
    <2>3. Chosen(count)[key] \in 0..(count - 1)
      BY <1>1, <2>1, <2>2, ChosenIsThere DEF count
    <2>4. Chosen(count)[key] + 1 \in 1..count
      BY <2>1, <2>3
    <2> QED BY <2>1, <2>4 DEF Output, count
  <1>3. PICK wanted : body = FormatOutput(value, wanted)
    BY DEF ItemInv
  <1>4. ItemsOf(key) = CsvLines(value[key])
    <2>1. CASE body.type = "text/csv"
      <3>1. DOMAIN value = {Plain} /\ body.lines = CsvLines(value[Plain])
        BY <1>3, <2>1 DEF FormatOutput
      <3>2. key = Plain
        BY <3>1
      <3> QED BY <2>1, <3>1, <3>2 DEF ItemsOf
    <2>2. CASE body.type # "text/csv"
      BY <2>2 DEF ItemsOf, CsvLines
    <2> QED BY <2>1, <2>2
  <1> QED BY <1>1, <1>2, <1>4

LEMMA AnswersHaveItems == ItemInv => AnswerHasAnItemPerRecord
  <1> SUFFICES ASSUME ItemInv, stage = "ok", NEW key \in DOMAIN value
               PROVE  ItemsOfTensor(ItemsOf(key), Output(outputs, key))
    BY DEF AnswerHasAnItemPerRecord, ItemsOfTensor
  <1> QED BY ItemsAreLines, TensorLines

\* Every answer has an item per record of the outputs chosen, in JSON and in
\* CSV, that holds the elements of that record and no others, in their order,
\* for tensors of any size (adapter.rs:101, input.rs:398).
THEOREM ItemPerRecord == Spec => []AnswerHasAnItemPerRecord
  BY ItemInit, ItemStep, AnswersHaveItems, PTL DEF Spec
=============================================================================
