---------------------------- MODULE AnswerFunction ----------------------------
(***************************************************************************)
(* What a request is answered, as a function of the request and the server: *)
(* the stages that Invocation takes one by one, each inside the one before  *)
(* it.  It knows no protocol and no order of the handlers.  It is meant for *)
(* a server that can load its model, a request that states the same over    *)
(* both protocols and an input map that gives each ONNX input one key:      *)
(* other answers are no function of the request.                            *)
(***************************************************************************)
EXTENDS Invocation

\* How a request ends, with the predictions and the body it got by then.
Verdict(outcome, predictions, new) ==
    [outcome |-> outcome, value |-> predictions, body |-> new]
Refused(outcome) == Verdict(outcome, <<>>, NoBody)

\* What becomes of a request that has reached a stage: of predictions to
\* format, of outputs, of rows in the stages of the adapter, and so on back to
\* a request that has just arrived.
FromFormat(predictions, wanted) == Verdict("ok", predictions, FormatOutput(predictions, wanted))

FromChoose(outs, wanted) ==
    IF ChosenValues(outs) = Err THEN Refused("failed")
    ELSE FromFormat(Only(ChosenValues(outs)), wanted)

FromPredict(x, wanted) ==
    IF Infer(server.model, x) = Err THEN Refused("failed")
    ELSE FromChoose(Only(Infer(server.model, x)), wanted)

FromTensor(x, wanted) ==
    IF TensorShaped(x) THEN FromPredict(x, wanted) ELSE Refused("rejected")

FromRows(x, ts, wanted) ==
    IF ParsedInputToRows(x, ts) = Err THEN Refused("rejected")
    ELSE FromTensor(Only(ParsedInputToRows(x, ts)), wanted)

FromBatch(x, ts, wanted) ==
    IF BatchSize(x, ts) = Err THEN Refused("malformed")
    ELSE IF Only(BatchSize(x, ts)) > cfg.maxRecords THEN Refused("too_many")
    ELSE FromRows(x, ts, wanted)

FromSelect(x, wanted) ==
    IF ~Selecting THEN FromBatch(x, NoTensors, wanted)
    ELSE IF FeatureIdx(Len(x[1])) = Err THEN Refused("malformed")
    ELSE IF ~Reaches(x) THEN Refused("panics")
    ELSE FromBatch(Selected(x), NoTensors, wanted)

FromShape(x, wanted) == IF ValidShape(x) THEN FromSelect(x, wanted) ELSE Refused("malformed")

FromDecode(type, wanted) ==
    IF ParseTabularMatrix(type) = Err THEN Refused("malformed")
    ELSE FromShape(Only(ParseTabularMatrix(type)), wanted)

\* The key of an ONNX input, and the tensors that records make.
KeyOf(name) == CHOOSE key \in DOMAIN cfg.inputMap : cfg.inputMap[key] = name
TensorsOf(records) == [name \in InputNames |-> Column(records, KeyOf(name))]

FromRecords(type, wanted) ==
    LET records == Only(LoadMultiInputRecords(type))
    IN  IF LoadMultiInputRecords(type) \in {Err, Ok(<<>>)} \/ ~HasColumns(records)
        THEN Refused("malformed")
        ELSE FromBatch(<<>>, TensorsOf(records), wanted)

FromDispatch(type, wanted) ==
    IF ~ValidInputMode \/ ~cfg.mapIsJson THEN Refused("malformed")
    ELSE IF ShouldUseOnnxMultiInput(type) THEN FromRecords(type, wanted)
    ELSE FromDecode(type, wanted)

\* The media types of the request, as HTTP reads them.
ContentTypeOf ==
    StripContentTypeParams(HeaderValueWithFallback(request.contentType, cfg.defaultContentType))
AcceptOf == NormalizedAccept(HeaderValueWithFallback(request.accept, cfg.defaultAccept))

FromMedia  == FromDispatch(ContentTypeOf, AcceptOf)
FromPermit == IF cfg.timeoutFits THEN FromMedia ELSE Refused("panics")
FromArrived == IF request.size > cfg.maxBodyBytes THEN Refused("too_large") ELSE FromPermit

\* What becomes of the request in progress, given how far it is; the adapter
\* is loaded before the body is parsed over gRPC, after that over HTTP.
Foreseen ==
    CASE stage = "arrived"  -> FromArrived
      [] stage = "permit"   -> FromPermit
      [] stage = "media"    -> FromMedia
      [] stage = "dispatch" -> FromDispatch(contentType, accept)
      [] stage = "decode"   -> FromDecode(contentType, accept)
      [] stage = "records"  -> FromRecords(contentType, accept)
      [] stage = "shape"    -> FromShape(rows, accept)
      [] stage = "select"   -> FromSelect(rows, accept)
      [] stage = "batch"    -> FromBatch(rows, tensors, accept)
      [] stage = "ensure"   -> IF protocol = "http" THEN FromRows(rows, tensors, accept)
                               ELSE FromDispatch(contentType, accept)
      [] stage = "rows"     -> FromRows(rows, tensors, accept)
      [] stage = "tensor"   -> FromTensor(rows, accept)
      [] stage = "predict"  -> FromPredict(rows, accept)
      [] stage = "choose"   -> FromChoose(outputs, accept)
      [] stage = "format"   -> FromFormat(value, accept)
      [] OTHER              -> Verdict(stage, value, body)
-----------------------------------------------------------------------------
\* Requests whose answer is a function of them.
Comparable ==
    /\ server.loadable
    /\ StatedAlike(request.contentType) /\ StatedAlike(request.accept)
    /\ IsInjective(cfg.inputMap)

Answers(code, verdict, answer) ==
    answer.code = code /\ answer.value = verdict.value /\ answer.body = verdict.body

\* Whatever the order in which a handler takes its stages, what the request
\* will be answered is settled when it arrives: no stage changes it, nothing
\* of the request before it shows in it, and both protocols give it to the
\* client (http.rs:226, grpc_service.rs:74).
AnsweredAsForeseen ==
    stage # "idle" /\ Comparable =>
        /\ stage # "answered" => Foreseen = FromArrived
        /\ protocol = "grpc" => Answers(HttpCode(FromArrived.outcome), FromArrived, answers["http"])
        /\ stage = "answered" => Answers(GrpcCode(FromArrived.outcome), FromArrived, answers["grpc"])
=============================================================================
