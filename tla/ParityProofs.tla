----------------------------- MODULE ParityProofs -----------------------------
(***************************************************************************)
(* HTTP and gRPC answer alike: the theorem ProtocolsAlike below, for every  *)
(* set of servers, requests and models.  The handlers take their stages in  *)
(* different orders, but the answer that is foreseen for a request in       *)
(* progress is the same before and after every stage; a handler can only    *)
(* end with the answer that was foreseen when the request arrived.          *)
(***************************************************************************)
EXTENDS AnswerFunction, InvocationProofs

-----------------------------------------------------------------------------
(* The functions depend on the server and the request only: while these stay *)
(* a function has the same value for the same arguments.                     *)

LEMMA FormatStays ==
    ASSUME NEW predictions, NEW wanted, UNCHANGED server
    PROVE  FromFormat(predictions, wanted)' = FromFormat(predictions, wanted)
  BY DEF FromFormat, FormatOutput, WrapPredictionsIfNeeded, cfg

LEMMA ChosenValuesStay ==
    ASSUME NEW outs, UNCHANGED server PROVE ChosenValues(outs)' = ChosenValues(outs)
  <1>1. ASSUME NEW count PROVE Chosen(count)' = Chosen(count)
    BY DEF Chosen, cfg
  <1>2. ASSUME NEW key PROVE Output(outs, key)' = Output(outs, key)
    BY <1>1 DEF Output
  <1> QED BY <1>1, <1>2 DEF ChosenValues

LEMMA ChooseStays ==
    ASSUME NEW outs, NEW wanted, UNCHANGED server
    PROVE  FromChoose(outs, wanted)' = FromChoose(outs, wanted)
  BY FormatStays, ChosenValuesStay DEF FromChoose

LEMMA PredictStays ==
    ASSUME NEW x, NEW wanted, UNCHANGED server
    PROVE  FromPredict(x, wanted)' = FromPredict(x, wanted)
  BY ChooseStays DEF FromPredict

LEMMA TensorStays ==
    ASSUME NEW x, NEW wanted, UNCHANGED server
    PROVE  FromTensor(x, wanted)' = FromTensor(x, wanted)
  BY PredictStays DEF FromTensor

LEMMA RowsStay ==
    ASSUME NEW x, NEW ts, NEW wanted, UNCHANGED server
    PROVE  FromRows(x, ts, wanted)' = FromRows(x, ts, wanted)
  BY TensorStays DEF FromRows

LEMMA BatchStays ==
    ASSUME NEW x, NEW ts, NEW wanted, UNCHANGED server
    PROVE  FromBatch(x, ts, wanted)' = FromBatch(x, ts, wanted)
  BY RowsStay DEF FromBatch, cfg

LEMMA SelectStays ==
    ASSUME NEW x, NEW wanted, UNCHANGED server
    PROVE  FromSelect(x, wanted)' = FromSelect(x, wanted)
  BY SelectionStays, FeatureIdxStays, BatchStays DEF FromSelect

LEMMA ShapeStays ==
    ASSUME NEW x, NEW wanted, UNCHANGED server
    PROVE  FromShape(x, wanted)' = FromShape(x, wanted)
  BY SelectStays DEF FromShape, ValidShape, cfg

LEMMA DecodeStays ==
    ASSUME NEW type, NEW wanted, UNCHANGED <<server, request>>
    PROVE  FromDecode(type, wanted)' = FromDecode(type, wanted)
  BY MatrixStays, ShapeStays DEF FromDecode

LEMMA RecordsStay ==
    ASSUME NEW type, NEW wanted, UNCHANGED <<server, request>>
    PROVE  FromRecords(type, wanted)' = FromRecords(type, wanted)
  <1>1. LoadMultiInputRecords(type)' = LoadMultiInputRecords(type)
    BY DEF LoadMultiInputRecords
  <1>2. ASSUME NEW records PROVE HasColumns(records)' = HasColumns(records)
    BY DEF HasColumns, cfg
  <1>3. ASSUME NEW records PROVE TensorsOf(records)' = TensorsOf(records)
    BY DEF TensorsOf, KeyOf, InputNames, cfg
  <1> QED BY <1>1, <1>2, <1>3, BatchStays DEF FromRecords

LEMMA DispatchStays ==
    ASSUME NEW type, NEW wanted, UNCHANGED <<server, request>>
    PROVE  FromDispatch(type, wanted)' = FromDispatch(type, wanted)
  BY RecordsStay, DecodeStays DEF FromDispatch, ValidInputMode, ShouldUseOnnxMultiInput, cfg

LEMMA ArrivedStays ==
    ASSUME UNCHANGED <<server, request>>
    PROVE  FromMedia' = FromMedia /\ FromPermit' = FromPermit /\ FromArrived' = FromArrived
  <1>1. ContentTypeOf' = ContentTypeOf /\ AcceptOf' = AcceptOf
    BY DEF ContentTypeOf, AcceptOf, HeaderValueWithFallback, cfg
  <1>2. FromMedia' = FromMedia
    BY <1>1, DispatchStays DEF FromMedia
  <1> QED BY <1>2 DEF FromPermit, FromArrived, cfg

LEMMA ComparableStays ==
    ASSUME UNCHANGED <<server, request>> PROVE Comparable' <=> Comparable
  BY DEF Comparable, StatedAlike, cfg
-----------------------------------------------------------------------------
(* A stage does not change what is foreseen.                                 *)

\* A request that is refused where nothing has been answered yet.
LEMMA Refusing ==
    ASSUME NothingLeft, stage \notin {"format", "ok"}, NEW outcome \in Refusals, Goto(outcome)
    PROVE  Foreseen' = Refused(outcome)
  <1>1. value' = <<>> /\ body' = NoBody /\ stage' = outcome
    BY DEF NothingLeft, Goto, outputVars
  <1> QED BY <1>1 DEF Foreseen, Refused, Refusals, Outcomes

LEMMA MediaAgree ==
    ASSUME NEW stated, StatedAlike(stated), NEW default, protocol \in Protocols
    PROVE  MediaText(stated, default) = HeaderValueWithFallback(stated, default)
  BY DEF StatedAlike, MediaText, HeaderValueWithFallback, FieldOrDefault, Only, Protocols

LEMMA BeforeParsing ==
    ASSUME NothingLeft, Comparable,
           RefuseLoadError \/ CheckSize \/ AcquirePermit \/ ResolveMediaTypes \/ Ensure \/ Dispatch
    PROVE  Foreseen' = Foreseen
  <1>0. UNCHANGED <<server, request>>
    BY DEF RefuseLoadError, CheckSize, AcquirePermit, ResolveMediaTypes, Ensure, Dispatch, Goto,
           sessionVars
  <1>1. ~RefuseLoadError
    BY DEF RefuseLoadError, Comparable
  <1>2. CASE CheckSize
    <2>1. Foreseen = FromArrived
      BY <1>2 DEF CheckSize, Foreseen
    <2>2. CASE request.size > cfg.maxBodyBytes
      BY <1>2, <2>1, <2>2, Refusing DEF CheckSize, FromArrived, Refusals
    <2>3. CASE ~(request.size > cfg.maxBodyBytes)
      BY <1>0, <1>2, <2>1, <2>3, ArrivedStays DEF CheckSize, Goto, Foreseen, FromArrived
    <2> QED BY <2>2, <2>3
  <1>3. CASE AcquirePermit
    <2>1. Foreseen = FromPermit
      BY <1>3 DEF AcquirePermit, Foreseen
    <2>2. CASE cfg.timeoutFits
      BY <1>0, <1>3, <2>1, <2>2, ArrivedStays DEF AcquirePermit, Goto, Foreseen, FromPermit
    <2>3. CASE ~cfg.timeoutFits
      BY <1>3, <2>1, <2>3, Refusing DEF AcquirePermit, FromPermit, Refusals
    <2> QED BY <2>2, <2>3
  <1>4. CASE ResolveMediaTypes
    <2>1. Foreseen = FromDispatch(ContentTypeOf, AcceptOf)
      BY <1>4 DEF ResolveMediaTypes, Foreseen, FromMedia
    <2>2. contentType' = ContentTypeOf /\ accept' = AcceptOf
      BY <1>4, MediaAgree
      DEF ResolveMediaTypes, ContentTypeOf, AcceptOf, Comparable, NothingLeft
    <2>3. Foreseen' = FromDispatch(contentType, accept)'
      BY <1>4 DEF ResolveMediaTypes, AfterMedia, Foreseen, sessionVars
    <2> QED BY <1>0, <2>1, <2>2, <2>3, DispatchStays
  <1>5. CASE Ensure
    <2>1. Foreseen = IF protocol = "http" THEN FromRows(rows, tensors, accept)
                     ELSE FromDispatch(contentType, accept)
      BY <1>5 DEF Ensure, Foreseen
    <2>2. Goto(AfterEnsure)
      BY <1>5 DEF Ensure, Comparable
    <2>3. CASE protocol = "http"
      <3>1. Foreseen' = FromRows(rows, tensors, accept)'
        BY <2>2, <2>3 DEF Goto, AfterEnsure, Foreseen
      <3>2. UNCHANGED <<rows, tensors, accept>>
        BY <2>2 DEF Goto, inputVars, mediaVars
      <3> QED BY <1>0, <2>1, <2>3, <3>1, <3>2, RowsStay
    <2>4. CASE protocol # "http"
      <3>1. Foreseen' = FromDispatch(contentType, accept)'
        BY <2>2, <2>4 DEF Goto, AfterEnsure, Foreseen
      <3>2. UNCHANGED <<contentType, accept>>
        BY <2>2 DEF Goto, mediaVars
      <3> QED BY <1>0, <2>1, <2>4, <3>1, <3>2, DispatchStays
    <2> QED BY <2>3, <2>4
  <1>6. CASE Dispatch
    <2>1. Foreseen = FromDispatch(contentType, accept)
      BY <1>6 DEF Dispatch, Foreseen
    <2>2. CASE ~ValidInputMode \/ ~cfg.mapIsJson
      BY <1>6, <2>1, <2>2, Refusing DEF Dispatch, FromDispatch, Refusals
    <2>3. CASE ~(~ValidInputMode \/ ~cfg.mapIsJson) /\ Mapped
      <3>1. Foreseen' = FromRecords(contentType, accept)' /\ UNCHANGED <<contentType, accept>>
        BY <1>6, <2>3 DEF Dispatch, Goto, Foreseen, mediaVars
      <3> QED BY <1>0, <2>1, <2>3, <3>1, RecordsStay DEF FromDispatch, Mapped
    <2>4. CASE ~(~ValidInputMode \/ ~cfg.mapIsJson) /\ ~Mapped
      <3>1. Foreseen' = FromDecode(contentType, accept)' /\ UNCHANGED <<contentType, accept>>
        BY <1>6, <2>4 DEF Dispatch, Goto, Foreseen, mediaVars
      <3> QED BY <1>0, <2>1, <2>4, <3>1, DecodeStays DEF FromDispatch, Mapped
    <2> QED BY <2>2, <2>3, <2>4
  <1> QED BY <1>1, <1>2, <1>3, <1>4, <1>5, <1>6

LEMMA TabularParsing ==
    ASSUME NothingLeft, TabularStep PROVE Foreseen' = Foreseen
  <1>0. UNCHANGED <<server, request, contentType, accept>>
    BY DEF TabularStep, Decode, CheckShape, Select, Goto, Advance, sessionVars, mediaVars
  <1>1. CASE Decode
    <2> DEFINE found == ParseTabularMatrix(contentType)
    <2>1. Foreseen = FromDecode(contentType, accept)
      BY <1>1 DEF Decode, Foreseen
    <2>2. CASE found = Err
      BY <1>1, <2>1, <2>2, Refusing DEF Decode, FromDecode, Refusals
    <2>3. CASE found # Err
      <3>1. Foreseen' = FromShape(rows, accept)' /\ rows' = Only(found)
        BY <1>1, <2>3 DEF Decode, Advance, Foreseen
      <3> QED BY <1>0, <2>1, <2>3, <3>1, ShapeStays DEF FromDecode
    <2> QED BY <2>2, <2>3
  <1>2. CASE CheckShape
    <2>1. Foreseen = FromShape(rows, accept)
      BY <1>2 DEF CheckShape, Foreseen
    <2>2. CASE ValidShape(rows)
      <3>1. Foreseen' = FromSelect(rows, accept)' /\ rows' = rows
        BY <1>2, <2>2 DEF CheckShape, Goto, Foreseen, inputVars
      <3> QED BY <1>0, <2>1, <2>2, <3>1, SelectStays DEF FromShape
    <2>3. CASE ~ValidShape(rows)
      BY <1>2, <2>1, <2>3, Refusing DEF CheckShape, FromShape, Refusals
    <2> QED BY <2>2, <2>3
  <1>3. CASE Select
    <2>1. Foreseen = FromSelect(rows, accept)
      BY <1>3 DEF Select, Foreseen
    <2>2. tensors = NoTensors
      BY <1>3 DEF Select, NothingLeft
    <2>3. CASE stage' = "batch"
      <3>1. Foreseen' = FromBatch(rows, tensors, accept)' /\ tensors' = NoTensors
        BY <1>3, <2>2, <2>3 DEF Select, Goto, Advance, Foreseen, inputVars
      <3>2. FromSelect(rows, accept) = FromBatch(rows', NoTensors, accept)
        BY <1>3, <2>3 DEF Select, Goto, Advance, FromSelect, inputVars
      <3> QED BY <1>0, <2>1, <3>1, <3>2, BatchStays
    <2>4. CASE Selecting /\ FeatureIdx(Len(rows[1])) = Err /\ Goto("malformed")
      BY <1>3, <2>1, <2>4, Refusing DEF Select, FromSelect, Refusals
    <2>5. CASE /\ Selecting /\ FeatureIdx(Len(rows[1])) # Err /\ ~Reaches(rows)
               /\ Goto("panics")
      BY <1>3, <2>1, <2>5, Refusing DEF Select, FromSelect, Refusals
    <2> QED BY <1>3, <2>3, <2>4, <2>5 DEF Select, Goto, Advance
  <1> QED BY <1>1, <1>2, <1>3 DEF TabularStep

\* With a key for each input the hash map has no choice.
LEMMA OneKeyPerInput ==
    ASSUME IsInjective(cfg.inputMap), NEW last \in [InputNames -> DOMAIN cfg.inputMap],
           \A name \in InputNames : cfg.inputMap[last[name]] = name
    PROVE  \A name \in InputNames : last[name] = KeyOf(name)
  <1> SUFFICES ASSUME NEW name \in InputNames PROVE last[name] = KeyOf(name)
    OBVIOUS
  <1>1. last[name] \in DOMAIN cfg.inputMap /\ cfg.inputMap[last[name]] = name
    OBVIOUS
  <1>2. KeyOf(name) \in DOMAIN cfg.inputMap /\ cfg.inputMap[KeyOf(name)] = name
    BY <1>1 DEF KeyOf
  <1> QED BY <1>1, <1>2 DEF IsInjective

LEMMA RecordParsing ==
    ASSUME NothingLeft, Comparable, ParseMultiInput PROVE Foreseen' = Foreseen
  <1> DEFINE found   == LoadMultiInputRecords(contentType)
             records == Only(found)
  <1>1. Foreseen = FromRecords(contentType, accept)
    BY DEF ParseMultiInput, Foreseen
  <1>2. CASE found \in {Err, Ok(<<>>)} \/ ~HasColumns(records)
    <2>1. Goto("malformed")
      BY <1>2 DEF ParseMultiInput, BuildTensors
    <2> QED BY <1>1, <1>2, <2>1, Refusing DEF ParseMultiInput, FromRecords, Refusals
  <1>3. CASE ~(found \in {Err, Ok(<<>>)} \/ ~HasColumns(records))
    <2>1. PICK last \in [InputNames -> DOMAIN cfg.inputMap] :
              /\ \A name \in InputNames : cfg.inputMap[last[name]] = name
              /\ Built([name \in InputNames |-> Column(records, last[name])])
      BY <1>3 DEF ParseMultiInput, BuildTensors
    <2>2. tensors' = TensorsOf(records)
      BY <2>1, OneKeyPerInput DEF Built, TensorsOf, Comparable
    <2>3. UNCHANGED <<server, request, accept>> /\ rows' = <<>>
      BY <2>1 DEF ParseMultiInput, Built, Advance, sessionVars, mediaVars, NothingLeft, Unread
    <2>4. Foreseen' = FromBatch(rows, tensors, accept)'
      BY <2>1 DEF Built, Advance, Foreseen
    <2> QED BY <1>1, <1>3, <2>2, <2>3, <2>4, BatchStays DEF FromRecords
  <1> QED BY <1>2, <1>3

LEMMA Adapting ==
    ASSUME NothingLeft, ParsedInputStep PROVE Foreseen' = Foreseen
  <1>0. UNCHANGED <<server, request, protocol, accept>>
    BY DEF ParsedInputStep, CheckBatch, Sized, ToRows, RowsToTensor, Goto, Advance, sessionVars,
           mediaVars
  <1>1. CASE CheckBatch
    <2> DEFINE found == BatchSize(rows, tensors)
    <2>1. Foreseen = FromBatch(rows, tensors, accept)
      BY <1>1 DEF CheckBatch, Foreseen
    <2>2. CASE found = Err
      BY <1>1, <2>1, <2>2, Refusing DEF CheckBatch, FromBatch, Refusals
    <2>3. CASE found # Err /\ Only(found) > cfg.maxRecords
      BY <1>1, <2>1, <2>3, Refusing DEF CheckBatch, FromBatch, Refusals
    <2>4. CASE found # Err /\ ~(Only(found) > cfg.maxRecords)
      <3>1. Sized(Only(found))
        BY <1>1, <2>4 DEF CheckBatch
      <3>2. Foreseen' = FromRows(rows, tensors, accept)' /\ UNCHANGED <<rows, tensors>>
        BY <1>0, <3>1 DEF Sized, Advance, AfterBatch, Foreseen
      <3> QED BY <1>0, <2>1, <2>4, <3>2, RowsStay DEF FromBatch
    <2> QED BY <2>2, <2>3, <2>4
  <1>2. CASE ToRows
    <2> DEFINE found == ParsedInputToRows(rows, tensors)
    <2>1. Foreseen = FromRows(rows, tensors, accept)
      BY <1>2 DEF ToRows, Foreseen
    <2>2. CASE found = Err
      BY <1>2, <2>1, <2>2, Refusing DEF ToRows, FromRows, Refusals
    <2>3. CASE found # Err
      <3>1. Foreseen' = FromTensor(rows, accept)' /\ rows' = Only(found)
        BY <1>2, <2>3 DEF ToRows, Advance, Foreseen
      <3> QED BY <1>0, <2>1, <2>3, <3>1, TensorStays DEF FromRows
    <2> QED BY <2>2, <2>3
  <1>3. CASE RowsToTensor
    <2>1. Foreseen = FromTensor(rows, accept)
      BY <1>3 DEF RowsToTensor, Foreseen
    <2>2. CASE TensorShaped(rows)
      <3>1. Foreseen' = FromPredict(rows, accept)' /\ rows' = rows
        BY <1>3, <2>2 DEF RowsToTensor, Goto, Foreseen, inputVars
      <3> QED BY <1>0, <2>1, <2>2, <3>1, PredictStays DEF FromTensor
    <2>3. CASE ~TensorShaped(rows)
      BY <1>3, <2>1, <2>3, Refusing DEF RowsToTensor, FromTensor, Refusals
    <2> QED BY <2>2, <2>3
  <1> QED BY <1>1, <1>2, <1>3 DEF ParsedInputStep

LEMMA Answering ==
    ASSUME NothingLeft, Run \/ OutputStep PROVE Foreseen' = Foreseen
  <1>0. UNCHANGED <<server, request, accept>>
    BY DEF Run, OutputStep, Choose, Format, Goto, Advance, sessionVars, mediaVars
  <1>1. CASE Run
    <2> DEFINE found == Infer(server.model, rows)
    <2>1. Foreseen = FromPredict(rows, accept)
      BY <1>1 DEF Run, Foreseen
    <2>2. CASE found = Err
      BY <1>1, <2>1, <2>2, Refusing DEF Run, FromPredict, Refusals
    <2>3. CASE found # Err
      <3>1. Foreseen' = FromChoose(outputs, accept)' /\ outputs' = Only(found)
        BY <1>1, <2>3 DEF Run, Advance, Foreseen
      <3> QED BY <1>0, <2>1, <2>3, <3>1, ChooseStays DEF FromPredict
    <2> QED BY <2>2, <2>3
  <1>2. CASE Choose
    <2> DEFINE found == ChosenValues(outputs)
    <2>1. Foreseen = FromChoose(outputs, accept)
      BY <1>2 DEF Choose, Foreseen
    <2>2. CASE found = Err
      BY <1>2, <2>1, <2>2, Refusing DEF Choose, FromChoose, Refusals
    <2>3. CASE found # Err
      <3>1. Foreseen' = FromFormat(value, accept)' /\ value' = Only(found)
        BY <1>2, <2>3 DEF Choose, Advance, Foreseen
      <3> QED BY <1>0, <2>1, <2>3, <3>1, FormatStays DEF FromChoose
    <2> QED BY <2>2, <2>3
  <1>3. CASE Format
    <2>1. Foreseen = FromFormat(value, accept)
      BY <1>3 DEF Format, Foreseen
    <2>2. Foreseen' = Verdict("ok", value', body')
      BY <1>3 DEF Format, Advance, Foreseen, Outcomes
    <2> QED BY <1>3, <2>1, <2>2 DEF Format, FromFormat
  <1> QED BY <1>1, <1>2, <1>3 DEF OutputStep

LEMMA HandlerKeepsForeseen ==
    ASSUME NothingLeft, Comparable, HandlerStep PROVE Foreseen' = Foreseen
  BY BeforeParsing, TabularParsing, RecordParsing, Adapting, Answering DEF HandlerStep

LEMMA HandlerMovesOn ==
    ASSUME HandlerStep
    PROVE  /\ UNCHANGED <<server, request, protocol, answers>>
           /\ stage \notin {"idle", "answered"} /\ stage' # "answered"
  BY DEF HandlerStep, RefuseLoadError, CheckSize, AcquirePermit, ResolveMediaTypes, Ensure, Dispatch,
         TabularStep, Decode, CheckShape, Select, ParseMultiInput, BuildTensors, Built,
         ParsedInputStep, CheckBatch, Sized, AfterBatch, ToRows, RowsToTensor, Run, OutputStep,
         Choose, Format, AfterMedia, AfterEnsure, sessionVars, Goto, Advance
-----------------------------------------------------------------------------
(* The answers.                                                              *)

\* The invariant: nothing of an earlier request is left, the answer is the one
\* foreseen, and an answered request has come to one of the outcomes.
ParityInv ==
    /\ NothingLeft
    /\ DOMAIN answers = Protocols
    /\ stage = "answered" => protocol = "grpc" /\ (Comparable => FromArrived.outcome \in Outcomes)
    /\ AnsweredAsForeseen

LEMMA ParityInit == Init => ParityInv
  BY NothingLeftInit DEF Init, ParityInv, AnsweredAsForeseen, Protocols

LEMMA ParityStep == ParityInv /\ [Next]_vars => ParityInv'
  <1> SUFFICES ASSUME ParityInv, [Next]_vars PROVE ParityInv'
    OBVIOUS
  <1>0. NothingLeft /\ NothingLeft'
    BY NothingLeftStep DEF ParityInv
  <1>1. CASE HandlerStep
    <2>1. /\ UNCHANGED <<server, request, protocol, answers>>
          /\ stage \notin {"idle", "answered"} /\ stage' # "answered"
      BY <1>1, HandlerMovesOn
    <2>2. FromArrived' = FromArrived /\ (Comparable' <=> Comparable)
      BY <2>1, ArrivedStays, ComparableStays
    <2>3. ASSUME Comparable PROVE Foreseen' = Foreseen
      BY <1>0, <1>1, <2>3, HandlerKeepsForeseen
    <2> QED BY <1>0, <2>1, <2>2, <2>3 DEF ParityInv, AnsweredAsForeseen, Answers
  <1>2. CASE Send
    <2>1. Foreseen' = FromArrived'
      BY <1>2 DEF Send, Foreseen
    <2>2. protocol' = "http" /\ answers' = answers /\ stage' = "arrived"
      BY <1>0, <1>2 DEF Send, NothingLeft
    <2> QED BY <1>0, <2>1, <2>2 DEF ParityInv, AnsweredAsForeseen
  <1>3. CASE ReplyHttp \/ ReplyGrpc
    <2>1. UNCHANGED <<server, request>> /\ stage \in Outcomes /\ stage \notin {"idle", "answered"}
      BY <1>3 DEF ReplyHttp, ReplyGrpc, Reply, Outcomes, Refusals
    <2>2. FromArrived' = FromArrived /\ (Comparable' <=> Comparable)
      BY <2>1, ArrivedStays, ComparableStays
    <2>3. ASSUME Comparable PROVE FromArrived = Verdict(stage, value, body)
      <3>1. Foreseen = FromArrived
        BY <2>1, <2>3 DEF ParityInv, AnsweredAsForeseen
      <3> QED BY <2>1, <3>1 DEF Foreseen, Outcomes, Refusals
    <2>4. CASE ReplyHttp
      <3>1. Foreseen' = FromArrived' /\ stage' = "arrived" /\ protocol' = "grpc"
        BY <2>4 DEF ReplyHttp, Foreseen
      <3>2. /\ DOMAIN answers' = Protocols
            /\ answers'["http"] = [code |-> HttpCode(stage), body |-> body, value |-> value, batch |-> 0]
        BY <2>4 DEF ReplyHttp, Reply, ParityInv, Protocols
      <3>3. ASSUME Comparable
            PROVE  Answers(HttpCode(FromArrived.outcome), FromArrived, answers'["http"])
        BY <2>3, <3>2, <3>3 DEF Answers, Verdict
      <3> QED BY <1>0, <2>2, <3>1, <3>2, <3>3 DEF ParityInv, AnsweredAsForeseen, Answers
    <2>5. CASE ReplyGrpc
      <3>1. stage' = "answered" /\ protocol = "grpc" /\ protocol' = "grpc"
        BY <2>5 DEF ReplyGrpc
      <3>2. /\ DOMAIN answers' = Protocols
            /\ answers'["http"] = answers["http"]
            /\ answers'["grpc"].code = GrpcCode(stage)
            /\ answers'["grpc"].body = body /\ answers'["grpc"].value = value
        BY <2>5 DEF ReplyGrpc, Reply, ParityInv, Protocols
      <3>3. ASSUME Comparable
            PROVE  /\ Answers(HttpCode(FromArrived.outcome), FromArrived, answers'["http"])
                   /\ Answers(GrpcCode(FromArrived.outcome), FromArrived, answers'["grpc"])
                   /\ FromArrived.outcome \in Outcomes
        BY <2>1, <2>3, <3>1, <3>2, <3>3 DEF Answers, Verdict, ParityInv, AnsweredAsForeseen
      <3> QED BY <1>0, <2>2, <3>1, <3>2, <3>3 DEF ParityInv, AnsweredAsForeseen, Answers
    <2> QED BY <1>3, <2>4, <2>5
  <1>4. CASE NextRequest
    BY <1>0, <1>4 DEF NextRequest, ParityInv, AnsweredAsForeseen, Protocols
  <1>5. CASE UNCHANGED vars
    <2>1. UNCHANGED <<server, request, protocol, answers, stage, contentType, accept, rows,
                      tensors, outputs, value, body>>
      BY <1>5 DEF vars, sessionVars, mediaVars, inputVars, outputVars
    <2>2. FromArrived' = FromArrived /\ FromPermit' = FromPermit /\ FromMedia' = FromMedia
      BY <2>1, ArrivedStays
    <2>3. Foreseen' = Foreseen
      BY <2>1, <2>2, DispatchStays, DecodeStays, RecordsStay, ShapeStays, SelectStays, BatchStays,
         RowsStay, TensorStays, PredictStays, ChooseStays, FormatStays
      DEF Foreseen
    <2> QED BY <1>0, <2>1, <2>2, <2>3, ComparableStays DEF ParityInv, AnsweredAsForeseen, Answers
  <1> QED BY <1>1, <1>2, <1>3, <1>4, <1>5 DEF Next

LEMMA CodesCorrespond ==
    ASSUME NEW outcome \in Outcomes PROVE Corresponds(HttpCode(outcome), GrpcCode(outcome))
  BY DEF Outcomes, Refusals, HttpCode, GrpcCode, Corresponds

\* What a request will be answered is settled when it arrives, whatever order
\* the handler takes its stages in (http.rs:226, grpc_service.rs:74).
THEOREM AnswerIsForeseen == Spec => []AnsweredAsForeseen
  <1>1. ParityInv => AnsweredAsForeseen
    BY DEF ParityInv
  <1> QED BY ParityInit, ParityStep, <1>1, PTL DEF Spec

\* "HTTP/gRPC parity" (grpc_service.rs:83, :95): a request that states the same
\* over both protocols gets the same body and the corresponding code.
THEOREM ProtocolsAlike == Spec => []ProtocolsAgree
  <1>1. ParityInv => ProtocolsAgree
    <2> SUFFICES ASSUME ParityInv, stage = "answered", Comparable
                 PROVE  /\ Corresponds(answers["http"].code, answers["grpc"].code)
                        /\ answers["http"].body = answers["grpc"].body
                        /\ answers["http"].value = answers["grpc"].value
      BY DEF ProtocolsAgree, Comparable
    <2>1. /\ Answers(HttpCode(FromArrived.outcome), FromArrived, answers["http"])
          /\ Answers(GrpcCode(FromArrived.outcome), FromArrived, answers["grpc"])
          /\ FromArrived.outcome \in Outcomes
      BY DEF ParityInv, AnsweredAsForeseen
    <2> QED BY <2>1, CodesCorrespond DEF Answers
  <1> QED BY ParityInit, ParityStep, <1>1, PTL DEF Spec
=============================================================================
