------------------------------ MODULE Invocation ------------------------------
(***************************************************************************)
(* One prediction from end to end, sent over HTTP (http_invocations) and    *)
(* then, the same request to a server that was started in the same place,   *)
(* over gRPC (predict).  Both handlers run the stages of the other modules, *)
(* in different orders:                                                     *)
(*                                                                          *)
(*   http  size -> permit -> media types -> parse -> batch -> ensure        *)
(*              -> tensor -> run -> choose -> format                        *)
(*   grpc  load error -> size -> permit -> media types -> ensure -> parse   *)
(*              -> batch -> tensor -> run -> choose -> format               *)
(*                                                                          *)
(* The permits and the adapter cache are the matter of module Serving: here *)
(* the server is not busy and its disk does not change.  Of the wait for a  *)
(* permit its configured length is left.  HTTP settles the media types just *)
(* before that wait, which does not show.                                   *)
(***************************************************************************)
EXTENDS MediaTypes, TabularInput, MultiInput, ParsedInput, OutputFormat

Protocols == {"http", "grpc"}
NoAnswer  == [code |-> "none", body |-> NoBody, value |-> <<>>, batch |-> 0]
NoRequest == [contentType |-> {}, accept |-> {}, size |-> 0, lines |-> <<>>, docs |-> <<>>,
              matrix |-> <<>>, header |-> <<>>, records |-> <<>>]

\* What the handler keeps of a request is gone with its answer.
Dropped ==
    /\ contentType' = "" /\ accept' = ""
    /\ rows' = <<>> /\ tensors' = NoTensors /\ batch' = 0
    /\ outputs' = <<>> /\ value' = <<>> /\ body' = NoBody

Init ==
    /\ server \in Servers
    /\ request = NoRequest
    /\ protocol = "http"
    /\ answers = [p \in Protocols |-> NoAnswer]
    /\ stage = "idle"
    /\ contentType = "" /\ accept = ""
    /\ rows = <<>> /\ tensors = NoTensors /\ batch = 0
    /\ outputs = <<>> /\ value = <<>> /\ body = NoBody

Send ==
    /\ stage = "idle"
    /\ request' \in Requests(server)
    /\ stage' = "arrived"
    /\ UNCHANGED <<server, protocol, answers, mediaVars, inputVars, outputVars>>

\* The gRPC service keeps the error of its first load, see module Serving.
RefuseLoadError ==
    /\ stage = "arrived" /\ protocol = "grpc" /\ ~server.loadable
    /\ Goto("internal")

CheckSize ==
    /\ stage = "arrived" /\ (protocol = "http" \/ server.loadable)
    /\ IF request.size > cfg.maxBodyBytes THEN Goto("too_large") ELSE Goto("permit")

\* Duration::from_secs_f64 panics for a number of seconds it cannot hold.
AcquirePermit ==
    /\ stage = "permit"
    /\ IF cfg.timeoutFits THEN Goto("media") ELSE Goto("panics")

Ensure ==
    /\ stage = "ensure"
    /\ IF server.loadable THEN Goto(AfterEnsure) ELSE Goto("internal")

\* The beginning of parse_payload.  The input map is read for every request;
\* it matters to the JSON types only.
Dispatch ==
    /\ stage = "dispatch"
    /\ IF ~ValidInputMode \/ ~cfg.mapIsJson THEN Goto("malformed")
       ELSE Goto(IF Mapped THEN "records" ELSE "decode")

\* Fault: the model gets a batch of one.
RunFirstRow ==
    /\ stage = "predict"
    /\ IF Infer(server.model, rows) = Err THEN Goto("failed")
       ELSE /\ outputs' = Only(Infer(server.model, SubSeq(rows, 1, 1)))
            /\ Advance("choose") /\ UNCHANGED <<inputVars, value, body>>

\* The model has outputs, all of them tensors, or the inference fails.
Run ==
    /\ stage = "predict"
    /\ IF Infer(server.model, rows) = Err THEN Goto("failed")
       ELSE /\ outputs' = Only(Infer(server.model, rows))
            /\ AreOutputs(outputs')
            /\ Advance("choose") /\ UNCHANGED <<inputVars, value, body>>
-----------------------------------------------------------------------------
HttpCode(outcome) ==
    CASE outcome = "panics"    -> "none"
      [] outcome = "internal"  -> "internal"
      [] outcome = "too_large" -> "too_large"
      [] outcome = "ok"        -> "ok"
      [] OTHER                 -> "bad_request"

GrpcCode(outcome) ==
    CASE outcome = "panics"   -> "none"
      [] outcome = "internal" -> "internal"
      [] outcome = "ok"       -> "ok"
      [] OTHER                -> "invalid_argument"

\* The batch size is in the metadata of the gRPC reply only.
Reply(code, size) ==
    /\ stage \in Outcomes
    /\ answers' = [answers EXCEPT ![protocol] =
                      [code |-> code, body |-> body, value |-> value, batch |-> size]]
    /\ Dropped

ReplyHttp ==
    /\ protocol = "http" /\ Reply(HttpCode(stage), 0)
    /\ stage' = "arrived" /\ protocol' = "grpc"
    /\ UNCHANGED <<server, request>>

ReplyGrpc ==
    /\ protocol = "grpc" /\ Reply(GrpcCode(stage), IF stage = "ok" THEN batch ELSE 0)
    /\ stage' = "answered"
    /\ UNCHANGED <<server, request, protocol>>

NextRequest ==
    /\ stage = "answered"
    /\ stage' = "idle" /\ request' = NoRequest /\ protocol' = "http"
    /\ answers' = [p \in Protocols |-> NoAnswer]
    /\ UNCHANGED <<server, mediaVars, inputVars, outputVars>>

HandlerStep ==
    \/ RefuseLoadError \/ CheckSize \/ AcquirePermit \/ ResolveMediaTypes \/ Ensure \/ Dispatch
    \/ TabularStep \/ ParseMultiInput \/ ParsedInputStep \/ Run \/ OutputStep

Next == Send \/ HandlerStep \/ ReplyHttp \/ ReplyGrpc \/ NextRequest

Spec == Init /\ [][Next]_vars
-----------------------------------------------------------------------------
Corresponds(http, grpc) ==
    <<http, grpc>> \in {<<"ok", "ok">>, <<"none", "none">>, <<"internal", "internal">>,
                        <<"bad_request", "invalid_argument">>, <<"too_large", "invalid_argument">>}

\* What the client states over gRPC is the first it states over HTTP; an empty
\* header, which is a media type, cannot be stated over gRPC at all.
StatedAlike(stated) ==
    /\ NoText \notin stated.header \cup stated.double
    /\ stated.field = IF stated.header # {} THEN Only(stated.header)
                      ELSE IF stated.double # {} THEN Only(stated.double) ELSE NoText

\* "HTTP/gRPC parity" (grpc_service.rs:83, :95): a request that states the same
\* over both protocols gets the same body and the corresponding code, although
\* the handlers take their steps in different orders.  A server that cannot
\* load its model is not held to it, as gRPC looks at that first; nor is one
\* with two keys mapped to one ONNX input, as a hash map is free to yield them
\* in another order for each request.
ProtocolsAgree ==
    /\ stage = "answered" /\ server.loadable
    /\ StatedAlike(request.contentType) /\ StatedAlike(request.accept)
    /\ IsInjective(cfg.inputMap)
    => /\ Corresponds(answers["http"].code, answers["grpc"].code)
       /\ answers["http"].body = answers["grpc"].body
       /\ answers["http"].value = answers["grpc"].value

\* Whatever else is wrong with a request, a server without a model never
\* predicts, and says so over gRPC; over HTTP it says so only of requests it
\* found nothing else wrong with (grpc_service.rs:119, http.rs:240).
NoModelNoPrediction ==
    stage = "answered" /\ ~server.loadable =>
        /\ answers["grpc"].code = "internal"
        /\ answers["http"].code # "ok"

\* The records of the client reach the model one by one, each as a row of its
\* own: vectors, or rows of which none passes for a header.
SentOneByOne ==
    IF Mapped
    THEN /\ WritesRecords(contentType) /\ request.records # <<>>
         /\ \A key \in DOMAIN cfg.inputMap : HasColumn(request.records, key) /\ Vectors(request.records, key)
    ELSE /\ \E type \in {"csv", "json", "jsonl"} : WrittenAs(type)
         /\ ~FirstRowLost /\ request.matrix # <<>>

\* What output o is for a row that is predicted alone.
Alone(o, row) == Only(Infer(server.model, <<row>>))[o].data[1]

\* Each output of the model has an element per row, the same that it has for
\* the row alone.
RowByRow(x) ==
    \A outs \in Infer(server.model, x) : \A o \in DOMAIN outs :
        outs[o].shape = <<Len(x)>> /\ outs[o].data = [i \in DOMAIN x |-> Alone(o, x[i])]

\* Batching changes nothing: with a model that predicts row by row, the
\* answer to a request has one item per record, in their order, each the
\* prediction that the record would get in a request of its own, and the batch
\* size that gRPC reports is their number (http.rs:171, grpc_service.rs:145).
PredictionsBelongToRecords ==
    stage = "ok" /\ SentOneByOne /\ RowByRow(rows) =>
        /\ IF Mapped THEN \E key \in DOMAIN cfg.inputMap : RowsAre(request.records, key)
           ELSE IsMeant(rows, request.matrix)
        /\ batch = Len(rows)
        /\ \A key \in DOMAIN value :
              LET o == Chosen(Len(outputs))[key] + 1
              IN  ItemsOf(key) = [i \in DOMAIN rows |-> Elements(<<Alone(o, rows[i])>>)]

\* "Media type determines decoder path" (docs/openapi.yaml:122, for the types
\* listed at :134-182): a body of rows in one of these is not refused as
\* malformed.
DocumentedTypesDecoded ==
    contentType = "binary" /\ request.matrix # <<>> => stage # "malformed"
=============================================================================
