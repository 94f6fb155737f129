------------------------------ MODULE MediaTypes ------------------------------
(***************************************************************************)
(* The media types that hold for a request (resolve_request_media_types,    *)
(* strip_content_type_params, normalized_accept and the defaults of the     *)
(* gRPC handler).                                                           *)
(*                                                                          *)
(* A media text has the fields                                              *)
(*   essence  "csv", "json" or "jsonl" if it is one of the types listed for *)
(*            them, whatever its case; "binary" for a type the API document *)
(*            lists and the code does not; "other"; "" if it is empty       *)
(*   params   whether parameters follow, as in "text/csv; charset=utf-8"    *)
(*   more     whether a comma and further types follow                      *)
(* What a client states is a record: over HTTP the text of the header and of *)
(* its x-amzn-sagemaker- double, each as the set of its text, {} if the      *)
(* header is not there or is not readable (to_str); over gRPC, field.        *)
(***************************************************************************)
EXTENDS Prediction

NoText == [essence |-> "", params |-> FALSE, more |-> FALSE]

\* Fault: the double is looked at first.
DoubleFirst(stated, default) ==
    IF stated.double # {} THEN Only(stated.double)
    ELSE IF stated.header # {} THEN Only(stated.header)
    ELSE default

HeaderValueWithFallback(stated, default) ==
    IF stated.header # {} THEN Only(stated.header)
    ELSE IF stated.double # {} THEN Only(stated.double)
    ELSE default

\* proto3 does not tell an empty field from one that was not sent.
FieldOrDefault(stated, default) ==
    IF stated.field = NoText THEN default ELSE stated.field

MediaText(stated, default) ==
    IF protocol = "http" THEN HeaderValueWithFallback(stated, default)
    ELSE FieldOrDefault(stated, default)

\* Up to the first semicolon, all of it; up to the first comma, with its
\* parameters, which no known type has.
StripContentTypeParams(text) ==
    IF text.more /\ ~text.params THEN "other" ELSE text.essence
NormalizedAccept(text) == IF text.params THEN "other" ELSE text.essence

ResolveMediaTypes ==
    /\ stage = "media"
    /\ contentType' = StripContentTypeParams(MediaText(request.contentType, cfg.defaultContentType))
    /\ accept' = NormalizedAccept(MediaText(request.accept, cfg.defaultAccept))
    /\ stage' = AfterMedia
    /\ UNCHANGED <<sessionVars, inputVars, outputVars>>
=============================================================================
