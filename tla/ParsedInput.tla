------------------------------ MODULE ParsedInput ------------------------------
(***************************************************************************)
(* From ParsedInput to the input tensor of the model, for both kinds of     *)
(* input (ParsedInput::batch_size, the record limit, and the adapter's      *)
(* parsed_input_to_rows and rows_to_tensor):                                *)
(*                                                                          *)
(*   batch (-> ensure) -> rows -> tensor -> predict                         *)
(***************************************************************************)
EXTENDS Prediction

ASSUME RecordLimitAssumption == \A s \in Servers : s.cfg.maxRecords \in Nat

\* ParsedInput::batch_size: the number of rows or, if there are tensors, the one
\* length they all have.
BatchSize(x, ts) ==
    LET sizes == {Len(ts[name]) : name \in DOMAIN ts}
    IN  IF DOMAIN ts = {} THEN Ok(Len(x))
        ELSE IF 0 \in sizes \/ \E m, n \in sizes : m # n THEN Err
        ELSE sizes

Sized(size) ==
    /\ batch' = size
    /\ Advance(AfterBatch) /\ UNCHANGED <<rows, tensors, outputVars>>

\* Fault: the limit is compared with the rows, which tensors have not made yet.
CheckBatchOfRows ==
    /\ stage = "batch"
    /\ IF BatchSize(rows, tensors) = Err THEN Goto("malformed")
       ELSE IF Len(rows) > cfg.maxRecords THEN Goto("too_many")
       ELSE Sized(Only(BatchSize(rows, tensors)))

CheckBatch ==
    /\ stage = "batch"
    /\ IF BatchSize(rows, tensors) = Err THEN Goto("malformed")
       ELSE IF Only(BatchSize(rows, tensors)) > cfg.maxRecords THEN Goto("too_many")
       ELSE Sized(Only(BatchSize(rows, tensors)))

\* Fault: a model with several inputs is fed one of them.
RowsOfAnyTensor(x, ts) ==
    IF DOMAIN ts = {} THEN Ok(x)
    ELSE ValueToNumericRows(Array(ts[CHOOSE name \in DOMAIN ts : TRUE]))

\* The adapter takes a single tensor.
ParsedInputToRows(x, ts) ==
    IF DOMAIN ts = {} THEN Ok(x)
    ELSE IF \E name \in DOMAIN ts : DOMAIN ts = {name}
    THEN ValueToNumericRows(Array(ts[Only(DOMAIN ts)]))
    ELSE Err

ToRows ==
    /\ stage = "rows"
    /\ IF ParsedInputToRows(rows, tensors) = Err THEN Goto("rejected")
       ELSE /\ rows' = Only(ParsedInputToRows(rows, tensors))
            /\ Advance("tensor") /\ UNCHANGED <<tensors, batch, outputVars>>

\* Some row, and all rows of the first one's length.
TensorShaped(m) == m # <<>> /\ Rectangular(m)

RowsToTensor ==
    /\ stage = "tensor"
    /\ IF TensorShaped(rows) THEN Goto("predict") ELSE Goto("rejected")

ParsedInputStep == CheckBatch \/ ToRows \/ RowsToTensor
-----------------------------------------------------------------------------
\* The record limit, checked on a batch size, bounds the rows the model gets
\* although these are counted elsewhere: there are as many as records, or one
\* row of bare numbers for all of them (http.rs:161, input.rs:23, adapter.rs:76).
LimitBoundsTheModel ==
    stage = "predict" =>
        /\ Len(rows) = batch \/ (Mapped /\ Len(rows) = 1)
        /\ batch \in 1..cfg.maxRecords
=============================================================================
