------------------------------ MODULE InputProofs ------------------------------
(***************************************************************************)
(* From the body to the rows of the model: what the decoders and the        *)
(* feature selection make of any body is a sequence of rows of numbers, the *)
(* columns they select are columns of the first row, the record limit,      *)
(* checked on the batch size, bounds the rows, and vectors listed in        *)
(* records reach the model as they are.                                     *)
(***************************************************************************)
EXTENDS InvocationProofs
-----------------------------------------------------------------------------
(* The types of the variables.                                               *)

TypedInv ==
    /\ server \in Servers
    /\ stage # "idle" => request \in Requests(server)
    /\ rows \in Matrices
    /\ \A name \in DOMAIN tensors : tensors[name] \in Seq(Values)
    /\ stage = "select" => rows # <<>>

LEMMA BodyType ==
    ASSUME TypedInv, stage # "idle"
    PROVE  request.lines \in Seq(Seq(Values)) /\ request.docs \in Seq(Values)
  BY RequestAssumption DEF TypedInv

LEMMA TypedInit == Init => TypedInv
  <1>1. <<>> \in Matrices
    BY EmptySeq DEF Matrices
  <1>2. DOMAIN NoTensors = {}
    BY DEF NoTensors
  <1> QED BY <1>1, <1>2 DEF Init, TypedInv

\* A step that leaves the rows and the tensors alone, or drops them.
LEMMA TypedElsewhere ==
    ASSUME TypedInv, UNCHANGED server, stage' # "select",
           stage' # "idle" => request' \in Requests(server),
           UNCHANGED <<rows, tensors>> \/ (rows' = <<>> /\ tensors' = NoTensors)
    PROVE  TypedInv'
  <1>1. <<>> \in Matrices
    BY EmptySeq DEF Matrices
  <1> QED BY <1>1 DEF TypedInv, NoTensors

LEMMA DecodeTyped == ASSUME TypedInv, Decode PROVE TypedInv'
  <1>1. stage = "decode" /\ UNCHANGED <<server, request, tensors>> /\ stage' \notin {"select", "idle"}
    BY DEF Decode, Goto, Advance, sessionVars, inputVars
  <1>2. CASE ParseTabularMatrix(contentType) = Err
    <2>1. UNCHANGED rows
      BY <1>2 DEF Decode, Goto, inputVars
    <2> QED BY <1>1, <2>1, TypedElsewhere DEF TypedInv
  <1>3. CASE ParseTabularMatrix(contentType) # Err
    <2>1. rows' = Only(ParseTabularMatrix(contentType))
      BY <1>3 DEF Decode
    <2>2. rows' \in Matrices
      BY <1>1, <1>3, <2>1, BodyType, DecodedType
    <2> QED BY <1>1, <2>2 DEF TypedInv
  <1> QED BY <1>2, <1>3

LEMMA SelectTyped == ASSUME TypedInv, Select PROVE TypedInv'
  <1>1. stage = "select" /\ UNCHANGED <<server, request, tensors>> /\ stage' \notin {"select", "idle"}
    BY DEF Select, Goto, Advance, sessionVars, inputVars
  <1>2. CASE UNCHANGED rows
    BY <1>1, <1>2, TypedElsewhere DEF TypedInv
  <1>3. CASE rows' = Selected(rows) /\ FeatureIdx(Len(rows[1])) # Err /\ Reaches(rows)
    <2>1. rows' \in Matrices
      BY <1>1, <1>3, SelectedType DEF TypedInv
    <2> QED BY <1>1, <2>1 DEF TypedInv
  <1> QED BY <1>2, <1>3 DEF Select, Goto, inputVars

LEMMA ParseMultiInputTyped == ASSUME TypedInv, ParseMultiInput PROVE TypedInv'
  <1>1. stage = "records" /\ UNCHANGED <<server, request, rows>> /\ stage' \notin {"select", "idle"}
    BY DEF ParseMultiInput, BuildTensors, Built, Goto, Advance, sessionVars, inputVars
  <1>2. CASE UNCHANGED tensors
    BY <1>1, <1>2, TypedElsewhere DEF TypedInv
  <1>3. CASE ~ UNCHANGED tensors
    <2> DEFINE found   == LoadMultiInputRecords(contentType)
               records == Only(found)
    <2>1. records \in found /\ BuildTensors(records)
      BY <1>3 DEF ParseMultiInput, Goto, inputVars, Only, Err
    <2> HIDE DEF found, records
    <2>2. PICK last \in [InputNames -> DOMAIN cfg.inputMap] :
              tensors' = [name \in InputNames |-> Column(records, last[name])]
      BY <1>3, <2>1 DEF BuildTensors, Built, Goto, inputVars
    <2>3. HasColumns(records)
      BY <1>3, <2>1 DEF BuildTensors, Goto, inputVars
    <2>4. ASSUME NEW name \in InputNames PROVE Column(records, last[name]) \in Seq(Values)
      BY <1>1, <2>1, <2>3, BodyType, ColumnType DEF HasColumns, found
    <2>5. \A name \in DOMAIN tensors' : tensors'[name] \in Seq(Values)
      BY <2>2, <2>4
    <2> QED BY <1>1, <2>5 DEF TypedInv
  <1> QED BY <1>2, <1>3

LEMMA ToRowsTyped == ASSUME TypedInv, ToRows PROVE TypedInv'
  <1>1. stage = "rows" /\ UNCHANGED <<server, request, tensors>> /\ stage' \notin {"select", "idle"}
    BY DEF ToRows, Goto, Advance, sessionVars, inputVars
  <1>2. CASE UNCHANGED rows
    BY <1>1, <1>2, TypedElsewhere DEF TypedInv
  <1>3. CASE rows' # rows
    <2>1. DOMAIN tensors # {} /\ rows' \in ParsedInputToRows(rows, tensors)
      BY <1>3 DEF ToRows, Goto, inputVars, Only, Err, ParsedInputToRows, Ok
    <2>2. PICK name \in DOMAIN tensors : DOMAIN tensors = {name}
      BY <2>1 DEF ParsedInputToRows, Err
    <2>3. rows' \in ValueToNumericRows(Array(tensors[name]))
      BY <2>1, <2>2 DEF ParsedInputToRows, Only
    <2>4. tensors[name] \in Seq(Values)
      BY DEF TypedInv
    <2>5. rows' \in Matrices
      BY <2>3, <2>4, NumericRowsType DEF Array
    <2> QED BY <1>1, <2>5 DEF TypedInv
  <1> QED BY <1>2, <1>3

LEMMA TypedStep == TypedInv /\ [Next]_vars => TypedInv'
  <1> SUFFICES ASSUME TypedInv, [Next]_vars PROVE TypedInv'
    OBVIOUS
  <1>1. CASE Send
    BY <1>1, TypedElsewhere DEF Send, inputVars
  <1>2. CASE RefuseLoadError \/ CheckSize \/ AcquirePermit \/ ResolveMediaTypes \/ Ensure \/ Dispatch
    <2>1. /\ UNCHANGED <<server, request, rows, tensors>> /\ stage # "idle"
          /\ stage' \notin {"select", "idle"}
      BY <1>2
      DEF RefuseLoadError, CheckSize, AcquirePermit, ResolveMediaTypes, Ensure, Dispatch, Goto,
          sessionVars, inputVars, AfterMedia, AfterEnsure
    <2> QED BY <2>1, TypedElsewhere DEF TypedInv
  <1>3. CASE CheckShape
    BY <1>3 DEF CheckShape, Goto, sessionVars, inputVars, TypedInv, ValidShape
  <1>4. CASE CheckBatch \/ RowsToTensor \/ Run \/ OutputStep
    <2>1. /\ UNCHANGED <<server, request, rows, tensors>> /\ stage # "idle"
          /\ stage' \notin {"select", "idle"}
      BY <1>4
      DEF CheckBatch, Sized, AfterBatch, RowsToTensor, Run, OutputStep, Choose, Format, Goto,
          Advance, sessionVars, inputVars
    <2> QED BY <2>1, TypedElsewhere DEF TypedInv
  <1>5. CASE ReplyHttp \/ ReplyGrpc \/ NextRequest
    BY <1>5, TypedElsewhere
    DEF ReplyHttp, ReplyGrpc, Reply, Dropped, NextRequest, Outcomes, Refusals, inputVars, TypedInv
  <1>6. CASE UNCHANGED vars
    BY <1>6 DEF vars, sessionVars, inputVars, TypedInv
  <1> QED
    BY <1>1, <1>2, <1>3, <1>4, <1>5, <1>6, DecodeTyped, SelectTyped, ParseMultiInputTyped, ToRowsTyped
    DEF Next, HandlerStep, TabularStep, ParsedInputStep

\* Everything that is read of a body is made of its values: the rows hold
\* numbers of the body only, the tensors values of its records.
THEOREM RowsOfNumbers == Spec => []TypedInv
  BY TypedInit, TypedStep, PTL DEF Spec
-----------------------------------------------------------------------------
(* Panics.                                                                   *)

LEMMA PanicStep ==
    ASSUME TypedInv, PanicsOnlyPastTheRow, [Next]_vars PROVE PanicsOnlyPastTheRow'
  <1>1. CASE stage' # "panics"
    BY <1>1 DEF PanicsOnlyPastTheRow
  <1>2. CASE stage' = "panics" /\ AcquirePermit
    BY <1>2 DEF AcquirePermit, Goto, sessionVars, PanicsOnlyPastTheRow, cfg
  <1>3. CASE stage' = "panics" /\ Select
    <2>1. /\ stage = "select" /\ UNCHANGED <<server, rows>>
          /\ FeatureIdx(Len(rows[1])) # Err /\ ~Reaches(rows)
      BY <1>3 DEF Select, Goto, Advance, sessionVars, inputVars
    <2>2. \E i \in DOMAIN rows :
              IF cfg.features.kind = "list"
              THEN \E col \in ToSet(cfg.features.list) : col >= Len(rows[i])
              ELSE Len(rows[i]) < Len(rows[1])
      BY <2>1, SelectPanics DEF TypedInv
    <2> QED BY <2>1, <2>2 DEF PanicsOnlyPastTheRow, cfg
  <1>4. CASE stage' = "panics" /\ UNCHANGED vars
    BY <1>4 DEF vars, sessionVars, inputVars, PanicsOnlyPastTheRow, cfg
  <1>5. stage' = "panics" => AcquirePermit \/ Select \/ UNCHANGED vars
    <2>1. CASE Send \/ NextRequest \/ ReplyHttp \/ ReplyGrpc
      BY <2>1 DEF Send, NextRequest, ReplyHttp, ReplyGrpc
    <2>2. CASE RefuseLoadError \/ CheckSize \/ ResolveMediaTypes \/ Ensure \/ Dispatch \/ Decode \/ CheckShape
      BY <2>2
      DEF RefuseLoadError, CheckSize, ResolveMediaTypes, Ensure, Dispatch, Decode, CheckShape,
          Goto, Advance, AfterMedia, AfterEnsure
    <2>3. CASE ParseMultiInput \/ ParsedInputStep \/ Run \/ OutputStep
      BY <2>3
      DEF ParseMultiInput, BuildTensors, Built, ParsedInputStep, CheckBatch, Sized, AfterBatch,
          ToRows, RowsToTensor, Run, OutputStep, Choose, Format, Goto, Advance
    <2> QED BY <2>1, <2>2, <2>3 DEF Next, HandlerStep, TabularStep
  <1> QED BY <1>1, <1>2, <1>3, <1>4, <1>5

\* A handler panics only for a row that lacks a column which a feature list
\* names or that is shorter than the first row, whatever the body holds and
\* the slices and id columns are (input.rs:109).
THEOREM PanicsPastTheRow == Spec => []PanicsOnlyPastTheRow
  <1>1. Init => PanicsOnlyPastTheRow
    BY DEF Init, PanicsOnlyPastTheRow
  <1> QED BY <1>1, TypedInit, TypedStep, PanicStep, PTL DEF Spec
-----------------------------------------------------------------------------
(* The record limit.                                                         *)

\* Once the batch size is known it is what the rows and the tensors still say,
\* and within the limit; rows made of a tensor are as many, or one.
LimitInv ==
    /\ stage = "records" => Mapped
    /\ HoldsTensors /\ DOMAIN tensors # {} => Mapped
    /\ HoldsTensors /\ stage # "batch" =>
          BatchSize(rows, tensors) = Ok(batch) /\ batch \in 0..cfg.maxRecords
    /\ HoldsRows => /\ batch \in 0..cfg.maxRecords
                    /\ \/ Len(rows) = batch
                       \/ Mapped /\ Len(rows) = 1 /\ batch # 0
    /\ stage = "predict" => rows # <<>>

LEMMA LimitInit == Init => LimitInv
  BY DEF Init, LimitInv, HoldsTensors, HoldsRows

LEMMA LimitElsewhere ==
    ASSUME stage' \notin {"records", "batch", "rows"}, ~HoldsRows',
           stage' = "ensure" => protocol' = "grpc"
    PROVE  LimitInv'
  BY DEF LimitInv, HoldsTensors, HoldsRows

\* A batch size is a number, and not 0 if there are tensors.
LEMMA BatchSizeType ==
    ASSUME NEW x \in Matrices, NEW ts, \A name \in DOMAIN ts : ts[name] \in Seq(Values),
           NEW size \in BatchSize(x, ts)
    PROVE  /\ size \in Nat
           /\ BatchSize(x, ts) = {size}
           /\ IF DOMAIN ts = {} THEN size = Len(x)
              ELSE size # 0 /\ \A name \in DOMAIN ts : size = Len(ts[name])
  <1> DEFINE sizes == {Len(ts[name]) : name \in DOMAIN ts}
  <1>1. Len(x) \in Nat /\ \A name \in DOMAIN ts : Len(ts[name]) \in Nat
    BY LenProperties DEF Matrices
  <1>2. CASE DOMAIN ts = {}
    BY <1>1, <1>2 DEF BatchSize, Ok
  <1>3. CASE DOMAIN ts # {}
    <2>1. BatchSize(x, ts) = sizes /\ 0 \notin sizes /\ \A m, n \in sizes : m = n
      BY <1>3 DEF BatchSize, Err
    <2>2. size \in sizes
      BY <2>1
    <2>3. sizes = {size}
      BY <2>1, <2>2
    <2> QED BY <1>1, <1>3, <2>1, <2>2, <2>3
  <1> QED BY <1>2, <1>3

LEMMA BatchStaysTheSame ==
    ASSUME UNCHANGED <<rows, tensors>>
    PROVE  BatchSize(rows, tensors)' = BatchSize(rows, tensors)
  BY DEF BatchSize

LEMMA CheckBatchLimits == ASSUME TypedInv, LimitInv, CheckBatch PROVE LimitInv'
  <1>1. stage = "batch" /\ UNCHANGED <<server, protocol, contentType, rows, tensors>>
    BY DEF CheckBatch, Sized, Goto, Advance, sessionVars, mediaVars, inputVars
  <1>2. CASE stage' \in {"malformed", "too_many"}
    BY <1>2, LimitElsewhere DEF HoldsRows
  <1>3. CASE stage' = AfterBatch
    <2> DEFINE size == Only(BatchSize(rows, tensors))
    <2>1. BatchSize(rows, tensors) # Err /\ ~(size > cfg.maxRecords) /\ batch' = size
      BY <1>3 DEF CheckBatch, Sized, Goto, AfterBatch
    <2>2. size \in BatchSize(rows, tensors)
      BY <2>1 DEF Only, Err
    <2> HIDE DEF size
    <2>3. size \in Nat /\ BatchSize(rows, tensors) = {size}
      BY <2>2, BatchSizeType DEF TypedInv
    <2>4. cfg.maxRecords \in Nat
      BY RecordLimitAssumption DEF TypedInv, cfg
    <2>5. BatchSize(rows, tensors)' = Ok(batch') /\ batch' \in 0..cfg.maxRecords
      BY <1>1, <2>1, <2>3, <2>4, BatchStaysTheSame DEF Ok
    <2>6. DOMAIN tensors # {} => Mapped'
      BY <1>1, MappedStays DEF LimitInv, HoldsTensors
    <2>7. stage' \in {"ensure", "rows"}
      BY <1>3 DEF AfterBatch
    <2> QED BY <1>1, <2>5, <2>6, <2>7 DEF LimitInv, HoldsTensors, HoldsRows, cfg
  <1> QED BY <1>2, <1>3 DEF CheckBatch, Sized, Goto, Advance

LEMMA ToRowsLimits == ASSUME TypedInv, LimitInv, ToRows PROVE LimitInv'
  <1>1. stage = "rows" /\ UNCHANGED <<server, contentType, tensors, batch>>
    BY DEF ToRows, Goto, Advance, sessionVars, mediaVars, inputVars
  <1>2. /\ BatchSize(rows, tensors) = {batch} /\ batch \in 0..cfg.maxRecords
        /\ DOMAIN tensors # {} => Mapped
    BY <1>1 DEF LimitInv, HoldsTensors, Ok
  <1>3. CASE stage' = "rejected"
    BY <1>3, LimitElsewhere DEF HoldsRows
  <1>4. CASE stage' = "tensor"
    <2>1. rows' \in ParsedInputToRows(rows, tensors)
      BY <1>4 DEF ToRows, Goto, Only, Err
    <2>2. CASE DOMAIN tensors = {}
      <3>1. rows' = rows
        BY <2>1, <2>2 DEF ParsedInputToRows, Ok
      <3>2. batch = Len(rows)
        BY <1>2, <2>2, BatchSizeType DEF TypedInv
      <3> QED BY <1>1, <1>2, <1>4, <3>1, <3>2 DEF LimitInv, HoldsTensors, HoldsRows, cfg
    <2>3. CASE DOMAIN tensors # {}
      <3>1. PICK name \in DOMAIN tensors : DOMAIN tensors = {name}
        BY <2>1, <2>3 DEF ParsedInputToRows, Err
      <3>2. rows' \in ValueToNumericRows(Array(tensors[name]))
        BY <2>1, <3>1 DEF ParsedInputToRows, Only
      <3>3. tensors[name] \in Seq(Values)
        BY DEF TypedInv
      <3>4. Len(rows') \in {1, Len(tensors[name])}
        BY <3>2, <3>3, NumericRowsType DEF Array
      <3>5. batch # 0 /\ batch = Len(tensors[name])
        BY <1>2, <2>3, BatchSizeType DEF TypedInv
      <3>6. Mapped'
        BY <1>1, <1>2, <2>3, MappedStays
      <3> QED BY <1>1, <1>2, <1>4, <3>4, <3>5, <3>6 DEF LimitInv, HoldsTensors, HoldsRows, cfg
    <2> QED BY <2>2, <2>3
  <1> QED BY <1>3, <1>4 DEF ToRows, Goto, Advance

\* Steps before the batch size is known.
LEMMA ParseLimits == ASSUME NothingLeft, LimitInv, ParseStep PROVE LimitInv'
  <1>0. CASE stage' = "records"
    <2>1. Mapped /\ UNCHANGED <<server, contentType>>
      BY <1>0
      DEF ParseStep, Dispatch, TabularStep, Decode, CheckShape, Select, ParseMultiInput,
          BuildTensors, Built, Goto, Advance, sessionVars, mediaVars
    <2> QED BY <1>0, <2>1, MappedStays DEF LimitInv, HoldsTensors, HoldsRows
  <1>1. CASE stage' \notin {"records", "batch"}
    BY <1>1, LimitElsewhere
    DEF ParseStep, Dispatch, TabularStep, Decode, CheckShape, Select, ParseMultiInput,
        BuildTensors, Built, Goto, Advance, HoldsRows
  <1>2. CASE stage' = "batch" /\ Select
    <2>1. tensors' = NoTensors
      BY <1>2 DEF Select, Goto, Advance, inputVars, NothingLeft
    <2>2. DOMAIN NoTensors = {}
      BY DEF NoTensors
    <2> QED BY <1>2, <2>1, <2>2 DEF LimitInv, HoldsRows
  <1>3. CASE stage' = "batch" /\ ParseMultiInput
    <2>1. Mapped /\ UNCHANGED <<server, contentType>>
      BY <1>3
      DEF ParseMultiInput, BuildTensors, Built, Goto, Advance, sessionVars, mediaVars, LimitInv
    <2> QED BY <1>3, <2>1, MappedStays DEF LimitInv, HoldsRows
  <1> QED
    BY <1>0, <1>1, <1>2, <1>3 DEF ParseStep, Dispatch, TabularStep, Decode, CheckShape, Goto, Advance

LEMMA LimitStep ==
    ASSUME NothingLeft, TypedInv, LimitInv, [Next]_vars PROVE LimitInv'
  <1>1. CASE Send \/ NextRequest \/ ReplyHttp \/ ReplyGrpc
    BY <1>1, LimitElsewhere DEF Send, NextRequest, ReplyHttp, ReplyGrpc, HoldsRows
  <1>2. CASE RefuseLoadError \/ CheckSize \/ AcquirePermit \/ ResolveMediaTypes
    BY <1>2, LimitElsewhere
    DEF RefuseLoadError, CheckSize, AcquirePermit, ResolveMediaTypes, Goto, sessionVars, AfterMedia,
        NothingLeft, Protocols, HoldsRows
  <1>3. CASE Ensure
    <2>1. CASE stage' # "rows"
      BY <1>3, <2>1, LimitElsewhere DEF Ensure, Goto, sessionVars, AfterEnsure, HoldsRows
    <2>2. CASE stage' = "rows"
      <3>1. /\ HoldsTensors /\ stage # "batch"
            /\ UNCHANGED <<server, contentType, rows, tensors, batch>>
        BY <1>3, <2>2 DEF Ensure, Goto, AfterEnsure, HoldsTensors, sessionVars, mediaVars, inputVars
      <3> QED BY <2>2, <3>1, BatchStaysTheSame, MappedStays DEF LimitInv, HoldsRows, Ok, cfg
    <2> QED BY <2>1, <2>2
  <1>4. CASE ParseStep
    BY <1>4, ParseLimits
  <1>5. CASE CheckBatch \/ ToRows
    BY <1>5, CheckBatchLimits, ToRowsLimits
  <1>6. CASE RowsToTensor
    <2>1. CASE stage' = "rejected"
      BY <2>1, LimitElsewhere DEF HoldsRows
    <2>2. CASE stage' = "predict"
      <3>1. /\ stage = "tensor" /\ TensorShaped(rows)
            /\ UNCHANGED <<server, contentType, rows, tensors, batch>>
        BY <1>6, <2>2 DEF RowsToTensor, Goto, sessionVars, mediaVars, inputVars
      <3> QED BY <2>2, <3>1, MappedStays DEF LimitInv, HoldsTensors, HoldsRows, TensorShaped, cfg
    <2> QED BY <1>6, <2>1, <2>2 DEF RowsToTensor, Goto
  <1>7. CASE Run \/ OutputStep
    <2>1. UNCHANGED <<server, contentType, rows, batch>>
      BY <1>7 DEF Run, OutputStep, Choose, Format, Goto, Advance, sessionVars, mediaVars, inputVars
    <2> QED
      BY <1>7, <2>1, LimitElsewhere, MappedStays
      DEF Run, OutputStep, Choose, Format, Goto, Advance, LimitInv, HoldsTensors, HoldsRows, cfg
  <1>8. CASE UNCHANGED vars
    <2>1. UNCHANGED <<server, stage, protocol, contentType, rows, tensors, batch>>
      BY <1>8 DEF vars, sessionVars, mediaVars, inputVars
    <2> QED BY <2>1, BatchStaysTheSame, MappedStays DEF LimitInv, HoldsTensors, HoldsRows, Ok, cfg
  <1> QED
    BY <1>1, <1>2, <1>3, <1>4, <1>5, <1>6, <1>7, <1>8, HandlerCases DEF Next, ParsedInputStep

LEMMA LimitBoundsRows == TypedInv /\ LimitInv => LimitBoundsTheModel
  <1> SUFFICES ASSUME TypedInv, LimitInv, stage = "predict"
               PROVE  /\ Len(rows) = batch \/ (Mapped /\ Len(rows) = 1)
                      /\ batch \in 1..cfg.maxRecords
    BY DEF LimitBoundsTheModel
  <1>1. cfg.maxRecords \in Nat
    BY RecordLimitAssumption DEF TypedInv, cfg
  <1>2. Len(rows) \in Nat \ {0}
    BY EmptySeq DEF TypedInv, LimitInv, Matrices
  <1>3. /\ batch \in 0..cfg.maxRecords
        /\ Len(rows) = batch \/ (Mapped /\ Len(rows) = 1 /\ batch # 0)
    BY DEF LimitInv, HoldsRows
  <1> QED BY <1>1, <1>2, <1>3

\* The limit, which is checked on the batch size before there are rows of the
\* model, bounds these rows: they are as many as the records that were counted,
\* or a single one that holds a number of each (http.rs:161, adapter.rs:76).
THEOREM LimitBoundsRowsOfModel == Spec => []LimitBoundsTheModel
  <1>1. TypedInv /\ LimitInv => LimitBoundsTheModel
    BY LimitBoundsRows
  <1> QED
    BY <1>1, NothingLeftInit, NothingLeftStep, TypedInit, TypedStep, LimitInit,
       LimitStep, PTL DEF Spec
-----------------------------------------------------------------------------
\* The steps of a request before its media types are settled.
Untyped == stage \in {"idle", "arrived", "permit", "media", "answered"}
-----------------------------------------------------------------------------
(* Records.                                                                  *)

\* What VectorsAccepted asks of a request.
VectorsSent ==
    /\ Mapped /\ ValidInputMode
    /\ WritesRecords(contentType) /\ request.records # <<>>
    /\ \A key \in DOMAIN cfg.inputMap :
          /\ HasColumn(request.records, key)
          /\ Vectors(request.records, key) /\ SameLength(request.records, key)

\* Records that a body lists are what the decoder finds in it.
LEMMA RecordsAreRead ==
    ASSUME request.docs \in Seq(Values), NEW S, request.records \in Seq(S),
           request.records # <<>>, NEW type, WritesRecords(type)
    PROVE  LoadMultiInputRecords(type) = Ok(request.records)
  <1> DEFINE R == request.records
             docs == request.docs
             objects == [i \in DOMAIN R |-> Object(R[i])]
  <1>1. Len(R) \in Nat /\ DOMAIN R = 1..Len(R) /\ R = [i \in DOMAIN R |-> R[i]]
    OBVIOUS
  <1>2. DOMAIN objects = DOMAIN R /\ \A i \in DOMAIN R : objects[i] = Object(R[i])
    OBVIOUS
  <1>3. /\ \/ type = "jsonl" /\ docs = objects
           \/ /\ type = "json" /\ Len(docs) = 1
              /\ \/ docs[1] = Array(objects)
                 \/ HasField(docs[1], "instances") /\ docs[1].fields["instances"] = Array(objects)
                 \/ docs = objects /\ ~HasField(docs[1], "instances")
    BY DEF WritesRecords
  <1> HIDE DEF objects, R, docs
  <1>4. AllObjects(objects)
    BY <1>2 DEF AllObjects, Object
  <1>5. Fields(objects) = R
    <2>1. Fields(objects) = [i \in DOMAIN R |-> R[i]]
      BY <1>2 DEF Fields, Object
    <2> QED BY <1>1, <2>1
  <1>6. CASE type = "jsonl"
    <2>1. docs = objects
      BY <1>3, <1>6
    <2>2. LoadMultiInputRecords(type) = ParseJsonlRecords(docs)
      BY <1>6 DEF LoadMultiInputRecords, docs
    <2> QED BY <1>4, <1>5, <2>1, <2>2 DEF ParseJsonlRecords, R
  <1>7. CASE type = "json"
    <2> DEFINE scoped == RecordsField(docs[1])
    <2>1. Len(docs) = 1
      BY <1>3, <1>7
    <2>2. LoadMultiInputRecords(type) = RecordsOf(scoped)
      BY <1>7, <2>1 DEF LoadMultiInputRecords, ParseJsonRecords, docs
    <2>3. CASE scoped = Array(objects)
      <3>1. scoped.type = "array" /\ scoped.items = objects
        BY <2>3 DEF Array
      <3> HIDE DEF scoped
      <3> QED BY <1>4, <1>5, <2>2, <3>1 DEF RecordsOf, R
    <2>4. CASE docs = objects /\ ~HasField(docs[1], "instances")
      <3>1. DOMAIN docs = 1..1
        BY <2>1 DEF docs
      <3>2. Len(R) = 1
        <4>1. PICK n \in Nat : n = Len(R)
          BY <1>1
        <4>2. 1..n = 1..1
          BY <1>1, <1>2, <2>4, <3>1, <4>1
        <4>3. 1 \in 1..n /\ 2 \notin 1..n
          BY <4>2
        <4> QED BY <4>1, <4>3
      <3>3. docs[1] = Object(R[1])
        BY <1>2, <2>4, <3>1
      <3>4. scoped = Object(R[1])
        BY <2>4, <3>3 DEF RecordsField
      <3>5. scoped.type = "object" /\ scoped.fields = R[1]
        BY <3>4 DEF Object
      <3>6. R = <<R[1]>>
        BY <3>2 DEF R
      <3> HIDE DEF scoped
      <3> QED BY <2>2, <3>5, <3>6 DEF RecordsOf, R
    <2>5. docs[1] = Array(objects) => scoped = Array(objects)
      BY DEF RecordsField, HasField, Array
    <2>6. HasField(docs[1], "instances") /\ docs[1].fields["instances"] = Array(objects)
              => scoped = Array(objects)
      BY DEF RecordsField
    <2> HIDE DEF scoped
    <2> QED BY <1>3, <1>7, <2>3, <2>4, <2>5, <2>6
  <1> QED BY <1>3, <1>6, <1>7

\* Vectors under a key become a row each.
LEMMA VectorsAreRead ==
    ASSUME NEW S, NEW records \in Seq(S), records # <<>>, NEW key, Vectors(records, key)
    PROVE  ValueToNumericRows(Array(Column(records, key)))
               = Ok([i \in DOMAIN records |-> Numbers(records[i][key].items)])
  <1> DEFINE v == Array(Column(records, key))
  <1>1. v.type = "array" /\ v.items = Column(records, key)
    BY DEF Array
  <1>2. DOMAIN v.items = DOMAIN records /\ \A i \in DOMAIN records : v.items[i] = records[i][key]
    BY <1>1 DEF Column
  <1>3. 1 \in DOMAIN records
    BY EmptySeq
  <1> HIDE DEF v
  <1>4. v.items # <<>>
    <2>1. DOMAIN <<>> = {}
      OBVIOUS
    <2> QED BY <1>2, <1>3, <2>1
  <1>5. \A i \in DOMAIN v.items : v.items[i].type = "array" /\ AllNumbers(v.items[i].items)
    BY <1>2 DEF Vectors
  <1>6. IsMatrix(v)
    BY <1>1, <1>2, <1>3, <1>4, <1>5 DEF IsMatrix
  <1>7. ValueToNumericRows(v) = Ok([i \in DOMAIN v.items |-> Numbers(v.items[i].items)])
    BY <1>1, <1>5, <1>6 DEF ValueToNumericRows
  <1>8. [i \in DOMAIN v.items |-> Numbers(v.items[i].items)]
            = [i \in DOMAIN records |-> Numbers(records[i][key].items)]
    BY <1>2
  <1> QED BY <1>7, <1>8 DEF v

\* The tensors hold the vectors of the client's records.
HoldsVectors ==
    \E last \in [InputNames -> DOMAIN cfg.inputMap] :
        tensors = [name \in InputNames |-> Column(request.records, last[name])]

VectorsInv ==
    /\ Untyped => contentType = ""
    /\ VectorsSent =>
          /\ stage \notin {"malformed", "panics"}
          /\ stage = "too_many" => Len(request.records) > cfg.maxRecords
          /\ HoldsTensors => HoldsVectors
          /\ HoldsTensors /\ stage # "batch" => Len(request.records) <= cfg.maxRecords
          /\ stage = "rejected" => /\ Len(request.records) <= cfg.maxRecords
                                  /\ \E x, y \in InputNames : x # y
          /\ HoldsRows => /\ Len(request.records) <= cfg.maxRecords
                          /\ ~ \E x, y \in InputNames : x # y
                          /\ \E key \in DOMAIN cfg.inputMap : RowsAre(request.records, key)

LEMMA VectorsInit == Init => VectorsInv
  BY DEF Init, VectorsInv, Untyped, VectorsSent, Mapped, ShouldUseOnnxMultiInput, IsJsonContentType

\* Without a media type, or with one that goes the tabular way, there is
\* nothing to keep.
LEMMA VectorsOnlyMapped ==
    ASSUME Untyped' => contentType' = "", contentType' = "" \/ ~Mapped'
    PROVE  VectorsInv'
  BY DEF VectorsInv, VectorsSent, Mapped, ShouldUseOnnxMultiInput, IsJsonContentType

LEMMA SentStays ==
    ASSUME UNCHANGED <<server, request, contentType>>
    PROVE  /\ VectorsSent' <=> VectorsSent
           /\ InputNames' = InputNames /\ cfg' = cfg
  BY DEF VectorsSent, Mapped, ShouldUseOnnxMultiInput, IsJsonContentType, ValidInputMode,
         WritesRecords, InputNames, cfg

LEMMA SentRecords ==
    ASSUME TypedInv, stage # "idle", VectorsSent
    PROVE  /\ \E S : request.records \in Seq(S)
           /\ Len(request.records) \in Nat \ {0}
           /\ LoadMultiInputRecords(contentType) = Ok(request.records)
           /\ InputNames # {} /\ DOMAIN cfg.inputMap # {}
           /\ \A key \in DOMAIN cfg.inputMap :
                 /\ Column(request.records, key) \in Seq(Values)
                 /\ Len(Column(request.records, key)) = Len(request.records)
  <1>1. request.docs \in Seq(Values)
    BY BodyType
  <1>2. PICK S : request.records \in Seq(S)
    BY RequestAssumption DEF TypedInv
  <1>3. request.records # <<>>
    BY DEF VectorsSent
  <1>4. Len(request.records) \in Nat \ {0}
    BY <1>2, <1>3, EmptySeq, LenProperties
  <1>5. LoadMultiInputRecords(contentType) = Ok(request.records)
    BY <1>1, <1>2, <1>3, RecordsAreRead DEF VectorsSent
  <1>6. InputNames # {} /\ DOMAIN cfg.inputMap # {}
    BY DEF VectorsSent, Mapped, ShouldUseOnnxMultiInput, InputNames, Range
  <1>7. ASSUME NEW key \in DOMAIN cfg.inputMap
        PROVE  /\ Column(request.records, key) \in Seq(Values)
               /\ Len(Column(request.records, key)) = Len(request.records)
    <2>1. request.records \in LoadMultiInputRecords(contentType)
      BY <1>5 DEF Ok
    <2>2. HasColumn(request.records, key)
      BY DEF VectorsSent
    <2> QED BY <1>1, <2>1, <2>2, ColumnType
  <1> QED BY <1>2, <1>4, <1>5, <1>6, <1>7

LEMMA ParseMultiInputVectors ==
    ASSUME TypedInv, LimitInv, VectorsInv, ParseMultiInput PROVE VectorsInv'
  <1>1. stage = "records" /\ UNCHANGED <<server, request, contentType>> /\ ~Untyped'
    BY DEF ParseMultiInput, BuildTensors, Built, Goto, Advance, sessionVars, mediaVars, Untyped
  <1> SUFFICES ASSUME VectorsSent PROVE VectorsInv'
    BY <1>1, SentStays DEF VectorsInv
  <1>2. LoadMultiInputRecords(contentType) = Ok(request.records)
    BY <1>1, SentRecords
  <1>3. request.records # <<>> /\ HasColumns(request.records)
    BY DEF VectorsSent, HasColumns
  <1>4. Only(LoadMultiInputRecords(contentType)) = request.records
    BY <1>2 DEF Ok, Only
  <1>5. LoadMultiInputRecords(contentType) \notin {Err, Ok(<<>>)}
    BY <1>2, <1>3 DEF Ok, Err
  <1>6. BuildTensors(request.records)
    BY <1>4, <1>5 DEF ParseMultiInput
  <1>7. PICK last \in [InputNames -> DOMAIN cfg.inputMap] :
            Built([name \in InputNames |-> Column(request.records, last[name])])
    BY <1>3, <1>6 DEF BuildTensors
  <1>8. stage' = "batch" /\ tensors' = [name \in InputNames |-> Column(request.records, last[name])]
    BY <1>7 DEF Built, Advance
  <1>9. HoldsVectors'
    BY <1>1, <1>8, SentStays DEF HoldsVectors
  <1> QED BY <1>1, <1>8, <1>9 DEF VectorsInv, HoldsRows, Untyped

LEMMA CheckBatchVectors ==
    ASSUME TypedInv, VectorsInv, CheckBatch PROVE VectorsInv'
  <1>1. stage = "batch" /\ UNCHANGED <<server, request, contentType, tensors>> /\ ~Untyped'
    BY DEF CheckBatch, Sized, AfterBatch, Goto, Advance, sessionVars, mediaVars, inputVars, Untyped
  <1> SUFFICES ASSUME VectorsSent PROVE VectorsInv'
    BY <1>1, SentStays DEF VectorsInv
  <1> DEFINE n == Len(request.records)
  <1>2. HoldsVectors
    BY <1>1 DEF VectorsInv, HoldsTensors
  <1>3. PICK last \in [InputNames -> DOMAIN cfg.inputMap] :
            tensors = [name \in InputNames |-> Column(request.records, last[name])]
    BY <1>2 DEF HoldsVectors
  <1>4. DOMAIN tensors = InputNames /\ \A name \in InputNames : Len(tensors[name]) = n
    BY <1>1, <1>3, SentRecords
  <1>5. InputNames # {} /\ n \in Nat \ {0}
    BY <1>1, SentRecords
  <1> HIDE DEF n
  <1>6. BatchSize(rows, tensors) = {n}
    BY <1>4, <1>5 DEF BatchSize
  <1>7. BatchSize(rows, tensors) # Err /\ Only(BatchSize(rows, tensors)) = n
    BY <1>6 DEF Err, Only
  <1>8. cfg.maxRecords \in Nat
    BY RecordLimitAssumption DEF TypedInv, cfg
  <1>9. HoldsVectors'
    BY <1>1, <1>2, SentStays DEF HoldsVectors
  <1>10. CASE n > cfg.maxRecords
    <2>1. stage' = "too_many"
      BY <1>7, <1>10 DEF CheckBatch, Goto
    <2> QED BY <1>1, <1>10, <2>1, SentStays DEF VectorsInv, HoldsTensors, HoldsRows, Untyped, n
  <1>11. CASE ~(n > cfg.maxRecords)
    <2>1. stage' \in {"ensure", "rows"}
      BY <1>7, <1>11 DEF CheckBatch, Sized, AfterBatch, Advance
    <2>2. n <= cfg.maxRecords
      BY <1>5, <1>8, <1>11
    <2> QED BY <1>1, <1>9, <2>1, <2>2, SentStays DEF VectorsInv, HoldsTensors, HoldsRows, Untyped, n
  <1> QED BY <1>10, <1>11

LEMMA ToRowsVectors ==
    ASSUME TypedInv, VectorsInv, ToRows PROVE VectorsInv'
  <1>1. stage = "rows" /\ UNCHANGED <<server, request, contentType>> /\ ~Untyped'
    BY DEF ToRows, Goto, Advance, sessionVars, mediaVars, Untyped
  <1> SUFFICES ASSUME VectorsSent PROVE VectorsInv'
    BY <1>1, SentStays DEF VectorsInv
  <1>2. HoldsVectors /\ Len(request.records) <= cfg.maxRecords
    BY <1>1 DEF VectorsInv, HoldsTensors
  <1>3. PICK last \in [InputNames -> DOMAIN cfg.inputMap] :
            tensors = [name \in InputNames |-> Column(request.records, last[name])]
    BY <1>2 DEF HoldsVectors
  <1>4. DOMAIN tensors = InputNames /\ InputNames # {}
    BY <1>1, <1>3, SentRecords
  <1>5. CASE \E x, y \in InputNames : x # y
    <2>1. ~ \E name \in DOMAIN tensors : DOMAIN tensors = {name}
      BY <1>4, <1>5
    <2>2. ParsedInputToRows(rows, tensors) = Err
      BY <1>4, <2>1 DEF ParsedInputToRows
    <2>3. stage' = "rejected"
      BY <2>2 DEF ToRows, Goto
    <2> QED BY <1>1, <1>2, <1>5, <2>3, SentStays DEF VectorsInv, HoldsTensors, HoldsRows, Untyped
  <1>6. CASE ~ \E x, y \in InputNames : x # y
    <2>1. PICK name \in DOMAIN tensors : DOMAIN tensors = {name}
      BY <1>4, <1>6
    <2> DEFINE key == last[name]
               found == [i \in DOMAIN request.records |-> Numbers(request.records[i][key].items)]
    <2>2. key \in DOMAIN cfg.inputMap /\ tensors[name] = Column(request.records, key)
      BY <1>3, <1>4
    <2>3. Vectors(request.records, key)
      BY <2>2 DEF VectorsSent
    <2> HIDE DEF key
    <2>4. request.records # <<>> /\ \E S : request.records \in Seq(S)
      BY <1>1, SentRecords DEF VectorsSent
    <2>5. ValueToNumericRows(Array(tensors[name])) = Ok(found)
      BY <2>2, <2>3, <2>4, VectorsAreRead
    <2> HIDE DEF found
    <2>6. Only(DOMAIN tensors) = name
      BY <2>1 DEF Only
    <2>7. ParsedInputToRows(rows, tensors) = Ok(found)
      BY <2>1, <2>5, <2>6 DEF ParsedInputToRows
    <2>8. stage' = "tensor" /\ rows' = found
      BY <2>7 DEF ToRows, Advance, Ok, Err, Only
    <2>9. \E k \in DOMAIN cfg.inputMap : RowsAre(request.records, k)'
      BY <1>1, <2>2, <2>8 DEF RowsAre, found
    <2> QED BY <1>1, <1>2, <1>6, <2>8, <2>9, SentStays DEF VectorsInv, HoldsTensors, HoldsRows, Untyped
  <1> QED BY <1>5, <1>6

\* Vectors of one length make a tensor.
LEMMA VectorsShaped ==
    ASSUME TypedInv, stage # "idle", VectorsSent,
           NEW key \in DOMAIN cfg.inputMap, RowsAre(request.records, key)
    PROVE  TensorShaped(rows)
  <1> DEFINE R == request.records
  <1>1. Len(R) \in Nat \ {0} /\ DOMAIN R = 1..Len(R)
    BY SentRecords, LenProperties
  <1>2. Column(R, key) \in Seq(Values) /\ DOMAIN Column(R, key) = DOMAIN R
    BY SentRecords DEF Column
  <1>3. ASSUME NEW i \in DOMAIN R PROVE R[i][key] \in Values
    <2>1. Column(R, key)[i] \in Values
      BY <1>2, <1>3, ElementOfSeq, LenProperties
    <2> QED BY <2>1 DEF Column
  <1>4. \A i \in DOMAIN R : Len(Numbers(R[i][key].items)) = Len(R[i][key].items)
    BY <1>3, PartsOfValues, NumbersType
  <1>5. rows = [i \in DOMAIN R |-> Numbers(R[i][key].items)] /\ 1 \in DOMAIN R
    BY <1>1 DEF RowsAre
  <1>6. \A i \in DOMAIN R : Len(R[i][key].items) = Len(R[1][key].items)
    BY DEF VectorsSent, SameLength
  <1> HIDE DEF R
  <1>7. Rectangular(rows)
    BY <1>4, <1>5, <1>6 DEF Rectangular
  <1>8. rows # <<>>
    <2>1. DOMAIN <<>> = {}
      OBVIOUS
    <2> QED BY <1>5, <2>1
  <1> QED BY <1>7, <1>8 DEF TensorShaped

\* Steps that neither read the body nor refuse it.
LEMMA VectorsElsewhere ==
    ASSUME VectorsInv, UNCHANGED <<server, request, contentType, rows, tensors>>,
           Untyped' => contentType' = "",
           stage' \notin {"malformed", "panics", "too_many", "rejected"},
           HoldsTensors' => HoldsTensors /\ stage # "batch",
           HoldsRows' => HoldsRows
    PROVE  VectorsInv'
  <1>1. HoldsVectors' <=> HoldsVectors
    BY SentStays DEF HoldsVectors
  <1>2. \A key : RowsAre(request.records, key)' <=> RowsAre(request.records, key)
    BY DEF RowsAre
  <1>3. /\ VectorsSent' <=> VectorsSent
        /\ InputNames' = InputNames /\ cfg' = cfg
    BY SentStays
  <1> QED BY <1>1, <1>2, <1>3 DEF VectorsInv

LEMMA VectorsStep ==
    ASSUME NothingLeft, TypedInv, RecordsInv, LimitInv, VectorsInv, [Next]_vars PROVE VectorsInv'
  <1>1. CASE Send
    BY <1>1, VectorsOnlyMapped DEF Send, mediaVars, VectorsInv, Untyped
  <1>2. CASE NextRequest
    BY <1>2, VectorsOnlyMapped DEF NextRequest, mediaVars, VectorsInv, Untyped
  <1>3. CASE ReplyHttp \/ ReplyGrpc
    BY <1>3, VectorsOnlyMapped DEF ReplyHttp, ReplyGrpc, Reply, Dropped
  <1>4. CASE CheckSize \/ AcquirePermit \/ (RefuseLoadError /\ stage = "arrived")
    <2>1. Untyped /\ contentType' = contentType
      BY <1>4 DEF CheckSize, AcquirePermit, RefuseLoadError, Goto, mediaVars, Untyped
    <2>2. contentType' = ""
      BY <2>1 DEF VectorsInv
    <2> QED BY <2>2, VectorsOnlyMapped
  <1>5. CASE ResolveMediaTypes
    <2>1. stage' \in {"dispatch", "ensure"} /\ (stage' = "ensure" => protocol' = "grpc")
      BY <1>5 DEF ResolveMediaTypes, AfterMedia, NothingLeft, Protocols, sessionVars
    <2>2. ~Untyped' /\ ~HoldsTensors' /\ ~HoldsRows'
      BY <2>1 DEF Untyped, HoldsTensors, HoldsRows
    <2> QED BY <2>1, <2>2 DEF VectorsInv
  <1>6. CASE Ensure
    BY <1>6, VectorsElsewhere
    DEF Ensure, AfterEnsure, Goto, sessionVars, mediaVars, inputVars, Untyped, HoldsTensors, HoldsRows
  <1>7. CASE Dispatch
    <2>1. stage = "dispatch" /\ UNCHANGED <<server, request, contentType, rows, tensors>>
      BY <1>7 DEF Dispatch, Goto, sessionVars, mediaVars, inputVars
    <2>2. CASE stage' = "malformed"
      <3>1. ~ValidInputMode \/ ~cfg.mapIsJson
        BY <1>7, <2>2 DEF Dispatch, Goto
      <3>2. ~VectorsSent
        BY <3>1, InputMapAssumption
        DEF VectorsSent, Mapped, ShouldUseOnnxMultiInput, TypedInv, cfg
      <3> QED BY <2>1, <2>2, <3>2, SentStays DEF VectorsInv, Untyped
    <2>3. CASE stage' \in {"records", "decode"}
      BY <2>1, <2>3, VectorsElsewhere DEF Untyped, HoldsTensors, HoldsRows
    <2> QED BY <1>7, <2>2, <2>3 DEF Dispatch, Goto
  <1>8. CASE TabularStep
    <2>1. ~Mapped /\ UNCHANGED <<server, contentType>> /\ ~Untyped'
      BY <1>8
      DEF TabularStep, Decode, CheckShape, Select, Goto, Advance, sessionVars, mediaVars, RecordsInv, Untyped
    <2> QED BY <2>1, VectorsOnlyMapped, MappedStays
  <1>9. CASE ParseMultiInput
    BY <1>9, ParseMultiInputVectors
  <1>10. CASE CheckBatch
    BY <1>10, CheckBatchVectors
  <1>11. CASE ToRows
    BY <1>11, ToRowsVectors
  <1>12. CASE RowsToTensor
    <2>1. /\ stage = "tensor" /\ UNCHANGED <<server, request, contentType, rows, tensors>>
          /\ stage' \in {"predict", "rejected"}
      BY <1>12 DEF RowsToTensor, Goto, sessionVars, mediaVars, inputVars
    <2>2. CASE TensorShaped(rows)
      <3>1. stage' = "predict"
        BY <1>12, <2>2 DEF RowsToTensor, Goto
      <3> QED BY <2>1, <3>1, VectorsElsewhere DEF Untyped, HoldsTensors, HoldsRows
    <2>3. CASE ~TensorShaped(rows)
      <3>1. ~VectorsSent
        BY <2>1, <2>3, VectorsShaped DEF VectorsInv, HoldsRows
      <3> QED BY <2>1, <3>1, SentStays DEF VectorsInv, Untyped
    <2> QED BY <2>2, <2>3
  <1>13. CASE Run \/ OutputStep
    BY <1>13, VectorsElsewhere
    DEF Run, OutputStep, Choose, Format, Goto, Advance, sessionVars, mediaVars, inputVars,
        Untyped, HoldsTensors, HoldsRows
  <1>14. CASE UNCHANGED vars
    <2>1. UNCHANGED <<server, request, contentType, rows, tensors, stage, protocol>>
      BY <1>14 DEF vars, sessionVars, mediaVars, inputVars
    <2>2. HoldsVectors' <=> HoldsVectors
      BY <2>1, SentStays DEF HoldsVectors
    <2>3. \A key : RowsAre(request.records, key)' <=> RowsAre(request.records, key)
      BY <2>1 DEF RowsAre
    <2> QED BY <2>1, <2>2, <2>3, SentStays DEF VectorsInv, Untyped, HoldsTensors, HoldsRows
  <1> QED
    BY <1>1, <1>2, <1>3, <1>4, <1>5, <1>6, <1>7, <1>8, <1>9, <1>10, <1>11, <1>12, <1>13, <1>14
    DEF Next, HandlerStep, ParsedInputStep, RefuseLoadError

LEMMA VectorsGiveAnswer ==
    TypedInv /\ VectorsInv => VectorsAccepted
  <1> SUFFICES ASSUME TypedInv, VectorsInv, VectorsSent,
                      stage \in {"malformed", "panics", "too_many", "rejected", "predict"}
               PROVE  /\ stage = IF Len(request.records) > cfg.maxRecords THEN "too_many"
                                 ELSE IF \E x, y \in InputNames : x # y THEN "rejected" ELSE "predict"
                      /\ stage = "predict" =>
                            \E key \in DOMAIN cfg.inputMap : RowsAre(request.records, key)
    BY DEF VectorsAccepted, VectorsSent
  <1>1. Len(request.records) \in Nat
    BY SentRecords
  <1>2. cfg.maxRecords \in Nat
    BY RecordLimitAssumption DEF TypedInv, cfg
  <1> DEFINE tooMany == Len(request.records) > cfg.maxRecords
             several == \E x, y \in InputNames : x # y
             found == \E key \in DOMAIN cfg.inputMap : RowsAre(request.records, key)
  <1>3. stage \in {"too_many", "rejected", "predict"} /\ (stage = "too_many" => tooMany)
    BY DEF VectorsInv
  <1>4. stage = "rejected" => ~tooMany /\ several
    <2>1. stage = "rejected" => Len(request.records) <= cfg.maxRecords /\ several
      BY DEF VectorsInv
    <2> HIDE DEF several
    <2> QED BY <1>1, <1>2, <2>1
  <1>5. stage = "predict" => ~tooMany /\ ~several /\ found
    <2>1. stage = "predict" => Len(request.records) <= cfg.maxRecords /\ ~several /\ found
      BY DEF VectorsInv, HoldsRows
    <2> HIDE DEF several, found
    <2> QED BY <1>1, <1>2, <2>1
  <1> HIDE DEF tooMany, several, found
  <1>6. /\ stage = IF tooMany THEN "too_many" ELSE IF several THEN "rejected" ELSE "predict"
        /\ stage = "predict" => found
    BY <1>3, <1>4, <1>5
  <1> QED BY <1>6 DEF tooMany, several, found

\* Records that have vectors of one length under every mapped key reach the
\* model as these vectors, in JSON as in JSON Lines, unless they are too many or
\* the model would need more than one tensor: for every input map, in any order
\* of its hash map (input.rs:179, adapter.rs:59, http.rs:155).
THEOREM VectorsReachTheModel == Spec => []VectorsAccepted
  BY NothingLeftInit, NothingLeftStep, TypedInit, TypedStep, RecordsInit, RecordsStep,
     LimitInit, LimitStep, VectorsInit, VectorsStep, VectorsGiveAnswer, PTL DEF Spec
=============================================================================
