---------------------------- MODULE MeaningProofs ----------------------------
(***************************************************************************)
(* What reaches the model is what the client means, and what comes back is  *)
(* its predictions: the theorems TablesReachTheModel,                       *)
(* NothingElseReachesTheModel and BatchingChangesNothing, for every set of  *)
(* servers, requests and models.                                            *)
(***************************************************************************)
EXTENDS InputProofs
-----------------------------------------------------------------------------
(* The tabular way, whatever the client means: the rows are what was decoded, *)
(* in the configured columns, and a refusal has its reason.                  *)

HasRows == HoldsTensors \/ HoldsRows \/ stage \in {"too_many", "rejected"}

Accepts(x)  == ValidShape(x) /\ (Selecting => FeatureIdx(Len(x[1])) # Err)
PassedOn(x) == IF Selecting THEN Selected(x) ELSE x
Passes(x)   == Accepts(x) /\ (Selecting => Reaches(x)) /\ rows = PassedOn(x)

DecodedRows == \E x \in ParseTabularMatrix(contentType) : Passes(x)

TableInv ==
    /\ stage \in {"decode", "records", "shape", "select"} \/ HasRows => ValidInputMode /\ cfg.mapIsJson
    /\ Tabular =>
          /\ stage \in {"shape", "select"} => rows \in ParseTabularMatrix(contentType)
          /\ stage = "select" => ValidShape(rows)
          /\ stage = "malformed" => \A x \in ParseTabularMatrix(contentType) : ~Accepts(x)
          /\ stage = "panics" =>
                \/ contentType = ""
                \/ \E x \in ParseTabularMatrix(contentType) : Selecting /\ ~Reaches(x)
          /\ HasRows => DecodedRows
          /\ HoldsTensors => tensors = NoTensors
          /\ stage = "too_many" => Len(rows) > cfg.maxRecords
          /\ HasRows /\ stage \notin {"batch", "too_many"} => Len(rows) <= cfg.maxRecords
          /\ stage = "rejected" => ~TensorShaped(rows)
          /\ HoldsRows /\ stage # "tensor" => TensorShaped(rows)

LEMMA TableInit == Init => TableInv
  BY DEF Init, TableInv, HasRows, HoldsTensors, HoldsRows

LEMMA TabularStays ==
    ASSUME UNCHANGED <<server, contentType>>
    PROVE  /\ Tabular' <=> Tabular
           /\ ValidInputMode' = ValidInputMode /\ cfg' = cfg
  BY MappedStays DEF Tabular, ValidInputMode, cfg

LEMMA AcceptsStays ==
    ASSUME NEW x, UNCHANGED server PROVE Accepts(x)' <=> Accepts(x)
  BY FeatureIdxStays, SelectionStays DEF Accepts, ValidShape, cfg

LEMMA DecodedStays ==
    ASSUME UNCHANGED <<server, request, contentType, rows>>
    PROVE  DecodedRows' <=> DecodedRows
  <1>1. ParseTabularMatrix(contentType)' = ParseTabularMatrix(contentType)
    BY MatrixStays DEF ParseTabularMatrix
  <1>2. ASSUME NEW x PROVE Passes(x)' <=> Passes(x)
    BY AcceptsStays, SelectionStays DEF Passes, PassedOn
  <1> QED BY <1>1, <1>2 DEF DecodedRows

\* Steps to stages that have no rows of a table.
LEMMA TableElsewhere ==
    ASSUME ~HasRows', stage' \notin {"decode", "records", "shape", "select", "malformed", "panics"}
    PROVE  TableInv'
  BY DEF TableInv, HasRows

LEMMA DecodeTable ==
    ASSUME NothingLeft, RecordsInv, TableInv, Decode PROVE TableInv'
  <1>1. /\ stage = "decode" /\ UNCHANGED <<server, request, contentType>> /\ Tabular
    BY DEF Decode, Goto, Advance, sessionVars, mediaVars, TableInv, RecordsInv, Tabular
  <1>2. ParseTabularMatrix(contentType)' = ParseTabularMatrix(contentType)
    BY <1>1, MatrixStays
  <1>3. CASE ParseTabularMatrix(contentType) = Err
    <2>1. stage' = "malformed"
      BY <1>3 DEF Decode, Goto
    <2>2. ParseTabularMatrix(contentType)' = {}
      BY <1>2, <1>3 DEF Err
    <2> QED BY <1>1, <2>1, <2>2, TabularStays DEF TableInv, HasRows, HoldsTensors, HoldsRows
  <1>4. CASE ParseTabularMatrix(contentType) # Err
    <2>1. stage' = "shape" /\ rows' \in ParseTabularMatrix(contentType)
      BY <1>4 DEF Decode, Advance, Only, Err
    <2>2. rows' \in ParseTabularMatrix(contentType)'
      BY <1>2, <2>1
    <2> QED BY <1>1, <2>1, <2>2, TabularStays DEF TableInv, HasRows, HoldsTensors, HoldsRows, Tabular
  <1> QED BY <1>3, <1>4

LEMMA OneMatrix ==
    ASSUME NEW type, NEW x \in ParseTabularMatrix(type), NEW y \in ParseTabularMatrix(type)
    PROVE  x = y
  <1>1. ASSUME NEW v, NEW a \in ValueToNumericRows(v), NEW b \in ValueToNumericRows(v) PROVE a = b
    BY <1>1 DEF ValueToNumericRows, Ok, Err
  <1>2. CASE type = "csv"
    BY <1>2 DEF ParseTabularMatrix, ParseCsvRows, Ok, Err
  <1>3. CASE type = "json"
    BY <1>1, <1>3 DEF ParseTabularMatrix, ParseJsonRows, Err
  <1>4. CASE type = "jsonl"
    BY <1>4 DEF ParseTabularMatrix, ParseJsonlRows, Ok, Err
  <1>5. CASE type \notin {"csv", "json", "jsonl"}
    BY <1>5 DEF ParseTabularMatrix, Err
  <1> QED BY <1>2, <1>3, <1>4, <1>5

LEMMA CheckShapeTable ==
    ASSUME NothingLeft, TableInv, RecordsInv, CheckShape PROVE TableInv'
  <1>1. /\ stage = "shape" /\ UNCHANGED <<server, request, contentType, rows>> /\ Tabular
        /\ rows \in ParseTabularMatrix(contentType)
    BY DEF CheckShape, Goto, sessionVars, mediaVars, inputVars, TableInv, RecordsInv, Tabular
  <1>2. ParseTabularMatrix(contentType)' = ParseTabularMatrix(contentType)
    BY <1>1, MatrixStays
  <1>3. CASE ValidShape(rows)
    <2>1. stage' = "select"
      BY <1>3 DEF CheckShape, Goto
    <2>2. rows' \in ParseTabularMatrix(contentType)' /\ ValidShape(rows)'
      BY <1>1, <1>2, <1>3, TabularStays DEF ValidShape
    <2> QED BY <1>1, <2>1, <2>2, TabularStays DEF TableInv, HasRows, HoldsTensors, HoldsRows, Tabular
  <1>4. CASE ~ValidShape(rows)
    <2>1. stage' = "malformed"
      BY <1>4 DEF CheckShape, Goto
    <2>2. ASSUME NEW x \in ParseTabularMatrix(contentType)' PROVE ~Accepts(x)'
      BY <1>1, <1>2, <1>4, <2>2, OneMatrix, AcceptsStays DEF Accepts
    <2> QED BY <1>1, <2>1, <2>2, TabularStays DEF TableInv, HasRows, HoldsTensors, HoldsRows, Tabular
  <1> QED BY <1>3, <1>4

LEMMA SelectTable ==
    ASSUME NothingLeft, TableInv, RecordsInv, Select PROVE TableInv'
  <1>1. /\ stage = "select" /\ UNCHANGED <<server, request, contentType>> /\ Tabular
        /\ rows \in ParseTabularMatrix(contentType) /\ ValidShape(rows)
        /\ stage' \in {"batch", "malformed", "panics"}
    BY DEF Select, Goto, Advance, sessionVars, mediaVars, TableInv, RecordsInv, Tabular
  <1>2. ParseTabularMatrix(contentType)' = ParseTabularMatrix(contentType)
    BY <1>1, MatrixStays
  <1>3. CASE stage' = "malformed"
    <2>1. Selecting /\ FeatureIdx(Len(rows[1])) = Err
      BY <1>3 DEF Select, Goto, Advance
    <2>2. ASSUME NEW x \in ParseTabularMatrix(contentType)' PROVE ~Accepts(x)'
      BY <1>1, <1>2, <2>1, <2>2, OneMatrix, AcceptsStays DEF Accepts
    <2> QED BY <1>1, <1>3, <2>2, TabularStays DEF TableInv, HasRows, HoldsTensors, HoldsRows, Tabular
  <1>4. CASE stage' = "panics"
    <2>1. Selecting /\ ~Reaches(rows)
      BY <1>4 DEF Select, Goto, Advance
    <2>2. \E x \in ParseTabularMatrix(contentType)' : (Selecting /\ ~Reaches(x))'
      BY <1>1, <1>2, <2>1, SelectionStays
    <2> QED BY <1>1, <1>4, <2>2, TabularStays DEF TableInv, HasRows, HoldsTensors, HoldsRows, Tabular
  <1>5. CASE stage' = "batch"
    <2>1. rows' = PassedOn(rows) /\ Accepts(rows) /\ (Selecting => Reaches(rows))
      BY <1>1, <1>5 DEF Select, Goto, Advance, inputVars, PassedOn, Accepts
    <2>2. PICK x \in ParseTabularMatrix(contentType)' : x = rows
      BY <1>1, <1>2
    <2>3. Passes(x)'
      BY <1>1, <2>1, <2>2, AcceptsStays, SelectionStays DEF Passes, PassedOn
    <2>4. DecodedRows'
      BY <2>3 DEF DecodedRows
    <2>5. tensors' = NoTensors
      BY <1>1 DEF Select, Goto, Advance, inputVars, NothingLeft
    <2> QED BY <1>1, <1>5, <2>4, <2>5, TabularStays DEF TableInv, HasRows, HoldsTensors, HoldsRows, Tabular
  <1> QED BY <1>1, <1>3, <1>4, <1>5

LEMMA CheckBatchTable ==
    ASSUME TypedInv, TableInv, CheckBatch PROVE TableInv'
  <1>1. /\ stage = "batch" /\ UNCHANGED <<server, request, contentType, rows, tensors>>
        /\ ValidInputMode /\ cfg.mapIsJson
    BY DEF CheckBatch, Sized, Goto, Advance, sessionVars, mediaVars, inputVars, TableInv, HasRows,
           HoldsTensors
  <1>2. CASE ~Tabular
    BY <1>1, <1>2, TabularStays DEF TableInv
  <1>3. CASE Tabular
    <2>1. DecodedRows /\ tensors = NoTensors
      BY <1>1, <1>3 DEF TableInv, HasRows, HoldsTensors
    <2>2. DecodedRows'
      BY <1>1, <2>1, DecodedStays
    <2>3. BatchSize(rows, tensors) = {Len(rows)}
      <3>1. DOMAIN NoTensors = {}
        BY DEF NoTensors
      <3> QED BY <2>1, <3>1 DEF BatchSize, Ok
    <2>4. BatchSize(rows, tensors) # Err /\ Only(BatchSize(rows, tensors)) = Len(rows)
      BY <2>3 DEF Err, Only
    <2>5. Len(rows) \in Nat /\ cfg.maxRecords \in Nat
      BY RecordLimitAssumption, LenProperties DEF TypedInv, Matrices, cfg
    <2>6. CASE Len(rows) > cfg.maxRecords
      <3>1. stage' = "too_many"
        BY <2>4, <2>6 DEF CheckBatch, Goto
      <3> QED BY <1>1, <2>2, <2>6, <3>1, TabularStays DEF TableInv, HasRows, HoldsTensors, HoldsRows
    <2>7. CASE ~(Len(rows) > cfg.maxRecords)
      <3>1. stage' \in {"ensure", "rows"}
        BY <2>4, <2>7 DEF CheckBatch, Sized, AfterBatch, Advance
      <3>2. Len(rows) <= cfg.maxRecords
        BY <2>5, <2>7
      <3> QED BY <1>1, <2>1, <2>2, <3>1, <3>2, TabularStays DEF TableInv, HasRows, HoldsTensors, HoldsRows
    <2> QED BY <2>6, <2>7
  <1> QED BY <1>2, <1>3

\* Steps that leave the rows as they are.
LEMMA TableKept ==
    ASSUME TableInv, UNCHANGED <<server, request, contentType, rows, tensors>>,
           stage' \notin {"decode", "records", "shape", "select", "malformed", "panics", "too_many", "batch"},
           HasRows' => HasRows /\ stage \notin {"batch", "too_many"},
           HoldsTensors' => HoldsTensors,
           stage' = "rejected" => ~TensorShaped(rows),
           HoldsRows' /\ stage' # "tensor" => TensorShaped(rows) \/ (HoldsRows /\ stage # "tensor")
    PROVE  TableInv'
  BY TabularStays, DecodedStays DEF TableInv

LEMMA ToRowsTable ==
    ASSUME TableInv, ToRows PROVE TableInv'
  <1>1. /\ stage = "rows" /\ UNCHANGED <<server, request, contentType, tensors>>
        /\ stage' \in {"tensor", "rejected"} /\ ValidInputMode /\ cfg.mapIsJson
    BY DEF ToRows, Goto, Advance, sessionVars, mediaVars, inputVars, TableInv, HasRows, HoldsTensors
  <1>2. CASE ~Tabular
    BY <1>1, <1>2, TabularStays DEF TableInv
  <1>3. CASE Tabular
    <2>1. tensors = NoTensors
      BY <1>1, <1>3 DEF TableInv, HoldsTensors
    <2>2. ParsedInputToRows(rows, tensors) = Ok(rows)
      <3>1. DOMAIN NoTensors = {}
        BY DEF NoTensors
      <3> QED BY <2>1, <3>1 DEF ParsedInputToRows
    <2>3. stage' = "tensor" /\ rows' = rows
      BY <2>2 DEF ToRows, Advance, Ok, Err, Only
    <2> QED BY <1>1, <2>3, TableKept DEF HasRows, HoldsTensors, HoldsRows
  <1> QED BY <1>2, <1>3

LEMMA TableStep ==
    ASSUME NothingLeft, TypedInv, RecordsInv, LimitInv, VectorsInv, TableInv, [Next]_vars
    PROVE  TableInv'
  <1>1. CASE Send \/ NextRequest \/ ReplyHttp \/ ReplyGrpc \/ RefuseLoadError
    BY <1>1, TableElsewhere
    DEF Send, NextRequest, ReplyHttp, ReplyGrpc, RefuseLoadError, Goto, HasRows, HoldsTensors, HoldsRows
  <1>2. CASE CheckSize
    BY <1>2, TableElsewhere DEF CheckSize, Goto, HasRows, HoldsTensors, HoldsRows
  <1>3. CASE AcquirePermit
    <2>1. stage' \in {"media", "panics"} /\ contentType' = ""
      BY <1>3 DEF AcquirePermit, Goto, mediaVars, VectorsInv, Untyped
    <2> QED BY <2>1 DEF TableInv, HasRows, HoldsTensors, HoldsRows
  <1>4. CASE ResolveMediaTypes
    BY <1>4, TableElsewhere
    DEF ResolveMediaTypes, AfterMedia, NothingLeft, Protocols, sessionVars, HasRows, HoldsTensors, HoldsRows
  <1>5. CASE Ensure
    BY <1>5, TableKept, TableElsewhere
    DEF Ensure, AfterEnsure, Goto, sessionVars, mediaVars, inputVars, HasRows, HoldsTensors, HoldsRows
  <1>6. CASE Dispatch
    <2>1. stage' \in {"malformed", "records", "decode"} /\ UNCHANGED <<server, contentType>>
      BY <1>6 DEF Dispatch, Goto, sessionVars, mediaVars
    <2>2. stage' = "malformed" => ~Tabular
      BY <1>6 DEF Dispatch, Goto, Tabular
    <2>3. stage' \in {"decode", "records"} => ValidInputMode /\ cfg.mapIsJson
      BY <1>6 DEF Dispatch, Goto
    <2> QED BY <2>1, <2>2, <2>3, TabularStays DEF TableInv, HasRows, HoldsTensors, HoldsRows
  <1>7. CASE TabularStep
    BY <1>7, DecodeTable, CheckShapeTable, SelectTable DEF TabularStep
  <1>8. CASE ParseMultiInput
    <2>1. Mapped /\ UNCHANGED <<server, contentType>> /\ stage' \in {"malformed", "batch"}
      BY <1>8
      DEF ParseMultiInput, BuildTensors, Built, Goto, Advance, sessionVars, mediaVars, LimitInv
    <2>2. ~Tabular' /\ ValidInputMode' /\ cfg'.mapIsJson
      BY <1>8, <2>1, TabularStays DEF ParseMultiInput, TableInv, Tabular
    <2> QED BY <2>1, <2>2 DEF TableInv
  <1>9. CASE CheckBatch
    BY <1>9, CheckBatchTable
  <1>10. CASE ToRows
    BY <1>10, ToRowsTable
  <1>11. CASE RowsToTensor
    BY <1>11, TableKept
    DEF RowsToTensor, Goto, sessionVars, mediaVars, inputVars, HasRows, HoldsTensors, HoldsRows
  <1>12. CASE Run \/ OutputStep
    BY <1>12, TableKept
    DEF Run, OutputStep, Choose, Format, Goto, Advance, sessionVars, mediaVars, inputVars,
        HasRows, HoldsTensors, HoldsRows
  <1>13. CASE UNCHANGED vars
    <2>1. UNCHANGED <<server, request, contentType, rows, tensors, stage, protocol>>
      BY <1>13 DEF vars, sessionVars, mediaVars, inputVars
    <2>2. ParseTabularMatrix(contentType)' = ParseTabularMatrix(contentType)
      BY <2>1, MatrixStays
    <2>3. \A x : /\ Accepts(x)' <=> Accepts(x)
                 /\ Reaches(x)' <=> Reaches(x)
                 /\ Selecting' <=> Selecting
      BY <2>1, AcceptsStays, SelectionStays
    <2>4. (DecodedRows' <=> DecodedRows) /\ (Tabular' <=> Tabular)
      BY <2>1, DecodedStays, TabularStays
    <2>5. /\ HasRows' <=> HasRows
          /\ HoldsTensors' <=> HoldsTensors
          /\ HoldsRows' <=> HoldsRows
      BY <2>1 DEF HasRows, HoldsTensors, HoldsRows
    <2> QED BY <2>1, <2>2, <2>3, <2>4, <2>5 DEF TableInv, ValidInputMode, ValidShape, TensorShaped, Rectangular, cfg
  <1> QED
    BY <1>1, <1>2, <1>3, <1>4, <1>5, <1>6, <1>7, <1>8, <1>9, <1>10, <1>11, <1>12, <1>13
    DEF Next, HandlerStep, ParsedInputStep
-----------------------------------------------------------------------------
(* A body that conforms.                                                     *)

LEMMA CsvDecoded ==
    ASSUME NEW m, m = request.matrix, m \in Seq(Seq(Values)), m # <<>>, AllCells(m),
           NEW header, header = request.header, header \in Seq(Seq(Values)),
           NEW lines, lines = request.lines, lines \in Seq(Seq(Values)), WritesCsv,
           cfg.header \in (IF header = <<>> THEN {"auto", "false"} ELSE {"auto", "true"}),
           cfg.skipBlank \/ BlankLine \notin ToSet(lines)
    PROVE  ParseCsvRows(lines) = Ok(NumbersOf(m))
  <1> DEFINE read == LinesRead(lines)
  <1>1. read = header \o m
    <2>1. CASE cfg.skipBlank
      BY <2>1 DEF LinesRead, WritesCsv
    <2>2. CASE BlankLine \notin ToSet(lines)
      <3>1. \A i \in DOMAIN lines : lines[i] \notin {BlankLine}
        BY <2>2 DEF ToSet
      <3>2. WithoutBlankLines(lines) = lines
        BY <3>1, WithoutNothing DEF WithoutBlankLines
      <3> QED BY <3>2 DEF LinesRead, WritesCsv
    <2> QED BY <2>1, <2>2
  <1>2. header # <<>> => Len(header) = 1 /\ ~AllNumbers(header[1])
    BY DEF WritesCsv
  <1> HIDE DEF read
  <1>3. /\ header = <<>> => read = m
        /\ header # <<>> => read # <<>> /\ read[1] = header[1] /\ Tail(read) = m
    <2> DEFINE above == header \o m
    <2>1. above = header \o m
      OBVIOUS
    <2> HIDE DEF above
    <2>2. header # <<>> => Len(header) = 1
      BY <1>2
    <2>3. header \in Seq(Seq(Values)) /\ m \in Seq(Seq(Values))
      OBVIOUS
    <2>4. /\ header = <<>> => above = m
          /\ header # <<>> => above # <<>> /\ above[1] = header[1] /\ Tail(above) = m
      BY ONLY <2>1, <2>2, <2>3, HeaderAbove
    <2>5. read = above
      BY <1>1 DEF above
    <2> QED BY <2>4, <2>5
  <1>4. AllNumbers(m[1])
    BY NumbersOfType DEF AllCells
  <1>5. read # <<>> /\ CsvBody(read) = m
    <2>1. CASE header = <<>>
      BY <1>3, <1>4, <2>1 DEF CsvBody, CsvFirstRowIsHeader, AllNumbers
    <2>2. CASE header # <<>>
      BY <1>2, <1>3, <2>2 DEF CsvBody, CsvFirstRowIsHeader, AllNumbers
    <2> QED BY <2>1, <2>2
  <1>6. cfg.header \in {"auto", "true", "false"}
    OBVIOUS
  <1>7. \A i \in DOMAIN m : AllNumbers(m[i])
    BY DEF AllCells
  <1> QED BY <1>5, <1>6, <1>7 DEF ParseCsvRows, LinesRead, NumbersOf, read

\* Cells that are numbers are no objects.
LEMMA CellsArePlain == ASSUME NEW m, AllCells(m) PROVE PlainCells(m)
  BY DEF AllCells, AllNumbers, PlainCells, PlainRow

LEMMA SentBody ==
    ASSUME TypedInv, stage # "idle"
    PROVE  /\ request.matrix \in Seq(Seq(Values)) /\ request.header \in Seq(Seq(Values))
           /\ request.lines \in Seq(Seq(Values)) /\ request.docs \in Seq(Values)
  BY RequestAssumption DEF TypedInv

\* What a body that conforms is decoded to.
LEMMA ConformingIsDecoded ==
    ASSUME TypedInv, stage # "idle", Conforming
    PROVE  LET x == NumbersOf(request.matrix)
           IN  /\ ParseTabularMatrix(contentType) = Ok(x)
               /\ Accepts(x) /\ (Selecting => Reaches(x))
               /\ TensorShaped(PassedOn(x)) /\ Len(PassedOn(x)) = Len(request.matrix)
               /\ IsMeant(PassedOn(x), request.matrix)
  <1> DEFINE m == request.matrix
             x == NumbersOf(m)
  <1>1. /\ m \in Seq(Seq(Values)) /\ request.header \in Seq(Seq(Values))
        /\ request.lines \in Seq(Seq(Values)) /\ request.docs \in Seq(Values)
    BY SentBody
  <1>2. /\ WritesMatrix(contentType) /\ m # <<>> /\ Rectangular(m) /\ AllCells(m)
        /\ cfg.numFeatures \in {0, Len(m[1])} /\ (Selecting => FeatureIdx(Len(m[1])) # Err)
        /\ \A c \in ToSet(cfg.features.list) : c < Len(m[1])
    BY DEF Conforming
  <1>3. PlainCells(m)
    BY <1>2, CellsArePlain
  <1>4. Reading(m) = Ok(x)
    BY <1>2 DEF Reading
  <1>5. ParseTabularMatrix(contentType) = Ok(x)
    <2>1. CASE contentType = "csv"
      <3>1. ParseCsvRows(request.lines) = Ok(x)
        BY <1>1, <1>2, <2>1, CsvDecoded DEF Conforming, WritesMatrix
      <3> QED BY <2>1, <3>1 DEF ParseTabularMatrix
    <2>2. CASE contentType = "json"
      <3>1. ParseJsonRows(request.docs) = Reading(m)
        BY <1>1, <1>2, <1>3, <2>2, JsonWritten DEF WritesMatrix
      <3> QED BY <1>4, <2>2, <3>1 DEF ParseTabularMatrix
    <2>3. CASE contentType = "jsonl"
      <3>1. WritesJsonl
        BY <1>2, <2>3 DEF WritesMatrix
      <3>2. /\ ParseJsonlRows(request.docs) = IF request.docs = <<>> THEN Ok(<<>>) ELSE Reading(m)
            /\ request.docs = <<>> => m = <<>>
        BY <1>1, <1>3, <3>1, JsonlWritten
      <3>3. ParseJsonlRows(request.docs) = Reading(m)
        BY <1>2, <3>2
      <3> QED BY <1>4, <2>3, <3>3 DEF ParseTabularMatrix
    <2> QED BY <1>2, <2>1, <2>2, <2>3 DEF WritesMatrix
  <1>6. /\ x # <<>> /\ Len(x[1]) = Len(m[1]) /\ x \in Matrices
    BY <1>1, <1>2, NumbersOfType
  <1>7. /\ Selecting => Reaches(x)
        /\ IsMeant(ReadOf(m), m)
        /\ TensorShaped(ReadOf(m)) /\ Len(ReadOf(m)) = Len(m)
    BY <1>1, <1>2, TableIsRead DEF TypedInv
  <1>8. ReadOf(m) = PassedOn(x)
    BY DEF ReadOf, PassedOn
  <1> HIDE DEF m, x
  <1>9. Accepts(x)
    BY <1>2, <1>6 DEF Accepts, ValidShape
  <1> QED BY <1>5, <1>7, <1>8, <1>9 DEF m, x

LEMMA TableIsAnswered ==
    TypedInv /\ TableInv => AnsweredAsMeant
  <1> SUFFICES ASSUME TypedInv, TableInv, Conforming,
                      stage \in {"malformed", "panics", "too_many", "rejected", "predict"}
               PROVE  /\ stage = IF Len(request.matrix) > cfg.maxRecords THEN "too_many" ELSE "predict"
                      /\ stage = "predict" => IsMeant(rows, request.matrix)
    BY DEF AnsweredAsMeant
  <1> DEFINE x == NumbersOf(request.matrix)
  <1>1. /\ ParseTabularMatrix(contentType) = Ok(x)
        /\ Accepts(x) /\ (Selecting => Reaches(x))
        /\ TensorShaped(PassedOn(x)) /\ Len(PassedOn(x)) = Len(request.matrix)
        /\ IsMeant(PassedOn(x), request.matrix)
    BY ConformingIsDecoded
  <1> HIDE DEF x
  <1>2. Tabular /\ contentType # ""
    BY DEF Conforming, WritesMatrix
  <1>3. \A y : y \in ParseTabularMatrix(contentType) <=> y = x
    BY <1>1 DEF Ok
  <1>4. stage \notin {"malformed", "panics"}
    BY <1>1, <1>2, <1>3 DEF TableInv
  <1>5. rows = PassedOn(x)
    BY <1>2, <1>3, <1>4 DEF TableInv, HasRows, HoldsRows, DecodedRows, Passes
  <1>6. stage # "rejected"
    BY <1>1, <1>2, <1>5 DEF TableInv
  <1>7. Len(request.matrix) \in Nat /\ cfg.maxRecords \in Nat
    BY SentBody, LenProperties, RecordLimitAssumption DEF TypedInv, cfg
  <1>8. stage = "too_many" => Len(request.matrix) > cfg.maxRecords
    BY <1>1, <1>2, <1>5 DEF TableInv
  <1>9. stage = "predict" => Len(request.matrix) <= cfg.maxRecords
    BY <1>1, <1>2, <1>5 DEF TableInv, HasRows, HoldsRows
  <1> QED BY <1>1, <1>4, <1>5, <1>6, <1>7, <1>8, <1>9

\* A body that conforms is read as it is meant, in every format, for every
\* configuration and every request: the model sees every record, in order, with
\* the columns the configuration names, unless they are more than max_records;
\* none is refused and none panics (lib.rs:61, input.rs:93, http.rs:155).
THEOREM TablesReachTheModel == Spec => []AnsweredAsMeant
  BY NothingLeftInit, NothingLeftStep, TypedInit, TypedStep, RecordsInit, RecordsStep,
     LimitInit, LimitStep, VectorsInit, VectorsStep, TableInit, TableStep, TableIsAnswered,
     PTL DEF Spec
-----------------------------------------------------------------------------
(* A body in whatever format.                                                *)

LEMMA NumberLine ==
    ASSUME NEW row \in Seq(Values), NEW doc, doc.type = "number", WritesLine(doc, row)
    PROVE  row = <<doc>>
  <1>1. doc # Array(row)
    BY DEF Array
  <1>2. Len(row) = 1 /\ doc = row[1]
    BY <1>1 DEF WritesLine, WritesRow, HasOnly
  <1> QED BY <1>2

LEMMA NumberRows ==
    ASSUME NEW m \in Seq(Seq(Values)), NEW doc, doc.type = "number", WritesRows(doc, m)
    PROVE  Len(m) = 1 /\ WritesLine(doc, m[1])
  <1>1. doc # Array([i \in DOMAIN m |-> Array(m[i])])
    BY DEF Array
  <1> QED BY <1>1 DEF WritesRows, WritesLine

\* A body that is not CSV and of which one line is a number: this line is read
\* alike as CSV.
LEMMA NumberIsRow ==
    ASSUME NEW m, m = request.matrix, m \in Seq(Seq(Values)),
           NEW docs, docs = request.docs, docs \in Seq(Values),
           WritesJson \/ WritesJsonl,
           NEW i \in DOMAIN docs, docs[i].type = "number"
    PROVE  i \in DOMAIN m /\ m[i] = <<docs[i]>> /\ Len(m) = Len(docs)
  <1>1. DOMAIN docs = 1..Len(docs) /\ DOMAIN m = 1..Len(m)
    BY LenProperties
  <1>2. CASE Len(docs) = Len(m) /\ WritesLine(docs[i], m[i])
    <2>1. i \in DOMAIN m
      BY <1>1, <1>2
    <2>2. m[i] \in Seq(Values)
      BY <1>1, <2>1, ElementOfSeq
    <2> QED BY <1>2, <2>1, <2>2, NumberLine
  <1>3. CASE Len(docs) = 1 /\ Len(m) = 1 /\ WritesLine(docs[1], m[1])
    <2>1. i = 1
      BY <1>1, <1>3
    <2> QED BY <1>2, <1>3, <2>1
  <1>4. CASE WritesJson
    <2>1. /\ Len(docs) = 1
          /\ \/ WritesRows(docs[1], m)
             \/ HasOnly(docs[1], "instances")
             \/ Len(m) = 1 /\ WritesLine(docs[1], m[1])
      BY <1>4 DEF WritesJson
    <2>2. i = 1
      BY <1>1, <2>1
    <2>3. docs[1].type = "number"
      BY <2>2
    <2>4. ~HasOnly(docs[1], "instances")
      BY <2>3 DEF HasOnly
    <2> QED BY <1>3, <2>1, <2>3, <2>4, NumberRows
  <1>5. CASE WritesJsonl
    <2>1. \/ Len(docs) = Len(m) /\ WritesLine(docs[i], m[i])
          \/ /\ Len(docs) = 1
             /\ WritesRows(docs[1], m) \/ HasOnly(docs[1], "features")
      BY <1>5 DEF WritesJsonl
    <2>2. CASE Len(docs) = 1 /\ (WritesRows(docs[1], m) \/ HasOnly(docs[1], "features"))
      <3>1. i = 1
        BY <1>1, <2>2
      <3>2. docs[1].type = "number"
        BY <3>1
      <3>3. ~HasOnly(docs[1], "features")
        BY <3>2 DEF HasOnly
      <3> QED BY <1>3, <2>2, <3>2, <3>3, NumberRows
    <2> QED BY <1>2, <2>1, <2>2
  <1> QED BY <1>4, <1>5

\* A CSV of which every line is JSON: of one number each.
LEMMA NumbersAsJsonl ==
    ASSUME NEW m, m = request.matrix, m \in Seq(Seq(Values)),
           NEW header, header = request.header, header \in Seq(Seq(Values)),
           NEW docs, docs = request.docs, docs \in Seq(Values),
           NEW kept, kept = WithoutBlankLines(request.lines),
           Len(docs) = Len(kept), WritesCsv,
           \A i \in DOMAIN docs : docs[i].type = "number" /\ kept[i] = <<docs[i]>>
    PROVE  WritesJsonl
  <1>1. kept = header \o m /\ (header # <<>> => Len(header) = 1 /\ ~AllNumbers(header[1]))
    BY DEF WritesCsv
  <1>2. header # <<>> => Len(header) = 1
    BY <1>1
  <1>3. header \in Seq(Seq(Values)) /\ m \in Seq(Seq(Values)) /\ kept = header \o m
    BY <1>1
  <1>4. /\ header = <<>> => kept = m
        /\ header # <<>> => kept # <<>> /\ kept[1] = header[1] /\ Tail(kept) = m
    BY ONLY <1>2, <1>3, HeaderAbove
  <1>5. header = <<>>
    <2>1. SUFFICES ASSUME header # <<>> PROVE FALSE
      OBVIOUS
    <2>2. kept # <<>> /\ kept[1] = header[1] /\ kept \in Seq(Seq(Values))
      BY <1>3, <1>4, <2>1, ConcatProperties
    <2>3. Len(kept) \in Nat \ {0}
      BY <2>2, EmptySeq, LenProperties
    <2>4. 1 \in DOMAIN docs
      BY <2>3, LenProperties
    <2>5. kept[1] = <<docs[1]>> /\ docs[1].type = "number"
      BY <2>4
    <2>6. AllNumbers(<<docs[1]>>)
      BY <2>5 DEF AllNumbers
    <2> QED BY <1>1, <2>1, <2>2, <2>5, <2>6
  <1>6. kept = m
    BY <1>4, <1>5
  <1>7. ASSUME NEW i \in DOMAIN docs PROVE WritesLine(docs[i], m[i])
    <2>1. m[i] = <<docs[i]>>
      BY <1>6
    <2>2. Len(m[i]) = 1 /\ docs[i] = m[i][1]
      BY <2>1
    <2> QED BY <2>2 DEF WritesLine, WritesRow
  <1> QED BY <1>5, <1>6, <1>7 DEF WritesJsonl

\* What FirstRowLost leaves of the client's matrix.
Sent(m) == IF FirstRowLost THEN Tail(m) ELSE m
IsSent(x, m) ==
    \/ m # <<>> /\ AllCells(Sent(m)) /\ x = NumbersOf(Sent(m))
    \/ m = <<>> /\ x = << <<>> >>

LEMMA ReadingIsSent ==
    ASSUME ~FirstRowLost, NEW m, NEW x \in Reading(m) PROVE IsSent(x, m)
  BY DEF Reading, Ok, Err, IsSent, Sent

\* The lines of a body that was written as of a type.
LEMMA LinesWritten ==
    ASSUME NEW type, WrittenAs(type), request.matrix \in Seq(Seq(Values)),
           NEW docs, docs = request.docs, docs \in Seq(Values),
           NEW kept, kept = WithoutBlankLines(request.lines)
    PROVE  /\ WritesMatrix(type) /\ PlainCells(request.matrix) /\ Len(docs) = Len(kept)
           /\ \A i \in DOMAIN docs :
                 \/ docs[i].type = "number" /\ kept[i] = <<docs[i]>>
                 \/ IF type = "csv" THEN docs[i].type = "other" ELSE ~AllNumbers(kept[i])
  BY DEF WrittenAs, PlainCells, PlainRow

\* Read as JSON or JSON Lines.
LEMMA SentAsJson ==
    ASSUME contentType \in {"json", "jsonl"}, NEW type, WrittenAs(type),
           request.matrix \in Seq(Seq(Values)), request.header \in Seq(Seq(Values)),
           request.docs \in Seq(Values),
           NEW x \in ParseTabularMatrix(contentType), x # <<>>
    PROVE  IsSent(x, request.matrix)
  <1> DEFINE m == request.matrix
             docs == request.docs
             kept == WithoutBlankLines(request.lines)
  <1>1. /\ WritesMatrix(type) /\ PlainCells(m) /\ Len(docs) = Len(kept)
        /\ \A i \in DOMAIN docs :
              \/ docs[i].type = "number" /\ kept[i] = <<docs[i]>>
              \/ IF type = "csv" THEN docs[i].type = "other" ELSE ~AllNumbers(kept[i])
    BY LinesWritten
  <1>2. ~FirstRowLost
    BY DEF FirstRowLost
  <1>3. x \in IF contentType = "json" THEN ParseJsonRows(docs) ELSE ParseJsonlRows(docs)
    BY DEF ParseTabularMatrix
  <1>4. CASE WritesJson
    <2>1. /\ ParseJsonRows(docs) = Reading(m)
          /\ ParseJsonlRows(docs) \in {Err, Reading(m)}
      BY <1>1, <1>4, JsonWritten
    <2>2. x \in Reading(m)
      BY <1>3, <2>1 DEF Err
    <2> QED BY <1>2, <2>2, ReadingIsSent
  <1>5. CASE WritesJsonl
    <2>1. /\ ParseJsonlRows(docs) = IF docs = <<>> THEN Ok(<<>>) ELSE Reading(m)
          /\ ParseJsonRows(docs) \in {Err, Reading(m)}
      BY <1>1, <1>5, JsonlWritten
    <2>2. x \in Reading(m)
      BY <1>3, <2>1 DEF Err, Ok
    <2> QED BY <1>2, <2>2, ReadingIsSent
  <1>6. CASE type = "csv"
    <2>1. WritesCsv
      BY <1>1, <1>6 DEF WritesMatrix
    <2>2. ASSUME NEW i \in DOMAIN docs PROVE docs[i].type = "number" /\ kept[i] = <<docs[i]>>
      <3>1. SUFFICES ASSUME docs[i].type = "other" PROVE FALSE
        BY <1>1, <1>6, <2>2
      <3>2. ~HasField(docs[i], "features") /\ ~HasField(docs[i], "instances")
        BY <3>1 DEF HasField
      <3>3. ValueToNumericRows(docs[i]) = Err
        BY <3>1 DEF ValueToNumericRows, IsMatrix
      <3>4. RowsField(docs[i]) = docs[i] /\ LineRows(docs[i]) = Err
        BY <3>2, <3>3 DEF RowsField, LineRows
      <3>5. contentType = "jsonl"
        <4>1. CASE contentType = "json"
          <5>1. Len(docs) = 1 /\ x \in ValueToNumericRows(RowsField(docs[1]))
            BY <1>3, <4>1 DEF ParseJsonRows, Err
          <5>2. DOMAIN docs = 1..1
            BY <5>1, LenProperties
          <5>3. i = 1
            BY <5>2
          <5> QED BY <3>3, <3>4, <5>1, <5>3 DEF Err
        <4> QED BY <4>1
      <3> QED BY <1>3, <3>4, <3>5 DEF ParseJsonlRows, Err
    <2>3. WritesJsonl
      BY <1>1, <2>1, <2>2, NumbersAsJsonl
    <2> QED BY <1>5, <2>3
  <1> QED BY <1>1, <1>4, <1>5, <1>6 DEF WritesMatrix

\* Read as CSV.
LEMMA SentAsCsv ==
    ASSUME contentType = "csv", NEW type, WrittenAs(type),
           NEW m, m = request.matrix, m \in Seq(Seq(Values)),
           NEW header, header = request.header, header \in Seq(Seq(Values)),
           NEW docs, docs = request.docs, docs \in Seq(Values),
           request.lines \in Seq(Seq(Values)),
           NEW x \in ParseTabularMatrix(contentType)
    PROVE  IsSent(x, m)
  <1> DEFINE kept == WithoutBlankLines(request.lines)
             lost == FirstLost(LinesRead(request.lines))
  <1>1. /\ WritesMatrix(type) /\ Len(docs) = Len(kept)
        /\ \A i \in DOMAIN docs :
              \/ docs[i].type = "number" /\ kept[i] = <<docs[i]>>
              \/ IF type = "csv" THEN docs[i].type = "other" ELSE ~AllNumbers(kept[i])
    BY LinesWritten
  <1>2. FirstRowLost <=> header = <<>> /\ lost
    BY DEF FirstRowLost, FirstLost, LinesRead, IsHeaderLine
  <1>3. x \in ParseCsvRows(request.lines)
    BY DEF ParseTabularMatrix
  <1>4. /\ kept \in Seq(Seq(Values)) /\ kept # <<>>
        /\ \/ lost /\ Tail(kept) # <<>> /\ AllCells(Tail(kept)) /\ x = NumbersOf(Tail(kept))
           \/ ~lost /\ AllCells(kept) /\ x = NumbersOf(kept)
    BY <1>3, CsvAccepted
  <1>5. WritesCsv => kept = header \o m /\ (header # <<>> => Len(header) = 1 /\ ~AllNumbers(header[1]))
    BY DEF WritesCsv
  <1> HIDE DEF kept, lost
  <1>6. /\ Len(kept) \in Nat \ {0} /\ DOMAIN kept = 1..Len(kept) /\ 1 \in DOMAIN kept
        /\ Tail(kept) \in Seq(Seq(Values)) /\ Len(Tail(kept)) = Len(kept) - 1
        /\ \A i \in DOMAIN Tail(kept) : i + 1 \in 2..Len(kept) /\ Tail(kept)[i] = kept[i + 1]
    BY <1>4, RowsBelow
  <1>7. CASE WritesCsv
    <2>1. header # <<>> => Len(header) = 1
      BY <1>5, <1>7
    <2>2. kept = header \o m
      BY <1>5, <1>7
    <2>3. /\ header = <<>> => kept = m
          /\ header # <<>> => kept # <<>> /\ kept[1] = header[1] /\ Tail(kept) = m
      <3>1. header \in Seq(Seq(Values)) /\ m \in Seq(Seq(Values))
        OBVIOUS
      <3> QED BY ONLY <2>1, <2>2, <3>1, HeaderAbove
    <2>4. header # <<>> => ~AllCells(kept)
      BY <1>5, <1>6, <1>7, <2>3 DEF AllCells
    <2>5. CASE header = <<>>
      BY <1>2, <1>4, <2>3, <2>5 DEF IsSent, Sent
    <2>6. CASE header # <<>>
      BY <1>2, <1>4, <2>3, <2>4, <2>6 DEF IsSent, Sent
    <2> QED BY <2>5, <2>6
  <1>8. CASE type # "csv"
    <2>1. (WritesJson \/ WritesJsonl) /\ header = <<>>
      BY <1>1, <1>8 DEF WritesMatrix, WritesJson, WritesJsonl
    <2>2. ASSUME NEW i \in DOMAIN kept, AllNumbers(kept[i])
          PROVE  i \in DOMAIN m /\ m[i] = kept[i] /\ Len(m) = Len(kept)
      <3>1. i \in DOMAIN docs
        BY <1>1, <1>6, LenProperties
      <3>2. docs[i].type = "number" /\ kept[i] = <<docs[i]>>
        BY <1>1, <1>8, <2>2, <3>1
      <3>3. i \in DOMAIN m /\ m[i] = <<docs[i]>> /\ Len(m) = Len(docs)
        BY <2>1, <3>1, <3>2, NumberIsRow
      <3> QED BY <1>1, <3>2, <3>3
    <2>3. CASE ~lost
      <3>1. \A i \in DOMAIN kept : AllNumbers(kept[i])
        BY <1>4, <2>3 DEF AllCells
      <3>2. Len(m) = Len(kept) /\ \A i \in DOMAIN kept : m[i] = kept[i]
        BY <1>6, <2>2, <3>1
      <3>3. \A i \in 1..Len(kept) : kept[i] = m[i]
        BY <1>6, <3>2
      <3>4. kept \in Seq(Seq(Values)) /\ m \in Seq(Seq(Values)) /\ Len(kept) = Len(m)
        BY <1>4, <1>6, <3>2
      <3>5. kept = m
        BY ONLY <3>3, <3>4, SeqEqual
      <3> QED BY <1>2, <1>4, <2>3, <3>5 DEF IsSent, Sent
    <2>4. CASE lost
      <3>1. Tail(kept) # <<>> /\ AllCells(Tail(kept)) /\ x = NumbersOf(Tail(kept))
        BY <1>4, <2>4
      <3>2. ASSUME NEW i \in DOMAIN Tail(kept)
            PROVE  i + 1 \in DOMAIN m /\ m[i + 1] = Tail(kept)[i] /\ Len(m) = Len(kept)
        <4>1. i + 1 \in DOMAIN kept /\ kept[i + 1] = Tail(kept)[i]
          BY <1>6
        <4>2. AllNumbers(kept[i + 1])
          BY <3>1, <4>1 DEF AllCells
        <4> QED BY <2>2, <4>1, <4>2
      <3>3. Len(m) = Len(kept) /\ m # <<>>
        <4>1. PICK i \in DOMAIN Tail(kept) : TRUE
          BY <1>6, <3>1, EmptySeq, LenProperties
        <4>2. DOMAIN <<>> = {}
          OBVIOUS
        <4> QED BY <3>2, <4>1, <4>2
      <3>4. /\ Tail(m) \in Seq(Seq(Values)) /\ Len(Tail(m)) = Len(m) - 1
            /\ DOMAIN Tail(m) = 1..(Len(m) - 1)
            /\ \A i \in DOMAIN Tail(m) : Tail(m)[i] = m[i + 1]
        BY <3>3, RowsBelow
      <3>5. DOMAIN Tail(kept) = 1..(Len(kept) - 1)
        BY <1>6, LenProperties
      <3>6. \A i \in DOMAIN Tail(kept) : Tail(m)[i] = Tail(kept)[i]
        BY <3>2, <3>3, <3>4, <3>5
      <3>7. Tail(m) = Tail(kept)
        BY <1>6, <3>3, <3>4, <3>5, <3>6, SeqEqual
      <3> QED BY <1>2, <2>1, <2>4, <3>1, <3>3, <3>7 DEF IsSent, Sent
    <2> QED BY <2>3, <2>4
  <1>9. type = "csv" => WritesCsv
    BY <1>1 DEF WritesMatrix
  <1> QED BY <1>7, <1>8, <1>9

\* A row without features has none to select.
LEMMA EmptyRowPasses ==
    ASSUME server \in Servers, NEW x, x = << <<>> >>, Accepts(x), Selecting => Reaches(x)
    PROVE  PassedOn(x) = x
  <1>1. CASE ~Selecting
    BY <1>1 DEF PassedOn
  <1>2. CASE Selecting
    <2>1. Len(x[1]) = 0 /\ 0 \in Nat /\ DOMAIN x = 1..1
      OBVIOUS
    <2>2. Idx(x) \in FeatureIdx(0)
      BY <1>2, <2>1 DEF Accepts, Idx, Only, Err
    <2>3. Idx(x) \in Seq(Nat)
      BY <2>1, <2>2, ColumnsType
    <2>4. ASSUME NEW k \in DOMAIN Idx(x) PROVE FALSE
      <3>1. Idx(x)[k] \in Nat
        BY <2>3, ElementOfSeq, LenProperties
      <3>2. Idx(x)[k] < 0
        BY <1>2, <2>1 DEF Reaches
      <3> QED BY <3>1, <3>2
    <2>5. DOMAIN Idx(x) = {}
      BY <2>4
    <2>6. Selected(x) = [i \in 1..1 |-> [k \in {} |-> x[i][Idx(x)[k] + 1]]]
      BY <2>1, <2>5 DEF Selected
    <2>7. ASSUME NEW i PROVE [k \in {} |-> x[i][Idx(x)[k] + 1]] = <<>>
      OBVIOUS
    <2>8. Selected(x) = [i \in 1..1 |-> <<>>]
      BY <2>6, <2>7
    <2>9. [i \in 1..1 |-> <<>>] = << <<>> >>
      OBVIOUS
    <2> QED BY <1>2, <2>8, <2>9 DEF PassedOn
  <1> QED BY <1>1, <1>2

\* What the model gets of a body that was written as of a type.
LEMMA SentIsRead ==
    ASSUME TypedInv, TableInv, stage # "idle", DecodedRows, TensorShaped(rows),
           NEW type, WrittenAs(type)
    PROVE  LET m == request.matrix
           IN  \/ m # <<>> /\ AllCells(Sent(m)) /\ IsMeant(rows, Sent(m))
               \/ m = <<>> /\ rows = << <<>> >>
  <1> DEFINE m == request.matrix
             s == Sent(m)
  <1>1. PICK x \in ParseTabularMatrix(contentType) :
            Accepts(x) /\ (Selecting => Reaches(x)) /\ rows = PassedOn(x)
    BY DEF DecodedRows, Passes
  <1>2. x # <<>>
    BY <1>1 DEF Accepts, ValidShape
  <1>3. /\ m \in Seq(Seq(Values)) /\ request.header \in Seq(Seq(Values))
        /\ request.lines \in Seq(Seq(Values)) /\ request.docs \in Seq(Values)
    BY SentBody
  <1>4. contentType \in {"csv", "json", "jsonl"}
    BY DEF ParseTabularMatrix, Err
  <1>5. IsSent(x, m)
    <2>1. CASE contentType = "csv"
      BY <1>3, <2>1, SentAsCsv
    <2>2. CASE contentType \in {"json", "jsonl"}
      BY <1>2, <1>3, <2>2, SentAsJson
    <2> QED BY <1>4, <2>1, <2>2
  <1>6. CASE m = <<>>
    <2>1. x = << <<>> >>
      BY <1>5, <1>6 DEF IsSent
    <2> QED BY <1>1, <1>6, <2>1, EmptyRowPasses DEF TypedInv
  <1>7. CASE m # <<>>
    <2>1. AllCells(s) /\ x = NumbersOf(s)
      BY <1>5, <1>7 DEF IsSent
    <2>2. s \in Seq(Seq(Values))
      BY <1>3, <1>7, HeadTailProperties DEF Sent
    <2> HIDE DEF s
    <2>3. s # <<>>
      <3>1. s = <<>> => DOMAIN x = {}
        BY <2>1 DEF NumbersOf
      <3>2. DOMAIN x = 1..Len(x) /\ Len(x) \in Nat
        BY <2>1, <2>2, NumbersOfType
      <3>3. x \in Matrices
        BY <2>1, <2>2, NumbersOfType
      <3>4. Len(x) # 0
        BY <1>2, <3>3, EmptySeq DEF Matrices
      <3>5. 1 \in DOMAIN x
        <4>1. PICK n \in Nat : n = Len(x)
          BY <3>2
        <4>2. n # 0 /\ DOMAIN x = 1..n
          BY <3>2, <3>4, <4>1
        <4> QED BY <4>2
      <3> QED BY <3>1, <3>5
    <2>4. /\ DOMAIN x = DOMAIN s /\ \A i \in DOMAIN s : Len(x[i]) = Len(s[i])
          /\ 1 \in DOMAIN s
      BY <2>1, <2>2, <2>3, NumbersOfType
    <2>5. Selecting => FeatureIdx(Len(s[1])) # Err /\ Reaches(x)
      BY <1>1, <2>4 DEF Accepts
    <2>6. ~Selecting => Rectangular(s)
      BY <1>1, <2>4 DEF PassedOn, TensorShaped, Rectangular
    <2>7. rows = ReadOf(s)
      BY <1>1, <2>1 DEF PassedOn, ReadOf
    <2>8. IsMeant(ReadOf(s), s)
      BY <2>1, <2>2, <2>3, <2>5, <2>6, ReadIsMeant DEF TypedInv
    <2> QED BY <1>7, <2>1, <2>7, <2>8 DEF s
  <1> QED BY <1>6, <1>7

LEMMA SentIsAccepted ==
    TypedInv /\ TableInv => AcceptedIsWhatWasSent
  <1> SUFFICES ASSUME TypedInv, TableInv, stage = "predict", Tabular,
                      NEW type, WrittenAs(type)
               PROVE  LET m == request.matrix
                      IN  \/ ~FirstRowLost /\ m # <<>> /\ AllCells(m) /\ IsMeant(rows, m)
                          \/ FirstRowLost /\ m # <<>> /\ AllCells(Tail(m)) /\ IsMeant(rows, Tail(m))
                          \/ m = <<>> /\ rows = << <<>> >>
    BY DEF AcceptedIsWhatWasSent
  <1>1. DecodedRows /\ TensorShaped(rows)
    BY DEF TableInv, HasRows, HoldsRows
  <1> QED BY <1>1, SentIsRead DEF Sent

\* Whatever the model gets is what the client sent, also when the body is read
\* in a format the client did not write it in, but for the first row of a CSV
\* that passes for a header, and an empty JSON list, which counts as a record
\* without features (input.rs:267).
THEOREM NothingElseReachesTheModel == Spec => []AcceptedIsWhatWasSent
  BY NothingLeftInit, NothingLeftStep, TypedInit, TypedStep, RecordsInit, RecordsStep,
     LimitInit, LimitStep, VectorsInit, VectorsStep, TableInit, TableStep, SentIsAccepted,
     PTL DEF Spec
-----------------------------------------------------------------------------
(* From the records to the predictions.                                      *)

\* There are as many records as the batch size says.
BatchOfRecords == \E records \in LoadMultiInputRecords(contentType) : batch = Len(records)
CountInv == HoldsRows /\ Mapped => BatchOfRecords

LEMMA CountStays ==
    ASSUME CountInv, UNCHANGED <<server, request, contentType, batch>>, HoldsRows' => HoldsRows
    PROVE  CountInv'
  <1>1. LoadMultiInputRecords(contentType)' = LoadMultiInputRecords(contentType)
    BY DEF LoadMultiInputRecords
  <1> QED BY <1>1, MappedStays DEF CountInv, BatchOfRecords

LEMMA ToRowsCounts ==
    ASSUME TypedInv, RecordsInv, LimitInv, ToRows PROVE CountInv'
  <1>1. /\ stage = "rows" /\ UNCHANGED <<server, request, contentType, batch>>
    BY DEF ToRows, Goto, Advance, sessionVars, mediaVars, inputVars
  <1> SUFFICES ASSUME Mapped PROVE CountInv'
    BY <1>1, MappedStays DEF CountInv
  <1>2. PICK records \in LoadMultiInputRecords(contentType), last \in [InputNames -> DOMAIN cfg.inputMap] :
            /\ \A key \in DOMAIN cfg.inputMap : HasColumn(records, key)
            /\ tensors = [name \in InputNames |-> Column(records, last[name])]
    BY <1>1 DEF RecordsInv, HoldsTensors, BuiltFromRecords
  <1>3. PICK name \in InputNames : TRUE
    BY DEF Mapped, ShouldUseOnnxMultiInput, InputNames, Range
  <1>4. /\ name \in DOMAIN tensors /\ tensors[name] = Column(records, last[name])
        /\ HasColumn(records, last[name])
    BY <1>2, <1>3
  <1>5. Len(tensors[name]) = Len(records)
    BY <1>1, <1>4, BodyType, ColumnType
  <1>6. batch \in BatchSize(rows, tensors)
    BY <1>1 DEF LimitInv, HoldsTensors, Ok
  <1>7. batch = Len(tensors[name])
    <2>1. /\ rows \in Matrices /\ \A other \in DOMAIN tensors : tensors[other] \in Seq(Values)
      BY DEF TypedInv
    <2>2. IF DOMAIN tensors = {} THEN batch = Len(rows)
          ELSE batch # 0 /\ \A other \in DOMAIN tensors : batch = Len(tensors[other])
      BY <1>6, <2>1, BatchSizeType
    <2> QED BY <1>4, <2>2
  <1>8. LoadMultiInputRecords(contentType)' = LoadMultiInputRecords(contentType)
    BY <1>1 DEF LoadMultiInputRecords
  <1> QED BY <1>1, <1>5, <1>7, <1>8 DEF CountInv, BatchOfRecords

LEMMA CountStep ==
    ASSUME NothingLeft, TypedInv, RecordsInv, LimitInv, CountInv, [Next]_vars PROVE CountInv'
  <1>1. CASE Send \/ NextRequest \/ ReplyHttp \/ ReplyGrpc
    BY <1>1 DEF Send, NextRequest, ReplyHttp, ReplyGrpc, CountInv, HoldsRows
  <1>2. CASE RefuseLoadError \/ CheckSize \/ AcquirePermit \/ ResolveMediaTypes \/ Ensure
    BY <1>2
    DEF RefuseLoadError, CheckSize, AcquirePermit, ResolveMediaTypes, Ensure, Goto, AfterMedia,
        AfterEnsure, CountInv, HoldsRows
  <1>3. CASE ParseStep
    BY <1>3
    DEF ParseStep, Dispatch, TabularStep, Decode, CheckShape, Select, ParseMultiInput,
        BuildTensors, Built, Goto, Advance, CountInv, HoldsRows
  <1>4. CASE CheckBatch
    BY <1>4 DEF CheckBatch, Sized, AfterBatch, Goto, Advance, CountInv, HoldsRows
  <1>5. CASE ToRows
    BY <1>5, ToRowsCounts
  <1>6. CASE RowsToTensor \/ Run \/ OutputStep
    BY <1>6, CountStays
    DEF RowsToTensor, Run, OutputStep, Choose, Format, Goto, Advance, sessionVars, mediaVars,
        inputVars, HoldsRows
  <1>7. CASE UNCHANGED vars
    BY <1>7, CountStays DEF vars, sessionVars, mediaVars, inputVars, HoldsRows
  <1> QED BY <1>1, <1>2, <1>3, <1>4, <1>5, <1>6, <1>7, HandlerCases DEF Next, ParsedInputStep

\* Records that have vectors under every mapped key are the rows of the model,
\* as many as the batch size says.
LEMMA RecordsAreTheRows ==
    ASSUME TypedInv, RecordsInv, CountInv, HoldsRows, Mapped, SentOneByOne
    PROVE  /\ \E key \in DOMAIN cfg.inputMap : RowsAre(request.records, key)
           /\ batch = Len(rows)
  <1> DEFINE R == request.records
  <1>1. stage # "idle" /\ R # <<>> /\ WritesRecords(contentType)
    BY DEF HoldsRows, SentOneByOne
  <1>2. \A key \in DOMAIN cfg.inputMap : HasColumn(R, key) /\ Vectors(R, key)
    BY DEF SentOneByOne
  <1>3. PICK S : R \in Seq(S)
    BY <1>1, RequestAssumption DEF TypedInv
  <1>4. request.docs \in Seq(Values)
    BY <1>1, BodyType
  <1>5. LoadMultiInputRecords(contentType) = Ok(R)
    BY <1>1, <1>3, <1>4, RecordsAreRead
  <1> HIDE DEF R
  <1>6. PICK key \in DOMAIN cfg.inputMap :
            \/ RowsAre(R, key)
            \/ AllNumbers(Column(R, key))
    BY <1>5 DEF RecordsInv, RowsFromOneKey, Ok
  <1>7. Len(R) \in Nat /\ DOMAIN R = 1..Len(R) /\ 1 \in DOMAIN R
    BY <1>1, <1>3, EmptySeq, LenProperties DEF R
  <1>8. ~AllNumbers(Column(R, key))
    <2>1. R[1][key].type = "array"
      BY <1>2, <1>7 DEF Vectors
    <2>2. 1 \in DOMAIN Column(R, key) /\ Column(R, key)[1] = R[1][key]
      BY <1>7 DEF Column
    <2> QED BY <2>1, <2>2 DEF AllNumbers
  <1>9. RowsAre(R, key)
    BY <1>6, <1>8
  <1>10. Len(rows) = Len(R)
    BY <1>7, <1>9 DEF RowsAre
  <1>11. batch = Len(R)
    BY <1>5 DEF CountInv, BatchOfRecords, Ok
  <1> QED BY <1>9, <1>10, <1>11 DEF R

LEMMA TableIsTheRows ==
    ASSUME TypedInv, LimitInv, TableInv, stage = "ok", ~Mapped, SentOneByOne
    PROVE  IsMeant(rows, request.matrix) /\ batch = Len(rows)
  <1>1. HoldsRows /\ stage # "idle"
    BY DEF HoldsRows
  <1>2. Tabular
    BY <1>1 DEF TableInv, HasRows, Tabular
  <1>3. DecodedRows /\ TensorShaped(rows)
    BY <1>1, <1>2 DEF TableInv, HasRows
  <1>4. PICK type : WrittenAs(type)
    BY DEF SentOneByOne
  <1>5. ~FirstRowLost /\ request.matrix # <<>>
    BY DEF SentOneByOne
  <1>6. IsMeant(rows, request.matrix)
    BY <1>1, <1>3, <1>4, <1>5, SentIsRead DEF Sent
  <1>7. batch = Len(rows)
    BY <1>1 DEF LimitInv
  <1> QED BY <1>6, <1>7

\* The items of a tensor of rank 1.
LEMMA ItemsOfVector ==
    ASSUME NEW t, Len(t.shape) = 1, NEW n \in Nat, NEW alone, alone = [i \in 1..n |-> alone[i]],
           t.data = alone
    PROVE  CsvLines(TensorToJson(t)) = [i \in 1..n |-> Elements(<<alone[i]>>)]
  <1> DEFINE e == Elements(t.data)
             v == TensorToJson(t)
             Element(a) == IF a = NaN THEN Other ELSE Number(a)
  <1>1. DOMAIN t.data = 1..n
    OBVIOUS
  <1>2. e = [i \in 1..n |-> Element(alone[i])]
    BY <1>1 DEF Elements
  <1>3. v.items = e
    BY DEF TensorToJson, Array
  <1>4. \A a : Element(a).type # "array"
    BY DEF Other, Number
  <1>5. \A a : Elements(<<a>>) = <<Element(a)>>
    BY DEF Elements
  <1> HIDE DEF v, e, Element
  <1>6. ~IsMatrix(v)
    <2>1. SUFFICES ASSUME v.items # <<>> PROVE v.items[1].type # "array"
      BY DEF IsMatrix
    <2>2. n # 0
      <3>1. n = 0 => v.items = <<>>
        BY <1>2, <1>3
      <3> QED BY <2>1, <3>1
    <2>3. 1 \in 1..n
      BY <2>2
    <2> QED BY <1>2, <1>3, <1>4, <2>3
  <1>7. CsvLines(v) = [i \in 1..n |-> <<e[i]>>]
    BY <1>2, <1>3, <1>6 DEF CsvLines
  <1>8. \A i \in 1..n : <<e[i]>> = Elements(<<alone[i]>>)
    BY <1>2, <1>5
  <1> QED BY <1>7, <1>8 DEF v

LEMMA ItemsAreAlone ==
    ASSUME TypedInv, ItemInv, stage = "ok", RowByRow(rows), NEW key \in DOMAIN value
    PROVE  LET o == Chosen(Len(outputs))[key] + 1
           IN  ItemsOf(key) = [i \in DOMAIN rows |-> Elements(<<Alone(o, rows[i])>>)]
  <1> DEFINE o == Chosen(Len(outputs))[key] + 1
             t == Output(outputs, key)
             alone == [i \in DOMAIN rows |-> Alone(o, rows[i])]
  <1>1. o \in DOMAIN outputs /\ t = outputs[o] /\ ItemsOf(key) = CsvLines(TensorToJson(t))
    BY ItemsAreLines DEF Output
  <1>2. outputs \in Infer(server.model, rows)
    BY DEF ItemInv
  <1> HIDE DEF o
  <1>3. t.shape = <<Len(rows)>> /\ t.data = alone
    BY <1>1, <1>2 DEF RowByRow
  <1>4. Len(t.shape) = 1
    BY <1>3
  <1>5. PICK n \in Nat : DOMAIN rows = 1..n
    BY LenProperties DEF TypedInv, Matrices
  <1>6. alone = [i \in 1..n |-> alone[i]]
    BY <1>5
  <1>7. \A i \in 1..n : alone[i] = Alone(o, rows[i])
    BY <1>5
  <1> HIDE DEF t, alone
  <1>8. CsvLines(TensorToJson(t)) = [i \in 1..n |-> Elements(<<alone[i]>>)]
    <2>1. n \in Nat /\ t.data = alone
      BY <1>3
    <2> QED BY ONLY <1>4, <1>6, <2>1, ItemsOfVector
  <1> QED BY <1>1, <1>5, <1>7, <1>8 DEF o

LEMMA PredictionsBelong ==
    TypedInv /\ RecordsInv /\ LimitInv /\ TableInv /\ CountInv /\ ItemInv => PredictionsBelongToRecords
  <1> SUFFICES ASSUME TypedInv, RecordsInv, LimitInv, TableInv, CountInv, ItemInv,
                      stage = "ok", SentOneByOne, RowByRow(rows)
               PROVE  /\ IF Mapped THEN \E key \in DOMAIN cfg.inputMap : RowsAre(request.records, key)
                         ELSE IsMeant(rows, request.matrix)
                      /\ batch = Len(rows)
                      /\ \A key \in DOMAIN value :
                            LET o == Chosen(Len(outputs))[key] + 1
                            IN  ItemsOf(key) = [i \in DOMAIN rows |-> Elements(<<Alone(o, rows[i])>>)]
    BY DEF PredictionsBelongToRecords
  <1>1. HoldsRows
    BY DEF HoldsRows
  <1>2. CASE Mapped
    BY <1>1, <1>2, RecordsAreTheRows, ItemsAreAlone
  <1>3. CASE ~Mapped
    BY <1>3, TableIsTheRows, ItemsAreAlone
  <1> QED BY <1>2, <1>3

\* Batching changes nothing, for every model that predicts row by row, every
\* configuration and every request: the answer has one item per record, in
\* their order, each the prediction that the record would get in a request of
\* its own, and the batch size is their number (http.rs:171,
\* grpc_service.rs:145).
THEOREM BatchingChangesNothing == Spec => []PredictionsBelongToRecords
  <1>1. Init => CountInv
    BY DEF Init, CountInv, HoldsRows
  <1> QED
    BY <1>1, NothingLeftInit, NothingLeftStep, TypedInit, TypedStep, RecordsInit, RecordsStep,
       LimitInit, LimitStep, VectorsInit, VectorsStep, TableInit, TableStep, CountStep,
       ItemInit, ItemStep, PredictionsBelong, PTL DEF Spec
=============================================================================
