----------------------------- MODULE TabularInput -----------------------------
(***************************************************************************)
(* The stages that turn the body of a tabular request into ParsedInput.x    *)
(* (the second half of AppState::parse_payload):                            *)
(*                                                                          *)
(*   decode -> check shape -> select columns                                *)
(*                                                                          *)
(* They read from a configuration                                           *)
(*   header            CSV_HAS_HEADER: "auto", "true", "false" or "other"   *)
(*   skipBlank         CSV_SKIP_BLANK_LINES                                 *)
(*   numFeatures       TABULAR_NUM_FEATURES, 0 for any number               *)
(*   features, ids     TABULAR_FEATURE_COLUMNS, TABULAR_ID_COLUMNS          *)
(* and from a request                                                       *)
(*   lines             its lines, each the sequence of its fields           *)
(*   docs              its lines that are not blank as JSON documents       *)
(***************************************************************************)
EXTENDS Prediction

\* Column selectors: unset, a:b with either end optional, a list, nonsense.
Unset        == [kind |-> "unset", from |-> 0, to |-> {}, list |-> <<>>]
Slice(a, to) == [kind |-> "slice", from |-> a, to |-> to, list |-> <<>>]
Columns(s)   == [kind |-> "list", from |-> 0, to |-> {}, list |-> s]
Nonsense     == [kind |-> "nonsense", from |-> 0, to |-> {}, list |-> <<>>]

ASSUME SelectorAssumption ==
    \A s \in Servers : \A sel \in {s.cfg.features, s.cfg.ids} :
        /\ sel.from \in Nat /\ sel.list \in Seq(Nat)
        /\ sel.to \subseteq Nat /\ \A m, n \in sel.to : m = n
        /\ sel.kind = "unset" => sel = Unset
-----------------------------------------------------------------------------
(* The decoders.                                                            *)

BlankLine == <<[Other EXCEPT !.type = "blank"]>>
WithoutBlankLines(lines) == Without(lines, {BlankLine})

\* Fault: the first line is a header when its first field is no number.
FirstFieldIsHeader(line) == line[1].type # "number"
CsvFirstRowIsHeader(line) == \E i \in DOMAIN line : line[i].type # "number"

\* The lines after the header, if there is one.
CsvBody(lines) ==
    IF \/ cfg.header = "true"
       \/ cfg.header = "auto" /\ CsvFirstRowIsHeader(lines[1])
    THEN Tail(lines) ELSE lines

ParseCsvRows(lines) ==
    LET kept == IF cfg.skipBlank THEN WithoutBlankLines(lines) ELSE lines
    IN  IF /\ kept # <<>>
           /\ cfg.header \in {"auto", "true", "false"}
           /\ CsvBody(kept) # <<>>
           /\ \A i \in DOMAIN CsvBody(kept) : AllNumbers(CsvBody(kept)[i])
        THEN Ok([i \in DOMAIN CsvBody(kept) |-> Numbers(CsvBody(kept)[i])])
        ELSE Err

\* "instances" holds the rows; "features" holds one row.
RowsField(doc) ==
    IF HasField(doc, "instances") THEN doc.fields["instances"]
    ELSE IF HasField(doc, "features") THEN Array(<<doc.fields["features"]>>)
    ELSE doc

ParseJsonRows(docs) ==
    IF Len(docs) # 1 THEN Err ELSE ValueToNumericRows(RowsField(docs[1]))

\* A line holds rows, or "features" that hold rows.
LineRows(doc) ==
    ValueToNumericRows(IF HasField(doc, "features") THEN doc.fields["features"] ELSE doc)

ParseJsonlRows(docs) ==
    IF \E i \in DOMAIN docs : LineRows(docs[i]) = Err THEN Err
    ELSE Ok(FlattenSeq([i \in DOMAIN docs |-> Only(LineRows(docs[i]))]))

ParseTabularMatrix(type) ==
    CASE type = "csv"   -> ParseCsvRows(request.lines)
      [] type = "json"  -> ParseJsonRows(request.docs)
      [] type = "jsonl" -> ParseJsonlRows(request.docs)
      [] OTHER -> Err

\* validate_tabular_matrix_shape: some row, and the first of the right length.
ValidShape(m) == m # <<>> /\ (cfg.numFeatures > 0 => Len(m[1]) = cfg.numFeatures)
-----------------------------------------------------------------------------
(* Feature selection; columns count from 0.                                 *)

Least(a, b) == IF a < b THEN a ELSE b

\* Fault: the end of a:b is taken as it is configured.
UnboundedSliceColumns(sel, n) ==
    LET end == IF sel.to = {} THEN n ELSE Only(sel.to)
        start == Least(sel.from, end)
    IN  [i \in 1..(end - start) |-> start + i - 1]

SliceColumns(sel, n) ==
    LET end == IF sel.to = {} THEN n ELSE Least(Only(sel.to), n)
        start == Least(sel.from, end)
    IN  [i \in 1..(end - start) |-> start + i - 1]

ParseColSelector(sel, n) ==
    CASE sel.kind = "unset" -> Ok([i \in 1..n |-> i - 1])
      [] sel.kind = "slice" -> Ok(SliceColumns(sel, n))
      [] sel.kind = "list"  -> Ok(sel.list)
      [] OTHER -> Err

ColumnsWithout(ids, n) == Without([i \in 1..n |-> i - 1], ToSet(ids))

\* The columns that go to the model, of a matrix whose first row has n.
FeatureIdx(n) ==
    IF cfg.features # Unset THEN ParseColSelector(cfg.features, n)
    ELSE {ColumnsWithout(ids, n) : ids \in ParseColSelector(cfg.ids, n)}

Selecting == cfg.features # Unset \/ cfg.ids # Unset

\* The columns are worked out from the first row, and index every row.
Idx(m)     == Only(FeatureIdx(Len(m[1])))
Reaches(m) == \A i \in DOMAIN m : \A k \in DOMAIN Idx(m) : Idx(m)[k] < Len(m[i])
Selected(m) == [i \in DOMAIN m |-> [k \in DOMAIN Idx(m) |-> m[i][Idx(m)[k] + 1]]]
-----------------------------------------------------------------------------
Decode ==
    /\ stage = "decode"
    /\ IF ParseTabularMatrix(contentType) = Err THEN Goto("malformed")
       ELSE /\ rows' = Only(ParseTabularMatrix(contentType))
            /\ Advance("shape") /\ UNCHANGED <<tensors, batch, outputVars>>

CheckShape ==
    /\ stage = "shape"
    /\ IF ValidShape(rows) THEN Goto("select") ELSE Goto("malformed")

\* apply_feature_selection
Select ==
    /\ stage = "select"
    /\ \/ ~Selecting /\ Goto("batch")
       \/ Selecting /\ FeatureIdx(Len(rows[1])) = Err /\ Goto("malformed")
       \/ Selecting /\ FeatureIdx(Len(rows[1])) # Err /\ ~Reaches(rows) /\ Goto("panics")
       \/ /\ Selecting /\ FeatureIdx(Len(rows[1])) # Err /\ Reaches(rows)
          /\ rows' = Selected(rows)
          /\ Advance("batch") /\ UNCHANGED <<tensors, batch, outputVars>>

TabularStep == Decode \/ CheckShape \/ Select
-----------------------------------------------------------------------------
(* What the client means: a matrix of cells, which are numbers or some text,  *)
(* and for CSV perhaps a header above it.                                    *)

\* JSON for a row, and for rows.
WritesRow(v, row)  == v = Array(row) \/ (Len(row) = 1 /\ v = row[1])
WritesRows(v, m)   == \/ v = Array([i \in DOMAIN m |-> Array(m[i])])
                      \/ Len(m) = 1 /\ WritesRow(v, m[1])
HasOnly(v, key)    == v.type = "object" /\ DOMAIN v.fields = {key}
WritesLine(v, row) == \/ WritesRow(v, row)
                      \/ HasOnly(v, "features") /\ WritesRow(v.fields["features"], row)

\* A header is told from a row by a cell that is no number.
WritesCsv ==
    /\ WithoutBlankLines(request.lines) = request.header \o request.matrix
    /\ request.header # <<>> => Len(request.header) = 1 /\ ~AllNumbers(request.header[1])

\* Rows, bare or under "instances", or one row under "features".
WritesJson ==
    /\ Len(request.docs) = 1 /\ request.header = <<>>
    /\ LET doc == request.docs[1]
       IN  \/ WritesRows(doc, request.matrix)
           \/ HasOnly(doc, "instances") /\ WritesRows(doc.fields["instances"], request.matrix)
           \/ Len(request.matrix) = 1 /\ WritesLine(doc, request.matrix[1])

\* A line per row, or one line for all of them, bare or under "features".
WritesJsonl ==
    /\ request.header = <<>>
    /\ \/ /\ Len(request.docs) = Len(request.matrix)
          /\ \A i \in DOMAIN request.docs : WritesLine(request.docs[i], request.matrix[i])
       \/ /\ Len(request.docs) = 1
          /\ LET doc == request.docs[1]
             IN  \/ WritesRows(doc, request.matrix)
                 \/ HasOnly(doc, "features") /\ WritesRows(doc.fields["features"], request.matrix)

\* The body, if it is read as of this type, is the client's matrix.
WritesMatrix(type) ==
    \/ type = "csv" /\ WritesCsv
    \/ type = "json" /\ WritesJson
    \/ type = "jsonl" /\ WritesJsonl

AllCells(m) == \A i \in DOMAIN m : AllNumbers(m[i])
-----------------------------------------------------------------------------
(* What the configuration asks for: the columns that go to the model when    *)
(* rows have n, counted from 1, in the order listed or else as they are.     *)

Names(sel, col) ==
    \/ sel.kind = "list" /\ Contains(sel.list, col)
    \/ sel.kind = "slice" /\ sel.from <= col /\ \A end \in sel.to : col < end
Kept(n) == {k \in 1..n : IF cfg.features = Unset THEN ~Names(cfg.ids, k - 1)
                         ELSE Names(cfg.features, k - 1)}
AreMeant(columns, n) ==
    IF cfg.features.kind = "list"
    THEN columns = [k \in DOMAIN cfg.features.list |-> cfg.features.list[k] + 1]
    ELSE /\ {columns[k] : k \in DOMAIN columns} = Kept(n)
         /\ \A j, k \in DOMAIN columns : j < k => columns[j] < columns[k]

IsMeantRow(t, row, n) ==
    \E columns \in [DOMAIN t -> DOMAIN row] :
        AreMeant(columns, n) /\ \A k \in DOMAIN t : row[columns[k]] = Number(t[k])
IsMeant(t, m) ==
    /\ Len(t) = Len(m)
    /\ \A i \in DOMAIN m : IsMeantRow(t[i], m[i], Len(m[1]))

\* The body goes the tabular way.
Tabular == ValidInputMode /\ cfg.mapIsJson /\ ~Mapped

\* The client wrote a table of numbers the way the server is configured to
\* read it, with the columns the configuration names.
Conforming ==
    LET m == request.matrix
    IN  /\ Tabular /\ WritesMatrix(contentType)
        /\ m # <<>> /\ Rectangular(m) /\ AllCells(m)
        /\ cfg.numFeatures \in {0, Len(m[1])}
        /\ contentType = "csv" =>
              /\ cfg.header \in (IF request.header = <<>> THEN {"auto", "false"} ELSE {"auto", "true"})
              /\ cfg.skipBlank \/ BlankLine \notin ToSet(request.lines)
        /\ Selecting => FeatureIdx(Len(m[1])) # Err
        /\ \A c \in ToSet(cfg.features.list) : c < Len(m[1])

\* A body that conforms is read as it is meant, in every format: the model
\* sees every record, in order, with the columns the configuration names,
\* unless they are more than max_records; none is refused and none panics
\* (lib.rs:61, input.rs:93, http.rs:155).
AnsweredAsMeant ==
    stage \in {"malformed", "panics", "too_many", "rejected", "predict"} /\ Conforming =>
        /\ stage = IF Len(request.matrix) > cfg.maxRecords THEN "too_many" ELSE "predict"
        /\ stage = "predict" => IsMeant(rows, request.matrix)

\* The body was written as of this type.  Its lines are as many as its
\* documents: a number is the same in both; nothing else that is JSON is a line
\* of numbers, and nothing else in a CSV is JSON.
WrittenAs(type) ==
    LET lines == WithoutBlankLines(request.lines)
        docs  == request.docs
    IN  /\ WritesMatrix(type)
        /\ \A i \in DOMAIN request.matrix : \A k \in DOMAIN request.matrix[i] :
              request.matrix[i][k].type \in {"number", "other"}
        /\ Len(docs) = Len(lines)
        /\ \A i \in DOMAIN docs :
              \/ docs[i].type = "number" /\ lines[i] = <<docs[i]>>
              \/ /\ docs[i].type # "number"
                 /\ IF type = "csv" THEN docs[i].type = "other" ELSE ~AllNumbers(lines[i])

\* The first row is taken for a header: because the configuration says there
\* is one, or because it holds something that is not a number.
FirstRowLost ==
    LET read == IF cfg.skipBlank THEN WithoutBlankLines(request.lines) ELSE request.lines
    IN  /\ contentType = "csv" /\ request.header = <<>>
        /\ read # <<>> /\ read[1] # BlankLine
        /\ cfg.header = "true" \/ (cfg.header = "auto" /\ CsvFirstRowIsHeader(read[1]))

\* Whatever the model gets is what the client sent, also when the body is
\* read in a format the client did not write it in: no cell moves to another
\* record or column, nothing that is not a number is skipped or replaced.  Two
\* exceptions: a CSV whose first row passes for a header loses it, and an
\* empty JSON list counts as one record without features (input.rs:267).
AcceptedIsWhatWasSent ==
    LET m == request.matrix
    IN  stage = "predict" /\ Tabular /\ (\E type \in {"csv", "json", "jsonl"} : WrittenAs(type)) =>
            \/ ~FirstRowLost /\ m # <<>> /\ AllCells(m) /\ IsMeant(rows, m)
            \/ FirstRowLost /\ m # <<>> /\ AllCells(Tail(m)) /\ IsMeant(rows, Tail(m))
            \/ m = <<>> /\ rows = << <<>> >>

\* Column slices and id columns never reach past the end of a row: the handler
\* panics only for a row that lacks a column which a feature list names or, if
\* there is no such list, for one that is shorter than the first row
\* (input.rs:109), unless it panics for every request (http.rs:136).
PanicsOnlyPastTheRow ==
    stage = "panics" /\ cfg.timeoutFits =>
        \E i \in DOMAIN rows :
            IF cfg.features.kind = "list"
            THEN \E col \in ToSet(cfg.features.list) : col >= Len(rows[i])
            ELSE Len(rows[i]) < Len(rows[1])

\* The documented answers to a request are 200, 400, 413, 429 and 500
\* (docs/openapi.yaml:183-231): an invalid payload is answered, with 400.
EveryPayloadAnswered == stage # "panics"

\* "Input rows have inconsistent feature counts" (adapter.rs:86): a ragged
\* matrix is an error and does not reach the model, when nothing of it was
\* dropped as a header (input.rs:309).
RaggedNeverPredicted ==
    stage = "predict" /\ ~FirstRowLost => Rectangular(request.matrix)
=============================================================================
