----------------------------- MODULE MCInvocation -----------------------------
(* Small instances of Invocation for TLC.  A server has a focus, which says   *)
(* what of it and of its requests is varied; the rest is left at the default. *)
EXTENDS AnswerFunction, TLC

Text(essence) == [essence |-> essence, params |-> FALSE, more |-> FALSE]

\* The same over both protocols.
Plainly(essence) == [header |-> {Text(essence)}, double |-> {}, field |-> Text(essence)]

DefaultCfg ==
    [maxBodyBytes |-> 10, maxRecords |-> 3, timeoutFits |-> TRUE, inputMode |-> "tabular",
     defaultContentType |-> Text("json"), defaultAccept |-> Text("json"),
     header |-> "auto", skipBlank |-> TRUE, numFeatures |-> 0,
     features |-> Unset, ids |-> Unset, inputMap |-> <<>>, mapIsJson |-> TRUE,
     outputMap |-> <<>>, outputName |-> {}, outputIndex |-> 0, predictionsOnly |-> TRUE]

\* Models: one that predicts a row at a time, and ones with fixed outputs.
Fixed(set) == [rowwise |-> FALSE, fixed |-> set]
RowWise    == [rowwise |-> TRUE, fixed |-> {}]

\* Different rows have different predictions.
Weight(row) == FoldLeft(LAMBDA a, x : 31 * a + x, 1, row)
InferOf(m, r) ==
    IF m.rowwise
    THEN {<<[dtype |-> "f32", shape |-> <<Len(r)>>, data |-> [i \in DOMAIN r |-> Weight(r[i])]]>>}
    ELSE m.fixed

Server(focus, c, m, loadable) == [focus |-> focus, cfg |-> c, model |-> m, loadable |-> loadable]
-----------------------------------------------------------------------------
(* Tabular focus: all matrices of up to two rows of up to three cells, and   *)
(* of three rows of up to two, in every format the decoders read.            *)

\* Cell k of record i is 10 * i + k, so that no two cells are alike.
Shapes   == UNION {[1..r -> 0..3] : r \in 0..2} \cup [1..3 -> 0..2]
Matrix(shape) == [i \in DOMAIN shape |-> [k \in 1..shape[i] |-> 10 * i + k]]

\* The cells: one of them may not be a number.
Spoilt(text, m, i, k) ==
    \/ text = "first" /\ i = 1 /\ k = Len(m[1])
    \/ text = "last" /\ i = Len(m) /\ k = 1 /\ i # 1
CellsOf(text, m) ==
    [i \in DOMAIN m |-> [k \in DOMAIN m[i] |->
        IF Spoilt(text, m, i, k) THEN Other ELSE Number(m[i][k])]]
Numeric(m) == CellsOf("none", m)

\* A line of CSV as a JSON document: a number, or no JSON at all; a document as
\* a line of CSV: a number, or some text.
AsDocs(lines) ==
    LET kept == SelectSeq(lines, LAMBDA l : l # BlankLine)
    IN  [i \in DOMAIN kept |-> IF Len(kept[i]) = 1 THEN kept[i][1] ELSE Other]
AsLines(docs) ==
    [i \in DOMAIN docs |-> <<IF docs[i].type = "number" THEN docs[i] ELSE Other>>]

Request(type, w, lines, docs) ==
    [contentType |-> Plainly(type), accept |-> Plainly("json"), size |-> 10,
     lines |-> lines, docs |-> docs, matrix |-> w, header |-> <<>>, records |-> <<>>]

Header == << <<Number(7), Other>> >>
CsvRequest(header, above, below, w) ==
    LET lines == above \o header \o w \o below
    IN  [Request("csv", w, lines, AsDocs(lines)) EXCEPT !.header = header]
PlainCsv(w) == CsvRequest(<<>>, <<>>, <<>>, w)
JsonRequest(type, w, docs) == Request(type, w, AsLines(docs), docs)

\* What a text cell says must be true of the matrix.
Fits(text, m) ==
    /\ text = "first" => m # <<>> /\ m[1] # <<>>
    /\ text = "last" => Len(m) > 1 /\ m[Len(m)] # <<>>
Tables == {CellsOf(q[1], q[2]) :
              q \in {p \in {"none", "first", "last"} \X {Matrix(s) : s \in Shapes} : Fits(p[1], p[2])}}

CsvRequests ==
    {CsvRequest(q[2], q[3], q[4], q[1]) :
        q \in {w \in Tables : \A i \in DOMAIN w : w[i] # <<>>}
                  \X {<<>>, Header} \X {<<>>, <<BlankLine>>} \X {<<>>, <<BlankLine>>}}

JsonArrays(w)   == Array([i \in DOMAIN w |-> Array(w[i])])
Instances(v)    == Object("instances" :> v)
FeaturesOf(v)   == Object("features" :> v)

JsonRequests ==
    UNION {{JsonRequest("json", w, <<JsonArrays(w)>>),
            JsonRequest("json", w, <<Instances(JsonArrays(w))>>),
            JsonRequest("json", w, <<FeaturesOf(JsonArrays(w))>>)}
               \cup (IF Len(w) # 1 THEN {} ELSE
                     {JsonRequest("json", w, <<Array(w[1])>>),
                      JsonRequest("json", w, <<FeaturesOf(Array(w[1]))>>)}) : w \in Tables}

\* A line per record, bare or under "features", or a line for all of them.
JsonlRequests ==
    UNION {{JsonRequest("jsonl", w, [i \in DOMAIN w |-> Array(w[i])]),
            JsonRequest("jsonl", w, [i \in DOMAIN w |-> FeaturesOf(Array(w[i]))]),
            JsonRequest("jsonl", w, <<FeaturesOf(JsonArrays(w))>>)} : w \in Tables}

TabularRequests == CsvRequests \cup JsonRequests \cup JsonlRequests

Selectors == {Unset, Slice(1, {}), Slice(0, {2}), Slice(2, {5}), Slice(3, {1}), Nonsense}

\* The CSV options, the selectors, and the limits.
TabularCfgs ==
    {[DefaultCfg EXCEPT !.header = h, !.skipBlank = s, !.numFeatures = n,
                             !.maxRecords = 2] :
        h \in {"auto", "true", "false", "other"}, s \in BOOLEAN, n \in {0, 2}}
    \cup {[DefaultCfg EXCEPT !.features = f] :
        f \in Selectors \cup {Columns(<<1, 0>>), Columns(<<0, 0>>), Columns(<<>>), Columns(<<4>>)}}
    \cup {[DefaultCfg EXCEPT !.ids = i] :
        i \in Selectors \cup {Columns(<<1>>), Columns(<<9, 0>>)}}
    \cup {[DefaultCfg EXCEPT !.inputMode = mode, !.features = Columns(<<1>>),
                             !.ids = Columns(<<1>>), !.maxRecords = max] :
        mode \in {"tabular", "other"}, max \in 0..1}

TabularServers == {Server("tabular", c, RowWise, TRUE) : c \in TabularCfgs}

\* A selection of columns that are in every row, of rows that may differ.
ColumnServers ==
    {Server("columns", c, RowWise, TRUE) :
        c \in {DefaultCfg, [DefaultCfg EXCEPT !.features = Slice(1, {})],
               [DefaultCfg EXCEPT !.ids = Columns(<<0>>)]}}
ColumnRequests ==
    {JsonRequest("json", w, <<JsonArrays(w)>>) : w \in {Numeric(Matrix(s)) : s \in [1..2 -> 2..3]}}
-----------------------------------------------------------------------------
(* Media focus: how the types are stated, the bodies read as what they are   *)
(* not, the limit on their length, and a server without a model.             *)

Texts == {Text("csv"), NoText, [essence |-> "csv", params |-> TRUE, more |-> FALSE],
          [essence |-> "jsonl", params |-> FALSE, more |-> TRUE]}
Stated == [header : {{}} \cup {{t} : t \in Texts}, double : {{}, {Text("json")}},
           field : {NoText, Text("csv"), Text("json")}]

Bodies == {PlainCsv(Numeric(m)) : m \in {Matrix(<<1>>), Matrix(<<1, 1>>), Matrix(<<2, 2>>)}}
              \cup {CsvRequest(Header, <<>>, <<>>, Numeric(Matrix(<<1>>)))}
              \cup {JsonRequest("jsonl", Numeric(Matrix(<<1, 1>>)), docs) :
                       docs \in {<<Number(11), Number(21)>>, <<Array(<<Number(11)>>), Number(21)>>}}
              \cup {JsonRequest("json", Numeric(Matrix(<<2>>)), <<Array(<<Number(11), Number(12)>>)>>)}

MediaRequests ==
    {[b EXCEPT !.contentType = s] : b \in Bodies, s \in Stated}
    \cup {[b EXCEPT !.accept = s] : b \in {PlainCsv(Numeric(Matrix(<<2, 2>>)))}, s \in Stated}
    \cup {[b EXCEPT !.contentType = Plainly(t), !.size = n] :
             b \in Bodies, t \in {"csv", "json", "jsonl", "other"}, n \in 10..11}
    \cup {Request("binary", Numeric(Matrix(<<2>>)), << <<Other>> >>, <<Other>>)}

MediaServers ==
    {Server("media", [DefaultCfg EXCEPT !.defaultContentType = Text(t), !.defaultAccept = Text(a)], m, l) :
        t \in {"csv", "json"}, a \in {"csv", "json"}, m \in {RowWise}, l \in BOOLEAN}
    \cup {Server("media", [DefaultCfg EXCEPT !.timeoutFits = FALSE], RowWise, l) : l \in BOOLEAN}
-----------------------------------------------------------------------------
(* Multi focus: up to two records over two keys.                             *)

FirstValues == {Number(1), Other, Array(<<Number(3)>>), Array(<<Number(5), Number(6)>>),
                Array(<<Array(<<Number(7)>>)>>)}
SecondValues == {Number(2), Other, Array(<<Number(4)>>)}

Records(values) == UNION {[keys -> values] : keys \in SUBSET {"a", "b"}}
RecordLists     == {<<>>} \cup {<<r>> : r \in Records(FirstValues)}
                       \cup {<<r, s>> : r \in Records(FirstValues), s \in Records(SecondValues)}

MultiRequest(type, records, docs) ==
    [JsonRequest(type, <<>>, docs) EXCEPT !.records = records]

MultiRequests ==
    UNION {LET objects == [i \in DOMAIN r |-> Object(r[i])]
           IN  {MultiRequest("json", r, <<Array(objects)>>),
                MultiRequest("jsonl", r, objects)}
               \cup (IF Len(r) # 1 THEN {} ELSE {MultiRequest("json", r, objects)}) :
              r \in RecordLists}
    \cup UNION {LET objects == [i \in DOMAIN r |-> Object(r[i])]
           IN  {MultiRequest("json", r, <<Instances(Array(objects))>>),
                Request("json", <<>>, <<>>, objects \o objects),
                Request("jsonl", <<>>, <<>>, <<Array(objects)>>),
                Request("json", <<>>, <<>>, <<Instances(Other)>>)} :
              r \in {<<s>> : s \in Records(SecondValues)}}
    \cup {PlainCsv(Numeric(Matrix(<<2>>)))}

InputMaps == {<<>>, "a" :> "in0", "a" :> "in0" @@ "b" :> "in0", "a" :> "in0" @@ "b" :> "in1"}

MultiServers ==
    {Server("multi", [DefaultCfg EXCEPT !.inputMap = i, !.maxRecords = n], RowWise, TRUE) :
        i \in InputMaps, n \in 1..2}
    \cup {Server("multi", [DefaultCfg EXCEPT !.mapIsJson = FALSE], RowWise, TRUE)}
-----------------------------------------------------------------------------
(* Output focus: one or two outputs, of all ranks from 0 to 3 and with a      *)
(* dimension of 0, under every way to choose one.                            *)

Size(shape) == FoldLeft(LAMBDA a, b : a * b, 1, shape)

\* The elements are told apart by their position and by the output.
Tensor(o, dtype, shape) ==
    [dtype |-> dtype, shape |-> shape,
     data |-> [i \in 1..Size(shape) |-> IF i = 2 /\ dtype = "f32" THEN NaN ELSE 10 * o + i]]

TensorShapes == {<<>>, <<0>>, <<1>>, <<3>>, <<0, 2>>, <<2, 0>>, <<1, 1>>, <<2, 1>>, <<2, 3>>, <<1, 2, 2>>}

FirstOutputs == {Tensor(1, "f32", s) : s \in TensorShapes}
                    \cup {Tensor(1, "i64", <<2, 3>>), Tensor(1, "other", <<2>>)}
Models == {Fixed({<<t>>}) : t \in FirstOutputs}
    \cup {Fixed({<<t, u>>}) : t \in FirstOutputs,
             u \in {Tensor(2, "f32", <<3, 2>>), Tensor(2, "other", <<1>>)}}
    \cup {Fixed({})}

OutputCfgs ==
    {[DefaultCfg EXCEPT !.outputName = n, !.outputIndex = i, !.predictionsOnly = p] :
        n \in {{}, {0}, {1}, {4}}, i \in {0, 1, 5}, p \in BOOLEAN}
    \cup {[DefaultCfg EXCEPT !.outputMap = m, !.outputName = {1}, !.outputIndex = 1] :
        m \in {"y" :> {1}, "y" :> {} @@ "z" :> {7}, "y" :> {0} @@ "z" :> {1}}}

OutputServers == {Server("output", c, m, TRUE) : c \in OutputCfgs, m \in Models}

OutputRequests ==
    {[PlainCsv(Numeric(Matrix(<<2, 2>>))) EXCEPT !.accept = Plainly(a)] : a \in {"csv", "json", "other"}}
-----------------------------------------------------------------------------
RequestsOf(s) ==
    CASE s.focus = "tabular" -> TabularRequests
      [] s.focus = "columns" -> ColumnRequests
      [] s.focus = "media"   -> MediaRequests
      [] s.focus = "multi"   -> MultiRequests
      [] s.focus = "output"  -> OutputRequests

\* The values in a body, and their parts, of which the last are numbers.
Bodily(r) == ToSet(r.docs) \cup UNION {ToSet(line) : line \in ToSet(r.lines)}
WithParts(S) == {v : v \in S \cup UNION {ToSet(w.items) \cup Range(w.fields) : w \in S}}
AllValues ==
    LET requests == TabularRequests \cup MediaRequests \cup MultiRequests \cup OutputRequests
        values == UNION {Bodily(r) : r \in requests}
        second == WithParts(values)
        third  == WithParts(second)
        fourth == WithParts(third)
    IN  WithParts(fourth)

AllServers == TabularServers \cup MediaServers \cup MultiServers \cup OutputServers

\* What the service does when nothing is configured.
DefaultServers == {Server("media", DefaultCfg, RowWise, TRUE)}
=============================================================================
