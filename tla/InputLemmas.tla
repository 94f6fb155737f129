----------------------------- MODULE InputLemmas -----------------------------
(***************************************************************************)
(* Lemmas about the operators that Invocation is built from: sequences and  *)
(* FlattenSeq, what the decoders and the feature selection make of a body,  *)
(* and what they make of a body that writes a given matrix.  None is about  *)
(* a step.                                                                  *)
(*                                                                          *)
(* The theorems about sequences that would serve take an operator as a      *)
(* parameter; here an induction is one over a set of numbers (Induction),   *)
(* and the set holds the indices up to which the claim is true.             *)
(***************************************************************************)
EXTENDS Invocation, Integers, SequenceTheorems, WellFoundedInduction, TLAPS
-----------------------------------------------------------------------------
(* Induction.                                                                *)

\* A set of numbers has a least one.
LEMMA LeastOfSet ==
    ASSUME NEW S, S \subseteq Nat, S # {}
    PROVE  \E m \in S : \A k \in S : m <= k
  <1>1. IsWellFoundedOn(OpToRel(<, Nat), Nat)
    BY NatLessThanWellFounded
  <1>2. PICK x \in S : \A y \in S : ~ (<<y, x>> \in OpToRel(<, Nat))
    BY <1>1, WFMin
  <1>3. \A y \in Nat : <<y, x>> \in OpToRel(<, Nat) <=> y < x
    BY DEF OpToRel
  <1>4. \A k \in S : x \in Nat /\ k \in Nat /\ ~(k < x)
    BY <1>2, <1>3
  <1> QED BY <1>4

\* Induction from a number to another, for membership in a set.
LEMMA Induction ==
    ASSUME NEW b \in Nat, NEW n \in Nat, NEW S, b \in S,
           \A k \in (b + 1)..n : k - 1 \in S => k \in S
    PROVE  b..n \subseteq S
  <1> DEFINE T == {k \in b..n : k \notin S}
  <1> SUFFICES ASSUME T # {} PROVE FALSE
    OBVIOUS
  <1>1. T \subseteq Nat
    OBVIOUS
  <1>2. \E m \in T : \A k \in T : m <= k
    BY <1>1, LeastOfSet
  <1>3. PICK m \in T : \A k \in T : m <= k
    BY <1>2
  <1>4. m \in (b + 1)..n /\ m - 1 \in b..n /\ ~(m <= m - 1)
    OBVIOUS
  <1> QED BY <1>3, <1>4
-----------------------------------------------------------------------------
\* A function from 1..n is a sequence of its values.
LEMMA FunctionIsSeq ==
    ASSUME NEW T, NEW n \in Nat, NEW f, f = [i \in 1..n |-> f[i]], \A i \in 1..n : f[i] \in T
    PROVE  f \in Seq(T) /\ Len(f) = n /\ DOMAIN f = 1..n
  <1>1. f \in [1..n -> T]
    OBVIOUS
  <1> QED BY <1>1

-----------------------------------------------------------------------------
(* FlattenSeq is defined by recursion on the number of its parts.            *)

\* What the recursion says: f[i] is the concatenation of the first i parts.
Flattens(f, seqs, n) == f = [i \in 1..n |-> IF i = 1 THEN seqs[i] ELSE f[i - 1] \o seqs[i]]

LEMMA FlattenExists ==
    ASSUME NEW seqs, NEW n \in Nat, n # 0 PROVE \E f : Flattens(f, seqs, n)
  <1> DEFINE Good == {k \in Nat : \E f : Flattens(f, seqs, k)}
  <1>1. 1 \in Good
    <2> DEFINE f == [i \in 1..1 |-> seqs[i]]
    <2>1. Flattens(f, seqs, 1)
      BY DEF Flattens
    <2> QED BY <2>1
  <1>2. ASSUME NEW k \in (1 + 1)..n, k - 1 \in Good PROVE k \in Good
    <2>0. k \in Nat /\ k # 1 /\ k - 1 # k /\ k - 1 \in 1..k
      OBVIOUS
    <2>1. PICK f : Flattens(f, seqs, k - 1)
      BY <1>2
    <2> DEFINE g == [i \in 1..k |-> IF i = k THEN f[k - 1] \o seqs[k] ELSE f[i]]
    <2>2. ASSUME NEW i \in 1..k
          PROVE  g[i] = IF i = 1 THEN seqs[i] ELSE g[i - 1] \o seqs[i]
      <3>1. CASE i = k
        <4>1. g[k - 1] = f[k - 1]
          BY <2>0
        <4>2. k \in 1..k
          BY <2>0
        <4>3. g[k] = f[k - 1] \o seqs[k]
          BY <4>2
        <4> HIDE DEF g
        <4> QED BY <3>1, <2>0, <4>1, <4>3
      <3>2. CASE i # k
        <4>1. i \in 1..(k - 1) /\ (i # 1 => i - 1 \in 1..(k - 1) /\ i - 1 # k)
          BY <3>2
        <4>2. f[i] = IF i = 1 THEN seqs[i] ELSE f[i - 1] \o seqs[i]
          BY <2>1, <4>1 DEF Flattens
        <4> QED BY <3>2, <4>1, <4>2
      <3> QED BY <3>1, <3>2
    <2>3. Flattens(g, seqs, k)
      BY <2>2 DEF Flattens
    <2> QED BY <2>0, <2>3
  <1> HIDE DEF Good
  <1>3. 1..n \subseteq Good
    BY <1>1, <1>2, Induction
  <1> QED BY <1>3 DEF Good

LEMMA FlattenDef ==
    ASSUME NEW seqs, NEW n \in Nat, n = Len(seqs), n # 0
    PROVE  \E f : /\ FlattenSeq(seqs) = f[n]
                  /\ f[1] = seqs[1]
                  /\ \A i \in 2..n : f[i] = f[i - 1] \o seqs[i]
  <1> DEFINE f == CHOOSE f : f = [i \in 1..n |-> IF i = 1 THEN seqs[i] ELSE f[i - 1] \o seqs[i]]
  <1>1. f = [i \in 1..n |-> IF i = 1 THEN seqs[i] ELSE f[i - 1] \o seqs[i]]
    BY FlattenExists DEF Flattens
  <1>2. FlattenSeq(seqs) = f[n]
    BY DEF FlattenSeq
  <1> HIDE DEF f
  <1>3. ASSUME NEW i \in 1..n PROVE f[i] = IF i = 1 THEN seqs[i] ELSE f[i - 1] \o seqs[i]
    BY <1>1
  <1>4. f[1] = seqs[1]
    BY <1>3
  <1>5. ASSUME NEW i \in 2..n PROVE f[i] = f[i - 1] \o seqs[i]
    <2>1. i \in 1..n /\ i # 1
      OBVIOUS
    <2> QED BY <2>1, <1>3
  <1> QED BY <1>2, <1>4, <1>5

LEMMA FlattenEmpty == FlattenSeq(<<>>) = <<>>
  BY DEF FlattenSeq

\* A concatenation of sequences is a sequence, of the elements of its parts.
LEMMA FlattenType ==
    ASSUME NEW S, NEW seqs \in Seq(Seq(S)) PROVE FlattenSeq(seqs) \in Seq(S)
  <1>0. PICK n \in Nat : n = Len(seqs)
    BY LenProperties
  <1>1. CASE n = 0
    <2>1. seqs = <<>>
      BY <1>0, <1>1, EmptySeq
    <2> QED BY <2>1, FlattenEmpty, EmptySeq
  <1>2. CASE n # 0
    <2>0. ASSUME NEW i \in 1..n PROVE seqs[i] \in Seq(S)
      BY <1>0, ElementOfSeq
    <2>1. PICK f : /\ FlattenSeq(seqs) = f[n]
                   /\ f[1] = seqs[1]
                   /\ \A i \in 2..n : f[i] = f[i - 1] \o seqs[i]
      BY <1>0, <1>2, FlattenDef
    <2> DEFINE Good == {i \in Nat : f[i] \in Seq(S)}
    <2>2. 1 \in Good
      BY <1>2, <2>0, <2>1
    <2>3. ASSUME NEW i \in (1 + 1)..n, i - 1 \in Good PROVE i \in Good
      <3>1. i \in 2..n /\ i \in 1..n /\ i \in Nat
        OBVIOUS
      <3>2. f[i] = f[i - 1] \o seqs[i]
        BY <2>1, <3>1
      <3>3. f[i - 1] \in Seq(S) /\ seqs[i] \in Seq(S)
        BY <2>0, <2>3, <3>1
      <3>4. f[i] \in Seq(S)
        BY <3>2, <3>3, ConcatProperties
      <3> QED BY <3>1, <3>4
    <2> HIDE DEF Good
    <2>4. 1..n \subseteq Good
      BY <2>2, <2>3, Induction
    <2>5. n \in Good
      BY <1>2, <2>4
    <2> QED BY <2>1, <2>5 DEF Good
  <1> QED BY <1>1, <1>2

\* A sequence is the concatenation of its slices.
LEMMA FlattenSlices ==
    ASSUME NEW S, NEW s \in Seq(S), NEW n \in Nat, NEW w \in Nat, Len(s) = n * w
    PROVE  FlattenSeq([i \in 1..n |-> SubSeq(s, (i - 1) * w + 1, i * w)]) = s
  <1> DEFINE slices == [i \in 1..n |-> SubSeq(s, (i - 1) * w + 1, i * w)]
  <1>0. Len(slices) = n
    OBVIOUS
  <1>1. CASE n = 0
    <2>1. Len(s) = 0
      BY <1>1
    <2>2. slices = <<>> /\ s = <<>>
      BY <1>1, <2>1, EmptySeq
    <2> QED BY <2>2, FlattenEmpty
  <1>2. CASE n # 0
    <2>0. ASSUME NEW i \in 1..n PROVE slices[i] = SubSeq(s, (i - 1) * w + 1, i * w)
      OBVIOUS
    <2> HIDE DEF slices
    <2>1. PICK f : /\ FlattenSeq(slices) = f[n]
                   /\ f[1] = slices[1]
                   /\ \A i \in 2..n : f[i] = f[i - 1] \o slices[i]
      BY <1>0, <1>2, FlattenDef
    <2> DEFINE Good == {i \in Nat : f[i] = SubSeq(s, 1, i * w)}
    <2>2. 1 \in Good
      <3>1. slices[1] = SubSeq(s, (1 - 1) * w + 1, 1 * w)
        BY <1>2, <2>0
      <3>2. (1 - 1) * w + 1 = 1
        OBVIOUS
      <3>3. f[1] = SubSeq(s, 1, 1 * w)
        BY <2>1, <3>1, <3>2
      <3> QED BY <3>3
    <2>3. ASSUME NEW i \in (1 + 1)..n, i - 1 \in Good PROVE i \in Good
      <3>0. i \in 2..n /\ i \in 1..n /\ i \in Nat /\ i - 1 \in Nat /\ n - i \in Nat
        OBVIOUS
      <3> DEFINE a == (i - 1) * w
                 b == i * w
                 c == (n - i) * w
      <3>1. a \in Nat /\ b \in Nat /\ c \in Nat
        BY <3>0
      <3>2. b = a + w /\ n * w = c + b
        BY <3>0
      <3>3. f[i] = f[i - 1] \o slices[i]
        BY <2>1, <3>0
      <3>4. f[i - 1] = SubSeq(s, 1, a)
        BY <2>3
      <3>5. slices[i] = SubSeq(s, a + 1, b)
        BY <2>0, <3>0
      <3> HIDE DEF a, b, c
      <3>6. Len(s) = c + b
        BY <3>2
      <3>7. 1 \in 1..(Len(s) + 1) /\ a \in (1 - 1)..Len(s) /\ b \in a..Len(s)
        BY <3>1, <3>2, <3>6
      <3>8. SubSeq(s, 1, a) \o SubSeq(s, a + 1, b) = SubSeq(s, 1, b)
        BY <3>7, ConcatAdjacentSubSeq
      <3>9. f[i] = SubSeq(s, 1, b)
        BY <3>3, <3>4, <3>5, <3>8
      <3> QED BY <3>0, <3>9 DEF b
    <2> HIDE DEF Good
    <2>4. 1..n \subseteq Good
      BY <2>2, <2>3, Induction
    <2>5. n \in Good
      BY <1>2, <2>4
    <2>6. f[n] = SubSeq(s, 1, Len(s))
      BY <2>5 DEF Good
    <2>7. SubSeq(s, 1, Len(s)) = s
      BY SubSeqFull
    <2> QED BY <2>1, <2>6, <2>7 DEF slices
  <1> QED BY <1>1, <1>2
-----------------------------------------------------------------------------
\* The numbers in the bodies, and the rows they can make.
Cells    == {v.number : v \in Values}
Matrices == Seq(Seq(Cells))
-----------------------------------------------------------------------------
(* Rows of numbers.                                                          *)

LEMMA PartsOfValues ==
    ASSUME NEW v \in Values
    PROVE  /\ v.items \in Seq(Values)
           /\ \A key \in DOMAIN v.fields : v.fields[key] \in Values
           /\ v.number \in Cells
  <1>1. \A key \in DOMAIN v.fields : v.fields[key] \in Range(v.fields)
    BY DEF Range
  <1> QED BY <1>1, ValuesAssumption DEF Cells

LEMMA NumbersType ==
    ASSUME NEW items \in Seq(Values)
    PROVE  Numbers(items) \in Seq(Cells) /\ Len(Numbers(items)) = Len(items)
  BY DEF Numbers, Cells

\* Whatever is read as rows of numbers, these are a row or a row per item.
LEMMA NumericRowsType ==
    ASSUME NEW v, v.items \in Seq(Values), v.type = "number" => v.number \in Cells,
           NEW m \in ValueToNumericRows(v)
    PROVE  /\ m \in Matrices
           /\ v.type = "array" => Len(m) \in {1, Len(v.items)}
  <1>1. CASE v.type = "number"
    <2>1. m = << <<v.number>> >>
      BY <1>1 DEF ValueToNumericRows, Ok
    <2> QED BY <1>1, <2>1 DEF Matrices
  <1>2. CASE v.type # "number" /\ m = [i \in DOMAIN v.items |-> Numbers(v.items[i].items)]
    <2>1. \A i \in 1..Len(v.items) : Numbers(v.items[i].items) \in Seq(Cells)
      BY PartsOfValues, NumbersType
    <2>2. Len(v.items) \in Nat /\ DOMAIN v.items = 1..Len(v.items)
      BY LenProperties
    <2>3. m = [i \in 1..Len(v.items) |-> m[i]] /\ \A i \in 1..Len(v.items) : m[i] \in Seq(Cells)
      BY <1>2, <2>1, <2>2
    <2>4. m \in Seq(Seq(Cells)) /\ Len(m) = Len(v.items)
      BY <2>2, <2>3, FunctionIsSeq
    <2> QED BY <2>4 DEF Matrices
  <1>3. CASE v.type # "number" /\ m = <<Numbers(v.items)>>
    BY <1>3, NumbersType DEF Matrices
  <1> QED BY <1>1, <1>2, <1>3 DEF ValueToNumericRows, Ok, Err

LEMMA WithoutType ==
    ASSUME NEW S, NEW s \in Seq(S), NEW dropped
    PROVE  Without(s, dropped) \in Seq(S \ dropped)
  <1> DEFINE parts == [i \in DOMAIN s |-> IF s[i] \in dropped THEN <<>> ELSE <<s[i]>>]
  <1>1. DOMAIN s = 1..Len(s) /\ Len(s) \in Nat
    BY LenProperties
  <1>2. ASSUME NEW i \in 1..Len(s)
        PROVE  (IF s[i] \in dropped THEN <<>> ELSE <<s[i]>>) \in Seq(S \ dropped)
    <2>1. s[i] \in S
      BY ElementOfSeq
    <2>2. CASE s[i] \in dropped
      BY <2>2, EmptySeq
    <2>3. CASE s[i] \notin dropped
      BY <2>1, <2>3
    <2> QED BY <2>2, <2>3
  <1>3. parts \in Seq(Seq(S \ dropped))
    BY <1>1, <1>2
  <1> HIDE DEF parts
  <1>4. FlattenSeq(parts) \in Seq(S \ dropped)
    BY <1>3, FlattenType
  <1> QED BY <1>4 DEF Without, parts
-----------------------------------------------------------------------------
(* The decoders.                                                             *)

LEMMA CsvType ==
    ASSUME NEW lines \in Seq(Seq(Values)), NEW m \in ParseCsvRows(lines)
    PROVE  m \in Matrices
  <1> DEFINE kept == IF cfg.skipBlank THEN WithoutBlankLines(lines) ELSE lines
             read == CsvBody(kept)
  <1>1. kept \in Seq(Seq(Values))
    <2>1. WithoutBlankLines(lines) \in Seq(Seq(Values) \ {BlankLine})
      BY WithoutType DEF WithoutBlankLines
    <2>2. WithoutBlankLines(lines) \in Seq(Seq(Values))
      BY <2>1
    <2> QED BY <2>2
  <1>2. kept # <<>> /\ m = [i \in DOMAIN read |-> Numbers(read[i])]
    BY DEF ParseCsvRows, Ok, Err
  <1> HIDE DEF kept
  <1>3. read \in Seq(Seq(Values))
    <2>1. Tail(kept) \in Seq(Seq(Values))
      BY <1>1, <1>2, HeadTailProperties
    <2> QED BY <1>1, <2>1 DEF CsvBody
  <1> HIDE DEF read
  <1>4. \A i \in 1..Len(read) : Numbers(read[i]) \in Seq(Cells)
    BY <1>3, NumbersType
  <1>5. Len(read) \in Nat /\ DOMAIN read = 1..Len(read)
    BY <1>3, LenProperties
  <1>6. m = [i \in 1..Len(read) |-> m[i]] /\ \A i \in 1..Len(read) : m[i] \in Seq(Cells)
    BY <1>2, <1>4, <1>5
  <1> QED BY <1>5, <1>6, FunctionIsSeq DEF Matrices

LEMMA JsonType ==
    ASSUME NEW docs \in Seq(Values), NEW m \in ParseJsonRows(docs)
    PROVE  m \in Matrices
  <1> DEFINE doc == docs[1]
  <1>1. Len(docs) = 1 /\ m \in ValueToNumericRows(RowsField(doc))
    BY DEF ParseJsonRows, Err
  <1>2. doc \in Values
    BY <1>1
  <1> HIDE DEF doc
  <1>3. CASE RowsField(doc) \in Values
    BY <1>1, <1>3, PartsOfValues, NumericRowsType
  <1>4. CASE HasField(doc, "features") /\ RowsField(doc) = Array(<<doc.fields["features"]>>)
    <2>1. doc.fields["features"] \in Values
      BY <1>2, <1>4, PartsOfValues DEF HasField
    <2>2. RowsField(doc).items \in Seq(Values) /\ RowsField(doc).type # "number"
      BY <1>4, <2>1 DEF Array
    <2> QED BY <1>1, <2>2, NumericRowsType
  <1>5. HasField(doc, "instances") => doc.fields["instances"] \in Values
    BY <1>2, PartsOfValues DEF HasField
  <1> QED BY <1>2, <1>3, <1>4, <1>5 DEF RowsField

LEMMA JsonlType ==
    ASSUME NEW docs \in Seq(Values), NEW m \in ParseJsonlRows(docs)
    PROVE  m \in Matrices
  <1> DEFINE parts == [i \in DOMAIN docs |-> Only(LineRows(docs[i]))]
  <1>1. m = FlattenSeq(parts) /\ \A i \in DOMAIN docs : LineRows(docs[i]) # Err
    BY DEF ParseJsonlRows, Ok, Err
  <1>2. ASSUME NEW i \in 1..Len(docs) PROVE Only(LineRows(docs[i])) \in Matrices
    <2> DEFINE doc == docs[i]
               v == IF HasField(doc, "features") THEN doc.fields["features"] ELSE doc
    <2>1. doc \in Values
      BY ElementOfSeq
    <2>2. v \in Values
      BY <2>1, PartsOfValues DEF HasField
    <2>3. Only(LineRows(doc)) \in LineRows(doc)
      BY <1>1 DEF Only, Err
    <2> HIDE DEF doc
    <2>4. LineRows(doc) = ValueToNumericRows(v)
      BY DEF LineRows
    <2> HIDE DEF v
    <2>5. Only(LineRows(doc)) \in Matrices
      BY <2>2, <2>3, <2>4, PartsOfValues, NumericRowsType
    <2> QED BY <2>5 DEF doc
  <1>3. parts \in Seq(Matrices)
    BY <1>2
  <1> HIDE DEF parts
  <1>4. FlattenSeq(parts) \in Matrices
    BY <1>3, FlattenType DEF Matrices
  <1> QED BY <1>1, <1>4

\* A body of values is decoded, if at all, to rows of numbers.
LEMMA DecodedType ==
    ASSUME request.lines \in Seq(Seq(Values)), request.docs \in Seq(Values),
           NEW type, ParseTabularMatrix(type) # Err
    PROVE  Only(ParseTabularMatrix(type)) \in Matrices
  <1>1. Only(ParseTabularMatrix(type)) \in ParseTabularMatrix(type)
    BY DEF Only, Err
  <1>2. CASE type = "csv"
    BY <1>1, <1>2, CsvType DEF ParseTabularMatrix
  <1>3. CASE type = "json"
    BY <1>1, <1>3, JsonType DEF ParseTabularMatrix
  <1>4. CASE type = "jsonl"
    BY <1>1, <1>4, JsonlType DEF ParseTabularMatrix
  <1>5. CASE type \notin {"csv", "json", "jsonl"}
    BY <1>5 DEF ParseTabularMatrix
  <1> QED BY <1>2, <1>3, <1>4, <1>5
-----------------------------------------------------------------------------
(* Feature selection.                                                        *)

\* A slice is made of columns that a row of n has.
LEMMA SliceInRow ==
    ASSUME NEW sel, sel.from \in Nat, sel.to \subseteq Nat, NEW n \in Nat
    PROVE  SliceColumns(sel, n) \in Seq(0..(n - 1))
  <1> DEFINE end == IF sel.to = {} THEN n ELSE Least(Only(sel.to), n)
             start == Least(sel.from, end)
             columns == [i \in 1..(end - start) |-> start + i - 1]
  <1>1. end \in Nat /\ end <= n
    <2>1. sel.to # {} => Only(sel.to) \in Nat
      BY DEF Only
    <2> QED BY <2>1 DEF Least
  <1> HIDE DEF end
  <1>2. start \in Nat /\ start <= end
    BY <1>1 DEF Least
  <1> HIDE DEF start
  <1>3. end - start \in Nat
    BY <1>1, <1>2
  <1>4. ASSUME NEW i \in 1..(end - start) PROVE start + i - 1 \in 0..(n - 1)
    BY <1>1, <1>2
  <1>5. columns \in Seq(0..(n - 1))
    <2>1. columns = [i \in 1..(end - start) |-> columns[i]]
      OBVIOUS
    <2>2. \A i \in 1..(end - start) : columns[i] \in 0..(n - 1)
      BY <1>4
    <2> HIDE DEF columns
    <2> QED BY <1>3, <2>1, <2>2, FunctionIsSeq
  <1> QED BY <1>5 DEF SliceColumns, start, end

\* The columns that go to the model are numbers and, unless a list names them,
\* columns of a row of n.
LEMMA ColumnsType ==
    ASSUME server \in Servers, NEW n \in Nat, NEW columns \in FeatureIdx(n)
    PROVE  /\ columns \in Seq(Nat)
           /\ IF cfg.features.kind = "list" THEN columns = cfg.features.list
              ELSE columns \in Seq(0..(n - 1))
  <1>0. \A sel \in {cfg.features, cfg.ids} :
           sel.from \in Nat /\ sel.to \subseteq Nat /\ sel.list \in Seq(Nat)
    BY SelectorAssumption DEF cfg
  <1>1. Seq(0..(n - 1)) \subseteq Seq(Nat)
    OBVIOUS
  <1>2. [i \in 1..n |-> i - 1] \in Seq(0..(n - 1))
    <2> DEFINE all == [i \in 1..n |-> i - 1]
    <2>1. all = [i \in 1..n |-> all[i]] /\ \A i \in 1..n : all[i] \in 0..(n - 1)
      OBVIOUS
    <2> HIDE DEF all
    <2>2. all \in Seq(0..(n - 1))
      BY <2>1, FunctionIsSeq
    <2> QED BY <2>2 DEF all
  <1>3. CASE cfg.features # Unset
    <2> DEFINE sel == cfg.features
    <2>1. columns \in ParseColSelector(sel, n)
      BY <1>3 DEF FeatureIdx
    <2>2. CASE sel.kind = "unset"
      <3>1. columns = [i \in 1..n |-> i - 1]
        BY <2>1, <2>2 DEF ParseColSelector, Ok
      <3> QED BY <1>1, <1>2, <2>2, <3>1
    <2>3. CASE sel.kind = "slice"
      <3>1. columns = SliceColumns(sel, n)
        BY <2>1, <2>3 DEF ParseColSelector, Ok
      <3>2. columns \in Seq(0..(n - 1))
        BY <1>0, <3>1, SliceInRow
      <3> QED BY <1>1, <2>3, <3>2
    <2>4. CASE sel.kind = "list"
      BY <1>0, <2>1, <2>4 DEF ParseColSelector, Ok
    <2>5. CASE sel.kind \notin {"unset", "slice", "list"}
      BY <2>1, <2>5 DEF ParseColSelector, Err
    <2> QED BY <2>2, <2>3, <2>4, <2>5
  <1>4. CASE cfg.features = Unset
    <2>1. PICK ids : columns = ColumnsWithout(ids, n)
      BY <1>4 DEF FeatureIdx
    <2>2. columns \in Seq((0..(n - 1)) \ ToSet(ids))
      BY <1>2, <2>1, WithoutType DEF ColumnsWithout
    <2>3. Seq((0..(n - 1)) \ ToSet(ids)) \subseteq Seq(0..(n - 1))
      OBVIOUS
    <2>4. columns \in Seq(0..(n - 1))
      BY <2>2, <2>3
    <2> QED BY <1>1, <1>4, <2>4 DEF Unset
  <1> QED BY <1>3, <1>4

\* What is selected of rows of numbers are rows of numbers, as many.
LEMMA SelectedType ==
    ASSUME server \in Servers, NEW m \in Matrices, m # <<>>,
           FeatureIdx(Len(m[1])) # Err, Reaches(m)
    PROVE  Selected(m) \in Matrices /\ Len(Selected(m)) = Len(m)
  <1> DEFINE columns == Idx(m)
             n == Len(m)
             selected == Selected(m)
  <1>1. n \in Nat /\ DOMAIN m = 1..n /\ 1 \in 1..n /\ \A i \in 1..n : m[i] \in Seq(Cells)
    BY LenProperties, ElementOfSeq DEF Matrices
  <1>2. columns \in Seq(Nat)
    <2>1. Len(m[1]) \in Nat
      BY <1>1, LenProperties
    <2>2. Idx(m) \in FeatureIdx(Len(m[1]))
      BY DEF Idx, Only, Err
    <2> QED BY <2>1, <2>2, ColumnsType
  <1>3. Len(columns) \in Nat /\ DOMAIN columns = 1..Len(columns) /\ \A k \in 1..Len(columns) : columns[k] \in Nat
    BY <1>2, LenProperties, ElementOfSeq
  <1>4. \A i \in 1..n : \A k \in 1..Len(columns) : columns[k] < Len(m[i])
    BY <1>1, <1>3 DEF Reaches
  <1> HIDE DEF columns, n
  <1>5. ASSUME NEW i \in 1..n
        PROVE  [k \in DOMAIN columns |-> m[i][columns[k] + 1]] \in Seq(Cells)
    <2> DEFINE row == [k \in DOMAIN columns |-> m[i][columns[k] + 1]]
    <2>1. ASSUME NEW k \in 1..Len(columns) PROVE m[i][columns[k] + 1] \in Cells
      <3>1. m[i] \in Seq(Cells) /\ Len(m[i]) \in Nat
        BY <1>1, LenProperties
      <3>2. columns[k] + 1 \in 1..Len(m[i])
        BY <1>3, <1>4, <3>1
      <3> QED BY <3>1, <3>2, ElementOfSeq
    <2>2. row = [k \in 1..Len(columns) |-> row[k]] /\ \A k \in 1..Len(columns) : row[k] \in Cells
      BY <1>3, <2>1
    <2> HIDE DEF row
    <2>3. row \in Seq(Cells)
      BY <1>3, <2>2, FunctionIsSeq
    <2> QED BY <2>3 DEF row
  <1>6. selected = [i \in 1..n |-> selected[i]] /\ \A i \in 1..n : selected[i] \in Seq(Cells)
    BY <1>1, <1>5 DEF Selected, columns
  <1> HIDE DEF selected
  <1>7. selected \in Seq(Seq(Cells)) /\ Len(selected) = n
    BY <1>1, <1>6, FunctionIsSeq
  <1> QED BY <1>7 DEF selected, n, Matrices
-----------------------------------------------------------------------------
(* Records and their columns.                                                *)

\* The fields of objects are records of values.
LEMMA FieldsType ==
    ASSUME NEW s \in Seq(Values), AllObjects(s)
    PROVE  /\ Len(Fields(s)) \in Nat /\ DOMAIN Fields(s) = 1..Len(Fields(s))
           /\ \A i \in DOMAIN Fields(s) : \A key \in DOMAIN Fields(s)[i] : Fields(s)[i][key] \in Values
  <1>1. Len(s) \in Nat /\ DOMAIN s = 1..Len(s) /\ \A i \in 1..Len(s) : s[i] \in Values
    BY LenProperties, ElementOfSeq
  <1>2. Len(Fields(s)) = Len(s) /\ DOMAIN Fields(s) = 1..Len(s)
    BY <1>1 DEF Fields
  <1>3. \A i \in 1..Len(s) : Fields(s)[i] = s[i].fields
    BY <1>1 DEF Fields
  <1> QED BY <1>1, <1>2, <1>3, PartsOfValues

LEMMA RecordsType ==
    ASSUME request.docs \in Seq(Values), NEW type, NEW records \in LoadMultiInputRecords(type)
    PROVE  /\ Len(records) \in Nat /\ DOMAIN records = 1..Len(records)
           /\ \A i \in DOMAIN records : \A key \in DOMAIN records[i] : records[i][key] \in Values
  <1> DEFINE docs == request.docs
             doc  == docs[1]
  <1>1. CASE type # "json"
    <2>1. AllObjects(docs) /\ records = Fields(docs)
      BY <1>1 DEF LoadMultiInputRecords, ParseJsonlRecords, Ok, Err
    <2> QED BY <2>1, FieldsType
  <1>2. CASE type = "json"
    <2>1. Len(docs) = 1 /\ records \in RecordsOf(RecordsField(doc))
      BY <1>2 DEF LoadMultiInputRecords, ParseJsonRecords, Err
    <2>2. doc \in Values
      BY <2>1
    <2> HIDE DEF doc
    <2>3. RecordsField(doc) \in Values
      BY <2>2, PartsOfValues DEF RecordsField, HasField
    <2> DEFINE scoped == RecordsField(doc)
    <2>4. CASE records = <<scoped.fields>>
      <3>1. Len(records) = 1 /\ DOMAIN records = 1..1 /\ records[1] = scoped.fields
        BY <2>4
      <3> QED BY <2>3, <3>1, PartsOfValues
    <2>5. CASE AllObjects(scoped.items) /\ records = Fields(scoped.items)
      BY <2>3, <2>5, FieldsType, PartsOfValues
    <2> QED BY <2>1, <2>4, <2>5 DEF RecordsOf, Ok, Err
  <1> QED BY <1>1, <1>2

\* A column has a value per record.
LEMMA ColumnType ==
    ASSUME request.docs \in Seq(Values), NEW type, NEW records \in LoadMultiInputRecords(type),
           NEW key, HasColumn(records, key)
    PROVE  Column(records, key) \in Seq(Values) /\ Len(Column(records, key)) = Len(records)
  <1> DEFINE n == Len(records)
             column == Column(records, key)
  <1>1. n \in Nat /\ DOMAIN records = 1..n
    BY RecordsType
  <1>2. \A i \in 1..n : records[i][key] \in Values
    BY <1>1, RecordsType DEF HasColumn
  <1>3. column = [i \in 1..n |-> column[i]] /\ \A i \in 1..n : column[i] \in Values
    BY <1>1, <1>2 DEF Column
  <1> HIDE DEF n, column
  <1>4. column \in Seq(Values) /\ Len(column) = n
    BY <1>1, <1>3, FunctionIsSeq
  <1> QED BY <1>4 DEF n, column

\* The selection fails on a row only if a feature list names a column that the
\* row lacks or, without a list, if the row is shorter than the first.
LEMMA SelectPanics ==
    ASSUME server \in Servers, NEW m \in Matrices, m # <<>>,
           FeatureIdx(Len(m[1])) # Err, ~Reaches(m)
    PROVE  \E i \in DOMAIN m :
              IF cfg.features.kind = "list"
              THEN \E col \in ToSet(cfg.features.list) : col >= Len(m[i])
              ELSE Len(m[i]) < Len(m[1])
  <1> DEFINE columns == Idx(m)
             n == Len(m[1])
  <1>1. n \in Nat /\ \A i \in DOMAIN m : Len(m[i]) \in Nat
    BY LenProperties, ElementOfSeq DEF Matrices
  <1>2. columns \in FeatureIdx(n)
    BY DEF Idx, Only, Err
  <1> HIDE DEF n
  <1>3. /\ columns \in Seq(Nat)
        /\ IF cfg.features.kind = "list" THEN columns = cfg.features.list
           ELSE columns \in Seq(0..(n - 1))
    BY <1>1, <1>2, ColumnsType
  <1>4. PICK i \in DOMAIN m, k \in DOMAIN columns : ~(columns[k] < Len(m[i]))
    BY DEF Reaches
  <1> HIDE DEF columns
  <1>5. columns[k] \in Nat /\ columns[k] >= Len(m[i])
    <2>1. columns[k] \in Nat
      BY <1>3, <1>4, ElementOfSeq, LenProperties
    <2> QED BY <1>1, <1>4, <2>1
  <1>6. CASE cfg.features.kind = "list"
    <2>1. columns[k] \in ToSet(cfg.features.list)
      BY <1>3, <1>4, <1>6 DEF ToSet
    <2> QED BY <1>5, <1>6, <2>1
  <1>7. CASE cfg.features.kind # "list"
    <2>1. columns[k] \in 0..(n - 1)
      BY <1>3, <1>4, <1>7, ElementOfSeq, LenProperties
    <2> QED BY <1>1, <1>5, <1>7, <2>1 DEF n
  <1> QED BY <1>6, <1>7
-----------------------------------------------------------------------------
(* Sequences without some of their elements.                                 *)

\* Without says this of a function: f[i] is what is kept of the first i elements.
KeptPart(x, dropped) == IF x \in dropped THEN <<>> ELSE <<x>>
Keeps(f, s, dropped) ==
    /\ f[1] = KeptPart(s[1], dropped)
    /\ \A i \in 2..Len(s) : f[i] = f[i - 1] \o KeptPart(s[i], dropped)

LEMMA WithoutDef ==
    ASSUME NEW S, NEW s \in Seq(S), s # <<>>, NEW dropped
    PROVE  \E f : Keeps(f, s, dropped) /\ Without(s, dropped) = f[Len(s)]
  <1> DEFINE parts == [i \in DOMAIN s |-> KeptPart(s[i], dropped)]
             n == Len(s)
  <1>1. DOMAIN s = 1..n /\ n \in Nat /\ n # 0
    BY LenProperties, EmptySeq
  <1>2. Len(parts) = n /\ \A i \in 1..n : parts[i] = KeptPart(s[i], dropped)
    BY <1>1
  <1>3. Without(s, dropped) = FlattenSeq(parts)
    BY DEF Without, KeptPart
  <1> HIDE DEF parts
  <1>4. PICK f : /\ FlattenSeq(parts) = f[n]
                 /\ f[1] = parts[1]
                 /\ \A i \in 2..n : f[i] = f[i - 1] \o parts[i]
    BY <1>1, <1>2, FlattenDef
  <1>5. 1 \in 1..n /\ \A i \in 2..n : i \in 1..n
    BY <1>1
  <1>6. Keeps(f, s, dropped)
    BY <1>2, <1>4, <1>5 DEF Keeps
  <1> QED BY <1>3, <1>4, <1>6

LEMMA WithoutOfEmpty ==
    ASSUME NEW dropped PROVE Without(<<>>, dropped) = <<>>
  <1>1. [i \in DOMAIN <<>> |-> IF <<>>[i] \in dropped THEN <<>> ELSE <<(<<>>)[i]>>] = <<>>
    OBVIOUS
  <1> QED BY <1>1, FlattenEmpty DEF Without

\* If nothing is dropped but perhaps the first element, the rest is kept.
LEMMA WithoutHead ==
    ASSUME NEW S, NEW s \in Seq(S), s # <<>>, NEW dropped,
           \A i \in 2..Len(s) : s[i] \notin dropped
    PROVE  Without(s, dropped) = IF s[1] \in dropped THEN Tail(s) ELSE s
  <1> DEFINE b == IF s[1] \in dropped THEN 2 ELSE 1
  <1>0. PICK n \in Nat : n = Len(s)
    BY LenProperties
  <1>1. n # 0 /\ b \in 1..2
    BY <1>0, EmptySeq
  <1>2. PICK f : Keeps(f, s, dropped) /\ Without(s, dropped) = f[n]
    BY <1>0, WithoutDef
  <1> DEFINE Good == {i \in Nat : f[i] = SubSeq(s, b, i)}
  <1>3. 1 \in Good
    <2>1. CASE s[1] \in dropped
      <3>1. SubSeq(s, 2, 1) = <<>>
        BY SubSeqEmpty
      <3> QED BY <1>2, <2>1, <3>1 DEF Keeps, KeptPart
    <2>2. CASE s[1] \notin dropped
      <3>1. SubSeq(s, 1, 1) = <<s[1]>>
        <4>1. SubSeq(s, 1, 1) = SubSeq(s, 1, 1 - 1) \o <<s[1]>>
          BY <1>0, <1>1, SubSeqRecursiveSecond
        <4>2. SubSeq(s, 1, 1 - 1) = <<>>
          BY SubSeqEmpty
        <4>3. <<s[1]>> \in Seq({s[1]})
          OBVIOUS
        <4> QED BY <4>1, <4>2, <4>3, ConcatEmptySeq
      <3> QED BY <1>2, <2>2, <3>1 DEF Keeps, KeptPart
    <2> QED BY <2>1, <2>2
  <1> HIDE DEF b
  <1>4. ASSUME NEW i \in (1 + 1)..n, i - 1 \in Good PROVE i \in Good
    <2>1. i \in 2..n /\ i \in Nat /\ b \in 1..i /\ i \in 1..n
      BY <1>1
    <2>2. f[i] = SubSeq(s, b, i - 1) \o <<s[i]>>
      BY <1>0, <1>2, <1>4, <2>1 DEF Keeps, KeptPart
    <2>3. SubSeq(s, b, i) = SubSeq(s, b, i - 1) \o <<s[i]>>
      BY <1>0, <2>1, SubSeqRecursiveSecond
    <2> QED BY <2>1, <2>2, <2>3
  <1> HIDE DEF Good
  <1>5. 1..n \subseteq Good
    BY <1>3, <1>4, Induction
  <1>6. Without(s, dropped) = SubSeq(s, b, n)
    BY <1>1, <1>2, <1>5 DEF Good
  <1>7. SubSeq(s, 1, n) = s /\ Tail(s) = SubSeq(s, 2, n)
    BY <1>0, SubSeqFull, TailIsSubSeq
  <1> QED BY <1>6, <1>7 DEF b

LEMMA WithoutNothing ==
    ASSUME NEW S, NEW s \in Seq(S), NEW dropped, \A i \in DOMAIN s : s[i] \notin dropped
    PROVE  Without(s, dropped) = s
  <1>1. DOMAIN s = 1..Len(s) /\ Len(s) \in Nat
    BY LenProperties
  <1>2. CASE s = <<>>
    BY <1>2, WithoutOfEmpty
  <1>3. CASE s # <<>>
    <2>1. Len(s) # 0
      BY <1>3, EmptySeq
    <2>2. s[1] \notin dropped /\ \A i \in 2..Len(s) : s[i] \notin dropped
      BY <1>1, <2>1
    <2> QED BY <1>3, <2>2, WithoutHead
  <1> QED BY <1>2, <1>3
-----------------------------------------------------------------------------
(* The columns that are selected are those the configuration names.          *)

Increasing(columns) == \A j, k \in DOMAIN columns : j < k => columns[j] < columns[k]

\* Without the named ones, columns in order are the others in order.
LEMMA WithoutKeepsOrder ==
    ASSUME NEW n \in Nat, NEW ids, NEW dropped, dropped = ToSet(ids),
           NEW kept, kept = ColumnsWithout(ids, n)
    PROVE  /\ kept \in Seq((0..(n - 1)) \ dropped)
           /\ Increasing(kept)
           /\ \A col \in (0..(n - 1)) \ dropped : \E k \in DOMAIN kept : kept[k] = col
  <1> DEFINE all == [i \in 1..n |-> i - 1]
  <1>0. kept = Without(all, dropped)
    BY DEF ColumnsWithout
  <1>1. all \in Seq(0..(n - 1)) /\ Len(all) = n /\ \A i \in 1..n : all[i] = i - 1
    <2>1. all = [i \in 1..n |-> all[i]] /\ \A i \in 1..n : all[i] \in 0..(n - 1) /\ all[i] = i - 1
      OBVIOUS
    <2> HIDE DEF all
    <2> QED BY <2>1, FunctionIsSeq
  <1> HIDE DEF all
  <1>2. kept \in Seq((0..(n - 1)) \ dropped)
    BY <1>0, <1>1, WithoutType
  <1>3. CASE n = 0
    <2>1. all = <<>>
      BY <1>1, <1>3, EmptySeq
    <2>2. kept = <<>>
      BY <1>0, <2>1, WithoutOfEmpty
    <2>3. DOMAIN <<>> = {}
      OBVIOUS
    <2>4. 0..(n - 1) = {}
      BY <1>3
    <2> QED BY <1>2, <2>2, <2>3, <2>4 DEF Increasing
  <1>4. CASE n # 0
    <2>1. PICK f : Keeps(f, all, dropped) /\ kept = f[n]
      BY <1>0, <1>1, <1>4, EmptySeq, WithoutDef
    <2> DEFINE Fine(i) == /\ f[i] \in Seq(0..(i - 1))
                          /\ Increasing(f[i])
                          /\ \A col \in (0..(i - 1)) \ dropped : \E k \in DOMAIN f[i] : f[i][k] = col
               Good == {i \in Nat : Fine(i)}
    <2>2. Fine(1)
      <3>1. all[1] = 0 /\ 0..(1 - 1) = {0}
        BY <1>1, <1>4
      <3>2. CASE 0 \in dropped
        <4>1. f[1] = <<>> /\ DOMAIN <<>> = {}
          BY <2>1, <3>1, <3>2 DEF Keeps, KeptPart
        <4> QED BY <3>1, <3>2, <4>1, EmptySeq DEF Increasing
      <3>3. CASE 0 \notin dropped
        <4>1. f[1] = <<0>>
          BY <2>1, <3>1, <3>3 DEF Keeps, KeptPart
        <4>2. DOMAIN <<0>> = {1} /\ <<0>>[1] = 0 /\ <<0>> \in Seq({0})
          OBVIOUS
        <4> QED BY <3>1, <4>1, <4>2 DEF Increasing
      <3> QED BY <3>2, <3>3
    <2>3. ASSUME NEW i \in (1 + 1)..n, Fine(i - 1) PROVE Fine(i)
      <3> DEFINE g == f[i - 1]
      <3>1. i \in 2..n /\ i \in 1..n /\ all[i] = i - 1 /\ (i - 1) - 1 = i - 2
        BY <1>1
      <3>2. g \in Seq(0..(i - 2)) /\ Increasing(g)
            /\ \A col \in (0..(i - 2)) \ dropped : \E k \in DOMAIN g : g[k] = col
        BY <2>3, <3>1
      <3>3. f[i] = g \o KeptPart(i - 1, dropped)
        BY <1>1, <2>1, <3>1 DEF Keeps
      <3> HIDE DEF g
      <3>4. g \in Seq(0..(i - 1))
        BY <3>1, <3>2
      <3>5. \A col \in 0..(i - 1) : col \in 0..(i - 2) \/ col = i - 1
        BY <3>1
      <3>6. CASE i - 1 \in dropped
        <4>1. f[i] = g
          BY <3>3, <3>4, <3>6, ConcatEmptySeq DEF KeptPart
        <4> QED BY <3>2, <3>4, <3>5, <3>6, <4>1
      <3>7. CASE i - 1 \notin dropped
        <4>1. PICK l \in Nat : l = Len(g)
          BY <3>4, LenProperties
        <4>2. <<i - 1>> \in Seq(0..(i - 1)) /\ Len(<<i - 1>>) = 1 /\ <<i - 1>>[1] = i - 1
          BY <3>1
        <4>3. f[i] = g \o <<i - 1>>
          BY <3>3, <3>7 DEF KeptPart
        <4>4. /\ f[i] \in Seq(0..(i - 1)) /\ Len(f[i]) = l + 1
              /\ \A k \in 1..(l + 1) : f[i][k] = IF k <= l THEN g[k] ELSE <<i - 1>>[k - l]
          BY <3>4, <4>1, <4>2, <4>3, ConcatProperties
        <4>5. DOMAIN g = 1..l /\ DOMAIN f[i] = 1..(l + 1)
          BY <3>4, <4>1, <4>4, LenProperties
        <4>6. \A k \in 1..l : f[i][k] = g[k] /\ g[k] \in 0..(i - 2)
          <5>1. \A k \in 1..l : g[k] \in 0..(i - 2)
            BY <3>2, <4>1, ElementOfSeq
          <5>2. \A k \in 1..l : k \in 1..(l + 1) /\ k <= l
            OBVIOUS
          <5> QED BY <4>4, <5>1, <5>2
        <4>7. f[i][l + 1] = i - 1
          <5>1. l + 1 \in 1..(l + 1) /\ ~(l + 1 <= l) /\ l + 1 - l = 1
            OBVIOUS
          <5> QED BY <4>2, <4>4, <5>1
        <4>8. Increasing(f[i])
          <5> SUFFICES ASSUME NEW j \in 1..(l + 1), NEW k \in 1..(l + 1), j < k
                       PROVE  f[i][j] < f[i][k]
            BY <4>5 DEF Increasing
          <5>1. j \in 1..l
            OBVIOUS
          <5>2. CASE k \in 1..l
            BY <3>2, <4>5, <4>6, <5>1, <5>2 DEF Increasing
          <5>3. CASE k = l + 1
            BY <3>1, <4>6, <4>7, <5>1, <5>3
          <5> QED BY <5>2, <5>3
        <4>9. \A col \in (0..(i - 1)) \ dropped : \E k \in DOMAIN f[i] : f[i][k] = col
          <5> SUFFICES ASSUME NEW col \in (0..(i - 1)) \ dropped
                       PROVE  \E k \in 1..(l + 1) : f[i][k] = col
            BY <4>5
          <5>1. CASE col \in 0..(i - 2)
            <6>1. PICK k \in 1..l : g[k] = col
              BY <3>2, <4>5, <5>1
            <6> QED BY <4>6, <6>1
          <5>2. CASE col = i - 1
            BY <4>7, <5>2
          <5> QED BY <3>5, <5>1, <5>2
        <4> QED BY <4>4, <4>8, <4>9
      <3> QED BY <3>6, <3>7
    <2> HIDE DEF Fine
    <2>4. 1 \in Good /\ \A i \in (1 + 1)..n : i - 1 \in Good => i \in Good
      BY <2>2, <2>3
    <2> HIDE DEF Good
    <2>5. 1..n \subseteq Good
      BY <2>4, Induction
    <2>6. n \in Good
      BY <1>4, <2>5
    <2>7. Fine(n)
      BY <2>6 DEF Good
    <2> QED BY <1>2, <2>1, <2>7 DEF Fine
  <1> QED BY <1>3, <1>4

\* A selector names the columns that it is read as.
LEMMA SliceRange ==
    ASSUME NEW sel, sel.from \in Nat, sel.to \subseteq Nat, \A x, y \in sel.to : x = y,
           NEW n \in Nat
    PROVE  LET columns == SliceColumns(sel, n)
           IN  /\ Increasing(columns)
               /\ \A col \in 0..(n - 1) :
                     (\E k \in DOMAIN columns : columns[k] = col)
                         <=> sel.from <= col /\ \A end \in sel.to : col < end
  <1> DEFINE end == IF sel.to = {} THEN n ELSE Least(Only(sel.to), n)
             start == Least(sel.from, end)
             columns == [i \in 1..(end - start) |-> start + i - 1]
  <1>1. /\ end \in Nat /\ end <= n
        /\ \A col \in 0..(n - 1) : col < end <=> \A e \in sel.to : col < e
    <2>1. CASE sel.to = {}
      BY <2>1
    <2>2. CASE sel.to # {}
      <3>1. Only(sel.to) \in sel.to
        BY <2>2 DEF Only
      <3>2. \A e \in sel.to : e = Only(sel.to)
        BY <3>1
      <3>3. end = Least(Only(sel.to), n)
        BY <2>2
      <3>4. PICK e \in Nat : e = Only(sel.to)
        BY <3>1
      <3>5. end \in Nat /\ end <= n /\ \A col \in 0..(n - 1) : col < end <=> col < e
        BY <3>3, <3>4 DEF Least
      <3>6. sel.to = {e}
        BY <3>1, <3>2, <3>4
      <3> QED BY <3>5, <3>6
    <2> QED BY <2>1, <2>2
  <1> HIDE DEF end
  <1>2. start \in Nat /\ start <= end /\ \A col \in Nat : col < end => (start <= col <=> sel.from <= col)
    BY <1>1 DEF Least
  <1> HIDE DEF start
  <1>3. DOMAIN columns = 1..(end - start) /\ \A k \in 1..(end - start) : columns[k] = start + k - 1
    OBVIOUS
  <1> HIDE DEF columns
  <1>4. Increasing(columns)
    BY <1>1, <1>2, <1>3 DEF Increasing
  <1>5. ASSUME NEW col \in 0..(n - 1)
        PROVE  (\E k \in DOMAIN columns : columns[k] = col) <=> start <= col /\ col < end
    <2>1. ASSUME start <= col, col < end PROVE \E k \in DOMAIN columns : columns[k] = col
      <3>1. col - start + 1 \in 1..(end - start)
        BY <1>1, <1>2, <2>1
      <3>2. columns[col - start + 1] = col
        BY <1>1, <1>2, <1>3, <3>1
      <3> QED BY <1>3, <3>1, <3>2
    <2>2. ASSUME NEW k \in 1..(end - start), columns[k] = col PROVE start <= col /\ col < end
      BY <1>1, <1>2, <1>3, <2>2
    <2> QED BY <1>3, <2>1, <2>2
  <1>6. \A col \in 0..(n - 1) :
           (\E k \in DOMAIN columns : columns[k] = col)
               <=> sel.from <= col /\ \A e \in sel.to : col < e
    BY <1>1, <1>2, <1>5
  <1> QED BY <1>4, <1>6 DEF SliceColumns, columns, start, end

LEMMA NamesAreRead ==
    ASSUME NEW sel, sel.from \in Nat, sel.list \in Seq(Nat), sel.to \subseteq Nat,
           \A x, y \in sel.to : x = y, sel.kind # "unset",
           NEW n \in Nat, NEW columns \in ParseColSelector(sel, n), NEW col \in 0..(n - 1)
    PROVE  Names(sel, col) <=> col \in ToSet(columns)
  <1>1. CASE sel.kind = "list"
    <2>1. columns = sel.list /\ DOMAIN columns = 1..Len(columns)
      BY <1>1, LenProperties DEF ParseColSelector, Ok
    <2> QED BY <1>1, <2>1 DEF Names, Contains, ToSet
  <1>2. CASE sel.kind = "slice"
    <2>1. columns = SliceColumns(sel, n)
      BY <1>2 DEF ParseColSelector, Ok
    <2>2. (\E k \in DOMAIN columns : columns[k] = col)
             <=> sel.from <= col /\ \A end \in sel.to : col < end
      BY <2>1, SliceRange
    <2> QED BY <1>2, <2>2 DEF Names, ToSet
  <1>3. CASE sel.kind \notin {"list", "slice", "unset"}
    BY <1>3 DEF ParseColSelector, Err
  <1> QED BY <1>1, <1>2, <1>3

\* The columns that are selected, counted from 1, are those that are meant.
LEMMA ColumnsAreMeant ==
    ASSUME server \in Servers, Selecting, NEW n \in Nat, NEW columns \in FeatureIdx(n)
    PROVE  AreMeant([k \in DOMAIN columns |-> columns[k] + 1], n)
  <1> DEFINE counted == [k \in DOMAIN columns |-> columns[k] + 1]
  <1>1. \A sel \in {cfg.features, cfg.ids} :
           /\ sel.from \in Nat /\ sel.to \subseteq Nat /\ sel.list \in Seq(Nat)
           /\ \A x, y \in sel.to : x = y
           /\ sel.kind = "unset" => sel = Unset
    BY SelectorAssumption DEF cfg
  <1>2. columns \in Seq(Nat) /\ (cfg.features.kind # "list" => columns \in Seq(0..(n - 1)))
    BY ColumnsType
  <1>3. CASE cfg.features.kind = "list"
    <2>1. columns = cfg.features.list
      BY <1>3, ColumnsType
    <2> QED BY <1>3, <2>1 DEF AreMeant
  <1>4. ASSUME Increasing(columns),
               \A col \in 0..(n - 1) : col \in ToSet(columns) <=> col + 1 \in Kept(n),
               cfg.features.kind # "list"
        PROVE  AreMeant(counted, n)
    <2>1. \A k \in DOMAIN columns : columns[k] \in 0..(n - 1) /\ counted[k] = columns[k] + 1
      BY <1>2, <1>4, ElementOfSeq, LenProperties
    <2>2. DOMAIN counted = DOMAIN columns
      OBVIOUS
    <2> HIDE DEF counted
    <2>3. \A j, k \in DOMAIN counted : j < k => counted[j] < counted[k]
      BY <1>4, <2>1, <2>2 DEF Increasing
    <2>4. \A k \in DOMAIN counted : counted[k] \in Kept(n)
      BY <1>4, <2>1, <2>2 DEF ToSet
    <2>5. ASSUME NEW c \in Kept(n) PROVE \E k \in DOMAIN counted : counted[k] = c
      <3>1. c \in 1..n /\ c - 1 \in 0..(n - 1) /\ c - 1 + 1 = c
        BY DEF Kept
      <3>2. c - 1 \in ToSet(columns)
        BY <1>4, <3>1
      <3>3. PICK k \in DOMAIN columns : columns[k] = c - 1
        BY <3>2 DEF ToSet
      <3> QED BY <2>1, <2>2, <3>1, <3>3
    <2>6. {counted[k] : k \in DOMAIN counted} = Kept(n)
      BY <2>4, <2>5
    <2> QED BY <1>4, <2>3, <2>6 DEF AreMeant
  <1>5. \A col \in 0..(n - 1) : col + 1 \in 1..n /\ (col + 1) - 1 = col
    OBVIOUS
  <1>6. CASE cfg.features # Unset /\ cfg.features.kind # "list"
    <2> DEFINE sel == cfg.features
    <2>1. columns \in ParseColSelector(sel, n) /\ sel.kind \notin {"list", "unset"}
      BY <1>1, <1>6 DEF FeatureIdx
    <2>2. sel.kind = "slice" /\ columns = SliceColumns(sel, n)
      BY <2>1 DEF ParseColSelector, Ok, Err
    <2>3. Increasing(columns)
      BY <1>1, <2>2, SliceRange
    <2>4. ASSUME NEW col \in 0..(n - 1) PROVE col \in ToSet(columns) <=> col + 1 \in Kept(n)
      <3>1. Names(sel, col) <=> col \in ToSet(columns)
        BY <1>1, <2>1, NamesAreRead
      <3> QED BY <1>5, <1>6, <3>1 DEF Kept
    <2> QED BY <1>4, <1>6, <2>3, <2>4
  <1>7. CASE cfg.features = Unset
    <2> DEFINE sel == cfg.ids
    <2>1. sel.kind # "unset" /\ cfg.features.kind # "list"
      BY <1>1, <1>7 DEF Selecting, Unset
    <2>2. PICK ids \in ParseColSelector(sel, n) : columns = ColumnsWithout(ids, n)
      BY <1>7 DEF FeatureIdx
    <2>3. /\ columns \in Seq((0..(n - 1)) \ ToSet(ids))
          /\ Increasing(columns)
          /\ \A col \in (0..(n - 1)) \ ToSet(ids) : \E k \in DOMAIN columns : columns[k] = col
      BY <2>2, WithoutKeepsOrder
    <2>4. ASSUME NEW col \in 0..(n - 1) PROVE col \in ToSet(columns) <=> col + 1 \in Kept(n)
      <3>1. Names(sel, col) <=> col \in ToSet(ids)
        BY <1>1, <2>1, <2>2, NamesAreRead
      <3>2. col \in ToSet(columns) => col \notin ToSet(ids)
        BY <2>3, ElementOfSeq, LenProperties DEF ToSet
      <3>3. col \notin ToSet(ids) => col \in ToSet(columns)
        BY <2>3 DEF ToSet
      <3> QED BY <1>5, <1>7, <3>1, <3>2, <3>3 DEF Kept
    <2> QED BY <1>4, <2>1, <2>3, <2>4
  <1> QED BY <1>3, <1>6, <1>7
-----------------------------------------------------------------------------
(* A matrix of cells and the rows that are read of it.                       *)

NumbersOf(m) == [i \in DOMAIN m |-> Numbers(m[i])]
ReadOf(m)    == IF Selecting THEN Selected(NumbersOf(m)) ELSE NumbersOf(m)

LEMMA NumbersOfType ==
    ASSUME NEW m \in Seq(Seq(Values))
    PROVE  /\ DOMAIN m = 1..Len(m) /\ Len(m) \in Nat
           /\ \A i \in DOMAIN m : m[i] \in Seq(Values) /\ Len(m[i]) \in Nat /\ DOMAIN m[i] = 1..Len(m[i])
           /\ NumbersOf(m) \in Matrices /\ Len(NumbersOf(m)) = Len(m) /\ DOMAIN NumbersOf(m) = DOMAIN m
           /\ \A i \in DOMAIN m :
                 /\ NumbersOf(m)[i] = Numbers(m[i])
                 /\ Len(NumbersOf(m)[i]) = Len(m[i]) /\ DOMAIN NumbersOf(m)[i] = DOMAIN m[i]
                 /\ \A k \in DOMAIN m[i] : NumbersOf(m)[i][k] = m[i][k].number
           /\ m # <<>> => NumbersOf(m) # <<>> /\ 1 \in DOMAIN m
  <1> DEFINE n == Len(m)
             numbers == NumbersOf(m)
  <1>1. n \in Nat /\ DOMAIN m = 1..n
    BY LenProperties
  <1>2. ASSUME NEW i \in 1..n
        PROVE  /\ m[i] \in Seq(Values) /\ Len(m[i]) \in Nat /\ DOMAIN m[i] = 1..Len(m[i])
               /\ Numbers(m[i]) \in Seq(Cells) /\ Len(Numbers(m[i])) = Len(m[i])
               /\ DOMAIN Numbers(m[i]) = DOMAIN m[i]
    <2>1. m[i] \in Seq(Values)
      BY ElementOfSeq
    <2> QED BY <2>1, LenProperties, NumbersType DEF Numbers
  <1>3. numbers = [i \in 1..n |-> numbers[i]] /\ \A i \in 1..n : numbers[i] = Numbers(m[i])
    BY <1>1 DEF NumbersOf
  <1> HIDE DEF numbers
  <1>4. numbers \in Seq(Seq(Cells)) /\ Len(numbers) = n /\ DOMAIN numbers = 1..n
    BY <1>1, <1>2, <1>3, FunctionIsSeq
  <1>5. \A i \in 1..n : \A k \in DOMAIN m[i] : Numbers(m[i])[k] = m[i][k].number
    BY DEF Numbers
  <1>6. m # <<>> => n # 0
    BY EmptySeq
  <1>7. m # <<>> => numbers # <<>> /\ 1 \in DOMAIN m
    BY <1>1, <1>4, <1>6, EmptySeq
  <1> QED BY <1>1, <1>2, <1>3, <1>4, <1>5, <1>7 DEF numbers, n, Matrices

\* The rows that are read of a matrix of numbers are those that are meant.
LEMMA ReadIsMeant ==
    ASSUME server \in Servers, NEW m \in Seq(Seq(Values)), m # <<>>, AllCells(m),
           IF Selecting THEN FeatureIdx(Len(m[1])) # Err /\ Reaches(NumbersOf(m)) ELSE Rectangular(m)
    PROVE  IsMeant(ReadOf(m), m)
  <1> DEFINE x == NumbersOf(m)
             n == Len(m[1])
  <1>1. /\ DOMAIN m = 1..Len(m) /\ Len(m) \in Nat /\ 1 \in DOMAIN m /\ n \in Nat
        /\ x \in Matrices /\ Len(x) = Len(m) /\ DOMAIN x = DOMAIN m /\ x # <<>> /\ Len(x[1]) = n
    BY NumbersOfType
  <1>2. ASSUME NEW i \in DOMAIN m
        PROVE  /\ DOMAIN m[i] = 1..Len(m[i]) /\ Len(m[i]) \in Nat
               /\ Len(x[i]) = Len(m[i]) /\ DOMAIN x[i] = DOMAIN m[i]
               /\ \A k \in DOMAIN m[i] : m[i][k] = Number(x[i][k])
    <2>1. m[i] \in Seq(Values) /\ \A k \in DOMAIN m[i] : x[i][k] = m[i][k].number
      BY NumbersOfType
    <2>2. \A k \in DOMAIN m[i] : m[i][k] \in Values /\ m[i][k].type = "number"
      BY <2>1, ElementOfSeq, LenProperties DEF AllCells, AllNumbers
    <2> QED BY <2>1, <2>2, NumbersOfType, ValuesAssumption
  <1> HIDE DEF x, n
  <1>3. CASE Selecting
    <2> DEFINE columns == Idx(x)
               counted == [k \in DOMAIN columns |-> columns[k] + 1]
    <2>1. FeatureIdx(n) # Err /\ Reaches(x) /\ columns \in FeatureIdx(n)
      BY <1>1, <1>3 DEF x, n, Idx, Only, Err
    <2>2. columns \in Seq(Nat) /\ AreMeant(counted, n)
      BY <1>1, <1>3, <2>1, ColumnsType, ColumnsAreMeant
    <2>3. Len(Selected(x)) = Len(m)
      BY <1>1, <2>1, SelectedType
    <2>4. ASSUME NEW i \in DOMAIN m PROVE IsMeantRow(Selected(x)[i], m[i], n)
      <3> DEFINE t == Selected(x)[i]
      <3>1. DOMAIN t = DOMAIN columns /\ \A k \in DOMAIN columns : t[k] = x[i][columns[k] + 1]
        BY <1>1 DEF Selected
      <3>2. \A k \in DOMAIN columns : columns[k] \in Nat /\ columns[k] < Len(m[i])
        <4>1. \A k \in DOMAIN columns : columns[k] \in Nat
          BY <2>2, ElementOfSeq, LenProperties
        <4> QED BY <1>1, <1>2, <2>1, <4>1 DEF Reaches
      <3>3. \A k \in DOMAIN columns : columns[k] + 1 \in DOMAIN m[i] /\ counted[k] = columns[k] + 1
        BY <1>2, <3>2
      <3> HIDE DEF t, columns
      <3>4. counted \in [DOMAIN t -> DOMAIN m[i]]
        BY <3>1, <3>3
      <3>5. \A k \in DOMAIN t : m[i][counted[k]] = Number(t[k])
        BY <1>2, <3>1, <3>3
      <3> HIDE DEF counted
      <3>6. IsMeantRow(t, m[i], n)
        BY <2>2, <3>4, <3>5 DEF IsMeantRow
      <3> QED BY <3>6 DEF t
    <2>5. IsMeant(Selected(x), m)
      BY <2>3, <2>4 DEF IsMeant, n
    <2> QED BY <1>3, <2>5 DEF ReadOf, x
  <1>4. CASE ~Selecting
    <2>1. cfg.features = Unset /\ cfg.ids = Unset /\ Rectangular(m)
      BY <1>4 DEF Selecting
    <2>2. Kept(n) = 1..n
      BY <2>1 DEF Kept, Names, Unset
    <2> DEFINE all == [k \in 1..n |-> k]
    <2>3. AreMeant(all, n)
      <3>1. cfg.features.kind # "list"
        BY <2>1 DEF Unset
      <3>2. {all[k] : k \in DOMAIN all} = 1..n /\ \A j, k \in DOMAIN all : j < k => all[j] < all[k]
        OBVIOUS
      <3> QED BY <2>2, <3>1, <3>2 DEF AreMeant
    <2>4. ASSUME NEW i \in DOMAIN m PROVE IsMeantRow(x[i], m[i], n)
      <3>1. DOMAIN x[i] = 1..n /\ DOMAIN m[i] = 1..n
        BY <1>1, <1>2, <2>1 DEF Rectangular, n
      <3>2. all \in [DOMAIN x[i] -> DOMAIN m[i]] /\ \A k \in DOMAIN x[i] : all[k] = k
        BY <3>1
      <3>3. \A k \in DOMAIN x[i] : m[i][all[k]] = Number(x[i][k])
        BY <1>2, <3>1, <3>2
      <3> HIDE DEF all
      <3> QED BY <2>3, <3>2, <3>3 DEF IsMeantRow
    <2>5. IsMeant(x, m)
      BY <1>1, <2>4 DEF IsMeant, n
    <2> QED BY <1>4, <2>5 DEF ReadOf, x
  <1> QED BY <1>3, <1>4

\* Of a table in which every row has the columns asked for, all rows can be
\* read, and they make a tensor.
LEMMA TableIsRead ==
    ASSUME server \in Servers, NEW m \in Seq(Seq(Values)), m # <<>>, Rectangular(m), AllCells(m),
           Selecting => FeatureIdx(Len(m[1])) # Err,
           \A c \in ToSet(cfg.features.list) : c < Len(m[1])
    PROVE  /\ Selecting => Reaches(NumbersOf(m))
           /\ IsMeant(ReadOf(m), m)
           /\ TensorShaped(ReadOf(m)) /\ Len(ReadOf(m)) = Len(m)
  <1> DEFINE x == NumbersOf(m)
  <1>1. /\ x \in Matrices /\ x # <<>> /\ DOMAIN x = DOMAIN m /\ Len(x) = Len(m) /\ 1 \in DOMAIN m
        /\ \A i \in DOMAIN m : Len(m[i]) \in Nat /\ Len(x[i]) = Len(m[i]) /\ Len(m[i]) = Len(m[1])
    BY NumbersOfType DEF Rectangular
  <1> HIDE DEF x
  <1>2. ASSUME Selecting PROVE Reaches(x)
    <2> SUFFICES ASSUME ~Reaches(x) PROVE FALSE
      OBVIOUS
    <2>1. PICK i \in DOMAIN x : IF cfg.features.kind = "list"
                                THEN \E col \in ToSet(cfg.features.list) : col >= Len(x[i])
                                ELSE Len(x[i]) < Len(x[1])
      BY <1>1, <1>2, SelectPanics
    <2>2. ~(Len(x[i]) < Len(x[1]))
      BY <1>1
    <2>3. \A col \in ToSet(cfg.features.list) : col \in Nat
      <3>1. cfg.features.list \in Seq(Nat)
        BY SelectorAssumption DEF cfg
      <3> QED BY <3>1, ElementOfSeq, LenProperties DEF ToSet
    <2>4. ~ \E col \in ToSet(cfg.features.list) : col >= Len(x[i])
      BY <1>1, <2>3
    <2> QED BY <2>1, <2>2, <2>4
  <1>3. IsMeant(ReadOf(m), m)
    BY <1>2, ReadIsMeant DEF x
  <1>4. CASE Selecting
    <2>1. FeatureIdx(Len(x[1])) # Err
      BY <1>1, <1>4
    <2>2. Selected(x) \in Matrices /\ Len(Selected(x)) = Len(m)
      BY <1>1, <1>2, <1>4, <2>1, SelectedType
    <2>3. \A i \in DOMAIN x : Len(Selected(x)[i]) = Len(Selected(x)[1])
      BY <1>1 DEF Selected
    <2>4. TensorShaped(Selected(x))
      <3>1. DOMAIN Selected(x) = DOMAIN x
        BY DEF Selected
      <3>2. Selected(x) # <<>>
        BY <1>1, <2>2, EmptySeq, LenProperties DEF Matrices
      <3> QED BY <2>3, <3>1, <3>2 DEF TensorShaped, Rectangular
    <2> QED BY <1>2, <1>3, <1>4, <2>2, <2>4 DEF ReadOf, x
  <1>5. CASE ~Selecting
    BY <1>1, <1>3, <1>5 DEF ReadOf, x, TensorShaped, Rectangular
  <1> QED BY <1>4, <1>5
-----------------------------------------------------------------------------
(* What the decoders make of the documents that write a matrix.              *)

PlainRow(row) == \A k \in DOMAIN row : row[k].type \in {"number", "other"}
PlainCells(m) == \A i \in DOMAIN m : PlainRow(m[i])

\* The reading of a matrix; an empty list is read as an empty row.
Reading(m) == IF m = <<>> THEN Ok(<< <<>> >>) ELSE IF AllCells(m) THEN Ok(NumbersOf(m)) ELSE Err

LEMMA ReadingOfRow ==
    ASSUME NEW row \in Seq(Values)
    PROVE  /\ <<row>> \in Seq(Seq(Values)) /\ Len(<<row>>) = 1 /\ <<row>>[1] = row
           /\ PlainRow(row) => PlainCells(<<row>>)
           /\ Reading(<<row>>) = IF AllNumbers(row) THEN Ok(<<Numbers(row)>>) ELSE Err
  <1>1. DOMAIN <<row>> = {1} /\ <<row>>[1] = row /\ <<row>> # <<>>
    OBVIOUS
  <1>2. NumbersOf(<<row>>) = <<Numbers(row)>>
    <2>1. NumbersOf(<<row>>) = [i \in {1} |-> Numbers(row)]
      BY <1>1 DEF NumbersOf
    <2> QED BY <2>1
  <1>3. AllCells(<<row>>) <=> AllNumbers(row)
    BY <1>1 DEF AllCells
  <1> QED BY <1>1, <1>2, <1>3 DEF Reading, PlainCells

LEMMA RowWritten ==
    ASSUME NEW row \in Seq(Values), PlainRow(row), NEW v, WritesRow(v, row)
    PROVE  /\ ValueToNumericRows(v) = Reading(<<row>>)
           /\ v.type # "object"
  <1>1. DOMAIN row = 1..Len(row) /\ Len(row) \in Nat
    BY LenProperties
  <1>2. CASE v = Array(row)
    <2>1. v.type = "array" /\ v.items = row
      BY <1>2 DEF Array
    <2>2. ~IsMatrix(v)
      <3> SUFFICES ASSUME row # <<>> PROVE row[1].type # "array"
        BY <2>1 DEF IsMatrix
      <3>1. 1 \in DOMAIN row
        BY <1>1, EmptySeq
      <3> QED BY <3>1 DEF PlainRow
    <2> QED BY <2>1, <2>2, ReadingOfRow DEF ValueToNumericRows
  <1>3. CASE Len(row) = 1 /\ v = row[1]
    <2>1. 1 \in DOMAIN row /\ v.type \in {"number", "other"}
      BY <1>1, <1>3 DEF PlainRow
    <2>2. AllNumbers(row) <=> v.type = "number"
      BY <1>1, <1>3 DEF AllNumbers
    <2>3. Numbers(row) = <<v.number>>
      <3>1. Numbers(row) = [i \in 1..1 |-> v.number]
        BY <1>1, <1>3 DEF Numbers
      <3> QED BY <3>1
    <2>4. ~IsMatrix(v) /\ v.type # "array"
      BY <2>1 DEF IsMatrix
    <2> QED BY <2>1, <2>2, <2>3, <2>4, ReadingOfRow DEF ValueToNumericRows
  <1> QED BY <1>2, <1>3 DEF WritesRow

LEMMA RowsWritten ==
    ASSUME NEW m \in Seq(Seq(Values)), PlainCells(m), NEW v, WritesRows(v, m)
    PROVE  /\ ValueToNumericRows(v) = Reading(m)
           /\ v.type # "object"
  <1>1. /\ DOMAIN m = 1..Len(m) /\ Len(m) \in Nat
        /\ m # <<>> => 1 \in DOMAIN m
    BY NumbersOfType
  <1>2. CASE v = Array([i \in DOMAIN m |-> Array(m[i])])
    <2> DEFINE arrays == [i \in DOMAIN m |-> Array(m[i])]
    <2>1. v.type = "array" /\ v.items = arrays
      BY <1>2 DEF Array
    <2>2. DOMAIN arrays = DOMAIN m /\ \A i \in DOMAIN m : arrays[i].type = "array" /\ arrays[i].items = m[i]
      BY DEF Array
    <2>3. m = <<>> => arrays = <<>>
      BY DEF Array
    <2> HIDE DEF arrays
    <2>4. DOMAIN <<>> = {}
      OBVIOUS
    <2>5. CASE m = <<>>
      <3>1. ~IsMatrix(v) /\ AllNumbers(v.items) /\ v.items = <<>>
        BY <2>1, <2>3, <2>4, <2>5 DEF IsMatrix, AllNumbers
      <3>2. Numbers(<<>>) = <<>>
        BY DEF Numbers
      <3> QED BY <2>1, <2>5, <3>1, <3>2 DEF ValueToNumericRows, Reading
    <2>6. CASE m # <<>>
      <3>1. IsMatrix(v) /\ ~AllNumbers(v.items)
        BY <1>1, <2>1, <2>2, <2>4, <2>6 DEF IsMatrix, AllNumbers
      <3>2. AllCells(m) <=> \A i \in DOMAIN v.items :
                                v.items[i].type = "array" /\ AllNumbers(v.items[i].items)
        BY <2>1, <2>2 DEF AllCells
      <3>3. [i \in DOMAIN v.items |-> Numbers(v.items[i].items)] = NumbersOf(m)
        BY <2>1, <2>2 DEF NumbersOf
      <3> QED BY <2>1, <2>6, <3>1, <3>2, <3>3 DEF ValueToNumericRows, Reading
    <2> QED BY <2>1, <2>5, <2>6
  <1>3. CASE Len(m) = 1 /\ WritesRow(v, m[1])
    <2>1. m = <<m[1]>> /\ m[1] \in Seq(Values) /\ 1 \in DOMAIN m
      BY <1>1, <1>3
    <2>2. PlainRow(m[1])
      BY <2>1 DEF PlainCells
    <2> QED BY <1>3, <2>1, <2>2, RowWritten
  <1> QED BY <1>2, <1>3 DEF WritesRows

\* A line is read alike by both decoders.
LEMMA LineWritten ==
    ASSUME NEW row \in Seq(Values), PlainRow(row), NEW doc, WritesLine(doc, row)
    PROVE  /\ LineRows(doc) = Reading(<<row>>)
           /\ ValueToNumericRows(RowsField(doc)) = Reading(<<row>>)
  <1>1. CASE WritesRow(doc, row)
    <2>1. \A key : ~HasField(doc, key)
      BY <1>1, RowWritten DEF HasField
    <2>2. ValueToNumericRows(doc) = Reading(<<row>>)
      BY <1>1, RowWritten
    <2> QED BY <2>1, <2>2 DEF LineRows, RowsField
  <1>2. CASE HasOnly(doc, "features") /\ WritesRow(doc.fields["features"], row)
    <2> DEFINE v == doc.fields["features"]
    <2>1. HasField(doc, "features") /\ ~HasField(doc, "instances")
      BY <1>2 DEF HasOnly, HasField
    <2>2. LineRows(doc) = ValueToNumericRows(v) /\ RowsField(doc) = Array(<<v>>)
      BY <2>1 DEF LineRows, RowsField
    <2> HIDE DEF v
    <2>3. ValueToNumericRows(v) = Reading(<<row>>)
      BY <1>2, RowWritten DEF v
    <2>4. WritesRows(Array(<<v>>), <<row>>)
      <3>1. CASE v = Array(row)
        <4>1. [i \in DOMAIN <<row>> |-> Array(<<row>>[i])] = <<Array(row)>>
          OBVIOUS
        <4> QED BY <3>1, <4>1 DEF WritesRows
      <3>2. CASE Len(row) = 1 /\ v = row[1]
        <4>1. row = <<v>>
          BY <3>2
        <4> QED BY <4>1, ReadingOfRow DEF WritesRows, WritesRow
      <3> QED BY <1>2, <3>1, <3>2 DEF WritesRow, v
    <2>5. ValueToNumericRows(Array(<<v>>)) = Reading(<<row>>)
      BY <2>4, ReadingOfRow, RowsWritten
    <2> QED BY <2>2, <2>3, <2>5
  <1> QED BY <1>1, <1>2 DEF WritesLine

LEMMA FlattenOne == ASSUME NEW x PROVE FlattenSeq(<<x>>) = x
  <1> DEFINE one == <<x>>
  <1>1. PICK n \in Nat : n = 1
    OBVIOUS
  <1>2. n = Len(one) /\ n # 0 /\ one[1] = x
    BY <1>1
  <1> HIDE DEF one
  <1>3. \E f : /\ FlattenSeq(one) = f[n]
               /\ f[1] = one[1]
               /\ \A i \in 2..n : f[i] = f[i - 1] \o one[i]
    BY <1>2, FlattenDef
  <1> QED BY <1>1, <1>2, <1>3 DEF one

LEMMA FlattenSingles ==
    ASSUME NEW S, NEW s \in Seq(S) PROVE FlattenSeq([i \in DOMAIN s |-> <<s[i]>>]) = s
  <1>1. Without(s, {}) = s
    BY WithoutNothing
  <1>2. Without(s, {}) = FlattenSeq([i \in DOMAIN s |-> <<s[i]>>])
    BY DEF Without
  <1> QED BY <1>1, <1>2

\* A single line is read as it is.
LEMMA OneLine ==
    ASSUME NEW docs, Len(docs) = 1, DOMAIN docs = 1..1, NEW m, LineRows(docs[1]) = Reading(m)
    PROVE  ParseJsonlRows(docs) = Reading(m)
  <1>1. CASE Reading(m) = Err
    BY <1>1 DEF ParseJsonlRows
  <1>2. CASE Reading(m) # Err
    <2>1. PICK x : Reading(m) = Ok(x)
      BY <1>2 DEF Reading
    <2>2. ~ \E i \in DOMAIN docs : LineRows(docs[i]) = Err
      BY <1>2
    <2>3. Only(LineRows(docs[1])) = x
      BY <2>1 DEF Only, Ok
    <2>4. [i \in DOMAIN docs |-> Only(LineRows(docs[i]))] = <<x>>
      BY <2>3
    <2> QED BY <2>1, <2>2, <2>4, FlattenOne DEF ParseJsonlRows
  <1> QED BY <1>1, <1>2

\* A matrix that is written as JSON is read as what it is or, by the JSON
\* Lines decoder, refused.
LEMMA JsonWritten ==
    ASSUME request.matrix \in Seq(Seq(Values)), PlainCells(request.matrix),
           request.docs \in Seq(Values), WritesJson
    PROVE  /\ ParseJsonRows(request.docs) = Reading(request.matrix)
           /\ ParseJsonlRows(request.docs) \in {Err, Reading(request.matrix)}
  <1> DEFINE m == request.matrix
             docs == request.docs
             doc == docs[1]
  <1>1. Len(docs) = 1 /\ DOMAIN docs = 1..1
    BY LenProperties DEF WritesJson
  <1>2. ParseJsonRows(docs) = ValueToNumericRows(RowsField(doc))
    BY <1>1 DEF ParseJsonRows
  <1>3. \/ WritesRows(doc, m)
        \/ HasOnly(doc, "instances") /\ WritesRows(doc.fields["instances"], m)
        \/ Len(m) = 1 /\ WritesLine(doc, m[1])
    BY DEF WritesJson
  <1>4. Len(m) = 1 => m = <<m[1]>> /\ m[1] \in Seq(Values) /\ PlainRow(m[1])
    BY LenProperties DEF PlainCells
  <1> HIDE DEF doc, docs, m
  <1>5. CASE WritesRows(doc, m)
    <2>1. ValueToNumericRows(doc) = Reading(m) /\ doc.type # "object"
      BY <1>5, RowsWritten DEF m
    <2>2. LineRows(doc) = Reading(m) /\ RowsField(doc) = doc
      BY <2>1 DEF LineRows, RowsField, HasField
    <2> QED BY <1>1, <1>2, <2>1, <2>2, OneLine DEF doc, docs, m
  <1>6. CASE HasOnly(doc, "instances") /\ WritesRows(doc.fields["instances"], m)
    <2>1. RowsField(doc) = doc.fields["instances"]
      BY <1>6 DEF RowsField, HasOnly, HasField
    <2>2. ValueToNumericRows(RowsField(doc)) = Reading(m)
      BY <1>6, <2>1, RowsWritten DEF m
    <2>3. LineRows(doc) = Err
      BY <1>6 DEF LineRows, HasOnly, HasField, ValueToNumericRows, IsMatrix
    <2>4. ParseJsonlRows(docs) = Err
      BY <1>1, <2>3 DEF ParseJsonlRows, doc
    <2> QED BY <1>2, <2>2, <2>4 DEF docs, m
  <1>7. CASE Len(m) = 1 /\ WritesLine(doc, m[1])
    <2>1. LineRows(doc) = Reading(m) /\ ValueToNumericRows(RowsField(doc)) = Reading(m)
      BY <1>4, <1>7, LineWritten
    <2> QED BY <1>1, <1>2, <2>1, OneLine DEF doc, docs, m
  <1> QED BY <1>3, <1>5, <1>6, <1>7

\* A matrix that is written as JSON Lines is read as what it is or, by the
\* JSON decoder, refused.
LEMMA JsonlWritten ==
    ASSUME request.matrix \in Seq(Seq(Values)), PlainCells(request.matrix),
           request.docs \in Seq(Values), WritesJsonl
    PROVE  /\ ParseJsonlRows(request.docs) = IF request.docs = <<>> THEN Ok(<<>>) ELSE Reading(request.matrix)
           /\ ParseJsonRows(request.docs) \in {Err, Reading(request.matrix)}
           /\ request.docs = <<>> => request.matrix = <<>>
  <1> DEFINE m == request.matrix
             docs == request.docs
             doc == docs[1]
  <1>1. DOMAIN docs = 1..Len(docs) /\ Len(docs) \in Nat /\ (docs = <<>> <=> Len(docs) = 0)
    BY LenProperties, EmptySeq
  <1>2. DOMAIN m = 1..Len(m) /\ Len(m) \in Nat /\ \A i \in DOMAIN m : m[i] \in Seq(Values) /\ PlainRow(m[i])
    BY LenProperties, ElementOfSeq DEF PlainCells
  <1>3. Len(docs) # 1 => ParseJsonRows(docs) = Err
    BY DEF ParseJsonRows
  <1>4. Len(docs) = 1 => ParseJsonRows(docs) = ValueToNumericRows(RowsField(doc))
    BY DEF ParseJsonRows
  <1>5. Len(m) = 1 => m = <<m[1]>>
    BY <1>2
  <1>6. \/ Len(docs) = Len(m) /\ \A i \in DOMAIN docs : WritesLine(docs[i], m[i])
        \/ /\ Len(docs) = 1
           /\ \/ WritesRows(doc, m)
              \/ HasOnly(doc, "features") /\ WritesRows(doc.fields["features"], m)
    BY DEF WritesJsonl
  <1>7. m \in Seq(Seq(Values)) /\ PlainCells(m)
    OBVIOUS
  <1> HIDE DEF m, doc, docs
  <1>8. CASE Len(docs) = Len(m) /\ \A i \in DOMAIN docs : WritesLine(docs[i], m[i])
    <2>1. \A i \in DOMAIN docs : LineRows(docs[i]) = Reading(<<m[i]>>)
      BY <1>1, <1>2, <1>8, LineWritten
    <2>2. \A i \in DOMAIN docs : LineRows(docs[i]) = IF AllNumbers(m[i]) THEN Ok(<<Numbers(m[i])>>) ELSE Err
      BY <1>1, <1>2, <1>8, <2>1, ReadingOfRow
    <2>3. CASE docs = <<>>
      <3>1. m = <<>>
        BY <1>1, <1>7, <1>8, <2>3, EmptySeq
      <3>2. DOMAIN docs = {} /\ [i \in DOMAIN docs |-> Only(LineRows(docs[i]))] = <<>>
        BY <2>3
      <3>3. ParseJsonlRows(docs) = Ok(<<>>)
        BY <3>2, FlattenEmpty DEF ParseJsonlRows
      <3> QED BY <1>1, <1>3, <2>3, <3>1, <3>3 DEF docs, m
    <2>4. CASE docs # <<>> /\ ~AllCells(m)
      <3>1. PICK i \in DOMAIN docs : ~AllNumbers(m[i])
        BY <1>1, <1>2, <1>8, <2>4 DEF AllCells
      <3>2. ParseJsonlRows(docs) = Err
        BY <2>2, <3>1 DEF ParseJsonlRows
      <3>3. m # <<>>
        BY <1>1, <1>7, <1>8, <2>4, EmptySeq
      <3>4. Len(docs) = 1 => ParseJsonRows(docs) = Reading(<<m[1]>>)
        BY <1>1, <1>2, <1>4, <1>8, LineWritten DEF doc
      <3> QED BY <1>3, <1>5, <1>8, <2>4, <3>2, <3>3, <3>4 DEF Reading, docs, m
    <2>5. CASE docs # <<>> /\ AllCells(m)
      <3>1. \A i \in DOMAIN docs : Only(LineRows(docs[i])) = <<Numbers(m[i])>> /\ LineRows(docs[i]) # Err
        BY <1>1, <1>2, <1>8, <2>2, <2>5 DEF AllCells, Only, Ok, Err
      <3>2. [i \in DOMAIN docs |-> Only(LineRows(docs[i]))]
               = [i \in DOMAIN NumbersOf(m) |-> <<NumbersOf(m)[i]>>]
        BY <1>1, <1>2, <1>8, <3>1 DEF NumbersOf
      <3>3. NumbersOf(m) \in Seq(Seq(Cells))
        BY <1>7, NumbersOfType DEF Matrices
      <3>4. ParseJsonlRows(docs) = Ok(NumbersOf(m))
        BY <3>1, <3>2, <3>3, FlattenSingles DEF ParseJsonlRows
      <3>5. m # <<>>
        BY <1>1, <1>7, <1>8, <2>5, EmptySeq
      <3>6. Len(docs) = 1 => ParseJsonRows(docs) = Reading(<<m[1]>>)
        BY <1>1, <1>2, <1>4, <1>8, LineWritten DEF doc
      <3> QED BY <1>3, <1>5, <1>8, <2>5, <3>4, <3>5, <3>6 DEF Reading, docs, m
    <2> QED BY <2>3, <2>4, <2>5
  <1>9. CASE Len(docs) = 1 /\ WritesRows(doc, m)
    <2>1. ValueToNumericRows(doc) = Reading(m) /\ doc.type # "object"
      BY <1>7, <1>9, RowsWritten
    <2>2. LineRows(doc) = Reading(m) /\ RowsField(doc) = doc
      BY <2>1 DEF LineRows, RowsField, HasField
    <2>3. docs # <<>> /\ DOMAIN docs = 1..1
      BY <1>1, <1>9
    <2> QED BY <1>4, <1>9, <2>1, <2>2, <2>3, OneLine DEF doc, docs, m
  <1>10. CASE Len(docs) = 1 /\ HasOnly(doc, "features") /\ WritesRows(doc.fields["features"], m)
    <2> DEFINE v == doc.fields["features"]
    <2>1. HasField(doc, "features") /\ ~HasField(doc, "instances")
      BY <1>10 DEF HasOnly, HasField
    <2>2. LineRows(doc) = ValueToNumericRows(v) /\ RowsField(doc) = Array(<<v>>)
      BY <2>1 DEF LineRows, RowsField
    <2>3. docs # <<>> /\ DOMAIN docs = 1..1
      BY <1>1, <1>10
    <2>4. WritesRows(v, m)
      BY <1>10
    <2> HIDE DEF v
    <2>5. ValueToNumericRows(v) = Reading(m)
      BY <1>7, <2>4, RowsWritten
    <2>6. ParseJsonlRows(docs) = Reading(m)
      BY <1>10, <2>2, <2>3, <2>5, OneLine DEF doc
    <2> DEFINE a == Array(<<v>>)
    <2>7. a.type = "array" /\ a.items = <<v>> /\ DOMAIN a.items = {1} /\ a.items[1] = v /\ a.items # <<>>
      BY DEF Array
    <2> HIDE DEF a
    <2>8. ValueToNumericRows(a) \in {Err, Reading(m)}
      <3>1. CASE v = Array([i \in DOMAIN m |-> Array(m[i])])
        <4> DEFINE arrays == [i \in DOMAIN m |-> Array(m[i])]
        <4>1. v.type = "array" /\ v.items = arrays
          BY <3>1 DEF Array
        <4>2. IsMatrix(a) /\ ~AllNumbers(a.items)
          BY <2>7, <4>1 DEF IsMatrix, AllNumbers
        <4>3. CASE m = <<>>
          <5>1. arrays = <<>> /\ DOMAIN <<>> = {}
            BY <4>3
          <5>2. AllNumbers(v.items) /\ Numbers(v.items) = <<>>
            BY <4>1, <5>1 DEF AllNumbers, Numbers
          <5>3. [i \in DOMAIN a.items |-> Numbers(a.items[i].items)] = << <<>> >>
            <6>1. [i \in DOMAIN a.items |-> Numbers(a.items[i].items)] = [i \in {1} |-> <<>>]
              BY <2>7, <5>2
            <6> QED BY <6>1
          <5>4. \A i \in DOMAIN a.items : a.items[i].type = "array" /\ AllNumbers(a.items[i].items)
            BY <2>7, <4>1, <5>2
          <5> QED BY <2>7, <4>2, <4>3, <5>3, <5>4 DEF ValueToNumericRows, Reading
        <4>4. CASE m # <<>>
          <5>1. 1 \in DOMAIN m
            BY <1>7, <4>4, NumbersOfType
          <5>2. v.items[1].type = "array" /\ 1 \in DOMAIN v.items
            BY <4>1, <5>1 DEF Array
          <5>3. ~AllNumbers(v.items)
            BY <5>2 DEF AllNumbers
          <5> QED BY <2>7, <4>2, <5>3 DEF ValueToNumericRows
        <4> QED BY <4>3, <4>4
      <3>2. CASE Len(m) = 1 /\ WritesRow(v, m[1])
        <4>1. m = <<m[1]>> /\ m[1] \in Seq(Values) /\ PlainRow(m[1])
          BY <1>2, <1>5, <3>2
        <4>2. WritesLine(doc, m[1])
          BY <1>10, <3>2 DEF WritesLine, v
        <4>3. ValueToNumericRows(RowsField(doc)) = Reading(m)
          BY <4>1, <4>2, LineWritten
        <4> QED BY <2>2, <4>3 DEF a
      <3> QED BY <2>4, <3>1, <3>2 DEF WritesRows
    <2> QED BY <1>4, <1>10, <2>2, <2>3, <2>6, <2>8 DEF a, docs, m
  <1> QED BY <1>6, <1>8, <1>9, <1>10
-----------------------------------------------------------------------------
(* What the decoder makes of lines of CSV.                                   *)

LinesRead(lines) == IF cfg.skipBlank THEN WithoutBlankLines(lines) ELSE lines
IsHeaderLine(line) == cfg.header = "true" \/ (cfg.header = "auto" /\ CsvFirstRowIsHeader(line))
FirstLost(read) == read # <<>> /\ read[1] # BlankLine /\ IsHeaderLine(read[1])

LEMMA BlankIsNoRow == ~AllNumbers(BlankLine)
  <1>1. 1 \in DOMAIN BlankLine /\ BlankLine[1].type = "blank"
    BY DEF BlankLine, Other
  <1> QED BY <1>1 DEF AllNumbers

LEMMA RowsBelow ==
    ASSUME NEW lines \in Seq(Seq(Values)), lines # <<>>
    PROVE  /\ Tail(lines) \in Seq(Seq(Values)) /\ lines[1] \in Seq(Values)
           /\ Len(lines) \in Nat \ {0} /\ DOMAIN lines = 1..Len(lines)
           /\ Len(Tail(lines)) = Len(lines) - 1
           /\ DOMAIN Tail(lines) = 1..(Len(lines) - 1)
           /\ \A i \in 2..Len(lines) : i - 1 \in DOMAIN Tail(lines) /\ Tail(lines)[i - 1] = lines[i]
           /\ \A i \in DOMAIN Tail(lines) : i + 1 \in 2..Len(lines) /\ Tail(lines)[i] = lines[i + 1]
  <1>1. Len(lines) \in Nat \ {0} /\ DOMAIN lines = 1..Len(lines)
    BY EmptySeq, LenProperties
  <1>2. /\ Tail(lines) \in Seq(Seq(Values)) /\ Len(Tail(lines)) = Len(lines) - 1
        /\ \A i \in 1..Len(Tail(lines)) : Tail(lines)[i] = lines[i + 1]
    BY HeadTailProperties
  <1>3. DOMAIN Tail(lines) = 1..(Len(lines) - 1)
    BY <1>2, LenProperties
  <1>4. ASSUME NEW i \in 2..Len(lines) PROVE i - 1 \in DOMAIN Tail(lines) /\ Tail(lines)[i - 1] = lines[i]
    <2>1. i - 1 \in 1..(Len(lines) - 1) /\ (i - 1) + 1 = i
      BY <1>1
    <2> QED BY <1>2, <1>3, <2>1
  <1>5. ASSUME NEW i \in DOMAIN Tail(lines) PROVE i + 1 \in 2..Len(lines) /\ Tail(lines)[i] = lines[i + 1]
    BY <1>1, <1>2, <1>3
  <1>6. lines[1] \in Seq(Values)
    BY <1>1, ElementOfSeq
  <1> QED BY <1>1, <1>2, <1>3, <1>4, <1>5, <1>6

\* Lines that are accepted are numbers, all that are not blank, or all but the
\* first.
LEMMA CsvAccepted ==
    ASSUME NEW lines \in Seq(Seq(Values)), NEW x \in ParseCsvRows(lines),
           NEW kept, kept = WithoutBlankLines(lines)
    PROVE  /\ kept \in Seq(Seq(Values)) /\ kept # <<>>
           /\ \/ /\ FirstLost(LinesRead(lines)) /\ Tail(kept) # <<>>
                 /\ AllCells(Tail(kept)) /\ x = NumbersOf(Tail(kept))
              \/ /\ ~FirstLost(LinesRead(lines))
                 /\ AllCells(kept) /\ x = NumbersOf(kept)
  <1> DEFINE read == LinesRead(lines)
             rest == CsvBody(read)
  <1>1. /\ read # <<>> /\ rest # <<>> /\ x = NumbersOf(rest) /\ AllCells(rest)
        /\ rest = IF IsHeaderLine(read[1]) THEN Tail(read) ELSE read
    BY DEF ParseCsvRows, LinesRead, Ok, Err, NumbersOf, AllCells, CsvBody, IsHeaderLine
  <1> HIDE DEF rest
  <1>2. kept \in Seq(Seq(Values)) /\ \A i \in DOMAIN kept : kept[i] # BlankLine
    <2>1. kept \in Seq(Seq(Values) \ {BlankLine})
      BY WithoutType DEF WithoutBlankLines
    <2>2. kept \in Seq(Seq(Values))
      BY <2>1
    <2> QED BY <2>1, <2>2, ElementOfSeq, LenProperties
  <1>3. CASE cfg.skipBlank
    <2>1. read = kept
      BY <1>3 DEF LinesRead
    <2>2. read[1] # BlankLine
      BY <1>1, <1>2, <2>1, RowsBelow
    <2> QED BY <1>1, <1>2, <2>1, <2>2 DEF FirstLost
  <1>4. CASE ~cfg.skipBlank
    <2>1. read = lines
      BY <1>4 DEF LinesRead
    <2>2. \A i \in DOMAIN rest : rest[i] # BlankLine
      BY <1>1, BlankIsNoRow DEF AllCells
    <2>3. CASE ~IsHeaderLine(read[1])
      <3>1. rest = lines
        BY <1>1, <2>1, <2>3
      <3>2. kept = lines
        BY <2>2, <3>1, WithoutNothing DEF WithoutBlankLines
      <3> QED BY <1>1, <1>2, <2>1, <2>3, <3>1, <3>2 DEF FirstLost
    <2>4. CASE IsHeaderLine(read[1])
      <3>1. rest = Tail(lines) /\ lines # <<>>
        BY <1>1, <2>1, <2>4
      <3>2. \A i \in 2..Len(lines) : lines[i] \notin {BlankLine}
        BY <2>2, <3>1, RowsBelow
      <3>3. kept = IF lines[1] \in {BlankLine} THEN Tail(lines) ELSE lines
        BY <3>1, <3>2, WithoutHead DEF WithoutBlankLines
      <3>4. CASE lines[1] = BlankLine
        BY <1>1, <1>2, <2>1, <3>1, <3>3, <3>4 DEF FirstLost
      <3>5. CASE lines[1] # BlankLine
        BY <1>1, <1>2, <2>1, <2>4, <3>1, <3>3, <3>5 DEF FirstLost
      <3> QED BY <3>4, <3>5
    <2> QED BY <2>3, <2>4
  <1> QED BY <1>3, <1>4

\* A header is above the rows.
LEMMA HeaderAbove ==
    ASSUME NEW header \in Seq(Seq(Values)), NEW m \in Seq(Seq(Values)),
           header # <<>> => Len(header) = 1, NEW lines, lines = header \o m
    PROVE  /\ header = <<>> => lines = m
           /\ header # <<>> => lines # <<>> /\ lines[1] = header[1] /\ Tail(lines) = m
  <1> DEFINE above == header \o m
  <1>1. CASE header = <<>>
    BY <1>1, ConcatEmptySeq
  <1>2. CASE header # <<>>
    <2>1. PICK n \in Nat : n = Len(m)
      BY LenProperties
    <2>2. /\ above \in Seq(Seq(Values)) /\ Len(above) = 1 + n
          /\ above[1] = header[1] /\ \A i \in 2..(1 + n) : above[i] = m[i - 1]
      <3>1. /\ above \in Seq(Seq(Values)) /\ Len(above) = Len(header) + Len(m)
            /\ \A i \in 1..(Len(header) + Len(m)) :
                  above[i] = IF i <= Len(header) THEN header[i] ELSE m[i - Len(header)]
        BY ConcatProperties
      <3>2. \A i \in 1..(1 + n) : above[i] = IF i <= 1 THEN header[i] ELSE m[i - 1]
        BY <1>2, <2>1, <3>1
      <3>3. 1 \in 1..(1 + n) /\ \A i \in 2..(1 + n) : i \in 1..(1 + n) /\ ~(i <= 1)
        OBVIOUS
      <3>4. Len(above) = 1 + n /\ above \in Seq(Seq(Values))
        BY <1>2, <2>1, <3>1
      <3> HIDE DEF above
      <3>5. above[1] = header[1]
        BY <3>2, <3>3
      <3>6. ASSUME NEW i \in 2..(1 + n) PROVE above[i] = m[i - 1]
        BY <3>2, <3>3
      <3> QED BY <3>4, <3>5, <3>6
    <2> HIDE DEF above
    <2>3. above # <<>> /\ above[1] = header[1]
      BY <2>2, EmptySeq
    <2>4. /\ Tail(above) \in Seq(Seq(Values)) /\ Len(Tail(above)) = n
          /\ \A i \in 1..n : Tail(above)[i] = above[i + 1]
      BY <2>2, <2>3, HeadTailProperties
    <2>5. \A i \in 1..n : i + 1 \in 2..(1 + n) /\ (i + 1) - 1 = i
      OBVIOUS
    <2>6. \A i \in 1..n : Tail(above)[i] = m[i]
      BY <2>2, <2>4, <2>5
    <2>7. Tail(above) = m
      BY <2>1, <2>4, <2>6, SeqEqual
    <2> QED BY <1>2, <2>3, <2>7 DEF above
  <1> QED BY <1>1, <1>2
=============================================================================
