----------------------------- MODULE NumericRows -----------------------------
(***************************************************************************)
(* JSON values and their reading as rows of numbers                         *)
(* (value_to_numeric_rows, src/app/src/input.rs), used by the JSON and JSON *)
(* Lines decoders and by the adapter.  A Rust Result is the set of its Ok   *)
(* value: empty for Err.                                                    *)
(***************************************************************************)
EXTENDS Naturals, Sequences

\* Values as far as the code tells them apart; the fields of an object are a
\* function from its keys.  "other" stands for strings, booleans, null and for
\* text that is not JSON at all.
Number(n) == [type |-> "number", number |-> n, items |-> <<>>, fields |-> <<>>]
Array(s)  == [type |-> "array", number |-> 0, items |-> s, fields |-> <<>>]
Object(f) == [type |-> "object", number |-> 0, items |-> <<>>, fields |-> f]
Other     == [type |-> "other", number |-> 0, items |-> <<>>, fields |-> <<>>]

HasField(v, key) == v.type = "object" /\ key \in DOMAIN v.fields

Err     == {}
Ok(x)   == {x}
Only(S) == CHOOSE x \in S : TRUE

AllNumbers(items) == \A i \in DOMAIN items : items[i].type = "number"
Numbers(items)    == [i \in DOMAIN items |-> items[i].number]

\* An array whose first item is an array is a matrix, any other array one row.
IsMatrix(v) == v.type = "array" /\ v.items # <<>> /\ v.items[1].type = "array"

\* Fault: items that are not numbers are skipped.
SkippingNumericRows(v) ==
    IF v.type # "array" THEN Err
    ELSE IF IsMatrix(v)
    THEN Ok([i \in DOMAIN v.items |->
               Numbers(SelectSeq(v.items[i].items, LAMBDA x : x.type = "number"))])
    ELSE Ok(<<Numbers(SelectSeq(v.items, LAMBDA x : x.type = "number"))>>)

ValueToNumericRows(v) ==
    IF v.type = "number" THEN Ok(<< <<v.number>> >>)
    ELSE IF IsMatrix(v) /\ \A i \in DOMAIN v.items :
              v.items[i].type = "array" /\ AllNumbers(v.items[i].items)
    THEN Ok([i \in DOMAIN v.items |-> Numbers(v.items[i].items)])
    ELSE IF v.type = "array" /\ AllNumbers(v.items) THEN Ok(<<Numbers(v.items)>>)
    ELSE Err
=============================================================================
