------------------------------ MODULE MCModelLoad ------------------------------
(* A small instance of ModelLoad for TLC: loads of processes that differ in   *)
(* their configuration and share a model directory.                           *)
EXTENDS ModelLoad, TLC

Loads == {"onnx", "onnx_bad_map", "untyped", "other"}

Types == "onnx" :> "onnx" @@ "onnx_bad_map" :> "onnx" @@ "untyped" :> "" @@ "other" :> "other"
Maps  == [l \in Loads |-> l # "onnx_bad_map"]

Symmetry == Permutations(Model)
=============================================================================
