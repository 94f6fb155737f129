------------------------------ MODULE MCServing ------------------------------
(* Small instances of Serving for TLC. *)
EXTENDS Serving, TLC

\* A payload per outcome, some with two defects, of which the order of the
\* stages decides the answer.
SafetyPayloads == {{}, {"oversize"}, {"malformed", "panics"}, {"panics", "rejected"}}

LivenessPayloads == {{}, {"oversize"}, {"rejected"}, {"too_many"}, {"panics"}}

Symmetry == Permutations(Client) \cup Permutations(Model)
=============================================================================
