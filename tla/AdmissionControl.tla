--------------------------- MODULE AdmissionControl ---------------------------
(***************************************************************************)
(* What the inflight limit promises, without its mechanism: at most         *)
(* Capacity callers are inside; a caller waits, or is turned away, only     *)
(* while the room is full; whoever leaves makes way for a waiting caller,   *)
(* if there is one, in the same step.  Serving is shown to implement this   *)
(* specification with the calls that own a permit of AppState.inflight      *)
(* inside, and the calls queued on it waiting.                              *)
(***************************************************************************)
EXTENDS Naturals, FiniteSets

CONSTANTS Caller,     \* the callers
          Capacity    \* how many of them may be inside at once

VARIABLES inside,     \* the callers admitted and not gone yet
          waiting     \* the callers waiting for room

admissionVars == <<inside, waiting>>

Outside == Caller \ (inside \cup waiting)
Full    == Cardinality(inside) = Capacity

Init == inside = {} /\ waiting = {}

Enter(c) ==
    /\ c \in Outside
    /\ ~Full
    /\ inside' = inside \cup {c}
    /\ UNCHANGED waiting

Wait(c) ==
    /\ c \in Outside
    /\ Full
    /\ waiting' = waiting \cup {c}
    /\ UNCHANGED inside

\* A waiting caller runs out of patience or is gone.  Only a full room lets
\* it leave empty-handed.
TurnAway(c) ==
    /\ c \in waiting
    /\ Full
    /\ waiting' = waiting \ {c}
    /\ UNCHANGED inside

Leave(c) ==
    /\ c \in inside
    /\ waiting = {}
    /\ inside' = inside \ {c}
    /\ UNCHANGED waiting

\* The room given up by c goes straight to w: no third caller slips in.
HandOver(c, w) ==
    /\ c \in inside
    /\ w \in waiting
    /\ inside' = (inside \ {c}) \cup {w}
    /\ waiting' = waiting \ {w}

Next == \E c \in Caller :
    \/ Enter(c) \/ Wait(c) \/ TurnAway(c) \/ Leave(c)
    \/ \E w \in Caller : HandOver(c, w)

Spec == Init /\ [][Next]_admissionVars
=============================================================================
