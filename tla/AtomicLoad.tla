------------------------------ MODULE AtomicLoad ------------------------------
(***************************************************************************)
(* What loading a model promises: a load that ends, ends as if it had       *)
(* looked at the disk once.  This is the load of module Serving, and what   *)
(* the steps of module ModelLoad implement.                                 *)
(***************************************************************************)
CONSTANTS
    Loader,    \* the calls that may load the model
    Disk,      \* the states of the disk
    Outcomes   \* Outcomes[l][d]: the model that disk d lets load l return, and
               \* the errors that disk d justifies

VARIABLES
    disk,     \* what is on disk
    loading,  \* the calls that are loading
    result    \* result[l]: {} or the model or the error l ended with

loadVars == <<disk, loading, result>>

Init ==
    /\ disk \in Disk
    /\ loading = {}
    /\ result = [l \in Loader |-> {}]

Begin(l) ==
    /\ l \notin loading
    /\ loading' = loading \cup {l}
    /\ result' = [result EXCEPT ![l] = {}]
    /\ UNCHANGED disk

Finish(l) ==
    /\ l \in loading
    /\ loading' = loading \ {l}
    /\ \E o \in Outcomes[l][disk] : result' = [result EXCEPT ![l] = {o}]
    /\ UNCHANGED disk

Change == disk' \in Disk /\ UNCHANGED <<loading, result>>

Next == Change \/ \E l \in Loader : Begin(l) \/ Finish(l)

Spec == Init /\ [][Next]_loadVars
=============================================================================
