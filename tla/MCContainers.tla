---------------------------- MODULE MCContainers ----------------------------
(***************************************************************************)
(* The two containers for TLC.  They share nothing: a behaviour uses one   *)
(* of them, and the other keeps its initial state.                         *)
(***************************************************************************)
EXTENDS Array, List, TLC

VARIABLE used  \* the container the behaviour is about

Init == ArrayInit /\ ListInit /\ used \in {"array", "list"}

Next ==
  /\ UNCHANGED used
  /\ \/ used = "array" /\ ArrayNext /\ UNCHANGED listVars
     \/ used = "list" /\ ListNext /\ UNCHANGED arrayVars

Spec == Init /\ [][Next]_<<used, arrayVars, listVars>>
=============================================================================
