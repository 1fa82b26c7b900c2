------------------------------ MODULE MCServer ------------------------------
(***************************************************************************)
(* Small servers for TLC.  Two connections are enough for every race on    *)
(* curr_worker; the connections are interchangeable, the workers are not:  *)
(* they are numbered and take turns.                                       *)
(***************************************************************************)
EXTENDS Server, TLC

Symmetric == Permutations(Receivers)
=============================================================================
