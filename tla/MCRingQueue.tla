---------------------------- MODULE MCRingQueue ----------------------------
(***************************************************************************)
(* Two receivers that push and one worker that pops, in any role, on a     *)
(* queue small enough to fill up and to wrap several times.                *)
(***************************************************************************)
EXTENDS RingQueue
=============================================================================
