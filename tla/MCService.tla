----------------------------- MODULE MCService ------------------------------
(***************************************************************************)
(* Small processes for TLC.  One worker: workers share nothing but the     *)
(* code.  One client more than there are descriptors for clients.          *)
(***************************************************************************)
EXTENDS Service
=============================================================================
