----------------------------- MODULE MCReceiver -----------------------------
(***************************************************************************)
(* A peer that sends up to two messages, of a bare Diameter header or with *)
(* one AVP header behind it, in any segmentation.                          *)
(***************************************************************************)
EXTENDS Receiver

NoMemory == -1
=============================================================================
