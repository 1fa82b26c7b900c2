------------------------------ MODULE MCParse -------------------------------
(***************************************************************************)
(* Messages of up to three AVPs: two codes the dictionary knows and one it *)
(* does not, with and without a vendor, text of every length modulo four.  *)
(***************************************************************************)
EXTENDS Parse

Codec == [c \in {257, 268} |-> IF c = 268 THEN "UNSIGNED32" ELSE "OCTETSTRING"]

Bodies ==
  {[code |-> c, vendor |-> v, vendor_id |-> IF v THEN id ELSE 0,
    len |-> (IF v THEN 12 ELSE 8) + size] :
     c \in {257, 999}, v \in BOOLEAN, id \in {0, 61}, size \in {0, 3, 5}}
  \cup
  {[code |-> 268, vendor |-> v, vendor_id |-> 0, len |-> (IF v THEN 12 ELSE 8) + 4] :
     v \in BOOLEAN}

(* The AVPs of one body after another, each at its place.                  *)
Placed(bodies) ==
  LET start[k \in 1 .. Len(bodies)] ==
        IF k = 1 THEN HeaderWords ELSE start[k - 1] + Words(bodies[k - 1])
  IN [k \in DOMAIN bodies |->
        [start |-> start[k], code |-> bodies[k].code, vendor |-> bodies[k].vendor,
         vendor_id |-> bodies[k].vendor_id, len |-> bodies[k].len]]

Short == {Placed(bodies) : bodies \in UNION {[1 .. n -> Bodies] : n \in 0 .. 2}}
=============================================================================
