------------------------------- MODULE Parse --------------------------------
(***************************************************************************)
(* msg_parse_all (msg.c), avp_new_from and avp_decode (avp.c), and what    *)
(* worker_msg_proc (worker.c) uses: the AVPs of one message after the      *)
(* other.  What is never freed is left out.                                *)
(*                                                                         *)
(* A message is the sequence of its AVPs, each with the word it starts at; *)
(* a value is named by the position of its word.  The messages are those   *)
(* of peers that keep to the protocol and to the dictionary: AVPs lie end  *)
(* to end, padded to words, and types of 32 bits have a word of data.      *)
(***************************************************************************)
EXTENDS Integers, Sequences

CONSTANTS
  Messages,    \* the messages the receivers may hand over
  Dictionary,  \* the codec of every code the dictionary has
  MaxMessages  \* bound: messages handled

Align == 4         \* DIAMETER_ALIGN
HeaderWords == 5   \* MSG_HEADER_SIZE / DIAMETER_ALIGN
NoValue == -1

VARIABLES
  msg,      \* the message in hand
  msg_len,  \* msg->header.msg_len
  pc,       \* where the worker is
  pos,      \* msg_parse_all's pos
  avps,     \* msg->avps
  count     \* messages taken so far

vars == <<msg, msg_len, pc, pos, avps, count>>

(* The value sits behind two words, or three if there is a vendor id.      *)
HeaderSize(avp) == IF avp.vendor THEN 3 ELSE 2

(* An AVP's length in words: the padding is not counted in its len.        *)
Words(avp) == (avp.len + Align - 1) \div Align

Wide(codec) == codec \in {"INTEGER32", "UNSIGNED32"}

Avps == [start : Nat, code : Nat, vendor : BOOLEAN, vendor_id : Nat, len : Nat \ {0}]

EndOf(m) == IF m = << >> THEN HeaderWords ELSE m[Len(m)].start + Words(m[Len(m)])

(* The AVPs lie end to end, so none reaches into a later one.              *)
WellFormed(m) ==
  /\ m # << >> => m[1].start = HeaderWords
  /\ \A k \in 1 .. Len(m) - 1 : m[k + 1].start = m[k].start + Words(m[k])
  /\ \A j, k \in DOMAIN m : j < k => m[j].start + Words(m[j]) <= m[k].start
  /\ \A k \in DOMAIN m :
       /\ m[k].len >= Align * HeaderSize(m[k])
       /\ ~m[k].vendor => m[k].vendor_id = 0
       /\ m[k].code \in DOMAIN Dictionary /\ Wide(Dictionary[m[k].code])
            => m[k].len = Align * HeaderSize(m[k]) + Align

ASSUME MessageAssumption ==
  /\ Messages \subseteq Seq(Avps)
  /\ \A m \in Messages : WellFormed(m)
  /\ MaxMessages \in Nat

Init ==
  /\ msg = << >>
  /\ msg_len = 0
  /\ pc = "idle"
  /\ pos = 0
  /\ avps = << >>
  /\ count = 0

(* The receiver made the message and parsed its header: msg_new,           *)
(* msg_parse_header.                                                       *)
Take(m) ==
  /\ pc = "idle"
  /\ count < MaxMessages
  /\ msg' = m
  /\ msg_len' = Align * EndOf(m)
  /\ avps' = << >>
  /\ count' = count + 1
  /\ pc' = "parse"
  /\ UNCHANGED pos

Begin ==
  /\ pc = "parse"
  /\ pos' = HeaderWords
  /\ pc' = "avps"
  /\ UNCHANGED <<msg, msg_len, avps, count>>

(* The words from position p read as an AVP header; elsewhere they are     *)
(* some words of data.                                                     *)
HeaderAt(p) ==
  IF \E k \in DOMAIN msg : msg[k].start = p
  THEN msg[CHOOSE k \in DOMAIN msg : msg[k].start = p]
  ELSE [start |-> p, code |-> 0, vendor |-> FALSE, vendor_id |-> 0, len |-> 0]

(* dict_get_avp: no AVP of the dictionary has a vendor.                    *)
Known(avp) == avp.code \in DOMAIN Dictionary /\ avp.vendor_id = 0

(* Fault for mutation: the value is read behind two words always.          *)
DecodeNoVendor(avp) ==
  [raw_data |-> avp.start, code |-> avp.code,
   value |-> IF Wide(Dictionary[avp.code]) THEN avp.start + 2 ELSE NoValue]

(* avp_decode: only values of 32 bits are stored.                          *)
Decode(avp) ==
  [raw_data |-> avp.start, code |-> avp.code,
   value |-> IF Wide(Dictionary[avp.code]) THEN avp.start + HeaderSize(avp) ELSE NoValue]

(* Fault for mutation: the padding is not skipped.                         *)
AdvanceNoPadding(avp) == avp.len \div Align

(* Fault for mutation: the length is taken for a number of words.          *)
AdvanceBytes(avp) == avp.len

(* What the loop adds to pos.                                              *)
Advance(avp) == (avp.len + Align - 1) \div Align

MoreAvps == pos * Align < msg_len

(* One turn of the loop: an AVP the dictionary does not know is dropped.   *)
ParseAvp ==
  LET avp == HeaderAt(pos)
  IN /\ pc = "avps"
     /\ MoreAvps
     /\ avps' = IF Known(avp) THEN Append(avps, Decode(avp)) ELSE avps
     /\ pos' = pos + Advance(avp)
     /\ UNCHANGED <<msg, msg_len, pc, count>>

EndParse ==
  /\ pc = "avps"
  /\ ~MoreAvps
  /\ pc' = "parsed"
  /\ UNCHANGED <<msg, msg_len, pos, avps, count>>

(* The rest of worker_msg_proc, and the end of the event in worker_thread. *)
Handle ==
  /\ pc = "parsed"
  /\ pc' = "idle"
  /\ UNCHANGED <<msg, msg_len, pos, avps, count>>

Work == Begin \/ ParseAvp \/ EndParse \/ Handle

Next == (\E m \in Messages : Take(m)) \/ Work

(* The worker thread keeps running while it has a message.                 *)
Spec == Init /\ [][Next]_vars /\ WF_vars(Work)
-----------------------------------------------------------------------------
Entries == [raw_data : Nat, code : DOMAIN Dictionary, value : Nat \cup {NoValue}]

(* Types; the loop never stands past the end of the message.               *)
TypeOK ==
  /\ msg \in Messages \cup {<< >>}
  /\ pc \in {"idle", "parse", "avps", "parsed"}
  /\ msg_len \in Nat
  /\ pos \in Nat
  /\ pc = "avps" => pos * Align <= msg_len
  /\ avps \in Seq(Entries)
  /\ count \in 0 .. MaxMessages

(* When a message is parsed, its array holds each AVP the dictionary knows *)
(* exactly once and in the order of the message, and each value was read   *)
(* from the first word of data of its own AVP.                             *)
AllDecoded ==
  pc = "parsed" =>
    /\ \A i, j \in DOMAIN avps : i < j => avps[i].raw_data < avps[j].raw_data
    /\ {avps[i] : i \in DOMAIN avps} =
         {[raw_data |-> avp.start, code |-> avp.code,
           value |-> IF Wide(Dictionary[avp.code])
                     THEN avp.start + HeaderSize(avp) ELSE NoValue] :
            avp \in {msg[k] : k \in {n \in DOMAIN msg : Known(msg[n])}}}

(* The loop over the AVPs ends.                                            *)
ParseEnds == pc = "avps" ~> pc = "parsed"
=============================================================================
