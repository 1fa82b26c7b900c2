---------------------------- MODULE ElemSequence ----------------------------
(***************************************************************************)
(* What array.h promises: a sequence of elements, addressed from 0, and    *)
(* calls that each report what they did.  last is the latest call: its     *)
(* operation, position, element and result.                                *)
(***************************************************************************)
EXTENDS Naturals, Sequences

CONSTANTS
  Elems,      \* the elements, positive numbers; cmp compares numbers
  Positions,  \* the positions callers name
  OK,         \* 0
  ENOENT,     \* the status of a call that names a position that is not there
  NONE        \* no element: NULL, or an argument the call does not have

VARIABLES
  seq,    \* the elements
  last    \* the latest call

seqVars == <<seq, last>>

Call(op, pos, elem, ret) == last' = [op |-> op, pos |-> pos, elem |-> elem, ret |-> ret]

SeqInit == seq = << >> /\ last = [op |-> "new", pos |-> 0, elem |-> NONE, ret |-> OK]

(* s with e before the element at position p; s without that element.      *)
Inserted(s, p, e) ==
  [i \in 1 .. Len(s) + 1 |-> IF i <= p THEN s[i] ELSE IF i = p + 1 THEN e ELSE s[i - 1]]
Erased(s, p) == [i \in 1 .. Len(s) - 1 |-> IF i <= p THEN s[i] ELSE s[i + 1]]

SeqPushBack(e) == seq' = Append(seq, e) /\ Call("push_back", 0, e, OK)

SeqPopBack ==
  \/ /\ seq # << >>
     /\ seq' = Erased(seq, Len(seq) - 1)
     /\ Call("pop_back", 0, NONE, OK)
  \/ seq = << >> /\ Call("pop_back", 0, NONE, ENOENT) /\ UNCHANGED seq

(* With an iterator any place will do, the end included; a position must   *)
(* be that of an element.                                                  *)
SeqInsert(p, e) ==
  p <= Len(seq) /\ seq' = Inserted(seq, p, e) /\ Call("insert", p, e, OK)

SeqInsertAt(p, e) ==
  \/ p < Len(seq) /\ seq' = Inserted(seq, p, e) /\ Call("insert_at", p, e, OK)
  \/ p >= Len(seq) /\ Call("insert_at", p, e, ENOENT) /\ UNCHANGED seq

SeqErase(p) == p < Len(seq) /\ seq' = Erased(seq, p) /\ Call("erase", p, NONE, OK)

SeqEraseAt(p) ==
  \/ p < Len(seq) /\ seq' = Erased(seq, p) /\ Call("erase_at", p, NONE, OK)
  \/ p >= Len(seq) /\ Call("erase_at", p, NONE, ENOENT) /\ UNCHANGED seq

SeqClear == seq' = << >> /\ Call("clear", 0, NONE, OK)

(* The same elements, as often, in ascending order.                        *)
SeqSort ==
  /\ \E f \in [DOMAIN seq -> DOMAIN seq] :
       /\ \A i, j \in DOMAIN seq : f[i] = f[j] => i = j
       /\ seq' = [i \in DOMAIN seq |-> seq[f[i]]]
  /\ \A i, j \in DOMAIN seq' : i < j => seq'[i] <= seq'[j]
  /\ Call("sort", 0, NONE, OK)

SeqAt(p) ==
  /\ Call("at", p, NONE, IF p < Len(seq) THEN seq[p + 1] ELSE NONE)
  /\ UNCHANGED seq

(* The position of the first e, or the end.                                *)
SeqFind(e) ==
  \E p \in 0 .. Len(seq) :
    /\ p < Len(seq) => seq[p + 1] = e
    /\ \A i \in 1 .. p : seq[i] # e
    /\ Call("find", 0, e, p)
    /\ UNCHANGED seq

SeqNext ==
  \/ SeqPopBack \/ SeqClear \/ SeqSort
  \/ \E e \in Elems : SeqPushBack(e) \/ SeqFind(e)
  \/ \E p \in Positions :
       \/ SeqErase(p) \/ SeqEraseAt(p) \/ SeqAt(p)
       \/ \E e \in Elems : SeqInsert(p, e) \/ SeqInsertAt(p, e)

SeqSpec == SeqInit /\ [][SeqNext]_seqVars
=============================================================================
