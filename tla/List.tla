-------------------------------- MODULE List --------------------------------
(***************************************************************************)
(* list.c: doubly linked rings threaded through the elements themselves.   *)
(* A list_t is a link: a list's own link is its head, and an element of    *)
(* the list embeds one (receiver_t.list).  next and prev are the memory;   *)
(* order is what the callers mean the lists to hold.  An element is added  *)
(* only when no list has it, and deleted only from the list that has it.   *)
(***************************************************************************)
EXTENDS Naturals, Sequences

CONSTANTS
  Lists,  \* the heads
  Links,  \* the links embedded in elements
  NULL,   \* what list_del leaves in an element
  Junk    \* what malloc leaves there before the first add

VARIABLES
  next,   \* per link: the pointer next
  prev,   \* per link: the pointer prev
  order   \* per list: its elements, first to last

listVars == <<next, prev, order>>

(* Heads and elements are different addresses, NULL and junk are neither.  *)
ASSUME ListAssumption ==
  /\ Lists \cap Links = {}
  /\ {NULL, Junk} \cap (Lists \cup Links) = {}

On(l, e) == \E i \in DOMAIN order[l] : order[l][i] = e

Detached(e) == \A l \in Lists : ~On(l, e)

(* list_init makes every head a ring of its own.                           *)
ListInit ==
  /\ next = [k \in Lists \cup Links |-> IF k \in Lists THEN k ELSE Junk]
  /\ prev = next
  /\ order = [l \in Lists |-> << >>]

(* __list_add, in the order of its stores: prev->next comes last.          *)
Link(p, n, e) ==
  /\ prev' = [prev EXCEPT ![n] = e, ![e] = p]
  /\ next' = [next EXCEPT ![e] = n, ![p] = e]

(* Fault for mutation: the link back from the head is forgotten.           *)
ListAddTailOneWay(l, e) ==
  /\ Detached(e)
  /\ prev' = [prev EXCEPT ![e] = prev[l]]
  /\ next' = [next EXCEPT ![e] = l, ![prev[l]] = e]
  /\ order' = [order EXCEPT ![l] = Append(@, e)]

ListAddHead(l, e) ==
  /\ Detached(e)
  /\ Link(l, next[l], e)
  /\ order' = [order EXCEPT ![l] = <<e>> \o @]

ListAddTail(l, e) ==
  /\ Detached(e)
  /\ Link(prev[l], l, e)
  /\ order' = [order EXCEPT ![l] = Append(@, e)]

(* Fault for mutation: elem's prev is cleared before it is used.           *)
ListDelEarly(l, i) ==
  LET e == order[l][i]
  IN  /\ prev' = [prev EXCEPT ![next[e]] = NULL, ![e] = NULL]
      /\ next' = [next EXCEPT ![prev[e]] = next[e], ![e] = NULL]
      /\ order' = [order EXCEPT ![l] =
                     [j \in 1 .. Len(@) - 1 |-> IF j < i THEN @[j] ELSE @[j + 1]]]

(* __list_del(elem->prev, elem->next), then elem's own pointers: neither   *)
(* the list nor its head is looked at.                                     *)
ListDel(l, i) ==
  LET e == order[l][i]
  IN  /\ prev' = [prev EXCEPT ![next[e]] = prev[e], ![e] = NULL]
      /\ next' = [next EXCEPT ![prev[e]] = next[e], ![e] = NULL]
      /\ order' = [order EXCEPT ![l] =
                     [j \in 1 .. Len(@) - 1 |-> IF j < i THEN @[j] ELSE @[j + 1]]]

ListEmpty(l) == next[l] = l /\ prev[l] = l

ListNext ==
  \E l \in Lists :
    \/ \E e \in Links : ListAddHead(l, e) \/ ListAddTail(l, e)
    \/ \E i \in DOMAIN order[l] : ListDel(l, i)

ListSpec == ListInit /\ [][ListNext]_listVars
-----------------------------------------------------------------------------
(* Pointers lead to links or nowhere, a head's always to links, and lists  *)
(* hold elements.                                                          *)
ListTypeOK ==
  /\ next \in [Lists \cup Links -> Lists \cup Links \cup {NULL, Junk}]
  /\ prev \in [Lists \cup Links -> Lists \cup Links \cup {NULL, Junk}]
  /\ \A l \in Lists : {next[l], prev[l]} \subseteq Lists \cup Links
  /\ order \in [Lists -> Seq(Links)]

(* The i-th link of list l, counted from its head and back to it.          *)
Nth(l, i) == IF i \in DOMAIN order[l] THEN order[l][i] ELSE l

(* The links from each link of a ring to the next one, and back.           *)
Linked ==
  \A l \in Lists : \A i \in 0 .. Len(order[l]) :
    next[Nth(l, i)] = Nth(l, i + 1) /\ prev[Nth(l, i + 1)] = Nth(l, i)

(* No element is in two places.                                            *)
Once ==
  \A l, m \in Lists : \A i \in DOMAIN order[l], j \in DOMAIN order[m] :
    order[l][i] = order[m][j] => l = m /\ i = j

(* An element that is in no list points into none.                         *)
Loose == \A e \in Links : Detached(e) => {next[e], prev[e]} \subseteq {NULL, Junk}

(* Read forwards along next or backwards along prev, every ring shows its  *)
(* elements in the callers' order, whatever was added to and deleted from  *)
(* this and the other lists; list_empty says so when there are none.       *)
RingOrder ==
  /\ Linked /\ Once /\ Loose
  /\ \A l \in Lists : ListEmpty(l) <=> order[l] = << >>
=============================================================================
