------------------------------- MODULE Array --------------------------------
(***************************************************************************)
(* array.c: elements side by side in one block, which doubles when it is   *)
(* full.  An iterator is an address in the block; realloc may move the     *)
(* block, and an iterator from before then addresses freed memory.         *)
(* Iterators the callers pass are current ones.                            *)
(***************************************************************************)
EXTENDS Naturals, Sequences

CONSTANTS
  Elems,        \* what the array holds
  InitialSize,  \* ARRAY_INITIAL_SIZE, 4 in array.h
  SizeBound,    \* bound: elements the callers push
  OK, ENOENT,   \* the status of a call
  NONE          \* no element; the content of a slot nobody wrote

VARIABLES
  cells,     \* the block: one slot for each position below the capacity
  capacity,  \* arr->capacity
  size,      \* arr->size
  last,      \* the latest call and its result, as in ElemSequence
  memory     \* "sound", spoilt by a "stale_iterator", or the process "crashed"

arrayVars == <<cells, capacity, size, last, memory>>

(* An array begins with room for one element at least.                     *)
ASSUME ArrayAssumption ==
  /\ Elems \subseteq Nat
  /\ InitialSize \in Nat \ {0}
  /\ SizeBound \in Nat

Call(op, pos, elem, ret) == last' = [op |-> op, pos |-> pos, elem |-> elem, ret |-> ret]

Positions == 0 .. SizeBound

(* __array_grow, if the block is full: the added half is not initialised.  *)
Full == size = capacity

RoomCapacity == IF Full THEN 2 * capacity ELSE capacity

Room == [i \in 0 .. RoomCapacity - 1 |-> IF i < capacity THEN cells[i] ELSE NONE]

ArrayInit ==
  /\ cells = [i \in 0 .. InitialSize - 1 |-> NONE]
  /\ capacity = InitialSize
  /\ size = 0
  /\ last = [op |-> "new", pos |-> 0, elem |-> NONE, ret |-> OK]
  /\ memory = "sound"

(* Fault for mutation: a full block is not made to grow.                   *)
ArrayPushBackNoGrow(e) ==
  /\ size < SizeBound
  /\ cells' = [cells EXCEPT ![size] = e]
  /\ size' = size + 1
  /\ Call("push_back", 0, e, OK)
  /\ UNCHANGED <<capacity, memory>>

ArrayPushBack(e) ==
  /\ size < SizeBound
  /\ cells' = [Room EXCEPT ![size] = e]
  /\ capacity' = RoomCapacity
  /\ size' = size + 1
  /\ Call("push_back", 0, e, OK)
  /\ UNCHANGED memory

ArrayPopBack ==
  /\ IF size > 0
     THEN size' = size - 1 /\ Call("pop_back", 0, NONE, OK)
     ELSE UNCHANGED size /\ Call("pop_back", 0, NONE, ENOENT)
  /\ UNCHANGED <<cells, capacity, memory>>

(* The block with the slots from p on moved up by one and e at p.  Fault   *)
(* for mutation: memcpy from the front, which smears the first one.        *)
ShiftedUpSmeared(block, p, e) ==
  [i \in DOMAIN block |-> IF i = p THEN e
                          ELSE IF p < i /\ i <= size THEN block[p] ELSE block[i]]

ShiftedUp(block, p, e) ==
  [i \in DOMAIN block |-> IF i = p THEN e
                          ELSE IF p < i /\ i <= size THEN block[i - 1] ELSE block[i]]

(* array_insert.  pos was computed before __array_grow: when that moves    *)
(* the block, memmove and memcpy work on the freed one, with a length that *)
(* is the distance between two blocks.  That crashes, or array_insert      *)
(* returns 0 as ever and the grown block holds whatever the move left.     *)
Insert(op, p, e) ==
  /\ size < SizeBound
  /\ \/ /\ cells' = ShiftedUp(Room, p, e)
        /\ capacity' = RoomCapacity
        /\ size' = size + 1
        /\ Call(op, p, e, OK)
        /\ UNCHANGED memory
     \/ /\ Full
        /\ cells' \in [0 .. RoomCapacity - 1 -> Elems \cup {NONE}]
        /\ capacity' = RoomCapacity
        /\ size' = size + 1
        /\ Call(op, p, e, OK)
        /\ memory' = "stale_iterator"
     \/ /\ Full
        /\ memory' = "crashed"
        /\ UNCHANGED <<cells, capacity, size, last>>

ArrayInsert(p, e) == p <= size /\ Insert("insert", p, e)

ArrayInsertAt(p, e) ==
  \/ p < size /\ Insert("insert_at", p, e)
  \/ /\ p >= size
     /\ Call("insert_at", p, e, ENOENT)
     /\ UNCHANGED <<cells, capacity, size, memory>>

(* array_erase.  The memmove is elem_size - 1 bytes longer than what is    *)
(* left: parts of the slot behind the last element land in the slot given  *)
(* up, in a full block parts of what lies behind the block.                *)
Erase(op, p) ==
  /\ cells' = [i \in DOMAIN cells |->
                 IF i = size - 1 THEN NONE
                 ELSE IF p <= i /\ i < size THEN cells[i + 1] ELSE cells[i]]
  /\ size' = size - 1
  /\ Call(op, p, NONE, OK)
  /\ UNCHANGED <<capacity, memory>>

ArrayErase(p) == p < size /\ Erase("erase", p)

ArrayEraseAt(p) ==
  \/ p < size /\ Erase("erase_at", p)
  \/ /\ p >= size
     /\ Call("erase_at", p, NONE, ENOENT)
     /\ UNCHANGED <<cells, capacity, size, memory>>

ArrayClear ==
  /\ size' = 0
  /\ Call("clear", 0, NONE, OK)
  /\ UNCHANGED <<cells, capacity, memory>>

(* qsort: the elements change places until cmp finds them in order.        *)
ArraySort ==
  /\ \E f \in [0 .. size - 1 -> 0 .. size - 1] :
       /\ \A i, j \in 0 .. size - 1 : f[i] = f[j] => i = j
       /\ \A i, j \in 0 .. size - 1 : i < j => cells[f[i]] <= cells[f[j]]
       /\ cells' = [i \in DOMAIN cells |-> IF i < size THEN cells[f[i]] ELSE cells[i]]
  /\ Call("sort", 0, NONE, OK)
  /\ UNCHANGED <<capacity, size, memory>>

(* array_at, dereferenced: NULL from the size on.                          *)
ArrayAt(p) ==
  /\ Call("at", p, NONE, IF p < size THEN cells[p] ELSE NONE)
  /\ UNCHANGED <<cells, capacity, size, memory>>

(* array_find: from array_begin by array_next until cmp or array_end.      *)
ArrayFind(e) ==
  /\ \E p \in 0 .. size :
       /\ p < size => cells[p] = e
       /\ \A i \in 0 .. p - 1 : cells[i] # e
       /\ Call("find", 0, e, p)
  /\ UNCHANGED <<cells, capacity, size, memory>>

ArrayNext ==
  /\ memory # "crashed"
  /\ \/ ArrayPopBack \/ ArrayClear \/ ArraySort
     \/ \E e \in Elems : ArrayPushBack(e) \/ ArrayFind(e)
     \/ \E p \in Positions :
          \/ ArrayErase(p) \/ ArrayEraseAt(p) \/ ArrayAt(p)
          \/ \E e \in Elems : ArrayInsert(p, e) \/ ArrayInsertAt(p, e)

ArraySpec == ArrayInit /\ [][ArrayNext]_arrayVars
-----------------------------------------------------------------------------
(* The elements fit into the block, which only doublings made, and while   *)
(* memory is sound the slots below the size hold elements.                 *)
ArrayTypeOK ==
  /\ capacity \in Nat \ {0}
  /\ size \in 0 .. capacity
  /\ cells \in [0 .. capacity - 1 -> Elems \cup {NONE}]
  /\ memory = "sound" => \A i \in 0 .. size - 1 : cells[i] \in Elems
  /\ memory \in {"sound", "stale_iterator", "crashed"}

Contents == [i \in 1 .. size |-> cells[i - 1]]

Abstract == INSTANCE ElemSequence WITH seq <- Contents

(* Whatever is pushed, inserted, erased, sorted and looked up, in a block  *)
(* that grows, the array is the sequence array.h promises, and every call  *)
(* reports what it did, until the first insert that meets a full block and *)
(* has it moved away under its iterator.  Of that call and of what comes   *)
(* after it nothing is claimed.                                            *)
ArrayIsSequence ==
  Abstract!SeqInit /\ [][memory' = "sound" => Abstract!SeqNext]_(Abstract!seqVars)
=============================================================================
