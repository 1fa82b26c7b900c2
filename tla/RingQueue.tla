----------------------------- MODULE RingQueue -----------------------------
(***************************************************************************)
(* queue.c: the fixed-capacity ring buffer, protected by one mutex, that   *)
(* carries events from the receiver threads to a worker thread.            *)
(*                                                                         *)
(* Any thread may call queue_push or queue_pop at any time.  Each call is  *)
(* split where another thread can run: acquiring the mutex, the memcpy     *)
(* to or from the slot, and the update of the index with the unlock.  The  *)
(* increment and the wrap of an index are one step: both happen under the  *)
(* mutex, and nothing in src/ reads head or tail without it.               *)
(***************************************************************************)
EXTENDS Integers, Sequences

CONSTANTS
  Threads,   \* the threads that share the queue_t
  Elems,     \* the elements (event_t values) they push
  NoElem,    \* uninitialised storage: a slot never written, a fresh event_t
  NoThread,  \* "no thread holds the mutex"
  Capacity,  \* queue_new's capacity argument: the number of slots
  WordSize   \* the number of values of a size_t

(* Worker.c creates its queue with 1024 slots.  A capacity of 0 would make *)
(* queue_full divide by zero.                                              *)
ASSUME RingAssumption ==
  /\ Capacity \in Nat \ {0}
  /\ NoThread \notin Threads
  /\ NoElem \notin Elems

(* queue_size is exact only if the capacity divides 2^64, as 1024 does.    *)
ASSUME WordAssumption ==
  /\ WordSize \in Nat \ {0}
  /\ WordSize % Capacity = 0

VARIABLES
  head,   \* the slot queue_pop reads next
  tail,   \* the slot queue_push writes next
  data,   \* the slots
  mutex,  \* the thread that holds q->mutex, or NoThread
  op      \* per thread: where it is in a call, its element, its status

vars == <<head, tail, data, mutex, op>>

Slots == 0 .. Capacity - 1

Locations == {"idle", "push_lock", "push_test", "push_bump",
              "pop_lock", "pop_test", "pop_bump"}

Statuses == {"none", "OK", "EINVAL", "ENOENT"}
-----------------------------------------------------------------------------
QueueEmpty == head = tail

(* Fault for mutation: full is tested without the wrap.                    *)
QueueFullNoWrap == tail + 1 = head

QueueFull == (tail + 1) % Capacity = head

(* Fault for mutation: the remainder is forgotten.                         *)
QueueSizeNoRemainder == (tail - head) % WordSize

(* Unsigned subtraction wraps around, then the remainder is taken.         *)
QueueSize == ((tail - head) % WordSize) % Capacity

(* Fault for mutation: the index runs past the last slot.                  *)
AdvanceNoWrap(i) == i + 1

(* index++; if (index == capacity) index = 0;                              *)
Advance(i) == IF i + 1 = Capacity THEN 0 ELSE i + 1

Unlock(t, status) ==
  /\ mutex' = NoThread
  /\ op' = [op EXCEPT ![t].at = "idle", ![t].ret = status]

Init ==
  /\ head = 0
  /\ tail = 0
  /\ data = [s \in Slots |-> NoElem]
  /\ mutex = NoThread
  /\ op = [t \in Threads |-> [at |-> "idle", elem |-> NoElem, ret |-> "none"]]
-----------------------------------------------------------------------------
PushCall(t, e) ==
  /\ op[t].at = "idle"
  /\ op' = [op EXCEPT ![t] = [at |-> "push_lock", elem |-> e, ret |-> "none"]]
  /\ UNCHANGED <<head, tail, data, mutex>>

PushLock(t) ==
  /\ op[t].at = "push_lock"
  /\ mutex = NoThread
  /\ mutex' = t
  /\ op' = [op EXCEPT ![t].at = "push_test"]
  /\ UNCHANGED <<head, tail, data>>

(* Fault for mutation: the early return forgets the unlock.                *)
PushRefuseKeepsLock(t) ==
  /\ op[t].at = "push_test"
  /\ QueueFull
  /\ op' = [op EXCEPT ![t].at = "idle", ![t].ret = "EINVAL"]
  /\ UNCHANGED <<head, tail, data, mutex>>

PushRefuse(t) ==
  /\ op[t].at = "push_test"
  /\ QueueFull
  /\ Unlock(t, "EINVAL")
  /\ UNCHANGED <<head, tail, data>>

PushCopy(t) ==
  /\ op[t].at = "push_test"
  /\ ~QueueFull
  /\ data' = [data EXCEPT ![tail] = op[t].elem]
  /\ op' = [op EXCEPT ![t].at = "push_bump"]
  /\ UNCHANGED <<head, tail, mutex>>

PushBump(t) ==
  /\ op[t].at = "push_bump"
  /\ tail' = Advance(tail)
  /\ Unlock(t, "OK")
  /\ UNCHANGED <<head, data>>
-----------------------------------------------------------------------------
PopCall(t) ==
  /\ op[t].at = "idle"
  /\ op' = [op EXCEPT ![t] = [at |-> "pop_lock", elem |-> NoElem, ret |-> "none"]]
  /\ UNCHANGED <<head, tail, data, mutex>>

(* Fault for mutation: queue_pop does not wait for the mutex.              *)
PopLockNoWait(t) ==
  /\ op[t].at = "pop_lock"
  /\ mutex' = t
  /\ op' = [op EXCEPT ![t].at = "pop_test"]
  /\ UNCHANGED <<head, tail, data>>

PopLock(t) ==
  /\ op[t].at = "pop_lock"
  /\ mutex = NoThread
  /\ mutex' = t
  /\ op' = [op EXCEPT ![t].at = "pop_test"]
  /\ UNCHANGED <<head, tail, data>>

PopRefuse(t) ==
  /\ op[t].at = "pop_test"
  /\ QueueEmpty
  /\ Unlock(t, "ENOENT")
  /\ UNCHANGED <<head, tail, data>>

PopCopy(t) ==
  /\ op[t].at = "pop_test"
  /\ ~QueueEmpty
  /\ op' = [op EXCEPT ![t].at = "pop_bump", ![t].elem = data[head]]
  /\ UNCHANGED <<head, tail, data, mutex>>

PopBump(t) ==
  /\ op[t].at = "pop_bump"
  /\ head' = Advance(head)
  /\ Unlock(t, "OK")
  /\ UNCHANGED <<tail, data>>
-----------------------------------------------------------------------------
(* A call, left to the client, and the rest of a call, left to the thread. *)
Call(t) == PopCall(t) \/ \E e \in Elems : PushCall(t, e)

Run(t) ==
  \/ PushLock(t) \/ PushRefuse(t) \/ PushCopy(t) \/ PushBump(t)
  \/ PopLock(t) \/ PopRefuse(t) \/ PopCopy(t) \/ PopBump(t)

Next == \E t \in Threads : Call(t) \/ Run(t)

Spec == Init /\ [][Next]_vars

(* A thread inside a call is scheduled again; nobody has to call.  The     *)
(* mutex is not assumed to be fair between the threads that wait for it.   *)
FairSpec == Spec /\ \A t \in Threads : WF_vars(Run(t))
-----------------------------------------------------------------------------
(* The occupied slots, oldest first, as a sequence.                        *)
Count == IF head <= tail THEN tail - head ELSE tail - head + Capacity

SlotAt(i) == IF head + i < Capacity THEN head + i ELSE head + i - Capacity

Contents == [i \in 1 .. Count |-> data[SlotAt(i - 1)]]

InSection(t) ==
  op[t].at \in {"push_test", "push_bump", "pop_test", "pop_bump"}

(* Indexes stay inside the slots and every variable keeps its type.        *)
TypeOK ==
  /\ head \in Slots
  /\ tail \in Slots
  /\ data \in [Slots -> Elems \cup {NoElem}]
  /\ mutex \in Threads \cup {NoThread}
  /\ op \in [Threads -> [at : Locations,
                         elem : Elems \cup {NoElem},
                         ret : Statuses]]

(* The mutex is held by exactly the thread that is between lock and        *)
(* unlock, on the early-return paths of queue.c as on the others.          *)
LockDiscipline == \A t \in Threads : InSection(t) <=> mutex = t

(* Between a memcpy and the index update that publishes it, no other       *)
(* thread touches the slot or makes the test made before it stale: the     *)
(* element about to be published is the caller's, the one about to be      *)
(* returned is still the oldest.  Until then the popper's buffer is as the *)
(* caller left it.                                                         *)
CopyInPlace ==
  \A t \in Threads :
    /\ op[t].at \in {"push_lock", "push_test", "push_bump"} => op[t].elem \in Elems
    /\ op[t].at \in {"pop_lock", "pop_test"} => op[t].elem = NoElem
    /\ op[t].at = "push_bump" => data[tail] = op[t].elem /\ ~QueueFull
    /\ op[t].at = "pop_bump" => op[t].elem = data[head] /\ ~QueueEmpty

(* Every occupied slot holds an element some queue_push copied in, never   *)
(* the uninitialised storage zd_malloc returned.                           *)
OccupiedWritten == \A i \in 0 .. Count - 1 : data[SlotAt(i)] \in Elems

(* The conjunction that every step preserves.                              *)
IInv == TypeOK /\ LockDiscipline /\ CopyInPlace /\ OccupiedWritten

(* Read by a thread that holds the mutex, or while nobody does,            *)
(* queue_size is the number of queued elements although tail may be below  *)
(* head.                                                                   *)
QueueSizeExact == QueueSize = Len(Contents)

(* Whoever takes the mutex gives it back: no return path keeps it.         *)
LockReleased == mutex # NoThread ~> mutex = NoThread
-----------------------------------------------------------------------------
(* The refinement mapping.  A call takes effect when the index moves, or   *)
(* when the test fails: until then the element a pop has copied is not     *)
(* yet part of its result.                                                 *)
Kind(at) ==
  CASE at = "idle" -> "idle"
    [] at \in {"push_lock", "push_test", "push_bump"} -> "push"
    [] OTHER -> "pop"

Seen(t) ==
  [op   |-> Kind(op[t].at),
   elem |-> IF op[t].at = "pop_bump" THEN NoElem ELSE op[t].elem,
   ret  |-> op[t].ret]

Fifo == INSTANCE BoundedFifo WITH
          fifo <- Contents,
          call <- [t \in Threads |-> Seen(t)],
          MaxLen <- Capacity - 1

(* queue.c implements a linearizable FIFO of Capacity - 1 elements: no     *)
(* push is lost, doubled or reordered, a push is refused exactly when      *)
(* Capacity - 1 elements are queued and a pop exactly when none is.        *)
FifoSpec == Fifo!Spec
=============================================================================
