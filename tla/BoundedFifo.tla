---------------------------- MODULE BoundedFifo ----------------------------
(***************************************************************************)
(* What queue.h promises to the threads that share one queue_t: a          *)
(* linearizable first-in first-out buffer of at most MaxLen elements.      *)
(* An operation is called, takes effect in one step between its call and   *)
(* its return, and returns a status: "OK", "EINVAL" for a push that found  *)
(* the buffer full, "ENOENT" for a pop that found it empty.                *)
(***************************************************************************)
EXTENDS Naturals, Sequences

CONSTANTS
  Threads,  \* the threads that call the queue
  Elems,    \* what they push
  NoElem,   \* the content of a caller's variable before queue_pop fills it
  MaxLen    \* the most elements the buffer holds

VARIABLES
  fifo,     \* the elements pushed and not yet popped, oldest first
  call      \* per thread: the operation under way, its element and status

fvars == <<fifo, call>>

Init ==
  /\ fifo = << >>
  /\ call = [t \in Threads |-> [op |-> "idle", elem |-> NoElem, ret |-> "none"]]

PushCall(t, e) ==
  /\ call[t].op = "idle"
  /\ call' = [call EXCEPT ![t] = [op |-> "push", elem |-> e, ret |-> "none"]]
  /\ UNCHANGED fifo

PopCall(t) ==
  /\ call[t].op = "idle"
  /\ call' = [call EXCEPT ![t] = [op |-> "pop", elem |-> NoElem, ret |-> "none"]]
  /\ UNCHANGED fifo

PushDone(t) ==
  /\ call[t].op = "push"
  /\ Len(fifo) < MaxLen
  /\ fifo' = Append(fifo, call[t].elem)
  /\ call' = [call EXCEPT ![t] = [op |-> "idle", elem |-> call[t].elem, ret |-> "OK"]]

PushRefused(t) ==
  /\ call[t].op = "push"
  /\ Len(fifo) = MaxLen
  /\ call' = [call EXCEPT ![t] = [op |-> "idle", elem |-> call[t].elem, ret |-> "EINVAL"]]
  /\ UNCHANGED fifo

PopDone(t) ==
  /\ call[t].op = "pop"
  /\ fifo # << >>
  /\ fifo' = Tail(fifo)
  /\ call' = [call EXCEPT ![t] = [op |-> "idle", elem |-> Head(fifo), ret |-> "OK"]]

PopRefused(t) ==
  /\ call[t].op = "pop"
  /\ fifo = << >>
  /\ call' = [call EXCEPT ![t] = [op |-> "idle", elem |-> NoElem, ret |-> "ENOENT"]]
  /\ UNCHANGED fifo

Next ==
  \E t \in Threads :
    \/ \E e \in Elems : PushCall(t, e)
    \/ PopCall(t)
    \/ PushDone(t) \/ PushRefused(t)
    \/ PopDone(t) \/ PopRefused(t)

Spec == Init /\ [][Next]_fvars
=============================================================================
