------------------------------- MODULE Server -------------------------------
(***************************************************************************)
(* The running server: the accept loop of server.c, one receiver thread    *)
(* per connection that hands every message to server_dispatch, the worker  *)
(* threads that pop, parse and handle messages, and the main thread of     *)
(* test.c, which frees the dictionary while the others run.                *)
(*                                                                         *)
(* A worker's queue is the bounded FIFO that queue.c implements (theorem   *)
(* RingImplementsFifo): pushes and pops are single steps.  Reading a       *)
(* message from the connection is one step here; module Receiver opens it. *)
(* server->curr_worker has no lock: each load and each store of it is a    *)
(* step of its own, as in the -O0 code the Makefile builds.                *)
(***************************************************************************)
EXTENDS Integers, Sequences, FiniteSets

CONSTANTS
  Receivers,   \* the connections, each with a receiver thread
  NumWorkers,  \* server->workers->size; server_new creates 4
  QueueMax,    \* events a worker's queue holds: its capacity - 1
  MsgBound,    \* bound: messages a connection carries
  NoMsg        \* a worker's event_t before queue_pop

(* server_new always fills the workers array, queue.h's full test leaves   *)
(* one slot unused.                                                        *)
ASSUME ServerAssumption ==
  /\ NumWorkers \in Nat \ {0}
  /\ QueueMax \in Nat
  /\ MsgBound \in Nat
  /\ NoMsg \notin [from : Receivers, num : 1 .. MsgBound]

VARIABLES
  process,     \* "running", or what killed the process
  dict,        \* the dictionary all messages point to: "live" or "freed"
  currWorker,  \* server->curr_worker
  rpc,         \* per receiver: where its thread is
  read,        \* per receiver: messages read from the connection so far
  target,      \* per receiver: the worker array_at returned
  reg,         \* per receiver: the register of curr_worker++
  wpc,         \* per worker: where its thread is
  queue,       \* per worker: its queue
  hand,        \* per worker: the message popped last
  done,        \* per worker: the messages handled, in order
  refused      \* the messages a full queue turned away, still allocated

receiverVars == <<rpc, read, target, reg>>
workerVars == <<wpc, hand, done>>
vars == <<process, dict, currWorker, rpc, read, target, reg,
          wpc, queue, hand, done, refused>>

Workers == 0 .. NumWorkers - 1

Msgs == [from : Receivers, num : 1 .. MsgBound]

(* The message a receiver is dispatching: the last it read.                *)
Held(r) == [from |-> r, num |-> read[r]]

Init ==
  /\ process = "running"
  /\ dict = "live"
  /\ currWorker = 0
  /\ rpc = [r \in Receivers |-> "absent"]
  /\ read = [r \in Receivers |-> 0]
  /\ target = [r \in Receivers |-> 0]
  /\ reg = [r \in Receivers |-> 0]
  /\ wpc = [w \in Workers |-> "pop"]
  /\ queue = [w \in Workers |-> << >>]
  /\ hand = [w \in Workers |-> NoMsg]
  /\ done = [w \in Workers |-> << >>]
  /\ refused = {}
-----------------------------------------------------------------------------
GoTo(r, loc) == rpc' = [rpc EXCEPT ![r] = loc]

(* server_thread: accept, receiver_new, array_push_back.  The thread of    *)
(* receiver_new runs before the array has its entry; nobody reads it.      *)
Accept(r) ==
  /\ rpc[r] = "absent"
  /\ GoTo(r, "recv")
  /\ UNCHANGED <<process, dict, currWorker, read, target, reg, queue, refused, workerVars>>

(* receiver_thread has one whole message; its dict is the server's.        *)
Receive(r) ==
  /\ rpc[r] = "recv"
  /\ read[r] < MsgBound
  /\ read' = [read EXCEPT ![r] = @ + 1]
  /\ GoTo(r, "route")
  /\ UNCHANGED <<process, dict, currWorker, target, reg, queue, refused, workerVars>>

(* receiver_thread leaves its loop when the connection is down.            *)
HangUp(r) ==
  /\ rpc[r] = "recv"
  /\ GoTo(r, "exited")
  /\ UNCHANGED <<process, dict, currWorker, read, target, reg, queue, refused, workerVars>>

(* array_at(server->workers, server->curr_worker) and its dereference:     *)
(* beyond the end array_at returns NULL and the process dies.              *)
Route(r) ==
  /\ rpc[r] = "route"
  /\ IF currWorker < NumWorkers
     THEN /\ target' = [target EXCEPT ![r] = currWorker]
          /\ GoTo(r, "push")
          /\ UNCHANGED process
     ELSE /\ process' = "null_worker"
          /\ UNCHANGED <<target, rpc>>
  /\ UNCHANGED <<dict, currWorker, read, reg, queue, refused, workerVars>>

(* Fault for mutation: the queue takes whatever comes.                     *)
PushUnbounded(r) ==
  /\ rpc[r] = "push"
  /\ queue' = [queue EXCEPT ![target[r]] = Append(@, Held(r))]
  /\ GoTo(r, "load")
  /\ UNCHANGED <<process, dict, currWorker, read, target, reg, refused, workerVars>>

(* worker_push_msg: queue_push's status is discarded, 0 is returned.       *)
Push(r) ==
  /\ rpc[r] = "push"
  /\ IF Len(queue[target[r]]) < QueueMax
     THEN /\ queue' = [queue EXCEPT ![target[r]] = Append(@, Held(r))]
          /\ UNCHANGED refused
     ELSE /\ refused' = refused \cup {Held(r)}
          /\ UNCHANGED queue
  /\ GoTo(r, "load")
  /\ UNCHANGED <<process, dict, currWorker, read, target, reg, workerVars>>

(* curr_worker++ *)
BumpLoad(r) ==
  /\ rpc[r] = "load"
  /\ reg' = [reg EXCEPT ![r] = currWorker]
  /\ GoTo(r, "store")
  /\ UNCHANGED <<process, dict, currWorker, read, target, queue, refused, workerVars>>

BumpStore(r) ==
  /\ rpc[r] = "store"
  /\ currWorker' = reg[r] + 1
  /\ GoTo(r, "test")
  /\ UNCHANGED <<process, dict, read, target, reg, queue, refused, workerVars>>

(* Faults for mutation: the wrap is tested one too early, or one too late. *)
WrapTestEarly(r) ==
  /\ rpc[r] = "test"
  /\ GoTo(r, IF currWorker = NumWorkers - 1 THEN "reset" ELSE "recv")
  /\ UNCHANGED <<process, dict, currWorker, read, target, reg, queue, refused, workerVars>>

WrapTestLate(r) ==
  /\ rpc[r] = "test"
  /\ GoTo(r, IF currWorker > NumWorkers THEN "reset" ELSE "recv")
  /\ UNCHANGED <<process, dict, currWorker, read, target, reg, queue, refused, workerVars>>

(* if (curr_worker == workers->size) curr_worker = 0                       *)
WrapTest(r) ==
  /\ rpc[r] = "test"
  /\ GoTo(r, IF currWorker = NumWorkers THEN "reset" ELSE "recv")
  /\ UNCHANGED <<process, dict, currWorker, read, target, reg, queue, refused, workerVars>>

WrapReset(r) ==
  /\ rpc[r] = "reset"
  /\ currWorker' = 0
  /\ GoTo(r, "recv")
  /\ UNCHANGED <<process, dict, read, target, reg, queue, refused, workerVars>>
-----------------------------------------------------------------------------
(* Faults for mutation: the element popped stays in the queue; the newest  *)
(* element is popped; an idle worker leaves its loop.                      *)
PopKeeps(w) ==
  /\ wpc[w] = "pop"
  /\ queue[w] # << >>
  /\ hand' = [hand EXCEPT ![w] = Head(queue[w])]
  /\ wpc' = [wpc EXCEPT ![w] = "parse"]
  /\ UNCHANGED <<process, dict, currWorker, queue, done, refused, receiverVars>>

PopNewest(w) ==
  /\ wpc[w] = "pop"
  /\ queue[w] # << >>
  /\ hand' = [hand EXCEPT ![w] = queue[w][Len(queue[w])]]
  /\ queue' = [queue EXCEPT ![w] = SubSeq(@, 1, Len(@) - 1)]
  /\ wpc' = [wpc EXCEPT ![w] = "parse"]
  /\ UNCHANGED <<process, dict, currWorker, done, refused, receiverVars>>

SleepForever(w) ==
  /\ wpc[w] = "pop"
  /\ queue[w] = << >>
  /\ wpc' = [wpc EXCEPT ![w] = "exited"]
  /\ UNCHANGED <<process, dict, currWorker, queue, hand, done, refused, receiverVars>>

(* queue_pop returned 0: the oldest event is the worker's.                 *)
Pop(w) ==
  /\ wpc[w] = "pop"
  /\ queue[w] # << >>
  /\ hand' = [hand EXCEPT ![w] = Head(queue[w])]
  /\ queue' = [queue EXCEPT ![w] = Tail(@)]
  /\ wpc' = [wpc EXCEPT ![w] = "parse"]
  /\ UNCHANGED <<process, dict, currWorker, done, refused, receiverVars>>

(* queue_pop returned ENOENT: usleep, then continue.                       *)
Sleep(w) ==
  /\ wpc[w] = "pop"
  /\ queue[w] = << >>
  /\ wpc' = [wpc EXCEPT ![w] = "sleep"]
  /\ UNCHANGED <<process, dict, currWorker, queue, hand, done, refused, receiverVars>>

Wake(w) ==
  /\ wpc[w] = "sleep"
  /\ wpc' = [wpc EXCEPT ![w] = "pop"]
  /\ UNCHANGED <<process, dict, currWorker, queue, hand, done, refused, receiverVars>>

(* msg_parse_all looks every AVP up in msg->dict.  If main has freed it,   *)
(* the reads may still find the old content, or kill the process.          *)
Parse(w) ==
  /\ wpc[w] = "parse"
  /\ \/ /\ wpc' = [wpc EXCEPT ![w] = "handle"]
        /\ UNCHANGED process
     \/ /\ dict = "freed"
        /\ process' = "freed_dict"
        /\ UNCHANGED wpc
  /\ UNCHANGED <<dict, currWorker, queue, hand, done, refused, receiverVars>>

(* The rest of worker_msg_proc: the handler and the log.  The event is     *)
(* not freed; the next iteration's event_t is uninitialised again.         *)
Handle(w) ==
  /\ wpc[w] = "handle"
  /\ done' = [done EXCEPT ![w] = Append(@, hand[w])]
  /\ hand' = [hand EXCEPT ![w] = NoMsg]
  /\ wpc' = [wpc EXCEPT ![w] = "pop"]
  /\ UNCHANGED <<process, dict, currWorker, queue, refused, receiverVars>>
-----------------------------------------------------------------------------
(* main has printed the dictionary: free(dict), then pthread_join.         *)
FreeDict ==
  /\ dict = "live"
  /\ dict' = "freed"
  /\ UNCHANGED <<process, currWorker, queue, refused, receiverVars, workerVars>>

Dispatch(r) ==
  Route(r) \/ Push(r) \/ BumpLoad(r) \/ BumpStore(r) \/ WrapTest(r) \/ WrapReset(r)

Receiver(r) == Accept(r) \/ Receive(r) \/ HangUp(r) \/ Dispatch(r)

Worker(w) == Pop(w) \/ Sleep(w) \/ Wake(w) \/ Parse(w) \/ Handle(w)

(* A process that has died takes no step.                                  *)
Next ==
  /\ process = "running"
  /\ \/ \E r \in Receivers : Receiver(r)
     \/ \E w \in Workers : Worker(w)
     \/ FreeDict

Spec == Init /\ [][Next]_vars

(* Threads in the middle of their work are scheduled; peers need not       *)
(* connect or send.                                                        *)
FairSpec ==
  /\ Spec
  /\ \A r \in Receivers : WF_vars(process = "running" /\ Dispatch(r))
  /\ \A w \in Workers : WF_vars(process = "running" /\ Worker(w))
-----------------------------------------------------------------------------
ReceiversOK ==
  /\ rpc \in [Receivers -> {"absent", "recv", "exited", "route", "push",
                            "load", "store", "test", "reset"}]
  /\ read \in [Receivers -> 0 .. MsgBound]
  /\ \A r \in Receivers : rpc[r] \in {"route", "push"} => read[r] > 0
  /\ target \in [Receivers -> Workers]
  /\ reg \in [Receivers -> Nat]

WorkersOK ==
  /\ wpc \in [Workers -> {"pop", "sleep", "parse", "handle"}]
  /\ hand \in [Workers -> Msgs \cup {NoMsg}]
  /\ \A w \in Workers : hand[w] # NoMsg <=> wpc[w] \in {"parse", "handle"}
  /\ done \in [Workers -> Seq(Msgs)]

QueuesOK ==
  /\ queue \in [Workers -> Seq(Msgs)]
  /\ \A w \in Workers : Len(queue[w]) <= QueueMax
  /\ refused \subseteq Msgs

(* Every variable keeps its type and no queue outgrows its capacity.       *)
TypeOK ==
  /\ process \in {"running", "null_worker", "freed_dict"}
  /\ dict \in {"live", "freed"}
  /\ currWorker \in Nat
  /\ ReceiversOK
  /\ WorkersOK
  /\ QueuesOK

(* Everything worker w was given, in the order it was given.               *)
Track(w) ==
  done[w] \o (IF hand[w] = NoMsg THEN << >> ELSE <<hand[w]>>) \o queue[w]

Holding(r) == rpc[r] \in {"route", "push"}

Tracked(m) == \E w \in Workers : \E i \in DOMAIN Track(w) : Track(w)[i] = m

InHand(m) == \E r \in Receivers : Holding(r) /\ Held(r) = m

Located ==
  \A m \in Msgs :
    m.num <= read[m.from] <=> Tracked(m) \/ InHand(m) \/ m \in refused

Apart ==
  /\ \A m \in Msgs : InHand(m) => ~Tracked(m) /\ m \notin refused
  /\ \A m \in refused : ~Tracked(m)

OnceTracked ==
  \A v, w \in Workers : \A i \in DOMAIN Track(v), j \in DOMAIN Track(w) :
    Track(v)[i] = Track(w)[j] => v = w /\ i = j

(* Whatever the interleaving of receivers and workers, a message that was  *)
(* read is in exactly one place - the hands of its receiver, one position  *)
(* of one worker's track, or refused: none is handled twice, given to two  *)
(* workers, or forgotten without the queue having refused it.  A refused   *)
(* one stays where it is: receiver.c:93-96 would free it, but is not told. *)
OneOwner == Located /\ Apart /\ OnceTracked

(* The messages of one connection that reach the same worker are handled   *)
(* there in the order in which they were sent.                             *)
ConnectionOrder ==
  \A w \in Workers : \A i, j \in DOMAIN Track(w) :
    i < j /\ Track(w)[i].from = Track(w)[j].from => Track(w)[i].num < Track(w)[j].num

(* With one connection message k goes to worker (k - 1) mod NumWorkers.    *)
RoundRobin ==
  \A w \in Workers : \A i \in DOMAIN Track(w) :
    (Track(w)[i].num - 1) % NumWorkers = w

(* No dispatch runs off the end of the workers array.                      *)
WorkerExists == process # "null_worker"

(* No worker looks an AVP up in a dictionary main has freed.               *)
DictOutlivesWorkers == process # "freed_dict"

(* What is queued is eventually handled, while the process lives.          *)
QueuedIsHandled ==
  \A w \in Workers : \A m \in Msgs :
    m \in {queue[w][i] : i \in DOMAIN queue[w]}
      ~> process # "running" \/ m \in {done[w][i] : i \in DOMAIN done[w]}
=============================================================================
