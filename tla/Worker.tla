------------------------------- MODULE Worker -------------------------------
(***************************************************************************)
(* The life of the workers: worker_new, worker_start, worker_stop and      *)
(* worker_free of worker.c with the queue_new and queue_free they call,    *)
(* against the worker's own thread, which tests worker->status, pops and   *)
(* handles.  Each worker has one owner that makes these calls one after    *)
(* the other, in any order: server_new is the only one in the sources.     *)
(* A step ends where the other thread can see a difference.  Receivers     *)
(* push to any worker server->workers points to, freed ones too.  A use of *)
(* freed memory finds the old content or ends the process.                 *)
(***************************************************************************)
EXTENDS Integers, Sequences

CONSTANTS
  Workers,    \* the workers of server->workers
  QueueMax,   \* messages a queue holds: 1023 in its 1024 slots
  PushBound   \* bound: messages pushed to a worker

ASSUME WorkerAssumption == QueueMax \in Nat \ {0} /\ PushBound \in Nat

VARIABLES
  life,     \* per worker: its worker_t is "none", "live" or "freed"
  status,   \* per worker: worker->status
  owner,    \* per worker: where its owner is
  thread,   \* per worker: where its thread is
  queueUp,  \* per worker: whether its queue is allocated
  queue,    \* per worker: the messages in it
  debris,   \* per worker: the messages in the memory of its freed queue
  hand,     \* per worker: the message its thread popped, 0 for none
  pushed,   \* per worker: how many messages were pushed
  refused,  \* per worker: the messages its queue was too full for
  handled,  \* per worker: the messages handled
  hasty,    \* the workers freed while their thread ran
  misuse    \* the use of freed memory that ended the process, if any

workerVars == <<life, status, owner, thread, queueUp, queue, debris, hand, pushed,
                refused, handled, hasty, misuse>>
ownedVars == <<life, status, owner, queueUp, hasty>>
threadVars == <<thread, hand, handled>>
queueVars == <<queue, debris, pushed, refused>>

WorkerInit ==
  /\ life = [w \in Workers |-> "none"]
  /\ status = [w \in Workers |-> 0]
  /\ owner = [w \in Workers |-> "absent"]
  /\ thread = [w \in Workers |-> "none"]
  /\ queueUp = [w \in Workers |-> FALSE]
  /\ queue = [w \in Workers |-> << >>]
  /\ debris = [w \in Workers |-> << >>]
  /\ hand = [w \in Workers |-> 0]
  /\ pushed = [w \in Workers |-> 0]
  /\ refused = [w \in Workers |-> {}]
  /\ handled = [w \in Workers |-> << >>]
  /\ hasty = {}
  /\ misuse = {}

OwnerGoes(w, from, to) == owner[w] = from /\ owner' = [owner EXCEPT ![w] = to]

SetStatus(w, value) == status' = [status EXCEPT ![w] = value]

(* worker_new up to the pthread_create of its worker_start.                *)
WorkerNew(w) ==
  /\ OwnerGoes(w, "absent", "new_create")
  /\ life' = [life EXCEPT ![w] = "live"]
  /\ queueUp' = [queueUp EXCEPT ![w] = TRUE]
  /\ SetStatus(w, 1)
  /\ UNCHANGED <<hasty, misuse, queueVars, threadVars>>

(* worker_start of a stopped worker; a running one gets EINVAL.            *)
WorkerStart(w) ==
  /\ status[w] = 0
  /\ OwnerGoes(w, "idle", "create")
  /\ SetStatus(w, 1)
  /\ UNCHANGED <<life, queueUp, hasty, misuse, queueVars, threadVars>>

ThreadCreated(w) ==
  /\ \/ OwnerGoes(w, "new_create", "adopt")
     \/ OwnerGoes(w, "create", "idle")
  /\ thread' = [thread EXCEPT ![w] = "test"]
  /\ UNCHANGED <<life, status, queueUp, hasty, misuse, queueVars, hand, handled>>

(* pthread_create fails.  worker_new then frees the worker, not its queue, *)
(* and returns it all the same.                                            *)
ThreadNotCreated(w) ==
  /\ SetStatus(w, 0)
  /\ \/ OwnerGoes(w, "new_create", "adopt") /\ life' = [life EXCEPT ![w] = "freed"]
     \/ OwnerGoes(w, "create", "idle") /\ UNCHANGED life
  /\ UNCHANGED <<queueUp, hasty, misuse, queueVars, threadVars>>

(* The process ends because by uses w's worker_t or queue after its free.  *)
Freed(of, w) == IF of = "worker" THEN life[w] = "freed" ELSE ~queueUp[w]

Misuse(by, of, w) ==
  Freed(of, w) /\ misuse' = {[by |-> by, of |-> of, worker |-> w]}

(* server_new: worker->server = s, array_push_back(s->workers, &worker).   *)
Adopt(w) ==
  /\ OwnerGoes(w, "adopt", IF life[w] = "freed" THEN "dangling" ELSE "idle")
  /\ UNCHANGED misuse \/ Misuse("owner", "worker", w)
  /\ UNCHANGED <<life, status, queueUp, hasty, queueVars, threadVars>>

(* What worker->queue points to: the queue, or what was in it when it was  *)
(* freed.                                                                  *)
Memory(w) == IF queueUp[w] THEN queue[w] ELSE debris[w]

SetMemory(w, messages) ==
  IF queueUp[w] THEN queue' = [queue EXCEPT ![w] = messages] /\ UNCHANGED debris
  ELSE debris' = [debris EXCEPT ![w] = messages] /\ UNCHANGED queue

(* worker_push_msg, by a receiver, whatever the owner does or has done.    *)
(* It returns 0 when queue_push refuses, too: nobody keeps the message.    *)
WorkerPush(w) ==
  /\ pushed[w] < PushBound
  /\ \/ /\ pushed' = [pushed EXCEPT ![w] = @ + 1]
        /\ \/ /\ Len(Memory(w)) < QueueMax
              /\ SetMemory(w, Append(Memory(w), pushed[w] + 1))
              /\ UNCHANGED refused
           \/ /\ Len(Memory(w)) >= QueueMax
              /\ refused' = [refused EXCEPT ![w] = @ \cup {pushed[w] + 1}]
              /\ UNCHANGED <<queue, debris>>
        /\ UNCHANGED misuse
     \/ /\ \E of \in {"worker", "queue"} : Misuse("receiver", of, w)
        /\ UNCHANGED queueVars
  /\ UNCHANGED <<ownedVars, threadVars>>

(* Faults for mutation: status stays; the join is forgotten.               *)
WorkerStopKeepsStatus(w) ==
  /\ status[w] = 1
  /\ OwnerGoes(w, "idle", "join")
  /\ UNCHANGED <<life, status, queueUp, hasty, misuse, queueVars, threadVars>>

WorkerStopNoJoin(w) ==
  /\ status[w] = 1
  /\ SetStatus(w, 0)
  /\ OwnerGoes(w, "idle", "idle")
  /\ UNCHANGED <<life, queueUp, hasty, misuse, queueVars, threadVars>>

(* worker_stop of a running worker; with a stopped one it does nothing.    *)
WorkerStop(w) ==
  /\ status[w] = 1
  /\ SetStatus(w, 0)
  /\ OwnerGoes(w, "idle", "join")
  /\ UNCHANGED <<life, queueUp, hasty, misuse, queueVars, threadVars>>

(* pthread_join returns, to worker_stop's caller or to worker_free.        *)
Joined(w) ==
  /\ thread[w] = "ended"
  /\ \/ OwnerGoes(w, "join", "idle")
     \/ OwnerGoes(w, "free_join", "free")
  /\ UNCHANGED <<life, status, queueUp, hasty, misuse, queueVars, threadVars>>

(* worker_free: queue_free first, then worker_stop, then the worker.  What *)
(* is in the queue is thrown away with it.                                 *)
WorkerFree(w) ==
  /\ OwnerGoes(w, "idle", "free_stop")
  /\ queueUp' = [queueUp EXCEPT ![w] = FALSE]
  /\ queue' = [queue EXCEPT ![w] = << >>]
  /\ debris' = [debris EXCEPT ![w] = queue[w]]
  /\ hasty' = IF status[w] = 1 THEN hasty \cup {w} ELSE hasty
  /\ UNCHANGED <<life, status, misuse, pushed, refused, threadVars>>

(* Fault for mutation: status is counted down, running or not.             *)
FreeStopsCounts(w) ==
  /\ OwnerGoes(w, "free_stop", IF status[w] = 1 THEN "free_join" ELSE "free")
  /\ SetStatus(w, status[w] - 1)
  /\ UNCHANGED <<life, queueUp, hasty, misuse, queueVars, threadVars>>

FreeStops(w) ==
  /\ OwnerGoes(w, "free_stop", IF status[w] = 1 THEN "free_join" ELSE "free")
  /\ SetStatus(w, 0)
  /\ UNCHANGED <<life, queueUp, hasty, misuse, queueVars, threadVars>>

FreeEnds(w) ==
  /\ OwnerGoes(w, "free", "gone")
  /\ life' = [life EXCEPT ![w] = "freed"]
  /\ UNCHANGED <<status, queueUp, hasty, misuse, queueVars, threadVars>>

(* A call goes on once it has begun; which call begins is up to the owner. *)
Call(w) ==
  \/ ThreadCreated(w) \/ ThreadNotCreated(w) \/ Adopt(w)
  \/ Joined(w) \/ FreeStops(w) \/ FreeEnds(w)

Owner(w) == Call(w) \/ WorkerNew(w) \/ WorkerStart(w) \/ WorkerStop(w) \/ WorkerFree(w)
-----------------------------------------------------------------------------
ThreadGoes(w, from, to) == thread[w] = from /\ thread' = [thread EXCEPT ![w] = to]

(* while (worker->status)                                                  *)
Test(w) ==
  /\ ThreadGoes(w, "test", IF status[w] = 1 THEN "pop" ELSE "ended")
  /\ UNCHANGED misuse \/ Misuse("thread", "worker", w)
  /\ UNCHANGED <<hand, handled, queueVars, ownedVars>>

(* queue_pop, whose queue worker_free may have freed.                      *)
Pop(w) ==
  /\ \/ /\ Memory(w) = << >>
        /\ ThreadGoes(w, "pop", "sleep")
        /\ UNCHANGED <<queue, debris, hand, misuse>>
     \/ /\ Memory(w) # << >>
        /\ ThreadGoes(w, "pop", "handle")
        /\ hand' = [hand EXCEPT ![w] = Head(Memory(w))]
        /\ SetMemory(w, Tail(Memory(w)))
        /\ UNCHANGED misuse
     \/ /\ ThreadGoes(w, "pop", "pop")
        /\ Misuse("thread", "queue", w)
        /\ UNCHANGED <<queue, debris, hand>>
  /\ UNCHANGED <<pushed, refused, handled, ownedVars>>

(* usleep for a second, then continue.                                     *)
Wake(w) ==
  /\ ThreadGoes(w, "sleep", "test")
  /\ UNCHANGED <<hand, handled, misuse, queueVars, ownedVars>>

(* Fault for mutation: status is tested again before the event is handled. *)
HandleIfRunning(w) ==
  /\ ThreadGoes(w, "handle", IF status[w] = 1 THEN "test" ELSE "ended")
  /\ handled' = IF status[w] = 1 THEN [handled EXCEPT ![w] = Append(@, hand[w])]
                ELSE handled
  /\ hand' = [hand EXCEPT ![w] = 0]
  /\ UNCHANGED <<misuse, queueVars, ownedVars>>

(* The event is handled, whatever status says by now.                      *)
Handle(w) ==
  /\ ThreadGoes(w, "handle", "test")
  /\ handled' = [handled EXCEPT ![w] = Append(@, hand[w])]
  /\ hand' = [hand EXCEPT ![w] = 0]
  /\ UNCHANGED <<misuse, queueVars, ownedVars>>

Thread(w) == Test(w) \/ Pop(w) \/ Wake(w) \/ Handle(w)

WorkerNext == \E w \in Workers : Owner(w) \/ WorkerPush(w) \/ Thread(w)
-----------------------------------------------------------------------------
(* Every variable keeps its type.                                          *)
WorkerTypeOK ==
  /\ life \in [Workers -> {"none", "live", "freed"}]
  /\ status \in [Workers -> {0, 1}]
  /\ owner \in [Workers -> {"absent", "new_create", "adopt", "dangling", "idle", "create",
                            "join", "free_stop", "free_join", "free", "gone"}]
  /\ thread \in [Workers -> {"none", "test", "pop", "sleep", "handle", "ended"}]
  /\ queueUp \in [Workers -> BOOLEAN]
  /\ pushed \in [Workers -> 0 .. PushBound]
  /\ hand \in [Workers -> 0 .. PushBound]
  /\ queue \in [Workers -> Seq(1 .. PushBound)]
  /\ debris \in [Workers -> Seq(1 .. PushBound)]
  /\ refused \in [Workers -> SUBSET (1 .. PushBound)]
  /\ handled \in [Workers -> Seq(1 .. PushBound)]
  /\ hasty \subseteq Workers
  /\ misuse \subseteq [by : {"owner", "thread", "receiver"}, of : {"worker", "queue"},
                      worker : Workers]

Running(w) == thread[w] \notin {"none", "ended"}

(* When worker_stop has returned the worker's thread is gone, so that a    *)
(* later worker_start begins with none: no worker ever has two threads,    *)
(* and none runs on a worker_t that is freed.                              *)
StoppedIsQuiet ==
  \A w \in Workers :
    /\ owner[w] = "idle" => (Running(w) <=> status[w] = 1)
    /\ owner[w] \in {"absent", "new_create", "create", "dangling", "free", "gone"} => ~Running(w)

(* The messages a queue took: handled, in the thread's hand, and what      *)
(* worker->queue points to.  Kept are those that are not in a freed queue. *)
Done(w) == handled[w] \o (IF hand[w] = 0 THEN << >> ELSE <<hand[w]>>)
Taken(w) == Done(w) \o Memory(w)
Kept(w) == Done(w) \o queue[w]

Entries(messages) == {messages[i] : i \in DOMAIN messages}

(* Every message pushed is handled, in the thread's hand or queued, in the *)
(* order of the pushes and none twice, but for two kinds that are lost     *)
(* although worker_push_msg returned 0: those a full queue refused, after  *)
(* it took QueueMax others, and those in a queue that worker_free freed.   *)
(* Stops and restarts, failed ones too, lose none.                         *)
LossIsExplained ==
  \A w \in Workers :
    /\ \A i, j \in DOMAIN Kept(w) : i < j => Kept(w)[i] < Kept(w)[j]
    /\ Entries(Kept(w)) = (1 .. pushed[w]) \ (refused[w] \cup Entries(debris[w]))
    /\ \A m \in refused[w] : Len(Taken(w)) >= QueueMax /\ Taken(w)[QueueMax] < m
    /\ debris[w] # << >> => owner[w] \in {"free_stop", "free_join", "free", "gone"}

(* Whose use of freed memory can end the process.  A worker's thread never *)
(* uses a freed worker_t, and a freed queue only if worker_free met it     *)
(* running, for worker_free frees the queue before it stops the thread.    *)
(* server_new uses a worker whose first thread could not be created.       *)
(* Receivers use such a worker too, and any that worker_free was called    *)
(* for: server->workers keeps its pointer.                                 *)
UsedWhileAllocated ==
  \A use \in misuse :
    /\ use.by = "thread" => use.of = "queue" /\ use.worker \in hasty
    /\ use.by = "owner" => use.of = "worker" /\ owner[use.worker] = "dangling"
    /\ use.by = "receiver" =>
         owner[use.worker] \in {"dangling", "free_stop", "free_join", "free", "gone"}
=============================================================================
