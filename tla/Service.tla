------------------------------- MODULE Service ------------------------------
(***************************************************************************)
(* One process from start to end: server_new makes the workers, main calls *)
(* server_start, receivers push to the workers while they run.  Workers    *)
(* may be stopped, restarted and freed at any time; their pointers stay in *)
(* server->workers, so receivers push to freed ones as well.  The process  *)
(* ends when main does, or with a use of freed memory.                     *)
(***************************************************************************)
EXTENDS Worker, Listener

serviceVars == <<workerVars, listenerVars>>

Init == WorkerInit /\ ListenerInit

(* server_new has returned.                                                *)
ServerMade == \A w \in Workers : owner[w] \notin {"absent", "new_create", "adopt"}

Up == ProcessUp /\ misuse = {}

Next ==
  /\ Up
  /\ \/ (\E w \in Workers : Owner(w) \/ Thread(w)) /\ UNCHANGED listenerVars
     \/ /\ \E c \in Clients : reader[c] = "running"
        /\ \E w \in Workers : WorkerPush(w)
        /\ UNCHANGED listenerVars
     \/ ServerMade /\ ListenerNext /\ UNCHANGED workerVars

Spec == Init /\ [][Next]_serviceVars

(* Threads that can go on are scheduled.  Owners need not call anything,   *)
(* peers need not connect, and receivers need not end.                     *)
FairSpec ==
  /\ Spec
  /\ \A w \in Workers : WF_serviceVars(Up /\ Thread(w) /\ UNCHANGED listenerVars)
  /\ \A w \in Workers : WF_serviceVars(Up /\ Call(w) /\ UNCHANGED listenerVars)
  /\ WF_serviceVars(Up /\ ServerThread /\ UNCHANGED workerVars)
-----------------------------------------------------------------------------
(* A worker_stop, or a worker_free that waits for the thread, returns as   *)
(* long as the process lives.                                              *)
StopReturns ==
  \A w \in Workers :
    owner[w] \in {"join", "free_join"} ~> owner[w] \in {"idle", "gone"} \/ ~Up

(* A client that waits is accepted or gives up, receivers that cannot be   *)
(* created notwithstanding, unless the descriptors have run out: receivers *)
(* that ended keep theirs.                                                 *)
WaitingIsServed ==
  \A c \in Clients :
    (\E i \in DOMAIN backlog : backlog[i] = c)
      ~> (\A i \in DOMAIN backlog : backlog[i] # c) \/ TableFull \/ ~Up
=============================================================================
