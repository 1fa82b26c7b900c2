------------------------------ MODULE Listener ------------------------------
(***************************************************************************)
(* The listening side of server.c, conn.c, tcp.c and receiver.c: main      *)
(* calls server_start, which binds a socket and creates the server's       *)
(* thread; that thread listens, accepts and creates a receiver for each    *)
(* client; main joins it and ends the process when it returns.  What a     *)
(* receiver does with its connection is in module Receiver: here it runs   *)
(* until it ends.                                                          *)
(*                                                                         *)
(* files is the kernel's table of descriptors, sock the descriptor that    *)
(* the program's conn_t holds for each client.                             *)
(***************************************************************************)
EXTENDS Integers, Sequences

CONSTANTS
  Clients,   \* the peers, each with at most one connection
  MaxFd,     \* descriptors the process may have besides the standard ones
  Backlog,   \* connections that may wait for accept: 5 in conn_serv_listen
  Unused, Listening,  \* what a descriptor is when it is no client's
  Nobody     \* the server thread has no connection in hand

VARIABLES
  main,      \* where the main thread is
  server,    \* where the server's thread is
  files,     \* per descriptor: what it is open for
  backlog,   \* the clients that wait to be accepted
  sock,      \* per client: conn->sock, 0 when there is no conn_t
  current,   \* the client of the loop's conn and receiver
  reader,    \* per client: its receiver thread
  receivers  \* server->receivers: the clients of its receivers

listenerVars == <<main, server, files, backlog, sock, current, reader, receivers>>
acceptedVars == <<sock, current, reader, receivers>>

ASSUME ListenerAssumption ==
  /\ MaxFd \in Nat
  /\ Backlog \in Nat
  /\ Unused # Listening
  /\ {Unused, Listening, Nobody} \cap Clients = {}

Descriptors == 1 .. MaxFd

(* socket and accept take the lowest descriptor that is not used.          *)
Lowest(n) == files[n] = Unused /\ \A k \in 1 .. n - 1 : files[k] # Unused

TableFull == \A n \in Descriptors : files[n] # Unused

ListenerInit ==
  /\ main = "start"
  /\ server = "none"
  /\ files = [n \in Descriptors |-> Unused]
  /\ backlog = << >>
  /\ sock = [c \in Clients |-> 0]
  /\ current = Nobody
  /\ reader = [c \in Clients |-> "none"]
  /\ receivers = << >>

(* tcp_create_bind: without a socket it fails; with one it fails in        *)
(* setsockopt or bind and leaves the socket open, or it succeeds.          *)
TcpCreateBind ==
  \/ \E n \in Descriptors :
       /\ Lowest(n)
       /\ files' = [files EXCEPT ![n] = Listening]
       /\ main' \in {"create", "unserved"}
  \/ UNCHANGED files /\ main' = "unserved"

(* server_start and conn_serv_bind pass its failure on, and main does not  *)
(* look at it.                                                             *)
ServerStart ==
  /\ main = "start"
  /\ TcpCreateBind
  /\ UNCHANGED <<server, backlog, acceptedVars>>

(* server_start's pthread_create; without a thread it returns -1 and the   *)
(* socket stays.                                                           *)
CreateServerThread ==
  /\ main = "create"
  /\ \/ main' = "join" /\ server' = "listen"
     \/ main' = "unserved" /\ UNCHANGED server
  /\ UNCHANGED <<files, backlog, acceptedVars>>

(* pthread_join of the server's thread, then exit.  If no thread was       *)
(* created, s->thread was never written: the join fails, waits for some    *)
(* other thread for ever, or ends the process.                             *)
MainEnds ==
  /\ \/ main = "join" /\ server = "ended" /\ main' = "exited"
     \/ main = "unserved" /\ main' \in {"exited", "crashed", "stuck"}
  /\ UNCHANGED <<server, files, backlog, acceptedVars>>

(* server_thread: conn_serv_listen.                                        *)
Listen ==
  /\ server = "listen"
  /\ server' \in {"accept", "ended"}
  /\ UNCHANGED <<main, files, backlog, acceptedVars>>

(* A peer connects.  It may be gone again before it is accepted; accept    *)
(* reports that as an error, if a descriptor is free, and the loop goes on.*)
Connect(c) ==
  /\ server \notin {"none", "listen", "ended"}
  /\ Len(backlog) < Backlog
  /\ c # current /\ sock[c] = 0 /\ reader[c] = "none"
  /\ \A i \in DOMAIN backlog : backlog[i] # c
  /\ backlog' = Append(backlog, c)
  /\ UNCHANGED <<main, server, files, acceptedVars>>

ConnectionAborted ==
  /\ server = "accept"
  /\ backlog # << >> /\ ~TableFull
  /\ backlog' = Tail(backlog)
  /\ UNCHANGED <<main, server, files, acceptedVars>>

(* Fault for mutation: accept's result is not looked at.                   *)
AcceptUnchecked ==
  /\ server = "accept"
  /\ backlog # << >>
  /\ \/ \E n \in Descriptors :
          /\ Lowest(n)
          /\ files' = [files EXCEPT ![n] = Head(backlog)]
          /\ sock' = [sock EXCEPT ![Head(backlog)] = n]
     \/ /\ TableFull
        /\ sock' = [sock EXCEPT ![Head(backlog)] = -1]
        /\ UNCHANGED files
  /\ current' = Head(backlog)
  /\ backlog' = Tail(backlog)
  /\ server' = "create"
  /\ UNCHANGED <<main, reader, receivers>>

(* conn_serv_accept.  Without a free descriptor accept fails at once and   *)
(* the loop calls it again: nothing changes, so that is no step.           *)
Accept ==
  /\ server = "accept"
  /\ backlog # << >>
  /\ \E n \in Descriptors :
       /\ Lowest(n)
       /\ files' = [files EXCEPT ![n] = Head(backlog)]
       /\ sock' = [sock EXCEPT ![Head(backlog)] = n]
  /\ current' = Head(backlog)
  /\ backlog' = Tail(backlog)
  /\ server' = "create"
  /\ UNCHANGED <<main, reader, receivers>>

(* conn_free: shutdown, close, and the conn_t is gone.                     *)
ConnFree(c) ==
  /\ files' = [files EXCEPT ![sock[c]] = Unused]
  /\ sock' = [sock EXCEPT ![c] = 0]

(* Fault for mutation: receiver_new frees the connection in any case.      *)
ReceiverCreatedFreed ==
  /\ server = "create"
  /\ reader' = [reader EXCEPT ![current] = "running"]
  /\ server' = "push"
  /\ ConnFree(current)
  /\ UNCHANGED <<main, backlog, current, receivers>>

(* receiver_new: the thread runs before the array has its receiver.        *)
ReceiverCreated ==
  /\ server = "create"
  /\ reader' = [reader EXCEPT ![current] = "running"]
  /\ server' = "push"
  /\ UNCHANGED <<main, files, backlog, sock, current, receivers>>

(* Faults for mutation: the continue is missing; it is a return.           *)
ReceiverFailedPushed ==
  /\ server = "create"
  /\ ConnFree(current)
  /\ server' = "push"
  /\ UNCHANGED <<main, backlog, current, reader, receivers>>

ReceiverFailedReturns ==
  /\ server = "create"
  /\ ConnFree(current)
  /\ current' = Nobody
  /\ server' = "ended"
  /\ UNCHANGED <<main, backlog, reader, receivers>>

(* pthread_create fails: receiver_free, NULL, and the loop continues.      *)
ReceiverFailed ==
  /\ server = "create"
  /\ ConnFree(current)
  /\ current' = Nobody
  /\ server' = "accept"
  /\ UNCHANGED <<main, backlog, reader, receivers>>

(* array_push_back(server->receivers, &receiver)                           *)
ReceiverPushed ==
  /\ server = "push"
  /\ receivers' = Append(receivers, current)
  /\ current' = Nobody
  /\ server' = "accept"
  /\ UNCHANGED <<main, files, backlog, sock, reader>>

(* receiver_thread returns; its receiver_free is commented out.            *)
ReceiverEnds(c) ==
  /\ reader[c] = "running"
  /\ reader' = [reader EXCEPT ![c] = "ended"]
  /\ UNCHANGED <<main, server, files, backlog, sock, current, receivers>>

MainThread == ServerStart \/ CreateServerThread \/ MainEnds

(* The server's thread, while accept has something to return.              *)
ServerThread ==
  Listen \/ ConnectionAborted \/ Accept
  \/ ReceiverCreated \/ ReceiverFailed \/ ReceiverPushed

ListenerNext ==
  MainThread \/ ServerThread \/ \E c \in Clients : Connect(c) \/ ReceiverEnds(c)

ProcessUp == main \notin {"exited", "crashed"}
-----------------------------------------------------------------------------
(* Every variable keeps its type.                                          *)
ListenerTypeOK ==
  /\ main \in {"start", "create", "join", "unserved", "exited", "crashed", "stuck"}
  /\ server \in {"none", "listen", "accept", "create", "push", "ended"}
  /\ files \in [Descriptors -> Clients \cup {Unused, Listening}]
  /\ backlog \in Seq(Clients)
  /\ sock \in [Clients -> 0 .. MaxFd]
  /\ current \in Clients \cup {Nobody}
  /\ reader \in [Clients -> {"none", "running", "ended"}]
  /\ receivers \in Seq(Clients)

(* A conn_t and an open socket belong to each other one to one, whatever   *)
(* failed and whichever descriptors were used again: a receiver, ended or  *)
(* not, has its client's socket and nobody else's, and a client without    *)
(* receiver has none, unless the server thread has it in hand.             *)
SocketIsOwned ==
  /\ \A n \in Descriptors, c \in Clients : files[n] = c <=> sock[c] = n
  /\ \A c \in Clients :
       sock[c] # 0 <=> reader[c] # "none" \/ (server = "create" /\ current = c)

(* server->receivers has each receiver that was created once and no other, *)
(* but for the one that is about to be pushed.                             *)
ReceiversAreCreated ==
  /\ \A c \in Clients :
       (\E i \in DOMAIN receivers : receivers[i] = c)
         <=> reader[c] # "none" /\ ~(server = "push" /\ current = c)
  /\ \A i, j \in DOMAIN receivers : receivers[i] = receivers[j] => i = j

(* The process does not end by itself while a client has a receiver.       *)
ServingGoesOn == \A c \in Clients : reader[c] # "none" => main = "join"
=============================================================================
