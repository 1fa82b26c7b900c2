------------------------------ MODULE Receiver ------------------------------
(***************************************************************************)
(* receiver_thread (receiver.c) and conn_recv (conn.c): cutting the byte   *)
(* stream of one TCP connection into Diameter messages.                    *)
(*                                                                         *)
(* A byte is named by its position in the stream, so that a message can be *)
(* compared with the frame the peer sent.  Of a frame's content only the   *)
(* length and the version test are kept.  Allocation never returns NULL:   *)
(* zd_malloc exits the process instead, so the branch of receiver.c:75-79  *)
(* is never taken.  What server_dispatch does with a message is module     *)
(* Server.                                                                 *)
(***************************************************************************)
EXTENDS Integers, Sequences

CONSTANTS
  HeaderLen,  \* sizeof(header): 4
  MsgLens,    \* the frame lengths peers use; a Diameter header alone has 20
  MaxFrames,  \* bound: frames a peer sends
  NoByte      \* uninitialised memory

(* Every message is longer than the part of its header that is read first. *)
(* The thread does not test that: what a shorter one would do to msg_new's *)
(* block and to msg_parse_header is outside the model.                     *)
ASSUME FrameAssumption ==
  /\ HeaderLen \in Nat \ {0}
  /\ MsgLens \subseteq Nat
  /\ \A len \in MsgLens : len > HeaderLen
  /\ MaxFrames \in Nat
  /\ NoByte \notin Nat

VARIABLES
  frames,    \* the frames the peer has put on the stream
  link,      \* "open", "fin" (orderly close), "reset", "down" (reset reported)
  arrived,   \* bytes of the stream that reached the socket
  consumed,  \* bytes of the stream conn_recv has returned
  pc,        \* where the thread is
  received,  \* its variable received
  header,    \* its buffer header
  msgLen,    \* its variable msg_len
  raw,       \* msg->raw_data
  out        \* the messages given to server_dispatch

peerVars == <<frames, link, arrived>>
vars == <<frames, link, arrived, consumed, pc, received, header, msgLen, raw, out>>

Frames == [start : Nat, len : MsgLens, good : BOOLEAN]

(* The length of the stream so far.                                        *)
Total ==
  IF frames = << >> THEN 0
  ELSE frames[Len(frames)].start + frames[Len(frames)].len

Fresh(n) == [k \in 0 .. n - 1 |-> NoByte]

Init ==
  /\ frames = << >>
  /\ link = "open"
  /\ arrived = 0
  /\ consumed = 0
  /\ pc = "header"
  /\ received = 0
  /\ header = Fresh(HeaderLen)
  /\ msgLen = 0
  /\ raw = << >>
  /\ out = << >>
-----------------------------------------------------------------------------
(* The peer and the network.                                               *)
Send(len, good) ==
  /\ link = "open"
  /\ Len(frames) < MaxFrames
  /\ frames' = Append(frames, [start |-> Total, len |-> len, good |-> good])
  /\ UNCHANGED <<link, arrived, consumed, pc, received, header, msgLen, raw, out>>

Arrive ==
  /\ link = "open"
  /\ arrived < Total
  /\ arrived' = arrived + 1
  /\ UNCHANGED <<frames, link, consumed, pc, received, header, msgLen, raw, out>>

(* The peer closes, possibly in the middle of a frame.                     *)
Close ==
  /\ link = "open"
  /\ link' = "fin"
  /\ UNCHANGED <<frames, arrived, consumed, pc, received, header, msgLen, raw, out>>

(* A reset may discard what the thread has not read yet.                   *)
Reset ==
  /\ link \in {"open", "fin"}
  /\ link' = "reset"
  /\ arrived' \in {consumed, arrived}
  /\ UNCHANGED <<frames, consumed, pc, received, header, msgLen, raw, out>>
-----------------------------------------------------------------------------
(* conn_recv(conn, buf + at, want) returns ret: a blocking recv.  It waits *)
(* while nothing has arrived on an open connection, reports a reset once   *)
(* as -1 and every other end of the stream as 0.                           *)
Recv(want, ret) ==
  LET available == arrived - consumed
  IN  IF available > 0
      THEN /\ ret = (IF want < available THEN want ELSE available)
           /\ consumed' = consumed + ret
           /\ UNCHANGED link
      ELSE /\ \/ link = "reset" /\ ret = -1 /\ link' = "down"
              \/ link \in {"fin", "down"} /\ ret = 0 /\ UNCHANGED link
           /\ UNCHANGED consumed

(* The bytes recv stored at offset at.                                     *)
Stored(buf, at, ret) ==
  [k \in DOMAIN buf |-> IF k \in at .. at + ret - 1 THEN consumed + (k - at) ELSE buf[k]]

(* Fault for mutation: only an error ends the loop.                        *)
BrokenIfNegative(ret) == ret < 0

(* The header loop gives up on an error and on the end of the stream.      *)
Broken(ret) == ret <= 0

(* Fault for mutation: every read asks for a whole header.                 *)
HeaderWantAll == HeaderLen

HeaderWant == HeaderLen - received

RecvHeader ==
  /\ pc = "header"
  /\ received < HeaderLen
  /\ \E ret \in -1 .. HeaderLen :
       /\ Recv(HeaderWant, ret)
       /\ IF Broken(ret)
          THEN pc' = "exited" /\ UNCHANGED <<received, header>>
          ELSE /\ received' = received + ret
               /\ header' = Stored(header, received, ret)
               /\ UNCHANGED pc
  /\ UNCHANGED <<frames, arrived, msgLen, raw, out>>

(* What the bytes of the header say.  Bytes that are not the beginning of  *)
(* a frame do not pass the version test; FramesIntact shows that the       *)
(* thread never looks at such bytes.                                       *)
FrameAt(pos) ==
  LET here == {i \in DOMAIN frames : frames[i].start = pos}
  IN  IF here = {} THEN [start |-> pos, len |-> HeaderLen, good |-> FALSE]
      ELSE frames[CHOOSE i \in here : TRUE]

(* The header is complete: the version test and msg_new.                   *)
NewMessage ==
  /\ pc = "header"
  /\ received >= HeaderLen
  /\ LET frame == FrameAt(header[0])
     IN  IF frame.good
         THEN /\ pc' = "body"
              /\ msgLen' = frame.len
              /\ raw' = Fresh(frame.len)
         ELSE pc' = "exited" /\ UNCHANGED <<msgLen, raw>>
  /\ UNCHANGED <<frames, link, arrived, consumed, received, header, out>>

(* Fault for mutation: one byte too many is waited for.                    *)
MsgCompleteLate == received > msgLen

MsgComplete == received >= msgLen

(* One turn of the body loop.  Nobody looks at ret: an error makes         *)
(* received smaller, the end of the stream leaves everything as it is.     *)
RecvBody ==
  /\ pc = "body"
  /\ ~MsgComplete
  /\ \E ret \in -1 .. msgLen :
       /\ Recv(msgLen - received, ret)
       /\ received' = received + ret
       /\ raw' = Stored(raw, received, ret)
  /\ UNCHANGED <<frames, arrived, pc, header, msgLen, out>>

(* Fault for mutation: the header is not copied into the message.          *)
DispatchNoHeader ==
  /\ pc = "body"
  /\ MsgComplete
  /\ out' = Append(out, raw)
  /\ pc' = "header"
  /\ received' = 0
  /\ header' = Fresh(HeaderLen)
  /\ raw' = << >>
  /\ UNCHANGED <<frames, link, arrived, consumed, msgLen>>

(* The message is complete: memcpy of the header, server_dispatch, and the *)
(* next iteration with fresh local variables.                              *)
Dispatch ==
  /\ pc = "body"
  /\ MsgComplete
  /\ out' = Append(out, [k \in DOMAIN raw |-> IF k < HeaderLen THEN header[k] ELSE raw[k]])
  /\ pc' = "header"
  /\ received' = 0
  /\ header' = Fresh(HeaderLen)
  /\ raw' = << >>
  /\ UNCHANGED <<frames, link, arrived, consumed, msgLen>>
-----------------------------------------------------------------------------
Peer ==
  \/ \E len \in MsgLens, good \in BOOLEAN : Send(len, good)
  \/ Arrive \/ Close \/ Reset

Thread == RecvHeader \/ NewMessage \/ RecvBody \/ Dispatch

Next == Peer \/ Thread

Spec == Init /\ [][Next]_vars

(* The thread is scheduled whenever recv does not block.  Nothing is       *)
(* assumed of the peer or the network.                                     *)
FairSpec == Spec /\ WF_vars(Thread)
-----------------------------------------------------------------------------
(* Types and ranges; what has been read has arrived, and the header loop   *)
(* never stores beyond header.                                             *)
TypeOK ==
  /\ frames \in Seq(Frames)
  /\ link \in {"open", "fin", "reset", "down"}
  /\ arrived \in 0 .. Total
  /\ consumed \in 0 .. arrived
  /\ pc \in {"header", "body", "exited"}
  /\ received \in Int
  /\ pc = "header" => received \in 0 .. HeaderLen
  /\ header \in [0 .. HeaderLen - 1 -> Nat \cup {NoByte}]
  /\ msgLen \in Nat
  /\ pc = "body" => msgLen \in MsgLens /\ raw \in [0 .. msgLen - 1 -> Nat \cup {NoByte}]

(* The bytes of frame f.                                                   *)
Bytes(f) == [k \in 0 .. f.len - 1 |-> f.start + k]

(* However recv cuts the stream, and however the connection ends, message  *)
(* i given to a worker is byte for byte the i-th frame of the peer, and    *)
(* its version is right.                                                   *)
FramesIntact ==
  /\ Len(out) <= Len(frames)
  /\ \A i \in DOMAIN out : out[i] = Bytes(frames[i]) /\ frames[i].good

(* Frame i is in the socket, behind frames that pass the version test.     *)
Present(i) ==
  /\ i \in DOMAIN frames
  /\ frames[i].start + frames[i].len <= arrived
  /\ \A j \in 1 .. i : frames[j].good

(* A frame that has arrived is dispatched, unless a reset discards it.     *)
FrameDelivered ==
  \A i \in 1 .. MaxFrames :
    Present(i) ~> Len(out) >= i \/ link \in {"reset", "down"}

(* The stream has ended between two frames or inside a header.             *)
EndsOutsideBody ==
  /\ link = "fin"
  /\ \A i \in DOMAIN frames :
       arrived \notin frames[i].start + HeaderLen .. frames[i].start + frames[i].len - 1

(* When the peer closes there, the thread notices and stops.               *)
StopsOutsideBody == EndsOutsideBody ~> pc = "exited" \/ link # "fin"

(* A broken connection stops the receiver thread, wherever it is broken.   *)
DownStopsThread == link # "open" ~> pc = "exited"
=============================================================================
