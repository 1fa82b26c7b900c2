---------------------------- MODULE ServerProofs ----------------------------
(***************************************************************************)
(* Theorems about the running server (module Server) for every number of   *)
(* connections, workers and messages and every queue capacity.             *)
(***************************************************************************)
EXTENDS Server, SequenceTheorems, TLAPS

(* The steps of Next, one by one.                                          *)
LEMMA Steps ==
  ASSUME Next
  PROVE  \/ \E r \in Receivers : Accept(r) \/ Receive(r) \/ HangUp(r)
         \/ \E r \in Receivers : Route(r)
         \/ \E r \in Receivers : Push(r)
         \/ \E r \in Receivers : BumpLoad(r) \/ BumpStore(r) \/ WrapTest(r) \/ WrapReset(r)
         \/ \E w \in Workers : Pop(w)
         \/ \E w \in Workers : Sleep(w) \/ Wake(w) \/ Parse(w)
         \/ \E w \in Workers : Handle(w)
         \/ FreeDict
  BY DEF Next, Receiver, Worker, Dispatch

(* The initial state is well typed.                                        *)
LEMMA InitType == Init => TypeOK
  BY ServerAssumption DEF Init, TypeOK, ReceiversOK, WorkersOK, QueuesOK, Workers, Msgs

(* What a receiver is dispatching is a message.                            *)
LEMMA HeldType ==
  ASSUME TypeOK, NEW r \in Receivers, Holding(r)
  PROVE  /\ Held(r) \in Msgs
         /\ Held(r).from = r
         /\ Held(r).num = read[r]
  BY DEF TypeOK, ReceiversOK, Holding, Held, Msgs

(* A step that moves a receiver to a place where it holds no message.      *)
LEMMA ReceiverMoves ==
  ASSUME ReceiversOK, NEW r \in Receivers,
         NEW loc \in {"recv", "exited", "load", "store", "test", "reset"},
         GoTo(r, loc), UNCHANGED <<read, target>>,
         reg' \in [Receivers -> Nat]
  PROVE  ReceiversOK'
<1>1. rpc' \in [Receivers -> {"absent", "recv", "exited", "route", "push",
                              "load", "store", "test", "reset"}]
  BY DEF ReceiversOK, GoTo
<1>2. \A q \in Receivers : rpc'[q] \in {"route", "push"} => rpc[q] \in {"route", "push"}
  BY DEF ReceiversOK, GoTo
<1>3. QED
  BY <1>1, <1>2 DEF ReceiversOK

(* Every step keeps the types, and no queue outgrows its capacity.         *)
LEMMA StepType == TypeOK /\ [Next]_vars => TypeOK'
<1> SUFFICES ASSUME TypeOK, [Next]_vars PROVE TypeOK'
  OBVIOUS
<1> USE ServerAssumption
<1>1. CASE UNCHANGED vars
  BY <1>1 DEF TypeOK, ReceiversOK, WorkersOK, QueuesOK, vars
<1>2. ASSUME NEW r \in Receivers, Accept(r) \/ HangUp(r)
      PROVE  TypeOK'
  <2>1. ReceiversOK'
    BY <1>2, ReceiverMoves DEF Accept, HangUp, TypeOK, ReceiversOK
  <2>2. QED
    BY <1>2, <2>1 DEF TypeOK, Accept, HangUp, WorkersOK, QueuesOK, workerVars
<1>3. ASSUME NEW r \in Receivers, Receive(r)
      PROVE  TypeOK'
  <2>1. read' \in [Receivers -> 0 .. MsgBound]
    BY <1>3 DEF TypeOK, ReceiversOK, Receive
  <2>2. \A q \in Receivers : rpc'[q] \in {"route", "push"} => read'[q] > 0
    BY <1>3 DEF TypeOK, ReceiversOK, Receive, GoTo
  <2>3. ReceiversOK'
    BY <1>3, <2>1, <2>2 DEF TypeOK, ReceiversOK, Receive, GoTo
  <2>4. QED
    BY <1>3, <2>3 DEF TypeOK, Receive, WorkersOK, QueuesOK, workerVars
<1>4. ASSUME NEW r \in Receivers, Route(r)
      PROVE  TypeOK'
  <2>1. CASE currWorker < NumWorkers
    <3>1. target' \in [Receivers -> Workers] /\ GoTo(r, "push") /\ UNCHANGED <<read, reg>>
      BY <1>4, <2>1 DEF TypeOK, ReceiversOK, Route, Workers
    <3>2. \A q \in Receivers : rpc'[q] \in {"route", "push"} => rpc[q] \in {"route", "push"}
      BY <1>4, <3>1 DEF TypeOK, ReceiversOK, Route, GoTo
    <3>3. ReceiversOK'
      BY <3>1, <3>2 DEF TypeOK, ReceiversOK, GoTo
    <3>4. QED
      BY <1>4, <2>1, <3>3 DEF TypeOK, Route, WorkersOK, QueuesOK, workerVars
  <2>2. CASE ~(currWorker < NumWorkers)
    BY <1>4, <2>2 DEF TypeOK, Route, ReceiversOK, WorkersOK, QueuesOK, workerVars
  <2>3. QED
    BY <2>1, <2>2
<1>5. ASSUME NEW r \in Receivers, Push(r)
      PROVE  TypeOK'
  <2>1. Held(r) \in Msgs /\ target[r] \in Workers
    BY <1>5, HeldType DEF Push, Holding, TypeOK, ReceiversOK
  <2>2. QueuesOK'
    <3>1. CASE Len(queue[target[r]]) < QueueMax
      <4>1. /\ queue[target[r]] \in Seq(Msgs)
            /\ Append(queue[target[r]], Held(r)) \in Seq(Msgs)
            /\ Len(Append(queue[target[r]], Held(r))) <= QueueMax
        BY <2>1, <3>1 DEF TypeOK, QueuesOK
      <4>2. queue' = [queue EXCEPT ![target[r]] = Append(queue[target[r]], Held(r))]
            /\ refused' = refused
        BY <1>5, <3>1 DEF Push
      <4>3. QED
        BY <4>1, <4>2 DEF TypeOK, QueuesOK
    <3>2. CASE ~(Len(queue[target[r]]) < QueueMax)
      BY <1>5, <2>1, <3>2 DEF Push, TypeOK, QueuesOK
    <3>3. QED
      BY <3>1, <3>2
  <2>3. ReceiversOK'
    BY <1>5, ReceiverMoves DEF TypeOK, ReceiversOK, Push
  <2>4. QED
    BY <1>5, <2>2, <2>3 DEF TypeOK, Push, WorkersOK, workerVars
<1>6. ASSUME NEW r \in Receivers,
             BumpLoad(r) \/ BumpStore(r) \/ WrapTest(r) \/ WrapReset(r)
      PROVE  TypeOK'
  <2>1. reg' \in [Receivers -> Nat] /\ currWorker' \in Nat
    BY <1>6 DEF TypeOK, ReceiversOK, BumpLoad, BumpStore, WrapTest, WrapReset
  <2>2. ReceiversOK'
    <3>1. CASE BumpLoad(r)
      BY <3>1, <2>1, ReceiverMoves DEF BumpLoad, TypeOK
    <3>2. CASE BumpStore(r)
      BY <3>2, <2>1, ReceiverMoves DEF BumpStore, TypeOK
    <3>3. CASE WrapTest(r)
      BY <3>3, <2>1, ReceiverMoves DEF WrapTest, TypeOK
    <3>4. CASE WrapReset(r)
      BY <3>4, <2>1, ReceiverMoves DEF WrapReset, TypeOK
    <3>5. QED
      BY <1>6, <3>1, <3>2, <3>3, <3>4
  <2>3. QED
    BY <1>6, <2>1, <2>2 DEF TypeOK, BumpLoad, BumpStore, WrapTest, WrapReset,
                            WorkersOK, QueuesOK, workerVars
<1>7. ASSUME NEW w \in Workers, Pop(w)
      PROVE  TypeOK'
  <2>1. /\ Head(queue[w]) \in Msgs
        /\ Tail(queue[w]) \in Seq(Msgs)
        /\ Len(Tail(queue[w])) <= QueueMax
    BY <1>7, HeadTailProperties DEF Pop, TypeOK, QueuesOK
  <2>2. QueuesOK'
    BY <1>7, <2>1 DEF TypeOK, QueuesOK, Pop
  <2>3. Head(queue[w]) # NoMsg
    BY <2>1 DEF Msgs
  <2>4. WorkersOK'
    BY <1>7, <2>1, <2>3 DEF TypeOK, WorkersOK, Pop
  <2>5. QED
    BY <1>7, <2>2, <2>4 DEF TypeOK, Pop, ReceiversOK, receiverVars
<1>8. ASSUME NEW w \in Workers, Sleep(w) \/ Wake(w) \/ Parse(w)
      PROVE  TypeOK'
  BY <1>8 DEF TypeOK, Sleep, Wake, Parse, ReceiversOK, WorkersOK, QueuesOK, receiverVars
<1>9. ASSUME NEW w \in Workers, Handle(w)
      PROVE  TypeOK'
  <2>1. hand[w] \in Msgs
    BY <1>9 DEF TypeOK, WorkersOK, Handle
  <2>2. done' \in [Workers -> Seq(Msgs)]
    BY <1>9, <2>1 DEF TypeOK, WorkersOK, Handle
  <2>3. WorkersOK'
    BY <1>9, <2>2 DEF TypeOK, WorkersOK, Handle
  <2>4. QED
    BY <1>9, <2>3 DEF TypeOK, Handle, ReceiversOK, QueuesOK, receiverVars
<1>10. CASE FreeDict
  BY <1>10 DEF TypeOK, FreeDict, ReceiversOK, WorkersOK, QueuesOK, receiverVars, workerVars
<1>11. QED
  BY <1>1, <1>2, <1>3, <1>4, <1>5, <1>6, <1>7, <1>8, <1>9, <1>10, Steps
-----------------------------------------------------------------------------
(* Three ways of cutting one sequence into what was handled, what is in    *)
(* hand and what is queued.                                                *)
LEMMA CutAtHead ==
  ASSUME NEW S, NEW s \in Seq(S), NEW q \in Seq(S), q # << >>
  PROVE  (s \o << >>) \o q = (s \o <<Head(q)>>) \o Tail(q)
  OBVIOUS

LEMMA CutAtHand ==
  ASSUME NEW S, NEW s \in Seq(S), NEW q \in Seq(S), NEW h \in S
  PROVE  (s \o <<h>>) \o q = (Append(s, h) \o << >>) \o q
  OBVIOUS

LEMMA AppendLast ==
  ASSUME NEW S, NEW s \in Seq(S), NEW q \in Seq(S), NEW h \in S
  PROVE  s \o Append(q, h) = Append(s \o q, h)
  OBVIOUS

(* A track is a sequence of messages.                                      *)
LEMMA TrackType ==
  ASSUME TypeOK, NEW w \in Workers
  PROVE  /\ Track(w) \in Seq(Msgs)
         /\ DOMAIN Track(w) = 1 .. Len(Track(w))
         /\ \A i \in DOMAIN Track(w) : Track(w)[i] \in Msgs
<1>1. Track(w) \in Seq(Msgs)
  BY DEF TypeOK, ReceiversOK, WorkersOK, QueuesOK, Track
<1>2. QED
  BY <1>1

(* Popping and handling move a message along its worker's track.           *)
LEMMA WorkerKeepsTrack ==
  ASSUME TypeOK, NEW w \in Workers, Worker(w)
  PROVE  \A v \in Workers : Track(v)' = Track(v)
<1> USE ServerAssumption
<1>0. /\ done[w] \in Seq(Msgs)
      /\ queue[w] \in Seq(Msgs)
      /\ hand[w] \in Msgs \cup {NoMsg}
      /\ NoMsg \notin Msgs
  BY DEF TypeOK, ReceiversOK, WorkersOK, QueuesOK, Msgs
<1>1. ASSUME NEW v \in Workers, v # w PROVE Track(v)' = Track(v)
  BY <1>1 DEF Track, Worker, Pop, Sleep, Wake, Parse, Handle, TypeOK, ReceiversOK, WorkersOK, QueuesOK
<1>2. CASE Pop(w)
  <2>1. hand[w] = NoMsg /\ Head(queue[w]) \in Msgs
    BY <1>2, <1>0, HeadTailProperties DEF Pop, TypeOK, ReceiversOK, WorkersOK, QueuesOK
  <2>2. /\ hand'[w] = Head(queue[w])
        /\ queue'[w] = Tail(queue[w])
        /\ done'[w] = done[w]
    BY <1>2 DEF Pop, TypeOK, ReceiversOK, WorkersOK, QueuesOK
  <2>3. (done[w] \o << >>) \o queue[w]
          = (done[w] \o <<Head(queue[w])>>) \o Tail(queue[w])
    BY <1>0, <1>2, CutAtHead DEF Pop
  <2>4. Track(w)' = Track(w)
    BY <2>1, <2>2, <2>3, <1>0 DEF Track
  <2>5. QED
    BY <1>1, <2>4
<1>3. CASE Sleep(w) \/ Wake(w) \/ Parse(w)
  BY <1>1, <1>3 DEF Track, Sleep, Wake, Parse
<1>4. CASE Handle(w)
  <2>1. hand[w] \in Msgs
    BY <1>4, <1>0 DEF Handle, TypeOK, ReceiversOK, WorkersOK, QueuesOK
  <2>2. /\ hand'[w] = NoMsg
        /\ queue'[w] = queue[w]
        /\ done'[w] = Append(done[w], hand[w])
    BY <1>4 DEF Handle, TypeOK, ReceiversOK, WorkersOK, QueuesOK
  <2>3. (done[w] \o <<hand[w]>>) \o queue[w]
          = (Append(done[w], hand[w]) \o << >>) \o queue[w]
    BY <1>0, <2>1, CutAtHand
  <2>4. Track(w)' = Track(w)
    BY <2>1, <2>2, <2>3, <1>0 DEF Track
  <2>5. QED
    BY <1>1, <2>4
<1>5. QED
  BY <1>2, <1>3, <1>4 DEF Worker

(* A push that the queue takes puts its message at the end of a track.     *)
LEMMA PushAppends ==
  ASSUME TypeOK, NEW r \in Receivers, Push(r), Len(queue[target[r]]) < QueueMax
  PROVE  \A w \in Workers :
           Track(w)' = IF w = target[r] THEN Append(Track(w), Held(r)) ELSE Track(w)
<1>0. PICK t \in Workers : t = target[r]
  BY DEF TypeOK, ReceiversOK
<1>1. Held(r) \in Msgs
  BY HeldType DEF Push, Holding
<1>2. queue' = [queue EXCEPT ![t] = Append(queue[t], Held(r))] /\ UNCHANGED <<done, hand>>
  BY <1>0 DEF Push, workerVars
<1>3. ASSUME NEW w \in Workers, w # t PROVE Track(w)' = Track(w)
  BY <1>2, <1>3 DEF Track, TypeOK, ReceiversOK, WorkersOK, QueuesOK
<1>4. Track(t)' = Append(Track(t), Held(r))
  <2>1. queue'[t] = Append(queue[t], Held(r))
    BY <1>1, <1>2 DEF TypeOK, ReceiversOK, WorkersOK, QueuesOK
  <2>2. ASSUME NEW s \in Seq(Msgs)
        PROVE  s \o Append(queue[t], Held(r)) = Append(s \o queue[t], Held(r))
    BY <1>1, AppendLast DEF TypeOK, QueuesOK
  <2>3. done[t] \o (IF hand[t] = NoMsg THEN << >> ELSE <<hand[t]>>) \in Seq(Msgs)
    BY <1>1 DEF TypeOK, ReceiversOK, WorkersOK, QueuesOK
  <2>4. QED
    BY <1>2, <2>1, <2>2, <2>3 DEF Track
<1>5. QED
  BY <1>0, <1>3, <1>4

(* The steps that leave tracks, hands of receivers and refusals alone.     *)
LEMMA QuietSteps ==
  ASSUME TypeOK,
         \/ UNCHANGED vars
         \/ \E r \in Receivers : Accept(r) \/ HangUp(r) \/ Route(r)
         \/ \E r \in Receivers : BumpLoad(r) \/ BumpStore(r) \/ WrapTest(r) \/ WrapReset(r)
         \/ \E w \in Workers : Worker(w)
         \/ FreeDict
  PROVE  /\ \A w \in Workers : Track(w)' = Track(w)
         /\ \A r \in Receivers : Holding(r)' = Holding(r)
         /\ UNCHANGED <<read, refused>>
<1>1. CASE \E w \in Workers : Worker(w)
  BY <1>1, WorkerKeepsTrack DEF Worker, Pop, Sleep, Wake, Parse, Handle, receiverVars, Holding
<1>2. CASE UNCHANGED vars \/ FreeDict
  BY <1>2 DEF vars, FreeDict, receiverVars, workerVars, Track, Holding
<1>3. CASE \E r \in Receivers : Accept(r) \/ HangUp(r) \/ Route(r)
  <2>1. UNCHANGED <<read, refused, queue, hand, done>>
    BY <1>3 DEF Accept, HangUp, Route, workerVars
  <2>2. \A w \in Workers : Track(w)' = Track(w)
    BY <2>1 DEF Track
  <2>3. \/ \E r \in Receivers, loc \in {"recv", "exited"} : ~Holding(r) /\ GoTo(r, loc)
        \/ \E r \in Receivers : rpc[r] = "route" /\ (GoTo(r, "push") \/ rpc' = rpc)
    BY <1>3 DEF Accept, HangUp, Route, Holding
  <2>4. \A r \in Receivers : Holding(r)' = Holding(r)
    BY <2>3 DEF GoTo, Holding, TypeOK, ReceiversOK
  <2>5. QED
    BY <2>1, <2>2, <2>4
<1>4. CASE \E r \in Receivers : BumpLoad(r) \/ BumpStore(r) \/ WrapTest(r) \/ WrapReset(r)
  <2>1. UNCHANGED <<read, refused, queue, hand, done>>
    BY <1>4 DEF BumpLoad, BumpStore, WrapTest, WrapReset, workerVars
  <2>2. \A w \in Workers : Track(w)' = Track(w)
    BY <2>1 DEF Track
  <2>3. \E r \in Receivers, loc \in {"recv", "store", "test", "reset"} :
          ~Holding(r) /\ GoTo(r, loc)
    BY <1>4 DEF BumpLoad, BumpStore, WrapTest, WrapReset, Holding
  <2>4. \A r \in Receivers : Holding(r)' = Holding(r)
    BY <2>3 DEF GoTo, Holding, TypeOK, ReceiversOK, WorkersOK, QueuesOK
  <2>5. QED
    BY <2>1, <2>2, <2>4
<1>5. QED
  BY <1>1, <1>2, <1>3, <1>4

(* The remaining steps: reading a message puts it into its receiver's      *)
(* hands, pushing it takes it from there to a track or to the refused.     *)
LEMMA ReceiveHolds ==
  ASSUME TypeOK, NEW r \in Receivers, Receive(r)
  PROVE  /\ \A w \in Workers : Track(w)' = Track(w)
         /\ ~Holding(r) /\ Holding(r)'
         /\ \A q \in Receivers : q # r => Holding(q)' = Holding(q) /\ read'[q] = read[q]
         /\ read'[r] = read[r] + 1
         /\ refused' = refused
  BY DEF Receive, GoTo, workerVars, Track, Holding, TypeOK, ReceiversOK, WorkersOK, QueuesOK

LEMMA PushReleases ==
  ASSUME TypeOK, NEW r \in Receivers, Push(r)
  PROVE  /\ Holding(r) /\ ~Holding(r)'
         /\ \A q \in Receivers : q # r => Holding(q)' = Holding(q)
         /\ read' = read
         /\ \/ /\ \A w \in Workers : Track(w)' =
                    IF w = target[r] THEN Append(Track(w), Held(r)) ELSE Track(w)
               /\ refused' = refused
            \/ /\ \A w \in Workers : Track(w)' = Track(w)
               /\ refused' = refused \cup {Held(r)}
<1>1. /\ Holding(r) /\ ~Holding(r)'
      /\ \A q \in Receivers : q # r => Holding(q)' = Holding(q)
      /\ read' = read
  BY DEF Push, GoTo, Holding, TypeOK, ReceiversOK, WorkersOK, QueuesOK
<1>2. CASE Len(queue[target[r]]) < QueueMax
  BY <1>1, <1>2, PushAppends DEF Push
<1>3. CASE ~(Len(queue[target[r]]) < QueueMax)
  BY <1>1, <1>3 DEF Push, Track, workerVars
<1>4. QED
  BY <1>2, <1>3

(* Every step is quiet, reads a message or pushes one.                     *)
LEMMA ThreeKinds ==
  ASSUME [Next]_vars
  PROVE  \/ \/ UNCHANGED vars
            \/ \E r \in Receivers : Accept(r) \/ HangUp(r) \/ Route(r)
            \/ \E r \in Receivers : BumpLoad(r) \/ BumpStore(r) \/ WrapTest(r) \/ WrapReset(r)
            \/ \E w \in Workers : Worker(w)
            \/ FreeDict
         \/ \E r \in Receivers : Receive(r)
         \/ \E r \in Receivers : Push(r)
  BY DEF Next, Receiver, Dispatch
-----------------------------------------------------------------------------
(* Nobody has read anything yet.                                           *)
LEMMA InitOwner == Init => OneOwner
  BY ServerAssumption DEF Init, OneOwner, Located, Apart, OnceTracked, Tracked, InHand, Holding, Held, Track, Msgs

(* Every step keeps each message in one place.                             *)
LEMMA StepOwner == TypeOK /\ OneOwner /\ [Next]_vars => OneOwner'
<1> SUFFICES ASSUME TypeOK, OneOwner, [Next]_vars PROVE OneOwner'
  OBVIOUS
<1>0. TypeOK'
  BY StepType
<1>1. CASE \/ UNCHANGED vars
           \/ \E r \in Receivers : Accept(r) \/ HangUp(r) \/ Route(r)
           \/ \E r \in Receivers : BumpLoad(r) \/ BumpStore(r) \/ WrapTest(r) \/ WrapReset(r)
           \/ \E w \in Workers : Worker(w)
           \/ FreeDict
  <2>1. /\ \A w \in Workers : Track(w)' = Track(w)
        /\ \A r \in Receivers : Holding(r)' = Holding(r)
        /\ UNCHANGED <<read, refused>>
    BY <1>1, QuietSteps
  <2>2. \A m : Tracked(m)' = Tracked(m) /\ InHand(m)' = InHand(m)
    BY <2>1 DEF Tracked, InHand, Held
  <2>3. QED
    BY <2>1, <2>2 DEF OneOwner, Located, Apart, OnceTracked
<1>2. ASSUME NEW r \in Receivers, Receive(r)
      PROVE  OneOwner'
  <2> DEFINE new == Held(r)'
  <2>1. /\ \A w \in Workers : Track(w)' = Track(w)
        /\ ~Holding(r) /\ Holding(r)'
        /\ \A q \in Receivers : q # r => Holding(q)' = Holding(q) /\ read'[q] = read[q]
        /\ read'[r] = read[r] + 1
        /\ refused' = refused
    BY <1>2, ReceiveHolds
  <2>2. \A m : Tracked(m)' = Tracked(m)
    BY <2>1 DEF Tracked
  <2>3. \A m \in Msgs : InHand(m)' <=> InHand(m) \/ m = new
    BY <2>1 DEF InHand, Held
  <2>4. new \in Msgs /\ new.from = r /\ new.num = read[r] + 1
    BY <2>1, <1>0 DEF Held, Msgs, TypeOK, ReceiversOK, WorkersOK, QueuesOK
  <2>5. \A m \in Msgs : m.num <= read'[m.from] <=> m.num <= read[m.from] \/ m = new
    BY <2>1, <2>4 DEF Msgs, TypeOK, ReceiversOK, WorkersOK, QueuesOK, Held
  <2>6. ~Tracked(new) /\ new \notin refused
    <3>1. ~(new.num <= read[new.from])
      BY <2>4 DEF TypeOK, ReceiversOK
    <3>2. QED
      BY <2>4, <3>1 DEF OneOwner, Located
  <2>7. QED
    BY <2>1, <2>2, <2>3, <2>5, <2>6 DEF OneOwner, Located, Apart, OnceTracked
<1>3. ASSUME NEW r \in Receivers, Push(r)
      PROVE  OneOwner'
  <2> DEFINE m0 == Held(r)
  <2>1. /\ Holding(r) /\ ~Holding(r)'
        /\ \A q \in Receivers : q # r => Holding(q)' = Holding(q)
        /\ read' = read
    BY <1>3, PushReleases
  <2>2. m0 \in Msgs /\ m0.from = r /\ target[r] \in Workers
    BY <2>1, HeldType DEF TypeOK, ReceiversOK, WorkersOK, QueuesOK
  <2>3. \A m \in Msgs : InHand(m)' <=> InHand(m) /\ m # m0
    BY <2>1, <2>2 DEF InHand, Held
  <2>4. InHand(m0) /\ ~Tracked(m0) /\ m0 \notin refused
    BY <2>1, <2>2 DEF InHand, OneOwner, Located, Apart, OnceTracked
  <2>5. CASE /\ \A w \in Workers : Track(w)' =
                  IF w = target[r] THEN Append(Track(w), m0) ELSE Track(w)
             /\ refused' = refused
    <3>0. PICK t \in Workers : t = target[r]
      BY <2>2
    <3> DEFINE n == Len(Track(t))
    <3>1. \A w \in Workers : Track(w) \in Seq(Msgs) /\ DOMAIN Track(w) = 1 .. Len(Track(w))
      BY TrackType
    <3>2. \A w \in Workers : w # t => Track(w)' = Track(w)
      BY <2>5, <3>0
    <3>3. /\ DOMAIN Track(t)' = 1 .. n + 1
          /\ \A i \in 1 .. n : Track(t)'[i] = Track(t)[i]
          /\ Track(t)'[n + 1] = m0
          /\ n \in Nat
      <4>1. Track(t)' = Append(Track(t), m0)
        BY <2>5, <3>0
      <4>2. Track(t) \in Seq(Msgs) /\ m0 \in Msgs
        BY <2>2, <3>1
      <4>3. QED
        BY <4>1, <4>2
    <3>4. \A m : Tracked(m)' <=> Tracked(m) \/ m = m0
      BY <3>1, <3>2, <3>3 DEF Tracked
    <3>5. \A m \in Msgs : m.num <= read'[m.from] <=> Tracked(m)' \/ InHand(m)' \/ m \in refused'
      BY <2>1, <2>3, <2>4, <2>5, <3>4 DEF OneOwner, Located, Apart, OnceTracked
    <3>6. /\ \A m \in Msgs : InHand(m)' => ~Tracked(m)' /\ m \notin refused'
          /\ \A m \in refused' : ~Tracked(m)'
      BY <2>3, <2>4, <2>5, <3>4 DEF OneOwner, Located, Apart, OnceTracked
    <3>7. ASSUME NEW v \in Workers, NEW w \in Workers,
                 NEW i \in DOMAIN Track(v)', NEW j \in DOMAIN Track(w)',
                 Track(v)'[i] = Track(w)'[j]
          PROVE  v = w /\ i = j
      <4>1. ASSUME NEW u \in Workers, NEW k \in DOMAIN Track(u)'
            PROVE  \/ k \in DOMAIN Track(u) /\ Track(u)'[k] = Track(u)[k]
                   \/ u = t /\ k = n + 1 /\ Track(u)'[k] = m0
        BY <3>1, <3>2, <3>3
      <4>2. \A u \in Workers : \A k \in DOMAIN Track(u) : Track(u)[k] # m0
        BY <2>4 DEF Tracked
      <4>3. CASE i \in DOMAIN Track(v) /\ Track(v)'[i] = Track(v)[i]
        <5>1. j \in DOMAIN Track(w) /\ Track(w)'[j] = Track(w)[j]
          BY <4>1, <4>2, <4>3, <3>7
        <5>2. Track(v)[i] = Track(w)[j]
          BY <4>3, <5>1, <3>7
        <5>3. OnceTracked
          BY DEF OneOwner
        <5>4. QED
          BY <4>3, <5>1, <5>2, <5>3 DEF OnceTracked
      <4>4. CASE v = t /\ i = n + 1 /\ Track(v)'[i] = m0
        BY <4>1, <4>2, <4>4, <3>7
      <4>5. QED
        BY <4>1, <4>3, <4>4
    <3>8. QED
      BY <3>5, <3>6, <3>7 DEF OneOwner, Located, Apart, OnceTracked
  <2>6. CASE /\ \A w \in Workers : Track(w)' = Track(w)
             /\ refused' = refused \cup {m0}
    <3>1. \A m : Tracked(m)' = Tracked(m)
      BY <2>6 DEF Tracked
    <3>2. QED
      BY <2>1, <2>3, <2>4, <2>6, <3>1 DEF OneOwner, Located, Apart, OnceTracked
  <2>7. QED
    BY <1>3, <2>5, <2>6, PushReleases
<1>4. QED
  BY <1>1, <1>2, <1>3, ThreeKinds

(* The initial tracks are empty.                                           *)
LEMMA InitOrder == Init => ConnectionOrder
  BY DEF Init, ConnectionOrder, Track

(* A push appends the newest message of its connection.                    *)
LEMMA StepOrder == TypeOK /\ OneOwner /\ ConnectionOrder /\ [Next]_vars => ConnectionOrder'
<1> SUFFICES ASSUME TypeOK, OneOwner, ConnectionOrder, [Next]_vars PROVE ConnectionOrder'
  OBVIOUS
<1>1. CASE \A w \in Workers : Track(w)' = Track(w)
  BY <1>1 DEF ConnectionOrder
<1>2. ASSUME NEW r \in Receivers, Push(r)
      PROVE  ConnectionOrder'
  <2> DEFINE m0 == Held(r)
  <2>1. PICK t \in Workers : t = target[r]
    BY DEF TypeOK, ReceiversOK
  <2>2. Holding(r)
    BY <1>2 DEF Push, Holding
  <2>3. m0 \in Msgs /\ m0.from = r /\ m0.num = read[r]
    BY <2>2, HeldType
  <2>4. CASE \A w \in Workers : Track(w)' = IF w = t THEN Append(Track(w), m0) ELSE Track(w)
    <3> DEFINE n == Len(Track(t))
    <3>1. \A w \in Workers : w # t => Track(w)' = Track(w)
      BY <2>4
    <3>2. /\ DOMAIN Track(t) = 1 .. n
          /\ DOMAIN Track(t)' = 1 .. n + 1
          /\ \A i \in 1 .. n : Track(t)'[i] = Track(t)[i] /\ Track(t)[i] \in Msgs
          /\ Track(t)'[n + 1] = m0
          /\ n \in Nat
      <4>1. Track(t)' = Append(Track(t), m0)
        BY <2>4
      <4>2. Track(t) \in Seq(Msgs) /\ m0 \in Msgs
        BY <2>3, TrackType
      <4>3. QED
        BY <4>1, <4>2
    <3>3. ASSUME NEW i \in 1 .. n, Track(t)[i].from = r
          PROVE  Track(t)[i].num < read[r]
      <4>1. Track(t)[i] \in Msgs /\ Tracked(Track(t)[i])
        BY <3>2 DEF Tracked
      <4>2. Track(t)[i].num <= read[r]
        BY <4>1, <3>3 DEF OneOwner, Located
      <4>3. InHand(m0)
        BY <2>2 DEF InHand
      <4>4. Track(t)[i] # m0
        BY <4>1, <4>3, <2>3 DEF OneOwner, Apart
      <4>5. Track(t)[i].num # read[r]
        BY <4>1, <4>4, <2>3, <3>3 DEF Msgs, Held
      <4>6. Track(t)[i].num \in Nat /\ read[r] \in Nat
        BY <4>1 DEF Msgs, TypeOK, ReceiversOK
      <4>7. QED
        BY <4>2, <4>5, <4>6
    <3>4. ASSUME NEW i \in 1 .. n + 1, NEW j \in 1 .. n + 1, i < j,
                 Track(t)'[i].from = Track(t)'[j].from
          PROVE  Track(t)'[i].num < Track(t)'[j].num
      <4>1. CASE j = n + 1
        BY <4>1, <3>2, <3>3, <3>4, <2>3
      <4>2. CASE j # n + 1
        <5>1. i \in 1 .. n /\ j \in 1 .. n
          BY <4>2, <3>2, <3>4
        <5>2. Track(t)[i].num < Track(t)[j].num
          BY <5>1, <3>2, <3>4 DEF ConnectionOrder
        <5>3. QED
          BY <5>1, <5>2, <3>2
      <4>3. QED
        BY <4>1, <4>2
    <3>5. QED
      BY <3>1, <3>2, <3>4 DEF ConnectionOrder
  <2>5. CASE \A w \in Workers : Track(w)' = Track(w)
    BY <2>5 DEF ConnectionOrder
  <2>6. QED
    BY <1>2, <2>1, <2>4, <2>5, PushReleases
<1>3. QED
  BY <1>1, <1>2, ThreeKinds, QuietSteps, ReceiveHolds
-----------------------------------------------------------------------------
(* The variables keep their types, and worker_push_msg never makes a queue *)
(* longer than its capacity, however many receivers push at once.          *)
THEOREM TypeCorrect == Spec => []TypeOK
  BY InitType, StepType, PTL DEF Spec

(* Dispatching (server.c:72-81) and the worker loop (worker.c:48-77) never *)
(* duplicate a message and never forget one that no queue refused, even    *)
(* while the unlocked curr_worker is being raced for.                      *)
THEOREM MessagesHaveOneOwner == Spec => []OneOwner
  BY InitType, StepType, InitOwner, StepOwner, PTL DEF Spec

(* The messages of one connection that share a worker keep their order     *)
(* (receiver.c:43-97 through the FIFO to worker.c:48-77).                  *)
THEOREM OrderPerConnection == Spec => []ConnectionOrder
  BY InitType, StepType, InitOwner, StepOwner, InitOrder, StepOrder, PTL DEF Spec
-----------------------------------------------------------------------------
(* The remainder is determined by its range.                               *)
LEMMA RemainderUnique ==
  ASSUME NEW N \in Nat \ {0}, NEW a \in Int, NEW b \in Int,
         NEW r \in 0 .. N - 1, NEW s \in 0 .. N - 1, N * a + r = N * b + s
  PROVE  r = s
<1>1. N * (a - b) = s - r
  BY Z3
<1>2. a - b >= 1 => N * (a - b) >= N
  BY Z3
<1>3. a - b <= -1 => N * (a - b) <= -N
  BY Z3
<1>4. QED
  BY <1>1, <1>2, <1>3

(* The turn after k messages follows from the turn before the k-th.        *)
LEMMA NextTurn ==
  ASSUME NEW k \in Nat \ {0}
  PROVE  /\ (k - 1) % NumWorkers \in Workers
         /\ k % NumWorkers = IF ((k - 1) % NumWorkers) + 1 = NumWorkers
                             THEN 0 ELSE ((k - 1) % NumWorkers) + 1
<1> DEFINE N == NumWorkers
           p == (k - 1) % N
           next == IF p + 1 = N THEN 0 ELSE p + 1
<1>0. N \in Nat \ {0}
  BY ServerAssumption
<1> HIDE DEF N
<1>1. p \in 0 .. N - 1 /\ k % N \in 0 .. N - 1 /\ next \in 0 .. N - 1
  BY <1>0
<1>2. PICK a \in Int : k = N * a + (k % N)
  <2>1. N \in Int /\ N > 0 /\ k \in Int
    BY <1>0
  <2>2. k = N * (k \div N) + (k % N)
    BY <2>1, Z3
  <2>3. k \div N \in Int
    BY <2>1
  <2>4. QED
    BY <2>2, <2>3
<1>3. PICK b \in Int : k - 1 = N * b + p
  <2>1. N \in Int /\ N > 0 /\ k - 1 \in Int
    BY <1>0
  <2>2. k - 1 = N * ((k - 1) \div N) + p /\ (k - 1) \div N \in Int
    BY <2>1, Z3
  <2>3. QED
    BY <2>2
<1>4. \E c \in Int : k = N * c + next
  <2>1. CASE p + 1 = N
    <3>1. k = N * (b + 1) + next
      BY <1>0, <1>1, <1>3, <2>1, Z3
    <3>2. QED
      BY <3>1
  <2>2. CASE p + 1 # N
    <3>1. k = N * b + next
      BY <1>0, <1>1, <1>3, <2>2, Z3
    <3>2. QED
      BY <3>1
  <2>3. QED
    BY <2>1, <2>2
<1>5. k % N = next
  BY <1>0, <1>1, <1>2, <1>4, RemainderUnique
<1>6. QED
  BY <1>1, <1>5 DEF N, Workers

(* Where curr_worker is while one connection c has the server to itself.   *)
Turn(c) ==
  /\ rpc[c] \in {"absent", "recv", "exited"} => currWorker = read[c] % NumWorkers
  /\ rpc[c] \notin {"absent", "recv", "exited"} => read[c] > 0
  /\ rpc[c] \in {"route", "push", "load", "store"} =>
       currWorker = (read[c] - 1) % NumWorkers
  /\ rpc[c] = "push" => target[c] = currWorker
  /\ rpc[c] = "store" => reg[c] = currWorker
  /\ rpc[c] = "test" => currWorker = ((read[c] - 1) % NumWorkers) + 1
  /\ rpc[c] = "reset" => read[c] % NumWorkers = 0

(* One connection: curr_worker is exactly its message count, modulo.       *)
LEMMA StepTurn ==
  ASSUME NEW c, Receivers = {c}, TypeOK, WorkerExists, Turn(c), [Next]_vars
  PROVE  Turn(c)' /\ WorkerExists'
<1>0. /\ read[c] \in Nat
      /\ currWorker \in Nat
      /\ read[c] # 0 => /\ (read[c] - 1) % NumWorkers \in Workers
                        /\ read[c] % NumWorkers =
                             IF ((read[c] - 1) % NumWorkers) + 1 = NumWorkers
                             THEN 0 ELSE ((read[c] - 1) % NumWorkers) + 1
  BY NextTurn DEF TypeOK, ReceiversOK
<1>1. CASE UNCHANGED vars
  BY <1>1 DEF vars, Turn, WorkerExists
<1>2. CASE Accept(c) \/ HangUp(c)
  BY <1>2 DEF Accept, HangUp, GoTo, Turn, WorkerExists, TypeOK, ReceiversOK
<1>3. CASE Receive(c)
  BY <1>3, <1>0 DEF Receive, GoTo, Turn, WorkerExists, TypeOK, ReceiversOK
<1>4. CASE Route(c)
  <2>1. rpc[c] = "route" /\ currWorker = (read[c] - 1) % NumWorkers /\ read[c] > 0
    BY <1>4 DEF Route, Turn
  <2>2. currWorker < NumWorkers
    BY <2>1, <1>0, ServerAssumption DEF Workers
  <2>3. /\ target' = [target EXCEPT ![c] = currWorker]
        /\ GoTo(c, "push")
        /\ UNCHANGED <<process, currWorker, read>>
    BY <1>4, <2>2 DEF Route
  <2>4. rpc'[c] = "push" /\ target'[c] = currWorker
    BY <2>3 DEF GoTo, TypeOK, ReceiversOK
  <2>5. QED
    BY <2>1, <2>3, <2>4 DEF Turn, WorkerExists
<1>5. CASE Push(c)
  BY <1>5, <1>0 DEF Push, GoTo, Turn, WorkerExists, TypeOK, ReceiversOK
<1>6. CASE BumpLoad(c)
  BY <1>6, <1>0 DEF BumpLoad, GoTo, Turn, WorkerExists, TypeOK, ReceiversOK
<1>7. CASE BumpStore(c)
  BY <1>7, <1>0 DEF BumpStore, GoTo, Turn, WorkerExists, TypeOK, ReceiversOK
<1>8. CASE WrapTest(c)
  BY <1>8, <1>0 DEF WrapTest, GoTo, Turn, WorkerExists, TypeOK, ReceiversOK
<1>9. CASE WrapReset(c)
  BY <1>9, <1>0 DEF WrapReset, GoTo, Turn, WorkerExists, TypeOK, ReceiversOK
<1>10. ASSUME NEW w \in Workers, Worker(w)
       PROVE  Turn(c)' /\ WorkerExists'
  BY <1>10 DEF Worker, Pop, Sleep, Wake, Parse, Handle, receiverVars, Turn, WorkerExists
<1>11. CASE FreeDict
  BY <1>11 DEF FreeDict, receiverVars, Turn, WorkerExists
<1>12. QED
  BY <1>1, <1>2, <1>3, <1>4, <1>5, <1>6, <1>7, <1>8, <1>9, <1>10, <1>11
  DEF Next, Receiver, Dispatch

(* A push by the only receiver puts message k into the track of worker     *)
(* k - 1 modulo NumWorkers.                                                *)
LEMMA StepRound ==
  ASSUME NEW c, Receivers = {c}, TypeOK, Turn(c), RoundRobin, [Next]_vars
  PROVE  RoundRobin'
<1>1. CASE \A w \in Workers : Track(w)' = Track(w)
  BY <1>1 DEF RoundRobin
<1>2. CASE Push(c)
  <2>1. PICK t \in Workers : t = target[c]
    BY DEF TypeOK, ReceiversOK
  <2>2. /\ Held(c) \in Msgs
        /\ (Held(c).num - 1) % NumWorkers = t
    BY <1>2, <2>1, HeldType DEF Push, Holding, Turn
  <2>3. CASE \A w \in Workers :
               Track(w)' = IF w = t THEN Append(Track(w), Held(c)) ELSE Track(w)
    <3>1. \A w \in Workers : w # t => Track(w)' = Track(w)
      BY <2>3
    <3>2. /\ DOMAIN Track(t) = 1 .. Len(Track(t))
          /\ DOMAIN Track(t)' = 1 .. Len(Track(t)) + 1
          /\ \A i \in 1 .. Len(Track(t)) : Track(t)'[i] = Track(t)[i]
          /\ Track(t)'[Len(Track(t)) + 1] = Held(c)
      <4>1. Track(t)' = Append(Track(t), Held(c))
        BY <2>3
      <4>2. Track(t) \in Seq(Msgs)
        BY TrackType
      <4>3. QED
        BY <4>1, <4>2, <2>2
    <3>3. \A i \in DOMAIN Track(t)' : (Track(t)'[i].num - 1) % NumWorkers = t
      BY <3>2, <2>2 DEF RoundRobin
    <3>4. QED
      BY <3>1, <3>3 DEF RoundRobin
  <2>4. QED
    BY <1>1, <1>2, <2>1, <2>3, PushReleases
<1>3. QED
  BY <1>1, <1>2, ThreeKinds, QuietSteps, ReceiveHolds

(* With a single connection server_dispatch never runs off the workers     *)
(* array (server.c:75-78): the race needs two.                             *)
THEOREM OneConnectionFindsWorkers ==
  ASSUME NEW c, Receivers = {c}
  PROVE  Spec => []WorkerExists
<1>1. Init => Turn(c) /\ WorkerExists
  BY ServerAssumption DEF Init, Turn, WorkerExists
<1>2. TypeOK /\ WorkerExists /\ Turn(c) /\ [Next]_vars => Turn(c)' /\ WorkerExists'
  BY StepTurn
<1>3. QED
  BY <1>1, <1>2, InitType, StepType, PTL DEF Spec

(* With a single connection the workers take turns, whether or not a queue *)
(* refuses a message (server.c:75-78).                                     *)
THEOREM OneConnectionTakesTurns ==
  ASSUME NEW c, Receivers = {c}
  PROVE  Spec => []RoundRobin
<1>1. Init => Turn(c) /\ WorkerExists /\ RoundRobin
  BY ServerAssumption DEF Init, Turn, WorkerExists, RoundRobin, Track
<1>2. TypeOK /\ WorkerExists /\ Turn(c) /\ [Next]_vars => Turn(c)' /\ WorkerExists'
  BY StepTurn
<1>3. TypeOK /\ Turn(c) /\ RoundRobin /\ [Next]_vars => RoundRobin'
  BY StepRound
<1>4. QED
  BY <1>1, <1>2, <1>3, InitType, StepType, PTL DEF Spec
=============================================================================
