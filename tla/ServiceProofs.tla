--------------------------- MODULE ServiceProofs ----------------------------
(***************************************************************************)
(* The process with any number of workers, clients and descriptors, each   *)
(* worker with any number of stops, restarts and messages.                 *)
(***************************************************************************)
EXTENDS Service, SequenceTheorems, TLAPS

(* What each place of an owner means for the worker and its thread.        *)
Stage(w) ==
  /\ owner[w] = "absent" =>
       life[w] = "none" /\ thread[w] = "none" /\ status[w] = 0 /\ ~queueUp[w]
  /\ owner[w] \in {"new_create", "create"} =>
       life[w] = "live" /\ status[w] = 1 /\ ~Running(w) /\ queueUp[w]
  /\ owner[w] = "new_create" => thread[w] = "none"
  /\ owner[w] = "adopt" =>
       /\ queueUp[w]
       /\ \/ life[w] = "live" /\ (Running(w) <=> status[w] = 1)
          \/ life[w] = "freed" /\ thread[w] = "none"
  /\ owner[w] = "dangling" => life[w] = "freed" /\ thread[w] = "none" /\ queueUp[w]
  /\ owner[w] = "idle" => life[w] = "live" /\ queueUp[w] /\ (Running(w) <=> status[w] = 1)
  /\ owner[w] = "join" => life[w] = "live" /\ queueUp[w] /\ status[w] = 0
  /\ owner[w] = "free_stop" =>
       /\ life[w] = "live" /\ ~queueUp[w]
       /\ Running(w) <=> status[w] = 1
       /\ status[w] = 1 => w \in hasty
  /\ owner[w] = "free_join" =>
       life[w] = "live" /\ status[w] = 0 /\ w \in hasty /\ ~queueUp[w]
  /\ owner[w] = "free" => life[w] = "live" /\ ~Running(w) /\ ~queueUp[w]
  /\ owner[w] = "gone" => life[w] = "freed" /\ ~Running(w) /\ ~queueUp[w]

(* A queue is empty once it is freed, and its debris is empty before that. *)
Side(w) ==
  /\ IF queueUp[w] THEN debris[w] = << >> ELSE queue[w] = << >>
  /\ owner[w] = "absent" => debris[w] = << >>

(* The messages taken are those of 1 .. p that are not refused, ascending; *)
(* none was refused before there were enough of them to fill the queue.    *)
Numbered(t, p, r) ==
  /\ \A i, j \in DOMAIN t : i < j => t[i] < t[j]
  /\ Entries(t) = (1 .. p) \ r
  /\ r \subseteq 1 .. p
  /\ \A m \in r : Len(t) >= QueueMax /\ t[QueueMax] < m

Staged == \A w \in Workers : Stage(w)

Sides == \A w \in Workers : Side(w)

(* A thread has a message in hand while it handles it and at no other time.*)
HandHeld == \A w \in Workers : hand[w] = 0 <=> thread[w] # "handle"

TakenInOrder == \A w \in Workers : Numbered(Taken(w), pushed[w], refused[w])

WInv ==
  WorkerTypeOK /\ Staged /\ Sides /\ HandHeld /\ TakenInOrder /\ UsedWhileAllocated

(* What a worker, its owner or a receiver does while the process is up:    *)
(* receivers exist once server_new has returned.                           *)
Step(w) == misuse = {} /\ (Owner(w) \/ Thread(w) \/ (WorkerPush(w) /\ ServerMade))

(* The owner's, the receivers' and the thread's steps.                     *)
LEMMA WorkerSteps ==
  ASSUME NEW w \in Workers, Step(w)
  PROVE  \/ WorkerNew(w) \/ WorkerStart(w) \/ ThreadCreated(w) \/ ThreadNotCreated(w)
         \/ Adopt(w) \/ WorkerPush(w) \/ WorkerStop(w) \/ Joined(w) \/ WorkerFree(w)
         \/ FreeStops(w) \/ FreeEnds(w) \/ Test(w) \/ Pop(w) \/ Wake(w) \/ Handle(w)
  BY DEF Step, Owner, Call, Thread

(* Before server_new has made a worker, everything holds.                  *)
LEMMA WorkerInitInv == WorkerInit => WInv
<1> SUFFICES ASSUME WorkerInit PROVE WInv
  OBVIOUS
<1>1. WorkerTypeOK
  BY WorkerAssumption DEF WorkerInit, WorkerTypeOK
<1>2. Staged /\ Sides /\ HandHeld
  BY DEF WorkerInit, Staged, Stage, Sides, Side, HandHeld, Running
<1>3. TakenInOrder
  <2> SUFFICES ASSUME NEW w \in Workers PROVE Numbered(Taken(w), pushed[w], refused[w])
    BY DEF TakenInOrder
  <2>1. Taken(w) = << >>
    BY DEF WorkerInit, Taken, Done, Memory
  <2>2. pushed[w] = 0 /\ refused[w] = {}
    BY DEF WorkerInit
  <2>3. QED
    BY <2>1, <2>2 DEF Numbered, Entries
<1>4. UsedWhileAllocated
  BY DEF WorkerInit, UsedWhileAllocated
<1>5. QED
  BY <1>1, <1>2, <1>3, <1>4 DEF WInv

(* Types are kept.                                                         *)
LEMMA TypeStep ==
  ASSUME WorkerTypeOK, HandHeld, NEW w \in Workers, Step(w)
  PROVE  WorkerTypeOK'
<1> USE DEF WorkerTypeOK, ownedVars, threadVars, queueVars, OwnerGoes, SetStatus,
  ThreadGoes, Misuse
<1>1. CASE WorkerNew(w)
  BY <1>1 DEF WorkerNew
<1>2. CASE WorkerStart(w)
  BY <1>2 DEF WorkerStart
<1>3. CASE ThreadCreated(w)
  BY <1>3 DEF ThreadCreated
<1>4. CASE ThreadNotCreated(w)
  BY <1>4 DEF ThreadNotCreated
<1>5. CASE Adopt(w)
  BY <1>5 DEF Adopt
<1>6. CASE WorkerPush(w)
  <2>1. pushed[w] + 1 \in 1 .. PushBound
    BY <1>6, WorkerAssumption DEF WorkerPush
  <2>2. Append(Memory(w), pushed[w] + 1) \in Seq(1 .. PushBound)
    BY <2>1 DEF Memory
  <2>3. /\ misuse' \subseteq [by : {"owner", "thread", "receiver"}, of : {"worker", "queue"},
                              worker : Workers]
        /\ UNCHANGED <<life, status, owner, queueUp, hasty, thread, hand, handled>>
    BY <1>6 DEF WorkerPush
  <2>4. /\ pushed' = pushed \/ pushed' = [pushed EXCEPT ![w] = @ + 1]
        /\ refused' = refused \/ refused' = [refused EXCEPT ![w] = @ \cup {pushed[w] + 1}]
        /\ \/ UNCHANGED <<queue, debris>>
           \/ SetMemory(w, Append(Memory(w), pushed[w] + 1))
    BY <1>6 DEF WorkerPush
  <2>5. pushed' \in [Workers -> 0 .. PushBound]
    <3> DEFINE S == 0 .. PushBound
    <3>1. pushed \in [Workers -> S] /\ pushed[w] + 1 \in S
      BY <2>1
    <3> HIDE DEF S
    <3>2. pushed' \in [Workers -> S]
      BY ONLY <3>1, <2>4
    <3>3. QED
      BY <3>2 DEF S
  <2>6. refused' \in [Workers -> SUBSET (1 .. PushBound)]
    <3> DEFINE S == SUBSET (1 .. PushBound)
    <3>1. refused \in [Workers -> S] /\ refused[w] \cup {pushed[w] + 1} \in S
      BY <2>1
    <3> HIDE DEF S
    <3>2. refused' \in [Workers -> S]
      BY ONLY <3>1, <2>4
    <3>3. QED
      BY <3>2 DEF S
  <2>7. /\ queue' \in [Workers -> Seq(1 .. PushBound)]
        /\ debris' \in [Workers -> Seq(1 .. PushBound)]
    <3> DEFINE S == Seq(1 .. PushBound)
               taker == Append(Memory(w), pushed[w] + 1)
    <3>1. queue \in [Workers -> S] /\ debris \in [Workers -> S] /\ taker \in S
      BY <2>2
    <3> HIDE DEF S, taker
    <3>2. UNCHANGED <<queue, debris>> \/ SetMemory(w, taker)
      BY <2>4 DEF taker
    <3>3. queue' \in [Workers -> S] /\ debris' \in [Workers -> S]
      BY ONLY <3>1, <3>2 DEF SetMemory
    <3>4. QED
      BY <3>3 DEF S
  <2>8. QED
    BY <2>3, <2>5, <2>6, <2>7
<1>7. CASE WorkerStop(w)
  BY <1>7 DEF WorkerStop
<1>8. CASE Joined(w)
  BY <1>8 DEF Joined
<1>9. CASE WorkerFree(w)
  <2>1. << >> \in Seq(1 .. PushBound) /\ queue[w] \in Seq(1 .. PushBound)
    OBVIOUS
  <2>2. QED
    BY <2>1, <1>9 DEF WorkerFree
<1>10. CASE FreeStops(w)
  BY <1>10 DEF FreeStops
<1>11. CASE FreeEnds(w)
  BY <1>11 DEF FreeEnds
<1>12. CASE Test(w)
  BY <1>12 DEF Test
<1>13. CASE Pop(w)
  <2>0. \/ UNCHANGED misuse
        \/ misuse' = {[by |-> "thread", of |-> "queue", worker |-> w]}
    BY <1>13 DEF Pop
  <2>1. UNCHANGED <<pushed, refused, handled, life, status, owner, queueUp, hasty>>
    BY <1>13 DEF Pop
  <2>2. thread' \in [Workers -> {"none", "test", "pop", "sleep", "handle", "ended"}]
    <3>1. \E to \in {"pop", "sleep", "handle"} : thread' = [thread EXCEPT ![w] = to]
      BY <1>13 DEF Pop
    <3>2. thread \in [Workers -> {"none", "test", "pop", "sleep", "handle", "ended"}]
      OBVIOUS
    <3>3. QED
      BY ONLY <3>1, <3>2
  <2>3. misuse' \subseteq [by : {"owner", "thread", "receiver"}, of : {"worker", "queue"},
                           worker : Workers]
    BY <2>0
  <2>4. CASE Memory(w) # << >> /\ hand' = [hand EXCEPT ![w] = Head(Memory(w))]
                               /\ SetMemory(w, Tail(Memory(w)))
    <3>1. Memory(w) \in Seq(1 .. PushBound)
      BY DEF Memory
    <3>2. Head(Memory(w)) \in 1 .. PushBound /\ Tail(Memory(w)) \in Seq(1 .. PushBound)
      BY ONLY <3>1, <2>4, HeadTailProperties, Zenon
    <3>3. hand' \in [Workers -> 0 .. PushBound]
      BY <2>4, <3>2, WorkerAssumption
    <3>4. /\ queue' \in [Workers -> Seq(1 .. PushBound)]
          /\ debris' \in [Workers -> Seq(1 .. PushBound)]
      BY <2>4, <3>2 DEF SetMemory
    <3>5. QED
      BY <2>1, <2>2, <2>3, <3>3, <3>4
  <2>5. CASE UNCHANGED <<queue, debris, hand>>
    BY <2>1, <2>2, <2>3, <2>5
  <2>6. QED
    BY <1>13, <2>4, <2>5 DEF Pop
<1>14. CASE Wake(w)
  BY <1>14 DEF Wake
<1>15. CASE Handle(w)
  <2>1. hand[w] \in 1 .. PushBound
    BY <1>15 DEF Handle, HandHeld
  <2>2. Append(handled[w], hand[w]) \in Seq(1 .. PushBound)
    BY <2>1
  <2>3. QED
    BY <1>15, <2>2, WorkerAssumption DEF Handle
<1>16. QED
  BY WorkerSteps, <1>1, <1>2, <1>3, <1>4, <1>5, <1>6, <1>7, <1>8, <1>9, <1>10,
     <1>11, <1>12, <1>13, <1>14, <1>15

(* Every step leaves each worker in one of the stages.                     *)
LEMMA StageStep ==
  ASSUME WInv, NEW w \in Workers, Step(w)
  PROVE  Staged'
<1> SUFFICES ASSUME NEW v \in Workers PROVE Stage(v)'
  BY DEF Staged
<1> USE DEF Stage, Running, ownedVars, threadVars, queueVars, OwnerGoes, SetStatus, ThreadGoes
<1>a. WorkerTypeOK /\ Stage(v) /\ Stage(w)
  BY DEF WInv, Staged
<1>b. /\ life \in [Workers -> {"none", "live", "freed"}] /\ status \in [Workers -> {0, 1}]
      /\ DOMAIN owner = Workers /\ DOMAIN thread = Workers /\ DOMAIN queueUp = Workers
      /\ hasty \subseteq Workers
  BY <1>a DEF WorkerTypeOK
<1>1. CASE WorkerNew(w)
  BY <1>1, <1>a, <1>b DEF WorkerNew
<1>2. CASE WorkerStart(w)
  BY <1>2, <1>a, <1>b DEF WorkerStart
<1>3. CASE ThreadCreated(w)
  BY <1>3, <1>a, <1>b DEF ThreadCreated
<1>4. CASE ThreadNotCreated(w)
  BY <1>4, <1>a, <1>b DEF ThreadNotCreated
<1>5. CASE Adopt(w)
  BY <1>5, <1>a, <1>b DEF Adopt
<1>6. CASE WorkerPush(w)
  BY <1>6, <1>a, <1>b DEF WorkerPush
<1>7. CASE WorkerStop(w)
  BY <1>7, <1>a, <1>b DEF WorkerStop
<1>8. CASE Joined(w)
  BY <1>8, <1>a, <1>b DEF Joined
<1>9. CASE WorkerFree(w)
  BY <1>9, <1>a, <1>b DEF WorkerFree
<1>10. CASE FreeStops(w)
  BY <1>10, <1>a, <1>b DEF FreeStops
<1>11. CASE FreeEnds(w)
  BY <1>11, <1>a, <1>b DEF FreeEnds
<1>12. CASE Test(w)
  BY <1>12, <1>a, <1>b DEF Test
<1>13. CASE Pop(w)
  BY <1>13, <1>a, <1>b DEF Pop
<1>14. CASE Wake(w)
  BY <1>14, <1>a, <1>b DEF Wake
<1>15. CASE Handle(w)
  BY <1>15, <1>a, <1>b DEF Handle
<1>16. QED
  BY WorkerSteps, <1>1, <1>2, <1>3, <1>4, <1>5, <1>6, <1>7, <1>8, <1>9, <1>10,
     <1>11, <1>12, <1>13, <1>14, <1>15

(* A queue's memory passes from queue to debris when it is freed, and only *)
(* then.                                                                   *)
LEMMA SideStep ==
  ASSUME WInv, NEW w \in Workers, Step(w)
  PROVE  Sides'
<1> SUFFICES ASSUME NEW v \in Workers PROVE Side(v)'
  BY DEF Sides
<1> USE DEF Side, ownedVars, threadVars, queueVars, OwnerGoes
<1>a. Side(v) /\ Side(w) /\ Stage(w)
  BY DEF WInv, Staged, Sides
<1>b. /\ DOMAIN owner = Workers /\ DOMAIN queueUp = Workers
      /\ DOMAIN queue = Workers /\ DOMAIN debris = Workers
      /\ queueUp \in [Workers -> BOOLEAN]
  BY DEF WInv, WorkerTypeOK
<1>1. CASE UNCHANGED <<queueUp, queue, debris>> /\ (owner'[v] = "absent" => owner[v] = "absent")
  BY <1>1, <1>a
<1>2. CASE WorkerNew(w)
  BY <1>2, <1>a, <1>b DEF WorkerNew, Stage
<1>3. CASE WorkerFree(w)
  BY <1>3, <1>a, <1>b DEF WorkerFree, Stage
<1>4. CASE WorkerPush(w) /\ ServerMade
  <2>1. owner[w] # "absent" /\ UNCHANGED <<owner, queueUp>>
    BY <1>4 DEF WorkerPush, ServerMade
  <2>2. QED
    BY <1>4, <2>1, <1>a, <1>b DEF WorkerPush, SetMemory
<1>5. CASE Pop(w)
  <2>1. UNCHANGED <<owner, queueUp>> /\ (owner[w] = "absent" => Memory(w) = << >>)
    BY <1>5, <1>a DEF Pop, Memory, Stage
  <2>2. QED
    BY <1>5, <2>1, <1>a, <1>b DEF Pop, SetMemory
<1>6. CASE WorkerStart(w) \/ ThreadCreated(w) \/ ThreadNotCreated(w) \/ Adopt(w)
           \/ WorkerStop(w) \/ Joined(w) \/ FreeStops(w) \/ FreeEnds(w)
  BY <1>6, <1>1, <1>b DEF WorkerStart, ThreadCreated, ThreadNotCreated, Adopt, WorkerStop,
    Joined, FreeStops, FreeEnds
<1>7. CASE Test(w) \/ Wake(w) \/ Handle(w)
  BY <1>7, <1>1 DEF Test, Wake, Handle
<1>8. QED
  BY <1>2, <1>3, <1>4, <1>5, <1>6, <1>7 DEF Step, Owner, Call, Thread

(* Whoever uses freed memory is one that may, with the worker as it is     *)
(* after the step.                                                         *)
LEMMA MisuseStep ==
  ASSUME WInv, NEW w \in Workers, Step(w)
  PROVE  UsedWhileAllocated'
<1> USE DEF ownedVars, threadVars, queueVars
<1>a. Stage(w) /\ misuse = {}
  BY DEF WInv, Staged, Step
<1>b. /\ DOMAIN owner = Workers /\ queueUp \in [Workers -> BOOLEAN]
      /\ owner[w] \in {"absent", "new_create", "adopt", "dangling", "idle", "create",
                       "join", "free_stop", "free_join", "free", "gone"}
  BY DEF WInv, WorkerTypeOK
<1>1. CASE UNCHANGED misuse
  BY <1>1, <1>a DEF UsedWhileAllocated
<1>2. CASE Adopt(w)
  <2>1. UNCHANGED misuse \/ Misuse("owner", "worker", w)
    BY <1>2 DEF Adopt
  <2>2. ASSUME Misuse("owner", "worker", w) PROVE UsedWhileAllocated'
    <3>1. life[w] = "freed" /\ misuse' = {[by |-> "owner", of |-> "worker", worker |-> w]}
      BY <2>2 DEF Misuse, Freed
    <3>2. owner'[w] = "dangling"
      BY <1>2, <3>1, <1>b DEF Adopt, OwnerGoes
    <3>3. QED
      BY <3>1, <3>2 DEF UsedWhileAllocated
  <2>3. QED
    BY <2>1, <2>2, <1>1
<1>3. CASE WorkerPush(w) /\ ServerMade
  <2>1. UNCHANGED misuse \/ \E of \in {"worker", "queue"} : Misuse("receiver", of, w)
    BY <1>3 DEF WorkerPush
  <2>2. ASSUME NEW of \in {"worker", "queue"}, Misuse("receiver", of, w)
        PROVE  UsedWhileAllocated'
    <3>1. misuse' = {[by |-> "receiver", of |-> of, worker |-> w]} /\ owner' = owner
      BY <2>2, <1>3 DEF Misuse, WorkerPush
    <3>2. life[w] = "freed" \/ ~queueUp[w]
      BY <2>2 DEF Misuse, Freed
    <3>3. owner[w] \in {"dangling", "free_stop", "free_join", "free", "gone"}
      BY <3>2, <1>a, <1>b, <1>3 DEF Stage, ServerMade
    <3>4. QED
      BY <3>1, <3>3 DEF UsedWhileAllocated
  <2>3. QED
    BY <2>1, <2>2, <1>1
<1>4. CASE Test(w)
  <2>1. life[w] # "freed"
    BY <1>4, <1>a, <1>b DEF Test, ThreadGoes, Stage, Running
  <2>2. UNCHANGED misuse
    BY <1>4, <2>1 DEF Test, Misuse, Freed
  <2>3. QED
    BY <2>2, <1>1
<1>5. CASE Pop(w)
  <2>1. UNCHANGED misuse \/ Misuse("thread", "queue", w)
    BY <1>5 DEF Pop
  <2>2. ASSUME Misuse("thread", "queue", w) PROVE UsedWhileAllocated'
    <3>1. ~queueUp[w] /\ misuse' = {[by |-> "thread", of |-> "queue", worker |-> w]}
      BY <2>2 DEF Misuse, Freed
    <3>2. w \in hasty /\ hasty' = hasty
      BY <1>5, <3>1, <1>a, <1>b DEF Pop, ThreadGoes, Stage, Running
    <3>3. QED
      BY <3>1, <3>2 DEF UsedWhileAllocated
  <2>3. QED
    BY <2>1, <2>2, <1>1
<1>6. CASE WorkerNew(w) \/ WorkerStart(w) \/ ThreadCreated(w) \/ ThreadNotCreated(w)
           \/ WorkerStop(w) \/ Joined(w) \/ WorkerFree(w) \/ FreeStops(w) \/ FreeEnds(w)
           \/ Wake(w) \/ Handle(w)
  BY <1>6, <1>1 DEF WorkerNew, WorkerStart, ThreadCreated, ThreadNotCreated, WorkerStop,
    Joined, WorkerFree, FreeStops, FreeEnds, Wake, Handle
<1>7. QED
  BY <1>2, <1>3, <1>4, <1>5, <1>6 DEF Step, Owner, Call, Thread

(* What a sequence ends with may be joined to it first or last.            *)
LEMMA AppendJoins ==
  ASSUME NEW a \in Seq(Nat), NEW b \in Seq(Nat), NEW x \in Nat
  PROVE  a \o Append(b, x) = Append(a \o b, x)
<1> DEFINE s == a \o Append(b, x)
           t == Append(a \o b, x)
<1>1. s \in Seq(Nat) /\ t \in Seq(Nat)
  OBVIOUS
<1>2. Len(s) = Len(t)
  OBVIOUS
<1>3. \A i \in 1 .. Len(s) : s[i] = t[i]
  OBVIOUS
<1>4. QED
  <2> HIDE DEF s, t
  <2>1. s = t
    BY <1>1, <1>2, <1>3, SeqEqual
  <2>2. QED
    BY <2>1 DEF s, t

(* The head of a queue may be held apart from it.                          *)
LEMMA HeadMoves ==
  ASSUME NEW a \in Seq(Nat), NEW b \in Seq(Nat), b # << >>
  PROVE  a \o <<Head(b)>> \o Tail(b) = a \o << >> \o b
<1> DEFINE s == a \o <<Head(b)>> \o Tail(b)
           t == a \o << >> \o b
<1>0. Head(b) \in Nat /\ Tail(b) \in Seq(Nat) /\ Len(b) \in Nat /\ Len(b) # 0 /\ Len(Tail(b)) = Len(b) - 1
  BY HeadTailProperties, EmptySeq
<1>1. s \in Seq(Nat) /\ t \in Seq(Nat)
  BY <1>0
<1>2. Len(s) = Len(a) + Len(b) /\ Len(t) = Len(a) + Len(b)
  BY <1>0
<1>3. \A i \in 1 .. Len(s) : s[i] = t[i]
  BY <1>0
<1>4. QED
  <2> HIDE DEF s, t
  <2>1. s = t
    BY <1>1, <1>2, <1>3, SeqEqual
  <2>2. QED
    BY <2>1 DEF s, t

(* What was held apart may be the last that is done.                       *)
LEMMA LastMoves ==
  ASSUME NEW a \in Seq(Nat), NEW b \in Seq(Nat), NEW x \in Nat
  PROVE  Append(a, x) \o << >> \o b = a \o <<x>> \o b
<1> DEFINE s == Append(a, x) \o << >> \o b
           t == a \o <<x>> \o b
<1>1. s \in Seq(Nat) /\ t \in Seq(Nat)
  OBVIOUS
<1>2. Len(s) = Len(t)
  OBVIOUS
<1>3. \A i \in 1 .. Len(s) : s[i] = t[i]
  OBVIOUS
<1>4. QED
  <2> HIDE DEF s, t
  <2>1. s = t
    BY <1>1, <1>2, <1>3, SeqEqual
  <2>2. QED
    BY <2>1 DEF s, t

(* A queue with room takes the next message.                               *)
LEMMA NumberedTakes ==
  ASSUME NEW t \in Seq(Nat), NEW p \in Nat, NEW r, Numbered(t, p, r)
  PROVE  Numbered(Append(t, p + 1), p + 1, r)
<1> DEFINE s == Append(t, p + 1)
<1>1. /\ Len(t) \in Nat /\ DOMAIN t = 1 .. Len(t) /\ DOMAIN s = 1 .. Len(t) + 1
      /\ \A i \in 1 .. Len(t) : s[i] = t[i] /\ t[i] \in Nat
      /\ s[Len(t) + 1] = p + 1 /\ Len(s) = Len(t) + 1
  OBVIOUS
<1>2. /\ \A i, j \in DOMAIN t : i < j => t[i] < t[j]
      /\ Entries(t) = (1 .. p) \ r /\ r \subseteq 1 .. p
      /\ \A m \in r : Len(t) >= QueueMax /\ t[QueueMax] < m
  BY DEF Numbered
<1>3. \A i \in DOMAIN t : t[i] \in (1 .. p) \ r
  BY <1>2 DEF Entries
<1> HIDE DEF s
<1>4. \A i, j \in DOMAIN s : i < j => s[i] < s[j]
  <2> SUFFICES ASSUME NEW i \in DOMAIN s, NEW j \in DOMAIN s, i < j PROVE s[i] < s[j]
    OBVIOUS
  <2>1. i \in 1 .. Len(t)
    BY <1>1
  <2>2. CASE j = Len(t) + 1
    BY <2>1, <2>2, <1>1, <1>3
  <2>3. CASE j # Len(t) + 1
    BY <2>1, <2>3, <1>1, <1>2
  <2>4. QED
    BY <2>2, <2>3
<1>5. Entries(s) = (1 .. p + 1) \ r
  <2>1. \A x \in Entries(s) : x \in (1 .. p + 1) \ r
    BY <1>1, <1>2, <1>3 DEF Entries
  <2>2. ASSUME NEW x \in (1 .. p + 1) \ r PROVE x \in Entries(s)
    <3>1. CASE x = p + 1
      BY <3>1, <1>1 DEF Entries
    <3>2. CASE x # p + 1
      <4>1. x \in Entries(t)
        BY <3>2, <1>2
      <4>2. QED
        BY <4>1, <1>1 DEF Entries
    <3>3. QED
      BY <3>1, <3>2
  <2>3. QED
    BY <2>1, <2>2
<1>6. \A m \in r : Len(s) >= QueueMax /\ s[QueueMax] < m
  BY <1>1, <1>2, WorkerAssumption
<1>7. r \subseteq 1 .. p + 1
  BY <1>2
<1>8. Numbered(s, p + 1, r)
  BY <1>4, <1>5, <1>6, <1>7 DEF Numbered
<1>9. QED
  BY <1>8 DEF s

(* A queue that holds its QueueMax messages refuses the next.              *)
LEMMA NumberedRefuses ==
  ASSUME NEW t \in Seq(Nat), NEW p \in Nat, NEW r, Numbered(t, p, r), Len(t) >= QueueMax
  PROVE  Numbered(t, p + 1, r \cup {p + 1})
<1>1. /\ Len(t) \in Nat /\ DOMAIN t = 1 .. Len(t)
      /\ \A i, j \in DOMAIN t : i < j => t[i] < t[j]
      /\ Entries(t) = (1 .. p) \ r /\ r \subseteq 1 .. p
      /\ \A m \in r : Len(t) >= QueueMax /\ t[QueueMax] < m
  BY DEF Numbered
<1>2. t[QueueMax] \in 1 .. p
  BY <1>1, WorkerAssumption DEF Entries
<1>3. Entries(t) = (1 .. p + 1) \ (r \cup {p + 1}) /\ r \cup {p + 1} \subseteq 1 .. p + 1
  BY <1>1
<1>4. \A m \in r \cup {p + 1} : Len(t) >= QueueMax /\ t[QueueMax] < m
  BY <1>1, <1>2
<1>5. QED
  BY <1>1, <1>3, <1>4 DEF Numbered

(* Whatever moves within a worker, what it took is the same.               *)
LEMMA TakenStep ==
  ASSUME WInv, NEW w \in Workers, Step(w)
  PROVE  HandHeld' /\ TakenInOrder'
<1> USE DEF ownedVars, threadVars, queueVars
<1>a. /\ hand \in [Workers -> 0 .. PushBound] /\ pushed \in [Workers -> 0 .. PushBound]
      /\ queue \in [Workers -> Seq(1 .. PushBound)] /\ debris \in [Workers -> Seq(1 .. PushBound)]
      /\ handled \in [Workers -> Seq(1 .. PushBound)]
      /\ refused \in [Workers -> SUBSET (1 .. PushBound)]
      /\ DOMAIN thread = Workers /\ queueUp \in [Workers -> BOOLEAN]
      /\ HandHeld /\ \A v \in Workers : Numbered(Taken(v), pushed[v], refused[v])
  BY DEF WInv, WorkerTypeOK, TakenInOrder
<1>b. /\ handled[w] \in Seq(Nat) /\ Memory(w) \in Seq(Nat)
      /\ pushed[w] \in Nat /\ hand[w] \in Nat
  <2>1. handled[w] \in Seq(1 .. PushBound) /\ Memory(w) \in Seq(1 .. PushBound)
    BY <1>a DEF Memory
  <2>2. 1 .. PushBound \subseteq Nat
    BY WorkerAssumption
  <2>3. QED
    BY <1>a, <2>1, <2>2, SeqMonotonic, WorkerAssumption
<1>c. Done(w) \in Seq(Nat) /\ Taken(w) \in Seq(Nat)
  <2>1. Done(w) \in Seq(Nat)
    <3>1. CASE hand[w] = 0
      BY <1>b, <3>1 DEF Done
    <3>2. CASE hand[w] # 0
      BY <1>b, <3>2 DEF Done
    <3>3. QED
      BY <3>1, <3>2
  <2>2. QED
    BY <2>1, <1>b DEF Taken
<1>1. ASSUME UNCHANGED <<pushed, refused>>, Taken(w)' = Taken(w),
             \A v \in Workers \ {w} : Taken(v)' = Taken(v)
      PROVE  TakenInOrder'
  BY <1>1, <1>a DEF TakenInOrder
<1>2. ASSUME UNCHANGED <<hand, handled, pushed, refused>>,
             Memory(w)' = Memory(w), \A v \in Workers \ {w} : Memory(v)' = Memory(v),
             thread'[w] = "handle" <=> thread[w] = "handle",
             \A v \in Workers \ {w} : thread'[v] = thread[v]
      PROVE  HandHeld' /\ TakenInOrder'
  <2>1. HandHeld'
    BY <1>2, <1>a DEF HandHeld
  <2>2. \A v \in Workers : Taken(v)' = Taken(v)
    BY <1>2 DEF Taken, Done
  <2>3. QED
    BY <1>1, <1>2, <2>1, <2>2
<1>3. CASE WorkerPush(w)
  <2>1. UNCHANGED <<thread, hand, handled, queueUp>>
    BY <1>3 DEF WorkerPush
  <2>2. HandHeld'
    BY <2>1, <1>a DEF HandHeld
  <2>3. CASE /\ pushed' = [pushed EXCEPT ![w] = @ + 1] /\ UNCHANGED refused
             /\ SetMemory(w, Append(Memory(w), pushed[w] + 1))
    <3>1. Memory(w)' = Append(Memory(w), pushed[w] + 1)
      BY <2>1, <2>3, <1>a DEF SetMemory, Memory
    <3>2. \A v \in Workers \ {w} : Memory(v)' = Memory(v)
      BY <2>1, <2>3, <1>a DEF SetMemory, Memory
    <3>3. \A v \in Workers : Done(v)' = Done(v)
      BY <2>1 DEF Done
    <3>4. Taken(w)' = Append(Taken(w), pushed[w] + 1)
      <4>1. Taken(w)' = Done(w) \o Append(Memory(w), pushed[w] + 1)
        BY <3>1, <3>3 DEF Taken
      <4>2. pushed[w] + 1 \in Nat
        BY <1>b
      <4>3. QED
        BY <4>1, <4>2, <1>b, <1>c, AppendJoins DEF Taken
    <3>5. \A v \in Workers \ {w} : Taken(v)' = Taken(v) /\ pushed'[v] = pushed[v]
      BY <2>3, <3>2, <3>3, <1>a DEF Taken
    <3>6. Numbered(Append(Taken(w), pushed[w] + 1), pushed[w] + 1, refused[w])
      BY <1>a, <1>b, <1>c, NumberedTakes
    <3>7. pushed'[w] = pushed[w] + 1 /\ refused' = refused
      BY <2>3, <1>a
    <3>8. TakenInOrder'
      BY <3>4, <3>5, <3>6, <3>7, <1>a DEF TakenInOrder
    <3>9. QED
      BY <2>2, <3>8
  <2>4. CASE /\ pushed' = [pushed EXCEPT ![w] = @ + 1] /\ UNCHANGED <<queue, debris>>
             /\ Len(Memory(w)) >= QueueMax
             /\ refused' = [refused EXCEPT ![w] = @ \cup {pushed[w] + 1}]
    <3>1. \A v \in Workers : Taken(v)' = Taken(v)
      BY <2>1, <2>4 DEF Taken, Done, Memory
    <3>2. Len(Taken(w)) >= QueueMax
      <4>1. Done(w) \in Seq(Nat) /\ Memory(w) \in Seq(Nat)
        BY <1>b, <1>c
      <4>2. /\ Len(Done(w) \o Memory(w)) = Len(Done(w)) + Len(Memory(w))
            /\ Len(Done(w)) \in Nat /\ Len(Memory(w)) \in Nat
        BY ONLY <4>1
      <4>3. QED
        BY <4>2, <2>4, WorkerAssumption DEF Taken
    <3>3. Numbered(Taken(w), pushed[w] + 1, refused[w] \cup {pushed[w] + 1})
      BY <1>a, <1>b, <1>c, <3>2, NumberedRefuses
    <3>4. /\ pushed'[w] = pushed[w] + 1 /\ refused'[w] = refused[w] \cup {pushed[w] + 1}
          /\ \A v \in Workers \ {w} : pushed'[v] = pushed[v] /\ refused'[v] = refused[v]
      BY <2>4, <1>a
    <3>5. TakenInOrder'
      BY <3>1, <3>3, <3>4, <1>a DEF TakenInOrder
    <3>6. QED
      BY <2>2, <3>5
  <2>5. CASE UNCHANGED <<queue, debris, pushed, refused>>
    <3>1. \A v \in Workers : Memory(v)' = Memory(v)
      BY <2>1, <2>5 DEF Memory
    <3>2. QED
      BY <1>2, <2>1, <2>5, <3>1
  <2>6. QED
    BY <1>3, <2>3, <2>4, <2>5 DEF WorkerPush
<1>4. CASE Pop(w)
  <2>1. UNCHANGED <<handled, pushed, refused, queueUp>>
    BY <1>4 DEF Pop
  <2>2. CASE /\ Memory(w) # << >> /\ ThreadGoes(w, "pop", "handle")
             /\ hand' = [hand EXCEPT ![w] = Head(Memory(w))]
             /\ SetMemory(w, Tail(Memory(w)))
    <3>1. hand[w] = 0 /\ Head(Memory(w)) # 0
      <4>1. Memory(w) \in Seq(1 .. PushBound)
        BY <1>a DEF Memory
      <4>2. Head(Memory(w)) \in 1 .. PushBound
        BY ONLY <4>1, <2>2, HeadTailProperties, Zenon
      <4>3. QED
        BY <4>2, <2>2, <1>a DEF HandHeld, ThreadGoes
    <3>2. Memory(w)' = Tail(Memory(w)) /\ \A v \in Workers \ {w} : Memory(v)' = Memory(v)
      BY <2>1, <2>2, <1>a DEF SetMemory, Memory
    <3>3. Done(w)' = handled[w] \o <<Head(Memory(w))>> /\ Done(w) = handled[w] \o << >>
      BY <2>1, <2>2, <3>1, <1>a DEF Done
    <3>4. Taken(w)' = Taken(w)
      <4>1. handled[w] \o <<Head(Memory(w))>> \o Tail(Memory(w)) = handled[w] \o << >> \o Memory(w)
        BY <2>2, <1>b, HeadMoves
      <4>2. QED
        BY <4>1, <3>2, <3>3 DEF Taken
    <3>5. \A v \in Workers \ {w} : Taken(v)' = Taken(v)
      BY <2>1, <2>2, <3>2, <1>a DEF Taken, Done
    <3>6. HandHeld'
      BY <2>2, <3>1, <1>a DEF HandHeld, ThreadGoes
    <3>7. QED
      BY <1>1, <2>1, <3>4, <3>5, <3>6
  <2>3. CASE /\ UNCHANGED <<queue, debris, hand>>
             /\ \E to \in {"pop", "sleep"} : ThreadGoes(w, "pop", to)
    <3>1. \A v \in Workers : Memory(v)' = Memory(v)
      BY <2>1, <2>3 DEF Memory
    <3>2. /\ thread'[w] = "handle" <=> thread[w] = "handle"
          /\ \A v \in Workers \ {w} : thread'[v] = thread[v]
      BY <2>3, <1>a DEF ThreadGoes
    <3>3. QED
      BY <1>2, <2>1, <2>3, <3>1, <3>2
  <2>4. QED
    BY <1>4, <2>2, <2>3 DEF Pop
<1>5. CASE Handle(w)
  <2>1. /\ thread[w] = "handle" /\ thread' = [thread EXCEPT ![w] = "test"]
        /\ handled' = [handled EXCEPT ![w] = Append(@, hand[w])]
        /\ hand' = [hand EXCEPT ![w] = 0]
        /\ UNCHANGED <<queue, debris, queueUp, pushed, refused>>
    BY <1>5 DEF Handle, ThreadGoes
  <2>2. hand[w] # 0
    BY <2>1, <1>a DEF HandHeld
  <2>3. \A v \in Workers : Memory(v)' = Memory(v)
    BY <2>1 DEF Memory
  <2>4. Taken(w)' = Taken(w)
    <3>1. Done(w)' = Append(handled[w], hand[w]) \o << >> /\ Done(w) = handled[w] \o <<hand[w]>>
      BY <2>1, <2>2, <1>a DEF Done
    <3>2. Append(handled[w], hand[w]) \o << >> \o Memory(w) = handled[w] \o <<hand[w]>> \o Memory(w)
      BY <1>b, LastMoves
    <3>3. Taken(w)' = Done(w)' \o Memory(w)
      BY <2>3 DEF Taken
    <3>4. QED
      BY <3>1, <3>2, <3>3 DEF Taken
  <2>5. \A v \in Workers \ {w} : Taken(v)' = Taken(v)
    BY <2>1, <2>3, <1>a DEF Taken, Done
  <2>6. HandHeld'
    BY <2>1, <1>a DEF HandHeld
  <2>7. QED
    BY <1>1, <2>1, <2>4, <2>5, <2>6
<1>6. CASE WorkerNew(w) \/ WorkerFree(w)
  <2>1. UNCHANGED <<thread, hand, handled, pushed, refused>>
    BY <1>6 DEF WorkerNew, WorkerFree
  <2>2. Side(w) /\ Stage(w)
    BY DEF WInv, Staged, Sides
  <2>3. Memory(w)' = Memory(w) /\ \A v \in Workers \ {w} : Memory(v)' = Memory(v)
    BY <1>6, <2>2, <1>a DEF WorkerNew, WorkerFree, Memory, Side, Stage, OwnerGoes
  <2>4. QED
    BY <1>2, <2>1, <2>3
<1>7. CASE WorkerStart(w) \/ ThreadNotCreated(w) \/ Adopt(w) \/ WorkerStop(w)
           \/ Joined(w) \/ FreeStops(w) \/ FreeEnds(w)
  <2>1. UNCHANGED <<thread, hand, handled, pushed, refused, queueUp, queue, debris>>
    BY <1>7 DEF WorkerStart, ThreadNotCreated, Adopt, WorkerStop, Joined, FreeStops, FreeEnds
  <2>2. QED
    BY <1>2, <2>1 DEF Memory
<1>8. CASE ThreadCreated(w)
  <2>1. thread[w] # "handle"
    BY <1>8 DEF ThreadCreated, OwnerGoes, WInv, Staged, Stage, Running
  <2>2. UNCHANGED <<hand, handled, pushed, refused, queueUp, queue, debris>>
        /\ thread' = [thread EXCEPT ![w] = "test"]
    BY <1>8 DEF ThreadCreated
  <2>3. QED
    BY <1>2, <1>a, <2>1, <2>2 DEF Memory
<1>9. CASE Test(w) \/ Wake(w)
  <2>1. UNCHANGED <<hand, handled, pushed, refused, queueUp, queue, debris>>
    BY <1>9 DEF Test, Wake
  <2>2. /\ thread'[w] = "handle" <=> thread[w] = "handle"
        /\ \A v \in Workers \ {w} : thread'[v] = thread[v]
    BY <1>9, <1>a DEF Test, Wake, ThreadGoes
  <2>3. QED
    BY <1>2, <2>1, <2>2 DEF Memory
<1>10. QED
  BY WorkerSteps, <1>3, <1>4, <1>5, <1>6, <1>7, <1>8, <1>9

(* No step of a worker, its owner or a receiver breaks the invariant.      *)
LEMMA WorkerStep == ASSUME WInv, NEW w \in Workers, Step(w) PROVE WInv'
  BY TypeStep, StageStep, SideStep, MisuseStep, TakenStep DEF WInv

(* Nor does a step of somebody else.                                       *)
LEMMA WorkerStutter == WInv /\ UNCHANGED workerVars => WInv'
<1> SUFFICES ASSUME WInv, UNCHANGED workerVars PROVE WInv'
  OBVIOUS
<1>1. WorkerTypeOK' /\ Staged' /\ Sides' /\ HandHeld' /\ UsedWhileAllocated'
  BY DEF workerVars, WInv, WorkerTypeOK, Staged, Stage, Running, Sides, Side, HandHeld,
    UsedWhileAllocated
<1>2. \A v \in Workers : Taken(v)' = Taken(v)
  BY DEF workerVars, Taken, Done, Memory
<1>3. UNCHANGED <<pushed, refused>>
  BY DEF workerVars
<1>4. TakenInOrder'
  BY <1>2, <1>3 DEF WInv, TakenInOrder
<1>5. QED
  BY <1>1, <1>4 DEF WInv

(* What is taken and ascending, with its end cut off, is the rest.         *)
LEMMA FrontRemains ==
  ASSUME NEW a \in Seq(Nat), NEW b \in Seq(Nat),
         \A i, j \in DOMAIN (a \o b) : i < j => (a \o b)[i] < (a \o b)[j]
  PROVE  /\ \A i, j \in DOMAIN (a \o << >>) : i < j => (a \o << >>)[i] < (a \o << >>)[j]
         /\ Entries(a \o << >>) = Entries(a \o b) \ Entries(b)
<1> DEFINE t == a \o b
           f == a \o << >>
<1>1. /\ Len(a) \in Nat /\ Len(b) \in Nat
      /\ DOMAIN f = 1 .. Len(a) /\ DOMAIN t = 1 .. Len(a) + Len(b) /\ DOMAIN b = 1 .. Len(b)
      /\ \A i \in 1 .. Len(a) : f[i] = t[i] /\ t[i] \in Nat
      /\ \A i \in 1 .. Len(b) : t[Len(a) + i] = b[i] /\ b[i] \in Nat
  OBVIOUS
<1>2. \A i, j \in DOMAIN t : i < j => t[i] < t[j]
  OBVIOUS
<1> HIDE DEF t, f
<1>3. \A i, j \in DOMAIN f : i < j => f[i] < f[j]
  BY <1>1, <1>2
<1>4. ASSUME NEW x \in Entries(f) PROVE x \in Entries(t) /\ x \notin Entries(b)
  <2>1. PICK i \in 1 .. Len(a) : x = t[i]
    BY <1>1 DEF Entries
  <2>2. ASSUME NEW k \in 1 .. Len(b) PROVE b[k] # x
    <3>1. i \in DOMAIN t /\ Len(a) + k \in DOMAIN t /\ i < Len(a) + k
      BY <1>1
    <3>2. t[i] < t[Len(a) + k]
      BY <3>1, <1>2
    <3>3. QED
      BY <3>2, <2>1, <1>1
  <2>3. QED
    BY <2>1, <2>2, <1>1 DEF Entries
<1>5. ASSUME NEW x \in Entries(t), x \notin Entries(b) PROVE x \in Entries(f)
  <2>1. PICK i \in DOMAIN t : x = t[i]
    BY DEF Entries
  <2>2. CASE i \in 1 .. Len(a)
    BY <2>1, <2>2, <1>1 DEF Entries
  <2>3. CASE i \notin 1 .. Len(a)
    <3>1. i - Len(a) \in 1 .. Len(b) /\ t[i] = b[i - Len(a)]
      BY <2>1, <2>3, <1>1
    <3>2. QED
      BY <3>1, <2>1, <1>1, <1>5 DEF Entries
  <2>4. QED
    BY <2>2, <2>3
<1>6. QED
  BY <1>3, <1>4, <1>5 DEF t, f

(* What was taken and is not kept is what was in a freed queue.            *)
LEMMA LossFollows == WInv => LossIsExplained
<1> SUFFICES ASSUME WInv, NEW w \in Workers
             PROVE  /\ \A i, j \in DOMAIN Kept(w) : i < j => Kept(w)[i] < Kept(w)[j]
                    /\ Entries(Kept(w)) = (1 .. pushed[w]) \ (refused[w] \cup Entries(debris[w]))
                    /\ \A m \in refused[w] : Len(Taken(w)) >= QueueMax /\ Taken(w)[QueueMax] < m
                    /\ debris[w] # << >> => owner[w] \in {"free_stop", "free_join", "free", "gone"}
  BY DEF LossIsExplained
<1>1. /\ Stage(w) /\ Side(w) /\ Numbered(Taken(w), pushed[w], refused[w])
      /\ owner[w] \in {"absent", "new_create", "adopt", "dangling", "idle", "create",
                       "join", "free_stop", "free_join", "free", "gone"}
  BY DEF WInv, Staged, Sides, TakenInOrder, WorkerTypeOK
<1>2. \A m \in refused[w] : Len(Taken(w)) >= QueueMax /\ Taken(w)[QueueMax] < m
  BY <1>1 DEF Numbered
<1>3. debris[w] # << >> => owner[w] \in {"free_stop", "free_join", "free", "gone"}
  BY <1>1 DEF Stage, Side
<1>4. CASE queueUp[w]
  <2>1. Kept(w) = Taken(w) /\ debris[w] = << >>
    BY <1>1, <1>4 DEF Kept, Taken, Memory, Side
  <2>2. Entries(debris[w]) = {}
    BY <2>1 DEF Entries
  <2>3. QED
    BY <1>1, <1>2, <1>3, <2>1, <2>2 DEF Numbered
<1>5. CASE ~queueUp[w]
  <2>1. Taken(w) = Done(w) \o debris[w] /\ Kept(w) = Done(w) \o << >>
    BY <1>1, <1>5 DEF Kept, Taken, Memory, Side
  <2>2. Done(w) \in Seq(Nat) /\ debris[w] \in Seq(Nat)
    <3>1. /\ handled[w] \in Seq(1 .. PushBound) /\ debris[w] \in Seq(1 .. PushBound)
          /\ hand[w] \in 0 .. PushBound /\ 1 .. PushBound \subseteq Nat
      BY WorkerAssumption DEF WInv, WorkerTypeOK
    <3>2. handled[w] \in Seq(Nat) /\ debris[w] \in Seq(Nat) /\ hand[w] \in Nat
      BY <3>1, SeqMonotonic, WorkerAssumption
    <3>3. CASE hand[w] = 0
      BY <3>2, <3>3 DEF Done
    <3>4. CASE hand[w] # 0
      BY <3>2, <3>4 DEF Done
    <3>5. QED
      BY <3>2, <3>3, <3>4
  <2>3. \A i, j \in DOMAIN (Done(w) \o debris[w]) :
          i < j => (Done(w) \o debris[w])[i] < (Done(w) \o debris[w])[j]
    BY <1>1, <2>1 DEF Numbered
  <2>4. /\ \A i, j \in DOMAIN Kept(w) : i < j => Kept(w)[i] < Kept(w)[j]
        /\ Entries(Kept(w)) = Entries(Taken(w)) \ Entries(debris[w])
    BY <2>1, <2>2, <2>3, FrontRemains
  <2>5. Entries(Taken(w)) = (1 .. pushed[w]) \ refused[w]
    BY <1>1 DEF Numbered
  <2>6. QED
    BY <1>2, <1>3, <2>4, <2>5
<1>6. QED
  BY <1>4, <1>5

(* A stopped worker has no thread.                                         *)
LEMMA StagedIsQuiet == Staged => StoppedIsQuiet
  BY DEF Staged, Stage, StoppedIsQuiet, Running
-----------------------------------------------------------------------------
(* What each place of the server's thread means.                           *)
Places ==
  /\ \/ server = "none"
     \/ main = "join"
     \/ main = "exited" /\ server = "ended"
  /\ server \in {"none", "listen", "ended"} => \A c \in Clients : reader[c] = "none"
  /\ server = "create" => current \in Clients /\ reader[current] = "none"
  /\ server = "push" => current \in Clients /\ reader[current] # "none"
  /\ server \notin {"create", "push"} => current = Nobody

(* Who waits for accept waits once, and has no receiver yet.               *)
Waiting ==
  /\ \A i \in DOMAIN backlog : reader[backlog[i]] = "none" /\ backlog[i] # current
  /\ \A i, j \in DOMAIN backlog : backlog[i] = backlog[j] => i = j

LInv == ListenerTypeOK /\ Places /\ Waiting /\ SocketIsOwned /\ ReceiversAreCreated

(* The places say why main is still there to wait.                         *)
LEMMA PlacesServe == ListenerTypeOK /\ Places => ServingGoesOn
  BY DEF ListenerTypeOK, Places, ServingGoesOn

(* A process starts with nothing open and nobody waiting.                  *)
LEMMA ListenerInitInv == ListenerInit => LInv
<1> SUFFICES ASSUME ListenerInit PROVE LInv
  OBVIOUS
<1>1. MaxFd \in Nat /\ Unused \notin Clients
  BY ListenerAssumption
<1>2. ListenerTypeOK
  BY <1>1 DEF ListenerInit, ListenerTypeOK
<1>3. Places /\ Waiting
  BY DEF ListenerInit, Places, Waiting
<1>4. SocketIsOwned
  BY <1>1 DEF ListenerInit, SocketIsOwned, Descriptors
<1>5. ReceiversAreCreated
  BY DEF ListenerInit, ReceiversAreCreated
<1>6. QED
  BY <1>2, <1>3, <1>4, <1>5 DEF LInv

(* A queue without its first element has the others where they were.       *)
LEMMA TailKeeps ==
  ASSUME NEW s \in Seq(Clients), s # << >>
  PROVE  /\ Head(s) = s[1] /\ 1 \in DOMAIN s
         /\ Tail(s) \in Seq(Clients)
         /\ \A i \in DOMAIN Tail(s) : i \in Nat /\ i + 1 \in DOMAIN s /\ Tail(s)[i] = s[i + 1]
<1>1. Len(s) \in Nat /\ Len(s) # 0 /\ DOMAIN s = 1 .. Len(s)
  BY EmptySeq, LenProperties
<1>2. /\ Tail(s) \in Seq(Clients) /\ Len(Tail(s)) = Len(s) - 1
      /\ \A i \in 1 .. Len(Tail(s)) : Tail(s)[i] = s[i + 1]
  BY HeadTailProperties
<1>3. DOMAIN Tail(s) = 1 .. Len(s) - 1
  BY <1>2, LenProperties
<1>4. QED
  BY <1>1, <1>2, <1>3

(* A queue with one element more has the others where they were.           *)
LEMMA AppendKeeps ==
  ASSUME NEW s \in Seq(Clients), NEW c \in Clients
  PROVE  /\ Append(s, c) \in Seq(Clients)
         /\ DOMAIN s = 1 .. Len(s) /\ Len(s) \in Nat
         /\ DOMAIN Append(s, c) = 1 .. Len(s) + 1
         /\ \A i \in 1 .. Len(s) : Append(s, c)[i] = s[i]
         /\ Append(s, c)[Len(s) + 1] = c
<1>1. Len(s) \in Nat /\ DOMAIN s = 1 .. Len(s)
  BY LenProperties
<1>2. QED
  BY <1>1, AppendProperties, LenProperties

(* Every step keeps the types.                                             *)
LEMMA ListenerTypeStep == LInv /\ ListenerNext => ListenerTypeOK'
<1> SUFFICES ASSUME LInv, ListenerNext PROVE ListenerTypeOK'
  OBVIOUS
<1> USE DEF ListenerTypeOK, acceptedVars
<1>a. ListenerTypeOK /\ Places /\ MaxFd \in Nat /\ Descriptors = 1 .. MaxFd
  BY ListenerAssumption DEF LInv, Descriptors
<1>1. CASE ServerStart
  BY <1>1, <1>a DEF ServerStart, TcpCreateBind
<1>2. CASE CreateServerThread
  BY <1>2, <1>a DEF CreateServerThread
<1>3. CASE MainEnds
  BY <1>3, <1>a DEF MainEnds
<1>4. CASE Listen
  BY <1>4, <1>a DEF Listen
<1>5. CASE ConnectionAborted
  BY <1>5, <1>a, TailKeeps DEF ConnectionAborted
<1>6. CASE Accept
  <2>1. Head(backlog) \in Clients /\ Tail(backlog) \in Seq(Clients)
    BY <1>6, <1>a, HeadTailProperties DEF Accept
  <2>2. QED
    BY <2>1, <1>6, <1>a DEF Accept
<1>7. CASE ReceiverCreated
  BY <1>7, <1>a DEF ReceiverCreated
<1>8. CASE ReceiverFailed
  <2>1. UNCHANGED <<main, backlog, reader, receivers>> /\ current' = Nobody /\ server' = "accept"
    BY <1>8 DEF ReceiverFailed
  <2>2. files' = [files EXCEPT ![sock[current]] = Unused] /\ sock' = [sock EXCEPT ![current] = 0]
    BY <1>8 DEF ReceiverFailed, ConnFree
  <2>3. files' \in [Descriptors -> Clients \cup {Unused, Listening}]
    BY <2>2, <1>a
  <2>4. sock' \in [Clients -> 0 .. MaxFd]
    <3>1. 0 \in 0 .. MaxFd /\ sock \in [Clients -> 0 .. MaxFd]
      BY <1>a
    <3> DEFINE D == 0 .. MaxFd
    <3> HIDE DEF D
    <3>2. 0 \in D /\ sock \in [Clients -> D]
      BY <3>1 DEF D
    <3>3. sock' \in [Clients -> D]
      BY ONLY <2>2, <3>2
    <3>4. QED
      BY <3>3 DEF D
  <2>5. QED
    BY <2>1, <2>3, <2>4, <1>a
<1>9. CASE ReceiverPushed
  BY <1>9, <1>a, AppendKeeps DEF ReceiverPushed, Places
<1>10. ASSUME NEW c \in Clients, Connect(c) PROVE ListenerTypeOK'
  BY <1>10, <1>a, AppendKeeps DEF Connect
<1>11. ASSUME NEW c \in Clients, ReceiverEnds(c) PROVE ListenerTypeOK'
  BY <1>11, <1>a DEF ReceiverEnds
<1>12. QED
  BY <1>1, <1>2, <1>3, <1>4, <1>5, <1>6, <1>7, <1>8, <1>9, <1>10, <1>11
  DEF ListenerNext, MainThread, ServerThread

(* No step leaves a place in a state it may not have.                      *)
LEMMA PlacesStep == LInv /\ ListenerNext => Places'
<1> SUFFICES ASSUME LInv, ListenerNext PROVE Places'
  OBVIOUS
<1> USE DEF Places, acceptedVars
<1>a. ListenerTypeOK /\ Places
  BY DEF LInv
<1>1. CASE MainThread
  BY <1>1, <1>a DEF MainThread, ServerStart, TcpCreateBind, CreateServerThread, MainEnds
<1>2. CASE Listen \/ ConnectionAborted
  BY <1>2, <1>a DEF Listen, ConnectionAborted
<1>3. CASE Accept
  <2>1. Head(backlog) \in Clients /\ reader[Head(backlog)] = "none"
    BY <1>3, TailKeeps, HeadTailProperties DEF Accept, LInv, Waiting, ListenerTypeOK
  <2>2. QED
    BY <2>1, <1>3, <1>a DEF Accept
<1>4. CASE ReceiverCreated \/ ReceiverFailed \/ ReceiverPushed
  BY <1>4, <1>a DEF ReceiverCreated, ReceiverFailed, ReceiverPushed, ListenerTypeOK
<1>5. ASSUME NEW c \in Clients, Connect(c) \/ ReceiverEnds(c) PROVE Places'
  BY <1>5, <1>a DEF Connect, ReceiverEnds, ListenerTypeOK
<1>6. QED
  BY <1>1, <1>2, <1>3, <1>4, <1>5 DEF ListenerNext, ServerThread

(* Who waits goes on waiting once.                                         *)
LEMMA WaitingStep == LInv /\ ListenerNext => Waiting'
<1> SUFFICES ASSUME LInv, ListenerNext PROVE Waiting'
  OBVIOUS
<1> USE DEF acceptedVars
<1>a. ListenerTypeOK /\ Places /\ Waiting /\ backlog \in Seq(Clients)
  BY DEF LInv, ListenerTypeOK
<1>1. CASE MainThread \/ Listen
  BY <1>1, <1>a DEF MainThread, ServerStart, CreateServerThread, MainEnds, Listen, Waiting
<1>2. CASE ConnectionAborted
  BY <1>2, <1>a, TailKeeps DEF ConnectionAborted, Waiting
<1>3. CASE Accept
  <2>1. backlog' = Tail(backlog) /\ current' = backlog[1] /\ reader' = reader /\ backlog # << >>
    BY <1>3, <1>a, TailKeeps DEF Accept
  <2>2. QED
    BY <2>1, <1>a, TailKeeps DEF Waiting
<1>4. CASE ReceiverCreated \/ ReceiverFailed \/ ReceiverPushed
  <2>1. UNCHANGED backlog /\ (current' = current \/ current' = Nobody)
        /\ \A c \in Clients \ {current} : reader'[c] = reader[c]
    BY <1>4, <1>a DEF ReceiverCreated, ReceiverFailed, ReceiverPushed, ListenerTypeOK
  <2>2. \A i \in DOMAIN backlog : backlog[i] \in Clients /\ backlog[i] # Nobody
    BY <1>a, LenProperties, ListenerAssumption
  <2>3. QED
    BY <2>1, <2>2, <1>a DEF Waiting
<1>5. ASSUME NEW c \in Clients, Connect(c) PROVE Waiting'
  <2>1. /\ backlog' = Append(backlog, c) /\ c # current /\ reader[c] = "none"
        /\ \A i \in DOMAIN backlog : backlog[i] # c
        /\ UNCHANGED <<current, reader>>
    BY <1>5 DEF Connect
  <2>2. QED
    BY <2>1, <1>a, AppendKeeps DEF Waiting
<1>6. ASSUME NEW c \in Clients, ReceiverEnds(c) PROVE Waiting'
  BY <1>6, <1>a DEF ReceiverEnds, Waiting, ListenerTypeOK
<1>7. QED
  BY <1>1, <1>2, <1>3, <1>4, <1>5, <1>6 DEF ListenerNext, ServerThread

(* No step opens, closes or hands on a descriptor without its conn_t.      *)
LEMMA SocketStep == LInv /\ ListenerNext => SocketIsOwned'
<1> SUFFICES ASSUME LInv, ListenerNext PROVE SocketIsOwned'
  OBVIOUS
<1> USE DEF acceptedVars
<1>a. /\ ListenerTypeOK /\ Places /\ Waiting /\ SocketIsOwned /\ MaxFd \in Nat
      /\ Descriptors = 1 .. MaxFd /\ {Unused, Listening, Nobody} \cap Clients = {}
  BY ListenerAssumption DEF LInv, Descriptors
<1>1. CASE ServerStart
  <2>1. \A n \in Descriptors, c \in Clients : files'[n] = c <=> files[n] = c
    BY <1>1, <1>a DEF ServerStart, TcpCreateBind, Lowest, ListenerTypeOK
  <2>2. UNCHANGED <<sock, reader, server, current>>
    BY <1>1 DEF ServerStart
  <2>3. QED
    BY <2>1, <2>2, <1>a DEF SocketIsOwned
<1>2. CASE CreateServerThread \/ MainEnds \/ Listen \/ ConnectionAborted
  <2>1. UNCHANGED <<files, sock, reader, current>> /\ server # "create" /\ server' # "create"
    BY <1>2, <1>a DEF CreateServerThread, MainEnds, Listen, ConnectionAborted, Places
  <2>2. QED
    BY <2>1, <1>a DEF SocketIsOwned
<1>3. CASE Accept
  <2>1. PICK n \in Descriptors : /\ Lowest(n)
                                 /\ files' = [files EXCEPT ![n] = Head(backlog)]
                                 /\ sock' = [sock EXCEPT ![Head(backlog)] = n]
    BY <1>3 DEF Accept
  <2>2. Head(backlog) \in Clients /\ reader[Head(backlog)] = "none"
    BY <1>3, <1>a, TailKeeps, HeadTailProperties DEF Accept, Waiting, ListenerTypeOK
  <2>3. sock[Head(backlog)] = 0
    BY <1>3, <1>a, <2>2 DEF Accept, SocketIsOwned
  <2>4. n # 0 /\ files[n] = Unused
    BY <2>1, <1>a DEF Lowest
  <2>5. /\ server = "accept" /\ server' = "create" /\ current' = Head(backlog)
        /\ reader' = reader
    BY <1>3 DEF Accept
  <2>6. \A m \in Descriptors, c \in Clients : files'[m] = c <=> sock'[c] = m
    BY <2>1, <2>2, <2>3, <2>4, <1>a DEF SocketIsOwned, ListenerTypeOK
  <2>7. \A c \in Clients :
          sock'[c] # 0 <=> reader'[c] # "none" \/ (server' = "create" /\ current' = c)
    BY <2>1, <2>2, <2>4, <2>5, <1>a DEF SocketIsOwned, ListenerTypeOK
  <2>8. QED
    BY <2>6, <2>7 DEF SocketIsOwned
<1>4. CASE ReceiverFailed
  <2>1. current \in Clients /\ reader[current] = "none" /\ server = "create"
    BY <1>4, <1>a DEF ReceiverFailed, Places
  <2>2. sock[current] # 0 /\ sock[current] \in Descriptors
    BY <2>1, <1>a DEF SocketIsOwned, ListenerTypeOK
  <2>3. /\ files' = [files EXCEPT ![sock[current]] = Unused]
        /\ sock' = [sock EXCEPT ![current] = 0]
        /\ reader' = reader /\ server' = "accept"
    BY <1>4 DEF ReceiverFailed, ConnFree
  <2>4. \A m \in Descriptors, c \in Clients : files'[m] = c <=> sock'[c] = m
    BY <2>1, <2>2, <2>3, <1>a DEF SocketIsOwned, ListenerTypeOK
  <2>5. \A c \in Clients :
          sock'[c] # 0 <=> reader'[c] # "none" \/ (server' = "create" /\ current' = c)
    BY <2>1, <2>3, <1>a DEF SocketIsOwned, ListenerTypeOK
  <2>6. QED
    BY <2>4, <2>5 DEF SocketIsOwned
<1>5. CASE ReceiverCreated
  <2>1. current \in Clients /\ server = "create" /\ server' = "push"
        /\ reader' = [reader EXCEPT ![current] = "running"]
        /\ UNCHANGED <<files, sock, current>>
    BY <1>5, <1>a DEF ReceiverCreated, Places
  <2>2. QED
    BY <2>1, <1>a DEF SocketIsOwned, ListenerTypeOK
<1>6. CASE ReceiverPushed
  BY <1>6, <1>a DEF ReceiverPushed, SocketIsOwned
<1>7. ASSUME NEW c \in Clients, Connect(c) \/ ReceiverEnds(c) PROVE SocketIsOwned'
  BY <1>7, <1>a DEF Connect, ReceiverEnds, SocketIsOwned, ListenerTypeOK
<1>8. QED
  BY <1>1, <1>2, <1>3, <1>4, <1>5, <1>6, <1>7 DEF ListenerNext, MainThread, ServerThread

(* The array gets each receiver that was created, once.                    *)
LEMMA ReceiversStep == LInv /\ ListenerNext => ReceiversAreCreated'
<1> SUFFICES ASSUME LInv, ListenerNext PROVE ReceiversAreCreated'
  OBVIOUS
<1> USE DEF acceptedVars
<1>a. /\ ListenerTypeOK /\ Places /\ ReceiversAreCreated
      /\ {Unused, Listening, Nobody} \cap Clients = {}
  BY ListenerAssumption DEF LInv
<1>1. CASE UNCHANGED <<receivers, reader>> /\ server # "push" /\ server' # "push"
  BY <1>1, <1>a DEF ReceiversAreCreated
<1>2. CASE ReceiverCreated
  <2>1. current \in Clients /\ reader[current] = "none" /\ server' = "push"
        /\ reader' = [reader EXCEPT ![current] = "running"]
        /\ UNCHANGED <<receivers, current>> /\ server = "create"
    BY <1>2, <1>a DEF ReceiverCreated, Places
  <2>2. QED
    BY <2>1, <1>a DEF ReceiversAreCreated, ListenerTypeOK
<1>3. CASE ReceiverPushed
  <2>1. current \in Clients /\ reader[current] # "none" /\ server = "push" /\ server' = "accept"
        /\ receivers' = Append(receivers, current) /\ UNCHANGED reader
    BY <1>3, <1>a DEF ReceiverPushed, Places
  <2>2. receivers \in Seq(Clients)
    BY <1>a DEF ListenerTypeOK
  <2>3. \A i \in DOMAIN receivers : receivers[i] # current
    BY <2>1, <1>a DEF ReceiversAreCreated
  <2>4. QED
    BY <2>1, <2>2, <2>3, <1>a, AppendKeeps DEF ReceiversAreCreated
<1>4. ASSUME NEW c \in Clients, Connect(c) \/ ReceiverEnds(c) PROVE ReceiversAreCreated'
  BY <1>4, <1>a DEF Connect, ReceiverEnds, ReceiversAreCreated, ListenerTypeOK
<1>5. CASE ServerStart \/ MainEnds
  BY <1>5, <1>a DEF ServerStart, MainEnds, ReceiversAreCreated
<1>6. CASE CreateServerThread
  <2>1. server # "push"
    BY <1>6, <1>a DEF CreateServerThread, Places
  <2>2. QED
    BY <1>6, <1>1, <2>1 DEF CreateServerThread
<1>7. CASE Listen \/ ConnectionAborted \/ Accept \/ ReceiverFailed
  BY <1>7, <1>1 DEF Listen, ConnectionAborted, Accept, ReceiverFailed
<1>8. QED
  BY <1>2, <1>3, <1>4, <1>5, <1>6, <1>7 DEF ListenerNext, MainThread, ServerThread

(* The invariant of the listening side.                                    *)
LEMMA ListenerStep == LInv /\ [ListenerNext]_listenerVars => LInv'
<1> SUFFICES ASSUME LInv, [ListenerNext]_listenerVars PROVE LInv'
  OBVIOUS
<1>1. CASE ListenerNext
  BY <1>1, ListenerTypeStep, PlacesStep, WaitingStep, SocketStep, ReceiversStep DEF LInv
<1>2. CASE UNCHANGED listenerVars
  BY <1>2 DEF listenerVars, LInv, ListenerTypeOK, Places, Waiting, SocketIsOwned,
    ReceiversAreCreated, Descriptors
<1>3. QED
  BY <1>1, <1>2
-----------------------------------------------------------------------------
(* main serves nobody before server_new has returned.                      *)
Ready == main # "start" => ServerMade

(* A step of the process is a step of a worker, pushed to only where       *)
(* server_new has returned, or of the listening side.                      *)
LEMMA ServiceStep ==
  LInv /\ Ready /\ [Next]_serviceVars =>
    /\ [ListenerNext]_listenerVars
    /\ (\E w \in Workers : Step(w)) \/ UNCHANGED workerVars
<1> SUFFICES ASSUME LInv, Ready, [Next]_serviceVars
             PROVE  /\ [ListenerNext]_listenerVars
                    /\ (\E w \in Workers : Step(w)) \/ UNCHANGED workerVars
  OBVIOUS
<1>1. CASE UNCHANGED serviceVars
  BY <1>1 DEF serviceVars
<1>2. CASE Up /\ (\E w \in Workers : Owner(w) \/ Thread(w)) /\ UNCHANGED listenerVars
  BY <1>2 DEF Up, Step
<1>3. CASE /\ Up /\ \E c \in Clients : reader[c] = "running"
           /\ \E w \in Workers : WorkerPush(w)
           /\ UNCHANGED listenerVars
  <2>1. main # "start"
    BY <1>3 DEF LInv, Places, ListenerTypeOK
  <2>2. QED
    BY <1>3, <2>1 DEF Up, Step, Ready
<1>4. CASE ServerMade /\ ListenerNext /\ UNCHANGED workerVars
  BY <1>4
<1>5. QED
  BY <1>1, <1>2, <1>3, <1>4 DEF Next

(* Once server_new has returned its workers stay made, and main does       *)
(* nothing before.                                                         *)
LEMMA ReadyStep == WInv /\ Ready /\ [Next]_serviceVars => Ready'
<1> SUFFICES ASSUME WInv, Ready, [Next]_serviceVars PROVE Ready'
  OBVIOUS
<1>a. DOMAIN owner = Workers
  BY DEF WInv, WorkerTypeOK
<1>1. CASE UNCHANGED owner /\ UNCHANGED main
  BY <1>1 DEF Ready, ServerMade
<1>2. CASE ServerMade /\ UNCHANGED owner
  BY <1>2 DEF Ready, ServerMade
<1>3. ASSUME NEW w \in Workers, Owner(w) \/ Thread(w), UNCHANGED main PROVE Ready'
  <2>1. \A v \in Workers : owner'[v] \in {"absent", "new_create", "adopt"} =>
                             owner[v] \in {"absent", "new_create", "adopt"}
    BY <1>3, <1>a DEF Owner, Thread, Call, WorkerNew, WorkerStart, ThreadCreated,
      ThreadNotCreated, Adopt, Joined, FreeStops, FreeEnds, WorkerStop, WorkerFree, Test, Pop,
      Wake, Handle, ownedVars, OwnerGoes
  <2>2. QED
    BY <2>1, <1>3 DEF Ready, ServerMade
<1>4. CASE UNCHANGED serviceVars
  BY <1>4, <1>1 DEF serviceVars, workerVars, listenerVars
<1>5. CASE (\E w \in Workers : WorkerPush(w)) /\ UNCHANGED listenerVars
  BY <1>5, <1>1 DEF WorkerPush, ownedVars, listenerVars
<1>6. CASE ServerMade /\ ListenerNext /\ UNCHANGED workerVars
  BY <1>6, <1>2 DEF workerVars
<1>7. QED
  BY <1>3, <1>4, <1>5, <1>6 DEF Next, listenerVars

(* Together they are an invariant of the process.                          *)
THEOREM InductiveInvariant == Spec => [](WInv /\ LInv /\ Ready)
<1>1. Init => WInv /\ LInv /\ Ready
  BY WorkerInitInv, ListenerInitInv DEF Init, Ready, ListenerInit
<1>2. WInv /\ LInv /\ Ready /\ [Next]_serviceVars => WInv' /\ LInv' /\ Ready'
  BY ServiceStep, WorkerStep, WorkerStutter, ListenerStep, ReadyStep
<1>3. QED
  BY <1>1, <1>2, PTL DEF Spec

(* The workers' state keeps its types.                                     *)
THEOREM WorkersTypeCorrect == Spec => []WorkerTypeOK
<1>1. WInv => WorkerTypeOK
  BY DEF WInv
<1>2. QED
  BY <1>1, InductiveInvariant, PTL

(* The listening side's state keeps its types.                             *)
THEOREM ListenerTypeCorrect == Spec => []ListenerTypeOK
<1>1. LInv => ListenerTypeOK
  BY DEF LInv
<1>2. QED
  BY <1>1, InductiveInvariant, PTL

(* worker_stop leaves no thread of the worker behind, whatever was called  *)
(* before it.                                                              *)
THEOREM StoppedWorkersAreQuiet == Spec => []StoppedIsQuiet
<1>1. WInv => StoppedIsQuiet
  BY StagedIsQuiet DEF WInv
<1>2. QED
  BY <1>1, InductiveInvariant, PTL

(* Every message a worker was pushed is handled, in its thread's hand or   *)
(* queued, once and in order, unless a full queue refused it or            *)
(* worker_free threw it away with its queue.                               *)
THEOREM LossesAreExplained == Spec => []LossIsExplained
<1>1. WInv => LossIsExplained
  BY LossFollows
<1>2. QED
  BY <1>1, InductiveInvariant, PTL

(* A worker's thread uses freed memory only where worker_free met it       *)
(* running, and then only the queue; server_new where worker_new's failure *)
(* went unnoticed; receivers there and wherever worker_free was called.    *)
THEOREM MemoryIsUsedWhileAllocated == Spec => []UsedWhileAllocated
<1>1. WInv => UsedWhileAllocated
  BY DEF WInv
<1>2. QED
  BY <1>1, InductiveInvariant, PTL

(* A connection and its socket belong to each other through every failure. *)
THEOREM SocketsAreOwned == Spec => []SocketIsOwned
<1>1. LInv => SocketIsOwned
  BY DEF LInv
<1>2. QED
  BY <1>1, InductiveInvariant, PTL

(* The array of receivers has those that were created, each once.          *)
THEOREM CreatedReceiversAreKept == Spec => []ReceiversAreCreated
<1>1. LInv => ReceiversAreCreated
  BY DEF LInv
<1>2. QED
  BY <1>1, InductiveInvariant, PTL

(* main waits for the server's thread as long as anyone is served.         *)
THEOREM ServedProcessLives == Spec => []ServingGoesOn
<1>1. LInv => ServingGoesOn
  BY PlacesServe DEF LInv
<1>2. QED
  BY <1>1, InductiveInvariant, PTL
=============================================================================
