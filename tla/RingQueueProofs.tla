-------------------------- MODULE RingQueueProofs --------------------------
(***************************************************************************)
(* Theorems about queue.c (module RingQueue) for every set of threads and  *)
(* elements and every capacity: the inductive invariant, and that the ring *)
(* buffer implements the FIFO of module BoundedFifo.                       *)
(***************************************************************************)
EXTENDS RingQueue, SequenceTheorems, TLAPS

(* The remainder in queue_full is the wrap-around step of an index.        *)
LEMMA ModIsAdvance ==
  ASSUME NEW i \in Slots
  PROVE  /\ (i + 1) % Capacity = Advance(i)
         /\ Advance(i) \in Slots
<1> USE RingAssumption DEF Slots, Advance
<1>1. CASE i + 1 = Capacity
  BY <1>1
<1>2. CASE i + 1 # Capacity
  BY <1>2
<1>3. QED
  BY <1>1, <1>2

(* How the two indexes determine the number of elements: head = tail is    *)
(* the empty queue, one free slot is left when the queue is full.          *)
LEMMA CountFacts ==
  ASSUME head \in Slots, tail \in Slots
  PROVE  /\ Count \in 0 .. Capacity - 1
         /\ Count = 0 <=> QueueEmpty
         /\ Count = Capacity - 1 <=> QueueFull
<1>1. QueueFull <=> Advance(tail) = head
  BY ModIsAdvance DEF QueueFull
<1>2. QED
  BY <1>1, RingAssumption DEF Slots, Advance, Count, QueueEmpty

(* Positions in the queue are slots, the first free one is tail, and no    *)
(* occupied position is tail.                                              *)
LEMMA SlotFacts ==
  ASSUME head \in Slots, tail \in Slots
  PROVE  /\ \A i \in 0 .. Count - 1 : SlotAt(i) \in Slots /\ SlotAt(i) # tail
         /\ SlotAt(Count) = tail
         /\ SlotAt(0) = head
  BY RingAssumption DEF Slots, Count, SlotAt

(* The invariant holds initially.                                          *)
LEMMA InitInv == Init => IInv
<1> SUFFICES ASSUME Init PROVE IInv
  OBVIOUS
<1>1. TypeOK
  BY RingAssumption DEF Init, TypeOK, Slots, Locations, Statuses
<1>2. LockDiscipline
  BY RingAssumption DEF Init, LockDiscipline, InSection
<1>3. CopyInPlace
  BY DEF Init, CopyInPlace
<1>4. OccupiedWritten
  BY DEF Init, OccupiedWritten, Count
<1>5. QED
  BY <1>1, <1>2, <1>3, <1>4 DEF IInv

(* Every step keeps the types.                                             *)
LEMMA StepType == TypeOK /\ [Next]_vars => TypeOK'
<1> SUFFICES ASSUME TypeOK, [Next]_vars PROVE TypeOK'
  OBVIOUS
<1> USE DEF TypeOK, Locations, Statuses
<1>1. ASSUME NEW t \in Threads, Call(t) PROVE TypeOK'
  BY <1>1 DEF Call, PopCall, PushCall
<1>2. ASSUME NEW t \in Threads, PushLock(t) PROVE TypeOK'
  BY <1>2 DEF PushLock
<1>3. ASSUME NEW t \in Threads, PushRefuse(t) PROVE TypeOK'
  BY <1>3 DEF PushRefuse, Unlock
<1>4. ASSUME NEW t \in Threads, PushCopy(t) PROVE TypeOK'
  BY <1>4 DEF PushCopy
<1>5. ASSUME NEW t \in Threads, PushBump(t) PROVE TypeOK'
  BY <1>5, ModIsAdvance DEF PushBump, Unlock
<1>6. ASSUME NEW t \in Threads, PopLock(t) PROVE TypeOK'
  BY <1>6 DEF PopLock
<1>7. ASSUME NEW t \in Threads, PopRefuse(t) PROVE TypeOK'
  BY <1>7 DEF PopRefuse, Unlock
<1>8. ASSUME NEW t \in Threads, PopCopy(t) PROVE TypeOK'
  BY <1>8 DEF PopCopy
<1>9. ASSUME NEW t \in Threads, PopBump(t) PROVE TypeOK'
  BY <1>9, ModIsAdvance DEF PopBump, Unlock
<1>10. CASE UNCHANGED vars
  BY <1>10 DEF vars
<1>11. QED
  BY <1>1, <1>2, <1>3, <1>4, <1>5, <1>6, <1>7, <1>8, <1>9, <1>10 DEF Next, Run

(* The mutex holder is the thread in the critical section.                 *)
LEMMA StepLock == TypeOK /\ LockDiscipline /\ [Next]_vars => LockDiscipline'
<1> SUFFICES ASSUME TypeOK, LockDiscipline, [Next]_vars PROVE LockDiscipline'
  OBVIOUS
<1> USE RingAssumption DEF TypeOK, LockDiscipline, InSection
<1>1. ASSUME NEW t \in Threads, Call(t) PROVE LockDiscipline'
  BY <1>1 DEF Call, PopCall, PushCall
<1>2. ASSUME NEW t \in Threads, PushLock(t) \/ PopLock(t) PROVE LockDiscipline'
  BY <1>2 DEF PushLock, PopLock
<1>3. ASSUME NEW t \in Threads,
             PushRefuse(t) \/ PushBump(t) \/ PopRefuse(t) \/ PopBump(t)
      PROVE  LockDiscipline'
  BY <1>3 DEF PushRefuse, PushBump, PopRefuse, PopBump, Unlock
<1>4. ASSUME NEW t \in Threads, PushCopy(t) \/ PopCopy(t) PROVE LockDiscipline'
  BY <1>4 DEF PushCopy, PopCopy
<1>5. CASE UNCHANGED vars
  BY <1>5 DEF vars
<1>6. QED
  BY <1>1, <1>2, <1>3, <1>4, <1>5 DEF Next, Run

(* The occupied slots stay written.  Only PushCopy writes a slot, and that *)
(* slot is not occupied; only PushBump adds one, the slot just written.    *)
LEMMA StepOccupied == IInv /\ [Next]_vars => OccupiedWritten'
<1> SUFFICES ASSUME IInv, [Next]_vars PROVE OccupiedWritten'
  OBVIOUS
<1> USE DEF IInv
<1>1. ASSUME UNCHANGED <<head, tail, data>> PROVE OccupiedWritten'
  BY <1>1 DEF OccupiedWritten, Count, SlotAt
<1>2. ASSUME NEW t \in Threads, PushCopy(t) PROVE OccupiedWritten'
  <2>1. Count' = Count /\ \A i : SlotAt(i)' = SlotAt(i)
    BY <1>2 DEF PushCopy, Count, SlotAt
  <2>2. \A i \in 0 .. Count - 1 : SlotAt(i) \in Slots /\ SlotAt(i) # tail
    BY SlotFacts DEF TypeOK
  <2>3. \A i \in 0 .. Count - 1 : data'[SlotAt(i)] = data[SlotAt(i)]
    BY <1>2, <2>2 DEF PushCopy, TypeOK
  <2>4. QED
    BY <2>1, <2>3 DEF OccupiedWritten
<1>3. ASSUME NEW t \in Threads, PushBump(t) PROVE OccupiedWritten'
  <2>1. data[tail] \in Elems /\ Count # Capacity - 1
    BY <1>3, CountFacts DEF PushBump, CopyInPlace, TypeOK
  <2>2. Count' = Count + 1 /\ \A i : SlotAt(i)' = SlotAt(i)
    BY <1>3, <2>1, RingAssumption
       DEF PushBump, Count, SlotAt, Advance, TypeOK, Slots
  <2>3. SlotAt(Count) = tail /\ Count \in Nat
    BY SlotFacts, CountFacts, RingAssumption DEF TypeOK
  <2>4. ASSUME NEW i \in 0 .. Count PROVE data[SlotAt(i)] \in Elems
    BY <2>1, <2>3 DEF OccupiedWritten
  <2>5. data' = data /\ Count' - 1 = Count
    BY <1>3, <2>2, <2>3 DEF PushBump
  <2>6. QED
    BY <2>2, <2>4, <2>5 DEF OccupiedWritten
<1>4. ASSUME NEW t \in Threads, PopBump(t) PROVE OccupiedWritten'
  <2>1. Count # 0 /\ Count \in Nat
    BY <1>4, CountFacts, RingAssumption DEF PopBump, CopyInPlace, TypeOK
  <2>2. Count' = Count - 1 /\ \A i \in 0 .. Count - 2 : SlotAt(i)' = SlotAt(i + 1)
    BY <1>4, <2>1, RingAssumption
       DEF PopBump, Count, SlotAt, Advance, TypeOK, Slots
  <2>3. ASSUME NEW i \in 0 .. Count - 2 PROVE data[SlotAt(i + 1)] \in Elems
    BY <2>1 DEF OccupiedWritten
  <2>4. data' = data /\ Count' - 1 = Count - 2
    BY <1>4, <2>1, <2>2 DEF PopBump
  <2>5. QED
    BY <2>2, <2>3, <2>4 DEF OccupiedWritten
<1>5. QED
  BY <1>1, <1>2, <1>3, <1>4
     DEF Next, Call, Run, vars, PopCall, PushCall, PushLock, PushRefuse,
         PopLock, PopRefuse, PopCopy

(* What a thread copied stays in place until it moves the index: the steps *)
(* that touch slots or indexes are taken inside the critical section, and  *)
(* only one thread is inside.                                              *)
LEMMA StepCopy == IInv /\ [Next]_vars => CopyInPlace'
<1> SUFFICES ASSUME IInv, [Next]_vars PROVE CopyInPlace'
  OBVIOUS
<1> USE DEF IInv
<1>1. ASSUME NEW t \in Threads, Call(t) PROVE CopyInPlace'
  BY <1>1 DEF Call, PopCall, PushCall, CopyInPlace, TypeOK, QueueFull, QueueEmpty
<1>2. ASSUME NEW t \in Threads, PushLock(t) \/ PopLock(t) PROVE CopyInPlace'
  BY <1>2
     DEF PushLock, PopLock, CopyInPlace, TypeOK, QueueFull, QueueEmpty
<1>3. ASSUME NEW t \in Threads, NEW u \in Threads, u # t, mutex = t
      PROVE  op[u].at \notin {"push_test", "push_bump", "pop_bump"}
  BY <1>3 DEF LockDiscipline, InSection
<1>4. ASSUME NEW t \in Threads, PushRefuse(t) \/ PopRefuse(t) PROVE CopyInPlace'
  BY <1>4
     DEF PushRefuse, PopRefuse, Unlock, CopyInPlace, TypeOK, QueueFull, QueueEmpty
<1>5. ASSUME NEW t \in Threads, PushBump(t) \/ PopBump(t) PROVE CopyInPlace'
  <2>1. mutex = t
    BY <1>5 DEF PushBump, PopBump, LockDiscipline, InSection
  <2>2. op' = [op EXCEPT ![t].at = "idle", ![t].ret = "OK"]
    BY <1>5 DEF PushBump, PopBump, Unlock
  <2>3. op'[t].at = "idle" /\ \A u \in Threads \ {t} : op'[u] = op[u]
    BY <2>2 DEF TypeOK
  <2>4. QED
    BY <2>1, <2>3, <1>3 DEF CopyInPlace
<1>6. ASSUME NEW t \in Threads, PushCopy(t) PROVE CopyInPlace'
  <2>1. mutex = t /\ op[t].elem \in Elems
    BY <1>6 DEF PushCopy, LockDiscipline, InSection, CopyInPlace
  <2>2. /\ op'[t].at = "push_bump" /\ op'[t].elem = op[t].elem
        /\ \A u \in Threads \ {t} : op'[u] = op[u]
    BY <1>6 DEF PushCopy, TypeOK
  <2>3. data'[tail'] = op[t].elem /\ ~QueueFull'
    BY <1>6 DEF PushCopy, TypeOK, QueueFull
  <2>4. QED
    BY <2>1, <2>2, <2>3, <1>3 DEF CopyInPlace
<1>7. ASSUME NEW t \in Threads, PopCopy(t) PROVE CopyInPlace'
  <2>1. mutex = t
    BY <1>7 DEF PopCopy, LockDiscipline, InSection
  <2>2. /\ op'[t].at = "pop_bump" /\ op'[t].elem = data[head]
        /\ \A u \in Threads \ {t} : op'[u] = op[u]
    BY <1>7 DEF PopCopy, TypeOK
  <2>3. data' = data /\ head' = head /\ ~QueueEmpty'
    BY <1>7 DEF PopCopy, QueueEmpty
  <2>4. QED
    BY <2>1, <2>2, <2>3, <1>3 DEF CopyInPlace
<1>8. CASE UNCHANGED vars
  BY <1>8 DEF vars, CopyInPlace, QueueFull, QueueEmpty
<1>9. QED
  BY <1>1, <1>2, <1>4, <1>5, <1>6, <1>7, <1>8 DEF Next, Run

(* IInv is an inductive invariant of the queue.                            *)
THEOREM InductiveInvariant == Spec => []IInv
<1>1. IInv /\ [Next]_vars => IInv'
  BY StepType, StepLock, StepOccupied, StepCopy DEF IInv
<1>2. QED
  BY InitInv, <1>1, PTL DEF Spec

(* Indexes never leave the array of slots and variables keep their types,  *)
(* whatever the threads do (queue_push and queue_pop, queue.c:52-84).      *)
THEOREM TypeCorrect == Spec => []TypeOK
  BY InductiveInvariant, PTL DEF IInv

(* The two memcpys of queue.c never race with an index update or with each *)
(* other: what is copied is what gets published or returned.               *)
THEOREM CopiesAreAtomic == Spec => []CopyInPlace
  BY InductiveInvariant, PTL DEF IInv

(* At most one thread is between lock and unlock, and it is the holder.    *)
THEOREM MutualExclusion == Spec => []LockDiscipline
  BY InductiveInvariant, PTL DEF IInv
-----------------------------------------------------------------------------
(* The contents are a sequence of Count elements.                          *)
LEMMA ContentsSeq ==
  ASSUME IInv
  PROVE  /\ Contents \in Seq(Elems)
         /\ Len(Contents) = Count
         /\ Contents = << >> <=> QueueEmpty
<1>1. Count \in Nat /\ (Count = 0 <=> QueueEmpty)
  BY CountFacts, RingAssumption DEF IInv, TypeOK
<1>2. \A i \in 1 .. Count : data[SlotAt(i - 1)] \in Elems
  BY <1>1 DEF IInv, OccupiedWritten
<1>3. Contents \in Seq(Elems) /\ Len(Contents) = Count
  BY <1>1, <1>2 DEF Contents
<1>4. QED
  BY <1>1, <1>3

(* Publishing the slot at tail appends its element.                        *)
LEMMA BumpAppends ==
  ASSUME IInv, NEW t \in Threads, PushBump(t)
  PROVE  Len(Contents) < Capacity - 1 /\ Contents' = Append(Contents, op[t].elem)
<1> USE DEF IInv
<1>1. data[tail] = op[t].elem /\ Count \in 0 .. Capacity - 1 /\ Count # Capacity - 1
  BY CountFacts DEF PushBump, CopyInPlace, TypeOK
<1>2. Count' = Count + 1 /\ \A i : SlotAt(i)' = SlotAt(i)
  BY <1>1, RingAssumption DEF PushBump, Count, SlotAt, Advance, TypeOK, Slots
<1>3. SlotAt(Count) = tail
  BY SlotFacts DEF TypeOK
<1>4. Contents' = [i \in 1 .. Count + 1 |-> data[SlotAt(i - 1)]]
  BY <1>2 DEF Contents, PushBump
<1>5. Contents \in Seq(Elems) /\ Len(Contents) = Count
  BY ContentsSeq
<1>6. Append(Contents, op[t].elem)
        = [i \in 1 .. Count + 1 |->
             IF i = Count + 1 THEN op[t].elem ELSE Contents[i]]
  BY <1>5
<1>7. ASSUME NEW i \in 1 .. Count + 1
      PROVE  data[SlotAt(i - 1)]
               = IF i = Count + 1 THEN op[t].elem ELSE Contents[i]
  BY <1>1, <1>3, RingAssumption DEF Contents
<1>8. QED
  BY <1>1, <1>4, <1>5, <1>6, <1>7, RingAssumption

(* Moving head past a slot removes the oldest element, the one returned.   *)
LEMMA BumpRemoves ==
  ASSUME IInv, NEW t \in Threads, PopBump(t)
  PROVE  /\ Contents # << >>
         /\ Contents' = Tail(Contents)
         /\ op[t].elem = Head(Contents)
<1> USE DEF IInv
<1>1. op[t].elem = data[head] /\ Count \in Nat /\ Count # 0 /\ ~QueueEmpty
  BY CountFacts, RingAssumption DEF PopBump, CopyInPlace, TypeOK
<1>2. Count' = Count - 1 /\ \A i \in 0 .. Count - 2 : SlotAt(i)' = SlotAt(i + 1)
  BY <1>1, RingAssumption DEF PopBump, Count, SlotAt, Advance, TypeOK, Slots
<1>3. SlotAt(0) = head
  BY SlotFacts DEF TypeOK
<1>4. Contents' = [i \in 1 .. Count - 1 |-> data[SlotAt(i)]]
  <2>1. data' = data
    BY DEF PopBump
  <2>2. ASSUME NEW i \in 1 .. Count - 1 PROVE SlotAt(i - 1)' = SlotAt(i)
    BY <1>1, <1>2
  <2>3. QED
    BY <1>2, <2>1, <2>2 DEF Contents
<1>5. Contents \in Seq(Elems) /\ Len(Contents) = Count /\ Contents # << >>
  BY <1>1, ContentsSeq
<1>6. Tail(Contents) = [i \in 1 .. Count - 1 |-> Contents[i + 1]]
  <2>1. /\ Tail(Contents) \in Seq(Elems)
        /\ Len(Tail(Contents)) = Count - 1
        /\ \A i \in 1 .. Count - 1 : Tail(Contents)[i] = Contents[i + 1]
    BY <1>5, HeadTailProperties
  <2>2. QED
    BY <2>1, LenProperties
<1>7. ASSUME NEW i \in 1 .. Count - 1 PROVE Contents[i + 1] = data[SlotAt(i)]
  BY <1>1 DEF Contents
<1>8. Head(Contents) = data[head]
  BY <1>1, <1>3, <1>5 DEF Contents
<1>9. QED
  BY <1>1, <1>4, <1>5, <1>6, <1>7, <1>8

(* The empty ring is the empty FIFO, and no call is under way.             *)
LEMMA InitRefines == Init => Fifo!Init
<1> SUFFICES ASSUME Init PROVE Fifo!Init
  OBVIOUS
<1>1. Contents = << >>
  BY InitInv, ContentsSeq DEF Init, QueueEmpty
<1>2. \A t \in Threads :
        Seen(t) = [op |-> "idle", elem |-> NoElem, ret |-> "none"]
  BY DEF Init, Seen, Kind
<1>3. QED
  BY <1>1, <1>2 DEF Fifo!Init

(* A step of one thread shows on the abstract call of that thread only.    *)
LEMMA OnlyCall ==
  ASSUME NEW t \in Threads, NEW c, Seen(t)' = c,
         \A u \in Threads \ {t} : op'[u] = op[u]
  PROVE  [u \in Threads |-> Seen(u)]'
           = [[u \in Threads |-> Seen(u)] EXCEPT ![t] = c]
  BY DEF Seen

(* Every step of the ring is a step of the FIFO or leaves it alone: only   *)
(* calls, refusals and index updates show.                                 *)
LEMMA StepRefines == IInv /\ [Next]_vars => [Fifo!Next]_(Fifo!fvars)
<1> SUFFICES ASSUME IInv, [Next]_vars PROVE [Fifo!Next]_(Fifo!fvars)
  OBVIOUS
<1> DEFINE calls == [u \in Threads |-> Seen(u)]
<1> USE DEF IInv
<1>1. ASSUME UNCHANGED <<head, tail, data>> PROVE Contents' = Contents
  BY <1>1 DEF Contents, Count, SlotAt
<1>2. ASSUME NEW t \in Threads, NEW e \in Elems, PushCall(t, e) PROVE Fifo!PushCall(t, e)
  <2>1. Contents' = Contents /\ Seen(t).op = "idle"
    BY <1>1, <1>2 DEF PushCall, Seen, Kind
  <2>2. Seen(t)' = [op |-> "push", elem |-> e, ret |-> "none"]
    BY <1>2 DEF PushCall, TypeOK, Seen, Kind
  <2>3. \A u \in Threads \ {t} : op'[u] = op[u]
    BY <1>2 DEF PushCall, TypeOK
  <2>4. QED
    BY <2>1, <2>2, <2>3, OnlyCall DEF Fifo!PushCall
<1>3. ASSUME NEW t \in Threads, PopCall(t) PROVE Fifo!PopCall(t)
  <2>1. Contents' = Contents /\ Seen(t).op = "idle"
    BY <1>1, <1>3 DEF PopCall, Seen, Kind
  <2>2. Seen(t)' = [op |-> "pop", elem |-> NoElem, ret |-> "none"]
    BY <1>3 DEF PopCall, TypeOK, Seen, Kind
  <2>3. \A u \in Threads \ {t} : op'[u] = op[u]
    BY <1>3 DEF PopCall, TypeOK
  <2>4. QED
    BY <2>1, <2>2, <2>3, OnlyCall DEF Fifo!PopCall
<1>4. ASSUME NEW t \in Threads, PushLock(t) \/ PopLock(t) \/ PushCopy(t) \/ PopCopy(t)
      PROVE  UNCHANGED Fifo!fvars
  <2>1. Contents' = Contents
    <3>1. CASE PushLock(t) \/ PopLock(t) \/ PopCopy(t)
      BY <1>1, <3>1 DEF PushLock, PopLock, PopCopy
    <3>2. CASE PushCopy(t)
      <4>1. Count' = Count /\ \A i : SlotAt(i)' = SlotAt(i)
        BY <3>2 DEF PushCopy, Count, SlotAt
      <4>2. \A i \in 1 .. Count : i - 1 \in 0 .. Count - 1
        BY CountFacts, RingAssumption DEF TypeOK
      <4>3. \A i \in 0 .. Count - 1 : data'[SlotAt(i)] = data[SlotAt(i)]
        BY <3>2, SlotFacts DEF PushCopy, TypeOK
      <4>4. QED
        BY <4>1, <4>2, <4>3 DEF Contents
    <3>3. QED
      BY <1>4, <3>1, <3>2
  <2>2. Seen(t)' = Seen(t)
    BY <1>4
       DEF PushLock, PopLock, PushCopy, PopCopy, TypeOK, CopyInPlace, Seen, Kind
  <2>3. \A u \in Threads \ {t} : op'[u] = op[u]
    BY <1>4 DEF PushLock, PopLock, PushCopy, PopCopy, TypeOK
  <2>4. calls' = calls
    BY <2>2, <2>3 DEF Seen
  <2>5. QED
    BY <2>1, <2>4 DEF Fifo!fvars
<1>5. ASSUME NEW t \in Threads, PushRefuse(t) PROVE Fifo!PushRefused(t)
  <2>1. Contents' = Contents /\ Seen(t).op = "push" /\ Seen(t).elem = op[t].elem
    BY <1>1, <1>5 DEF PushRefuse, Seen, Kind
  <2>2. Len(Contents) = Capacity - 1
    BY <1>5, ContentsSeq, CountFacts DEF PushRefuse, TypeOK
  <2>3. Seen(t)' = [op |-> "idle", elem |-> op[t].elem, ret |-> "EINVAL"]
    BY <1>5 DEF PushRefuse, Unlock, TypeOK, Seen, Kind
  <2>4. \A u \in Threads \ {t} : op'[u] = op[u]
    BY <1>5 DEF PushRefuse, Unlock, TypeOK
  <2>5. QED
    BY <2>1, <2>2, <2>3, <2>4, OnlyCall DEF Fifo!PushRefused
<1>6. ASSUME NEW t \in Threads, PopRefuse(t) PROVE Fifo!PopRefused(t)
  <2>1. Contents' = Contents /\ Seen(t).op = "pop" /\ op[t].elem = NoElem
    BY <1>1, <1>6 DEF PopRefuse, CopyInPlace, Seen, Kind
  <2>2. Contents = << >>
    BY <1>6, ContentsSeq DEF PopRefuse
  <2>3. Seen(t)' = [op |-> "idle", elem |-> NoElem, ret |-> "ENOENT"]
    BY <1>6, <2>1 DEF PopRefuse, Unlock, TypeOK, Seen, Kind
  <2>4. \A u \in Threads \ {t} : op'[u] = op[u]
    BY <1>6 DEF PopRefuse, Unlock, TypeOK
  <2>5. QED
    BY <2>1, <2>2, <2>3, <2>4, OnlyCall DEF Fifo!PopRefused
<1>7. ASSUME NEW t \in Threads, PushBump(t) PROVE Fifo!PushDone(t)
  <2>1. Seen(t).op = "push" /\ Seen(t).elem = op[t].elem
    BY <1>7 DEF PushBump, Seen, Kind
  <2>2. Seen(t)' = [op |-> "idle", elem |-> op[t].elem, ret |-> "OK"]
    BY <1>7 DEF PushBump, Unlock, TypeOK, Seen, Kind
  <2>3. \A u \in Threads \ {t} : op'[u] = op[u]
    BY <1>7 DEF PushBump, Unlock, TypeOK
  <2>4. QED
    BY <1>7, <2>1, <2>2, <2>3, BumpAppends, OnlyCall DEF Fifo!PushDone
<1>8. ASSUME NEW t \in Threads, PopBump(t) PROVE Fifo!PopDone(t)
  <2>1. Seen(t).op = "pop"
    BY <1>8 DEF PopBump, Seen, Kind
  <2>2. Seen(t)' = [op |-> "idle", elem |-> op[t].elem, ret |-> "OK"]
    BY <1>8 DEF PopBump, Unlock, TypeOK, Seen, Kind
  <2>3. \A u \in Threads \ {t} : op'[u] = op[u]
    BY <1>8 DEF PopBump, Unlock, TypeOK
  <2>4. QED
    BY <1>8, <2>1, <2>2, <2>3, BumpRemoves, OnlyCall DEF Fifo!PopDone
<1>9. CASE UNCHANGED vars
  BY <1>9 DEF vars, Fifo!fvars, Contents, Count, SlotAt, Seen
<1>10. QED
  BY <1>2, <1>3, <1>4, <1>5, <1>6, <1>7, <1>8, <1>9 DEF Next, Call, Run, Fifo!Next

(* queue.c implements the linearizable bounded FIFO of BoundedFifo: what   *)
(* run ring_fifo checks for four slots and two threads holds for every     *)
(* capacity, every set of threads and every set of elements.               *)
THEOREM RingImplementsFifo == Spec => FifoSpec
  BY InductiveInvariant, InitRefines, StepRefines, PTL DEF Spec, FifoSpec, Fifo!Spec
-----------------------------------------------------------------------------
(* Remainders of a multiple of c and a bit.                                *)
LEMMA ModOfMultiple ==
  ASSUME NEW c \in Nat \ {0}, NEW k \in Nat, NEW r \in 0 .. c - 1
  PROVE  (k * c + r) % c = r
  BY Z3

(* queue_size's subtraction, wrap and remainder count the occupied slots.  *)
LEMMA SizeIsCount ==
  ASSUME head \in Slots, tail \in Slots
  PROVE  QueueSize = Count
<1> USE RingAssumption, WordAssumption DEF Slots
<1>1. PICK k \in Nat \ {0} : WordSize = k * Capacity
  <2>1. /\ WordSize = Capacity * (WordSize \div Capacity) + (WordSize % Capacity)
        /\ WordSize \div Capacity \in Int
    BY Z3
  <2>2. WordSize \div Capacity \in Nat \ {0} /\ WordSize = (WordSize \div Capacity) * Capacity
    BY <2>1, Z3
  <2>3. QED
    BY <2>2
<1>2. k * Capacity >= Capacity /\ k - 1 \in Nat /\ k * Capacity \in Nat
  BY Z3
<1>3. CASE tail >= head
  <2>1. tail - head \in 0 .. Capacity - 1
    BY <1>3
  <2>2. (tail - head) % WordSize = tail - head
    BY <2>1, <1>1, <1>2
  <2>3. QED
    BY <2>1, <2>2, <1>3 DEF QueueSize, Count
<1>4. CASE tail < head
  <2>1. tail - head + Capacity \in 0 .. Capacity - 1
    BY <1>4
  <2>2. (tail - head) % WordSize = tail - head + WordSize
    BY <2>1, <1>1, <1>2, <1>4
  <2>3. tail - head + WordSize = (k - 1) * Capacity + (tail - head + Capacity)
    BY <1>1, <1>4, Z3
  <2>4. (tail - head + WordSize) % Capacity = tail - head + Capacity
    <3>1. \A r \in 0 .. Capacity - 1 : ((k - 1) * Capacity + r) % Capacity = r
      BY <1>2, ModOfMultiple
    <3>2. QED
      BY ONLY <2>1, <2>3, <3>1
  <2>5. QED
    BY <2>1, <2>2, <2>4, <1>4 DEF QueueSize, Count
<1>5. QED
  BY <1>3, <1>4

(* queue_size counts the occupied slots wherever the ring has wrapped,     *)
(* although its subtraction wraps as a size_t does.                        *)
THEOREM SizeIsExact == Spec => []QueueSizeExact
<1>1. IInv => QueueSizeExact
  BY SizeIsCount, ContentsSeq DEF QueueSizeExact, IInv, TypeOK
<1>2. QED
  BY InductiveInvariant, <1>1, PTL
=============================================================================
