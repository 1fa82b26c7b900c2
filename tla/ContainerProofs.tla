--------------------------- MODULE ContainerProofs --------------------------
(***************************************************************************)
(* The two containers: the rings of list.c for any number of lists and     *)
(* elements, and arrays of any size, from any first capacity.              *)
(***************************************************************************)
EXTENDS List, Array, SequenceTheorems, TLAPS

(* The inductive invariant of the rings.                                   *)
IInv == ListTypeOK /\ Linked /\ Once /\ Loose

(* Lengths are numbers, and what a list holds are elements, not heads.     *)
LEMMA Lengths ==
  ASSUME ListTypeOK, NEW l \in Lists
  PROVE  /\ Len(order[l]) \in Nat
         /\ DOMAIN order[l] = 1 .. Len(order[l])
         /\ \A i \in DOMAIN order[l] : order[l][i] \in Links
<1>1. order[l] \in Seq(Links)
  BY DEF ListTypeOK
<1>2. QED
  BY <1>1

(* The links of all rings, each counted once, are different.               *)
LEMMA Distinct ==
  ASSUME IInv, NEW l \in Lists, NEW m \in Lists,
         NEW i \in 0 .. Len(order[l]), NEW j \in 0 .. Len(order[m]),
         Nth(l, i) = Nth(m, j)
  PROVE  l = m /\ i = j
<1>1. /\ i \in DOMAIN order[l] \/ i = 0
      /\ j \in DOMAIN order[m] \/ j = 0
      /\ 0 \notin DOMAIN order[l] /\ 0 \notin DOMAIN order[m]
  BY Lengths DEF IInv
<1>2. \A k \in Links : k \notin Lists
  BY ListAssumption
<1>3. QED
  BY <1>1, <1>2, Lengths DEF IInv, Once, Nth

(* Positions lead to links; the one behind the last is the head again.     *)
LEMMA RingPositions ==
  ASSUME IInv, NEW l \in Lists
  PROVE  /\ \A i \in Nat : Nth(l, i) \in Lists \cup Links
         /\ Nth(l, 0) = l
         /\ Nth(l, Len(order[l]) + 1) = l
         /\ \A i \in DOMAIN order[l] : Nth(l, i) = order[l][i] /\ Nth(l, i) \in Links
         /\ next[l] = Nth(l, 1)
         /\ prev[l] = Nth(l, Len(order[l]))
<1>1. Nth(l, 0) = l /\ Nth(l, Len(order[l]) + 1) = l
  BY Lengths DEF IInv, Nth
<1>2. next[l] = Nth(l, 1) /\ prev[l] = Nth(l, Len(order[l]))
  <2>1. 0 \in 0 .. Len(order[l]) /\ Len(order[l]) \in 0 .. Len(order[l])
    BY Lengths DEF IInv
  <2>2. QED
    BY <1>1, <2>1 DEF IInv, Linked
<1>3. QED
  BY <1>1, <1>2, Lengths DEF IInv, Nth

(* list_empty tells whether the ring has elements.                         *)
LEMMA EmptyMeansNone ==
  ASSUME IInv, NEW l \in Lists
  PROVE  ListEmpty(l) <=> order[l] = << >>
<1>1. CASE order[l] = << >>
  BY <1>1, RingPositions DEF ListEmpty
<1>2. CASE order[l] # << >>
  <2>1. 1 \in DOMAIN order[l]
    <3>1. order[l] \in Seq(Links)
      BY DEF IInv, ListTypeOK
    <3>2. Len(order[l]) # 0
      BY <1>2, <3>1, EmptySeq
    <3>3. QED
      BY <3>2, Lengths DEF IInv
  <2>2. next[l] \in Links
    BY <2>1, RingPositions
  <2>3. QED
    BY <1>2, <2>2, ListAssumption DEF ListEmpty
<1>3. QED
  BY <1>1, <1>2

(* The invariant holds of the rings list_init makes.                       *)
LEMMA InitInv == ListInit => IInv
<1> SUFFICES ASSUME ListInit PROVE IInv
  OBVIOUS
<1>1. \A l \in Lists : order[l] = << >> /\ Len(order[l]) = 0 /\ DOMAIN order[l] = {}
  <2>1. \A l \in Lists : order[l] = << >>
    BY DEF ListInit
  <2>2. Len(<< >>) = 0 /\ DOMAIN << >> = {}
    OBVIOUS
  <2>3. QED
    BY <2>1, <2>2
<1>2. ListTypeOK
  BY DEF ListInit, ListTypeOK
<1>3. Linked
  BY <1>1 DEF ListInit, Linked, Nth
<1>4. Once
  BY <1>1 DEF Once
<1>5. Loose
  BY ListAssumption DEF ListInit, Loose
<1>6. QED
  BY <1>2, <1>3, <1>4, <1>5 DEF IInv

(* The sequence s with e behind its first k elements.                      *)
With(s, k, e) ==
  [j \in 1 .. Len(s) + 1 |-> IF j <= k THEN s[j] ELSE IF j = k + 1 THEN e ELSE s[j - 1]]

(* __list_add between any two neighbours of a ring puts the element there. *)
LEMMA LinkInserts ==
  ASSUME IInv, NEW l \in Lists, NEW e \in Links, Detached(e),
         NEW k \in 0 .. Len(order[l]),
         Link(Nth(l, k), Nth(l, k + 1), e),
         order' = [order EXCEPT ![l] = With(order[l], k, e)]
  PROVE  IInv'
<1> DEFINE n == Len(order[l])
           s == With(order[l], k, e)
           Moved(j) == IF j <= k THEN j ELSE j - 1
<1> USE DEF IInv
<1>1. /\ n \in Nat /\ DOMAIN order[l] = 1 .. n /\ DOMAIN s = 1 .. n + 1 /\ Len(s) = n + 1
      /\ order'[l] = s /\ \A m \in Lists \ {l} : order'[m] = order[m]
      /\ s \in Seq(Links)
      /\ \A j \in 1 .. n + 1 :
           s[j] = IF j <= k THEN order[l][j] ELSE IF j = k + 1 THEN e ELSE order[l][j - 1]
  <2>1. n \in Nat /\ DOMAIN order[l] = 1 .. n /\ \A j \in 1 .. n : order[l][j] \in Links
    BY Lengths
  <2>2. n + 1 \in Nat /\ s \in [1 .. n + 1 -> Links]
    <3>1. \A j \in 1 .. n + 1 :
            (IF j <= k THEN order[l][j] ELSE IF j = k + 1 THEN e ELSE order[l][j - 1]) \in Links
      BY <2>1
    <3>2. QED
      BY <2>1, <3>1 DEF With
  <2>3. s \in Seq(Links) /\ Len(s) = n + 1
    BY <2>2
  <2>4. order'[l] = s /\ \A m \in Lists \ {l} : order'[m] = order[m]
    BY DEF ListTypeOK
  <2>5. QED
    BY <2>1, <2>2, <2>3, <2>4 DEF With
<1> HIDE DEF s
<1>2. e \notin Lists /\ \A m \in Lists : \A j \in 0 .. Len(order[m]) + 1 : Nth(m, j) # e
  BY Lengths, ListAssumption DEF Detached, On, Nth
<1>3. Nth(l, k) \in Lists \cup Links /\ Nth(l, k + 1) \in Lists \cup Links
  BY RingPositions
<1>4. ListTypeOK'
  <2>1. next' \in [Lists \cup Links -> Lists \cup Links \cup {NULL, Junk}]
    BY <1>3 DEF Link, ListTypeOK
  <2>2. prev' \in [Lists \cup Links -> Lists \cup Links \cup {NULL, Junk}]
    BY <1>3 DEF Link, ListTypeOK
  <2>3. \A m \in Lists : {next'[m], prev'[m]} \subseteq Lists \cup Links
    BY <1>3, <1>2 DEF Link, ListTypeOK
  <2>4. order' \in [Lists -> Seq(Links)]
    BY <1>1 DEF ListTypeOK, s
  <2>5. QED
    BY <2>1, <2>2, <2>3, <2>4 DEF ListTypeOK
<1>5. \A m \in Lists \ {l} : \A j \in 0 .. Len(order[m]) + 1 : Nth(m, j)' = Nth(m, j)
  BY <1>1 DEF Nth
<1>6. /\ \A j \in 0 .. k : Nth(l, j)' = Nth(l, j)
      /\ Nth(l, k + 1)' = e
      /\ \A j \in k + 2 .. n + 2 : Nth(l, j)' = Nth(l, j - 1)
  BY <1>1 DEF Nth
<1>7. /\ \A x \in Lists \cup Links : x # e /\ x # Nth(l, k) => next'[x] = next[x]
      /\ \A x \in Lists \cup Links : x # e /\ x # Nth(l, k + 1) => prev'[x] = prev[x]
      /\ next'[e] = Nth(l, k + 1) /\ prev'[e] = Nth(l, k)
      /\ next'[Nth(l, k)] = e /\ prev'[Nth(l, k + 1)] = e
  <2>1. Nth(l, k) # e /\ Nth(l, k + 1) # e
    BY <1>2, <1>1
  <2>2. QED
    BY <1>3, <2>1 DEF Link, ListTypeOK
<1>8. Linked'
  <2>1. ASSUME NEW m \in Lists \ {l}, NEW i \in 0 .. Len(order[m])
        PROVE  next'[Nth(m, i)] = Nth(m, i + 1) /\ prev'[Nth(m, i + 1)] = Nth(m, i)
    <3>1. Len(order[m]) \in Nat
      BY Lengths
    <3>2. Nth(m, i) # e /\ Nth(m, i + 1) # e
      BY <1>2, <3>1
    <3>3. Nth(m, i) # Nth(l, k)
      BY Distinct
    <3>4. Nth(m, i + 1) # Nth(l, k + 1)
      <4>1. PICK a \in 0 .. Len(order[m]) : Nth(m, a) = Nth(m, i + 1)
        BY <3>1, RingPositions
      <4>2. PICK b \in 0 .. n : Nth(l, b) = Nth(l, k + 1)
        BY <1>1, RingPositions
      <4>3. QED
        BY <4>1, <4>2, Distinct
    <3>5. Nth(m, i) \in Lists \cup Links /\ Nth(m, i + 1) \in Lists \cup Links
      BY <3>1, RingPositions
    <3>6. QED
      BY <3>2, <3>3, <3>4, <3>5, <1>7 DEF Linked
  <2>2. ASSUME NEW i \in 0 .. n, i # k
        PROVE  next'[Nth(l, i)] = Nth(l, i + 1) /\ prev'[Nth(l, i + 1)] = Nth(l, i)
    <3>1. Nth(l, i) # e /\ Nth(l, i + 1) # e
      BY <1>2, <1>1
    <3>2. Nth(l, i) # Nth(l, k)
      BY <2>2, Distinct
    <3>3. Nth(l, i + 1) # Nth(l, k + 1)
      <4>1. PICK a \in 0 .. n : Nth(l, a) = Nth(l, i + 1) /\ a = IF i = n THEN 0 ELSE i + 1
        BY <1>1, RingPositions
      <4>2. PICK b \in 0 .. n : Nth(l, b) = Nth(l, k + 1) /\ b = IF k = n THEN 0 ELSE k + 1
        BY <1>1, RingPositions
      <4>3. a # b
        BY <4>1, <4>2, <2>2, <1>1
      <4>4. QED
        BY <4>1, <4>2, <4>3, Distinct
    <3>4. Nth(l, i) \in Lists \cup Links /\ Nth(l, i + 1) \in Lists \cup Links
      BY <1>1, RingPositions
    <3>5. QED
      BY <3>1, <3>2, <3>3, <3>4, <1>7 DEF Linked
  <2>3. ASSUME NEW i \in 0 .. n + 1
        PROVE  next'[Nth(l, i)'] = Nth(l, i + 1)' /\ prev'[Nth(l, i + 1)'] = Nth(l, i)'
    <3>1. CASE i < k
      BY <3>1, <1>1, <1>6, <2>2
    <3>2. CASE i = k
      BY <3>2, <1>1, <1>6, <1>7
    <3>3. CASE i = k + 1
      BY <3>3, <1>1, <1>6, <1>7
    <3>4. CASE i > k + 1
      <4>1. /\ i - 1 \in 0 .. n /\ i - 1 # k
            /\ Nth(l, i)' = Nth(l, i - 1) /\ Nth(l, i + 1)' = Nth(l, (i - 1) + 1)
        BY <3>4, <1>1, <1>6
      <4>2. QED
        BY <4>1, <2>2
    <3>5. QED
      BY <3>1, <3>2, <3>3, <3>4, <1>1
  <2>4. \A m \in Lists \ {l} : \A i \in 0 .. Len(order[m]) :
          next'[Nth(m, i)'] = Nth(m, i + 1)' /\ prev'[Nth(m, i + 1)'] = Nth(m, i)'
    BY <2>1, <1>5, Lengths
  <2>5. QED
    BY <2>3, <2>4, <1>1 DEF Linked
<1>9. Once'
  <2>1. \A j \in 1 .. n + 1 : j # k + 1 => Moved(j) \in 1 .. n /\ s[j] = order[l][Moved(j)]
    BY <1>1
  <2>2. s[k + 1] = e
    BY <1>1
  <2>3. \A m \in Lists : \A i \in DOMAIN order[m] : order[m][i] # e
    BY DEF Detached, On
  <2>4. ASSUME NEW m \in Lists \ {l}, NEW i \in DOMAIN order[m], NEW j \in 1 .. n + 1
        PROVE  order[m][i] # s[j]
    <3>1. CASE j = k + 1
      BY <3>1, <2>2, <2>3
    <3>2. CASE j # k + 1
      BY <3>2, <2>1, <1>1 DEF Once
    <3>3. QED
      BY <3>1, <3>2
  <2>5. ASSUME NEW i \in 1 .. n + 1, NEW j \in 1 .. n + 1, s[i] = s[j] PROVE i = j
    <3>1. CASE i = k + 1 \/ j = k + 1
      BY <3>1, <2>1, <2>2, <2>3, <2>5, <1>1
    <3>2. CASE i # k + 1 /\ j # k + 1
      <4>1. Moved(i) = Moved(j)
        <5>1. /\ Moved(i) \in DOMAIN order[l] /\ Moved(j) \in DOMAIN order[l]
              /\ order[l][Moved(i)] = order[l][Moved(j)]
          BY <3>2, <2>1, <2>5, <1>1
        <5>2. QED
          BY ONLY <5>1, Once, l \in Lists DEF Once
      <4>2. QED
        BY <4>1, <3>2, <1>1
    <3>3. QED
      BY <3>1, <3>2
  <2>6. QED
    BY <2>4, <2>5, <1>1 DEF Once
<1>10. Loose'
  <2>1. ASSUME NEW x \in Links, Detached(x)'
        PROVE  Detached(x) /\ x # e /\ x # Nth(l, k) /\ x # Nth(l, k + 1)
    <3>1. \A j \in 1 .. n + 1 : s[j] # x
      BY <2>1, <1>1 DEF Detached, On
    <3>2. x # e
      <4>1. s[k + 1] = e /\ k + 1 \in 1 .. n + 1
        BY <1>1
      <4>2. QED
        BY <4>1, <3>1
    <3>3. \A j \in 1 .. n : order[l][j] # x
      <4>1. ASSUME NEW j \in 1 .. n PROVE order[l][j] # x
        <5>1. CASE j <= k
          <6>1. s[j] = order[l][j] /\ j \in 1 .. n + 1
            BY <5>1, <1>1
          <6>2. QED
            BY <6>1, <3>1
        <5>2. CASE j > k
          <6>1. s[j + 1] = order[l][(j + 1) - 1] /\ j + 1 \in 1 .. n + 1 /\ (j + 1) - 1 = j
            BY <5>2, <1>1
          <6>2. QED
            BY <6>1, <3>1
        <5>3. QED
          BY <5>1, <5>2
      <4>2. QED
        BY <4>1
    <3>4. \A m \in Lists \ {l} : ~On(m, x)
      BY <2>1, <1>1 DEF Detached, On
    <3>5. Detached(x)
      BY <3>3, <3>4, <1>1 DEF Detached, On
    <3>6. x \notin Lists
      BY ListAssumption
    <3>7. QED
      BY <3>2, <3>3, <3>5, <3>6, <1>1 DEF Nth
  <2>2. QED
    BY <2>1, <1>7 DEF Loose
<1>11. QED
  BY <1>4, <1>8, <1>9, <1>10

(* Putting an element in front is inserting it behind the head.            *)
LEMMA AddHeadInserts ==
  ASSUME IInv, NEW l \in Lists, NEW e \in Links, ListAddHead(l, e)
  PROVE  IInv'
<1>1. order[l] \in Seq(Links) /\ Len(order[l]) \in Nat
  BY Lengths DEF IInv, ListTypeOK
<1>2. <<e>> \o order[l] = With(order[l], 0, e)
  BY <1>1 DEF With
<1>3. Link(Nth(l, 0), Nth(l, 0 + 1), e)
  BY RingPositions DEF ListAddHead
<1>4. Detached(e) /\ order' = [order EXCEPT ![l] = With(order[l], 0, e)]
  BY <1>2 DEF ListAddHead
<1>5. \A k \in 0 .. Len(order[l]) :
        /\ Link(Nth(l, k), Nth(l, k + 1), e)
        /\ order' = [order EXCEPT ![l] = With(order[l], k, e)]
        => IInv'
  BY <1>4, LinkInserts
<1>6. 0 \in 0 .. Len(order[l])
  BY <1>1
<1>7. QED
  BY <1>3, <1>4, <1>5, <1>6, Zenon

(* Putting an element at the end is inserting it before the head.          *)
LEMMA AddTailInserts ==
  ASSUME IInv, NEW l \in Lists, NEW e \in Links, ListAddTail(l, e)
  PROVE  IInv'
<1>1. order[l] \in Seq(Links) /\ Len(order[l]) \in Nat
  BY Lengths DEF IInv, ListTypeOK
<1>2. Append(order[l], e) = With(order[l], Len(order[l]), e)
  BY <1>1 DEF With
<1>3. Link(Nth(l, Len(order[l])), Nth(l, Len(order[l]) + 1), e)
  BY RingPositions DEF ListAddTail
<1>4. Detached(e) /\ order' = [order EXCEPT ![l] = With(order[l], Len(order[l]), e)]
  BY <1>2 DEF ListAddTail
<1>5. \A k \in 0 .. Len(order[l]) :
        /\ Link(Nth(l, k), Nth(l, k + 1), e)
        /\ order' = [order EXCEPT ![l] = With(order[l], k, e)]
        => IInv'
  BY <1>4, LinkInserts
<1>6. Len(order[l]) \in 0 .. Len(order[l])
  BY <1>1
<1>7. QED
  BY <1>3, <1>4, <1>5, <1>6, Zenon

(* list_del closes the ring over the element, wherever it is.              *)
LEMMA DelRemoves ==
  ASSUME IInv, NEW l \in Lists, NEW k \in DOMAIN order[l], ListDel(l, k)
  PROVE  IInv'
<1> DEFINE n == Len(order[l])
           e == order[l][k]
           s == [j \in 1 .. n - 1 |-> IF j < k THEN order[l][j] ELSE order[l][j + 1]]
           Kept(j) == IF j < k THEN j ELSE j + 1
<1> USE DEF IInv
<1>1. /\ n \in Nat /\ DOMAIN order[l] = 1 .. n /\ k \in 1 .. n /\ n - 1 \in Nat
      /\ e \in Links /\ e \notin Lists
  BY Lengths, ListAssumption
<1>2. s \in Seq(Links) /\ Len(s) = n - 1 /\ DOMAIN s = 1 .. n - 1
  <2>1. s \in [1 .. n - 1 -> Links]
    BY <1>1, Lengths
  <2>2. QED
    BY <2>1, <1>1, SeqDef
<1>3. order' = [order EXCEPT ![l] = s]
  BY DEF ListDel
<1>4. order'[l] = s /\ \A m \in Lists \ {l} : order'[m] = order[m]
  BY <1>3 DEF ListTypeOK
<1>5. /\ Nth(l, k) = e /\ Nth(l, k - 1) # e /\ Nth(l, k + 1) # e
      /\ next[e] = Nth(l, k + 1) /\ prev[e] = Nth(l, k - 1)
      /\ Nth(l, k - 1) \in Lists \cup Links /\ Nth(l, k + 1) \in Lists \cup Links
  <2>1. Nth(l, k) = e
    BY DEF Nth
  <2>2. k - 1 \in 0 .. n /\ k \in 0 .. n /\ (k - 1) + 1 = k /\ k + 1 \in Nat
    BY <1>1
  <2>3. next[Nth(l, k)] = Nth(l, k + 1) /\ prev[Nth(l, (k - 1) + 1)] = Nth(l, k - 1)
    BY <2>2 DEF Linked
  <2>4. Nth(l, k - 1) # e
    BY <2>1, <2>2, <1>1, Distinct
  <2>5. Nth(l, k + 1) # e
    <3>1. CASE k = n
      BY <3>1, <1>1, RingPositions
    <3>2. CASE k # n
      <4>1. k + 1 \in 0 .. n
        BY <3>2, <1>1
      <4>2. QED
        BY <4>1, <2>1, <2>2, <1>1, Distinct
    <3>3. QED
      BY <3>1, <3>2
  <2>6. QED
    BY <2>1, <2>2, <2>3, <2>4, <2>5, RingPositions
<1>6. /\ \A x \in Lists \cup Links : x # e /\ x # Nth(l, k - 1) => next'[x] = next[x]
      /\ \A x \in Lists \cup Links : x # e /\ x # Nth(l, k + 1) => prev'[x] = prev[x]
      /\ next'[e] = NULL /\ prev'[e] = NULL
      /\ next'[Nth(l, k - 1)] = Nth(l, k + 1) /\ prev'[Nth(l, k + 1)] = Nth(l, k - 1)
  BY <1>1, <1>5 DEF ListDel, ListTypeOK
<1>7. ListTypeOK'
  <2>1. next' \in [Lists \cup Links -> Lists \cup Links \cup {NULL, Junk}]
    BY <1>5 DEF ListDel, ListTypeOK
  <2>2. prev' \in [Lists \cup Links -> Lists \cup Links \cup {NULL, Junk}]
    BY <1>5 DEF ListDel, ListTypeOK
  <2>3. ASSUME NEW m \in Lists PROVE {next'[m], prev'[m]} \subseteq Lists \cup Links
    <3>1. m \in Lists \cup Links /\ m # e
      BY <1>1
    <3>2. next[m] \in Lists \cup Links /\ prev[m] \in Lists \cup Links
      BY DEF ListTypeOK
    <3>3. next'[m] \in Lists \cup Links
      BY <3>1, <3>2, <1>5, <1>6
    <3>4. prev'[m] \in Lists \cup Links
      BY <3>1, <3>2, <1>5, <1>6
    <3>5. QED
      BY <3>3, <3>4
  <2>4. order' \in [Lists -> Seq(Links)]
    BY <1>2, <1>3 DEF ListTypeOK
  <2>5. QED
    BY <2>1, <2>2, <2>3, <2>4 DEF ListTypeOK
<1>8. \A m \in Lists \ {l} : \A j \in 0 .. Len(order[m]) + 1 : Nth(m, j)' = Nth(m, j)
  BY <1>4 DEF Nth
<1>9. /\ \A j \in 0 .. k - 1 : Nth(l, j)' = Nth(l, j)
      /\ \A j \in k .. n : Nth(l, j)' = Nth(l, j + 1)
  BY <1>1, <1>2, <1>4 DEF Nth
<1>10. Linked'
  <2>1. ASSUME NEW m \in Lists \ {l}, NEW i \in 0 .. Len(order[m])
        PROVE  next'[Nth(m, i)] = Nth(m, i + 1) /\ prev'[Nth(m, i + 1)] = Nth(m, i)
    <3>1. Len(order[m]) \in Nat
      BY Lengths
    <3>2. PICK a \in 0 .. Len(order[m]) : Nth(m, a) = Nth(m, i + 1)
      BY <3>1, RingPositions
    <3>3. PICK b \in 0 .. n : Nth(l, b) = Nth(l, k + 1)
      BY <1>1, RingPositions
    <3>4. k \in 0 .. n /\ k - 1 \in 0 .. n
      BY <1>1
    <3>5. Nth(m, i) # e /\ Nth(m, i + 1) # e
      BY <3>2, <3>4, <1>5, Distinct
    <3>6. Nth(m, i) # Nth(l, k - 1) /\ Nth(m, i + 1) # Nth(l, k + 1)
      BY <3>2, <3>3, <3>4, Distinct
    <3>7. Nth(m, i) \in Lists \cup Links /\ Nth(m, i + 1) \in Lists \cup Links
      BY <3>1, RingPositions
    <3>8. QED
      BY <3>5, <3>6, <3>7, <1>6 DEF Linked
  <2>2. ASSUME NEW i \in 0 .. n, i # k, i # k - 1
        PROVE  next'[Nth(l, i)] = Nth(l, i + 1) /\ prev'[Nth(l, i + 1)] = Nth(l, i)
    <3>1. PICK a \in 0 .. n : Nth(l, a) = Nth(l, i + 1) /\ a = IF i = n THEN 0 ELSE i + 1
      BY <1>1, RingPositions
    <3>2. PICK b \in 0 .. n : Nth(l, b) = Nth(l, k + 1) /\ b = IF k = n THEN 0 ELSE k + 1
      BY <1>1, RingPositions
    <3>3. a # b /\ a # k /\ k \in 0 .. n /\ k - 1 \in 0 .. n
      BY <3>1, <3>2, <2>2, <1>1
    <3>4. Nth(l, i) # e /\ Nth(l, i + 1) # e
      BY <3>1, <3>3, <2>2, <1>5, Distinct
    <3>5. Nth(l, i) # Nth(l, k - 1) /\ Nth(l, i + 1) # Nth(l, k + 1)
      BY <3>1, <3>2, <3>3, <2>2, Distinct
    <3>6. Nth(l, i) \in Lists \cup Links /\ Nth(l, i + 1) \in Lists \cup Links
      BY <1>1, RingPositions
    <3>7. QED
      BY <3>4, <3>5, <3>6, <1>6 DEF Linked
  <2>3. ASSUME NEW i \in 0 .. n - 1
        PROVE  next'[Nth(l, i)'] = Nth(l, i + 1)' /\ prev'[Nth(l, i + 1)'] = Nth(l, i)'
    <3>1. CASE i < k - 1
      BY <3>1, <1>1, <1>9, <2>2
    <3>2. CASE i = k - 1
      BY <3>2, <1>1, <1>9, <1>6
    <3>3. CASE i >= k
      <4>1. /\ i + 1 \in 0 .. n /\ i + 1 # k /\ i + 1 # k - 1
            /\ Nth(l, i)' = Nth(l, i + 1) /\ Nth(l, i + 1)' = Nth(l, (i + 1) + 1)
        BY <3>3, <1>1, <1>9
      <4>2. QED
        BY <4>1, <2>2
    <3>4. QED
      BY <3>1, <3>2, <3>3, <1>1
  <2>4. \A m \in Lists \ {l} : \A i \in 0 .. Len(order[m]) :
          next'[Nth(m, i)'] = Nth(m, i + 1)' /\ prev'[Nth(m, i + 1)'] = Nth(m, i)'
    BY <2>1, <1>8, Lengths
  <2>5. QED
    BY <2>3, <2>4, <1>2, <1>4 DEF Linked
<1>11. \A j \in 1 .. n - 1 : Kept(j) \in 1 .. n /\ Kept(j) # k /\ s[j] = order[l][Kept(j)]
  BY <1>1
<1>12. Once'
  <2> HIDE DEF s
  <2>1. ASSUME NEW m \in Lists \ {l}, NEW i \in DOMAIN order[m], NEW j \in 1 .. n - 1
        PROVE  order[m][i] # s[j]
    BY <1>1, <1>11 DEF Once
  <2>2. ASSUME NEW i \in 1 .. n - 1, NEW j \in 1 .. n - 1, s[i] = s[j] PROVE i = j
    <3>1. Kept(i) \in DOMAIN order[l] /\ Kept(j) \in DOMAIN order[l]
          /\ order[l][Kept(i)] = order[l][Kept(j)]
      BY <2>2, <1>1, <1>11
    <3>2. Kept(i) = Kept(j)
      BY ONLY <3>1, Once, l \in Lists DEF Once
    <3>3. QED
      BY <3>2, <1>1
  <2>3. QED
    BY <2>1, <2>2, <1>2, <1>4 DEF Once
<1>13. Loose'
  <2>1. ASSUME NEW x \in Links, Detached(x)', x # e
        PROVE  Detached(x) /\ x # Nth(l, k - 1) /\ x # Nth(l, k + 1)
    <3>1. \A j \in 1 .. n - 1 : s[j] # x
      <4> HIDE DEF s
      <4>1. \A j \in DOMAIN order'[l] : order'[l][j] # x
        BY <2>1 DEF Detached, On
      <4>2. QED
        BY <4>1, <1>2, <1>4
    <3>2. ASSUME NEW j \in 1 .. n PROVE order[l][j] # x
      <4>1. CASE j < k
        <5>1. j \in 1 .. n - 1 /\ s[j] = order[l][j]
          BY <4>1, <1>1
        <5>2. QED
          BY <5>1, <3>1
      <4>2. CASE j = k
        BY <4>2, <2>1
      <4>3. CASE j > k
        <5>1. j - 1 \in 1 .. n - 1 /\ s[j - 1] = order[l][(j - 1) + 1] /\ (j - 1) + 1 = j
          BY <4>3, <1>1
        <5>2. QED
          BY <5>1, <3>1
      <4>4. QED
        BY <4>1, <4>2, <4>3, <1>1
    <3>3. \A m \in Lists \ {l} : ~On(m, x)
      BY <2>1, <1>4 DEF Detached, On
    <3>4. Detached(x)
      BY <3>2, <3>3, <1>1 DEF Detached, On
    <3>5. x \notin Lists
      BY ListAssumption
    <3>6. QED
      BY <3>2, <3>4, <3>5, <1>1 DEF Nth
  <2>2. QED
    BY <2>1, <1>6 DEF Loose
<1>14. QED
  BY <1>7, <1>10, <1>12, <1>13

(* Every operation keeps the invariant.                                    *)
LEMMA StepInv == IInv /\ [ListNext]_listVars => IInv'
<1> SUFFICES ASSUME IInv, [ListNext]_listVars PROVE IInv'
  OBVIOUS
<1>1. CASE UNCHANGED listVars
  BY <1>1 DEF listVars, IInv, ListTypeOK, Linked, Once, Loose, Nth, Detached, On
<1>2. CASE ListNext
  BY <1>2, AddHeadInserts, AddTailInserts, DelRemoves DEF ListNext
<1>3. QED
  BY <1>1, <1>2

(* The conjunction of types and link structure is inductive.               *)
THEOREM InductiveInvariant == ListSpec => []IInv
  BY InitInv, StepInv, PTL DEF ListSpec

(* Pointers lead to links or nowhere, those of heads always to links.      *)
THEOREM ListTypeCorrect == ListSpec => []ListTypeOK
<1>1. IInv => ListTypeOK
  BY DEF IInv
<1>2. QED
  BY InductiveInvariant, <1>1, PTL

(* Whatever is added to and deleted from any number of lists, every ring   *)
(* shows its elements in order, forwards and backwards.                    *)
THEOREM RingsKeepOrder == ListSpec => []RingOrder
<1>1. IInv => RingOrder
  BY EmptyMeansNone DEF IInv, RingOrder
<1>2. QED
  BY InductiveInvariant, <1>1, PTL
-----------------------------------------------------------------------------
(* A new array has room and no elements.                                   *)
LEMMA ArrayInitType == ArrayInit => ArrayTypeOK
  BY ArrayAssumption DEF ArrayInit, ArrayTypeOK

(* Room has room for one element more and keeps the ones there.            *)
LEMMA RoomKeeps ==
  ASSUME ArrayTypeOK
  PROVE  /\ RoomCapacity \in Nat \ {0} /\ size < RoomCapacity /\ capacity <= RoomCapacity
         /\ size \in Nat
         /\ DOMAIN Room = 0 .. RoomCapacity - 1
         /\ Room \in [0 .. RoomCapacity - 1 -> Elems \cup {NONE}]
         /\ \A i \in 0 .. size - 1 : Room[i] = cells[i]
         /\ memory = "sound" => \A i \in 0 .. size - 1 : Room[i] \in Elems
<1>1. /\ RoomCapacity \in Nat \ {0} /\ size < RoomCapacity /\ capacity <= RoomCapacity
      /\ size \in Nat
  BY DEF ArrayTypeOK, RoomCapacity, Full
<1>2. Room \in [0 .. RoomCapacity - 1 -> Elems \cup {NONE}]
  <2>1. \A i \in 0 .. RoomCapacity - 1 :
          (IF i < capacity THEN cells[i] ELSE NONE) \in Elems \cup {NONE}
    BY <1>1 DEF ArrayTypeOK
  <2>2. QED
    BY <2>1 DEF Room
<1>3. /\ \A i \in 0 .. size - 1 : Room[i] = cells[i]
      /\ memory = "sound" => \A i \in 0 .. size - 1 : Room[i] \in Elems
  BY <1>1 DEF Room, ArrayTypeOK
<1>4. QED
  BY <1>1, <1>2, <1>3

(* What an insert makes of the block.                                      *)
LEMMA InsertKeeps ==
  ASSUME ArrayTypeOK, NEW p \in Nat, p <= size, NEW e \in Elems
  PROVE  /\ ShiftedUp(Room, p, e) \in [0 .. RoomCapacity - 1 -> Elems \cup {NONE}]
         /\ \A i \in 0 .. size : ShiftedUp(Room, p, e)[i] =
                                   IF i < p THEN cells[i]
                                   ELSE IF i = p THEN e ELSE cells[i - 1]
         /\ memory = "sound" => \A i \in 0 .. size : ShiftedUp(Room, p, e)[i] \in Elems
<1> DEFINE shifted(i) == IF i = p THEN e
                         ELSE IF p < i /\ i <= size THEN Room[i - 1] ELSE Room[i]
<1>1. ShiftedUp(Room, p, e) = [i \in 0 .. RoomCapacity - 1 |-> shifted(i)]
  BY RoomKeeps DEF ShiftedUp
<1>2. \A i \in 0 .. RoomCapacity - 1 : shifted(i) \in Elems \cup {NONE}
  BY RoomKeeps
<1>3. \A i \in 0 .. size : /\ i \in 0 .. RoomCapacity - 1
                           /\ memory = "sound" => shifted(i) \in Elems
                           /\ shifted(i) = IF i < p THEN cells[i]
                                           ELSE IF i = p THEN e ELSE cells[i - 1]
  BY RoomKeeps
<1> HIDE DEF shifted
<1>4. QED
  BY <1>1, <1>2, <1>3

(* Every call keeps the types.                                             *)
LEMMA ArrayTypeStep == ArrayTypeOK /\ [ArrayNext]_arrayVars => ArrayTypeOK'
<1> SUFFICES ASSUME ArrayTypeOK, [ArrayNext]_arrayVars PROVE ArrayTypeOK'
  OBVIOUS
<1>a. /\ capacity \in Nat \ {0} /\ size \in Nat /\ size <= capacity
      /\ Positions \subseteq Nat
  BY ArrayAssumption DEF ArrayTypeOK, Positions
<1>1. CASE UNCHANGED <<cells, capacity, size>> /\ memory' \in {memory, "crashed"}
  BY <1>1 DEF ArrayTypeOK
<1>2. CASE /\ UNCHANGED <<cells, capacity, memory>>
           /\ size' \in 0 .. size
  <2>1. PICK n \in 0 .. size : size' = n
    BY <1>2
  <2>2. n \in 0 .. capacity /\ \A i \in 0 .. n - 1 : i \in 0 .. size - 1
    BY <1>a
  <2>3. memory = "sound" => \A i \in 0 .. size' - 1 : cells'[i] \in Elems
    BY <2>1, <2>2, <1>2 DEF ArrayTypeOK
  <2>4. QED
    BY <2>1, <2>2, <2>3, <1>2 DEF ArrayTypeOK
<1>3. ASSUME NEW e \in Elems, ArrayPushBack(e) PROVE ArrayTypeOK'
  BY <1>3, RoomKeeps DEF ArrayPushBack, ArrayTypeOK
<1>4. ASSUME NEW p \in Nat, p <= size, NEW e \in Elems,
             cells' = ShiftedUp(Room, p, e), capacity' = RoomCapacity,
             size' = size + 1, memory' = memory
      PROVE  ArrayTypeOK'
  <2>1. size' - 1 = size
    BY <1>4, <1>a
  <2>2. QED
    BY <1>4, <2>1, RoomKeeps, InsertKeeps DEF ArrayTypeOK
<1>5. ASSUME NEW p \in Nat, p < size, NEW op, Erase(op, p) PROVE ArrayTypeOK'
  <2>1. \A i \in 0 .. capacity - 1 :
          (IF i = size - 1 THEN NONE
           ELSE IF p <= i /\ i < size THEN cells[i + 1] ELSE cells[i]) \in Elems \cup {NONE}
    BY <1>a DEF ArrayTypeOK
  <2>2. cells' \in [0 .. capacity - 1 -> Elems \cup {NONE}]
    BY <2>1, <1>5 DEF Erase, ArrayTypeOK
  <2>3. memory = "sound" => \A i \in 0 .. size - 2 : cells'[i] \in Elems
    BY <1>5, <1>a DEF Erase, ArrayTypeOK
  <2>4. size' = size - 1 /\ capacity' = capacity /\ memory' = memory
    BY <1>5 DEF Erase
  <2>5. QED
    BY <2>2, <2>3, <2>4, <1>5, <1>a DEF ArrayTypeOK
<1>6. CASE ArraySort
  <2>1. PICK f \in [0 .. size - 1 -> 0 .. size - 1] :
          cells' = [i \in DOMAIN cells |-> IF i < size THEN cells[f[i]] ELSE cells[i]]
    BY <1>6 DEF ArraySort
  <2>2. \A i \in 0 .. capacity - 1 :
          (IF i < size THEN cells[f[i]] ELSE cells[i]) \in Elems \cup {NONE}
    BY <1>a DEF ArrayTypeOK
  <2>3. cells' \in [0 .. capacity - 1 -> Elems \cup {NONE}]
    BY <2>1, <2>2 DEF ArrayTypeOK
  <2>4. memory = "sound" => \A i \in 0 .. size - 1 : cells'[i] \in Elems
    BY <2>1, <1>a DEF ArrayTypeOK
  <2>5. QED
    BY <2>3, <2>4, <1>6 DEF ArraySort, ArrayTypeOK
<1>7. CASE ArrayPopBack \/ ArrayClear
  BY <1>7, <1>2, <1>1, <1>a DEF ArrayPopBack, ArrayClear
<1>8. ASSUME NEW p \in Positions, NEW e \in Elems, ArrayInsert(p, e) \/ ArrayInsertAt(p, e)
      PROVE  ArrayTypeOK'
  <2>1. p \in Nat
    BY <1>a
  <2>2. CASE /\ cells' \in [0 .. RoomCapacity - 1 -> Elems \cup {NONE}]
             /\ capacity' = RoomCapacity /\ size' = size + 1 /\ memory' = "stale_iterator"
    BY <2>2, RoomKeeps DEF ArrayTypeOK
  <2>3. QED
    BY <1>8, <2>1, <2>2, <1>a, <1>1, <1>4 DEF ArrayInsert, ArrayInsertAt, Insert
<1>9. ASSUME NEW p \in Positions, ArrayErase(p) \/ ArrayEraseAt(p) PROVE ArrayTypeOK'
  <2>1. p \in Nat
    BY <1>a
  <2>2. QED
    BY <1>9, <2>1, <1>1, <1>5 DEF ArrayErase, ArrayEraseAt
<1>10. CASE UNCHANGED <<cells, capacity, size, memory>>
  BY <1>10, <1>1
<1>11. QED
  BY <1>3, <1>6, <1>7, <1>8, <1>9, <1>10
  DEF ArrayNext, ArrayFind, ArrayAt, arrayVars

(* The size stays within the block, whatever the array is used for, and    *)
(* while memory is sound there is an element in every slot below it.       *)
THEOREM ArrayTypeCorrect == ArraySpec => []ArrayTypeOK
  BY ArrayInitType, ArrayTypeStep, PTL DEF ArraySpec
-----------------------------------------------------------------------------
(* The contents are a sequence as long as the size says.                   *)
LEMMA ContentsSeq ==
  ASSUME ArrayTypeOK, memory = "sound"
  PROVE  /\ Contents \in Seq(Elems) /\ Len(Contents) = size /\ DOMAIN Contents = 1 .. size
         /\ size \in Nat
         /\ \A i \in 1 .. size : Contents[i] = cells[i - 1]
<1>1. size \in Nat /\ \A i \in 1 .. size : cells[i - 1] \in Elems
  BY DEF ArrayTypeOK
<1>2. QED
  BY <1>1 DEF Contents

(* What is spoilt stays so.                                                *)
LEMMA SoundBefore == [ArrayNext]_arrayVars /\ memory' = "sound" => memory = "sound"
  BY DEF ArrayNext, ArrayPushBack, ArrayPopBack, ArrayInsert, ArrayInsertAt, Insert, ArrayErase,
    ArrayEraseAt, Erase, ArrayClear, ArraySort, ArrayAt, ArrayFind, arrayVars

(* While memory is sound, every call does to the contents what array.h     *)
(* says.                                                                   *)
LEMMA ArrayImplementsStep ==
  ArrayTypeOK /\ ArrayTypeOK' /\ [ArrayNext]_arrayVars
    => [memory' = "sound" => Abstract!SeqNext]_(Abstract!seqVars)
<1> SUFFICES ASSUME ArrayTypeOK, ArrayTypeOK', [ArrayNext]_arrayVars, memory' = "sound"
             PROVE  [Abstract!SeqNext]_(Abstract!seqVars)
  OBVIOUS
<1> USE DEF Call, Abstract!Call
<1>a. /\ Contents \in Seq(Elems) /\ Len(Contents) = size /\ DOMAIN Contents = 1 .. size
      /\ size \in Nat /\ capacity \in Nat /\ size <= capacity
      /\ DOMAIN cells = 0 .. capacity - 1
      /\ \A i \in 1 .. size : Contents[i] = cells[i - 1]
      /\ Positions \subseteq Nat
      /\ size = 0 <=> Contents = << >>
  <2>1. Positions \subseteq Nat
    BY ArrayAssumption DEF Positions
  <2>2. memory = "sound"
    BY SoundBefore
  <2>3. size = 0 <=> Contents = << >>
    BY <2>2, ContentsSeq
  <2>4. QED
    BY <2>1, <2>2, <2>3, ContentsSeq DEF ArrayTypeOK
<1>b. Contents' = [i \in 1 .. size' |-> cells'[i - 1]]
  BY DEF Contents
<1>1. ASSUME NEW e \in Elems, ArrayPushBack(e) PROVE Abstract!SeqPushBack(e)
  <2>1. size' = size + 1 /\ \A i \in 0 .. size : cells'[i] = IF i = size THEN e ELSE cells[i]
    BY <1>1, RoomKeeps, <1>a DEF ArrayPushBack
  <2>2. Append(Contents, e) = [i \in 1 .. size + 1 |-> IF i = size + 1 THEN e ELSE Contents[i]]
    <3> DEFINE t == [i \in 1 .. size + 1 |-> IF i = size + 1 THEN e ELSE Contents[i]]
    <3>1. \A i \in 1 .. size : Contents[i] \in Elems
      BY <1>a, ElementOfSeq
    <3>2. t \in Seq(Elems) /\ Len(t) = size + 1
      BY <3>1, <1>a
    <3>3. /\ Append(Contents, e) \in Seq(Elems) /\ Len(Append(Contents, e)) = size + 1
          /\ \A i \in 1 .. size : Append(Contents, e)[i] = Contents[i]
          /\ Append(Contents, e)[size + 1] = e
      BY <1>a, AppendProperties
    <3>4. \A i \in 1 .. size + 1 : Append(Contents, e)[i] = t[i]
      BY <3>3, <1>a
    <3> HIDE DEF t
    <3>5. Append(Contents, e) = t
      BY <3>2, <3>3, <3>4, SeqEqual
    <3>6. QED
      BY <3>5 DEF t
  <2>3. Contents' = Append(Contents, e)
    BY <2>1, <2>2, <1>a, <1>b
  <2>4. QED
    BY <2>3, <1>1 DEF ArrayPushBack, Abstract!SeqPushBack
<1>2. ASSUME NEW p \in Nat, p <= size, NEW e \in Elems,
             cells' = ShiftedUp(Room, p, e), size' = size + 1
      PROVE  Contents' = Abstract!Inserted(Contents, p, e)
  <2>1. \A i \in 1 .. size + 1 :
          cells'[i - 1] = IF i <= p THEN Contents[i]
                          ELSE IF i = p + 1 THEN e ELSE Contents[i - 1]
    <3>1. \A i \in 0 .. size : cells'[i] = IF i < p THEN cells[i]
                                           ELSE IF i = p THEN e ELSE cells[i - 1]
      BY <1>2, InsertKeeps
    <3>2. TAKE i \in 1 .. size + 1
    <3>3. i - 1 \in 0 .. size /\ (i - 1 < p <=> i <= p) /\ (i - 1 = p <=> i = p + 1)
      BY <1>a, <1>2
    <3>4. i <= p => Contents[i] = cells[i - 1]
      BY <1>a, <1>2
    <3>5. i > p + 1 => i - 1 \in 1 .. size
      BY <1>a, <1>2
    <3>6. i > p + 1 => Contents[i - 1] = cells[i - 1 - 1]
      BY <1>a, <3>5
    <3>7. i \in Nat /\ p \in Nat
      BY <1>a, <1>2
    <3>8. QED
      BY ONLY <3>1, <3>3, <3>4, <3>6, <3>7
  <2>2. QED
    BY <2>1, <1>2, <1>a, <1>b DEF Abstract!Inserted
<1>3. ASSUME NEW p \in Nat, p < size, NEW op, Erase(op, p)
      PROVE  Contents' = Abstract!Erased(Contents, p)
  <2>1. size' = size - 1 /\ \A i \in 1 .. size - 1 :
          cells'[i - 1] = IF i <= p THEN Contents[i] ELSE Contents[i + 1]
    BY <1>3, <1>a DEF Erase
  <2>2. QED
    BY <2>1, <1>a, <1>b DEF Abstract!Erased
<1>4. CASE ArrayPopBack
  <2>1. CASE size > 0
    <3>1. cells' = cells /\ size' = size - 1
      BY <1>4, <2>1 DEF ArrayPopBack
    <3>2. Contents' = Abstract!Erased(Contents, size - 1)
      BY <3>1, <2>1, <1>a, <1>b DEF Abstract!Erased
    <3>3. QED
      BY <3>2, <1>4, <2>1, <1>a DEF ArrayPopBack, Abstract!SeqPopBack, Abstract!SeqNext
  <2>2. CASE size = 0
    BY <2>2, <1>4, <1>a, <1>b DEF ArrayPopBack, Abstract!SeqPopBack, Abstract!SeqNext, Contents
  <2>3. QED
    BY <2>1, <2>2, <1>a
<1>5. CASE ArrayClear
  <2>1. Contents' = << >>
    BY <1>5, <1>b DEF ArrayClear
  <2>2. QED
    BY <2>1, <1>5 DEF ArrayClear, Abstract!SeqClear, Abstract!SeqNext
<1>6. CASE ArraySort
  <2>1. PICK f \in [0 .. size - 1 -> 0 .. size - 1] :
          /\ \A i, j \in 0 .. size - 1 : f[i] = f[j] => i = j
          /\ \A i, j \in 0 .. size - 1 : i < j => cells[f[i]] <= cells[f[j]]
          /\ cells' = [i \in DOMAIN cells |-> IF i < size THEN cells[f[i]] ELSE cells[i]]
    BY <1>6 DEF ArraySort
  <2>2. size' = size
    BY <1>6 DEF ArraySort
  <2> DEFINE g == [i \in 1 .. size |-> f[i - 1] + 1]
  <2>a. size \in Nat
    BY <1>a
  <2>b. \A i \in 1 .. size : g[i] = f[i - 1] + 1 /\ f[i - 1] \in 0 .. size - 1
    <3> TAKE i \in 1 .. size
    <3>1. i - 1 \in 0 .. size - 1
      BY <2>a
    <3>2. QED
      BY <3>1
  <2>3. g \in [1 .. size -> 1 .. size]
    <3>1. \A x \in 0 .. size - 1 : x + 1 \in 1 .. size
      BY <2>a
    <3>2. \A i \in 1 .. size : g[i] \in 1 .. size
      BY <2>b, <3>1
    <3>3. QED
      BY <3>2
  <2> HIDE DEF g
  <2>4. ASSUME NEW i \in 1 .. size, NEW j \in 1 .. size, g[i] = g[j] PROVE i = j
    <3>1. i - 1 \in 0 .. size - 1 /\ j - 1 \in 0 .. size - 1
      BY <2>a
    <3>2. f[i - 1] \in Int /\ f[j - 1] \in Int /\ f[i - 1] + 1 = f[j - 1] + 1
      BY <2>4, <2>b
    <3>3. f[i - 1] = f[j - 1]
      BY <3>2
    <3>4. i - 1 = j - 1
      BY <3>1, <3>3, <2>1
    <3>5. QED
      BY <3>4
  <2>5. \A i \in 1 .. size : cells'[i - 1] = Contents[g[i]] /\ cells'[i - 1] = cells[f[i - 1]]
    <3> TAKE i \in 1 .. size
    <3>1. i - 1 \in 0 .. size - 1 /\ i - 1 \in DOMAIN cells /\ i - 1 < size
      BY <1>a
    <3>2. cells'[i - 1] = cells[f[i - 1]]
      BY <3>1, <2>1
    <3>3. PICK x \in 0 .. size - 1 : f[i - 1] = x /\ g[i] = x + 1
      BY <2>b
    <3>4. x + 1 \in 1 .. size /\ (x + 1) - 1 = x
      BY <2>a
    <3>5. Contents[g[i]] = cells[x]
      BY <3>3, <3>4, <1>a
    <3>6. QED
      BY <3>2, <3>3, <3>5
  <2>6. Contents' = [i \in 1 .. size |-> Contents[g[i]]]
    BY <2>2, <2>5, <1>b
  <2>7. \A i, j \in 1 .. size : i < j => Contents'[i] <= Contents'[j]
    <3>1. \A i, j \in 1 .. size : i < j => cells'[i - 1] <= cells'[j - 1]
      <4> SUFFICES ASSUME NEW i \in 1 .. size, NEW j \in 1 .. size, i < j
                   PROVE  cells'[i - 1] <= cells'[j - 1]
        OBVIOUS
      <4>1. i - 1 \in 0 .. size - 1 /\ j - 1 \in 0 .. size - 1 /\ i - 1 < j - 1
        BY <1>a
      <4>2. cells[f[i - 1]] <= cells[f[j - 1]]
        BY <4>1, <2>1
      <4>3. QED
        BY <4>2, <2>5
    <3>2. QED
      BY <3>1, <2>2, <1>b
  <2>8. DOMAIN Contents' = 1 .. size
    BY <2>6
  <2>9. Abstract!SeqSort
    <3>1. g \in [DOMAIN Contents -> DOMAIN Contents]
      BY <2>3, <1>a
    <3>2. \A i, j \in DOMAIN Contents : g[i] = g[j] => i = j
      BY <2>4, <1>a
    <3>3. Contents' = [i \in DOMAIN Contents |-> Contents[g[i]]]
      BY <2>6, <1>a
    <3>4. \A i, j \in DOMAIN Contents' : i < j => Contents'[i] <= Contents'[j]
      BY <2>7, <2>8
    <3>5. last' = [op |-> "sort", pos |-> 0, elem |-> NONE, ret |-> OK]
      BY <1>6 DEF ArraySort
    <3>6. QED
      BY <3>1, <3>2, <3>3, <3>4, <3>5 DEF Abstract!SeqSort
  <2>10. QED
    BY <2>9 DEF Abstract!SeqNext
<1>7. ASSUME UNCHANGED <<cells, size>> PROVE Contents' = Contents
  BY <1>7 DEF Contents
<1>8. ASSUME NEW e \in Elems, ArrayFind(e) PROVE Abstract!SeqFind(e)
  <2>1. PICK p \in 0 .. size : /\ p < size => cells[p] = e
                               /\ \A i \in 0 .. p - 1 : cells[i] # e
                               /\ last' = [op |-> "find", pos |-> 0, elem |-> e, ret |-> p]
    BY <1>8 DEF ArrayFind
  <2>2. p < size => Contents[p + 1] = e
    BY <2>1, <1>a
  <2>3. \A i \in 1 .. p : Contents[i] # e
    BY <2>1, <1>a
  <2>4. Contents' = Contents
    BY <1>7, <1>8 DEF ArrayFind
  <2>5. QED
    BY <2>1, <2>2, <2>3, <2>4, <1>a DEF Abstract!SeqFind
<1>9. ASSUME NEW p \in Positions, ArrayAt(p) PROVE Abstract!SeqAt(p)
  <2>1. p < size => Contents[p + 1] = cells[p]
    BY <1>a
  <2>2. Contents' = Contents
    BY <1>7, <1>9 DEF ArrayAt
  <2>3. QED
    BY <2>1, <2>2, <1>9, <1>a DEF ArrayAt, Abstract!SeqAt
<1>10. ASSUME NEW p \in Positions, NEW e \in Elems, ArrayInsert(p, e) \/ ArrayInsertAt(p, e)
       PROVE  Abstract!SeqInsert(p, e) \/ Abstract!SeqInsertAt(p, e)
  <2>1. p \in Nat
    BY <1>a
  <2>2. CASE ArrayInsert(p, e)
    <3>1. /\ p <= size /\ size' = size + 1 /\ cells' = ShiftedUp(Room, p, e)
          /\ last' = [op |-> "insert", pos |-> p, elem |-> e, ret |-> OK]
      BY <2>2 DEF ArrayInsert, Insert
    <3>2. QED
      BY <3>1, <2>1, <1>2, <1>a DEF Abstract!SeqInsert
  <2>3. CASE ArrayInsertAt(p, e) /\ p < size
    <3>1. /\ cells' = ShiftedUp(Room, p, e) /\ size' = size + 1
          /\ last' = [op |-> "insert_at", pos |-> p, elem |-> e, ret |-> OK]
      BY <2>3, <2>1, <1>a DEF ArrayInsertAt, Insert
    <3>2. QED
      BY <3>1, <2>1, <2>3, <1>2, <1>a DEF Abstract!SeqInsertAt
  <2>4. CASE ArrayInsertAt(p, e) /\ p >= size
    <3>1. /\ UNCHANGED <<cells, size>>
          /\ last' = [op |-> "insert_at", pos |-> p, elem |-> e, ret |-> ENOENT]
      BY <2>4, <2>1, <1>a DEF ArrayInsertAt
    <3>2. QED
      BY <3>1, <2>4, <1>7, <1>a DEF Abstract!SeqInsertAt
  <2>5. QED
    BY <1>10, <2>1, <2>2, <2>3, <2>4, <1>a
<1>11. ASSUME NEW p \in Positions, ArrayErase(p) \/ ArrayEraseAt(p)
       PROVE  Abstract!SeqErase(p) \/ Abstract!SeqEraseAt(p)
  <2>1. p \in Nat
    BY <1>a
  <2>2. CASE ArrayErase(p)
    BY <2>1, <2>2, <1>3, <1>a DEF ArrayErase, Erase, Abstract!SeqErase
  <2>3. CASE ArrayEraseAt(p) /\ p < size
    BY <2>1, <2>3, <1>3, <1>a DEF ArrayEraseAt, Erase, Abstract!SeqEraseAt
  <2>4. CASE ArrayEraseAt(p) /\ p >= size
    BY <2>1, <2>4, <1>7, <1>a DEF ArrayEraseAt, Abstract!SeqEraseAt
  <2>5. QED
    BY <1>11, <2>1, <2>2, <2>3, <2>4, <1>a
<1>12. CASE UNCHANGED arrayVars
  BY <1>12, <1>7 DEF arrayVars, Abstract!seqVars
<1>13. QED
  BY <1>1, <1>4, <1>5, <1>6, <1>8, <1>9, <1>10, <1>11, <1>12 DEF ArrayNext, Abstract!SeqNext

(* In a new array nothing was put.                                         *)
LEMMA ArrayImplementsInit == ArrayInit => Abstract!SeqInit
  BY DEF ArrayInit, Abstract!SeqInit, Contents

(* array.c keeps the promise of array.h for every first capacity until the *)
(* first insert through an iterator into a full block that moves away: the *)
(* theorem claims nothing of that insert and of any call after it.         *)
THEOREM ArrayImplementsSequence == ArraySpec => ArrayIsSequence
<1>1. ArrayInit => Abstract!SeqInit
  BY ArrayImplementsInit
<1>2. QED
  BY <1>1, ArrayImplementsStep, ArrayTypeCorrect, PTL DEF ArraySpec, ArrayIsSequence
=============================================================================
