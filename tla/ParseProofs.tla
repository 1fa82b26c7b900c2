---------------------------- MODULE ParseProofs -----------------------------
(***************************************************************************)
(* msg_parse_all decodes every well-formed message completely: the loop    *)
(* stands at the beginning of an AVP at every turn, and what it has kept   *)
(* so far is what the dictionary knows of the AVPs before it.              *)
(***************************************************************************)
EXTENDS Parse, TLAPS

(* What avp_decode must make of an AVP of the message.                     *)
Result(avp) ==
  [raw_data |-> avp.start, code |-> avp.code,
   value |-> IF Wide(Dictionary[avp.code]) THEN avp.start + HeaderSize(avp) ELSE NoValue]

(* Where AVP n + 1 starts, or the message ends.                            *)
Place(m, n) == IF n = Len(m) THEN EndOf(m) ELSE m[n + 1].start

(* The array holds the known ones of the first n AVPs, in their order.     *)
Kept(n) ==
  /\ \A i, j \in DOMAIN avps : i < j => avps[i].raw_data < avps[j].raw_data
  /\ {avps[i] : i \in DOMAIN avps} =
       {Result(msg[k]) : k \in {x \in 1 .. n : Known(msg[x])}}

(* At every turn the loop has read n whole AVPs, for some n.               *)
Progress ==
  /\ pc = "parse" => avps = << >>
  /\ pc # "idle" => msg \in Messages /\ msg_len = Align * EndOf(msg)
  /\ pc = "avps" => \E n \in 0 .. Len(msg) : pos = Place(msg, n) /\ Kept(n)
  /\ pc = "parsed" => Kept(Len(msg))

IInv == TypeOK /\ Progress

(* A well-formed message is a sequence of AVPs with positive sizes.        *)
LEMMA MessageFacts ==
  ASSUME NEW m \in Messages
  PROVE  /\ m \in Seq(Avps)
         /\ WellFormed(m)
         /\ \A k \in 1 .. Len(m) :
              /\ m[k] \in Avps
              /\ m[k].start \in Nat /\ m[k].code \in Nat /\ m[k].len \in Nat
              /\ Words(m[k]) \in Nat /\ Words(m[k]) > 0
  <1>1. m \in Seq(Avps) /\ WellFormed(m)
    BY MessageAssumption
  <1>2. ASSUME NEW k \in 1 .. Len(m)
        PROVE  /\ m[k] \in Avps
               /\ m[k].start \in Nat /\ m[k].code \in Nat /\ m[k].len \in Nat
               /\ Words(m[k]) \in Nat /\ Words(m[k]) > 0
    <2>1. m[k] \in Avps
      BY <1>1
    <2>2. m[k].start \in Nat /\ m[k].code \in Nat /\ m[k].len \in Nat \ {0}
      BY <2>1 DEF Avps
    <2>3. Words(m[k]) \in Nat /\ Words(m[k]) > 0
      BY <2>2 DEF Words, Align
    <2>4. QED BY <2>1, <2>2, <2>3
  <1>3. QED BY <1>1, <1>2

(* The places of the AVPs: the first is behind the header, the next one    *)
(* follows by what the loop adds, and all lie before the end.              *)
LEMMA Places ==
  ASSUME NEW m \in Messages
  PROVE  /\ EndOf(m) \in Nat
         /\ Place(m, 0) = HeaderWords
         /\ \A n \in 0 .. Len(m) : Place(m, n) \in Nat /\ Place(m, n) <= EndOf(m)
         /\ \A n \in 0 .. Len(m) : n < Len(m) =>
              /\ Place(m, n) = m[n + 1].start
              /\ Place(m, n) < EndOf(m)
              /\ Place(m, n + 1) = m[n + 1].start + Words(m[n + 1])
  <1>0. /\ m \in Seq(Avps) /\ Len(m) \in Nat /\ DOMAIN m = 1 .. Len(m)
        /\ WellFormed(m)
        /\ \A k \in 1 .. Len(m) : m[k].start \in Nat /\ Words(m[k]) \in Nat /\ Words(m[k]) > 0
    BY MessageFacts
  <1>9. Len(m) \in Nat
    BY <1>0
  <1>1. CASE m = << >>
    BY <1>0, <1>1 DEF EndOf, Place, HeaderWords
  <1>2. CASE m # << >>
    <2>1. Len(m) > 0 /\ 1 \in 1 .. Len(m) /\ Len(m) \in 1 .. Len(m)
      BY <1>0, <1>2
    <2>2. EndOf(m) = m[Len(m)].start + Words(m[Len(m)]) /\ EndOf(m) \in Nat
      BY <1>0, <1>2, <2>1 DEF EndOf
    <2>3. Place(m, 0) = HeaderWords
      BY <1>0, <1>2, <2>1 DEF Place, WellFormed
    <2>4. ASSUME NEW n \in 0 .. Len(m), n < Len(m)
          PROVE  /\ Place(m, n) = m[n + 1].start
                 /\ Place(m, n) < EndOf(m)
                 /\ Place(m, n) \in Nat
                 /\ Place(m, n + 1) = m[n + 1].start + Words(m[n + 1])
      <3>1. n + 1 \in 1 .. Len(m) /\ Place(m, n) = m[n + 1].start
        <4>1. n + 1 \in 1 .. Len(m) /\ n # Len(m)
          BY <2>4, <1>9
        <4>2. QED BY <4>1 DEF Place
      <3>2. m[n + 1].start < EndOf(m)
        <4>1. CASE n + 1 = Len(m)
          BY <4>1, <1>0, <2>1, <2>2
        <4>2. CASE n + 1 < Len(m)
          <5>1. m[n + 1].start + Words(m[n + 1]) <= m[Len(m)].start
            BY <4>2, <3>1, <2>1, <1>0 DEF WellFormed
          <5>2. QED BY <5>1, <3>1, <2>1, <2>2, <1>0
        <4>3. QED BY <4>1, <4>2, <3>1, <1>0
      <3>3. Place(m, n + 1) = m[n + 1].start + Words(m[n + 1])
        <4>1. CASE n + 1 = Len(m)
          BY <4>1, <2>2 DEF Place
        <4>2. CASE n + 1 < Len(m)
          <5>1. n + 1 # Len(m) /\ n + 1 \in 1 .. Len(m) - 1
            BY <4>2, <3>1, <1>9
          <5>2. m[(n + 1) + 1].start = m[n + 1].start + Words(m[n + 1])
            BY <5>1, <1>0 DEF WellFormed
          <5>3. QED BY <5>1, <5>2 DEF Place
        <4>3. QED BY <4>1, <4>2, <3>1, <1>0
      <3>4. QED BY <3>1, <3>2, <3>3, <1>0
    <2>5. Place(m, Len(m)) = EndOf(m)
      BY DEF Place
    <2>6. \A n \in 0 .. Len(m) : Place(m, n) \in Nat /\ Place(m, n) <= EndOf(m)
      <3> TAKE n \in 0 .. Len(m)
      <3>1. CASE n = Len(m) BY <3>1, <2>2, <2>5
      <3>2. CASE n < Len(m) BY <3>2, <2>4, <2>2
      <3>3. QED BY <3>1, <3>2, <1>9
    <2>7. QED BY <2>2, <2>3, <2>4, <2>6
  <1>3. QED BY <1>1, <1>2

(* At the start of AVP k the header read is that of AVP k.                 *)
LEMMA HeaderFound ==
  ASSUME msg \in Messages, NEW k \in 1 .. Len(msg)
  PROVE  HeaderAt(msg[k].start) = msg[k]
  <1>1. /\ DOMAIN msg = 1 .. Len(msg) /\ Len(msg) \in Nat /\ WellFormed(msg)
        /\ \A x \in 1 .. Len(msg) : msg[x].start \in Nat /\ Words(msg[x]) \in Nat /\ Words(msg[x]) > 0
    BY MessageFacts
  <1>2. ASSUME NEW j \in 1 .. Len(msg), msg[j].start = msg[k].start
        PROVE  j = k
    <2>1. CASE j < k
      <3>1. msg[j].start + Words(msg[j]) <= msg[k].start
        BY <2>1, <1>1 DEF WellFormed
      <3>2. QED BY <3>1, <1>1, <1>2
    <2>2. CASE k < j
      <3>1. msg[k].start + Words(msg[k]) <= msg[j].start
        BY <2>2, <1>1 DEF WellFormed
      <3>2. QED BY <3>1, <1>1, <1>2
    <2>3. QED BY <2>1, <2>2, <1>1
  <1>3. (CHOOSE x \in DOMAIN msg : msg[x].start = msg[k].start) = k
    BY <1>1, <1>2
  <1>4. QED BY <1>1, <1>3 DEF HeaderAt

(* Appending the AVP behind the first n keeps the order and the contents.  *)
LEMMA KeptStep ==
  ASSUME msg \in Messages, avps \in Seq(Entries),
         NEW n \in 0 .. Len(msg), n < Len(msg), Kept(n), msg' = msg,
         avps' = IF Known(msg[n + 1]) THEN Append(avps, Decode(msg[n + 1])) ELSE avps
  PROVE  Kept(n + 1)'
  <1> DEFINE known(m) == {x \in 1 .. m : Known(msg[x])}
  <1>1. /\ DOMAIN msg = 1 .. Len(msg) /\ Len(msg) \in Nat /\ WellFormed(msg)
        /\ \A k \in 1 .. Len(msg) : msg[k].start \in Nat /\ Words(msg[k]) \in Nat /\ Words(msg[k]) > 0
        /\ n + 1 \in 1 .. Len(msg)
    BY MessageFacts
  <1>2. CASE ~Known(msg[n + 1])
    <2>1. known(n + 1) = known(n)
      BY <1>2, <1>1
    <2>2. avps' = avps
      BY <1>2
    <2>3. QED BY <2>1, <2>2 DEF Kept, Known, Result, Wide
  <1>3. CASE Known(msg[n + 1])
    <2> DEFINE e == Result(msg[n + 1])
    <2>1. avps' = Append(avps, e)
      BY <1>3 DEF Decode, Result
    <2>2. /\ DOMAIN avps = 1 .. Len(avps) /\ Len(avps) \in Nat
          /\ DOMAIN avps' = 1 .. Len(avps) + 1
          /\ \A i \in 1 .. Len(avps) : avps'[i] = avps[i]
          /\ avps'[Len(avps) + 1] = e
      BY <2>1
    <2>3. \A i \in DOMAIN avps : avps[i].raw_data < e.raw_data
      <3> TAKE i \in DOMAIN avps
      <3>1. avps[i] \in {Result(msg[k]) : k \in known(n)}
        BY DEF Kept
      <3>2. PICK k \in known(n) : avps[i] = Result(msg[k])
        BY <3>1
      <3>3. k \in 1 .. Len(msg) /\ k < n + 1
        BY <1>1
      <3>4. msg[k].start + Words(msg[k]) <= msg[n + 1].start
        BY <3>3, <1>1 DEF WellFormed
      <3>5. avps[i].raw_data = msg[k].start /\ e.raw_data = msg[n + 1].start
        BY <3>2 DEF Result
      <3>6. QED BY <3>3, <3>4, <3>5, <1>1
    <2>4. \A i, j \in DOMAIN avps' : i < j => avps'[i].raw_data < avps'[j].raw_data
      BY <2>2, <2>3 DEF Kept
    <2>5. {avps'[i] : i \in DOMAIN avps'} = {avps[i] : i \in DOMAIN avps} \cup {e}
      BY <2>2
    <2>6. known(n + 1) = known(n) \cup {n + 1}
      BY <1>3, <1>1
    <2>7. {Result(msg[k]) : k \in known(n + 1)} = {Result(msg[k]) : k \in known(n)} \cup {e}
      BY <2>6
    <2>8. {avps'[i] : i \in DOMAIN avps'} = {Result(msg[k]) : k \in known(n + 1)}
      BY <2>5, <2>7 DEF Kept
    <2>9. QED BY <2>4, <2>8 DEF Kept, Known, Result, Wide
  <1>4. QED BY <1>2, <1>3

(* A known AVP of a message decodes to an entry of the array.              *)
LEMMA EntryType ==
  ASSUME NEW m \in Messages, NEW k \in 1 .. Len(m), Known(m[k])
  PROVE  Decode(m[k]) \in Entries
  <1>1. m[k].start \in Nat /\ m[k].code \in DOMAIN Dictionary
    BY MessageFacts DEF Known
  <1>2. m[k].start + HeaderSize(m[k]) \in Nat
    BY <1>1 DEF HeaderSize
  <1>3. QED BY <1>1, <1>2 DEF Decode, Entries

(* What one turn of the loop reads and where it leads.                     *)
LEMMA ParseAvpStep ==
  ASSUME IInv, ParseAvp
  PROVE  IInv'
  <1>1. /\ pc = "avps" /\ pc' = "avps" /\ msg \in Messages /\ msg' = msg
        /\ msg_len = Align * EndOf(msg) /\ msg_len' = msg_len
        /\ pos * Align < msg_len /\ count' = count
        /\ pos \in Nat /\ avps \in Seq(Entries)
    BY DEF IInv, TypeOK, Progress, ParseAvp, MoreAvps
  <1>2. PICK n \in 0 .. Len(msg) : pos = Place(msg, n) /\ Kept(n)
    BY <1>1 DEF IInv, Progress
  <1>3. Len(msg) \in Nat /\ EndOf(msg) \in Nat
    BY <1>1, MessageFacts, Places
  <1>4. n < Len(msg)
    <2>1. pos < EndOf(msg)
      BY <1>1, <1>3 DEF Align
    <2>2. n # Len(msg)
      BY <2>1, <1>2, <1>3 DEF Place
    <2>3. QED BY <2>2, <1>3
  <1>5. n + 1 \in 1 .. Len(msg) /\ n + 1 \in 0 .. Len(msg) /\ pos = msg[n + 1].start
    BY <1>1, <1>2, <1>3, <1>4, Places
  <1>6. HeaderAt(pos) = msg[n + 1]
    BY <1>1, <1>5, HeaderFound
  <1>7. avps' = IF Known(msg[n + 1]) THEN Append(avps, Decode(msg[n + 1])) ELSE avps
    BY <1>6 DEF ParseAvp
  <1>8. avps' \in Seq(Entries)
    BY <1>1, <1>5, <1>7, EntryType
  <1>9. pos' = Place(msg, n + 1)
    <2>1. pos' = msg[n + 1].start + Words(msg[n + 1])
      BY <1>5, <1>6 DEF ParseAvp, Advance, Words
    <2>2. QED BY <2>1, <1>1, <1>4, Places
  <1>10. pos' \in Nat /\ pos' <= EndOf(msg)
    BY <1>1, <1>5, <1>9, Places
  <1>11. Kept(n + 1)'
    BY <1>1, <1>2, <1>4, <1>7, KeptStep
  <1>12. TypeOK'
    BY <1>1, <1>3, <1>8, <1>10 DEF IInv, TypeOK, Align
  <1>13. Progress'
    <2>1. \E x \in 0 .. Len(msg') : pos' = Place(msg', x) /\ Kept(x)'
      BY <1>1, <1>5, <1>9, <1>11
    <2>2. QED BY <2>1, <1>1 DEF Progress, EndOf, Words, Align, HeaderWords
  <1>14. QED BY <1>12, <1>13 DEF IInv

(* The places the loop stands at, and what it has kept, are an invariant.  *)
THEOREM InductiveInvariant == Spec => []IInv
  <1>1. Init => IInv
    BY MessageAssumption DEF Init, IInv, TypeOK, Progress
  <1>2. IInv /\ [Next]_vars => IInv'
    <2> SUFFICES ASSUME IInv, [Next]_vars PROVE IInv'
      OBVIOUS
    <2>1. ASSUME NEW m \in Messages, Take(m) PROVE IInv'
      <3>1. EndOf(m) \in Nat /\ Align * EndOf(m) \in Nat
        BY Places DEF Align
      <3>2. QED
        BY <2>1, <3>1, MessageAssumption DEF IInv, TypeOK, Progress, Take, EndOf, Words, Align, HeaderWords
    <2>2. CASE Begin
      <3>1. /\ pc = "parse" /\ pc' = "avps" /\ msg \in Messages /\ msg' = msg
            /\ avps = << >> /\ avps' = << >> /\ pos' = HeaderWords
            /\ msg_len' = msg_len /\ msg_len = Align * EndOf(msg)
        BY <2>2 DEF IInv, Progress, Begin
      <3>2. /\ Len(msg) \in Nat /\ EndOf(msg) \in Nat /\ Place(msg, 0) = HeaderWords
            /\ HeaderWords <= EndOf(msg)
        <4>1. 0 \in 0 .. Len(msg)
          BY <3>1, MessageFacts
        <4>2. QED BY <3>1, <4>1, MessageFacts, Places
      <3>3. Kept(0)'
        BY <3>1 DEF Kept
      <3>4. TypeOK'
        BY <2>2, <3>1, <3>2 DEF IInv, TypeOK, Begin, Align, HeaderWords
      <3>5. \E n \in 0 .. Len(msg') : pos' = Place(msg', n) /\ Kept(n)'
        BY <3>1, <3>2, <3>3
      <3>6. Progress'
        BY <3>1, <3>5 DEF Progress, EndOf, Words, Align, HeaderWords
      <3>7. QED BY <3>4, <3>6 DEF IInv
    <2>3. CASE ParseAvp
      BY <2>3, ParseAvpStep
    <2>4. CASE EndParse
      <3>1. /\ pc = "avps" /\ pc' = "parsed" /\ msg \in Messages /\ msg_len = Align * EndOf(msg)
            /\ UNCHANGED <<msg, msg_len, pos, avps, count>> /\ ~(pos * Align < msg_len)
            /\ pos \in Nat
        BY <2>4 DEF IInv, TypeOK, Progress, EndParse, MoreAvps
      <3>2. PICK n \in 0 .. Len(msg) : pos = Place(msg, n) /\ Kept(n)
        BY <3>1 DEF IInv, Progress
      <3>3. n = Len(msg)
        <4>1. Len(msg) \in Nat /\ EndOf(msg) \in Nat
          BY <3>1, MessageFacts, Places
        <4>2. ~(pos < EndOf(msg))
          BY <3>1, <4>1 DEF Align
        <4>3. n < Len(msg) => pos < EndOf(msg)
          BY <3>1, <3>2, Places
        <4>4. QED BY <4>1, <4>2, <4>3
      <3>4. Kept(Len(msg))'
        BY <3>1, <3>2, <3>3 DEF Kept, Known, Result, Wide
      <3>5. TypeOK' /\ Progress'
        BY <3>1, <3>4 DEF IInv, TypeOK, Progress, EndOf, Words, Align, HeaderWords
      <3>6. QED BY <3>5 DEF IInv
    <2>5. CASE Handle
      BY <2>5 DEF IInv, TypeOK, Progress, Handle
    <2>6. CASE UNCHANGED vars
      <3>1. /\ msg' = msg /\ msg_len' = msg_len /\ pc' = pc /\ pos' = pos /\ avps' = avps
            /\ count' = count
        BY <2>6 DEF vars
      <3>2. TypeOK'
        BY <3>1 DEF IInv, TypeOK
      <3>3. \A n : Kept(n) => Kept(n)'
        BY <3>1 DEF Kept, Known, Result, Wide
      <3>4. Progress'
        BY <3>1, <3>3 DEF IInv, Progress, EndOf, Words, Align, HeaderWords
      <3>5. QED BY <3>2, <3>4 DEF IInv
    <2>7. QED BY <2>1, <2>2, <2>3, <2>4, <2>5, <2>6 DEF Next, Work
  <1>3. QED BY <1>1, <1>2, PTL DEF Spec

(* Types hold, and the loop never stands past the end of a well-formed     *)
(* message, for every dictionary and set of messages.                      *)
THEOREM TypeCorrect == Spec => []TypeOK
  <1>1. IInv => TypeOK
    BY DEF IInv
  <1>2. QED BY <1>1, InductiveInvariant, PTL

(* Every AVP that the dictionary knows is decoded, once, in order and from *)
(* its own data, for every dictionary and every well-formed message.       *)
THEOREM MessagesDecode == Spec => []AllDecoded
  <1>1. IInv => AllDecoded
    <2> SUFFICES ASSUME IInv, pc = "parsed" PROVE
           /\ \A i, j \in DOMAIN avps : i < j => avps[i].raw_data < avps[j].raw_data
           /\ {avps[i] : i \in DOMAIN avps} =
                {Result(avp) : avp \in {msg[k] : k \in {n \in DOMAIN msg : Known(msg[n])}}}
      BY DEF AllDecoded, Result
    <2>1. Kept(Len(msg)) /\ msg \in Messages
      BY DEF IInv, Progress
    <2>2. DOMAIN msg = 1 .. Len(msg)
      BY <2>1, MessageFacts
    <2>3. {Result(avp) : avp \in {msg[k] : k \in {n \in DOMAIN msg : Known(msg[n])}}}
            = {Result(msg[k]) : k \in {x \in 1 .. Len(msg) : Known(msg[x])}}
      BY <2>2
    <2>4. QED BY <2>1, <2>3 DEF Kept
  <1>2. QED BY <1>1, InductiveInvariant, PTL
=============================================================================
