--------------------------- MODULE ReceiverProofs ---------------------------
(***************************************************************************)
(* Theorems about receiver_thread (module Receiver) for every header size, *)
(* set of frame lengths, number of frames and segmentation of the stream.  *)
(***************************************************************************)
EXTENDS Receiver, SequenceTheorems, TLAPS

(* Where frame i begins, or will begin once it is sent.                    *)
Begin(i) == IF i \in DOMAIN frames THEN frames[i].start ELSE Total

(* The frames follow one another without gap or overlap.                   *)
Layout ==
  /\ \A i \in DOMAIN frames : frames[i].start + frames[i].len = Begin(i + 1)
  /\ frames # << >> => frames[1].start = 0
  /\ \A i, j \in DOMAIN frames : i < j => frames[i].start < frames[j].start
  /\ \A i \in DOMAIN frames : frames[i].start < Total

(* The frame the thread is reading.                                        *)
Current == Len(out) + 1

(* In the header loop the thread has read received bytes of that frame.    *)
HeaderAligned ==
  pc = "header" =>
    /\ consumed = Begin(Current) + received
    /\ \A k \in 0 .. received - 1 : header[k] = Begin(Current) + k

(* In the body loop too, except that a reported reset has made received    *)
(* one too small; nothing more can arrive then.                            *)
BodyAligned ==
  pc = "body" =>
    /\ Current \in DOMAIN frames
    /\ frames[Current].good
    /\ msgLen = frames[Current].len
    /\ \A k \in 0 .. HeaderLen - 1 : header[k] = Begin(Current) + k
    /\ received \in Int
    /\ \/ /\ consumed = Begin(Current) + received
          /\ received \in HeaderLen .. msgLen
          /\ \A k \in HeaderLen .. received - 1 : raw[k] = Begin(Current) + k
       \/ /\ link = "down"
          /\ consumed = arrived
          /\ received < msgLen

(* What may be in a message of a peer's length.                            *)
Messages == UNION {[0 .. len - 1 -> Nat \cup {NoByte}] : len \in MsgLens}

OutType == out \in Seq(Messages)

(* The invariant every step preserves.                                     *)
IInv == TypeOK /\ OutType /\ Layout /\ FramesIntact /\ HeaderAligned /\ BodyAligned
-----------------------------------------------------------------------------
(* Small facts about lengths and positions.                                *)
LEMMA Positions ==
  ASSUME TypeOK
  PROVE  /\ Total \in Nat
         /\ Len(frames) \in Nat
         /\ DOMAIN frames = 1 .. Len(frames)
         /\ \A i \in DOMAIN frames : /\ frames[i].start \in Nat
                                     /\ frames[i].len \in MsgLens
                                     /\ frames[i].len \in Nat
                                     /\ frames[i].len > HeaderLen
                                     /\ frames[i].good \in BOOLEAN
         /\ \A i : Begin(i) \in Nat
<1>1. frames \in Seq(Frames) /\ MsgLens \subseteq Nat /\ \A len \in MsgLens : len > HeaderLen
  BY FrameAssumption DEF TypeOK
<1>2. Len(frames) \in Nat /\ DOMAIN frames = 1 .. Len(frames)
  BY <1>1
<1>3. \A i \in DOMAIN frames : frames[i] \in Frames
  BY <1>1, <1>2
<1>4. \A i \in DOMAIN frames : /\ frames[i].start \in Nat
                               /\ frames[i].len \in MsgLens
                               /\ frames[i].len \in Nat
                               /\ frames[i].len > HeaderLen
                               /\ frames[i].good \in BOOLEAN
  BY <1>1, <1>3 DEF Frames
<1>5. Total \in Nat
  <2>1. frames # << >> => Len(frames) \in DOMAIN frames
    BY <1>1, <1>2
  <2>2. QED
    BY <1>4, <2>1 DEF Total
<1>6. \A i : Begin(i) \in Nat
  BY <1>4, <1>5 DEF Begin
<1>7. QED
  BY <1>2, <1>4, <1>5, <1>6

(* What one conn_recv can do.                                              *)
LEMMA RecvFacts ==
  ASSUME TypeOK, NEW want \in Nat \ {0}, NEW ret \in Int, Recv(want, ret)
  PROVE  \/ /\ ret \in 1 .. want
            /\ consumed' = consumed + ret
            /\ consumed' <= arrived
            /\ link' = link
         \/ /\ ret = 0
            /\ consumed = arrived
            /\ UNCHANGED <<consumed, link>>
         \/ /\ ret = -1
            /\ consumed = arrived
            /\ consumed' = consumed
            /\ link' = "down"
  BY Positions DEF Recv, TypeOK

(* A buffer keeps its shape when recv stores into it.                      *)
LEMMA StoredFacts ==
  ASSUME TypeOK, NEW n \in Nat, NEW buf \in [0 .. n - 1 -> Nat \cup {NoByte}],
         NEW at \in Int, NEW ret \in Int, ret > 0 => at >= 0
  PROVE  /\ Stored(buf, at, ret) \in [0 .. n - 1 -> Nat \cup {NoByte}]
         /\ \A k \in 0 .. n - 1 :
              Stored(buf, at, ret)[k] =
                IF k \in at .. at + ret - 1 THEN consumed + (k - at) ELSE buf[k]
<1>1. ASSUME NEW k \in 0 .. n - 1, k \in at .. at + ret - 1
      PROVE  consumed + (k - at) \in Nat
  BY <1>1 DEF TypeOK
<1>2. QED
  BY <1>1 DEF Stored

(* The invariant holds initially.                                          *)
LEMMA InitInv == Init => IInv
  BY FrameAssumption
  DEF Init, IInv, TypeOK, OutType, Layout, FramesIntact, HeaderAligned, BodyAligned,
      Fresh, Total, Begin, Current, Frames, Messages

(* Sending appends a frame where the stream ended.                         *)
LEMMA StepSend ==
  ASSUME IInv, NEW len \in MsgLens, NEW good \in BOOLEAN, Send(len, good)
  PROVE  IInv'
<1> DEFINE n == Len(frames)
<1>0. TypeOK /\ Total \in Nat /\ len \in Nat /\ len > 0
  BY Positions, FrameAssumption DEF IInv
<1>1. /\ frames' \in Seq(Frames)
      /\ n \in Nat
      /\ DOMAIN frames = 1 .. n
      /\ DOMAIN frames' = 1 .. n + 1
      /\ Len(frames') = n + 1
      /\ frames'[n + 1] = [start |-> Total, len |-> len, good |-> good]
      /\ \A i \in 1 .. n : frames'[i] = frames[i]
  <2>1. [start |-> Total, len |-> len, good |-> good] \in Frames
    BY <1>0 DEF Frames
  <2>2. frames \in Seq(Frames)
    BY DEF IInv, TypeOK
  <2>3. QED
    BY <2>1, <2>2 DEF Send
<1>2. Total' = Total + len
  BY <1>0, <1>1 DEF Total
<1>3. \A i \in 1 .. n + 1 : Begin(i)' = Begin(i)
  BY <1>1 DEF Begin
<1>4. TypeOK'
  BY <1>0, <1>1, <1>2 DEF IInv, TypeOK, Send
<1>5. Layout'
  <2>1. \A i \in 1 .. n : /\ frames'[i].start + frames'[i].len = Begin(i + 1)'
                          /\ frames'[i].start < Total
    BY <1>1, <1>3 DEF IInv, Layout
  <2>3. frames'[1].start = 0
    BY <1>1 DEF IInv, Layout, Total
  <2>4. \A i \in 1 .. n + 1 : frames'[i].start < Total'
    <3>1. \A i \in 1 .. n : frames[i].start \in Nat
      BY <1>0, <1>1, Positions
    <3>2. \A i \in 1 .. n : frames'[i].start < Total'
      BY <1>0, <1>1, <1>2, <2>1, <3>1
    <3>3. frames'[n + 1].start = Total /\ Total < Total'
      BY <1>0, <1>1, <1>2
    <3>4. QED
      BY <1>1, <3>2, <3>3
  <2>5. \A i, j \in 1 .. n + 1 : i < j => frames'[i].start < frames'[j].start
    <3>1. \A i, j \in 1 .. n : i < j => frames'[i].start < frames'[j].start
      BY <1>1 DEF IInv, Layout
    <3>2. \A i \in 1 .. n : frames'[i].start < frames'[n + 1].start
      BY <1>1, <2>1
    <3>3. QED
      BY <1>1, <3>1, <3>2
  <2>6. \A i \in 1 .. n + 1 : frames'[i].start + frames'[i].len = Begin(i + 1)'
    <3>1. ASSUME NEW i \in 1 .. n + 1
          PROVE  frames'[i].start + frames'[i].len = Begin(i + 1)'
      <4>1. CASE i \in 1 .. n
        BY <2>1, <4>1
      <4>2. CASE i = n + 1
        BY <1>1, <1>2, <4>2 DEF Begin
      <4>3. QED
        BY <1>1, <4>1, <4>2
    <3>2. QED
      BY <3>1
  <2>7. QED
    BY <1>1, <2>3, <2>4, <2>5, <2>6 DEF Layout
<1>6. out' = out /\ UNCHANGED <<link, arrived, consumed, pc, received, header, msgLen, raw>>
  BY DEF Send
<1>7. FramesIntact'
  BY <1>1, <1>6 DEF IInv, FramesIntact, Bytes, OutType
<1>8. Current \in 1 .. n + 1
  BY <1>1 DEF Current, IInv, FramesIntact, OutType
<1>9. Begin(Current)' = Begin(Current)
  BY <1>3, <1>6, <1>8 DEF Current
<1>10. HeaderAligned'
  BY <1>6, <1>9 DEF IInv, HeaderAligned
<1>11. BodyAligned'
  BY <1>1, <1>6, <1>9 DEF IInv, BodyAligned, Current
<1>12. QED
  BY <1>4, <1>5, <1>6, <1>7, <1>10, <1>11 DEF IInv, OutType

(* The network and the end of the connection touch arrived and link only.  *)
LEMMA StepNetwork ==
  ASSUME IInv, Arrive \/ Close \/ Reset
  PROVE  IInv'
<1>1. UNCHANGED <<frames, consumed, pc, received, header, msgLen, raw, out>>
  BY DEF Arrive, Close, Reset
<1>2. link = "down" => UNCHANGED <<link, arrived>>
  BY DEF Arrive, Close, Reset
<1>3. TypeOK'
  <2>1. Total' = Total /\ Total \in Nat
    BY <1>1, Positions DEF Total, IInv
  <2>2. arrived' \in 0 .. Total /\ consumed \in 0 .. arrived'
    BY <2>1 DEF Arrive, Close, Reset, IInv, TypeOK
  <2>3. link' \in {"open", "fin", "reset", "down"}
    BY DEF Arrive, Close, Reset, IInv, TypeOK
  <2>4. QED
    BY <1>1, <2>1, <2>2, <2>3 DEF IInv, TypeOK
<1>4. Layout' /\ FramesIntact' /\ OutType'
  BY <1>1 DEF IInv, Layout, FramesIntact, OutType, Bytes, Begin, Total
<1>5. HeaderAligned' /\ BodyAligned'
  BY <1>1, <1>2 DEF IInv, HeaderAligned, BodyAligned, Current, Begin, Total
<1>6. QED
  BY <1>3, <1>4, <1>5 DEF IInv

(* The header loop fills header with the next bytes of the stream.         *)
LEMMA StepHeader ==
  ASSUME IInv, RecvHeader
  PROVE  IInv'
<1>0. /\ TypeOK
      /\ pc = "header"
      /\ received \in 0 .. HeaderLen - 1
      /\ header \in [0 .. HeaderLen - 1 -> Nat \cup {NoByte}]
      /\ HeaderLen \in Nat
      /\ consumed = Begin(Current) + received
      /\ \A k \in 0 .. received - 1 : header[k] = Begin(Current) + k
      /\ Begin(Current) \in Nat
  BY FrameAssumption, Positions DEF IInv, TypeOK, HeaderAligned, RecvHeader
<1>1. PICK ret \in -1 .. HeaderLen :
        /\ Recv(HeaderWant, ret)
        /\ IF Broken(ret)
           THEN pc' = "exited" /\ UNCHANGED <<received, header>>
           ELSE /\ received' = received + ret
                /\ header' = Stored(header, received, ret)
                /\ UNCHANGED pc
  BY DEF RecvHeader
<1>2. UNCHANGED <<frames, arrived, msgLen, raw, out>>
  BY DEF RecvHeader
<1>3. \/ /\ ret \in 1 .. HeaderLen - received
         /\ consumed' = consumed + ret
         /\ consumed' <= arrived
         /\ link' = link
      \/ /\ ret \in {-1, 0}
         /\ consumed' = consumed
         /\ link' \in {link, "down"}
  BY <1>0, <1>1, RecvFacts DEF HeaderWant
<1>4. Layout' /\ FramesIntact' /\ OutType' /\ Begin(Current)' = Begin(Current)
  BY <1>2 DEF IInv, Layout, FramesIntact, OutType, Bytes, Begin, Total, Current
<1>5. CASE Broken(ret)
  <2>1. ret \in {-1, 0}
    BY <1>3, <1>5 DEF Broken
  <2>2. pc' = "exited" /\ UNCHANGED <<received, header, consumed>>
    BY <1>1, <1>3, <1>5, <2>1
  <2>3. TypeOK'
    BY <1>0, <1>2, <1>3, <2>1, <2>2 DEF TypeOK, Total
  <2>4. QED
    BY <1>4, <2>2, <2>3 DEF IInv, HeaderAligned, BodyAligned
<1>6. CASE ~Broken(ret)
  <2>1. /\ ret \in 1 .. HeaderLen - received
        /\ consumed' = consumed + ret
        /\ consumed' <= arrived
        /\ link' = link
    BY <1>3, <1>6 DEF Broken
  <2>2. received' = received + ret /\ header' = Stored(header, received, ret) /\ pc' = pc
    BY <1>1, <1>6
  <2>3. /\ header' \in [0 .. HeaderLen - 1 -> Nat \cup {NoByte}]
        /\ \A k \in 0 .. HeaderLen - 1 :
             header'[k] = IF k \in received .. received + ret - 1
                          THEN consumed + (k - received) ELSE header[k]
    BY <1>0, <2>1, <2>2, StoredFacts
  <2>4. TypeOK'
    BY <1>0, <1>2, <2>1, <2>2, <2>3 DEF TypeOK, Total
  <2>5. HeaderAligned'
    <3>1. consumed' = Begin(Current) + received'
      BY <1>0, <2>1, <2>2
    <3>2. \A k \in 0 .. received' - 1 : header'[k] = Begin(Current) + k
      <4>1. ASSUME NEW k \in 0 .. received - 1 PROVE header'[k] = Begin(Current) + k
        BY <1>0, <2>3
      <4>2. ASSUME NEW k \in received .. received + ret - 1
            PROVE  header'[k] = Begin(Current) + k
        <5>1. k \in 0 .. HeaderLen - 1
          BY <1>0, <2>1
        <5>2. QED
          BY <1>0, <2>3, <5>1
      <4>3. QED
        BY <1>0, <2>1, <2>2, <4>1, <4>2
    <3>3. QED
      BY <1>4, <3>1, <3>2 DEF HeaderAligned
  <2>6. QED
    BY <1>0, <1>4, <2>2, <2>4, <2>5 DEF IInv, BodyAligned
<1>7. QED
  BY <1>5, <1>6

(* A frame is found at its beginning.                                      *)
LEMMA FrameFound ==
  ASSUME TypeOK, Layout, NEW i \in DOMAIN frames
  PROVE  FrameAt(frames[i].start) = frames[i]
<1>1. \A j \in DOMAIN frames : frames[j].start = frames[i].start => j = i
  <2>1. \A j \in DOMAIN frames : frames[j].start \in Nat /\ j \in Nat
    BY Positions
  <2>2. \A j \in DOMAIN frames : j < i \/ j = i \/ i < j
    BY <2>1
  <2>3. QED
    BY <2>1, <2>2 DEF Layout
<1>2. {j \in DOMAIN frames : frames[j].start = frames[i].start} = {i}
  BY <1>1
<1>3. QED
  BY <1>2 DEF FrameAt

(* The header is the header of the current frame.                          *)
LEMMA StepNewMessage ==
  ASSUME IInv, NewMessage
  PROVE  IInv'
<1>0. /\ TypeOK /\ Layout
      /\ pc = "header"
      /\ received = HeaderLen
      /\ HeaderLen \in Nat \ {0}
      /\ consumed = Begin(Current) + HeaderLen
      /\ \A k \in 0 .. HeaderLen - 1 : header[k] = Begin(Current) + k
      /\ Begin(Current) \in Nat
  BY FrameAssumption, Positions DEF IInv, TypeOK, HeaderAligned, NewMessage
<1>1. header[0] = Begin(Current)
  BY <1>0
<1>2. Current \in DOMAIN frames
  <2>1. consumed <= Total
    BY <1>0, Positions DEF TypeOK
  <2>2. QED
    BY <1>0, <2>1, Positions DEF Begin
<1>3. Begin(Current) = frames[Current].start /\ FrameAt(header[0]) = frames[Current]
  BY <1>0, <1>1, <1>2, FrameFound DEF Begin
<1>4. UNCHANGED <<frames, link, arrived, consumed, received, header, out>>
  BY DEF NewMessage
<1>5. Layout' /\ FramesIntact' /\ OutType' /\ Begin(Current)' = Begin(Current)
  BY <1>4 DEF IInv, Layout, FramesIntact, OutType, Bytes, Begin, Total, Current
<1>6. CASE frames[Current].good
  <2>1. /\ pc' = "body"
        /\ msgLen' = frames[Current].len
        /\ raw' = Fresh(frames[Current].len)
    BY <1>3, <1>6 DEF NewMessage
  <2>2. msgLen' \in MsgLens /\ msgLen' \in Nat /\ msgLen' > HeaderLen
    BY <1>0, <1>2, <2>1, Positions
  <2>3. raw' \in [0 .. msgLen' - 1 -> Nat \cup {NoByte}]
    BY <2>1 DEF Fresh
  <2>4. TypeOK'
    BY <1>0, <1>4, <2>1, <2>2, <2>3 DEF TypeOK, Total
  <2>5. BodyAligned'
    <3>1. received' \in HeaderLen .. msgLen' /\ received' \in Int
      BY <1>0, <1>4, <2>2
    <3>2. \A k \in HeaderLen .. received' - 1 : raw'[k] = Begin(Current) + k
      BY <1>0, <1>4
    <3>3. QED
      BY <1>0, <1>2, <1>4, <1>5, <1>6, <2>1, <3>1, <3>2 DEF BodyAligned, Current
  <2>6. QED
    BY <1>5, <2>1, <2>4, <2>5 DEF IInv, HeaderAligned
<1>7. CASE ~frames[Current].good
  <2>1. pc' = "exited" /\ UNCHANGED <<msgLen, raw>>
    BY <1>3, <1>7 DEF NewMessage
  <2>2. TypeOK'
    BY <1>0, <1>4, <2>1 DEF TypeOK, Total
  <2>3. QED
    BY <1>5, <2>1, <2>2 DEF IInv, HeaderAligned, BodyAligned
<1>8. QED
  BY <1>6, <1>7

(* The body loop stores the rest of the frame where it belongs.            *)
LEMMA StepBody ==
  ASSUME IInv, RecvBody
  PROVE  IInv'
<1>0. /\ TypeOK
      /\ BodyAligned
      /\ pc = "body"
      /\ received < msgLen
      /\ received \in Int
      /\ HeaderLen \in Nat \ {0}
      /\ msgLen \in Nat /\ msgLen \in MsgLens
      /\ raw \in [0 .. msgLen - 1 -> Nat \cup {NoByte}]
      /\ Begin(Current) \in Nat
      /\ consumed \in Nat
  BY FrameAssumption, Positions DEF IInv, TypeOK, RecvBody, MsgComplete
<1>1. PICK ret \in -1 .. msgLen :
        /\ Recv(msgLen - received, ret)
        /\ received' = received + ret
        /\ raw' = Stored(raw, received, ret)
  BY DEF RecvBody
<1>2. UNCHANGED <<frames, arrived, pc, header, msgLen, out>>
  BY DEF RecvBody
<1>3. \/ /\ ret \in 1 .. msgLen - received
         /\ consumed' = consumed + ret
         /\ consumed' <= arrived
         /\ link' = link
      \/ /\ ret = 0
         /\ consumed = arrived
         /\ UNCHANGED <<consumed, link>>
      \/ /\ ret = -1
         /\ consumed = arrived
         /\ consumed' = consumed
         /\ link' = "down"
  <2>1. msgLen - received \in Nat \ {0}
    BY <1>0
  <2>2. QED
    BY <1>0, <1>1, <2>1, RecvFacts
<1>4. Layout' /\ FramesIntact' /\ OutType' /\ Begin(Current)' = Begin(Current)
  BY <1>2 DEF IInv, Layout, FramesIntact, OutType, Bytes, Begin, Total, Current
<1>5. ret > 0 => /\ received \in HeaderLen .. msgLen
                 /\ consumed = Begin(Current) + received
                 /\ \A k \in HeaderLen .. received - 1 : raw[k] = Begin(Current) + k
  BY <1>0, <1>3, Positions DEF BodyAligned, TypeOK
<1>6. /\ raw' \in [0 .. msgLen - 1 -> Nat \cup {NoByte}]
      /\ \A k \in 0 .. msgLen - 1 :
           raw'[k] = IF k \in received .. received + ret - 1
                     THEN consumed + (k - received) ELSE raw[k]
  BY <1>0, <1>1, <1>5, StoredFacts
<1>7. TypeOK'
  BY <1>0, <1>1, <1>2, <1>3, <1>6 DEF TypeOK, Total
<1>8. BodyAligned'
  <2>1. CASE ret > 0
    <3>1. /\ received' \in HeaderLen .. msgLen
          /\ consumed' = Begin(Current) + received'
      BY <1>0, <1>1, <1>3, <1>5, <2>1
    <3>2. ASSUME NEW k \in Nat, k >= HeaderLen, k < received'
          PROVE  raw'[k] = Begin(Current) + k
      <4>1. k \in 0 .. msgLen - 1
        <5>1. HeaderLen \in Nat /\ msgLen \in Nat /\ received' \in HeaderLen .. msgLen
          BY <1>0, <3>1
        <5>2. QED
          BY <5>1, <3>2
      <4>2. CASE k < received
        BY <3>2, <1>0, <1>5, <1>6, <2>1, <4>1, <4>2
      <4>3. CASE k >= received
        BY <3>2, <1>0, <1>1, <1>5, <1>6, <2>1, <4>1, <4>3
      <4>4. QED
        BY <1>0, <4>2, <4>3
    <3>3. /\ received' \in Int
          /\ \A k \in HeaderLen .. received' - 1 : raw'[k] = Begin(Current) + k
      BY <1>0, <1>1, <3>1, <3>2
    <3>4. QED
      BY <1>0, <1>2, <1>4, <3>1, <3>2, <3>3 DEF BodyAligned, Current
  <2>2. CASE ret = 0
    <3>1. received' = received /\ \A k \in 0 .. msgLen - 1 : raw'[k] = raw[k]
      BY <1>0, <1>1, <1>6, <2>2
    <3>2. consumed' = consumed /\ link' = link
      BY <1>3, <2>2
    <3>3. QED
      BY <1>0, <1>2, <1>4, <3>1, <3>2 DEF BodyAligned, Current
  <2>3. CASE ret = -1
    <3>1. link' = "down" /\ consumed' = arrived /\ received' \in Int /\ received' < msgLen
      BY <1>0, <1>1, <1>3, <2>3
    <3>2. QED
      BY <1>0, <1>2, <1>4, <3>1 DEF BodyAligned, Current
  <2>4. QED
    BY <1>3, <2>1, <2>2, <2>3
<1>9. QED
  BY <1>0, <1>2, <1>4, <1>7, <1>8 DEF IInv, HeaderAligned

(* A complete message is the current frame.                                *)
LEMMA StepDispatch ==
  ASSUME IInv, Dispatch
  PROVE  IInv'
<1> DEFINE m == [k \in DOMAIN raw |-> IF k < HeaderLen THEN header[k] ELSE raw[k]]
           n == Len(out)
<1>a. /\ TypeOK /\ BodyAligned /\ Layout
      /\ pc = "body"
      /\ received >= msgLen
      /\ HeaderLen \in Nat \ {0}
      /\ msgLen \in Nat /\ msgLen \in MsgLens
      /\ raw \in [0 .. msgLen - 1 -> Nat \cup {NoByte}]
      /\ out \in Seq(Messages)
  BY FrameAssumption DEF IInv, TypeOK, OutType, Dispatch, MsgComplete
<1>b. /\ n \in Nat
      /\ Current = n + 1
      /\ Current \in DOMAIN frames
      /\ DOMAIN frames = 1 .. Len(frames) /\ Len(frames) \in Nat
      /\ frames[Current].good
      /\ msgLen = frames[Current].len
      /\ Begin(Current) = frames[Current].start
      /\ Begin(Current) \in Nat
  BY <1>a, Positions DEF BodyAligned, Begin, Current
<1>c. /\ received = msgLen
      /\ consumed = Begin(Current) + msgLen
      /\ \A k \in 0 .. HeaderLen - 1 : header[k] = Begin(Current) + k
      /\ \A k \in HeaderLen .. msgLen - 1 : raw[k] = Begin(Current) + k
  <2>1. /\ consumed = Begin(Current) + received
        /\ received \in HeaderLen .. msgLen
        /\ \A k \in HeaderLen .. received - 1 : raw[k] = Begin(Current) + k
    BY <1>a DEF BodyAligned
  <2>2. received = msgLen
    BY <1>a, <2>1
  <2>3. \A k \in 0 .. HeaderLen - 1 : header[k] = Begin(Current) + k
    BY <1>a DEF BodyAligned
  <2>4. QED
    BY <2>1, <2>2, <2>3
<1>1. /\ out' = Append(out, m)
      /\ pc' = "header"
      /\ received' = 0
      /\ header' = Fresh(HeaderLen)
      /\ raw' = << >>
      /\ UNCHANGED <<frames, link, arrived, consumed, msgLen>>
  BY DEF Dispatch
<1>2. m = Bytes(frames[Current])
  <2>1. \A k \in 0 .. msgLen - 1 : m[k] = Begin(Current) + k
    BY <1>a, <1>b, <1>c
  <2>2. QED
    BY <1>a, <1>b, <1>c, <2>1 DEF Bytes
<1>3. m \in Messages
  <2>1. \A k \in 0 .. msgLen - 1 : Begin(Current) + k \in Nat
    BY <1>a, <1>b
  <2>2. m \in [0 .. msgLen - 1 -> Nat \cup {NoByte}]
    BY <1>a, <1>b, <1>2, <2>1 DEF Bytes
  <2>3. QED
    BY <1>a, <2>2 DEF Messages
<1> HIDE DEF m
<1>4. /\ out' \in Seq(Messages)
      /\ Len(out') = n + 1
      /\ DOMAIN out = 1 .. n
      /\ DOMAIN out' = 1 .. n + 1
      /\ out'[n + 1] = m
      /\ \A i \in 1 .. n : out'[i] = out[i]
  BY <1>a, <1>b, <1>c, <1>1, <1>3
<1>5. FramesIntact'
  <2>1. Len(out') <= Len(frames)
    BY <1>a, <1>b, <1>c, <1>4
  <2>2. \A i \in 1 .. n : out'[i] = Bytes(frames[i]) /\ frames[i].good
    BY <1>4 DEF IInv, FramesIntact
  <2>3. out'[n + 1] = Bytes(frames[n + 1]) /\ frames[n + 1].good
    BY <1>a, <1>b, <1>c, <1>2, <1>4
  <2>4. \A i \in 1 .. n + 1 : out'[i] = Bytes(frames[i]) /\ frames[i].good
    BY <1>a, <1>b, <1>c, <2>2, <2>3
  <2>5. QED
    BY <1>1, <1>4, <2>1, <2>4 DEF FramesIntact, Bytes
<1>6. header' \in [0 .. HeaderLen - 1 -> Nat \cup {NoByte}]
  BY <1>1 DEF Fresh
<1>7. TypeOK'
  BY <1>a, <1>b, <1>c, <1>1, <1>6 DEF TypeOK, Total
<1>8. Layout' /\ OutType'
  BY <1>a, <1>b, <1>c, <1>1, <1>4 DEF Layout, OutType, Begin, Total
<1>9. HeaderAligned'
  <2>1. Begin(Current)' = Begin(n + 2)
    BY <1>a, <1>b, <1>c, <1>1, <1>4 DEF Begin, Current, Total
  <2>2. Begin(n + 2) = consumed
    BY <1>a, <1>b, <1>c DEF Layout
  <2>3. QED
    BY <1>a, <1>b, <1>c, <1>1, <2>1, <2>2 DEF HeaderAligned, TypeOK
<1>10. QED
  BY <1>1, <1>5, <1>7, <1>8, <1>9 DEF IInv, BodyAligned

(* IInv is an inductive invariant of the receiver.                         *)
THEOREM InductiveInvariant == Spec => []IInv
<1>1. IInv /\ [Next]_vars => IInv'
  <2>1. IInv /\ UNCHANGED vars => IInv'
    BY DEF vars, IInv, TypeOK, OutType, Layout, FramesIntact, HeaderAligned, BodyAligned,
           Total, Begin, Bytes, Current
  <2>2. QED
    BY <2>1, StepSend, StepNetwork, StepHeader, StepNewMessage, StepBody, StepDispatch
    DEF Next, Peer, Thread
<1>2. QED
  BY <1>1, InitInv, PTL DEF Spec

(* The thread never stores outside header, nor reads what has not arrived  *)
(* (receiver.c:49-61, 81-85).                                              *)
THEOREM TypeCorrect == Spec => []TypeOK
  BY InductiveInvariant, PTL DEF IInv

(* However TCP segments the stream and however the connection ends, the    *)
(* workers are given exactly the frames the peer sent, in order, uncut and *)
(* with a correct version (receiver.c:43-97).                              *)
THEOREM MessagesAreFrames == Spec => []FramesIntact
  BY InductiveInvariant, PTL DEF IInv
=============================================================================
