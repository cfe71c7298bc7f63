------------------------ MODULE SecureChannel_proofs -----------------------
(***************************************************************************)
(* The channel and the call, for every size of the numbers, the packets,   *)
(* the messages and the faults: ChannelInv is inductive.                   *)
(***************************************************************************)
EXTENDS SecureChannel, Integers, SequenceTheorems, TLAPS

\* Unsigned arithmetic is a plain successor up to the last number.
LEMMA Wraps ==
  ASSUME NEW s \in Numbers
  PROVE  (s + 1) % Modulus = IF s + 1 = Modulus THEN 0 ELSE s + 1
<1>1. Modulus \in Nat \ {0} /\ s \in 0..(Modulus - 1)
  BY ChannelAssumption DEF Numbers
<1>2. CASE s + 1 = Modulus
  BY <1>1, <1>2
<1>3. CASE s + 1 < Modulus
  BY <1>1, <1>3
<1> QED
  BY <1>1, <1>2, <1>3

LEMMA NextNumberType ==
  ASSUME NEW s \in Numbers
  PROVE  NextNumber(s) \in Numbers
<1>1. /\ Modulus \in Nat /\ RollTo \in Nat /\ RollFrom \in Nat
      /\ RollTo < RollFrom /\ RollFrom < Modulus /\ FirstNumber \in 0..(RollTo - 1)
  BY ChannelAssumption
<1>2. (s + 1) % Modulus = IF s + 1 = Modulus THEN 0 ELSE s + 1
  BY Wraps
<1> QED
  BY <1>1, <1>2 DEF NextNumber, Numbers

\* What a sequence is without its i-th element, or with one more.
LEMMA RemoveAtProperties ==
  ASSUME NEW S, NEW s \in Seq(S), NEW i \in 1..Len(s)
  PROVE  /\ RemoveAt(s, i) \in Seq(S)
         /\ Len(RemoveAt(s, i)) = Len(s) - 1
         /\ \A j \in 1..(Len(s) - 1) :
              RemoveAt(s, i)[j] = IF j < i THEN s[j] ELSE s[j + 1]
<1> DEFINE front == SubSeq(s, 1, i - 1)
           back == SubSeq(s, i + 1, Len(s))
<1>1. /\ front \in Seq(S) /\ Len(front) = i - 1
      /\ \A j \in 1..(i - 1) : front[j] = s[j]
  BY SubSeqProperties
<1>2. /\ back \in Seq(S) /\ Len(back) = Len(s) - i
      /\ \A j \in 1..(Len(s) - i) : back[j] = s[j + i]
  BY SubSeqProperties
<1> HIDE DEF front, back
<1>3. RemoveAt(s, i) = front \o back
  BY DEF RemoveAt, front, back
<1>4. /\ front \o back \in Seq(S)
      /\ Len(front \o back) = Len(front) + Len(back)
      /\ \A j \in 1..(Len(front) + Len(back)) :
           (front \o back)[j] = IF j <= Len(front) THEN front[j] ELSE back[j - Len(front)]
  BY <1>1, <1>2, ConcatProperties
<1>5. Len(s) \in Nat /\ i \in Nat
  BY LenProperties
<1>6. Len(front) + Len(back) = Len(s) - 1
  BY <1>1, <1>2, <1>5
<1>7. ASSUME NEW j \in 1..(Len(s) - 1)
      PROVE  RemoveAt(s, i)[j] = IF j < i THEN s[j] ELSE s[j + 1]
  <2>1. RemoveAt(s, i)[j] = IF j <= Len(front) THEN front[j] ELSE back[j - Len(front)]
    BY <1>3, <1>4, <1>6
  <2>2. CASE j < i
    <3>1. j \in 1..(i - 1) /\ j <= Len(front)
      BY <1>1, <1>5, <2>2
    <3> QED
      BY <1>1, <2>1, <2>2, <3>1
  <2>3. CASE ~(j < i)
    <3>1. j - Len(front) \in 1..(Len(s) - i) /\ ~(j <= Len(front))
      BY <1>1, <1>5, <2>3
    <3>2. (j - Len(front)) + i = j + 1
      BY <1>1, <1>5
    <3> QED
      BY <1>2, <2>1, <2>3, <3>1, <3>2
  <2> QED
    BY <2>2, <2>3
<1> QED
  BY <1>3, <1>4, <1>6, <1>7

LEMMA InsertAtProperties ==
  ASSUME NEW S, NEW s \in Seq(S), NEW i \in 1..Len(s), NEW e \in S
  PROVE  /\ InsertAt(s, i, e) \in Seq(S)
         /\ Len(InsertAt(s, i, e)) = Len(s) + 1
         /\ \A j \in 1..(Len(s) + 1) :
              InsertAt(s, i, e)[j] =
                IF j < i THEN s[j] ELSE IF j = i THEN e ELSE s[j - 1]
<1> DEFINE front == SubSeq(s, 1, i - 1)
           back == SubSeq(s, i, Len(s))
           fronte == front \o <<e>>
<1>1. /\ front \in Seq(S) /\ Len(front) = i - 1
      /\ \A j \in 1..(i - 1) : front[j] = s[j]
  BY SubSeqProperties
<1>2. /\ back \in Seq(S) /\ Len(back) = Len(s) - i + 1
      /\ \A j \in 1..(Len(s) - i + 1) : back[j] = s[j + i - 1]
  BY SubSeqProperties
<1> HIDE DEF front, back
<1>3. <<e>> \in Seq(S) /\ Len(<<e>>) = 1 /\ <<e>>[1] = e
  OBVIOUS
<1>4. /\ fronte \in Seq(S) /\ Len(fronte) = i
      /\ \A j \in 1..i : fronte[j] = IF j <= i - 1 THEN front[j] ELSE <<e>>[j - (i - 1)]
  BY <1>1, <1>3, ConcatProperties
<1>5. InsertAt(s, i, e) = fronte \o back
  BY DEF InsertAt, front, back
<1> HIDE DEF fronte
<1>6. /\ fronte \o back \in Seq(S)
      /\ Len(fronte \o back) = Len(fronte) + Len(back)
      /\ \A j \in 1..(Len(fronte) + Len(back)) :
           (fronte \o back)[j] =
             IF j <= Len(fronte) THEN fronte[j] ELSE back[j - Len(fronte)]
  BY <1>2, <1>4, ConcatProperties
<1>7. ASSUME NEW j \in 1..i
      PROVE  fronte[j] = IF j < i THEN s[j] ELSE e
  <2>1. fronte[j] = IF j <= i - 1 THEN front[j] ELSE <<e>>[j - (i - 1)]
    BY <1>4
  <2>2. CASE j < i
    <3>1. j \in 1..(i - 1) /\ j <= i - 1
      BY <2>2
    <3> QED
      BY <1>1, <2>1, <2>2, <3>1
  <2>3. CASE ~(j < i)
    <3>1. j - (i - 1) = 1 /\ ~(j <= i - 1)
      BY <2>3
    <3> QED
      BY <1>3, <2>1, <2>3, <3>1
  <2> QED
    BY <2>2, <2>3
<1>8. \A j \in (i + 1)..(Len(s) + 1) : back[j - i] = s[j - 1]
  BY <1>2
<1>9. Len(s) \in Nat /\ i \in Nat
  BY LenProperties
<1>10. Len(fronte) = i /\ Len(fronte) + Len(back) = Len(s) + 1
  BY <1>2, <1>4, <1>9
<1>11. ASSUME NEW j \in 1..(Len(s) + 1)
       PROVE  InsertAt(s, i, e)[j] =
                IF j < i THEN s[j] ELSE IF j = i THEN e ELSE s[j - 1]
  <2>1. InsertAt(s, i, e)[j] = IF j <= i THEN fronte[j] ELSE back[j - i]
    BY <1>5, <1>6, <1>10
  <2>2. CASE j <= i
    <3>1. j \in 1..i
      BY <1>9, <2>2
    <3>2. fronte[j] = IF j < i THEN s[j] ELSE e
      BY <1>7, <3>1
    <3>3. j < i \/ j = i
      BY <1>9, <2>2
    <3> QED
      BY <1>9, <2>1, <2>2, <3>2, <3>3
  <2>3. CASE ~(j <= i)
    <3>1. j \in (i + 1)..(Len(s) + 1) /\ ~(j < i) /\ j # i
      BY <1>9, <2>3
    <3> QED
      BY <1>8, <2>1, <2>3, <3>1
  <2> QED
    BY <2>2, <2>3
<1> QED
  BY <1>5, <1>6, <1>10, <1>11

LEMMA FrontProperties ==
  ASSUME NEW S, NEW s \in Seq(S), s # <<>>
  PROVE  /\ Front(s) \in Seq(S)
         /\ Len(Front(s)) = Len(s) - 1
         /\ \A j \in 1..(Len(s) - 1) : Front(s)[j] = s[j]
<1>1. PICK n \in Nat : n + 1 = Len(s)
  <2>1. Len(s) \in Nat /\ Len(s) # 0
    BY LenProperties, EmptySeq
  <2>2. Len(s) - 1 \in Nat /\ (Len(s) - 1) + 1 = Len(s)
    BY <2>1
  <2> QED
    BY <2>2
<1>2. \A j \in 1..n : s[j] \in S
  BY <1>1, ElementOfSeq
<1>3. /\ SubSeq(s, 1, n) \in Seq(S)
      /\ Len(SubSeq(s, 1, n)) = n
      /\ \A j \in 1..n : SubSeq(s, 1, n)[j] = s[j]
  BY <1>2, SubSeqProperties
<1>4. Front(s) = SubSeq(s, 1, n)
  BY <1>1 DEF Front
<1> QED
  BY <1>1, <1>3, <1>4

\* What is left of a sequence behind its first k elements.
LEMMA RestProperties ==
  ASSUME NEW S, NEW s \in Seq(S), NEW k \in 0..Len(s)
  PROVE  /\ SubSeq(s, k + 1, Len(s)) \in Seq(S)
         /\ Len(SubSeq(s, k + 1, Len(s))) = Len(s) - k
         /\ \A i \in 1..(Len(s) - k) : SubSeq(s, k + 1, Len(s))[i] = s[i + k]
BY SubSeqProperties

----------------------------------------------------------------------------
(* The queue when a chunk is entered in it.                                *)

LEMMA LastProperties ==
  ASSUME NEW S, NEW s \in Seq(S), s # <<>>
  PROVE  /\ Len(s) \in Nat \ {0} /\ Len(s) \in 1..Len(s)
         /\ Last(s) \in S /\ Last(s) = s[Len(s)] /\ Head(s) \in S /\ Head(s) = s[1]
<1>1. Len(s) \in Nat \ {0}
  BY LenProperties, EmptySeq
<1> QED
  BY <1>1, ElementOfSeq, HeadTailProperties DEF Last

EnteredOK(type, id) ==
  /\ Entered(type, id) \in Seq(Message) /\ Entered(type, id) # <<>>
  /\ Last(Entered(type, id)).type = type /\ Last(Entered(type, id)).id = id
  /\ ~Last(Entered(type, id)).final
  /\ Open(type, id) => Entered(type, id) = queue
  /\ ~Open(type, id) =>
       /\ Len(Entered(type, id)) = Len(queue) + 1
       /\ \A i \in 1..Len(queue) : Entered(type, id)[i] = queue[i]
       /\ Last(Entered(type, id)).parts = <<>>

LEMMA EnteredProperties ==
  ASSUME queue \in Seq(Message), NEW type \in {"MSG", "ERR"}, NEW id \in Nat
  PROVE  EnteredOK(type, id)
<1>1. CASE Open(type, id)
  BY <1>1 DEF Entered, Open, EnteredOK
<1>2. CASE ~Open(type, id)
  <2> DEFINE m == [type |-> type, id |-> id, parts |-> <<>>, size |-> 0, final |-> FALSE]
  <2>1. m \in Message
    BY DEF Message
  <2>2. m.type = type /\ m.id = id /\ ~m.final /\ m.parts = <<>>
    OBVIOUS
  <2>3. Entered(type, id) = Append(queue, m)
    BY <1>2 DEF Entered
  <2> HIDE DEF m
  <2>4. /\ Append(queue, m) \in Seq(Message) /\ Append(queue, m) # <<>>
        /\ Len(Append(queue, m)) = Len(queue) + 1
        /\ \A i \in 1..Len(queue) : Append(queue, m)[i] = queue[i]
        /\ Append(queue, m)[Len(queue) + 1] = m
    BY <2>1, AppendProperties
  <2> QED
    BY <1>2, <2>2, <2>3, <2>4 DEF Last, EnteredOK
<1> QED
  BY <1>1, <1>2

AddedOK(q, kind, p) ==
  LET r == Added(q, kind, p)
  IN  /\ r \in Seq(Message) /\ Len(r) = Len(q) /\ r # <<>>
      /\ \A i \in 1..Len(q) : i # Len(q) => r[i] = q[i]
      /\ Last(r).type = Last(q).type /\ Last(r).id = Last(q).id
      /\ Last(r).final <=> kind = "F"
      /\ Last(r).parts = Append(Last(q).parts, p)

LEMMA AddedProperties ==
  ASSUME NEW q \in Seq(Message), q # <<>>, NEW kind \in {"C", "F"}, NEW p \in Nat
  PROVE  AddedOK(q, kind, p)
<1> DEFINE m == [Last(q) EXCEPT !.parts = Append(@, p), !.size = @ + SizeOf(kind),
                               !.final = (kind = "F")]
           parts == Append(Last(q).parts, p)
           size == Last(q).size + SizeOf(kind)
           final == kind = "F"
<1>1. /\ Len(q) \in 1..Len(q) /\ Last(q) \in Message
  BY LastProperties
<1>2. parts \in Seq(Nat) /\ size \in Nat /\ final \in BOOLEAN
  BY <1>1, AppendProperties DEF Message, SizeOf
<1>3. m = [Last(q) EXCEPT !.parts = parts, !.size = size, !.final = final]
  OBVIOUS
<1> HIDE DEF parts, size, final
<1>4. /\ m \in Message
      /\ m.type = Last(q).type /\ m.id = Last(q).id /\ m.parts = parts
  BY <1>1, <1>2, <1>3 DEF Message
<1>5. m.final <=> final
  BY <1>1, <1>2, <1>3 DEF Message
<1>6. Added(q, kind, p) = [q EXCEPT ![Len(q)] = m]
  BY DEF Added
<1> HIDE DEF m
<1>7. /\ Added(q, kind, p) \in Seq(Message) /\ Len(Added(q, kind, p)) = Len(q)
      /\ \A i \in 1..Len(q) :
           Added(q, kind, p)[i] = IF i = Len(q) THEN m ELSE q[i]
  BY <1>1, <1>4, <1>6, ExceptSeq
<1>8. Added(q, kind, p) # <<>> /\ Last(Added(q, kind, p)) = m
  BY <1>1, <1>7 DEF Last
<1> QED
  BY <1>1, <1>4, <1>5, <1>7, <1>8 DEF parts, final, AddedOK

----------------------------------------------------------------------------
(* Types, and the halves of chunks.                                        *)

LEMMA SendType ==
  ASSUME ChannelTypeOK, NEW next, Send(next)
  PROVE  /\ phase' = next /\ at' = "wait" /\ received' = FALSE
         /\ requestId' = requestId + 1 /\ requestId' \in Nat
         /\ todo' \in Seq(Nat) /\ Len(todo') = Len(todo) + 1
         /\ \A i \in 1..Len(todo) : todo'[i] = todo[i]
         /\ todo'[Len(todo) + 1] = requestId + 1
<1>1. requestId + 1 \in Nat /\ todo \in Seq(Nat)
  BY DEF ChannelTypeOK
<1>2. todo' = Append(todo, requestId + 1)
  BY DEF Send
<1> HIDE DEF ChannelTypeOK
<1> QED
  BY <1>1, <1>2, AppendProperties DEF Send

LEMMA AheadProperties ==
  ASSUME ChannelTypeOK, Halves, inHand >= 2
  PROVE  /\ stream # <<>> /\ Len(stream) \in Nat \ {0}
         /\ Ahead \in Chunk /\ Ahead = stream[1]
         /\ Tail(stream) \in Seq(Chunk) /\ Len(Tail(stream)) = Len(stream) - 1
         /\ \A i \in 1..(Len(stream) - 1) : Tail(stream)[i] = stream[i + 1]
<1>1. /\ stream \in Seq(Chunk) /\ inHand \in Nat /\ Len(stream) \in Nat
      /\ inHand <= 2 * Len(stream)
  BY LenProperties DEF ChannelTypeOK, Halves
<1>2. Len(stream) # 0 /\ stream # <<>>
  BY <1>1, EmptySeq
<1> QED
  BY <1>1, <1>2, HeadTailProperties DEF Ahead

\* The end of the connection leaves nothing.
LEMMA DownType ==
  ASSUME ChannelTypeOK, GoDown, receiveSeq' \in Numbers, faults' \in Nat,
         part' \in Nat, serverSeq' \in Numbers, server' \in {"up", "gone"},
         replies' \in Seq(Message), rolled' \in BOOLEAN, why' \in Reasons
  PROVE  ChannelTypeOK' /\ Halves'
<1>1. /\ <<>> \in Seq(Message) /\ <<>> \in Seq(Nat) /\ <<>> \in Seq(Chunk)
      /\ Len(<<>>) = 0
  OBVIOUS
<1>2. ChannelTypeOK'
  BY <1>1 DEF ChannelTypeOK, GoDown
<1>3. Halves'
  BY <1>1 DEF GoDown, Halves
<1> QED
  BY <1>2, <1>3

LEMMA FailType ==
  ASSUME ChannelTypeOK, Halves, NEW reason \in Reasons, NEW q \in Seq(Message),
         Fail(reason, q), receiveSeq' \in Numbers
  PROVE  ChannelTypeOK' /\ Halves'
<1>1. why' \in Reasons
  BY DEF Fail, ChannelTypeOK
<1>2. /\ part' \in Nat /\ serverSeq' \in Numbers /\ server' \in {"up", "gone"}
      /\ faults' \in Nat /\ replies' \in Seq(Message) /\ rolled' \in BOOLEAN
  BY DEF Fail, ChannelTypeOK
<1>3. CASE phase # "service"
  BY <1>1, <1>2, <1>3, DownType DEF Fail
<1>4. CASE phase = "service"
  <2>1. /\ Send("closing") /\ queue' = q /\ held' = 0 /\ inHand' = 0
        /\ stream' = SubSeq(stream, inHand \div 2 + 1, Len(stream))
        /\ cut' = (inHand % 2 = 1) /\ uncopied' = uncopied /\ freed' = uncopied
    BY <1>4 DEF Fail
  <2>2. inHand \in Nat /\ stream \in Seq(Chunk) /\ Len(stream) \in Nat
    BY LenProperties DEF ChannelTypeOK
  <2>3. inHand \div 2 \in 0..Len(stream)
    BY <2>2 DEF Halves
  <2>4. stream' \in Seq(Chunk) /\ Len(stream') \in Nat
    BY <2>1, <2>2, <2>3, RestProperties, LenProperties
  <2>5. /\ phase' = "closing" /\ at' = "wait" /\ received' = FALSE
        /\ requestId' \in Nat /\ todo' \in Seq(Nat)
    BY <2>1, SendType
  <2>6. cut' \in BOOLEAN
    BY <2>1
  <2>7. ChannelTypeOK'
    BY <1>1, <1>2, <2>1, <2>4, <2>5, <2>6 DEF ChannelTypeOK
  <2>8. Halves'
    BY <2>1, <2>4, <2>5 DEF Halves
  <2> QED
    BY <2>7, <2>8
<1> QED
  BY <1>3, <1>4

LEMMA SendingType ==
  ASSUME ChannelTypeOK, Halves, NEW next \in {"service", "closing"}, Send(next),
         at = "wait", UNCHANGED <<channelVars, inHand, part, serverSeq, server,
                                  networkVars, historyVars>>
  PROVE  ChannelTypeOK' /\ Halves'
<1>1. /\ phase' = next /\ at' = "wait" /\ received' = FALSE
      /\ requestId' \in Nat /\ todo' \in Seq(Nat)
  BY SendType
<1>2. UNCHANGED <<queue, receiveSeq, held, uncopied, freed, inHand, part, serverSeq, server,
                  stream, cut, faults, replies, rolled, why>>
  BY DEF channelVars, bufferVars, networkVars, historyVars
<1> QED
  BY <1>1, <1>2 DEF ChannelTypeOK, Halves

LEMMA TypeKept ==
  ASSUME ChannelTypeOK, Halves, ChannelNext
  PROVE  ChannelTypeOK' /\ Halves'
<1> USE DEF channelVars, bufferVars, callVars, peerVars, networkVars, historyVars
<1>1. CASE Request
  <2>1. Send("service") /\ at = "wait"
    BY <1>1 DEF Request, Halves
  <2> QED
    BY <1>1, <2>1, SendingType DEF Request
<1>2. CASE Leave
  <2>1. Send("closing") /\ at = "wait"
    BY <1>2 DEF Leave, Halves
  <2> QED
    BY <1>2, <2>1, SendingType DEF Leave
<1>3. CASE Timeout
  <2>1. UNCHANGED <<part, serverSeq, server, faults, replies, rolled, why>>
    BY <1>3 DEF Timeout
  <2>2. CASE phase = "service"
    <3>1. /\ Send("closing") /\ at = "wait"
          /\ UNCHANGED <<channelVars, inHand, stream, cut>>
      BY <1>3, <2>2 DEF Timeout, Abandon, Waits
    <3> QED
      BY <2>1, <3>1, SendingType
  <2>3. CASE phase # "service"
    <3>1. GoDown /\ UNCHANGED receiveSeq
      BY <1>3, <2>3 DEF Timeout, Abandon
    <3> QED
      BY <2>1, <3>1, DownType DEF ChannelTypeOK
  <2> QED
    BY <2>2, <2>3
<1>4. CASE ConnectionLost \/ GarbageFails
  <2>1. /\ GoDown
        /\ UNCHANGED <<receiveSeq, part, serverSeq, server, faults, replies,
                       rolled, why>>
    BY <1>4 DEF ConnectionLost, GarbageFails
  <2> QED
    BY <2>1, DownType DEF ChannelTypeOK
<1>5. CASE TokenTimesOut
  <2>1. /\ GoDown /\ why' \in Reasons
        /\ UNCHANGED <<receiveSeq, part, serverSeq, server, faults, replies, rolled>>
    BY <1>5 DEF TokenTimesOut, ChannelTypeOK, Reasons
  <2> QED
    BY <2>1, DownType DEF ChannelTypeOK
<1>6. CASE ServerSends
  <2>1. PICK kind \in {"C", "F", "A"} :
          /\ stream' = Append(stream,
               [type |-> "MSG", kind |-> kind, id |-> Head(todo),
                seq |-> NextNumber(serverSeq), part |-> part + 1, good |-> TRUE])
          /\ IF kind = "C" THEN part' = part + 1 /\ UNCHANGED todo
                           ELSE part' = 0 /\ todo' = Tail(todo)
    BY <1>6 DEF ServerSends
  <2> DEFINE c == [type |-> "MSG", kind |-> kind, id |-> Head(todo),
                   seq |-> NextNumber(serverSeq), part |-> part + 1, good |-> TRUE]
  <2>2. /\ todo # <<>> /\ serverSeq' = NextNumber(serverSeq)
        /\ UNCHANGED <<queue, receiveSeq, held, bufferVars, phase, at, inHand, requestId,
                       received, server, cut, faults, replies, rolled, why>>
    BY <1>6 DEF ServerSends
  <2>3. /\ Head(todo) \in Nat /\ Tail(todo) \in Seq(Nat)
        /\ NextNumber(serverSeq) \in Numbers
    BY <2>2, NextNumberType, HeadTailProperties DEF ChannelTypeOK
  <2>4. c \in Chunk
    BY <2>3 DEF ChannelTypeOK, Chunk
  <2> HIDE DEF c
  <2>5. stream' \in Seq(Chunk) /\ Len(stream') = Len(stream) + 1 /\ Len(stream) \in Nat
    BY <2>1, <2>4, AppendProperties, LenProperties DEF c, ChannelTypeOK
  <2>6. todo' \in Seq(Nat) /\ part' \in Nat
    <3>1. CASE kind = "C"
      BY <2>1, <3>1 DEF ChannelTypeOK
    <3>2. CASE kind # "C"
      <4>1. todo' = Tail(todo) /\ part' = 0
        BY <2>1, <3>2
      <4> QED
        BY <2>3, <4>1
    <3> QED
      BY <3>1, <3>2
  <2>7. ChannelTypeOK'
    BY <2>2, <2>3, <2>5, <2>6 DEF ChannelTypeOK
  <2>8. Halves'
    BY <2>2, <2>5 DEF Halves, ChannelTypeOK
  <2> QED
    BY <2>7, <2>8
<1>7. CASE ServerErrs
  <2> DEFINE c == [type |-> "ERR", kind |-> "F", id |-> 0, seq |-> 0, part |-> 1,
                   good |-> TRUE]
  <2>1. /\ stream' = Append(stream, c) /\ server' = "gone"
        /\ UNCHANGED <<queue, receiveSeq, held, bufferVars, phase, at, inHand, requestId,
                       received, todo, part, serverSeq, cut, faults, replies, rolled,
                       why>>
    BY <1>7 DEF ServerErrs
  <2>2. c \in Chunk
    BY ChannelAssumption DEF Chunk, Numbers
  <2> HIDE DEF c
  <2>3. stream' \in Seq(Chunk) /\ Len(stream') = Len(stream) + 1 /\ Len(stream) \in Nat
    BY <2>1, <2>2, AppendProperties, LenProperties DEF ChannelTypeOK
  <2>4. ChannelTypeOK'
    BY <2>1, <2>3 DEF ChannelTypeOK
  <2>5. Halves'
    BY <2>1, <2>3 DEF Halves, ChannelTypeOK
  <2> QED
    BY <2>4, <2>5
<1>8. CASE Fault
  <2>1. PICK i \in 1..Len(stream) :
          /\ held < 2 * i - 1
          /\ \/ stream' = RemoveAt(stream, i)
             \/ stream' = InsertAt(stream, i, stream[i])
             \/ stream' = [stream EXCEPT ![i].good = FALSE]
    BY <1>8 DEF Fault
  <2>2. /\ at = "wait" /\ faults' = faults + 1
        /\ UNCHANGED <<queue, receiveSeq, held, bufferVars, phase, at, inHand, requestId,
                       received, todo, part, serverSeq, server, cut, replies, rolled,
                       why>>
    BY <1>8 DEF Fault
  <2>3. stream \in Seq(Chunk) /\ Len(stream) \in Nat /\ stream[i] \in Chunk
    BY LenProperties, ElementOfSeq DEF ChannelTypeOK
  <2>4. stream' \in Seq(Chunk) /\ Len(stream') >= Len(stream) - 1 /\ Len(stream') \in Nat
    <3>1. CASE stream' = RemoveAt(stream, i)
      BY <2>3, <3>1, RemoveAtProperties
    <3>2. CASE stream' = InsertAt(stream, i, stream[i])
      BY <2>3, <3>2, InsertAtProperties
    <3>3. CASE stream' = [stream EXCEPT ![i].good = FALSE]
      <4>1. [stream[i] EXCEPT !.good = FALSE] \in Chunk
        BY <2>3 DEF Chunk
      <4>2. stream' = [stream EXCEPT ![i] = [stream[i] EXCEPT !.good = FALSE]]
        BY <3>3
      <4> QED
        BY <2>3, <4>1, <4>2, ExceptSeq
    <3> QED
      BY <2>1, <3>1, <3>2, <3>3
  <2>5. ChannelTypeOK'
    BY <2>2, <2>4 DEF ChannelTypeOK
  <2>6. held \in Nat /\ inHand = 0
    BY <2>2 DEF Halves, ChannelTypeOK
  <2>7. held <= 2 * Len(stream') /\ 0 <= 2 * Len(stream')
    BY <2>1, <2>3, <2>4, <2>6
  <2>8. Halves'
    BY <2>2, <2>6, <2>7 DEF Halves
  <2> QED
    BY <2>5, <2>8
<1>9. CASE Arrive
  <2>1. PICK k \in 1..(2 * Len(stream) - held) : inHand' = held + k
    BY <1>9 DEF Arrive
  <2>2. /\ held' = 0 /\ at' = "chunks" /\ phase # "idle" /\ ~cut
        /\ UNCHANGED <<queue, receiveSeq, bufferVars, phase, requestId, received, todo, part,
                       serverSeq, server, stream, cut, faults, replies, rolled, why>>
    BY <1>9 DEF Arrive, Waits, Calling
  <2>3. Len(stream) \in Nat
    BY LenProperties DEF ChannelTypeOK
  <2>4. inHand' \in Nat /\ inHand' <= 2 * Len(stream)
    BY <2>1, <2>3 DEF ChannelTypeOK
  <2>5. ChannelTypeOK'
    BY <2>2, <2>4 DEF ChannelTypeOK
  <2>6. Halves'
    BY <2>2, <2>3, <2>4 DEF Halves
  <2> QED
    BY <2>5, <2>6
<1>10. CASE EndOfChunks
  <2>1. /\ at = "chunks" /\ at' = "messages" /\ phase # "idle"
        /\ UNCHANGED <<queue, receiveSeq, held, bufferVars, phase, inHand, requestId, received,
                       todo, part, serverSeq, server, stream, cut, faults, replies,
                       rolled, why>>
    BY <1>10 DEF EndOfChunks, Chunks, Calling
  <2> QED
    BY <2>1 DEF ChannelTypeOK, Halves
<1>11. CASE TakeChunk
  <2>1. /\ Ahead \in Chunk /\ Len(stream) \in Nat \ {0} /\ inHand \in Nat
        /\ Tail(stream) \in Seq(Chunk) /\ Len(Tail(stream)) = Len(stream) - 1
    BY <1>11, AheadProperties DEF TakeChunk, ChannelTypeOK
  <2>2. /\ inHand >= 2 /\ inHand' = inHand - 2 /\ stream' = Tail(stream)
        /\ at' \in {"chunks", "messages"} /\ phase # "idle" /\ held = 0
        /\ UNCHANGED <<held, phase, requestId, received, todo, part, serverSeq, server,
                       cut, faults, replies, why>>
    BY <1>11 DEF TakeChunk, Chunks, Calling, Halves
  <2>3. receiveSeq' \in Numbers
    BY <1>11, <2>1 DEF TakeChunk, ChannelTypeOK, Chunk
  <2>4. rolled' \in BOOLEAN
    BY <1>11 DEF TakeChunk, ChannelTypeOK
  <2>5. queue' \in Seq(Message)
    <3>1. CASE Ahead.kind = "A"
      BY <1>11, <3>1, FrontProperties DEF TakeChunk, Abort, ChannelTypeOK
    <3>2. CASE Ahead.kind # "A"
      <4>1. /\ Ahead.kind \in {"C", "F"} /\ Ahead.part \in Nat /\ Ahead.id \in Nat
            /\ Ahead.type \in {"MSG", "ERR"}
        BY <2>1, <3>2 DEF Chunk
      <4> DEFINE e == Entered(Ahead.type, Ahead.id)
      <4>2. e \in Seq(Message) /\ e # <<>>
        <5>1. queue \in Seq(Message)
          BY DEF ChannelTypeOK
        <5>2. EnteredOK(Ahead.type, Ahead.id)
          BY <4>1, <5>1, EnteredProperties
        <5> QED
          BY <5>2 DEF EnteredOK
      <4>3. queue' = Added(e, Ahead.kind, Ahead.part)
        BY <1>11, <3>2 DEF TakeChunk, Add
      <4> HIDE DEF e
      <4>4. AddedOK(e, Ahead.kind, Ahead.part)
        BY <4>1, <4>2, AddedProperties
      <4> QED
        BY <4>3, <4>4 DEF AddedOK
    <3> QED
      BY <3>1, <3>2
  <2>6. inHand' \in Nat /\ inHand' <= 2 * Len(stream')
    BY <2>1, <2>2 DEF Halves
  <2>9. uncopied' \subseteq Nat /\ freed' \subseteq Nat
    BY <1>11, <2>1 DEF TakeChunk, Abort, Add, Release, ChannelTypeOK, Chunk
  <2>7. ChannelTypeOK'
    BY <2>1, <2>2, <2>3, <2>4, <2>5, <2>6, <2>9 DEF ChannelTypeOK
  <2>8. Halves'
    BY <2>1, <2>2, <2>6, <1>11 DEF Halves, TakeChunk, Chunks
  <2> QED
    BY <2>7, <2>8
<1>12. CASE RefuseHeader \/ RefuseNumber
  <2>1. /\ queue \in Seq(Message) /\ receiveSeq' \in Numbers
        /\ Fail("header", queue) \/ Fail("number", queue)
    BY <1>12 DEF RefuseHeader, RefuseNumber, ChannelTypeOK
  <2>2. "header" \in Reasons /\ "number" \in Reasons
    BY DEF Reasons
  <2> QED
    BY <2>1, <2>2, FailType
<1>13. CASE RefusePayload
  <2>1. Ahead \in Chunk /\ "limit" \in Reasons /\ "order" \in Reasons
    BY <1>13, AheadProperties DEF RefusePayload, Refused, Reasons
  <2>2. receiveSeq' \in Numbers
    BY <1>13, <2>1 DEF RefusePayload, ChannelTypeOK, Chunk
  <2>3. queue \in Seq(Message) /\ Entered(Ahead.type, Ahead.id) \in Seq(Message)
    <3>1. queue \in Seq(Message)
      BY DEF ChannelTypeOK
    <3>2. EnteredOK(Ahead.type, Ahead.id)
      BY <2>1, <3>1, EnteredProperties DEF Chunk
    <3> QED
      BY <3>1, <3>2 DEF EnteredOK
  <2>4. Fail("limit", Entered(Ahead.type, Ahead.id)) \/ Fail("order", queue)
    BY <1>13 DEF RefusePayload
  <2> QED
    BY <2>1, <2>2, <2>3, <2>4, FailType
<1>14. CASE GarbageWaits
  <2>1. /\ stream # <<>> /\ stream' = Tail(stream) /\ at = "wait" /\ at' = "messages"
        /\ phase # "idle"
        /\ UNCHANGED <<queue, receiveSeq, held, bufferVars, phase, inHand, requestId, received,
                       todo, part, serverSeq, server, cut, faults, replies, rolled,
                       why>>
    BY <1>14 DEF GarbageWaits, Waits, Calling
  <2>2. stream' \in Seq(Chunk) /\ Len(stream') = Len(stream) - 1 /\ Len(stream) \in Nat
    BY <2>1, HeadTailProperties, LenProperties DEF ChannelTypeOK
  <2>3. ChannelTypeOK'
    BY <2>1, <2>2 DEF ChannelTypeOK
  <2>4. inHand = 0 /\ held = 0
    BY <1>14 DEF Halves, GarbageWaits, Waits
  <2>5. Halves'
    BY <2>1, <2>2, <2>4 DEF Halves
  <2> QED
    BY <2>3, <2>5
<1>15. CASE Deliver
  <2>1. /\ queue # <<>> /\ queue' = Tail(queue)
        /\ UNCHANGED <<receiveSeq, held, phase, at, inHand, requestId, todo, part,
                       serverSeq, server, stream, cut, faults, rolled, why>>
    BY <1>15 DEF Deliver, Complete
  <2>2. queue' \in Seq(Message) /\ Head(queue) \in Message
    BY <2>1, HeadTailProperties DEF ChannelTypeOK
  <2>3. received' \in BOOLEAN
    BY <1>15 DEF Deliver, ChannelTypeOK
  <2>4. replies' \in Seq(Message)
    <3>1. replies \in Seq(Message) /\ Append(replies, Head(queue)) \in Seq(Message)
      BY <2>2, AppendProperties DEF ChannelTypeOK
    <3>2. replies' = Append(replies, Head(queue)) \/ replies' = replies
      BY <1>15 DEF Deliver
    <3> QED
      BY <3>1, <3>2
  <2>7. uncopied' \subseteq Nat /\ freed' \subseteq Nat
    BY <1>15 DEF Deliver, Release, ChannelTypeOK
  <2>5. ChannelTypeOK'
    BY <2>1, <2>2, <2>3, <2>4, <2>7 DEF ChannelTypeOK
  <2>6. Halves'
    BY <2>1 DEF Halves
  <2> QED
    BY <2>5, <2>6
<1>16. CASE PacketEnds
  <2>1. UNCHANGED <<part, serverSeq, server, faults, replies, rolled, why>>
    BY <1>16 DEF PacketEnds
  <2>2. CASE received /\ phase = "closing"
    <3>1. GoDown /\ UNCHANGED receiveSeq
      BY <1>16, <2>2 DEF PacketEnds
    <3> QED
      BY <2>1, <3>1, DownType DEF ChannelTypeOK
  <2>3. CASE ~(received /\ phase = "closing")
    <3>1. /\ held' = inHand /\ inHand' = 0 /\ at' = "wait"
          /\ phase' = IF received THEN "idle" ELSE phase
          /\ uncopied' = {} /\ freed' = {}
          /\ UNCHANGED <<queue, receiveSeq, requestId, received, todo, stream, cut>>
      BY <1>16, <2>3 DEF PacketEnds
    <3>2. phase' \in {"idle", "service", "closing", "down", "dead"}
      BY <3>1 DEF ChannelTypeOK
    <3>3. ChannelTypeOK'
      BY <2>1, <3>1, <3>2 DEF ChannelTypeOK
    <3>4. inHand \in Nat /\ inHand <= 2 * Len(stream) /\ held = 0 /\ Len(stream) \in Nat
      BY <1>16, LenProperties DEF PacketEnds, Messages, Halves, ChannelTypeOK
    <3>5. 0 <= 2 * Len(stream')
      BY <3>1, <3>4
    <3>6. Halves'
      BY <3>1, <3>4, <3>5 DEF Halves
    <3> QED
      BY <3>3, <3>6
  <2> QED
    BY <2>2, <2>3
<1>18. CASE TouchFreed
  <2>1. /\ phase' = "dead"
        /\ UNCHANGED <<queue, receiveSeq, held, bufferVars, at, inHand, requestId,
                       received, todo, part, serverSeq, server, stream, cut, faults,
                       replies, rolled, why>>
    BY <1>18 DEF TouchFreed
  <2> QED
    BY <2>1 DEF ChannelTypeOK, Halves
<1>17. CASE Over
  <2>1. UNCHANGED vars
    BY <1>17 DEF Over
  <2> QED
    BY <2>1 DEF vars, ChannelTypeOK, Halves
<1> QED
  BY <1>1, <1>2, <1>3, <1>4, <1>5, <1>6, <1>7, <1>8, <1>9, <1>10, <1>11, <1>12, <1>13,
     <1>14, <1>15, <1>16, <1>17, <1>18
     DEF ChannelNext, Launcher, Receive, Process, Refuse, Environment

----------------------------------------------------------------------------
(* The order of requests, chunks and messages.                             *)

\* t has elements of s in their order, each once ...
Shortened(t, s) ==
  \A i, j \in 1..Len(t) : i <= j =>
    \E a, b \in 1..Len(s) : /\ a <= b /\ (i < j => a < b)
                            /\ t[i] = s[a] /\ t[j] = s[b]

\* ... or perhaps repeated or spoilt.
Alike(c, d) == /\ c.type = d.type /\ c.kind = d.kind /\ c.id = d.id
               /\ c.seq = d.seq /\ c.part = d.part
Thinned(t, s) ==
  \A i, j \in 1..Len(t) : i <= j =>
    \E a, b \in 1..Len(s) : a <= b /\ Alike(t[i], s[a]) /\ Alike(t[j], s[b])

LEMMA RestShortened ==
  ASSUME NEW S, NEW s \in Seq(S), NEW t \in Seq(S), NEW k \in 0..Len(s),
         Len(t) = Len(s) - k, \A i \in 1..Len(t) : t[i] = s[i + k]
  PROVE  Shortened(t, s)
<1> SUFFICES ASSUME NEW i \in 1..Len(t), NEW j \in 1..Len(t), i <= j
             PROVE  \E a, b \in 1..Len(s) : /\ a <= b /\ (i < j => a < b)
                                            /\ t[i] = s[a] /\ t[j] = s[b]
  BY DEF Shortened
<1>1. Len(s) \in Nat /\ Len(t) \in Nat
  BY LenProperties
<1>2. /\ i + k \in 1..Len(s) /\ j + k \in 1..Len(s)
      /\ i + k <= j + k /\ (i < j => i + k < j + k)
  BY <1>1
<1>3. t[i] = s[i + k] /\ t[j] = s[j + k]
  OBVIOUS
<1> QED
  BY <1>2, <1>3

LEMMA PrefixShortened ==
  ASSUME NEW S, NEW s \in Seq(S), NEW t \in Seq(S),
         Len(t) <= Len(s), \A i \in 1..Len(t) : t[i] = s[i]
  PROVE  Shortened(t, s)
<1>1. Len(s) \in Nat /\ Len(t) \in Nat
  BY LenProperties
<1> QED
  BY <1>1 DEF Shortened

LEMMA SameShortened ==
  ASSUME NEW S, NEW s \in Seq(S)
  PROVE  Shortened(s, s)
BY PrefixShortened, LenProperties

LEMMA EmptyShortened ==
  ASSUME NEW s
  PROVE  Shortened(<<>>, s)
BY DEF Shortened

LEMMA TailShortened ==
  ASSUME NEW S, NEW s \in Seq(S), s # <<>>
  PROVE  Shortened(Tail(s), s)
<1>1. /\ Tail(s) \in Seq(S) /\ Len(Tail(s)) = Len(s) - 1 /\ Len(s) \in Nat \ {0}
      /\ \A i \in 1..Len(Tail(s)) : Tail(s)[i] = s[i + 1]
  BY HeadTailProperties, EmptySeq, LenProperties
<1>2. 1 \in 0..Len(s)
  BY <1>1
<1> QED
  BY <1>1, <1>2, RestShortened

LEMMA ShortenedThinned ==
  ASSUME NEW s, NEW t, Shortened(t, s)
  PROVE  Thinned(t, s)
BY DEF Shortened, Thinned, Alike

\* Requests stay, go all together, or get one more.
TodoMoves ==
  \/ requestId' = requestId /\ (todo' = todo \/ todo' = <<>>)
  \/ \E next \in {"service", "closing"} : Send(next)

LEMMA OrderShrinks ==
  ASSUME ChannelTypeOK, ChannelTypeOK', TodoInOrder, StreamInOrder,
         NEW q \in Seq(Message), QueueInOrder(q),
         server' = server, Thinned(stream', stream), Shortened(queue', q), TodoMoves
  PROVE  TodoInOrder' /\ StreamInOrder' /\ QueueInOrder(queue)'
<1>1. /\ todo' \in Seq(Nat) /\ Len(todo') \in Nat
      /\ requestId' \in {requestId, requestId + 1} /\ requestId \in Nat
      /\ todo \in Seq(Nat) /\ Len(todo) \in Nat
      /\ \A j \in 1..Len(todo') :
           \/ j \in 1..Len(todo) /\ todo'[j] = todo[j]
           \/ j = Len(todo) + 1 /\ todo'[j] = requestId + 1 /\ requestId' = requestId + 1
  <2>1. /\ todo \in Seq(Nat) /\ Len(todo) \in Nat /\ requestId \in Nat
        /\ todo' \in Seq(Nat) /\ Len(todo') \in Nat
    BY LenProperties DEF ChannelTypeOK
  <2>2. CASE requestId' = requestId /\ (todo' = todo \/ todo' = <<>>)
    BY <2>1, <2>2
  <2>3. CASE \E next \in {"service", "closing"} : Send(next)
    <3>1. /\ requestId' = requestId + 1 /\ Len(todo') = Len(todo) + 1
          /\ \A i \in 1..Len(todo) : todo'[i] = todo[i]
          /\ todo'[Len(todo) + 1] = requestId + 1
      BY <2>3, SendType
    <3> QED
      BY <2>1, <3>1
  <2> QED
    BY <2>2, <2>3 DEF TodoMoves
<1>2. \A i \in 1..Len(todo) : todo[i] \in 1..requestId
  BY DEF TodoInOrder
<1>3. TodoInOrder'
  <2>1. ASSUME NEW i \in 1..Len(todo')
        PROVE  todo'[i] \in 1..requestId'
    <3>1. CASE i \in 1..Len(todo) /\ todo'[i] = todo[i]
      <4>1. todo'[i] \in 1..requestId
        BY <1>2, <3>1
      <4> QED
        BY <1>1, <4>1
    <3>2. CASE todo'[i] = requestId + 1 /\ requestId' = requestId + 1
      BY <1>1, <3>2
    <3> QED
      BY <1>1, <3>1, <3>2
  <2>2. ASSUME NEW i \in 1..Len(todo'), NEW j \in 1..Len(todo'), i < j
        PROVE  todo'[i] < todo'[j]
    <3>1. i \in 1..Len(todo) /\ todo'[i] = todo[i] /\ todo[i] \in 1..requestId
      BY <1>1, <1>2, <2>2
    <3>2. CASE j \in 1..Len(todo) /\ todo'[j] = todo[j]
      BY <2>2, <3>1, <3>2 DEF TodoInOrder
    <3>3. CASE todo'[j] = requestId + 1
      <4>1. \A n \in 1..requestId : n < requestId + 1
        BY <1>1
      <4> QED
        BY <3>1, <3>3, <4>1
    <3> QED
      BY <1>1, <3>2, <3>3
  <2> QED
    BY <2>1, <2>2 DEF TodoInOrder
<1> DEFINE Next(m) == IF m.type = "MSG"
                       THEN /\ m.id \in 1..requestId'
                            /\ \A j \in 1..Len(todo') : m.id <= todo'[j]
                       ELSE m.id = 0 /\ server' = "gone"
<1>4. \A m : Known(m) => Next(m)
  <2> TAKE m
  <2>1. CASE m.type = "MSG" /\ Known(m)
    <3>1. m.id \in 1..requestId /\ \A j \in 1..Len(todo) : m.id <= todo[j]
      BY <2>1 DEF Known
    <3>2. m.id \in 1..requestId'
      BY <1>1, <3>1
    <3>3. \A j \in 1..Len(todo') : m.id <= todo'[j]
      BY <1>1, <3>1
    <3> QED
      BY <2>1, <3>2, <3>3
  <2>2. CASE m.type # "MSG" /\ Known(m)
    BY <2>2 DEF Known
  <2> QED
    BY <2>1, <2>2
<1>5. StreamInOrder'
  <2>1. ASSUME NEW i \in 1..Len(stream')
        PROVE  Next(stream'[i]) /\ (stream'[i].type = "ERR" => stream'[i].kind = "F")
    <3>0. i <= i
      OBVIOUS
    <3>1. PICK a \in 1..Len(stream) : Alike(stream'[i], stream[a])
      BY <3>0 DEF Thinned
    <3>2. Known(stream[a]) /\ (stream[a].type = "ERR" => stream[a].kind = "F")
      BY DEF StreamInOrder
    <3>3. Next(stream[a])
      BY <1>4, <3>2
    <3> QED
      BY <3>1, <3>2, <3>3 DEF Alike
  <2>2. ASSUME NEW i \in 1..Len(stream'), NEW j \in 1..Len(stream'), i < j
        PROVE  Before(stream'[i], stream'[j])
    <3>1. i <= j
      BY <2>2
    <3>2. PICK a \in 1..Len(stream), b \in 1..Len(stream) :
            a <= b /\ Alike(stream'[i], stream[a]) /\ Alike(stream'[j], stream[b])
      BY <3>1 DEF Thinned
    <3>3. stream[a] \in Chunk
      BY ElementOfSeq DEF ChannelTypeOK
    <3>4. Before(stream[a], stream[b])
      BY <3>2, <3>3 DEF StreamInOrder, Before, Chunk
    <3> QED
      BY <3>2, <3>4 DEF Alike, Before
  <2> QED
    BY <2>1, <2>2 DEF StreamInOrder, Known
<1>6. QueueInOrder(queue)'
  <2>1. ASSUME NEW i \in 1..Len(queue')
        PROVE  /\ Next(queue'[i])
               /\ \A j \in 1..Len(stream') : Before(queue'[i], stream'[j])
    <3>0. i <= i
      OBVIOUS
    <3>1. PICK a \in 1..Len(q) : queue'[i] = q[a]
      BY <3>0 DEF Shortened
    <3>2. Known(q[a]) /\ \A j \in 1..Len(stream) : Before(q[a], stream[j])
      BY DEF QueueInOrder
    <3>3. Next(queue'[i])
      BY <1>4, <3>1, <3>2
    <3>4. ASSUME NEW j \in 1..Len(stream')
          PROVE  Before(queue'[i], stream'[j])
      <4>0. j <= j
        OBVIOUS
      <4>1. PICK b \in 1..Len(stream) : Alike(stream'[j], stream[b])
        BY <4>0 DEF Thinned
      <4> QED
        BY <3>1, <3>2, <4>1 DEF Alike, Before
    <3> QED
      BY <3>3, <3>4
  <2>2. ASSUME NEW i \in 1..Len(queue'), NEW j \in 1..Len(queue'), i < j
        PROVE  /\ Before(queue'[i], queue'[j]) /\ queue'[i].id # queue'[j].id
               /\ queue'[i].final
    <3>1. i <= j
      BY <2>2
    <3>2. PICK a \in 1..Len(q), b \in 1..Len(q) :
            a < b /\ queue'[i] = q[a] /\ queue'[j] = q[b]
      BY <2>2, <3>1 DEF Shortened
    <3> QED
      BY <3>2 DEF QueueInOrder
  <2> QED
    BY <2>1, <2>2 DEF QueueInOrder, Known
<1> QED
  BY <1>3, <1>5, <1>6

OrderOK == TodoInOrder /\ StreamInOrder /\ QueueInOrder(queue)

LEMMA DownOrder ==
  ASSUME GoDown
  PROVE  OrderOK'
<1>1. todo' = <<>> /\ stream' = <<>> /\ queue' = <<>>
  BY DEF GoDown
<1> QED
  BY <1>1 DEF OrderOK, TodoInOrder, StreamInOrder, QueueInOrder

\* What is entered in the queue is in order with it.
LEMMA EnteredOrder ==
  ASSUME ChannelTypeOK, Halves, OrderOK, inHand >= 2, InOrder(Ahead.type, Ahead.id)
  PROVE  QueueInOrder(Entered(Ahead.type, Ahead.id))
<1> DEFINE q == Entered(Ahead.type, Ahead.id)
<1>1. CASE Open(Ahead.type, Ahead.id)
  BY <1>1 DEF Entered, OrderOK
<1>2. CASE ~Open(Ahead.type, Ahead.id)
  <2>1. /\ Ahead \in Chunk /\ Ahead = stream[1] /\ Len(stream) \in Nat \ {0}
        /\ 1 \in 1..Len(stream)
    BY AheadProperties
  <2>2. /\ Known(Ahead)
        /\ \A j \in 1..Len(stream) : Before(Ahead, stream[j])
    <3>1. Known(Ahead)
      BY <2>1 DEF OrderOK, StreamInOrder
    <3>2. ASSUME NEW j \in 1..Len(stream)
          PROVE  Before(Ahead, stream[j])
      <4>1. CASE j = 1
        BY <2>1, <4>1 DEF Before, Chunk
      <4>2. CASE j # 1
        <5>1. 1 < j
          BY <2>1, <4>2
        <5> QED
          BY <2>1, <5>1 DEF OrderOK, StreamInOrder
      <4> QED
        BY <4>1, <4>2
    <3> QED
      BY <3>1, <3>2
  <2>3. queue \in Seq(Message) /\ Len(queue) \in Nat
    BY LenProperties DEF ChannelTypeOK
  <2>4. /\ q \in Seq(Message) /\ Len(q) = Len(queue) + 1 /\ q # <<>>
        /\ \A i \in 1..Len(queue) : q[i] = queue[i]
        /\ Last(q).type = Ahead.type /\ Last(q).id = Ahead.id
    <3>1. PICK type \in {"MSG", "ERR"}, id \in Nat : type = Ahead.type /\ id = Ahead.id
      BY <2>1 DEF Chunk
    <3>2. ~Open(type, id) /\ q = Entered(type, id)
      BY <1>2, <3>1
    <3>3. EnteredOK(type, id)
      BY <2>3, EnteredProperties
    <3> HIDE DEF q
    <3>4. /\ q \in Seq(Message) /\ q # <<>> /\ Last(q).type = type /\ Last(q).id = id
          /\ Len(q) = Len(queue) + 1
          /\ \A i \in 1..Len(queue) : q[i] = queue[i]
      <4>1. \A i \in 1..Len(queue) : Entered(type, id)[i] = queue[i]
        BY <3>2, <3>3 DEF EnteredOK
      <4>2. \A i \in 1..Len(queue) : q[i] = queue[i]
        BY <3>2, <4>1
      <4>3. q \in Seq(Message) /\ q # <<>>
        BY <3>2, <3>3 DEF EnteredOK
      <4>4. Last(q).type = type
        BY <3>2, <3>3 DEF EnteredOK
      <4>5. Last(q).id = id
        BY <3>2, <3>3 DEF EnteredOK
      <4>6. Len(q) = Len(queue) + 1
        BY <3>2, <3>3 DEF EnteredOK
      <4> QED
        BY <4>2, <4>3, <4>4, <4>5, <4>6
    <3> QED
      BY <3>1, <3>4
  <2> HIDE DEF q
  <2>5. q[Len(queue) + 1] = Last(q)
    BY <2>4 DEF Last
  <2>6. ASSUME NEW i \in 1..Len(queue)
        PROVE  Before(queue[i], Ahead) /\ queue[i].id # Ahead.id /\ queue[i].final
    <3>1. Before(queue[i], Ahead) /\ Known(queue[i]) /\ queue[i] \in Message
      BY <2>1, <2>3, ElementOfSeq DEF OrderOK, QueueInOrder
    <3>2. queue # <<>> /\ Len(queue) \in 1..Len(queue) /\ Last(queue) = queue[Len(queue)]
      BY <2>3 DEF Last
    <3>3. Last(queue).id # Ahead.id /\ Last(queue).final
      BY <1>2, <3>2 DEF InOrder, Open
    <3>4. Last(queue) \in Message /\ Known(Last(queue)) /\ Before(Last(queue), Ahead)
      BY <2>1, <2>3, <3>2, ElementOfSeq DEF OrderOK, QueueInOrder
    <3>5. i = Len(queue) \/ (Before(queue[i], Last(queue)) /\ queue[i].final)
      <4>1. CASE i # Len(queue)
        <5>1. i < Len(queue)
          BY <2>3, <4>1
        <5> QED
          BY <3>2, <5>1 DEF OrderOK, QueueInOrder
      <4> QED
        BY <4>1
    <3>6. requestId \in Nat
      BY DEF ChannelTypeOK
    <3>7. queue[i].type \in {"MSG", "ERR"} /\ queue[i].id \in Nat
      BY <3>1 DEF Message
    <3>8. Last(queue).type \in {"MSG", "ERR"} /\ Last(queue).id \in Nat
      BY <3>4 DEF Message
    <3>9. Ahead.type \in {"MSG", "ERR"} /\ Ahead.id \in Nat
      BY <2>1 DEF Chunk
    <3>10. CASE i = Len(queue)
      BY <3>1, <3>2, <3>3, <3>10
    <3>11. CASE Before(queue[i], Last(queue)) /\ queue[i].final
      <4>1. CASE queue[i].type = "ERR"
        BY <2>2, <3>1, <3>3, <3>4, <3>11, <4>1 DEF Before, Known
      <4>2. CASE queue[i].type = "MSG" /\ Ahead.type = "ERR"
        BY <2>2, <3>1, <3>6, <3>11, <4>2 DEF Known
      <4>3. CASE queue[i].type = "MSG" /\ Ahead.type = "MSG"
        <5>1. Last(queue).type = "MSG"
          BY <3>4, <3>8, <4>3 DEF Before
        <5>2. queue[i].id <= Last(queue).id /\ Last(queue).id <= Ahead.id
          BY <3>4, <3>11, <4>3, <5>1 DEF Before
        <5> QED
          BY <3>1, <3>3, <3>7, <3>8, <3>9, <3>11, <5>2
      <4> QED
        BY <3>7, <3>9, <4>1, <4>2, <4>3
    <3> QED
      BY <3>5, <3>10, <3>11
  <2>7. ASSUME NEW i \in 1..Len(q)
        PROVE  Known(q[i]) /\ \A j \in 1..Len(stream) : Before(q[i], stream[j])
    <3>1. CASE i \in 1..Len(queue)
      BY <2>4, <3>1 DEF OrderOK, QueueInOrder
    <3>2. CASE i = Len(queue) + 1
      BY <2>2, <2>4, <2>5, <3>2 DEF Known, Before
    <3> QED
      BY <2>3, <2>4, <3>1, <3>2
  <2>8. ASSUME NEW i \in 1..Len(q), NEW j \in 1..Len(q), i < j
        PROVE  Before(q[i], q[j]) /\ q[i].id # q[j].id /\ q[i].final
    <3>1. i \in 1..Len(queue) /\ q[i] = queue[i]
      BY <2>3, <2>4, <2>8
    <3>2. CASE j \in 1..Len(queue)
      BY <2>4, <2>8, <3>1, <3>2 DEF OrderOK, QueueInOrder
    <3>3. CASE j = Len(queue) + 1
      BY <2>4, <2>5, <2>6, <3>1, <3>3 DEF Before
    <3> QED
      BY <2>3, <2>4, <3>2, <3>3
  <2>9. QueueInOrder(q)
    BY <2>7, <2>8 DEF QueueInOrder
  <2> QED
    BY <2>9 DEF q
<1> QED
  BY <1>1, <1>2

LEMMA AddedOrder ==
  ASSUME NEW q \in Seq(Message), q # <<>>, QueueInOrder(q),
         NEW kind \in {"C", "F"}, NEW p \in Nat
  PROVE  QueueInOrder(Added(q, kind, p))
<1> DEFINE r == Added(q, kind, p)
<1>1. /\ Len(r) = Len(q) /\ Len(q) \in 1..Len(q)
      /\ \A i \in 1..Len(q) : i # Len(q) => r[i] = q[i]
      /\ r[Len(q)].type = q[Len(q)].type /\ r[Len(q)].id = q[Len(q)].id
  <2>1. AddedOK(q, kind, p)
    BY AddedProperties
  <2>2. /\ r \in Seq(Message) /\ Len(r) = Len(q) /\ r # <<>>
        /\ \A i \in 1..Len(q) : i # Len(q) => r[i] = q[i]
        /\ Last(r).type = Last(q).type /\ Last(r).id = Last(q).id
    BY <2>1 DEF AddedOK
  <2> HIDE DEF r
  <2>3. /\ Len(q) \in 1..Len(q) /\ Last(q) = q[Len(q)]
    BY LastProperties
  <2>4. Last(r) = r[Len(r)]
    BY <2>2, LastProperties
  <2> QED
    BY <2>2, <2>3, <2>4
<1> HIDE DEF r
<1>2. \A i \in 1..Len(q) : r[i].type = q[i].type /\ r[i].id = q[i].id
  BY <1>1
<1>3. \A i \in 1..Len(q) : Known(q[i]) => Known(r[i])
  BY <1>2 DEF Known
<1>4. \A i, j \in 1..Len(q) : Before(q[i], q[j]) => Before(r[i], r[j])
  BY <1>2 DEF Before
<1>5. QueueInOrder(r)
  <2>1. ASSUME NEW i \in 1..Len(q)
        PROVE  Known(r[i]) /\ \A j \in 1..Len(stream) : Before(r[i], stream[j])
    <3>1. Known(q[i]) /\ \A j \in 1..Len(stream) : Before(q[i], stream[j])
      BY DEF QueueInOrder
    <3> QED
      BY <1>2, <1>3, <3>1 DEF Before
  <2>2. ASSUME NEW i \in 1..Len(q), NEW j \in 1..Len(q), i < j
        PROVE  Before(r[i], r[j]) /\ r[i].id # r[j].id /\ r[i].final
    <3>1. Before(q[i], q[j]) /\ q[i].id # q[j].id /\ q[i].final
      BY <2>2 DEF QueueInOrder
    <3>2. i # Len(q)
      BY <2>2
    <3> QED
      BY <1>1, <1>2, <1>4, <3>1, <3>2
  <2> QED
    BY <1>1, <2>1, <2>2 DEF QueueInOrder
<1> QED
  BY <1>5 DEF r

LEMMA FailOrder ==
  ASSUME ChannelTypeOK, ChannelTypeOK', Halves, OrderOK,
         NEW q \in Seq(Message), QueueInOrder(q), NEW reason, Fail(reason, q)
  PROVE  OrderOK'
<1>1. CASE phase # "service"
  BY <1>1, DownOrder DEF Fail
<1>2. CASE phase = "service"
  <2>1. /\ Send("closing") /\ queue' = q /\ server' = server
        /\ stream' = SubSeq(stream, inHand \div 2 + 1, Len(stream))
    BY <1>2 DEF Fail
  <2>2. inHand \in Nat /\ stream \in Seq(Chunk) /\ Len(stream) \in Nat
    BY LenProperties DEF ChannelTypeOK
  <2>3. inHand \div 2 \in 0..Len(stream)
    BY <2>2 DEF Halves
  <2>4. /\ stream' \in Seq(Chunk) /\ Len(stream') = Len(stream) - inHand \div 2
        /\ \A i \in 1..(Len(stream) - inHand \div 2) :
             stream'[i] = stream[i + inHand \div 2]
    BY <2>1, <2>2, <2>3, RestProperties
  <2>5. Thinned(stream', stream)
    BY <2>2, <2>3, <2>4, RestShortened, ShortenedThinned
  <2>6. Shortened(queue', q)
    BY <2>1, SameShortened
  <2>7. TodoMoves
    BY <2>1 DEF TodoMoves
  <2> QED
    BY <2>1, <2>5, <2>6, <2>7, OrderShrinks DEF OrderOK
<1> QED
  BY <1>1, <1>2

LEMMA FaultThins ==
  ASSUME ChannelTypeOK, Fault
  PROVE  Thinned(stream', stream)
<1>1. stream \in Seq(Chunk) /\ Len(stream) \in Nat
  BY LenProperties DEF ChannelTypeOK
<1>2. PICK i \in 1..Len(stream) :
        \/ stream' = RemoveAt(stream, i)
        \/ stream' = InsertAt(stream, i, stream[i])
        \/ stream' = [stream EXCEPT ![i].good = FALSE]
  BY DEF Fault
<1>3. stream[i] \in Chunk
  BY <1>1, ElementOfSeq
<1>4. CASE stream' = RemoveAt(stream, i)
  <2>1. /\ Len(stream') = Len(stream) - 1
        /\ \A j \in 1..(Len(stream) - 1) :
             stream'[j] = IF j < i THEN stream[j] ELSE stream[j + 1]
    BY <1>1, <1>4, RemoveAtProperties
  <2> SUFFICES ASSUME NEW j \in 1..Len(stream'), NEW k \in 1..Len(stream'), j <= k
               PROVE  \E a, b \in 1..Len(stream) :
                        a <= b /\ Alike(stream'[j], stream[a]) /\ Alike(stream'[k], stream[b])
    BY DEF Thinned
  <2>2. /\ j \in 1..Len(stream) /\ j + 1 \in 1..Len(stream)
        /\ k \in 1..Len(stream) /\ k + 1 \in 1..Len(stream)
        /\ j <= k /\ j + 1 <= k + 1 /\ j <= k + 1
        /\ stream'[j] = IF j < i THEN stream[j] ELSE stream[j + 1]
        /\ stream'[k] = IF k < i THEN stream[k] ELSE stream[k + 1]
        /\ k < i => j < i
    BY <1>1, <2>1
  <2>3. CASE k < i
    BY <2>2, <2>3 DEF Alike
  <2>4. CASE ~(k < i) /\ j < i
    BY <2>2, <2>4 DEF Alike
  <2>5. CASE ~(k < i) /\ ~(j < i)
    BY <2>2, <2>5 DEF Alike
  <2> QED
    BY <2>3, <2>4, <2>5
<1>5. CASE stream' = InsertAt(stream, i, stream[i])
  <2>1. /\ Len(stream') = Len(stream) + 1
        /\ \A j \in 1..(Len(stream) + 1) :
             stream'[j] = IF j < i THEN stream[j]
                          ELSE IF j = i THEN stream[i] ELSE stream[j - 1]
    BY <1>1, <1>3, <1>5, InsertAtProperties
  <2> SUFFICES ASSUME NEW j \in 1..Len(stream'), NEW k \in 1..Len(stream'), j <= k
               PROVE  \E a, b \in 1..Len(stream) :
                        a <= b /\ Alike(stream'[j], stream[a]) /\ Alike(stream'[k], stream[b])
    BY DEF Thinned
  <2> DEFINE from(x) == IF x <= i THEN x ELSE x - 1
  <2>2. \A x \in 1..Len(stream') :
          from(x) \in 1..Len(stream) /\ stream'[x] = stream[from(x)]
    <3> TAKE x \in 1..Len(stream')
    <3>1. CASE x <= i
      BY <1>1, <2>1, <3>1
    <3>2. CASE x > i
      BY <1>1, <2>1, <3>2
    <3> QED
      BY <1>1, <2>1, <3>1, <3>2
  <2>3. from(j) <= from(k)
    BY <1>1, <2>1
  <2> HIDE DEF from
  <2> QED
    BY <2>2, <2>3 DEF Alike
<1>6. CASE stream' = [stream EXCEPT ![i].good = FALSE]
  <2>1. [stream[i] EXCEPT !.good = FALSE] \in Chunk
    BY <1>3 DEF Chunk
  <2>2. stream' = [stream EXCEPT ![i] = [stream[i] EXCEPT !.good = FALSE]]
    BY <1>6
  <2>3. /\ Len(stream') = Len(stream)
        /\ \A j \in 1..Len(stream) :
             stream'[j] = IF j = i THEN [stream[i] EXCEPT !.good = FALSE] ELSE stream[j]
    BY <1>1, <2>1, <2>2, ExceptSeq
  <2>4. Alike([stream[i] EXCEPT !.good = FALSE], stream[i])
    BY <1>3 DEF Alike, Chunk
  <2>5. \A j \in 1..Len(stream) : Alike(stream'[j], stream[j])
    BY <2>3, <2>4 DEF Alike
  <2> QED
    BY <2>3, <2>5 DEF Thinned
<1> QED
  BY <1>2, <1>4, <1>5, <1>6

LEMMA SentOrder ==
  ASSUME ChannelTypeOK, ChannelTypeOK', OrderOK, ServerSends
  PROVE  OrderOK'
<1> DEFINE c(kind) == [type |-> "MSG", kind |-> kind, id |-> Head(todo),
                       seq |-> NextNumber(serverSeq), part |-> part + 1, good |-> TRUE]
<1>1. PICK kind \in {"C", "F", "A"} :
        /\ stream' = Append(stream, c(kind))
        /\ todo' = todo \/ todo' = Tail(todo)
  BY DEF ServerSends
<1>2. /\ server = "up" /\ server' = "up" /\ todo # <<>>
      /\ queue' = queue /\ requestId' = requestId
  BY DEF ServerSends, channelVars, callVars
<1>3. /\ todo \in Seq(Nat) /\ Len(todo) \in Nat \ {0} /\ Head(todo) = todo[1]
      /\ Head(todo) \in Nat /\ stream \in Seq(Chunk) /\ Len(stream) \in Nat
      /\ requestId \in Nat /\ queue \in Seq(Message)
      /\ serverSeq \in Numbers /\ part \in Nat
  BY <1>2, LastProperties, LenProperties DEF ChannelTypeOK
<1>4. c(kind) \in Chunk
  BY <1>3, NextNumberType DEF Chunk
<1>5. /\ c(kind).type = "MSG" /\ c(kind).id = todo[1]
  BY <1>3
<1> HIDE DEF c
<1>6. /\ Len(stream') = Len(stream) + 1
      /\ \A i \in 1..Len(stream) : stream'[i] = stream[i]
      /\ stream'[Len(stream) + 1] = c(kind)
  BY <1>1, <1>3, <1>4, AppendProperties
<1>7. PICK k \in {0, 1} : /\ Len(todo') = Len(todo) - k
                          /\ \A j \in 1..Len(todo') : todo'[j] = todo[j + k]
  <2>1. CASE todo' = todo
    <3>1. Len(todo') = Len(todo) - 0 /\ \A j \in 1..Len(todo') : todo'[j] = todo[j + 0]
      BY <1>3, <2>1
    <3> QED
      BY <3>1
  <2>2. CASE todo' = Tail(todo)
    BY <1>2, <1>3, <2>2, HeadTailProperties
  <2> QED
    BY <1>1, <2>1, <2>2
<1>8. /\ \A i \in 1..Len(todo) : todo[i] \in 1..requestId
      /\ \A i \in 1..Len(todo) : todo[1] <= todo[i]
      /\ \A i, j \in 1..Len(todo) : i < j => todo[i] < todo[j]
  BY <1>3 DEF OrderOK, TodoInOrder
<1>9. \A j \in 1..Len(todo') : /\ todo'[j] \in 1..requestId
                               /\ \E i \in 1..Len(todo) : todo'[j] = todo[i]
  <2> TAKE j \in 1..Len(todo')
  <2>1. j + k \in 1..Len(todo) /\ todo'[j] = todo[j + k]
    BY <1>3, <1>7
  <2> QED
    BY <1>8, <2>1
<1>10. TodoInOrder'
  <2>1. ASSUME NEW i \in 1..Len(todo'), NEW j \in 1..Len(todo'), i < j
        PROVE  todo'[i] < todo'[j]
    <3>1. /\ i + k \in 1..Len(todo) /\ j + k \in 1..Len(todo) /\ i + k < j + k
          /\ todo'[i] = todo[i + k] /\ todo'[j] = todo[j + k]
      BY <1>3, <1>7, <2>1
    <3> QED
      BY <1>8, <3>1
  <2> QED
    BY <1>2, <1>9, <2>1 DEF TodoInOrder
<1>11. \A m : Known(m) => /\ m.type = "MSG"
                          /\ m.id \in 1..requestId
                          /\ m.id <= todo[1]
                          /\ \A j \in 1..Len(todo') : m.id <= todo'[j]
  BY <1>2, <1>3, <1>9 DEF Known
<1>12. /\ c(kind).type = "MSG" /\ c(kind).id \in 1..requestId
       /\ \A j \in 1..Len(todo') : c(kind).id <= todo'[j]
  BY <1>3, <1>5, <1>8, <1>9
<1>13. \A i \in 1..Len(stream) : Known(stream[i]) /\ stream[i] \in Chunk
  BY <1>3, ElementOfSeq DEF OrderOK, StreamInOrder
<1>14. \A i \in 1..Len(queue) : Known(queue[i])
  BY DEF OrderOK, QueueInOrder
<1>15. StreamInOrder'
  <2>1. ASSUME NEW i \in 1..Len(stream')
        PROVE  /\ stream'[i].type = "MSG" /\ stream'[i].id \in 1..requestId
               /\ \A j \in 1..Len(todo') : stream'[i].id <= todo'[j]
    <3>1. CASE i \in 1..Len(stream)
      BY <1>6, <1>11, <1>13, <3>1
    <3>2. CASE i = Len(stream) + 1
      BY <1>6, <1>12, <3>2
    <3> QED
      BY <1>3, <1>6, <3>1, <3>2
  <2>2. ASSUME NEW i \in 1..Len(stream'), NEW j \in 1..Len(stream'), i < j
        PROVE  Before(stream'[i], stream'[j])
    <3>1. i \in 1..Len(stream) /\ stream'[i] = stream[i]
      BY <1>3, <1>6, <2>2
    <3>2. CASE j \in 1..Len(stream)
      BY <1>6, <2>2, <3>1, <3>2 DEF OrderOK, StreamInOrder
    <3>3. CASE j = Len(stream) + 1
      <4>1. stream[i].type = "MSG" /\ stream[i].id <= todo[1]
        BY <1>11, <1>13, <3>1
      <4> QED
        BY <1>5, <1>6, <3>1, <3>3, <4>1 DEF Before
    <3> QED
      BY <1>3, <1>6, <3>2, <3>3
  <2> QED
    BY <1>2, <2>1, <2>2 DEF StreamInOrder, Known
<1>16. QueueInOrder(queue)'
  <2>1. ASSUME NEW i \in 1..Len(queue)
        PROVE  /\ queue[i].type = "MSG" /\ queue[i].id \in 1..requestId
               /\ \A j \in 1..Len(todo') : queue[i].id <= todo'[j]
               /\ queue[i].id <= todo[1]
    BY <1>11, <1>14
  <2>2. ASSUME NEW i \in 1..Len(queue), NEW j \in 1..Len(stream')
        PROVE  Before(queue[i], stream'[j])
    <3>1. CASE j \in 1..Len(stream)
      BY <1>6, <3>1 DEF OrderOK, QueueInOrder
    <3>2. CASE j = Len(stream) + 1
      BY <1>5, <1>6, <2>1, <3>2 DEF Before
    <3> QED
      BY <1>3, <1>6, <3>1, <3>2
  <2>3. \A i, j \in 1..Len(queue) :
          i < j => /\ Before(queue[i], queue[j]) /\ queue[i].id # queue[j].id
                   /\ queue[i].final
    BY DEF OrderOK, QueueInOrder
  <2> QED
    BY <1>2, <2>1, <2>2, <2>3 DEF QueueInOrder, Known
<1> QED
  BY <1>10, <1>15, <1>16 DEF OrderOK

LEMMA ErrOrder ==
  ASSUME ChannelTypeOK, ChannelTypeOK', OrderOK, ServerErrs
  PROVE  OrderOK'
<1> DEFINE c == [type |-> "ERR", kind |-> "F", id |-> 0, seq |-> 0, part |-> 1,
                 good |-> TRUE]
<1>1. /\ server' = "gone" /\ stream' = Append(stream, c)
      /\ todo' = todo /\ queue' = queue /\ requestId' = requestId
  BY DEF ServerErrs, channelVars, callVars
<1>2. c \in Chunk
  BY ChannelAssumption DEF Chunk, Numbers
<1>3. c.type = "ERR" /\ c.kind = "F" /\ c.id = 0
  OBVIOUS
<1> HIDE DEF c
<1>4. /\ Len(stream') = Len(stream) + 1 /\ Len(stream) \in Nat
      /\ \A i \in 1..Len(stream) : stream'[i] = stream[i]
      /\ stream'[Len(stream) + 1] = c
  BY <1>1, <1>2, AppendProperties, LenProperties DEF ChannelTypeOK
<1>5. TodoInOrder'
  BY <1>1 DEF OrderOK, TodoInOrder
<1> DEFINE Next(m) == IF m.type = "MSG"
                        THEN /\ m.id \in 1..requestId
                             /\ \A j \in 1..Len(todo) : m.id <= todo[j]
                        ELSE m.id = 0
<1>6. \A m : Known(m) => Next(m)
  BY DEF Known
<1>7. Next(c)
  BY <1>3
<1> HIDE DEF Next
<1>8. StreamInOrder'
  <2>1. ASSUME NEW i \in 1..Len(stream')
        PROVE  Next(stream'[i]) /\ (stream'[i].type = "ERR" => stream'[i].kind = "F")
    <3>1. CASE i \in 1..Len(stream)
      BY <1>4, <1>6, <3>1 DEF OrderOK, StreamInOrder
    <3>2. CASE i = Len(stream) + 1
      BY <1>3, <1>4, <1>7, <3>2
    <3> QED
      BY <1>4, <3>1, <3>2
  <2>2. ASSUME NEW i \in 1..Len(stream'), NEW j \in 1..Len(stream'), i < j
        PROVE  Before(stream'[i], stream'[j])
    <3>1. i \in 1..Len(stream) /\ stream'[i] = stream[i]
      BY <1>4, <2>2
    <3>2. CASE j \in 1..Len(stream)
      BY <1>4, <2>2, <3>1, <3>2 DEF OrderOK, StreamInOrder
    <3>3. CASE j = Len(stream) + 1
      BY <1>3, <1>4, <3>3 DEF Before
    <3> QED
      BY <1>4, <3>2, <3>3
  <2> QED
    BY <1>1, <2>1, <2>2 DEF StreamInOrder, Known, Next
<1>9. QueueInOrder(queue)'
  <2>1. \A i \in 1..Len(queue) : Next(queue[i])
    BY <1>6 DEF OrderOK, QueueInOrder
  <2>2. ASSUME NEW i \in 1..Len(queue), NEW j \in 1..Len(stream')
        PROVE  Before(queue[i], stream'[j])
    <3>1. CASE j \in 1..Len(stream)
      BY <1>4, <3>1 DEF OrderOK, QueueInOrder
    <3>2. CASE j = Len(stream) + 1
      BY <1>3, <1>4, <3>2 DEF Before
    <3> QED
      BY <1>4, <3>1, <3>2
  <2>3. \A i, j \in 1..Len(queue) :
          i < j => /\ Before(queue[i], queue[j]) /\ queue[i].id # queue[j].id
                   /\ queue[i].final
    BY DEF OrderOK, QueueInOrder
  <2> QED
    BY <1>1, <2>1, <2>2, <2>3 DEF QueueInOrder, Known, Next
<1> QED
  BY <1>5, <1>8, <1>9 DEF OrderOK

LEMMA OrderKept ==
  ASSUME ChannelTypeOK, ChannelTypeOK', Halves, OrderOK, ChannelNext
  PROVE  OrderOK'
<1> USE DEF channelVars, callVars, peerVars, networkVars, historyVars
<1>0. /\ queue \in Seq(Message) /\ stream \in Seq(Chunk) /\ QueueInOrder(queue)
      /\ Thinned(stream, stream) /\ Shortened(queue, queue)
  BY SameShortened, ShortenedThinned DEF ChannelTypeOK, OrderOK
\* Nothing moves but the requests.
<1>1. ASSUME UNCHANGED <<queue, stream, server>>, TodoMoves
      PROVE  OrderOK'
  BY <1>0, <1>1, OrderShrinks DEF OrderOK
<1>2. ASSUME UNCHANGED <<queue, stream, server, todo, requestId>>
      PROVE  OrderOK'
  BY <1>1, <1>2 DEF TodoMoves
<1>3. CASE Request \/ Leave
  BY <1>1, <1>3 DEF Request, Leave, TodoMoves
<1>4. CASE Timeout
  <2>1. CASE phase = "service"
    BY <1>1, <1>4, <2>1 DEF Timeout, Abandon, TodoMoves
  <2>2. CASE phase # "service"
    BY <1>4, <2>2, DownOrder DEF Timeout, Abandon
  <2> QED
    BY <2>1, <2>2
<1>5. CASE ConnectionLost \/ GarbageFails \/ TokenTimesOut
  BY <1>5, DownOrder DEF ConnectionLost, GarbageFails, TokenTimesOut
<1>6. CASE ServerSends
  BY <1>6, SentOrder
<1>7. CASE ServerErrs
  BY <1>7, ErrOrder
<1>8. CASE Fault
  <2>1. queue' = queue /\ server' = server /\ TodoMoves
    BY <1>8 DEF Fault, TodoMoves
  <2>2. Thinned(stream', stream) /\ Shortened(queue', queue)
    BY <1>0, <1>8, <2>1, FaultThins
  <2> QED
    BY <1>0, <2>1, <2>2, OrderShrinks DEF OrderOK
<1>9. CASE Arrive \/ EndOfChunks
  BY <1>2, <1>9 DEF Arrive, EndOfChunks
<1>10. CASE TakeChunk
  <2>1. /\ Ahead \in Chunk /\ stream # <<>>
    BY <1>10, AheadProperties DEF TakeChunk
  <2>2. stream' = Tail(stream) /\ server' = server /\ TodoMoves
    BY <1>10 DEF TakeChunk, TodoMoves
  <2>3. Thinned(stream', stream)
    BY <1>0, <2>1, <2>2, TailShortened, ShortenedThinned
  <2>4. CASE Ahead.kind = "A"
    <3>1. queue' = queue \/ (queue # <<>> /\ queue' = Front(queue))
      <4>1. queue' = IF queue # <<>> /\ Last(queue).id = Ahead.id THEN Front(queue)
                                                                  ELSE queue
        BY <1>10, <2>4 DEF TakeChunk, Abort
      <4> QED
        BY <4>1
    <3>2. Shortened(queue', queue)
      <4>1. CASE queue # <<>> /\ queue' = Front(queue)
        <5>1. /\ queue' \in Seq(Message) /\ Len(queue') = Len(queue) - 1
              /\ \A j \in 1..(Len(queue) - 1) : queue'[j] = queue[j]
          BY <1>0, <4>1, FrontProperties
        <5>2. Len(queue') <= Len(queue)
          BY <1>0, <5>1, LenProperties
        <5>3. \A j \in 1..Len(queue') : queue'[j] = queue[j]
          BY <5>1
        <5> QED
          BY <1>0, <5>1, <5>2, <5>3, PrefixShortened
      <4> QED
        BY <1>0, <3>1, <4>1
    <3> QED
      BY <1>0, <2>2, <2>3, <3>2, OrderShrinks DEF OrderOK
  <2>5. CASE Ahead.kind # "A"
    <3> DEFINE e == Entered(Ahead.type, Ahead.id)
               q == Added(e, Ahead.kind, Ahead.part)
    <3>1. /\ Ahead.kind \in {"C", "F"} /\ Ahead.part \in Nat
          /\ Ahead.type \in {"MSG", "ERR"} /\ Ahead.id \in Nat
      BY <2>1, <2>5 DEF Chunk
    <3>2. /\ inHand >= 2 /\ InOrder(Ahead.type, Ahead.id)
          /\ queue' = q
      BY <1>10, <2>5 DEF TakeChunk, Add
    <3>3. QueueInOrder(e)
      BY <3>2, EnteredOrder
    <3>4. e \in Seq(Message) /\ e # <<>>
      <4>1. EnteredOK(Ahead.type, Ahead.id)
        BY <1>0, <3>1, EnteredProperties
      <4> QED
        BY <4>1 DEF EnteredOK
    <3> HIDE DEF e
    <3>5. q \in Seq(Message)
      <4>1. AddedOK(e, Ahead.kind, Ahead.part)
        BY <3>1, <3>4, AddedProperties
      <4> QED
        BY <4>1 DEF AddedOK
    <3>6. QueueInOrder(q)
      BY <3>1, <3>3, <3>4, AddedOrder
    <3> HIDE DEF q
    <3>7. Shortened(queue', q)
      BY <3>2, <3>5, SameShortened
    <3> QED
      BY <2>2, <2>3, <3>5, <3>6, <3>7, OrderShrinks DEF OrderOK
  <2> QED
    BY <2>4, <2>5
<1>11. CASE RefuseHeader \/ RefuseNumber
  BY <1>0, <1>11, FailOrder DEF RefuseHeader, RefuseNumber
<1>12. CASE RefusePayload
  <2>1. CASE InOrder(Ahead.type, Ahead.id)
    <3> DEFINE q == Entered(Ahead.type, Ahead.id)
    <3>1. inHand >= 2 /\ Fail("limit", q)
      BY <1>12, <2>1 DEF RefusePayload, Refused
    <3>2. Ahead.type \in {"MSG", "ERR"} /\ Ahead.id \in Nat
      BY <3>1, AheadProperties DEF Chunk
    <3>3. q \in Seq(Message)
      <4>1. EnteredOK(Ahead.type, Ahead.id)
        BY <1>0, <3>2, EnteredProperties
      <4> QED
        BY <4>1 DEF EnteredOK
    <3>4. QueueInOrder(q)
      BY <2>1, <3>1, EnteredOrder
    <3> HIDE DEF q
    <3> QED
      BY <3>1, <3>3, <3>4, FailOrder
  <2>2. CASE ~InOrder(Ahead.type, Ahead.id)
    BY <1>0, <1>12, <2>2, FailOrder DEF RefusePayload
  <2> QED
    BY <2>1, <2>2
<1>13. CASE GarbageWaits
  <2>1. /\ stream # <<>> /\ stream' = Tail(stream) /\ queue' = queue
        /\ server' = server /\ TodoMoves
    BY <1>13 DEF GarbageWaits, TodoMoves
  <2>2. Thinned(stream', stream) /\ Shortened(queue', queue)
    BY <1>0, <2>1, TailShortened, ShortenedThinned
  <2> QED
    BY <1>0, <2>1, <2>2, OrderShrinks DEF OrderOK
<1>14. CASE Deliver
  <2>1. /\ queue # <<>> /\ queue' = Tail(queue) /\ stream' = stream
        /\ server' = server /\ TodoMoves
    BY <1>14 DEF Deliver, Complete, TodoMoves
  <2>2. Thinned(stream', stream) /\ Shortened(queue', queue)
    BY <1>0, <2>1, TailShortened
  <2> QED
    BY <1>0, <2>1, <2>2, OrderShrinks DEF OrderOK
<1>15. CASE PacketEnds
  <2>1. CASE received /\ phase = "closing"
    BY <1>15, <2>1, DownOrder DEF PacketEnds
  <2>2. CASE ~(received /\ phase = "closing")
    BY <1>2, <1>15, <2>2 DEF PacketEnds
  <2> QED
    BY <2>1, <2>2
<1>16. CASE TouchFreed \/ Over
  BY <1>2, <1>16 DEF TouchFreed, Over, vars
<1> QED
  BY <1>3, <1>4, <1>5, <1>6, <1>7, <1>8, <1>9, <1>10, <1>11, <1>12, <1>13, <1>14,
     <1>15, <1>16
     DEF ChannelNext, Launcher, Receive, Process, Refuse, Environment

----------------------------------------------------------------------------
(* The reply, and what the caller sees of it.                              *)

LEMMA Delivered ==
  ASSUME ChannelTypeOK, OrderOK, Received, Deliver
  PROVE  /\ Calling /\ at = "messages"
         /\ UNCHANGED <<phase, at, requestId>>
         /\ \/ /\ ~received /\ received'
               /\ Head(queue) \in Message /\ Head(queue).id = requestId
               /\ replies' = Append(replies, Head(queue))
               /\ \A i \in 1..Len(queue') : queue'[i].id # requestId
            \/ /\ UNCHANGED <<received, replies>>
               /\ received => \A i \in 1..Len(queue') : queue'[i].id # requestId
<1>1. /\ Messages /\ queue # <<>> /\ queue' = Tail(queue)
      /\ UNCHANGED <<phase, at, requestId>>
  BY DEF Deliver, Complete
<1>2. /\ queue \in Seq(Message) /\ Len(queue) \in Nat \ {0} /\ 1 \in 1..Len(queue)
      /\ Head(queue) \in Message /\ Head(queue) = queue[1]
      /\ Len(queue') = Len(queue) - 1
      /\ \A i \in 1..Len(queue') : queue'[i] = queue[i + 1]
  BY <1>1, LastProperties, HeadTailProperties DEF ChannelTypeOK
<1>3. \A i \in 1..Len(queue') :
        /\ i + 1 \in 1..Len(queue) /\ queue'[i] = queue[i + 1]
        /\ queue[i + 1].id # queue[1].id
  BY <1>2 DEF OrderOK, QueueInOrder
<1>4. CASE Head(queue).type = "MSG" /\ Head(queue).id = requestId
  <2>1. received' = TRUE /\ replies' = Append(replies, Head(queue))
    BY <1>4 DEF Deliver
  <2>2. ~received
    BY <1>2, <1>4 DEF Received
  <2> QED
    BY <1>1, <1>2, <1>3, <1>4, <2>1, <2>2 DEF Messages
<1>5. CASE ~(Head(queue).type = "MSG" /\ Head(queue).id = requestId)
  <2>1. UNCHANGED <<received, replies>>
    BY <1>5 DEF Deliver
  <2>2. received => \A i \in 1..Len(queue') : queue'[i].id # requestId
    BY <1>3 DEF Received
  <2> QED
    BY <1>1, <2>1, <2>2 DEF Messages
<1> QED
  BY <1>4, <1>5

LEMMA ReceivedKept ==
  ASSUME ChannelTypeOK, OrderOK, Received, ChannelNext
  PROVE  Received'
<1> USE DEF channelVars, callVars, peerVars, networkVars, historyVars
<1>1. ASSUME received' = FALSE, phase' # "idle"
      PROVE  Received'
  BY <1>1 DEF Received
<1>2. ASSUME NEW next \in {"service", "closing"}, Send(next)
      PROVE  Received'
  BY <1>1, <1>2 DEF Send
<1>3. ASSUME GoDown
      PROVE  Received'
  BY <1>1, <1>3 DEF GoDown
<1>4. ASSUME Calling, at # "messages", UNCHANGED <<phase, received>>
      PROVE  Received'
  <2>1. received = FALSE /\ phase # "idle"
    BY <1>4 DEF Received, Calling, ChannelTypeOK
  <2> QED
    BY <1>1, <1>4, <2>1
<1>5. ASSUME UNCHANGED <<queue, phase, at, requestId, received, replies>>
      PROVE  Received'
  BY <1>5 DEF Received, Calling
<1>6. ASSUME NEW reason, NEW q, Fail(reason, q)
      PROVE  Received'
  BY <1>2, <1>3, <1>6 DEF Fail
<1>7. CASE Request \/ Leave
  BY <1>2, <1>7 DEF Request, Leave
<1>8. CASE Timeout
  BY <1>2, <1>3, <1>8 DEF Timeout, Abandon
<1>9. CASE ConnectionLost \/ GarbageFails \/ TokenTimesOut
  BY <1>3, <1>9 DEF ConnectionLost, GarbageFails, TokenTimesOut
<1>10. CASE ServerSends \/ ServerErrs \/ Fault
  BY <1>5, <1>10 DEF ServerSends, ServerErrs, Fault
<1>11. CASE Arrive \/ EndOfChunks \/ TakeChunk \/ GarbageWaits
  BY <1>4, <1>11 DEF Arrive, EndOfChunks, TakeChunk, GarbageWaits, Waits, Chunks
<1>12. CASE RefuseHeader \/ RefuseNumber \/ RefusePayload
  BY <1>6, <1>12 DEF RefuseHeader, RefuseNumber, RefusePayload
<1>13. CASE Deliver
  <2>1. Calling /\ UNCHANGED <<phase, at, requestId>> /\ at = "messages"
    BY <1>13, Delivered
  <2>2. CASE /\ ~received /\ received'
             /\ Head(queue) \in Message /\ Head(queue).id = requestId
             /\ replies' = Append(replies, Head(queue))
             /\ \A i \in 1..Len(queue') : queue'[i].id # requestId
    <3>1. replies' # <<>> /\ Last(replies') = Head(queue)
      <4> DEFINE m == Head(queue)
      <4>1. replies \in Seq(Message) /\ m \in Message /\ replies' = Append(replies, m)
        BY <2>2 DEF ChannelTypeOK
      <4> HIDE DEF m
      <4>2. /\ replies' # <<>> /\ Len(replies') = Len(replies) + 1
            /\ replies'[Len(replies) + 1] = m
        BY <4>1, AppendProperties
      <4>3. Last(replies') = m
        BY <4>2 DEF Last
      <4> QED
        BY <4>2, <4>3 DEF m
    <3> QED
      BY <2>1, <2>2, <3>1 DEF Received
  <2>3. CASE /\ UNCHANGED <<received, replies>>
             /\ received => \A i \in 1..Len(queue') : queue'[i].id # requestId
    BY <2>1, <2>3 DEF Received
  <2> QED
    BY <1>13, <2>2, <2>3, Delivered
<1>14. CASE PacketEnds
  <2>1. CASE received /\ phase = "closing"
    BY <1>3, <1>14, <2>1 DEF PacketEnds
  <2>2. CASE ~(received /\ phase = "closing")
    <3>1. /\ phase' = IF received THEN "idle" ELSE phase
          /\ UNCHANGED <<queue, requestId, received, replies>>
          /\ phase # "idle"
      BY <1>14, <2>2 DEF PacketEnds, Messages, Calling
    <3>2. CASE received
      <4>1. phase' = "idle" /\ received'
        BY <3>1, <3>2
      <4>2. ~Calling'
        BY <4>1 DEF Calling
      <4> QED
        BY <3>1, <3>2, <4>1, <4>2 DEF Received
    <3>3. CASE ~received
      BY <3>1, <3>3 DEF Received
    <3> QED
      BY <3>2, <3>3
  <2> QED
    BY <2>1, <2>2
<1>15. CASE Over
  BY <1>5, <1>15 DEF Over, vars
<1>16. CASE TouchFreed
  BY <1>16 DEF TouchFreed, Received, Calling
<1> QED
  BY <1>7, <1>8, <1>9, <1>10, <1>11, <1>12, <1>13, <1>14, <1>15, <1>16
     DEF ChannelNext, Launcher, Receive, Process, Refuse, Environment

\* The requests of one more reply.
LEMMA TakenAppend ==
  ASSUME NEW s \in Seq(Message), NEW m \in Message
  PROVE  [i \in 1..Len(Append(s, m)) |-> Append(s, m)[i].id] =
           Append([i \in 1..Len(s) |-> s[i].id], m.id)
<1> DEFINE t == Append(s, m)
           f == [i \in 1..Len(s) |-> s[i].id]
           g == [i \in 1..Len(t) |-> t[i].id]
<1>1. /\ Len(s) \in Nat /\ Len(t) = Len(s) + 1
      /\ \A i \in 1..Len(s) : t[i] = s[i]
      /\ t[Len(s) + 1] = m
  BY AppendProperties, LenProperties
<1>2. \A i \in 1..Len(s) : s[i].id \in Nat
  <2>1. \A i \in 1..Len(s) : s[i] \in Message
    BY ElementOfSeq
  <2> QED
    BY <2>1 DEF Message
<1>3. m.id \in Nat
  BY DEF Message
<1>4. f \in Seq(Nat) /\ Len(f) = Len(s)
  BY <1>1, <1>2
<1>5. g \in Seq(Nat) /\ Len(g) = Len(s) + 1
  <2>1. \A i \in 1..Len(t) : t[i].id \in Nat
    BY <1>1, <1>2, <1>3
  <2> HIDE DEF t
  <2> QED
    BY <1>1, <2>1
<1> HIDE DEF t
<1>6. /\ Append(f, m.id) \in Seq(Nat) /\ Len(Append(f, m.id)) = Len(s) + 1
      /\ \A i \in 1..Len(s) : Append(f, m.id)[i] = f[i]
      /\ Append(f, m.id)[Len(s) + 1] = m.id
  BY <1>3, <1>4, AppendProperties
<1>7. \A i \in 1..(Len(s) + 1) : g[i] = Append(f, m.id)[i]
  <2> TAKE i \in 1..(Len(s) + 1)
  <2>1. CASE i \in 1..Len(s)
    BY <1>1, <1>6, <2>1
  <2>2. CASE i = Len(s) + 1
    BY <1>1, <1>6, <2>2
  <2> QED
    BY <1>1, <2>1, <2>2
<1> HIDE DEF f, g
<1>8. g = Append(f, m.id)
  BY <1>5, <1>6, <1>7, SeqEqual
<1> QED
  BY <1>8 DEF f, g, t

LEMMA StepImplements ==
  ASSUME ChannelTypeOK, OrderOK, Received, [ChannelNext]_vars
  PROVE  [Calls!ReplyNext]_(Calls!replyVars)
<1> USE DEF channelVars, callVars, peerVars, networkVars, historyVars
<1> DEFINE Pending == Calling /\ ~received
           Taken == [i \in 1..Len(replies) |-> replies[i].id]
<1>1. ASSUME Pending' = Pending, UNCHANGED <<requestId, replies>>
      PROVE  UNCHANGED Calls!replyVars
  BY <1>1 DEF Calls!replyVars
<1>2. ASSUME NEW next \in {"service", "closing"}, Send(next), UNCHANGED replies
      PROVE  Calls!Ask
  <2>1. requestId' = requestId + 1 /\ Pending'
    BY <1>2 DEF Send, Calling
  <2>2. Pending' = TRUE
    BY <2>1
  <2> QED
    BY <1>2, <2>1, <2>2 DEF Calls!Ask
\* The call ends without a reply, and perhaps the process with it.
<1>16. ASSUME ~Calling', UNCHANGED <<requestId, replies>>
       PROVE  [Calls!ReplyNext]_(Calls!replyVars)
  <2>1. Pending' = FALSE
    BY <1>16
  <2>2. CASE Pending
    <3>1. Calls!GiveUp
      BY <1>16, <2>1, <2>2 DEF Calls!GiveUp
    <3> QED
      BY <3>1 DEF Calls!ReplyNext
  <2>3. CASE ~Pending
    <3>1. Pending' = Pending
      BY <2>1, <2>3
    <3> QED
      BY <1>1, <1>16, <3>1
  <2> QED
    BY <2>2, <2>3
<1>3. ASSUME GoDown, UNCHANGED replies
      PROVE  [Calls!ReplyNext]_(Calls!replyVars)
  BY <1>3, <1>16 DEF GoDown, Calling
<1>4. ASSUME UNCHANGED <<phase, requestId, received, replies>>
      PROVE  UNCHANGED Calls!replyVars
  <2>1. Pending' = Pending
    BY <1>4 DEF Calling
  <2> QED
    BY <1>1, <1>4, <2>1
<1>5. ASSUME NEW reason, NEW q, Fail(reason, q)
      PROVE  [Calls!ReplyNext]_(Calls!replyVars)
  BY <1>2, <1>3, <1>5 DEF Fail, Calls!ReplyNext
<1>6. CASE Request \/ Leave
  BY <1>2, <1>6 DEF Request, Leave, Calls!ReplyNext
<1>7. CASE Timeout
  BY <1>2, <1>3, <1>7 DEF Timeout, Abandon, Calls!ReplyNext
<1>8. CASE ConnectionLost \/ GarbageFails \/ TokenTimesOut
  BY <1>3, <1>8 DEF ConnectionLost, GarbageFails, TokenTimesOut
<1>9. CASE \/ ServerSends \/ ServerErrs \/ Fault
           \/ Arrive \/ EndOfChunks \/ TakeChunk \/ GarbageWaits
  BY <1>4, <1>9 DEF ServerSends, ServerErrs, Fault, Arrive, EndOfChunks, TakeChunk,
                    GarbageWaits
<1>10. CASE RefuseHeader \/ RefuseNumber \/ RefusePayload
  BY <1>5, <1>10 DEF RefuseHeader, RefuseNumber, RefusePayload
<1>11. CASE Deliver
  <2>1. Calling /\ UNCHANGED <<phase, requestId>>
    BY <1>11, Delivered
  <2>2. CASE /\ ~received /\ received'
             /\ Head(queue) \in Message /\ Head(queue).id = requestId
             /\ replies' = Append(replies, Head(queue))
    <3>1. Pending /\ Pending' = FALSE
      BY <2>1, <2>2
    <3>2. Taken' = Append(Taken, requestId)
      BY <2>2, TakenAppend DEF ChannelTypeOK
    <3>3. Calls!Take
      BY <2>1, <3>1, <3>2 DEF Calls!Take
    <3> QED
      BY <3>3 DEF Calls!ReplyNext
  <2>3. CASE UNCHANGED <<received, replies>>
    BY <1>4, <2>1, <2>3
  <2> QED
    BY <1>11, <2>2, <2>3, Delivered
<1>12. CASE PacketEnds
  <2>1. CASE received /\ phase = "closing"
    BY <1>3, <1>12, <2>1 DEF PacketEnds
  <2>2. CASE ~(received /\ phase = "closing")
    <3>1. /\ phase' = IF received THEN "idle" ELSE phase
          /\ UNCHANGED <<requestId, received, replies>>
          /\ Calling
      BY <1>12, <2>2 DEF PacketEnds, Messages
    <3>2. Pending' = Pending
      BY <3>1 DEF Calling
    <3> QED
      BY <1>1, <3>1, <3>2
  <2> QED
    BY <2>1, <2>2
<1>13. CASE Over \/ UNCHANGED vars
  BY <1>4, <1>13 DEF Over, vars
<1>14. CASE TouchFreed
  BY <1>14, <1>16 DEF TouchFreed, Calling
<1> QED
  BY <1>6, <1>7, <1>8, <1>9, <1>10, <1>11, <1>12, <1>13, <1>14
     DEF ChannelNext, Launcher, Receive, Process, Refuse, Environment

----------------------------------------------------------------------------
(* Without faults: what is coming goes on where the queue ends.            *)

NextChunkOK ==
  /\ NextChunk \in Chunk /\ NextChunk.type = "MSG" /\ NextChunk.good
  /\ NextChunk.id = IF todo = <<>> THEN requestId + 1 ELSE Head(todo)
  /\ NextChunk.seq = NextNumber(serverSeq) /\ NextChunk.part = part + 1

LEMMA NextChunkType == ChannelTypeOK => NextChunkOK
<1> SUFFICES ASSUME ChannelTypeOK PROVE NextChunkOK
  OBVIOUS
<1> DEFINE id == IF todo = <<>> THEN requestId + 1 ELSE Head(todo)
<1>1. id \in Nat
  <2>1. CASE todo = <<>>
    BY <2>1 DEF ChannelTypeOK
  <2>2. CASE todo # <<>>
    BY <2>2, HeadTailProperties DEF ChannelTypeOK
  <2> QED
    BY <2>1, <2>2
<1>2. NextNumber(serverSeq) \in Numbers /\ part + 1 \in Nat
  BY NextNumberType DEF ChannelTypeOK
<1> HIDE DEF id
<1>3. NextChunk = [type |-> "MSG", kind |-> "C", id |-> id, seq |-> NextNumber(serverSeq),
                   part |-> part + 1, good |-> TRUE]
  BY DEF NextChunk, id
<1>4. /\ NextChunk \in Chunk /\ NextChunk.type = "MSG" /\ NextChunk.good
      /\ NextChunk.id = id /\ NextChunk.seq = NextNumber(serverSeq)
      /\ NextChunk.part = part + 1
  BY <1>1, <1>2, <1>3 DEF Chunk
<1> QED
  BY <1>4 DEF NextChunkOK, id

LEMMA NextChunkPrimed == ChannelTypeOK' => NextChunkOK'
BY NextChunkType, PTL

ComingOK ==
  /\ Coming \in Seq(Chunk) /\ Len(Coming) \in Nat /\ Len(stream) \in Nat
  /\ Len(Coming) = Len(stream) + (IF server = "up" THEN 1 ELSE 0)
  /\ \A i \in 1..Len(stream) : Coming[i] = stream[i]
  /\ server = "up" => Coming[Len(stream) + 1] = NextChunk
  /\ Coming # <<>> => 1 \in 1..Len(Coming) /\ Head(Coming) = Coming[1]

LEMMA ComingProperties == ChannelTypeOK => ComingOK
<1> SUFFICES ASSUME ChannelTypeOK PROVE ComingOK
  OBVIOUS
<1>1. stream \in Seq(Chunk) /\ Len(stream) \in Nat
  BY LenProperties DEF ChannelTypeOK
<1>2. /\ Coming \in Seq(Chunk)
      /\ Len(Coming) = Len(stream) + (IF server = "up" THEN 1 ELSE 0)
      /\ \A i \in 1..Len(stream) : Coming[i] = stream[i]
      /\ server = "up" => Coming[Len(stream) + 1] = NextChunk
  <2>1. CASE server = "up"
    <3>1. Coming = Append(stream, NextChunk)
      BY <2>1 DEF Coming
    <3>2. NextChunk \in Chunk
      BY NextChunkType DEF NextChunkOK
    <3> QED
      BY <1>1, <2>1, <3>1, <3>2, AppendProperties
  <2>2. CASE server # "up"
    BY <1>1, <2>2 DEF Coming
  <2> QED
    BY <2>1, <2>2
<1>3. Coming # <<>> => 1 \in 1..Len(Coming) /\ Head(Coming) = Coming[1]
  BY <1>2, LastProperties
<1>4. Len(Coming) \in Nat
  BY <1>2, LenProperties
<1> QED
  BY <1>1, <1>2, <1>3, <1>4 DEF ComingOK

LEMMA ComingPrimed == ChannelTypeOK' => ComingOK'
BY ComingProperties, PTL

\* A request that is sent takes the place that the next chunk had for it.
LEMMA NextChunkSame ==
  ASSUME ChannelTypeOK, UNCHANGED <<serverSeq, part>>,
         \/ UNCHANGED <<todo, requestId>>
         \/ \E next \in {"service", "closing"} : Send(next)
  PROVE  NextChunk' = NextChunk
<1>1. CASE UNCHANGED <<todo, requestId>>
  BY <1>1 DEF NextChunk, NextNumber
<1>2. CASE \E next \in {"service", "closing"} : Send(next)
  <2>1. todo \in Seq(Nat) /\ requestId + 1 \in Nat
    BY DEF ChannelTypeOK
  <2>2. requestId' = requestId + 1 /\ todo' = Append(todo, requestId + 1)
    BY <1>2 DEF Send
  <2>3. /\ todo' # <<>>
        /\ Head(todo') = IF todo = <<>> THEN requestId + 1 ELSE Head(todo)
    BY <2>1, <2>2, AppendProperties, HeadTailAppend
  <2> QED
    BY <2>3 DEF NextChunk, NextNumber
<1> QED
  BY <1>1, <1>2

LEMMA ComingRest ==
  ASSUME ChannelTypeOK, ChannelTypeOK', NEW k \in 0..Len(stream),
         Len(stream') = Len(stream) - k,
         \A i \in 1..Len(stream') : stream'[i] = stream[i + k],
         server' = server, NextChunk' = NextChunk
  PROVE  /\ Len(Coming') = Len(Coming) - k
         /\ \A i \in 1..Len(Coming') :
              i + k \in 1..Len(Coming) /\ Coming'[i] = Coming[i + k]
<1>1. ComingOK /\ ComingOK'
  BY ComingProperties, ComingPrimed
<1>2. /\ Len(Coming) \in Nat /\ Len(stream) \in Nat
      /\ Len(Coming) = Len(stream) + (IF server = "up" THEN 1 ELSE 0)
      /\ \A i \in 1..Len(stream) : Coming[i] = stream[i]
      /\ server = "up" => Coming[Len(stream) + 1] = NextChunk
  BY <1>1 DEF ComingOK
<1>3. /\ Len(Coming') \in Nat /\ Len(stream') \in Nat
      /\ Len(Coming') = Len(stream') + (IF server = "up" THEN 1 ELSE 0)
      /\ \A i \in 1..Len(stream') : Coming'[i] = stream'[i]
      /\ server = "up" => Coming'[Len(stream') + 1] = NextChunk
  BY <1>1 DEF ComingOK
<1>4. Len(Coming') = Len(Coming) - k
  BY <1>2, <1>3
<1>5. ASSUME NEW i \in 1..Len(Coming')
      PROVE  i + k \in 1..Len(Coming) /\ Coming'[i] = Coming[i + k]
  <2>1. i + k \in 1..Len(Coming)
    BY <1>2, <1>3, <1>4
  <2>2. CASE i \in 1..Len(stream')
    <3>1. i + k \in 1..Len(stream)
      BY <1>2, <1>3, <2>2
    <3> QED
      BY <1>2, <1>3, <2>1, <2>2, <3>1
  <2>3. CASE server = "up" /\ i = Len(stream') + 1
    <3>1. i + k = Len(stream) + 1
      BY <1>2, <1>3, <2>3
    <3> QED
      BY <1>2, <1>3, <2>1, <2>3, <3>1
  <2> QED
    BY <1>3, <2>2, <2>3
<1> QED
  BY <1>4, <1>5

LEMMA SentRest ==
  ASSUME NEW k \in Nat, Sent, part' = part,
         server' = "up" => server = "up",
         todo' = <<>> => todo = <<>>,
         Len(Coming) \in Nat, Len(Coming') = Len(Coming) - k,
         \A i \in 1..Len(Coming') :
           i + k \in 1..Len(Coming) /\ Coming'[i] = Coming[i + k]
  PROVE  Sent'
<1>1. server' = "up" /\ todo' = <<>> => part' = 0
  BY DEF Sent
<1>2. \A i \in 1..Len(Coming') : Coming'[i].good
  BY DEF Sent
<1>3. ASSUME NEW i \in 1..(Len(Coming') - 1)
      PROVE  Follows(Coming'[i], Coming'[i + 1])
  <2>1. /\ i \in 1..Len(Coming') /\ i + 1 \in 1..Len(Coming')
        /\ i + k \in 1..(Len(Coming) - 1) /\ (i + 1) + k = (i + k) + 1
    OBVIOUS
  <2>2. Coming'[i] = Coming[i + k] /\ Coming'[i + 1] = Coming[(i + k) + 1]
    <3>1. Coming'[i] = Coming[i + k] /\ Coming'[i + 1] = Coming[(i + 1) + k]
      BY <2>1
    <3>2. (i + 1) + k = (i + k) + 1
      BY <2>1
    <3> QED
      BY <3>1, <3>2
  <2>3. Follows(Coming[i + k], Coming[(i + k) + 1])
    BY <2>1 DEF Sent
  <2> QED
    BY <2>2, <2>3 DEF Follows, NextNumber
<1> QED
  BY <1>1, <1>2, <1>3 DEF Sent, Follows, NextNumber

LinkOK == /\ faults = 0 => Begun
          /\ Undisturbed => Sent /\ Joined /\ Accepted

LEMMA DownLinked ==
  ASSUME GoDown
  PROVE  LinkOK'
<1>1. queue' = <<>> /\ phase' = "down"
  BY DEF GoDown
<1> QED
  BY <1>1 DEF LinkOK, Begun, Undisturbed

\* What is in order with a new request is not its answer.
LEMMA NotAnswered ==
  ASSUME ChannelTypeOK, NEW q \in Seq(Message), QueueInOrder(q), NEW i \in 1..Len(q)
  PROVE  q[i].id # requestId + 1 /\ q[i].id \in 0..requestId
<1>1. Known(q[i]) /\ requestId \in Nat
  BY DEF QueueInOrder, ChannelTypeOK
<1> QED
  BY <1>1 DEF Known

\* A request goes out, perhaps because of a failure.
LEMMA SendLinked ==
  ASSUME ChannelTypeOK, ChannelTypeOK', OrderOK, LinkOK, phase # "down", ~cut' => ~cut,
         NEW next \in {"service", "closing"}, Send(next),
         UNCHANGED <<part, serverSeq, server, faults>>,
         NEW q \in Seq(Message), QueueInOrder(q), queue' = q,
         NEW k \in 0..Len(stream), Len(stream') = Len(stream) - k,
         \A i \in 1..Len(stream') : stream'[i] = stream[i + k],
         \/ why' # "none"
         \/ why' = why /\ q = queue /\ k = 0 /\ receiveSeq' = receiveSeq
  PROVE  LinkOK'
<1>1. /\ requestId' = requestId + 1 /\ requestId \in Nat /\ Len(todo') = Len(todo) + 1
      /\ todo \in Seq(Nat) /\ Len(todo) \in Nat
  BY SendType, LenProperties DEF ChannelTypeOK
<1>2. NextChunk' = NextChunk
  BY NextChunkSame
<1>3. /\ Len(Coming') = Len(Coming) - k
      /\ \A i \in 1..Len(Coming') : i + k \in 1..Len(Coming) /\ Coming'[i] = Coming[i + k]
  BY <1>2, ComingRest
<1>4. ComingOK /\ ComingOK'
  BY ComingProperties, ComingPrimed
<1>5. \A i \in 1..Len(q) : q[i].id # requestId'
  BY <1>1, NotAnswered
<1>6. ASSUME faults = 0
      PROVE  Begun'
  <2>1. CASE why' # "none"
    BY <1>5, <2>1 DEF Begun, Minds
  <2>2. CASE why' = "none" /\ why' = why /\ q = queue
    BY <1>6, <2>2 DEF Begun, Minds, LinkOK
  <2> QED
    BY <2>1, <2>2
<1>7. ASSUME Undisturbed'
      PROVE  Sent' /\ Joined' /\ Accepted'
  <2>1. Sent /\ Joined /\ Accepted
    BY <1>7 DEF LinkOK, Undisturbed
  <2>2. Sent'
    <3>1. todo' # <<>> /\ k \in Nat /\ Len(Coming) \in Nat
      BY <1>1, <1>4, LenProperties DEF ComingOK
    <3> QED
      BY <1>3, <2>1, <3>1, SentRest
  <2>3. CASE why' # "none"
    <3>1. Accepted'
      BY <2>3 DEF Accepted
    <3>2. Joined'
      <4> SUFFICES ASSUME Coming' # <<>>, Minds(Head(Coming))'
                   PROVE  (Head(Coming).part =
                             IF Open("MSG", Head(Coming).id)
                               THEN Len(Last(queue).parts) + 1 ELSE 1)'
        BY DEF Joined
      <4>1. /\ Head(Coming').id = requestId' /\ Head(Coming').type = "MSG"
            /\ 1 \in 1..Len(Coming') /\ Head(Coming') = Coming'[1]
        BY <1>4, <2>3 DEF Minds, ComingOK
      <4>2. /\ 1 + k \in 1..Len(Coming) /\ Head(Coming') = Coming[1 + k]
        BY <1>3, <4>1
      <4>3. 1 + k \notin 1..Len(stream)
        <5>1. SUFFICES ASSUME 1 + k \in 1..Len(stream) PROVE FALSE
          OBVIOUS
        <5>2. Head(Coming') = stream[1 + k]
          BY <1>4, <4>2, <5>1 DEF ComingOK
        <5>3. Known(stream[1 + k])
          BY <5>1 DEF OrderOK, StreamInOrder
        <5>4. Head(Coming').id <= requestId
          BY <4>1, <5>2, <5>3 DEF Known
        <5>5. requestId' = requestId + 1 /\ requestId \in Nat
          BY <1>1
        <5> QED
          BY <4>1, <5>4, <5>5
      <4>4. server = "up" /\ Head(Coming') = NextChunk
        BY <1>4, <4>2, <4>3 DEF ComingOK
      <4>5. todo = <<>>
        <5>1. SUFFICES ASSUME todo # <<>> PROVE FALSE
          OBVIOUS
        <5>2. Head(todo) = requestId + 1 /\ Head(todo) = todo[1] /\ 1 \in 1..Len(todo)
          BY <1>1, <4>1, <4>4, <5>1, NextChunkType, LastProperties DEF NextChunkOK
        <5> QED
          BY <1>1, <5>2 DEF OrderOK, TodoInOrder
      <4>6. Head(Coming').part = 1
        <5>1. part = 0
          BY <2>1, <4>4, <4>5 DEF Sent
        <5> QED
          BY <4>4, <5>1, NextChunkType DEF NextChunkOK
      <4>7. ~Open("MSG", Head(Coming).id)'
        <5>1. queue' # <<>> => Last(queue').id # requestId'
          BY <1>5, LastProperties
        <5> QED
          BY <4>1, <5>1 DEF Open
      <4> QED
        BY <4>6, <4>7
    <3> QED
      BY <2>2, <3>1, <3>2
  <2>4. CASE why' = "none" /\ why' = why /\ q = queue /\ k = 0 /\ receiveSeq' = receiveSeq
    <3>1. Coming' = Coming
      <4>1. stream' = stream
        BY <2>4, SeqEqual DEF ChannelTypeOK
      <4> QED
        BY <1>2, <4>1 DEF Coming
    <3>2. Accepted'
      BY <2>1, <2>4, <3>1 DEF Accepted, InOrder, NextNumber
    <3>3. Joined'
      BY <2>1, <2>4, <3>1 DEF Joined, Minds, Open
    <3> QED
      BY <2>2, <3>2, <3>3
  <2> QED
    BY <2>3, <2>4
<1> QED
  BY <1>6, <1>7 DEF LinkOK

LEMMA SentLinked ==
  ASSUME ChannelTypeOK, ChannelTypeOK', OrderOK, LinkOK, ServerSends
  PROVE  LinkOK'
<1> DEFINE c(kind) == [type |-> "MSG", kind |-> kind, id |-> Head(todo),
                       seq |-> NextNumber(serverSeq), part |-> part + 1, good |-> TRUE]
<1>1. PICK kind \in {"C", "F", "A"} :
        /\ stream' = Append(stream, c(kind))
        /\ IF kind = "C" THEN part' = part + 1 /\ UNCHANGED todo
                         ELSE part' = 0 /\ todo' = Tail(todo)
  BY DEF ServerSends
<1>2. /\ server = "up" /\ server' = "up" /\ todo # <<>>
      /\ serverSeq' = NextNumber(serverSeq)
      /\ UNCHANGED <<queue, receiveSeq, phase, requestId, cut, faults, why>>
  BY DEF ServerSends, channelVars, callVars, historyVars
<1>3. /\ todo \in Seq(Nat) /\ Len(todo) \in Nat \ {0} /\ Head(todo) = todo[1]
      /\ Head(todo) \in Nat /\ stream \in Seq(Chunk) /\ Len(stream) \in Nat
      /\ requestId \in Nat /\ serverSeq \in Numbers /\ part \in Nat
  BY <1>2, LastProperties, LenProperties DEF ChannelTypeOK
<1>4. c(kind) \in Chunk
  BY <1>3, NextNumberType DEF Chunk
<1>5. /\ c(kind).type = "MSG" /\ c(kind).kind = kind /\ c(kind).id = Head(todo)
      /\ c(kind).seq = NextNumber(serverSeq) /\ c(kind).part = part + 1 /\ c(kind).good
  OBVIOUS
<1> HIDE DEF c
<1>6. /\ NextChunk.type = "MSG" /\ NextChunk.id = Head(todo)
      /\ NextChunk.seq = NextNumber(serverSeq) /\ NextChunk.part = part + 1
  BY <1>2, NextChunkType DEF NextChunkOK
<1>7. /\ NextChunk'.type = "MSG" /\ NextChunk'.good
      /\ NextChunk'.id = IF todo' = <<>> THEN requestId + 1 ELSE Head(todo')
      /\ NextChunk'.seq = NextNumber(serverSeq') /\ NextChunk'.part = part' + 1
  BY <1>2, NextChunkPrimed DEF NextChunkOK, NextNumber
<1>8. /\ Len(stream') = Len(stream) + 1
      /\ \A i \in 1..Len(stream) : stream'[i] = stream[i]
      /\ stream'[Len(stream) + 1] = c(kind)
  BY <1>1, <1>3, <1>4, AppendProperties
<1>9. ComingOK /\ ComingOK'
  BY ComingProperties, ComingPrimed
<1>10. /\ Len(Coming) = Len(stream) + 1 /\ Len(Coming') = Len(stream) + 2
       /\ \A i \in 1..Len(stream) : Coming[i] = stream[i]
       /\ Coming[Len(stream) + 1] = NextChunk
  BY <1>2, <1>3, <1>8, <1>9 DEF ComingOK
<1>11. /\ \A i \in 1..Len(stream) : Coming'[i] = Coming[i]
       /\ Coming'[Len(stream) + 1] = c(kind)
       /\ Coming'[Len(stream) + 2] = NextChunk'
  <2>1. /\ \A i \in 1..(Len(stream) + 1) : Coming'[i] = stream'[i]
        /\ Coming'[Len(stream) + 1 + 1] = NextChunk'
    BY <1>2, <1>8, <1>9 DEF ComingOK
  <2>2. Len(stream) + 1 + 1 = Len(stream) + 2 /\ Len(stream) + 1 \in 1..(Len(stream) + 1)
    BY <1>3
  <2>3. \A i \in 1..Len(stream) : i \in 1..(Len(stream) + 1)
    BY <1>3
  <2> QED
    BY <1>8, <1>10, <2>1, <2>2, <2>3
<1>12. /\ 1 \in 1..Len(Coming) /\ 1 \in 1..Len(Coming')
       /\ Coming # <<>> /\ Coming' # <<>>
       /\ Head(Coming) = Coming[1] /\ Head(Coming') = Coming'[1]
  BY <1>3, <1>9, <1>10 DEF ComingOK
<1>13. /\ Head(Coming').type = Head(Coming).type /\ Head(Coming').id = Head(Coming).id
       /\ Head(Coming').seq = Head(Coming).seq /\ Head(Coming').part = Head(Coming).part
  <2>1. CASE Len(stream) = 0
    <3>1. Head(Coming') = c(kind) /\ Head(Coming) = NextChunk
      BY <1>10, <1>11, <1>12, <2>1
    <3> QED
      BY <1>5, <1>6, <3>1
  <2>2. CASE Len(stream) # 0
    <3>1. 1 \in 1..Len(stream)
      BY <1>3, <2>2
    <3> QED
      BY <1>11, <1>12, <3>1
  <2> QED
    BY <2>1, <2>2
<1>14. ASSUME Sent
       PROVE  Sent'
  <2>1. server' = "up" /\ todo' = <<>> => part' = 0
    BY <1>1, <1>2
  <2>2. \A i \in 1..Len(Coming') : Coming'[i].good
    <3> TAKE i \in 1..Len(Coming')
    <3>1. CASE i \in 1..Len(stream)
      <4>1. i \in 1..Len(Coming) /\ Coming'[i] = Coming[i]
        BY <1>3, <1>10, <1>11, <3>1
      <4> QED
        BY <1>14, <4>1 DEF Sent
    <3>2. CASE i = Len(stream) + 1 \/ i = Len(stream) + 2
      BY <1>5, <1>7, <1>11, <3>2
    <3>3. i \in 1..(Len(stream) + 2)
      BY <1>10
    <3>4. i \in 1..Len(stream) \/ i = Len(stream) + 1 \/ i = Len(stream) + 2
      BY <1>3, <3>3
    <3> QED
      BY <3>1, <3>2, <3>4
  <2>3. ASSUME NEW i \in 1..(Len(Coming') - 1)
        PROVE  Follows(Coming'[i], Coming'[i + 1])
    <3>1. CASE i \in 1..(Len(stream) - 1)
      <4>1. /\ i \in 1..Len(stream) /\ i + 1 \in 1..Len(stream)
            /\ i \in 1..(Len(Coming) - 1)
        BY <1>3, <1>10, <3>1
      <4> QED
        BY <1>11, <1>14, <4>1 DEF Sent
    <3>2. CASE i = Len(stream)
      <4>1. i \in 1..Len(stream) /\ i \in 1..(Len(Coming) - 1)
        BY <1>3, <1>10, <3>2
      <4>2. Follows(Coming[i], NextChunk)
        BY <1>10, <1>14, <3>2, <4>1 DEF Sent
      <4> QED
        BY <1>5, <1>6, <1>11, <3>2, <4>1, <4>2 DEF Follows
    <3>3. CASE i = Len(stream) + 1
      <4>1. Coming'[i] = c(kind) /\ Coming'[i + 1] = NextChunk'
        <5>1. i + 1 = Len(stream) + 2
          BY <1>3, <3>3
        <5> QED
          BY <1>11, <3>3, <5>1
      <4>2. CASE kind = "C"
        <5>1. NextChunk'.id = Head(todo) /\ NextChunk'.part = (part + 1) + 1
          BY <1>1, <1>2, <1>7, <4>2
        <5> QED
          BY <1>2, <1>5, <1>7, <4>1, <4>2, <5>1 DEF Follows
      <4>3. CASE kind # "C"
        <5>1. part' = 0 /\ todo' = Tail(todo)
          BY <1>1, <4>3
        <5>2. NextChunk'.id > Head(todo)
          <6>1. CASE todo' = <<>>
            <7>1. Head(todo) \in 1..requestId
              BY <1>3 DEF OrderOK, TodoInOrder
            <7> QED
              BY <1>3, <1>7, <6>1, <7>1
          <6>2. CASE todo' # <<>>
            <7>1. /\ todo' \in Seq(Nat) /\ Len(todo') = Len(todo) - 1
                  /\ \A j \in 1..Len(todo') : todo'[j] = todo[j + 1]
              BY <1>2, <1>3, <5>1, HeadTailProperties
            <7>2. Head(todo') = todo'[1] /\ 1 \in 1..Len(todo')
              BY <6>2, <7>1, LastProperties
            <7>3. Head(todo') = todo[2] /\ 2 \in 1..Len(todo) /\ 1 \in 1..Len(todo)
              <8>1. todo'[1] = todo[1 + 1] /\ 1 + 1 = 2
                BY <7>1, <7>2
              <8>2. Len(todo) - 1 >= 1
                BY <1>3, <7>1, <7>2
              <8> QED
                BY <1>3, <7>2, <8>1, <8>2
            <7>4. todo[1] < todo[2] /\ todo[2] \in Nat
              BY <1>3, <7>3, ElementOfSeq DEF OrderOK, TodoInOrder
            <7> QED
              BY <1>3, <1>7, <6>2, <7>3, <7>4
          <6> QED
            BY <6>1, <6>2
        <5>3. NextChunk'.part = 1
          BY <1>7, <5>1
        <5> QED
          BY <1>2, <1>5, <1>7, <4>1, <4>3, <5>2, <5>3 DEF Follows
      <4> QED
        BY <4>2, <4>3
    <3> QED
      BY <1>3, <1>10, <3>1, <3>2, <3>3
  <2> QED
    BY <2>1, <2>2, <2>3 DEF Sent, Follows, NextNumber
<1>15. Joined => Joined'
  BY <1>2, <1>12, <1>13 DEF Joined, Minds, Open
<1>16. Accepted => Accepted'
  BY <1>2, <1>12, <1>13 DEF Accepted, InOrder, NextNumber
<1>17. Begun => Begun'
  BY <1>2 DEF Begun, Minds
<1> QED
  BY <1>2, <1>14, <1>15, <1>16, <1>17 DEF LinkOK, Undisturbed

LEMMA ErrLinked ==
  ASSUME ChannelTypeOK, ChannelTypeOK', LinkOK, ServerErrs
  PROVE  LinkOK'
<1> DEFINE c == [type |-> "ERR", kind |-> "F", id |-> 0, seq |-> 0, part |-> 1,
                 good |-> TRUE]
<1>1. /\ server = "up" /\ server' = "gone" /\ stream' = Append(stream, c)
      /\ UNCHANGED <<queue, receiveSeq, phase, requestId, cut, faults, why>>
  BY DEF ServerErrs, channelVars, callVars, historyVars
<1>2. c \in Chunk
  BY ChannelAssumption DEF Chunk, Numbers
<1>3. c.type = "ERR" /\ c.good
  OBVIOUS
<1> HIDE DEF c
<1>4. /\ Len(stream') = Len(stream) + 1 /\ Len(stream) \in Nat
      /\ \A i \in 1..Len(stream) : stream'[i] = stream[i]
      /\ stream'[Len(stream) + 1] = c
  BY <1>1, <1>2, AppendProperties, LenProperties DEF ChannelTypeOK
<1>5. ComingOK /\ ComingOK'
  BY ComingProperties, ComingPrimed
<1>6. /\ Len(Coming) = Len(stream) + 1 /\ Len(Coming') = Len(stream) + 1
      /\ \A i \in 1..Len(stream) : Coming'[i] = Coming[i]
      /\ Coming'[Len(stream) + 1] = c
  BY <1>1, <1>4, <1>5 DEF ComingOK
<1>7. ASSUME Sent
      PROVE  Sent'
  <2>1. \A i \in 1..Len(Coming') : Coming'[i].good
    BY <1>3, <1>4, <1>6, <1>7 DEF Sent
  <2>2. ASSUME NEW i \in 1..(Len(Coming') - 1)
        PROVE  Follows(Coming'[i], Coming'[i + 1])
    <3>1. i \in 1..Len(stream) /\ i \in 1..(Len(Coming) - 1)
      BY <1>4, <1>6
    <3>2. CASE i = Len(stream)
      BY <1>3, <1>6, <3>2 DEF Follows
    <3>3. CASE i # Len(stream)
      <4>1. i + 1 \in 1..Len(stream)
        BY <1>4, <3>1, <3>3
      <4> QED
        BY <1>6, <1>7, <3>1, <4>1 DEF Sent
    <3> QED
      BY <3>2, <3>3
  <2> QED
    BY <1>1, <2>1, <2>2 DEF Sent, Follows, NextNumber
<1>8. /\ 1 \in 1..Len(Coming) /\ 1 \in 1..Len(Coming')
      /\ Coming # <<>> /\ Coming' # <<>>
      /\ Head(Coming) = Coming[1] /\ Head(Coming') = Coming'[1]
  BY <1>4, <1>5, <1>6 DEF ComingOK
<1>9. Head(Coming').type = "ERR" \/ Head(Coming') = Head(Coming)
  <2>1. CASE Len(stream) = 0
    BY <1>3, <1>6, <1>8, <2>1
  <2>2. CASE Len(stream) # 0
    BY <1>4, <1>6, <1>8, <2>2
  <2> QED
    BY <2>1, <2>2
<1>10. Joined => Joined'
  BY <1>1, <1>8, <1>9 DEF Joined, Minds, Open
<1>11. Accepted => Accepted'
  BY <1>1, <1>8, <1>9 DEF Accepted, InOrder, NextNumber
<1>12. Begun => Begun'
  BY <1>1 DEF Begun, Minds
<1> QED
  BY <1>1, <1>7, <1>10, <1>11, <1>12 DEF LinkOK, Undisturbed

\* The message at the head of the queue goes; the last one stays or was complete.
LEMMA DeliverLinked ==
  ASSUME ChannelTypeOK, ChannelTypeOK', LinkOK, Deliver
  PROVE  LinkOK'
<1>1. /\ queue # <<>> /\ Head(queue).final /\ queue' = Tail(queue)
      /\ UNCHANGED <<receiveSeq, phase, requestId, todo, part, serverSeq, server,
                     stream, cut, faults, why>>
  BY DEF Deliver, Complete, peerVars, networkVars
<1>2. /\ Len(queue) \in Nat \ {0} /\ Head(queue) = queue[1] /\ Last(queue) = queue[Len(queue)]
      /\ Len(queue') = Len(queue) - 1
      /\ \A i \in 1..Len(queue') : queue'[i] = queue[i + 1]
  BY <1>1, LastProperties, HeadTailProperties DEF ChannelTypeOK
<1>3. IF queue' = <<>> THEN Last(queue).final ELSE Last(queue') = Last(queue)
  <2>1. CASE queue' = <<>>
    <3>1. Len(queue') = 0
      BY <2>1
    <3>2. Len(queue) = 1
      BY <1>2, <3>1
    <3> QED
      BY <1>1, <1>2, <2>1, <3>2
  <2>2. CASE queue' # <<>>
    <3>1. Last(queue') = queue'[Len(queue')] /\ Len(queue') \in 1..Len(queue')
      BY <2>2, LastProperties DEF ChannelTypeOK
    <3>2. Len(queue') + 1 = Len(queue)
      BY <1>2
    <3>3. queue'[Len(queue')] = queue[Len(queue') + 1]
      BY <1>2, <3>1
    <3> QED
      BY <1>2, <2>2, <3>1, <3>2, <3>3
  <2> QED
    BY <2>1, <2>2
<1>4. Coming' = Coming /\ (Sent => Sent')
  BY <1>1 DEF Coming, NextChunk, NextNumber, Sent, Follows
<1>5. ASSUME Begun
      PROVE  Begun'
  <2>1. \A i \in 1..Len(queue') : i + 1 \in 1..Len(queue) /\ queue'[i] = queue[i + 1]
    BY <1>2
  <2> QED
    BY <1>1, <1>5, <2>1 DEF Begun, Minds
<1>7. Joined => Joined'
  <2>1. \A type, id : Open(type, id) => Last(queue') = Last(queue)
    BY <1>3 DEF Open
  <2>2. Head(Coming') = Head(Coming)
    BY <1>4
  <2>3. Open("MSG", Head(Coming).id)' <=> Open("MSG", Head(Coming).id)
    BY <1>1, <1>3, <2>2 DEF Open
  <2> QED
    BY <1>1, <1>4, <2>1, <2>2, <2>3 DEF Joined, Minds
<1>8. Accepted => Accepted'
  BY <1>1, <1>3, <1>4 DEF Accepted, InOrder, NextNumber
<1> QED
  BY <1>1, <1>4, <1>5, <1>7, <1>8 DEF LinkOK, Undisturbed

\* What the queue holds of the message of the chunk ahead.
LEMMA EnteredBegun ==
  ASSUME ChannelTypeOK, Begun, Joined, NEW h \in Chunk, h.type = "MSG", Minds(h),
         Coming # <<>>, Head(Coming) = h
  PROVE  /\ h.part = Len(Last(Entered("MSG", h.id)).parts) + 1
         /\ \A k \in 1..Len(Last(Entered("MSG", h.id)).parts) :
              Last(Entered("MSG", h.id)).parts[k] = k
<1>1. queue \in Seq(Message) /\ "MSG" \in {"MSG", "ERR"} /\ h.id \in Nat
  BY DEF ChannelTypeOK, Chunk
<1>2. CASE Open("MSG", h.id)
  <2>1. Entered("MSG", h.id) = queue
    BY <1>2 DEF Entered
  <2>2. /\ queue # <<>> /\ Last(queue).id = h.id /\ Last(queue).type = "MSG"
    BY <1>2 DEF Open
  <2>3. Len(queue) \in 1..Len(queue) /\ Last(queue) = queue[Len(queue)]
    BY <1>1, <2>2, LastProperties
  <2>4. \A k \in 1..Len(Last(queue).parts) : Last(queue).parts[k] = k
    BY <2>2, <2>3 DEF Begun, Minds
  <2> QED
    BY <1>2, <2>1, <2>4 DEF Joined
<1>3. CASE ~Open("MSG", h.id)
  <2>1. Last(Entered("MSG", h.id)).parts = <<>>
    <3>1. EnteredOK("MSG", h.id)
      BY <1>1, EnteredProperties
    <3> QED
      BY <1>3, <3>1 DEF EnteredOK
  <2>2. h.part = 1
    BY <1>3 DEF Joined
  <2>3. Len(<<>>) = 0
    OBVIOUS
  <2> QED
    BY <2>1, <2>2, <2>3
<1> QED
  BY <1>2, <1>3

LEMMA NoneOfLater ==
  ASSUME ChannelTypeOK, OrderOK, stream # <<>>, NEW id \in Nat, id > stream[1].id,
         stream[1].type = "MSG", NEW i \in 1..Len(queue)
  PROVE  queue[i].id # id
<1>1. stream \in Seq(Chunk) /\ 1 \in 1..Len(stream) /\ stream[1] \in Chunk
  BY LastProperties, ElementOfSeq DEF ChannelTypeOK
<1>2. queue[i] \in Message /\ Before(queue[i], stream[1])
  BY <1>1, ElementOfSeq DEF ChannelTypeOK, OrderOK, QueueInOrder
<1> QED
  BY <1>1, <1>2 DEF Before, Message, Chunk

LEMMA TakeLinked ==
  ASSUME ChannelTypeOK, ChannelTypeOK', Halves, OrderOK, LinkOK, TakeChunk
  PROVE  LinkOK'
<1> DEFINE h == Ahead
           e == Entered(h.type, h.id)
<1>1. /\ inHand >= 2 /\ Calling /\ stream' = Tail(stream)
      /\ UNCHANGED <<phase, requestId, todo, part, serverSeq, server, cut, faults, why>>
  BY DEF TakeChunk, Chunks, peerVars
<1>2. SUFFICES ASSUME faults = 0 PROVE LinkOK'
  BY <1>1 DEF LinkOK, Undisturbed
<1>3. Begun /\ Sent /\ Joined /\ Accepted
  <2>1. inHand \in Nat /\ cut \in BOOLEAN
    BY DEF ChannelTypeOK
  <2>2. ~cut /\ phase # "down"
    BY <1>1, <2>1 DEF Halves, Calling
  <2> QED
    BY <1>2, <2>2 DEF LinkOK, Undisturbed
<1>4. /\ h \in Chunk /\ h = stream[1] /\ stream # <<>> /\ Len(stream) \in Nat \ {0}
      /\ Len(stream') = Len(stream) - 1
      /\ \A i \in 1..Len(stream') : stream'[i] = stream[i + 1]
  BY <1>1, AheadProperties
<1>5. ComingOK /\ ComingOK'
  BY ComingProperties, ComingPrimed
<1>6. /\ Len(Coming') = Len(Coming) - 1
      /\ \A i \in 1..Len(Coming') : i + 1 \in 1..Len(Coming) /\ Coming'[i] = Coming[i + 1]
  <2>1. NextChunk' = NextChunk
    BY <1>1, NextChunkSame
  <2>2. 1 \in 0..Len(stream)
    BY <1>4
  <2> QED
    BY <1>1, <1>4, <2>1, <2>2, ComingRest
<1>7. /\ Coming # <<>> /\ Head(Coming) = h /\ Coming[1] = h /\ Len(Coming) \in Nat \ {0}
  <2>1. 1 \in 1..Len(stream) /\ Len(Coming) \in Nat /\ Len(Coming) >= Len(stream)
    BY <1>4, <1>5 DEF ComingOK
  <2>2. Coming # <<>>
    BY <1>4, <2>1
  <2> QED
    BY <1>4, <1>5, <2>1, <2>2 DEF ComingOK
<1>8. Sent'
  BY <1>1, <1>3, <1>6, <1>7, SentRest
<1>9. queue \in Seq(Message) /\ Len(queue) \in Nat
  BY LenProperties DEF ChannelTypeOK
<1>10. /\ h.type \in {"MSG", "ERR"} /\ h.id \in Nat /\ h.part \in Nat
       /\ h.kind \in {"C", "F", "A"}
  BY <1>4 DEF Chunk
<1> DEFINE g == Head(Coming')
<1>11. ASSUME Coming' # <<>>, g.type = "MSG"
       PROVE  /\ h.type = "MSG" /\ Follows(h, g) /\ g.id \in Nat
              /\ receiveSeq' = h.seq
  <2>1. /\ 1 \in 1..Len(Coming') /\ g = Coming'[1]
    BY <1>5, <1>11 DEF ComingOK
  <2>2. 1 + 1 \in 1..Len(Coming) /\ g = Coming[1 + 1]
    BY <1>6, <2>1
  <2>3. g = Coming[2] /\ 2 \in 1..Len(Coming) /\ 1 \in 1..(Len(Coming) - 1)
    BY <1>7, <2>2
  <2>4. g \in Chunk
    BY <1>5, <2>3, ElementOfSeq DEF ComingOK
  <2>5. Follows(Coming[1], Coming[1 + 1])
    BY <1>3, <2>3 DEF Sent
  <2>6. h.type = "MSG"
    <3>1. SUFFICES ASSUME h.type # "MSG" PROVE FALSE
      OBVIOUS
    <3>2. 1 \in 1..Len(stream)
      BY <1>4
    <3>3. Known(h)
      BY <1>4, <3>2 DEF OrderOK, StreamInOrder
    <3>4. server # "up"
      BY <3>1, <3>3 DEF Known
    <3>5. Len(Coming) = Len(stream)
      BY <1>4, <1>5, <3>4 DEF ComingOK
    <3>6. 2 \in 1..Len(stream) /\ g = stream[2]
      BY <1>5, <2>3, <3>5 DEF ComingOK
    <3>7. Before(stream[1], stream[2])
      BY <3>2, <3>6 DEF OrderOK, StreamInOrder
    <3>8. stream[1].type = "ERR"
      BY <1>4, <1>10, <3>1
    <3> QED
      BY <1>11, <3>6, <3>7, <3>8 DEF Before
  <2>7. receiveSeq' = h.seq
    BY <2>6 DEF TakeChunk
  <2> QED
    BY <1>7, <2>2, <2>4, <2>5, <2>6, <2>7 DEF Chunk
\* What follows the last chunk of a message is of a later one.
<1>12. ASSUME Coming' # <<>>, g.type = "MSG", h.kind # "C"
       PROVE  g.part = 1 /\ h.id # g.id /\ \A i \in 1..Len(queue) : queue[i].id # g.id
  <2>1. h.type = "MSG" /\ g.part = 1 /\ g.id > h.id /\ g.id \in Nat
    BY <1>11, <1>12 DEF Follows
  <2> HIDE DEF g, h
  <2>2. \A i \in 1..Len(queue) : queue[i].id # g.id
    BY <1>4, <2>1, NoneOfLater
  <2> QED
    BY <1>10, <2>1, <2>2
<1> DEFINE OpenNext == /\ queue' # <<>> /\ Last(queue').id = g.id
                       /\ Last(queue').type = "MSG" /\ ~Last(queue').final
           GoesOn == (why = "none" \/ g.id = requestId) =>
                       g.part = IF OpenNext THEN Len(Last(queue').parts) + 1 ELSE 1
           Orderly == why = "none" /\ queue' # <<>> =>
                        IF Last(queue').id = g.id
                          THEN Last(queue').type = "MSG" /\ ~Last(queue').final
                          ELSE Last(queue').final
<1>13. ASSUME Begun', Coming' # <<>> /\ g.type = "MSG" => GoesOn /\ Orderly
       PROVE  LinkOK'
  <2>1. Joined'
    BY <1>1, <1>13 DEF Joined, Minds, Open
  <2>2. Accepted'
    <3> SUFFICES ASSUME why = "none", Coming' # <<>>, g.type = "MSG"
                 PROVE  /\ g.seq = NextNumber(receiveSeq')
                        /\ InOrder("MSG", Head(Coming).id)'
      BY <1>1 DEF Accepted, NextNumber
    <3>1. g.seq = NextNumber(receiveSeq')
      BY <1>11 DEF Follows
    <3>2. InOrder("MSG", Head(Coming).id)'
      BY <1>13 DEF InOrder
    <3> QED
      BY <3>1, <3>2
  <2> QED
    BY <1>8, <1>13, <2>1, <2>2 DEF LinkOK
<1>14. CASE h.kind = "A"
  <2>1. queue' = IF queue # <<>> /\ Last(queue).id = h.id THEN Front(queue) ELSE queue
    BY <1>14 DEF TakeChunk, Abort
  <2>2. /\ Len(queue') \in Nat /\ Len(queue') <= Len(queue)
        /\ \A i \in 1..Len(queue') : i \in 1..Len(queue) /\ queue'[i] = queue[i]
        /\ why = "none" /\ queue' # <<>> => Last(queue').final \/ h.type # "MSG"
    <3>1. CASE queue # <<>> /\ Last(queue).id = h.id
      <4>1. /\ queue' \in Seq(Message)
            /\ Len(queue') = Len(queue) - 1 /\ Len(queue) \in Nat \ {0}
            /\ \A i \in 1..(Len(queue) - 1) : queue'[i] = queue[i]
        BY <1>9, <2>1, <3>1, FrontProperties, LastProperties
      <4>2. ASSUME queue' # <<>>
            PROVE  Last(queue').final
        <5>1. Len(queue') \in 1..Len(queue') /\ Last(queue') = queue'[Len(queue')]
          BY <4>1, <4>2, LastProperties
        <5>2. /\ Len(queue') \in 1..Len(queue) /\ Len(queue) \in 1..Len(queue)
              /\ Len(queue') < Len(queue) /\ Last(queue') = queue[Len(queue')]
          BY <4>1, <5>1
        <5> QED
          BY <5>2 DEF OrderOK, QueueInOrder
      <4> QED
        BY <4>1, <4>2
    <3>2. CASE ~(queue # <<>> /\ Last(queue).id = h.id)
      <4>1. queue' = queue
        BY <2>1, <3>2
      <4>2. why = "none" /\ queue # <<>> /\ h.type = "MSG" => Last(queue).final
        BY <1>3, <1>7, <3>2 DEF Accepted, InOrder
      <4> QED
        BY <1>9, <4>1, <4>2
    <3> QED
      BY <3>1, <3>2
  <2>3. Begun'
    BY <1>1, <1>3, <2>2 DEF Begun, Minds
  <2>4. ASSUME Coming' # <<>>, g.type = "MSG"
        PROVE  GoesOn /\ Orderly
    <3>1. g.part = 1 /\ \A i \in 1..Len(queue) : queue[i].id # g.id
      BY <1>12, <1>14, <2>4
    <3>2. h.type = "MSG"
      BY <1>11, <2>4
    <3>3. queue' # <<>> => Last(queue').id # g.id
      <4>1. queue' \in Seq(Message)
        BY DEF ChannelTypeOK
      <4>2. queue' # <<>> => Len(queue') \in 1..Len(queue') /\ Last(queue') = queue'[Len(queue')]
        BY <4>1, LastProperties
      <4> HIDE DEF g
      <4> QED
        BY <2>2, <3>1, <4>2
    <3> HIDE DEF g, h
    <3> QED
      BY <2>2, <3>1, <3>2, <3>3
  <2> QED
    BY <1>13, <2>3, <2>4
<1>15. CASE h.kind # "A"
  <2>1. /\ InOrder(h.type, h.id) /\ queue' = Added(e, h.kind, h.part)
        /\ h.kind \in {"C", "F"}
    BY <1>10, <1>15 DEF TakeChunk, Add
  <2>0. EnteredOK(h.type, h.id)
    <3> HIDE DEF h
    <3> QED
      BY <1>9, <1>10, EnteredProperties
  <2>2. e \in Seq(Message) /\ e # <<>>
    BY <2>0 DEF EnteredOK
  <2>3. Last(e).type = h.type
    BY <2>0 DEF EnteredOK
  <2>4. Last(e).id = h.id
    BY <2>0 DEF EnteredOK
  <2>5. \A i \in 1..Len(e) : i # Len(e) => i \in 1..Len(queue) /\ e[i] = queue[i]
    <3>1. CASE Open(h.type, h.id)
      <4>1. e = queue
        BY <3>1 DEF Entered
      <4> HIDE DEF e
      <4> QED
        BY <4>1
    <3>2. CASE ~Open(h.type, h.id)
      <4>1. Len(e) = Len(queue) + 1
        BY <2>0, <3>2 DEF EnteredOK
      <4>2. \A i \in 1..Len(queue) : e[i] = queue[i]
        BY <2>0, <3>2 DEF EnteredOK
      <4> HIDE DEF e
      <4> QED
        BY <1>9, <4>1, <4>2
    <3> QED
      BY <3>1, <3>2
  <2>6. h.type = "MSG" /\ Minds(h) =>
          /\ h.part = Len(Last(e).parts) + 1
          /\ \A k \in 1..Len(Last(e).parts) : Last(e).parts[k] = k
    <3> SUFFICES ASSUME h.type = "MSG", Minds(h)
                 PROVE  /\ h.part = Len(Last(e).parts) + 1
                        /\ \A k \in 1..Len(Last(e).parts) : Last(e).parts[k] = k
      OBVIOUS
    <3>1. e = Entered("MSG", h.id)
      OBVIOUS
    <3> HIDE DEF e, h
    <3> QED
      BY <1>3, <1>4, <1>7, <3>1, EnteredBegun
  <2> HIDE DEF e, h
  <2>7. /\ queue' \in Seq(Message) /\ Len(queue') = Len(e) /\ queue' # <<>>
        /\ \A i \in 1..Len(e) : i # Len(e) => queue'[i] = e[i]
        /\ Last(queue').type = h.type /\ Last(queue').id = h.id
        /\ Last(queue').final <=> h.kind = "F"
        /\ Last(queue').parts = Append(Last(e).parts, h.part)
    <3>1. AddedOK(e, h.kind, h.part)
      BY <1>10, <2>1, <2>2, AddedProperties
    <3> QED
      BY <2>1, <2>3, <2>4, <3>1 DEF AddedOK
  <2>8. /\ Last(queue') = queue'[Len(e)] /\ Len(e) \in 1..Len(e) /\ Last(e) \in Message
    BY <2>2, <2>7, LastProperties
  <2>9. /\ Len(Last(queue').parts) = Len(Last(e).parts) + 1
        /\ \A k \in 1..Len(Last(e).parts) : Last(queue').parts[k] = Last(e).parts[k]
        /\ Last(queue').parts[Len(Last(e).parts) + 1] = h.part
        /\ Len(Last(e).parts) \in Nat
    <3>1. Last(e).parts \in Seq(Nat)
      BY <2>8 DEF Message
    <3> QED
      BY <1>10, <2>7, <3>1, AppendProperties, LenProperties
  <2>10. Begun'
    <3> SUFFICES ASSUME NEW i \in 1..Len(queue'), Minds(queue'[i])
                 PROVE  \A k \in 1..Len(queue'[i].parts) : queue'[i].parts[k] = k
      BY <1>1 DEF Begun, Minds
    <3>1. CASE i # Len(e)
      BY <1>3, <2>5, <2>7, <3>1 DEF Begun
    <3>2. CASE i = Len(e)
      <4>1. queue'[i] = Last(queue')
        BY <2>8, <3>2
      <4>2. h.type = "MSG" /\ Minds(h)
        BY <2>7, <4>1 DEF Minds
      <4> DEFINE before == Last(e).parts
                 after == Last(queue').parts
      <4>3. /\ h.part = Len(before) + 1
            /\ \A k \in 1..Len(before) : before[k] = k
        BY <2>6, <4>2
      <4>4. /\ Len(after) = Len(before) + 1 /\ Len(before) \in Nat
            /\ \A k \in 1..Len(before) : after[k] = before[k]
            /\ after[Len(before) + 1] = h.part
        BY <2>9
      <4> HIDE DEF before, after
      <4>5. ASSUME NEW k \in 1..Len(after)
            PROVE  after[k] = k
        <5>1. k \in 1..Len(before) \/ k = Len(before) + 1
          BY <4>4
        <5> QED
          BY <4>3, <4>4, <5>1
      <4>6. queue'[i].parts = after
        BY <4>1 DEF after
      <4> QED
        BY <4>5, <4>6
    <3> QED
      BY <3>1, <3>2
  <2>11. ASSUME Coming' # <<>>, g.type = "MSG"
         PROVE  GoesOn /\ Orderly
    <3>1. /\ h.type = "MSG" /\ Follows(h, g)
      BY <1>11, <2>11
    <3> HIDE DEF g
    <3>2. CASE h.kind = "C"
      <4>1. g.id = h.id /\ g.part = h.part + 1
        BY <2>11, <3>1, <3>2 DEF Follows
      <4>2. OpenNext /\ ~Last(queue').final
        BY <2>7, <3>1, <3>2, <4>1
      <4>3. Orderly
        BY <2>7, <3>1, <4>1, <4>2
      <4>4. ASSUME why = "none" \/ g.id = requestId
            PROVE  g.part = Len(Last(queue').parts) + 1
        <5>1. Minds(h)
          BY <3>1, <4>1, <4>4 DEF Minds
        <5> QED
          BY <2>6, <2>9, <3>1, <4>1, <5>1
      <4> QED
        BY <4>2, <4>3, <4>4
    <3>3. CASE h.kind = "F"
      <4>1. g.part = 1 /\ h.id # g.id
        BY <1>12, <2>11, <3>3
      <4>2. Last(queue').final /\ Last(queue').id # g.id
        BY <2>7, <3>3, <4>1
      <4> QED
        BY <4>1, <4>2
    <3> QED
      BY <2>1, <3>2, <3>3
  <2> QED
    BY <1>13, <2>10, <2>11
<1> QED
  BY <1>14, <1>15

LEMMA FailLinked ==
  ASSUME ChannelTypeOK, ChannelTypeOK', Halves, OrderOK, LinkOK, Refused,
         NEW q \in Seq(Message), QueueInOrder(q), NEW reason \in Reasons \ {"none"},
         Fail(reason, q)
  PROVE  LinkOK'
<1>1. CASE phase # "service"
  BY <1>1, DownLinked DEF Fail
<1>2. CASE phase = "service"
  <2>1. /\ Send("closing") /\ queue' = q /\ why' # "none"
        /\ stream' = SubSeq(stream, inHand \div 2 + 1, Len(stream))
        /\ UNCHANGED <<part, serverSeq, server, faults>>
    BY <1>2 DEF Fail
  <2>2. inHand \in Nat /\ stream \in Seq(Chunk) /\ Len(stream) \in Nat /\ inHand >= 2
    BY LenProperties DEF ChannelTypeOK, Refused
  <2>3. ~cut /\ phase # "down"
    BY <1>2, <2>2 DEF Halves
  <2>4. inHand \div 2 \in 0..Len(stream)
    BY <2>2 DEF Halves
  <2>5. PICK k \in 0..Len(stream) : k = inHand \div 2
    BY <2>4
  <2>6. /\ Len(stream') = Len(stream) - k
        /\ \A i \in 1..(Len(stream) - k) : stream'[i] = stream[i + k]
    BY <2>1, <2>2, <2>5, RestProperties
  <2> QED
    BY <2>1, <2>3, <2>6, SendLinked
<1> QED
  BY <1>1, <1>2

LEMMA LinkKept ==
  ASSUME ChannelTypeOK, ChannelTypeOK', Halves, OrderOK, LinkOK, ChannelNext
  PROVE  LinkOK'
<1> USE DEF channelVars, callVars, peerVars, networkVars, historyVars
<1>0. /\ queue \in Seq(Message) /\ QueueInOrder(queue) /\ Len(stream) \in Nat
      /\ 0 \in 0..Len(stream) /\ Len(stream) = Len(stream) - 0
      /\ \A i \in 1..Len(stream) : stream[i] = stream[i + 0]
  BY LenProperties DEF ChannelTypeOK, OrderOK
<1>1. ASSUME UNCHANGED <<queue, receiveSeq, requestId, todo, part, serverSeq, server,
                         stream, cut, faults, why>>,
             phase = "down" => phase' = "down"
      PROVE  LinkOK'
  <2>1. Coming' = Coming
    BY <1>1 DEF Coming, NextChunk, NextNumber
  <2> QED
    BY <1>1, <2>1 DEF LinkOK, Undisturbed, Begun, Minds, Sent, Follows, Joined, Accepted,
                      Open, InOrder, NextNumber
<1>2. ASSUME NEW next \in {"service", "closing"}, Send(next), phase # "down",
             UNCHANGED <<queue, receiveSeq, part, serverSeq, server, stream, cut, faults,
                         why>>
      PROVE  LinkOK'
  BY <1>0, <1>2, SendLinked
<1>3. CASE Request \/ Leave
  BY <1>2, <1>3 DEF Request, Leave
<1>4. CASE Timeout
  <2>1. CASE phase = "service"
    BY <1>2, <1>4, <2>1 DEF Timeout, Abandon
  <2>2. CASE phase # "service"
    BY <1>4, <2>2, DownLinked DEF Timeout, Abandon
  <2> QED
    BY <2>1, <2>2
<1>5. CASE ConnectionLost \/ GarbageFails \/ TokenTimesOut
  BY <1>5, DownLinked DEF ConnectionLost, GarbageFails, TokenTimesOut
<1>6. CASE ServerSends
  BY <1>6, SentLinked
<1>7. CASE ServerErrs
  BY <1>7, ErrLinked
<1>8. CASE Fault
  <2>1. faults' # 0
    BY <1>8 DEF Fault, ChannelTypeOK
  <2> QED
    BY <2>1 DEF LinkOK, Undisturbed
<1>9. CASE Arrive \/ EndOfChunks
  BY <1>1, <1>9 DEF Arrive, EndOfChunks
<1>10. CASE TakeChunk
  BY <1>10, TakeLinked
<1>11. CASE RefuseHeader \/ RefuseNumber
  <2>1. /\ Fail("header", queue) \/ Fail("number", queue)
        /\ "header" \in Reasons \ {"none"} /\ "number" \in Reasons \ {"none"}
    BY <1>11 DEF RefuseHeader, RefuseNumber, Reasons
  <2>2. Refused
    BY <1>11 DEF RefuseHeader, RefuseNumber
  <2> QED
    BY <1>0, <2>1, <2>2, FailLinked
<1>12. CASE RefusePayload
  <2>0. Refused /\ "limit" \in Reasons \ {"none"} /\ "order" \in Reasons \ {"none"}
    BY <1>12 DEF RefusePayload, Reasons
  <2>1. CASE InOrder(Ahead.type, Ahead.id)
    <3> DEFINE q == Entered(Ahead.type, Ahead.id)
    <3>1. inHand >= 2 /\ Fail("limit", q)
      BY <1>12, <2>1 DEF RefusePayload, Refused
    <3>2. Ahead.type \in {"MSG", "ERR"} /\ Ahead.id \in Nat
      BY <3>1, AheadProperties DEF Chunk
    <3>3. q \in Seq(Message)
      <4>1. EnteredOK(Ahead.type, Ahead.id)
        BY <1>0, <3>2, EnteredProperties
      <4> QED
        BY <4>1 DEF EnteredOK
    <3>4. QueueInOrder(q)
      BY <2>1, <3>1, EnteredOrder
    <3> HIDE DEF q
    <3> QED
      BY <2>0, <3>1, <3>3, <3>4, FailLinked
  <2>2. CASE ~InOrder(Ahead.type, Ahead.id)
    <3>1. Fail("order", queue)
      BY <1>12, <2>2 DEF RefusePayload
    <3> QED
      BY <1>0, <2>0, <3>1, FailLinked
  <2> QED
    BY <2>1, <2>2
<1>13. CASE GarbageWaits
  <2>1. cut' /\ UNCHANGED <<queue, requestId, why, faults>>
    BY <1>13 DEF GarbageWaits, Waits
  <2> QED
    BY <2>1 DEF LinkOK, Undisturbed, Begun, Minds
<1>14. CASE Deliver
  BY <1>14, DeliverLinked
<1>15. CASE PacketEnds
  <2>1. CASE received /\ phase = "closing"
    BY <1>15, <2>1, DownLinked DEF PacketEnds
  <2>2. CASE ~(received /\ phase = "closing")
    <3>1. phase # "down"
      BY <1>15 DEF PacketEnds, Messages, Calling
    <3> QED
      BY <1>1, <1>15, <2>2, <3>1 DEF PacketEnds
  <2> QED
    BY <2>1, <2>2
<1>16. CASE TouchFreed \/ Over
  BY <1>1, <1>16 DEF TouchFreed, Over, vars, Messages, Calling
<1> QED
  BY <1>3, <1>4, <1>5, <1>6, <1>7, <1>8, <1>9, <1>10, <1>11, <1>12, <1>13, <1>14,
     <1>15, <1>16
     DEF ChannelNext, Launcher, Receive, Process, Refuse, Environment

\* A reply is whole because it was begun at its first chunk.
WholeReplies == faults = 0 => \A i \in 1..Len(replies) : Whole(replies[i])

LEMMA WholeKept ==
  ASSUME ChannelTypeOK, OrderOK, Received, LinkOK, WholeReplies, ChannelNext
  PROVE  WholeReplies'
<1> USE DEF channelVars, callVars, peerVars, networkVars, historyVars
<1>1. CASE ~Deliver
  <2>1. replies' = replies /\ (faults' = 0 => faults = 0)
    <3>1. CASE Fault
      BY <3>1 DEF Fault, ChannelTypeOK
    <3>2. CASE ~Fault
      BY <1>1, <3>2
         DEF ChannelNext, Launcher, Receive, Process, Refuse, Environment, Over, vars,
             Request, Leave, Timeout, ConnectionLost, GarbageFails, TokenTimesOut,
             ServerSends, ServerErrs, Arrive, EndOfChunks, TakeChunk, RefuseHeader,
             RefuseNumber, RefusePayload, Fail, GarbageWaits, PacketEnds, TouchFreed
    <3> QED
      BY <3>1, <3>2
  <2> QED
    BY <2>1 DEF WholeReplies, Whole
<1>2. CASE Deliver
  <2>1. faults' = faults /\ queue # <<>> /\ Head(queue).final
    BY <1>2 DEF Deliver, Complete
  <2>2. CASE UNCHANGED replies
    BY <2>1, <2>2 DEF WholeReplies, Whole
  <2>3. CASE /\ Head(queue) \in Message /\ Head(queue).id = requestId
             /\ Head(queue).type = "MSG" /\ replies' = Append(replies, Head(queue))
    <3> SUFFICES ASSUME faults = 0, NEW i \in 1..Len(replies')
                 PROVE  Whole(replies'[i])
      BY <2>1 DEF WholeReplies, Whole
    <3>1. /\ Len(replies') = Len(replies) + 1 /\ Len(replies) \in Nat
          /\ \A j \in 1..Len(replies) : replies'[j] = replies[j]
          /\ replies'[Len(replies) + 1] = Head(queue)
      BY <2>3, AppendProperties, LenProperties DEF ChannelTypeOK
    <3>2. 1 \in 1..Len(queue) /\ Head(queue) = queue[1]
      BY <2>1, LastProperties DEF ChannelTypeOK
    <3>3. Whole(Head(queue))
      BY <2>1, <2>3, <3>2 DEF LinkOK, Begun, Minds, Whole
    <3>4. CASE i \in 1..Len(replies)
      BY <3>1, <3>4 DEF WholeReplies
    <3>5. CASE i = Len(replies) + 1
      BY <3>1, <3>3, <3>5
    <3> QED
      BY <3>1, <3>4, <3>5
  <2>4. \/ UNCHANGED replies
        \/ /\ Head(queue) \in Message /\ Head(queue).id = requestId
           /\ Head(queue).type = "MSG" /\ replies' = Append(replies, Head(queue))
    BY <1>2, <2>1, HeadTailProperties DEF Deliver, ChannelTypeOK
  <2> QED
    BY <2>2, <2>3, <2>4
<1> QED
  BY <1>1, <1>2

\* The chunk at the head, until the first failure, is the one that the server sent.
LEMMA AheadUnspoilt ==
  ASSUME ChannelTypeOK, Halves, OrderOK, LinkOK, Refused, faults = 0, why = "none"
  PROVE  /\ Ahead.good
         /\ Ahead.type = "MSG" => /\ Ahead.seq = NextNumber(receiveSeq)
                                  /\ InOrder("MSG", Ahead.id)
         /\ Ahead.type # "MSG" => Ahead.type = "ERR" /\ server = "gone"
<1>1. /\ stream # <<>> /\ Len(stream) \in Nat \ {0}
      /\ Ahead \in Chunk /\ Ahead = stream[1]
  BY AheadProperties DEF Refused
<1>2. Undisturbed
  BY DEF Undisturbed, Halves, Refused, Chunks, Calling, ChannelTypeOK
<1>3. ComingOK
  BY ComingProperties
<1>4. 1 \in 1..Len(stream) /\ Coming[1] = Ahead /\ 1 \in 1..Len(Coming)
  BY <1>1, <1>3 DEF ComingOK
<1>5. Coming # <<>> /\ Head(Coming) = Ahead
  <2>1. Coming # <<>>
    BY <1>4, EmptySeq
  <2> QED
    BY <2>1, <1>3, <1>4 DEF ComingOK
<1>6. Sent /\ Accepted
  BY <1>2 DEF LinkOK
<1>7. Ahead.good
  BY <1>4, <1>6 DEF Sent
<1>8. Ahead.type = "MSG" => /\ Ahead.seq = NextNumber(receiveSeq)
                            /\ InOrder("MSG", Ahead.id)
  BY <1>5, <1>6 DEF Accepted
<1>9. Ahead.type # "MSG" => Ahead.type = "ERR" /\ server = "gone"
  BY <1>1, <1>4 DEF OrderOK, StreamInOrder, Known, Chunk
<1> QED
  BY <1>7, <1>8, <1>9

\* The server's next number is taken, unless it was to wrap and does not.
LEMMA NextIsTaken ==
  ASSUME NEW n \in Numbers, n = NextNumber(receiveSeq), receiveSeq \in Numbers,
         ~CountsToTheEnd
  PROVE  NumberOK(n)
<1>1. /\ Modulus \in Nat /\ RollTo \in Nat /\ RollFrom \in Nat
      /\ RollTo < RollFrom /\ RollFrom < Modulus /\ FirstNumber \in 0..(RollTo - 1)
      /\ LastNumber \in RollFrom..(Modulus - 1)
  BY ChannelAssumption
<1>2. Successor = IF receiveSeq + 1 = Modulus THEN 0 ELSE receiveSeq + 1
  BY Wraps DEF Successor
<1>3. CASE receiveSeq # LastNumber
  BY <1>3 DEF NextNumber, NumberOK, Successor
<1>4. CASE receiveSeq = LastNumber
  <2>1. n = FirstNumber
    BY <1>4 DEF NextNumber
  <2>2. CASE LastNumber = Modulus - 1
    <3>1. Successor = 0 /\ FirstNumber = 0
      BY <1>1, <1>2, <1>4, <2>2 DEF CountsToTheEnd
    <3> QED
      BY <2>1, <3>1 DEF NumberOK
  <2>3. CASE LastNumber # Modulus - 1
    <3>1. Successor > RollFrom /\ n < RollTo
      BY <1>1, <1>2, <1>4, <2>1, <2>3
    <3> QED
      BY <3>1 DEF NumberOK, StartsAgain
  <2> QED
    BY <2>2, <2>3
<1> QED
  BY <1>3, <1>4

LEMMA RefusalsKept ==
  ASSUME ChannelTypeOK, Halves, OrderOK, LinkOK, RefusesOnlySpoilt, ChannelNext
  PROVE  RefusesOnlySpoilt'
<1> USE DEF channelVars, callVars, peerVars, networkVars, historyVars
<1>1. (faults > 0 => faults' > 0) /\ (server = "gone" => server' = "gone")
  <2>1. CASE Fault
    BY <2>1 DEF Fault, ChannelTypeOK
  <2>2. CASE ServerErrs
    BY <2>2 DEF ServerErrs
  <2>3. CASE ~Fault /\ ~ServerErrs
    BY <2>3
       DEF ChannelNext, Launcher, Receive, Process, Refuse, Environment, Over, vars,
           Request, Leave, Timeout, ConnectionLost, GarbageFails, TokenTimesOut,
           ServerSends, Arrive, EndOfChunks, TakeChunk, RefuseHeader, RefuseNumber,
           RefusePayload, Fail, GarbageWaits, PacketEnds, TouchFreed, Deliver
  <2> QED
    BY <2>1, <2>2, <2>3
<1>2. CASE why' = why
  BY <1>1, <1>2 DEF RefusesOnlySpoilt, CountsToTheEnd
<1>3. CASE why' # why
  <2>1. CASE TokenTimesOut
    <3>1. why' = "token"
      BY <1>3, <2>1 DEF TokenTimesOut
    <3> QED
      BY <3>1 DEF RefusesOnlySpoilt
  <2>2. CASE RefuseHeader \/ RefuseNumber \/ RefusePayload
    <3>1. Refused /\ why = "none" /\ UNCHANGED <<faults, server>>
      BY <1>3, <2>2 DEF RefuseHeader, RefuseNumber, RefusePayload, Fail
    <3>2. faults > 0 \/ faults = 0
      BY DEF ChannelTypeOK
    <3>3. Ahead \in Chunk
      BY <3>1, AheadProperties DEF Refused
    <3>4. CASE RefuseHeader
      <4>1. why' = "header"
        BY <1>3, <3>4 DEF RefuseHeader, Fail
      <4>2. faults > 0
        BY <3>1, <3>2, <3>4, AheadUnspoilt DEF RefuseHeader
      <4> QED
        BY <3>1, <4>1, <4>2 DEF RefusesOnlySpoilt
    <3>5. CASE RefuseNumber
      <4>1. why' = "number"
        BY <1>3, <3>5 DEF RefuseNumber, Fail
      <4>2. faults > 0 \/ CountsToTheEnd
        <5>1. Ahead.seq \in Numbers /\ receiveSeq \in Numbers
          BY <3>3 DEF Chunk, ChannelTypeOK
        <5> QED
          BY <3>1, <3>2, <3>5, <5>1, AheadUnspoilt, NextIsTaken DEF RefuseNumber
      <4> QED
        BY <3>1, <4>1, <4>2 DEF RefusesOnlySpoilt, CountsToTheEnd
    <3>6. CASE RefusePayload
      <4>1. CASE InOrder(Ahead.type, Ahead.id)
        <5>1. why' = "limit"
          BY <1>3, <3>6, <4>1 DEF RefusePayload, Fail
        <5> QED
          BY <5>1 DEF RefusesOnlySpoilt
      <4>2. CASE ~InOrder(Ahead.type, Ahead.id)
        <5>1. why' = "order"
          BY <1>3, <3>6, <4>2 DEF RefusePayload, Fail
        <5>2. faults > 0 \/ server = "gone"
          BY <3>1, <3>2, <4>2, AheadUnspoilt
        <5> QED
          BY <3>1, <5>1, <5>2 DEF RefusesOnlySpoilt
      <4> QED
        BY <4>1, <4>2
    <3> QED
      BY <2>2, <3>4, <3>5, <3>6
  <2> QED
    BY <1>3, <2>1, <2>2
       DEF ChannelNext, Launcher, Receive, Process, Refuse, Environment, Over, vars,
           Request, Leave, Timeout, ConnectionLost, GarbageFails, ServerSends,
           ServerErrs, Fault, Arrive, EndOfChunks, TakeChunk, GarbageWaits, PacketEnds,
           TouchFreed, Deliver
<1> QED
  BY <1>2, <1>3

\* Bytes go with the packet over which the last service fails; CloseSession goes on
\* over the queue that they leave, until they are copied, delivered or the end.
LEMMA FreedKept ==
  ASSUME ChannelTypeOK, Freed, ChannelNext
  PROVE  Freed'
<1> USE DEF channelVars, bufferVars, callVars, peerVars, networkVars, historyVars, Freed,
            FreedOnlyWhileClosing
<1>1. ASSUME GoDown
      PROVE  Freed'
  BY <1>1 DEF GoDown
<1>2. ASSUME NEW reason \in ErrorsAmid, NEW q, Fail(reason, q)
      PROVE  Freed'
  <2>1. CASE phase = "service"
    BY <1>2, <2>1 DEF Fail, Send, ErrorsAmid
  <2>2. CASE phase # "service"
    BY <1>1, <1>2, <2>2 DEF Fail
  <2> QED
    BY <2>1, <2>2
<1>3. CASE Request \/ Leave
  BY <1>3 DEF Request, Leave, Send
<1>4. CASE Timeout
  BY <1>1, <1>4 DEF Timeout, Abandon, Send
<1>5. CASE ConnectionLost \/ GarbageFails \/ TokenTimesOut
  BY <1>1, <1>5 DEF ConnectionLost, GarbageFails, TokenTimesOut
<1>6. CASE RefuseHeader \/ RefuseNumber \/ RefusePayload
  BY <1>2, <1>6 DEF RefuseHeader, RefuseNumber, RefusePayload, ErrorsAmid
<1>7. CASE \/ ServerSends \/ ServerErrs \/ Fault \/ Arrive \/ EndOfChunks
           \/ GarbageWaits \/ Over
  BY <1>7 DEF ServerSends, ServerErrs, Fault, Arrive, EndOfChunks, GarbageWaits, Over,
              vars
<1>8. CASE TakeChunk \/ Deliver
  <2>1. freed' \subseteq freed /\ UNCHANGED <<phase, why>>
    BY <1>8 DEF TakeChunk, Abort, Add, Deliver, Release
  <2> QED
    BY <2>1
<1>9. CASE PacketEnds
  <2>1. CASE received /\ phase = "closing"
    BY <1>1, <1>9, <2>1 DEF PacketEnds
  <2>2. CASE ~(received /\ phase = "closing")
    BY <1>9, <2>2 DEF PacketEnds, Messages, Calling
  <2> QED
    BY <2>1, <2>2
<1>10. CASE TouchFreed
  BY <1>10 DEF TouchFreed, Complete
<1> QED
  BY <1>3, <1>4, <1>5, <1>6, <1>7, <1>8, <1>9, <1>10
     DEF ChannelNext, Launcher, Receive, Process, Refuse, Environment

----------------------------------------------------------------------------
(* The invariant and what follows from it.                                 *)

LEMMA InitInv == ChannelInit => ChannelInv
<1> SUFFICES ASSUME ChannelInit PROVE ChannelInv
  OBVIOUS
<1>1. /\ <<>> \in Seq(Message) /\ <<>> \in Seq(Nat) /\ <<>> \in Seq(Chunk)
      /\ Len(<<>>) = 0
  OBVIOUS
<1>2. receiveSeq \in Numbers /\ serverSeq = receiveSeq
  BY ChannelAssumption DEF ChannelInit, Numbers
<1>3. ChannelTypeOK
  BY <1>1, <1>2 DEF ChannelInit, ChannelTypeOK, Reasons
<1>4. Halves /\ Freed
  BY <1>1 DEF ChannelInit, Halves, Freed, FreedOnlyWhileClosing
<1>5. TodoInOrder /\ StreamInOrder /\ QueueInOrder(queue)
  BY <1>1 DEF ChannelInit, TodoInOrder, StreamInOrder, QueueInOrder
<1>6. Received
  BY DEF ChannelInit, Received
<1>7. Sent /\ Joined /\ Accepted
  <2>1. NextChunkOK /\ ComingOK
    BY <1>3, NextChunkType, ComingProperties
  <2>2. /\ Len(Coming) = 1 /\ Coming[1] = NextChunk
        /\ Coming # <<>> => Head(Coming) = NextChunk
    BY <1>1, <2>1 DEF ComingOK, ChannelInit
  <2>3. Sent
    BY <2>1, <2>2 DEF Sent, NextChunkOK, ChannelInit
  <2>4. Joined
    BY <2>1, <2>2 DEF Joined, NextChunkOK, Open, ChannelInit
  <2>5. Accepted
    BY <1>2, <2>1, <2>2 DEF Accepted, NextChunkOK, InOrder, ChannelInit
  <2> QED
    BY <2>3, <2>4, <2>5
<1>8. Begun /\ \A i \in 1..Len(replies) : Whole(replies[i])
  BY <1>1 DEF ChannelInit, Begun
<1>9. RefusesOnlySpoilt
  BY DEF ChannelInit, RefusesOnlySpoilt
<1> QED
  BY <1>3, <1>4, <1>5, <1>6, <1>7, <1>8, <1>9 DEF ChannelInv

LEMMA NextInv == ChannelInv /\ [ChannelNext]_vars => ChannelInv'
<1> SUFFICES ASSUME ChannelInv, [ChannelNext]_vars PROVE ChannelInv'
  OBVIOUS
<1>1. /\ ChannelTypeOK /\ Halves /\ Freed /\ OrderOK /\ Received /\ LinkOK
      /\ WholeReplies /\ RefusesOnlySpoilt
  BY DEF ChannelInv, OrderOK, LinkOK, WholeReplies
<1>2. CASE ChannelNext
  <2>1. ChannelTypeOK' /\ Halves' /\ Freed'
    BY <1>1, <1>2, TypeKept, FreedKept
  <2>2. OrderOK'
    BY <1>1, <1>2, <2>1, OrderKept
  <2>3. Received'
    BY <1>1, <1>2, ReceivedKept
  <2>4. LinkOK'
    BY <1>1, <1>2, <2>1, LinkKept
  <2>5. WholeReplies' /\ RefusesOnlySpoilt'
    BY <1>1, <1>2, WholeKept, RefusalsKept
  <2> QED
    BY <2>1, <2>2, <2>3, <2>4, <2>5 DEF ChannelInv, OrderOK, LinkOK, WholeReplies
<1>3. CASE UNCHANGED vars
  <2> USE DEF vars, channelVars, bufferVars, callVars, peerVars, networkVars, historyVars
  <2>1. /\ ChannelTypeOK' /\ Halves' /\ Freed' /\ TodoInOrder'
        /\ RefusesOnlySpoilt'
    BY <1>1, <1>3
       DEF ChannelTypeOK, Halves, Freed, FreedOnlyWhileClosing, TodoInOrder, OrderOK,
           RefusesOnlySpoilt, CountsToTheEnd
  <2>2. StreamInOrder' /\ QueueInOrder(queue)'
    BY <1>1, <1>3 DEF StreamInOrder, QueueInOrder, Known, Before, OrderOK
  <2>3. Received'
    BY <1>1, <1>3 DEF Received, Calling
  <2>4. Coming' = Coming
    BY <1>3 DEF Coming, NextChunk, NextNumber
  <2>5. LinkOK'
    BY <1>1, <1>3, <2>4
       DEF LinkOK, Undisturbed, Begun, Minds, Sent, Follows, Joined, Accepted, Open,
           InOrder, NextNumber
  <2>6. WholeReplies'
    BY <1>1, <1>3 DEF WholeReplies, Whole
  <2> QED
    BY <2>1, <2>2, <2>3, <2>5, <2>6 DEF ChannelInv, OrderOK, LinkOK, WholeReplies
<1> QED
  BY <1>2, <1>3

\* What the channel and the call keep between any two steps, whatever the sizes.
THEOREM ChannelInvariance == ChannelSpec => []ChannelInv
<1> QED
  BY InitInv, NextInv, PTL DEF ChannelSpec

\* No step takes the channel, the call or the numbers out of their ranges.
THEOREM ChannelTypeCorrect == ChannelSpec => []ChannelTypeOK
<1>1. ChannelInv => ChannelTypeOK
  BY DEF ChannelInv
<1> QED
  BY <1>1, ChannelInvariance, PTL

\* A call that returns normally has taken the reply to its own request.
THEOREM RepliesAreOwn == ChannelSpec => []ReturnsReply
<1>1. ChannelInv => ReturnsReply
  BY DEF ChannelInv, Received, ReturnsReply
<1> QED
  BY <1>1, ChannelInvariance, PTL

\* A chunk as the server sent it is never refused for its header, its number or its
\* place among the others, but at the end of the numbers and behind an ERR.
THEOREM OnlySpoiltRefused == ChannelSpec => []RefusesOnlySpoilt
<1>1. ChannelInv => RefusesOnlySpoilt
  BY DEF ChannelInv
<1> QED
  BY <1>1, ChannelInvariance, PTL

\* No call but CloseSession meets messages whose bytes went with a packet, and the
\* process dies of nothing else.
THEOREM OnlyClosingMeetsFreed == ChannelSpec => []FreedOnlyWhileClosing
<1>1. ChannelInv => FreedOnlyWhileClosing
  BY DEF ChannelInv, Freed
<1> QED
  BY <1>1, ChannelInvariance, PTL

\* Where nothing is spoilt, whole replies are taken, wherever the packets ended, the
\* limits struck and the numbers started again.
THEOREM UnspoiltRepliesWhole == ChannelSpec => [](faults = 0 => RepliesWhole)
<1>1. ChannelInv => (faults = 0 => RepliesWhole)
  BY DEF ChannelInv, RepliesWhole
<1> QED
  BY <1>1, ChannelInvariance, PTL

\* The channel gives its caller what RequestReply says: a reply at most once, and
\* only to the last request.
THEOREM ChannelImplements == ChannelSpec => RepliesKept
<1>1. ChannelInit => Calls!ReplyInit
  <2> SUFFICES ASSUME ChannelInit PROVE Calls!ReplyInit
    OBVIOUS
  <2>1. replies = <<>> /\ Len(<<>>) = 0 /\ requestId = 0 /\ phase = "idle"
    BY DEF ChannelInit
  <2>2. (Calling /\ ~received) = FALSE
    BY <2>1 DEF Calling
  <2>3. [i \in 1..Len(replies) |-> replies[i].id] = <<>>
    BY <2>1
  <2> QED
    BY <2>1, <2>2, <2>3 DEF Calls!ReplyInit
<1>2. ChannelInv /\ [ChannelNext]_vars => [Calls!ReplyNext]_(Calls!replyVars)
  BY StepImplements DEF ChannelInv, OrderOK
<1> QED
  BY <1>1, <1>2, ChannelInvariance, PTL DEF ChannelSpec, RepliesKept, Calls!ReplySpec

----------------------------------------------------------------------------
(* Faults.  The number of a chunk gives its place among all chunks that    *)
(* the server has sent, so that a chunk whose number is the next one is    *)
(* the next chunk, whatever was lost before it.                            *)

\* The numbers in the order in which a server passes them: those behind LastNumber,
\* where only the first can be, and the ones that come round again.
Place(s) ==
  IF s > LastNumber THEN s - LastNumber - 1 ELSE s + Modulus - LastNumber - 1
Turn == LastNumber - FirstNumber + 1

\* The place of the k-th number after the one at place p.
Nth(p, k) == IF p + k < Modulus THEN p + k ELSE p + k - Turn

LEMMA Constants ==
  /\ Modulus \in Nat /\ LastNumber \in Nat /\ FirstNumber \in Nat /\ Turn \in Nat
  /\ FirstNumber <= LastNumber /\ LastNumber < Modulus /\ Modulus > 1
  /\ MaxRequests \in Nat /\ MaxParts \in Nat \ {0}
BY ChannelAssumption DEF Turn

LEMMA PlaceType ==
  ASSUME NEW s \in Numbers
  PROVE  Place(s) \in 0..(Modulus - 1)
BY Constants DEF Place, Numbers

LEMMA NextPlace ==
  ASSUME NEW s \in Numbers, NEW p \in 0..(Modulus - 1), NEW k \in 0..(Turn - 1),
         Place(s) = Nth(p, k)
  PROVE  Place(NextNumber(s)) = Nth(p, k + 1)
<1>1. (s + 1) % Modulus = IF s + 1 = Modulus THEN 0 ELSE s + 1
  BY Wraps
<1>2. Place(NextNumber(s)) =
        IF Place(s) = Modulus - 1 THEN Modulus - Turn ELSE Place(s) + 1
  BY <1>1, Constants DEF Place, NextNumber, Turn, Numbers
<1> QED
  BY <1>2, Constants DEF Nth, Turn

\* If no turn is full, a number that is one higher is the next one.
LEMMA PlaceSucceeds ==
  ASSUME NEW s \in Numbers, NEW t \in Numbers, NEW p \in 0..(Modulus - 1),
         NEW k \in 0..(Turn - 1), NEW l \in 0..k,
         Place(s) = Nth(p, l), Place(t) = Nth(p, k), t = (s + 1) % Modulus
  PROVE  k = l + 1
<1>1. (s + 1) % Modulus = IF s + 1 = Modulus THEN 0 ELSE s + 1
  BY Wraps
<1>2. Place(t) = IF Place(s) = Modulus - 1 THEN 0 ELSE Place(s) + 1
  BY <1>1, Constants DEF Place, Numbers
<1> QED
  BY <1>2, Constants DEF Nth, Turn

----------------------------------------------------------------------------

\* The request that is being answered or, if there is none, the next one.
Current == IF todo = <<>> THEN requestId + 1 ELSE Head(todo)

Counts ==
  /\ requestId <= MaxRequests + 1
  /\ phase \in {"idle", "service"} => requestId <= MaxRequests
  /\ part < MaxParts
  /\ phase # "down" /\ todo = <<>> => part = 0

\* B[i] chunks were sent before the answer to request i, and L up to the last one that
\* was taken; p is the place of the number of the OPN response.
Sum(B) == B[Current] + part
Rank(B, c) == B[c.id] + c.part

ServerCounts(p, B) ==
  /\ Place(serverSeq) = Nth(p, Sum(B))
  /\ \A i \in Nat : i > Current => B[i] = Sum(B)
  /\ B[Current] <= (Current - 1) * MaxParts

ChunkCounts(p, B, c) ==
  c.type = "MSG" =>
    /\ c.part > 0 /\ Place(c.seq) = Nth(p, Rank(B, c))
    /\ \A i \in Nat : i > c.id => Rank(B, c) <= B[i]
    /\ c.kind # "C" => c.id < Current /\ B[c.id + 1] = Rank(B, c)

StreamCounts(p, B) ==
  /\ \A i \in 1..Len(stream) : ChunkCounts(p, B, stream[i])
  /\ \A i, j \in 1..Len(stream) :
       i <= j /\ stream[i].type = "MSG" /\ stream[j].type = "MSG"
         => Rank(B, stream[i]) <= Rank(B, stream[j])

TakenCounts(p, B, L) ==
  /\ Place(receiveSeq) = Nth(p, L)
  /\ L <= Sum(B)
  /\ \A i \in 1..Len(stream) : stream[i].type = "MSG" => L <= Rank(B, stream[i])

\* The message of the last request has its first chunks, as many as were taken; if it
\* is not begun, none was taken or all that there are.
OwnMessage(B, L) ==
  /\ \A i \in 1..Len(queue) : queue[i].type = "MSG" /\ queue[i].id = requestId =>
       \A k \in 1..Len(queue[i].parts) : queue[i].parts[k] = k
  /\ IF Open("MSG", requestId)
       THEN requestId <= Current /\ L = B[requestId] + Len(Last(queue).parts)
       ELSE \/ L <= B[requestId]
            \/ requestId < Current /\ L >= B[requestId + 1]

Tally(p, B, L) ==
  /\ p \in 0..(Modulus - 1) /\ B \in [Nat -> Nat] /\ L \in Nat
  /\ ServerCounts(p, B) /\ StreamCounts(p, B) /\ TakenCounts(p, B, L)

\* There are such counts as long as the numbers have not started again.
Numbered ==
  \E p \in 0..(Modulus - 1), B \in [Nat -> Nat], L \in Nat :
    Tally(p, B, L) /\ OwnMessage(B, L)

LossInv ==
  /\ Counts
  /\ ~rolled => /\ \A i \in 1..Len(replies) : Whole(replies[i])
                /\ phase # "down" => Numbered

----------------------------------------------------------------------------

LEMMA CurrentType ==
  ASSUME ChannelTypeOK, TodoInOrder
  PROVE  /\ Current \in 1..(requestId + 1) /\ requestId \in Nat /\ part \in Nat
         /\ todo # <<>> => Current <= requestId
         /\ todo = <<>> => Current = requestId + 1
         /\ \A m : Known(m) /\ m.type = "MSG" => m.id \in 1..Current /\ m.id <= requestId
<1>1. requestId \in Nat /\ todo \in Seq(Nat) /\ part \in Nat
  BY DEF ChannelTypeOK
<1>2. CASE todo = <<>>
  BY <1>1, <1>2 DEF Current, Known
<1>3. CASE todo # <<>>
  <2>1. 1 \in 1..Len(todo) /\ Head(todo) = todo[1]
    BY <1>1, <1>3, LastProperties
  <2>2. todo[1] \in 1..requestId
    BY <2>1 DEF TodoInOrder
  <2> QED
    BY <1>1, <1>3, <2>1, <2>2 DEF Current, Known
<1> QED
  BY <1>2, <1>3

\* Requests may be added to those that are there.
LEMMA CurrentSame ==
  ASSUME ChannelTypeOK,
         \/ UNCHANGED <<todo, requestId>>
         \/ \E next \in {"service", "closing"} : Send(next)
  PROVE  Current' = Current
<1>1. CASE UNCHANGED <<todo, requestId>>
  BY <1>1 DEF Current
<1>2. CASE \E next \in {"service", "closing"} : Send(next)
  <2>1. todo' = Append(todo, requestId + 1) /\ requestId' = requestId + 1
    BY <1>2 DEF Send
  <2>2. requestId \in Nat /\ todo \in Seq(Nat)
    BY DEF ChannelTypeOK
  <2>3. Append(todo, requestId + 1) # <<>>
    BY <2>2, AppendProperties
  <2>4. Head(Append(todo, requestId + 1)) =
          IF todo = <<>> THEN requestId + 1 ELSE Head(todo)
    BY <2>2, HeadTailAppend, AppendProperties
  <2> QED
    BY <2>1, <2>3, <2>4 DEF Current
<1> QED
  BY <1>1, <1>2

LEMMA Multiples ==
  ASSUME NEW a \in Nat, NEW b \in Nat, a <= b
  PROVE  /\ a * MaxParts <= b * MaxParts
         /\ (a + 1) * MaxParts = a * MaxParts + MaxParts
         /\ a * MaxParts \in Nat
<1>1. MaxParts \in Nat
  BY Constants
<1> QED
  BY <1>1

\* So many chunks as there are numbers are never sent.
LEMMA SumBounded ==
  ASSUME ChannelTypeOK, TodoInOrder, Counts, phase # "down", NumbersSuffice,
         NEW p, NEW B \in [Nat -> Nat], ServerCounts(p, B)
  PROVE  Sum(B) \in 0..(Turn - 1)
<1>1. /\ Current \in 1..(requestId + 1) /\ requestId \in Nat /\ part \in Nat
      /\ todo # <<>> => Current <= requestId
      /\ todo = <<>> => Current = requestId + 1
  BY CurrentType
<1>2. /\ MaxRequests \in Nat /\ MaxParts \in Nat \ {0} /\ Turn \in Nat
      /\ (MaxRequests + 1) * MaxParts < Turn
  BY Constants DEF NumbersSuffice, Turn
<1>3. B[Current] \in Nat /\ B[Current] <= (Current - 1) * MaxParts
  BY <1>1 DEF ServerCounts
<1>4. PICK n \in Nat : n = Current - 1
  BY <1>1
<1>5. B[Current] <= n * MaxParts /\ n <= MaxRequests + 1
  <2>1. B[Current] <= n * MaxParts
    BY <1>3, <1>4, Zenon
  <2>2. requestId <= MaxRequests + 1
    BY DEF Counts
  <2> QED
    BY <1>1, <1>2, <1>4, <2>1, <2>2
<1>6. CASE todo = <<>>
  <2>1. part = 0
    BY <1>6 DEF Counts
  <2>2. n * MaxParts <= (MaxRequests + 1) * MaxParts /\ n * MaxParts \in Nat
    BY <1>2, <1>5, Multiples
  <2> QED
    BY <1>2, <1>3, <1>5, <2>1, <2>2, Multiples DEF Sum
<1>7. CASE todo # <<>>
  <2>1. part < MaxParts /\ requestId <= MaxRequests + 1
    BY DEF Counts
  <2>4. n + 1 <= MaxRequests + 1
    BY <1>1, <1>2, <1>4, <1>7, <2>1
  <2>2. (n + 1) * MaxParts <= (MaxRequests + 1) * MaxParts
    BY <1>2, <2>4, Multiples
  <2>3. (n + 1) * MaxParts = n * MaxParts + MaxParts /\ n * MaxParts \in Nat
    BY Multiples
  <2> QED
    <3>1. PICK x \in Nat : x = n * MaxParts
      BY <2>3
    <3>2. PICK y \in Int : y = (MaxRequests + 1) * MaxParts
      BY <1>2
    <3>3. B[Current] <= x /\ x + MaxParts <= y /\ y < Turn
      BY <1>2, <1>5, <2>2, <2>3, <3>1, <3>2, Zenon
    <3>4. B[Current] \in Nat /\ part \in Nat /\ MaxParts \in Nat /\ Turn \in Nat
      BY <1>1, <1>2, <1>3
    <3> QED
      BY <2>1, <3>3, <3>4 DEF Sum
<1> QED
  BY <1>6, <1>7

----------------------------------------------------------------------------

\* The tally stands if chunks are lost, repeated, spoilt, taken or dropped.
LEMMA TallyThins ==
  ASSUME NEW p, NEW B, NEW L, Tally(p, B, L), Current' = Current,
         UNCHANGED <<part, serverSeq>>, Thinned(stream', stream),
         NEW l \in Nat, TakenCounts(p, B, l)'
  PROVE  Tally(p, B, l)'
<1>1. Sum(B)' = Sum(B)
  BY DEF Sum
<1>2. ServerCounts(p, B)'
  BY <1>1 DEF ServerCounts, Tally
<1>3. \A c, d : Alike(c, d) => Rank(B, c) = Rank(B, d)
  BY DEF Alike, Rank
<1>4. \A c, d : Alike(c, d) /\ ChunkCounts(p, B, d) => ChunkCounts(p, B, c)'
  BY <1>3 DEF ChunkCounts, Alike
<1>5. \A i \in 1..Len(stream) : ChunkCounts(p, B, stream[i])
  BY DEF Tally, StreamCounts
<1>6. \A i \in 1..Len(stream') : \E a \in 1..Len(stream) : Alike(stream'[i], stream[a])
  <2> TAKE i \in 1..Len(stream')
  <2>1. i <= i
    OBVIOUS
  <2> QED
    BY <2>1 DEF Thinned
<1>7. \A i \in 1..Len(stream') : ChunkCounts(p, B, stream[i])'
  <2> TAKE i \in 1..Len(stream')
  <2>1. PICK a \in 1..Len(stream) : Alike(stream'[i], stream[a])
    BY <1>6
  <2> QED
    BY <1>4, <1>5, <2>1
<1>8. ASSUME NEW i \in 1..Len(stream'), NEW j \in 1..Len(stream'), i <= j,
             stream'[i].type = "MSG", stream'[j].type = "MSG"
      PROVE  Rank(B, stream'[i]) <= Rank(B, stream'[j])
  <2>1. PICK a \in 1..Len(stream), b \in 1..Len(stream) :
          a <= b /\ Alike(stream'[i], stream[a]) /\ Alike(stream'[j], stream[b])
    BY <1>8 DEF Thinned
  <2>2. Rank(B, stream[a]) <= Rank(B, stream[b])
    BY <1>8, <2>1 DEF Tally, StreamCounts, Alike
  <2> QED
    BY <1>3, <2>1, <2>2
<1>9. StreamCounts(p, B)'
  BY <1>7, <1>8 DEF StreamCounts
<1> QED
  BY <1>2, <1>9 DEF Tally

LEMMA TallyKept ==
  ASSUME NEW p, NEW B, NEW L, Tally(p, B, L), Current' = Current,
         UNCHANGED <<part, serverSeq, receiveSeq>>, Thinned(stream', stream)
  PROVE  Tally(p, B, L)'
<1>1. Sum(B)' = Sum(B)
  BY DEF Sum
<1>2. ASSUME NEW i \in 1..Len(stream'), stream'[i].type = "MSG"
      PROVE  L <= Rank(B, stream'[i])
  <2>1. i <= i
    OBVIOUS
  <2>2. PICK a \in 1..Len(stream) : Alike(stream'[i], stream[a])
    BY <2>1 DEF Thinned
  <2>3. L <= Rank(B, stream[a])
    BY <1>2, <2>2 DEF Tally, TakenCounts, Alike
  <2> QED
    BY <2>2, <2>3 DEF Alike, Rank
<1>3. TakenCounts(p, B, L)'
  BY <1>1, <1>2 DEF TakenCounts, Tally
<1> QED
  BY <1>3, TallyThins DEF Tally

LEMMA SumType ==
  ASSUME ChannelTypeOK, TodoInOrder, NEW p, NEW B, NEW L, Tally(p, B, L)
  PROVE  /\ Sum(B) \in Nat /\ B[Current] \in Nat /\ Sum(B) = B[Current] + part
         /\ Current \in Nat /\ part \in Nat /\ requestId \in Nat
<1>1. Current \in Nat /\ part \in Nat /\ requestId \in Nat
  BY CurrentType
<1>2. B[Current] \in Nat
  BY <1>1 DEF Tally
<1> QED
  BY <1>1, <1>2 DEF Sum

\* A chunk on its way is one of those that the server has counted.
LEMMA RankBounded ==
  ASSUME ChannelTypeOK, TodoInOrder, StreamInOrder, NEW p, NEW B, NEW L, Tally(p, B, L),
         NEW i \in 1..Len(stream), stream[i].type = "MSG"
  PROVE  /\ Rank(B, stream[i]) \in Nat /\ L <= Rank(B, stream[i])
         /\ Rank(B, stream[i]) <= Sum(B)
         /\ stream[i].id \in 1..Current /\ stream[i].id <= requestId
<1>1. stream[i] \in Chunk /\ Known(stream[i])
  BY ElementOfSeq DEF ChannelTypeOK, StreamInOrder
<1>2. stream[i].id \in 1..Current /\ stream[i].id <= requestId
  BY <1>1, CurrentType
<1>3. /\ stream[i].part \in Nat /\ B[stream[i].id] \in Nat
      /\ Rank(B, stream[i]) = B[stream[i].id] + stream[i].part
  BY <1>1, <1>2, CurrentType DEF Chunk, Tally, Rank
<1>4. L <= Rank(B, stream[i])
  BY DEF Tally, TakenCounts
<1>5. \A k \in Nat : k > stream[i].id => Rank(B, stream[i]) <= B[k]
  BY DEF Tally, StreamCounts, ChunkCounts
<1>6. /\ Current \in Nat /\ Current + 1 \in Nat /\ Current + 1 > Current
      /\ Current + 1 > stream[i].id
  BY <1>2, CurrentType
<1>7. B[Current + 1] = Sum(B)
  BY <1>6 DEF Tally, ServerCounts
<1> QED
  BY <1>2, <1>3, <1>4, <1>5, <1>6, <1>7

LEMMA OwnKept ==
  ASSUME NEW B, NEW L, OwnMessage(B, L), Current' = Current,
         UNCHANGED <<queue, requestId>>
  PROVE  OwnMessage(B, L)'
BY DEF OwnMessage, Open

\* A new request has no message yet, and nothing of its answer was taken.
LEMMA OwnBegins ==
  ASSUME ChannelTypeOK, TodoInOrder, Counts, phase # "down",
         NEW p, NEW B, NEW L, Tally(p, B, L), NEW l \in Nat, l <= Sum(B),
         NEW next \in {"service", "closing"}, Send(next),
         NEW q \in Seq(Message), QueueInOrder(q), queue' = q
  PROVE  OwnMessage(B, l)'
<1>1. requestId' = requestId + 1 /\ requestId \in Nat
  BY SendType DEF ChannelTypeOK
<1>2. \A i \in 1..Len(q) : q[i].id # requestId + 1
  BY NotAnswered
<1>3. ~Open("MSG", requestId)'
  <2>1. CASE q = <<>>
    BY <2>1 DEF Open
  <2>2. CASE q # <<>>
    <3>1. Last(q) = q[Len(q)] /\ Len(q) \in 1..Len(q)
      BY <2>2, LastProperties
    <3> QED
      BY <1>1, <1>2, <3>1 DEF Open
  <2> QED
    BY <2>1, <2>2
<1>4. l <= B[requestId + 1]
  <2>1. /\ Current \in 1..(requestId + 1) /\ part \in Nat
        /\ todo # <<>> => Current <= requestId
        /\ todo = <<>> => Current = requestId + 1
    BY CurrentType
  <2>2. CASE todo = <<>>
    <3>1. part = 0 /\ Sum(B) = B[Current] /\ Current = requestId + 1
      BY <2>1, <2>2, SumType DEF Counts
    <3> QED
      BY <3>1
  <2>3. CASE todo # <<>>
    <3>1. requestId + 1 \in Nat /\ requestId + 1 > Current
      BY <1>1, <2>1, <2>3
    <3> QED
      BY <3>1 DEF Tally, ServerCounts
  <2> QED
    BY <2>2, <2>3
<1> QED
  BY <1>1, <1>2, <1>3, <1>4 DEF OwnMessage

----------------------------------------------------------------------------

\* The server goes on to the next request when it has answered the first.
LEMMA CurrentMoves ==
  ASSUME ChannelTypeOK, TodoInOrder, ServerSends
  PROVE  /\ Current = Head(todo) /\ Current \in 1..requestId /\ requestId \in Nat
         /\ \E new \in Nat : /\ new = Current' /\ Current <= new
                             /\ todo' = todo => new = Current
                             /\ todo' = Tail(todo) => Current < new
<1>1. /\ todo \in Seq(Nat) /\ todo # <<>> /\ requestId \in Nat /\ requestId' = requestId
      /\ todo' = todo \/ todo' = Tail(todo)
  BY DEF ServerSends, ChannelTypeOK, callVars
<1>2. Current = Head(todo) /\ Current \in 1..requestId
  BY <1>1, CurrentType DEF Current
<1>3. CASE todo' = todo
  <2>1. Current' = Current
    BY <1>1, <1>3 DEF Current
  <2>2. todo # Tail(todo)
    <3>1. Len(Tail(todo)) = Len(todo) - 1 /\ Len(todo) \in Nat
      BY <1>1, HeadTailProperties, LenProperties
    <3> QED
      BY <3>1
  <2>3. Current \in Nat /\ Current <= Current
    BY <1>1, <1>2
  <2>4. todo' # Tail(todo)
    BY <1>3, <2>2
  <2> QED
    BY <1>1, <1>2, <2>1, <2>3, <2>4, Zenon
<1>4. CASE todo' = Tail(todo) /\ todo' # todo
  <2>1. /\ Tail(todo) \in Seq(Nat) /\ Len(Tail(todo)) = Len(todo) - 1
        /\ \A i \in 1..Len(Tail(todo)) : Tail(todo)[i] = todo[i + 1]
        /\ Head(todo) = todo[1] /\ Len(todo) \in Nat \ {0}
    BY <1>1, HeadTailProperties, LastProperties, LenProperties
  <2>2. CASE Tail(todo) = <<>>
    <3>1. Current' = requestId + 1
      BY <1>1, <1>4, <2>2 DEF Current
    <3>2. requestId + 1 \in Nat /\ Current <= requestId + 1 /\ Current < requestId + 1
      BY <1>1, <1>2
    <3> QED
      BY <1>1, <1>2, <1>4, <3>1, <3>2, Zenon
  <2>3. CASE Tail(todo) # <<>>
    <3>1. 1 \in 1..Len(Tail(todo)) /\ Head(Tail(todo)) = Tail(todo)[1]
      BY <2>1, <2>3, LastProperties
    <3>2. Head(Tail(todo)) = todo[2] /\ 2 \in 1..Len(todo) /\ 1 \in 1..Len(todo)
      BY <2>1, <3>1
    <3>3. todo[1] < todo[2] /\ todo[2] \in 1..requestId
      BY <3>2 DEF TodoInOrder
    <3>4. Current' = todo[2]
      BY <1>4, <2>3, <3>2 DEF Current
    <3>5. todo[2] \in Nat /\ Current <= todo[2] /\ Current < todo[2]
      BY <1>1, <1>2, <2>1, <3>3
    <3> QED
      BY <1>1, <1>2, <1>4, <3>4, <3>5, Zenon
  <2> QED
    BY <2>2, <2>3
<1> QED
  BY <1>1, <1>3, <1>4

\* A chunk more, for which all later answers begin one later.
LEMMA SendsTally ==
  ASSUME ChannelTypeOK, ChannelTypeOK', OrderOK, Counts, phase # "down", NumbersSuffice,
         NEW p, NEW B, NEW L, Tally(p, B, L), OwnMessage(B, L), ServerSends
  PROVE  Numbered'
<1> DEFINE c(kind) == [type |-> "MSG", kind |-> kind, id |-> Head(todo),
                       seq |-> NextNumber(serverSeq), part |-> part + 1, good |-> TRUE]
<1>1. PICK kind \in {"C", "F", "A"} :
        /\ kind = "C" => part + 1 < MaxParts
        /\ stream' = Append(stream, c(kind))
        /\ IF kind = "C" THEN part' = part + 1 /\ todo' = todo
                         ELSE part' = 0 /\ todo' = Tail(todo)
  BY DEF ServerSends
<1>2. /\ serverSeq' = NextNumber(serverSeq) /\ todo # <<>>
      /\ UNCHANGED <<queue, receiveSeq, requestId, phase>>
  BY DEF ServerSends, channelVars, callVars
<1>3. /\ Sum(B) \in Nat /\ Sum(B) = B[Current] + part /\ B[Current] \in Nat
      /\ part \in Nat /\ requestId \in Nat
      /\ p \in 0..(Modulus - 1) /\ B \in [Nat -> Nat] /\ L \in Nat
  BY SumType DEF OrderOK, Tally
<1>4. PICK s \in Nat : s = Sum(B)
  BY <1>3
<1>5. PICK old \in Nat, new \in Nat :
        /\ old = Current /\ new = Current' /\ old = Head(todo) /\ old \in 1..requestId
        /\ old <= new
        /\ IF kind = "C" THEN new = old ELSE old < new
  <2>1. PICK new \in Nat : /\ new = Current' /\ Current <= new
                           /\ todo' = todo => new = Current
                           /\ todo' = Tail(todo) => Current < new
    BY CurrentMoves DEF OrderOK
  <2>2. Current = Head(todo) /\ Current \in 1..requestId /\ requestId \in Nat
    BY CurrentMoves DEF OrderOK
  <2>3. Current \in Nat
    BY <2>2
  <2>4. CASE kind = "C"
    BY <1>1, <2>1, <2>2, <2>3, <2>4, Zenon
  <2>5. CASE kind # "C"
    BY <1>1, <2>1, <2>2, <2>3, <2>5, Zenon
  <2> QED
    BY <2>4, <2>5
<1>20. /\ old \in 1..requestId /\ old <= new
       /\ kind = "C" => new = old
       /\ kind # "C" => old < new
  BY <1>5, Zenon
<1>21. old >= 1 /\ new >= 1
  BY <1>3, <1>20
<1> DEFINE N == [i \in Nat |-> IF i > old THEN s + 1 ELSE B[i]]
<1>6. /\ N \in [Nat -> Nat] /\ \A i \in Nat : i > old => B[i] = s /\ N[i] = s + 1
      /\ \A i \in Nat : i <= old => N[i] = B[i]
      /\ \A i \in Nat : B[i] \in Nat /\ B[i] <= N[i]
  <2>1. \A i \in Nat : i > old => B[i] = s
    BY <1>4, <1>5 DEF Tally, ServerCounts
  <2>2. N \in [Nat -> Nat]
    BY <1>3
  <2>3. \A i \in Nat : i > old => N[i] = s + 1
    OBVIOUS
  <2>4. \A i \in Nat : i <= old => N[i] = B[i]
    OBVIOUS
  <2>5. \A i \in Nat : B[i] \in Nat /\ B[i] <= N[i]
    BY <1>3, <2>1, <2>3, <2>4
  <2> QED
    BY <2>1, <2>2, <2>3, <2>4, <2>5
<1> HIDE DEF N
<1>7. Sum(N)' = s + 1
  <2>1. Sum(N)' = N[Current'] + part'
    BY DEF Sum
  <2>2. CASE kind = "C"
    <3>1. new = old /\ part' = part + 1 /\ N[old] = B[old] /\ B[old] + part = s /\ B[old] \in Nat
      BY <1>1, <1>3, <1>4, <1>5, <1>6, <2>2
    <3>2. B[old] + (part + 1) = s + 1
      BY <1>3, <3>1
    <3> QED
      BY <1>5, <2>1, <3>1, <3>2, Zenon
  <2>3. CASE kind # "C"
    <3>1. part' = 0 /\ N[new] = s + 1 /\ (s + 1) + 0 = s + 1
      BY <1>1, <1>6, <1>20, <2>3
    <3> QED
      BY <1>5, <2>1, <3>1, Zenon
  <2> QED
    BY <2>2, <2>3
<1>8. Place(NextNumber(serverSeq)) = Nth(p, s + 1)
  <2>1. s \in 0..(Turn - 1)
    BY <1>3, <1>4, SumBounded DEF OrderOK, Tally
  <2> QED
    BY <1>3, <1>4, <2>1, NextPlace DEF Tally, ServerCounts, ChannelTypeOK
<1>9. ServerCounts(p, N)'
  <2>1. \A i \in Nat : i > new => N[i] = s + 1
    BY <1>5, <1>6
  <2>2. N[new] <= (new - 1) * MaxParts
    <3>1. B[old] <= (old - 1) * MaxParts
      BY <1>5 DEF Tally, ServerCounts
    <3>2. CASE kind = "C"
      BY <1>5, <1>6, <3>1, <3>2
    <3>3. CASE kind # "C"
      <4>1. N[new] = B[old] + part + 1 /\ part + 1 <= MaxParts
        <5>1. part < MaxParts /\ MaxParts \in Nat
          BY Constants DEF Counts
        <5> QED
          BY <1>3, <1>4, <1>5, <1>6, <3>3, <5>1
      <4>2. PICK n \in Nat, m \in Nat : n = old - 1 /\ m = new - 1 /\ n + 1 <= m
        <5>1. old - 1 \in Nat /\ new - 1 \in Nat /\ (old - 1) + 1 <= new - 1
          BY <1>20, <1>21, <3>3
        <5> QED
          BY <5>1
      <4>3. /\ (n + 1) * MaxParts <= m * MaxParts
            /\ (n + 1) * MaxParts = n * MaxParts + MaxParts
            /\ n * MaxParts \in Nat /\ m * MaxParts \in Nat
        BY <4>2, Multiples
      <4>4. PICK x \in Nat, y \in Nat : x = n * MaxParts /\ y = m * MaxParts
        BY <4>3
      <4>5. B[old] <= x /\ x + MaxParts <= y
        BY <3>1, <4>2, <4>3, <4>4, Zenon
      <4>6. N[new] <= y
        BY <1>3, <1>6, <4>1, <4>5, Constants
      <4> QED
        BY <4>2, <4>4, <4>6, Zenon
    <3> QED
      BY <3>2, <3>3
  <2> QED
    BY <1>2, <1>5, <1>7, <1>8, <2>1, <2>2, Zenon DEF ServerCounts
<1>10. /\ stream \in Seq(Chunk) /\ Len(stream) \in Nat /\ c(kind) \in Chunk
       /\ stream' \in Seq(Chunk) /\ Len(stream') = Len(stream) + 1
       /\ \A i \in 1..Len(stream) : stream'[i] = stream[i]
       /\ stream'[Len(stream) + 1] = c(kind)
  <2>1. stream \in Seq(Chunk) /\ Len(stream) \in Nat
    BY LenProperties DEF ChannelTypeOK
  <2>2. NextNumber(serverSeq) \in Numbers /\ Head(todo) \in Nat
    BY <1>5, NextNumberType DEF ChannelTypeOK
  <2>3. c(kind) \in Chunk
    BY <1>3, <2>2 DEF Chunk
  <2> HIDE DEF c
  <2> QED
    BY <1>1, <2>1, <2>3, AppendProperties
<1>11. /\ c(kind).type = "MSG" /\ c(kind).id = old /\ c(kind).part = part + 1
       /\ c(kind).seq = NextNumber(serverSeq) /\ c(kind).kind = kind
  BY <1>5
<1> HIDE DEF c
<1>12. Rank(N, c(kind)) = s + 1
  <2>1. N[old] = B[old] /\ B[old] \in Nat /\ s = B[old] + part
    BY <1>3, <1>4, <1>5, <1>6
  <2> QED
    BY <1>3, <1>11, <2>1 DEF Rank
<1>13. ASSUME NEW i \in 1..Len(stream), stream[i].type = "MSG"
       PROVE  /\ stream[i].id \in 1..old /\ N[stream[i].id] = B[stream[i].id]
              /\ Rank(N, stream[i]) = Rank(B, stream[i])
              /\ Rank(B, stream[i]) \in Nat /\ L <= Rank(B, stream[i])
              /\ Rank(B, stream[i]) <= s
  <2>1. /\ stream[i].id \in 1..old
        /\ Rank(B, stream[i]) \in Nat /\ L <= Rank(B, stream[i])
        /\ Rank(B, stream[i]) <= s
    BY <1>4, <1>5, <1>13, RankBounded DEF OrderOK
  <2>2. N[stream[i].id] = B[stream[i].id]
    <3>1. stream[i].id \in Nat /\ stream[i].id <= old
      BY <2>1
    <3> QED
      BY <1>6, <3>1
  <2> QED
    BY <2>1, <2>2 DEF Rank
<1>14. ASSUME NEW i \in 1..Len(stream)
       PROVE  ChunkCounts(p, N, stream[i])'
  <2>1. stream'[i] = stream[i]
    BY <1>10
  <2> DEFINE d == stream[i]
  <2>2. SUFFICES ASSUME d.type = "MSG"
                 PROVE  /\ d.part > 0 /\ Place(d.seq) = Nth(p, Rank(N, d))
                        /\ \A k \in Nat : k > d.id => Rank(N, d) <= N[k]
                        /\ d.kind # "C" => d.id < new /\ N[d.id + 1] = Rank(N, d)
    BY <1>5, <2>1, Zenon DEF ChunkCounts
  <2>3. /\ d.part > 0 /\ Place(d.seq) = Nth(p, Rank(B, d))
        /\ \A k \in Nat : k > d.id => Rank(B, d) <= B[k]
        /\ d.kind # "C" => d.id < old /\ B[d.id + 1] = Rank(B, d)
    BY <1>5, <2>2 DEF Tally, StreamCounts, ChunkCounts
  <2>4. d.id \in 1..old /\ Rank(N, d) = Rank(B, d) /\ Rank(B, d) \in Nat
    BY <1>13, <2>2
  <2> HIDE DEF d
  <2>5. \A k \in Nat : k > d.id => Rank(N, d) <= N[k]
    <3> TAKE k \in Nat
    <3> HAVE k > d.id
    <3>1. Rank(B, d) <= B[k] /\ B[k] \in Nat /\ B[k] <= N[k] /\ N[k] \in Nat
      BY <1>6, <2>3
    <3> QED
      BY <2>4, <3>1
  <2>6. d.kind # "C" => d.id < new /\ N[d.id + 1] = Rank(N, d)
    <3> HAVE d.kind # "C"
    <3>1. d.id < old /\ B[d.id + 1] = Rank(B, d)
      BY <2>3
    <3>2. d.id + 1 \in Nat /\ d.id + 1 <= old /\ d.id < new
      BY <1>20, <2>4, <3>1
    <3>3. N[d.id + 1] = B[d.id + 1]
      BY <1>6, <3>2
    <3> QED
      BY <2>4, <3>1, <3>2, <3>3
  <2> QED
    BY <2>3, <2>4, <2>5, <2>6
<1>15. PICK d : d = c(kind)
  OBVIOUS
<1>16. ChunkCounts(p, N, d)'
  <2>1. d.part > 0 /\ Place(d.seq) = Nth(p, Rank(N, d))
    BY <1>3, <1>8, <1>11, <1>12, <1>15
  <2>2. \A k \in Nat : k > old => Rank(N, d) <= N[k]
    BY <1>6, <1>12, <1>15
  <2>3. kind # "C" => old < new /\ N[old + 1] = Rank(N, d)
    BY <1>6, <1>12, <1>15, <1>20
  <2>4. d.kind = kind /\ d.id = old
    BY <1>11, <1>15
  <2> QED
    BY <1>5, <2>1, <2>2, <2>3, <2>4, Zenon DEF ChunkCounts
<1>17. StreamCounts(p, N)'
  <2>1. ASSUME NEW i \in 1..Len(stream')
        PROVE  ChunkCounts(p, N, stream[i])'
    <3>1. CASE i \in 1..Len(stream)
      BY <1>14, <3>1
    <3>2. CASE i = Len(stream) + 1
      <4>1. stream'[i] = d
        BY <1>10, <1>15, <3>2
      <4> QED
        BY <1>16, <4>1 DEF ChunkCounts
    <3> QED
      BY <1>10, <2>1, <3>1, <3>2
  <2>2. ASSUME NEW i \in 1..Len(stream'), NEW j \in 1..Len(stream'), i <= j,
               stream'[i].type = "MSG", stream'[j].type = "MSG"
        PROVE  Rank(N, stream'[i]) <= Rank(N, stream'[j])
    <3>1. CASE j \in 1..Len(stream)
      <4>1. i \in 1..Len(stream) /\ stream'[i] = stream[i] /\ stream'[j] = stream[j]
        BY <1>10, <2>2, <3>1
      <4>2. Rank(B, stream[i]) <= Rank(B, stream[j])
        BY <2>2, <3>1, <4>1 DEF Tally, StreamCounts
      <4> QED
        BY <1>13, <2>2, <3>1, <4>1, <4>2
    <3>2. CASE i \in 1..Len(stream) /\ j = Len(stream) + 1
      <4>1. stream'[i] = stream[i] /\ stream'[j] = c(kind)
        BY <1>10, <3>2
      <4>2. Rank(N, stream[i]) \in Nat /\ Rank(N, stream[i]) <= s
        BY <1>13, <2>2, <3>2, <4>1
      <4> QED
        BY <1>12, <4>1, <4>2
    <3>3. CASE i = Len(stream) + 1 /\ j = Len(stream) + 1
      <4>1. stream'[i] = c(kind) /\ stream'[j] = c(kind)
        BY <1>10, <3>3
      <4> QED
        BY <1>12, <4>1
    <3> QED
      BY <1>10, <2>2, <3>1, <3>2, <3>3
  <2> QED
    BY <2>1, <2>2 DEF StreamCounts
<1>18. TakenCounts(p, N, L)'
  <2>1. Place(receiveSeq) = Nth(p, L) /\ L <= s
    BY <1>4 DEF Tally, TakenCounts
  <2>2. L <= s + 1
    BY <1>3, <2>1
  <2>3. ASSUME NEW i \in 1..Len(stream'), stream'[i].type = "MSG"
        PROVE  L <= Rank(N, stream'[i])
    <3>1. CASE i \in 1..Len(stream)
      BY <1>10, <1>13, <2>3, <3>1
    <3>2. CASE i = Len(stream) + 1
      BY <1>10, <1>12, <2>2, <3>2
    <3> QED
      BY <1>10, <2>3, <3>1, <3>2
  <2> QED
    BY <1>2, <1>7, <2>1, <2>2, <2>3, Zenon DEF TakenCounts
<1>19. OwnMessage(N, L)'
  <2>1. \A i \in 1..Len(queue) : queue[i].type = "MSG" /\ queue[i].id = requestId =>
          \A k \in 1..Len(queue[i].parts) : queue[i].parts[k] = k
    BY DEF OwnMessage
  <2>2. Open("MSG", requestId)' <=> Open("MSG", requestId)
    BY <1>2 DEF Open
  <2>3. CASE Open("MSG", requestId)
    <3>1. requestId <= old /\ L = B[requestId] + Len(Last(queue).parts)
      BY <1>5, <2>3 DEF OwnMessage
    <3>2. requestId <= new /\ N[requestId] = B[requestId]
      BY <1>3, <1>6, <1>20, <3>1
    <3> QED
      BY <1>2, <1>5, <2>1, <2>2, <2>3, <3>1, <3>2, Zenon DEF OwnMessage
  <2>4. CASE ~Open("MSG", requestId)
    <3>1. L <= B[requestId] \/ (requestId < old /\ L >= B[requestId + 1])
      BY <1>5, <2>4 DEF OwnMessage
    <3>2. L <= N[requestId] \/ (requestId < new /\ L >= N[requestId + 1])
      <4>1. B[requestId] \in Nat /\ B[requestId] <= N[requestId] /\ N[requestId] \in Nat
        BY <1>3, <1>6
      <4>2. requestId < old => requestId < new /\ N[requestId + 1] = B[requestId + 1]
        <5> HAVE requestId < old
        <5>1. requestId + 1 \in Nat /\ requestId + 1 <= old /\ requestId < new
          BY <1>3, <1>20
        <5> QED
          BY <1>6, <5>1
      <4>3. CASE L <= B[requestId]
        BY <1>3, <4>1, <4>3
      <4> QED
        BY <3>1, <4>2, <4>3
    <3> QED
      BY <1>2, <1>5, <2>1, <2>2, <2>4, <3>2, Zenon DEF OwnMessage
  <2> QED
    BY <2>3, <2>4
<1> QED
  BY <1>3, <1>6, <1>9, <1>17, <1>18, <1>19, Zenon DEF Numbered, Tally

----------------------------------------------------------------------------

\* Of what is left when a chunk was consumed nothing comes before it.
LEMMA AheadTally ==
  ASSUME ChannelTypeOK, OrderOK, NEW p, NEW B, NEW L, Tally(p, B, L), Current' = Current,
         stream # <<>>, NEW c, c = Ahead, c.type = "MSG",
         UNCHANGED part, Thinned(stream', stream), receiveSeq' = c.seq
  PROVE  /\ Rank(B, c) \in Nat /\ L <= Rank(B, c) /\ Rank(B, c) <= Sum(B)
         /\ TakenCounts(p, B, Rank(B, c))'
<1>1. Ahead = stream[1] /\ 1 \in 1..Len(stream) /\ stream \in Seq(Chunk)
  <2>1. stream \in Seq(Chunk)
    BY DEF ChannelTypeOK
  <2>2. Len(stream) \in Nat \ {0} /\ Head(stream) = stream[1]
    BY <2>1, LastProperties
  <2> QED
    BY <2>1, <2>2 DEF Ahead
<1>2. Rank(B, c) \in Nat /\ L <= Rank(B, c) /\ Rank(B, c) <= Sum(B) /\ c = stream[1]
  BY <1>1, RankBounded DEF OrderOK
<1>3. Sum(B)' = Sum(B)
  BY DEF Sum
<1>4. Place(receiveSeq') = Nth(p, Rank(B, c))
  <2>1. ChunkCounts(p, B, stream[1])
    BY <1>1 DEF Tally, StreamCounts
  <2> QED
    BY <1>1, <2>1 DEF ChunkCounts
<1>5. ASSUME NEW i \in 1..Len(stream'), stream'[i].type = "MSG"
      PROVE  Rank(B, c) <= Rank(B, stream'[i])
  <2>1. i <= i
    OBVIOUS
  <2>2. PICK a \in 1..Len(stream) : Alike(stream'[i], stream[a])
    BY <2>1 DEF Thinned
  <2>3. 1 <= a /\ stream[a].type = "MSG"
    BY <1>5, <2>2, LenProperties DEF Alike
  <2>4. Rank(B, stream[1]) <= Rank(B, stream[a])
    BY <1>1, <2>3 DEF Tally, StreamCounts
  <2> QED
    BY <1>2, <2>2, <2>4 DEF Alike, Rank
<1>6. TakenCounts(p, B, Rank(B, c))'
  BY <1>2, <1>3, <1>4, <1>5, Zenon DEF TakenCounts
<1> QED
  BY <1>2, <1>6

\* An error message bears no number and belongs to no answer.
LEMMA ErrTally ==
  ASSUME ChannelTypeOK, NEW p, NEW B, NEW L, Tally(p, B, L), OwnMessage(B, L), ServerErrs
  PROVE  Tally(p, B, L)' /\ OwnMessage(B, L)'
<1> DEFINE e == [type |-> "ERR", kind |-> "F", id |-> 0, seq |-> 0, part |-> 1,
                 good |-> TRUE]
<1>1. /\ UNCHANGED <<todo, requestId, part, serverSeq, receiveSeq, queue>>
      /\ stream' = Append(stream, e)
  BY DEF ServerErrs, channelVars, callVars
<1>2. /\ Current' = Current
  BY <1>1, CurrentSame
<1>3. e.type = "ERR" /\ e \in Chunk
  BY Constants DEF Chunk, Numbers
<1>4. /\ Len(stream) \in Nat /\ Len(stream') = Len(stream) + 1
      /\ \A i \in 1..Len(stream) : stream'[i] = stream[i]
      /\ stream'[Len(stream) + 1].type = "ERR"
  <2>1. stream \in Seq(Chunk) /\ Len(stream) \in Nat
    BY LenProperties DEF ChannelTypeOK
  <2> HIDE DEF e
  <2> QED
    BY <1>1, <1>3, <2>1, AppendProperties
<1>5. \A i \in 1..Len(stream') : stream'[i].type = "MSG" =>
        i \in 1..Len(stream) /\ stream'[i] = stream[i]
  BY <1>4
<1>6. Sum(B)' = Sum(B)
  BY <1>1, <1>2 DEF Sum
<1>7. ServerCounts(p, B)'
  BY <1>1, <1>2, <1>6 DEF Tally, ServerCounts
<1>8. StreamCounts(p, B)'
  BY <1>2, <1>5 DEF Tally, StreamCounts, ChunkCounts
<1>9. TakenCounts(p, B, L)'
  BY <1>1, <1>5, <1>6 DEF Tally, TakenCounts
<1> QED
  BY <1>1, <1>2, <1>7, <1>8, <1>9, OwnKept DEF Tally

LEMMA FaultTally ==
  ASSUME ChannelTypeOK, NEW p, NEW B, NEW L, Tally(p, B, L), OwnMessage(B, L), Fault
  PROVE  Tally(p, B, L)' /\ OwnMessage(B, L)'
<1>1. UNCHANGED <<todo, requestId, part, serverSeq, receiveSeq, queue>>
  BY DEF Fault, channelVars, callVars, peerVars
<1>2. Current' = Current
  BY <1>1, CurrentSame
<1> QED
  BY <1>1, <1>2, FaultThins, TallyKept, OwnKept

\* A message that is delivered was complete, so that no chunk can have been added.
LEMMA DeliverTally ==
  ASSUME ChannelTypeOK, NEW p, NEW B, NEW L, Tally(p, B, L), OwnMessage(B, L), Deliver
  PROVE  Tally(p, B, L)' /\ OwnMessage(B, L)'
<1>1. /\ UNCHANGED <<todo, requestId, part, serverSeq, receiveSeq, stream>>
      /\ queue' = Tail(queue) /\ queue # <<>> /\ Head(queue).final
  BY DEF Deliver, Complete, peerVars, networkVars
<1>2. Current' = Current
  BY <1>1, CurrentSame
<1>3. Thinned(stream', stream)
  BY <1>1, SameShortened, ShortenedThinned DEF ChannelTypeOK
<1>4. /\ queue \in Seq(Message) /\ Len(queue) \in Nat \ {0}
      /\ Head(queue) = queue[1] /\ Last(queue) = queue[Len(queue)]
      /\ Tail(queue) \in Seq(Message) /\ Len(Tail(queue)) = Len(queue) - 1
      /\ \A i \in 1..Len(Tail(queue)) : Tail(queue)[i] = queue[i + 1]
  BY <1>1, LastProperties, HeadTailProperties DEF ChannelTypeOK
<1>5. Tail(queue) # <<>> => Last(Tail(queue)) = Last(queue)
  <2> HAVE Tail(queue) # <<>>
  <2>1. /\ Last(Tail(queue)) = Tail(queue)[Len(Tail(queue))]
        /\ Len(Tail(queue)) \in 1..Len(Tail(queue))
    BY <1>4, LastProperties
  <2> QED
    BY <1>4, <2>1
<1>6. ASSUME Tail(queue) = <<>>
      PROVE  Last(queue).final
  <2>1. Len(queue) = 1
    <3>1. Len(Tail(queue)) = 0
      BY <1>6, EmptySeq, Zenon
    <3>2. Len(Tail(queue)) = Len(queue) - 1 /\ Len(queue) \in Nat
      BY <1>4
    <3> QED
      BY <3>1, <3>2
  <2>2. Last(queue) = queue[1]
    BY <1>4, <2>1
  <2> QED
    BY <1>1, <1>4, <2>2, Zenon
<1>7. Open("MSG", requestId)' <=> Open("MSG", requestId)
  BY <1>1, <1>5, <1>6 DEF Open
<1>8. \A i \in 1..Len(queue') : queue'[i].type = "MSG" /\ queue'[i].id = requestId =>
        \A k \in 1..Len(queue'[i].parts) : queue'[i].parts[k] = k
  <2> TAKE i \in 1..Len(queue')
  <2>1. i + 1 \in 1..Len(queue) /\ queue'[i] = queue[i + 1]
    BY <1>1, <1>4
  <2> QED
    BY <2>1 DEF OwnMessage
<1>9. Open("MSG", requestId) => Last(queue') = Last(queue)
  BY <1>1, <1>5, <1>6 DEF Open
<1>10. OwnMessage(B, L)'
  BY <1>1, <1>2, <1>7, <1>8, <1>9, Zenon DEF OwnMessage
<1> QED
  BY <1>1, <1>2, <1>3, <1>10, TallyKept

LEMMA DeliveredWhole ==
  ASSUME ChannelTypeOK, NEW B, NEW L, OwnMessage(B, L), Deliver,
         \A i \in 1..Len(replies) : Whole(replies[i])
  PROVE  \A i \in 1..Len(replies') : Whole(replies'[i])
<1>1. queue # <<>> /\ Head(queue).final
  BY DEF Deliver, Complete
<1>2. Head(queue) = queue[1] /\ 1 \in 1..Len(queue) /\ Head(queue) \in Message
  BY <1>1, LastProperties DEF ChannelTypeOK
<1>3. CASE UNCHANGED replies
  BY <1>3
<1>4. CASE /\ Head(queue).type = "MSG" /\ Head(queue).id = requestId
           /\ replies' = Append(replies, Head(queue))
  <2>1. Whole(Head(queue))
    BY <1>1, <1>2, <1>4 DEF OwnMessage, Whole
  <2>2. replies \in Seq(Message)
    BY DEF ChannelTypeOK
  <2> QED
    BY <1>2, <1>4, <2>1, <2>2, AppendProperties
<1> QED
  BY <1>3, <1>4 DEF Deliver

----------------------------------------------------------------------------

\* If the numbers do not start again, the chunk that is taken is the next one that
\* was sent: a number that is one higher has no other place.
LEMMA AheadIsNext ==
  ASSUME ChannelTypeOK, Halves, OrderOK, Counts, phase # "down", NumbersSuffice,
         NEW p, NEW B, NEW L, Tally(p, B, L), TakeChunk, ~rolled',
         NEW h, h = Ahead, h.type = "MSG"
  PROVE  /\ Tally(p, B, L + 1)' /\ L + 1 \in Nat
         /\ Rank(B, h) = L + 1
         /\ L + 1 = B[h.id] + h.part /\ h.part \in Nat \ {0} /\ B[h.id] \in Nat
         /\ h.id \in 1..Current /\ h.id <= requestId
         /\ \A i \in Nat : i > h.id => L + 1 <= B[i]
         /\ h.kind # "C" => h.id < Current /\ B[h.id + 1] = L + 1
<1>1. /\ inHand >= 2 /\ stream' = Tail(stream) /\ receiveSeq' = h.seq
      /\ UNCHANGED <<todo, requestId, part, serverSeq>>
  BY DEF TakeChunk, peerVars
<1>2. h \in Chunk /\ h = stream[1] /\ stream # <<>> /\ 1 \in 1..Len(stream)
      /\ stream \in Seq(Chunk)
  BY <1>1, AheadProperties DEF ChannelTypeOK
<1>3. Current' = Current /\ Thinned(stream', stream)
  BY <1>1, <1>2, CurrentSame, TailShortened, ShortenedThinned
<1>4. /\ Rank(B, h) \in Nat /\ L <= Rank(B, h) /\ Rank(B, h) <= Sum(B)
      /\ TakenCounts(p, B, Rank(B, h))'
  BY <1>1, <1>2, <1>3, AheadTally
<1>5. ChunkCounts(p, B, h)
  BY <1>2 DEF Tally, StreamCounts
<1>6. h.seq = (receiveSeq + 1) % Modulus
  BY DEF TakeChunk, NumberOK, Successor
<1>7. /\ p \in 0..(Modulus - 1) /\ L \in Nat /\ receiveSeq \in Numbers /\ h.seq \in Numbers
      /\ Place(receiveSeq) = Nth(p, L) /\ Place(h.seq) = Nth(p, Rank(B, h))
  BY <1>2, <1>5 DEF Tally, TakenCounts, ChunkCounts, ChannelTypeOK, Chunk
<1>8. Rank(B, h) \in 0..(Turn - 1) /\ L \in 0..Rank(B, h)
  <2>1. Sum(B) \in 0..(Turn - 1)
    BY SumBounded DEF OrderOK, Tally
  <2> QED
    BY <1>4, <1>7, <2>1, Constants
<1>9. Rank(B, h) = L + 1
  BY <1>6, <1>7, <1>8, PlaceSucceeds
<1>10. h.id \in 1..Current /\ h.id <= requestId /\ Current \in Nat
  BY <1>2, RankBounded, SumType DEF OrderOK
<1>11. L + 1 = B[h.id] + h.part /\ h.part \in Nat \ {0} /\ B[h.id] \in Nat
  <2>1. h.part \in Nat /\ h.part > 0
    BY <1>2, <1>5 DEF Chunk, ChunkCounts
  <2>2. h.id \in Nat /\ B \in [Nat -> Nat]
    BY <1>10 DEF Tally
  <2> QED
    BY <1>9, <2>1, <2>2 DEF Rank
<1>12. Tally(p, B, L + 1)'
  BY <1>1, <1>3, <1>4, <1>9, TallyThins
<1> QED
  BY <1>4, <1>5, <1>9, <1>10, <1>11, <1>12 DEF ChunkCounts

\* What is added continues or begins one message and leaves the others alone.
LEMMA OwnAdded ==
  ASSUME ChannelTypeOK, NEW B, NEW L, OwnMessage(B, L),
         NEW type \in {"MSG", "ERR"}, NEW id \in Nat, NEW kind \in {"C", "F"}, NEW n \in Nat,
         UNCHANGED requestId,
         queue' = Added(Entered(type, id), kind, n),
         type = "MSG" /\ id = requestId =>
           n = IF Open(type, id) THEN Len(Last(queue).parts) + 1 ELSE 1
  PROVE  /\ \A i \in 1..Len(queue') : queue'[i].type = "MSG" /\ queue'[i].id = requestId =>
              \A k \in 1..Len(queue'[i].parts) : queue'[i].parts[k] = k
         /\ Open("MSG", requestId)' <=> kind = "C" /\ type = "MSG" /\ id = requestId
         /\ Len(Last(queue').parts) = IF Open(type, id) THEN Len(Last(queue).parts) + 1 ELSE 1
<1> DEFINE e == Entered(type, id)
<1>1. queue \in Seq(Message) /\ Len(queue) \in Nat
  BY LenProperties DEF ChannelTypeOK
<1>2. EnteredOK(type, id)
  BY <1>1, EnteredProperties
<1>3. /\ e \in Seq(Message) /\ e # <<>> /\ Last(e).type = type /\ Last(e).id = id
      /\ Len(e) \in Nat \ {0} /\ Len(e) \in 1..Len(e) /\ Last(e) = e[Len(e)]
      /\ Last(e) \in Message
  BY <1>2, LastProperties DEF EnteredOK
<1>4. \A i \in 1..Len(e) : i # Len(e) => i \in 1..Len(queue) /\ e[i] = queue[i]
  <2>1. CASE Open(type, id)
    <3>1. e = queue
      BY <1>2, <2>1 DEF EnteredOK
    <3> QED
      BY <3>1
  <2>2. CASE ~Open(type, id)
    BY <1>1, <1>2, <2>2 DEF EnteredOK
  <2> QED
    BY <2>1, <2>2
<1>5. Last(e).parts = IF Open(type, id) THEN Last(queue).parts ELSE <<>>
  <2>1. CASE Open(type, id)
    <3>1. e = queue
      BY <1>2, <2>1 DEF EnteredOK
    <3> QED
      BY <2>1, <3>1
  <2>2. CASE ~Open(type, id)
    BY <1>2, <2>2 DEF EnteredOK
  <2> QED
    BY <2>1, <2>2
<1>6. Last(e).parts \in Seq(Nat) /\ Len(Last(e).parts) \in Nat
  <2>1. Last(e).parts \in Seq(Nat)
    BY <1>3 DEF Message
  <2> QED
    BY <2>1, LenProperties
<1>7. Len(Last(e).parts) = IF Open(type, id) THEN Len(Last(queue).parts) ELSE 0
  BY <1>5
<1>8. type = "MSG" /\ id = requestId =>
        /\ n = Len(Last(e).parts) + 1
        /\ \A k \in 1..Len(Last(e).parts) : Last(e).parts[k] = k
  <2> HAVE type = "MSG" /\ id = requestId
  <2>1. CASE Open(type, id)
    <3>1. e = queue
      BY <1>2, <2>1 DEF EnteredOK
    <3>2. \A k \in 1..Len(Last(e).parts) : Last(e).parts[k] = k
      BY <1>3, <3>1 DEF OwnMessage
    <3> QED
      BY <1>7, <2>1, <3>2
  <2>2. CASE ~Open(type, id)
    BY <1>5, <1>7, <2>2
  <2> QED
    BY <2>1, <2>2
<1>9. AddedOK(e, kind, n)
  BY <1>3, AddedProperties
<1> HIDE DEF e
<1>10. /\ queue' \in Seq(Message) /\ queue' # <<>> /\ Len(queue') = Len(e)
       /\ \A i \in 1..Len(e) : i # Len(e) => queue'[i] = e[i]
       /\ Last(queue').type = type /\ Last(queue').id = id
       /\ Last(queue').final <=> kind = "F"
       /\ Last(queue').parts = Append(Last(e).parts, n)
  BY <1>3, <1>9, Zenon DEF AddedOK, e
<1>11. Last(queue') = queue'[Len(e)]
  BY <1>10, LastProperties
<1>12. /\ Len(Last(queue').parts) = Len(Last(e).parts) + 1
       /\ \A k \in 1..Len(Last(e).parts) : Last(queue').parts[k] = Last(e).parts[k]
       /\ Last(queue').parts[Len(Last(e).parts) + 1] = n
  BY <1>6, <1>10, AppendProperties
<1>13. ASSUME NEW i \in 1..Len(queue'), queue'[i].type = "MSG", queue'[i].id = requestId,
              NEW k \in 1..Len(queue'[i].parts)
       PROVE  queue'[i].parts[k] = k
  <2>1. CASE i = Len(e)
    <3>1. queue'[i] = Last(queue') /\ type = "MSG" /\ id = requestId
      BY <1>10, <1>11, <1>13, <2>1
    <3>2. k \in 1..(Len(Last(e).parts) + 1)
      BY <1>12, <1>13, <3>1
    <3>3. CASE k = Len(Last(e).parts) + 1
      BY <1>8, <1>12, <3>1, <3>3
    <3>4. CASE k \in 1..Len(Last(e).parts)
      BY <1>8, <1>12, <3>1, <3>4
    <3> QED
      BY <1>6, <3>2, <3>3, <3>4
  <2>2. CASE i # Len(e)
    <3>1. i \in 1..Len(queue) /\ queue'[i] = queue[i]
      BY <1>4, <1>10, <2>2
    <3> QED
      BY <1>13, <3>1 DEF OwnMessage
  <2> QED
    BY <2>1, <2>2
<1>14. Open("MSG", requestId)' <=> kind = "C" /\ type = "MSG" /\ id = requestId
  BY <1>10 DEF Open
<1>15. Len(Last(queue').parts) = IF Open(type, id) THEN Len(Last(queue).parts) + 1 ELSE 1
  BY <1>7, <1>12
<1> QED
  BY <1>13, <1>14, <1>15

LEMMA TakeTally ==
  ASSUME ChannelTypeOK, Halves, OrderOK, Counts, phase # "down", NumbersSuffice,
         NEW p, NEW B, NEW L, Tally(p, B, L), OwnMessage(B, L), TakeChunk, ~rolled'
  PROVE  Numbered'
<1>1. PICK h : h = Ahead
  OBVIOUS
<1>2. /\ inHand >= 2 /\ stream' = Tail(stream)
      /\ UNCHANGED <<todo, requestId, part, serverSeq>>
  BY DEF TakeChunk, peerVars
<1>3. /\ h \in Chunk /\ h = stream[1] /\ stream # <<>> /\ 1 \in 1..Len(stream)
      /\ stream \in Seq(Chunk) /\ h.id \in Nat /\ h.part \in Nat
      /\ h.type \in {"MSG", "ERR"} /\ h.kind \in {"C", "F", "A"}
  BY <1>1, <1>2, AheadProperties DEF ChannelTypeOK, Chunk
<1>4. Current' = Current /\ Thinned(stream', stream)
  BY <1>2, <1>3, CurrentSame, TailShortened, ShortenedThinned
<1>5. /\ p \in 0..(Modulus - 1) /\ B \in [Nat -> Nat] /\ L \in Nat
      /\ requestId \in Nat /\ Current \in Nat
  BY SumType DEF Tally, OrderOK
<1> DEFINE Formed == \A i \in 1..Len(queue') :
                       queue'[i].type = "MSG" /\ queue'[i].id = requestId =>
                         \A k \in 1..Len(queue'[i].parts) : queue'[i].parts[k] = k
           Beyond(l) == l <= B[requestId] \/ (requestId < Current /\ l >= B[requestId + 1])
<1>6. ASSUME NEW l, Formed, ~Open("MSG", requestId)', Beyond(l)
      PROVE  OwnMessage(B, l)'
  BY <1>2, <1>4, <1>6, Zenon DEF OwnMessage
<1>7. CASE h.type # "MSG"
  <2>1. h.type = "ERR" /\ h.kind = "F" /\ receiveSeq' = receiveSeq
    BY <1>1, <1>3, <1>7 DEF OrderOK, StreamInOrder, TakeChunk
  <2>2. InOrder("ERR", h.id) /\ queue' = Added(Entered("ERR", h.id), "F", h.part)
    BY <1>1, <2>1 DEF TakeChunk, Add
  <2>3. ~Open("MSG", requestId)
    BY <2>2 DEF InOrder, Open
  <2>4. Formed /\ ~Open("MSG", requestId)'
    BY <1>2, <1>3, <2>2, OwnAdded
  <2>5. Beyond(L)
    BY <2>3 DEF OwnMessage
  <2>6. OwnMessage(B, L)'
    BY <1>6, <2>4, <2>5
  <2>7. Tally(p, B, L)'
    BY <1>2, <1>4, <2>1, TallyKept
  <2> QED
    BY <1>5, <2>6, <2>7 DEF Numbered
<1>8. CASE h.type = "MSG"
  <2>1. /\ Tally(p, B, L + 1)' /\ L + 1 \in Nat
        /\ L + 1 = B[h.id] + h.part /\ h.part \in Nat \ {0} /\ B[h.id] \in Nat
        /\ h.id \in 1..Current /\ h.id <= requestId
        /\ \A i \in Nat : i > h.id => L + 1 <= B[i]
        /\ h.kind # "C" => h.id < Current /\ B[h.id + 1] = L + 1
    BY <1>1, <1>8, AheadIsNext
  <2>2. SUFFICES OwnMessage(B, L + 1)'
    BY <1>5, <2>1 DEF Numbered
\* What is taken of an earlier answer leaves the message of this request unbegun.
  <2>3. ASSUME h.id # requestId
        PROVE  /\ ~Open("MSG", requestId) /\ Beyond(L + 1)
               /\ \A i \in 1..Len(queue) : queue[i].id # requestId
    <3>1. h.id < requestId
      <4>1. h.id <= requestId
        BY <2>1
      <4>2. \A a, b \in Nat : a # b /\ a <= b => a < b
        OBVIOUS
      <4> QED
        BY <1>3, <1>5, <2>3, <4>1, <4>2, Zenon
    <3>2. \A i \in 1..Len(queue) : queue[i].id # requestId
      BY <1>3, <1>5, <1>8, <3>1, NoneOfLater
    <3>3. ~Open("MSG", requestId)
      <4>1. queue # <<>> => Last(queue) = queue[Len(queue)] /\ Len(queue) \in 1..Len(queue)
        BY LastProperties DEF ChannelTypeOK
      <4> QED
        BY <3>2, <4>1 DEF Open
    <3>4. Beyond(L + 1)
      BY <1>5, <2>1, <3>1
    <3> QED
      BY <3>2, <3>3, <3>4
  <2>4. CASE h.kind = "A"
    <3>1. queue' = IF queue # <<>> /\ Last(queue).id = h.id THEN Front(queue) ELSE queue
      BY <1>1, <2>4 DEF TakeChunk, Abort
    <3>2. /\ queue \in Seq(Message) /\ queue' \in Seq(Message)
          /\ \A i \in 1..Len(queue') : i \in 1..Len(queue) /\ queue'[i] = queue[i]
          /\ queue # <<>> /\ Last(queue).id = h.id =>
               \A i \in 1..Len(queue') : i < Len(queue) /\ Len(queue) \in 1..Len(queue)
                                         /\ Last(queue) = queue[Len(queue)]
      <4>1. queue \in Seq(Message) /\ Len(queue) \in Nat
        BY LenProperties DEF ChannelTypeOK
      <4>2. CASE queue # <<>> /\ Last(queue).id = h.id
        <5>1. /\ queue' \in Seq(Message) /\ Len(queue') = Len(queue) - 1
              /\ \A i \in 1..(Len(queue) - 1) : queue'[i] = queue[i]
          BY <3>1, <4>1, <4>2, FrontProperties
        <5>2. Len(queue) \in 1..Len(queue) /\ Last(queue) = queue[Len(queue)]
          BY <4>1, <4>2, LastProperties
        <5> QED
          BY <4>1, <5>1, <5>2
      <4>3. CASE ~(queue # <<>> /\ Last(queue).id = h.id)
        <5>1. queue' = queue
          BY <3>1, <4>3
        <5> QED
          BY <4>1, <4>3, <5>1
      <4> QED
        BY <4>2, <4>3
    <3>3. Formed
      BY <3>2 DEF OwnMessage
    <3>4. ~Open("MSG", requestId)'
      <4> SUFFICES ASSUME queue' # <<>>, Last(queue').id = requestId,
                          Last(queue').type = "MSG", ~Last(queue').final
                   PROVE  FALSE
        BY <1>2 DEF Open
      <4>1. Len(queue') \in 1..Len(queue') /\ Last(queue') = queue'[Len(queue')]
        BY <3>2, LastProperties
      <4>2. Len(queue') \in 1..Len(queue) /\ queue[Len(queue')].id = requestId
        BY <3>2, <4>1
      <4>3. h.id = requestId
        BY <2>3, <4>2
      <4>4. CASE queue # <<>> /\ Last(queue).id = h.id
        <5>1. /\ Len(queue') < Len(queue) /\ Len(queue) \in 1..Len(queue)
              /\ queue[Len(queue)].id = requestId
          BY <3>2, <4>1, <4>3, <4>4
        <5> QED
          BY <4>2, <5>1 DEF OrderOK, QueueInOrder
      <4>5. CASE ~(queue # <<>> /\ Last(queue).id = h.id)
        BY <3>1, <4>3, <4>5
      <4> QED
        BY <4>4, <4>5
    <3>5. Beyond(L + 1)
      <4>1. h.id = requestId => requestId < Current /\ L + 1 >= B[requestId + 1]
        BY <2>1, <2>4
      <4> QED
        BY <2>3, <4>1
    <3> QED
      BY <1>6, <3>3, <3>4, <3>5
  <2>5. CASE h.kind # "A"
    <3>1. /\ h.kind \in {"C", "F"} /\ InOrder("MSG", h.id)
          /\ queue' = Added(Entered("MSG", h.id), h.kind, h.part)
      BY <1>1, <1>3, <1>8, <2>5 DEF TakeChunk, Add
    <3>2. h.id = requestId =>
            h.part = IF Open("MSG", h.id) THEN Len(Last(queue).parts) + 1 ELSE 1
      <4> HAVE h.id = requestId
      <4>1. requestId + 1 \in Nat /\ requestId + 1 > requestId
        BY <1>5
      <4>2. L + 1 = B[requestId] + h.part /\ B[requestId] \in Nat /\ L + 1 <= B[requestId + 1]
            /\ B[requestId + 1] \in Nat
        BY <1>5, <2>1, <4>1
      <4>3. CASE Open("MSG", requestId)
        <5>1. L = B[requestId] + Len(Last(queue).parts)
          BY <4>3 DEF OwnMessage
        <5>2. Len(Last(queue).parts) \in Nat
          <6>1. Last(queue) \in Message
            BY <4>3, LastProperties DEF ChannelTypeOK, Open
          <6> QED
            BY <6>1, LenProperties DEF Message
        <5>3. h.part = Len(Last(queue).parts) + 1
          BY <1>3, <4>2, <5>1, <5>2
        <5> QED
          BY <4>3, <5>3
      <4>4. CASE ~Open("MSG", requestId)
        <5>1. Beyond(L)
          BY <4>4 DEF OwnMessage
        <5>2. h.part = 1
          BY <1>5, <2>1, <4>2, <5>1
        <5> QED
          BY <4>4, <5>2
      <4> QED
        BY <4>3, <4>4
    <3>3. /\ Formed
          /\ Open("MSG", requestId)' <=> h.kind = "C" /\ h.id = requestId
          /\ Len(Last(queue').parts) =
               IF Open("MSG", h.id) THEN Len(Last(queue).parts) + 1 ELSE 1
      BY <1>2, <1>3, <3>1, <3>2, OwnAdded
    <3>4. CASE h.kind = "C" /\ h.id = requestId
      <4>1. L + 1 = B[requestId] + Len(Last(queue').parts) /\ requestId <= Current
        BY <2>1, <3>2, <3>3, <3>4
      <4> QED
        BY <1>2, <1>4, <3>3, <3>4, <4>1, Zenon DEF OwnMessage
    <3>5. CASE ~(h.kind = "C" /\ h.id = requestId)
      <4>1. h.id = requestId => requestId < Current /\ L + 1 >= B[requestId + 1]
        BY <2>1, <3>5
      <4>2. Beyond(L + 1)
        BY <2>3, <4>1
      <4>3. ~Open("MSG", requestId)'
        BY <3>3, <3>5
      <4> QED
        BY <1>6, <3>3, <4>2, <4>3
    <3> QED
      BY <3>4, <3>5
  <2> QED
    BY <2>4, <2>5
<1> QED
  BY <1>7, <1>8

----------------------------------------------------------------------------

LEMMA QuietTally ==
  ASSUME ChannelTypeOK, Numbered, Thinned(stream', stream),
         UNCHANGED <<queue, receiveSeq, requestId, todo, part, serverSeq>>
  PROVE  Numbered'
<1>1. PICK p \in 0..(Modulus - 1), B \in [Nat -> Nat], L \in Nat :
        Tally(p, B, L) /\ OwnMessage(B, L)
  BY DEF Numbered
<1>2. Current' = Current
  BY CurrentSame
<1>3. Tally(p, B, L)' /\ OwnMessage(B, L)'
  BY <1>1, <1>2, TallyKept, OwnKept
<1> QED
  BY <1>3 DEF Numbered

\* The next request goes out, perhaps after a failure that drops chunks and, of a
\* chunk that addChunkPayload refuses, has counted the number.
LEMMA NextTally ==
  ASSUME ChannelTypeOK, OrderOK, Counts, phase # "down", Numbered,
         NEW next \in {"service", "closing"}, Send(next),
         NEW q \in Seq(Message), QueueInOrder(q), queue' = q,
         UNCHANGED <<part, serverSeq>>, Thinned(stream', stream),
         \/ receiveSeq' = receiveSeq
         \/ stream # <<>> /\ Ahead.type = "MSG" /\ receiveSeq' = Ahead.seq
  PROVE  Numbered'
<1>1. PICK p \in 0..(Modulus - 1), B \in [Nat -> Nat], L \in Nat :
        Tally(p, B, L) /\ OwnMessage(B, L)
  BY DEF Numbered
<1>2. Current' = Current
  BY CurrentSame
<1>3. PICK l \in Nat : l <= Sum(B) /\ Tally(p, B, l)'
  <2>1. CASE receiveSeq' = receiveSeq
    <3>1. Tally(p, B, L)'
      BY <1>1, <1>2, <2>1, TallyKept
    <3>2. L <= Sum(B)
      BY <1>1 DEF Tally, TakenCounts
    <3> QED
      BY <3>1, <3>2
  <2>2. CASE stream # <<>> /\ Ahead.type = "MSG" /\ receiveSeq' = Ahead.seq
    <3>1. PICK h : h = Ahead
      OBVIOUS
    <3>2. /\ Rank(B, h) \in Nat /\ Rank(B, h) <= Sum(B)
          /\ TakenCounts(p, B, Rank(B, h))'
      BY <1>1, <1>2, <2>2, <3>1, AheadTally
    <3>3. Tally(p, B, Rank(B, h))'
      BY <1>1, <1>2, <3>2, TallyThins
    <3> QED
      BY <3>2, <3>3
  <2> QED
    BY <2>1, <2>2
<1>4. OwnMessage(B, l)'
  BY <1>1, <1>3, OwnBegins DEF OrderOK
<1> QED
  BY <1>1, <1>3, <1>4 DEF Numbered

LEMMA FailTally ==
  ASSUME ChannelTypeOK, Halves, OrderOK, Counts, phase # "down", Numbered,
         NEW q \in Seq(Message), QueueInOrder(q), NEW reason, Refused, Fail(reason, q),
         phase' # "down",
         \/ receiveSeq' = receiveSeq
         \/ Ahead.type = "MSG" /\ receiveSeq' = Ahead.seq
  PROVE  Numbered'
<1>1. phase = "service"
  BY DEF Fail, GoDown
<1>2. /\ Send("closing") /\ queue' = q /\ UNCHANGED <<part, serverSeq>>
      /\ stream' = SubSeq(stream, inHand \div 2 + 1, Len(stream))
  BY <1>1 DEF Fail
<1>3. inHand \in Nat /\ stream \in Seq(Chunk) /\ Len(stream) \in Nat
  BY LenProperties DEF ChannelTypeOK
<1>4. inHand \div 2 \in 0..Len(stream)
  BY <1>3 DEF Halves
<1>5. /\ stream' \in Seq(Chunk) /\ Len(stream') = Len(stream) - inHand \div 2
      /\ \A i \in 1..(Len(stream) - inHand \div 2) :
           stream'[i] = stream[i + inHand \div 2]
  BY <1>2, <1>3, <1>4, RestProperties
<1>6. Thinned(stream', stream)
  BY <1>3, <1>4, <1>5, RestShortened, ShortenedThinned
<1>7. stream # <<>>
  BY AheadProperties DEF Refused
<1> QED
  BY <1>2, <1>6, <1>7, NextTally

----------------------------------------------------------------------------

LEMMA SendCounts ==
  ASSUME ChannelTypeOK, Counts, part' = part, NEW next \in {"service", "closing"}, Send(next),
         requestId <= MaxRequests, next = "service" => requestId < MaxRequests
  PROVE  Counts'
<1>1. /\ requestId' = requestId + 1 /\ phase' = next /\ requestId \in Nat
      /\ todo' = Append(todo, requestId + 1) /\ todo \in Seq(Nat)
  BY DEF Send, ChannelTypeOK
<1>2. todo' # <<>>
  BY <1>1, AppendProperties
<1>3. /\ requestId + 1 <= MaxRequests + 1
      /\ next = "service" => requestId + 1 <= MaxRequests
  BY <1>1, Constants
<1> QED
  BY <1>1, <1>2, <1>3 DEF Counts

LEMMA CountsKept ==
  ASSUME ChannelTypeOK, Counts, ChannelNext
  PROVE  Counts'
<1> USE DEF channelVars, callVars, peerVars, networkVars, historyVars
<1>1. ASSUME GoDown, part' = part
      PROVE  Counts'
  BY <1>1 DEF GoDown, Counts
<1>2. ASSUME UNCHANGED <<requestId, part, todo>>, phase' = phase
      PROVE  Counts'
  BY <1>2 DEF Counts
<1>3. CASE Request
  BY <1>3, SendCounts DEF Request, Counts
<1>4. CASE Leave
  BY <1>4, SendCounts DEF Leave, Counts
<1>5. CASE Timeout
  <2>1. CASE phase = "service"
    BY <1>5, <2>1, SendCounts DEF Timeout, Abandon, Counts
  <2>2. CASE phase # "service"
    BY <1>1, <1>5, <2>2 DEF Timeout, Abandon
  <2> QED
    BY <2>1, <2>2
<1>6. ASSUME NEW reason, NEW q, Fail(reason, q)
      PROVE  Counts'
  <2>1. CASE phase = "service"
    BY <1>6, <2>1, SendCounts DEF Fail, Counts
  <2>2. CASE phase # "service"
    BY <1>1, <1>6, <2>2 DEF Fail
  <2> QED
    BY <2>1, <2>2
<1>7. CASE RefuseHeader \/ RefuseNumber \/ RefusePayload
  BY <1>6, <1>7 DEF RefuseHeader, RefuseNumber, RefusePayload
<1>8. CASE ConnectionLost \/ GarbageFails \/ TokenTimesOut
  BY <1>1, <1>8 DEF ConnectionLost, GarbageFails, TokenTimesOut
<1>9. CASE ServerSends
  <2>1. /\ UNCHANGED <<phase, requestId>>
        /\ \/ part + 1 < MaxParts /\ part' = part + 1 /\ UNCHANGED todo /\ todo # <<>>
           \/ part' = 0
    BY <1>9 DEF ServerSends
  <2> QED
    BY <2>1, Constants DEF Counts
<1>10. CASE ServerErrs \/ Fault \/ Arrive \/ GarbageWaits \/ EndOfChunks \/ TakeChunk
            \/ Deliver \/ Over
  BY <1>2, <1>10 DEF ServerErrs, Fault, Arrive, GarbageWaits, EndOfChunks, TakeChunk,
                     Deliver, Over, vars
<1>11. CASE PacketEnds
  <2>1. CASE received /\ phase = "closing"
    BY <1>1, <1>11, <2>1 DEF PacketEnds
  <2>2. CASE ~(received /\ phase = "closing")
    <3>1. /\ UNCHANGED <<requestId, part, todo>>
          /\ phase' = IF received THEN "idle" ELSE phase
          /\ phase \in {"service", "closing"}
      BY <1>11, <2>2 DEF PacketEnds, Messages, Calling
    <3> QED
      BY <2>2, <3>1 DEF Counts
  <2> QED
    BY <2>1, <2>2
<1>12. CASE TouchFreed
  <2>1. /\ UNCHANGED <<requestId, part, todo>>
        /\ phase' = "dead" /\ phase \in {"service", "closing"}
    BY <1>12 DEF TouchFreed, Messages, Calling
  <2> QED
    BY <2>1 DEF Counts
<1> QED
  BY <1>3, <1>4, <1>5, <1>7, <1>8, <1>9, <1>10, <1>11, <1>12
     DEF ChannelNext, Launcher, Receive, Process, Refuse, Environment

----------------------------------------------------------------------------

LEMMA NumberedKept ==
  ASSUME ChannelTypeOK, ChannelTypeOK', Halves, OrderOK, Counts, NumbersSuffice,
         phase # "down" => Numbered, ~rolled', phase' # "down", ChannelNext
  PROVE  Numbered'
<1> USE DEF channelVars, callVars, peerVars, networkVars, historyVars
<1>1. /\ queue \in Seq(Message) /\ stream \in Seq(Chunk) /\ QueueInOrder(queue)
      /\ Thinned(stream, stream)
  BY SameShortened, ShortenedThinned DEF ChannelTypeOK, OrderOK
<1>2. ~GoDown
  BY DEF GoDown
<1>3. CASE Request \/ Leave
  BY <1>1, <1>3, NextTally DEF Request, Leave
<1>4. CASE Timeout
  <2>1. phase = "service" /\ Send("closing") /\ UNCHANGED <<queue, receiveSeq, stream>>
    BY <1>2, <1>4 DEF Timeout, Abandon
  <2>2. UNCHANGED <<part, serverSeq>>
    BY <1>4 DEF Timeout
  <2> QED
    BY <1>1, <2>1, <2>2, NextTally
<1>5. CASE RefuseHeader \/ RefuseNumber
  <2>1. Refused /\ phase # "down" /\ receiveSeq' = receiveSeq
        /\ \E reason \in Reasons : Fail(reason, queue)
    BY <1>5 DEF RefuseHeader, RefuseNumber, Refused, Chunks, Calling, Reasons
  <2> QED
    BY <1>1, <2>1, FailTally
<1>6. CASE RefusePayload
  <2>1. /\ Refused /\ phase # "down" /\ inHand >= 2
        /\ receiveSeq' = IF Ahead.type = "MSG" THEN Ahead.seq ELSE receiveSeq
    BY <1>6 DEF RefusePayload, Refused, Chunks, Calling
  <2>2. CASE InOrder(Ahead.type, Ahead.id)
    <3> DEFINE q == Entered(Ahead.type, Ahead.id)
    <3>1. Fail("limit", q)
      BY <1>6, <2>2 DEF RefusePayload
    <3>2. QueueInOrder(q)
      BY <2>1, <2>2, EnteredOrder
    <3>3. Ahead.type \in {"MSG", "ERR"} /\ Ahead.id \in Nat
      BY <2>1, AheadProperties DEF Chunk
    <3>4. q \in Seq(Message)
      <4>1. EnteredOK(Ahead.type, Ahead.id)
        BY <1>1, <3>3, EnteredProperties
      <4> QED
        BY <4>1 DEF EnteredOK
    <3> HIDE DEF q
    <3> QED
      BY <2>1, <3>1, <3>2, <3>4, FailTally
  <2>3. CASE ~InOrder(Ahead.type, Ahead.id)
    <3>1. Fail("order", queue)
      BY <1>6, <2>3 DEF RefusePayload
    <3> QED
      BY <1>1, <2>1, <3>1, FailTally
  <2> QED
    BY <2>2, <2>3
<1>7. CASE ConnectionLost \/ GarbageFails \/ TokenTimesOut
  BY <1>2, <1>7 DEF ConnectionLost, GarbageFails, TokenTimesOut
<1>8. CASE TakeChunk \/ Deliver \/ ServerSends \/ ServerErrs \/ Fault
  <2>1. phase # "down"
    BY <1>8 DEF TakeChunk, Deliver, ServerSends, ServerErrs, Fault
  <2>2. PICK p \in 0..(Modulus - 1), B \in [Nat -> Nat], L \in Nat :
          Tally(p, B, L) /\ OwnMessage(B, L)
    BY <2>1 DEF Numbered
  <2>3. CASE TakeChunk
    BY <2>1, <2>2, <2>3, TakeTally
  <2>4. CASE ServerSends
    BY <2>1, <2>2, <2>4, SendsTally
  <2>5. ASSUME Tally(p, B, L)', OwnMessage(B, L)'
        PROVE  Numbered'
    BY <2>5 DEF Numbered
  <2>6. CASE Deliver \/ ServerErrs \/ Fault
    BY <2>2, <2>5, <2>6, DeliverTally, ErrTally, FaultTally
  <2> QED
    BY <1>8, <2>3, <2>4, <2>6
<1>9. CASE Arrive \/ EndOfChunks \/ TouchFreed \/ Over
  <2>1. UNCHANGED <<queue, receiveSeq, requestId, todo, part, serverSeq, stream>>
    BY <1>9 DEF Arrive, EndOfChunks, TouchFreed, Over, vars
  <2>2. phase # "down"
    BY <1>9 DEF Arrive, EndOfChunks, TouchFreed, Over, vars, Waits, Chunks, Messages,
                Calling
  <2> QED
    BY <1>1, <2>1, <2>2, QuietTally
<1>10. CASE GarbageWaits
  <2>1. /\ stream # <<>> /\ stream' = Tail(stream)
        /\ UNCHANGED <<queue, receiveSeq, requestId, todo, part, serverSeq, phase>>
    BY <1>10 DEF GarbageWaits
  <2> QED
    BY <1>1, <2>1, TailShortened, ShortenedThinned, QuietTally
<1>11. CASE PacketEnds
  <2>1. /\ UNCHANGED <<queue, receiveSeq, requestId, todo, part, serverSeq, stream>>
        /\ phase # "down"
    BY <1>2, <1>11 DEF PacketEnds, Messages, Calling
  <2> QED
    BY <1>1, <2>1, QuietTally
<1> QED
  BY <1>3, <1>4, <1>5, <1>6, <1>7, <1>8, <1>9, <1>10, <1>11
     DEF ChannelNext, Launcher, Receive, Process, Refuse, Environment

LEMMA LossKept ==
  ASSUME ChannelTypeOK, ChannelTypeOK', Halves, OrderOK, NumbersSuffice, LossInv,
         [ChannelNext]_vars
  PROVE  LossInv'
<1> USE DEF channelVars, callVars, peerVars, networkVars, historyVars
<1>1. CASE ChannelNext
  <2>1. Counts /\ Counts'
    BY <1>1, CountsKept DEF LossInv
  <2>2. SUFFICES ASSUME ~rolled'
                 PROVE  /\ \A i \in 1..Len(replies') : Whole(replies'[i])
                        /\ phase' # "down" => Numbered'
    BY <2>1 DEF LossInv, Whole
  <2>3. ~rolled
    <3>1. CASE TakeChunk
      BY <2>2, <3>1 DEF TakeChunk, ChannelTypeOK
    <3>2. CASE ~TakeChunk
      BY <1>1, <2>2, <3>2
         DEF ChannelNext, Launcher, Receive, Process, Refuse, Environment, Over, vars,
             Request, Leave, Timeout, ConnectionLost, GarbageFails, TokenTimesOut,
             ServerSends, ServerErrs, Fault, Arrive, EndOfChunks, Deliver, RefuseHeader,
             RefuseNumber, RefusePayload, Fail, GarbageWaits, PacketEnds, TouchFreed
    <3> QED
      BY <3>1, <3>2
  <2>4. /\ \A i \in 1..Len(replies) : Whole(replies[i])
        /\ phase # "down" => Numbered
    BY <2>3 DEF LossInv
  <2>5. phase' # "down" => Numbered'
    BY <1>1, <2>1, <2>2, <2>4, NumberedKept
  <2>6. \A i \in 1..Len(replies') : Whole(replies'[i])
    <3>1. CASE Deliver
      <4>1. phase # "down"
        BY <3>1 DEF Deliver, Messages, Calling
      <4>2. PICK p \in 0..(Modulus - 1), B \in [Nat -> Nat], L \in Nat : OwnMessage(B, L)
        BY <2>4, <4>1 DEF Numbered
      <4> QED
        BY <2>4, <3>1, <4>2, DeliveredWhole
    <3>2. CASE ~Deliver
      <4>1. replies' = replies
        BY <1>1, <3>2
           DEF ChannelNext, Launcher, Receive, Process, Refuse, Environment, Over, vars,
               Request, Leave, Timeout, ConnectionLost, GarbageFails, TokenTimesOut,
               ServerSends, ServerErrs, Fault, Arrive, EndOfChunks, TakeChunk, RefuseHeader,
               RefuseNumber, RefusePayload, Fail, GarbageWaits, PacketEnds,
               TouchFreed
      <4> QED
        BY <2>4, <4>1
    <3> QED
      BY <3>1, <3>2
  <2> QED
    BY <2>5, <2>6
<1>2. CASE UNCHANGED vars
  <2>1. Counts /\ Counts'
    BY <1>2 DEF LossInv, Counts, vars
  <2>2. SUFFICES ASSUME ~rolled'
                 PROVE  /\ \A i \in 1..Len(replies') : Whole(replies'[i])
                        /\ phase' # "down" => Numbered'
    BY <2>1 DEF LossInv, Whole
  <2>3. /\ \A i \in 1..Len(replies) : Whole(replies[i])
        /\ phase # "down" => Numbered
    BY <1>2, <2>2 DEF LossInv, vars
  <2>4. Thinned(stream, stream)
    BY SameShortened, ShortenedThinned DEF ChannelTypeOK
  <2>5. phase # "down" => Numbered'
    BY <1>2, <2>3, <2>4, QuietTally DEF vars
  <2> QED
    BY <1>2, <2>3, <2>5 DEF vars
<1> QED
  BY <1>1, <1>2

LEMMA InitLoss == ChannelInit => LossInv
<1> SUFFICES ASSUME ChannelInit PROVE LossInv
  OBVIOUS
<1> DEFINE B == [i \in Nat |-> 0]
<1>1. /\ B \in [Nat -> Nat] /\ \A i \in Nat : B[i] = 0
  OBVIOUS
<1> HIDE DEF B
<1>2. /\ todo = <<>> /\ requestId = 0 /\ part = 0 /\ serverSeq = receiveSeq
      /\ queue = <<>> /\ stream = <<>> /\ Len(<<>>) = 0 /\ replies = <<>> /\ phase = "idle"
  BY DEF ChannelInit
<1>3. receiveSeq \in Numbers
  BY ChannelAssumption DEF ChannelInit, Numbers
<1>4. Current = 1 /\ Sum(B) = 0
  <2>1. Current = 1
    BY <1>2 DEF Current
  <2>2. B[1] = 0 /\ part = 0
    BY <1>1, <1>2
  <2> QED
    BY <2>1, <2>2 DEF Sum
<1>5. Place(receiveSeq) \in 0..(Modulus - 1)
  BY <1>3, PlaceType
<1>6. Nth(Place(receiveSeq), 0) = Place(receiveSeq)
  BY <1>5, Constants DEF Nth
<1>7. ServerCounts(Place(receiveSeq), B)
  <2>1. B[1] <= (1 - 1) * MaxParts
    BY <1>1, Constants
  <2> QED
    BY <1>1, <1>2, <1>4, <1>6, <2>1 DEF ServerCounts
<1>8. StreamCounts(Place(receiveSeq), B) /\ TakenCounts(Place(receiveSeq), B, 0)
  BY <1>2, <1>4, <1>6 DEF StreamCounts, TakenCounts
<1>9. OwnMessage(B, 0)
  BY <1>1, <1>2 DEF OwnMessage, Open
<1>10. Counts
  BY <1>2, Constants DEF Counts
<1> QED
  BY <1>1, <1>2, <1>5, <1>7, <1>8, <1>9, <1>10 DEF LossInv, Numbered, Tally

\* Whatever the network or the server spoils, a reply has all its chunks, in order, or
\* the numbers have started again: the number of each chunk gives its place among all
\* that were sent, as long as these are fewer than the numbers.
THEOREM RepliesAreWhole ==
  ASSUME NumbersSuffice
  PROVE  ChannelSpec => []RepliesWhole
<1>1. ChannelInv /\ LossInv /\ [ChannelNext]_vars => LossInv'
  <2> SUFFICES ASSUME ChannelInv, LossInv, [ChannelNext]_vars PROVE LossInv'
    OBVIOUS
  <2>1. ChannelInv'
    BY NextInv
  <2> QED
    BY <2>1, LossKept DEF ChannelInv, OrderOK
<1>2. ChannelInv /\ LossInv => RepliesWhole
  BY DEF ChannelInv, ChannelTypeOK, LossInv, RepliesWhole, Unnoticed
<1> QED
  BY <1>1, <1>2, InitLoss, ChannelInvariance, PTL DEF ChannelSpec
=============================================================================
