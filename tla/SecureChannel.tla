--------------------------- MODULE SecureChannel ----------------------------
(***************************************************************************)
(* What arrives at the client: packets of any length, the chunks in them,  *)
(* the messages made of the chunks, and the reply that a synchronous       *)
(* service call takes from the messages (open62541.c).  The channel is     *)
(* open when the module begins and is not opened again; how it is opened   *)
(* and torn down is in UAClient.                                           *)
(*                                                                         *)
(* The client is one thread.  A step of it is one chunk or one message of  *)
(* the packet in hand.  A packet may end inside a chunk, which is cut in   *)
(* two halves for that: nothing depends on where.                          *)
(***************************************************************************)
EXTENDS Naturals, SequencesExt

CONSTANTS
  Modulus,        \* 2^32, of the sequence numbers
  RollFrom,       \* 4294966271: beyond it the numbers may start again ...
  RollTo,         \* ... below 1024
  MaxChunkCount,  \* localMaxChunkCount, 0 for no limit
  MaxMessageSize, \* localMaxMessageSize, 0 for no limit
  Starts,         \* sequence numbers of the OPN response
  LastNumber,     \* after this number the server starts again ...
  FirstNumber,    \* ... with this one
  MaxRequests,    \* requests of the launcher
  MaxParts,       \* chunks in a message of the server
  MaxFaults       \* chunks that the network or the server spoils

ASSUME ChannelAssumption ==
  /\ {Modulus, RollFrom, RollTo} \subseteq Nat \ {0}
  /\ RollFrom < Modulus /\ RollTo < RollFrom
  /\ MaxChunkCount \in Nat /\ MaxMessageSize \in Nat
  /\ Starts \subseteq 0..(Modulus - 1)
  /\ LastNumber \in RollFrom..(Modulus - 1) /\ FirstNumber \in 0..(RollTo - 1)
  /\ MaxRequests \in Nat /\ MaxParts \in Nat \ {0} /\ MaxFaults \in Nat

VARIABLES
  \* the channel
  queue,       \* channel->messages
  receiveSeq,  \* channel->receiveSequenceNumber
  held,        \* halves of chunks in channel->incompleteChunk
  uncopied,    \* ids of queued messages with chunks that are not cp->copied
  freed,       \* those of them whose bytes went with a packet that failed
  \* the call
  phase,       \* "idle", "service", "closing" (CloseSession), "down" or "dead"
  at,          \* "wait" for a packet, or among its "chunks" or "messages"
  inHand,      \* halves of chunks of the packet that are still ahead
  requestId,   \* client->requestId
  received,    \* rd.received
  \* the server and the network
  todo,        \* requests that the server has not answered
  part,        \* chunks of the answer in progress that it has sent
  serverSeq,   \* its last sequence number
  server,      \* "gone" after an ERR
  stream,      \* chunks sent and not consumed, first the halves held
  cut,         \* the first of them was cut off and is garbage now
  faults,      \* chunks spoilt so far
  \* history
  replies,     \* messages taken as replies
  rolled,      \* the numbers have started again
  why          \* why the first chunk was refused

bufferVars == <<uncopied, freed>>
channelVars == <<queue, receiveSeq, held, bufferVars>>
callVars == <<phase, at, inHand, requestId, received>>
peerVars == <<todo, part, serverSeq, server>>
networkVars == <<stream, cut, faults>>
historyVars == <<replies, rolled, why>>
vars == <<channelVars, callVars, peerVars, networkVars, historyVars>>

Numbers == 0..(Modulus - 1)
Chunk == [type : {"MSG", "ERR"}, kind : {"C", "F", "A"}, id : Nat,
          seq : Numbers, part : Nat, good : BOOLEAN]
Message == [type : {"MSG", "ERR"}, id : Nat, parts : Seq(Nat), size : Nat,
            final : BOOLEAN]
Reasons == {"none", "header", "token", "number", "order", "limit"}

ChannelTypeOK ==
  /\ queue \in Seq(Message) /\ receiveSeq \in Numbers /\ held \in Nat
  /\ uncopied \subseteq Nat /\ freed \subseteq Nat
  /\ phase \in {"idle", "service", "closing", "down", "dead"}
  /\ at \in {"wait", "chunks", "messages"}
  /\ inHand \in Nat /\ requestId \in Nat
  /\ received \in BOOLEAN
  /\ todo \in Seq(Nat) /\ part \in Nat /\ serverSeq \in Numbers
  /\ server \in {"up", "gone"}
  /\ stream \in Seq(Chunk) /\ cut \in BOOLEAN /\ faults \in Nat
  /\ replies \in Seq(Message) /\ rolled \in BOOLEAN /\ why \in Reasons

ChannelInit ==
  /\ queue = <<>> /\ receiveSeq \in Starts /\ held = 0
  /\ uncopied = {} /\ freed = {}
  /\ phase = "idle" /\ at = "wait" /\ inHand = 0
  /\ requestId = 0 /\ received = FALSE
  /\ todo = <<>> /\ part = 0 /\ serverSeq = receiveSeq /\ server = "up"
  /\ stream = <<>> /\ cut = FALSE /\ faults = 0
  /\ replies = <<>> /\ rolled = FALSE /\ why = "none"

----------------------------------------------------------------------------
(* The server and the network.                                             *)

NextNumber(s) == IF s = LastNumber THEN FirstNumber ELSE (s + 1) % Modulus

\* One more chunk of the answer: the last one ends or aborts it.
ServerSends ==
  /\ server = "up" /\ todo # <<>>
  /\ \E kind \in IF part + 1 < MaxParts THEN {"C", "F", "A"} ELSE {"F", "A"} :
       /\ stream' = Append(stream,
            [type |-> "MSG", kind |-> kind, id |-> Head(todo),
             seq |-> NextNumber(serverSeq), part |-> part + 1, good |-> TRUE])
       /\ IF kind = "C" THEN part' = part + 1 /\ UNCHANGED todo
                        ELSE part' = 0 /\ todo' = Tail(todo)
  /\ serverSeq' = NextNumber(serverSeq)
  /\ UNCHANGED <<channelVars, callVars, server, cut, faults, historyVars>>

\* An error message, perhaps amid an answer, is the server's last.
ServerErrs ==
  /\ server = "up"
  /\ server' = "gone"
  /\ stream' = Append(stream, [type |-> "ERR", kind |-> "F", id |-> 0, seq |-> 0,
                               part |-> 1, good |-> TRUE])
  /\ UNCHANGED <<channelVars, callVars, todo, part, serverSeq, cut, faults,
                 historyVars>>

\* A chunk of which nothing has arrived is lost, sent twice, or bears a token
\* or a channel that the client does not know.
Fault ==
  /\ at = "wait" /\ faults < MaxFaults
  /\ \E i \in 1..Len(stream) :
       /\ held < 2 * i - 1
       /\ \/ stream' = RemoveAt(stream, i)
          \/ stream' = InsertAt(stream, i, stream[i])
          \/ stream' = [stream EXCEPT ![i].good = FALSE]
  /\ faults' = faults + 1
  /\ UNCHANGED <<channelVars, callVars, peerVars, cut, historyVars>>

----------------------------------------------------------------------------
(* The calls.                                                              *)

\* The next request goes out: __UA_Client_Service.
Send(next) ==
  /\ phase' = next /\ at' = "wait"
  /\ requestId' = requestId + 1
  /\ todo' = Append(todo, requestId')
  /\ received' = FALSE

Request ==
  /\ phase = "idle" /\ requestId < MaxRequests
  /\ Send("service")
  /\ UNCHANGED <<channelVars, inHand, part, serverSeq, server, networkVars,
                 historyVars>>

\* UA_Client_disconnect comes to its end: the connection and all that the
\* channel holds go.
GoDown ==
  /\ phase' = "down" /\ at' = "wait"
  /\ queue' = <<>> /\ held' = 0 /\ inHand' = 0
  /\ uncopied' = {} /\ freed' = {}
  /\ received' = FALSE
  /\ stream' = <<>> /\ cut' = FALSE /\ todo' = <<>>
  /\ UNCHANGED requestId

\* The launcher disconnects.
Leave ==
  /\ phase = "idle"
  /\ Send("closing")
  /\ UNCHANGED <<channelVars, inHand, part, serverSeq, server, networkVars,
                 historyVars>>

\* A call fails without a packet in hand: the service's disconnect goes on with
\* CloseSession, that of CloseSession does not.
Abandon ==
  IF phase = "service"
    THEN Send("closing") /\ UNCHANGED <<channelVars, inHand, stream, cut>>
    ELSE GoDown /\ UNCHANGED receiveSeq

----------------------------------------------------------------------------
(* processPacket, chunk by chunk.                                          *)

Calling == phase \in {"service", "closing"}
Waits == Calling /\ at = "wait"

\* A packet of k halves arrives behind those held.
Arrive ==
  /\ Waits /\ ~cut
  /\ \E k \in 1..(2 * Len(stream) - held) : inHand' = held + k
  /\ held' = 0
  /\ at' = "chunks"
  /\ UNCHANGED <<queue, receiveSeq, bufferVars, phase, requestId, received,
                 peerVars, networkVars, historyVars>>

Ahead == Head(stream)
Chunks == Calling /\ at = "chunks"

\* What is left is not a whole chunk.
EndOfChunks ==
  /\ Chunks /\ inHand < 2
  /\ at' = "messages"
  /\ UNCHANGED <<channelVars, phase, inHand, requestId, received,
                 peerVars, networkVars, historyVars>>

\* processSequenceNumberSym, in unsigned arithmetic.
Successor == (receiveSeq + 1) % Modulus
StartsAgain(s) == Successor > RollFrom /\ s < RollTo

\* Slip: any number that is not the last one's is taken.
AnyNumber(s) == s # receiveSeq

\* Slip: the numbers never start again.
NumberOKExactly(s) == s = Successor

NumberOK(s) == s = Successor \/ StartsAgain(s)

\* The message that a chunk of request `id` and this type belongs to, or none.
Open(type, id) ==
  queue # <<>> /\ Last(queue).id = id /\ Last(queue).type = type /\ ~Last(queue).final

\* addChunkPayload: the chunk continues the message at the end of the queue, or
\* begins one if that is complete.
InOrder(type, id) ==
  queue # <<>> =>
    IF Last(queue).id = id THEN Last(queue).type = type /\ ~Last(queue).final
                           ELSE Last(queue).final

\* The queue with the message of the chunk at its end, perhaps a new one.
Entered(type, id) ==
  IF Open(type, id) THEN queue
  ELSE Append(queue, [type |-> type, id |-> id, parts |-> <<>>, size |-> 0,
                      final |-> FALSE])

\* All chunks but the last of a message are full.
SizeOf(kind) == IF kind = "C" THEN 2 ELSE 1

WithinLimits(m, kind) ==
  /\ MaxChunkCount > 0 => Len(m.parts) < MaxChunkCount
  /\ MaxMessageSize > 0 => m.size + SizeOf(kind) <= MaxMessageSize

Added(q, kind, p) ==
  LET m == [Last(q) EXCEPT !.parts = Append(@, p), !.size = @ + SizeOf(kind),
                           !.final = (kind = "F")]
  IN  [q EXCEPT ![Len(q)] = m]

\* The bytes of a message are done with.
Release(id) == uncopied' = uncopied \ {id} /\ freed' = freed \ {id}

\* deleteLatestMessage: an abort deletes the message that its chunks began.
Abort ==
  IF queue # <<>> /\ Last(queue).id = Ahead.id
    THEN queue' = Front(queue) /\ Release(Ahead.id)
    ELSE UNCHANGED <<queue, bufferVars>>

\* A chunk that is added points into the packet.
Add ==
  /\ InOrder(Ahead.type, Ahead.id)
  /\ WithinLimits(Last(Entered(Ahead.type, Ahead.id)), Ahead.kind)
  /\ queue' = Added(Entered(Ahead.type, Ahead.id), Ahead.kind, Ahead.part)
  /\ uncopied' = uncopied \cup {Ahead.id} /\ UNCHANGED freed

\* The chunk is taken; behind one that is not a MSG the loop ends.
TakeChunk ==
  /\ Chunks /\ inHand >= 2
  /\ Ahead.type = "MSG" => Ahead.good /\ NumberOK(Ahead.seq)
  /\ IF Ahead.kind = "A" THEN Abort ELSE Add
  /\ receiveSeq' = IF Ahead.type = "MSG" THEN Ahead.seq ELSE receiveSeq
  /\ rolled' = (rolled \/ ( /\ Ahead.type = "MSG"
                            /\ Ahead.seq # Successor /\ StartsAgain(Ahead.seq)))
  /\ at' = IF Ahead.type = "MSG" THEN "chunks" ELSE "messages"
  /\ stream' = Tail(stream)
  /\ inHand' = inHand - 2
  /\ UNCHANGED <<held, phase, requestId, received, peerVars, cut, faults,
                 replies, why>>

\* Slip: the call fails, but the connection is kept.
FailKeeps(reason, q) ==
  /\ why' = IF why = "none" THEN reason ELSE why
  /\ phase' = "idle" /\ at' = "wait"
  /\ queue' = q /\ held' = 0 /\ inHand' = 0
  /\ freed' = uncopied /\ UNCHANGED uncopied
  /\ stream' = SubSeq(stream, inHand \div 2 + 1, Len(stream))
  /\ cut' = (inHand % 2 = 1)
  /\ UNCHANGED <<requestId, received, peerVars, faults, replies, rolled>>

\* An error amid the packet jumps over the copying.  What is left of the packet is
\* dropped, and of a chunk that it ends in the half that came; messages stay in the
\* queue, but the packet is freed, and their bytes of this packet with it.
Fail(reason, q) ==
  /\ why' = IF why = "none" THEN reason ELSE why
  /\ IF phase = "service"
       THEN /\ Send("closing")
            /\ queue' = q /\ held' = 0 /\ inHand' = 0
            /\ freed' = uncopied /\ UNCHANGED uncopied
            /\ stream' = SubSeq(stream, inHand \div 2 + 1, Len(stream))
            /\ cut' = (inHand % 2 = 1)
       ELSE GoDown
  /\ UNCHANGED <<part, serverSeq, server, faults, replies, rolled>>

Refused == Chunks /\ inHand >= 2

\* decryptAddChunk refuses the chunk ...
RefuseHeader ==
  /\ Refused /\ Ahead.type = "MSG" /\ ~Ahead.good
  /\ Fail("header", queue)
  /\ UNCHANGED receiveSeq

RefuseNumber ==
  /\ Refused /\ Ahead.type = "MSG" /\ Ahead.good /\ ~NumberOK(Ahead.seq)
  /\ Fail("number", queue)
  /\ UNCHANGED receiveSeq

\* ... or addChunkPayload does, when the number has been counted and, if only the
\* limits speak against the chunk, its message may have been begun.
RefusePayload ==
  /\ Refused /\ Ahead.kind # "A"
  /\ Ahead.type = "MSG" => Ahead.good /\ NumberOK(Ahead.seq)
  /\ IF InOrder(Ahead.type, Ahead.id)
       THEN LET q == Entered(Ahead.type, Ahead.id)
            IN  ~WithinLimits(Last(q), Ahead.kind) /\ Fail("limit", q)
       ELSE Fail("order", queue)
  /\ receiveSeq' = IF Ahead.type = "MSG" THEN Ahead.seq ELSE receiveSeq

\* checkSymHeader finds the token too old, by the server's clock and its own: it
\* closes the channel, so that no CloseSession can be sent.
TokenTimesOut ==
  /\ Refused /\ Ahead.type = "MSG" /\ Ahead.good
  /\ why' = IF why = "none" THEN "token" ELSE why
  /\ GoDown
  /\ UNCHANGED <<receiveSeq, part, serverSeq, server, faults, replies, rolled>>

\* The second half of a chunk whose first was dropped: its bytes make no header,
\* or that of a chunk that never gets complete.
GarbageFails ==
  /\ Waits /\ cut
  /\ GoDown
  /\ UNCHANGED <<receiveSeq, part, serverSeq, server, faults, historyVars>>

GarbageWaits ==
  /\ Waits /\ cut /\ stream # <<>>
  /\ stream' = Tail(stream)
  /\ at' = "messages"
  /\ UNCHANGED <<channelVars, phase, inHand, requestId, received, peerVars,
                 cut, faults, historyVars>>

----------------------------------------------------------------------------
(* processCompleteMessages and what follows it.                            *)

Messages == Calling /\ at = "messages"
Complete == queue # <<>> /\ Head(queue).final

\* Slip: the reply is not told from the answers to earlier requests.
DeliverAny ==
  /\ Messages /\ Complete
  /\ queue' = Tail(queue) /\ Release(Head(queue).id)
  /\ IF Head(queue).type = "MSG"
       THEN received' = TRUE /\ replies' = Append(replies, Head(queue))
       ELSE UNCHANGED <<received, replies>>
  /\ UNCHANGED <<receiveSeq, held, phase, at, inHand, requestId, peerVars,
                 networkVars, rolled, why>>

\* Slip: an error message counts as the reply.
DeliverErrors ==
  /\ Messages /\ Complete
  /\ queue' = Tail(queue) /\ Release(Head(queue).id)
  /\ IF Head(queue).id \in {0, requestId}
       THEN received' = TRUE /\ replies' = Append(replies, Head(queue))
       ELSE UNCHANGED <<received, replies>>
  /\ UNCHANGED <<receiveSeq, held, phase, at, inHand, requestId, peerVars,
                 networkVars, rolled, why>>

\* processServiceResponse: the reply is the message of this request; what else
\* there is goes to the asynchronous calls, of which there are none.  Of a message
\* whose bytes are freed it may decode what it finds there, to no effect: its
\* request is not this one.
Deliver ==
  /\ Messages /\ Complete
  /\ queue' = Tail(queue) /\ Release(Head(queue).id)
  /\ IF Head(queue).type = "MSG" /\ Head(queue).id = requestId
       THEN received' = TRUE /\ replies' = Append(replies, Head(queue))
       ELSE UNCHANGED <<received, replies>>
  /\ UNCHANGED <<receiveSeq, held, phase, at, inHand, requestId, peerVars,
                 networkVars, rolled, why>>

\* Slip: one byte too few is held.
PacketEndsShort ==
  /\ Messages /\ ~Complete
  /\ IF received /\ phase = "closing"
       THEN GoDown /\ UNCHANGED receiveSeq
       ELSE /\ held' = inHand - 1 /\ inHand' = 0
            /\ uncopied' = {} /\ freed' = {}
            /\ at' = "wait"
            /\ phase' = IF received THEN "idle" ELSE phase
            /\ UNCHANGED <<queue, receiveSeq, requestId, received, todo, stream, cut>>
  /\ UNCHANGED <<part, serverSeq, server, faults, historyVars>>

\* What the queue still holds is copied, and the rest of the packet is held; the
\* call goes on waiting, returns or, if it was CloseSession, is followed by the end
\* of the connection.
PacketEnds ==
  /\ Messages /\ ~Complete
  /\ IF received /\ phase = "closing"
       THEN GoDown /\ UNCHANGED receiveSeq
       ELSE /\ held' = inHand /\ inHand' = 0
            /\ uncopied' = {} /\ freed' = {}
            /\ at' = "wait"
            /\ phase' = IF received THEN "idle" ELSE phase
            /\ UNCHANGED <<queue, receiveSeq, requestId, received, todo,
                           stream, cut>>
  /\ UNCHANGED <<part, serverSeq, server, faults, historyVars>>

\* To decode or to copy freed bytes is undefined: the process dies, or nothing is
\* noticed and the call goes on (Deliver, PacketEnds).
TouchFreed ==
  /\ Messages
  /\ IF Complete THEN Head(queue).id \in freed ELSE freed # {}
  /\ phase' = "dead"
  /\ UNCHANGED <<channelVars, at, inHand, requestId, received, peerVars,
                 networkVars, historyVars>>

\* Slip: nothing ends the wait for CloseSession.
TimeoutOfServices ==
  /\ Waits /\ phase = "service"
  /\ Abandon
  /\ UNCHANGED <<part, serverSeq, server, faults, historyVars>>

\* The reply does not come in time.
Timeout ==
  /\ Waits
  /\ Abandon
  /\ UNCHANGED <<part, serverSeq, server, faults, historyVars>>

\* recv reports a closed connection: there is no CloseSession to send.
ConnectionLost ==
  /\ Waits
  /\ GoDown
  /\ UNCHANGED <<receiveSeq, part, serverSeq, server, faults, historyVars>>

Over == phase \in {"down", "dead"} /\ UNCHANGED vars

----------------------------------------------------------------------------

Refuse == RefuseHeader \/ RefuseNumber \/ RefusePayload \/ TokenTimesOut
Process == EndOfChunks \/ TakeChunk \/ Refuse \/ Deliver \/ PacketEnds \/ TouchFreed
Receive == Arrive \/ GarbageFails \/ GarbageWaits \/ Process
Launcher == Request \/ Leave
Environment == ServerSends \/ ServerErrs \/ Fault \/ ConnectionLost

ChannelNext == Launcher \/ Receive \/ Timeout \/ Environment \/ Over
ChannelSpec == ChannelInit /\ [][ChannelNext]_vars

\* The thread goes on with the packet that it has, and a wait ends in time.
FairChannelSpec == ChannelSpec /\ WF_vars(Process) /\ WF_vars(Timeout)

----------------------------------------------------------------------------

Whole(m) == m.final /\ \A i \in 1..Len(m.parts) : m.parts[i] = i

\* The caller's view: each request has at most one reply, its own, whatever was
\* lost, repeated, late, cut off or left in the queue by an earlier failure.
Calls == INSTANCE RequestReply WITH
  asked <- requestId,
  pending <- Calling /\ ~received,
  taken <- [i \in 1..Len(replies) |-> replies[i].id]

RepliesKept == Calls!ReplySpec

\* A chunk lost just where the numbers start again is not missed: any low number
\* may follow.
Unnoticed == rolled /\ faults > 0

\* A reply has all its chunks, in order, wherever the packets ended and whatever
\* was lost or repeated on the way, with that one excuse.
RepliesWhole == \A i \in 1..Len(replies) : Whole(replies[i]) \/ Unnoticed

\* A service that returns normally has just taken its own reply: no error message
\* and no late answer to an earlier request passes for it.
ReturnsReply ==
  phase = "idle" /\ requestId > 0 =>
    replies # <<>> /\ Last(replies).id = requestId

\* The server counts up to the end and starts again with more than 0, which the
\* wrapped Successor does not let pass.
CountsToTheEnd == LastNumber = Modulus - 1 /\ FirstNumber # 0

\* The server sends fewer chunks in a connection than there are numbers.
NumbersSuffice == (MaxRequests + 1) * MaxParts < LastNumber - FirstNumber + 1

\* No chunk of a server that counts as it should is refused, wherever packets
\* end, unless it was spoilt on the way.
RefusesOnlySpoilt ==
  /\ why = "header" => faults > 0
  /\ why = "number" => faults > 0 \/ CountsToTheEnd
  /\ why = "order" => faults > 0 \/ server = "gone"

\* What a packet must have done for bytes to be freed under the queue.
ErrorsAmid == {"header", "number", "order", "limit"}

\* Only CloseSession, after an error amid a packet, ever meets messages whose bytes
\* are freed, and dies of nothing else: no call of the launcher's does, and no call
\* over a new connection.
FreedOnlyWhileClosing ==
  /\ freed # {} => phase \in {"closing", "dead"}
  /\ phase = "dead" => why \in ErrorsAmid

\* "Persist full chunks that still point to the packet" (open62541.c:19847): no
\* message in the queue outlives the bytes that it points to.
ChunksPersisted == freed = {}

----------------------------------------------------------------------------
(* Why the properties hold: an invariant that is inductive.                *)

\* The packet in hand and what is held are of the chunks that have been sent.
Halves ==
  /\ held <= 2 * Len(stream) /\ inHand <= 2 * Len(stream)
  /\ IF at = "wait" THEN inHand = 0 ELSE held = 0
  /\ cut => held = 0 /\ inHand = 0
  /\ phase = "idle" => at = "wait"

\* Answers are sent in the order of the requests, and an ERR behind them all.
Before(a, b) == /\ a.type = "ERR" => b.type = "ERR"
                /\ a.type = "MSG" /\ b.type = "MSG" => a.id <= b.id

\* A chunk or a message of a request that has been made, or an ERR.
Known(m) ==
  IF m.type = "MSG"
    THEN m.id \in 1..requestId /\ \A j \in 1..Len(todo) : m.id <= todo[j]
    ELSE m.id = 0 /\ server = "gone"

TodoInOrder ==
  /\ \A i \in 1..Len(todo) : todo[i] \in 1..requestId
  /\ \A i, j \in 1..Len(todo) : i < j => todo[i] < todo[j]

StreamInOrder ==
  /\ \A i \in 1..Len(stream) : /\ Known(stream[i])
                               /\ stream[i].type = "ERR" => stream[i].kind = "F"
  /\ \A i, j \in 1..Len(stream) : i < j => Before(stream[i], stream[j])

\* Only the last message may be incomplete: processCompleteMessages stops at the
\* first that is, and would keep the ones behind it.
QueueInOrder(q) ==
  /\ \A i \in 1..Len(q) : /\ Known(q[i])
                          /\ \A j \in 1..Len(stream) : Before(q[i], stream[j])
  /\ \A i, j \in 1..Len(q) :
       i < j => Before(q[i], q[j]) /\ q[i].id # q[j].id /\ q[i].final

\* The caller has its reply, and there is no other.
Received ==
  /\ received => /\ replies # <<>> /\ Last(replies).id = requestId
                 /\ \A i \in 1..Len(queue) : queue[i].id # requestId
                 /\ Calling => at = "messages"
  /\ phase = "idle" /\ requestId > 0 => received

\* The chunk that the server sends next, when its next request is there.
NextChunk ==
  [type |-> "MSG", kind |-> "C",
   id |-> IF todo = <<>> THEN requestId + 1 ELSE Head(todo),
   seq |-> NextNumber(serverSeq), part |-> part + 1, good |-> TRUE]

\* The chunks still to be consumed, the next one included.
Coming == IF server = "up" THEN Append(stream, NextChunk) ELSE stream

Follows(a, b) ==
  b.type = "MSG" =>
    /\ b.seq = NextNumber(a.seq)
    /\ IF a.kind = "C" THEN b.id = a.id /\ b.part = a.part + 1
                       ELSE b.id > a.id /\ b.part = 1

\* Without faults the chunks come as they were sent ...
Undisturbed == faults = 0 /\ ~cut /\ phase # "down"
Sent ==
  /\ server = "up" /\ todo = <<>> => part = 0
  /\ \A i \in 1..Len(Coming) : Coming[i].good
  /\ \A i \in 1..(Len(Coming) - 1) : Follows(Coming[i], Coming[i + 1])

\* ... and go on where the queue ends: until a failure for every message, then
\* for the answer to CloseSession, of which nothing can have been dropped.
Minds(m) == m.type = "MSG" /\ (why = "none" \/ m.id = requestId)
Begun ==
  \A i \in 1..Len(queue) : Minds(queue[i]) =>
    \A k \in 1..Len(queue[i].parts) : queue[i].parts[k] = k
Joined ==
  Coming # <<>> /\ Minds(Head(Coming)) =>
    Head(Coming).part =
      IF Open("MSG", Head(Coming).id) THEN Len(Last(queue).parts) + 1 ELSE 1

Accepted ==
  why = "none" /\ Coming # <<>> /\ Head(Coming).type = "MSG" =>
    /\ Head(Coming).seq = NextNumber(receiveSeq)
    /\ InOrder("MSG", Head(Coming).id)

\* Messages lose their bytes to the error that ends the last service, and no more
\* are asked for then.
Freed ==
  /\ FreedOnlyWhileClosing
  /\ phase \in {"idle", "service"} => why = "none"
  /\ freed # {} => why \in ErrorsAmid

ChannelInv ==
  /\ ChannelTypeOK /\ Halves /\ Freed
  /\ TodoInOrder /\ StreamInOrder /\ QueueInOrder(queue) /\ Received
  /\ Undisturbed => Sent /\ Joined /\ Accepted
  /\ faults = 0 => Begun /\ \A i \in 1..Len(replies) : Whole(replies[i])
  /\ RefusesOnlySpoilt

\* Every call returns, answered or not, unless it has failed over a packet that it
\* could not read and the process dies of what was left in the queue.
CallsEnd ==
  Calling ~> (phase \in {"idle", "down"} \/ (phase = "dead" /\ why \in ErrorsAmid))
=============================================================================
