------------------------------ MODULE UAClient ------------------------------
(***************************************************************************)
(* The open62541 client as the launcher drives it: one UA_Client object,   *)
(* its TCP connection, its SecureChannel and its session (open62541.c).    *)
(*                                                                         *)
(* UA_MULTITHREADING is 0 and every call is synchronous, so one thread is  *)
(* inside the library at a time; `at` says where it waits for the network. *)
(* A step is everything the library does between two waits, nested calls   *)
(* of UA_Client_disconnect included.  The server runs concurrently: it     *)
(* handles the request it was sent, or hangs up, at any time, and the      *)
(* client learns of either only at its next wait.                          *)
(***************************************************************************)
EXTENDS Naturals

VARIABLES
  clientState,  \* client->state
  connection,   \* client->connection.state
  attached,     \* client->channel.connection is not NULL
  at,           \* where the thread waits inside the library ("idle": outside)
  result,       \* what the last library call returned
  connected,    \* DecakeLauncher::connected_, which stateCallback clears
  opened,       \* this client object has reached SESSION
  notices,      \* stateCallback(DISCONNECTED) calls since it did
  peer,         \* the server's end of the TCP connection
  exchange      \* the request on that connection: sent, handled and answered

clientVars == <<clientState, connection, attached, at, result, connected,
                opened, notices, peer, exchange>>

\* The values of enum UA_ClientState that a synchronous client takes.
DISCONNECTED  == 0
CONNECTED     == 2
SECURECHANNEL == 3
SESSION       == 4

ClientStates == {DISCONNECTED, CONNECTED, SECURECHANNEL, SESSION}
ConnectionStates == {"CLOSED", "OPENING", "ESTABLISHED"}

\* The services UA_Client_connect waits for once the channel is open.
ConnectServices == {"endpoints", "create", "activate"}
Places == {"idle", "tcp", "hel", "opn", "user", "closing"} \cup ConnectServices
Results == {"good", "fault", "wrong", "bad"}

ClientTypeOK ==
  /\ clientState \in ClientStates
  /\ connection \in ConnectionStates
  /\ attached \in BOOLEAN
  /\ at \in Places
  /\ result \in Results
  /\ connected \in BOOLEAN
  /\ opened \in BOOLEAN
  /\ notices \in Nat
  /\ peer \in {"none", "up", "gone"}
  /\ exchange \in {"none", "sent", "answered"}

\* UA_Client_new: the struct is zeroed, so the connection reads CLOSED.
ClientInit ==
  /\ clientState = DISCONNECTED
  /\ connection = "CLOSED"
  /\ attached = FALSE
  /\ at = "idle"
  /\ result = "good"
  /\ connected = FALSE
  /\ opened = FALSE
  /\ notices = 0
  /\ peer = "none"
  /\ exchange = "none"

----------------------------------------------------------------------------
(* The pieces of UA_Client_disconnect.                                      *)

\* Slip: the callback without the test for a change.
ReportsAlways(before) == 1

\* setClientState(DISCONNECTED): the callback is called on a change only.
Reports(before) == IF before # DISCONNECTED THEN 1 ELSE 0

\* Slip: no stateCallback is installed.
FlagKept(before) == connected

\* clientStateCallback: DISCONNECTED clears the flag, the others only log.
FlagAfter(before) == connected /\ Reports(before) = 0

\* Slip: without a channel, no connection is closed.
NotHungUp(s, c) == IF s < SECURECHANNEL THEN c ELSE "CLOSED"

\* The TCP connection c after UA_Client_disconnect of a client in state s:
\* closing the SecureChannel closes the connection under it; without a
\* channel, one that is still OPENING is left alone.
HungUp(s, c) ==
  IF c = "OPENING" /\ s < SECURECHANNEL THEN "OPENING" ELSE "CLOSED"

\* UA_Client_disconnect once no session is left, entered in client state s
\* with TCP connection c.  Every path that fails calls it a second time (the
\* cleanup labels, the outer call when sendCloseSession failed).
Teardown(s, c) ==
  /\ clientState' = DISCONNECTED
  /\ connection' = HungUp(s, c)
  /\ attached' = FALSE
  /\ connected' = FlagAfter(s)
  /\ notices' = IF opened
                  THEN notices + Reports(s) + Reports(DISCONNECTED)
                  ELSE notices
  /\ peer' = "none"
  /\ exchange' = "none"
  /\ UNCHANGED opened

\* A request goes out on the connection as it is.
Send == exchange' = "sent" /\ UNCHANGED peer

\* The library call returns r to the launcher.
Return(r) == at' = "idle" /\ result' = r

\* UA_Client_disconnect of an open session: the state drops to SECURECHANNEL
\* without a callback and CloseSession is sent.
BeginClose(r) ==
  /\ clientState' = SECURECHANNEL
  /\ at' = "closing"
  /\ result' = r
  /\ Send
  /\ UNCHANGED <<connection, attached, connected, opened, notices>>

----------------------------------------------------------------------------
(* Calls into the library.                                                  *)

\* UA_Client_connect.  A client that is connected already returns at once.
ConnectCall ==
  /\ at = "idle"
  /\ IF clientState >= CONNECTED
       THEN Return("good")
       ELSE at' = "tcp" /\ UNCHANGED result
  /\ UNCHANGED <<clientState, connection, attached, connected, opened, notices,
                 peer, exchange>>

\* UA_Client_disconnect.
DisconnectCall ==
  /\ at = "idle"
  /\ IF clientState >= SESSION
       THEN BeginClose("good")
       ELSE Teardown(clientState, connection) /\ Return("good")

\* UA_Client_call or UA_Client_readValueAttribute.  Without a channel the
\* request cannot be sent; the failure runs UA_Client_disconnect.
ServiceCall ==
  /\ at = "idle"
  /\ IF attached
       THEN /\ at' = "user"
            /\ Send
            /\ UNCHANGED <<clientState, connection, attached, result,
                           connected, opened, notices>>
       ELSE Teardown(clientState, connection) /\ Return("bad")

\* UA_Client_delete of a disconnected client followed by UA_Client_new: the
\* struct is freed without closing a connection that UA_Client_disconnect left
\* OPENING, and the next one starts zeroed.
NewClient ==
  /\ at = "idle"
  /\ clientState' = DISCONNECTED
  /\ connection' = "CLOSED"
  /\ attached' = FALSE
  /\ opened' = FALSE
  /\ notices' = 0
  /\ peer' = "none"
  /\ exchange' = "none"
  /\ UNCHANGED <<at, result, connected>>

----------------------------------------------------------------------------
(* UA_Client_connect, from one wait to the next.                            *)

\* UA_ClientConnectionTCP failed or timed out; it closed its own sockets.
TcpFails ==
  /\ at = "tcp"
  /\ Teardown(clientState, "CLOSED")
  /\ Return("bad")

\* The socket is open, the channel attached and HEL sent.
TcpOpens ==
  /\ at = "tcp"
  /\ connection' = "OPENING"
  /\ attached' = TRUE
  /\ at' = "hel"
  /\ peer' = "up"
  /\ exchange' = "sent"
  /\ UNCHANGED <<clientState, result, connected, opened, notices>>

\* ACK accepted: the connection is established, and OPN is sent.
AckArrives ==
  /\ at = "hel" /\ exchange = "answered"
  /\ connection' = "ESTABLISHED"
  /\ clientState' = CONNECTED
  /\ at' = "opn"
  /\ Send
  /\ UNCHANGED <<attached, result, connected, opened, notices>>

\* The peer closed the connection before the ACK, or HEL could not be sent.
\* HelAckHandshake stores DISCONNECTED itself, without a callback.
HelClosed ==
  /\ at = "hel" /\ peer = "gone"
  /\ Teardown(DISCONNECTED, "CLOSED")
  /\ Return("bad")

\* No ACK within the timeout, or one that is refused: HelAckHandshake still
\* returns GOOD, the state becomes CONNECTED, and openSecureChannel refuses
\* the connection that is still OPENING.
AckMissing ==
  /\ at = "hel"
  /\ Teardown(CONNECTED, "OPENING")
  /\ Return("bad")

\* A chunk that is no message: HelAckHandshake itself disconnects.
AckMalformed ==
  /\ at = "hel" /\ exchange = "answered"
  /\ Teardown(clientState, "OPENING")
  /\ Return("bad")

\* The OPN response opens the channel; GetEndpoints is sent.
ChannelOpens ==
  /\ at = "opn" /\ exchange = "answered"
  /\ clientState' = SECURECHANNEL
  /\ at' = "endpoints"
  /\ Send
  /\ UNCHANGED <<connection, attached, result, connected, opened, notices>>

\* The OPN exchange failed: closed, refused or timed out.
ChannelRefused ==
  /\ at = "opn"
  /\ Teardown(clientState, connection)
  /\ Return("bad")

\* GetEndpoints, CreateSession or ActivateSession was answered with success.
NextService ==
  /\ exchange = "answered"
  /\ Send
  /\ \/ at = "endpoints" /\ at' = "create"
     \/ at = "create" /\ at' = "activate"
  /\ UNCHANGED <<clientState, connection, attached, result, connected,
                 opened, notices>>

SessionOpens ==
  /\ at = "activate" /\ exchange = "answered"
  /\ clientState' = SESSION
  /\ opened' = TRUE
  /\ notices' = 0
  /\ exchange' = "none"
  /\ Return("good")
  /\ UNCHANGED <<connection, attached, connected, peer>>

\* Slip: an ActivateSession that is refused makes another session, as on a channel
\* that was renewed (UA_Client_connectSession).
ConnectServiceFailsAgain ==
  IF at = "activate" /\ exchange = "answered"
    THEN /\ at' = "create"
         /\ Send
         /\ UNCHANGED <<clientState, connection, attached, result, connected,
                        opened, notices>>
    ELSE /\ at \in ConnectServices
         /\ Teardown(clientState, connection)
         /\ Return("bad")

\* One of them failed: a fault, no suitable endpoint, or a broken exchange.
ConnectServiceFails ==
  /\ at \in ConnectServices
  /\ Teardown(clientState, connection)
  /\ Return("bad")

----------------------------------------------------------------------------
(* __UA_Client_Service on behalf of the launcher, and CloseSession.         *)

\* A response to the launcher's request arrives; only `result` depends on it.
Receive ==
  /\ at = "user" /\ exchange = "answered"
  /\ exchange' = "none"
  /\ UNCHANGED <<clientState, connection, attached, connected, opened, notices,
                 peer>>

\* The response arrived and was decoded.
ServiceAnswered ==
  /\ Receive
  /\ Return("good")

\* A ServiceFault, a response that does not decode or a bad operation result.
ServiceFaulted ==
  /\ Receive
  /\ Return("fault")

\* A response of another service: processServiceResponse only stores
\* BADCOMMUNICATIONERROR in the response header.
ServiceMismatched ==
  /\ Receive
  /\ Return("wrong")

\* Slip: the error is returned and the client left as it is.
ServiceClosedUnnoticed ==
  /\ at = "user" /\ peer = "gone"
  /\ exchange' = "none"
  /\ Return("bad")
  /\ UNCHANGED <<clientState, connection, attached, connected, opened, notices,
                 peer>>

\* The connection is closed: sending failed, or BADCONNECTIONCLOSED was
\* received.  No CloseSession can be sent on it.
ServiceClosed ==
  /\ at = "user" /\ peer = "gone"
  /\ Teardown(clientState, "CLOSED")
  /\ Return("bad")

\* Slip: a timeout does not disconnect.
ServiceTimesOutOnly ==
  /\ at = "user"
  /\ exchange' = "none"
  /\ Return("good")
  /\ UNCHANGED <<clientState, connection, attached, connected, opened, notices,
                 peer>>

\* No response within the timeout, or a chunk the channel refuses: the
\* library disconnects, and sends CloseSession first.
ServiceTimesOut ==
  /\ at = "user"
  /\ BeginClose("bad")

\* Slip: CloseSession waits for its response without a timeout.
CloseEndsAnswered ==
  /\ at = "closing" /\ exchange = "answered"
  /\ Teardown(clientState, connection)
  /\ at' = "idle"
  /\ UNCHANGED result

\* CloseSession is over, answered or not; if not, the nested
\* UA_Client_disconnect has done the work of the outer one.
CloseEnds ==
  /\ at = "closing"
  /\ Teardown(clientState, connection)
  /\ at' = "idle"
  /\ UNCHANGED result

ConnectStep ==
  \/ TcpFails \/ TcpOpens
  \/ AckArrives \/ HelClosed \/ AckMissing \/ AckMalformed
  \/ ChannelOpens \/ ChannelRefused
  \/ NextService \/ SessionOpens \/ ConnectServiceFails

ServiceStep ==
  \/ ServiceAnswered \/ ServiceFaulted \/ ServiceMismatched
  \/ ServiceClosed \/ ServiceTimesOut

\* The library's own steps: the call in progress goes on.
LibraryStep == ConnectStep \/ ServiceStep \/ CloseEnds

----------------------------------------------------------------------------
(* The server, and the network before it.                                   *)

\* The server handles the request it was sent and answers it.
ServerAnswers ==
  /\ peer = "up" /\ exchange = "sent"
  /\ exchange' = "answered"
  /\ UNCHANGED <<clientState, connection, attached, at, result, connected,
                 opened, notices, peer>>

\* The server, or the network for it, ends the connection: a restart, an
\* expired SecureChannel that nothing renews, a cut cable.
ServerHangsUp ==
  /\ peer = "up"
  /\ peer' = "gone"
  /\ UNCHANGED <<clientState, connection, attached, at, result, connected,
                 opened, notices, exchange>>

----------------------------------------------------------------------------
(* The client under any caller that keeps to the launcher's discipline: it  *)
(* connects a new client, sets connected_ after a connect that returned     *)
(* GOOD, and deletes a client it has disconnected.                          *)

\* connectClient line 94.
MarkConnected ==
  /\ at = "idle"
  /\ result = "good"
  /\ clientState = SESSION
  /\ connected' = TRUE
  /\ UNCHANGED <<clientState, connection, attached, at, result, opened, notices,
                 peer, exchange>>

Caller ==
  \/ (~opened \/ clientState = SESSION) /\ ConnectCall
  \/ MarkConnected
  \/ DisconnectCall
  \/ ServiceCall
  \/ clientState = DISCONNECTED /\ NewClient

ClientNext == LibraryStep \/ Caller \/ ServerAnswers \/ ServerHangsUp
ClientSpec == ClientInit /\ [][ClientNext]_clientVars

\* The library never waits without a timeout, so its steps are not put off
\* forever; nothing is assumed of the server or of the caller.
FairClientSpec == ClientSpec /\ WF_clientVars(LibraryStep)

----------------------------------------------------------------------------
(* Properties.                                                              *)

\* A client object with an open session, and one without a connection (the
\* socket of a handshake that failed may be left OPENING).
Up == clientState = SESSION /\ attached /\ connection = "ESTABLISHED" /\ opened
Down == clientState = DISCONNECTED /\ ~attached /\ connection # "ESTABLISHED"

\* What the library has built when it waits for the server.
HalfOpen(s, c) == clientState = s /\ attached /\ connection = c

\* Where the thread waits tells what stands: the layers come up in order, a
\* session is closed from the top, and no error path leaves one of them behind.
\* This is the inductive invariant of UAClient_proofs.
ClientInv ==
  /\ ClientTypeOK
  /\ at = "idle" => Up \/ Down
  /\ at = "tcp" => Down
  /\ at = "hel" => HalfOpen(DISCONNECTED, "OPENING")
  /\ at = "opn" => HalfOpen(CONNECTED, "ESTABLISHED")
  /\ at \in ConnectServices => HalfOpen(SECURECHANNEL, "ESTABLISHED")
  /\ at = "user" => Up
  /\ at = "closing" => HalfOpen(SECURECHANNEL, "ESTABLISHED") /\ opened
  /\ at \notin {"idle", "user", "closing"} => ~opened
  /\ connected => opened /\ clientState # DISCONNECTED
  /\ opened => notices = (IF clientState = DISCONNECTED THEN 1 ELSE 0)
  /\ at = "idle" /\ result = "bad" => clientState = DISCONNECTED

\* The flag that isConnected() reads is never left set on a client that has
\* lost its session: a set flag means a session, or one that CloseSession is
\* just taking down inside the library.
FlagTruthful == connected => clientState = SESSION \/ at = "closing"

\* Outside the library a client is either fully connected or fully down: no
\* call returns with a half-open channel, or with the server still holding an
\* established connection of a client that reads DISCONNECTED.
NothingHalfOpen ==
  at = "idle" =>
    \/ clientState = SESSION /\ attached /\ connection = "ESTABLISHED"
    \/ clientState = DISCONNECTED /\ ~attached /\ connection # "ESTABLISHED"

\* The loss of a session is reported to stateCallback exactly once, however
\* many nested and repeated UA_Client_disconnect calls take it down.
LossReportedOnce ==
  opened /\ at = "idle" => notices = (IF clientState = SESSION THEN 0 ELSE 1)

\* A call that returned with a connection error has torn the client down, so
\* that isConnected() sends the launcher to connectRetry and not on.
ErrorMeansDown ==
  at = "idle" /\ result = "bad" => clientState = DISCONNECTED /\ ~connected

\* "Disconnect and close a connection to the selected server"
\* (open62541.h:27217): no connection outlives the call that gave it up.
ConnectionClosed ==
  at = "idle" /\ clientState = DISCONNECTED => connection = "CLOSED"

\* The waits that are still ahead of a call, the present one included.
WaitsLeft ==
  CASE at = "tcp" -> 6 [] at = "hel" -> 5 [] at = "opn" -> 4
    [] at = "endpoints" -> 3 [] at = "create" -> 2 [] at = "activate" -> 1
    [] at = "user" -> 2 [] at = "closing" -> 1
    [] OTHER -> 0

\* No call waits more than six times, whatever the answers are: nothing that the
\* library tries on a failure leads back to where it has waited before.
CallsShorten ==
  [][LibraryStep => WaitsLeft' \in 0..(WaitsLeft - 1)]_clientVars

\* Every call into the library returns: the nested disconnects, and the
\* CloseSession they wait for, end whatever the server does.
CallsReturn == at # "idle" ~> at = "idle"

\* A request sent to a server that is gone ends with the flag cleared, so the
\* launcher's next isConnected() sees the loss.
LossDiscovered ==
  at = "user" /\ peer = "gone" /\ exchange = "sent" ~> at = "idle" /\ ~connected

\* What the launcher is promised: see LinkContract.
Link == INSTANCE LinkContract
  WITH link <- IF clientState = SESSION \/ at = "closing" THEN "up" ELSE "down",
       flag <- connected

KeepsContract == Link!LinkSpec
=============================================================================
