--------------------------- MODULE UAClient_proofs --------------------------
(***************************************************************************)
(* The safety properties of UAClient, proved from its inductive invariant  *)
(* ClientInv, and its implementation of LinkContract.  The module has no   *)
(* constants: notices is unbounded as far as the proof is concerned, and   *)
(* the proofs do without the state graph that TLC explores.                *)
(***************************************************************************)
EXTENDS UAClient, TLAPS

\* The enumeration's values, for the steps that compare states by order.
USE DEF DISCONNECTED, CONNECTED, SECURECHANNEL, SESSION

\* setClientState(DISCONNECTED) reports a change, and only a change.
LEMMA ReportsOnChange ==
  ASSUME NEW s \in ClientStates
  PROVE  /\ Reports(s) \in {0, 1}
         /\ Reports(s) = 0 <=> s = DISCONNECTED
  BY DEF Reports, ClientStates

\* UA_Client_disconnect leaves nothing standing, from any state and from any
\* connection that its caller can have; an open session is reported once.
LEMMA TeardownTakesAllDown ==
  ASSUME ClientInv,
         NEW s \in ClientStates,
         NEW c \in ConnectionStates,
         opened => s = clientState,
         Teardown(s, c)
  PROVE  /\ clientState' = DISCONNECTED
         /\ connection' \in ConnectionStates \ {"ESTABLISHED"}
         /\ attached' = FALSE
         /\ connected' = FALSE
         /\ opened' = opened
         /\ notices' \in Nat
         /\ opened' => notices' = 1
         /\ peer' = "none" /\ exchange' = "none"
<1>1. connection' \in ConnectionStates \ {"ESTABLISHED"}
  BY DEF Teardown, HungUp, ConnectionStates
<1>2. connected' = FALSE
  <2>1. Reports(s) = 0 => s = DISCONNECTED
    BY ReportsOnChange
  <2>2. connected => opened /\ s # DISCONNECTED
    BY Zenon DEF ClientInv
  <2> QED
    BY <2>1, <2>2, Zenon DEF Teardown, FlagAfter
<1>3. notices \in Nat /\ Reports(s) \in {0, 1} /\ Reports(DISCONNECTED) = 0
  BY ReportsOnChange DEF ClientInv, ClientTypeOK, ClientStates
<1>4. notices' \in Nat
  BY <1>3 DEF Teardown
<1>5. ASSUME opened PROVE notices' = 1
  <2>1. s = clientState /\ notices = (IF clientState = DISCONNECTED THEN 1 ELSE 0)
    BY <1>5 DEF ClientInv
  <2>2. notices' = notices + Reports(s) + Reports(DISCONNECTED)
    BY <1>5 DEF Teardown
  <2> QED
    BY <2>1, <2>2, ReportsOnChange DEF Reports
<1> QED
  BY <1>1, <1>2, <1>4, <1>5 DEF Teardown

\* A call that ends in UA_Client_disconnect leaves a client that is down.
LEMMA TeardownKeepsInv ==
  ASSUME ClientInv,
         NEW s \in ClientStates,
         NEW c \in ConnectionStates,
         opened => s = clientState,
         Teardown(s, c),
         at' = "idle",
         result' \in Results
  PROVE  ClientInv'
<1>1. /\ clientState' = DISCONNECTED
      /\ connection' \in ConnectionStates \ {"ESTABLISHED"}
      /\ attached' = FALSE
      /\ connected' = FALSE
      /\ opened' = opened
      /\ notices' \in Nat
      /\ opened' => notices' = 1
      /\ peer' = "none" /\ exchange' = "none"
  BY TeardownTakesAllDown
<1>2. ClientTypeOK'
  BY <1>1 DEF ClientInv, ClientTypeOK, Places, ClientStates
<1> QED
  BY <1>1, <1>2 DEF ClientInv, Down, ConnectServices

\* UA_Client_disconnect of an open session, up to CloseSession.
LEMMA BeginCloseKeepsInv ==
  ASSUME ClientInv, Up, NEW r \in Results, BeginClose(r)
  PROVE  ClientInv'
<1>1. ClientTypeOK'
  BY DEF ClientInv, ClientTypeOK, BeginClose, Send, Places, ClientStates
<1> QED
  BY <1>1 DEF ClientInv, BeginClose, Send, Up, HalfOpen, ConnectServices

LEMMA InitInv == ClientInit => ClientInv
<1> SUFFICES ASSUME ClientInit PROVE ClientInv
  OBVIOUS
<1>1. ClientTypeOK
  BY DEF ClientInit, ClientTypeOK, ClientStates, ConnectionStates, Places, Results
<1>2. Down
  BY DEF ClientInit, Down
<1> QED
  BY <1>1, <1>2 DEF ClientInit, ClientInv, ConnectServices

\* The steps of UA_Client_connect.
LEMMA ConnectStepKeepsInv ==
  ASSUME ClientInv, ConnectStep
  PROVE  ClientInv'
<1> USE DEF ConnectServices
<1>1. /\ ClientTypeOK
      /\ clientState \in ClientStates /\ connection \in ConnectionStates
      /\ "bad" \in Results
  BY DEF ClientInv, ClientTypeOK, Results
<1>2. CASE TcpFails
  BY <1>1, <1>2, TeardownKeepsInv DEF TcpFails, Return, ConnectionStates
<1>3. CASE TcpOpens
  <2>1. ClientTypeOK'
    BY <1>1, <1>3 DEF TcpOpens, ClientTypeOK, Places, ConnectionStates
  <2> QED
    BY <1>3, <2>1 DEF TcpOpens, ClientInv, Down, HalfOpen
<1>4. CASE AckArrives
  <2>1. ClientTypeOK'
    BY <1>1, <1>4 DEF AckArrives, Send, ClientTypeOK, Places, ClientStates,
                      ConnectionStates
  <2> QED
    BY <1>4, <2>1 DEF AckArrives, Send, ClientInv, HalfOpen
<1>5. CASE HelClosed
  <2>1. ~opened
    BY <1>5 DEF HelClosed, ClientInv
  <2> QED
    BY <1>1, <1>5, <2>1, TeardownKeepsInv
    DEF HelClosed, Return, ClientStates, ConnectionStates
<1>6. CASE AckMissing
  <2>1. ~opened
    BY <1>6 DEF AckMissing, ClientInv
  <2> QED
    BY <1>1, <1>6, <2>1, TeardownKeepsInv
    DEF AckMissing, Return, ClientStates, ConnectionStates
<1>7. CASE AckMalformed
  BY <1>1, <1>7, TeardownKeepsInv DEF AckMalformed, Return, ConnectionStates
<1>8. CASE ChannelOpens
  <2>1. ClientTypeOK'
    BY <1>1, <1>8 DEF ChannelOpens, Send, ClientTypeOK, Places, ClientStates
  <2> QED
    BY <1>8, <2>1 DEF ChannelOpens, Send, ClientInv, HalfOpen
<1>9. CASE ChannelRefused
  BY <1>1, <1>9, TeardownKeepsInv DEF ChannelRefused, Return
<1>10. CASE NextService
  <2>1. ClientTypeOK'
    BY <1>1, <1>10 DEF NextService, Send, ClientTypeOK, Places
  <2> QED
    BY <1>10, <2>1 DEF NextService, Send, ClientInv, HalfOpen
<1>11. CASE SessionOpens
  <2>1. ClientTypeOK'
    BY <1>1, <1>11 DEF SessionOpens, Return, ClientTypeOK, Places, ClientStates,
                       Results
  <2> QED
    BY <1>11, <2>1 DEF SessionOpens, Return, ClientInv, HalfOpen, Up
<1>12. CASE ConnectServiceFails
  BY <1>1, <1>12, TeardownKeepsInv DEF ConnectServiceFails, Return
<1> QED
  BY <1>2, <1>3, <1>4, <1>5, <1>6, <1>7, <1>8, <1>9, <1>10, <1>11, <1>12
  DEF ConnectStep

\* The steps of a service call and of CloseSession.
LEMMA ServiceStepKeepsInv ==
  ASSUME ClientInv, ServiceStep \/ CloseEnds
  PROVE  ClientInv'
<1>1. /\ ClientTypeOK
      /\ clientState \in ClientStates /\ connection \in ConnectionStates
      /\ "CLOSED" \in ConnectionStates
      /\ "bad" \in Results /\ result \in Results
  BY DEF ClientInv, ClientTypeOK, Results, ConnectionStates
<1>2. ASSUME Receive, NEW r \in {"good", "fault", "wrong"}, Return(r)
      PROVE  ClientInv'
  <2>1. ClientTypeOK'
    BY <1>1, <1>2 DEF Receive, Return, ClientTypeOK, Places, Results
  <2> QED
    BY <1>2, <2>1 DEF Receive, Return, ClientInv, Up, Down, ConnectServices
<1>3. CASE ServiceAnswered \/ ServiceFaulted \/ ServiceMismatched
  BY <1>2, <1>3 DEF ServiceAnswered, ServiceFaulted, ServiceMismatched
<1>4. CASE ServiceClosed
  BY <1>1, <1>4, TeardownKeepsInv DEF ServiceClosed, Return
<1>5. CASE ServiceTimesOut
  <2>1. Up
    BY <1>5 DEF ServiceTimesOut, ClientInv
  <2> QED
    BY <1>1, <1>5, <2>1, BeginCloseKeepsInv DEF ServiceTimesOut
<1>6. CASE CloseEnds
  BY <1>1, <1>6, TeardownKeepsInv DEF CloseEnds
<1> QED
  BY <1>3, <1>4, <1>5, <1>6 DEF ServiceStep

\* The launcher's calls, the server and the network.
LEMMA OtherStepsKeepInv ==
  ASSUME ClientInv, Caller \/ ServerAnswers \/ ServerHangsUp
  PROVE  ClientInv'
<1> USE DEF ConnectServices
<1>1. /\ ClientTypeOK
      /\ clientState \in ClientStates /\ connection \in ConnectionStates
      /\ "bad" \in Results /\ "good" \in Results
  BY DEF ClientInv, ClientTypeOK, Results
<1>2. CASE (~opened \/ clientState = SESSION) /\ ConnectCall
  <2>1. ClientTypeOK'
    BY <1>1, <1>2 DEF ConnectCall, Return, ClientTypeOK, Places
  <2>2. CASE clientState >= CONNECTED
    BY <1>2, <2>1, <2>2 DEF ConnectCall, Return, ClientInv, Up, Down
  <2>3. CASE ~(clientState >= CONNECTED)
    BY <1>1, <1>2, <2>1, <2>3
    DEF ConnectCall, ClientInv, Up, Down, ClientStates
  <2> QED
    BY <2>2, <2>3
<1>3. CASE MarkConnected
  <2>1. ClientTypeOK'
    BY <1>1, <1>3 DEF MarkConnected, ClientTypeOK
  <2> QED
    BY <1>3, <2>1 DEF MarkConnected, ClientInv, Up, Down
<1>4. CASE DisconnectCall
  <2>1. CASE clientState >= SESSION
    <3>1. Up
      BY <1>4, <2>1 DEF DisconnectCall, ClientInv, Down
    <3> QED
      BY <1>1, <1>4, <2>1, <3>1, BeginCloseKeepsInv DEF DisconnectCall
  <2>2. CASE ~(clientState >= SESSION)
    BY <1>1, <1>4, <2>2, TeardownKeepsInv DEF DisconnectCall, Return
  <2> QED
    BY <2>1, <2>2
<1>5. CASE ServiceCall
  <2>1. CASE attached
    <3>1. ClientTypeOK'
      BY <1>1, <1>5, <2>1 DEF ServiceCall, Send, ClientTypeOK, Places
    <3>2. Up
      BY <1>5, <2>1 DEF ServiceCall, ClientInv, Down
    <3> QED
      BY <1>5, <2>1, <3>1, <3>2 DEF ServiceCall, Send, ClientInv, Up
  <2>2. CASE ~attached
    BY <1>1, <1>5, <2>2, TeardownKeepsInv DEF ServiceCall, Return
  <2> QED
    BY <2>1, <2>2
<1>6. CASE clientState = DISCONNECTED /\ NewClient
  <2>1. ClientTypeOK'
    BY <1>1, <1>6 DEF NewClient, ClientTypeOK, ClientStates, ConnectionStates
  <2> QED
    BY <1>6, <2>1 DEF NewClient, ClientInv, Down
<1>7. CASE ServerAnswers
  <2>1. ClientTypeOK'
    BY <1>1, <1>7 DEF ServerAnswers, ClientTypeOK
  <2> QED
    BY <1>7, <2>1 DEF ServerAnswers, ClientInv, Up, Down, HalfOpen
<1>8. CASE ServerHangsUp
  <2>1. ClientTypeOK'
    BY <1>1, <1>8 DEF ServerHangsUp, ClientTypeOK
  <2> QED
    BY <1>8, <2>1 DEF ServerHangsUp, ClientInv, Up, Down, HalfOpen
<1> QED
  BY <1>2, <1>3, <1>4, <1>5, <1>6, <1>7, <1>8 DEF Caller

----------------------------------------------------------------------------

LEMMA ClientStepKeepsInv ==
  ASSUME ClientInv, [ClientNext]_clientVars PROVE ClientInv'
<1>1. CASE LibraryStep
  BY <1>1, ConnectStepKeepsInv, ServiceStepKeepsInv DEF LibraryStep
<1>2. CASE Caller \/ ServerAnswers \/ ServerHangsUp
  BY <1>2, OtherStepsKeepInv
<1>3. CASE UNCHANGED clientVars
  BY <1>3 DEF clientVars, ClientInv, ClientTypeOK, Up, Down, HalfOpen
<1> QED
  BY <1>1, <1>2, <1>3 DEF ClientNext

\* Every reachable state satisfies ClientInv: where the thread waits inside the
\* library tells which of connection, channel and session stand.
THEOREM ClientInvariance == ClientSpec => []ClientInv
<1>1. ClientInv /\ [ClientNext]_clientVars => ClientInv'
  BY ClientStepKeepsInv
<1> QED
  BY <1>1, InitInv, PTL DEF ClientSpec

\* The variables of UAClient keep their types.
THEOREM ClientTypeCorrect == ClientSpec => []ClientTypeOK
<1>1. ClientInv => ClientTypeOK
  BY DEF ClientInv
<1> QED
  BY <1>1, ClientInvariance, PTL

\* The flag is set only while the session stands, or while it is closed.
LEMMA FlagFromInv == ClientInv => FlagTruthful
  BY Zenon DEF ClientInv, FlagTruthful, Up, Down, ConnectServices,
     ClientTypeOK, Places

\* isConnected() never reads TRUE on a client that has lost its session.
THEOREM FlagIsTruthful == ClientSpec => []FlagTruthful
BY FlagFromInv, ClientInvariance, PTL

\* No library call returns with a client that is neither up nor down.
THEOREM NothingStaysHalfOpen == ClientSpec => []NothingHalfOpen
<1>1. ClientInv => NothingHalfOpen
  BY DEF ClientInv, NothingHalfOpen, Up, Down
<1> QED
  BY <1>1, ClientInvariance, PTL

\* stateCallback hears of the end of a session exactly once.
THEOREM LossIsReportedOnce == ClientSpec => []LossReportedOnce
<1>1. ClientInv => LossReportedOnce
  BY DEF ClientInv, LossReportedOnce, Up, Down
<1> QED
  BY <1>1, ClientInvariance, PTL

\* A connection error comes back only from a client that was torn down.
THEOREM ErrorIsDown == ClientSpec => []ErrorMeansDown
<1>1. ClientInv => ErrorMeansDown
  BY DEF ClientInv, ErrorMeansDown
<1> QED
  BY <1>1, ClientInvariance, PTL

----------------------------------------------------------------------------
(* The calls and the library's steps as the launcher sees them.             *)

ConnectPlaces == {"tcp", "hel", "opn"} \cup ConnectServices

\* UA_Client_disconnect is over, or waits for CloseSession.
LEMMA DisconnectEffect ==
  ASSUME ClientInv, DisconnectCall
  PROVE  /\ ClientInv'
         /\ \/ at' = "closing"
            \/ /\ at' = "idle" /\ clientState' = DISCONNECTED
               /\ connected' = FALSE /\ result' = "good"
<1>1. ClientInv'
  BY OtherStepsKeepInv DEF Caller
<1>2. connection \in ConnectionStates /\ clientState \in ClientStates
  BY DEF ClientInv, ClientTypeOK
<1>3. CASE clientState >= SESSION
  BY <1>1, <1>3 DEF DisconnectCall, BeginClose
<1>4. CASE ~(clientState >= SESSION)
  BY <1>1, <1>2, <1>4, TeardownTakesAllDown DEF DisconnectCall, Return
<1> QED
  BY <1>3, <1>4

\* A service request is on its way over a session, or was not sent.
LEMMA ServiceEffect ==
  ASSUME ClientInv, ServiceCall
  PROVE  /\ ClientInv'
         /\ \/ /\ attached /\ clientState = SESSION
               /\ at' = "user" /\ exchange' = "sent"
               /\ UNCHANGED <<clientState, connected>>
            \/ /\ ~attached /\ at' = "idle" /\ clientState' = DISCONNECTED
               /\ connected' = FALSE /\ result' = "bad"
<1>1. ClientInv'
  BY OtherStepsKeepInv DEF Caller
<1>2. connection \in ConnectionStates /\ clientState \in ClientStates
  BY DEF ClientInv, ClientTypeOK
<1>3. CASE attached
  <2>1. Up
    BY <1>3 DEF ServiceCall, ClientInv, Down
  <2> QED
    BY <1>1, <1>3, <2>1 DEF ServiceCall, Send, Up
<1>4. CASE ~attached
  BY <1>1, <1>2, <1>4, TeardownTakesAllDown DEF ServiceCall, Return
<1> QED
  BY <1>3, <1>4

\* A new client dials.
LEMMA ConnectEffect ==
  ASSUME ClientInv, ~opened, ConnectCall
  PROVE  ClientInv' /\ at' = "tcp" /\ UNCHANGED <<clientState, connected, opened>>
<1>1. ClientInv'
  BY OtherStepsKeepInv DEF Caller
<1>2. clientState = DISCONNECTED
  BY DEF ClientInv, ConnectCall, Up, Down
<1> QED
  BY <1>1, <1>2 DEF ConnectCall

\* While a connect is under way the flag is down; it ends up or down.
LEMMA ConnectStepEffect ==
  ASSUME ClientInv, ConnectStep
  PROVE  /\ at \in ConnectPlaces
         /\ connected' = FALSE
         /\ \/ at' \in ConnectPlaces
            \/ at' = "idle" /\ result' = "good" /\ clientState' = SESSION
            \/ at' = "idle" /\ result' = "bad" /\ clientState' = DISCONNECTED
<1>1. /\ clientState \in ClientStates /\ connection \in ConnectionStates
      /\ "CLOSED" \in ConnectionStates /\ "OPENING" \in ConnectionStates
      /\ DISCONNECTED \in ClientStates /\ CONNECTED \in ClientStates
      /\ connected \in BOOLEAN
  BY DEF ClientInv, ClientTypeOK, ClientStates, ConnectionStates
<1>2. at \in ConnectPlaces
  BY DEF ConnectStep, TcpFails, TcpOpens, AckArrives, HelClosed, AckMissing,
         AckMalformed, ChannelOpens, ChannelRefused, NextService, SessionOpens,
         ConnectServiceFails, ConnectPlaces, ConnectServices
<1>3. ~opened
  BY <1>2 DEF ClientInv, ConnectPlaces, ConnectServices
<1>4. connected = FALSE
  <2>1. ~connected
    BY <1>3, Zenon DEF ClientInv
  <2> QED
    BY <1>1, <2>1, Zenon
<1>5. CASE TcpOpens \/ AckArrives \/ ChannelOpens \/ NextService \/ SessionOpens
  BY <1>2, <1>4, <1>5
  DEF TcpOpens, AckArrives, ChannelOpens, NextService, SessionOpens, Return,
      ConnectPlaces, ConnectServices
<1>6. CASE \/ TcpFails \/ HelClosed \/ AckMissing \/ AckMalformed
           \/ ChannelRefused \/ ConnectServiceFails
  BY <1>1, <1>2, <1>3, <1>6, TeardownTakesAllDown
  DEF TcpFails, HelClosed, AckMissing, AckMalformed, ChannelRefused,
      ConnectServiceFails, Return
<1> QED
  BY <1>5, <1>6 DEF ConnectStep

\* A service call returns over the session that it was sent on, or with an
\* error over none; CloseSession ends without one.
LEMMA ServiceStepEffect ==
  ASSUME ClientInv, ServiceStep \/ CloseEnds
  PROVE  \/ /\ at = "user" /\ exchange = "answered" /\ at' = "idle"
            /\ clientState' = SESSION /\ UNCHANGED connected
         \/ /\ at = "user" /\ at' = "idle" /\ result' = "bad"
            /\ clientState' = DISCONNECTED /\ connected' = FALSE
         \/ at = "user" /\ at' = "closing" /\ result' = "bad"
         \/ /\ at = "closing" /\ at' = "idle" /\ UNCHANGED result
            /\ clientState' = DISCONNECTED /\ connected' = FALSE
<1>1. /\ clientState \in ClientStates /\ connection \in ConnectionStates
      /\ "CLOSED" \in ConnectionStates
  BY DEF ClientInv, ClientTypeOK, ConnectionStates
<1>2. CASE ServiceAnswered \/ ServiceFaulted \/ ServiceMismatched
  BY <1>2 DEF ServiceAnswered, ServiceFaulted, ServiceMismatched, Receive,
              Return, ClientInv, Up
<1>3. CASE ServiceClosed
  BY <1>1, <1>3, TeardownTakesAllDown DEF ServiceClosed, Return
<1>4. CASE ServiceTimesOut
  BY <1>4 DEF ServiceTimesOut, BeginClose
<1>5. CASE CloseEnds
  BY <1>1, <1>5, TeardownTakesAllDown DEF CloseEnds
<1> QED
  BY <1>2, <1>3, <1>4, <1>5 DEF ServiceStep

----------------------------------------------------------------------------
(* The implementation of LinkContract: the link is up from SessionOpens to  *)
(* the end of the disconnect that takes the session down.                   *)

\* Steps that neither end a session nor touch the flag.
LEMMA SameLink ==
  ASSUME UNCHANGED connected,
         (clientState = SESSION \/ at = "closing")' <=>
           (clientState = SESSION \/ at = "closing")
  PROVE  UNCHANGED Link!linkVars
  BY DEF Link!linkVars

\* A disconnect from the session, or at the end of CloseSession, loses the
\* link and the flag together; one of a client that is down does nothing.
LEMMA TeardownLoses ==
  ASSUME ClientInv,
         NEW s \in ClientStates,
         NEW c \in ConnectionStates,
         opened => s = clientState,
         Teardown(s, c),
         at' = "idle"
  PROVE  [Link!LinkNext]_(Link!linkVars)
<1>1. clientState' = DISCONNECTED /\ connected' = FALSE
  BY TeardownTakesAllDown
<1>2. CASE clientState = SESSION \/ at = "closing"
  BY <1>1, <1>2 DEF Link!LinkNext, Link!Lose
<1>3. CASE ~(clientState = SESSION \/ at = "closing")
  <2>1. connected \in BOOLEAN
    BY DEF ClientInv, ClientTypeOK
  <2>2. ~connected
    BY <1>3, FlagFromInv, Zenon DEF FlagTruthful
  <2>3. UNCHANGED connected
    BY <1>1, <2>1, <2>2, Zenon
  <2> QED
    BY <1>1, <1>3, <2>3, SameLink
<1> QED
  BY <1>2, <1>3

LEMMA InitLink == ClientInit => Link!LinkInit
  BY DEF ClientInit, Link!LinkInit

\* Every step of the client under its caller and its server is a step of the
\* contract, or none.
LEMMA StepLink ==
  ASSUME ClientInv, [ClientNext]_clientVars
  PROVE  [Link!LinkNext]_(Link!linkVars)
<1>1. /\ clientState \in ClientStates /\ connection \in ConnectionStates
      /\ "CLOSED" \in ConnectionStates /\ "OPENING" \in ConnectionStates
      /\ DISCONNECTED \in ClientStates /\ CONNECTED \in ClientStates
  BY DEF ClientInv, ClientTypeOK, ClientStates, ConnectionStates
<1>2. CASE ConnectStep
  <2>1. at \notin {"idle", "user", "closing"} /\ clientState # SESSION /\ ~opened
    BY <1>2 DEF ConnectStep, TcpFails, TcpOpens, AckArrives, HelClosed,
                AckMissing, AckMalformed, ChannelOpens, ChannelRefused,
                NextService, SessionOpens, ConnectServiceFails, ClientInv,
                Down, HalfOpen, ConnectServices
  <2>2. CASE SessionOpens
    BY <2>1, <2>2 DEF SessionOpens, Return, Link!LinkNext, Link!Establish
  <2>3. CASE TcpOpens \/ AckArrives \/ ChannelOpens \/ NextService
    <3>1. UNCHANGED connected /\ clientState' # SESSION /\ at' # "closing"
      BY <2>1, <2>3 DEF TcpOpens, AckArrives, ChannelOpens, NextService
    <3> QED
      BY <2>1, <3>1, SameLink
  <2>4. CASE \/ TcpFails \/ HelClosed \/ AckMissing \/ AckMalformed
             \/ ChannelRefused \/ ConnectServiceFails
    BY <1>1, <2>1, <2>4, TeardownLoses
    DEF TcpFails, HelClosed, AckMissing, AckMalformed, ChannelRefused,
        ConnectServiceFails, Return
  <2> QED
    BY <1>2, <2>2, <2>3, <2>4 DEF ConnectStep
<1>3. CASE ServiceStep
  <2>1. CASE ServiceClosed
    BY <1>1, <2>1, TeardownLoses DEF ServiceClosed, Return
  <2>2. CASE ServiceTimesOut
    <3>1. clientState = SESSION
      BY <2>2 DEF ServiceTimesOut, ClientInv, Up
    <3> QED
      BY <2>2, <3>1, SameLink DEF ServiceTimesOut, BeginClose
  <2>3. CASE ServiceAnswered \/ ServiceFaulted \/ ServiceMismatched
    BY <2>3, SameLink
    DEF ServiceAnswered, ServiceFaulted, ServiceMismatched, Receive, Return
  <2> QED
    BY <1>3, <2>1, <2>2, <2>3 DEF ServiceStep
<1>4. CASE CloseEnds
  BY <1>1, <1>4, TeardownLoses DEF CloseEnds
<1>5. CASE ConnectCall
  BY <1>5, SameLink DEF ConnectCall, Return
<1>6. CASE MarkConnected
  BY <1>6 DEF MarkConnected, Link!LinkNext, Link!Acknowledge
<1>7. CASE DisconnectCall
  <2>1. CASE clientState >= SESSION
    <3>1. clientState = SESSION
      BY <1>1, <2>1 DEF ClientStates
    <3> QED
      BY <1>7, <2>1, <3>1, SameLink DEF DisconnectCall, BeginClose
  <2>2. CASE ~(clientState >= SESSION)
    BY <1>1, <1>7, <2>2, TeardownLoses DEF DisconnectCall, Return
  <2> QED
    BY <2>1, <2>2
<1>8. CASE ServiceCall
  <2>1. CASE attached
    BY <1>8, <2>1, SameLink DEF ServiceCall
  <2>2. CASE ~attached
    BY <1>1, <1>8, <2>2, TeardownLoses DEF ServiceCall, Return
  <2> QED
    BY <2>1, <2>2
<1>9. CASE clientState = DISCONNECTED /\ NewClient
  BY <1>9, SameLink DEF NewClient
<1>10. CASE ServerAnswers \/ ServerHangsUp
  BY <1>10, SameLink DEF ServerAnswers, ServerHangsUp
<1>11. CASE UNCHANGED clientVars
  BY <1>11, SameLink DEF clientVars
<1> QED
  BY <1>2, <1>3, <1>4, <1>5, <1>6, <1>7, <1>8, <1>9, <1>10, <1>11
  DEF ClientNext, LibraryStep, Caller

\* The client library and the launcher's callback keep the contract that
\* isConnected() relies on.
THEOREM ContractKept == ClientSpec => KeepsContract
<1>1. ClientInv /\ [ClientNext]_clientVars => [Link!LinkNext]_(Link!linkVars)
  BY StepLink
<1> QED
  BY <1>1, InitLink, ClientInvariance, PTL
  DEF ClientSpec, KeepsContract, Link!LinkSpec
----------------------------------------------------------------------------
(* The waits of a call are bounded, whatever the answers are.               *)

LEMMA LibraryShortens == LibraryStep => WaitsLeft' \in 0..(WaitsLeft - 1)
<1>1. CASE \/ TcpFails \/ HelClosed \/ AckMissing \/ AckMalformed
           \/ ChannelRefused \/ SessionOpens \/ ConnectServiceFails
  BY <1>1 DEF TcpFails, HelClosed, AckMissing, AckMalformed, ChannelRefused,
              SessionOpens, ConnectServiceFails, ConnectServices, Return, WaitsLeft
<1>2. CASE TcpOpens \/ AckArrives \/ ChannelOpens \/ NextService
  BY <1>2 DEF TcpOpens, AckArrives, ChannelOpens, NextService, WaitsLeft
<1>3. CASE \/ ServiceAnswered \/ ServiceFaulted \/ ServiceMismatched
           \/ ServiceClosed \/ ServiceTimesOut \/ CloseEnds
  BY <1>3 DEF ServiceAnswered, ServiceFaulted, ServiceMismatched, Receive,
              ServiceClosed, ServiceTimesOut, BeginClose, CloseEnds, Return,
              WaitsLeft
<1> QED
  BY <1>1, <1>2, <1>3 DEF LibraryStep, ConnectStep, ServiceStep

\* UA_Client_connect waits six times at most, a service call twice: no failure
\* sends the library back to where it has waited before.
THEOREM CallsAreShort == ClientSpec => CallsShorten
<1>1. [ClientNext]_clientVars =>
        [LibraryStep => WaitsLeft' \in 0..(WaitsLeft - 1)]_clientVars
  BY LibraryShortens
<1> QED
  BY <1>1, PTL DEF ClientSpec, CallsShorten

=============================================================================
