---------------------------- MODULE LinkContract ----------------------------
(***************************************************************************)
(* What the launcher relies on when it reads isConnected(): a link to the  *)
(* server that is up or down, and a flag that it sets itself after a       *)
(* successful connect and that the client library's callback clears.       *)
(***************************************************************************)
VARIABLES
  link,  \* "up" from the end of a successful connect to the end of its loss
  flag   \* what isConnected() returns

linkVars == <<link, flag>>

LinkInit == link = "down" /\ flag = FALSE

\* A connect succeeds; the launcher has not set the flag yet.
Establish == link = "down" /\ link' = "up" /\ UNCHANGED flag

\* The launcher sets the flag of a link that is up.
Acknowledge == link = "up" /\ flag' = TRUE /\ UNCHANGED link

\* The link goes down, by whatever call or failure, and takes the flag along.
Lose == link = "up" /\ link' = "down" /\ flag' = FALSE

LinkNext == Establish \/ Acknowledge \/ Lose
LinkSpec == LinkInit /\ [][LinkNext]_linkVars
=============================================================================
