---------------------------- MODULE RequestReply ----------------------------
(***************************************************************************)
(* What a synchronous service call is worth to its caller: requests are    *)
(* made one after the other, a reply is taken only for the last of them,   *)
(* and at most once.                                                       *)
(***************************************************************************)
EXTENDS Naturals, Sequences

VARIABLES
  asked,    \* the number of the last request
  pending,  \* it has neither its reply nor its failure yet
  taken     \* the requests whose replies were taken, oldest first

replyVars == <<asked, pending, taken>>

ReplyInit == asked = 0 /\ pending = FALSE /\ taken = <<>>

\* A new request: no reply is taken any more for the one before.
Ask == asked' = asked + 1 /\ pending' = TRUE /\ UNCHANGED taken

Take == /\ pending
        /\ taken' = Append(taken, asked)
        /\ pending' = FALSE
        /\ UNCHANGED asked

GiveUp == pending /\ pending' = FALSE /\ UNCHANGED <<asked, taken>>

ReplyNext == Ask \/ Take \/ GiveUp
ReplySpec == ReplyInit /\ [][ReplyNext]_replyVars
=============================================================================
