--------------------------- MODULE LaunchContract ---------------------------
(***************************************************************************)
(* What LaunchAutoDecake promises to its caller: the machine is asked at   *)
(* most once for each call, and TRUE means that it has executed this       *)
(* request and has ended a process since.  FALSE means nothing about the   *)
(* machine: a request may be executed after its call has failed, and that  *)
(* may be during a later one.                                              *)
(***************************************************************************)
EXTENDS Naturals

CONSTANTS
  Prompt,   \* the machine leaves its old final state before it answers
  LeftOver  \* requests of earlier callers that are open in the beginning

VARIABLES
  call,     \* "none", "asked", "sent" or, when it has returned, "true" or "false"
  open,     \* 1 if the request sent last is open at the machine
  older,    \* requests before it that are open
  started,  \* the machine has executed the request sent last
  ended,    \* and has come to an end since
  again,    \* and has executed an older one since
  machine   \* "idle", "running" or "ended"

request == <<open, older, started, ended, again>>
launchVars == <<call, request, machine>>

LaunchInit ==
  /\ call = "none"
  /\ open = 0 /\ older = LeftOver
  /\ started = FALSE /\ ended = FALSE /\ again = FALSE
  /\ machine \in {"idle", "running"}

Ask ==
  /\ call \in {"none", "true", "false"} /\ call' = "asked"
  /\ UNCHANGED <<request, machine>>

\* The request leaves, or is lost at once.
Request ==
  /\ call = "asked" /\ call' = "sent"
  /\ open' \in {0, 1} /\ older' = older + open
  /\ started' = FALSE /\ ended' = FALSE /\ again' = FALSE
  /\ UNCHANGED machine

Execute ==
  /\ open = 1 /\ open' = 0
  /\ started' = TRUE /\ machine' = "running"
  /\ UNCHANGED <<call, older, ended, again>>

\* Whoever sent it has given up: it runs into whatever the last request started.
ExecuteOlder ==
  /\ older > 0 /\ older' = older - 1
  /\ again' = started /\ machine' = "running"
  /\ UNCHANGED <<call, open, started, ended>>

Refuse ==
  /\ \/ open = 1 /\ open' = 0 /\ UNCHANGED older
     \/ older > 0 /\ older' = older - 1 /\ UNCHANGED open
  /\ UNCHANGED <<call, started, ended, again, machine>>

End ==
  /\ machine = "running" /\ machine' = "ended"
  /\ ended' = started
  /\ UNCHANGED <<call, open, older, started, again>>

\* Nothing of this request is open; what it started has ended, and only an older
\* request can have started the machine again.
Succeed ==
  /\ call = "sent" /\ call' = "true"
  /\ started /\ open = 0
  /\ Prompt => ended /\ (machine = "ended" \/ again)
  /\ UNCHANGED <<request, machine>>

GiveUp ==
  call \in {"asked", "sent"} /\ call' = "false" /\ UNCHANGED <<request, machine>>

\* The caller turns to something else, or the process dies on a request not sent.
Forget == call # "sent" /\ call' = "none" /\ UNCHANGED <<request, machine>>

LaunchNext ==
  \/ Ask \/ Request \/ Execute \/ ExecuteOlder \/ Refuse \/ End
  \/ Succeed \/ GiveUp \/ Forget
LaunchSpec == LaunchInit /\ [][LaunchNext]_launchVars
=============================================================================
