---------------------------- MODULE SelectSystem ----------------------------
(***************************************************************************)
(* The select server of 03_Day12 with its clients.                         *)
(***************************************************************************)
EXTENDS EventClient, SelectServer

vars == <<tcpVars, clientVars, serverVars>>

Init == TcpInit /\ ClientInit /\ ServerInit

Next ==
  \/ ServerStep /\ UNCHANGED clientVars
  \/ \E c \in Clients : ClientStep(c, Alive) /\ UNCHANGED serverVars

Spec == Init /\ [][Next]_vars

\* The kernel runs the server, and a client that has something to read. Nobody
\* has to type, to leave or to connect.
FairSpec ==
  /\ Spec /\ WF_vars(ServerStep /\ UNCHANGED clientVars)
  /\ \A c \in Clients :
       WF_vars((RecvAnswer(c) \/ RecvEnds(c)) /\ UNCHANGED serverVars)

-----------------------------------------------------------------------------
(* Properties                                                              *)

TypeOK == TcpTypeOK /\ ClientTypeOK /\ ServerTypeOK

\* However connections come and go, and although maxfd is lowered inside the
\* loop it bounds (line 119), every connection still watched is below maxfd.
Watched ==
  \A k \in DOMAIN conns : sockfd + k \in savefds => sockfd + k < maxfd

\* recv (line 111) is called only where it returns at once, so no client can
\* hold up the others; the exception is a connection accepted in this very
\* round whose bit, in a word that select did not rewrite, was garbage.
Blocked == server = "scan" /\ Pending # {} /\ ~Readable(NextReady)
BlockedOnlyByGarbage ==
  Blocked => /\ NextReady = sockfd + Len(conns)
             /\ NextReady \in garbage
             /\ NextReady >= WORD

\* One buffer serves all, yet each client reads its own lines only, complete
\* and in order up to some point.
OwnEcho ==
  \A c \in Clients :
    LET ms == got[c] \o down[c] IN
      \A k \in DOMAIN ms : ms[k].from = c /\ ms[k].n = k

\* Every line that reaches the server comes back, unless its client leaves, the
\* server ends, or it is held up in recv by a connection whose bit was garbage.
Answered ==
  \A c \in Clients, n \in 1..MaxLines :
    typed[c] = n ~> \/ Len(got[c]) >= n
                    \/ client[c] = "exited" \/ ~Alive \/ Blocked
=============================================================================
