----------------------------- MODULE ChatSystem -----------------------------
(***************************************************************************)
(* The forking servers of 02_Day11 together with their clients: every      *)
(* interleaving of typed lines, interrupts, accepts, forks, relays, reads, *)
(* exits and SIGCHLD.                                                      *)
(***************************************************************************)
EXTENDS ForkClient, ForkServer

vars == <<tcpVars, clientVars, serverVars>>

Init == TcpInit /\ ClientInit /\ ServerInit

ClientMoves(c) == ClientStep(c, Listening) /\ UNCHANGED serverVars
ServerMoves == ServerStep /\ UNCHANGED clientVars

Next == ServerMoves \/ \E c \in Clients : ClientMoves(c)

Spec == Init /\ [][Next]_vars

\* The kernel runs every process that can run and delivers every signal.
\* Whether anybody types, interrupts a client or starts one is left open, and
\* so is whether accept ever fails.
Served(A) == A /\ UNCHANGED clientVars
Fairness ==
  /\ WF_vars(Served(Accept)) /\ WF_vars(Served(CheckErrno)) /\ WF_vars(Served(ForkChild))
  /\ WF_vars(Served(Handler))
  /\ \A c \in Clients :
       /\ WF_vars(Served(Child(c)))
       /\ WF_vars((ReaderReads(c) \/ ReaderEnds(c)) /\ UNCHANGED serverVars)
FairSpec == Spec /\ Fairness

-----------------------------------------------------------------------------
(* Properties                                                              *)

TypeOK == TcpTypeOK /\ ClientTypeOK /\ ServerTypeOK

\* No child stays a zombie unnoticed (lines 16-21): while one exists, either
\* SIGCHLD is still pending or the handler that will wait for it is running,
\* although signals that arrive while the handler runs are merged into one.
ZombieSignalled ==
  (\E c \in Clients : child[c] = "zombie") => sigchld \/ handling

\* An accept that the handler interrupted is retried: the errno tested at line
\* 116 is still EINTR, although the handler itself leaves ECHILD behind.
EintrSurvives == parent = "check" /\ failure = "EINTR" => errno = "EINTR"

\* The messages of one sender reach a client complete and in order up to some
\* point, whatever chunks the reads cut them into, and nothing is relayed twice:
\* what comes before one of its lines are earlier lines, the previous one too.
Own(m, c) == m.from = c /\ m.text # "junk"
OrderPerSender ==
  \A c, d \in Clients :
    LET s == got[d] \o down[d] IN
      \A k \in DOMAIN s : Own(s[k], c) =>
        /\ \A l \in 1..k - 1 : Own(s[l], c) => s[l].n < s[k].n
        /\ s[k].n = 1 \/ \E l \in 1..k - 1 : Own(s[l], c) /\ s[l].n = s[k].n - 1

\* A session ends only on its own client's account (it said quit, or it is
\* gone), or by SIGPIPE because a recipient is gone.
EndsWithCause ==
  \A c \in Clients :
    /\ cause[c] = "eof" => ~ClientOpen(c)
    /\ cause[c] = "SIGPIPE" =>
         \E k \in DOMAIN inherited[c] :
           /\ inherited[c][k] = c \/ Broadcast
           /\ ~ClientOpen(inherited[c][k])

\* No reader can find the end of its stream, or a reset, while the server
\* listens, whether or not its writer is still there: the parent keeps every
\* connection it accepted (there is no close after line 143), so neither the
\* child's end nor its exit with lines unread shows. A client whose child has
\* quit, or that has left with "exit", sits in its reader.
NoEofWhileListening ==
  \A c \in Clients : Listening /\ reader[c] = "read" => ~DownEnded(c)

\* Every child that ends is waited for, unless the server ends first.
Reaped == \A c \in Clients :
            child[c] = "zombie" ~> child[c] = "reaped" \/ ~Listening

\* A connection in the backlog is accepted; only the end of the server, or a
\* handler that waits for a child still serving its client, can keep it there.
AcceptedInTheEnd ==
  \A c \in Clients :
    Queued(c) ~> \/ ~Queued(c)
                 \/ handling /\ \E d \in Clients : Running(d)

\* A line that its child has read comes back to the client that wrote it,
\* unless the client goes away or a recipient's absence kills the child.
Relayed ==
  \A c \in Clients : \A n \in 1..MaxLines[c] :
    /\ child[c] = "write"
    /\ \E k \in DOMAIN chunk[c] : chunk[c][k].n = n
    ~> \/ \E k \in DOMAIN got[c] : got[c][k].from = c /\ got[c][k].n = n
       \/ ~ClientOpen(c) \/ ~Running(c)
=============================================================================
