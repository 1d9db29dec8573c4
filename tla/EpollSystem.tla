---------------------------- MODULE EpollSystem -----------------------------
(***************************************************************************)
(* The epoll server of 04_Day13 with its clients.                          *)
(***************************************************************************)
EXTENDS EventClient, EpollServer

vars == <<tcpVars, clientVars, serverVars>>

Init == TcpInit /\ ClientInit /\ ServerInit

Next ==
  \/ ServerStep /\ UNCHANGED clientVars
  \/ \E c \in Clients : ClientStep(c, Alive) /\ UNCHANGED serverVars

Spec == Init /\ [][Next]_vars

-----------------------------------------------------------------------------
(* Properties                                                              *)

TypeOK == TcpTypeOK /\ ClientTypeOK /\ ServerTypeOK

\* What epoll_wait hands out is safe to use: the record registered with a
\* descriptor has not been freed and is the one that holds this descriptor,
\* although records are freed and closed in either order (lines 140-147 and
\* 160-162), reused by malloc, and reached through stale events.
RegisteredLive ==
  \A f \in Fds : reg[f] # NULL => reg[f] \in live /\ fdOf[reg[f]] = f

\* Only the entries behind the batch are dangerous: one that epoll_wait wrote
\* in this round never blocks the server and never leads to a freed record,
\* whatever `ret` has become since.
InBatchSafe ==
  server = "loop" /\ i < count /\ i < ret =>
    /\ Entry # Garbage
    /\ Entry = Listener => backlog # <<>>
    /\ Entry \in Rec => /\ Entry \in live
                        /\ IsConn(fdOf[Entry]) /\ Readable(open[fdOf[Entry]])

\* Even through stale events and reused records a client reads its own lines
\* only, complete and in order up to some point.
OwnEcho ==
  \A c \in Clients :
    LET ms == got[c] \o down[c] IN
      \A k \in DOMAIN ms : ms[k].from = c /\ ms[k].n = k
=============================================================================
