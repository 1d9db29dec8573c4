--------------------------- MODULE PthreadSystem ---------------------------
(***************************************************************************)
(* The thread-per-connection server of 02_Day11 with its forking clients.  *)
(***************************************************************************)
EXTENDS ForkClient, PthreadServer

vars == <<tcpVars, clientVars, serverVars>>

Init == TcpInit /\ ClientInit /\ ServerInit

ClientMoves(c) == ClientStep(c, Listening) /\ UNCHANGED serverVars
ServerMoves == ServerStep /\ UNCHANGED clientVars

Next == ServerMoves \/ \E c \in Clients : ClientMoves(c)

Spec == Init /\ [][Next]_vars

\* The kernel runs main, every thread and every reader that can run. Nobody
\* has to type, to leave or to connect, and no call has to fail.
Fairness ==
  /\ WF_vars((Accept \/ CreateThread \/ CloseListening \/ ClosePeer \/ Return)
             /\ UNCHANGED clientVars)
  /\ \A k \in Slots : WF_vars(Thread(k) /\ UNCHANGED clientVars)
  /\ \A c \in Clients :
       WF_vars((ReaderReads(c) \/ ReaderEnds(c)) /\ UNCHANGED serverVars)
FairSpec == Spec /\ Fairness

-----------------------------------------------------------------------------
(* Properties                                                              *)

TypeOK == TcpTypeOK /\ ClientTypeOK /\ ServerTypeOK

\* Threads close numbers that accept hands out again while other threads go on
\* using theirs (lines 23, 40 and 48): until main itself closes the last one
\* at line 165, the descriptor in a running thread's slot is the connection of
\* the address in that slot, and no other running thread has it.
ServesOwn ==
  \A k \in Slots :
    Alive /\ Running(k) =>
      /\ fds[Fd(k)] # sock_info[k].sock_addr => main = "return" /\ Fd(k) = peerfd
      /\ \A other \in Slots : Running(other) /\ Fd(other) = Fd(k) => other = k

\* A session ends on its own client's account (it said quit, or it is gone);
\* never by another thread's close of a number that is used again. The other
\* cause is main itself, once its slots are used up (lines 157 and 165). And
\* SIGPIPE, which ends all sessions at once, takes a thread that was writing to
\* a client that is gone, when its connection had been reset already; the same
\* write may fail instead and end that one session (lines 40-45).
Lost(c) == ~ClientOpen(c) /\ reset[c]
EndsWithCause ==
  /\ \A k \in Slots :
       thread[k] \in {"close", "ended"} =>
         \/ chunk[k] # <<>> /\ chunk[k][1].text = "quit"
         \/ ~ClientOpen(sock_info[k].sock_addr)
         \/ i = MAX /\ ~Listening /\ Fd(k) = peerfd
  /\ main = "killed" => \E k \in Slots : thread[k] = "write" /\ Lost(sock_info[k].sock_addr)

\* Every line that is sent comes back to the client that typed it, unless the
\* client leaves, its session ends, or the process does.
Answered ==
  \A c \in Clients : \A n \in 1..MaxLines[c] :
    typed[c] = n ~>
      \/ \E m \in DOMAIN got[c] : got[c][m].from = c /\ got[c][m].n = n
      \/ writer[c] = "exited" \/ reader[c] = "exited"
      \/ ~Alive
      \/ \E k \in Slots : sock_info[k].sock_addr = c /\ thread[k] \in {"close", "ended"}
=============================================================================
