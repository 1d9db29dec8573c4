--------------------------- MODULE PthreadServer ---------------------------
(***************************************************************************)
(* 02_Day11/03_tcp_pthread/server.c: main accepts and starts a detached    *)
(* thread per connection, which echoes to its client.                      *)
(*                                                                         *)
(* All threads share one descriptor table. A number that a thread closes   *)
(* is the next one accept returns; the slots of sock_info are never used   *)
(* again, and after MAX of them main closes the listening socket, closes   *)
(* the connection it accepted last although a thread serves it, and        *)
(* returns, which ends every thread.                                       *)
(***************************************************************************)
EXTENDS Tcp

CONSTANTS MAX,       \* slots of sock_info
          BufUnits,  \* messages that fill a thread's buffer of SIZE bytes
          Free       \* what a descriptor nobody has open stands for

ASSUME PthreadAssumption ==
  MAX \in Nat \ {0} /\ BufUnits \in Nat \ {0} /\ Free \notin Clients

VARIABLES main,       \* "accept", "create", "listening", "peer", "return";
                      \* then "exited" or "killed", with all the threads
          fds,        \* the process's connection descriptors
          peerfd,     \* what accept returned last
          i,          \* slots used
          sock_info,  \* the slots: descriptor and address of a client
          thread,     \* per slot: "none", "read", "held", "write", "close", "ended"
          chunk       \* per slot: what the last read returned

serverVars == <<main, fds, peerfd, i, sock_info, thread, chunk>>

Slots == 1..MAX
sockfd == 3                              \* after stdin, stdout and stderr
Fds == sockfd + 1 .. sockfd + MAX

ServerInit ==
  /\ main = "accept" /\ fds = [fd \in Fds |-> Free] /\ peerfd = -1 /\ i = 0
  /\ sock_info = [k \in Slots |-> [sock_fd |-> 0, sock_addr |-> Free]]
  /\ thread = [k \in Slots |-> "none"] /\ chunk = [k \in Slots |-> <<>>]

ServerTypeOK ==
  /\ main \in {"accept", "create", "listening", "peer", "return", "exited", "killed"}
  /\ fds \in [Fds -> Clients \cup {Free}] /\ peerfd \in Fds \cup {-1} /\ i \in 0..MAX
  /\ sock_info \in [Slots -> [sock_fd : Fds \cup {0}, sock_addr : Clients \cup {Free}]]
  /\ thread \in [Slots -> {"none", "read", "held", "write", "close", "ended"}]
  /\ chunk \in [Slots -> Seq(Msg)]

Alive == main \notin {"exited", "killed"}
Listening == main \in {"accept", "create", "listening"}
Running(k) == thread[k] \in {"read", "held", "write", "close"}

\* The process ends, by main's return or by SIGPIPE: so do all its threads.
Stop(how) == main' = how /\ ServerExits(Server, up)

-----------------------------------------------------------------------------
(* main                                                                    *)

NextSlot == i + 1

\* The kernel hands out the lowest free number.
NewFd == CHOOSE fd \in Fds :
           fds[fd] = Free /\ \A other \in Fds : other < fd => fds[other] # Free

Accept ==
  /\ main = "accept" /\ backlog # <<>>
  /\ LET c == Head(backlog) IN
       /\ peerfd' = NewFd
       /\ fds' = [fds EXCEPT ![NewFd] = c]
       /\ sock_info' = [sock_info EXCEPT ![NextSlot] = [sock_fd |-> NewFd, sock_addr |-> c]]
       /\ srvEnd' = [srvEnd EXCEPT ![c] = {Server}]
  /\ backlog' = Tail(backlog)
  /\ main' = "create"
  /\ UNCHANGED <<i, thread, chunk, up, down, cliEnd, reset>>

\* A client that gave up is passed over; any other failure leaves the loop.
AcceptFails ==
  /\ main = "accept"
  /\ peerfd' = -1
  /\ \/ /\ backlog # <<>> /\ ~ClientOpen(Head(backlog))
        /\ backlog' = Tail(backlog) /\ UNCHANGED main
     \/ main' = "listening" /\ UNCHANGED backlog
  /\ UNCHANGED <<fds, i, sock_info, thread, chunk, up, down, cliEnd, srvEnd, reset>>

\* pthread_create, or its failure, after which main closes the listening socket
\* and returns 1.
CreateThread ==
  /\ main = "create"
  /\ \/ /\ thread' = [thread EXCEPT ![NextSlot] = "read"]
        /\ i' = i + 1
        /\ main' = IF i + 1 = MAX THEN "listening" ELSE "accept"
        /\ UNCHANGED <<srvEnd, reset, backlog>>
     \/ Stop("exited") /\ UNCHANGED <<thread, i>>
  /\ UNCHANGED <<fds, peerfd, sock_info, chunk, up, down, cliEnd>>

\* close(sockfd) resets the connections nobody accepted.
CloseListening ==
  /\ main = "listening"
  /\ main' = "peer"
  /\ reset' = [c \in Clients |-> reset[c] \/ Queued(c)]
  /\ backlog' = <<>>
  /\ UNCHANGED <<fds, peerfd, i, sock_info, thread, chunk, up, down, cliEnd, srvEnd>>

\* Threads of this descriptor that wait inside read(): the call keeps the
\* connection open until it returns.
Readers(fd) == {k \in Slots : thread[k] = "read" /\ sock_info[k].sock_fd = fd}

\* close(peerfd): after a failed accept it closes nothing, and after the last
\* slot the connection accepted last, unless its thread has closed it already.
ClosePeer ==
  /\ main = "peer"
  /\ main' = "return"
  /\ IF peerfd = -1 \/ fds[peerfd] = Free
     THEN UNCHANGED <<fds, thread, srvEnd, reset>>
     ELSE /\ fds' = [fds EXCEPT ![peerfd] = Free]
          /\ \/ \E k \in Readers(peerfd) :
                  thread' = [thread EXCEPT ![k] = "held"] /\ UNCHANGED <<srvEnd, reset>>
             \/ CloseServer(fds[peerfd], Server) /\ UNCHANGED thread
  /\ UNCHANGED <<peerfd, i, sock_info, chunk, up, down, cliEnd, backlog>>

Return ==
  /\ main = "return" /\ Stop("exited")
  /\ UNCHANGED <<fds, peerfd, i, sock_info, thread, chunk, up, down, cliEnd>>

Main == Accept \/ AcceptFails \/ CreateThread \/ CloseListening \/ ClosePeer \/ Return

-----------------------------------------------------------------------------
(* svr_rw, the thread of slot k                                            *)

Fd(k) == sock_info[k].sock_fd

Goto(k, where) == thread' = [thread EXCEPT ![k] = where]

\* A chunk of up to SIZE bytes from c; one that begins with "quit" ends the loop.
Receive(k, c) ==
  \E n \in 1..Len(up[c]) :
    /\ n <= BufUnits
    /\ up' = [up EXCEPT ![c] = Rest(@, n)]
    /\ chunk' = [chunk EXCEPT ![k] = SubSeq(up[c], 1, n)]
    /\ Goto(k, IF up[c][1].text = "quit" THEN "close" ELSE "write")

\* Mutant of Read: no data is taken for the end.
ReadImpatiently(k) ==
  /\ Alive /\ thread[k] = "read"
  /\ Goto(k, "close")
  /\ UNCHANGED <<main, fds, peerfd, i, sock_info, chunk, tcpVars>>

\* Mutant of Read: the path that leaves the loop closes, and Close does again.
ReadAndClose(k) ==
  /\ Alive /\ thread[k] = "read"
  /\ LET c == fds[Fd(k)] IN
       \/ /\ c # Free /\ Receive(k, c) /\ UNCHANGED <<fds, srvEnd, reset>>
       \/ /\ c # Free /\ UpEnded(c)
          /\ Goto(k, "close") /\ UNCHANGED <<up, chunk>>
          /\ fds' = [fds EXCEPT ![Fd(k)] = Free] /\ CloseServer(c, Server)
  /\ UNCHANGED <<main, peerfd, i, sock_info, down, cliEnd, backlog>>

\* read(): a chunk, the end or an error, or EBADF once main has closed it.
Read(k) ==
  /\ Alive /\ thread[k] = "read"
  /\ LET c == fds[Fd(k)] IN
       \/ c # Free /\ Receive(k, c)
       \/ /\ c # Free => UpEnded(c)
          /\ Goto(k, "close") /\ UNCHANGED <<up, chunk>>
  /\ UNCHANGED <<main, fds, peerfd, i, sock_info, down, cliEnd, srvEnd, reset, backlog>>

\* A read() that outlives its descriptor returns: now the connection is closed.
HeldRead(k) ==
  /\ Alive /\ thread[k] = "held"
  /\ LET c == sock_info[k].sock_addr IN
       /\ \/ Receive(k, c)
          \/ UpEnded(c) /\ Goto(k, "close") /\ UNCHANGED <<up, chunk>>
       /\ srvEnd' = [srvEnd EXCEPT ![c] = @ \ {Server}]
       /\ reset' = [reset EXCEPT ![c] = @ \/ up'[c] # <<>>]
  /\ UNCHANGED <<main, fds, peerfd, i, sock_info, down, cliEnd, backlog>>

\* Mutant of Write: the chunk is not written.
WriteNothing(k) ==
  /\ Alive /\ thread[k] = "write"
  /\ Goto(k, "read")
  /\ UNCHANGED <<main, fds, peerfd, i, sock_info, chunk, tcpVars>>

\* write(.., strlen(buffer)): a full buffer has no terminating 0, and strlen may
\* run past its end. On a connection that was reset it fails, which ends the
\* loop, or raises SIGPIPE, which ends the process; it fails with EBADF if main
\* was quicker.
Write(k) ==
  /\ Alive /\ thread[k] = "write"
  /\ LET c == fds[Fd(k)]
         junk == [from |-> c, n |-> 0, text |-> "junk"]
     IN  \/ /\ c # Free
            /\ \/ WriteDown(c, chunk[k])
               \/ Len(chunk[k]) = BufUnits /\ WriteDown(c, Append(chunk[k], junk))
            /\ Goto(k, "read")
            /\ UNCHANGED <<main, srvEnd, backlog>>
         \/ /\ (c # Free => reset[c]) /\ Goto(k, "close")
            /\ UNCHANGED <<main, down, srvEnd, reset, backlog>>
         \/ c # Free /\ reset[c] /\ Stop("killed") /\ UNCHANGED <<thread, down>>
  /\ UNCHANGED <<fds, peerfd, i, sock_info, chunk, up, cliEnd>>

\* close() and pthread_exit(); EBADF if main was quicker.
Close(k) ==
  /\ Alive /\ thread[k] = "close" /\ Goto(k, "ended")
  /\ LET c == fds[Fd(k)] IN
       IF c = Free THEN UNCHANGED <<fds, srvEnd, reset>>
       ELSE fds' = [fds EXCEPT ![Fd(k)] = Free] /\ CloseServer(c, Server)
  /\ UNCHANGED <<main, peerfd, i, sock_info, chunk, up, down, cliEnd, backlog>>

Thread(k) == Read(k) \/ HeldRead(k) \/ Write(k) \/ Close(k)

ServerStep == Main \/ \E k \in Slots : Thread(k)
=============================================================================
