---------------------------- MODULE SelectServer ----------------------------
(***************************************************************************)
(* 03_Day12/03_select_svr_multi_access/server.c: one process serves every  *)
(* connection from a select loop and echoes what it reads.                 *)
(*                                                                         *)
(* The server never closes a connection, so the descriptor that accept     *)
(* returns is always the next number: the k-th connection is sockfd + k.   *)
(* `savefds` is an uninitialised local when the listening socket is put    *)
(* into it. select() reads and rewrites whole words of WORD bits, as many  *)
(* as maxfd needs; the words behind them keep what was copied into         *)
(* `readfds`, garbage included.                                            *)
(***************************************************************************)
EXTENDS Tcp, FiniteSets

CONSTANTS sockfd,    \* the listening socket; 3 in a program started normally
          WORD,      \* bits in a word of an fd_set, 64 on the build's machine
          BufUnits   \* messages that fill the buffer of SIZE bytes

ASSUME SelectAssumption ==
  /\ sockfd \in Nat /\ WORD \in Nat \ {0} /\ BufUnits \in Nat \ {0}
  /\ IsFiniteSet(Clients)

VARIABLES server,   \* "select", "accept", "scan", "send"; then "exited", "killed"
          conns,    \* conns[k] is the client behind descriptor sockfd + k
          savefds,  \* the descriptors to watch, as far as they are client
                    \* connections: the listening socket is always in it
          readfds,  \* what select left in its copy, the listening socket aside
          maxfd,    \* one more than the highest watched descriptor
          i,        \* the descriptor the for loop has reached
          chunk,    \* what the last recv returned
          garbage   \* the bits of savefds nobody had set

serverVars == <<server, conns, savefds, readfds, maxfd, i, chunk, garbage>>

Fds == sockfd + 1 .. sockfd + Cardinality(Clients)

\* What a read of an uninitialised variable may find: any bits.
ServerInit ==
  /\ server = "select" /\ conns = <<>>
  /\ garbage \in SUBSET Fds /\ savefds = garbage /\ readfds = {}
  /\ maxfd = sockfd + 1 /\ i = sockfd + 1 /\ chunk = <<>>

ServerTypeOK ==
  /\ server \in {"select", "accept", "scan", "send", "exited", "killed"}
  /\ conns \in Seq(Clients)
  /\ savefds \subseteq Fds /\ readfds \subseteq Fds /\ garbage \subseteq Fds
  /\ maxfd \in sockfd + 1 .. sockfd + Cardinality(Clients) + 1
  /\ i \in sockfd + 1 .. sockfd + Cardinality(Clients) + 1
  /\ chunk \in Seq(Msg)

Alive == server \notin {"exited", "killed"}
Client(fd) == conns[fd - sockfd]

\* recv on this descriptor would return at once.
Readable(fd) == up[Client(fd)] # <<>> \/ UpEnded(Client(fd))

\* The bits that select rewrites are those of the words that hold 0 .. maxfd - 1.
Rewritten(fd) == fd < WORD * ((maxfd + WORD - 1) \div WORD)

\* The program ends, by return or by SIGPIPE: the kernel closes everything.
Stop(how) == server' = how /\ ServerExits(Server, up)

-----------------------------------------------------------------------------

\* Mutant of Reported: the set that was asked for is used, not the answer.
ReportedAll(ready) == savefds

\* What select leaves in readfds.
Reported(ready) == ready \cup {fd \in savefds : ~Rewritten(fd)}

\* select() returns once a watched descriptor is readable. Its timeout and the
\* bits of descriptors 0 to 2 only bring the loop round again.
Select ==
  /\ server = "select"
  /\ LET ready == {fd \in savefds : fd < maxfd /\ Readable(fd)}
     IN  /\ ready # {} \/ backlog # <<>>
         /\ readfds' = Reported(ready)
  /\ server' = IF backlog # <<>> THEN "accept" ELSE "scan"
  /\ i' = sockfd + 1
  /\ UNCHANGED <<conns, savefds, maxfd, chunk, garbage, tcpVars>>

newfd == sockfd + Len(conns) + 1

\* Mutant of NewMaxfd: it is not raised.
NewMaxfdForgotten == maxfd

NewMaxfd == IF newfd >= maxfd THEN newfd + 1 ELSE maxfd

\* accept, FD_SET and the new maxfd; any failure of accept ends the program.
Accept ==
  /\ server = "accept"
  /\ \/ /\ conns' = Append(conns, Head(backlog))
        /\ savefds' = savefds \cup {newfd}
        /\ maxfd' = NewMaxfd
        /\ srvEnd' = [srvEnd EXCEPT ![Head(backlog)] = {Server}]
        /\ backlog' = Tail(backlog)
        /\ server' = "scan"
        /\ UNCHANGED reset
     \/ /\ Stop("exited")
        /\ UNCHANGED <<conns, savefds, maxfd>>
  /\ UNCHANGED <<readfds, i, chunk, garbage, up, down, cliEnd>>

\* The for loop passes over what is not in readfds.
Pending == {fd \in readfds : i <= fd /\ fd < maxfd}
NextReady == CHOOSE fd \in Pending : \A other \in Pending : fd <= other

ScanEnds ==
  /\ server = "scan" /\ Pending = {}
  /\ server' = "select"
  /\ UNCHANGED <<conns, savefds, readfds, maxfd, i, chunk, garbage, tcpVars>>

\* Mutant of LowerMaxfd: any descriptor lowers it.
LowerMaxfdAlways(fd) == maxfd - 1

LowerMaxfd(fd) == IF fd = maxfd - 1 THEN maxfd - 1 ELSE maxfd

\* FD_CLR; only the highest descriptor lowers maxfd, by one; then the next i.
Drop(fd) ==
  /\ savefds' = savefds \ {fd}
  /\ maxfd' = LowerMaxfd(fd)
  /\ i' = fd + 1
  /\ server' = "scan"

\* recv: a chunk; or the end, or an error. It blocks as long as there is neither.
Recv ==
  /\ server = "scan" /\ Pending # {}
  /\ LET fd == NextReady
         c == Client(fd)
     IN  \/ \E k \in 1..Len(up[c]) :
              /\ k <= BufUnits
              /\ chunk' = SubSeq(up[c], 1, k)
              /\ up' = [up EXCEPT ![c] = Rest(@, k)]
              /\ i' = fd /\ server' = "send"
              /\ UNCHANGED <<savefds, maxfd>>
         \/ UpEnded(c) /\ Drop(fd) /\ UNCHANGED <<chunk, up>>
  /\ UNCHANGED <<conns, readfds, garbage, down, cliEnd, srvEnd, reset, backlog>>

\* Mutant of Sender: the answer goes to the connection accepted last.
SenderNewest == conns[Len(conns)]

Sender == Client(i)

\* send: on a connection that was reset it raises SIGPIPE, or fails.
Send ==
  /\ server = "send"
  /\ LET c == Sender IN
       \/ /\ WriteDown(c, chunk)
          /\ server' = "scan" /\ i' = i + 1
          /\ UNCHANGED <<savefds, maxfd, srvEnd, backlog>>
       \/ /\ reset[c] /\ Stop("killed")
          /\ UNCHANGED <<savefds, maxfd, i, down>>
       \/ /\ reset[c] /\ Drop(i)
          /\ UNCHANGED <<down, srvEnd, reset, backlog>>
  /\ UNCHANGED <<conns, readfds, chunk, garbage, up, cliEnd>>

ServerStep == Select \/ Accept \/ ScanEnds \/ Recv \/ Send
=============================================================================
