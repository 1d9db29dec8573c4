-------------------------------- MODULE Tcp --------------------------------
(***************************************************************************)
(* The kernel's part in a TCP connection between one client program and    *)
(* the server, as the socket calls of 02_Day11 use it. Each end is open    *)
(* while some process holds a descriptor of it: fork adds holders, close   *)
(* and exit remove them. A read returns any non-empty prefix of what has   *)
(* arrived. Nothing is lost or reordered while both ends are open; a write *)
(* to an end that nobody holds is answered with a reset.                   *)
(***************************************************************************)
EXTENDS Integers, Sequences

CONSTANTS Clients,  \* one connection per client
          Server    \* the server's parent process; the children are named
                    \* after the client they serve

ASSUME TcpAssumption == Server \notin Clients

VARIABLES up,      \* per client: what it wrote and the server has not read
          down,    \* per client: what the server wrote and it has not read
          cliEnd,  \* per client: which of its processes hold its socket
          srvEnd,  \* per client: which server processes hold the peer socket
          reset,   \* per client: has a reset arrived?
          backlog  \* connections that are established but not accepted

tcpVars == <<up, down, cliEnd, srvEnd, reset, backlog>>

Msg == [from : Clients, n : Nat, text : {"line", "quit", "junk"}]

TcpInit ==
  /\ up = [c \in Clients |-> <<>>] /\ down = [c \in Clients |-> <<>>]
  /\ cliEnd = [c \in Clients |-> {}] /\ srvEnd = [c \in Clients |-> {}]
  /\ reset = [c \in Clients |-> FALSE] /\ backlog = <<>>

TcpTypeOK ==
  /\ up \in [Clients -> Seq(Msg)] /\ down \in [Clients -> Seq(Msg)]
  /\ cliEnd \in [Clients -> SUBSET {"writer", "reader", "client"}]
  /\ srvEnd \in [Clients -> SUBSET (Clients \cup {Server})]
  /\ reset \in [Clients -> BOOLEAN] /\ backlog \in Seq(Clients)

\* A connection in the backlog is held by the kernel on the server's behalf.
Queued(c) == \E k \in DOMAIN backlog : backlog[k] = c
ServerOpen(c) == srvEnd[c] # {} \/ Queued(c)
ClientOpen(c) == cliEnd[c] # {}

\* A write of the sequence of messages ms by one side: it arrives, or meets a
\* closed end and draws a reset (the write itself still succeeds). A write
\* after the reset raises SIGPIPE: the caller guards against that case.
WriteUp(c, ms) ==
  /\ ~reset[c]
  /\ IF ServerOpen(c)
     THEN up' = [up EXCEPT ![c] = @ \o ms] /\ UNCHANGED reset
     ELSE reset' = [reset EXCEPT ![c] = TRUE] /\ UNCHANGED up

WriteDown(c, ms) ==
  /\ ~reset[c]
  /\ IF ClientOpen(c)
     THEN down' = [down EXCEPT ![c] = @ \o ms] /\ UNCHANGED reset
     ELSE reset' = [reset EXCEPT ![c] = TRUE] /\ UNCHANGED down

\* What a read of k messages leaves; end of file or ECONNRESET once all is read.
Rest(s, k) == SubSeq(s, k + 1, Len(s))
UpEnded(c) == up[c] = <<>> /\ (~ClientOpen(c) \/ reset[c])
DownEnded(c) == down[c] = <<>> /\ (~ServerOpen(c) \/ reset[c])

\* Processes that close their descriptors, one by one or by exiting, drop out of
\* the holders. Closing an end with unread data in it resets the connection, and
\* so does closing the listening socket on a connection nobody accepted.
CloseClient(c, ps) ==
  /\ cliEnd' = [cliEnd EXCEPT ![c] = @ \ ps]
  /\ reset' = [reset EXCEPT ![c] = @ \/ (cliEnd[c] \ ps = {} /\ down[c] # <<>>)]

\* Process p closes the server's end of c.
CloseServer(c, p) ==
  /\ srvEnd' = [srvEnd EXCEPT ![c] = @ \ {p}]
  /\ reset' = [reset EXCEPT ![c] = @ \/ (srvEnd[c] = {p} /\ up[c] # <<>>)]

\* `unread` is what is left of each client's messages when process p exits.
ServerExits(p, unread) ==
  /\ srvEnd' = [c \in Clients |-> srvEnd[c] \ {p}]
  /\ reset' = [c \in Clients |->
       \/ reset[c]
       \/ srvEnd[c] = {p} /\ unread[c] # <<>>
       \/ p = Server /\ Queued(c)]
  /\ backlog' = IF p = Server THEN <<>> ELSE backlog
=============================================================================
