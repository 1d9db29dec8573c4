---------------------------- MODULE EventClient -----------------------------
(***************************************************************************)
(* The clients that wait for a typed line or for an answer in one process: *)
(* 03_Day12/03_select_svr_multi_access/client.c with select and            *)
(* 04_Day13/03_epoll_svr_multi_access/client.c with epoll. They end when   *)
(* the connection does, or when they are interrupted; the epoll client     *)
(* also when its input ends or is an empty line.                           *)
(***************************************************************************)
EXTENDS Tcp

CONSTANT MaxLines   \* bound: lines a user types

ASSUME LinesAssumption == MaxLines \in Nat

VARIABLES client,  \* per client: "connect", "loop", "exited"
          typed,   \* per client: lines sent so far
          got      \* per client: what it printed

clientVars == <<client, typed, got>>

ClientInit ==
  /\ client = [c \in Clients |-> "connect"]
  /\ typed = [c \in Clients |-> 0] /\ got = [c \in Clients |-> <<>>]

ClientTypeOK ==
  /\ client \in [Clients -> {"connect", "loop", "exited"}]
  /\ typed \in [Clients -> 0..MaxLines] /\ got \in [Clients -> Seq(Msg)]

Connect(c, listening) ==
  /\ client[c] = "connect"
  /\ \/ /\ listening
        /\ client' = [client EXCEPT ![c] = "loop"]
        /\ cliEnd' = [cliEnd EXCEPT ![c] = {"client"}]
        /\ backlog' = Append(backlog, c)
     \/ /\ ~listening
        /\ client' = [client EXCEPT ![c] = "exited"]
        /\ UNCHANGED <<cliEnd, backlog>>
  /\ UNCHANGED <<typed, got, up, down, srvEnd, reset>>

\* err1, or a fatal signal: the socket is closed.
Exit(c) ==
  /\ client' = [client EXCEPT ![c] = "exited"]
  /\ CloseClient(c, {"client"})
  /\ UNCHANGED <<typed, got, up, down, srvEnd, backlog>>

\* A typed line is sent without its newline; after a reset send() fails.
SendLine(c) ==
  /\ client[c] = "loop" /\ typed[c] < MaxLines
  /\ \/ /\ WriteUp(c, <<[from |-> c, n |-> typed[c] + 1, text |-> "line"]>>)
        /\ typed' = [typed EXCEPT ![c] = @ + 1]
        /\ UNCHANGED <<client, got, down, cliEnd, srvEnd, backlog>>
     \/ reset[c] /\ Exit(c)

RecvAnswer(c) ==
  /\ client[c] = "loop"
  /\ \E k \in 1..Len(down[c]) :
        /\ down' = [down EXCEPT ![c] = Rest(@, k)]
        /\ got' = [got EXCEPT ![c] = @ \o SubSeq(down[c], 1, k)]
  /\ UNCHANGED <<client, typed, up, cliEnd, srvEnd, reset, backlog>>

RecvEnds(c) == client[c] = "loop" /\ DownEnded(c) /\ Exit(c)

\* Ctrl-C, or what ends the input of the epoll client.
Interrupt(c) == client[c] = "loop" /\ Exit(c)

ClientStep(c, listening) ==
  \/ Connect(c, listening) \/ SendLine(c) \/ RecvAnswer(c) \/ RecvEnds(c)
  \/ Interrupt(c)
=============================================================================
