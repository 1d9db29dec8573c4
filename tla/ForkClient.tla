----------------------------- MODULE ForkClient -----------------------------
(***************************************************************************)
(* The client of 02_Day11 (99_tcp_chatroom, 02_tcp_process, 03_tcp_pthread *)
(* and 01_tcp_thread have the same client.c but for the colour of a line): *)
(* it connects and forks; the parent (the writer) sends the lines that are *)
(* typed, the child (the reader) prints what the server sends. Each closes *)
(* the socket for itself when it ends.                                     *)
(***************************************************************************)
EXTENDS Tcp

CONSTANT MaxLines   \* bound: how many lines the user of each client types

ASSUME LinesAssumption == MaxLines \in [Clients -> Nat]

VARIABLES writer,  \* per client: "connect", "fork", "type", "exited"
          reader,  \* per client: "none", "read", "exited"
          typed,   \* per client: lines written to the socket so far
          got      \* per client: what the reader printed

clientVars == <<writer, reader, typed, got>>

ClientInit ==
  /\ writer = [c \in Clients |-> "connect"]
  /\ reader = [c \in Clients |-> "none"]
  /\ typed = [c \in Clients |-> 0] /\ got = [c \in Clients |-> <<>>]

ClientTypeOK ==
  /\ writer \in [Clients -> {"connect", "fork", "type", "exited"}]
  /\ reader \in [Clients -> {"none", "read", "exited"}]
  /\ typed \in [Clients -> Nat] /\ \A c \in Clients : typed[c] <= MaxLines[c]
  /\ got \in [Clients -> Seq(Msg)]

\* connect() to a listening server joins its backlog; to no server, it fails.
Connect(c, listening) ==
  /\ writer[c] = "connect"
  /\ \/ /\ listening
        /\ writer' = [writer EXCEPT ![c] = "fork"]
        /\ cliEnd' = [cliEnd EXCEPT ![c] = {"writer"}]
        /\ backlog' = Append(backlog, c)
     \/ /\ ~listening
        /\ writer' = [writer EXCEPT ![c] = "exited"]
        /\ UNCHANGED <<cliEnd, backlog>>
  /\ UNCHANGED <<reader, typed, got, up, down, srvEnd, reset>>

ForkReader(c) ==
  /\ writer[c] = "fork"
  /\ \/ /\ writer' = [writer EXCEPT ![c] = "type"]
        /\ reader' = [reader EXCEPT ![c] = "read"]
        /\ cliEnd' = [cliEnd EXCEPT ![c] = {"writer", "reader"}]
        /\ UNCHANGED reset
     \/ /\ writer' = [writer EXCEPT ![c] = "exited"]
        /\ CloseClient(c, {"writer"})
        /\ UNCHANGED reader
  /\ UNCHANGED <<typed, got, up, down, srvEnd, backlog>>

\* A non-empty line that is not "exit" is written without its newline. After
\* a reset the write kills the writer.
TypeLine(c, text) ==
  /\ writer[c] = "type" /\ typed[c] < MaxLines[c]
  /\ typed' = [typed EXCEPT ![c] = @ + 1]
  /\ \/ /\ WriteUp(c, <<[from |-> c, n |-> typed[c] + 1, text |-> text]>>)
        /\ UNCHANGED <<writer, cliEnd>>
     \/ /\ reset[c]
        /\ writer' = [writer EXCEPT ![c] = "exited"]
        /\ CloseClient(c, {"writer"})
        /\ UNCHANGED up
  /\ UNCHANGED <<reader, got, down, srvEnd, backlog>>

\* "exit" ends the loop; so do an empty line and the end of the input, for
\* which write() is asked to write 0 bytes and returns 0. Only this process
\* closes the socket: the reader keeps it open.
LeaveWriter(c) ==
  /\ writer[c] = "type"
  /\ writer' = [writer EXCEPT ![c] = "exited"]
  /\ CloseClient(c, {"writer"})
  /\ UNCHANGED <<reader, typed, got, up, down, srvEnd, backlog>>

\* Ctrl-C reaches both processes of a client in the foreground.
Interrupt(c) ==
  /\ writer[c] = "type"
  /\ writer' = [writer EXCEPT ![c] = "exited"]
  /\ reader' = [reader EXCEPT ![c] = "exited"]
  /\ CloseClient(c, {"writer", "reader"})
  /\ UNCHANGED <<typed, got, up, down, srvEnd, backlog>>

ReaderReads(c) ==
  /\ reader[c] = "read"
  /\ \E k \in 1..Len(down[c]) :
        /\ down' = [down EXCEPT ![c] = Rest(@, k)]
        /\ got' = [got EXCEPT ![c] = @ \o SubSeq(down[c], 1, k)]
  /\ UNCHANGED <<writer, reader, typed, up, cliEnd, srvEnd, reset, backlog>>

\* read() returned 0 or -1: close the socket and return 1.
ReaderEnds(c) ==
  /\ reader[c] = "read" /\ DownEnded(c)
  /\ reader' = [reader EXCEPT ![c] = "exited"]
  /\ CloseClient(c, {"reader"})
  /\ UNCHANGED <<writer, typed, got, up, down, srvEnd, backlog>>

ClientStep(c, listening) ==
  \/ Connect(c, listening) \/ ForkReader(c) \/ LeaveWriter(c) \/ Interrupt(c)
  \/ ReaderReads(c) \/ ReaderEnds(c)
  \/ \E text \in {"line", "quit"} : TypeLine(c, text)
=============================================================================
