-------------------------------- MODULE Talk --------------------------------
(***************************************************************************)
(* Two programs that talk: each forks, one of its processes sends the      *)
(* lines that are typed, the other prints what the peer sends. Both        *)
(* processes hold every descriptor of their side. The pair is              *)
(*   "socket"  01_Day10/03_tcp_server: server.c (A) and client.c (B), or   *)
(*   "fifo"    06_Day06/99_Homework/04_fifo_messager: fifo_messager.c (A)  *)
(*             and fifo_messanger_part2.c (B), over two named pipes.       *)
(* The parent is the reader in A and the writer in B, in both pairs.       *)
(***************************************************************************)
EXTENDS Integers, Sequences

CONSTANTS A, B,      \* the sides
          MaxLines,  \* bound: lines a user types
          BufUnits   \* lines that fill a read buffer of SIZE bytes

ASSUME TalkAssumption == A # B /\ MaxLines \in Nat /\ BufUnits \in Nat \ {0}

VARIABLES kind,    \* "socket" or "fifo"
          fifos,   \* the named pipes in the directory, perhaps from an earlier run
          proc,    \* per side: what each of its two processes is at
          hold,    \* per side: who holds its descriptors to the peer
          queue,   \* per side: what it sent and the peer has not read
          reset,   \* the connection has been reset
          typed,   \* per side: lines sent so far
          got      \* per side: what its reader printed

vars == <<kind, fifos, proc, hold, queue, reset, typed, got>>

Sides == {A, B}
Roles == {"reader", "writer"}
Peer(s) == IF s = A THEN B ELSE A
Parent(s) == IF s = A THEN "reader" ELSE "writer"
Child(s) == IF s = A THEN "writer" ELSE "reader"

Lines == [from : Sides, n : 1..MaxLines]
\* How a process ends: it was told to, it read the end (or, on a FIFO, is
\* reading it again and again), SIGPIPE, a call failed, or Ctrl-C.
Gone == {"left", "ended", "SIGPIPE", "failed", "interrupted"}
At == {"none", "start", "mkfifo", "open1", "open2", "accept", "fork", "run", "spin"} \cup Gone

Init ==
  /\ kind \in {"socket", "fifo"} /\ fifos \in SUBSET {"fifo_1", "fifo_2"}
  /\ proc = [s \in Sides |-> [r \in Roles |-> IF r = Parent(s) THEN "start" ELSE "none"]]
  /\ hold = [s \in Sides |-> {}] /\ queue = [s \in Sides |-> <<>>]
  /\ reset = FALSE
  /\ typed = [s \in Sides |-> 0] /\ got = [s \in Sides |-> <<>>]

TypeOK ==
  /\ kind \in {"socket", "fifo"} /\ fifos \subseteq {"fifo_1", "fifo_2"}
  /\ proc \in [Sides -> [Roles -> At]]
  /\ hold \in [Sides -> SUBSET (Roles \cup {"kernel"})]
  /\ queue \in [Sides -> Seq(Lines)] /\ reset \in BOOLEAN
  /\ typed \in [Sides -> 0..MaxLines] /\ got \in [Sides -> Seq(Lines)]

SideGone(s) == \A r \in Roles : proc[s][r] \in Gone \cup {"none"}
Goto(s, r, where) == proc' = [proc EXCEPT ![s][r] = where]

\* Processes rs of side s drop its descriptors. The last one resets a connection
\* that still has data to read; on a FIFO that data is just forgotten.
Drop(s, rs) ==
  /\ hold' = [hold EXCEPT ![s] = @ \ rs]
  /\ reset' = (reset \/ /\ kind = "socket" /\ hold[s] # {} /\ hold[s] \subseteq rs
                        /\ queue[Peer(s)] # <<>>)

Exit(s, r, how) == Goto(s, r, how) /\ Drop(s, {r})

-----------------------------------------------------------------------------
(* Setting up                                                              *)

\* B's connect needs a listening server: the kernel then holds A's end.
Connect ==
  IF proc[A]["reader"] = "accept"
  THEN /\ Goto(B, "writer", "fork")
       /\ hold' = [hold EXCEPT ![B] = {"writer"}, ![A] = {"kernel"}]
  ELSE Goto(B, "writer", "failed") /\ UNCHANGED hold

\* A program is started; A's socket listens from here on, B's connects.
Start(s) ==
  /\ proc[s][Parent(s)] = "start"
  /\ \/ /\ kind = "fifo"
        /\ Goto(s, Parent(s), IF s = A THEN "mkfifo" ELSE "open1")
        /\ UNCHANGED hold
     \/ /\ kind = "socket" /\ s = A
        /\ Goto(s, "reader", "accept") /\ UNCHANGED hold
     \/ kind = "socket" /\ s = B /\ Connect
  /\ UNCHANGED <<kind, fifos, queue, reset, typed, got>>

\* accept takes the connection out of the kernel's hands; or it fails.
Accept ==
  /\ proc[A]["reader"] = "accept"
  /\ \/ /\ hold[A] = {"kernel"}
        /\ Goto(A, "reader", "fork")
        /\ hold' = [hold EXCEPT ![A] = {"reader"}]
        /\ UNCHANGED reset
     \/ /\ Goto(A, "reader", "failed")
        /\ hold' = [hold EXCEPT ![A] = {}] /\ reset' = (hold[A] # {})
  /\ UNCHANGED <<kind, fifos, queue, typed, got>>

\* mkfifo fails on a name that is there, and nobody ever removes the names.
MkFifo ==
  /\ proc[A]["reader"] = "mkfifo"
  /\ fifos' = IF "fifo_1" \in fifos THEN fifos ELSE {"fifo_1", "fifo_2"}
  /\ Goto(A, "reader", IF fifos = {} THEN "open1" ELSE "failed")
  /\ UNCHANGED <<kind, hold, queue, reset, typed, got>>

\* part2 finds no pipe of that name.
OpenMissing ==
  /\ kind = "fifo" /\ proc[B]["writer"] = "open1" /\ "fifo_1" \notin fifos
  /\ Goto(B, "writer", "failed")
  /\ UNCHANGED <<kind, fifos, hold, queue, reset, typed, got>>

\* Mutant of Opens: fifo_messager opens its read end first.
OpensReadEndFirst(s) == IF s = A THEN <<"fifo_2", "fifo_1">> ELSE <<"fifo_1", "fifo_2">>

\* The order in which each program opens the pipes.
Opens(s) == <<"fifo_1", "fifo_2">>

\* The pipe whose other end the open of side s is waiting for.
Opening(s) ==
  CASE proc[s][Parent(s)] = "open1" -> Opens(s)[1]
    [] proc[s][Parent(s)] = "open2" -> Opens(s)[2]
    [] OTHER -> "none"

\* open() of a FIFO blocks until the other side opens its other end: both
\* return. The descriptors of the first one are open during the second.
Rendezvous ==
  /\ Opening(A) = Opening(B) /\ Opening(A) \in fifos
  /\ proc' = [s \in Sides |-> [proc[s] EXCEPT ![Parent(s)] =
                                IF @ = "open1" THEN "open2" ELSE "fork"]]
  /\ hold' = [s \in Sides |-> {Parent(s)}]
  /\ UNCHANGED <<kind, fifos, queue, reset, typed, got>>

\* The child gets what the parent holds. A failed fork ends the program.
Fork(s) ==
  /\ proc[s][Parent(s)] = "fork"
  /\ \/ /\ proc' = [proc EXCEPT ![s] = [r \in Roles |-> "run"]]
        /\ hold' = [hold EXCEPT ![s] = Roles]
        /\ UNCHANGED reset
     \/ Exit(s, Parent(s), "failed")
  /\ UNCHANGED <<kind, fifos, queue, typed, got>>

-----------------------------------------------------------------------------
(* Talking                                                                 *)

\* Mutant of Outgoing: the descriptors are swapped.
Incoming(s) == Peer(s)

\* The stream that side s writes.
Outgoing(s) == s

\* A typed line is written. With nobody at the other end SIGPIPE kills the
\* writer: at once on a FIFO, and with the write after the reset on a socket.
TypeLine(s) ==
  /\ proc[s]["writer"] = "run" /\ typed[s] < MaxLines
  /\ typed' = [typed EXCEPT ![s] = @ + 1]
  /\ \/ /\ hold[Peer(s)] # {} /\ ~reset
        /\ queue' = [queue EXCEPT ![Outgoing(s)] = Append(@, [from |-> s, n |-> typed[s] + 1])]
        /\ UNCHANGED <<proc, hold, reset>>
     \/ /\ hold[Peer(s)] = {} /\ kind = "socket" /\ ~reset
        /\ reset' = TRUE /\ UNCHANGED <<proc, hold, queue>>
     \/ /\ reset \/ (kind = "fifo" /\ hold[Peer(s)] = {})
        /\ Exit(s, "writer", "SIGPIPE") /\ UNCHANGED queue
  /\ UNCHANGED <<kind, fifos, got>>

\* Mutant of Leave: shutdown() where the code has close().
LeaveShutdown(s) ==
  /\ kind = "socket" /\ proc[s]["writer"] = "run"
  /\ Goto(s, "writer", "left") /\ Drop(s, Roles)
  /\ UNCHANGED <<kind, fifos, queue, typed, got>>

\* Over a socket the writer leaves on an empty line or the end of its input
\* (write returns 0), when a write fails, and B's also on "exit", closing its
\* own copy only. The FIFO writers put a name before the line, never write nothing, and never leave.
Leave(s) ==
  /\ kind = "socket" /\ proc[s]["writer"] = "run"
  /\ Exit(s, "writer", "left")
  /\ UNCHANGED <<kind, fifos, queue, typed, got>>

Read(s) ==
  /\ proc[s]["reader"] = "run"
  /\ LET q == queue[Peer(s)] IN
       \E k \in 1..Len(q) :
         /\ k <= BufUnits
         /\ got' = [got EXCEPT ![s] = @ \o SubSeq(q, 1, k)]
         /\ queue' = [queue EXCEPT ![Peer(s)] = SubSeq(q, k + 1, Len(q))]
  /\ UNCHANGED <<kind, fifos, proc, hold, reset, typed>>

\* Mutant of Ended: the FIFO was opened for reading and writing, so this side
\* counts as a writer of its own.
EndedReadWrite(s) == queue[Peer(s)] = <<>> /\ ((hold[Peer(s)] = {} /\ hold[s] = {}) \/ reset)

\* A read returns 0 (or ECONNRESET): nobody holds the other end any more.
Ended(s) == queue[Peer(s)] = <<>> /\ (hold[Peer(s)] = {} \/ reset)

\* The socket readers end on <= 0, the FIFO readers only on < 0: they print an
\* empty line and read again, for ever.
ReadEnds(s) ==
  /\ proc[s]["reader"] = "run" /\ Ended(s)
  /\ IF kind = "socket"
     THEN Exit(s, "reader", "ended")
     ELSE Goto(s, "reader", "spin") /\ UNCHANGED <<hold, reset>>
  /\ UNCHANGED <<kind, fifos, queue, typed, got>>

\* Ctrl-C reaches a program as long as its parent runs in the foreground. An
\* interrupted open gives the pipe up; a connection not accepted is reset.
Interrupt(s) ==
  /\ proc[s][Parent(s)] \notin Gone \cup {"start"}
  /\ proc' = [proc EXCEPT ![s] =
       [r \in Roles |-> IF @[r] \in Gone \cup {"none"} THEN @[r] ELSE "interrupted"]]
  /\ hold' = [hold EXCEPT ![s] = {}]
  /\ reset' = (reset \/ /\ kind = "socket" /\ hold[s] # {}
                        /\ (queue[Peer(s)] # <<>> \/ "kernel" \in hold[s]))
  /\ UNCHANGED <<kind, fifos, queue, typed, got>>

SetUp == Accept \/ MkFifo \/ OpenMissing \/ Rendezvous \/ \E s \in Sides : Fork(s)

Next ==
  \/ SetUp
  \/ \E s \in Sides :
       Start(s) \/ TypeLine(s) \/ Leave(s) \/ Read(s) \/ ReadEnds(s) \/ Interrupt(s)

Spec == Init /\ [][Next]_vars

\* The kernel lets set-up calls that can return do so, and runs the readers.
\* Nobody has to start a program, to type, to leave or to interrupt.
FairSpec ==
  /\ Spec
  /\ WF_vars(MkFifo) /\ WF_vars(Rendezvous)
  /\ \A s \in Sides : WF_vars(Fork(s)) /\ WF_vars(Read(s) \/ ReadEnds(s))

-----------------------------------------------------------------------------
(* Properties                                                              *)

\* Each side prints the other's lines, in order and complete up to some point,
\* although four processes hold the descriptors of both directions.
InOrder ==
  \A s \in Sides :
    LET ms == got[s] \o queue[Peer(s)] IN
      \A k \in DOMAIN ms : ms[k] = [from |-> Peer(s), n |-> k]

\* A reader reads the end, and a writer meets SIGPIPE, only when both processes
\* of the peer are gone: one that leaves alone (client.c:103, server.c:120) is
\* covered by the other's copies - so when both writers have left, the two
\* readers wait for each other.
EndHasCause ==
  \A s \in Sides :
    (proc[s]["reader"] \in {"ended", "spin"} \/ proc[s]["writer"] = "SIGPIPE") =>
      SideGone(Peer(s))

\* Two programs that wait in their open calls (fifo_messager.c:31 and :38,
\* part2 18 and 25) find each other, unless one is interrupted.
Met ==
  (\A s \in Sides : proc[s][Parent(s)] \in {"open1", "open2"}) ~>
    \/ \A s \in Sides : proc[s][Parent(s)] = "run"
    \/ \E s \in Sides : proc[s][Parent(s)] \in Gone \cup {"spin"}

\* When a side is gone, the other one's reader notices: it ends, or spins.
HangUp ==
  \A s \in Sides :
    SideGone(Peer(s)) /\ proc[s]["reader"] = "run" ~> proc[s]["reader"] # "run"
=============================================================================
