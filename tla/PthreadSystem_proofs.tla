------------------------ MODULE PthreadSystem_proofs ------------------------
(***************************************************************************)
(* Safety of the thread-per-connection server and its clients for every    *)
(* set of clients, any number of slots, every buffer size and any number   *)
(* of lines: descriptor numbers are closed by threads and handed out again *)
(* by accept, and still every thread serves its own client.                *)
(***************************************************************************)
EXTENDS PthreadSystem, SequenceTheorems, FiniteSetTheorems, WellFoundedInduction, TLAPS

-----------------------------------------------------------------------------
(* Types                                                                   *)

\* What is left of a sequence after a read has its type.
LEMMA RestType ==
  ASSUME NEW S, NEW s \in Seq(S), NEW k \in 1..Len(s)
  PROVE  /\ Rest(s, k) \in Seq(S)
         /\ SubSeq(s, 1, k) \in Seq(S)
<1>1. Len(s) \in Nat /\ \A j \in 1..Len(s) : s[j] \in S
  BY ElementOfSeq, LenProperties
<1>2. SubSeq(s, 1, k) \in Seq(S)
  BY <1>1, SubSeqProperties
<1>3. Rest(s, k) \in Seq(S)
  BY <1>1, SubSeqProperties DEF Rest
<1> QED
  BY <1>2, <1>3

\* What is appended to has its type and an element.
LEMMA AppendType ==
  ASSUME NEW S, NEW s \in Seq(S), NEW e \in S
  PROVE  Append(s, e) \in Seq(S) /\ Append(s, e) # <<>>
BY AppendProperties

\* A process that exits, on either side, leaves the connections well typed.
LEMMA ExitType ==
  ASSUME TcpTypeOK, NEW p \in Clients \cup {Server}, NEW unread, ServerExits(p, unread)
  PROVE  /\ srvEnd' \in [Clients -> SUBSET (Clients \cup {Server})]
         /\ reset' \in [Clients -> BOOLEAN]
         /\ backlog' \in Seq(Clients)
<1>1. srvEnd' \in [Clients -> SUBSET (Clients \cup {Server})]
  BY DEF ServerExits, TcpTypeOK
<1>2. reset' \in [Clients -> BOOLEAN]
  BY DEF ServerExits, TcpTypeOK
<1>3. backlog' \in Seq(Clients)
  BY DEF ServerExits, TcpTypeOK
<1> QED
  BY <1>1, <1>2, <1>3

LEMMA CloseType ==
  ASSUME TcpTypeOK, NEW c \in Clients, NEW ps, CloseClient(c, ps)
  PROVE  /\ cliEnd' \in [Clients -> SUBSET {"writer", "reader", "client"}]
         /\ reset' \in [Clients -> BOOLEAN]
<1>1. cliEnd' \in [Clients -> SUBSET {"writer", "reader", "client"}]
  BY DEF CloseClient, TcpTypeOK
<1>2. reset' \in [Clients -> BOOLEAN]
  BY DEF CloseClient, TcpTypeOK
<1> QED
  BY <1>1, <1>2

LEMMA ClientTypes ==
  ASSUME TypeOK, NEW c \in Clients, ClientMoves(c)
  PROVE  TypeOK'
<1> USE LinesAssumption, TcpAssumption DEF TypeOK, TcpTypeOK, ClientTypeOK
<1>1. ServerTypeOK'
  BY DEF ServerTypeOK, ClientMoves, serverVars
<1>2. CASE Connect(c, Listening)
  <2>1. Append(backlog, c) \in Seq(Clients)
    OBVIOUS
  <2>2. cliEnd' \in [Clients -> SUBSET {"writer", "reader", "client"}]
    <3>1. cliEnd' = cliEnd \/ cliEnd' = [cliEnd EXCEPT ![c] = {"writer"}]
      BY <1>2 DEF Connect
    <3>2. {"writer"} \in SUBSET {"writer", "reader", "client"}
      OBVIOUS
    <3> QED
      BY <3>1, <3>2
  <2>3. backlog' \in Seq(Clients)
    BY <1>2, <2>1 DEF Connect
  <2>4. writer' \in [Clients -> {"connect", "fork", "type", "exited"}]
    BY <1>2 DEF Connect
  <2>5. UNCHANGED <<reader, typed, got, up, down, srvEnd, reset>>
    BY <1>2 DEF Connect
  <2> QED
    BY <1>1, <2>2, <2>3, <2>4, <2>5
<1>3. CASE ForkReader(c)
  <2>1. /\ cliEnd' \in [Clients -> SUBSET {"writer", "reader", "client"}]
        /\ reset' \in [Clients -> BOOLEAN]
    <3>1. CASE CloseClient(c, {"writer"})
      BY <3>1, CloseType
    <3>2. CASE /\ cliEnd' = [cliEnd EXCEPT ![c] = {"writer", "reader"}]
               /\ UNCHANGED reset
      BY <3>2
    <3> QED
      BY <1>3, <3>1, <3>2 DEF ForkReader
  <2>2. UNCHANGED <<typed, got, up, down, srvEnd, backlog>>
    BY <1>3 DEF ForkReader
  <2>3. writer' \in [Clients -> {"connect", "fork", "type", "exited"}]
    BY <1>3 DEF ForkReader
  <2>4. reader' \in [Clients -> {"none", "read", "exited"}]
    BY <1>3 DEF ForkReader
  <2> QED
    BY <1>1, <2>1, <2>2, <2>3, <2>4
<1>4. ASSUME NEW text \in {"line", "quit"}, TypeLine(c, text) PROVE TypeOK'
  <2> DEFINE ms == <<[from |-> c, n |-> typed[c] + 1, text |-> text]>>
  <2>1. ms \in Seq(Msg)
    BY DEF Msg
  <2>2. up[c] \o ms \in Seq(Msg)
    BY <2>1
  <2>3. ClientTypeOK'
    <3>1. typed' \in [Clients -> Nat] /\ \A d \in Clients : typed'[d] <= MaxLines[d]
      BY <1>4 DEF TypeLine
    <3>2. writer' \in [Clients -> {"connect", "fork", "type", "exited"}]
      BY <1>4 DEF TypeLine
    <3>3. UNCHANGED <<reader, got>>
      BY <1>4 DEF TypeLine
    <3> QED
      BY <3>1, <3>2, <3>3
  <2>4. TcpTypeOK'
    <3>1. UNCHANGED <<down, srvEnd, backlog>>
      BY <1>4 DEF TypeLine
    <3>2. CASE WriteUp(c, ms) /\ UNCHANGED <<writer, cliEnd>>
      <4> HIDE DEF ms
      <4>1. up' \in [Clients -> Seq(Msg)]
        BY <3>2, <2>2 DEF WriteUp
      <4>2. reset' \in [Clients -> BOOLEAN]
        BY <3>2 DEF WriteUp
      <4> QED
        BY <3>1, <3>2, <4>1, <4>2
    <3>3. CASE CloseClient(c, {"writer"}) /\ UNCHANGED up
      BY <3>1, <3>3, CloseType
    <3> QED
      BY <1>4, <3>2, <3>3 DEF TypeLine
  <2> QED
    BY <1>1, <2>3, <2>4
<1>5. CASE LeaveWriter(c)
  <2>1. TcpTypeOK'
    BY <1>5, CloseType DEF LeaveWriter
  <2>2. ClientTypeOK'
    BY <1>5 DEF LeaveWriter
  <2> QED
    BY <1>1, <2>1, <2>2
<1>6. CASE Interrupt(c)
  <2>1. TcpTypeOK'
    BY <1>6, CloseType DEF Interrupt
  <2>2. ClientTypeOK'
    BY <1>6 DEF Interrupt
  <2> QED
    BY <1>1, <2>1, <2>2
<1>7. CASE ReaderReads(c)
  <2>1. PICK k \in 1..Len(down[c]) :
          /\ down' = [down EXCEPT ![c] = Rest(@, k)]
          /\ got' = [got EXCEPT ![c] = @ \o SubSeq(down[c], 1, k)]
    BY <1>7 DEF ReaderReads
  <2>2. Rest(down[c], k) \in Seq(Msg) /\ SubSeq(down[c], 1, k) \in Seq(Msg)
    BY RestType
  <2>3. got[c] \o SubSeq(down[c], 1, k) \in Seq(Msg)
    BY <2>2
  <2>4. TcpTypeOK'
    BY <1>7, <2>1, <2>2 DEF ReaderReads
  <2>5. ClientTypeOK'
    BY <1>7, <2>1, <2>3 DEF ReaderReads
  <2> QED
    BY <1>1, <2>4, <2>5
<1>8. CASE ReaderEnds(c)
  <2>1. TcpTypeOK'
    BY <1>8, CloseType DEF ReaderEnds
  <2>2. ClientTypeOK'
    BY <1>8 DEF ReaderEnds
  <2> QED
    BY <1>1, <2>1, <2>2
<1> QED
  BY <1>2, <1>3, <1>4, <1>5, <1>6, <1>7, <1>8 DEF ClientMoves, ClientStep

-----------------------------------------------------------------------------
(* The inductive invariant                                                 *)

In(s, c) == \E k \in DOMAIN s : s[k] = c
Distinct(s) == \A k, m \in DOMAIN s : k # m => s[k] # s[m]

Addr(k) == sock_info[k].sock_addr

\* The slots in which a connection has been entered.
Taken(k) == k <= i \/ (main = "create" /\ k = NextSlot)

\* The slots whose descriptor is in use: those of running threads, and the one
\* main is about to start a thread for.
Uses(k) == Running(k) \/ (main = "create" /\ k = NextSlot)

\* main has closed the descriptor of slot k, the last thing it does but return.
TakenAway(k) ==
  main = "return" /\ Fd(k) = peerfd /\ fds[Fd(k)] = Free /\ i = MAX

\* The process holds the connection of slot k: by the slot's descriptor, or by
\* a read() that outlives it.
HoldsFor(k) == Alive /\ Uses(k) /\ (thread[k] # "held" => fds[Fd(k)] = Addr(k))

\* How far main has got with its slots.
SlotsInv ==
  /\ main \in {"accept", "create"} => i < MAX
  /\ \A k \in Slots : thread[k] = "none" <=> i < k
  /\ \A k \in Slots : Taken(k) => Fd(k) \in Fds /\ Addr(k) \in Clients
  /\ main = "create" => peerfd = Fd(NextSlot)
  /\ main \in {"listening", "peer", "return"} => peerfd = -1 \/ i = MAX

\* A descriptor is open for exactly one slot in use, and a slot in use has its
\* connection, until main takes that of the last one away.
Table ==
  Alive =>
    /\ \A k \in Slots : Uses(k) => fds[Fd(k)] = Addr(k) \/ TakenAway(k)
    /\ \A k \in Slots : thread[k] = "held" => TakenAway(k)
    /\ \A k, m \in Slots : Uses(k) /\ Uses(m) /\ Fd(k) = Fd(m) => k = m
    /\ \A fd \in Fds : fds[fd] # Free => \E k \in Slots : Uses(k) /\ Fd(k) = fd

\* A client connects once: it has not yet, it waits in the backlog, or it has a
\* slot, and never two of these.
Once ==
  /\ \A k, m \in Slots : Taken(k) /\ Taken(m) /\ Addr(k) = Addr(m) => k = m
  /\ Distinct(backlog)
  /\ \A c \in Clients, k \in Slots : In(backlog, c) /\ Taken(k) => Addr(k) # c
  /\ \A c \in Clients : writer[c] = "connect" =>
       /\ ~In(backlog, c) /\ cliEnd[c] = {} /\ ~reset[c]
       /\ \A k \in Slots : Taken(k) => Addr(k) # c
  /\ \A c \in Clients : writer[c] = "fork" => cliEnd[c] = {"writer"}

\* The process holds no other connection than those of its slots.
Holds ==
  \A c \in Clients :
    /\ srvEnd[c] \in {{}, {Server}}
    /\ srvEnd[c] # {} <=> \E k \in Slots : HoldsFor(k) /\ Addr(k) = c

\* A connection that both sides hold has not been reset.
Resets == \A c \in Clients : reset[c] /\ ServerOpen(c) => ~ClientOpen(c)

IInv == TypeOK /\ SlotsInv /\ Table /\ Once /\ Holds /\ Resets /\ EndsWithCause

\* Taking the head of a list of different clients, and adding to one.
LEMMA TailIn ==
  ASSUME NEW s \in Seq(Clients), s # <<>>, Distinct(s)
  PROVE  /\ Head(s) \in Clients /\ Tail(s) \in Seq(Clients) /\ In(s, Head(s))
         /\ Distinct(Tail(s))
         /\ \A c \in Clients : In(Tail(s), c) <=> In(s, c) /\ c # Head(s)
<1>1. /\ Len(s) \in Nat \ {0} /\ DOMAIN s = 1..Len(s) /\ Head(s) = s[1]
      /\ Head(s) \in Clients /\ Tail(s) \in Seq(Clients)
  BY EmptySeq, LenProperties, HeadTailProperties, ElementOfSeq
<1>2. /\ DOMAIN Tail(s) = 1..Len(s) - 1
      /\ \A k \in 1..Len(s) - 1 : Tail(s)[k] = s[k + 1]
  BY <1>1, HeadTailProperties, LenProperties
<1>3. In(s, Head(s))
  BY <1>1 DEF In
<1>4. Distinct(Tail(s))
  <2> SUFFICES ASSUME NEW k \in 1..Len(s) - 1, NEW m \in 1..Len(s) - 1, k # m
               PROVE  Tail(s)[k] # Tail(s)[m]
    BY <1>2 DEF Distinct
  <2>1. k + 1 \in DOMAIN s /\ m + 1 \in DOMAIN s /\ k + 1 # m + 1
    BY <1>1
  <2> QED
    BY <1>2, <2>1 DEF Distinct
<1>5. ASSUME NEW c \in Clients, In(Tail(s), c) PROVE In(s, c) /\ c # Head(s)
  <2>1. PICK k \in 1..Len(s) - 1 : s[k + 1] = c
    BY <1>2, <1>5 DEF In
  <2>2. k + 1 \in DOMAIN s /\ 1 \in DOMAIN s /\ k + 1 # 1
    BY <1>1
  <2> QED
    BY <1>1, <2>1, <2>2 DEF In, Distinct
<1>6. ASSUME NEW c \in Clients, In(s, c), c # Head(s) PROVE In(Tail(s), c)
  <2>1. PICK k \in 1..Len(s) : s[k] = c
    BY <1>1, <1>6 DEF In
  <2>2. k - 1 \in 1..Len(s) - 1 /\ (k - 1) + 1 = k
    BY <1>1, <1>6, <2>1
  <2>3. Tail(s)[k - 1] = c
    BY <1>2, <2>1, <2>2
  <2> QED
    BY <1>2, <2>2, <2>3 DEF In
<1> QED
  BY <1>1, <1>3, <1>4, <1>5, <1>6

LEMMA AppendIn ==
  ASSUME NEW s \in Seq(Clients), NEW e \in Clients
  PROVE  /\ Append(s, e)[Len(Append(s, e))] = e
         /\ Distinct(s) /\ ~In(s, e) => Distinct(Append(s, e))
         /\ \A c \in Clients : In(Append(s, e), c) <=> In(s, c) \/ c = e
<1> DEFINE t == Append(s, e)
<1>1. /\ Len(s) \in Nat /\ DOMAIN s = 1..Len(s)
      /\ Len(t) = Len(s) + 1 /\ DOMAIN t = 1..Len(s) + 1
      /\ \A k \in 1..Len(s) : t[k] = s[k]
      /\ t[Len(s) + 1] = e
  BY LenProperties, AppendProperties
<1> HIDE DEF t
<1>2. t[Len(t)] = e
  BY <1>1
<1>3. ASSUME Distinct(s), ~In(s, e) PROVE Distinct(t)
  <2> SUFFICES ASSUME NEW k \in 1..Len(s) + 1, NEW m \in 1..Len(s) + 1, k # m
               PROVE  t[k] # t[m]
    BY <1>1 DEF Distinct
  <2>1. CASE k \in 1..Len(s) /\ m \in 1..Len(s)
    BY <1>1, <1>3, <2>1 DEF Distinct
  <2>2. CASE k = Len(s) + 1 /\ m \in 1..Len(s)
    BY <1>1, <1>3, <2>2 DEF In
  <2>3. CASE m = Len(s) + 1 /\ k \in 1..Len(s)
    BY <1>1, <1>3, <2>3 DEF In
  <2> QED
    BY <1>1, <2>1, <2>2, <2>3
<1>4. ASSUME NEW c \in Clients PROVE In(t, c) <=> In(s, c) \/ c = e
  <2>1. ASSUME In(t, c) PROVE In(s, c) \/ c = e
    <3>1. PICK k \in 1..Len(s) + 1 : t[k] = c
      BY <1>1, <2>1 DEF In
    <3> QED
      BY <1>1, <3>1 DEF In
  <2>2. ASSUME In(s, c) PROVE In(t, c)
    <3>1. PICK k \in 1..Len(s) : s[k] = c
      BY <1>1, <2>2 DEF In
    <3>2. k \in DOMAIN t /\ t[k] = c
      BY <1>1, <3>1
    <3> QED
      BY <3>2 DEF In
  <2>3. ASSUME c = e PROVE In(t, c)
    <3>1. Len(s) + 1 \in DOMAIN t
      BY <1>1
    <3> QED
      BY <1>1, <2>3, <3>1 DEF In
  <2> QED
    BY <2>1, <2>2, <2>3
<1> QED
  BY <1>2, <1>3, <1>4 DEF t


-----------------------------------------------------------------------------
(* Steps of the clients                                                    *)

\* A thread that was writing to a client that is gone, and still is.
SomeLost == \E k \in Slots : thread[k] = "write" /\ Lost(Addr(k))

LEMMA LostStays ==
  ASSUME IInv, SomeLost, UNCHANGED <<thread, sock_info>>,
         \A c \in Clients : Lost(c) => Lost(c)'
  PROVE  SomeLost'
<1>1. PICK k \in Slots : thread[k] = "write" /\ Lost(Addr(k))
  BY DEF SomeLost
<1>2. k \in Nat /\ i \in Nat
  BY PthreadAssumption DEF IInv, TypeOK, ServerTypeOK, Slots
<1>3. Addr(k) \in Clients
  BY <1>1, <1>2 DEF IInv, SlotsInv, Taken
<1>4. Lost(Addr(k))'
  BY <1>1, <1>3 DEF Lost, Addr, ClientOpen
<1> QED
  BY <1>1, <1>4 DEF SomeLost

LEMMA ConnectInv ==
  ASSUME IInv, NEW c \in Clients, Connect(c, Listening), UNCHANGED serverVars
  PROVE  IInv'
<1> USE DEF IInv, TypeOK
<1>1. TypeOK'
  BY ClientTypes DEF ClientMoves, ClientStep
<1>2. /\ UNCHANGED <<srvEnd, reset, main, fds, peerfd, i, sock_info, thread, chunk>>
      /\ writer[c] = "connect" /\ backlog \in Seq(Clients)
      /\ \A d \in Clients : d # c => writer'[d] = writer[d] /\ cliEnd'[d] = cliEnd[d]
      /\ \/ /\ Listening /\ writer'[c] = "fork" /\ cliEnd'[c] = {"writer"}
            /\ backlog' = Append(backlog, c)
         \/ ~Listening /\ writer'[c] = "exited" /\ UNCHANGED <<cliEnd, backlog>>
  BY DEF Connect, serverVars, TcpTypeOK, ClientTypeOK
<1>3. /\ cliEnd[c] = {} /\ ~reset[c] /\ ~In(backlog, c)
      /\ \A k \in Slots : Taken(k) => Addr(k) # c
  BY <1>2 DEF Once
<1>4. /\ Distinct(backlog')
      /\ \A d \in Clients : In(backlog', d) => In(backlog, d) \/ d = c
  <2>1. /\ Distinct(Append(backlog, c))
        /\ \A d \in Clients : In(Append(backlog, c), d) <=> In(backlog, d) \/ d = c
    BY <1>2, <1>3, AppendIn DEF Once
  <2> QED
    BY <1>2, <2>1, Zenon DEF Once
<1>5. /\ SlotsInv' /\ Table' /\ Holds'
      /\ \A k \in Slots : Taken(k)' = Taken(k) /\ Addr(k)' = Addr(k)
  BY <1>2 DEF SlotsInv, Table, Holds, Taken, TakenAway, Uses, HoldsFor, Addr, Fd, Running,
              Alive, NextSlot
<1>6. Once'
  BY <1>2, <1>3, <1>4, <1>5 DEF Once
<1>7. Resets'
  <2>1. \A d \in Clients : (Queued(d) <=> In(backlog, d)) /\ (Queued(d)' <=> In(backlog', d))
    BY DEF Queued, In
  <2> QED
    BY <1>2, <1>3, <1>4, <2>1 DEF Resets, ServerOpen, ClientOpen
<1>8. EndsWithCause'
  <2>1. \A d \in Clients : d # c => ClientOpen(d)' = ClientOpen(d)
    BY <1>2 DEF ClientOpen
  <2>2. ASSUME NEW d \in Clients, Lost(d) PROVE Lost(d)'
    BY <1>2, <1>3, <2>1, <2>2 DEF Lost
  <2>3. main' = "killed" => SomeLost'
    BY <1>2, <2>2, LostStays DEF EndsWithCause, SomeLost, Addr
  <2>4. ASSUME NEW k \in Slots, thread[k] \in {"close", "ended"} PROVE Addr(k) # c
    BY <1>3, <2>4 DEF SlotsInv, Taken, TypeOK, ServerTypeOK, Slots
  <2>5. ASSUME NEW k \in Slots, thread'[k] \in {"close", "ended"}
        PROVE  \/ chunk'[k] # <<>> /\ chunk'[k][1].text = "quit"
               \/ ~ClientOpen(sock_info[k].sock_addr)'
               \/ (i = MAX /\ ~Listening /\ Fd(k) = peerfd)'
    <3>1. \/ chunk[k] # <<>> /\ chunk[k][1].text = "quit"
          \/ ~ClientOpen(Addr(k))
          \/ i = MAX /\ ~Listening /\ Fd(k) = peerfd
      BY <1>2, <2>5 DEF EndsWithCause, Addr
    <3>2. CASE ~ClientOpen(Addr(k))
      <4>1. Addr(k) \in Clients /\ Addr(k) # c
        BY <1>2, <2>4, <2>5 DEF SlotsInv, Taken, TypeOK, ServerTypeOK, Slots
      <4> QED
        BY <1>2, <2>1, <3>2, <4>1 DEF Addr, ClientOpen
    <3> QED
      BY <1>2, <3>1, <3>2 DEF Listening, Fd
  <2> QED
    BY <2>3, <2>5, Zenon DEF EndsWithCause, SomeLost, Addr
<1> QED
  BY <1>1, <1>5, <1>6, <1>7, <1>8

\* What the other steps of client c may do: its socket is never reopened, and
\* a reset meets a connection one end of which nobody holds.
Narrows(c) ==
  /\ UNCHANGED <<srvEnd, backlog, main, fds, peerfd, i, sock_info, thread, chunk>>
  /\ \A d \in Clients : d # c =>
       writer'[d] = writer[d] /\ cliEnd'[d] = cliEnd[d] /\ reset'[d] = reset[d]
  /\ writer'[c] = "connect" =>
       writer[c] = "connect" /\ cliEnd'[c] \subseteq cliEnd[c] /\ reset'[c] = reset[c]
  /\ writer'[c] = "fork" =>
       writer[c] = "fork" /\ (cliEnd[c] = {"writer"} => cliEnd'[c] = cliEnd[c])
  /\ ClientOpen(c)' => ClientOpen(c)
  /\ reset[c] => reset'[c]
  /\ reset'[c] => reset[c] \/ ~ServerOpen(c) \/ ~ClientOpen(c)'

LEMMA ClientNarrows ==
  ASSUME IInv, NEW c \in Clients, ClientMoves(c), ~Connect(c, Listening)
  PROVE  Narrows(c)
<1> USE DEF IInv, TypeOK, TcpTypeOK, ClientTypeOK
<1>1. UNCHANGED <<main, fds, peerfd, i, sock_info, thread, chunk>>
  BY DEF ClientMoves, serverVars
<1>2. ASSUME NEW ps, CloseClient(c, ps), UNCHANGED <<srvEnd, backlog>>,
             \/ writer' = [writer EXCEPT ![c] = "exited"]
             \/ ps = {"reader"} /\ down[c] = <<>> /\ UNCHANGED writer
      PROVE  Narrows(c)
  BY <1>1, <1>2 DEF Narrows, ClientOpen, CloseClient
<1>3. CASE ForkReader(c)
  <2>1. UNCHANGED <<srvEnd, backlog>> /\ writer[c] = "fork"
    BY <1>3 DEF ForkReader
  <2>2. CASE /\ writer' = [writer EXCEPT ![c] = "type"]
             /\ cliEnd' = [cliEnd EXCEPT ![c] = {"writer", "reader"}]
             /\ UNCHANGED reset
    <3>1. cliEnd[c] # {}
      BY <2>1 DEF Once
    <3> QED
      BY <1>1, <2>1, <2>2, <3>1 DEF Narrows, ClientOpen
  <2> QED
    BY <1>2, <1>3, <2>1, <2>2 DEF ForkReader
<1>4. ASSUME NEW text \in {"line", "quit"}, TypeLine(c, text) PROVE Narrows(c)
  <2>1. UNCHANGED <<srvEnd, backlog>> /\ writer[c] = "type"
    BY <1>4 DEF TypeLine
  <2>2. CASE UNCHANGED <<writer, cliEnd>> /\ \E ms : WriteUp(c, ms)
    BY <1>1, <2>1, <2>2 DEF Narrows, ClientOpen, WriteUp
  <2> QED
    BY <1>2, <1>4, <2>1, <2>2 DEF TypeLine
<1>5. CASE LeaveWriter(c)
  BY <1>2, <1>5 DEF LeaveWriter
<1>6. CASE Interrupt(c)
  BY <1>2, <1>6 DEF Interrupt
<1>7. CASE ReaderReads(c)
  BY <1>1, <1>7 DEF ReaderReads, Narrows, ClientOpen
<1>8. CASE ReaderEnds(c)
  BY <1>2, <1>8 DEF ReaderEnds, DownEnded
<1> QED
  BY <1>3, <1>4, <1>5, <1>6, <1>7, <1>8 DEF ClientMoves, ClientStep

LEMMA NarrowsInv ==
  ASSUME IInv, TypeOK', NEW c \in Clients, Narrows(c)
  PROVE  IInv'
<1> USE DEF IInv, TypeOK, Narrows
<1>1. /\ SlotsInv' /\ Table' /\ Holds'
      /\ \A k \in Slots : Taken(k)' = Taken(k) /\ Addr(k)' = Addr(k)
  BY DEF SlotsInv, Table, Holds, Taken, TakenAway, Uses, HoldsFor, Addr, Fd, Running,
         Alive, NextSlot
<1>2. Once'
  BY <1>1 DEF Once
<1>3. \A d \in Clients : ClientOpen(d)' => ClientOpen(d)
  BY DEF ClientOpen
<1>4. Resets'
  BY <1>3 DEF Resets, ServerOpen, Queued
<1>5. EndsWithCause'
  <2>1. main' = "killed" => SomeLost'
    BY <1>3, LostStays DEF EndsWithCause, SomeLost, Addr, Lost
  <2>2. ASSUME NEW k \in Slots, thread'[k] \in {"close", "ended"}
        PROVE  \/ chunk'[k] # <<>> /\ chunk'[k][1].text = "quit"
               \/ ~ClientOpen(sock_info[k].sock_addr)'
               \/ (i = MAX /\ ~Listening /\ Fd(k) = peerfd)'
    <3>1. \/ chunk[k] # <<>> /\ chunk[k][1].text = "quit"
          \/ ~ClientOpen(Addr(k))
          \/ i = MAX /\ ~Listening /\ Fd(k) = peerfd
      BY <2>2 DEF EndsWithCause, Addr
    <3>2. CASE ~ClientOpen(Addr(k))
      <4>1. Addr(k) \in Clients
        BY <2>2 DEF SlotsInv, Taken, ServerTypeOK, Slots
      <4> QED
        BY <1>3, <3>2, <4>1 DEF Addr, ClientOpen
    <3> QED
      BY <3>1, <3>2 DEF Listening, Fd
  <2> QED
    BY <2>1, <2>2, Zenon DEF EndsWithCause, SomeLost, Addr
<1> QED
  BY <1>1, <1>2, <1>4, <1>5

-----------------------------------------------------------------------------
(* What the steps of the server have in common                             *)

\* Why the session of slot k has ended.
CauseOf(k) ==
  \/ chunk[k] # <<>> /\ chunk[k][1].text = "quit"
  \/ ~ClientOpen(Addr(k))
  \/ i = MAX /\ ~Listening /\ Fd(k) = peerfd

LEMMA Causes ==
  ASSUME IInv, NEW k \in Slots, thread[k] \in {"close", "ended"}
  PROVE  CauseOf(k)
BY DEF IInv, EndsWithCause, CauseOf, Addr

\* The server cannot undo a cause.
LEMMA CauseStays ==
  ASSUME IInv, NEW k \in Slots, thread[k] \in {"close", "ended"},
         UNCHANGED <<cliEnd, sock_info>>, chunk'[k] = chunk[k],
         ~Listening /\ i = MAX => ~Listening' /\ UNCHANGED <<i, peerfd>>
  PROVE  CauseOf(k)'
BY Causes DEF CauseOf, Addr, ClientOpen, Fd

LEMMA CausesInv ==
  ASSUME \A k \in Slots : thread'[k] \in {"close", "ended"} => CauseOf(k)',
         main' = "killed" => SomeLost'
  PROVE  EndsWithCause'
BY DEF EndsWithCause, CauseOf, SomeLost, Addr

LEMMA QueuedIn ==
  ASSUME NEW c \in Clients
  PROVE  (Queued(c) <=> In(backlog, c)) /\ (Queued(c)' <=> In(backlog', c))
BY DEF Queued, In

\* A slot in use is taken: its descriptor is a number of the table, its address
\* a client's.
LEMMA UsesTaken ==
  ASSUME IInv, NEW k \in Slots, Uses(k)
  PROVE  Taken(k) /\ Fd(k) \in Fds /\ Addr(k) \in Clients
<1>1. k \in Nat /\ i \in Nat
  BY PthreadAssumption DEF IInv, TypeOK, ServerTypeOK, Slots
<1>2. Taken(k)
  BY <1>1 DEF IInv, Uses, Running, Taken, SlotsInv
<1> QED
  BY <1>2 DEF IInv, SlotsInv

\* What main does while it has slots: the next one is free.
LEMMA NextFree ==
  ASSUME IInv, main \in {"accept", "create"}
  PROVE  /\ NextSlot \in Slots /\ NextSlot \in Nat /\ ~(NextSlot <= i)
         /\ thread[NextSlot] = "none" /\ ~Running(NextSlot)
<1>1. i \in Nat /\ i < MAX /\ MAX \in Nat /\ NextSlot = i + 1
  BY PthreadAssumption DEF IInv, TypeOK, ServerTypeOK, SlotsInv, NextSlot
<1>2. NextSlot \in Slots /\ i < NextSlot
  BY <1>1 DEF Slots
<1>3. thread[NextSlot] = "none"
  BY <1>2 DEF IInv, SlotsInv
<1> QED
  BY <1>1, <1>2, <1>3 DEF Running

\* No connection is held for two slots; one that is held is open, and it is held
\* for nobody who has yet to connect or waits.
LEMMA HeldOnce ==
  ASSUME IInv, NEW k \in Slots, HoldsFor(k)
  PROVE  /\ Addr(k) \in Clients /\ srvEnd[Addr(k)] = {Server}
         /\ ~In(backlog, Addr(k)) /\ writer[Addr(k)] # "connect"
         /\ \A m \in Slots : HoldsFor(m) /\ Addr(m) = Addr(k) => m = k
<1>1. \A m \in Slots : HoldsFor(m) => Taken(m) /\ Addr(m) \in Clients
  BY UsesTaken DEF HoldsFor
<1> QED
  BY <1>1 DEF IInv, Holds, Once

\* A slot that gives its connection up.
LEMMA Leaves ==
  ASSUME IInv, NEW k \in Slots, HoldsFor(k),
         UNCHANGED <<backlog, cliEnd, writer, sock_info>>,
         srvEnd' = [srvEnd EXCEPT ![Addr(k)] = @ \ {Server}],
         \A c \in Clients : c # Addr(k) => reset'[c] = reset[c],
         \A m \in Slots : /\ Taken(m)' <=> Taken(m)
                          /\ HoldsFor(m)' <=> HoldsFor(m) /\ m # k
  PROVE  Once' /\ Holds' /\ Resets'
<1>1. /\ Addr(k) \in Clients /\ srvEnd[Addr(k)] = {Server}
      /\ ~In(backlog, Addr(k)) /\ writer[Addr(k)] # "connect"
      /\ \A m \in Slots : HoldsFor(m) /\ Addr(m) = Addr(k) => m = k
  BY HeldOnce
<1>2. \A m \in Slots : Addr(m)' = Addr(m)
  BY DEF Addr
<1>3. /\ srvEnd'[Addr(k)] = {}
      /\ \A c \in Clients : c # Addr(k) => srvEnd'[c] = srvEnd[c]
  BY <1>1 DEF IInv, TypeOK, TcpTypeOK
<1>4. Once'
  BY <1>1, <1>2 DEF IInv, Once
<1>5. Holds'
  BY <1>1, <1>2, <1>3 DEF IInv, Holds
<1>6. Resets'
  BY <1>1, <1>3, QueuedIn DEF IInv, Resets, ServerOpen, ClientOpen
<1> QED
  BY <1>4, <1>5, <1>6

\* The process ends.
LEMMA StopInv ==
  ASSUME IInv, Alive, NEW how \in {"exited", "killed"}, Stop(how), UNCHANGED clientVars,
         UNCHANGED <<fds, peerfd, i, sock_info, thread, chunk, up, down, cliEnd>>,
         how = "killed" => SomeLost
  PROVE  IInv'
<1> USE DEF IInv, TypeOK
<1>1. main' = how /\ ServerExits(Server, up)
  BY DEF Stop
<1>2. TypeOK'
  <2>1. ClientTypeOK' /\ ServerTypeOK'
    BY <1>1 DEF ClientTypeOK, ServerTypeOK, clientVars
  <2> QED
    BY <1>1, <2>1, ExitType DEF TcpTypeOK
<1>3. ~Alive' /\ ~Listening' /\ main' \notin {"accept", "create", "listening", "peer", "return"}
  BY <1>1 DEF Alive, Listening
<1>4. \A k \in Slots : Taken(k)' => Taken(k)
  BY <1>3 DEF Taken
<1>5. SlotsInv'
  BY <1>3, <1>4 DEF SlotsInv, Fd, Addr
<1>6. Table'
  BY <1>3 DEF Table
<1>7. \A c \in Clients : srvEnd'[c] = {}
  BY <1>1 DEF ServerExits, Holds
<1>8. backlog' = <<>> /\ \A c \in Clients : reset[c] => reset'[c]
  BY <1>1 DEF ServerExits, TcpTypeOK
<1>9. \A c \in Clients : ~In(backlog', c)
  BY <1>8 DEF In
<1>10. Holds'
  BY <1>3, <1>7 DEF Holds, HoldsFor
<1>11. Resets'
  BY <1>7, <1>9, QueuedIn DEF Resets, ServerOpen
<1>12. Once'
  <2>1. ASSUME NEW c \in Clients, writer[c] = "connect" PROVE ~reset'[c]
    <3>1. ~In(backlog, c) /\ ~reset[c] /\ \A k \in Slots : Taken(k) => Addr(k) # c
      BY <2>1 DEF Once
    <3>2. srvEnd[c] = {}
      BY <3>1, UsesTaken DEF Holds, HoldsFor
    <3> QED
      BY <1>1, <3>1, <3>2, QueuedIn DEF ServerExits
  <2>2. Distinct(backlog')
    BY <1>8 DEF Distinct
  <2>3. \A k \in Slots : Addr(k)' = Addr(k)
    BY DEF Addr
  <2> QED
    BY <1>4, <1>9, <2>1, <2>2, <2>3 DEF Once, clientVars
<1>13. EndsWithCause'
  <2>1. \A k \in Slots : thread'[k] \in {"close", "ended"} => CauseOf(k)'
    BY <1>3, CauseStays
  <2>2. main' = "killed" => SomeLost'
    BY <1>1, <1>8, LostStays DEF Lost, ClientOpen
  <2> QED
    BY <2>1, <2>2, CausesInv
<1> QED
  BY <1>2, <1>5, <1>6, <1>10, <1>11, <1>12, <1>13

-----------------------------------------------------------------------------
(* Steps of main                                                           *)

\* A set of numbers that is not empty has a least one.
LEMMA Least ==
  ASSUME NEW S \in SUBSET Nat, S # {}
  PROVE  \E n \in S : \A m \in S : n <= m
<1> DEFINE R == OpToRel(<, Nat)
<1>1. IsWellFoundedOn(R, Nat)
  BY NatLessThanWellFounded
<1>2. \A x, y \in Nat : x < y => <<x, y>> \in R
  BY DEF OpToRel
<1> HIDE DEF R
<1>3. PICK n \in S : \A m \in S : <<m, n>> \notin R
  BY <1>1, WFMin
<1>4. \A m \in S : ~(m < n)
  BY <1>2, <1>3
<1> QED
  BY <1>4

\* While main accepts, fewer slots are in use than there are numbers: one is free.
LEMMA SomeFree ==
  ASSUME IInv, main = "accept"
  PROVE  \E fd \in Fds : fds[fd] = Free
<1> SUFFICES ASSUME \A fd \in Fds : fds[fd] # Free PROVE FALSE
  OBVIOUS
<1>1. MAX \in Nat /\ i \in Nat /\ i < MAX
  BY PthreadAssumption DEF IInv, TypeOK, ServerTypeOK, SlotsInv
<1>2. ASSUME NEW fd \in Fds PROVE \E k \in 1..i : Fd(k) = fd
  <2>1. PICK k \in Slots : Uses(k) /\ Fd(k) = fd
    BY DEF IInv, Table, Alive
  <2>2. k <= i
    BY <2>1, UsesTaken DEF Taken
  <2> QED
    BY <1>1, <2>1, <2>2 DEF Slots
<1> DEFINE slotOf == [n \in 1..MAX |-> CHOOSE k \in 1..i : Fd(k) = sockfd + n]
<1>3. ASSUME NEW n \in 1..MAX PROVE slotOf[n] \in 1..i /\ Fd(slotOf[n]) = sockfd + n
  <2>1. sockfd + n \in Fds
    BY <1>1 DEF Fds, sockfd
  <2>2. \E k \in 1..i : Fd(k) = sockfd + n
    BY <1>2, <2>1
  <2> QED
    BY <2>2
<1> HIDE DEF slotOf
<1>4. ASSUME NEW n \in 1..MAX, NEW m \in 1..MAX, slotOf[n] = slotOf[m] PROVE n = m
  <2>1. sockfd + n = sockfd + m
    BY <1>3, <1>4
  <2> QED
    BY <1>1, <2>1 DEF sockfd
<1>5. slotOf \in Injection(1..MAX, 1..i)
  <2>1. slotOf \in [1..MAX -> 1..i]
    BY <1>3 DEF slotOf
  <2> QED
    BY <1>4, <2>1 DEF Injection, IsInjective
<1>6. /\ IsFiniteSet(1..MAX) /\ Cardinality(1..MAX) = IF 1 > MAX THEN 0 ELSE MAX - 1 + 1
      /\ IsFiniteSet(1..i) /\ Cardinality(1..i) = IF 1 > i THEN 0 ELSE i - 1 + 1
  BY <1>1, FS_Interval
<1>7. Cardinality(1..MAX) <= Cardinality(1..i)
  BY <1>5, <1>6, FS_Injection
<1> QED
  BY <1>1, <1>6, <1>7

\* accept returns a number that is free.
LEMMA NewFdFree ==
  ASSUME IInv, main = "accept"
  PROVE  NewFd \in Fds /\ fds[NewFd] = Free
<1> DEFINE S == {fd \in Fds : fds[fd] = Free}
<1>1. S # {} /\ S \in SUBSET Nat /\ Fds \subseteq Nat
  BY SomeFree, PthreadAssumption DEF Fds, sockfd
<1>2. PICK n \in S : \A m \in S : n <= m
  BY <1>1, Least
<1>3. \A other \in Fds : other < n => fds[other] # Free
  BY <1>1, <1>2
<1>4. \E fd \in Fds : fds[fd] = Free /\ \A other \in Fds : other < fd => fds[other] # Free
  BY <1>2, <1>3
<1> QED
  BY <1>4 DEF NewFd

LEMMA AcceptInv ==
  ASSUME IInv, Accept, UNCHANGED clientVars
  PROVE  IInv'
<1> USE DEF IInv, TypeOK
<1>1. NextSlot \in Slots /\ NewFd \in Fds /\ Head(backlog) \in Clients
  BY NextFree, NewFdFree, TailIn DEF Accept, Once, TcpTypeOK
<1> PICK new \in Slots, num \in Fds, c \in Clients :
      new = NextSlot /\ num = NewFd /\ c = Head(backlog)
  BY <1>1
<1>2. /\ main = "accept" /\ main' = "create" /\ backlog # <<>> /\ backlog' = Tail(backlog)
      /\ peerfd' = num
      /\ fds' = [fds EXCEPT ![num] = c]
      /\ sock_info' = [sock_info EXCEPT ![new] = [sock_fd |-> num, sock_addr |-> c]]
      /\ srvEnd' = [srvEnd EXCEPT ![c] = {Server}]
      /\ UNCHANGED <<i, thread, chunk, up, down, cliEnd, reset, writer>>
      /\ new = i + 1 /\ ~(new <= i) /\ thread[new] = "none" /\ ~Running(new)
      /\ fds[num] = Free
  BY NextFree, NewFdFree DEF Accept, clientVars, NextSlot
<1>3. /\ Tail(backlog) \in Seq(Clients) /\ In(backlog, c)
      /\ Distinct(Tail(backlog))
      /\ \A d \in Clients : In(Tail(backlog), d) <=> In(backlog, d) /\ d # c
  BY <1>2, TailIn DEF Once, TcpTypeOK
<1>4. /\ \A k \in Slots : k # new => Fd(k)' = Fd(k) /\ Addr(k)' = Addr(k)
      /\ Fd(new)' = num /\ Addr(new)' = c
  BY <1>2 DEF Fd, Addr, ServerTypeOK
<1>5. /\ fds'[num] = c
      /\ \A fd \in Fds : fd # num => fds'[fd] = fds[fd]
  BY <1>2 DEF ServerTypeOK
<1>6. \A k \in Slots : /\ Taken(k)' <=> Taken(k) \/ k = new
                       /\ Uses(k)' <=> Uses(k) \/ k = new
                       /\ Taken(k) => k # new
                       /\ Uses(k) => k # new
  BY <1>2 DEF Taken, Uses, Running, NextSlot
<1>7. \A k \in Slots : Uses(k) =>
        /\ Taken(k) /\ thread[k] # "held" /\ Fd(k) \in Fds /\ Addr(k) \in Clients
        /\ fds[Fd(k)] = Addr(k) /\ Fd(k) # num
  BY <1>2, UsesTaken, PthreadAssumption DEF Table, TakenAway, Alive
<1>8. TypeOK'
  <2>1. TcpTypeOK'
    BY <1>2, <1>3, TcpAssumption DEF TcpTypeOK
  <2>2. ClientTypeOK'
    BY DEF ClientTypeOK, clientVars
  <2>3. ServerTypeOK'
    BY <1>2, <1>3 DEF ServerTypeOK
  <2> QED
    BY <2>1, <2>2, <2>3
<1>9. SlotsInv'
  <2>1. \A k \in Slots : Taken(k)' => Fd(k)' \in Fds /\ Addr(k)' \in Clients
    BY <1>2, <1>3, <1>4, <1>6 DEF SlotsInv
  <2>2. peerfd' = Fd(new)' /\ NextSlot' = new
    BY <1>2, <1>4 DEF NextSlot
  <2>3. Fd(NextSlot)' = Fd(new)'
    BY <1>2 DEF Fd, NextSlot
  <2> QED
    BY <1>2, <2>1, <2>2, <2>3 DEF SlotsInv
<1>10. Table'
  <2>1. \A k \in Slots : Uses(k)' => fds'[Fd(k)'] = Addr(k)'
    BY <1>4, <1>5, <1>6, <1>7
  <2>2. \A k \in Slots : thread'[k] # "held"
    BY <1>2, <1>7 DEF Uses, Running
  <2>3. \A k, m \in Slots : Uses(k)' /\ Uses(m)' /\ Fd(k)' = Fd(m)' => k = m
    BY <1>2, <1>4, <1>6, <1>7 DEF Table, Alive
  <2>4. \A fd \in Fds : fds'[fd] # Free => \E k \in Slots : Uses(k)' /\ Fd(k)' = fd
    <3> SUFFICES ASSUME NEW fd \in Fds, fds'[fd] # Free
                 PROVE  \E k \in Slots : Uses(k)' /\ Fd(k)' = fd
      OBVIOUS
    <3>1. CASE fd = num
      BY <1>2, <1>4, <1>6, <3>1
    <3>2. CASE fd # num
      <4>1. PICK k \in Slots : Uses(k) /\ Fd(k) = fd
        BY <1>2, <1>5, <3>2 DEF Table, Alive
      <4> QED
        BY <1>4, <1>6, <4>1
    <3> QED
      BY <3>1, <3>2
  <2> QED
    BY <2>1, <2>2, <2>3, <2>4 DEF Table
<1>11. Once'
  <2>1. \A k \in Slots : Taken(k) => Addr(k) # c
    BY <1>3 DEF Once
  <2>2. \A k, m \in Slots : Taken(k)' /\ Taken(m)' /\ Addr(k)' = Addr(m)' => k = m
    BY <1>4, <1>6, <2>1 DEF Once
  <2>3. \A d \in Clients, k \in Slots : In(backlog', d) /\ Taken(k)' => Addr(k)' # d
    BY <1>2, <1>3, <1>4, <1>6 DEF Once
  <2>4. \A d \in Clients : writer[d] = "connect" => d # c
    BY <1>3 DEF Once
  <2>5. ASSUME NEW d \in Clients, writer[d] = "connect"
        PROVE  /\ ~In(backlog', d) /\ cliEnd[d] = {} /\ ~reset[d]
               /\ \A k \in Slots : Taken(k)' => Addr(k)' # d
    <3>1. /\ ~In(backlog, d) /\ cliEnd[d] = {} /\ ~reset[d] /\ d # c
          /\ \A k \in Slots : Taken(k) => Addr(k) # d
      BY <2>4, <2>5 DEF Once
    <3> QED
      BY <1>2, <1>3, <1>4, <1>6, <3>1
  <2> QED
    BY <1>2, <1>3, <2>2, <2>3, <2>5 DEF Once
<1>12. Holds'
  <2>1. /\ srvEnd'[c] = {Server}
        /\ \A d \in Clients : d # c => srvEnd'[d] = srvEnd[d]
    BY <1>2, <1>3 DEF TcpTypeOK
  <2>2. HoldsFor(new)' /\ Addr(new)' = c
    BY <1>2, <1>4, <1>5, <1>6 DEF HoldsFor, Alive
  <2>3. \A k \in Slots : k # new => HoldsFor(k)' = HoldsFor(k)
    BY <1>2, <1>4, <1>5, <1>6, <1>7 DEF HoldsFor, Alive
  <2>4. \A k \in Slots : HoldsFor(k) => k # new
    BY <1>6 DEF HoldsFor
  <2>5. ASSUME NEW d \in Clients, d # c
        PROVE  /\ srvEnd'[d] \in {{}, {Server}}
               /\ srvEnd'[d] # {} <=> \E k \in Slots : HoldsFor(k)' /\ Addr(k)' = d
    <3>1. /\ srvEnd[d] \in {{}, {Server}}
          /\ srvEnd[d] # {} <=> \E k \in Slots : HoldsFor(k) /\ Addr(k) = d
      BY DEF Holds
    <3>2. (\E k \in Slots : HoldsFor(k)' /\ Addr(k)' = d)
             <=> \E k \in Slots : HoldsFor(k) /\ Addr(k) = d
      BY <1>4, <2>2, <2>3, <2>4, <2>5
    <3> QED
      BY <2>1, <2>5, <3>1, <3>2
  <2>6. /\ srvEnd'[c] \in {{}, {Server}}
        /\ srvEnd'[c] # {} <=> \E k \in Slots : HoldsFor(k)' /\ Addr(k)' = c
    BY <1>2, <2>1, <2>2
  <2> QED
    BY <2>5, <2>6 DEF Holds
<1>13. Resets'
  <2>1. \A d \in Clients : ServerOpen(d)' => ServerOpen(d)
    <3>1. \A d \in Clients : d # c => srvEnd'[d] = srvEnd[d]
      BY <1>2, <1>3 DEF TcpTypeOK
    <3> QED
      BY <1>2, <1>3, <3>1, QueuedIn DEF ServerOpen
  <2> QED
    BY <1>2, <2>1 DEF Resets, ClientOpen
<1>14. EndsWithCause'
  <2>1. ASSUME NEW k \in Slots, thread'[k] \in {"close", "ended"} PROVE CauseOf(k)'
    <3>1. thread[k] \in {"close", "ended"} /\ Listening /\ k # new
      BY <1>2, <2>1 DEF Listening
    <3>2. CauseOf(k)
      BY <3>1, Causes
    <3> QED
      BY <1>2, <1>4, <3>1, <3>2 DEF CauseOf, ClientOpen
  <2> QED
    BY <1>2, <2>1, CausesInv
<1> QED
  BY <1>8, <1>9, <1>10, <1>11, <1>12, <1>13, <1>14

LEMMA AcceptFailsInv ==
  ASSUME IInv, AcceptFails, UNCHANGED clientVars
  PROVE  IInv'
<1> USE DEF IInv, TypeOK
<1>1. /\ main = "accept" /\ peerfd' = -1
      /\ \/ backlog # <<>> /\ backlog' = Tail(backlog) /\ main' = "accept"
         \/ main' = "listening" /\ UNCHANGED backlog
      /\ UNCHANGED <<fds, i, sock_info, thread, chunk, up, down, cliEnd, srvEnd, reset>>
      /\ UNCHANGED writer
  BY DEF AcceptFails, clientVars
<1>2. /\ backlog' \in Seq(Clients) /\ Distinct(backlog')
      /\ \A d \in Clients : In(backlog', d) => In(backlog, d)
  BY <1>1, TailIn DEF Once, TcpTypeOK
<1>3. TypeOK'
  <2>1. TcpTypeOK'
    BY <1>1, <1>2 DEF TcpTypeOK
  <2>2. ClientTypeOK'
    BY DEF ClientTypeOK, clientVars
  <2>3. ServerTypeOK'
    BY <1>1 DEF ServerTypeOK
  <2> QED
    BY <2>1, <2>2, <2>3
<1>4. \A k \in Slots :
        /\ Fd(k)' = Fd(k) /\ Addr(k)' = Addr(k) /\ Taken(k)' = Taken(k)
        /\ Uses(k)' = Uses(k) /\ HoldsFor(k)' = HoldsFor(k)
        /\ ~TakenAway(k) /\ ~TakenAway(k)'
  BY <1>1 DEF Fd, Addr, Taken, Uses, HoldsFor, TakenAway, Alive, Running
<1>5. SlotsInv'
  BY <1>1, <1>4 DEF SlotsInv
<1>6. Table'
  BY <1>1, <1>4 DEF Table, Alive
<1>7. Once'
  BY <1>1, <1>2, <1>4 DEF Once
<1>8. Holds'
  BY <1>1, <1>4 DEF Holds
<1>9. Resets'
  BY <1>1, <1>2, QueuedIn DEF Resets, ServerOpen, ClientOpen
<1>10. EndsWithCause'
  <2>1. Listening
    BY <1>1 DEF Listening
  <2>2. \A k \in Slots : thread'[k] \in {"close", "ended"} => CauseOf(k)'
    BY <1>1, <2>1, CauseStays
  <2> QED
    BY <1>1, <2>2, CausesInv
<1> QED
  BY <1>3, <1>5, <1>6, <1>7, <1>8, <1>9, <1>10

LEMMA CreateThreadInv ==
  ASSUME IInv, CreateThread, UNCHANGED clientVars
  PROVE  IInv'
<1> USE DEF IInv, TypeOK
<1>1. /\ main = "create" /\ Alive
      /\ UNCHANGED <<fds, peerfd, sock_info, chunk, up, down, cliEnd>>
  BY DEF CreateThread, Alive
<1>2. CASE Stop("exited") /\ UNCHANGED <<thread, i>>
  BY <1>1, <1>2, StopInv
<1>3. CASE /\ thread' = [thread EXCEPT ![NextSlot] = "read"]
           /\ i' = i + 1
           /\ main' = IF i + 1 = MAX THEN "listening" ELSE "accept"
           /\ UNCHANGED <<srvEnd, reset, backlog>>
  <2>1. /\ NextSlot \in Slots /\ thread[NextSlot] = "none"
        /\ i \in Nat /\ i < MAX /\ MAX \in Nat
    BY <1>1, NextFree, PthreadAssumption DEF ServerTypeOK, SlotsInv
  <2> PICK new \in Slots : new = i + 1 /\ new = NextSlot
    BY <2>1 DEF NextSlot
  <2>2. /\ thread'[new] = "read"
        /\ \A k \in Slots : k # new => thread'[k] = thread[k]
    BY <1>3, <2>1 DEF ServerTypeOK
  <2>3. TypeOK'
    <3>1. TcpTypeOK'
      BY <1>1, <1>3 DEF TcpTypeOK
    <3>2. ClientTypeOK'
      BY DEF ClientTypeOK, clientVars
    <3>3. ServerTypeOK'
      BY <1>1, <1>3, <2>1 DEF ServerTypeOK
    <3> QED
      BY <3>1, <3>2, <3>3
  <2>4. \A k \in Slots :
          /\ Fd(k)' = Fd(k) /\ Addr(k)' = Addr(k)
          /\ Taken(k) <=> k <= i \/ k = new
          /\ Taken(k)' <=> Taken(k)
    <3>1. \A k \in Slots : k \in Nat /\ (Taken(k)' <=> k <= i + 1)
      BY <1>3 DEF Slots, Taken
    <3> QED
      BY <1>1, <2>1, <3>1 DEF Fd, Addr, Taken, NextSlot
  <2>5. \A k \in Slots :
          /\ Uses(k)' <=> Uses(k)
          /\ ~TakenAway(k) /\ ~TakenAway(k)'
          /\ HoldsFor(k)' <=> HoldsFor(k)
    BY <1>1, <1>3, <2>1, <2>2, <2>4 DEF Uses, HoldsFor, TakenAway, Alive, Running
  <2>6. SlotsInv'
    <3>1. \A k \in Slots : thread'[k] = "none" <=> i + 1 < k
      <4>1. \A k \in Slots : k \in Nat /\ (thread[k] = "none" <=> i < k)
        BY DEF Slots, SlotsInv
      <4> QED
        BY <2>1, <2>2, <4>1
    <3>2. \A k \in Slots : Taken(k)' => Fd(k)' \in Fds /\ Addr(k)' \in Clients
      BY <2>4 DEF SlotsInv
    <3>3. /\ main' \in {"accept", "create"} => i + 1 < MAX
          /\ main' # "create"
          /\ main' \in {"listening", "peer", "return"} => i + 1 = MAX
      BY <1>3, <2>1
    <3> QED
      BY <1>3, <3>1, <3>2, <3>3 DEF SlotsInv
  <2>7. Table'
    BY <1>1, <1>3, <2>2, <2>4, <2>5 DEF Table
  <2>8. Once'
    BY <1>1, <1>3, <2>4 DEF Once, clientVars
  <2>9. Holds'
    BY <1>3, <2>4, <2>5 DEF Holds
  <2>10. Resets'
    BY <1>1, <1>3, QueuedIn DEF Resets, ServerOpen, ClientOpen
  <2>11. EndsWithCause'
    <3>1. \A k \in Slots : thread'[k] \in {"close", "ended"} => thread[k] \in {"close", "ended"}
      BY <2>2
    <3>2. \A k \in Slots : thread'[k] \in {"close", "ended"} => CauseOf(k)'
      BY <1>1, <3>1, CauseStays DEF Listening
    <3> QED
      BY <1>3, <3>2, CausesInv
  <2> QED
    BY <2>3, <2>6, <2>7, <2>8, <2>9, <2>10, <2>11
<1> QED
  BY <1>1, <1>2, <1>3 DEF CreateThread

LEMMA CloseListeningInv ==
  ASSUME IInv, CloseListening, UNCHANGED clientVars
  PROVE  IInv'
<1> USE DEF IInv, TypeOK
<1>1. /\ main = "listening" /\ main' = "peer" /\ backlog' = <<>>
      /\ reset' = [c \in Clients |-> reset[c] \/ Queued(c)]
      /\ UNCHANGED <<fds, peerfd, i, sock_info, thread, chunk, up, down, cliEnd, srvEnd>>
      /\ UNCHANGED writer
  BY DEF CloseListening, clientVars
<1>2. Distinct(backlog') /\ \A c \in Clients : ~In(backlog', c)
  BY <1>1 DEF Distinct, In
<1>3. TypeOK'
  <2>1. TcpTypeOK'
    BY <1>1 DEF TcpTypeOK
  <2>2. ClientTypeOK'
    BY DEF ClientTypeOK, clientVars
  <2>3. ServerTypeOK'
    BY <1>1 DEF ServerTypeOK
  <2> QED
    BY <2>1, <2>2, <2>3
<1>4. \A k \in Slots :
        /\ Fd(k)' = Fd(k) /\ Addr(k)' = Addr(k) /\ Taken(k)' = Taken(k)
        /\ Uses(k)' = Uses(k) /\ HoldsFor(k)' = HoldsFor(k)
        /\ ~TakenAway(k) /\ ~TakenAway(k)'
  BY <1>1 DEF Fd, Addr, Taken, Uses, HoldsFor, TakenAway, Alive, Running
<1>5. SlotsInv'
  BY <1>1, <1>4 DEF SlotsInv
<1>6. Table'
  BY <1>1, <1>4 DEF Table, Alive
<1>7. Once'
  BY <1>1, <1>2, <1>4, QueuedIn DEF Once
<1>8. Holds'
  BY <1>1, <1>4 DEF Holds
<1>9. Resets'
  <2>1. ASSUME NEW c \in Clients, In(backlog, c) PROVE srvEnd[c] = {}
    BY <2>1, UsesTaken DEF Once, Holds, HoldsFor
  <2> QED
    BY <1>1, <1>2, <2>1, QueuedIn DEF Resets, ServerOpen, ClientOpen
<1>10. EndsWithCause'
  <2>1. \A k \in Slots : thread'[k] \in {"close", "ended"} => CauseOf(k)'
    BY <1>1, CauseStays DEF Listening
  <2> QED
    BY <1>1, <2>1, CausesInv
<1> QED
  BY <1>3, <1>5, <1>6, <1>7, <1>8, <1>9, <1>10

\* close(peerfd) finds the descriptor of one slot that is in use, or nothing.
LEMMA ClosePeerInv ==
  ASSUME IInv, ClosePeer, UNCHANGED clientVars
  PROVE  IInv'
<1> USE DEF IInv, TypeOK
<1>1. /\ main = "peer" /\ main' = "return"
      /\ UNCHANGED <<peerfd, i, sock_info, chunk, up, down, cliEnd, backlog, writer>>
      /\ ~Listening /\ ~Listening' /\ Alive /\ Alive'
  BY DEF ClosePeer, clientVars, Listening, Alive
<1>2. \A k \in Slots :
        /\ Fd(k)' = Fd(k) /\ Addr(k)' = Addr(k)
        /\ Taken(k)' <=> Taken(k)
        /\ Uses(k) <=> Running(k)
        /\ Uses(k)' <=> Running(k)'
        /\ ~TakenAway(k)
        /\ Uses(k) => /\ Fd(k) \in Fds /\ Addr(k) \in Clients /\ Addr(k) # Free
                      /\ fds[Fd(k)] = Addr(k) /\ thread[k] # "held"
  BY <1>1, UsesTaken, PthreadAssumption DEF Fd, Addr, Taken, Uses, TakenAway, Table, Running
<1>3. CASE UNCHANGED <<fds, thread, srvEnd, reset>>
  <2>1. TypeOK'
    <3>1. TcpTypeOK'
      BY <1>1, <1>3 DEF TcpTypeOK
    <3>2. ClientTypeOK'
      BY DEF ClientTypeOK, clientVars
    <3>3. ServerTypeOK'
      BY <1>1, <1>3 DEF ServerTypeOK
    <3> QED
      BY <3>1, <3>2, <3>3
  <2>2. \A k \in Slots : (Uses(k)' <=> Uses(k)) /\ (HoldsFor(k)' <=> HoldsFor(k))
    BY <1>1, <1>2, <1>3 DEF Running, HoldsFor
  <2>3. SlotsInv'
    BY <1>1, <1>2, <1>3 DEF SlotsInv
  <2>4. Table'
    BY <1>1, <1>2, <1>3, <2>2 DEF Table
  <2>5. Once'
    BY <1>1, <1>2, <1>3 DEF Once
  <2>6. Holds'
    BY <1>2, <1>3, <2>2 DEF Holds
  <2>7. Resets'
    BY <1>1, <1>3, QueuedIn DEF Resets, ServerOpen, ClientOpen
  <2>8. EndsWithCause'
    <3>1. \A k \in Slots : thread'[k] \in {"close", "ended"} => CauseOf(k)'
      BY <1>1, <1>3, CauseStays
    <3> QED
      BY <1>1, <3>1, CausesInv
  <2> QED
    BY <2>1, <2>3, <2>4, <2>5, <2>6, <2>7, <2>8
<1>4. CASE /\ peerfd # -1 /\ fds[peerfd] # Free
           /\ fds' = [fds EXCEPT ![peerfd] = Free]
           /\ \/ \E k \in Readers(peerfd) :
                   thread' = [thread EXCEPT ![k] = "held"] /\ UNCHANGED <<srvEnd, reset>>
              \/ CloseServer(fds[peerfd], Server) /\ UNCHANGED thread
  <2>1. peerfd \in Fds /\ i = MAX
    BY <1>1, <1>4 DEF ServerTypeOK, SlotsInv
  <2>2. PICK p \in Slots : Uses(p) /\ Fd(p) = peerfd
    BY <1>1, <1>4, <2>1 DEF Table
  <2>3. /\ fds'[peerfd] = Free
        /\ \A fd \in Fds : fd # peerfd => fds'[fd] = fds[fd]
    BY <1>4, <2>1 DEF ServerTypeOK
  <2>4. \A k \in Slots : Uses(k) /\ k # p => Fd(k) # peerfd
    BY <1>1, <2>2 DEF Table
  <2>5. fds[peerfd] = Addr(p) /\ Addr(p) \in Clients /\ HoldsFor(p)
    BY <1>1, <1>2, <2>2 DEF HoldsFor
  <2>6. TakenAway(p)'
    BY <1>1, <1>2, <2>1, <2>2, <2>3 DEF TakenAway, Fd
  <2>7. \A k \in Readers(peerfd) : k = p
    BY <1>2, <2>2, <2>4 DEF Readers, Fd, Running
  <2>8. \/ /\ thread[p] = "read" /\ thread' = [thread EXCEPT ![p] = "held"]
           /\ UNCHANGED <<srvEnd, reset>>
        \/ CloseServer(Addr(p), Server) /\ UNCHANGED thread
    BY <1>4, <2>5, <2>7 DEF Readers
  <2>9. /\ \A k \in Slots : k # p => thread'[k] = thread[k]
        /\ thread'[p] = thread[p] \/ (thread[p] = "read" /\ thread'[p] = "held")
        /\ \A k \in Slots : (Running(k)' <=> Running(k)) /\ (thread'[k] = "held" => k = p)
        /\ \A k \in Slots : thread'[k] \in {"none", "close", "ended"} => thread'[k] = thread[k]
        /\ \A k \in Slots : thread[k] = "none" => thread'[k] = "none"
    BY <1>2, <2>8 DEF ServerTypeOK, Running
  <2>10. TypeOK'
    <3>1. TcpTypeOK'
      <4>1. srvEnd' \in [Clients -> SUBSET (Clients \cup {Server})]
        BY <2>8 DEF CloseServer, TcpTypeOK
      <4>2. reset' \in [Clients -> BOOLEAN]
        BY <2>8 DEF CloseServer, TcpTypeOK
      <4> QED
        BY <1>1, <4>1, <4>2 DEF TcpTypeOK
    <3>2. ClientTypeOK'
      BY DEF ClientTypeOK, clientVars
    <3>3. ServerTypeOK'
      BY <1>1, <1>4, <2>8 DEF ServerTypeOK
    <3> QED
      BY <3>1, <3>2, <3>3
  <2>11. SlotsInv'
    BY <1>1, <1>2, <2>1, <2>9 DEF SlotsInv
  <2>12. Table'
    <3>1. \A k \in Slots : Uses(k)' => fds'[Fd(k)'] = Addr(k)' \/ TakenAway(k)'
      BY <1>2, <2>3, <2>4, <2>6, <2>9
    <3>2. \A k \in Slots : thread'[k] = "held" => TakenAway(k)'
      BY <2>6, <2>9
    <3>3. \A k, m \in Slots : Uses(k)' /\ Uses(m)' /\ Fd(k)' = Fd(m)' => k = m
      BY <1>1, <1>2, <2>9 DEF Table
    <3>4. \A fd \in Fds : fds'[fd] # Free => \E k \in Slots : Uses(k)' /\ Fd(k)' = fd
      BY <1>1, <1>2, <2>3, <2>9 DEF Table
    <3> QED
      BY <3>1, <3>2, <3>3, <3>4 DEF Table
  <2>13. \A k \in Slots : k # p => (HoldsFor(k)' <=> HoldsFor(k))
    BY <1>1, <1>2, <2>3, <2>4, <2>9 DEF HoldsFor
  <2>14. Once' /\ Holds' /\ Resets'
    <3>1. CASE /\ thread[p] = "read" /\ thread' = [thread EXCEPT ![p] = "held"]
               /\ UNCHANGED <<srvEnd, reset>>
      <4>1. HoldsFor(p)'
        BY <1>1, <1>2, <2>2, <2>9, <3>1 DEF HoldsFor, ServerTypeOK
      <4>2. Once'
        BY <1>1, <1>2, <3>1 DEF Once
      <4>3. Holds'
        BY <1>2, <2>5, <2>13, <3>1, <4>1 DEF Holds
      <4>4. Resets'
        BY <1>1, <3>1, QueuedIn DEF Resets, ServerOpen, ClientOpen
      <4> QED
        BY <4>2, <4>3, <4>4
    <3>2. CASE CloseServer(Addr(p), Server) /\ UNCHANGED thread
      <4>1. ~HoldsFor(p)'
        BY <1>1, <1>2, <2>2, <2>3, <3>2 DEF HoldsFor
      <4>2. \A m \in Slots : /\ Taken(m)' <=> Taken(m)
                             /\ HoldsFor(m)' <=> HoldsFor(m) /\ m # p
        BY <1>2, <2>13, <4>1
      <4>3. /\ srvEnd' = [srvEnd EXCEPT ![Addr(p)] = @ \ {Server}]
            /\ \A c \in Clients : c # Addr(p) => reset'[c] = reset[c]
        BY <3>2 DEF CloseServer, TcpTypeOK
      <4> QED
        BY <1>1, <2>5, <4>2, <4>3, Leaves
    <3> QED
      BY <2>8, <3>1, <3>2
  <2>15. EndsWithCause'
    <3>1. \A k \in Slots : thread'[k] \in {"close", "ended"} => CauseOf(k)'
      BY <1>1, <2>9, CauseStays
    <3> QED
      BY <1>1, <3>1, CausesInv
  <2> QED
    BY <2>10, <2>11, <2>12, <2>14, <2>15
<1> QED
  BY <1>3, <1>4 DEF ClosePeer

LEMMA MainInv ==
  ASSUME IInv, Main, UNCHANGED clientVars
  PROVE  IInv'
<1>1. CASE Return
  <2>1. Alive /\ Stop("exited")
    BY <1>1 DEF Return, Alive
  <2> QED
    BY <1>1, <2>1, StopInv DEF Return
<1> QED
  BY <1>1, AcceptInv, AcceptFailsInv, CreateThreadInv, CloseListeningInv, ClosePeerInv DEF Main

-----------------------------------------------------------------------------
(* Steps of the threads                                                    *)

\* What a step of the thread of slot k leaves alone, and what the slots are then.
ThreadMoves(k, where) ==
  /\ Alive /\ Running(k) /\ where \in {"read", "write", "close", "ended"}
  /\ thread' = [thread EXCEPT ![k] = where]
  /\ \A m \in Slots : m # k => chunk'[m] = chunk[m]
  /\ UNCHANGED <<main, peerfd, i, sock_info, cliEnd, backlog, writer>>

LEMMA ThreadKeeps ==
  ASSUME IInv, NEW k \in Slots, NEW where, ThreadMoves(k, where)
  PROVE  /\ SlotsInv'
         /\ \A m \in Slots : /\ Fd(m)' = Fd(m) /\ Addr(m)' = Addr(m)
                             /\ Taken(m)' <=> Taken(m)
         /\ \A m \in Slots : m # k => thread'[m] = thread[m] /\ (Uses(m)' <=> Uses(m))
         /\ thread'[k] = where /\ Uses(k)
<1> USE DEF IInv, TypeOK, ThreadMoves
<1>1. /\ \A m \in Slots : /\ Fd(m)' = Fd(m) /\ Addr(m)' = Addr(m)
                          /\ Taken(m)' <=> Taken(m)
  BY DEF Fd, Addr, Taken, NextSlot
<1>2. thread'[k] = where /\ \A m \in Slots : m # k => thread'[m] = thread[m]
  BY DEF ServerTypeOK
<1>3. Uses(k) /\ \A m \in Slots : m # k => (Uses(m)' <=> Uses(m))
  BY <1>2 DEF Uses, Running, NextSlot
<1>4. thread[k] # "none" /\ where # "none"
  BY DEF Running
<1>5. SlotsInv'
  <2>1. Fd(NextSlot)' = Fd(NextSlot)
    BY DEF Fd, NextSlot
  <2>2. \A m \in Slots : thread'[m] = "none" <=> thread[m] = "none"
    BY <1>2, <1>4
  <2> QED
    BY <1>1, <2>1, <2>2 DEF SlotsInv
<1> QED
  BY <1>1, <1>2, <1>3, <1>5

\* A session's cause stands, and a thread that leaves its loop has one.
LEMMA ThreadCauses ==
  ASSUME IInv, NEW k \in Slots, NEW where, ThreadMoves(k, where),
         where \in {"close", "ended"} => CauseOf(k)',
         \A c \in Clients : reset[c] => reset'[c]
  PROVE  EndsWithCause'
<1>1. \A m \in Slots : m # k => thread'[m] = thread[m]
  BY ThreadKeeps
<1>2. \A m \in Slots : thread'[m] \in {"close", "ended"} => CauseOf(m)'
  <2> SUFFICES ASSUME NEW m \in Slots, m # k, thread'[m] \in {"close", "ended"}
               PROVE  CauseOf(m)'
    BY ThreadKeeps
  <2> QED
    BY <1>1, CauseStays DEF ThreadMoves, Listening
<1>3. main' # "killed"
  BY DEF ThreadMoves, Alive
<1> QED
  BY <1>2, <1>3, CausesInv

\* A step within the loop: at most, it meets a client that is gone.
LEMMA LoopInv ==
  ASSUME IInv, TypeOK', NEW k \in Slots, NEW where \in {"read", "write", "close"},
         ThreadMoves(k, where), thread[k] # "held", UNCHANGED <<fds, srvEnd>>,
         where = "close" => CauseOf(k)',
         \A c \in Clients :
           /\ reset[c] => reset'[c]
           /\ reset'[c] => reset[c] \/ (~ClientOpen(c) /\ c = Addr(k))
  PROVE  IInv'
<1> USE DEF IInv, TypeOK
<1>1. /\ SlotsInv'
      /\ \A m \in Slots : /\ Fd(m)' = Fd(m) /\ Addr(m)' = Addr(m)
                          /\ Taken(m)' <=> Taken(m)
      /\ \A m \in Slots : m # k => thread'[m] = thread[m] /\ (Uses(m)' <=> Uses(m))
      /\ thread'[k] = where /\ Uses(k)
  BY ThreadKeeps
<1>2. UNCHANGED <<main, peerfd, i, sock_info, cliEnd, backlog, writer>>
  BY DEF ThreadMoves
<1>3. \A m \in Slots : /\ Uses(m)' <=> Uses(m)
                       /\ TakenAway(m)' <=> TakenAway(m)
                       /\ HoldsFor(m)' <=> HoldsFor(m)
                       /\ thread'[m] = "held" => thread[m] = "held"
  BY <1>1, <1>2 DEF Uses, Running, TakenAway, HoldsFor, Alive
<1>4. Table'
  BY <1>1, <1>2, <1>3 DEF Table, Alive
<1>5. Once'
  <2>1. Taken(k)
    BY <1>1, UsesTaken
  <2> QED
    BY <1>1, <1>2, <2>1 DEF Once
<1>6. Holds'
  BY <1>1, <1>3 DEF Holds
<1>7. Resets'
  BY <1>2, QueuedIn DEF Resets, ServerOpen, ClientOpen
<1>8. EndsWithCause'
  BY ThreadCauses
<1> QED
  BY <1>1, <1>4, <1>5, <1>6, <1>7, <1>8

\* A read takes some of what its client wrote; "quit" ends the loop with a cause.
LEMMA Received ==
  ASSUME IInv, NEW k \in Slots, NEW c \in Clients, Receive(k, c)
  PROVE  /\ up' \in [Clients -> Seq(Msg)] /\ chunk' \in [Slots -> Seq(Msg)]
         /\ \A m \in Slots : m # k => chunk'[m] = chunk[m]
         /\ \E where \in {"write", "close"} :
              /\ thread' = [thread EXCEPT ![k] = where]
              /\ where = "close" => chunk'[k] # <<>> /\ chunk'[k][1].text = "quit"
<1> USE DEF IInv, TypeOK, TcpTypeOK, ServerTypeOK
<1>1. PICK n \in 1..Len(up[c]) :
        /\ up' = [up EXCEPT ![c] = Rest(@, n)]
        /\ chunk' = [chunk EXCEPT ![k] = SubSeq(up[c], 1, n)]
        /\ Goto(k, IF up[c][1].text = "quit" THEN "close" ELSE "write")
  BY DEF Receive
<1>2. Rest(up[c], n) \in Seq(Msg) /\ SubSeq(up[c], 1, n) \in Seq(Msg)
  BY RestType
<1>3. SubSeq(up[c], 1, n) # <<>> /\ SubSeq(up[c], 1, n)[1] = up[c][1]
  <2>1. Len(up[c]) \in Nat /\ n \in Nat /\ 1 <= n
    BY LenProperties
  <2> DEFINE s == SubSeq(up[c], 1, n)
  <2>2. Len(s) = n /\ s[1] = up[c][1]
    BY <2>1
  <2> HIDE DEF s
  <2>3. s # <<>>
    BY <2>1, <2>2
  <2> QED
    BY <2>2, <2>3 DEF s
<1>4. chunk'[k] = SubSeq(up[c], 1, n)
  BY <1>1
<1>5. up' \in [Clients -> Seq(Msg)] /\ chunk' \in [Slots -> Seq(Msg)]
  BY <1>1, <1>2
<1>6. \A m \in Slots : m # k => chunk'[m] = chunk[m]
  BY <1>1
<1>7. CASE up[c][1].text = "quit"
  BY <1>1, <1>3, <1>4, <1>5, <1>6, <1>7 DEF Goto
<1>8. CASE up[c][1].text # "quit"
  BY <1>1, <1>5, <1>6, <1>8 DEF Goto
<1> QED
  BY <1>7, <1>8

LEMMA ReadInv ==
  ASSUME IInv, NEW k \in Slots, Read(k), UNCHANGED clientVars
  PROVE  IInv'
<1> USE DEF IInv, TypeOK
<1>1. /\ Alive /\ thread[k] = "read" /\ Running(k) /\ Uses(k)
      /\ UNCHANGED <<main, fds, peerfd, i, sock_info, down, cliEnd, srvEnd, reset, backlog>>
      /\ UNCHANGED writer
  BY DEF Read, Running, Uses, clientVars
<1>2. /\ fds[Fd(k)] = Addr(k) \/ (fds[Fd(k)] = Free /\ TakenAway(k))
      /\ Addr(k) \in Clients /\ Addr(k) # Free
  BY <1>1, UsesTaken, PthreadAssumption DEF Table, TakenAway
<1>3. ClientTypeOK'
  BY DEF ClientTypeOK, clientVars
<1>4. CASE fds[Fd(k)] # Free /\ Receive(k, fds[Fd(k)])
  <2>1. fds[Fd(k)] = Addr(k)
    BY <1>2, <1>4
  <2>2. /\ up' \in [Clients -> Seq(Msg)] /\ chunk' \in [Slots -> Seq(Msg)]
        /\ \A m \in Slots : m # k => chunk'[m] = chunk[m]
        /\ \E where \in {"write", "close"} :
             /\ thread' = [thread EXCEPT ![k] = where]
             /\ where = "close" => chunk'[k] # <<>> /\ chunk'[k][1].text = "quit"
    BY <1>2, <1>4, <2>1, Received
  <2>3. PICK where \in {"write", "close"} :
             /\ thread' = [thread EXCEPT ![k] = where]
             /\ where = "close" => chunk'[k] # <<>> /\ chunk'[k][1].text = "quit"
    BY <2>2
  <2>4. TypeOK'
    BY <1>1, <1>3, <2>2, <2>3 DEF TcpTypeOK, ServerTypeOK
  <2>5. ThreadMoves(k, where)
    BY <1>1, <2>2, <2>3 DEF ThreadMoves
  <2>6. where = "close" => CauseOf(k)'
    BY <2>3 DEF CauseOf
  <2> QED
    BY <1>1, <2>4, <2>5, <2>6, LoopInv
<1>5. CASE /\ fds[Fd(k)] # Free => UpEnded(fds[Fd(k)])
           /\ Goto(k, "close") /\ UNCHANGED <<up, chunk>>
  <2>1. TypeOK'
    BY <1>1, <1>3, <1>5 DEF TcpTypeOK, ServerTypeOK, Goto
  <2>2. ThreadMoves(k, "close")
    BY <1>1, <1>5 DEF ThreadMoves, Goto
  <2>3. CauseOf(k)'
    <3>1. CASE fds[Fd(k)] = Addr(k)
      <4>1. HoldsFor(k)
        BY <1>1, <3>1 DEF HoldsFor
      <4>2. ServerOpen(Addr(k))
        BY <4>1, HeldOnce DEF ServerOpen
      <4>3. ~ClientOpen(Addr(k))
        BY <1>2, <1>5, <3>1, <4>2 DEF UpEnded, Resets
      <4> QED
        BY <1>1, <4>3 DEF CauseOf, ClientOpen, Addr
    <3>2. CASE TakenAway(k)
      BY <1>1, <3>2 DEF CauseOf, TakenAway, Listening, Fd
    <3> QED
      BY <1>2, <3>1, <3>2
  <2> QED
    BY <1>1, <2>1, <2>2, <2>3, LoopInv
<1> QED
  BY <1>4, <1>5 DEF Read

LEMMA HeldReadInv ==
  ASSUME IInv, NEW k \in Slots, HeldRead(k), UNCHANGED clientVars
  PROVE  IInv'
<1> USE DEF IInv, TypeOK
<1>1. /\ Alive /\ thread[k] = "held" /\ Running(k) /\ Uses(k)
      /\ UNCHANGED <<main, fds, peerfd, i, sock_info, down, cliEnd, backlog, writer>>
      /\ srvEnd' = [srvEnd EXCEPT ![Addr(k)] = @ \ {Server}]
      /\ reset' = [reset EXCEPT ![Addr(k)] = @ \/ up'[Addr(k)] # <<>>]
      /\ \/ Receive(k, Addr(k))
         \/ UpEnded(Addr(k)) /\ Goto(k, "close") /\ UNCHANGED <<up, chunk>>
  BY DEF HeldRead, Running, Uses, clientVars, Addr
<1>2. /\ HoldsFor(k) /\ TakenAway(k) /\ Fd(k) \in Fds /\ Addr(k) \in Clients /\ Addr(k) # Free
  BY <1>1, UsesTaken, PthreadAssumption DEF Table, HoldsFor
<1>3. /\ up' \in [Clients -> Seq(Msg)] /\ chunk' \in [Slots -> Seq(Msg)]
      /\ \A m \in Slots : m # k => chunk'[m] = chunk[m]
      /\ \E where \in {"write", "close"} : thread' = [thread EXCEPT ![k] = where]
  <2>1. CASE Receive(k, Addr(k))
    BY <1>2, <2>1, Received
  <2>2. CASE Goto(k, "close") /\ UNCHANGED <<up, chunk>>
    BY <2>2 DEF Goto, TcpTypeOK, ServerTypeOK
  <2> QED
    BY <1>1, <2>1, <2>2
<1>4. PICK where \in {"write", "close"} : thread' = [thread EXCEPT ![k] = where]
  BY <1>3
<1>5. ThreadMoves(k, where)
  BY <1>1, <1>3, <1>4 DEF ThreadMoves
<1>6. /\ SlotsInv'
      /\ \A m \in Slots : /\ Fd(m)' = Fd(m) /\ Addr(m)' = Addr(m)
                          /\ Taken(m)' <=> Taken(m)
      /\ \A m \in Slots : m # k => thread'[m] = thread[m] /\ (Uses(m)' <=> Uses(m))
      /\ thread'[k] = where /\ Uses(k)
  BY <1>5, ThreadKeeps
<1>7. TypeOK'
  <2>1. TcpTypeOK'
    <3>1. srvEnd' \in [Clients -> SUBSET (Clients \cup {Server})]
      BY <1>1 DEF TcpTypeOK
    <3>2. reset' \in [Clients -> BOOLEAN]
      BY <1>1 DEF TcpTypeOK
    <3> QED
      BY <1>1, <1>3, <3>1, <3>2 DEF TcpTypeOK
  <2>2. ClientTypeOK'
    BY DEF ClientTypeOK, clientVars
  <2>3. ServerTypeOK'
    BY <1>1, <1>3, <1>4 DEF ServerTypeOK
  <2> QED
    BY <2>1, <2>2, <2>3
<1>8. /\ \A m \in Slots : /\ Uses(m)' <=> Uses(m)
                          /\ TakenAway(m)' <=> TakenAway(m)
                          /\ HoldsFor(m)' <=> HoldsFor(m) /\ m # k
                          /\ thread'[m] = "held" => thread[m] = "held"
  <2>1. Uses(k)' /\ thread'[k] # "held" /\ fds'[Fd(k)'] = Free /\ Addr(k)' # Free
    BY <1>1, <1>2, <1>6 DEF Uses, Running, TakenAway
  <2> QED
    BY <1>1, <1>2, <1>6, <2>1 DEF TakenAway, HoldsFor, Alive
<1>9. Table'
  BY <1>1, <1>6, <1>8 DEF Table, Alive
<1>10. Once' /\ Holds' /\ Resets'
  <2>1. \A c \in Clients : c # Addr(k) => reset'[c] = reset[c]
    BY <1>1 DEF TcpTypeOK
  <2> QED
    BY <1>1, <1>2, <1>6, <1>8, <2>1, Leaves
<1>11. EndsWithCause'
  <2>1. CauseOf(k)'
    BY <1>1, <1>2 DEF CauseOf, TakenAway, Listening, Fd
  <2>2. \A c \in Clients : reset[c] => reset'[c]
    BY <1>1 DEF TcpTypeOK
  <2> QED
    BY <1>5, <2>1, <2>2, ThreadCauses
<1> QED
  BY <1>6, <1>7, <1>9, <1>10, <1>11

LEMMA WriteInv ==
  ASSUME IInv, NEW k \in Slots, Write(k), UNCHANGED clientVars
  PROVE  IInv'
<1> USE DEF IInv, TypeOK
<1> DEFINE junk == [from |-> fds[Fd(k)], n |-> 0, text |-> "junk"]
<1>1. /\ Alive /\ thread[k] = "write" /\ Running(k) /\ Uses(k)
      /\ UNCHANGED <<fds, peerfd, i, sock_info, chunk, up, cliEnd, writer>>
  BY DEF Write, Running, Uses, clientVars
<1>2. /\ fds[Fd(k)] = Addr(k) \/ (fds[Fd(k)] = Free /\ TakenAway(k))
      /\ Addr(k) \in Clients /\ Addr(k) # Free
  BY <1>1, UsesTaken, PthreadAssumption DEF Table, TakenAway
<1>3. ClientTypeOK'
  BY DEF ClientTypeOK, clientVars
<1>4. ASSUME NEW ms \in Seq(Msg), fds[Fd(k)] # Free, WriteDown(fds[Fd(k)], ms),
             Goto(k, "read"), UNCHANGED <<main, srvEnd, backlog>>
      PROVE  IInv'
  <2>1. fds[Fd(k)] = Addr(k)
    BY <1>2, <1>4
  <2>2. /\ \A c \in Clients :
             /\ reset[c] => reset'[c]
             /\ reset'[c] => reset[c] \/ (~ClientOpen(c) /\ c = Addr(k))
        /\ reset' \in [Clients -> BOOLEAN]
    BY <1>2, <1>4, <2>1 DEF WriteDown, TcpTypeOK
  <2>3. down[Addr(k)] \o ms \in Seq(Msg)
    BY <1>2, <1>4 DEF TcpTypeOK
  <2>4. down' \in [Clients -> Seq(Msg)]
    BY <1>2, <1>4, <2>1, <2>3 DEF WriteDown, TcpTypeOK
  <2>5. TypeOK'
    BY <1>1, <1>3, <1>4, <2>2, <2>4 DEF TcpTypeOK, ServerTypeOK, Goto
  <2>6. ThreadMoves(k, "read")
    BY <1>1, <1>4 DEF ThreadMoves, Goto
  <2> QED
    BY <1>1, <1>4, <2>2, <2>5, <2>6, LoopInv
<1>5. ASSUME fds[Fd(k)] # Free, reset[fds[Fd(k)]] PROVE Lost(Addr(k)) /\ ~ClientOpen(Addr(k))
  <2>1. fds[Fd(k)] = Addr(k) /\ HoldsFor(k)
    BY <1>1, <1>2, <1>5 DEF HoldsFor
  <2>2. ServerOpen(Addr(k))
    BY <2>1, HeldOnce DEF ServerOpen
  <2> QED
    BY <1>2, <1>5, <2>1, <2>2 DEF Resets, Lost
<1>6. CASE fds[Fd(k)] # Free /\ WriteDown(fds[Fd(k)], chunk[k])
           /\ Goto(k, "read") /\ UNCHANGED <<main, srvEnd, backlog>>
  BY <1>4, <1>6 DEF ServerTypeOK
<1>7. CASE fds[Fd(k)] # Free /\ WriteDown(fds[Fd(k)], Append(chunk[k], junk))
           /\ Goto(k, "read") /\ UNCHANGED <<main, srvEnd, backlog>>
  <2>1. junk \in Msg
    BY <1>2, <1>7 DEF Msg
  <2>2. chunk[k] \in Seq(Msg)
    BY DEF ServerTypeOK
  <2> HIDE DEF junk
  <2>3. Append(chunk[k], junk) \in Seq(Msg)
    BY <2>1, <2>2, AppendType
  <2> QED
    BY <1>4, <1>7, <2>3
<1>8. CASE (fds[Fd(k)] # Free => reset[fds[Fd(k)]]) /\ Goto(k, "close")
           /\ UNCHANGED <<main, down, srvEnd, reset, backlog>>
  <2>1. TypeOK'
    BY <1>1, <1>3, <1>8 DEF TcpTypeOK, ServerTypeOK, Goto
  <2>2. ThreadMoves(k, "close")
    BY <1>1, <1>8 DEF ThreadMoves, Goto
  <2>3. CauseOf(k)'
    <3>1. CASE fds[Fd(k)] = Free
      BY <1>1, <1>2, <1>8, <3>1 DEF CauseOf, TakenAway, Listening, Fd
    <3>2. CASE fds[Fd(k)] # Free
      BY <1>1, <1>8, <1>5, <3>2 DEF CauseOf, Addr, ClientOpen
    <3> QED
      BY <3>1, <3>2
  <2> QED
    BY <1>1, <1>8, <2>1, <2>2, <2>3, LoopInv
<1>9. CASE fds[Fd(k)] # Free /\ reset[fds[Fd(k)]] /\ Stop("killed")
           /\ UNCHANGED <<thread, down>>
  <2>1. SomeLost
    BY <1>1, <1>9, <1>5 DEF SomeLost
  <2> QED
    BY <1>1, <1>9, <2>1, StopInv
<1> QED
  BY <1>6, <1>7, <1>8, <1>9 DEF Write

LEMMA CloseInv ==
  ASSUME IInv, NEW k \in Slots, Close(k), UNCHANGED clientVars
  PROVE  IInv'
<1> USE DEF IInv, TypeOK
<1>1. /\ Alive /\ thread[k] = "close" /\ Running(k) /\ Uses(k)
      /\ thread' = [thread EXCEPT ![k] = "ended"]
      /\ UNCHANGED <<main, peerfd, i, sock_info, chunk, up, down, cliEnd, backlog, writer>>
  BY DEF Close, Running, Uses, clientVars, Goto
<1>2. /\ fds[Fd(k)] = Addr(k) \/ (fds[Fd(k)] = Free /\ TakenAway(k))
      /\ Fd(k) \in Fds /\ Addr(k) \in Clients /\ Addr(k) # Free
  BY <1>1, UsesTaken, PthreadAssumption DEF Table, TakenAway
<1>3. ThreadMoves(k, "ended")
  BY <1>1 DEF ThreadMoves
<1>4. /\ SlotsInv'
      /\ \A m \in Slots : /\ Fd(m)' = Fd(m) /\ Addr(m)' = Addr(m)
                          /\ Taken(m)' <=> Taken(m)
      /\ \A m \in Slots : m # k => thread'[m] = thread[m] /\ (Uses(m)' <=> Uses(m))
      /\ thread'[k] = "ended"
  BY <1>3, ThreadKeeps
<1>5. ~Uses(k)'
  BY <1>1, <1>4, NextFree DEF Uses, Running, NextSlot
<1>6. CauseOf(k)'
  BY <1>1, CauseStays DEF Listening
<1>7. CASE fds[Fd(k)] = Free /\ UNCHANGED <<fds, srvEnd, reset>>
  <2>1. TypeOK'
    <3>1. ClientTypeOK'
      BY DEF ClientTypeOK, clientVars
    <3> QED
      BY <1>1, <1>7, <3>1 DEF TcpTypeOK, ServerTypeOK
  <2>2. ~HoldsFor(k) /\ ~HoldsFor(k)'
    BY <1>1, <1>2, <1>5, <1>7 DEF HoldsFor
  <2>3. \A m \in Slots : /\ HoldsFor(m)' <=> HoldsFor(m)
                         /\ TakenAway(m)' <=> TakenAway(m)
    BY <1>1, <1>4, <1>7, <2>2 DEF HoldsFor, TakenAway, Alive
  <2>4. Table'
    BY <1>1, <1>4, <1>5, <1>7, <2>3 DEF Table, Alive
  <2>5. Once'
    BY <1>1, <1>4, <1>7 DEF Once
  <2>6. Holds'
    BY <1>4, <1>7, <2>3 DEF Holds
  <2>7. Resets'
    BY <1>1, <1>7, QueuedIn DEF Resets, ServerOpen, ClientOpen
  <2>8. EndsWithCause'
    BY <1>3, <1>6, <1>7, ThreadCauses
  <2> QED
    BY <1>4, <2>1, <2>4, <2>5, <2>6, <2>7, <2>8
<1>8. CASE /\ fds[Fd(k)] # Free
           /\ fds' = [fds EXCEPT ![Fd(k)] = Free] /\ CloseServer(fds[Fd(k)], Server)
  <2>1. fds[Fd(k)] = Addr(k) /\ HoldsFor(k)
    BY <1>1, <1>2, <1>8 DEF HoldsFor
  <2>2. TypeOK'
    <3>1. TcpTypeOK'
      <4>1. srvEnd' \in [Clients -> SUBSET (Clients \cup {Server})]
        BY <1>8 DEF CloseServer, TcpTypeOK
      <4>2. reset' \in [Clients -> BOOLEAN]
        BY <1>8 DEF CloseServer, TcpTypeOK
      <4> QED
        BY <1>1, <4>1, <4>2 DEF TcpTypeOK
    <3>2. ClientTypeOK'
      BY DEF ClientTypeOK, clientVars
    <3>3. ServerTypeOK'
      BY <1>1, <1>8 DEF ServerTypeOK
    <3> QED
      BY <3>1, <3>2, <3>3
  <2>3. /\ fds'[Fd(k)] = Free
        /\ \A fd \in Fds : fd # Fd(k) => fds'[fd] = fds[fd]
    BY <1>2, <1>8 DEF ServerTypeOK
  <2>4. \A m \in Slots : Uses(m) /\ m # k => Fd(m) # Fd(k) /\ Fd(m) \in Fds
    BY <1>1, UsesTaken DEF Table
  <2>5. \A m \in Slots : Uses(m) /\ m # k => (TakenAway(m)' <=> TakenAway(m))
    BY <1>1, <1>4, <2>3, <2>4 DEF TakenAway
  <2>6. \A m \in Slots : /\ Taken(m)' <=> Taken(m)
                         /\ HoldsFor(m)' <=> HoldsFor(m) /\ m # k
    BY <1>1, <1>4, <1>5, <2>3, <2>4 DEF HoldsFor, Alive
  <2>7. Table'
    <3>1. \A m \in Slots : Uses(m)' => fds'[Fd(m)'] = Addr(m)' \/ TakenAway(m)'
      BY <1>1, <1>4, <1>5, <2>3, <2>4, <2>5 DEF Table
    <3>2. \A m \in Slots : thread'[m] = "held" => TakenAway(m)'
      BY <1>1, <1>4, <2>5 DEF Table, Uses, Running
    <3>3. \A m, n \in Slots : Uses(m)' /\ Uses(n)' /\ Fd(m)' = Fd(n)' => m = n
      BY <1>1, <1>4, <1>5 DEF Table
    <3>4. \A fd \in Fds : fds'[fd] # Free => \E m \in Slots : Uses(m)' /\ Fd(m)' = fd
      BY <1>1, <1>4, <2>3 DEF Table
    <3> QED
      BY <3>1, <3>2, <3>3, <3>4 DEF Table
  <2>8. /\ srvEnd' = [srvEnd EXCEPT ![Addr(k)] = @ \ {Server}]
        /\ \A c \in Clients : c # Addr(k) => reset'[c] = reset[c]
        /\ \A c \in Clients : reset[c] => reset'[c]
    BY <1>8, <2>1 DEF CloseServer, TcpTypeOK
  <2>9. Once' /\ Holds' /\ Resets'
    BY <1>1, <2>1, <2>6, <2>8, Leaves
  <2>10. EndsWithCause'
    BY <1>3, <1>6, <2>8, ThreadCauses
  <2> QED
    BY <1>4, <2>2, <2>7, <2>9, <2>10
<1> QED
  BY <1>7, <1>8 DEF Close

-----------------------------------------------------------------------------
(* The invariant and what follows from it                                  *)

LEMMA InitInv == Init => IInv
<1> SUFFICES ASSUME Init PROVE IInv
  OBVIOUS
<1> USE PthreadAssumption, LinesAssumption DEF Init, TcpInit, ClientInit, ServerInit
<1>1. TypeOK
  <2>1. TcpTypeOK
    BY DEF TcpTypeOK
  <2>2. ClientTypeOK
    BY DEF ClientTypeOK
  <2>3. ServerTypeOK
    BY DEF ServerTypeOK
  <2> QED
    BY <2>1, <2>2, <2>3 DEF TypeOK
<1>2. \A k \in Slots : thread[k] = "none" /\ k \in Nat /\ 0 < k
  BY DEF Slots
<1>3. \A k \in Slots : ~Taken(k) /\ ~Uses(k)
  BY <1>2 DEF Taken, Uses, Running
<1>4. SlotsInv
  BY <1>2, <1>3 DEF SlotsInv
<1>5. Table
  BY <1>2, <1>3 DEF Table
<1>6. Once
  BY <1>3 DEF Once, In, Distinct
<1>7. Holds
  BY <1>3 DEF Holds, HoldsFor
<1>8. Resets
  BY DEF Resets
<1>9. EndsWithCause
  BY <1>2 DEF EndsWithCause
<1> QED
  BY <1>1, <1>4, <1>5, <1>6, <1>7, <1>8, <1>9 DEF IInv

LEMMA StepInv == IInv /\ [Next]_vars => IInv'
<1> SUFFICES ASSUME IInv, [Next]_vars PROVE IInv'
  OBVIOUS
<1>1. CASE ServerMoves
  <2>1. ServerStep /\ UNCHANGED clientVars
    BY <1>1 DEF ServerMoves
  <2>2. ASSUME NEW k \in Slots, Thread(k) PROVE IInv'
    BY <2>1, <2>2, ReadInv, HeldReadInv, WriteInv, CloseInv DEF Thread
  <2> QED
    BY <2>1, <2>2, MainInv DEF ServerStep
<1>2. ASSUME NEW c \in Clients, ClientMoves(c) PROVE IInv'
  <2>1. CASE Connect(c, Listening)
    BY <1>2, <2>1, ConnectInv DEF ClientMoves
  <2>2. CASE ~Connect(c, Listening)
    <3>1. TypeOK'
      BY <1>2, ClientTypes DEF IInv
    <3> QED
      BY <1>2, <2>2, <3>1, ClientNarrows, NarrowsInv
  <2> QED
    BY <2>1, <2>2
<1>3. CASE UNCHANGED vars
  <2> USE <1>3 DEF vars, tcpVars, clientVars, serverVars
  <2>1. TypeOK'
    BY DEF IInv, TypeOK, TcpTypeOK, ClientTypeOK, ServerTypeOK
  <2>2. SlotsInv'
    BY DEF IInv, SlotsInv, Taken, NextSlot, Fd, Addr
  <2>3. Table'
    BY DEF IInv, Table, Alive, Uses, Running, TakenAway, NextSlot, Fd, Addr
  <2>4. Once'
    BY DEF IInv, Once, Taken, NextSlot, Addr
  <2>5. Holds'
    BY DEF IInv, Holds, HoldsFor, Alive, Uses, Running, NextSlot, Fd, Addr
  <2>6. Resets' /\ EndsWithCause'
    BY DEF IInv, Resets, EndsWithCause, Lost, ServerOpen, Queued, ClientOpen, Listening, Fd
  <2> QED
    BY <2>1, <2>2, <2>3, <2>4, <2>5, <2>6 DEF IInv
<1> QED
  BY <1>1, <1>2, <1>3 DEF Next

\* The connections, the descriptor table and the slots agree, always.
THEOREM Invariance == Spec => []IInv
<1> QED
  BY InitInv, StepInv, PTL DEF Spec

\* The variables keep their types.
THEOREM TypeCorrect == Spec => []TypeOK
<1>1. IInv => TypeOK
  BY DEF IInv
<1> QED
  BY <1>1, Invariance, PTL

\* Lines 23, 40 and 48: however numbers are closed and handed out again, the
\* descriptor of a running thread is its own client's connection and no other
\* thread's, until main closes the last one at line 165.
THEOREM ServesOwnAlways == Spec => []ServesOwn
<1>1. IInv => ServesOwn
  <2> SUFFICES ASSUME IInv, Alive, NEW k \in Slots, Running(k)
               PROVE  /\ fds[Fd(k)] # Addr(k) => main = "return" /\ Fd(k) = peerfd
                      /\ \A other \in Slots :
                           Running(other) /\ Fd(other) = Fd(k) => other = k
    BY DEF ServesOwn, Addr
  <2> QED
    BY DEF IInv, Table, Uses, TakenAway
<1> QED
  BY <1>1, Invariance, PTL

\* Lines 23-48, 157 and 165: a session ends because its client said quit or is
\* gone - whether a read or a write tells its thread - or because main closed
\* it; SIGPIPE takes a thread that was writing to a client that is gone.
THEOREM EndsWithCauseAlways == Spec => []EndsWithCause
<1>1. IInv => EndsWithCause
  BY DEF IInv
<1> QED
  BY <1>1, Invariance, PTL
=============================================================================
