------------------------ MODULE EpollSystem_proofs --------------------------
(***************************************************************************)
(* Safety of the epoll server for every set of clients and of records,     *)
(* every size of the array and whatever a freed record reads as: the epoll *)
(* set and the heap records (IInv), the events array (BInv), and the way   *)
(* of the lines (SInv).                                                    *)
(***************************************************************************)
EXTENDS EpollSystem, SequenceTheorems, TLAPS

\* The epoll set holds records, and every record has an fd field.
Tables == reg \in [Fds -> Rec \cup {NULL}] /\ fdOf = [r \in Rec |-> fdOf[r]]

\* The line being sent was received through a record (lines 137 and 157).
SendsForRecord == server = "send" => Entry \in Rec

IInv == Tables /\ SendsForRecord /\ RegisteredLive

\* A record that is freed after its descriptor left the epoll set is in it no
\* more, and the other records stay as they are.
LEMMA FreeKeeps ==
  ASSUME Tables, RegisteredLive, NEW r \in Rec, Free(r), NEW F \in SUBSET Fds,
         \A f \in Fds : reg[f] = r => f \in F,
         reg' = [f \in Fds |-> IF f \in F THEN NULL ELSE reg[f]]
  PROVE  Tables' /\ RegisteredLive'
<1>1. PICK x \in FreedFd : fdOf' = [fdOf EXCEPT ![r] = x]
  BY DEF Free
<1>2. live' = live \ {r}
  BY DEF Free
<1>3. fdOf' = [s \in Rec |-> fdOf'[s]] /\ \A s \in Rec \ {r} : fdOf'[s] = fdOf[s]
  BY <1>1 DEF Tables
<1>4. reg' \in [Fds -> Rec \cup {NULL}]
  BY DEF Tables
<1>5. ASSUME NEW f \in Fds, reg'[f] # NULL
      PROVE  reg'[f] \in live' /\ fdOf'[reg'[f]] = f
  <2>1. reg'[f] = reg[f] /\ reg[f] # r /\ reg[f] \in Rec
    BY <1>5 DEF Tables
  <2>2. reg[f] \in live /\ fdOf[reg[f]] = f
    BY <1>5, <2>1 DEF RegisteredLive
  <2> QED
    BY <1>2, <1>3, <2>1, <2>2
<1> QED
  BY <1>3, <1>4, <1>5 DEF Tables, RegisteredLive

\* malloc returns no record that is in use, so none that is registered.
LEMMA AcceptKeeps ==
  ASSUME IInv, Accept
  PROVE  IInv'
<1> USE DEF IInv
<1>1. ASSUME NEW r \in Rec \ live,
             live' = live \cup {r},
             fdOf' = [fdOf EXCEPT ![r] = newfd],
             reg' = [reg EXCEPT ![newfd] = r]
      PROVE  Tables' /\ RegisteredLive'
  <2>1. /\ fdOf' = [s \in Rec |-> fdOf'[s]]
        /\ fdOf'[r] = newfd /\ \A s \in Rec \ {r} : fdOf'[s] = fdOf[s]
    BY <1>1 DEF Tables
  <2>2. reg' \in [Fds -> Rec \cup {NULL}]
    BY <1>1 DEF Tables
  <2>3. ASSUME NEW f \in Fds, reg'[f] # NULL
        PROVE  reg'[f] \in live' /\ fdOf'[reg'[f]] = f
    <3>1. CASE f = newfd
      <4>1. reg'[f] = r
        BY <1>1, <3>1 DEF Tables
      <4> QED
        BY <1>1, <2>1, <3>1, <4>1
    <3>2. CASE f # newfd
      <4>1. reg'[f] = reg[f] /\ reg[f] \in Rec
        BY <1>1, <2>3, <3>2 DEF Tables
      <4>2. reg[f] \in live /\ fdOf[reg[f]] = f
        BY <2>3, <4>1 DEF RegisteredLive
      <4> QED
        BY <1>1, <2>1, <4>1, <4>2
    <3> QED
      BY <3>1, <3>2
  <2> QED
    BY <2>1, <2>2, <2>3 DEF Tables, RegisteredLive
<1>2. ASSUME UNCHANGED <<reg, fdOf, live>>
      PROVE  Tables' /\ RegisteredLive'
  BY <1>2 DEF Tables, RegisteredLive
<1>3. server' \in {"loop", "exited", "killed"}
  BY DEF Accept, Stop
<1>4. Tables' /\ RegisteredLive'
  BY <1>1, <1>2 DEF Accept
<1>5. SendsForRecord'
  BY <1>3 DEF SendsForRecord
<1> QED
  BY <1>4, <1>5

\* The fd of a live record is the only descriptor it is registered with, so
\* EPOLL_CTL_DEL by that fd (line 140) removes what the free would spoil.
LEMMA LeaveKeeps ==
  ASSUME Tables, RegisteredLive, NEW r \in Rec, Leave(r)
  PROVE  Tables' /\ RegisteredLive'
<1>1. CASE UNCHANGED <<reg, fdOf, live>>
  BY <1>1 DEF Tables, RegisteredLive
<1>2. ASSUME Free(r), reg[fdOf[r]] # NULL,
             reg' = [f \in Fds |-> IF f \in {fdOf[r], fdOf'[r]} THEN NULL ELSE reg[f]]
      PROVE  Tables' /\ RegisteredLive'
  <2> DEFINE F == {fdOf[r], fdOf'[r]} \cap Fds
  <2>1. reg' = [f \in Fds |-> IF f \in F THEN NULL ELSE reg[f]]
    BY <1>2
  <2>2. \A f \in Fds : reg[f] = r => f \in F
    BY EpollAssumption DEF RegisteredLive
  <2> QED
    BY <1>2, <2>1, <2>2, FreeKeeps
<1>3. ASSUME Free(r), ~(reg[fdOf[r]] # NULL), reg' = reg
      PROVE  Tables' /\ RegisteredLive'
  <2> DEFINE F == {f \in Fds : FALSE}
  <2>1. reg' = [f \in Fds |-> IF f \in F THEN NULL ELSE reg[f]]
    BY <1>3 DEF Tables
  <2>2. \A f \in Fds : reg[f] = r => f \in F
    BY <1>3, EpollAssumption DEF RegisteredLive
  <2>3. F \in SUBSET Fds
    OBVIOUS
  <2> HIDE DEF F
  <2> QED
    BY <1>3, <2>1, <2>2, <2>3, FreeKeeps
<1> QED
  BY <1>1, <1>2, <1>3 DEF Leave

LEMMA RecvKeeps ==
  ASSUME IInv, Recv
  PROVE  IInv'
<1> USE DEF IInv
<1>1. Entry \in Rec /\ Entry' = Entry
  BY DEF Recv, Entry
<1>2. CASE Leave(Entry)
  BY <1>1, <1>2, LeaveKeeps DEF SendsForRecord
<1>3. CASE UNCHANGED <<reg, fdOf, live>>
  BY <1>1, <1>3 DEF Tables, RegisteredLive, SendsForRecord
<1> QED
  BY <1>2, <1>3 DEF Recv

LEMMA SendKeeps ==
  ASSUME IInv, Send
  PROVE  IInv'
<1> USE DEF IInv
<1>1. Entry \in Rec
  BY DEF Send, SendsForRecord
<1>2. server' \in {"loop", "killed", "wait"}
  BY DEF Send, Stop
<1>3. CASE UNCHANGED <<reg, fdOf, live>>
  BY <1>2, <1>3 DEF Tables, RegisteredLive, SendsForRecord
<1>4. ASSUME reg' = [reg EXCEPT ![fdOf[Entry]] = NULL], Free(Entry)
      PROVE  IInv'
  <2> DEFINE F == {fdOf[Entry]} \cap Fds
  <2>1. reg' = [f \in Fds |-> IF f \in F THEN NULL ELSE reg[f]]
    BY <1>4 DEF Tables
  <2>2. \A f \in Fds : reg[f] = Entry => f \in F
    BY <1>1, EpollAssumption DEF RegisteredLive
  <2>3. Tables' /\ RegisteredLive'
    BY <1>1, <1>4, <2>1, <2>2, FreeKeeps
  <2> QED
    BY <1>2, <2>3 DEF SendsForRecord
<1> QED
  BY <1>3, <1>4 DEF Send

LEMMA StepInv == IInv /\ [Next]_vars => IInv'
<1> SUFFICES ASSUME IInv, [Next]_vars PROVE IInv'
  OBVIOUS
<1>1. CASE Wait \/ LoopEnds \/ MeetGarbage
  <2>1. UNCHANGED <<reg, fdOf, live>> /\ server' # "send"
    BY <1>1 DEF Wait, LoopEnds, MeetGarbage, Stop
  <2> QED
    BY <2>1 DEF IInv, Tables, RegisteredLive, SendsForRecord
<1>2. CASE UNCHANGED serverVars
  BY <1>2 DEF serverVars, IInv, Tables, RegisteredLive, SendsForRecord, Entry
<1>3. CASE Accept
  BY <1>3, AcceptKeeps
<1>4. CASE Recv
  BY <1>4, RecvKeeps
<1>5. CASE Send
  BY <1>5, SendKeeps
<1> QED
  BY <1>1, <1>2, <1>3, <1>4, <1>5 DEF Next, ServerStep, vars

LEMMA InitInv == Init => IInv
<1> SUFFICES ASSUME Init PROVE IInv
  OBVIOUS
<1>1. reg = [f \in Fds |-> NULL] /\ fdOf = [r \in Rec |-> -1] /\ server = "wait"
  BY DEF Init, ServerInit
<1> QED
  BY <1>1 DEF IInv, Tables, SendsForRecord, RegisteredLive

\* The epoll set and the records agree in every state.
THEOREM Invariance == Spec => []IInv
BY InitInv, StepInv, PTL DEF Spec

\* epoll_wait never hands out a freed record, nor one whose fd is another
\* descriptor, in whichever order records are freed and descriptors closed
\* (lines 140-147, 160-162) and however malloc reuses them.
THEOREM RegisteredLiveAlways == Spec => []RegisteredLive
<1>1. IInv => RegisteredLive
  BY DEF IInv
<1> QED
  BY <1>1, Invariance, PTL

-----------------------------------------------------------------------------
(* The entries of this round's batch                                       *)

Types ==
  /\ up \in [Clients -> Seq(Msg)] /\ cliEnd = [c \in Clients |-> cliEnd[c]]
  /\ reset \in [Clients -> BOOLEAN] /\ backlog \in Seq(Clients)
  /\ client \in [Clients -> {"connect", "loop", "exited"}]
  /\ typed \in [Clients -> Nat]
  /\ open \in [Fds -> Clients \cup {"stdin", "unused"}]
  /\ i \in Nat /\ count \in 0 .. REMAX /\ DOMAIN re = 0 .. REMAX - 1

\* A client has one connection at most, in the backlog or behind one descriptor,
\* and what is registered is a connection.
OneConnection ==
  /\ \A f, g \in Fds : IsConn(f) /\ open[f] = open[g] => f = g
  /\ \A f \in Fds : IsConn(f) => client[open[f]] # "connect"
  /\ \A k \in DOMAIN backlog :
       /\ client[backlog[k]] # "connect"
       /\ \A f \in Fds : open[f] # backlog[k]
       /\ \A j \in DOMAIN backlog : backlog[j] = backlog[k] => j = k
  /\ \A f \in Fds : reg[f] # NULL => IsConn(f)

\* A record that can be served without waiting.
Servable(r) ==
  /\ r \in live /\ fdOf[r] \in Fds /\ reg[fdOf[r]] = r
  /\ IsConn(fdOf[r]) /\ Readable(open[fdOf[r]])

\* The entries of re that epoll_wait wrote and the loop has not served.
Ahead ==
  IF server = "send" THEN {k \in 0 .. REMAX - 1 : i < k /\ k < count}
  ELSE IF server = "loop" /\ i < ret THEN {k \in 0 .. REMAX - 1 : i <= k /\ k < count}
  ELSE {}

Batch ==
  /\ \A k \in Ahead :
       \/ re[k] = Listener /\ backlog # <<>>
       \/ re[k] \in Rec /\ Servable(re[k])
  /\ \A j, k \in 0 .. REMAX - 1 : j < count /\ k < count /\ re[j] = re[k] => j = k

BInv == Types /\ OneConnection /\ Batch

\* What nobody reads stays readable, and the backlog keeps whoever is in it.
Steady ==
  /\ \A c \in Clients : (\E f \in Fds : open[f] = c) /\ Readable(c) => Readable(c)'
  /\ backlog # <<>> => backlog' # <<>>

\* A step of the environment leaves the batch what it was.
LEMMA BatchStays ==
  ASSUME Types, Batch, Steady, Ahead' \subseteq Ahead,
         UNCHANGED <<re, count, open, reg, fdOf, live>>
  PROVE  Batch'
<1>1. ASSUME NEW r, Servable(r)
      PROVE  Servable(r)'
  BY <1>1 DEF Servable, IsConn, Steady
<1> QED
  BY <1>1 DEF Batch, Steady

LEMMA AppendedLine ==
  ASSUME NEW s \in Seq(Msg), NEW m \in Msg
  PROVE  s \o <<m>> \in Seq(Msg) /\ s \o <<m>> # <<>>
<1>1. <<m>> \in Seq(Msg) /\ Len(<<m>>) = 1
  OBVIOUS
<1> DEFINE t == <<m>>
<1> HIDE DEF t
<1>2. t \in Seq(Msg) /\ Len(t) = 1
  BY <1>1 DEF t
<1>3. s \o t \in Seq(Msg) /\ Len(s \o t) = Len(s) + Len(t) /\ Len(s) \in Nat
  BY <1>2, ConcatProperties, LenProperties
<1>4. Len(s \o t) # 0
  BY <1>2, <1>3
<1>5. s \o t # <<>>
  BY <1>4
<1> QED
  BY <1>3, <1>5 DEF t

\* A client types, reads, leaves, or connects for the first time.
LEMMA ClientKeeps ==
  ASSUME BInv, NEW c \in Clients, ClientStep(c, Alive), UNCHANGED serverVars
  PROVE  BInv'
<1> USE DEF BInv
<1>1. UNCHANGED <<server, re, ret, count, i, open, reg, fdOf, live>>
  BY DEF serverVars
<1>2. Ahead' = Ahead
  BY <1>1 DEF Ahead
<1>3. CASE Connect(c, Alive)
  <2>1. UNCHANGED <<up, reset, typed>>
    BY <1>3 DEF Connect
  <2>2. client[c] = "connect" /\ client' \in [Clients -> {"connect", "loop", "exited"}]
        /\ client'[c] # "connect" /\ \A d \in Clients \ {c} : client'[d] = client[d]
    BY <1>3 DEF Connect, Types
  <2>3. \A f \in Fds : open[f] # c
    BY <2>2 DEF OneConnection, IsConn
  <2>4. \A k \in DOMAIN backlog : backlog[k] \in Clients \ {c}
    BY <2>2 DEF OneConnection, Types
  <2>5. CASE UNCHANGED <<cliEnd, backlog>>
    <3>1. Types' /\ Steady
      BY <1>1, <2>1, <2>2, <2>5 DEF Types, Steady, Readable, UpEnded, ClientOpen
    <3>2. OneConnection'
      BY <1>1, <2>2, <2>4, <2>5 DEF OneConnection, IsConn
    <3> QED
      BY <1>1, <1>2, <3>1, <3>2, BatchStays
  <2>6. CASE cliEnd' = [cliEnd EXCEPT ![c] = {"client"}] /\ backlog' = Append(backlog, c)
    <3>1. /\ backlog' \in Seq(Clients) /\ Len(backlog) \in Nat
          /\ DOMAIN backlog = 1 .. Len(backlog) /\ DOMAIN backlog' = 1 .. Len(backlog) + 1
          /\ \A k \in DOMAIN backlog : backlog'[k] = backlog[k]
          /\ backlog'[Len(backlog) + 1] = c /\ backlog' # <<>>
      BY <2>6, AppendProperties, LenProperties DEF Types
    <3>2. /\ cliEnd' = [d \in Clients |-> cliEnd'[d]]
          /\ \A d \in Clients \ {c} : cliEnd'[d] = cliEnd[d]
      BY <2>6 DEF Types
    <3>3. Types' /\ Steady
      BY <1>1, <2>1, <2>2, <2>3, <3>1, <3>2 DEF Types, Steady, Readable, UpEnded, ClientOpen
    <3>4. ASSUME NEW k \in DOMAIN backlog'
          PROVE  \/ backlog'[k] = c /\ k = Len(backlog) + 1
                 \/ k \in DOMAIN backlog /\ backlog'[k] = backlog[k] /\ backlog[k] # c
      <4>1. k \in 1 .. Len(backlog) \/ k = Len(backlog) + 1
        BY <3>1
      <4> QED
        BY <2>4, <3>1, <4>1
    <3>5. \A k \in DOMAIN backlog' :
            /\ client'[backlog'[k]] # "connect"
            /\ \A f \in Fds : open'[f] # backlog'[k]
            /\ \A j \in DOMAIN backlog' : backlog'[j] = backlog'[k] => j = k
      BY <1>1, <2>2, <2>3, <2>4, <3>4 DEF OneConnection
    <3>6. OneConnection'
      BY <1>1, <2>2, <3>5 DEF OneConnection, IsConn
    <3> QED
      BY <1>1, <1>2, <3>3, <3>6, BatchStays
  <2> QED
    BY <1>3, <2>5, <2>6 DEF Connect
<1>4. ASSUME UNCHANGED backlog, Types', Steady,
             \A d \in Clients : client[d] # "connect" => client'[d] # "connect"
      PROVE  BInv'
  <2>1. \A k \in DOMAIN backlog : backlog[k] \in Clients
    BY DEF Types
  <2>2. OneConnection'
    BY <1>1, <1>4, <2>1 DEF OneConnection, IsConn
  <2> QED
    BY <1>1, <1>2, <1>4, <2>2, BatchStays
<1>5. CASE Exit(c)
  <2>1. /\ client' \in [Clients -> {"connect", "loop", "exited"}]
        /\ \A d \in Clients : client[d] # "connect" => client'[d] # "connect"
    BY <1>5 DEF Exit, Types
  <2>2. /\ cliEnd' = [d \in Clients |-> cliEnd'[d]]
        /\ \A d \in Clients : cliEnd[d] = {} => cliEnd'[d] = {}
        /\ reset' \in [Clients -> BOOLEAN] /\ \A d \in Clients : reset[d] => reset'[d]
    BY <1>5 DEF Exit, CloseClient, Types
  <2>3. UNCHANGED <<up, typed, backlog>>
    BY <1>5 DEF Exit
  <2> QED
    BY <1>1, <1>4, <2>1, <2>2, <2>3 DEF Types, Steady, Readable, UpEnded, ClientOpen
<1>6. CASE WriteUp(c, <<[from |-> c, n |-> typed[c] + 1, text |-> "line"]>>)
           /\ typed' = [typed EXCEPT ![c] = @ + 1]
           /\ UNCHANGED <<client, cliEnd, backlog>>
  <2> DEFINE m == [from |-> c, n |-> typed[c] + 1, text |-> "line"]
  <2>1. m \in Msg /\ typed' \in [Clients -> Nat] /\ up[c] \in Seq(Msg)
    BY <1>6 DEF Types, Msg
  <2> HIDE DEF m
  <2>2. up[c] \o <<m>> \in Seq(Msg) /\ up[c] \o <<m>> # <<>>
    BY <2>1, AppendedLine
  <2>3. \/ up' = [up EXCEPT ![c] = @ \o <<m>>] /\ reset' = reset
        \/ up' = up /\ reset' = [reset EXCEPT ![c] = TRUE]
    BY <1>6 DEF WriteUp, m
  <2>4. /\ up' \in [Clients -> Seq(Msg)] /\ reset' \in [Clients -> BOOLEAN]
        /\ \A d \in Clients : reset[d] => reset'[d]
        /\ \A d \in Clients : up'[d] = up[d] \/ up'[d] # <<>>
    BY <2>2, <2>3 DEF Types
  <2> QED
    BY <1>1, <1>4, <1>6, <2>1, <2>4 DEF Types, Steady, Readable, UpEnded, ClientOpen
<1>7. CASE RecvAnswer(c)
  BY <1>1, <1>4, <1>7 DEF RecvAnswer, Types, Steady, Readable, UpEnded, ClientOpen
<1> QED
  BY <1>3, <1>5, <1>6, <1>7 DEF ClientStep, SendLine, RecvEnds, Interrupt

\* epoll_wait fills the first entries with different things that are ready.
LEMMA WaitKeeps ==
  ASSUME IInv, BInv, Wait, UNCHANGED clientVars
  PROVE  BInv'
<1> USE DEF BInv, IInv
<1> DEFINE conns == {reg[f] : f \in {g \in Fds : reg[g] # NULL /\ Readable(open[g])}}
           ready == conns \cup (IF backlog # <<>> THEN {Listener} ELSE {})
<1>1. PICK n \in 1..REMAX, batch \in [0 .. REMAX - 1 -> ready] :
        /\ \A k, m \in 0 .. n - 1 : k # m => batch[k] # batch[m]
        /\ re' = [k \in DOMAIN re |-> IF k < n THEN batch[k] ELSE re[k]]
        /\ count' = n
  BY DEF Wait
<1>2. /\ UNCHANGED <<open, reg, fdOf, live, client, typed, up, cliEnd, reset, backlog>>
      /\ server' = "loop" /\ i' = 0
  BY DEF Wait, tcpVars, clientVars
<1>3. /\ n \in Nat /\ n <= REMAX /\ REMAX \in Nat
      /\ DOMAIN re' = 0 .. REMAX - 1 /\ \A k \in 0 .. n - 1 : re'[k] = batch[k]
  BY <1>1, EpollAssumption DEF Types
<1>4. Types' /\ OneConnection'
  BY <1>1, <1>2, <1>3 DEF Types, OneConnection, IsConn
<1>5. ASSUME NEW x \in ready
      PROVE  (x = Listener /\ backlog # <<>>) \/ (x \in Rec /\ Servable(x))
  <2>1. CASE x \in conns
    <3>1. PICK f \in Fds : x = reg[f] /\ reg[f] # NULL /\ Readable(open[f])
      BY <2>1
    <3>2. x \in Rec /\ x \in live /\ fdOf[x] = f /\ IsConn(f)
      BY <3>1 DEF Tables, RegisteredLive, OneConnection
    <3> QED
      BY <3>1, <3>2 DEF Servable
  <2> QED
    BY <1>5, <2>1
<1>6. \A x : Servable(x) => Servable(x)'
  BY <1>2 DEF Servable, IsConn, Readable, UpEnded, ClientOpen
<1> HIDE DEF ready
<1>7. \A k \in Ahead' : k \in 0 .. n - 1
  BY <1>1, <1>2, <1>3 DEF Ahead
<1>8. \A k \in 0 .. n - 1 : k \in 0 .. REMAX - 1
  BY <1>3
<1>9. ASSUME NEW k \in Ahead'
      PROVE  \/ re'[k] = Listener /\ backlog' # <<>>
             \/ re'[k] \in Rec /\ Servable(re[k])'
  <2>1. re'[k] = batch[k] /\ batch[k] \in ready
    BY <1>3, <1>7, <1>8
  <2>2. PICK x \in ready : x = re'[k]
    BY <2>1
  <2>3. (x = Listener /\ backlog # <<>>) \/ (x \in Rec /\ Servable(x)')
    BY <1>5, <1>6
  <2> QED
    BY <1>2, <2>2, <2>3 DEF Servable
<1>10. ASSUME NEW j \in 0 .. REMAX - 1, NEW k \in 0 .. REMAX - 1,
              j < count', k < count', re'[j] = re'[k]
       PROVE  j = k
  <2>1. j \in 0 .. n - 1 /\ k \in 0 .. n - 1
    BY <1>1, <1>3, <1>10
  <2> QED
    BY <1>1, <1>3, <1>10, <2>1
<1> QED
  BY <1>4, <1>9, <1>10 DEF Batch

\* The loop is left, by its end or the program's.
LEMMA LeavingKeeps ==
  ASSUME BInv, server' \notin {"loop", "send"}, backlog' \in {backlog, <<>>},
         UNCHANGED <<re, count, i, up, cliEnd, client, typed>>,
         reset' \in [Clients -> BOOLEAN],
         open' \in [Fds -> Clients \cup {"stdin", "unused"}],
         \A f \in Fds : open'[f] \in {open[f], "unused"},
         \A f \in Fds : reg'[f] # NULL => reg[f] # NULL /\ open'[f] = open[f]
  PROVE  BInv'
<1> USE DEF BInv
<1>1. Types'
  <2>1. backlog' \in Seq(Clients)
    BY EmptySeq DEF Types
  <2>2. /\ up' \in [Clients -> Seq(Msg)] /\ cliEnd' = [c \in Clients |-> cliEnd'[c]]
        /\ client' \in [Clients -> {"connect", "loop", "exited"}]
        /\ typed' \in [Clients -> Nat]
    BY DEF Types
  <2>3. i' \in Nat /\ count' \in 0 .. REMAX /\ DOMAIN re' = 0 .. REMAX - 1
    BY DEF Types
  <2> QED
    BY <2>1, <2>2, <2>3 DEF Types
<1>2. \A f \in Fds : IsConn(f)' => IsConn(f) /\ open'[f] = open[f]
  BY EpollAssumption DEF IsConn
<1>3. \A k \in DOMAIN backlog' :
        k \in DOMAIN backlog /\ backlog'[k] = backlog[k] /\ backlog[k] \in Clients
  BY DEF Types
<1>4. OneConnection'
  BY <1>2, <1>3, EpollAssumption DEF OneConnection, IsConn
<1>5. Ahead' = {}
  BY DEF Ahead
<1> QED
  BY <1>1, <1>4, <1>5 DEF Batch

LEMMA StopKeeps ==
  ASSUME BInv, Stop("exited") \/ Stop("killed"),
         UNCHANGED <<re, count, i, up, cliEnd, client, typed, open, reg>>
  PROVE  BInv'
<1>1. reset' \in [Clients -> BOOLEAN] /\ backlog' = <<>> /\ server' \in {"exited", "killed"}
  BY DEF Stop, ServerExits, BInv, Types
<1>2. open' \in [Fds -> Clients \cup {"stdin", "unused"}]
  BY DEF BInv, Types
<1> QED
  BY <1>1, <1>2, LeavingKeeps

LEMMA Called ==
  ASSUME NEW S, NEW s \in Seq(S), s # <<>>, \A j, k \in DOMAIN s : s[j] = s[k] => j = k
  PROVE  /\ Head(s) \in S /\ Tail(s) \in Seq(S) /\ 1 \in DOMAIN s /\ Head(s) = s[1]
         /\ \A k \in DOMAIN Tail(s) :
              k + 1 \in DOMAIN s /\ Tail(s)[k] = s[k + 1] /\ Tail(s)[k] # Head(s)
         /\ \A j, k \in DOMAIN Tail(s) : Tail(s)[j] = Tail(s)[k] => j = k
<1>1. Head(s) \in S /\ Tail(s) \in Seq(S)
  BY HeadTailProperties
<1>2. Len(s) \in Nat /\ DOMAIN s = 1..Len(s) /\ 1 \in DOMAIN s /\ Head(s) = s[1]
  OBVIOUS
<1>3. \A k \in DOMAIN Tail(s) :
        k \in Nat \ {0} /\ k + 1 \in DOMAIN s /\ Tail(s)[k] = s[k + 1]
  OBVIOUS
<1> QED
  BY <1>1, <1>2, <1>3

\* An accepted connection takes a descriptor that stands for nothing else; the
\* rest of the batch is dropped.
LEMMA AcceptKeepsBatch ==
  ASSUME BInv, Accept, UNCHANGED clientVars
  PROVE  BInv'
<1> USE DEF BInv
<1>1. UNCHANGED <<re, count, up, cliEnd, client, typed>>
  BY DEF Accept, clientVars
<1>2. CASE Stop("exited") \/ Stop("killed")
  BY <1>1, <1>2, StopKeeps DEF Accept, Stop
<1>3. ASSUME backlog # <<>>, NEW r \in Rec, reg' = [reg EXCEPT ![newfd] = r],
             open' = [open EXCEPT ![newfd] = Head(backlog)], backlog' = Tail(backlog),
             ret' = 0, i' = i + 1, UNCHANGED <<server, reset>>
      PROVE  BInv'
  <2> DEFINE c == Head(backlog)
             rest == Tail(backlog)
  <2>1. /\ c \in Clients /\ rest \in Seq(Clients) /\ 1 \in DOMAIN backlog /\ c = backlog[1]
        /\ \A k \in DOMAIN rest :
             k + 1 \in DOMAIN backlog /\ rest[k] = backlog[k + 1] /\ rest[k] # c
        /\ \A j, k \in DOMAIN rest : rest[j] = rest[k] => j = k
    <3>1. \A j, k \in DOMAIN backlog : backlog[j] = backlog[k] => j = k
      BY DEF OneConnection
    <3> QED
      BY <1>3, <3>1, Called DEF Types
  <2>2. ASSUME NEW k \in DOMAIN rest
        PROVE  client[rest[k]] # "connect" /\ \A f \in Fds : open[f] # rest[k]
    <3>1. k + 1 \in DOMAIN backlog /\ rest[k] = backlog[k + 1]
      BY <2>1
    <3> HIDE DEF rest
    <3> QED
      BY <3>1 DEF OneConnection
  <2>3. client[c] # "connect" /\ \A f \in Fds : open[f] # c
    BY <2>1 DEF OneConnection
  <2> HIDE DEF c, rest
  <2>4. /\ \A f \in Fds : open'[f] = IF f = newfd THEN c ELSE open[f]
        /\ open' \in [Fds -> Clients \cup {"stdin", "unused"}] /\ backlog' = rest
    BY <1>3, <2>1 DEF Types, c, rest
  <2>5. Types'
    BY <1>1, <1>3, <2>1, <2>4 DEF Types
  <2>6. \A f, g \in Fds : IsConn(f)' /\ open'[f] = open'[g] => f = g
    BY <2>3, <2>4 DEF OneConnection, IsConn
  <2>7. \A f \in Fds : IsConn(f)' => client'[open'[f]] # "connect"
    BY <1>1, <2>3, <2>4 DEF OneConnection, IsConn
  <2>8. \A k \in DOMAIN backlog' :
          /\ client'[backlog'[k]] # "connect"
          /\ \A f \in Fds : open'[f] # backlog'[k]
          /\ \A j \in DOMAIN backlog' : backlog'[j] = backlog'[k] => j = k
    BY <1>1, <2>1, <2>2, <2>4
  <2>9. \A f \in Fds : reg'[f] # NULL => IsConn(f)'
    BY <1>3, <2>1, <2>4 DEF OneConnection, IsConn
  <2>10. Ahead' = {}
    <3>1. server' = "loop" /\ ~(i' < ret')
      BY <1>3 DEF Accept, Types
    <3> QED
      BY <3>1 DEF Ahead
  <2> QED
    BY <1>1, <2>5, <2>6, <2>7, <2>8, <2>9, <2>10 DEF OneConnection, Batch
<1> QED
  BY <1>2, <1>3 DEF Accept

\* Serving one entry leaves the others of the batch as they are: they are other
\* records, of other connections.
LEMMA ReceivedKeeps ==
  ASSUME IInv, BInv, server = "loop", i < ret, Entry \in Rec, IsConn(fdOf[Entry]),
         NEW k \in Nat, up' = [up EXCEPT ![open[fdOf[Entry]]] = Rest(@, k)],
         server' = "send",
         UNCHANGED <<re, ret, count, i, open, reg, fdOf, live, cliEnd, reset, backlog,
                     client, typed>>
  PROVE  BInv'
<1> USE DEF BInv
<1> DEFINE r == Entry
           c == open[fdOf[r]]
<1>1. c \in Clients /\ up[c] \in Seq(Msg)
  BY DEF IsConn, Types
<1>2. Rest(up[c], k) \in Seq(Msg)
  <2>1. Len(up[c]) \in Nat /\ \A j \in 1 .. Len(up[c]) : up[c][j] \in Msg
    BY <1>1, LenProperties, ElementOfSeq
  <2> QED
    BY <1>1, <2>1, SubSeqProperties DEF Rest
<1>3. up' \in [Clients -> Seq(Msg)] /\ \A d \in Clients \ {c} : up'[d] = up[d]
  BY <1>1, <1>2 DEF Types
<1>4. Types' /\ OneConnection'
  BY <1>3 DEF Types, OneConnection, IsConn
<1>5. ASSUME NEW j \in Ahead'
      PROVE  ((re[j] = Listener /\ backlog # <<>>) \/ (re[j] \in Rec /\ Servable(re[j])))'
  <2>1. j \in 0 .. REMAX - 1 /\ i < j /\ j < count /\ j \in Ahead
    BY <1>5 DEF Ahead, Types
  <2>2. i \in 0 .. REMAX - 1 /\ i < count /\ i \in Ahead /\ r = re[i] /\ i # j
    BY <2>1, EpollAssumption DEF Ahead, Types, Entry
  <2>3. CASE re[j] = Listener /\ backlog # <<>>
    BY <2>3
  <2>4. CASE re[j] \in Rec /\ Servable(re[j])
    <3>1. re[j] # r
      BY <2>1, <2>2 DEF Batch
    <3>2. Servable(r)
      BY <2>2, EpollAssumption DEF Batch
    <3>3. fdOf[re[j]] # fdOf[r]
      BY <2>4, <3>1, <3>2 DEF Servable
    <3>4. open[fdOf[re[j]]] # c /\ open[fdOf[re[j]]] \in Clients
      BY <2>4, <3>2, <3>3 DEF Servable, OneConnection, IsConn
    <3>5. Servable(re[j])'
      BY <1>3, <2>4, <3>4 DEF Servable, IsConn, Readable, UpEnded, ClientOpen
    <3> QED
      BY <2>4, <3>5
  <2> QED
    BY <2>1, <2>3, <2>4 DEF Batch
<1> QED
  BY <1>4, <1>5 DEF Batch

\* close() of one descriptor.
LEMMA Closing ==
  ASSUME Types, NEW f, Close(f)
  PROVE  /\ open' \in [Fds -> Clients \cup {"stdin", "unused"}]
         /\ reset' \in [Clients -> BOOLEAN]
         /\ \A g \in Fds : open'[g] \in {open[g], "unused"}
         /\ \A g \in Fds \ {f} : open'[g] = open[g]
<1>1. CASE f \in Fds
  BY <1>1 DEF Types, Close, IsConn, CloseServer
<1>2. CASE f \notin Fds
  BY <1>2 DEF Types, Close, IsConn, CloseServer
<1> QED
  BY <1>1, <1>2

LEMMA RecvKeepsBatch ==
  ASSUME IInv, BInv, Recv, UNCHANGED clientVars
  PROVE  BInv'
<1> USE DEF BInv
<1>1. UNCHANGED <<re, ret, count, i, cliEnd, client, typed>>
  BY DEF Recv, clientVars
<1>2. CASE Leave(Entry) /\ up' = up
  <2>1. CASE Stop("killed") /\ UNCHANGED <<open, reg>>
    BY <1>1, <1>2, <2>1, StopKeeps
  <2>2. CASE UNCHANGED <<open, reg, reset, backlog>> /\ server' = "wait"
    <3>1. /\ reset' \in [Clients -> BOOLEAN]
          /\ open' \in [Fds -> Clients \cup {"stdin", "unused"}]
      BY <2>2 DEF Types
    <3> QED
      BY <1>1, <1>2, <2>2, <3>1, LeavingKeeps
  <2>3. ASSUME NEW f, Close(f), server' = "wait", backlog' = backlog,
               reg' = [g \in Fds |-> IF g \in {fdOf[Entry], f} THEN NULL ELSE reg[g]]
        PROVE  BInv'
    <3>1. \A g \in Fds : reg'[g] # NULL => reg[g] # NULL /\ g # f
      BY <2>3
    <3> QED
      BY <1>1, <1>2, <2>3, <3>1, Closing, LeavingKeeps
  <2> QED
    BY <1>2, <2>1, <2>2, <2>3 DEF Leave
<1>3. CASE ~(Leave(Entry) /\ up' = up)
  <2>1. PICK k \in Nat : /\ IsConn(fdOf[Entry]) /\ server' = "send"
                         /\ up' = [up EXCEPT ![open[fdOf[Entry]]] = Rest(@, k)]
                         /\ UNCHANGED <<open, reg, fdOf, live, reset, backlog>>
    BY <1>3 DEF Recv
  <2>2. server = "loop" /\ i < ret /\ Entry \in Rec
    BY DEF Recv
  <2> QED
    BY <1>1, <2>1, <2>2, ReceivedKeeps
<1> QED
  BY <1>2, <1>3

LEMMA SendKeepsBatch ==
  ASSUME IInv, BInv, Send, UNCHANGED clientVars
  PROVE  BInv'
<1> USE DEF BInv
<1>1. UNCHANGED <<re, count, up, cliEnd, client, typed>> /\ server = "send"
  BY DEF Send, clientVars
<1>2. CASE Stop("killed") /\ UNCHANGED <<i, open, reg>>
  BY <1>1, <1>2, StopKeeps
<1>3. CASE /\ WriteDown(open[fdOf[Entry]], chunk) /\ i' = i + 1 /\ server' = "loop"
           /\ UNCHANGED <<open, reg, fdOf, live, backlog>>
  <2>1. reset' \in [Clients -> BOOLEAN] /\ \A d \in Clients : reset[d] => reset'[d]
    BY <1>3 DEF WriteDown, Types
  <2>2. Types' /\ OneConnection'
    BY <1>1, <1>3, <2>1 DEF Types, OneConnection, IsConn
  <2>3. Steady
    BY <1>1, <1>3, <2>1 DEF Steady, Readable, UpEnded, ClientOpen
  <2>4. Ahead' \subseteq Ahead
    BY <1>1, <1>3 DEF Ahead, Types
  <2> QED
    BY <1>1, <1>3, <2>2, <2>3, <2>4, BatchStays
<1>4. ASSUME Close(fdOf[Entry]), reg' = [reg EXCEPT ![fdOf[Entry]] = NULL],
             server' = "wait", UNCHANGED <<i, backlog>>
      PROVE  BInv'
  <2>1. \A g \in Fds : reg'[g] # NULL => reg[g] # NULL /\ g # fdOf[Entry]
    BY <1>4 DEF IInv, Tables
  <2> QED
    BY <1>1, <1>4, <2>1, Closing, LeavingKeeps
<1> QED
  BY <1>2, <1>3, <1>4 DEF Send

LEMMA LoopKeeps ==
  ASSUME BInv, LoopEnds \/ MeetGarbage, UNCHANGED clientVars
  PROVE  BInv'
<1> USE DEF BInv
<1>1. UNCHANGED <<re, ret, count, open, reg, fdOf, live, up, cliEnd, client, typed>>
  BY DEF LoopEnds, MeetGarbage, clientVars, tcpVars
<1>2. CASE Stop("killed") /\ i' = i
  BY <1>1, <1>2, StopKeeps
<1>3. ASSUME UNCHANGED <<reset, backlog>>, i' \in {i, i + 1},
             server = "loop", server' = "wait" \/ (server' = "loop" /\ i' = i + 1 /\ i < ret)
      PROVE  BInv'
  <2>1. Types' /\ OneConnection' /\ Steady
    BY <1>1, <1>3 DEF Types, OneConnection, IsConn, Steady, Readable, UpEnded, ClientOpen
  <2>2. Ahead' \subseteq Ahead
    BY <1>1, <1>3 DEF Ahead, Types
  <2> QED
    BY <1>1, <2>1, <2>2, BatchStays
<1> QED
  BY <1>2, <1>3 DEF LoopEnds, MeetGarbage, tcpVars

LEMMA InitBatch ==
  ASSUME Init
  PROVE  BInv
<1>1. Types
  BY EpollAssumption, EmptySeq DEF Init, TcpInit, ClientInit, ServerInit, Types
<1>2. OneConnection
  BY EpollAssumption DEF Init, TcpInit, ServerInit, OneConnection, IsConn
<1>3. Batch
  BY DEF Init, ServerInit, Batch, Ahead
<1> QED
  BY <1>1, <1>2, <1>3 DEF BInv

LEMMA StepBatch ==
  ASSUME IInv, BInv, [Next]_vars
  PROVE  BInv'
<1>1. CASE UNCHANGED vars
  <2>1. UNCHANGED <<up, cliEnd, reset, backlog, client, typed, server, re, ret, count, i,
                    open, reg, fdOf, live>>
    BY <1>1 DEF vars, tcpVars, clientVars, serverVars
  <2>2. Types' /\ OneConnection' /\ Steady /\ Ahead' = Ahead
    BY <2>1 DEF BInv, Types, OneConnection, IsConn, Steady, Readable, UpEnded,
                ClientOpen, Ahead
  <2> QED
    BY <2>1, <2>2, BatchStays DEF BInv
<1> QED
  BY <1>1, ClientKeeps, WaitKeeps, LoopKeeps, AcceptKeepsBatch, RecvKeepsBatch,
     SendKeepsBatch DEF Next, ServerStep

\* An entry that epoll_wait wrote in this round never blocks the server and never
\* leads to a freed record, for any number of clients and records, any size of
\* the array, and whatever ret has become: what is dangerous lies behind it.
THEOREM InBatchSafeAlways == Spec => []InBatchSafe
<1>1. ASSUME BInv, server = "loop", i < count, i < ret
      PROVE  (Entry = Listener /\ backlog # <<>>) \/ (Entry \in Rec /\ Servable(Entry))
  <2>1. i \in 0 .. REMAX - 1 /\ Entry = re[i]
    BY <1>1, EpollAssumption DEF BInv, Types, Entry
  <2>2. i \in Ahead
    BY <1>1, <2>1 DEF Ahead
  <2> QED
    BY <1>1, <2>1, <2>2 DEF BInv, Batch
<1>2. BInv => InBatchSafe
  BY <1>1, EpollAssumption DEF InBatchSafe, Servable
<1>3. IInv /\ BInv /\ [Next]_vars => BInv'
  BY StepBatch
<1> QED
  BY <1>2, <1>3, InitBatch, Invariance, PTL DEF Spec

-----------------------------------------------------------------------------
(* What a client typed and what comes back to it                           *)

\* The lines number a + 1, a + 2, ... of client c.
Numbered(s, c, a) ==
  s \in Seq(Msg) /\ \A k \in 1 .. Len(s) : s[k].from = c /\ s[k].n = a + k

\* What was printed (g), is on its way back (d), is in the server's hands (f) and
\* is on its way to it (u) are the t lines typed, in order. Once a connection has
\* been reset, only g and d count: nothing will be added to them.
InLine(c, g, d, f, u, t, lost) ==
  /\ Numbered(g, c, 0) /\ Numbered(d, c, Len(g))
  /\ ~lost => /\ Numbered(f, c, Len(g) + Len(d))
              /\ Numbered(u, c, Len(g) + Len(d) + Len(f))
              /\ t = Len(g) + Len(d) + Len(f) + Len(u)

\* One run of lines behind another.
LEMMA Joined ==
  ASSUME NEW c, NEW a \in Nat, NEW s, Numbered(s, c, a), NEW t, Numbered(t, c, a + Len(s))
  PROVE  /\ Numbered(s \o t, c, a) /\ Len(s) \in Nat /\ Len(t) \in Nat
         /\ Len(s \o t) = Len(s) + Len(t)
<1>1. s \in Seq(Msg) /\ t \in Seq(Msg) /\ Len(s) \in Nat /\ Len(t) \in Nat
  BY LenProperties DEF Numbered
<1>2. /\ s \o t \in Seq(Msg) /\ Len(s \o t) = Len(s) + Len(t)
      /\ \A k \in 1 .. Len(s) + Len(t) :
           (s \o t)[k] = IF k <= Len(s) THEN s[k] ELSE t[k - Len(s)]
  BY <1>1, ConcatProperties
<1>3. ASSUME NEW k \in 1 .. Len(s) + Len(t)
      PROVE  (s \o t)[k].from = c /\ (s \o t)[k].n = a + k
  <2>1. CASE k <= Len(s)
    BY <1>1, <1>2, <2>1 DEF Numbered
  <2>2. CASE ~(k <= Len(s))
    <3>1. k - Len(s) \in 1 .. Len(t) /\ a + Len(s) + (k - Len(s)) = a + k
      BY <1>1, <2>2
    <3>2. t[k - Len(s)].from = c /\ t[k - Len(s)].n = a + Len(s) + (k - Len(s))
      BY <3>1 DEF Numbered
    <3> QED
      BY <1>2, <2>2, <3>1, <3>2
  <2> QED
    BY <2>1, <2>2
<1> QED
  BY <1>1, <1>2, <1>3 DEF Numbered

\* A run of lines cut in two.
LEMMA Cut ==
  ASSUME NEW c, NEW a \in Nat, NEW s, Numbered(s, c, a), NEW k \in 1 .. Len(s)
  PROVE  /\ Numbered(SubSeq(s, 1, k), c, a) /\ Numbered(Rest(s, k), c, a + k)
         /\ Len(SubSeq(s, 1, k)) = k /\ Len(Rest(s, k)) = Len(s) - k
         /\ Len(s) \in Nat /\ k \in Nat
<1>1. s \in Seq(Msg) /\ Len(s) \in Nat /\ k \in Nat /\ k <= Len(s) /\ 1 <= k
      /\ \A m \in 1 .. Len(s) : s[m] \in Msg
  BY LenProperties, ElementOfSeq DEF Numbered
<1>2. /\ SubSeq(s, 1, k) \in Seq(Msg) /\ Len(SubSeq(s, 1, k)) = k
      /\ \A m \in 1 .. k : SubSeq(s, 1, k)[m] = s[m]
  <2>1. \A m \in 1 .. k : s[m] \in Msg
    BY <1>1
  <2>2. /\ SubSeq(s, 1, k) \in Seq(Msg)
        /\ Len(SubSeq(s, 1, k)) = IF 1 <= k THEN k - 1 + 1 ELSE 0
        /\ \A m \in 1 .. k - 1 + 1 : SubSeq(s, 1, k)[m] = s[1 + m - 1]
    BY <1>1, <2>1, SubSeqProperties
  <2> QED
    BY <1>1, <2>2
<1>3. /\ Rest(s, k) \in Seq(Msg) /\ Len(Rest(s, k)) = Len(s) - k
      /\ \A m \in 1 .. Len(s) - k : Rest(s, k)[m] = s[k + m]
  <2> DEFINE n == Len(s)
  <2>1. \A m \in k + 1 .. n : s[m] \in Msg
    BY <1>1
  <2>2. /\ SubSeq(s, k + 1, n) \in Seq(Msg)
        /\ Len(SubSeq(s, k + 1, n)) = IF k + 1 <= n THEN n - (k + 1) + 1 ELSE 0
        /\ \A m \in 1 .. n - (k + 1) + 1 : SubSeq(s, k + 1, n)[m] = s[k + 1 + m - 1]
    BY <1>1, <2>1, SubSeqProperties
  <2> QED
    BY <1>1, <2>2 DEF Rest
<1>4. ASSUME NEW m \in 1 .. Len(s) - k
      PROVE  Rest(s, k)[m].from = c /\ Rest(s, k)[m].n = a + k + m
  <2>1. k + m \in 1 .. Len(s) /\ a + k + m = a + (k + m)
    BY <1>1
  <2> QED
    BY <1>3, <2>1 DEF Numbered
<1>5. ASSUME NEW m \in 1 .. k
      PROVE  SubSeq(s, 1, k)[m].from = c /\ SubSeq(s, 1, k)[m].n = a + m
  <2>1. m \in 1 .. Len(s) /\ SubSeq(s, 1, k)[m] = s[m]
    BY <1>1, <1>2
  <2> QED
    BY <2>1 DEF Numbered
<1>6. Numbered(SubSeq(s, 1, k), c, a)
  BY <1>2, <1>5 DEF Numbered
<1>7. Numbered(Rest(s, k), c, a + k)
  BY <1>3, <1>4 DEF Numbered
<1> QED
  BY <1>1, <1>2, <1>3, <1>6, <1>7

LEMMA Lengths ==
  ASSUME NEW c, NEW g, NEW d, NEW f, NEW u, NEW t, NEW lost \in BOOLEAN,
         InLine(c, g, d, f, u, t, lost)
  PROVE  /\ Len(g) \in Nat /\ Len(d) \in Nat
         /\ ~lost => Len(f) \in Nat /\ Len(u) \in Nat
BY LenProperties DEF InLine, Numbered

\* The client types its next line.
LEMMA Typed ==
  ASSUME NEW c \in Clients, NEW g, NEW d, NEW f, NEW u, NEW t,
         InLine(c, g, d, f, u, t, FALSE),
         NEW text \in {"line", "quit", "junk"}
  PROVE  InLine(c, g, d, f, u \o <<[from |-> c, n |-> t + 1, text |-> text]>>, t + 1, FALSE)
<1> DEFINE m == [from |-> c, n |-> t + 1, text |-> text]
           a == Len(g) + Len(d) + Len(f)
<1>1. /\ Numbered(u, c, a) /\ a \in Nat /\ Len(u) \in Nat /\ t = a + Len(u)
  BY Lengths DEF InLine
<1>2. m \in Msg /\ m.from = c /\ m.n = t + 1 /\ t \in Nat
  BY <1>1 DEF Msg
<1> HIDE DEF m
<1>3. <<m>> \in Seq(Msg) /\ Len(<<m>>) = 1 /\ <<m>>[1] = m
  BY <1>2
<1>4. Numbered(<<m>>, c, a + Len(u))
  BY <1>1, <1>2, <1>3 DEF Numbered
<1> HIDE DEF a
<1>5. Numbered(u \o <<m>>, c, a) /\ Len(u \o <<m>>) = Len(u) + 1
  BY <1>1, <1>3, <1>4, Joined
<1>6. t + 1 = a + Len(u \o <<m>>)
  BY <1>1, <1>5
<1> QED
  BY <1>5, <1>6 DEF InLine, a, m

\* The server receives some of what has arrived.
LEMMA Received ==
  ASSUME NEW c, NEW g, NEW d, NEW u, NEW t, NEW lost \in BOOLEAN,
         InLine(c, g, d, <<>>, u, t, lost), NEW k \in 1 .. Len(u)
  PROVE  InLine(c, g, d, SubSeq(u, 1, k), Rest(u, k), t, lost)
<1> DEFINE a == Len(g) + Len(d)
<1>1. ASSUME ~lost
      PROVE  /\ Numbered(SubSeq(u, 1, k), c, a)
             /\ Numbered(Rest(u, k), c, a + Len(SubSeq(u, 1, k)))
             /\ t = a + Len(SubSeq(u, 1, k)) + Len(Rest(u, k))
  <2>1. /\ Numbered(u, c, a) /\ a \in Nat /\ Len(u) \in Nat /\ t = a + Len(u)
    BY <1>1, Lengths, EmptySeq DEF InLine
  <2> HIDE DEF a
  <2>2. /\ Numbered(SubSeq(u, 1, k), c, a) /\ Numbered(Rest(u, k), c, a + k)
        /\ Len(SubSeq(u, 1, k)) = k /\ Len(Rest(u, k)) = Len(u) - k /\ k \in Nat
    BY <2>1, Cut
  <2>3. t = a + k + (Len(u) - k)
    BY <2>1, <2>2
  <2> QED
    BY <2>2, <2>3
<1> QED
  BY <1>1 DEF InLine

\* The server sends what it holds.
LEMMA Echoed ==
  ASSUME NEW c, NEW g, NEW d, NEW f, NEW u, NEW t, InLine(c, g, d, f, u, t, FALSE)
  PROVE  InLine(c, g, d \o f, <<>>, u, t, FALSE)
<1>1. /\ Numbered(d, c, Len(g)) /\ Numbered(f, c, Len(g) + Len(d)) /\ Len(g) \in Nat
      /\ Len(u) \in Nat /\ Len(d) \in Nat /\ Len(f) \in Nat
  BY Lengths DEF InLine
<1>2. Numbered(d \o f, c, Len(g)) /\ Len(d \o f) = Len(d) + Len(f)
  BY <1>1, Joined
<1>3. Numbered(<<>>, c, Len(g) + Len(d \o f)) /\ Len(<<>>) = 0
  BY EmptySeq DEF Numbered
<1>4. Len(g) + Len(d \o f) + Len(<<>>) = Len(g) + Len(d) + Len(f)
  BY <1>1, <1>2, <1>3
<1> QED
  BY <1>2, <1>3, <1>4 DEF InLine

\* The client prints some of what has come back.
LEMMA Printed ==
  ASSUME NEW c, NEW g, NEW d, NEW f, NEW u, NEW t, NEW lost \in BOOLEAN,
         InLine(c, g, d, f, u, t, lost), NEW k \in 1 .. Len(d)
  PROVE  InLine(c, g \o SubSeq(d, 1, k), Rest(d, k), f, u, t, lost)
<1> DEFINE p == SubSeq(d, 1, k)
           r == Rest(d, k)
<1>1. Numbered(g, c, 0) /\ Numbered(d, c, Len(g)) /\ Len(g) \in Nat /\ Len(d) \in Nat
  BY Lengths DEF InLine
<1>2. /\ Numbered(p, c, 0 + Len(g)) /\ Numbered(r, c, Len(g) + k)
      /\ Len(p) = k /\ Len(r) = Len(d) - k /\ k \in Nat
  BY <1>1, Cut
<1> HIDE DEF p, r
<1>3. Numbered(g \o p, c, 0) /\ Len(g \o p) = Len(g) + k
  BY <1>1, <1>2, Joined
<1>4. Len(g \o p) + Len(r) = Len(g) + Len(d)
  BY <1>1, <1>2, <1>3
<1> QED
  BY <1>2, <1>3, <1>4 DEF InLine, p, r
-----------------------------------------------------------------------------
(* OwnEcho                                                                 *)

\* What was received from c and has not been sent back.
Flight(c) == IF server = "send" /\ open[fdOf[Entry]] = c THEN chunk ELSE <<>>

InStep(c) == InLine(c, got[c], down[c], Flight(c), up[c], typed[c], reset[c])

\* The line being sent came through a descriptor of a client.
SendsToClient == server = "send" => IsConn(fdOf[Entry])

SInv ==
  /\ down = [c \in Clients |-> down[c]] /\ got = [c \in Clients |-> got[c]]
  /\ SendsToClient /\ \A c \in Clients : InStep(c)

\* A step that reads and writes nothing of c keeps its lines; so does any step
\* that resets the connection, whatever it drops on the server's side.
LEMMA LinesStay ==
  ASSUME NEW c \in Clients, InStep(c), got'[c] = got[c], down'[c] = down[c],
         reset'[c] \in BOOLEAN,
         ~reset'[c] => /\ ~reset[c] /\ up'[c] = up[c] /\ typed'[c] = typed[c]
                       /\ Flight(c)' = Flight(c)
  PROVE  InStep(c)'
BY DEF InStep, InLine

\* Steps of the server that are neither Recv nor Send.
LEMMA OtherStepKeepsLines ==
  ASSUME BInv, SInv, server # "send", server' # "send",
         UNCHANGED <<up, down, got, typed>>, reset' \in [Clients -> BOOLEAN],
         \A c \in Clients : reset[c] => reset'[c]
  PROVE  SInv'
<1>1. ASSUME NEW c \in Clients PROVE InStep(c)'
  <2>1. Flight(c) = <<>> /\ Flight(c)' = <<>>
    BY DEF Flight
  <2> QED
    BY <2>1, LinesStay DEF SInv
<1> QED
  BY <1>1 DEF SInv, SendsToClient

\* Resets only come; they never go.
LEMMA ResetStays ==
  ASSUME BInv, ServerStep
  PROVE  reset' \in [Clients -> BOOLEAN] /\ \A c \in Clients : reset[c] => reset'[c]
<1> USE DEF BInv, Types
<1>1. CASE reset' = reset
  BY <1>1
<1>2. CASE Stop("exited") \/ Stop("killed")
  BY <1>2 DEF Stop, ServerExits
<1>3. ASSUME NEW f, Close(f)
      PROVE  reset' \in [Clients -> BOOLEAN] /\ \A c \in Clients : reset[c] => reset'[c]
  BY <1>3 DEF Close, CloseServer
<1>4. ASSUME NEW d, NEW ms, WriteDown(d, ms)
      PROVE  reset' \in [Clients -> BOOLEAN] /\ \A c \in Clients : reset[c] => reset'[c]
  BY <1>4 DEF WriteDown
<1> QED
  BY <1>1, <1>2, <1>3, <1>4
  DEF ServerStep, Wait, LoopEnds, MeetGarbage, Accept, Recv, Leave, Send, tcpVars

LEMMA RecvKeepsLines ==
  ASSUME IInv, BInv, SInv, Recv, UNCHANGED clientVars
  PROVE  SInv'
<1>1. UNCHANGED <<got, typed, down>> /\ server = "loop"
  BY DEF Recv, clientVars
<1>2. CASE Leave(Entry) /\ up' = up
  <2>1. server' # "send"
    BY <1>2 DEF Leave, Stop
  <2>2. ServerStep
    BY DEF ServerStep
  <2> QED
    BY <1>1, <1>2, <2>1, <2>2, ResetStays, OtherStepKeepsLines
<1>3. CASE ~(Leave(Entry) /\ up' = up)
  <2>1. IsConn(fdOf[Entry])
    BY <1>3 DEF Recv
  <2>2. PICK c \in Clients : c = open[fdOf[Entry]]
    BY <2>1 DEF IsConn
  <2>3. PICK k \in 1 .. Len(up[c]) :
          /\ server' = "send" /\ chunk' = SubSeq(up[c], 1, k)
          /\ up' = [up EXCEPT ![c] = Rest(@, k)]
          /\ UNCHANGED <<open, fdOf, reset>>
    BY <1>3, <2>2 DEF Recv
  <2>4. Entry' = Entry /\ open'[fdOf'[Entry']] = c
    BY <2>2, <2>3 DEF Recv, Entry
  <2>5. /\ Flight(c) = <<>> /\ Flight(c)' = SubSeq(up[c], 1, k)
        /\ up'[c] = Rest(up[c], k) /\ reset[c] \in BOOLEAN
    BY <1>1, <2>3, <2>4 DEF Flight, BInv, Types
  <2>6. InLine(c, got[c], down[c], <<>>, up[c], typed[c], reset[c])
    BY <2>5 DEF SInv, InStep
  <2>7. InLine(c, got[c], down[c], SubSeq(up[c], 1, k), Rest(up[c], k), typed[c], reset[c])
    BY <2>5, <2>6, Received
  <2>8. InStep(c)'
    BY <1>1, <2>3, <2>5, <2>7 DEF InStep
  <2>9. ASSUME NEW d \in Clients \ {c}
        PROVE  InStep(d)'
    <3>1. Flight(d) = <<>> /\ Flight(d)' = <<>> /\ up'[d] = up[d]
      BY <1>1, <2>3, <2>4 DEF Flight, BInv, Types
    <3>2. InStep(d) /\ reset'[d] \in BOOLEAN /\ reset'[d] = reset[d]
      BY <2>3 DEF SInv, BInv, Types
    <3> QED
      BY <1>1, <3>1, <3>2, LinesStay
  <2>10. SendsToClient'
    BY <2>1, <2>3, <2>4 DEF SendsToClient, IsConn
  <2> QED
    BY <1>1, <2>8, <2>9, <2>10 DEF SInv
<1> QED
  BY <1>2, <1>3

LEMMA SendKeepsLines ==
  ASSUME BInv, SInv, Send, UNCHANGED clientVars
  PROVE  SInv'
<1>1. UNCHANGED <<got, typed, up>> /\ server = "send" /\ server' # "send"
  BY DEF Send, Stop, clientVars
<1>2. PICK c \in Clients : c = open[fdOf[Entry]]
  BY <1>1 DEF SInv, SendsToClient, IsConn
<1>3. reset' \in [Clients -> BOOLEAN] /\ \A d \in Clients : reset[d] => reset'[d]
  BY ResetStays DEF ServerStep
<1>4. /\ Flight(c) = chunk /\ \A d \in Clients \ {c} : Flight(d) = <<>>
      /\ \A d \in Clients : Flight(d)' = <<>>
  BY <1>1, <1>2 DEF Flight
<1>5. down' = [d \in Clients |-> down'[d]] /\ \A d \in Clients \ {c} : down'[d] = down[d]
  BY <1>2 DEF Send, WriteDown, SInv
<1>6. ASSUME WriteDown(c, chunk), ClientOpen(c)
      PROVE  InStep(c)'
  <2>1. down'[c] = down[c] \o chunk /\ ~reset[c] /\ reset'[c] = FALSE /\ reset[c] = FALSE
    BY <1>6 DEF WriteDown, SInv, BInv, Types
  <2>2. InLine(c, got[c], down[c], chunk, up[c], typed[c], FALSE)
    BY <1>4, <2>1 DEF SInv, InStep
  <2>3. InLine(c, got[c], down[c] \o chunk, <<>>, up[c], typed[c], FALSE)
    BY <2>2, Echoed
  <2> QED
    BY <1>1, <1>4, <2>1, <2>3 DEF InStep
<1>7. ASSUME ~(WriteDown(c, chunk) /\ ClientOpen(c))
      PROVE  InStep(c)'
  <2>1. reset'[c] /\ down'[c] = down[c]
    BY <1>2, <1>3, <1>7 DEF Send, WriteDown, BInv, Types
  <2> QED
    BY <1>1, <1>3, <2>1, LinesStay DEF SInv
<1>8. ASSUME NEW d \in Clients \ {c}
      PROVE  InStep(d)'
  <2>1. reset'[d] = reset[d] \/ reset'[d]
    BY <1>3 DEF BInv, Types
  <2> QED
    BY <1>1, <1>3, <1>4, <1>5, <2>1, LinesStay DEF SInv
<1>9. SendsToClient' /\ got' = [d \in Clients |-> got'[d]]
  BY <1>1 DEF SendsToClient, SInv
<1> QED
  BY <1>5, <1>6, <1>7, <1>8, <1>9 DEF SInv

LEMMA ClientKeepsLines ==
  ASSUME BInv, SInv, NEW c \in Clients, ClientStep(c, Alive), UNCHANGED serverVars
  PROVE  SInv'
<1>1. /\ \A d \in Clients : Flight(d)' = Flight(d)
      /\ SendsToClient'
  BY DEF serverVars, Flight, Entry, SInv, SendsToClient, IsConn
<1>2. ASSUME got' = [d \in Clients |-> got'[d]], down' = [d \in Clients |-> down'[d]],
             reset' \in [Clients -> BOOLEAN], InStep(c)',
             \A d \in Clients \ {c} :
               /\ got'[d] = got[d] /\ down'[d] = down[d] /\ up'[d] = up[d]
               /\ typed'[d] = typed[d] /\ reset'[d] = reset[d]
      PROVE  SInv'
  <2>1. ASSUME NEW d \in Clients, d # c
        PROVE  InStep(d)'
    BY <1>1, <1>2, <2>1, LinesStay DEF SInv
  <2> QED
    BY <1>1, <1>2, <2>1 DEF SInv
<1>3. CASE UNCHANGED <<up, down, got, typed>> /\ reset' \in [Clients -> BOOLEAN]
           /\ (reset[c] => reset'[c]) /\ \A d \in Clients \ {c} : reset'[d] = reset[d]
  BY <1>1, <1>2, <1>3, LinesStay DEF SInv
<1>4. CASE Connect(c, Alive) \/ Exit(c)
  BY <1>3, <1>4 DEF Connect, Exit, CloseClient, BInv, Types
<1>5. CASE RecvAnswer(c)
  <2>1. PICK k \in 1 .. Len(down[c]) :
          /\ down' = [down EXCEPT ![c] = Rest(@, k)]
          /\ got' = [got EXCEPT ![c] = @ \o SubSeq(down[c], 1, k)]
    BY <1>5 DEF RecvAnswer
  <2>2. UNCHANGED <<typed, up, reset>>
    BY <1>5 DEF RecvAnswer
  <2>3. InLine(c, got[c], down[c], Flight(c), up[c], typed[c], reset[c]) /\ reset[c] \in BOOLEAN
    BY DEF SInv, InStep, BInv, Types
  <2>4. InLine(c, got[c] \o SubSeq(down[c], 1, k), Rest(down[c], k), Flight(c), up[c],
               typed[c], reset[c])
    BY <2>3, Printed
  <2>5. got'[c] = got[c] \o SubSeq(down[c], 1, k) /\ down'[c] = Rest(down[c], k)
    BY <2>1 DEF SInv
  <2>6. InStep(c)'
    BY <1>1, <2>2, <2>4, <2>5 DEF InStep
  <2>7. /\ got' = [d \in Clients |-> got'[d]] /\ down' = [d \in Clients |-> down'[d]]
        /\ \A d \in Clients \ {c} : got'[d] = got[d] /\ down'[d] = down[d]
    BY <2>1 DEF SInv
  <2> QED
    BY <1>2, <2>2, <2>6, <2>7 DEF BInv, Types
<1>6. CASE /\ WriteUp(c, <<[from |-> c, n |-> typed[c] + 1, text |-> "line"]>>)
           /\ typed' = [typed EXCEPT ![c] = @ + 1]
           /\ UNCHANGED <<got, down>>
  <2> DEFINE m == <<[from |-> c, n |-> typed[c] + 1, text |-> "line"]>>
  <2>1. /\ typed'[c] = typed[c] + 1 /\ reset[c] = FALSE
        /\ \A d \in Clients \ {c} : typed'[d] = typed[d]
    BY <1>6 DEF WriteUp, BInv, Types
  <2>2. CASE up' = [up EXCEPT ![c] = @ \o m] /\ reset' = reset
    <3>1. InLine(c, got[c], down[c], Flight(c), up[c], typed[c], FALSE)
      BY <2>1 DEF SInv, InStep
    <3>2. InLine(c, got[c], down[c], Flight(c), up[c] \o m, typed[c] + 1, FALSE)
      BY <3>1, Typed
    <3>3. up'[c] = up[c] \o m /\ \A d \in Clients \ {c} : up'[d] = up[d]
      BY <2>2 DEF BInv, Types
    <3> HIDE DEF m
    <3>4. InStep(c)'
      BY <1>1, <1>6, <2>1, <2>2, <3>2, <3>3 DEF InStep
    <3> QED
      BY <1>2, <1>6, <2>1, <2>2, <3>3, <3>4 DEF SInv, BInv, Types
  <2>3. CASE up' = up /\ reset' = [reset EXCEPT ![c] = TRUE]
    <3>1. /\ reset' \in [Clients -> BOOLEAN] /\ reset'[c]
          /\ \A d \in Clients \ {c} : reset'[d] = reset[d]
      BY <2>3 DEF BInv, Types
    <3>2. InStep(c)'
      BY <1>6, <3>1, LinesStay DEF SInv
    <3> QED
      BY <1>2, <1>6, <2>1, <2>3, <3>1, <3>2 DEF SInv
  <2> QED
    BY <1>6, <2>2, <2>3 DEF WriteUp
<1> QED
  BY <1>4, <1>5, <1>6 DEF ClientStep, SendLine, RecvEnds, Interrupt

LEMMA InitLines ==
  ASSUME Init
  PROVE  SInv
<1>1. /\ server = "wait" /\ up = [c \in Clients |-> <<>>] /\ down = [c \in Clients |-> <<>>]
      /\ got = [c \in Clients |-> <<>>] /\ typed = [c \in Clients |-> 0]
  BY DEF Init, TcpInit, ClientInit, ServerInit
<1>2. Len(<<>>) = 0 /\ <<>> \in Seq(Msg)
  BY EmptySeq
<1> QED
  BY <1>1, <1>2 DEF SInv, SendsToClient, InStep, InLine, Numbered, Flight

LEMMA StepLines ==
  ASSUME IInv, BInv, SInv, [Next]_vars
  PROVE  SInv'
<1>1. CASE UNCHANGED vars
  BY <1>1 DEF vars, tcpVars, clientVars, serverVars, SInv, SendsToClient, IsConn, InStep,
              Flight, Entry
<1>2. CASE (Wait \/ LoopEnds \/ MeetGarbage \/ Accept) /\ UNCHANGED clientVars
  <2>1. server # "send" /\ server' # "send" /\ UNCHANGED <<up, down, got, typed>>
    BY <1>2 DEF Wait, LoopEnds, MeetGarbage, Accept, Stop, tcpVars, clientVars
  <2> QED
    BY <1>2, <2>1, ResetStays, OtherStepKeepsLines DEF ServerStep
<1> QED
  BY <1>1, <1>2, RecvKeepsLines, SendKeepsLines, ClientKeepsLines DEF Next, ServerStep

\* Through stale events, records that malloc hands out again and closes of the
\* wrong descriptor, a client reads back its own lines only, complete and in
\* order up to some point, for any number of clients, lines and records: a line
\* that was received goes to the descriptor of the same record it came through.
THEOREM OwnEchoAlways == Spec => []OwnEcho
<1>1. ASSUME SInv, NEW c \in Clients
      PROVE  Numbered(got[c] \o down[c], c, 0)
  <2>1. Numbered(got[c], c, 0) /\ Numbered(down[c], c, Len(got[c])) /\ Len(got[c]) \in Nat
    BY <1>1, LenProperties DEF SInv, InStep, InLine, Numbered
  <2> QED
    BY <2>1, Joined
<1>2. SInv => OwnEcho
  <2> SUFFICES ASSUME SInv, NEW c \in Clients, NEW k \in DOMAIN (got[c] \o down[c])
               PROVE  /\ (got[c] \o down[c])[k].from = c
                      /\ (got[c] \o down[c])[k].n = k
    BY DEF OwnEcho
  <2> DEFINE ms == got[c] \o down[c]
  <2>1. Numbered(ms, c, 0)
    BY <1>1
  <2> HIDE DEF ms
  <2>2. ms \in Seq(Msg) /\ k \in DOMAIN ms
    BY <2>1 DEF Numbered, ms
  <2>3. k \in 1 .. Len(ms) /\ k \in Nat
    BY <2>2, LenProperties
  <2>4. ms[k].from = c /\ ms[k].n = k
    BY <2>1, <2>3 DEF Numbered
  <2> QED
    BY <2>4 DEF ms
<1>3. IInv /\ BInv /\ SInv /\ [Next]_vars => SInv'
  BY StepLines
<1>4. IInv /\ BInv /\ [Next]_vars => BInv'
  BY StepBatch
<1> QED
  BY <1>2, <1>3, <1>4, InitBatch, InitLines, Invariance, PTL DEF Spec
=============================================================================
