------------------------ MODULE SelectSystem_proofs ------------------------
(***************************************************************************)
(* Safety of the select server for every set of clients, every word size   *)
(* and whatever savefds held before it was used: its bookkeeping (IInv),   *)
(* what select reported and the loop has yet to serve (BInv), and the way  *)
(* of the lines (SInv).                                                    *)
(***************************************************************************)
EXTENDS SelectSystem, SequenceTheorems, FiniteSetTheorems, WellFoundedInduction, TLAPS

\* The table and the bound of the loop are what the code takes them for.
Table == conns \in Seq(Clients) /\ maxfd \in Int /\ backlog \in Seq(Clients)

\* When accept is called (line 91), somebody is waiting to be accepted.
AcceptFindsOne == server = "accept" => backlog # <<>>

IInv == Table /\ AcceptFindsOne /\ Watched

\* The table holds a client per connection.
LEMMA TableTypes ==
  ASSUME Table
  PROVE  /\ Len(conns) \in Nat /\ DOMAIN conns = 1..Len(conns)
         /\ sockfd \in Nat /\ newfd = sockfd + Len(conns) + 1
BY LenProperties, SelectAssumption DEF Table, newfd

\* Removing one descriptor keeps the others below maxfd: it is lowered only
\* past the descriptor that was removed (lines 115 to 120).
LEMMA DropKeeps ==
  ASSUME Table, Watched, NEW fd, Drop(fd), conns' = conns
  PROVE  maxfd' \in Int /\ Watched'
<1> DEFINE lowered == fd = maxfd - 1
<1>1. maxfd' = (IF lowered THEN maxfd - 1 ELSE maxfd) /\ maxfd' \in Int
  BY DEF Drop, LowerMaxfd, Table
<1>2. ASSUME NEW k \in DOMAIN conns', sockfd + k \in savefds'
      PROVE  sockfd + k < maxfd'
  <2>1. sockfd + k < maxfd /\ sockfd + k # fd
    BY <1>2 DEF Drop, Watched
  <2>2. sockfd + k \in Int
    BY <1>2, TableTypes
  <2>3. maxfd \in Int
    BY DEF Table
  <2> HIDE DEF lowered
  <2>4. CASE lowered
    <3>1. sockfd + k # maxfd - 1 /\ maxfd' = maxfd - 1
      BY <1>1, <2>1, <2>4 DEF lowered
    <3> QED
      BY <2>1, <2>2, <2>3, <3>1
  <2>5. CASE ~lowered
    BY <1>1, <2>1, <2>5
  <2> QED
    BY <2>4, <2>5
<1> QED
  BY <1>1, <1>2 DEF Watched

\* Accepting raises maxfd above the new descriptor and lowers it for no other.
LEMMA AcceptKeeps ==
  ASSUME IInv, Accept
  PROVE  IInv'
<1> USE DEF IInv
<1>1. CASE /\ conns' = Append(conns, Head(backlog))
           /\ savefds' = savefds \cup {newfd}
           /\ maxfd' = NewMaxfd
           /\ backlog' = Tail(backlog)
           /\ server' = "scan"
  <2>1. backlog # <<>> /\ backlog \in Seq(Clients)
    BY DEF Accept, AcceptFindsOne, Table
  <2>2. Head(backlog) \in Clients /\ Tail(backlog) \in Seq(Clients)
    BY <2>1, HeadTailProperties
  <2>3. /\ conns' \in Seq(Clients) /\ DOMAIN conns' = 1..Len(conns) + 1
    BY <1>1, <2>2, AppendProperties, LenProperties DEF Table
  <2>4. /\ newfd \in Int /\ maxfd \in Int /\ maxfd' \in Int
        /\ newfd < maxfd' /\ maxfd <= maxfd'
    BY <1>1, TableTypes DEF NewMaxfd, Table
  <2>5. ASSUME NEW k \in DOMAIN conns', sockfd + k \in savefds'
        PROVE  sockfd + k < maxfd'
    <3>1. CASE sockfd + k = newfd
      BY <2>4, <3>1
    <3>2. CASE sockfd + k # newfd
      <4>1. k \in DOMAIN conns /\ sockfd + k \in savefds /\ sockfd + k \in Int
        <5>1. /\ k \in 1..Len(conns) + 1 /\ Len(conns) \in Nat /\ sockfd \in Nat
              /\ newfd = sockfd + Len(conns) + 1
          BY <2>3, <2>5, TableTypes
        <5>2. k # Len(conns) + 1
          BY <5>1, <3>2
        <5>3. k \in 1..Len(conns) /\ sockfd + k \in Int
          BY <5>1, <5>2
        <5>4. k \in DOMAIN conns
          BY <5>3, TableTypes
        <5>5. sockfd + k \in savefds
          BY <1>1, <2>5, <3>2
        <5> QED
          BY <5>3, <5>4, <5>5
      <4>2. sockfd + k < maxfd
        BY <4>1 DEF Watched
      <4> QED
        BY <2>4, <4>1, <4>2
    <3> QED
      BY <3>1, <3>2
  <2> QED
    BY <1>1, <2>2, <2>3, <2>4, <2>5 DEF Table, AcceptFindsOne, Watched
<1>2. CASE Stop("exited") /\ UNCHANGED <<conns, savefds, maxfd>>
  <2>1. backlog' \in Seq(Clients) /\ server' = "exited"
    BY <1>2 DEF Stop, ServerExits, Table
  <2> QED
    BY <1>2, <2>1 DEF Table, AcceptFindsOne, Watched
<1> QED
  BY <1>1, <1>2 DEF Accept

LEMMA RecvKeeps ==
  ASSUME IInv, Recv
  PROVE  IInv'
<1> USE DEF IInv
<1>1. conns' = conns /\ backlog' = backlog
  BY DEF Recv
<1>2. CASE server' = "send" /\ UNCHANGED <<savefds, maxfd>>
  BY <1>1, <1>2 DEF Table, AcceptFindsOne, Watched
<1>3. CASE Drop(NextReady)
  <2>1. maxfd' \in Int /\ Watched' /\ server' = "scan"
    BY <1>1, <1>3, DropKeeps DEF Drop
  <2> QED
    BY <1>1, <2>1 DEF Table, AcceptFindsOne
<1> QED
  BY <1>2, <1>3 DEF Recv

LEMMA SendKeeps ==
  ASSUME IInv, Send
  PROVE  IInv'
<1> USE DEF IInv
<1>1. conns' = conns
  BY DEF Send
<1>2. CASE server' = "scan" /\ UNCHANGED <<savefds, maxfd, backlog>>
  BY <1>1, <1>2 DEF Table, AcceptFindsOne, Watched
<1>3. CASE Stop("killed") /\ UNCHANGED <<savefds, maxfd>>
  <2>1. backlog' \in Seq(Clients) /\ server' = "killed"
    BY <1>3 DEF Stop, ServerExits, Table
  <2> QED
    BY <1>1, <1>3, <2>1 DEF Table, AcceptFindsOne, Watched
<1>4. CASE Drop(i) /\ UNCHANGED backlog
  <2>1. maxfd' \in Int /\ Watched' /\ server' = "scan"
    BY <1>1, <1>4, DropKeeps DEF Drop
  <2> QED
    BY <1>1, <1>4, <2>1 DEF Table, AcceptFindsOne
<1> QED
  BY <1>2, <1>3, <1>4 DEF Send

\* A client adds itself to the backlog at most.
LEMMA ClientKeeps ==
  ASSUME IInv, NEW c \in Clients, ClientStep(c, Alive), UNCHANGED serverVars
  PROVE  IInv'
<1> USE DEF IInv
<1>1. UNCHANGED <<server, conns, savefds, maxfd>>
  BY DEF serverVars
<1>2. backlog' = backlog \/ backlog' = Append(backlog, c)
  BY DEF ClientStep, Connect, SendLine, RecvAnswer, RecvEnds, Interrupt, Exit
<1>3. backlog' \in Seq(Clients) /\ (backlog # <<>> => backlog' # <<>>)
  BY <1>2, AppendProperties DEF Table
<1> QED
  BY <1>1, <1>3 DEF Table, AcceptFindsOne, Watched

LEMMA StepInv == IInv /\ [Next]_vars => IInv'
<1> SUFFICES ASSUME IInv, [Next]_vars PROVE IInv'
  OBVIOUS
<1> USE DEF IInv
<1>1. CASE Select
  BY <1>1 DEF Select, tcpVars, Table, AcceptFindsOne, Watched
<1>2. CASE ScanEnds
  BY <1>2 DEF ScanEnds, tcpVars, Table, AcceptFindsOne, Watched
<1>3. CASE UNCHANGED vars
  BY <1>3 DEF vars, tcpVars, serverVars, Table, AcceptFindsOne, Watched
<1> HIDE DEF IInv
<1>4. CASE Accept
  BY <1>4, AcceptKeeps
<1>5. CASE Recv
  BY <1>5, RecvKeeps
<1>6. CASE Send
  BY <1>6, SendKeeps
<1>7. ASSUME NEW c \in Clients, ClientStep(c, Alive), UNCHANGED serverVars
      PROVE  IInv'
  BY <1>7, ClientKeeps
<1> QED
  BY <1>1, <1>2, <1>3, <1>4, <1>5, <1>6, <1>7 DEF Next, ServerStep

LEMMA InitInv == Init => IInv
<1> SUFFICES ASSUME Init PROVE IInv
  OBVIOUS
<1>1. conns = <<>> /\ backlog = <<>> /\ server = "select" /\ maxfd = sockfd + 1
  BY DEF Init, TcpInit, ServerInit
<1>2. DOMAIN conns = {}
  BY <1>1
<1> QED
  BY <1>1, <1>2, SelectAssumption DEF IInv, Table, AcceptFindsOne, Watched

\* The table, the pending accept and maxfd fit together in every state.
THEOREM Invariance == Spec => []IInv
BY InitInv, StepInv, PTL DEF Spec

\* No watched connection is out of reach of select and of the loop over the
\* descriptors, although maxfd is lowered inside that loop (lines 117-120),
\* whatever the word size and the garbage in savefds.
THEOREM WatchedAlways == Spec => []Watched
<1>1. IInv => Watched
  BY DEF IInv
<1> QED
  BY <1>1, Invariance, PTL

\* The server calls accept only when it returns at once.
THEOREM AcceptFindsOneAlways == Spec => []AcceptFindsOne
<1>1. IInv => AcceptFindsOne
  BY DEF IInv
<1> QED
  BY <1>1, Invariance, PTL

-----------------------------------------------------------------------------
(* What recv can wait for                                                  *)

Types ==
  /\ up \in [Clients -> Seq(Msg)] /\ cliEnd = [c \in Clients |-> cliEnd[c]]
  /\ reset \in [Clients -> BOOLEAN]
  /\ client \in [Clients -> {"connect", "loop", "exited"}]
  /\ typed \in [Clients -> Nat]
  /\ \A fd \in savefds \cup readfds : fd \in Int /\ sockfd < fd

\* The loop is over descriptors of accepted connections (line 101).
Bounds ==
  /\ sockfd < maxfd /\ maxfd <= sockfd + Len(conns) + 1
  /\ i \in Int /\ sockfd < i
  /\ server = "send" => i < maxfd

\* A client has one connection at most, in the table or in the backlog.
OneConnection ==
  /\ \A k \in DOMAIN conns :
       /\ client[conns[k]] # "connect"
       /\ \A j \in DOMAIN conns : conns[j] = conns[k] => j = k
  /\ \A k \in DOMAIN backlog :
       /\ client[backlog[k]] # "connect"
       /\ \A j \in DOMAIN conns : conns[j] # backlog[k]
       /\ \A j \in DOMAIN backlog : backlog[j] = backlog[k] => j = k

\* A bit for a descriptor that accept has not returned yet is garbage.
Unset == \A fd \in savefds : sockfd + Len(conns) < fd => fd \in garbage

\* The descriptors at which the loop has yet to stop in this round.
Ahead(fd) ==
  /\ fd \in readfds /\ fd < maxfd
  /\ \/ server = "accept"
     \/ server = "scan" /\ i <= fd
     \/ server = "send" /\ i < fd

\* The connection of this very round, whose bit was there before it was.
Wild(fd) == fd = sockfd + Len(conns) /\ fd \in garbage /\ WORD <= fd

\* Each of them can be read without waiting, or is that one; until accept has
\* returned, what lies above maxfd is what select did not rewrite.
Reports ==
  /\ \A fd \in readfds : Ahead(fd) => Readable(fd) \/ (server # "accept" /\ Wild(fd))
  /\ server = "accept" =>
       \A fd \in readfds : maxfd <= fd => fd \in savefds /\ WORD <= fd

BInv == Types /\ Bounds /\ OneConnection /\ Unset /\ Reports

\* A connection that can be read stays so until it is read.
CanRead(c) == up[c] # <<>> \/ UpEnded(c)
Steady == \A c \in Clients : (\E k \in DOMAIN conns : conns[k] = c) /\ CanRead(c) => CanRead(c)'

\* The loop reaches accepted connections only.
LEMMA Reached ==
  ASSUME Table, Bounds, NEW fd \in Int, sockfd < fd, fd < maxfd
  PROVE  fd - sockfd \in DOMAIN conns /\ Client(fd) \in Clients
<1>1. Len(conns) \in Nat /\ DOMAIN conns = 1 .. Len(conns) /\ sockfd \in Nat /\ maxfd \in Int
  BY TableTypes DEF Table
<1>2. fd - sockfd \in 1 .. Len(conns)
  BY <1>1 DEF Bounds
<1> QED
  BY <1>1, <1>2, ElementOfSeq DEF Table, Client

\* A set of numbers above sockfd has a least one, so the loop knows where to stop.
LEMMA Least ==
  ASSUME NEW S, S # {}, \A fd \in S : fd \in Int /\ sockfd < fd
  PROVE  \E fd \in S : \A other \in S : fd <= other
<1> DEFINE R == OpToRel(<, Nat)
<1>1. IsWellFoundedOn(R, Nat)
  BY NatLessThanWellFounded
<1>2. \A x, y \in Nat : x < y => <<x, y>> \in R
  BY DEF OpToRel
<1>3. S \subseteq Nat
  BY SelectAssumption
<1> HIDE DEF R
<1>4. PICK fd \in S : \A other \in S : <<other, fd>> \notin R
  BY <1>1, <1>3, WFMin
<1>5. \A other \in S : ~(other < fd)
  BY <1>2, <1>3, <1>4
<1> QED
  BY <1>3, <1>5

LEMMA NextInRound ==
  ASSUME Types, Pending # {}
  PROVE  /\ NextReady \in Pending /\ \A other \in Pending : NextReady <= other
         /\ NextReady \in Int /\ sockfd < NextReady
<1>1. \A fd \in Pending : fd \in Int /\ sockfd < fd
  BY DEF Types, Pending
<1>2. \E fd \in Pending : \A other \in Pending : fd <= other
  BY <1>1, Least
<1>3. NextReady \in Pending /\ \A other \in Pending : NextReady <= other
  BY <1>2 DEF NextReady
<1> QED
  BY <1>1, <1>3

\* The words that select rewrites hold every descriptor below maxfd, and one word
\* at least.
LEMMA RoundUp ==
  ASSUME NEW n \in Nat \ {0}, NEW W \in Nat \ {0}
  PROVE  /\ W * ((n + W - 1) \div W) \in Int
         /\ n <= W * ((n + W - 1) \div W) /\ W <= W * ((n + W - 1) \div W)
<1> DEFINE a == n + W - 1
           q == a \div W
<1>1. a \in Nat /\ q \in Int /\ W * q <= a /\ a < W * q + W
  <2>1. a \in Nat
    OBVIOUS
  <2> HIDE DEF a
  <2> QED
    BY <2>1
<1>2. W * q \in Int
  BY <1>1
<1>3. n <= W * q
  <2> HIDE DEF q
  <2> QED
    BY <1>1, <1>2
<1>4. q \in Nat \ {0}
  <2> HIDE DEF q, a
  <2>1. ~(q <= 0)
    BY <1>1, <1>2, <1>3
  <2> QED
    BY <1>1, <2>1
<1>5. W <= W * q
  <2> HIDE DEF q, a
  <2> QED
    BY <1>4
<1> QED
  BY <1>2, <1>3, <1>5

\* A step that neither selects nor accepts, and moves the loop forward only.
LEMMA ReportsStay ==
  ASSUME Table, Types, Bounds, Reports, Steady,
         UNCHANGED <<conns, readfds, garbage>>, maxfd' <= maxfd, maxfd' \in Int,
         \A fd \in readfds : Ahead(fd)' => Ahead(fd),
         server' = "accept" => server = "accept" /\ UNCHANGED <<savefds, maxfd>>,
         server = "accept" => server' \in {"accept", "exited"}
  PROVE  Reports'
<1>1. ASSUME NEW fd \in readfds, Ahead(fd)'
      PROVE  (Readable(fd) \/ (server # "accept" /\ Wild(fd)))'
  <2>1. Ahead(fd) /\ server' \in {"accept", "scan", "send"}
    BY <1>1 DEF Ahead
  <2>2. fd - sockfd \in DOMAIN conns /\ Client(fd) \in Clients
    BY <2>1, Reached DEF Ahead, Types
  <2>3. CASE Readable(fd)
    <3>1. CanRead(Client(fd))'
      BY <2>2, <2>3 DEF Readable, CanRead, Steady, Client
    <3> QED
      BY <3>1 DEF Readable, CanRead, Client
  <2>4. CASE server # "accept" /\ Wild(fd)
    BY <2>4 DEF Wild
  <2> QED
    BY <1>1, <2>1, <2>3, <2>4 DEF Reports
<1> QED
  BY <1>1 DEF Reports

LEMMA AppendedLine ==
  ASSUME NEW s \in Seq(Msg), NEW m \in Msg
  PROVE  s \o <<m>> \in Seq(Msg) /\ s \o <<m>> # <<>>
<1>1. <<m>> \in Seq(Msg) /\ Len(<<m>>) = 1
  OBVIOUS
<1> DEFINE t == <<m>>
<1> HIDE DEF t
<1>2. t \in Seq(Msg) /\ Len(t) = 1
  BY <1>1 DEF t
<1>3. s \o t \in Seq(Msg) /\ Len(s \o t) = Len(s) + Len(t) /\ Len(s) \in Nat
  BY <1>2, ConcatProperties, LenProperties
<1>4. Len(s \o t) # 0
  BY <1>2, <1>3
<1>5. s \o t # <<>>
  BY <1>4
<1> QED
  BY <1>3, <1>5 DEF t

LEMMA SelectKeeps ==
  ASSUME IInv, BInv, Select, UNCHANGED clientVars
  PROVE  BInv'
<1> USE DEF IInv, BInv
<1>1. /\ UNCHANGED <<conns, savefds, maxfd, garbage, up, cliEnd, reset, backlog, client, typed>>
      /\ server' \in {"accept", "scan"} /\ i' = sockfd + 1
  BY DEF Select, tcpVars, clientVars
<1>2. PICK ready : /\ ready = {fd \in savefds : fd < maxfd /\ Readable(fd)}
                   /\ readfds' = ready \cup {fd \in savefds : ~Rewritten(fd)}
  BY DEF Select, Reported
<1>3. readfds' \subseteq savefds
  BY <1>2
<1>4. Types' /\ OneConnection' /\ Unset'
  BY <1>1, <1>3 DEF Types, OneConnection, Unset
<1>5. Bounds'
  BY <1>1, SelectAssumption DEF Bounds
<1>6. /\ maxfd \in Nat \ {0} /\ WORD \in Nat \ {0}
      /\ \A fd \in savefds : fd \in Int
  BY SelectAssumption DEF Table, Bounds, Types
<1>7. ASSUME NEW fd \in readfds', fd < maxfd
      PROVE  Readable(fd)'
  <2>1. Rewritten(fd)
    <3>1. fd \in Int /\ maxfd <= WORD * ((maxfd + WORD - 1) \div WORD)
          /\ WORD * ((maxfd + WORD - 1) \div WORD) \in Int
      BY <1>3, <1>6, RoundUp
    <3>2. fd < WORD * ((maxfd + WORD - 1) \div WORD)
      BY <1>6, <1>7, <3>1
    <3> QED
      BY <3>2 DEF Rewritten
  <2>2. Readable(fd)
    BY <1>2, <2>1
  <2> QED
    BY <1>1, <2>2 DEF Readable, Client, UpEnded, ClientOpen
<1>8. ASSUME NEW fd \in readfds', maxfd <= fd
      PROVE  fd \in savefds /\ WORD <= fd
  <2>1. fd \in savefds /\ fd \in Int /\ ~(fd < maxfd)
    BY <1>3, <1>6, <1>8
  <2>2. ~Rewritten(fd)
    BY <1>2, <2>1
  <2>3. /\ WORD <= WORD * ((maxfd + WORD - 1) \div WORD)
        /\ WORD * ((maxfd + WORD - 1) \div WORD) \in Int
    BY <1>6, RoundUp
  <2>4. WORD * ((maxfd + WORD - 1) \div WORD) <= fd
    BY <2>1, <2>2, <2>3 DEF Rewritten
  <2> QED
    BY <1>6, <2>1, <2>3, <2>4
<1>9. Reports'
  BY <1>1, <1>7, <1>8 DEF Reports, Ahead
<1> QED
  BY <1>4, <1>5, <1>9

LEMMA StopKeeps ==
  ASSUME BInv, Stop("exited") \/ Stop("killed"),
         UNCHANGED <<up, cliEnd, client, typed, conns, savefds, readfds, maxfd, garbage>>,
         i' = i
  PROVE  BInv'
<1> USE DEF BInv
<1>1. reset' \in [Clients -> BOOLEAN] /\ backlog' = <<>> /\ server' \in {"exited", "killed"}
  BY DEF Stop, ServerExits, Types
<1>2. DOMAIN backlog' = {}
  BY <1>1
<1> QED
  BY <1>1, <1>2 DEF Types, Bounds, OneConnection, Unset, Reports, Ahead

LEMMA AcceptReaches ==
  ASSUME IInv, BInv, Accept, UNCHANGED clientVars
  PROVE  BInv'
<1> USE DEF IInv, BInv
<1>1. /\ UNCHANGED <<readfds, i, garbage, up, cliEnd, client, typed>>
      /\ server = "accept" /\ backlog # <<>>
  BY DEF Accept, clientVars, AcceptFindsOne
<1>2. CASE Stop("exited") /\ UNCHANGED <<conns, savefds, maxfd>>
  BY <1>1, <1>2, StopKeeps
<1>3. CASE /\ conns' = Append(conns, Head(backlog)) /\ savefds' = savefds \cup {newfd}
           /\ maxfd' = NewMaxfd /\ backlog' = Tail(backlog) /\ server' = "scan"
           /\ UNCHANGED reset
  <2>1. /\ Len(conns) \in Nat /\ DOMAIN conns = 1 .. Len(conns)
        /\ sockfd \in Nat /\ newfd = sockfd + Len(conns) + 1 /\ maxfd \in Int
    BY TableTypes DEF Table
  <2>2. PICK c \in Clients : c = Head(backlog) /\ c = backlog[1] /\ 1 \in DOMAIN backlog
    BY <1>1, HeadTailProperties, EmptySeq, LenProperties DEF Table
  <2>3. /\ Len(conns') = Len(conns) + 1 /\ DOMAIN conns' = 1 .. Len(conns) + 1
        /\ conns'[Len(conns) + 1] = c /\ \A k \in DOMAIN conns : conns'[k] = conns[k]
    BY <1>3, <2>1, <2>2, AppendProperties, LenProperties DEF Table
  <2>4. \A k \in DOMAIN backlog' : k + 1 \in DOMAIN backlog /\ backlog'[k] = backlog[k + 1]
                                   /\ k \in Nat \ {0}
    BY <1>1, <1>3, HeadTailProperties, LenProperties DEF Table
  <2>5. \A k \in DOMAIN backlog' : backlog'[k] # c
    BY <2>2, <2>4 DEF OneConnection
  <2>6. \A k \in DOMAIN conns' :
          k \in DOMAIN conns \/ (k = Len(conns) + 1 /\ conns'[k] = c)
    BY <2>1, <2>3
  <2>7. OneConnection'
    <3>1. ASSUME NEW k \in DOMAIN conns'
          PROVE  /\ client'[conns'[k]] # "connect"
                 /\ \A j \in DOMAIN conns' : conns'[j] = conns'[k] => j = k
      BY <1>1, <2>2, <2>3, <2>6 DEF OneConnection
    <3>2. ASSUME NEW k \in DOMAIN backlog'
          PROVE  /\ client'[backlog'[k]] # "connect"
                 /\ \A j \in DOMAIN conns' : conns'[j] # backlog'[k]
                 /\ \A j \in DOMAIN backlog' : backlog'[j] = backlog'[k] => j = k
      BY <1>1, <2>3, <2>4, <2>5, <2>6 DEF OneConnection
    <3> QED
      BY <3>1, <3>2 DEF OneConnection
  <2>8. maxfd' = (IF newfd >= maxfd THEN newfd + 1 ELSE maxfd)
    BY <1>3 DEF NewMaxfd
  <2>9. Types' /\ Bounds' /\ Unset'
    <3>1. Types'
      BY <1>1, <1>3, <2>1 DEF Types
    <3>2. Bounds'
      BY <1>1, <1>3, <2>1, <2>3, <2>8 DEF Bounds
    <3>3. Unset'
      BY <1>1, <1>3, <2>1, <2>3 DEF Unset, Types
    <3> QED
      BY <3>1, <3>2, <3>3
  <2>10. ASSUME NEW fd \in readfds, Ahead(fd)'
         PROVE  (Readable(fd) \/ (server # "accept" /\ Wild(fd)))'
    <3>1. fd \in Int /\ sockfd < fd /\ fd < maxfd'
      BY <1>1, <2>10 DEF Types, Ahead
    <3>2. CASE fd < maxfd
      <4>1. Readable(fd)
        BY <1>1, <3>2 DEF Reports, Ahead
      <4>2. fd - sockfd \in DOMAIN conns
        BY <3>1, <3>2, Reached
      <4>3. Client(fd)' = Client(fd)
        BY <2>3, <4>2 DEF Client
      <4> QED
        BY <1>1, <1>3, <4>1, <4>3 DEF Readable, UpEnded, ClientOpen
    <3>3. CASE ~(fd < maxfd)
      <4>1. fd \in savefds /\ WORD <= fd /\ maxfd' = newfd + 1 /\ fd <= newfd
        BY <1>1, <2>1, <2>8, <3>1, <3>3 DEF Reports
      <4>2. fd = newfd
        <5>1. SUFFICES ASSUME fd # newfd PROVE FALSE
          OBVIOUS
        <5>2. fd - sockfd \in 1 .. Len(conns) /\ sockfd + (fd - sockfd) = fd
          BY <2>1, <3>1, <4>1, <5>1
        <5>3. fd < maxfd
          BY <2>1, <4>1, <5>2 DEF Watched
        <5> QED
          BY <3>3, <5>3
      <4>3. fd \in garbage
        BY <2>1, <4>1, <4>2 DEF Unset
      <4>4. Wild(fd)'
        BY <1>1, <2>1, <2>3, <4>1, <4>2, <4>3 DEF Wild
      <4> QED
        BY <1>3, <4>4
    <3> QED
      BY <3>2, <3>3
  <2>11. Reports'
    BY <1>1, <1>3, <2>10 DEF Reports
  <2> QED
    BY <2>7, <2>9, <2>11
<1> QED
  BY <1>2, <1>3 DEF Accept

\* FD_CLR of a descriptor the loop has reached.
LEMMA DropReaches ==
  ASSUME IInv, BInv, NEW fd \in Int, i <= fd, fd < maxfd, Drop(fd),
         server \in {"scan", "send"}, server = "send" => fd = i,
         UNCHANGED <<conns, readfds, garbage, up, cliEnd, reset, backlog, client, typed>>
  PROVE  BInv'
<1> USE DEF IInv, BInv
<1>1. /\ savefds' = savefds \ {fd} /\ i' = fd + 1 /\ server' = "scan"
      /\ maxfd' = IF fd = maxfd - 1 THEN maxfd - 1 ELSE maxfd
  BY DEF Drop, LowerMaxfd
<1>2. maxfd \in Int /\ sockfd \in Nat /\ Len(conns) \in Nat /\ sockfd < fd
  BY TableTypes DEF Table, Bounds
<1>3. Types' /\ OneConnection' /\ Unset'
  BY <1>1 DEF Types, OneConnection, Unset
<1>4. Bounds'
  BY <1>1, <1>2 DEF Bounds
<1>5. \A g \in readfds : Ahead(g)' => Ahead(g)
  BY <1>1, <1>2 DEF Ahead, Types, Bounds
<1>6. maxfd' <= maxfd /\ maxfd' \in Int
  BY <1>1, <1>2
<1>7. Steady
  BY DEF Steady, CanRead, UpEnded, ClientOpen
<1> QED
  BY <1>1, <1>3, <1>4, <1>5, <1>6, <1>7, ReportsStay

LEMMA RecvReaches ==
  ASSUME IInv, BInv, Recv, UNCHANGED clientVars
  PROVE  BInv'
<1> USE DEF IInv, BInv
<1>1. /\ UNCHANGED <<conns, readfds, garbage, cliEnd, reset, backlog, client, typed>>
      /\ server = "scan" /\ Pending # {}
  BY DEF Recv, clientVars
<1>2. PICK fd \in Int : /\ fd = NextReady /\ fd \in readfds /\ i <= fd /\ fd < maxfd
                        /\ sockfd < fd
  BY <1>1, NextInRound DEF Pending
<1>3. CASE Drop(fd) /\ up' = up
  BY <1>1, <1>2, <1>3, DropReaches
<1>4. CASE ~(Drop(fd) /\ up' = up)
  <2>1. PICK c \in Clients : c = Client(fd) /\ fd - sockfd \in DOMAIN conns
    BY <1>2, Reached
  <2>2. PICK k \in 1 .. Len(up[c]) :
          /\ up' = [up EXCEPT ![c] = Rest(@, k)] /\ i' = fd /\ server' = "send"
          /\ UNCHANGED <<savefds, maxfd>>
    BY <1>2, <1>4, <2>1 DEF Recv
  <2>3. Rest(up[c], k) \in Seq(Msg)
    <3>1. up[c] \in Seq(Msg) /\ Len(up[c]) \in Nat
          /\ \A j \in 1 .. Len(up[c]) : up[c][j] \in Msg
      BY LenProperties, ElementOfSeq DEF Types
    <3> QED
      BY <3>1, SubSeqProperties DEF Rest
  <2>4. up' \in [Clients -> Seq(Msg)] /\ \A d \in Clients \ {c} : up'[d] = up[d]
    BY <2>2, <2>3 DEF Types
  <2>5. Types' /\ OneConnection' /\ Unset' /\ Bounds'
    BY <1>1, <1>2, <2>2, <2>4 DEF Types, OneConnection, Unset, Bounds
  <2>6. ASSUME NEW g \in readfds, Ahead(g)'
        PROVE  (Readable(g) \/ (server # "accept" /\ Wild(g)))'
    <3>1. g \in Int /\ sockfd < g /\ fd < g /\ g < maxfd /\ i <= g /\ Ahead(g)
      BY <1>1, <1>2, <2>2, <2>6 DEF Ahead, Types, Bounds, Table
    <3>2. g - sockfd \in DOMAIN conns /\ Client(g) \in Clients
      BY <3>1, Reached
    <3>3. g - sockfd # fd - sockfd
      BY <1>2, <3>1, SelectAssumption
    <3>4. Client(g) # c
      BY <2>1, <3>2, <3>3 DEF OneConnection, Client
    <3>5. CASE Readable(g)
      BY <1>1, <2>4, <3>2, <3>4, <3>5 DEF Readable, UpEnded, ClientOpen, Client
    <3>6. CASE Wild(g)
      BY <1>1, <2>2, <3>6 DEF Wild
    <3> QED
      BY <3>1, <3>5, <3>6 DEF Reports
  <2>7. Reports'
    BY <1>1, <2>2, <2>6 DEF Reports
  <2> QED
    BY <2>5, <2>7
<1> QED
  BY <1>3, <1>4

LEMMA SendReaches ==
  ASSUME IInv, BInv, Send, UNCHANGED clientVars
  PROVE  BInv'
<1> USE DEF IInv, BInv
<1>1. /\ UNCHANGED <<conns, readfds, garbage, up, cliEnd, client, typed>> /\ server = "send"
      /\ i \in Int /\ i < maxfd /\ maxfd \in Int
  BY DEF Send, clientVars, Bounds, Table
<1>2. CASE Stop("killed") /\ UNCHANGED <<savefds, maxfd, i>>
  BY <1>1, <1>2, StopKeeps
<1>3. CASE Drop(i) /\ UNCHANGED <<reset, backlog>>
  BY <1>1, <1>3, DropReaches
<1>4. CASE /\ WriteDown(Sender, chunk) /\ server' = "scan" /\ i' = i + 1
           /\ UNCHANGED <<savefds, maxfd, backlog>>
  <2>1. reset' \in [Clients -> BOOLEAN] /\ \A c \in Clients : reset[c] => reset'[c]
    BY <1>4 DEF WriteDown, Types
  <2>2. Types' /\ OneConnection' /\ Unset' /\ Steady
    BY <1>1, <1>4, <2>1 DEF Types, OneConnection, Unset, Steady, CanRead, UpEnded, ClientOpen
  <2>3. Bounds'
    BY <1>1, <1>4, SelectAssumption DEF Bounds
  <2>4. \A fd \in readfds : Ahead(fd)' => Ahead(fd)
    BY <1>1, <1>4 DEF Ahead, Types
  <2> QED
    BY <1>1, <1>4, <2>2, <2>3, <2>4, ReportsStay
<1> QED
  BY <1>2, <1>3, <1>4 DEF Send

LEMMA ClientReaches ==
  ASSUME IInv, BInv, NEW c \in Clients, ClientStep(c, Alive), UNCHANGED serverVars
  PROVE  BInv'
<1> USE DEF IInv, BInv
<1>1. UNCHANGED <<server, conns, savefds, readfds, maxfd, i, garbage>>
  BY DEF serverVars
<1>2. \A fd \in readfds : Ahead(fd)' => Ahead(fd)
  BY <1>1 DEF Ahead
<1>3. Bounds' /\ Unset' /\ maxfd \in Int
  BY <1>1 DEF Bounds, Unset, Table
<1>4. ASSUME Types', OneConnection', Steady
      PROVE  BInv'
  BY <1>1, <1>2, <1>3, <1>4, ReportsStay
<1>5. \A k \in DOMAIN conns : conns[k] \in Clients
  BY ElementOfSeq, LenProperties DEF Table
<1>6. \A k \in DOMAIN backlog : backlog[k] \in Clients
  BY ElementOfSeq, LenProperties DEF Table
<1>7. CASE Connect(c, Alive)
  <2>1. /\ UNCHANGED <<up, reset, typed>> /\ client[c] = "connect"
        /\ client' \in [Clients -> {"connect", "loop", "exited"}]
        /\ client'[c] # "connect" /\ \A d \in Clients \ {c} : client'[d] = client[d]
    BY <1>7 DEF Connect, Types
  <2>2. \A k \in DOMAIN conns : conns[k] \in Clients \ {c}
    BY <1>5, <2>1 DEF OneConnection
  <2>3. \A k \in DOMAIN backlog : backlog[k] \in Clients \ {c}
    BY <1>6, <2>1 DEF OneConnection
  <2>4. CASE UNCHANGED <<cliEnd, backlog>>
    <3>1. Types' /\ OneConnection' /\ Steady
      BY <1>1, <2>1, <2>2, <2>3, <2>4
      DEF Types, OneConnection, Steady, CanRead, UpEnded, ClientOpen
    <3> QED
      BY <1>4, <3>1
  <2>5. CASE cliEnd' = [cliEnd EXCEPT ![c] = {"client"}] /\ backlog' = Append(backlog, c)
    <3>1. Types' /\ Steady
      BY <1>1, <2>1, <2>2, <2>5 DEF Types, Steady, CanRead, UpEnded, ClientOpen
    <3>2. \A k \in DOMAIN backlog' :
            \/ backlog'[k] = c /\ k = Len(backlog) + 1
            \/ k \in DOMAIN backlog /\ backlog'[k] = backlog[k]
      <4>1. /\ Len(backlog) \in Nat /\ DOMAIN backlog = 1 .. Len(backlog)
            /\ DOMAIN backlog' = 1 .. Len(backlog) + 1
            /\ \A k \in 1 .. Len(backlog) : backlog'[k] = backlog[k]
            /\ backlog'[Len(backlog) + 1] = c
        BY <2>5, AppendProperties, LenProperties DEF Table
      <4> QED
        BY <4>1
    <3>3. \A k \in DOMAIN backlog' :
            /\ client'[backlog'[k]] # "connect"
            /\ \A j \in DOMAIN conns' : conns'[j] # backlog'[k]
            /\ \A j \in DOMAIN backlog' : backlog'[j] = backlog'[k] => j = k
      BY <1>1, <2>1, <2>2, <2>3, <3>2 DEF OneConnection
    <3>4. OneConnection'
      BY <1>1, <2>1, <2>2, <3>3 DEF OneConnection
    <3> QED
      BY <1>4, <3>1, <3>4
  <2> QED
    BY <1>7, <2>4, <2>5 DEF Connect
<1>8. ASSUME UNCHANGED backlog, Types', Steady,
             \A d \in Clients : client[d] # "connect" => client'[d] # "connect"
      PROVE  BInv'
  <2>1. OneConnection'
    BY <1>1, <1>5, <1>6, <1>8 DEF OneConnection
  <2> QED
    BY <1>4, <1>8, <2>1
<1>9. CASE Exit(c)
  <2>1. /\ client' \in [Clients -> {"connect", "loop", "exited"}]
        /\ \A d \in Clients : client[d] # "connect" => client'[d] # "connect"
    BY <1>9 DEF Exit, Types
  <2>2. /\ cliEnd' = [d \in Clients |-> cliEnd'[d]]
        /\ \A d \in Clients : cliEnd[d] = {} => cliEnd'[d] = {}
        /\ reset' \in [Clients -> BOOLEAN] /\ \A d \in Clients : reset[d] => reset'[d]
    BY <1>9 DEF Exit, CloseClient, Types
  <2>3. UNCHANGED <<up, typed, backlog>>
    BY <1>9 DEF Exit
  <2> QED
    BY <1>1, <1>8, <2>1, <2>2, <2>3 DEF Types, Steady, CanRead, UpEnded, ClientOpen
<1>10. CASE WriteUp(c, <<[from |-> c, n |-> typed[c] + 1, text |-> "line"]>>)
            /\ typed' = [typed EXCEPT ![c] = @ + 1]
            /\ UNCHANGED <<client, cliEnd, backlog>>
  <2> DEFINE m == [from |-> c, n |-> typed[c] + 1, text |-> "line"]
  <2>1. m \in Msg /\ typed' \in [Clients -> Nat] /\ up[c] \in Seq(Msg)
    BY <1>10 DEF Types, Msg
  <2> HIDE DEF m
  <2>2. up[c] \o <<m>> \in Seq(Msg) /\ up[c] \o <<m>> # <<>>
    BY <2>1, AppendedLine
  <2>3. \/ up' = [up EXCEPT ![c] = @ \o <<m>>] /\ reset' = reset
        \/ up' = up /\ reset' = [reset EXCEPT ![c] = TRUE]
    BY <1>10 DEF WriteUp, m
  <2>4. /\ up' \in [Clients -> Seq(Msg)] /\ reset' \in [Clients -> BOOLEAN]
        /\ \A d \in Clients : reset[d] => reset'[d]
        /\ \A d \in Clients : up'[d] = up[d] \/ up'[d] # <<>>
    BY <2>2, <2>3 DEF Types
  <2> QED
    BY <1>1, <1>8, <1>10, <2>1, <2>4 DEF Types, Steady, CanRead, UpEnded, ClientOpen
<1>11. CASE RecvAnswer(c)
  BY <1>1, <1>8, <1>11 DEF RecvAnswer, Types, Steady, CanRead, UpEnded, ClientOpen
<1> QED
  BY <1>7, <1>9, <1>10, <1>11 DEF ClientStep, SendLine, RecvEnds, Interrupt

LEMMA InitReaches ==
  ASSUME Init
  PROVE  BInv
<1>1. /\ conns = <<>> /\ backlog = <<>> /\ server = "select" /\ maxfd = sockfd + 1
      /\ i = sockfd + 1 /\ readfds = {} /\ savefds = garbage /\ garbage \subseteq Fds
      /\ up = [c \in Clients |-> <<>>] /\ cliEnd = [c \in Clients |-> {}]
      /\ reset = [c \in Clients |-> FALSE] /\ client = [c \in Clients |-> "connect"]
      /\ typed = [c \in Clients |-> 0]
  BY DEF Init, TcpInit, ClientInit, ServerInit
<1>2. Len(conns) = 0 /\ DOMAIN conns = {} /\ DOMAIN backlog = {} /\ <<>> \in Seq(Msg)
  BY <1>1, EmptySeq
<1>3. Cardinality(Clients) \in Nat
  BY SelectAssumption, FS_CardinalityType
<1>4. Types
  BY <1>1, <1>2, <1>3, SelectAssumption DEF Types, Fds
<1> QED
  BY <1>1, <1>2, <1>4, SelectAssumption DEF BInv, Bounds, OneConnection, Unset, Reports, Ahead

LEMMA StepReaches ==
  ASSUME IInv, BInv, [Next]_vars
  PROVE  BInv'
<1>1. CASE ScanEnds /\ UNCHANGED clientVars
  BY <1>1 DEF ScanEnds, tcpVars, clientVars, BInv, Types, Bounds, OneConnection, Unset,
              Reports, Ahead
<1>2. CASE UNCHANGED vars
  BY <1>2 DEF vars, tcpVars, clientVars, serverVars, BInv, Types, Bounds, OneConnection,
              Unset, Reports, Ahead, Readable, UpEnded, ClientOpen, Client, Wild
<1> QED
  BY <1>1, <1>2, SelectKeeps, AcceptReaches, RecvReaches, SendReaches, ClientReaches
  DEF Next, ServerStep

\* No client can hold up the others by being silent: whatever the size of a word
\* and the garbage in savefds, recv (line 105) waits at no descriptor but that of
\* the connection accepted in this very round, when its bit was garbage in a word
\* that select had not rewritten.
THEOREM BlockedOnlyByGarbageAlways == Spec => []BlockedOnlyByGarbage
<1>1. ASSUME BInv, Blocked
      PROVE  Wild(NextReady)
  <2>1. Ahead(NextReady)
    BY <1>1, NextInRound DEF BInv, Blocked, Pending, Ahead
  <2> QED
    BY <1>1, <2>1 DEF BInv, Reports, Blocked, Ahead
<1>2. ASSUME BInv, Blocked
      PROVE  NextReady \in Int /\ NextReady >= WORD
  BY <1>1, <1>2, NextInRound, SelectAssumption DEF BInv, Blocked, Wild
<1>3. BInv => BlockedOnlyByGarbage
  BY <1>1, <1>2 DEF BlockedOnlyByGarbage, Wild
<1>4. IInv /\ BInv /\ [Next]_vars => BInv'
  BY StepReaches
<1> QED
  BY <1>3, <1>4, InitReaches, Invariance, PTL DEF Spec

-----------------------------------------------------------------------------
(* What a client typed and what comes back to it                           *)

\* The lines number a + 1, a + 2, ... of client c.
Numbered(s, c, a) ==
  s \in Seq(Msg) /\ \A k \in 1 .. Len(s) : s[k].from = c /\ s[k].n = a + k

\* What was printed (g), is on its way back (d), is in the server's hands (f) and
\* is on its way to it (u) are the t lines typed, in order. Once a connection has
\* been reset, only g and d count: nothing will be added to them.
InLine(c, g, d, f, u, t, lost) ==
  /\ Numbered(g, c, 0) /\ Numbered(d, c, Len(g))
  /\ ~lost => /\ Numbered(f, c, Len(g) + Len(d))
              /\ Numbered(u, c, Len(g) + Len(d) + Len(f))
              /\ t = Len(g) + Len(d) + Len(f) + Len(u)

\* One run of lines behind another.
LEMMA Joined ==
  ASSUME NEW c, NEW a \in Nat, NEW s, Numbered(s, c, a), NEW t, Numbered(t, c, a + Len(s))
  PROVE  /\ Numbered(s \o t, c, a) /\ Len(s) \in Nat /\ Len(t) \in Nat
         /\ Len(s \o t) = Len(s) + Len(t)
<1>1. s \in Seq(Msg) /\ t \in Seq(Msg) /\ Len(s) \in Nat /\ Len(t) \in Nat
  BY LenProperties DEF Numbered
<1>2. /\ s \o t \in Seq(Msg) /\ Len(s \o t) = Len(s) + Len(t)
      /\ \A k \in 1 .. Len(s) + Len(t) :
           (s \o t)[k] = IF k <= Len(s) THEN s[k] ELSE t[k - Len(s)]
  BY <1>1, ConcatProperties
<1>3. ASSUME NEW k \in 1 .. Len(s) + Len(t)
      PROVE  (s \o t)[k].from = c /\ (s \o t)[k].n = a + k
  <2>1. CASE k <= Len(s)
    BY <1>1, <1>2, <2>1 DEF Numbered
  <2>2. CASE ~(k <= Len(s))
    <3>1. k - Len(s) \in 1 .. Len(t) /\ a + Len(s) + (k - Len(s)) = a + k
      BY <1>1, <2>2
    <3>2. t[k - Len(s)].from = c /\ t[k - Len(s)].n = a + Len(s) + (k - Len(s))
      BY <3>1 DEF Numbered
    <3> QED
      BY <1>2, <2>2, <3>1, <3>2
  <2> QED
    BY <2>1, <2>2
<1> QED
  BY <1>1, <1>2, <1>3 DEF Numbered

\* A run of lines cut in two.
LEMMA Cut ==
  ASSUME NEW c, NEW a \in Nat, NEW s, Numbered(s, c, a), NEW k \in 1 .. Len(s)
  PROVE  /\ Numbered(SubSeq(s, 1, k), c, a) /\ Numbered(Rest(s, k), c, a + k)
         /\ Len(SubSeq(s, 1, k)) = k /\ Len(Rest(s, k)) = Len(s) - k
         /\ Len(s) \in Nat /\ k \in Nat
<1>1. s \in Seq(Msg) /\ Len(s) \in Nat /\ k \in Nat /\ k <= Len(s) /\ 1 <= k
      /\ \A m \in 1 .. Len(s) : s[m] \in Msg
  BY LenProperties, ElementOfSeq DEF Numbered
<1>2. /\ SubSeq(s, 1, k) \in Seq(Msg) /\ Len(SubSeq(s, 1, k)) = k
      /\ \A m \in 1 .. k : SubSeq(s, 1, k)[m] = s[m]
  <2>1. \A m \in 1 .. k : s[m] \in Msg
    BY <1>1
  <2>2. /\ SubSeq(s, 1, k) \in Seq(Msg)
        /\ Len(SubSeq(s, 1, k)) = IF 1 <= k THEN k - 1 + 1 ELSE 0
        /\ \A m \in 1 .. k - 1 + 1 : SubSeq(s, 1, k)[m] = s[1 + m - 1]
    BY <1>1, <2>1, SubSeqProperties
  <2> QED
    BY <1>1, <2>2
<1>3. /\ Rest(s, k) \in Seq(Msg) /\ Len(Rest(s, k)) = Len(s) - k
      /\ \A m \in 1 .. Len(s) - k : Rest(s, k)[m] = s[k + m]
  <2> DEFINE n == Len(s)
  <2>1. \A m \in k + 1 .. n : s[m] \in Msg
    BY <1>1
  <2>2. /\ SubSeq(s, k + 1, n) \in Seq(Msg)
        /\ Len(SubSeq(s, k + 1, n)) = IF k + 1 <= n THEN n - (k + 1) + 1 ELSE 0
        /\ \A m \in 1 .. n - (k + 1) + 1 : SubSeq(s, k + 1, n)[m] = s[k + 1 + m - 1]
    BY <1>1, <2>1, SubSeqProperties
  <2> QED
    BY <1>1, <2>2 DEF Rest
<1>4. ASSUME NEW m \in 1 .. Len(s) - k
      PROVE  Rest(s, k)[m].from = c /\ Rest(s, k)[m].n = a + k + m
  <2>1. k + m \in 1 .. Len(s) /\ a + k + m = a + (k + m)
    BY <1>1
  <2> QED
    BY <1>3, <2>1 DEF Numbered
<1>5. ASSUME NEW m \in 1 .. k
      PROVE  SubSeq(s, 1, k)[m].from = c /\ SubSeq(s, 1, k)[m].n = a + m
  <2>1. m \in 1 .. Len(s) /\ SubSeq(s, 1, k)[m] = s[m]
    BY <1>1, <1>2
  <2> QED
    BY <2>1 DEF Numbered
<1>6. Numbered(SubSeq(s, 1, k), c, a)
  BY <1>2, <1>5 DEF Numbered
<1>7. Numbered(Rest(s, k), c, a + k)
  BY <1>3, <1>4 DEF Numbered
<1> QED
  BY <1>1, <1>2, <1>3, <1>6, <1>7

LEMMA Lengths ==
  ASSUME NEW c, NEW g, NEW d, NEW f, NEW u, NEW t, NEW lost \in BOOLEAN,
         InLine(c, g, d, f, u, t, lost)
  PROVE  /\ Len(g) \in Nat /\ Len(d) \in Nat
         /\ ~lost => Len(f) \in Nat /\ Len(u) \in Nat
BY LenProperties DEF InLine, Numbered

\* The client types its next line.
LEMMA Typed ==
  ASSUME NEW c \in Clients, NEW g, NEW d, NEW f, NEW u, NEW t,
         InLine(c, g, d, f, u, t, FALSE),
         NEW text \in {"line", "quit", "junk"}
  PROVE  InLine(c, g, d, f, u \o <<[from |-> c, n |-> t + 1, text |-> text]>>, t + 1, FALSE)
<1> DEFINE m == [from |-> c, n |-> t + 1, text |-> text]
           a == Len(g) + Len(d) + Len(f)
<1>1. /\ Numbered(u, c, a) /\ a \in Nat /\ Len(u) \in Nat /\ t = a + Len(u)
  BY Lengths DEF InLine
<1>2. m \in Msg /\ m.from = c /\ m.n = t + 1 /\ t \in Nat
  BY <1>1 DEF Msg
<1> HIDE DEF m
<1>3. <<m>> \in Seq(Msg) /\ Len(<<m>>) = 1 /\ <<m>>[1] = m
  BY <1>2
<1>4. Numbered(<<m>>, c, a + Len(u))
  BY <1>1, <1>2, <1>3 DEF Numbered
<1> HIDE DEF a
<1>5. Numbered(u \o <<m>>, c, a) /\ Len(u \o <<m>>) = Len(u) + 1
  BY <1>1, <1>3, <1>4, Joined
<1>6. t + 1 = a + Len(u \o <<m>>)
  BY <1>1, <1>5
<1> QED
  BY <1>5, <1>6 DEF InLine, a, m

\* The server receives some of what has arrived.
LEMMA Received ==
  ASSUME NEW c, NEW g, NEW d, NEW u, NEW t, NEW lost \in BOOLEAN,
         InLine(c, g, d, <<>>, u, t, lost), NEW k \in 1 .. Len(u)
  PROVE  InLine(c, g, d, SubSeq(u, 1, k), Rest(u, k), t, lost)
<1> DEFINE a == Len(g) + Len(d)
<1>1. ASSUME ~lost
      PROVE  /\ Numbered(SubSeq(u, 1, k), c, a)
             /\ Numbered(Rest(u, k), c, a + Len(SubSeq(u, 1, k)))
             /\ t = a + Len(SubSeq(u, 1, k)) + Len(Rest(u, k))
  <2>1. /\ Numbered(u, c, a) /\ a \in Nat /\ Len(u) \in Nat /\ t = a + Len(u)
    BY <1>1, Lengths, EmptySeq DEF InLine
  <2> HIDE DEF a
  <2>2. /\ Numbered(SubSeq(u, 1, k), c, a) /\ Numbered(Rest(u, k), c, a + k)
        /\ Len(SubSeq(u, 1, k)) = k /\ Len(Rest(u, k)) = Len(u) - k /\ k \in Nat
    BY <2>1, Cut
  <2>3. t = a + k + (Len(u) - k)
    BY <2>1, <2>2
  <2> QED
    BY <2>2, <2>3
<1> QED
  BY <1>1 DEF InLine

\* The server sends what it holds.
LEMMA Echoed ==
  ASSUME NEW c, NEW g, NEW d, NEW f, NEW u, NEW t, InLine(c, g, d, f, u, t, FALSE)
  PROVE  InLine(c, g, d \o f, <<>>, u, t, FALSE)
<1>1. /\ Numbered(d, c, Len(g)) /\ Numbered(f, c, Len(g) + Len(d)) /\ Len(g) \in Nat
      /\ Len(u) \in Nat /\ Len(d) \in Nat /\ Len(f) \in Nat
  BY Lengths DEF InLine
<1>2. Numbered(d \o f, c, Len(g)) /\ Len(d \o f) = Len(d) + Len(f)
  BY <1>1, Joined
<1>3. Numbered(<<>>, c, Len(g) + Len(d \o f)) /\ Len(<<>>) = 0
  BY EmptySeq DEF Numbered
<1>4. Len(g) + Len(d \o f) + Len(<<>>) = Len(g) + Len(d) + Len(f)
  BY <1>1, <1>2, <1>3
<1> QED
  BY <1>2, <1>3, <1>4 DEF InLine

\* The client prints some of what has come back.
LEMMA Printed ==
  ASSUME NEW c, NEW g, NEW d, NEW f, NEW u, NEW t, NEW lost \in BOOLEAN,
         InLine(c, g, d, f, u, t, lost), NEW k \in 1 .. Len(d)
  PROVE  InLine(c, g \o SubSeq(d, 1, k), Rest(d, k), f, u, t, lost)
<1> DEFINE p == SubSeq(d, 1, k)
           r == Rest(d, k)
<1>1. Numbered(g, c, 0) /\ Numbered(d, c, Len(g)) /\ Len(g) \in Nat /\ Len(d) \in Nat
  BY Lengths DEF InLine
<1>2. /\ Numbered(p, c, 0 + Len(g)) /\ Numbered(r, c, Len(g) + k)
      /\ Len(p) = k /\ Len(r) = Len(d) - k /\ k \in Nat
  BY <1>1, Cut
<1> HIDE DEF p, r
<1>3. Numbered(g \o p, c, 0) /\ Len(g \o p) = Len(g) + k
  BY <1>1, <1>2, Joined
<1>4. Len(g \o p) + Len(r) = Len(g) + Len(d)
  BY <1>1, <1>2, <1>3
<1> QED
  BY <1>2, <1>3, <1>4 DEF InLine, p, r
-----------------------------------------------------------------------------
(* OwnEcho                                                                 *)

\* What was received from c and has not been sent back.
Flight(c) == IF server = "send" /\ Client(i) = c THEN chunk ELSE <<>>

InStep(c) == InLine(c, got[c], down[c], Flight(c), up[c], typed[c], reset[c])

SInv ==
  /\ down = [c \in Clients |-> down[c]] /\ got = [c \in Clients |-> got[c]]
  /\ \A c \in Clients : InStep(c)

\* A step that reads and writes nothing of c keeps its lines; so does any step
\* that resets the connection, whatever it drops on the server's side.
LEMMA LinesStay ==
  ASSUME NEW c \in Clients, InStep(c), got'[c] = got[c], down'[c] = down[c],
         reset'[c] \in BOOLEAN,
         ~reset'[c] => /\ ~reset[c] /\ up'[c] = up[c] /\ typed'[c] = typed[c]
                       /\ Flight(c)' = Flight(c)
  PROVE  InStep(c)'
BY DEF InStep, InLine

\* Steps of the server that read and write nothing.
LEMMA OtherStepKeepsLines ==
  ASSUME BInv, SInv, server # "send", server' # "send",
         UNCHANGED <<up, down, got, typed>>, reset' \in [Clients -> BOOLEAN],
         \A c \in Clients : reset[c] => reset'[c]
  PROVE  SInv'
<1>1. ASSUME NEW c \in Clients PROVE InStep(c)'
  <2>1. Flight(c) = <<>> /\ Flight(c)' = <<>>
    BY DEF Flight
  <2> QED
    BY <2>1, LinesStay DEF SInv
<1> QED
  BY <1>1 DEF SInv

\* Resets only come; they never go.
LEMMA ResetStays ==
  ASSUME BInv, ServerStep
  PROVE  reset' \in [Clients -> BOOLEAN] /\ \A c \in Clients : reset[c] => reset'[c]
<1> USE DEF BInv, Types
<1>1. CASE reset' = reset
  BY <1>1
<1>2. CASE Stop("exited") \/ Stop("killed")
  BY <1>2 DEF Stop, ServerExits
<1>3. ASSUME NEW d, NEW ms, WriteDown(d, ms)
      PROVE  reset' \in [Clients -> BOOLEAN] /\ \A c \in Clients : reset[c] => reset'[c]
  BY <1>3 DEF WriteDown
<1> QED
  BY <1>1, <1>2, <1>3 DEF ServerStep, Select, Accept, ScanEnds, Recv, Send, tcpVars

LEMMA RecvKeepsLines ==
  ASSUME IInv, BInv, SInv, Recv, UNCHANGED clientVars
  PROVE  SInv'
<1>1. /\ UNCHANGED <<got, typed, down, conns, reset>> /\ server = "scan" /\ Pending # {}
  BY DEF Recv, clientVars
<1>2. PICK fd \in Int : fd = NextReady /\ sockfd < fd /\ fd < maxfd
  BY <1>1, NextInRound DEF BInv, Pending
<1>3. CASE Drop(fd) /\ up' = up
  BY <1>1, <1>3, OtherStepKeepsLines DEF Drop, BInv, Types
<1>4. CASE ~(Drop(fd) /\ up' = up)
  <2>1. PICK c \in Clients : c = Client(fd)
    BY <1>2, Reached DEF IInv, BInv
  <2>2. PICK k \in 1 .. Len(up[c]) :
          /\ up' = [up EXCEPT ![c] = Rest(@, k)] /\ chunk' = SubSeq(up[c], 1, k)
          /\ i' = fd /\ server' = "send"
    BY <1>2, <1>4, <2>1 DEF Recv
  <2>3. Client(i)' = c
    BY <1>1, <2>1, <2>2 DEF Client
  <2>4. /\ Flight(c) = <<>> /\ Flight(c)' = SubSeq(up[c], 1, k)
        /\ up'[c] = Rest(up[c], k) /\ reset[c] \in BOOLEAN
    BY <1>1, <2>2, <2>3 DEF Flight, BInv, Types
  <2>5. InLine(c, got[c], down[c], <<>>, up[c], typed[c], reset[c])
    BY <2>4 DEF SInv, InStep
  <2>6. InLine(c, got[c], down[c], SubSeq(up[c], 1, k), Rest(up[c], k), typed[c], reset[c])
    BY <2>4, <2>5, Received
  <2>7. InStep(c)'
    BY <1>1, <2>2, <2>4, <2>6 DEF InStep
  <2>8. ASSUME NEW d \in Clients \ {c}
        PROVE  InStep(d)'
    <3>1. Flight(d) = <<>> /\ Flight(d)' = <<>> /\ up'[d] = up[d]
      BY <1>1, <2>2, <2>3 DEF Flight, BInv, Types
    <3>2. InStep(d) /\ reset'[d] \in BOOLEAN /\ reset'[d] = reset[d]
      BY <1>1 DEF SInv, BInv, Types
    <3> QED
      BY <1>1, <3>1, <3>2, LinesStay
  <2> QED
    BY <1>1, <2>7, <2>8 DEF SInv
<1> QED
  BY <1>3, <1>4

LEMMA SendKeepsLines ==
  ASSUME IInv, BInv, SInv, Send, UNCHANGED clientVars
  PROVE  SInv'
<1>1. /\ UNCHANGED <<got, typed, up>> /\ server = "send" /\ server' # "send"
      /\ i \in Int /\ sockfd < i /\ i < maxfd
  BY DEF Send, Stop, Drop, clientVars, BInv, Bounds
<1>2. PICK c \in Clients : c = Client(i) /\ c = Sender
  BY <1>1, Reached DEF Sender, IInv, BInv
<1>3. reset' \in [Clients -> BOOLEAN] /\ \A d \in Clients : reset[d] => reset'[d]
  BY ResetStays DEF ServerStep
<1>4. /\ Flight(c) = chunk /\ \A d \in Clients \ {c} : Flight(d) = <<>>
      /\ \A d \in Clients : Flight(d)' = <<>>
  BY <1>1, <1>2 DEF Flight
<1>5. down' = [d \in Clients |-> down'[d]] /\ \A d \in Clients \ {c} : down'[d] = down[d]
  BY <1>2 DEF Send, WriteDown, SInv
<1>6. ASSUME WriteDown(c, chunk), ClientOpen(c)
      PROVE  InStep(c)'
  <2>1. down'[c] = down[c] \o chunk /\ ~reset[c] /\ reset'[c] = FALSE /\ reset[c] = FALSE
    BY <1>6 DEF WriteDown, SInv, BInv, Types
  <2>2. InLine(c, got[c], down[c], chunk, up[c], typed[c], FALSE)
    BY <1>4, <2>1 DEF SInv, InStep
  <2>3. InLine(c, got[c], down[c] \o chunk, <<>>, up[c], typed[c], FALSE)
    BY <2>2, Echoed
  <2> QED
    BY <1>1, <1>4, <2>1, <2>3 DEF InStep
<1>7. ASSUME ~(WriteDown(c, chunk) /\ ClientOpen(c))
      PROVE  InStep(c)'
  <2>1. reset'[c] /\ down'[c] = down[c]
    BY <1>2, <1>3, <1>7 DEF Send, WriteDown, BInv, Types
  <2> QED
    BY <1>1, <1>3, <2>1, LinesStay DEF SInv
<1>8. ASSUME NEW d \in Clients \ {c}
      PROVE  InStep(d)'
  <2>1. reset'[d] = reset[d] \/ reset'[d]
    BY <1>3 DEF BInv, Types
  <2> QED
    BY <1>1, <1>3, <1>4, <1>5, <2>1, LinesStay DEF SInv
<1>9. got' = [d \in Clients |-> got'[d]]
  BY <1>1 DEF SInv
<1> QED
  BY <1>5, <1>6, <1>7, <1>8, <1>9 DEF SInv

LEMMA ClientKeepsLines ==
  ASSUME BInv, SInv, NEW c \in Clients, ClientStep(c, Alive), UNCHANGED serverVars
  PROVE  SInv'
<1>1. \A d \in Clients : Flight(d)' = Flight(d)
  BY DEF serverVars, Flight, Client, SInv
<1>2. ASSUME got' = [d \in Clients |-> got'[d]], down' = [d \in Clients |-> down'[d]],
             reset' \in [Clients -> BOOLEAN], InStep(c)',
             \A d \in Clients \ {c} :
               /\ got'[d] = got[d] /\ down'[d] = down[d] /\ up'[d] = up[d]
               /\ typed'[d] = typed[d] /\ reset'[d] = reset[d]
      PROVE  SInv'
  <2>1. ASSUME NEW d \in Clients, d # c
        PROVE  InStep(d)'
    BY <1>1, <1>2, <2>1, LinesStay DEF SInv
  <2> QED
    BY <1>1, <1>2, <2>1 DEF SInv
<1>3. CASE UNCHANGED <<up, down, got, typed>> /\ reset' \in [Clients -> BOOLEAN]
           /\ (reset[c] => reset'[c]) /\ \A d \in Clients \ {c} : reset'[d] = reset[d]
  BY <1>1, <1>2, <1>3, LinesStay DEF SInv
<1>4. CASE Connect(c, Alive) \/ Exit(c)
  BY <1>3, <1>4 DEF Connect, Exit, CloseClient, BInv, Types
<1>5. CASE RecvAnswer(c)
  <2>1. PICK k \in 1 .. Len(down[c]) :
          /\ down' = [down EXCEPT ![c] = Rest(@, k)]
          /\ got' = [got EXCEPT ![c] = @ \o SubSeq(down[c], 1, k)]
    BY <1>5 DEF RecvAnswer
  <2>2. UNCHANGED <<typed, up, reset>>
    BY <1>5 DEF RecvAnswer
  <2>3. InLine(c, got[c], down[c], Flight(c), up[c], typed[c], reset[c]) /\ reset[c] \in BOOLEAN
    BY DEF SInv, InStep, BInv, Types
  <2>4. InLine(c, got[c] \o SubSeq(down[c], 1, k), Rest(down[c], k), Flight(c), up[c],
               typed[c], reset[c])
    BY <2>3, Printed
  <2>5. got'[c] = got[c] \o SubSeq(down[c], 1, k) /\ down'[c] = Rest(down[c], k)
    BY <2>1 DEF SInv
  <2>6. InStep(c)'
    BY <1>1, <2>2, <2>4, <2>5 DEF InStep
  <2>7. /\ got' = [d \in Clients |-> got'[d]] /\ down' = [d \in Clients |-> down'[d]]
        /\ \A d \in Clients \ {c} : got'[d] = got[d] /\ down'[d] = down[d]
    BY <2>1 DEF SInv
  <2> QED
    BY <1>2, <2>2, <2>6, <2>7 DEF BInv, Types
<1>6. CASE /\ WriteUp(c, <<[from |-> c, n |-> typed[c] + 1, text |-> "line"]>>)
           /\ typed' = [typed EXCEPT ![c] = @ + 1]
           /\ UNCHANGED <<got, down>>
  <2> DEFINE m == <<[from |-> c, n |-> typed[c] + 1, text |-> "line"]>>
  <2>1. /\ typed'[c] = typed[c] + 1 /\ reset[c] = FALSE
        /\ \A d \in Clients \ {c} : typed'[d] = typed[d]
    BY <1>6 DEF WriteUp, BInv, Types
  <2>2. CASE up' = [up EXCEPT ![c] = @ \o m] /\ reset' = reset
    <3>1. InLine(c, got[c], down[c], Flight(c), up[c], typed[c], FALSE)
      BY <2>1 DEF SInv, InStep
    <3>2. InLine(c, got[c], down[c], Flight(c), up[c] \o m, typed[c] + 1, FALSE)
      BY <3>1, Typed
    <3>3. up'[c] = up[c] \o m /\ \A d \in Clients \ {c} : up'[d] = up[d]
      BY <2>2 DEF BInv, Types
    <3> HIDE DEF m
    <3>4. InStep(c)'
      BY <1>1, <1>6, <2>1, <2>2, <3>2, <3>3 DEF InStep
    <3> QED
      BY <1>2, <1>6, <2>1, <2>2, <3>3, <3>4 DEF SInv, BInv, Types
  <2>3. CASE up' = up /\ reset' = [reset EXCEPT ![c] = TRUE]
    <3>1. /\ reset' \in [Clients -> BOOLEAN] /\ reset'[c]
          /\ \A d \in Clients \ {c} : reset'[d] = reset[d]
      BY <2>3 DEF BInv, Types
    <3>2. InStep(c)'
      BY <1>6, <3>1, LinesStay DEF SInv
    <3> QED
      BY <1>2, <1>6, <2>1, <2>3, <3>1, <3>2 DEF SInv
  <2> QED
    BY <1>6, <2>2, <2>3 DEF WriteUp
<1> QED
  BY <1>4, <1>5, <1>6 DEF ClientStep, SendLine, RecvEnds, Interrupt

LEMMA InitLines ==
  ASSUME Init
  PROVE  SInv
<1>1. /\ server = "select" /\ up = [c \in Clients |-> <<>>] /\ down = [c \in Clients |-> <<>>]
      /\ got = [c \in Clients |-> <<>>] /\ typed = [c \in Clients |-> 0]
  BY DEF Init, TcpInit, ClientInit, ServerInit
<1>2. Len(<<>>) = 0 /\ <<>> \in Seq(Msg)
  BY EmptySeq
<1> QED
  BY <1>1, <1>2 DEF SInv, InStep, InLine, Numbered, Flight

LEMMA StepLines ==
  ASSUME IInv, BInv, SInv, [Next]_vars
  PROVE  SInv'
<1>1. CASE UNCHANGED vars
  BY <1>1 DEF vars, tcpVars, clientVars, serverVars, SInv, InStep, Flight, Client
<1>2. CASE (Select \/ Accept \/ ScanEnds) /\ UNCHANGED clientVars
  <2>1. server # "send" /\ server' # "send" /\ UNCHANGED <<up, down, got, typed>>
    BY <1>2 DEF Select, Accept, ScanEnds, Stop, tcpVars, clientVars
  <2> QED
    BY <1>2, <2>1, ResetStays, OtherStepKeepsLines DEF ServerStep
<1> QED
  BY <1>1, <1>2, RecvKeepsLines, SendKeepsLines, ClientKeepsLines DEF Next, ServerStep

\* One buffer and one loop serve all connections, descriptors are dropped while
\* the loop runs, and yet a client reads back its own lines only, complete and in
\* order up to some point, for any number of clients and lines and any word size.
THEOREM OwnEchoAlways == Spec => []OwnEcho
<1>1. ASSUME SInv, NEW c \in Clients
      PROVE  Numbered(got[c] \o down[c], c, 0)
  <2>1. Numbered(got[c], c, 0) /\ Numbered(down[c], c, Len(got[c])) /\ Len(got[c]) \in Nat
    BY <1>1, LenProperties DEF SInv, InStep, InLine, Numbered
  <2> QED
    BY <2>1, Joined
<1>2. SInv => OwnEcho
  <2> SUFFICES ASSUME SInv, NEW c \in Clients, NEW k \in DOMAIN (got[c] \o down[c])
               PROVE  /\ (got[c] \o down[c])[k].from = c
                      /\ (got[c] \o down[c])[k].n = k
    BY DEF OwnEcho
  <2> DEFINE ms == got[c] \o down[c]
  <2>1. Numbered(ms, c, 0)
    BY <1>1
  <2> HIDE DEF ms
  <2>2. ms \in Seq(Msg) /\ k \in DOMAIN ms
    BY <2>1 DEF Numbered, ms
  <2>3. k \in 1 .. Len(ms) /\ k \in Nat
    BY <2>2, LenProperties
  <2>4. ms[k].from = c /\ ms[k].n = k
    BY <2>1, <2>3 DEF Numbered
  <2> QED
    BY <2>4 DEF ms
<1>3. IInv /\ BInv /\ SInv /\ [Next]_vars => SInv'
  BY StepLines
<1>4. IInv /\ BInv /\ [Next]_vars => BInv'
  BY StepReaches
<1> QED
  BY <1>2, <1>3, <1>4, InitReaches, InitLines, Invariance, PTL DEF Spec
=============================================================================
