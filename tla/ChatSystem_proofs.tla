------------------------- MODULE ChatSystem_proofs -------------------------
(***************************************************************************)
(* Safety of the forking servers and their clients for every set of        *)
(* clients, every buffer size, with and without broadcast: the types, the  *)
(* handler of SIGCHLD, who holds which end of a connection, and the way of *)
(* the lines from one client to another.                                   *)
(***************************************************************************)
EXTENDS ChatSystem, SequenceTheorems, TLAPS

\* What is left of a sequence after a read has its type.
LEMMA RestType ==
  ASSUME NEW S, NEW s \in Seq(S), NEW k \in 1..Len(s)
  PROVE  /\ Rest(s, k) \in Seq(S)
         /\ SubSeq(s, 1, k) \in Seq(S)
<1>1. Len(s) \in Nat /\ \A i \in 1..Len(s) : s[i] \in S
  BY ElementOfSeq, LenProperties
<1>2. SubSeq(s, 1, k) \in Seq(S)
  BY <1>1, SubSeqProperties
<1>3. Rest(s, k) \in Seq(S)
  BY <1>1, SubSeqProperties DEF Rest
<1> QED
  BY <1>2, <1>3

\* What is appended to has its type and an element.
LEMMA AppendType ==
  ASSUME NEW S, NEW s \in Seq(S), NEW e \in S
  PROVE  Append(s, e) \in Seq(S) /\ Append(s, e) # <<>>
BY AppendProperties

\* A process that exits, on either side, leaves the connections well typed.
LEMMA ExitType ==
  ASSUME TcpTypeOK, NEW p \in Clients \cup {Server}, NEW unread, ServerExits(p, unread)
  PROVE  /\ srvEnd' \in [Clients -> SUBSET (Clients \cup {Server})]
         /\ reset' \in [Clients -> BOOLEAN]
         /\ backlog' \in Seq(Clients)
<1>1. srvEnd' \in [Clients -> SUBSET (Clients \cup {Server})]
  BY DEF ServerExits, TcpTypeOK
<1>2. reset' \in [Clients -> BOOLEAN]
  BY DEF ServerExits, TcpTypeOK
<1>3. backlog' \in Seq(Clients)
  BY DEF ServerExits, TcpTypeOK
<1> QED
  BY <1>1, <1>2, <1>3

LEMMA CloseType ==
  ASSUME TcpTypeOK, NEW c \in Clients, NEW ps, CloseClient(c, ps)
  PROVE  /\ cliEnd' \in [Clients -> SUBSET {"writer", "reader", "client"}]
         /\ reset' \in [Clients -> BOOLEAN]
<1>1. cliEnd' \in [Clients -> SUBSET {"writer", "reader", "client"}]
  BY DEF CloseClient, TcpTypeOK
<1>2. reset' \in [Clients -> BOOLEAN]
  BY DEF CloseClient, TcpTypeOK
<1> QED
  BY <1>1, <1>2

-----------------------------------------------------------------------------
(* Type correctness                                                        *)

\* Between accept and fork there is a newest connection in fd_list.
ForkHasFd == parent = "fork" => fd_list # <<>>

TypeInv == TypeOK /\ ForkHasFd

LEMMA ClientTypes ==
  ASSUME TypeInv, NEW c \in Clients, ClientMoves(c)
  PROVE  TypeInv'
<1> USE LinesAssumption, TcpAssumption DEF TypeInv, TypeOK, TcpTypeOK, ClientTypeOK
<1>1. ServerTypeOK' /\ ForkHasFd'
  BY DEF ServerTypeOK, ForkHasFd, ClientMoves, serverVars
<1>2. CASE Connect(c, Listening)
  <2>1. Append(backlog, c) \in Seq(Clients)
    OBVIOUS
  <2>2. cliEnd' \in [Clients -> SUBSET {"writer", "reader", "client"}]
    <3>1. cliEnd' = cliEnd \/ cliEnd' = [cliEnd EXCEPT ![c] = {"writer"}]
      BY <1>2 DEF Connect
    <3>2. {"writer"} \in SUBSET {"writer", "reader", "client"}
      OBVIOUS
    <3> QED
      BY <3>1, <3>2
  <2>3. backlog' \in Seq(Clients)
    BY <1>2, <2>1 DEF Connect
  <2>4. writer' \in [Clients -> {"connect", "fork", "type", "exited"}]
    BY <1>2 DEF Connect
  <2>5. UNCHANGED <<reader, typed, got, up, down, srvEnd, reset>>
    BY <1>2 DEF Connect
  <2> QED
    BY <1>1, <2>2, <2>3, <2>4, <2>5
<1>3. CASE ForkReader(c)
  <2>1. /\ cliEnd' \in [Clients -> SUBSET {"writer", "reader", "client"}]
        /\ reset' \in [Clients -> BOOLEAN]
    <3>1. CASE CloseClient(c, {"writer"})
      BY <3>1, CloseType
    <3>2. CASE /\ cliEnd' = [cliEnd EXCEPT ![c] = {"writer", "reader"}]
               /\ UNCHANGED reset
      BY <3>2
    <3> QED
      BY <1>3, <3>1, <3>2 DEF ForkReader
  <2>2. UNCHANGED <<typed, got, up, down, srvEnd, backlog>>
    BY <1>3 DEF ForkReader
  <2>3. writer' \in [Clients -> {"connect", "fork", "type", "exited"}]
    BY <1>3 DEF ForkReader
  <2>4. reader' \in [Clients -> {"none", "read", "exited"}]
    BY <1>3 DEF ForkReader
  <2> QED
    BY <1>1, <2>1, <2>2, <2>3, <2>4
<1>4. ASSUME NEW text \in {"line", "quit"}, TypeLine(c, text) PROVE TypeInv'
  <2> DEFINE ms == <<[from |-> c, n |-> typed[c] + 1, text |-> text]>>
  <2>1. ms \in Seq(Msg)
    BY DEF Msg
  <2>2. up[c] \o ms \in Seq(Msg)
    BY <2>1
  <2>3. ClientTypeOK'
    <3>1. typed' \in [Clients -> Nat] /\ \A d \in Clients : typed'[d] <= MaxLines[d]
      BY <1>4 DEF TypeLine
    <3>2. writer' \in [Clients -> {"connect", "fork", "type", "exited"}]
      BY <1>4 DEF TypeLine
    <3>3. UNCHANGED <<reader, got>>
      BY <1>4 DEF TypeLine
    <3> QED
      BY <3>1, <3>2, <3>3
  <2>4. TcpTypeOK'
    <3>1. UNCHANGED <<down, srvEnd, backlog>>
      BY <1>4 DEF TypeLine
    <3>2. CASE WriteUp(c, ms) /\ UNCHANGED <<writer, cliEnd>>
      <4> HIDE DEF ms
      <4>1. up' \in [Clients -> Seq(Msg)]
        BY <3>2, <2>2 DEF WriteUp
      <4>2. reset' \in [Clients -> BOOLEAN]
        BY <3>2 DEF WriteUp
      <4> QED
        BY <3>1, <3>2, <4>1, <4>2
    <3>3. CASE CloseClient(c, {"writer"}) /\ UNCHANGED up
      BY <3>1, <3>3, CloseType
    <3> QED
      BY <1>4, <3>2, <3>3 DEF TypeLine
  <2> QED
    BY <1>1, <2>3, <2>4
<1>5. CASE LeaveWriter(c)
  <2>1. TcpTypeOK'
    BY <1>5, CloseType DEF LeaveWriter
  <2>2. ClientTypeOK'
    BY <1>5 DEF LeaveWriter
  <2> QED
    BY <1>1, <2>1, <2>2
<1>6. CASE Interrupt(c)
  <2>1. TcpTypeOK'
    BY <1>6, CloseType DEF Interrupt
  <2>2. ClientTypeOK'
    BY <1>6 DEF Interrupt
  <2> QED
    BY <1>1, <2>1, <2>2
<1>7. CASE ReaderReads(c)
  <2>1. PICK k \in 1..Len(down[c]) :
          /\ down' = [down EXCEPT ![c] = Rest(@, k)]
          /\ got' = [got EXCEPT ![c] = @ \o SubSeq(down[c], 1, k)]
    BY <1>7 DEF ReaderReads
  <2>2. Rest(down[c], k) \in Seq(Msg) /\ SubSeq(down[c], 1, k) \in Seq(Msg)
    BY RestType
  <2>3. got[c] \o SubSeq(down[c], 1, k) \in Seq(Msg)
    BY <2>2
  <2>4. TcpTypeOK'
    BY <1>7, <2>1, <2>2 DEF ReaderReads
  <2>5. ClientTypeOK'
    BY <1>7, <2>1, <2>3 DEF ReaderReads
  <2> QED
    BY <1>1, <2>4, <2>5
<1>8. CASE ReaderEnds(c)
  <2>1. TcpTypeOK'
    BY <1>8, CloseType DEF ReaderEnds
  <2>2. ClientTypeOK'
    BY <1>8 DEF ReaderEnds
  <2> QED
    BY <1>1, <2>1, <2>2
<1> QED
  BY <1>2, <1>3, <1>4, <1>5, <1>6, <1>7, <1>8 DEF ClientMoves, ClientStep

LEMMA ParentTypes ==
  ASSUME TypeInv, Parent, UNCHANGED clientVars
  PROVE  TypeInv'
<1> USE TcpAssumption DEF TypeInv, TypeOK, TcpTypeOK, ServerTypeOK, ForkHasFd, childVars
<1>1. ClientTypeOK'
  BY DEF ClientTypeOK, clientVars
<1>2. CASE Accept
  <2>1. Head(backlog) \in Clients /\ Tail(backlog) \in Seq(Clients)
    BY <1>2 DEF Accept
  <2>2. fd_list' \in Seq(Clients) /\ fd_list' # <<>>
    <3>1. fd_list' = Append(fd_list, Head(backlog)) /\ fd_list \in Seq(Clients)
      BY <1>2 DEF Accept
    <3>2. /\ Append(fd_list, Head(backlog)) \in Seq(Clients)
          /\ Append(fd_list, Head(backlog)) # <<>>
      BY <2>1, <3>1, AppendType, Zenon
    <3> QED
      BY <3>1, <3>2, Zenon
  <2>3. srvEnd' \in [Clients -> SUBSET (Clients \cup {Server})]
    BY <1>2 DEF Accept
  <2>4. TcpTypeOK'
    BY <1>2, <2>1, <2>3 DEF Accept
  <2>5. ServerTypeOK' /\ ForkHasFd'
    BY <1>2, <2>2 DEF Accept
  <2> QED
    BY <1>1, <2>4, <2>5
<1>3. CASE AcceptFails
  <2>1. backlog' \in Seq(Clients)
    <3>1. backlog # <<>> => Tail(backlog) \in Seq(Clients)
      BY HeadTailProperties
    <3>2. backlog' = backlog \/ (backlog # <<>> /\ backlog' = Tail(backlog))
      BY <1>3 DEF AcceptFails
    <3> QED
      BY <3>1, <3>2
  <2>2. TcpTypeOK'
    BY <1>3, <2>1 DEF AcceptFails
  <2>3. ServerTypeOK' /\ ForkHasFd'
    BY <1>3 DEF AcceptFails
  <2> QED
    BY <1>1, <2>2, <2>3
<1>4. ASSUME ExitServer, UNCHANGED <<errno, failure, handling, fd_list, cause, chunk, j,
                                     inherited, up, down, cliEnd>>
      PROVE  TypeInv'
  <2>1. TcpTypeOK'
    BY <1>4, ExitType DEF ExitServer
  <2>2. child' \in [Clients -> {"none", "read", "write", "zombie", "reaped"}]
    BY <1>4 DEF ExitServer
  <2>3. ServerTypeOK' /\ ForkHasFd'
    BY <1>4, <2>2 DEF ExitServer
  <2> QED
    BY <1>1, <2>1, <2>3
<1>5. CASE CheckErrno
  <2>1. CASE parent' = "accept" /\ UNCHANGED <<sigchld, child, srvEnd, reset, backlog>>
    <3>1. TcpTypeOK'
      BY <1>5, <2>1 DEF CheckErrno
    <3>2. ServerTypeOK' /\ ForkHasFd'
      BY <1>5, <2>1 DEF CheckErrno
    <3> QED
      BY <1>1, <3>1, <3>2
  <2> QED
    BY <1>4, <1>5, <2>1 DEF CheckErrno
<1>6. CASE ForkChild
  <2> DEFINE c == fd_list[Len(fd_list)]
  <2>1. CASE /\ parent' = "accept"
             /\ child' = [child EXCEPT ![c] = "read"]
             /\ inherited' = [inherited EXCEPT ![c] = fd_list]
             /\ srvEnd' = [d \in Clients |-> IF Server \in srvEnd[d]
                                             THEN srvEnd[d] \cup {c} ELSE srvEnd[d]]
             /\ UNCHANGED <<sigchld, reset, backlog>>
    <3>1. c \in Clients
      BY <1>6, ElementOfSeq, EmptySeq DEF ForkChild
    <3> HIDE DEF c
    <3>2. child' \in [Clients -> {"none", "read", "write", "zombie", "reaped"}]
      BY <2>1
    <3>3. srvEnd' \in [Clients -> SUBSET (Clients \cup {Server})]
      BY <2>1, <3>1
    <3>4. inherited' \in [Clients -> Seq(Clients)]
      BY <2>1
    <3>5. UNCHANGED <<errno, failure, handling, fd_list, cause, chunk, j, up, down, cliEnd>>
      BY <1>6 DEF ForkChild
    <3>6. TcpTypeOK'
      BY <2>1, <3>3, <3>5
    <3>7. ServerTypeOK' /\ ForkHasFd'
      BY <2>1, <3>2, <3>4, <3>5
    <3> QED
      BY <1>1, <3>6, <3>7
  <2> QED
    BY <1>4, <1>6, <2>1 DEF ForkChild
<1> QED
  BY <1>2, <1>3, <1>5, <1>6 DEF Parent

LEMMA HandlerTypes ==
  ASSUME TypeInv, Handler, UNCHANGED clientVars
  PROVE  TypeInv'
<1> USE DEF TypeInv, TypeOK, ServerTypeOK, ForkHasFd, childVars, parentVars
<1>1. ClientTypeOK' /\ TcpTypeOK'
  BY DEF ClientTypeOK, clientVars, TcpTypeOK, tcpVars, Handler, DeliverSignal,
     WaitChild, ReturnFromHandler
<1>2. CASE DeliverSignal
  BY <1>1, <1>2 DEF DeliverSignal
<1>3. CASE WaitChild
  <2>1. child' \in [Clients -> {"none", "read", "write", "zombie", "reaped"}]
    BY <1>3 DEF WaitChild
  <2> QED
    BY <1>1, <1>3, <2>1 DEF WaitChild
<1>4. CASE ReturnFromHandler
  BY <1>1, <1>4 DEF ReturnFromHandler
<1> QED
  BY <1>2, <1>3, <1>4 DEF Handler

LEMMA ChildExitTypes ==
  ASSUME TypeInv, NEW c \in Clients, NEW why \in {"eof", "quit", "SIGPIPE"}, NEW unread,
         ExitChild(c, why, unread), up' \in [Clients -> Seq(Msg)],
         chunk' \in [Clients -> Seq(Msg)], UNCHANGED clientVars
  PROVE  TypeInv'
<1> USE DEF TypeInv, TypeOK
<1>1. ClientTypeOK'
  BY DEF ClientTypeOK, clientVars
<1>2. TcpTypeOK'
  BY ExitType DEF ExitChild, TcpTypeOK
<1>3. child' \in [Clients -> {"none", "read", "write", "zombie", "reaped"}]
  BY DEF ExitChild, ServerTypeOK
<1>4. cause' \in [Clients -> {"none", "eof", "quit", "SIGPIPE"}]
  BY DEF ExitChild, ServerTypeOK
<1>5. sigchld' \in BOOLEAN
  BY DEF ExitChild
<1>6. ServerTypeOK' /\ ForkHasFd'
  BY <1>3, <1>4, <1>5 DEF ExitChild, ServerTypeOK, ForkHasFd, parentVars
<1> QED
  BY <1>1, <1>2, <1>6

LEMMA ChildTypes ==
  ASSUME TypeInv, NEW c \in Clients, Child(c), UNCHANGED clientVars
  PROVE  TypeInv'
<1> USE DEF TypeInv, TypeOK
<1>1. ClientTypeOK'
  BY DEF ClientTypeOK, clientVars
<1>2. CASE ChildReads(c)
  <2>1. PICK k \in 1..Len(up[c]) :
          /\ k <= BufUnits
          /\ up' = [up EXCEPT ![c] = Rest(@, k)]
          /\ chunk' = [chunk EXCEPT ![c] = SubSeq(up[c], 1, k)]
          /\ IF up[c][1].text = "quit"
             THEN ExitChild(c, "quit", up')
             ELSE /\ child' = [child EXCEPT ![c] = "write"]
                  /\ j' = [j EXCEPT ![c] = 1]
                  /\ UNCHANGED <<parentVars, sigchld, cause, inherited, down, cliEnd,
                                 srvEnd, reset, backlog>>
    BY <1>2 DEF ChildReads
  <2>2. Rest(up[c], k) \in Seq(Msg) /\ SubSeq(up[c], 1, k) \in Seq(Msg)
    BY RestType DEF TcpTypeOK
  <2>3. up' \in [Clients -> Seq(Msg)] /\ chunk' \in [Clients -> Seq(Msg)]
    BY <2>1, <2>2 DEF TcpTypeOK, ServerTypeOK
  <2>4. CASE ExitChild(c, "quit", up')
    BY <2>3, <2>4, ChildExitTypes
  <2>5. CASE /\ child' = [child EXCEPT ![c] = "write"]
             /\ j' = [j EXCEPT ![c] = 1]
             /\ UNCHANGED <<parentVars, sigchld, cause, inherited, down, cliEnd,
                            srvEnd, reset, backlog>>
    <3>1. TcpTypeOK'
      BY <2>3, <2>5 DEF TcpTypeOK
    <3>2. child' \in [Clients -> {"none", "read", "write", "zombie", "reaped"}]
      BY <2>5 DEF ServerTypeOK
    <3>3. j' \in [Clients -> Nat]
      BY <2>5 DEF ServerTypeOK
    <3>4. ServerTypeOK' /\ ForkHasFd'
      BY <2>3, <2>5, <3>2, <3>3 DEF ServerTypeOK, ForkHasFd, parentVars
    <3> QED
      BY <1>1, <3>1, <3>4
  <2> QED
    BY <2>1, <2>4, <2>5
<1>3. CASE ChildEnds(c)
  BY <1>3, ChildExitTypes DEF ChildEnds, TcpTypeOK, ServerTypeOK
<1>4. CASE ChildWrites(c)
  <2> DEFINE d == Recipients(c)[j[c]]
             junk == [from |-> c, n |-> 0, text |-> "junk"]
  <2>1. UNCHANGED <<chunk, up>>
    BY <1>4 DEF ChildWrites
  <2>2. CASE ExitChild(c, "SIGPIPE", up)
    BY <2>1, <2>2, ChildExitTypes DEF TcpTypeOK, ServerTypeOK
  <2>3. ASSUME NEW ms \in Seq(Msg), WriteDown(d, ms),
               j' = [j EXCEPT ![c] = @ + 1],
               child' = [child EXCEPT ![c] =
                 IF j[c] = Len(Recipients(c)) THEN "read" ELSE "write"],
               UNCHANGED <<parentVars, sigchld, cause, inherited, cliEnd, srvEnd, backlog>>
        PROVE  TypeInv'
    <3> HIDE DEF d
    <3>1. down' \in [Clients -> Seq(Msg)]
      <4>1. d \in Clients => down[d] \o ms \in Seq(Msg)
        BY <2>3 DEF TcpTypeOK
      <4> QED
        BY <2>3, <4>1 DEF WriteDown, TcpTypeOK
    <3>2. reset' \in [Clients -> BOOLEAN]
      BY <2>3 DEF WriteDown, TcpTypeOK
    <3>3. TcpTypeOK'
      BY <2>1, <2>3, <3>1, <3>2 DEF TcpTypeOK
    <3>4. child' \in [Clients -> {"none", "read", "write", "zombie", "reaped"}]
      BY <2>3 DEF ServerTypeOK
    <3>5. j' \in [Clients -> Nat]
      BY <2>3 DEF ServerTypeOK
    <3>6. ServerTypeOK' /\ ForkHasFd'
      BY <2>1, <2>3, <3>4, <3>5 DEF ServerTypeOK, ForkHasFd, parentVars
    <3> QED
      BY <1>1, <3>3, <3>6
  <2>4. chunk[c] \in Seq(Msg) /\ Append(chunk[c], junk) \in Seq(Msg)
    BY AppendProperties DEF ServerTypeOK, Msg
  <2> QED
    BY <1>4, <2>2, <2>3, <2>4 DEF ChildWrites
<1> QED
  BY <1>2, <1>3, <1>4 DEF Child

\* Every step of the clients, the parent, its handler and the children keeps
\* the types.
LEMMA TypeStep == TypeInv /\ [Next]_vars => TypeInv'
<1>1. ASSUME TypeInv, UNCHANGED vars PROVE TypeInv'
  BY <1>1 DEF TypeInv, TypeOK, TcpTypeOK, ClientTypeOK, ServerTypeOK, ForkHasFd,
     vars, tcpVars, clientVars, serverVars
<1>2. ASSUME TypeInv, ServerMoves PROVE TypeInv'
  BY <1>2, ParentTypes, HandlerTypes, ChildTypes DEF ServerMoves, ServerStep
<1>3. ASSUME TypeInv, NEW c \in Clients, ClientMoves(c) PROVE TypeInv'
  BY <1>3, ClientTypes
<1> QED
  BY <1>1, <1>2, <1>3 DEF Next

LEMMA TypeInit == Init => TypeInv
<1> SUFFICES ASSUME Init PROVE TypeInv
  OBVIOUS
<1>1. TcpTypeOK
  BY DEF Init, TcpInit, TcpTypeOK
<1>2. ClientTypeOK
  BY LinesAssumption DEF Init, ClientInit, ClientTypeOK
<1>3. ServerTypeOK /\ ForkHasFd
  <2>1. handling \in BOOLEAN /\ sigchld \in BOOLEAN
    BY DEF Init, ServerInit
  <2>2. j \in [Clients -> Nat] /\ chunk \in [Clients -> Seq(Msg)]
    BY DEF Init, ServerInit
  <2>3. fd_list \in Seq(Clients) /\ inherited \in [Clients -> Seq(Clients)]
    BY DEF Init, ServerInit
  <2> QED
    BY <2>1, <2>2, <2>3 DEF Init, ServerInit, ServerTypeOK, ForkHasFd
<1> QED
  BY <1>1, <1>2, <1>3 DEF TypeInv, TypeOK

\* The state is well typed for every set of clients.
THEOREM TypeCorrect == Spec => []TypeOK
<1>1. TypeInv => TypeOK
  BY DEF TypeInv
<1> QED
  BY <1>1, TypeInit, TypeStep, PTL DEF Spec

-----------------------------------------------------------------------------
(* The handler of SIGCHLD                                                  *)

\* After an interrupted accept there is no child left to send SIGCHLD again,
\* so the handler cannot run between accept's return and the test of errno.
QuietCheck ==
  parent = "check" /\ failure = "EINTR" =>
    /\ errno = "EINTR" /\ ~sigchld /\ ~handling
    /\ \A c \in Clients : child[c] \in {"none", "reaped"}

\* Without a parent, init reaps.
Adopted == parent = "exited" => \A c \in Clients : child[c] # "zombie"

SignalInv == ZombieSignalled /\ QuietCheck /\ Adopted

LEMMA SignalExit ==
  ASSUME TypeInv, SignalInv, NEW c \in Clients, Running(c), NEW why, NEW unread,
         ExitChild(c, why, unread)
  PROVE  SignalInv'
<1> USE DEF TypeInv, TypeOK, ServerTypeOK, SignalInv
<1>1. CASE parent = "exited"
  <2>1. Adopted'
    BY <1>1 DEF ExitChild, parentVars, Adopted
  <2>2. parent' = "exited"
    BY <1>1 DEF ExitChild, parentVars
  <2> QED
    BY <2>1, <2>2 DEF Adopted, ZombieSignalled, QuietCheck
<1>2. CASE parent # "exited"
  <2>1. parent' # "exited" /\ sigchld'
    BY <1>2 DEF ExitChild, parentVars
  <2>2. ~(parent = "check" /\ failure = "EINTR")
    BY DEF QuietCheck, Running
  <2> QED
    BY <2>1, <2>2 DEF ExitChild, parentVars, ZombieSignalled, QuietCheck, Adopted
<1> QED
  BY <1>1, <1>2

LEMMA SignalChild ==
  ASSUME TypeInv, SignalInv, NEW c \in Clients, Child(c)
  PROVE  SignalInv'
<1>1. Running(c)
  BY DEF Child, ChildReads, ChildEnds, ChildWrites, Running
<1>2. ASSUME NEW why, NEW unread, ExitChild(c, why, unread) PROVE SignalInv'
  BY <1>1, <1>2, SignalExit
<1>3. ASSUME UNCHANGED <<parentVars, sigchld>>, NEW pc \in {"read", "write"},
             child' = [child EXCEPT ![c] = pc]
      PROVE  SignalInv'
  BY <1>1, <1>3 DEF SignalInv, ZombieSignalled, QuietCheck, Adopted, parentVars,
     Running, TypeInv, TypeOK, ServerTypeOK
<1> QED
  BY <1>2, <1>3 DEF Child, ChildReads, ChildEnds, ChildWrites

LEMMA SignalParent ==
  ASSUME TypeInv, SignalInv, Parent \/ Handler
  PROVE  SignalInv'
<1> USE DEF TypeInv, TypeOK, ServerTypeOK, SignalInv, ZombieSignalled, QuietCheck, Adopted
<1>1. ASSUME ExitServer, UNCHANGED <<failure, handling>> PROVE SignalInv'
  BY <1>1 DEF ExitServer
<1>2. CASE Accept
  BY <1>2 DEF Accept, childVars
<1>3. CASE AcceptFails
  BY <1>3 DEF AcceptFails, childVars
<1>4. CASE CheckErrno
  BY <1>1, <1>4 DEF CheckErrno
<1>5. CASE ForkChild
  <2>1. CASE /\ parent' = "accept"
             /\ child' = [child EXCEPT ![fd_list[Len(fd_list)]] = "read"]
             /\ UNCHANGED <<sigchld, handling>>
    BY <2>1
  <2> QED
    BY <1>1, <1>5, <2>1 DEF ForkChild
<1>6. CASE DeliverSignal
  BY <1>6 DEF DeliverSignal, childVars
<1>7. CASE WaitChild
  BY <1>7 DEF WaitChild, parentVars
<1>8. CASE ReturnFromHandler
  BY <1>8 DEF ReturnFromHandler, childVars
<1> QED
  BY <1>2, <1>3, <1>4, <1>5, <1>6, <1>7, <1>8 DEF Parent, Handler

LEMMA SignalStep == TypeInv /\ SignalInv /\ [Next]_vars => SignalInv'
<1>1. ASSUME SignalInv, UNCHANGED serverVars PROVE SignalInv'
  BY <1>1 DEF SignalInv, ZombieSignalled, QuietCheck, Adopted, serverVars
<1>2. UNCHANGED vars => UNCHANGED serverVars
  BY DEF vars
<1>3. ASSUME NEW c \in Clients, ClientMoves(c) PROVE UNCHANGED serverVars
  BY <1>3 DEF ClientMoves
<1>4. ASSUME TypeInv, SignalInv, ServerMoves PROVE SignalInv'
  BY <1>4, SignalChild, SignalParent DEF ServerMoves, ServerStep
<1> QED
  BY <1>1, <1>2, <1>3, <1>4 DEF Next

THEOREM SignalInvariance == Spec => []SignalInv
<1>1. Init => SignalInv
  BY DEF Init, ServerInit, SignalInv, ZombieSignalled, QuietCheck, Adopted
<1> QED
  BY <1>1, TypeInit, TypeStep, SignalStep, PTL DEF Spec

\* However many children end at once, while the handler runs or not, no
\* zombie is forgotten (lines 16-21).
THEOREM ZombieSignalledAlways == Spec => []ZombieSignalled
<1>1. SignalInv => ZombieSignalled
  BY DEF SignalInv
<1> QED
  BY <1>1, SignalInvariance, PTL

\* A child's end never makes the server take EINTR for another error (116).
THEOREM EintrSurvivesAlways == Spec => []EintrSurvives
<1>1. SignalInv => EintrSurvives
  BY DEF SignalInv, QuietCheck, EintrSurvives
<1> QED
  BY <1>1, SignalInvariance, PTL

-----------------------------------------------------------------------------
(* Who holds which end of a connection                                     *)

In(s, c) == \E k \in DOMAIN s : s[k] = c
Distinct(s) == \A k, m \in DOMAIN s : k # m => s[k] # s[m]

\* Before a client connects there is no trace of it.
NotYet == \A c \in Clients : writer[c] = "connect" =>
  /\ cliEnd[c] = {} /\ srvEnd[c] = {} /\ ~reset[c] /\ reader[c] = "none"
  /\ child[c] = "none" /\ ~In(backlog, c) /\ ~In(fd_list, c)
  /\ \A d \in Clients : ~In(inherited[d], c)

\* The processes of a client that run hold its socket.
Holding == \A c \in Clients :
  /\ writer[c] \in {"fork", "type"} => "writer" \in cliEnd[c]
  /\ reader[c] = "read" => "reader" \in cliEnd[c]

\* What waits to be accepted waits once, and nobody serves it yet.
Waiting ==
  /\ Distinct(backlog)
  /\ \A c \in Clients : In(backlog, c) => srvEnd[c] = {} /\ child[c] = "none"

\* The connection accepted last has no child before the fork.
Newest == parent = "fork" => child[fd_list[Len(fd_list)]] = "none"

\* While the parent listens it keeps all it accepted, each connection once.
Kept ==
  /\ Distinct(fd_list)
  /\ Listening => \A c \in Clients :
       /\ srvEnd[c] # {} \/ In(fd_list, c) => Server \in srvEnd[c]
       /\ writer[c] \in {"fork", "type"} \/ reader[c] = "read" => ServerOpen(c)

\* A child holds what it inherited, its own connection among it.
Shared == \A c \in Clients :
  /\ Distinct(inherited[c])
  /\ Running(c) =>
       /\ In(inherited[c], c)
       /\ \A d \in Clients : In(inherited[c], d) => c \in srvEnd[d]

\* A child that writes has a recipient; one that has not ended has no cause.
Writing == \A c \in Clients :
  /\ child[c] = "write" => j[c] \in 1..Len(Recipients(c))
  /\ child[c] \in {"none", "read", "write"} => cause[c] = "none"

\* A reset reaches a connection the server holds only after its client left.
Resets == \A c \in Clients : reset[c] /\ ServerOpen(c) => ~ClientOpen(c)

HeldInv == /\ NotYet /\ Holding /\ Waiting /\ Newest /\ Kept /\ Shared
           /\ Writing /\ Resets /\ EndsWithCause

\* Taking the head of a list of different clients, and adding to one.
LEMMA TailIn ==
  ASSUME NEW s \in Seq(Clients), s # <<>>, Distinct(s)
  PROVE  /\ Head(s) \in Clients /\ Tail(s) \in Seq(Clients) /\ In(s, Head(s))
         /\ Distinct(Tail(s))
         /\ \A c \in Clients : In(Tail(s), c) <=> In(s, c) /\ c # Head(s)
<1>1. /\ Len(s) \in Nat \ {0} /\ DOMAIN s = 1..Len(s) /\ Head(s) = s[1]
      /\ Head(s) \in Clients /\ Tail(s) \in Seq(Clients)
  BY EmptySeq, LenProperties, HeadTailProperties, ElementOfSeq
<1>2. /\ DOMAIN Tail(s) = 1..Len(s) - 1
      /\ \A k \in 1..Len(s) - 1 : Tail(s)[k] = s[k + 1]
  BY <1>1, HeadTailProperties, LenProperties
<1>3. In(s, Head(s))
  BY <1>1 DEF In
<1>4. Distinct(Tail(s))
  <2> SUFFICES ASSUME NEW k \in 1..Len(s) - 1, NEW m \in 1..Len(s) - 1, k # m
               PROVE  Tail(s)[k] # Tail(s)[m]
    BY <1>2 DEF Distinct
  <2>1. k + 1 \in DOMAIN s /\ m + 1 \in DOMAIN s /\ k + 1 # m + 1
    BY <1>1
  <2> QED
    BY <1>2, <2>1 DEF Distinct
<1>5. ASSUME NEW c \in Clients, In(Tail(s), c) PROVE In(s, c) /\ c # Head(s)
  <2>1. PICK k \in 1..Len(s) - 1 : s[k + 1] = c
    BY <1>2, <1>5 DEF In
  <2>2. k + 1 \in DOMAIN s /\ 1 \in DOMAIN s /\ k + 1 # 1
    BY <1>1
  <2> QED
    BY <1>1, <2>1, <2>2 DEF In, Distinct
<1>6. ASSUME NEW c \in Clients, In(s, c), c # Head(s) PROVE In(Tail(s), c)
  <2>1. PICK k \in 1..Len(s) : s[k] = c
    BY <1>1, <1>6 DEF In
  <2>2. k - 1 \in 1..Len(s) - 1 /\ (k - 1) + 1 = k
    BY <1>1, <1>6, <2>1
  <2>3. Tail(s)[k - 1] = c
    BY <1>2, <2>1, <2>2
  <2> QED
    BY <1>2, <2>2, <2>3 DEF In
<1> QED
  BY <1>1, <1>3, <1>4, <1>5, <1>6

LEMMA AppendIn ==
  ASSUME NEW s \in Seq(Clients), NEW e \in Clients
  PROVE  /\ Append(s, e)[Len(Append(s, e))] = e
         /\ Distinct(s) /\ ~In(s, e) => Distinct(Append(s, e))
         /\ \A c \in Clients : In(Append(s, e), c) <=> In(s, c) \/ c = e
<1> DEFINE t == Append(s, e)
<1>1. /\ Len(s) \in Nat /\ DOMAIN s = 1..Len(s)
      /\ Len(t) = Len(s) + 1 /\ DOMAIN t = 1..Len(s) + 1
      /\ \A k \in 1..Len(s) : t[k] = s[k]
      /\ t[Len(s) + 1] = e
  BY LenProperties, AppendProperties
<1> HIDE DEF t
<1>2. t[Len(t)] = e
  BY <1>1
<1>3. ASSUME Distinct(s), ~In(s, e) PROVE Distinct(t)
  <2> SUFFICES ASSUME NEW k \in 1..Len(s) + 1, NEW m \in 1..Len(s) + 1, k # m
               PROVE  t[k] # t[m]
    BY <1>1 DEF Distinct
  <2>1. CASE k \in 1..Len(s) /\ m \in 1..Len(s)
    BY <1>1, <1>3, <2>1 DEF Distinct
  <2>2. CASE k = Len(s) + 1 /\ m \in 1..Len(s)
    BY <1>1, <1>3, <2>2 DEF In
  <2>3. CASE m = Len(s) + 1 /\ k \in 1..Len(s)
    BY <1>1, <1>3, <2>3 DEF In
  <2> QED
    BY <1>1, <2>1, <2>2, <2>3
<1>4. ASSUME NEW c \in Clients PROVE In(t, c) <=> In(s, c) \/ c = e
  <2>1. ASSUME In(t, c) PROVE In(s, c) \/ c = e
    <3>1. PICK k \in 1..Len(s) + 1 : t[k] = c
      BY <1>1, <2>1 DEF In
    <3> QED
      BY <1>1, <3>1 DEF In
  <2>2. ASSUME In(s, c) PROVE In(t, c)
    <3>1. PICK k \in 1..Len(s) : s[k] = c
      BY <1>1, <2>2 DEF In
    <3>2. k \in DOMAIN t /\ t[k] = c
      BY <1>1, <3>1
    <3> QED
      BY <3>2 DEF In
  <2>3. ASSUME c = e PROVE In(t, c)
    <3>1. Len(s) + 1 \in DOMAIN t
      BY <1>1
    <3> QED
      BY <1>1, <2>3, <3>1 DEF In
  <2> QED
    BY <2>1, <2>2, <2>3
<1> QED
  BY <1>2, <1>3, <1>4 DEF t

\* The newest connection is in the list.
LEMMA NewestIn ==
  ASSUME TypeInv, parent = "fork"
  PROVE  fd_list[Len(fd_list)] \in Clients /\ In(fd_list, fd_list[Len(fd_list)])
<1>1. fd_list \in Seq(Clients) /\ fd_list # <<>>
  BY DEF TypeInv, TypeOK, ServerTypeOK, ForkHasFd
<1>2. Len(fd_list) \in DOMAIN fd_list
  BY <1>1, EmptySeq, LenProperties
<1> QED
  BY <1>1, <1>2, ElementOfSeq, LenProperties DEF In

\* A recipient is a connected client whose connection the child holds.
LEMMA Recipient ==
  ASSUME TypeInv, HeldInv, NEW c \in Clients, child[c] = "write"
  PROVE  LET d == Recipients(c)[j[c]] IN
         /\ d \in Clients /\ writer[d] # "connect" /\ c \in srvEnd[d]
         /\ In(inherited[c], d) /\ (d = c \/ Broadcast)
<1> USE DEF HeldInv, TypeInv, TypeOK
<1>1. j[c] \in 1..Len(Recipients(c)) /\ In(inherited[c], c) /\ inherited[c] \in Seq(Clients)
  BY DEF Writing, Shared, Running, ServerTypeOK
<1>2. CASE Broadcast
  <2>1. inherited[c][j[c]] \in Clients /\ In(inherited[c], inherited[c][j[c]])
    BY <1>1, <1>2, ElementOfSeq, LenProperties DEF Recipients, In
  <2> QED
    BY <1>2, <2>1 DEF Recipients, Shared, Running, NotYet
<1>3. CASE ~Broadcast
  <2>1. Recipients(c)[j[c]] = c
    BY <1>1, <1>3 DEF Recipients
  <2> QED
    BY <1>1, <2>1 DEF Shared, Running, NotYet
<1> QED
  BY <1>2, <1>3

-----------------------------------------------------------------------------
(* Steps of the clients                                                    *)

LEMMA HeldConnect ==
  ASSUME TypeInv, HeldInv, NEW c \in Clients, Connect(c, Listening), UNCHANGED serverVars
  PROVE  HeldInv'
<1> USE DEF TypeInv, TypeOK, HeldInv
<1>1. /\ UNCHANGED <<reader, srvEnd, reset, parent, fd_list, child, cause, inherited, j>>
      /\ writer[c] = "connect" /\ backlog \in Seq(Clients)
      /\ \A d \in Clients : d # c => writer'[d] = writer[d] /\ cliEnd'[d] = cliEnd[d]
      /\ \/ /\ Listening /\ writer'[c] = "fork" /\ cliEnd'[c] = {"writer"}
            /\ backlog' = Append(backlog, c)
         \/ ~Listening /\ writer'[c] = "exited" /\ UNCHANGED <<cliEnd, backlog>>
  BY DEF Connect, serverVars, TcpTypeOK, ClientTypeOK
<1>2. /\ cliEnd[c] = {} /\ srvEnd[c] = {} /\ ~reset[c] /\ reader[c] = "none"
      /\ child[c] = "none" /\ ~In(backlog, c) /\ ~In(fd_list, c)
      /\ \A d \in Clients : ~In(inherited[d], c)
  BY <1>1 DEF NotYet
<1>3. /\ Distinct(backlog')
      /\ \A d \in Clients : In(backlog', d) => In(backlog, d) \/ d = c
      /\ \A d \in Clients : In(backlog, d) => In(backlog', d)
      /\ Listening => In(backlog', c)
  <2>1. /\ Distinct(Append(backlog, c))
        /\ \A d \in Clients : In(Append(backlog, c), d) <=> In(backlog, d) \/ d = c
    BY <1>1, <1>2, AppendIn DEF Waiting
  <2>2. CASE Listening /\ backlog' = Append(backlog, c)
    BY <2>1, <2>2, Zenon
  <2>3. CASE ~Listening /\ backlog' = backlog
    BY <2>3, Zenon DEF Waiting
  <2> QED
    BY <1>1, <2>2, <2>3
<1>4. \A d \in Clients : Queued(d)' <=> In(backlog', d)
  BY DEF Queued, In
<1>5. \A d \in Clients : Queued(d) <=> In(backlog, d)
  BY DEF Queued, In
<1>6. NotYet'
  BY <1>1, <1>3 DEF NotYet
<1>7. Holding'
  BY <1>1, <1>2 DEF Holding
<1>8. Waiting' /\ Newest'
  BY <1>1, <1>2, <1>3 DEF Waiting, Newest
<1>9. Kept' /\ Shared'
  <2>1. Shared'
    BY <1>1 DEF Shared, Running
  <2>2. Listening' = Listening
    BY <1>1 DEF Listening
  <2>3. ASSUME Listening, NEW d \in Clients,
               writer'[d] \in {"fork", "type"} \/ reader'[d] = "read"
        PROVE  ServerOpen(d)'
    BY <1>1, <1>3, <1>4, <1>5, <2>3 DEF Kept, ServerOpen
  <2>4. Kept'
    BY <1>1, <2>2, <2>3 DEF Kept
  <2> QED
    BY <2>1, <2>4
<1>10. Writing'
  BY <1>1 DEF Writing, Recipients
<1>11. Resets'
  BY <1>1, <1>2, <1>3, <1>4, <1>5 DEF Resets, ServerOpen, ClientOpen
<1>12. EndsWithCause'
  <2>1. \A d \in Clients : d # c => ClientOpen(d)' = ClientOpen(d)
    BY <1>1 DEF ClientOpen
  <2>2. cause[c] = "none"
    BY <1>2 DEF Writing
  <2>3. ASSUME NEW d \in Clients, cause[d] = "eof" PROVE ~ClientOpen(d)'
    BY <2>1, <2>2, <2>3 DEF EndsWithCause
  <2>4. ASSUME NEW d \in Clients, cause[d] = "SIGPIPE"
        PROVE  \E k \in DOMAIN inherited[d] :
                 (inherited[d][k] = d \/ Broadcast) /\ ~ClientOpen(inherited[d][k])'
    <3>1. PICK k \in DOMAIN inherited[d] :
            (inherited[d][k] = d \/ Broadcast) /\ ~ClientOpen(inherited[d][k])
      BY <2>4 DEF EndsWithCause
    <3>2. inherited[d][k] \in Clients /\ inherited[d][k] # c
      BY <1>2, ElementOfSeq, LenProperties DEF In, ServerTypeOK
    <3> QED
      BY <1>1, <2>1, <3>1, <3>2
  <2> QED
    BY <1>1, <2>3, <2>4 DEF EndsWithCause, ClientOpen
<1> QED
  BY <1>6, <1>7, <1>8, <1>9, <1>10, <1>11, <1>12

\* What the other steps of client c may do: its socket is never reopened, and
\* a reset meets a connection whose other end is held by nobody.
Narrows(c) ==
  /\ UNCHANGED <<srvEnd, backlog, parent, fd_list, child, cause, inherited, j>>
  /\ \A d \in Clients : d # c =>
       /\ writer'[d] = writer[d] /\ reader'[d] = reader[d]
       /\ cliEnd'[d] = cliEnd[d] /\ reset'[d] = reset[d]
  /\ writer[c] # "connect" /\ writer'[c] # "connect"
  /\ writer'[c] \in {"fork", "type"} =>
       writer[c] \in {"fork", "type"} /\ "writer" \in cliEnd'[c]
  /\ reader'[c] = "read" => "reader" \in cliEnd'[c]
  /\ ClientOpen(c)' => ClientOpen(c)
  /\ reset'[c] => reset[c] \/ ~ServerOpen(c) \/ ~ClientOpen(c)'
  /\ reader'[c] = "read" => reader[c] = "read" \/ writer[c] \in {"fork", "type"}

LEMMA ClientNarrows ==
  ASSUME TypeInv, HeldInv, NEW c \in Clients, ClientMoves(c), ~Connect(c, Listening)
  PROVE  Narrows(c)
<1> USE DEF TypeInv, TypeOK, HeldInv, TcpTypeOK, ClientTypeOK
<1>1. UNCHANGED <<parent, fd_list, child, cause, inherited, j>>
  BY DEF ClientMoves, serverVars
<1>2. reader[c] # "none" => writer[c] # "connect"
  BY DEF NotYet
<1>3. CASE ForkReader(c)
  <2>1. /\ UNCHANGED <<srvEnd, backlog>> /\ writer[c] = "fork" /\ "writer" \in cliEnd[c]
    BY <1>3 DEF ForkReader, Holding
  <2>2. CASE /\ writer' = [writer EXCEPT ![c] = "type"]
             /\ reader' = [reader EXCEPT ![c] = "read"]
             /\ cliEnd' = [cliEnd EXCEPT ![c] = {"writer", "reader"}]
             /\ UNCHANGED reset
    BY <1>1, <2>1, <2>2 DEF Narrows, ClientOpen
  <2>3. CASE /\ writer' = [writer EXCEPT ![c] = "exited"]
             /\ CloseClient(c, {"writer"})
             /\ UNCHANGED reader
    BY <1>1, <2>1, <2>3 DEF Narrows, ClientOpen, CloseClient, Holding
  <2> QED
    BY <1>3, <2>2, <2>3 DEF ForkReader
<1>4. ASSUME NEW text \in {"line", "quit"}, TypeLine(c, text) PROVE Narrows(c)
  <2>1. /\ UNCHANGED <<srvEnd, backlog, reader>> /\ writer[c] = "type" /\ "writer" \in cliEnd[c]
    BY <1>4 DEF TypeLine, Holding
  <2>2. CASE UNCHANGED <<writer, cliEnd>>
              /\ \E ms : WriteUp(c, ms)
    BY <1>1, <2>1, <2>2 DEF Narrows, ClientOpen, WriteUp, Holding
  <2>3. CASE /\ writer' = [writer EXCEPT ![c] = "exited"]
             /\ CloseClient(c, {"writer"})
    BY <1>1, <2>1, <2>3 DEF Narrows, ClientOpen, CloseClient, Holding
  <2> QED
    BY <1>4, <2>2, <2>3 DEF TypeLine
<1>5. CASE LeaveWriter(c)
  BY <1>1, <1>5 DEF LeaveWriter, Narrows, ClientOpen, CloseClient, Holding
<1>6. CASE Interrupt(c)
  BY <1>1, <1>6 DEF Interrupt, Narrows, ClientOpen, CloseClient, Holding
<1>7. CASE ReaderReads(c)
  BY <1>1, <1>2, <1>7 DEF ReaderReads, Narrows, ClientOpen, Holding
<1>8. CASE ReaderEnds(c)
  <2>1. /\ UNCHANGED <<srvEnd, backlog, writer>> /\ reader[c] = "read"
        /\ reader' = [reader EXCEPT ![c] = "exited"]
        /\ CloseClient(c, {"reader"})
    BY <1>8 DEF ReaderEnds
  <2> QED
    BY <1>1, <1>2, <2>1 DEF Narrows, ClientOpen, CloseClient, Holding
<1> QED
  BY <1>3, <1>4, <1>5, <1>6, <1>7, <1>8 DEF ClientMoves, ClientStep

LEMMA HeldNarrows ==
  ASSUME TypeInv, HeldInv, NEW c \in Clients, Narrows(c)
  PROVE  HeldInv'
<1> USE DEF TypeInv, TypeOK, HeldInv, Narrows
<1>1. NotYet'
  BY DEF NotYet
<1>2. Holding'
  BY DEF Holding
<1>3. Waiting' /\ Newest'
  BY DEF Waiting, Newest
<1>4. \A d \in Clients : ServerOpen(d)' = ServerOpen(d)
  BY DEF ServerOpen, Queued
<1>5. Kept'
  BY <1>4 DEF Kept, Listening
<1>6. Shared' /\ Writing'
  BY DEF Shared, Writing, Running, Recipients
<1>7. Resets'
  BY <1>4 DEF Resets, ClientOpen
<1>8. \A d \in Clients : ClientOpen(d)' => ClientOpen(d)
  BY DEF ClientOpen
<1>9. EndsWithCause'
  <2>1. ASSUME NEW d \in Clients, cause[d] = "SIGPIPE"
        PROVE  \E k \in DOMAIN inherited[d] :
                 (inherited[d][k] = d \/ Broadcast) /\ ~ClientOpen(inherited[d][k])'
    <3>1. PICK k \in DOMAIN inherited[d] :
            (inherited[d][k] = d \/ Broadcast) /\ ~ClientOpen(inherited[d][k])
      BY <2>1 DEF EndsWithCause
    <3>2. inherited[d][k] \in Clients
      BY ElementOfSeq, LenProperties DEF ServerTypeOK
    <3> QED
      BY <1>8, <3>1, <3>2
  <2>2. ASSUME NEW d \in Clients, cause[d] = "eof" PROVE ~ClientOpen(d)'
    BY <1>8, <2>2 DEF EndsWithCause
  <2> QED
    BY <2>1, <2>2 DEF EndsWithCause, ClientOpen
<1> QED
  BY <1>1, <1>2, <1>3, <1>5, <1>6, <1>7, <1>9

-----------------------------------------------------------------------------
(* Steps of the server                                                     *)

\* Who is gone stays gone: the causes of the sessions that ended stand.
LEMMA CausesStay ==
  ASSUME TypeInv, EndsWithCause, UNCHANGED <<cause, cliEnd>>,
         \A c \in Clients : cause[c] = "SIGPIPE" => inherited'[c] = inherited[c]
  PROVE  EndsWithCause'
BY DEF EndsWithCause, ClientOpen

LEMMA HeldAccept ==
  ASSUME TypeInv, HeldInv, Accept, UNCHANGED clientVars
  PROVE  HeldInv'
<1> USE DEF TypeInv, TypeOK, HeldInv
<1> DEFINE h == Head(backlog)
<1>1. /\ UNCHANGED <<writer, reader, cliEnd, reset, child, cause, inherited, j>>
      /\ parent = "accept" /\ parent' = "fork" /\ backlog # <<>>
      /\ backlog \in Seq(Clients) /\ fd_list \in Seq(Clients)
      /\ backlog' = Tail(backlog) /\ fd_list' = Append(fd_list, h)
      /\ srvEnd' = [srvEnd EXCEPT ![h] = {Server}]
  BY DEF Accept, childVars, clientVars, TcpTypeOK, ServerTypeOK
<1>2. /\ h \in Clients /\ In(backlog, h) /\ Distinct(Tail(backlog))
      /\ \A c \in Clients : In(Tail(backlog), c) <=> In(backlog, c) /\ c # h
  BY <1>1, TailIn DEF Waiting
<1>3. /\ srvEnd[h] = {} /\ child[h] = "none" /\ writer[h] # "connect"
      /\ ~In(fd_list, h) /\ Listening /\ Listening'
  BY <1>1, <1>2 DEF Waiting, NotYet, Kept, Listening
<1>4. /\ fd_list'[Len(fd_list')] = h /\ Distinct(fd_list')
      /\ \A c \in Clients : In(fd_list', c) <=> In(fd_list, c) \/ c = h
  <2>1. /\ Append(fd_list, h)[Len(Append(fd_list, h))] = h
        /\ Distinct(Append(fd_list, h))
        /\ \A c \in Clients : In(Append(fd_list, h), c) <=> In(fd_list, c) \/ c = h
    BY <1>1, <1>2, <1>3, AppendIn DEF Kept
  <2> QED
    BY <1>1, <2>1, Zenon
<1>5. /\ Distinct(backlog')
      /\ \A c \in Clients : In(backlog', c) <=> In(backlog, c) /\ c # h
  BY <1>1, <1>2, Zenon
<1>6. /\ srvEnd'[h] = {Server}
      /\ \A c \in Clients : c # h => srvEnd'[c] = srvEnd[c]
  BY <1>1, <1>2 DEF TcpTypeOK
<1> HIDE DEF h
<1>7. \A c \in Clients : (Queued(c) <=> In(backlog, c)) /\ (Queued(c)' <=> In(backlog', c))
  BY DEF Queued, In
<1>8. \A c \in Clients : ServerOpen(c)' = ServerOpen(c)
  BY <1>2, <1>3, <1>5, <1>6, <1>7 DEF ServerOpen
<1>9. NotYet' /\ Holding'
  BY <1>1, <1>3, <1>4, <1>5, <1>6 DEF NotYet, Holding
<1>10. Waiting' /\ Newest'
  BY <1>1, <1>3, <1>4, <1>5, <1>6 DEF Waiting, Newest
<1>11. Kept'
  BY <1>1, <1>2, <1>3, <1>4, <1>6, <1>8 DEF Kept
<1>12. Shared' /\ Writing'
  BY <1>1, <1>2, <1>3, <1>6 DEF Shared, Writing, Running, Recipients
<1>13. Resets'
  BY <1>1, <1>8 DEF Resets, ClientOpen
<1>14. EndsWithCause'
  BY <1>1, <1>3, CausesStay
<1> QED
  BY <1>9, <1>10, <1>11, <1>12, <1>13, <1>14

LEMMA HeldAcceptFails ==
  ASSUME TypeInv, HeldInv, AcceptFails, UNCHANGED clientVars
  PROVE  HeldInv'
<1> USE DEF TypeInv, TypeOK, HeldInv
<1>1. /\ UNCHANGED <<writer, reader, cliEnd, srvEnd, reset, fd_list, child, cause, inherited, j>>
      /\ parent = "accept" /\ parent' = "check" /\ backlog \in Seq(Clients)
      /\ \/ backlog # <<>> /\ ~ClientOpen(Head(backlog)) /\ backlog' = Tail(backlog)
         \/ backlog' = backlog
  BY DEF AcceptFails, childVars, clientVars, TcpTypeOK
<1>2. \A c \in Clients : (Queued(c) <=> In(backlog, c)) /\ (Queued(c)' <=> In(backlog', c))
  BY DEF Queued, In
<1>3. /\ Distinct(backlog')
      /\ \A c \in Clients : In(backlog', c) => In(backlog, c)
      /\ \A c \in Clients : In(backlog, c) /\ ClientOpen(c) => In(backlog', c)
  <2>1. CASE backlog # <<>> /\ ~ClientOpen(Head(backlog)) /\ backlog' = Tail(backlog)
    <3>1. /\ Distinct(Tail(backlog))
          /\ \A c \in Clients : In(Tail(backlog), c) <=> In(backlog, c) /\ c # Head(backlog)
      BY <1>1, <2>1, TailIn DEF Waiting
    <3> QED
      BY <2>1, <3>1, Zenon
  <2>2. CASE backlog' = backlog
    BY <2>2, Zenon DEF Waiting
  <2> QED
    BY <1>1, <2>1, <2>2
<1>4. \A c \in Clients : ServerOpen(c)' => ServerOpen(c)
  BY <1>1, <1>2, <1>3 DEF ServerOpen
<1>5. NotYet' /\ Holding' /\ Waiting' /\ Newest' /\ Shared' /\ Writing'
  BY <1>1, <1>3 DEF NotYet, Holding, Waiting, Newest, Shared, Writing, Running, Recipients
<1>6. ASSUME NEW c \in Clients, writer[c] \in {"fork", "type"} \/ reader[c] = "read"
      PROVE  ServerOpen(c)'
  <2>1. ClientOpen(c) /\ ServerOpen(c)
    BY <1>1, <1>6 DEF Holding, ClientOpen, Kept, Listening
  <2> QED
    BY <1>1, <1>2, <1>3, <2>1 DEF ServerOpen
<1>7. Kept'
  BY <1>1, <1>6 DEF Kept, Listening
<1>8. Resets'
  BY <1>1, <1>4 DEF Resets, ClientOpen
<1>9. EndsWithCause'
  BY <1>1, CausesStay
<1> QED
  BY <1>5, <1>7, <1>8, <1>9

\* The parent returns from main.
LEMMA HeldExit ==
  ASSUME TypeInv, HeldInv, ExitServer,
         UNCHANGED <<clientVars, cliEnd, fd_list, cause, inherited, j>>
  PROVE  HeldInv'
<1> USE DEF TypeInv, TypeOK, HeldInv
<1>1. /\ UNCHANGED <<writer, reader>> /\ parent' = "exited" /\ backlog' = <<>>
      /\ \A c \in Clients : srvEnd'[c] = srvEnd[c] \ {Server}
      /\ \A c \in Clients : reset'[c] = \/ reset[c]
                                        \/ srvEnd[c] = {Server} /\ up[c] # <<>>
                                        \/ Queued(c)
      /\ \A c \in Clients : child'[c] = IF child[c] = "zombie" THEN "reaped" ELSE child[c]
  BY DEF ExitServer, ServerExits, clientVars
<1>2. /\ \A c \in Clients : (Queued(c) <=> In(backlog, c)) /\ ~Queued(c)' /\ ~In(backlog', c)
      /\ Distinct(backlog')
  <2>1. DOMAIN backlog' = {}
    BY <1>1
  <2> QED
    BY <2>1 DEF Queued, In, Distinct
<1>3. NotYet' /\ Holding'
  BY <1>1, <1>2 DEF NotYet, Holding
<1>4. Waiting' /\ Newest' /\ Kept'
  BY <1>1, <1>2 DEF Waiting, Newest, Kept, Listening
<1>5. Shared' /\ Writing'
  <2>1. \A c \in Clients : Running(c)' => Running(c)
    BY <1>1 DEF Running
  <2>2. Shared'
    BY <1>1, <2>1, TcpAssumption DEF Shared
  <2>3. Writing'
    BY <1>1 DEF Writing, Recipients
  <2> QED
    BY <2>2, <2>3
<1>6. Resets'
  <2> SUFFICES ASSUME NEW c \in Clients, reset'[c], ServerOpen(c)' PROVE ~ClientOpen(c)'
    BY DEF Resets
  <2>1. srvEnd[c] \ {Server} # {}
    BY <1>1, <1>2 DEF ServerOpen
  <2>2. reset[c] /\ ServerOpen(c)
    BY <1>1, <1>2, <2>1 DEF Waiting, ServerOpen
  <2> QED
    BY <2>2 DEF Resets, ClientOpen
<1>7. EndsWithCause'
  BY <1>1, CausesStay
<1> QED
  BY <1>3, <1>4, <1>5, <1>6, <1>7

\* The child takes the list and holds what is in it.
LEMMA HeldFork ==
  ASSUME TypeInv, HeldInv, NEW c \in Clients, c = fd_list[Len(fd_list)],
         parent = "fork", parent' = "accept",
         child' = [child EXCEPT ![c] = "read"],
         inherited' = [inherited EXCEPT ![c] = fd_list],
         srvEnd' = [d \in Clients |-> IF Server \in srvEnd[d]
                                      THEN srvEnd[d] \cup {c} ELSE srvEnd[d]],
         UNCHANGED <<clientVars, cliEnd, reset, backlog, fd_list, cause, j>>
  PROVE  HeldInv'
<1> USE DEF TypeInv, TypeOK, HeldInv
<1>1. /\ UNCHANGED <<writer, reader>> /\ Listening /\ Listening'
      /\ child[c] = "none" /\ cause[c] = "none" /\ In(fd_list, c)
      /\ Server \in srvEnd[c] /\ writer[c] # "connect"
  BY NewestIn DEF clientVars, Listening, Newest, Writing, Kept, NotYet
<1>2. /\ child'[c] = "read" /\ inherited'[c] = fd_list
      /\ \A d \in Clients : d # c => child'[d] = child[d] /\ inherited'[d] = inherited[d]
      /\ \A d \in Clients : srvEnd'[d] = IF Server \in srvEnd[d] THEN srvEnd[d] \cup {c}
                                         ELSE srvEnd[d]
  BY DEF ServerTypeOK
<1>3. \A d \in Clients : Queued(d)' = Queued(d) /\ (Queued(d) <=> In(backlog, d))
  BY DEF Queued, In
<1>4. \A d \in Clients : ServerOpen(d)' <=> ServerOpen(d)
  BY <1>2, <1>3 DEF ServerOpen
<1>5. ~In(backlog, c)
  BY <1>1 DEF Waiting
<1>6. NotYet' /\ Holding'
  BY <1>1, <1>2 DEF NotYet, Holding
<1>7. Waiting' /\ Newest'
  BY <1>1, <1>2, <1>5 DEF Waiting, Newest
<1>8. Kept'
  BY <1>1, <1>2, <1>4 DEF Kept
<1>9. Shared'
  <2>1. \A d \in Clients : In(fd_list, d) => c \in srvEnd'[d]
    BY <1>1, <1>2 DEF Kept
  <2>2. Distinct(fd_list)
    BY DEF Kept
  <2>3. ASSUME NEW d \in Clients, d # c
        PROVE  /\ Distinct(inherited'[d])
               /\ Running(d)' =>
                    /\ In(inherited'[d], d)
                    /\ \A e \in Clients : In(inherited'[d], e) => d \in srvEnd'[e]
    BY <1>2, <2>3 DEF Shared, Running
  <2>4. /\ Distinct(inherited'[c]) /\ In(inherited'[c], c)
        /\ \A e \in Clients : In(inherited'[c], e) => c \in srvEnd'[e]
    BY <1>1, <1>2, <2>1, <2>2
  <2>5. ASSUME NEW d \in Clients
        PROVE  /\ Distinct(inherited'[d])
               /\ Running(d)' =>
                    /\ In(inherited'[d], d)
                    /\ \A e \in Clients : In(inherited'[d], e) => d \in srvEnd'[e]
    <3>1. CASE d = c
      BY <2>4, <3>1
    <3> QED
      BY <2>3, <3>1
  <2> QED
    BY <2>5 DEF Shared, Running
<1>10. Writing'
  BY <1>1, <1>2 DEF Writing, Recipients
<1>11. Resets'
  BY <1>4 DEF Resets, ClientOpen
<1>12. EndsWithCause'
  <2>1. \A d \in Clients : cause[d] = "SIGPIPE" => inherited'[d] = inherited[d]
    BY <1>1, <1>2
  <2> QED
    BY <1>1, <2>1, CausesStay
<1> QED
  BY <1>6, <1>7, <1>8, <1>9, <1>10, <1>11, <1>12

LEMMA HeldHandler ==
  ASSUME TypeInv, HeldInv, Handler, UNCHANGED clientVars
  PROVE  HeldInv'
<1> USE DEF TypeInv, TypeOK, HeldInv
<1>1. /\ UNCHANGED <<writer, reader, cliEnd, srvEnd, reset, backlog, fd_list, cause, inherited, j>>
      /\ Listening' = Listening /\ (parent' = "fork" => parent = "fork")
      /\ \A c \in Clients : child'[c] = child[c] \/ (child[c] = "zombie" /\ child'[c] = "reaped")
  BY DEF Handler, DeliverSignal, WaitChild, ReturnFromHandler, clientVars, tcpVars, childVars,
     parentVars, Listening, ServerTypeOK
<1>2. NotYet' /\ Holding' /\ Waiting'
  BY <1>1 DEF NotYet, Holding, Waiting
<1>3. Newest'
  BY <1>1, NewestIn DEF Newest
<1>4. Kept' /\ Resets'
  BY <1>1 DEF Kept, Resets, ServerOpen, ClientOpen, Queued
<1>5. Shared' /\ Writing'
  BY <1>1 DEF Shared, Writing, Running, Recipients
<1>6. EndsWithCause'
  BY <1>1, CausesStay
<1> QED
  BY <1>2, <1>3, <1>4, <1>5, <1>6

\* A child ends, because its client is gone or said quit, or a recipient is gone.
LEMMA HeldChildExit ==
  ASSUME TypeInv, HeldInv, NEW c \in Clients, NEW why \in {"eof", "quit", "SIGPIPE"},
         NEW unread, ExitChild(c, why, unread), UNCHANGED clientVars, Running(c),
         why = "eof" => ~ClientOpen(c),
         why = "SIGPIPE" => \E k \in DOMAIN inherited[c] :
                              (inherited[c][k] = c \/ Broadcast) /\ ~ClientOpen(inherited[c][k])
  PROVE  HeldInv'
<1> USE DEF TypeInv, TypeOK, HeldInv
<1>1. /\ UNCHANGED <<writer, reader, cliEnd, backlog, parent, fd_list, inherited, j>>
      /\ cause'[c] = why /\ child'[c] \in {"zombie", "reaped"}
      /\ \A d \in Clients : d # c => cause'[d] = cause[d] /\ child'[d] = child[d]
      /\ \A d \in Clients : srvEnd'[d] = srvEnd[d] \ {c}
      /\ \A d \in Clients : reset'[d] => reset[d] \/ srvEnd[d] = {c}
  BY TcpAssumption DEF ExitChild, ServerExits, parentVars, clientVars, ServerTypeOK
<1>2. c # Server /\ Listening' = Listening /\ child[c] # "none"
  BY <1>1, TcpAssumption DEF Listening, Running
<1>3. \A d \in Clients : Queued(d)' = Queued(d) /\ (Queued(d) <=> In(backlog, d))
  BY <1>1 DEF Queued, In
<1>4. NotYet' /\ Holding'
  <2>1. writer[c] # "connect"
    BY <1>2 DEF NotYet
  <2>2. ASSUME NEW d \in Clients, writer[d] = "connect"
        PROVE  ~reset'[d] /\ srvEnd'[d] = {} /\ child'[d] = "none"
    BY <1>1, <2>1, <2>2 DEF NotYet
  <2>3. NotYet'
    BY <1>1, <2>2 DEF NotYet
  <2> QED
    BY <1>1, <2>3 DEF Holding
<1>5. Waiting' /\ Newest'
  <2>1. ~In(backlog, c)
    BY <1>2 DEF Waiting
  <2>2. Waiting'
    BY <1>1, <2>1 DEF Waiting
  <2>3. Newest'
    BY <1>1, <1>2, NewestIn DEF Newest
  <2> QED
    BY <2>2, <2>3
<1>6. Kept'
  BY <1>1, <1>2, <1>3 DEF Kept, ServerOpen
<1>7. Shared' /\ Writing'
  <2>1. Shared'
    BY <1>1 DEF Shared, Running
  <2>2. Writing'
    BY <1>1 DEF Writing, Recipients
  <2> QED
    BY <2>1, <2>2
<1>8. Resets'
  <2> SUFFICES ASSUME NEW d \in Clients, reset'[d], ServerOpen(d)' PROVE ~ClientOpen(d)'
    BY DEF Resets
  <2>1. reset[d] /\ ServerOpen(d)
    BY <1>1, <1>3 DEF Waiting, ServerOpen
  <2> QED
    BY <1>1, <2>1 DEF Resets, ClientOpen
<1>9. EndsWithCause'
  BY <1>1 DEF EndsWithCause, ClientOpen
<1> QED
  BY <1>4, <1>5, <1>6, <1>7, <1>8, <1>9

\* A child goes on: it has read a chunk, or written it to a recipient, whose
\* connection is reset if the client is gone.
LEMMA HeldChildGoes ==
  ASSUME TypeInv, HeldInv, NEW c \in Clients, UNCHANGED clientVars, Running(c),
         UNCHANGED <<cliEnd, srvEnd, backlog, parent, fd_list, cause, inherited>>,
         child'[c] \in {"read", "write"},
         child'[c] = "write" => j'[c] \in 1..Len(Recipients(c)),
         \A d \in Clients : d # c => child'[d] = child[d] /\ j'[d] = j[d],
         \A d \in Clients : reset'[d] => \/ reset[d]
                                         \/ ~ClientOpen(d) /\ writer[d] # "connect"
  PROVE  HeldInv'
<1> USE DEF TypeInv, TypeOK, HeldInv
<1>1. UNCHANGED <<writer, reader>> /\ child[c] \in {"read", "write"} /\ writer[c] # "connect"
  BY DEF clientVars, Running, NotYet
<1>2. NotYet' /\ Holding'
  BY <1>1 DEF NotYet, Holding
<1>3. Waiting' /\ Newest'
  BY <1>1, NewestIn DEF Waiting, Newest
<1>4. Kept'
  BY <1>1 DEF Kept, Listening, ServerOpen, Queued
<1>5. Shared'
  BY <1>1 DEF Shared, Running
<1>6. Writing'
  BY <1>1 DEF Writing, Recipients
<1>7. Resets'
  BY DEF Resets, ServerOpen, ClientOpen, Queued
<1>8. EndsWithCause'
  BY <1>1, CausesStay
<1> QED
  BY <1>2, <1>3, <1>4, <1>5, <1>6, <1>7, <1>8

LEMMA HeldChild ==
  ASSUME TypeInv, HeldInv, NEW c \in Clients, Child(c), UNCHANGED clientVars
  PROVE  HeldInv'
<1> USE DEF TypeInv, TypeOK
<1>1. Running(c)
  BY DEF Child, ChildReads, ChildEnds, ChildWrites, Running
<1>2. CASE ChildReads(c)
  <2>1. CASE \E unread : ExitChild(c, "quit", unread)
    BY <1>1, <2>1, HeldChildExit
  <2>2. CASE /\ child' = [child EXCEPT ![c] = "write"]
             /\ j' = [j EXCEPT ![c] = 1]
             /\ UNCHANGED <<parentVars, sigchld, cause, inherited, down, cliEnd,
                            srvEnd, reset, backlog>>
    <3>1. 1 \in 1..Len(Recipients(c))
      <4>1. In(inherited[c], c) /\ inherited[c] \in Seq(Clients)
        BY <1>1 DEF HeldInv, Shared, ServerTypeOK
      <4>2. Len(inherited[c]) \in Nat \ {0}
        BY <4>1, LenProperties DEF In
      <4> QED
        BY <4>2 DEF Recipients
    <3>2. /\ UNCHANGED <<parent, fd_list>> /\ child'[c] = "write" /\ j'[c] = 1
          /\ \A d \in Clients : d # c => child'[d] = child[d] /\ j'[d] = j[d]
          /\ UNCHANGED <<cliEnd, srvEnd, backlog, cause, inherited, reset>>
      BY <2>2 DEF parentVars, ServerTypeOK
    <3> QED
      BY <1>1, <3>1, <3>2, HeldChildGoes
  <2> QED
    BY <1>2, <2>1, <2>2 DEF ChildReads
<1>3. CASE ChildEnds(c)
  <2>1. ~ClientOpen(c)
    <3>1. In(inherited[c], c) /\ c \in srvEnd[c]
      BY <1>1 DEF HeldInv, Shared
    <3> QED
      BY <1>3, <3>1 DEF ChildEnds, UpEnded, HeldInv, Resets, ServerOpen
  <2> QED
    BY <1>1, <1>3, <2>1, HeldChildExit DEF ChildEnds
<1>4. CASE ChildWrites(c)
  <2>1. PICK d \in Clients : /\ d = Recipients(c)[j[c]] /\ writer[d] # "connect"
                             /\ c \in srvEnd[d] /\ In(inherited[c], d)
                             /\ (d = c \/ Broadcast)
    BY <1>4, Recipient DEF ChildWrites
  <2>2. CASE reset[d] /\ ExitChild(c, "SIGPIPE", up)
    <3>1. ~ClientOpen(d)
      BY <2>1, <2>2 DEF HeldInv, Resets, ServerOpen
    <3>2. \E k \in DOMAIN inherited[c] :
            (inherited[c][k] = c \/ Broadcast) /\ ~ClientOpen(inherited[c][k])
      BY <2>1, <3>1 DEF In
    <3> QED
      BY <1>1, <2>2, <3>2, HeldChildExit
  <2>3. ASSUME NEW ms, WriteDown(d, ms), j' = [j EXCEPT ![c] = @ + 1],
               child' = [child EXCEPT ![c] =
                 IF j[c] = Len(Recipients(c)) THEN "read" ELSE "write"],
               UNCHANGED <<parentVars, sigchld, cause, inherited, cliEnd, srvEnd, backlog>>
        PROVE  HeldInv'
    <3>1. j[c] \in 1..Len(Recipients(c)) /\ Len(Recipients(c)) \in Nat
      <4>1. Len(Recipients(c)) \in Nat
        BY LenProperties DEF Recipients, ServerTypeOK
      <4> QED
        BY <1>4, <4>1 DEF ChildWrites, HeldInv, Writing
    <3>2. /\ UNCHANGED <<parent, fd_list>>
          /\ child'[c] = IF j[c] = Len(Recipients(c)) THEN "read" ELSE "write"
          /\ j'[c] = j[c] + 1
          /\ \A e \in Clients : e # c => child'[e] = child[e] /\ j'[e] = j[e]
      BY <2>3 DEF parentVars, ServerTypeOK
    <3>3. \A e \in Clients : reset'[e] => reset[e] \/ (~ClientOpen(e) /\ writer[e] # "connect")
      BY <2>1, <2>3 DEF WriteDown, TcpTypeOK
    <3>4. child'[c] \in {"read", "write"} /\ (child'[c] = "write" => j'[c] \in 1..Len(Recipients(c)))
      BY <3>1, <3>2
    <3> QED
      BY <1>1, <2>3, <3>2, <3>3, <3>4, HeldChildGoes
  <2> QED
    BY <1>4, <2>1, <2>2, <2>3 DEF ChildWrites
<1> QED
  BY <1>2, <1>3, <1>4 DEF Child

LEMMA HeldStep == TypeInv /\ HeldInv /\ [Next]_vars => HeldInv'
<1> SUFFICES ASSUME TypeInv, HeldInv, [Next]_vars PROVE HeldInv'
  OBVIOUS
<1>1. CASE UNCHANGED vars
  BY <1>1 DEF HeldInv, NotYet, Holding, Waiting, Newest, Kept, Shared, Writing, Resets,
     EndsWithCause, Listening, Running, Recipients, ServerOpen,
     ClientOpen, Queued, vars, tcpVars, clientVars, serverVars
<1>2. ASSUME NEW c \in Clients, ClientMoves(c) PROVE HeldInv'
  BY <1>2, HeldConnect, ClientNarrows, HeldNarrows DEF ClientMoves
<1>3. CASE CheckErrno /\ UNCHANGED clientVars
  <2>1. CASE ExitServer
    BY <1>3, <2>1, HeldExit DEF CheckErrno
  <2>2. CASE parent' = "accept" /\ UNCHANGED <<sigchld, child, srvEnd, reset, backlog>>
    <3>1. /\ UNCHANGED <<fd_list, cause, inherited, j, cliEnd, child, srvEnd, reset, backlog,
                         writer, reader>>
          /\ parent = "check" /\ parent' = "accept"
      BY <1>3, <2>2 DEF CheckErrno, clientVars
    <3> QED
      BY <3>1 DEF HeldInv, NotYet, Holding, Waiting, Newest, Kept, Shared, Writing, Resets,
         EndsWithCause, Listening, Running, Recipients, ServerOpen,
         ClientOpen, Queued
  <2> QED
    BY <1>3, <2>1, <2>2 DEF CheckErrno
<1>4. CASE ForkChild /\ UNCHANGED clientVars
  <2>1. CASE ExitServer /\ UNCHANGED inherited
    BY <1>4, <2>1, HeldExit DEF ForkChild
  <2>2. CASE ~(ExitServer /\ UNCHANGED inherited)
    BY <1>4, <2>2, HeldFork, NewestIn DEF ForkChild
  <2> QED
    BY <2>1, <2>2
<1> QED
  BY <1>1, <1>2, <1>3, <1>4, HeldAccept, HeldAcceptFails, HeldHandler, HeldChild
  DEF Next, ServerMoves, ServerStep, Parent

LEMMA HeldInit == Init => HeldInv
<1> SUFFICES ASSUME Init PROVE HeldInv
  OBVIOUS
<1>1. /\ \A c, d \in Clients : ~In(backlog, c) /\ ~In(fd_list, c) /\ ~In(inherited[d], c)
      /\ Distinct(backlog) /\ Distinct(fd_list)
      /\ \A c \in Clients : Distinct(inherited[c])
  BY DEF Init, TcpInit, ServerInit, In, Distinct
<1> QED
  BY <1>1 DEF Init, TcpInit, ServerInit, ClientInit, HeldInv, NotYet, Holding, Waiting, Newest,
     Kept, Shared, Writing, Resets, EndsWithCause, Listening, Running

THEOREM HeldInvariance == Spec => []HeldInv
  BY HeldInit, TypeInit, TypeStep, HeldStep, PTL DEF Spec

\* As long as the server listens no reader finds the end of its stream, also
\* not one whose writer has left: the parent keeps a descriptor of every
\* connection it accepted (there is no close after line 143), children that end
\* take only their own copies with them, and nothing resets a connection while
\* both its ends are held.
THEOREM NoEofWhileListeningAlways == Spec => []NoEofWhileListening
<1>1. HeldInv => NoEofWhileListening
  BY DEF HeldInv, Kept, Holding, Resets, NoEofWhileListening, DownEnded, ClientOpen
<1> QED
  BY <1>1, HeldInvariance, PTL

\* A child ends its session only because its client is gone or said quit, or
\* because somebody it relays to is gone, and who is gone never comes back.
THEOREM EndsWithCauseAlways == Spec => []EndsWithCause
<1>1. HeldInv => EndsWithCause
  BY DEF HeldInv
<1> QED
  BY <1>1, HeldInvariance, PTL

-----------------------------------------------------------------------------
(* The lines on their way from one client to another                       *)

\* s is the lines a + 1, a + 2, ... of client c.
Numbered(s, c, a) ==
  /\ s \in Seq(Msg)
  /\ \A k \in 1..Len(s) : s[k].from = c /\ s[k].text # "junk" /\ s[k].n = a + k

\* Of client c, s has the lines 1 to m, in this order.
Upto(s, c, m) ==
  /\ \A k \in 1..Len(s) : Own(s[k], c) => s[k].n \in 1..m
  /\ \A n \in 1..m : \E k \in 1..Len(s) : Own(s[k], c) /\ s[k].n = n
  /\ \A k, l \in 1..Len(s) : k < l /\ Own(s[k], c) /\ Own(s[l], c) => s[k].n < s[l].n

\* What the child of c has read and is writing to its recipients.
Held(c) == IF child[c] = "write" THEN Len(chunk[c]) ELSE 0

\* Before its child ends: a lines of c have been written to all recipients, the
\* next are in the child's buffer, and the last are on their way to it.
InLine(c, a) ==
  /\ child[c] = "none" => a = 0
  /\ child[c] = "write" => Numbered(chunk[c], c, a)
  /\ child[c] \in {"none", "read", "write"} =>
       /\ Numbered(up[c], c, a + Held(c))
       /\ reset[c] \/ typed[c] = a + Held(c) + Len(up[c])

\* Client d has got, or will read, the first m lines of c; as long as it is
\* there, these are a, or with the chunk if it is before the next recipient.
Stream(d) == got[d] \o down[d]
RelayedTo(c, d, a) == \E m \in Nat :
  /\ Upto(Stream(d), c, m)
  /\ child[c] = "none" => m = 0
  /\ Running(c) /\ ~reset[d] =>
       \A k \in 1..Len(Recipients(c)) :
         Recipients(c)[k] = d => m = IF k < j[c] THEN a + Held(c) ELSE a

Line(c, a) == InLine(c, a) /\ \A d \in Clients : RelayedTo(c, d, a)
LinesInv == \A c \in Clients : \E a \in Nat : Line(c, a)

\* A read cuts numbered lines in two.
LEMMA NumberedCut ==
  ASSUME NEW c, NEW a \in Nat, NEW s, Numbered(s, c, a), NEW k \in 1..Len(s)
  PROVE  /\ Numbered(SubSeq(s, 1, k), c, a) /\ Numbered(Rest(s, k), c, a + k)
         /\ Len(SubSeq(s, 1, k)) = k /\ Len(Rest(s, k)) = Len(s) - k
         /\ Len(s) \in Nat /\ k \in Nat
<1>1. s \in Seq(Msg) /\ Len(s) \in Nat /\ k \in Nat /\ k <= Len(s) /\ 1 <= k
      /\ \A m \in 1..Len(s) : s[m] \in Msg
  BY LenProperties, ElementOfSeq DEF Numbered
<1>2. /\ SubSeq(s, 1, k) \in Seq(Msg) /\ Len(SubSeq(s, 1, k)) = k
      /\ \A m \in 1..k : SubSeq(s, 1, k)[m] = s[m]
  <2>1. \A m \in 1..k : s[m] \in Msg
    BY <1>1
  <2>2. /\ SubSeq(s, 1, k) \in Seq(Msg)
        /\ Len(SubSeq(s, 1, k)) = IF 1 <= k THEN k - 1 + 1 ELSE 0
        /\ \A m \in 1..k - 1 + 1 : SubSeq(s, 1, k)[m] = s[1 + m - 1]
    BY <1>1, <2>1, SubSeqProperties
  <2> QED
    BY <1>1, <2>2
<1>3. /\ Rest(s, k) \in Seq(Msg) /\ Len(Rest(s, k)) = Len(s) - k
      /\ \A m \in 1..Len(s) - k : Rest(s, k)[m] = s[k + m]
  <2> DEFINE n == Len(s)
  <2>1. \A m \in k + 1..n : s[m] \in Msg
    BY <1>1
  <2>2. /\ SubSeq(s, k + 1, n) \in Seq(Msg)
        /\ Len(SubSeq(s, k + 1, n)) = IF k + 1 <= n THEN n - (k + 1) + 1 ELSE 0
        /\ \A m \in 1..n - (k + 1) + 1 : SubSeq(s, k + 1, n)[m] = s[k + 1 + m - 1]
    BY <1>1, <2>1, SubSeqProperties
  <2> QED
    BY <1>1, <2>2 DEF Rest
<1>4. ASSUME NEW m \in 1..Len(s) - k
      PROVE  LET r == Rest(s, k)[m] IN r.from = c /\ r.text # "junk" /\ r.n = a + k + m
  <2>1. k + m \in 1..Len(s) /\ a + k + m = a + (k + m)
    BY <1>1
  <2> QED
    BY <1>3, <2>1 DEF Numbered
<1>5. ASSUME NEW m \in 1..k
      PROVE  LET r == SubSeq(s, 1, k)[m] IN r.from = c /\ r.text # "junk" /\ r.n = a + m
  <2>1. m \in 1..Len(s) /\ SubSeq(s, 1, k)[m] = s[m]
    BY <1>1, <1>2
  <2> QED
    BY <2>1 DEF Numbered
<1>6. Numbered(SubSeq(s, 1, k), c, a)
  BY <1>2, <1>5 DEF Numbered
<1>7. Numbered(Rest(s, k), c, a + k)
  BY <1>3, <1>4 DEF Numbered
<1> QED
  BY <1>1, <1>2, <1>3, <1>6, <1>7

\* Two sequences written one after the other.
LEMMA Joined ==
  ASSUME NEW s \in Seq(Msg), NEW t \in Seq(Msg)
  PROVE  /\ s \o t \in Seq(Msg) /\ Len(s \o t) = Len(s) + Len(t)
         /\ Len(s) \in Nat /\ Len(t) \in Nat
         /\ \A k \in 1..Len(s) : (s \o t)[k] = s[k]
         /\ \A k \in 1..Len(t) : (s \o t)[Len(s) + k] = t[k]
<1>1. /\ Len(s) \in Nat /\ Len(t) \in Nat /\ s \o t \in Seq(Msg)
      /\ Len(s \o t) = Len(s) + Len(t)
      /\ \A k \in 1..Len(s) + Len(t) :
           (s \o t)[k] = IF k <= Len(s) THEN s[k] ELSE t[k - Len(s)]
  BY LenProperties, ConcatProperties
<1>2. \A k \in 1..Len(s) : k \in 1..Len(s) + Len(t) /\ k <= Len(s)
  BY <1>1
<1>3. \A k \in 1..Len(t) : /\ Len(s) + k \in 1..Len(s) + Len(t) /\ ~(Len(s) + k <= Len(s))
                           /\ (Len(s) + k) - Len(s) = k
  BY <1>1
<1> QED
  BY <1>1, <1>2, <1>3

\* Typing one more line.
LEMMA NumberedMore ==
  ASSUME NEW c, NEW a \in Nat, NEW s, Numbered(s, c, a), NEW m \in Msg,
         m.from = c, m.text # "junk", m.n = a + Len(s) + 1
  PROVE  Numbered(s \o <<m>>, c, a) /\ Len(s \o <<m>>) = Len(s) + 1
<1>1. <<m>> \in Seq(Msg) /\ Len(<<m>>) = 1 /\ <<m>>[1] = m
  OBVIOUS
<1>2. s \in Seq(Msg)
  BY DEF Numbered
<1> DEFINE t == <<m>>
<1> HIDE DEF t
<1>3. t \in Seq(Msg) /\ Len(t) = 1 /\ t[1] = m
  BY <1>1 DEF t
<1>4. /\ s \o t \in Seq(Msg) /\ Len(s \o t) = Len(s) + 1 /\ Len(s) \in Nat
      /\ \A k \in 1..Len(s) : (s \o t)[k] = s[k]
      /\ (s \o t)[Len(s) + 1] = m
  <2>1. /\ s \o t \in Seq(Msg) /\ Len(s \o t) = Len(s) + Len(t) /\ Len(s) \in Nat
        /\ \A k \in 1..Len(s) : (s \o t)[k] = s[k]
        /\ \A k \in 1..Len(t) : (s \o t)[Len(s) + k] = t[k]
    BY <1>2, <1>3, Joined
  <2>2. 1 \in 1..Len(t)
    BY <1>3
  <2>3. (s \o t)[Len(s) + 1] = t[1]
    BY <2>1, <2>2
  <2> QED
    BY <1>3, <2>1, <2>3
<1>5. ASSUME NEW k \in 1..Len(s) + 1
      PROVE  LET r == (s \o t)[k] IN r.from = c /\ r.text # "junk" /\ r.n = a + k
  <2>1. CASE k = Len(s) + 1
    BY <1>4, <2>1
  <2>2. CASE k \in 1..Len(s)
    BY <1>4, <2>2 DEF Numbered
  <2> QED
    BY <1>4, <2>1, <2>2
<1>6. Numbered(s \o t, c, a)
  BY <1>4, <1>5 DEF Numbered
<1> QED
  BY <1>4, <1>6 DEF t

\* Writing b more lines of client c behind its first a, and after them nothing
\* that is a line of c.
LEMMA UptoMore ==
  ASSUME NEW c, NEW a \in Nat, NEW s \in Seq(Msg), NEW t \in Seq(Msg), Upto(s, c, a),
         NEW b \in 0..Len(t),
         \A k \in 1..b : Own(t[k], c) /\ t[k].n = a + k,
         \A k \in b + 1..Len(t) : ~Own(t[k], c)
  PROVE  Upto(s \o t, c, a + b)
<1> DEFINE u == s \o t
<1>1. /\ Len(s) \in Nat /\ Len(t) \in Nat /\ Len(u) = Len(s) + Len(t) /\ b \in Nat
      /\ \A k \in 1..Len(s) : u[k] = s[k]
      /\ \A k \in 1..Len(t) : u[Len(s) + k] = t[k]
  BY Joined
<1> HIDE DEF u
<1>2. ASSUME NEW k \in 1..Len(u), Own(u[k], c)
      PROVE  \/ k \in 1..Len(s) /\ Own(s[k], c) /\ u[k].n = s[k].n /\ u[k].n \in 1..a
             \/ k - Len(s) \in 1..b /\ u[k].n = a + (k - Len(s))
  <2>1. CASE k \in 1..Len(s)
    BY <1>1, <1>2, <2>1 DEF Upto
  <2>2. CASE k > Len(s)
    <3>1. k - Len(s) \in 1..Len(t) /\ Len(s) + (k - Len(s)) = k
      BY <1>1, <2>2
    <3>2. u[k] = t[k - Len(s)]
      BY <1>1, <3>1
    <3>3. k - Len(s) \in 1..b
      <4>1. k - Len(s) \in 1..b \/ k - Len(s) \in b + 1..Len(t)
        BY <1>1, <3>1
      <4> QED
        BY <1>2, <3>2, <4>1
    <3> QED
      BY <3>2, <3>3
  <2> QED
    BY <1>1, <2>1, <2>2
<1>3. \A k \in 1..Len(u) : Own(u[k], c) => u[k].n \in 1..a + b
  BY <1>1, <1>2
<1>4. ASSUME NEW n \in 1..a + b
      PROVE  \E k \in 1..Len(u) : Own(u[k], c) /\ u[k].n = n
  <2>1. CASE n \in 1..a
    <3>1. PICK k \in 1..Len(s) : Own(s[k], c) /\ s[k].n = n
      BY <2>1 DEF Upto
    <3>2. k \in 1..Len(u) /\ u[k] = s[k]
      BY <1>1, <3>1
    <3> QED
      BY <3>1, <3>2
  <2>2. CASE n > a
    <3>1. PICK p \in 1..b : n = a + p
      BY <1>1, <2>2
    <3>2. p \in 1..Len(t) /\ Len(s) + p \in 1..Len(u)
      BY <1>1, <3>1
    <3>3. u[Len(s) + p] = t[p]
      BY <1>1, <3>2
    <3>4. Own(u[Len(s) + p], c) /\ u[Len(s) + p].n = n
      BY <3>1, <3>3
    <3> QED
      BY <3>2, <3>4
  <2> QED
    BY <1>1, <2>1, <2>2
<1>5. ASSUME NEW k \in 1..Len(u), NEW l \in 1..Len(u), k < l, Own(u[k], c), Own(u[l], c)
      PROVE  u[k].n < u[l].n
  <2>1. CASE k \in 1..Len(s) /\ l \in 1..Len(s)
    BY <1>1, <1>5, <2>1 DEF Upto
  <2>2. ASSUME l > Len(s) PROVE l - Len(s) \in 1..b /\ u[l].n = a + (l - Len(s))
    <3>1. l \notin 1..Len(s)
      BY <1>1, <2>2
    <3> QED
      BY <1>2, <1>5, <3>1
  <2>3. ASSUME k > Len(s) PROVE k - Len(s) \in 1..b /\ u[k].n = a + (k - Len(s))
    <3>1. k \notin 1..Len(s)
      BY <1>1, <2>3
    <3> QED
      BY <1>2, <1>5, <3>1
  <2>4. CASE k \in 1..Len(s) /\ l > Len(s)
    <3>1. u[k].n \in 1..a
      BY <1>1, <1>5, <2>4 DEF Upto
    <3> QED
      BY <1>1, <2>2, <2>4, <3>1
  <2>5. CASE k > Len(s) /\ l > Len(s)
    BY <1>1, <1>5, <2>2, <2>3, <2>5
  <2> QED
    BY <1>1, <1>5, <2>1, <2>4, <2>5
<1>6. Upto(u, c, a + b)
  BY <1>3, <1>4, <1>5 DEF Upto
<1> QED
  BY <1>6 DEF u

\* Writing lines of others.
LEMMA UptoOthers ==
  ASSUME NEW c, NEW a \in Nat, NEW s \in Seq(Msg), NEW t \in Seq(Msg), Upto(s, c, a),
         \A k \in 1..Len(t) : ~Own(t[k], c)
  PROVE  Upto(s \o t, c, a)
<1>1. Len(t) \in Nat /\ 0 \in 0..Len(t) /\ a + 0 = a
  BY LenProperties
<1>2. \A k \in 1..0 : Own(t[k], c) /\ t[k].n = a + k
  OBVIOUS
<1>3. \A k \in 0 + 1..Len(t) : ~Own(t[k], c)
  OBVIOUS
<1>4. Upto(s \o t, c, a + 0)
  BY <1>1, <1>2, <1>3, UptoMore
<1> QED
  BY <1>1, <1>4

\* What is written comes behind what was on its way.
LEMMA WrittenBehind ==
  ASSUME NEW g \in Seq(Msg), NEW s \in Seq(Msg), NEW t \in Seq(Msg)
  PROVE  g \o (s \o t) = (g \o s) \o t
BY ConcatAssociative, SMTT(60)

\* A client that has the lines 1 to m has no gap and nothing twice.
LEMMA UptoOrdered ==
  ASSUME NEW c, NEW m \in Nat, NEW s \in Seq(Msg), Upto(s, c, m), NEW k \in 1..Len(s),
         Own(s[k], c)
  PROVE  /\ \A l \in 1..k - 1 : Own(s[l], c) => s[l].n < s[k].n
         /\ s[k].n = 1 \/ \E l \in 1..k - 1 : Own(s[l], c) /\ s[l].n = s[k].n - 1
<1>1. Len(s) \in Nat /\ s[k].n \in 1..m
  BY LenProperties DEF Upto
<1>2. \A l \in 1..k - 1 : l \in 1..Len(s) /\ l < k
  BY <1>1
<1>3. \A l \in 1..k - 1 : Own(s[l], c) => s[l].n < s[k].n
  BY <1>2 DEF Upto
<1>4. ASSUME s[k].n # 1 PROVE \E l \in 1..k - 1 : Own(s[l], c) /\ s[l].n = s[k].n - 1
  <2>1. s[k].n - 1 \in 1..m
    BY <1>1, <1>4
  <2>2. PICK l \in 1..Len(s) : Own(s[l], c) /\ s[l].n = s[k].n - 1
    BY <2>1 DEF Upto
  <2>3. ~(k < l) /\ k # l
    <3>1. k < l => s[k].n < s[l].n
      BY <2>2 DEF Upto
    <3> QED
      BY <1>1, <2>2, <3>1
  <2>4. l \in 1..k - 1
    BY <1>1, <2>3
  <2> QED
    BY <2>2, <2>4
<1> QED
  BY <1>3, <1>4

-----------------------------------------------------------------------------
(* Steps that leave the lines of client c as they are                      *)

\* What is read is what was on its way: the stream of a client is the same
\* before and after.
LEMMA ReadKeepsStream ==
  ASSUME NEW g \in Seq(Msg), NEW s \in Seq(Msg), NEW k \in 1..Len(s)
  PROVE  (g \o SubSeq(s, 1, k)) \o Rest(s, k) = g \o s
<1>1. SubSeq(s, 1, k) \in Seq(Msg) /\ Rest(s, k) \in Seq(Msg) /\ Len(s) \in Nat
  BY RestType, LenProperties
<1>2. SubSeq(s, 1, k) \o Rest(s, k) = s
  <2>1. SubSeq(s, 1, k) \o SubSeq(s, k + 1, Len(s)) = SubSeq(s, 1, Len(s))
    BY <1>1, ConcatAdjacentSubSeq
  <2>2. SubSeq(s, 1, Len(s)) = s
    BY SubSeqFull
  <2> QED
    BY <2>1, <2>2 DEF Rest
<1>3. g \o (SubSeq(s, 1, k) \o Rest(s, k)) = (g \o SubSeq(s, 1, k)) \o Rest(s, k)
  BY <1>1, WrittenBehind, Zenon
<1> QED
  BY <1>2, <1>3

\* The child of c has nothing new, or ends; and what the others have got of c
\* is the same.
Same(c) == /\ child'[c] = child[c] /\ inherited'[c] = inherited[c] /\ chunk'[c] = chunk[c]
           /\ up'[c] = up[c] /\ j'[c] = j[c] /\ typed'[c] = typed[c]
Stays(c) ==
  /\ Same(c) \/ child'[c] \in {"zombie", "reaped"}
  /\ \A d \in Clients : reset[d] => reset'[d]
  /\ \A d \in Clients, m \in Nat : Upto(Stream(d), c, m) => Upto(got'[d] \o down'[d], c, m)

LEMMA LineStays ==
  ASSUME NEW c \in Clients, NEW a \in Nat, Line(c, a), Stays(c)
  PROVE  Line(c, a)'
<1>1. InLine(c, a)'
  BY DEF Line, InLine, Stays, Same, Held
<1>2. ASSUME NEW d \in Clients PROVE RelayedTo(c, d, a)'
  <2>1. PICK m \in Nat :
          /\ Upto(Stream(d), c, m)
          /\ child[c] = "none" => m = 0
          /\ Running(c) /\ ~reset[d] =>
               \A k \in 1..Len(Recipients(c)) :
                 Recipients(c)[k] = d => m = IF k < j[c] THEN a + Held(c) ELSE a
    BY DEF Line, RelayedTo
  <2>2. Upto(got'[d] \o down'[d], c, m) /\ (reset[d] => reset'[d])
    BY <2>1 DEF Stays
  <2>3. CASE Same(c)
    <3>1. Recipients(c)' = Recipients(c) /\ Held(c)' = Held(c)
      BY <2>3 DEF Same, Recipients, Held
    <3>2. Running(c)' => Running(c)
      BY <2>3 DEF Same, Running
    <3>3. /\ child'[c] = "none" => m = 0
          /\ Running(c)' /\ ~reset'[d] =>
               \A k \in 1..Len(Recipients(c)) :
                 Recipients(c)[k] = d => m = IF k < j'[c] THEN a + Held(c) ELSE a
      BY <2>1, <2>2, <2>3, <3>2 DEF Same
    <3> QED
      BY <2>2, <3>1, <3>3 DEF RelayedTo, Stream
  <2>4. CASE child'[c] \in {"zombie", "reaped"}
    BY <2>2, <2>4 DEF RelayedTo, Stream, Running
  <2> QED
    BY <2>3, <2>4 DEF Stays
<1> QED
  BY <1>1, <1>2 DEF Line

\* All lines stay when no stream changes.
LEMMA LinesStay ==
  ASSUME TypeInv, LinesInv,
         \A c \in Clients : Same(c) \/ child'[c] \in {"zombie", "reaped"},
         \A d \in Clients : reset[d] => reset'[d],
         \A d \in Clients : got'[d] \o down'[d] = got[d] \o down[d]
  PROVE  LinesInv'
<1> SUFFICES ASSUME NEW c \in Clients PROVE \E a \in Nat : Line(c, a)'
  BY DEF LinesInv
<1>1. PICK a \in Nat : Line(c, a)
  BY DEF LinesInv
<1>2. Stays(c)
  BY DEF Stays, Stream
<1> QED
  BY <1>1, <1>2, LineStays

LEMMA LinesClient ==
  ASSUME TypeInv, LinesInv, NEW c \in Clients, ClientMoves(c),
         \A text \in {"line", "quit"} : ~TypeLine(c, text)
  PROVE  LinesInv'
<1> USE DEF TypeInv, TypeOK
<1>1. \A d \in Clients : Same(d)
  BY DEF ClientMoves, ClientStep, Connect, ForkReader, LeaveWriter, Interrupt, ReaderReads,
     ReaderEnds, serverVars, Same
<1>2. \A d \in Clients : reset[d] => reset'[d]
  BY DEF ClientMoves, ClientStep, Connect, ForkReader, LeaveWriter, Interrupt, ReaderReads,
     ReaderEnds, CloseClient, TcpTypeOK
<1>3. \A d \in Clients : got'[d] \o down'[d] = got[d] \o down[d]
  <2>1. CASE ReaderReads(c)
    <3>1. PICK k \in 1..Len(down[c]) :
            /\ down' = [down EXCEPT ![c] = Rest(@, k)]
            /\ got' = [got EXCEPT ![c] = @ \o SubSeq(down[c], 1, k)]
      BY <2>1 DEF ReaderReads
    <3>2. down[c] \in Seq(Msg) /\ got[c] \in Seq(Msg)
      BY DEF TcpTypeOK, ClientTypeOK
    <3>3. (got[c] \o SubSeq(down[c], 1, k)) \o Rest(down[c], k) = got[c] \o down[c]
      BY <3>2, ReadKeepsStream
    <3>4. /\ got'[c] = got[c] \o SubSeq(down[c], 1, k) /\ down'[c] = Rest(down[c], k)
          /\ \A d \in Clients : d # c => got'[d] = got[d] /\ down'[d] = down[d]
      BY <3>1 DEF TcpTypeOK, ClientTypeOK
    <3> QED
      BY <3>3, <3>4
  <2>2. CASE ~ReaderReads(c)
    BY <2>2 DEF ClientMoves, ClientStep, Connect, ForkReader, LeaveWriter, Interrupt, ReaderEnds
  <2> QED
    BY <2>1, <2>2
<1> QED
  BY <1>1, <1>2, <1>3, LinesStay

LEMMA LinesTyped ==
  ASSUME TypeInv, LinesInv, NEW c \in Clients, NEW text \in {"line", "quit"},
         TypeLine(c, text), UNCHANGED serverVars
  PROVE  LinesInv'
<1> USE DEF TypeInv, TypeOK
<1> DEFINE m == [from |-> c, n |-> typed[c] + 1, text |-> text]
<1>1. /\ UNCHANGED <<got, down, child, cause, inherited, chunk, j>>
      /\ typed'[c] = typed[c] + 1 /\ typed[c] \in Nat
      /\ \A d \in Clients : d # c => typed'[d] = typed[d]
  BY LinesAssumption DEF TypeLine, serverVars, ClientTypeOK
<1>2. m \in Msg /\ m.from = c /\ m.n = typed[c] + 1 /\ m.text # "junk"
  BY <1>1 DEF Msg
<1> HIDE DEF m
<1>3. /\ \A d \in Clients : d # c => up'[d] = up[d]
      /\ \A d \in Clients : reset[d] => reset'[d]
      /\ \/ ~reset[c] /\ up'[c] = up[c] \o <<m>>
         \/ reset'[c] /\ up'[c] = up[c]
  BY DEF TypeLine, WriteUp, CloseClient, TcpTypeOK, m
<1>4. ASSUME NEW d \in Clients, d # c PROVE \E a \in Nat : Line(d, a)'
  <2>1. PICK a \in Nat : Line(d, a)
    BY DEF LinesInv
  <2>2. Stays(d)
    BY <1>1, <1>3, <1>4 DEF Stays, Same, Stream
  <2> QED
    BY <2>1, <2>2, LineStays
<1>5. \E a \in Nat : Line(c, a)'
  <2>1. PICK a \in Nat : Line(c, a)
    BY DEF LinesInv
  <2>2. Held(c) \in Nat /\ Held(c)' = Held(c)
    BY <1>1, LenProperties DEF Held, ServerTypeOK
  <2>3. ASSUME NEW d \in Clients PROVE RelayedTo(c, d, a)'
    <3>1. RelayedTo(c, d, a)
      BY <2>1 DEF Line
    <3>2. Recipients(c)' = Recipients(c)
      BY <1>1 DEF Recipients
    <3>3. Running(c)' => Running(c)
      BY <1>1 DEF Running
    <3> QED
      BY <1>1, <1>3, <2>2, <3>1, <3>2, <3>3 DEF RelayedTo, Stream, Running
  <2>4. ASSUME child[c] \in {"none", "read", "write"}
        PROVE  /\ Numbered(up'[c], c, a + Held(c))
               /\ reset'[c] \/ typed'[c] = a + Held(c) + Len(up'[c])
    <3>1. /\ Numbered(up[c], c, a + Held(c)) /\ a + Held(c) \in Nat
          /\ reset[c] \/ typed[c] = a + Held(c) + Len(up[c])
      BY <2>1, <2>2, <2>4 DEF Line, InLine
    <3>2. CASE reset'[c] /\ up'[c] = up[c]
      BY <3>1, <3>2
    <3>3. CASE ~reset[c] /\ up'[c] = up[c] \o <<m>>
      <4>1. m.n = a + Held(c) + Len(up[c]) + 1
        BY <1>2, <3>1, <3>3
      <4>2. Numbered(up'[c], c, a + Held(c)) /\ Len(up'[c]) = Len(up[c]) + 1
        BY <1>2, <3>1, <3>3, <4>1, NumberedMore
      <4>3. Len(up[c]) \in Nat
        BY LenProperties DEF TcpTypeOK
      <4> QED
        BY <1>1, <2>2, <3>1, <3>3, <4>2, <4>3
    <3> QED
      BY <1>3, <3>2, <3>3
  <2>5. InLine(c, a)'
    BY <1>1, <2>1, <2>2, <2>4 DEF Line, InLine
  <2> QED
    BY <2>3, <2>5 DEF Line
<1> QED
  BY <1>4, <1>5 DEF LinesInv

LEMMA LinesParent ==
  ASSUME TypeInv, HeldInv, LinesInv, Parent \/ Handler, UNCHANGED clientVars
  PROVE  LinesInv'
<1> USE DEF TypeInv, TypeOK
<1>1. UNCHANGED <<got, down, typed, up, chunk, j>>
  BY DEF clientVars, Parent, Accept, AcceptFails, CheckErrno, ForkChild, Handler, DeliverSignal,
     WaitChild, ReturnFromHandler, childVars, tcpVars
<1>2. \A d \in Clients : reset[d] => reset'[d]
  BY DEF Parent, Accept, AcceptFails, CheckErrno, ForkChild, Handler, DeliverSignal,
     WaitChild, ReturnFromHandler, tcpVars, ExitServer, ServerExits, TcpTypeOK
<1>3. CASE /\ UNCHANGED inherited
           /\ \A d \in Clients : child'[d] = child[d] \/ child'[d] = "reaped"
  BY <1>1, <1>2, <1>3, LinesStay DEF Same
<1>4. ASSUME NEW c \in Clients, child[c] = "none",
             child' = [child EXCEPT ![c] = "read"],
             inherited' = [inherited EXCEPT ![c] = fd_list]
      PROVE  LinesInv'
  <2>1. ASSUME NEW d \in Clients, d # c PROVE \E a \in Nat : Line(d, a)'
    <3>1. PICK a \in Nat : Line(d, a)
      BY DEF LinesInv
    <3>2. Stays(d)
      BY <1>1, <1>2, <1>4, <2>1 DEF Stays, Same, Stream, ServerTypeOK
    <3> QED
      BY <3>1, <3>2, LineStays
  <2>2. Line(c, 0)'
    <3>1. PICK a \in Nat : Line(c, a)
      BY DEF LinesInv
    <3>2. a = 0 /\ Held(c) = 0 /\ Held(c)' = 0 /\ child'[c] = "read"
      BY <1>4, <3>1 DEF Line, InLine, Held, ServerTypeOK
    <3>3. Numbered(up[c], c, 0 + 0) /\ (reset[c] \/ typed[c] = 0 + 0 + Len(up[c]))
      BY <1>4, <3>1, <3>2 DEF Line, InLine
    <3>4. InLine(c, 0)'
      BY <1>1, <1>2, <3>2, <3>3 DEF InLine
    <3>5. ASSUME NEW d \in Clients PROVE RelayedTo(c, d, 0)'
      <4>1. Upto(got[d] \o down[d], c, 0)
        BY <1>4, <3>1 DEF Line, RelayedTo, Stream
      <4>2. \A k : 0 = IF k < j'[c] THEN 0 + Held(c)' ELSE 0
        BY <3>2
      <4> QED
        BY <1>1, <3>2, <4>1, <4>2 DEF RelayedTo, Stream
    <3> QED
      BY <3>4, <3>5 DEF Line
  <2> QED
    BY <2>1, <2>2 DEF LinesInv
<1>5. CASE Accept \/ AcceptFails \/ CheckErrno \/ Handler
  <2>1. UNCHANGED inherited
    BY <1>5 DEF Accept, AcceptFails, CheckErrno, Handler, DeliverSignal, WaitChild,
       ReturnFromHandler, childVars
  <2>2. \A d \in Clients : child'[d] = child[d] \/ child'[d] = "reaped"
    BY <1>5 DEF Accept, AcceptFails, CheckErrno, Handler, DeliverSignal, WaitChild,
       ReturnFromHandler, childVars, ExitServer, ServerTypeOK
  <2> QED
    BY <1>3, <2>1, <2>2
<1>6. CASE ForkChild
  <2>1. CASE ExitServer /\ UNCHANGED inherited
    <3>1. \A d \in Clients : child'[d] = child[d] \/ child'[d] = "reaped"
      BY <2>1 DEF ExitServer
    <3> QED
      BY <1>3, <2>1, <3>1
  <2>2. CASE ~(ExitServer /\ UNCHANGED inherited)
    <3>1. PICK c \in Clients : c = fd_list[Len(fd_list)]
      BY <1>6, NewestIn DEF ForkChild
    <3>2. child[c] = "none"
      BY <1>6, <3>1 DEF ForkChild, HeldInv, Newest
    <3> QED
      BY <1>4, <1>6, <2>2, <3>1, <3>2 DEF ForkChild
  <2> QED
    BY <2>1, <2>2
<1> QED
  BY <1>5, <1>6 DEF Parent

-----------------------------------------------------------------------------
(* Steps of a child                                                        *)

LEMMA LinesChildExit ==
  ASSUME TypeInv, LinesInv, NEW c \in Clients, NEW why, NEW unread,
         ExitChild(c, why, unread), UNCHANGED clientVars,
         \A d \in Clients : d # c => up'[d] = up[d] /\ chunk'[d] = chunk[d]
  PROVE  LinesInv'
<1> USE DEF TypeInv, TypeOK
<1>1. \A d \in Clients : Same(d) \/ child'[d] \in {"zombie", "reaped"}
  BY DEF ExitChild, Same, clientVars, ServerTypeOK
<1>2. \A d \in Clients : reset[d] => reset'[d]
  BY DEF ExitChild, ServerExits
<1>3. UNCHANGED <<got, down>>
  BY DEF ExitChild, clientVars
<1> QED
  BY <1>1, <1>2, <1>3, LinesStay

\* A read moves the first lines into the buffer.
LEMMA LinesRead ==
  ASSUME TypeInv, HeldInv, LinesInv, NEW c \in Clients, child[c] = "read",
         NEW k \in 1..Len(up[c]),
         up' = [up EXCEPT ![c] = Rest(@, k)],
         chunk' = [chunk EXCEPT ![c] = SubSeq(up[c], 1, k)],
         child' = [child EXCEPT ![c] = "write"],
         j' = [j EXCEPT ![c] = 1],
         UNCHANGED <<clientVars, inherited, down, reset>>
  PROVE  LinesInv'
<1> USE DEF TypeInv, TypeOK
<1>1. /\ UNCHANGED <<got, typed>>
      /\ up'[c] = Rest(up[c], k) /\ chunk'[c] = SubSeq(up[c], 1, k)
      /\ child'[c] = "write" /\ j'[c] = 1
  BY DEF clientVars, TcpTypeOK, ServerTypeOK
<1>2. ASSUME NEW d \in Clients, d # c PROVE \E a \in Nat : Line(d, a)'
  <2>1. PICK a \in Nat : Line(d, a)
    BY DEF LinesInv
  <2>2. Stays(d)
    BY <1>1, <1>2 DEF Stays, Same, Stream, TcpTypeOK, ServerTypeOK
  <2> QED
    BY <2>1, <2>2, LineStays
<1>3. \E a \in Nat : Line(c, a)'
  <2>1. PICK a \in Nat : Line(c, a)
    BY DEF LinesInv
  <2>2. /\ Numbered(up[c], c, a) /\ (reset[c] \/ typed[c] = a + Len(up[c]))
    BY <2>1 DEF Line, InLine, Held
  <2>3. /\ Numbered(SubSeq(up[c], 1, k), c, a) /\ Numbered(Rest(up[c], k), c, a + k)
        /\ Len(SubSeq(up[c], 1, k)) = k /\ Len(Rest(up[c], k)) = Len(up[c]) - k
        /\ Len(up[c]) \in Nat /\ k \in Nat
    BY <2>2, NumberedCut
  <2>4. Held(c)' = k /\ Held(c) = 0
    BY <1>1, <2>3 DEF Held
  <2>5. InLine(c, a)'
    <3>1. /\ Numbered(chunk'[c], c, a) /\ Numbered(up'[c], c, a + k)
          /\ Len(up'[c]) = Len(up[c]) - k
      BY <1>1, <2>3
    <3>2. reset'[c] \/ typed'[c] = a + k + Len(up'[c])
      <4>1. \A p, q \in Nat : q + (p - q) = p
        OBVIOUS
      <4>2. k + Len(up'[c]) = Len(up[c]) /\ Len(up'[c]) \in Int
        BY <2>3, <3>1, <4>1
      <4>3. \A p \in Int : k + p = Len(up[c]) => a + k + p = a + Len(up[c])
        BY <2>3
      <4>4. /\ (reset'[c] <=> reset[c]) /\ typed'[c] = typed[c]
            /\ a + k + Len(up'[c]) = a + Len(up[c])
            /\ reset[c] \/ typed[c] = a + Len(up[c])
        BY <1>1, <2>2, <4>2, <4>3, Zenon
      <4> QED
        BY <4>4, Zenon
    <3> QED
      BY <1>1, <2>4, <3>1, <3>2 DEF InLine
  <2>6. ASSUME NEW d \in Clients PROVE RelayedTo(c, d, a)'
    <3>1. PICK m \in Nat :
            /\ Upto(got[d] \o down[d], c, m)
            /\ ~reset[d] => \A l \in 1..Len(Recipients(c)) :
                              Recipients(c)[l] = d => m = IF l < j[c] THEN a + Held(c) ELSE a
      BY <2>1 DEF Line, RelayedTo, Stream, Running
    <3>2. Recipients(c)' = Recipients(c) /\ (reset'[d] <=> reset[d])
      BY DEF Recipients
    <3>3. ~reset[d] => \A l \in 1..Len(Recipients(c)) :
                         Recipients(c)[l] = d => m = IF l < 1 THEN a + k ELSE a
      BY <2>4, <3>1
    <3> QED
      BY <1>1, <2>4, <3>1, <3>2, <3>3 DEF RelayedTo, Stream
  <2> QED
    BY <2>5, <2>6 DEF Line
<1> QED
  BY <1>2, <1>3 DEF LinesInv

\* A write sends the chunk, and perhaps what strlen found behind it, to the
\* next recipient. Of the sender's lines it gets those of the chunk, of the
\* others' none.
LEMMA LinesWrite ==
  ASSUME TypeInv, HeldInv, LinesInv, NEW c \in Clients, child[c] = "write",
         NEW e \in Clients, e = Recipients(c)[j[c]], NEW ms \in Seq(Msg),
         Len(chunk[c]) \in 0..Len(ms),
         \A k \in 1..Len(chunk[c]) : ms[k] = chunk[c][k],
         \A k \in Len(chunk[c]) + 1..Len(ms) : ms[k].text = "junk",
         \A k \in 1..Len(ms) : Own(ms[k], c) \/ ms[k].text = "junk",
         WriteDown(e, ms), j' = [j EXCEPT ![c] = @ + 1],
         child' = [child EXCEPT ![c] = IF j[c] = Len(Recipients(c)) THEN "read" ELSE "write"],
         UNCHANGED <<clientVars, inherited, chunk, up>>
  PROVE  LinesInv'
<1> USE DEF TypeInv, TypeOK
<1>1. /\ UNCHANGED <<got, typed>> /\ ~reset[e]
      /\ \A d \in Clients : reset[d] => reset'[d]
      /\ \A d \in Clients : d # e => down'[d] = down[d]
      /\ down'[e] = down[e] \o ms \/ (down'[e] = down[e] /\ reset'[e])
  <2>1. \/ down' = [down EXCEPT ![e] = @ \o ms] /\ UNCHANGED reset
        \/ reset' = [reset EXCEPT ![e] = TRUE] /\ UNCHANGED down
    BY DEF WriteDown
  <2>2. UNCHANGED <<got, typed>> /\ ~reset[e]
    BY DEF WriteDown, clientVars
  <2>3. CASE down' = [down EXCEPT ![e] = @ \o ms] /\ UNCHANGED reset
    BY <2>2, <2>3 DEF TcpTypeOK
  <2>4. CASE reset' = [reset EXCEPT ![e] = TRUE] /\ UNCHANGED down
    BY <2>2, <2>4 DEF TcpTypeOK
  <2> QED
    BY <2>1, <2>3, <2>4
<1>2. /\ j'[c] = j[c] + 1
      /\ child'[c] = IF j[c] = Len(Recipients(c)) THEN "read" ELSE "write"
      /\ \A d \in Clients : d # c => child'[d] = child[d] /\ j'[d] = j[d]
  BY DEF ServerTypeOK
<1>3. /\ got[e] \in Seq(Msg) /\ down[e] \in Seq(Msg) /\ got[e] \o down[e] \in Seq(Msg)
      /\ got[e] \o (down[e] \o ms) = (got[e] \o down[e]) \o ms
      /\ Len(ms) \in Nat /\ Len(chunk[c]) \in Nat
  <2>1. got[e] \in Seq(Msg) /\ down[e] \in Seq(Msg)
    BY DEF TcpTypeOK, ClientTypeOK
  <2>2. got[e] \o (down[e] \o ms) = (got[e] \o down[e]) \o ms
    BY <2>1, WrittenBehind, Zenon
  <2>3. Len(ms) \in Nat /\ Len(chunk[c]) \in Nat
    BY LenProperties DEF ServerTypeOK
  <2> QED
    BY <2>1, <2>2, <2>3, ConcatProperties
<1>4. ASSUME NEW d \in Clients, d # c PROVE \E a \in Nat : Line(d, a)'
  <2>1. PICK a \in Nat : Line(d, a)
    BY DEF LinesInv
  <2>2. \A k \in 1..Len(ms) : ~Own(ms[k], d)
    BY <1>4 DEF Own
  <2>3. ASSUME NEW m \in Nat, Upto(got[e] \o down[e], d, m)
        PROVE  Upto((got[e] \o down[e]) \o ms, d, m)
    BY <1>3, <2>2, <2>3, UptoOthers
  <2>4. ASSUME NEW f \in Clients, NEW m \in Nat, Upto(Stream(f), d, m)
        PROVE  Upto(got'[f] \o down'[f], d, m)
    <3>1. CASE got'[f] \o down'[f] = got[f] \o down[f]
      BY <2>4, <3>1 DEF Stream
    <3>2. CASE f = e /\ down'[e] = down[e] \o ms
      BY <1>1, <1>3, <2>3, <2>4, <3>2 DEF Stream
    <3> QED
      BY <1>1, <3>1, <3>2
  <2>5. Stays(d)
    BY <1>1, <1>2, <1>4, <2>4 DEF Stays, Same
  <2> QED
    BY <2>1, <2>5, LineStays
<1>5. \E a \in Nat : Line(c, a)'
  <2>1. PICK a \in Nat : Line(c, a)
    BY DEF LinesInv
  <2> DEFINE n == Len(chunk[c])
  <2>2. /\ Numbered(chunk[c], c, a) /\ Numbered(up[c], c, a + n)
        /\ reset[c] \/ typed[c] = a + n + Len(up[c])
        /\ Held(c) = n /\ n \in Nat
    BY <1>3, <2>1 DEF Line, InLine, Held
  <2>3. /\ j[c] \in 1..Len(Recipients(c)) /\ Len(Recipients(c)) \in Nat /\ j[c] \in Nat
        /\ Distinct(Recipients(c)) /\ DOMAIN Recipients(c) = 1..Len(Recipients(c))
    <3>1. Recipients(c) \in Seq(Clients)
      BY DEF Recipients, ServerTypeOK
    <3>2. Distinct(Recipients(c))
      BY DEF Recipients, HeldInv, Shared, Distinct
    <3> QED
      BY <3>1, <3>2, LenProperties DEF HeldInv, Writing
  <2>4. \A l \in 1..Len(Recipients(c)) : Recipients(c)[l] = e => l = j[c]
    BY <2>3 DEF Distinct
  <2>5. Recipients(c)' = Recipients(c) /\ Running(c) /\ child'[c] # "none"
    BY <1>2 DEF Recipients, Running
  \* Before the step and after it, who is before the next recipient has n more.
  <2>6. ASSUME NEW d \in Clients
        PROVE  \E m \in Nat :
                 /\ Upto(got'[d] \o down'[d], c, m)
                 /\ ~reset'[d] => \A l \in 1..Len(Recipients(c)) :
                      Recipients(c)[l] = d => m = IF l < j'[c] THEN a + n ELSE a
    <3>1. PICK m \in Nat :
            /\ Upto(got[d] \o down[d], c, m)
            /\ ~reset[d] => \A l \in 1..Len(Recipients(c)) :
                 Recipients(c)[l] = d => m = IF l < j[c] THEN a + n ELSE a
      BY <2>1, <2>2, <2>5 DEF Line, RelayedTo, Stream
    <3>2. CASE d # e
      <4>1. \A l \in 1..Len(Recipients(c)) : Recipients(c)[l] = d => (l < j'[c] <=> l < j[c])
        BY <1>2, <2>3, <3>2
      <4>2. ~reset'[d] => ~reset[d]
        BY <1>1
      <4>3. Upto(got'[d] \o down'[d], c, m)
        BY <1>1, <3>1, <3>2
      <4> QED
        BY <3>1, <4>1, <4>2, <4>3
    <3>3. CASE d = e /\ down'[e] = down[e] /\ reset'[e]
      BY <1>1, <3>1, <3>3
    <3>4. CASE d = e /\ down'[e] = down[e] \o ms
      <4>1. m = a
        BY <1>1, <2>3, <3>1, <3>4
      <4>2. \A k \in 1..n : Own(ms[k], c) /\ ms[k].n = a + k
        BY <2>2 DEF Numbered, Own
      <4>3. \A k \in n + 1..Len(ms) : ~Own(ms[k], c)
        BY DEF Own
      <4>4. Upto(got[e] \o down[e], c, a)
        BY <3>1, <3>4, <4>1
      <4> HIDE DEF n
      <4>5. Upto((got[e] \o down[e]) \o ms, c, a + n)
        <5>1. n \in 0..Len(ms)
          BY DEF n
        <5> QED
          BY <1>3, <4>2, <4>3, <4>4, <5>1, UptoMore
      <4>6. Upto(got'[d] \o down'[d], c, a + n) /\ a + n \in Nat
        <5>1. got'[d] \o down'[d] = got[e] \o (down[e] \o ms)
          BY <1>1, <3>4
        <5>2. got'[d] \o down'[d] = (got[e] \o down[e]) \o ms
          BY <1>3, <5>1, Zenon
        <5> QED
          BY <2>2, <4>5, <5>2
      <4>7. \A l \in 1..Len(Recipients(c)) : Recipients(c)[l] = d => l < j'[c]
        BY <1>2, <2>3, <2>4, <3>4
      <4> QED
        BY <4>6, <4>7
    <3> QED
      BY <1>1, <3>2, <3>3, <3>4
  <2> HIDE DEF n
  <2>7. CASE j[c] = Len(Recipients(c))
    <3>1. PICK b \in Nat : b = a + n
      BY <2>2
    <3>2. child'[c] = "read" /\ Held(c)' = 0 /\ b + 0 = b
      BY <1>2, <2>7 DEF Held
    <3>3. Numbered(up'[c], c, b + 0) /\ (reset'[c] \/ typed'[c] = b + 0 + Len(up'[c]))
      BY <1>1, <2>2, <3>1, <3>2
    <3>4. InLine(c, b)'
      BY <3>2, <3>3 DEF InLine
    <3>5. \A l \in 1..Len(Recipients(c)) : l < j'[c]
      BY <1>2, <2>3, <2>7
    <3>6. ASSUME NEW d \in Clients PROVE RelayedTo(c, d, b)'
      <4>1. PICK m \in Nat :
              /\ Upto(got'[d] \o down'[d], c, m)
              /\ ~reset'[d] => \A l \in 1..Len(Recipients(c)) : Recipients(c)[l] = d => m = b
        BY <2>6, <3>1, <3>5
      <4>2. \A l : (IF l < j'[c] THEN b + Held(c)' ELSE b) = b
        BY <3>2
      <4> QED
        BY <2>5, <4>1, <4>2 DEF RelayedTo, Stream
    <3> QED
      BY <3>4, <3>6 DEF Line
  <2>8. CASE j[c] # Len(Recipients(c))
    <3>1. child'[c] = "write" /\ Held(c)' = n
      BY <1>2, <2>2, <2>8 DEF Held, n
    <3>2. InLine(c, a)'
      BY <1>1, <2>2, <3>1 DEF InLine
    <3>3. ASSUME NEW d \in Clients PROVE RelayedTo(c, d, a)'
      BY <2>5, <2>6, <3>1 DEF RelayedTo, Stream
    <3> QED
      BY <3>2, <3>3 DEF Line
  <2> QED
    BY <2>7, <2>8
<1> QED
  BY <1>4, <1>5 DEF LinesInv

LEMMA LinesChild ==
  ASSUME TypeInv, HeldInv, LinesInv, NEW c \in Clients, Child(c), UNCHANGED clientVars
  PROVE  LinesInv'
<1> USE DEF TypeInv, TypeOK
<1>1. CASE ChildReads(c)
  <2>1. PICK k \in 1..Len(up[c]) :
          /\ up' = [up EXCEPT ![c] = Rest(@, k)]
          /\ chunk' = [chunk EXCEPT ![c] = SubSeq(up[c], 1, k)]
          /\ \/ ExitChild(c, "quit", up')
             \/ /\ child' = [child EXCEPT ![c] = "write"]
                /\ j' = [j EXCEPT ![c] = 1]
                /\ UNCHANGED <<inherited, down, reset>>
    BY <1>1 DEF ChildReads
  <2>2. CASE ExitChild(c, "quit", up')
    <3>1. \A d \in Clients : d # c => up'[d] = up[d] /\ chunk'[d] = chunk[d]
      BY <2>1 DEF TcpTypeOK, ServerTypeOK
    <3> QED
      BY <2>2, <3>1, LinesChildExit
  <2> QED
    BY <1>1, <2>1, <2>2, LinesRead DEF ChildReads
<1>2. CASE ChildEnds(c)
  BY <1>2, LinesChildExit DEF ChildEnds
<1>3. CASE ChildWrites(c)
  <2> DEFINE junk == [from |-> c, n |-> 0, text |-> "junk"]
  <2>1. PICK e \in Clients : e = Recipients(c)[j[c]]
    BY <1>3, Recipient DEF ChildWrites
  <2>2. CASE ExitChild(c, "SIGPIPE", up)
    BY <1>3, <2>2, LinesChildExit DEF ChildWrites
  <2>3. CASE /\ WriteDown(e, chunk[c]) \/ WriteDown(e, Append(chunk[c], junk))
             /\ j' = [j EXCEPT ![c] = @ + 1]
             /\ child' = [child EXCEPT ![c] =
                  IF j[c] = Len(Recipients(c)) THEN "read" ELSE "write"]
             /\ UNCHANGED inherited
    <3>1. PICK a \in Nat : Numbered(chunk[c], c, a)
      BY <1>3 DEF LinesInv, Line, InLine, ChildWrites
    <3>2. /\ chunk[c] \in Seq(Msg) /\ Len(chunk[c]) \in Nat
          /\ \A k \in 1..Len(chunk[c]) : Own(chunk[c][k], c)
      BY <3>1, LenProperties DEF Numbered, Own
    <3>3. UNCHANGED <<chunk, up>> /\ child[c] = "write"
      BY <1>3 DEF ChildWrites
    <3>4. CASE WriteDown(e, chunk[c])
      <4>1. /\ Len(chunk[c]) \in 0..Len(chunk[c])
            /\ \A k \in Len(chunk[c]) + 1..Len(chunk[c]) : FALSE
        BY <3>2
      <4> QED
        BY <2>1, <2>3, <3>2, <3>3, <3>4, <4>1, LinesWrite
    <3>5. CASE WriteDown(e, Append(chunk[c], junk))
      <4>1. junk \in Msg /\ junk.text = "junk"
        BY DEF Msg
      <4> HIDE DEF junk
      <4> DEFINE ms == Append(chunk[c], junk)
      <4>2. /\ ms \in Seq(Msg) /\ Len(ms) = Len(chunk[c]) + 1
            /\ \A k \in 1..Len(chunk[c]) : ms[k] = chunk[c][k]
            /\ ms[Len(chunk[c]) + 1] = junk
        BY <3>2, <4>1, AppendProperties
      <4> HIDE DEF ms
      <4>3. /\ Len(chunk[c]) \in 0..Len(ms)
            /\ \A k \in Len(chunk[c]) + 1..Len(ms) : ms[k].text = "junk"
        BY <3>2, <4>1, <4>2
      <4>4. \A k \in 1..Len(ms) : Own(ms[k], c) \/ ms[k].text = "junk"
        <5>1. \A k \in 1..Len(ms) : k \in 1..Len(chunk[c]) \/ k = Len(chunk[c]) + 1
          BY <3>2, <4>2
        <5> QED
          BY <3>2, <4>1, <4>2, <5>1
      <4>5. WriteDown(e, ms)
        BY <3>5 DEF ms
      <4> QED
        BY <2>1, <2>3, <3>3, <4>2, <4>3, <4>4, <4>5, LinesWrite
    <3> QED
      BY <2>3, <3>4, <3>5
  <2> QED
    BY <1>3, <2>1, <2>2, <2>3 DEF ChildWrites
<1> QED
  BY <1>1, <1>2, <1>3 DEF Child

LEMMA LinesStep == TypeInv /\ HeldInv /\ LinesInv /\ [Next]_vars => LinesInv'
<1> SUFFICES ASSUME TypeInv, HeldInv, LinesInv, [Next]_vars PROVE LinesInv'
  OBVIOUS
<1>1. CASE UNCHANGED vars
  <2>1. \A c \in Clients : Same(c)
    BY <1>1 DEF Same, vars, tcpVars, clientVars, serverVars
  <2>2. UNCHANGED <<reset, got, down>>
    BY <1>1 DEF vars, tcpVars, clientVars
  <2> QED
    BY <2>1, <2>2, LinesStay
<1>2. ASSUME NEW c \in Clients, ClientMoves(c) PROVE LinesInv'
  BY <1>2, LinesClient, LinesTyped DEF ClientMoves
<1>3. CASE ServerMoves
  BY <1>3, LinesParent, LinesChild DEF ServerMoves, ServerStep
<1> QED
  BY <1>1, <1>2, <1>3 DEF Next

\* At the start nobody has typed or got anything.
LEMMA LinesInit == Init => LinesInv
<1> SUFFICES ASSUME Init, NEW c \in Clients PROVE Line(c, 0)
  BY DEF LinesInv
<1> USE DEF Init, TcpInit, ClientInit, ServerInit
<1>1. Numbered(<<>>, c, 0 + 0) /\ typed[c] = 0 + 0 + Len(<<>>) /\ Held(c) = 0
  BY DEF Numbered, Held
<1>2. InLine(c, 0)
  BY <1>1 DEF InLine
<1>3. ASSUME NEW d \in Clients PROVE RelayedTo(c, d, 0)
  <2>1. Stream(d) = <<>>
    BY DEF Stream
  <2>2. Upto(Stream(d), c, 0)
    BY <2>1 DEF Upto
  <2> QED
    BY <2>2 DEF RelayedTo, Running
<1> QED
  BY <1>2, <1>3 DEF Line

\* Whatever chunks the reads cut the lines into and whoever leaves meanwhile,
\* a client gets the lines of each sender in order, without a gap and once,
\* and what strlen finds behind a full buffer takes the place of none of them.
THEOREM OrderPerSenderAlways == Spec => []OrderPerSender
<1>1. TypeInv /\ LinesInv => OrderPerSender
  <2> SUFFICES ASSUME TypeInv, LinesInv, NEW c \in Clients, NEW d \in Clients,
                      NEW k \in DOMAIN (got[d] \o down[d]), Own((got[d] \o down[d])[k], c)
               PROVE  LET s == got[d] \o down[d] IN
                        /\ \A l \in 1..k - 1 : Own(s[l], c) => s[l].n < s[k].n
                        /\ s[k].n = 1 \/ \E l \in 1..k - 1 : Own(s[l], c) /\ s[l].n = s[k].n - 1
    BY DEF OrderPerSender
  <2>1. PICK m \in Nat : Upto(got[d] \o down[d], c, m)
    BY DEF LinesInv, Line, RelayedTo, Stream
  <2>2. got[d] \in Seq(Msg) /\ down[d] \in Seq(Msg)
    BY DEF TypeInv, TypeOK, TcpTypeOK, ClientTypeOK
  <2> DEFINE s == got[d] \o down[d]
  <2>3. s \in Seq(Msg) /\ k \in 1..Len(s)
    BY <2>2, ConcatProperties, LenProperties
  <2> HIDE DEF s
  <2>4. Upto(s, c, m) /\ Own(s[k], c)
    BY <2>1 DEF s
  <2>5. /\ \A l \in 1..k - 1 : Own(s[l], c) => s[l].n < s[k].n
        /\ s[k].n = 1 \/ \E l \in 1..k - 1 : Own(s[l], c) /\ s[l].n = s[k].n - 1
    BY <2>3, <2>4, UptoOrdered
  <2> QED
    BY <2>5 DEF s
<1>2. Init => TypeInv /\ HeldInv /\ LinesInv
  BY TypeInit, HeldInit, LinesInit
<1>3. TypeInv /\ HeldInv /\ LinesInv /\ [Next]_vars => (TypeInv /\ HeldInv /\ LinesInv)'
  BY TypeStep, HeldStep, LinesStep
<1> QED
  BY <1>1, <1>2, <1>3, PTL DEF Spec
=============================================================================
