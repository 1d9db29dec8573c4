----------------------------- MODULE ForkServer -----------------------------
(***************************************************************************)
(* The server of 02_Day11 that forks a child per connection. With          *)
(* Broadcast it is 99_tcp_chatroom/server.c, whose child relays what its   *)
(* client says to every connection accepted before the fork; without, it   *)
(* is 02_tcp_process/server.c, whose child echoes to its own client.       *)
(*                                                                         *)
(* The parent never closes a descriptor it accepted, so every child also   *)
(* inherits the connections of the clients before its own. The handler of  *)
(* SIGCHLD calls wait() until it fails, that is until NO child is left:    *)
(* while one is running, the parent stays in the handler.                  *)
(***************************************************************************)
EXTENDS Tcp

CONSTANTS Broadcast,  \* TRUE: the chat room, FALSE: the echo server
          BufUnits    \* messages that fill the child's buffer of SIZE bytes

ASSUME ServerAssumption == Broadcast \in BOOLEAN /\ BufUnits \in Nat \ {0}

VARIABLES parent,    \* "accept", "check" (accept failed), "fork", "exited"
          errno,     \* what "check" will see: "EINTR", "ECONNABORTED", "ECHILD", "other"
          failure,   \* why accept failed, whatever errno has become since
          handling,  \* the parent is inside rec_child
          sigchld,   \* SIGCHLD is pending
          fd_list,   \* the connections accepted so far, in order
          child,     \* per client: "none", "read", "write", "zombie", "reaped"
          cause,     \* how it ended: "none", "eof", "quit", "SIGPIPE" (or a failed write)
          inherited, \* its copy of fd_list, taken by the fork
          chunk,     \* what its last read returned
          j          \* index of its next recipient

serverVars == <<parent, errno, failure, handling, sigchld, fd_list,
                child, cause, inherited, chunk, j>>
parentVars == <<parent, errno, failure, handling, fd_list>>
childVars == <<child, cause, inherited, chunk, j>>

ServerInit ==
  /\ parent = "accept" /\ errno = "none" /\ failure = "none"
  /\ handling = FALSE /\ sigchld = FALSE /\ fd_list = <<>>
  /\ child = [c \in Clients |-> "none"] /\ cause = [c \in Clients |-> "none"]
  /\ inherited = [c \in Clients |-> <<>>] /\ chunk = [c \in Clients |-> <<>>]
  /\ j = [c \in Clients |-> 1]

ServerTypeOK ==
  /\ parent \in {"accept", "check", "fork", "exited"}
  /\ errno \in {"none", "EINTR", "ECONNABORTED", "ECHILD", "other"}
  /\ failure \in {"none", "EINTR", "ECONNABORTED", "other"}
  /\ handling \in BOOLEAN /\ sigchld \in BOOLEAN
  /\ fd_list \in Seq(Clients) /\ inherited \in [Clients -> Seq(Clients)]
  /\ child \in [Clients -> {"none", "read", "write", "zombie", "reaped"}]
  /\ cause \in [Clients -> {"none", "eof", "quit", "SIGPIPE"}]
  /\ chunk \in [Clients -> Seq(Msg)] /\ j \in [Clients -> Nat]

\* The listening socket is the parent's; a child closes its copy at once.
Listening == parent # "exited"
Running(c) == child[c] \in {"read", "write"}

\* The parent returns from main: its sockets close, init adopts its children.
ExitServer ==
  /\ parent' = "exited"
  /\ ServerExits(Server, up)
  /\ child' = [c \in Clients |-> IF child[c] = "zombie" THEN "reaped" ELSE child[c]]
  /\ sigchld' = FALSE

-----------------------------------------------------------------------------
(* The parent's loop; none of it runs while the parent is in its handler.  *)

Accept ==
  /\ parent = "accept" /\ ~handling /\ backlog # <<>>
  /\ parent' = "fork"
  /\ fd_list' = Append(fd_list, Head(backlog))
  /\ srvEnd' = [srvEnd EXCEPT ![Head(backlog)] = {Server}]
  /\ backlog' = Tail(backlog)
  /\ UNCHANGED <<errno, failure, handling, sigchld, childVars, up, down, cliEnd, reset>>

\* accept fails: the client has given up, or there is no descriptor or memory.
AcceptFails ==
  /\ parent = "accept" /\ ~handling
  /\ parent' = "check"
  /\ \/ /\ backlog # <<>> /\ ~ClientOpen(Head(backlog))
        /\ failure' = "ECONNABORTED"
        /\ backlog' = Tail(backlog)
     \/ failure' = "other" /\ UNCHANGED backlog
  /\ errno' = failure'
  /\ UNCHANGED <<handling, sigchld, fd_list, childVars, up, down, cliEnd, srvEnd, reset>>

\* EINTR and ECONNABORTED: accept again. Any other errno ends the server.
CheckErrno ==
  /\ parent = "check" /\ ~handling
  /\ \/ /\ errno \in {"EINTR", "ECONNABORTED"}
        /\ parent' = "accept"
        /\ UNCHANGED <<sigchld, child, srvEnd, reset, backlog>>
     \/ errno \notin {"EINTR", "ECONNABORTED"} /\ ExitServer
  /\ UNCHANGED <<errno, failure, handling, fd_list, cause, inherited, chunk, j,
                 up, down, cliEnd>>

\* Mutant of ForkChild: the parent closes its copy of the connection.
ForkAndClose ==
  /\ parent = "fork" /\ ~handling
  /\ LET c == fd_list[Len(fd_list)] IN
       /\ parent' = "accept"
       /\ child' = [child EXCEPT ![c] = "read"]
       /\ inherited' = [inherited EXCEPT ![c] = fd_list]
       /\ srvEnd' = [srvEnd EXCEPT ![c] = {c}]
  /\ UNCHANGED <<errno, failure, handling, sigchld, fd_list, cause, chunk, j, up, down,
                 cliEnd, reset, backlog>>

\* fork: the child holds what the parent holds. A failed fork ends the server.
ForkChild ==
  /\ parent = "fork" /\ ~handling
  /\ LET c == fd_list[Len(fd_list)] IN
       \/ /\ parent' = "accept"
          /\ child' = [child EXCEPT ![c] = "read"]
          /\ inherited' = [inherited EXCEPT ![c] = fd_list]
          /\ srvEnd' = [d \in Clients |-> IF Server \in srvEnd[d]
                                          THEN srvEnd[d] \cup {c} ELSE srvEnd[d]]
          /\ UNCHANGED <<sigchld, reset, backlog>>
       \/ ExitServer /\ UNCHANGED inherited
  /\ UNCHANGED <<errno, failure, handling, fd_list, cause, chunk, j, up, down, cliEnd>>

-----------------------------------------------------------------------------
(* rec_child, the handler of SIGCHLD                                       *)

\* Mutant of DeliverSignal: there is no handler, the signal is ignored.
DropSignal ==
  /\ sigchld /\ ~handling /\ parent # "exited"
  /\ sigchld' = FALSE
  /\ UNCHANGED <<parentVars, childVars, tcpVars>>

DeliverSignal ==
  /\ sigchld /\ ~handling /\ parent # "exited"
  /\ handling' = TRUE /\ sigchld' = FALSE
  /\ UNCHANGED <<parent, errno, failure, fd_list, childVars, tcpVars>>

\* wait(NULL) reaps any child that has ended; it blocks while none has.
WaitChild ==
  /\ handling
  /\ \E c \in Clients : child[c] = "zombie" /\ child' = [child EXCEPT ![c] = "reaped"]
  /\ UNCHANGED <<parentVars, sigchld, cause, inherited, chunk, j, tcpVars>>

\* Mutants of ReturnFromHandler: the handler waits once instead of until ECHILD
\* (it returns with children left); its loop does not end with ECHILD.
ReturnAfterOneWait ==
  /\ handling /\ \E c \in Clients : child[c] = "reaped"
  /\ handling' = FALSE
  /\ \/ /\ parent = "accept"
        /\ parent' = "check" /\ failure' = "EINTR" /\ errno' = "EINTR"
     \/ errno' = "ECHILD" /\ UNCHANGED <<parent, failure>>
  /\ UNCHANGED <<sigchld, fd_list, childVars, tcpVars>>

NeverReturn == handling /\ UNCHANGED <<serverVars, tcpVars>>

\* wait returned -1, ECHILD. SIGCHLD was blocked meanwhile and may be pending:
\* then the handler runs again before the parent does anything else. Back in
\* the parent, an accept that was interrupted fails with EINTR; elsewhere the
\* handler leaves its own errno behind.
ReturnFromHandler ==
  /\ handling /\ \A c \in Clients : child[c] \in {"none", "reaped"}
  /\ \/ sigchld /\ UNCHANGED <<parent, errno, failure, handling>>
     \/ /\ ~sigchld /\ handling' = FALSE
        /\ \/ /\ parent = "accept"
              /\ parent' = "check" /\ failure' = "EINTR" /\ errno' = "EINTR"
           \/ errno' = "ECHILD" /\ UNCHANGED <<parent, failure>>
  /\ sigchld' = FALSE
  /\ UNCHANGED <<fd_list, childVars, tcpVars>>

Parent == Accept \/ AcceptFails \/ CheckErrno \/ ForkChild
Handler == DeliverSignal \/ WaitChild \/ ReturnFromHandler

-----------------------------------------------------------------------------
(* The child of client c                                                   *)

\* exit() or a fatal signal: every descriptor is closed, the parent is told;
\* without a parent, init reaps the child.
ExitChild(c, why, unread) ==
  /\ cause' = [cause EXCEPT ![c] = why]
  /\ ServerExits(c, unread)
  /\ child' = [child EXCEPT ![c] = IF parent = "exited" THEN "reaped" ELSE "zombie"]
  /\ sigchld' = (parent # "exited")
  /\ UNCHANGED <<parentVars, inherited, j, down, cliEnd>>

\* Mutant of ChildReads: the buffer is used again without reading.
ChildReadsAgain(c) ==
  /\ child[c] = "read" /\ up[c] # <<>>
  /\ chunk' = [chunk EXCEPT ![c] = <<up[c][1]>>]
  /\ child' = [child EXCEPT ![c] = "write"]
  /\ j' = [j EXCEPT ![c] = 1]
  /\ UNCHANGED <<parentVars, sigchld, cause, inherited, tcpVars>>

\* One read; only its first bytes are compared with "quit".
ChildReads(c) ==
  /\ child[c] = "read"
  /\ \E k \in 1..Len(up[c]) :
        /\ k <= BufUnits
        /\ up' = [up EXCEPT ![c] = Rest(@, k)]
        /\ chunk' = [chunk EXCEPT ![c] = SubSeq(up[c], 1, k)]
        /\ IF up[c][1].text = "quit"
           THEN ExitChild(c, "quit", up')
           ELSE /\ child' = [child EXCEPT ![c] = "write"]
                /\ j' = [j EXCEPT ![c] = 1]
                /\ UNCHANGED <<parentVars, sigchld, cause, inherited, down, cliEnd,
                               srvEnd, reset, backlog>>

\* Mutant of ChildEnds: an empty stream is taken for its end.
ChildEndsEarly(c) ==
  /\ child[c] = "read" /\ up[c] = <<>>
  /\ ExitChild(c, "eof", up)
  /\ UNCHANGED <<chunk, up>>

ChildEnds(c) ==
  /\ child[c] = "read" /\ UpEnded(c)
  /\ ExitChild(c, "eof", up)
  /\ UNCHANGED <<chunk, up>>

Recipients(c) == IF Broadcast THEN inherited[c] ELSE <<c>>

\* Mutant of ChildWrites: a recipient is skipped.
ChildSkips(c) ==
  /\ child[c] = "write"
  /\ j' = [j EXCEPT ![c] = @ + 1]
  /\ child' = [child EXCEPT ![c] = IF j[c] >= Len(Recipients(c)) THEN "read" ELSE "write"]
  /\ UNCHANGED <<parentVars, sigchld, cause, inherited, chunk, tcpVars>>

\* write(.., strlen(buffer)) to the j-th recipient. A buffer that the read
\* filled has no terminating 0, and strlen may run past its end. On a connection
\* that was reset it fails or raises SIGPIPE: both end the child.
ChildWrites(c) ==
  /\ child[c] = "write"
  /\ LET d == Recipients(c)[j[c]]
         junk == [from |-> c, n |-> 0, text |-> "junk"]
     IN  \/ /\ \/ WriteDown(d, chunk[c])
               \/ Len(chunk[c]) = BufUnits /\ WriteDown(d, Append(chunk[c], junk))
            /\ j' = [j EXCEPT ![c] = @ + 1]
            /\ child' = [child EXCEPT ![c] =
                 IF j[c] = Len(Recipients(c)) THEN "read" ELSE "write"]
            /\ UNCHANGED <<parentVars, sigchld, cause, inherited, cliEnd, srvEnd, backlog>>
         \/ reset[d] /\ ExitChild(c, "SIGPIPE", up)
  /\ UNCHANGED <<chunk, up>>

Child(c) == ChildReads(c) \/ ChildEnds(c) \/ ChildWrites(c)

ServerStep == Parent \/ Handler \/ \E c \in Clients : Child(c)
=============================================================================
