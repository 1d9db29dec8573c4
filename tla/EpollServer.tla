---------------------------- MODULE EpollServer -----------------------------
(***************************************************************************)
(* 04_Day13/03_epoll_svr_multi_access/server.c: one process, one record on *)
(* the heap per connection, whose address epoll hands back.                *)
(*                                                                         *)
(* `ret` bounds the loop over the events AND receives the result of every  *)
(* call inside it. After an accept it is 0 and the rest of the batch is    *)
(* dropped; after an answer it is the length of the line, and the loop     *)
(* goes on into the entries that earlier batches left in `re`, or that     *)
(* nobody ever wrote.                                                      *)
(***************************************************************************)
EXTENDS Tcp, FiniteSets

CONSTANTS Rec,      \* the addresses malloc can return for a client_t
          NULL, Listener, \* no record; the record of the listening socket
          Garbage,  \* an entry of re that was never written, or lies behind it
          REMAX,    \* entries of re; 128 in the code
          FreedFd,  \* what the fd field of a freed record can read as: -1 for
                    \* a number that is no descriptor (free() has stored a
                    \* mangled link there), 0 for a null link
          BufUnits  \* messages that fill the buffer of SIZE bytes

ASSUME EpollAssumption ==
  /\ {NULL, Listener, Garbage} \cap Rec = {}
  /\ NULL # Listener /\ NULL # Garbage /\ Listener # Garbage
  /\ REMAX \in Nat \ {0} /\ BufUnits \in Nat \ {0}
  /\ FreedFd \subseteq {-1, 0} /\ FreedFd # {}
  /\ IsFiniteSet(Clients) /\ {"stdin", "unused"} \cap Clients = {}

VARIABLES server,  \* "wait", "loop", "send"; then "exited", "killed"
          re,      \* the events array: the pointer of each entry
          ret,     \* the bound of the loop
          count,   \* what epoll_wait returned (the code does not keep it)
          i,       \* index into re
          open,    \* what each descriptor number stands for
          reg,     \* the epoll set: the record registered with a descriptor
          fdOf,    \* the fd field of each record
          live,    \* the records that malloc returned and nobody freed
          chunk    \* what the last recv returned

serverVars == <<server, re, ret, count, i, open, reg, fdOf, live, chunk>>

\* Descriptor numbers: standard input is 0, and the lowest unused is taken.
Fds == 0 .. Cardinality(Clients)

ServerInit ==
  /\ server = "wait" /\ ret = 0 /\ count = 0 /\ i = 0 /\ chunk = <<>>
  /\ re = [k \in 0 .. REMAX - 1 |-> Garbage]
  /\ open = [f \in Fds |-> IF f = 0 THEN "stdin" ELSE "unused"]
  /\ reg = [f \in Fds |-> NULL] /\ fdOf = [r \in Rec |-> -1] /\ live = {}

ServerTypeOK ==
  /\ server \in {"wait", "loop", "send", "exited", "killed"}
  /\ re \in [0 .. REMAX - 1 -> Rec \cup {Listener, Garbage}]
  /\ ret \in 0 .. REMAX + 1 /\ count \in 0 .. REMAX /\ i \in 0 .. REMAX + 1
  /\ open \in [Fds -> Clients \cup {"stdin", "unused"}]
  /\ reg \in [Fds -> Rec \cup {NULL}] /\ fdOf \in [Rec -> Fds \cup {-1}]
  /\ live \subseteq Rec /\ chunk \in Seq(Msg)

Alive == server \notin {"exited", "killed"}
Stop(how) == server' = how /\ ServerExits(Server, up)

IsConn(f) == f \in Fds /\ open[f] \in Clients
Readable(c) == up[c] # <<>> \/ UpEnded(c)

\* The entry the loop has reached; an index past the array reads other memory.
Entry == IF i < REMAX THEN re[i] ELSE Garbage

-----------------------------------------------------------------------------

\* Mutant: the connections are registered for EPOLLOUT as well, and the loop
\* treats every event as input.
WaitForOutput ==
  /\ server = "wait"
  /\ LET ready == {reg[f] : f \in {g \in Fds : reg[g] # NULL}}
                    \cup (IF backlog # <<>> THEN {Listener} ELSE {})
     IN  \E n \in 1..REMAX, batch \in [0 .. REMAX - 1 -> ready] :
           /\ n = IF Cardinality(ready) < REMAX THEN Cardinality(ready) ELSE REMAX
           /\ \A k, m \in 0 .. n - 1 : k # m => batch[k] # batch[m]
           /\ re' = [k \in DOMAIN re |-> IF k < n THEN batch[k] ELSE re[k]]
           /\ ret' = n /\ count' = n
  /\ i' = 0 /\ server' = "loop"
  /\ UNCHANGED <<open, reg, fdOf, live, chunk, tcpVars>>

\* epoll_wait: the ready ones, in any order, over the first entries of re.
\* Its timeout only brings the loop round again.
Wait ==
  /\ server = "wait"
  /\ LET ready == {reg[f] : f \in {g \in Fds : reg[g] # NULL /\ Readable(open[g])}}
                    \cup (IF backlog # <<>> THEN {Listener} ELSE {})
     IN  \E n \in 1..REMAX, batch \in [0 .. REMAX - 1 -> ready] :
           /\ n = IF Cardinality(ready) < REMAX THEN Cardinality(ready) ELSE REMAX
           /\ \A k, m \in 0 .. n - 1 : k # m => batch[k] # batch[m]
           /\ re' = [k \in DOMAIN re |-> IF k < n THEN batch[k] ELSE re[k]]
           /\ ret' = n /\ count' = n
  /\ i' = 0 /\ server' = "loop"
  /\ UNCHANGED <<open, reg, fdOf, live, chunk, tcpVars>>

LoopEnds ==
  /\ server = "loop" /\ i >= ret
  /\ server' = "wait"
  /\ UNCHANGED <<re, ret, count, i, open, reg, fdOf, live, chunk, tcpVars>>

\* Garbage without the EPOLLIN bit is skipped, with it its pointer is followed.
MeetGarbage ==
  /\ server = "loop" /\ i < ret /\ Entry = Garbage
  /\ \/ i' = i + 1 /\ UNCHANGED <<server, srvEnd, reset, backlog>>
     \/ Stop("killed") /\ UNCHANGED i
  /\ UNCHANGED <<re, ret, count, open, reg, fdOf, live, chunk, up, down, cliEnd>>

newfd == CHOOSE f \in Fds : /\ open[f] = "unused"
                            /\ \A g \in Fds : open[g] = "unused" => f <= g

\* accept, malloc, EPOLL_CTL_ADD. A failed accept or epoll_ctl ends the server,
\* a null record kills it. The result of epoll_ctl, 0, ends the loop.
Accept ==
  /\ server = "loop" /\ i < ret /\ Entry = Listener
  /\ \/ /\ backlog # <<>>
        /\ \E r \in Rec \ live :
             /\ live' = live \cup {r}
             /\ fdOf' = [fdOf EXCEPT ![r] = newfd]
             /\ reg' = [reg EXCEPT ![newfd] = r]
        /\ open' = [open EXCEPT ![newfd] = Head(backlog)]
        /\ srvEnd' = [srvEnd EXCEPT ![Head(backlog)] = {Server}]
        /\ backlog' = Tail(backlog)
        /\ ret' = 0 /\ i' = i + 1
        /\ UNCHANGED <<server, reset>>
     \/ /\ Stop("exited") \/ (backlog # <<>> /\ Stop("killed"))
        /\ UNCHANGED <<ret, i, open, reg, fdOf, live>>
  /\ UNCHANGED <<re, count, chunk, up, down, cliEnd>>

\* close() of a number: the connection behind it, if there is one, and its
\* registration go away.
Close(f) ==
  /\ open' = IF f \in Fds THEN [open EXCEPT ![f] = "unused"] ELSE open
  /\ IF IsConn(f) THEN CloseServer(open[f], Server) ELSE UNCHANGED <<srvEnd, reset>>

\* free(r): the fd field becomes something else.
Free(r) ==
  /\ live' = live \ {r}
  /\ \E f \in FreedFd : fdOf' = [fdOf EXCEPT ![r] = f]

\* Mutant: the record is freed and the descriptor stays in the epoll set.
LeaveRegistered(r) ==
  /\ r \in live /\ Free(r)
  /\ server' = "wait"
  /\ UNCHANGED <<open, reg, srvEnd, reset, backlog>>

\* The end of a connection, or recv on a number that is none; a second free of
\* a record aborts. When EPOLL_CTL_DEL works, the descriptor to close is read
\* from the record just freed.
Leave(r) ==
  \/ r \notin live /\ Stop("killed") /\ UNCHANGED <<open, reg, fdOf, live>>
  \/ /\ r \in live /\ Free(r)
     /\ IF reg[fdOf[r]] # NULL
        THEN /\ Close(fdOf'[r])
             /\ reg' = [f \in Fds |-> IF f \in {fdOf[r], fdOf'[r]} THEN NULL ELSE reg[f]]
        ELSE UNCHANGED <<open, reg, srvEnd, reset>>
     /\ server' = "wait"
     /\ UNCHANGED backlog

\* recv blocks when there is nothing to read.
Recv ==
  /\ server = "loop" /\ i < ret /\ Entry \in Rec
  /\ LET r == Entry
         c == open[fdOf[r]]
     IN  \/ /\ IsConn(fdOf[r])
            /\ \E k \in 1..Len(up[c]) :
                 /\ k <= BufUnits
                 /\ chunk' = SubSeq(up[c], 1, k)
                 /\ up' = [up EXCEPT ![c] = Rest(@, k)]
            /\ server' = "send"
            /\ UNCHANGED <<open, reg, fdOf, live, srvEnd, reset, backlog>>
         \/ /\ IsConn(fdOf[r]) => UpEnded(c)
            /\ Leave(r) /\ UNCHANGED <<chunk, up>>
  /\ UNCHANGED <<re, ret, count, i, down, cliEnd>>

\* Mutant: the answer goes to `newfd`, the connection accepted last.
SendToNewest ==
  /\ server = "send"
  /\ \E f \in Fds :
       /\ IsConn(f) /\ \A g \in Fds : IsConn(g) => g <= f
       /\ WriteDown(open[f], chunk)
  /\ ret' = 1 /\ i' = i + 1 /\ server' = "loop"
  /\ UNCHANGED <<open, reg, fdOf, live, srvEnd, backlog, re, count, chunk, up, cliEnd>>

\* send returns the length of the line, and the loop goes on up to it. On a
\* connection that was reset it raises SIGPIPE, or fails: then EPOLL_CTL_DEL,
\* after the close, fails too.
Send ==
  /\ server = "send"
  /\ LET r == Entry
         f == fdOf[r]
     IN  \/ /\ WriteDown(open[f], chunk)
            /\ \E length \in 1 .. REMAX + 1 : ret' = length
            /\ i' = i + 1 /\ server' = "loop"
            /\ UNCHANGED <<open, reg, fdOf, live, srvEnd, backlog>>
         \/ /\ reset[open[f]] /\ Stop("killed")
            /\ UNCHANGED <<ret, i, open, reg, fdOf, live, down>>
         \/ /\ reset[open[f]]
            /\ Close(f) /\ reg' = [reg EXCEPT ![f] = NULL]
            /\ Free(r)
            /\ server' = "wait"
            /\ UNCHANGED <<ret, i, down, backlog>>
  /\ UNCHANGED <<re, count, chunk, up, cliEnd>>

ServerStep == Wait \/ LoopEnds \/ MeetGarbage \/ Accept \/ Recv \/ Send
=============================================================================
