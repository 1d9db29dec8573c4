----------------------------- MODULE WebServer -----------------------------
(***************************************************************************)
(* 07_Day16/01_webserver/server.c: one process, a level-triggered          *)
(* listening socket and edge-triggered, non-blocking connections. A        *)
(* request is whatever has arrived by the time get_line finds no more.     *)
(*                                                                         *)
(* What a client sends is cut into units where a cut matters: the request  *)
(* line up to some point ("head"), the rest of it up to its CR ("tail"),   *)
(* its LF ("lf"), and the other header lines ("hdr"). `method` and `url`   *)
(* are uninitialised locals of http_request: a call that does not assign   *)
(* them finds what an earlier call left there, or something else.          *)
(***************************************************************************)
EXTENDS Tcp, FiniteSets

CONSTANTS Wants,     \* what the clients may ask for: a set of assignments
          MaxPieces  \* bound: pieces that a client's request arrives in

Request == [method : {"GET", "other"}, url : {"file", "dir", "special", "missing"}]
ASSUME WebAssumption == Wants \subseteq [Clients -> Request] /\ MaxPieces \in Nat

VARIABLES want,     \* per client: its request
          sent,     \* per client: units sent so far
          pieces,   \* per client: in how many pieces so far
          whole,    \* clients whose first piece held the whole request line
          browser,  \* per client: "new", "open", "gone"
          server,   \* "wait", "serve"; in http_request "line", "headers",
                    \* "answer", "close"
          watched,  \* the connections in the epoll set
          edge,     \* those with something new since epoll_wait reported them
          batch,    \* what epoll_wait returned and the for loop has not reached;
                    \* Server stands for the listening socket
          connfd,   \* the connection http_request was called for; else Server
          method,   \* the locals of http_request
          url,
          broke     \* an fcntl failed and the for loop was left

clientVars == <<want, sent, pieces, whole, browser>>
serverVars == <<server, watched, batch, connfd, method, url, broke>>
vars == <<tcpVars, clientVars, serverVars, edge>>

Units == <<"head", "tail", "lf", "hdr">>

Init ==
  /\ TcpInit
  /\ want \in Wants
  /\ sent = [c \in Clients |-> 0] /\ pieces = [c \in Clients |-> 0]
  /\ whole = {} /\ browser = [c \in Clients |-> "new"]
  /\ server = "wait" /\ watched = {} /\ edge = {} /\ batch = {} /\ connfd = Server
  /\ method = "other" /\ url = "missing" /\ broke = FALSE

TypeOK ==
  /\ want \in Wants /\ sent \in [Clients -> 0..Len(Units)]
  /\ pieces \in [Clients -> 0..MaxPieces]
  /\ whole \subseteq Clients /\ browser \in [Clients -> {"new", "open", "gone"}]
  /\ server \in {"wait", "serve", "line", "headers", "answer", "close"}
  /\ watched \subseteq Clients /\ edge \subseteq watched /\ broke \in BOOLEAN
  /\ batch \subseteq watched \cup {Server} /\ connfd \in Clients \cup {Server}
  /\ method \in {"GET", "other"} /\ url \in {"file", "dir", "special", "missing"}

Open(c) == srvEnd[c] # {}

\* recv returns at once with something other than EAGAIN.
Readable(c) == up[c] # <<>> \/ UpEnded(c)

\* Something happens on connection c: if it is watched, that is an edge.
Edge(c) == edge' = edge \cup ({c} \cap watched)

-----------------------------------------------------------------------------
(* A client: a browser, not part of the repository                         *)

Connect(c) ==
  /\ browser[c] = "new"
  /\ browser' = [browser EXCEPT ![c] = "open"]
  /\ cliEnd' = [cliEnd EXCEPT ![c] = {"client"}]
  /\ backlog' = Append(backlog, c)
  /\ UNCHANGED <<want, sent, pieces, whole, serverVars, edge, up, down, srvEnd, reset>>

\* The next k units travel as one piece.
SendPiece(c) ==
  /\ browser[c] = "open" /\ ~reset[c] /\ pieces[c] < MaxPieces
  /\ pieces' = [pieces EXCEPT ![c] = @ + 1]
  /\ \E k \in 1 .. Len(Units) - sent[c] :
       /\ WriteUp(c, SubSeq(Units, sent[c] + 1, sent[c] + k))
       /\ sent' = [sent EXCEPT ![c] = @ + k]
       /\ whole' = IF sent[c] = 0 /\ k > 1 THEN whole \cup {c} ELSE whole
  /\ Edge(c)
  /\ UNCHANGED <<want, browser, serverVars, down, cliEnd, srvEnd, backlog>>

\* It closes, with or without having read the answer.
Leave(c) ==
  /\ browser[c] = "open"
  /\ browser' = [browser EXCEPT ![c] = "gone"]
  /\ cliEnd' = [cliEnd EXCEPT ![c] = {}]
  /\ \E unread \in BOOLEAN :
       /\ unread => down[c] # <<>>
       /\ reset' = [reset EXCEPT ![c] = @ \/ unread]
  /\ Edge(c)
  /\ UNCHANGED <<want, sent, pieces, whole, serverVars, up, down, srvEnd, backlog>>

Client == \E c \in Clients : Connect(c) \/ SendPiece(c) \/ Leave(c)

-----------------------------------------------------------------------------
(* main: the event loop                                                    *)

\* epoll_wait: an edge is reported once, and only if there is something to read
\* by now; the listening socket as long as anybody waits.
Wait ==
  /\ server = "wait"
  /\ LET ready == {c \in edge : Readable(c)} \cup (IF backlog # <<>> THEN {Server} ELSE {})
     IN  ready # {} /\ batch' = ready
  /\ edge' = {} /\ server' = "serve"
  /\ UNCHANGED <<watched, connfd, method, url, broke, clientVars, tcpVars>>

BatchDone ==
  /\ server = "serve" /\ batch = {}
  /\ server' = "wait"
  /\ UNCHANGED <<watched, edge, batch, connfd, method, url, broke, clientVars, tcpVars>>

\* accept, O_NONBLOCK and EPOLL_CTL_ADD, which finds data that has come already.
\* A failed accept or epoll_ctl goes on with the batch; a failed fcntl leaves
\* the for loop and forgets both the connection and the rest of the batch.
Accept ==
  /\ server = "serve" /\ Server \in batch
  /\ LET c == Head(backlog) IN
       \/ /\ srvEnd' = [srvEnd EXCEPT ![c] = {Server}]
          /\ watched' = watched \cup {c}
          /\ edge' = IF Readable(c) THEN edge \cup {c} ELSE edge
          /\ batch' = batch \ {Server} /\ backlog' = Tail(backlog)
          /\ UNCHANGED <<server, reset, broke>>
       \/ /\ reset' = [reset EXCEPT ![c] = @ \/ up[c] # <<>>]  \* epoll_ctl, close
          /\ batch' = batch \ {Server} /\ backlog' = Tail(backlog)
          /\ UNCHANGED <<server, srvEnd, watched, edge, broke>>
       \/ /\ batch' = batch \ {Server}                        \* accept
          /\ UNCHANGED <<server, srvEnd, watched, edge, backlog, reset, broke>>
       \/ /\ srvEnd' = [srvEnd EXCEPT ![c] = {Server}]         \* fcntl
          /\ batch' = {} /\ backlog' = Tail(backlog) /\ broke' = TRUE
          /\ UNCHANGED <<server, watched, edge, reset>>
  /\ UNCHANGED <<connfd, method, url, clientVars, up, down, cliEnd>>

\* Mutant of Target: connfd where the code has re[i].data.fd.
TargetNewest(c) == CHOOSE d \in watched : \A e \in watched : sent[d] <= sent[e]

Target(c) == c

\* http_request is called. What its locals hold on entry is what the last call
\* left on the stack, or what other calls have written over it.
Call ==
  /\ server = "serve"
  /\ \E c \in batch \cap Clients :
       batch' = batch \ {c} /\ connfd' = Target(c)
  /\ method' \in {method, "other"} /\ url' \in {url, "missing"}
  /\ server' = "line"
  /\ UNCHANGED <<watched, edge, broke, clientVars, tcpVars>>

-----------------------------------------------------------------------------
(* http_request                                                            *)

\* How many units get_line takes: up to the end of a line, or all there is. A
\* CR ends the line; the LF behind it belongs to it only if it has arrived.
LineUnits(q) ==
  LET cr == IF q[1] = "head" THEN 2 ELSE 1 IN
  IF Len(q) < cr THEN Len(q)
  ELSE IF q[cr] = "tail" /\ Len(q) > cr THEN cr + 1 ELSE cr

TakeLine == up' = [up EXCEPT ![connfd] = Rest(@, LineUnits(@))]

\* sscanf of the first line. A request line that was cut may end anywhere, in
\* the method, before the url or inside it. A lone LF or nothing assigns nothing.
RequestLine ==
  /\ server = "line"
  /\ LET q == up[connfd]
         start == IF q = <<>> THEN "lf" ELSE q[1]
         complete == Len(q) > 1
     IN  /\ IF q = <<>> THEN UNCHANGED up ELSE TakeLine
         /\ \/ /\ start = "head" /\ complete
               /\ method' = want[connfd].method /\ url' = want[connfd].url
            \/ /\ start = "head" /\ ~complete
               /\ method' \in {want[connfd].method, "other"}
               /\ url' \in {url, "file", "dir", "special", "missing"}
            \/ start \in {"tail", "hdr"} /\ method' = "other" /\ url' = "missing"
            \/ start = "lf" /\ UNCHANGED <<method, url>>
  /\ server' = "headers"
  /\ UNCHANGED <<watched, edge, batch, connfd, broke, clientVars, down, cliEnd, srvEnd,
                 reset, backlog>>

\* Mutants of HeaderLine: the loop ends on ret < 0 only, which get_line never
\* returns; the header lines are not read.
HeaderForever ==
  /\ server = "headers" /\ up[connfd] # <<>> /\ TakeLine
  /\ UNCHANGED <<server, watched, edge, batch, connfd, method, url, broke, clientVars,
                 down, cliEnd, srvEnd, reset, backlog>>

SkipHeader ==
  /\ server = "headers" /\ server' = "answer"
  /\ UNCHANGED <<watched, edge, batch, connfd, method, url, broke, clientVars, tcpVars>>

\* The header lines are read until there is nothing more: an empty line does
\* not end them, a gap in the arrival does.
HeaderLine ==
  /\ server = "headers"
  /\ IF up[connfd] # <<>>
     THEN TakeLine /\ UNCHANGED server
     ELSE server' = "answer" /\ UNCHANGED up
  /\ UNCHANGED <<watched, edge, batch, connfd, method, url, broke, clientVars,
                 down, cliEnd, srvEnd, reset, backlog>>

\* Mutant of Closes: only a file is closed.
ClosesFile(u) == u = "file"

\* After which answers the connection is closed.
Closes(u) == u \in {"file", "dir"}

\* send_header, send_file and send_dir. A send to a full buffer or to a client
\* that has gone fails (SIGPIPE is handled): the rest of the header or of that
\* file is left out, what follows is sent all the same, and a send that takes
\* only a part counts as done. So the client gets some of the answer's bytes in
\* their order; kept is which answer they are of, if it gets any. An answer is
\* refused altogether only if there is an earlier one that nobody read. The
\* reset that a send to a client that has gone draws is an edge: if the
\* connection stays open, http_request is called for it again.
Reply(c, u) ==
  \/ /\ WriteDown(c, <<[of |-> u]>>)
     /\ IF ClientOpen(c) THEN UNCHANGED edge ELSE Edge(c)
  \/ (reset[c] \/ down[c] # <<>>) /\ UNCHANGED <<down, reset, edge>>

\* The rest of http_request. A refused or unknown request is left open; so is
\* what is neither a file nor a directory.
Answer ==
  /\ server = "answer"
  /\ IF method # "GET" \/ url = "special"
     THEN UNCHANGED <<down, reset, edge>>
     ELSE Reply(connfd, url)
  /\ IF method = "GET" /\ Closes(url)
     THEN server' = "close" /\ UNCHANGED connfd
     ELSE server' = "serve" /\ connfd' = Server
  /\ UNCHANGED <<watched, batch, method, url, broke, clientVars,
                 up, cliEnd, srvEnd, backlog>>

\* close(connfd) takes it out of the epoll set.
Close ==
  /\ server = "close"
  /\ CloseServer(connfd, Server)
  /\ watched' = watched \ {connfd} /\ edge' = edge \ {connfd}
  /\ server' = "serve" /\ connfd' = Server
  /\ UNCHANGED <<batch, method, url, broke, clientVars, up, down, cliEnd, backlog>>

HttpRequest == RequestLine \/ HeaderLine \/ Answer \/ Close
ServerStep == Wait \/ BatchDone \/ Accept \/ Call \/ HttpRequest

Next == Client \/ ServerStep

Spec == Init /\ [][Next]_vars

\* The server runs whenever epoll_wait has something to return; no client has to
\* do anything.
FairSpec == Spec /\ WF_vars(ServerStep)

-----------------------------------------------------------------------------
(* Properties                                                              *)

\* No edge is lost: whenever the server goes to sleep, what has arrived on an
\* open connection is read or still to be reported (lines 220-230 read until
\* nothing is there) - unless a failed fcntl threw a batch away (418, 425).
NoLostEdge ==
  server = "wait" /\ ~broke => \A c \in watched \ edge : up[c] = <<>>

\* One method and one url on the stack serve all connections (lines 193, 194,
\* 209): yet a client whose GET line came in one piece is answered first for
\* what it asked, whatever is left there by other clients or cut in two.
OwnAnswer ==
  \A c \in whole :
    want[c].method = "GET" /\ want[c].url # "special" /\ down[c] # <<>> =>
      down[c][1].of = want[c].url

\* Nobody stays connected once the server has closed, or is watched after it:
\* a connection that is open when the server sleeps and that was answered got
\* 404s only - and then it stays open, although the header promised a close.
OpenOnly404 ==
  server = "wait" =>
    \A c \in Clients : Open(c) => \A k \in DOMAIN down[c] : down[c][k].of = "missing"

\* A client that asks for a file or a directory in one piece gets an end of its
\* stream, unless it leaves first or a failed fcntl lost its event.
Served ==
  \A c \in Clients :
    c \in whole \cap watched /\ want[c].method = "GET" /\ want[c].url \in {"file", "dir"} ~>
      ~Open(c) \/ browser[c] = "gone" \/ broke
=============================================================================
