-------------------------- MODULE WebServer_proofs --------------------------
(***************************************************************************)
(* The web server's use of edge-triggered events, and of one set of locals *)
(* for all connections, for every set of clients, whatever they ask for,   *)
(* however their requests are cut and wherever they meet; then pub.c: what *)
(* get_line returns, and that strdecode undoes strencode, for every text.  *)
(***************************************************************************)
EXTENDS WebServer, Pub, SequenceTheorems, WellFoundedInduction, TLAPS

Unit == {"head", "tail", "lf", "hdr"}
Urls == {"file", "dir", "special", "missing"}

Typing ==
  /\ up \in [Clients -> Seq(Unit)] /\ down \in [Clients -> Seq([of : Urls])]
  /\ DOMAIN cliEnd = Clients /\ reset \in [Clients -> BOOLEAN]
  /\ backlog \in Seq(Clients) /\ TypeOK

\* Where the for loop is: http_request serves a watched connection that is no
\* longer in the batch, and accept is called only when somebody waits.
Serving ==
  /\ server = "wait" => batch = {}
  /\ server \in {"wait", "serve"} => connfd = Server
  /\ server \notin {"wait", "serve"} => connfd \in watched \ batch
  /\ Server \in batch => backlog # <<>>

\* What has arrived has an edge that is still to be reported or served.
EdgeFor ==
  \A c \in watched :
    up[c] # <<>> =>
      c \in edge \/ c \in batch \/ (c = connfd /\ server \in {"line", "headers"}) \/ broke

\* A client is called for before it has sent anything only when it never will.
History ==
  /\ \A c \in Clients : cliEnd[c] # {} <=> browser[c] = "open"
  /\ \A c \in watched : browser[c] # "new"
  /\ \A k \in DOMAIN backlog : browser[backlog[k]] # "new"
  /\ \A c \in Clients :
       sent[c] = 0 =>
         /\ c \notin whole /\ up[c] = <<>> /\ down[c] = <<>>
         /\ c \in batch \/ c = connfd => reset[c] \/ browser[c] = "gone"

\* The stages of a request whose first line came in one piece.
Fresh(c) ==
  /\ Len(up[c]) > 1 /\ up[c][1] = "head" /\ down[c] = <<>>
  /\ c = connfd => server = "line"
Handled(c) ==
  /\ c = connfd /\ server \in {"headers", "answer"}
  /\ method = "GET" /\ url = want[c].url /\ down[c] = <<>>
Told(c) == down[c] # <<>> /\ down[c][1].of = want[c].url
Lost(c) == down[c] = <<>> /\ reset[c]

Ordinary(c) == c \in whole /\ want[c].method = "GET" /\ want[c].url # "special"
Stages == \A c \in Clients : Ordinary(c) => Fresh(c) \/ Handled(c) \/ Told(c) \/ Lost(c)

Sound == Typing /\ Serving
IInv == Sound /\ EdgeFor /\ History /\ Stages

-----------------------------------------------------------------------------
(* Sequences                                                               *)

\* What get_line leaves is made of the same units.
LEMMA RestTypes ==
  ASSUME NEW S, NEW s \in Seq(S), NEW k \in Nat
  PROVE  Rest(s, k) \in Seq(S)
BY SubSeqProperties, LenProperties, ElementOfSeq DEF Rest

LEMMA LineUnitsTypes ==
  ASSUME NEW S, NEW q \in Seq(S)
  PROVE  LineUnits(q) \in Nat
BY LenProperties DEF LineUnits

LEMMA TakeLineTypes ==
  ASSUME up \in [Clients -> Seq(Unit)], connfd \in Clients, TakeLine
  PROVE  up' \in [Clients -> Seq(Unit)]
<1>1. up[connfd] \in Seq(Unit) /\ LineUnits(up[connfd]) \in Nat
  BY LineUnitsTypes
<1>2. Rest(up[connfd], LineUnits(up[connfd])) \in Seq(Unit)
  BY <1>1, RestTypes
<1> QED
  BY <1>2 DEF TakeLine

\* The backlog grows at its end.
LEMMA Queueing ==
  ASSUME NEW S, NEW s \in Seq(S), NEW c \in S
  PROVE  /\ Append(s, c) \in Seq(S) /\ Append(s, c) # <<>>
         /\ \A k \in DOMAIN Append(s, c) :
              Append(s, c)[k] = c \/ (k \in DOMAIN s /\ Append(s, c)[k] = s[k])
BY AppendProperties, LenProperties

\* A piece is a part of the request; the first one starts with the head.
LEMMA Pieces ==
  ASSUME NEW m \in 0..Len(Units), NEW k \in 1..Len(Units) - m
  PROVE  /\ m + k \in 0..Len(Units) /\ m + k # 0
         /\ SubSeq(Units, m + 1, m + k) \in Seq(Unit)
         /\ Len(SubSeq(Units, m + 1, m + k)) = k
         /\ m = 0 => SubSeq(Units, m + 1, m + k)[1] = "head"
<1>1. Len(Units) = 4 /\ m \in 0..4 /\ k \in 1..4 - m
  BY DEF Units
<1>2. \A i \in 1..4 : Units[i] \in Unit
  BY DEF Units, Unit
<1>3. Units[1] = "head"
  BY DEF Units
<1>4. /\ m + 1 \in Int /\ m + k \in Int /\ m + 1 <= m + k
      /\ \A i \in m + 1 .. m + k : Units[i] \in Unit
  BY <1>1, <1>2
<1> DEFINE piece == SubSeq(Units, m + 1, m + k)
<1>5. /\ piece \in Seq(Unit)
      /\ Len(piece) = (IF m + 1 <= m + k THEN m + k - (m + 1) + 1 ELSE 0)
      /\ \A i \in 1 .. m + k - (m + 1) + 1 : piece[i] = Units[m + 1 + i - 1]
  BY <1>4, SubSeqProperties
<1> HIDE DEF piece
<1>6. Len(piece) = k
  BY <1>1, <1>5
<1>7. m = 0 => piece[1] = "head"
  BY <1>1, <1>3, <1>5
<1> QED
  BY <1>1, <1>5, <1>6, <1>7 DEF piece

-----------------------------------------------------------------------------
(* Types and the loop                                                      *)

LEMMA InitSound ==
  ASSUME Init
  PROVE  Sound
<1>1. Serving
  BY DEF Init, Serving
<1>2. 0 \in 0..Len(Units) /\ 0 \in 0..MaxPieces
  BY WebAssumption DEF Units
<1>3. TypeOK
  BY <1>2 DEF Init, TypeOK
<1>4. Typing
  BY <1>3, EmptySeq DEF Init, TcpInit, Typing
<1> QED
  BY <1>1, <1>4 DEF Sound

LEMMA ClientSound ==
  ASSUME Sound, Client
  PROVE  Sound'
<1> USE DEF Sound, Typing
<1>1. ASSUME NEW c \in Clients, Connect(c)
      PROVE  Sound'
  <2>1. backlog' \in Seq(Clients) /\ backlog' # <<>>
    <3>1. backlog' = Append(backlog, c) /\ backlog \in Seq(Clients)
      BY <1>1 DEF Connect
    <3> QED
      BY <3>1, Queueing
  <2>2. browser' \in [Clients -> {"new", "open", "gone"}] /\ DOMAIN cliEnd' = Clients
    BY <1>1 DEF Connect, TypeOK
  <2> QED
    BY <1>1, <2>1, <2>2 DEF Connect, TypeOK, Serving, serverVars
<1>2. ASSUME NEW c \in Clients, SendPiece(c)
      PROVE  Sound'
  <2>1. PICK k \in 1 .. Len(Units) - sent[c] :
          /\ WriteUp(c, SubSeq(Units, sent[c] + 1, sent[c] + k))
          /\ sent' = [sent EXCEPT ![c] = @ + k]
          /\ whole' = IF sent[c] = 0 /\ k > 1 THEN whole \cup {c} ELSE whole
    BY <1>2 DEF SendPiece
  <2>2. sent[c] \in 0..Len(Units)
    BY DEF TypeOK
  <2>3. /\ sent[c] + k \in 0..Len(Units)
        /\ SubSeq(Units, sent[c] + 1, sent[c] + k) \in Seq(Unit)
    BY <2>2, Pieces
  <2> DEFINE piece == SubSeq(Units, sent[c] + 1, sent[c] + k)
  <2> HIDE DEF piece
  <2>4. up' \in [Clients -> Seq(Unit)]
    <3>1. piece \in Seq(Unit) /\ WriteUp(c, piece)
      BY <2>1, <2>3 DEF piece
    <3>2. up[c] \o piece \in Seq(Unit)
      BY <3>1, ConcatProperties
    <3> QED
      BY <3>1, <3>2 DEF WriteUp
  <2>5. reset' \in [Clients -> BOOLEAN]
    BY <2>1 DEF WriteUp
  <2>6. sent' \in [Clients -> 0..Len(Units)]
    BY <2>1, <2>3 DEF TypeOK
  <2>7. pieces' \in [Clients -> 0..MaxPieces]
    BY <1>2, WebAssumption DEF SendPiece, TypeOK
  <2>8. edge' \subseteq watched' /\ whole' \subseteq Clients
    BY <1>2, <2>1 DEF SendPiece, TypeOK, Edge, serverVars
  <2> QED
    BY <1>2, <2>4, <2>5, <2>6, <2>7, <2>8 DEF SendPiece, TypeOK, Serving, serverVars
<1>3. ASSUME NEW c \in Clients, Leave(c)
      PROVE  Sound'
  <2>1. reset' \in [Clients -> BOOLEAN]
    BY <1>3 DEF Leave
  <2>2. edge' \subseteq watched'
    BY <1>3 DEF Leave, TypeOK, Edge, serverVars
  <2> QED
    BY <1>3, <2>1, <2>2 DEF Leave, TypeOK, Serving, serverVars
<1> QED
  BY <1>1, <1>2, <1>3 DEF Client

LEMMA ServerSound ==
  ASSUME Sound, ServerStep
  PROVE  Sound'
<1> USE DEF Sound, Typing
<1>1. CASE Wait
  BY <1>1, TcpAssumption DEF Wait, TypeOK, Serving, clientVars, tcpVars
<1>2. CASE BatchDone
  BY <1>2 DEF BatchDone, TypeOK, Serving, clientVars, tcpVars
<1>3. CASE Accept
  <2>1. /\ Head(backlog) \in Clients /\ Tail(backlog) \in Seq(Clients)
        /\ server = "serve" /\ connfd = Server
    BY <1>3, HeadTailProperties DEF Accept, Serving
  <2>2. reset' \in [Clients -> BOOLEAN] /\ backlog' \in Seq(Clients)
    BY <1>3, <2>1 DEF Accept
  <2>3. /\ watched' \subseteq Clients /\ edge' \subseteq watched'
        /\ batch' \subseteq watched' \cup {Server} /\ Server \notin batch'
    BY <1>3, <2>1, TcpAssumption DEF Accept, TypeOK
  <2> QED
    BY <1>3, <2>1, <2>2, <2>3 DEF Accept, TypeOK, Serving, clientVars
<1>4. CASE Call
  <2>1. PICK c \in batch \cap Clients : batch' = batch \ {c} /\ connfd' = c
    BY <1>4 DEF Call, Target
  <2>2. c \in watched \ batch' /\ batch' \subseteq watched \cup {Server}
    BY <2>1, TcpAssumption DEF TypeOK
  <2> QED
    BY <1>4, <2>1, <2>2 DEF Call, TypeOK, Serving, clientVars, tcpVars
<1>5. CASE RequestLine
  <2>1. connfd \in Clients
    BY <1>5 DEF RequestLine, Serving, TypeOK
  <2>2. up' \in [Clients -> Seq(Unit)]
    BY <1>5, <2>1, TakeLineTypes DEF RequestLine
  <2>3. want[connfd] \in Request
    BY <2>1, WebAssumption DEF TypeOK
  <2>4. method' \in {"GET", "other"} /\ url' \in {"file", "dir", "special", "missing"}
    BY <1>5, <2>3 DEF RequestLine, TypeOK, Request
  <2> QED
    BY <1>5, <2>2, <2>4 DEF RequestLine, TypeOK, Serving, clientVars
<1>6. CASE HeaderLine
  <2>1. connfd \in Clients
    BY <1>6 DEF HeaderLine, Serving, TypeOK
  <2>2. up' \in [Clients -> Seq(Unit)]
    BY <1>6, <2>1, TakeLineTypes DEF HeaderLine
  <2> QED
    BY <1>6, <2>2 DEF HeaderLine, TypeOK, Serving, clientVars
<1>7. CASE Answer
  <2>1. connfd \in Clients
    BY <1>7 DEF Answer, Serving, TypeOK
  <2>2. reset' \in [Clients -> BOOLEAN]
    BY <1>7, <2>1 DEF Answer, Reply, WriteDown
  <2>3. down' \in [Clients -> Seq([of : Urls])]
    <3> DEFINE page == <<[of |-> url]>>
    <3>1. page \in Seq([of : Urls])
      BY DEF TypeOK, Urls
    <3>2. down[connfd] \o page \in Seq([of : Urls])
      BY <2>1, <3>1, ConcatProperties
    <3> QED
      BY <1>7, <2>1, <3>2 DEF Answer, Reply, WriteDown
  <2>4. edge' \subseteq watched' /\ UNCHANGED <<watched, batch, up, cliEnd, srvEnd, backlog>>
    BY <1>7 DEF Answer, Reply, Edge, TypeOK
  <2>5. UNCHANGED <<method, url, broke, clientVars>>
    BY <1>7 DEF Answer
  <2>6. \/ server' = "close" /\ connfd' = connfd
        \/ server' = "serve" /\ connfd' = Server
    BY <1>7 DEF Answer
  <2>7. TypeOK'
    BY <2>1, <2>4, <2>5, <2>6 DEF TypeOK, clientVars
  <2>8. Serving'
    BY <1>7, <2>1, <2>4, <2>6 DEF Answer, Serving
  <2> QED
    BY <2>2, <2>3, <2>4, <2>7, <2>8
<1>8. CASE Close
  <2>1. connfd \in watched \ batch /\ connfd \in Clients /\ Server \notin watched
    BY <1>8, TcpAssumption DEF Close, Serving, TypeOK
  <2>2. reset' \in [Clients -> BOOLEAN]
    BY <1>8, <2>1 DEF Close, CloseServer
  <2>3. edge' \subseteq watched' /\ batch' \subseteq watched' \cup {Server}
    BY <1>8, <2>1 DEF Close, TypeOK
  <2> QED
    BY <1>8, <2>2, <2>3 DEF Close, TypeOK, Serving, clientVars
<1> QED
  BY <1>1, <1>2, <1>3, <1>4, <1>5, <1>6, <1>7, <1>8 DEF ServerStep, HttpRequest

-----------------------------------------------------------------------------
(* No edge is lost                                                         *)

LEMMA ClientEdges ==
  ASSUME Sound, EdgeFor, Client
  PROVE  EdgeFor'
<1> USE DEF Sound, Typing
<1>1. ASSUME NEW c \in Clients, Connect(c)
      PROVE  EdgeFor'
  BY <1>1 DEF Connect, EdgeFor, serverVars
<1>2. ASSUME NEW c \in Clients, SendPiece(c)
      PROVE  EdgeFor'
  <2>1. \A d \in Clients \ {c} : up'[d] = up[d]
    BY <1>2 DEF SendPiece, WriteUp
  <2>2. edge' = edge \cup ({c} \cap watched)
    BY <1>2 DEF SendPiece, Edge
  <2> QED
    BY <1>2, <2>1, <2>2 DEF SendPiece, EdgeFor, TypeOK, serverVars
<1>3. ASSUME NEW c \in Clients, Leave(c)
      PROVE  EdgeFor'
  BY <1>3 DEF Leave, Edge, EdgeFor, serverVars
<1> QED
  BY <1>1, <1>2, <1>3 DEF Client

LEMMA ServerEdges ==
  ASSUME Sound, EdgeFor, ServerStep
  PROVE  EdgeFor'
<1> USE DEF Sound, Typing
<1>1. CASE Wait
  BY <1>1 DEF Wait, EdgeFor, Serving, Readable, tcpVars
<1>2. CASE BatchDone
  BY <1>2 DEF BatchDone, EdgeFor, tcpVars
<1>3. CASE Accept
  BY <1>3, TcpAssumption DEF Accept, EdgeFor, Readable, TypeOK
<1>4. CASE Call
  BY <1>4 DEF Call, Target, EdgeFor, tcpVars
<1>5. CASE RequestLine
  <2>1. connfd \in Clients /\ \A d \in Clients \ {connfd} : up'[d] = up[d]
    BY <1>5 DEF RequestLine, TakeLine, Serving, TypeOK
  <2> QED
    BY <1>5, <2>1 DEF RequestLine, EdgeFor, TypeOK
<1>6. CASE HeaderLine
  <2>1. connfd \in Clients /\ \A d \in Clients \ {connfd} : up'[d] = up[d]
    BY <1>6 DEF HeaderLine, TakeLine, Serving, TypeOK
  <2> QED
    BY <1>6, <2>1 DEF HeaderLine, EdgeFor, TypeOK
<1>7. CASE Answer
  <2>1. edge \subseteq edge' /\ UNCHANGED <<watched, batch, up, broke>>
    BY <1>7 DEF Answer, Reply, Edge
  <2>2. /\ server = "answer" /\ server' \in {"close", "serve"}
        /\ connfd' = connfd \/ (server' = "serve" /\ connfd' = Server)
    BY <1>7 DEF Answer
  <2> QED
    BY <2>1, <2>2 DEF EdgeFor
<1>8. CASE Close
  BY <1>8 DEF Close, EdgeFor
<1> QED
  BY <1>1, <1>2, <1>3, <1>4, <1>5, <1>6, <1>7, <1>8 DEF ServerStep, HttpRequest

-----------------------------------------------------------------------------
(* Who is called for                                                       *)

LEMMA ClientHistory ==
  ASSUME Sound, History, Client
  PROVE  History'
<1> USE DEF Sound, Typing
<1>1. ASSUME NEW c \in Clients, Connect(c)
      PROVE  History'
  <2>1. /\ backlog' = Append(backlog, c)
        /\ \A k \in DOMAIN backlog' :
             backlog'[k] = c \/ (k \in DOMAIN backlog /\ backlog'[k] = backlog[k])
    BY <1>1, Queueing DEF Connect
  <2>2. browser' = [browser EXCEPT ![c] = "open"] /\ browser \in [Clients -> {"new", "open", "gone"}]
    BY <1>1 DEF Connect, TypeOK
  <2>3. \A k \in DOMAIN backlog' : browser'[backlog'[k]] # "new"
    <3>1. \A k \in DOMAIN backlog : backlog[k] \in Clients
      BY ElementOfSeq, LenProperties
    <3> QED
      BY <2>1, <2>2, <3>1 DEF History
  <2>4. \A d \in Clients : cliEnd'[d] # {} <=> browser'[d] = "open"
    BY <1>1, <2>2 DEF Connect, History
  <2>5. \A d \in watched' : browser'[d] # "new"
    BY <1>1, <2>2 DEF Connect, History, TypeOK, serverVars
  <2>6. \A d \in Clients : browser'[d] = "gone" <=> browser[d] = "gone"
    BY <1>1, <2>2 DEF Connect
  <2> QED
    BY <1>1, <2>3, <2>4, <2>5, <2>6 DEF Connect, History, serverVars
<1>2. ASSUME NEW c \in Clients, SendPiece(c)
      PROVE  History'
  <2>1. sent'[c] # 0
    <3>1. sent[c] \in 0..Len(Units)
      BY DEF TypeOK
    <3> QED
      BY <1>2, <3>1, Pieces DEF SendPiece, TypeOK
  <2>2. \A d \in Clients \ {c} :
          sent'[d] = sent[d] /\ up'[d] = up[d] /\ (d \in whole' <=> d \in whole)
    BY <1>2 DEF SendPiece, WriteUp, TypeOK
  <2>3. \A d \in Clients : reset[d] => reset'[d]
    BY <1>2 DEF SendPiece, WriteUp
  <2> QED
    BY <1>2, <2>1, <2>2, <2>3 DEF SendPiece, History, serverVars
<1>3. ASSUME NEW c \in Clients, Leave(c)
      PROVE  History'
  <2>1. \A d \in Clients : reset[d] => reset'[d]
    BY <1>3 DEF Leave
  <2>2. /\ browser'[c] = "gone" /\ cliEnd'[c] = {}
        /\ \A d \in Clients \ {c} : browser'[d] = browser[d] /\ cliEnd'[d] = cliEnd[d]
    BY <1>3 DEF Leave, TypeOK
  <2>3. \A k \in DOMAIN backlog : backlog[k] \in Clients
    BY ElementOfSeq, LenProperties
  <2>4. \A k \in DOMAIN backlog' : browser'[backlog'[k]] # "new"
    BY <1>3, <2>2, <2>3 DEF Leave, History
  <2>5. \A d \in watched' : browser'[d] # "new"
    BY <1>3, <2>2 DEF Leave, History, TypeOK, serverVars
  <2> QED
    BY <1>3, <2>1, <2>2, <2>4, <2>5 DEF Leave, History, serverVars
<1> QED
  BY <1>1, <1>2, <1>3 DEF Client

LEMMA ServerHistory ==
  ASSUME Sound, History, ServerStep
  PROVE  History'
<1> USE DEF Sound, Typing
<1>1. CASE Wait
  <2>1. ASSUME NEW c \in Clients, sent[c] = 0, c \in batch'
        PROVE  reset[c] \/ browser[c] = "gone"
    <3>1. c \in edge /\ Readable(c) /\ up[c] = <<>>
      BY <1>1, <2>1, TcpAssumption DEF Wait, History
    <3>2. cliEnd[c] = {} \/ reset[c]
      BY <3>1 DEF Readable, UpEnded, ClientOpen
    <3>3. browser[c] \in {"open", "gone"}
      BY <3>1 DEF History, TypeOK
    <3> QED
      BY <3>2, <3>3 DEF History
  <2> QED
    BY <1>1, <2>1, TcpAssumption DEF Wait, History, Serving, clientVars, tcpVars
<1>2. CASE BatchDone
  BY <1>2 DEF BatchDone, History, clientVars, tcpVars
<1>3. CASE Accept
  <2>1. backlog # <<>> /\ backlog \in Seq(Clients)
    BY <1>3 DEF Accept, Serving
  <2>2. /\ 1 \in DOMAIN backlog /\ Head(backlog) = backlog[1]
        /\ \A k \in DOMAIN Tail(backlog) :
             k + 1 \in DOMAIN backlog /\ Tail(backlog)[k] = backlog[k + 1]
    BY <2>1
  <2>3. \A k \in DOMAIN backlog' : browser'[backlog'[k]] # "new"
    <3>1. (backlog' = Tail(backlog) \/ backlog' = backlog) /\ browser' = browser
      BY <1>3 DEF Accept, clientVars
    <3>2. CASE backlog' = backlog
      BY <3>1, <3>2 DEF History
    <3>3. CASE backlog' = Tail(backlog)
      BY <2>2, <3>1, <3>3 DEF History
    <3> QED
      BY <3>1, <3>2, <3>3
  <2>4. \A d \in watched' : browser'[d] # "new"
    BY <1>3, <2>2 DEF Accept, History, clientVars
  <2>5. \A d \in Clients : reset[d] => reset'[d]
    BY <1>3 DEF Accept
  <2>6. batch' \subseteq batch
    BY <1>3 DEF Accept
  <2> QED
    BY <1>3, <2>3, <2>4, <2>5, <2>6 DEF Accept, History, clientVars
<1>4. CASE Call
  BY <1>4 DEF Call, Target, History, clientVars, tcpVars
<1>5. CASE RequestLine
  <2>1. connfd \in Clients /\ \A d \in Clients : up[d] = <<>> => up'[d] = <<>>
    BY <1>5 DEF RequestLine, TakeLine, Serving, TypeOK
  <2> QED
    BY <1>5, <2>1 DEF RequestLine, History, clientVars
<1>6. CASE HeaderLine
  <2>1. connfd \in Clients /\ \A d \in Clients : up[d] = <<>> => up'[d] = <<>>
    BY <1>6 DEF HeaderLine, TakeLine, Serving, TypeOK
  <2> QED
    BY <1>6, <2>1 DEF HeaderLine, History, clientVars
<1>7. CASE Answer
  <2>1. connfd \in Clients
    BY <1>7 DEF Answer, Serving, TypeOK
  <2>2. \A d \in Clients : reset[d] => reset'[d]
    BY <1>7, <2>1 DEF Answer, Reply, WriteDown
  <2>3. ASSUME NEW d \in Clients, sent[d] = 0
        PROVE  down'[d] = down[d]
    <3>1. d = connfd => reset[d] \/ ~ClientOpen(d)
      BY <2>3 DEF History, ClientOpen
    <3> QED
      BY <1>7, <2>1, <3>1 DEF Answer, Reply, WriteDown
  <2>4. connfd' \in {connfd, Server}
    BY <1>7 DEF Answer
  <2> QED
    BY <1>7, <2>2, <2>3, <2>4, TcpAssumption DEF Answer, History, clientVars
<1>8. CASE Close
  <2>1. \A d \in Clients : reset[d] => reset'[d]
    BY <1>8 DEF Close, CloseServer, Serving, TypeOK
  <2> QED
    BY <1>8, <2>1, TcpAssumption DEF Close, History, clientVars
<1> QED
  BY <1>1, <1>2, <1>3, <1>4, <1>5, <1>6, <1>7, <1>8 DEF ServerStep, HttpRequest

-----------------------------------------------------------------------------
(* A request whose first line came in one piece                            *)

\* A step that leaves connection c alone leaves its stage alone.
LEMMA ElsewhereStages ==
  ASSUME Typing, Serving, NEW c \in Clients,
         Fresh(c) \/ Handled(c) \/ Told(c) \/ Lost(c),
         c = connfd => server' = server /\ connfd' = connfd /\ method' = method /\ url' = url,
         c = connfd' => c = connfd,
         UNCHANGED want, up'[c] = up[c], down'[c] = down[c], reset[c] => reset'[c]
  PROVE  (Fresh(c) \/ Handled(c) \/ Told(c) \/ Lost(c))'
BY DEF Fresh, Handled, Told, Lost

LEMMA ClientStages ==
  ASSUME Sound, History, Stages, Client
  PROVE  Stages'
<1> USE DEF Sound, Typing
<1>1. ASSUME NEW c \in Clients, Connect(c)
      PROVE  Stages'
  BY <1>1, ElsewhereStages DEF Connect, Stages, Ordinary, serverVars
<1>2. ASSUME NEW c \in Clients, SendPiece(c)
      PROVE  Stages'
  <2>1. PICK k \in 1 .. Len(Units) - sent[c] :
          /\ WriteUp(c, SubSeq(Units, sent[c] + 1, sent[c] + k))
          /\ sent' = [sent EXCEPT ![c] = @ + k]
          /\ whole' = IF sent[c] = 0 /\ k > 1 THEN whole \cup {c} ELSE whole
    BY <1>2 DEF SendPiece
  <2> DEFINE piece == SubSeq(Units, sent[c] + 1, sent[c] + k)
  <2>2. /\ piece \in Seq(Unit) /\ Len(piece) = k
        /\ sent[c] = 0 => piece[1] = "head"
    <3>1. sent[c] \in 0..Len(Units)
      BY DEF TypeOK
    <3> QED
      BY <3>1, Pieces
  <2>3. WriteUp(c, piece)
    BY <2>1
  <2> HIDE DEF piece
  <2>4. /\ UNCHANGED <<want, down, server, connfd, method, url>>
        /\ \A d \in Clients \ {c} : up'[d] = up[d] /\ reset'[d] = reset[d]
        /\ ~reset[c]
        /\ up'[c] = up[c] \o piece \/ reset'[c]
    BY <1>2, <2>3 DEF SendPiece, WriteUp, serverVars
  <2>5. ASSUME NEW d \in Clients \ {c}, Ordinary(d)'
        PROVE  (Fresh(d) \/ Handled(d) \/ Told(d) \/ Lost(d))'
    <3>1. Ordinary(d)
      BY <2>1, <2>4, <2>5 DEF Ordinary
    <3> QED
      BY <2>4, <3>1, ElsewhereStages DEF Stages
  <2>6. ASSUME Ordinary(c)'
        PROVE  (Fresh(c) \/ Handled(c) \/ Told(c) \/ Lost(c))'
    <3>1. CASE c \in whole
      <4>1. Fresh(c) \/ Handled(c) \/ Told(c)
        BY <2>4, <2>6, <3>1 DEF Stages, Ordinary, Lost
      <4>2. CASE Fresh(c)
        <5>1. CASE up'[c] = up[c] \o piece
          <6>1. Len(up'[c]) > 1 /\ up'[c][1] = "head"
            BY <2>2, <4>2, <5>1, ConcatProperties, LenProperties DEF Fresh
          <6> QED
            BY <2>4, <4>2, <6>1 DEF Fresh
        <5>2. CASE reset'[c]
          BY <2>4, <4>2, <5>2 DEF Fresh, Lost
        <5> QED
          BY <2>4, <5>1, <5>2
      <4>3. CASE Handled(c) \/ Told(c)
        BY <2>4, <4>3 DEF Handled, Told
      <4> QED
        BY <4>1, <4>2, <4>3
    <3>2. CASE c \notin whole
      <4>1. sent[c] = 0 /\ k > 1
        BY <2>1, <2>6, <3>2 DEF Ordinary
      <4>2. up[c] = <<>> /\ down[c] = <<>>
        BY <4>1 DEF History
      <4>3. c # connfd
        BY <1>2, <2>4, <4>1 DEF History, SendPiece
      <4>4. <<>> \o piece = piece
        BY <2>2, ConcatEmptySeq
      <4> QED
        BY <2>2, <2>4, <4>1, <4>2, <4>3, <4>4 DEF Fresh, Lost
    <3> QED
      BY <3>1, <3>2
  <2> QED
    BY <2>5, <2>6 DEF Stages
<1>3. ASSUME NEW c \in Clients, Leave(c)
      PROVE  Stages'
  <2>1. \A d \in Clients : reset[d] => reset'[d]
    BY <1>3 DEF Leave
  <2> QED
    BY <1>3, <2>1, ElsewhereStages DEF Leave, Stages, Ordinary, serverVars
<1> QED
  BY <1>1, <1>2, <1>3 DEF Client

LEMMA ServerStages ==
  ASSUME Sound, History, Stages, ServerStep
  PROVE  Stages'
<1> USE DEF Sound, Typing
<1>1. CASE Wait
  BY <1>1, ElsewhereStages, TcpAssumption
     DEF Wait, Stages, Ordinary, Serving, clientVars, tcpVars
<1>2. CASE BatchDone
  BY <1>2, ElsewhereStages, TcpAssumption
     DEF BatchDone, Stages, Ordinary, Serving, clientVars, tcpVars
<1>3. CASE Accept
  <2>1. \A d \in Clients : reset[d] => reset'[d]
    BY <1>3 DEF Accept
  <2>2. connfd = Server /\ UNCHANGED <<want, whole, up, down, connfd>>
    BY <1>3 DEF Accept, Serving, clientVars
  <2> QED
    BY <2>1, <2>2, ElsewhereStages, TcpAssumption DEF Stages, Ordinary
<1>4. CASE Call
  <2>1. PICK c \in batch \cap Clients : connfd' = c /\ server' = "line"
    BY <1>4 DEF Call, Target
  <2>2. connfd = Server /\ UNCHANGED <<want, whole, tcpVars>>
    BY <1>4 DEF Call, Serving, clientVars
  <2>3. ASSUME NEW d \in Clients, Ordinary(d)
        PROVE  Fresh(d)' \/ Told(d)' \/ Lost(d)'
    BY <2>1, <2>2, <2>3, TcpAssumption DEF Stages, Fresh, Handled, Told, Lost, tcpVars
  <2> QED
    BY <2>2, <2>3 DEF Stages, Ordinary
<1>5. CASE RequestLine
  <2>1. /\ connfd \in Clients /\ \A d \in Clients \ {connfd} : up'[d] = up[d]
        /\ server = "line" /\ server' = "headers"
        /\ UNCHANGED <<want, whole, down, reset, connfd>>
    BY <1>5 DEF RequestLine, TakeLine, Serving, TypeOK, clientVars
  <2>2. ASSUME NEW d \in Clients, Ordinary(d)
        PROVE  (Fresh(d) \/ Handled(d) \/ Told(d) \/ Lost(d))'
    <3>1. CASE d # connfd
      BY <2>1, <2>2, <3>1, ElsewhereStages DEF Stages
    <3>2. CASE d = connfd /\ Fresh(d)
      <4>1. up[connfd] # <<>> /\ up[connfd][1] = "head" /\ Len(up[connfd]) > 1
        BY <3>2, EmptySeq DEF Fresh
      <4>2. method' = want[connfd].method /\ url' = want[connfd].url
        BY <1>5, <4>1 DEF RequestLine
      <4> QED
        BY <2>1, <2>2, <3>2, <4>2 DEF Fresh, Handled, Ordinary
    <3>3. CASE d = connfd /\ ~Fresh(d)
      BY <2>1, <2>2, <3>3 DEF Stages, Handled, Told, Lost
    <3> QED
      BY <3>1, <3>2, <3>3
  <2> QED
    BY <2>1, <2>2 DEF Stages, Ordinary
<1>6. CASE HeaderLine
  <2>1. /\ connfd \in Clients /\ \A d \in Clients \ {connfd} : up'[d] = up[d]
        /\ server = "headers" /\ server' \in {"headers", "answer"}
        /\ UNCHANGED <<want, whole, down, reset, connfd, method, url>>
    BY <1>6 DEF HeaderLine, TakeLine, Serving, TypeOK, clientVars
  <2>2. ASSUME NEW d \in Clients, Ordinary(d)
        PROVE  (Fresh(d) \/ Handled(d) \/ Told(d) \/ Lost(d))'
    <3>1. CASE d # connfd
      BY <2>1, <2>2, <3>1, ElsewhereStages DEF Stages
    <3>2. CASE d = connfd
      BY <2>1, <2>2, <3>2 DEF Stages, Fresh, Handled, Told, Lost
    <3> QED
      BY <3>1, <3>2
  <2> QED
    BY <2>1, <2>2 DEF Stages, Ordinary
<1>7. CASE Answer
  <2>1. /\ connfd \in Clients /\ server = "answer"
        /\ connfd' \in {connfd, Server}
        /\ UNCHANGED <<want, whole, up>>
    BY <1>7 DEF Answer, Serving, TypeOK, clientVars
  <2>2. \A d \in Clients : reset[d] => reset'[d]
    BY <1>7, <2>1 DEF Answer, Reply, WriteDown
  <2>3. \A d \in Clients \ {connfd} : down'[d] = down[d]
    BY <1>7, <2>1 DEF Answer, Reply, WriteDown
  <2>4. ASSUME NEW d \in Clients, Ordinary(d)
        PROVE  (Fresh(d) \/ Handled(d) \/ Told(d) \/ Lost(d))'
    <3>1. CASE d # connfd
      BY <2>1, <2>2, <2>3, <2>4, <3>1, ElsewhereStages, TcpAssumption DEF Stages
    <3>2. CASE d = connfd
      <4> DEFINE page == <<[of |-> url]>>
      <4>1. /\ page \in Seq([of : Urls]) /\ page # <<>> /\ page[1].of = url
        BY DEF TypeOK, Urls
      <4>2. \/ down'[d] = down[d] \o page
            \/ down'[d] = down[d] /\ reset'[d]
            \/ down'[d] = down[d] /\ (method # "GET" \/ url = "special")
            \/ down'[d] = down[d] /\ down[d] # <<>>
        BY <1>7, <2>1, <3>2 DEF Answer, Reply, WriteDown
      <4> HIDE DEF page
      <4>3. Handled(d) \/ Told(d) \/ Lost(d)
        BY <2>1, <2>4, <3>2 DEF Stages, Fresh
      <4>4. CASE Told(d)
        <5>1. (down[d] \o page) # <<>> /\ (down[d] \o page)[1] = down[d][1]
          BY <4>1, <4>4, ConcatProperties, LenProperties, EmptySeq DEF Told
        <5> QED
          BY <2>1, <4>2, <4>4, <5>1 DEF Told, Lost
      <4>5. CASE Handled(d)
        <5>1. <<>> \o page = page
          BY <4>1, ConcatEmptySeq
        <5> QED
          BY <2>1, <2>4, <4>1, <4>2, <4>5, <5>1 DEF Handled, Told, Lost, Ordinary
      <4>6. CASE Lost(d)
        <5>1. down'[d] = down[d]
          BY <1>7, <3>2, <4>6 DEF Answer, Reply, WriteDown, Lost
        <5> QED
          BY <2>2, <4>6, <5>1 DEF Lost
      <4> QED
        BY <4>3, <4>4, <4>5, <4>6
    <3> QED
      BY <3>1, <3>2
  <2> QED
    BY <2>1, <2>4 DEF Stages, Ordinary
<1>8. CASE Close
  <2>1. \A d \in Clients : reset[d] => reset'[d]
    BY <1>8 DEF Close, CloseServer, Serving, TypeOK
  <2>2. /\ server = "close" /\ connfd' = Server
        /\ UNCHANGED <<want, whole, up, down>>
    BY <1>8 DEF Close, clientVars
  <2> QED
    BY <2>1, <2>2, TcpAssumption DEF Stages, Ordinary, Fresh, Handled, Told, Lost
<1> QED
  BY <1>1, <1>2, <1>3, <1>4, <1>5, <1>6, <1>7, <1>8 DEF ServerStep, HttpRequest

-----------------------------------------------------------------------------
(* The theorems                                                            *)

LEMMA InitHolds ==
  ASSUME Init
  PROVE  IInv
<1>1. Sound
  BY InitSound
<1>2. EdgeFor
  BY DEF Init, EdgeFor
<1>3. History
  BY TcpAssumption DEF Init, TcpInit, History
<1>4. Stages
  BY DEF Init, Stages, Ordinary
<1> QED
  BY <1>1, <1>2, <1>3, <1>4 DEF IInv

LEMMA Stutters ==
  ASSUME IInv, UNCHANGED vars
  PROVE  IInv'
<1>1. UNCHANGED <<up, down, cliEnd, srvEnd, reset, backlog, want, sent, pieces, whole,
                  browser, server, watched, edge, batch, connfd, method, url, broke>>
  BY DEF vars, tcpVars, clientVars, serverVars
<1>2. Sound'
  BY <1>1 DEF IInv, Sound, Typing, TypeOK, Serving
<1>3. EdgeFor' /\ History'
  BY <1>1 DEF IInv, EdgeFor, History
<1>4. Stages'
  BY <1>1 DEF IInv, Stages, Ordinary, Fresh, Handled, Told, Lost
<1> QED
  BY <1>2, <1>3, <1>4 DEF IInv

\* The inductive invariant: types, the place in the for loop, an edge for what
\* has arrived, who is called for, and the stage of every whole request.
THEOREM Invariance == Spec => []IInv
<1>1. ASSUME IInv, Next
      PROVE  IInv'
  BY <1>1, ClientSound, ClientEdges, ClientHistory, ClientStages,
     ServerSound, ServerEdges, ServerHistory, ServerStages DEF Next, IInv
<1>2. IInv /\ [Next]_vars => IInv'
  BY <1>1, Stutters
<1>3. Init => IInv
  BY InitHolds
<1> QED
  BY <1>2, <1>3, PTL DEF Spec

\* Whenever the server sleeps, nothing lies unread on a watched connection
\* without an edge that will wake it, unless a failed fcntl lost a batch.
THEOREM NoLostEdgeAlways == Spec => []NoLostEdge
<1>1. IInv => NoLostEdge
  BY DEF IInv, Sound, Serving, EdgeFor, NoLostEdge
<1> QED
  BY <1>1, Invariance, PTL

\* A GET whose line came in one piece is answered first for what it asked,
\* whatever other requests have left in method and url.
THEOREM OwnAnswerAlways == Spec => []OwnAnswer
<1>1. ASSUME IInv, NEW c \in whole, want[c].method = "GET", want[c].url # "special",
             down[c] # <<>>
      PROVE  down[c][1].of = want[c].url
  <2>1. c \in Clients /\ Ordinary(c)
    BY <1>1 DEF IInv, Sound, Typing, TypeOK, Ordinary
  <2> QED
    BY <1>1, <2>1 DEF IInv, Stages, Fresh, Handled, Told, Lost
<1>2. IInv => OwnAnswer
  BY <1>1 DEF OwnAnswer
<1> QED
  BY <1>2, Invariance, PTL

-----------------------------------------------------------------------------
(* What stays open                                                         *)

\* The server's end of a connection exists from accept to close: whoever waits
\* in the backlog waits once, and has not been answered.
Ends ==
  /\ srvEnd \in [Clients -> {{}, {Server}}]
  /\ \A c \in watched : srvEnd[c] = {Server}
  /\ \A c \in Clients : browser[c] = "new" => srvEnd[c] = {} /\ down[c] = <<>>
  /\ \A k \in DOMAIN backlog : srvEnd[backlog[k]] = {} /\ down[backlog[k]] = <<>>
  /\ \A j, k \in DOMAIN backlog : backlog[j] = backlog[k] => j = k

\* A connection got nothing but 404s as long as it is open, unless http_request
\* is about to close it.
Missing(c) == \A k \in DOMAIN down[c] : down[c][k].of = "missing"
Only404 ==
  \A c \in Clients : srvEnd[c] # {} => Missing(c) \/ (server = "close" /\ c = connfd)

\* What the backlog is after a connection, and after an accept.
LEMMA Joining ==
  ASSUME NEW S, NEW s \in Seq(S), NEW c \in S, \A k \in DOMAIN s : s[k] # c,
         \A j, k \in DOMAIN s : s[j] = s[k] => j = k
  PROVE  \A j, k \in DOMAIN Append(s, c) : Append(s, c)[j] = Append(s, c)[k] => j = k
<1>1. /\ Len(s) \in Nat /\ DOMAIN s = 1..Len(s)
      /\ DOMAIN Append(s, c) = 1 .. Len(s) + 1
      /\ \A k \in 1..Len(s) : Append(s, c)[k] = s[k]
      /\ Append(s, c)[Len(s) + 1] = c
  BY AppendProperties, LenProperties
<1> QED
  BY <1>1

LEMMA Called ==
  ASSUME NEW S, NEW s \in Seq(S), s # <<>>, \A j, k \in DOMAIN s : s[j] = s[k] => j = k
  PROVE  /\ Head(s) \in S /\ Tail(s) \in Seq(S)
         /\ 1 \in DOMAIN s /\ Head(s) = s[1]
         /\ \A k \in DOMAIN Tail(s) :
              k + 1 \in DOMAIN s /\ Tail(s)[k] = s[k + 1] /\ Tail(s)[k] # Head(s)
         /\ \A j, k \in DOMAIN Tail(s) : Tail(s)[j] = Tail(s)[k] => j = k
<1>1. Head(s) \in S /\ Tail(s) \in Seq(S)
  BY HeadTailProperties
<1>2. /\ Len(s) \in Nat /\ DOMAIN s = 1..Len(s) /\ 1 \in DOMAIN s /\ Head(s) = s[1]
  OBVIOUS
<1>3. \A k \in DOMAIN Tail(s) :
        k \in Nat \ {0} /\ k + 1 \in DOMAIN s /\ Tail(s)[k] = s[k + 1]
  OBVIOUS
<1> QED
  BY <1>1, <1>2, <1>3

LEMMA ClientEnds ==
  ASSUME Sound, History, Ends, Client
  PROVE  Ends'
<1> USE DEF Sound, Typing
<1>1. ASSUME NEW c \in Clients, Connect(c)
      PROVE  Ends'
  <2>1. \A k \in DOMAIN backlog : backlog[k] # c
    BY <1>1 DEF Connect, History
  <2>2. backlog' = Append(backlog, c) /\ UNCHANGED <<watched, srvEnd, down>>
    BY <1>1 DEF Connect, serverVars
  <2>3. \A j, k \in DOMAIN backlog' : backlog'[j] = backlog'[k] => j = k
    <3>1. \A j, k \in DOMAIN backlog : backlog[j] = backlog[k] => j = k
      BY DEF Ends
    <3>2. backlog \in Seq(Clients)
      OBVIOUS
    <3> QED
      BY <2>1, <2>2, <3>1, <3>2, Joining
  <2>4. srvEnd[c] = {} /\ down[c] = <<>>
    BY <1>1 DEF Connect, Ends
  <2>5. \A k \in DOMAIN backlog' : srvEnd'[backlog'[k]] = {} /\ down'[backlog'[k]] = <<>>
    <3>1. \A k \in DOMAIN Append(backlog, c) :
            \/ Append(backlog, c)[k] = c
            \/ k \in DOMAIN backlog /\ Append(backlog, c)[k] = backlog[k]
      <4>1. backlog \in Seq(Clients)
        OBVIOUS
      <4> QED
        BY <4>1, AppendProperties, LenProperties, SMTT(60)
    <3>2. backlog' = Append(backlog, c) /\ srvEnd' = srvEnd /\ down' = down
      BY <2>2
    <3>3. \A k \in DOMAIN backlog : srvEnd[backlog[k]] = {} /\ down[backlog[k]] = <<>>
      BY DEF Ends
    <3> QED
      BY <2>4, <3>1, <3>2, <3>3
  <2>6. \A d \in Clients : browser'[d] = "new" => browser[d] = "new"
    BY <1>1 DEF Connect, TypeOK
  <2> QED
    BY <2>2, <2>3, <2>5, <2>6 DEF Ends
<1>2. ASSUME NEW c \in Clients, SendPiece(c)
      PROVE  Ends'
  BY <1>2 DEF SendPiece, Ends, serverVars
<1>3. ASSUME NEW c \in Clients, Leave(c)
      PROVE  Ends'
  <2>1. \A d \in Clients : browser'[d] = "new" => browser[d] = "new"
    BY <1>3 DEF Leave, TypeOK
  <2> QED
    BY <1>3, <2>1 DEF Leave, Ends, serverVars
<1> QED
  BY <1>1, <1>2, <1>3 DEF Client

LEMMA ClientOnly404 ==
  ASSUME Only404, Client
  PROVE  Only404'
BY DEF Client, Connect, SendPiece, Leave, Only404, Missing, serverVars

\* http_request writes to a connection that is open, so nobody in the backlog
\* is answered.
LEMMA AnswerTo ==
  ASSUME Sound, Ends, Answer
  PROVE  /\ connfd \in Clients /\ srvEnd[connfd] = {Server}
         /\ \A d \in Clients \ {connfd} : down'[d] = down[d]
         /\ \/ down'[connfd] = down[connfd]
            \/ down'[connfd] = down[connfd] \o <<[of |-> url]>>
<1>1. connfd \in Clients /\ srvEnd[connfd] = {Server}
  BY DEF Answer, Sound, Typing, Serving, TypeOK, Ends
<1> QED
  BY <1>1 DEF Answer, Reply, WriteDown, Sound, Typing

LEMMA ServerEnds ==
  ASSUME Sound, History, Ends, ServerStep
  PROVE  Ends'
<1> USE DEF Sound, Typing
<1>1. CASE Wait
  BY <1>1 DEF Wait, Ends, clientVars, tcpVars
<1>2. CASE BatchDone
  BY <1>2 DEF BatchDone, Ends, clientVars, tcpVars
<1>3. CASE Accept
  <2> DEFINE c == Head(backlog)
  <2>1. backlog # <<>> /\ \A j, k \in DOMAIN backlog : backlog[j] = backlog[k] => j = k
    BY <1>3 DEF Accept, Serving, Ends
  <2>2. /\ c \in Clients /\ c = backlog[1] /\ 1 \in DOMAIN backlog
        /\ \A k \in DOMAIN Tail(backlog) :
             k + 1 \in DOMAIN backlog /\ Tail(backlog)[k] = backlog[k + 1]
             /\ Tail(backlog)[k] # c
        /\ \A j, k \in DOMAIN Tail(backlog) : Tail(backlog)[j] = Tail(backlog)[k] => j = k
    BY <2>1, Called
  <2>3. browser[c] # "new"
    BY <2>2 DEF History
  <2> HIDE DEF c
  <2>4. UNCHANGED <<down, browser>>
    BY <1>3 DEF Accept, clientVars
  <2> DEFINE rest == Tail(backlog)
  <2>0. ASSUME NEW k \in DOMAIN rest
        PROVE  /\ rest[k] \in Clients \ {c}
               /\ srvEnd[rest[k]] = {} /\ down[rest[k]] = <<>>
    <3>1. k + 1 \in DOMAIN backlog /\ rest[k] = backlog[k + 1] /\ rest[k] # c
      BY <2>2
    <3>2. backlog[k + 1] \in Clients
      BY <3>1
    <3> HIDE DEF rest
    <3> QED
      BY <3>1, <3>2 DEF Ends
  <2>5. CASE backlog' = Tail(backlog) /\ srvEnd' = [srvEnd EXCEPT ![c] = {Server}]
    <3>1. watched' \subseteq watched \cup {c}
      BY <1>3 DEF Accept, c
    <3>2. srvEnd' \in [Clients -> {{}, {Server}}]
      BY <2>5 DEF Ends
    <3>3. \A d \in Clients : srvEnd'[d] = IF d = c THEN {Server} ELSE srvEnd[d]
      BY <2>5 DEF Ends
    <3>4. \A d \in watched' : d \in Clients /\ srvEnd'[d] = {Server}
      BY <2>2, <3>1, <3>3 DEF Ends, TypeOK
    <3>5. \A d \in Clients : browser'[d] = "new" => srvEnd'[d] = {} /\ down'[d] = <<>>
      BY <2>3, <2>4, <3>3 DEF Ends
    <3>6. \A k \in DOMAIN backlog' :
            backlog'[k] \in Clients \ {c}
            /\ srvEnd[backlog'[k]] = {} /\ down[backlog'[k]] = <<>>
      BY <2>0, <2>5
    <3>7. \A k \in DOMAIN backlog' : srvEnd'[backlog'[k]] = {} /\ down'[backlog'[k]] = <<>>
      BY <2>4, <3>3, <3>6
    <3> QED
      BY <2>2, <2>5, <3>2, <3>4, <3>5, <3>7 DEF Ends
  <2>6. CASE backlog' \in {backlog, Tail(backlog)} /\ UNCHANGED <<srvEnd, watched>>
    <3>1. \A k \in DOMAIN backlog : srvEnd[backlog[k]] = {} /\ down[backlog[k]] = <<>>
      BY DEF Ends
    <3>2. \A k \in DOMAIN backlog' : srvEnd[backlog'[k]] = {} /\ down[backlog'[k]] = <<>>
      BY <2>0, <2>6, <3>1
    <3>3. \A j, k \in DOMAIN backlog' : backlog'[j] = backlog'[k] => j = k
      BY <2>1, <2>2, <2>6
    <3> QED
      BY <2>4, <2>6, <3>2, <3>3 DEF Ends
  <2> QED
    BY <1>3, <2>5, <2>6 DEF Accept, c
<1>4. CASE Call
  BY <1>4 DEF Call, Ends, clientVars, tcpVars
<1>5. CASE RequestLine
  BY <1>5 DEF RequestLine, Ends, clientVars
<1>6. CASE HeaderLine
  BY <1>6 DEF HeaderLine, Ends, clientVars
<1>7. CASE Answer
  <2>1. UNCHANGED <<srvEnd, watched, backlog, browser>>
    BY <1>7 DEF Answer, clientVars
  <2>2. /\ browser[connfd] # "new"
        /\ \A k \in DOMAIN backlog : backlog[k] # connfd
    BY <1>7, AnswerTo DEF Ends
  <2>3. \A k \in DOMAIN backlog : backlog[k] \in Clients
    OBVIOUS
  <2> QED
    BY <1>7, <2>1, <2>2, <2>3, AnswerTo DEF Ends
<1>8. CASE Close
  <2>1. connfd \in Clients /\ srvEnd[connfd] = {Server}
    BY <1>8 DEF Close, Serving, TypeOK, Ends
  <2>2. srvEnd' = [srvEnd EXCEPT ![connfd] = {}]
    BY <1>8, <2>1 DEF Close, CloseServer
  <2>3. srvEnd' \in [Clients -> {{}, {Server}}]
    BY <2>2 DEF Ends
  <2>4. \A d \in Clients : srvEnd'[d] = IF d = connfd THEN {} ELSE srvEnd[d]
    BY <2>2 DEF Ends
  <2>5. \A d \in watched' : d \in Clients /\ srvEnd'[d] = {Server}
    BY <1>8, <2>4 DEF Close, Ends, TypeOK
  <2>6. UNCHANGED <<backlog, down, browser>>
    BY <1>8 DEF Close, clientVars
  <2>7. \A k \in DOMAIN backlog : backlog[k] \in Clients
    OBVIOUS
  <2> QED
    BY <2>3, <2>4, <2>5, <2>6, <2>7 DEF Ends
<1> QED
  BY <1>1, <1>2, <1>3, <1>4, <1>5, <1>6, <1>7, <1>8 DEF ServerStep, HttpRequest

LEMMA ServerOnly404 ==
  ASSUME Sound, Ends, Only404, ServerStep
  PROVE  Only404'
<1> USE DEF Sound, Typing
<1>1. CASE Wait
  BY <1>1 DEF Wait, Only404, Missing, tcpVars
<1>2. CASE BatchDone
  BY <1>2 DEF BatchDone, Only404, Missing, tcpVars
<1>3. CASE Accept
  <2>1. Head(backlog) \in Clients /\ down[Head(backlog)] = <<>>
    BY <1>3, Called DEF Accept, Serving, Ends
  <2>2. \A c \in Clients \ {Head(backlog)} : srvEnd'[c] = srvEnd[c]
    BY <1>3 DEF Accept, Ends
  <2>3. UNCHANGED down /\ server = "serve"
    BY <1>3 DEF Accept
  <2>4. Missing(Head(backlog))
    BY <2>1 DEF Missing
  <2>5. \A c \in Clients : srvEnd'[c] # {} => Missing(c)
    BY <2>2, <2>3, <2>4 DEF Only404
  <2> QED
    BY <2>3, <2>5 DEF Only404, Missing
<1>4. CASE Call
  BY <1>4 DEF Call, Only404, Missing, tcpVars
<1>5. CASE RequestLine
  BY <1>5 DEF RequestLine, Only404, Missing
<1>6. CASE HeaderLine
  BY <1>6 DEF HeaderLine, Only404, Missing
<1>7. CASE Answer
  <2>1. srvEnd' = srvEnd /\ server = "answer"
    BY <1>7 DEF Answer
  <2>2. PICK d \in Clients : d = connfd /\ srvEnd[d] = {Server}
    BY <1>7, AnswerTo
  <2>3. /\ \A c \in Clients \ {d} : down'[c] = down[c]
        /\ down'[d] = down[d] \/ down'[d] = down[d] \o <<[of |-> url]>>
    BY <1>7, <2>2, AnswerTo
  <2>4. ASSUME NEW c \in Clients \ {d}, srvEnd'[c] # {}
        PROVE  Missing(c)'
    BY <2>1, <2>2, <2>3, <2>4 DEF Only404, Missing
  <2>5. CASE method = "GET" /\ Closes(url)
    BY <1>7, <2>2, <2>4, <2>5 DEF Answer, Only404
  <2>6. CASE ~(method = "GET" /\ Closes(url))
    <3>1. down'[d] = down[d] \/ url = "missing"
      BY <1>7, <2>6 DEF Answer, Closes, TypeOK
    <3>2. Missing(d)
      BY <2>1, <2>2 DEF Only404
    <3>3. CASE down'[d] = down[d]
      BY <2>4, <3>2, <3>3 DEF Only404, Missing
    <3>4. CASE down'[d] = down[d] \o <<[of |-> url]>> /\ url = "missing"
      <4> DEFINE page == <<[of |-> url]>>
      <4>1. page \in Seq([of : Urls]) /\ Len(page) = 1 /\ page[1].of = "missing"
        BY <3>4 DEF Urls
      <4>2. down[d] \in Seq([of : Urls]) /\ down'[d] = down[d] \o page
        BY <3>4
      <4> HIDE DEF page
      <4>3. \A k \in DOMAIN down'[d] :
              \/ k \in DOMAIN down[d] /\ down'[d][k] = down[d][k]
              \/ down'[d][k] = page[1]
        BY <4>1, <4>2, ConcatProperties, LenProperties
      <4>4. Missing(d)'
        BY <3>2, <4>1, <4>3 DEF Missing
      <4> QED
        BY <2>4, <4>4 DEF Only404
    <3> QED
      BY <2>3, <3>1, <3>3, <3>4
  <2> QED
    BY <2>5, <2>6
<1>8. CASE Close
  <2>1. /\ connfd \in Clients /\ srvEnd[connfd] = {Server}
        /\ srvEnd' = [srvEnd EXCEPT ![connfd] = @ \ {Server}]
    BY <1>8 DEF Close, CloseServer, Serving, TypeOK, Ends
  <2>2. \A c \in Clients : srvEnd'[c] = IF c = connfd THEN {} ELSE srvEnd[c]
    BY <2>1 DEF Ends
  <2>3. UNCHANGED down /\ server = "close"
    BY <1>8 DEF Close
  <2> QED
    BY <2>2, <2>3 DEF Only404, Missing
<1> QED
  BY <1>1, <1>2, <1>3, <1>4, <1>5, <1>6, <1>7, <1>8 DEF ServerStep, HttpRequest

\* A connection that stays open when the server sleeps was told only that there
\* is no such file, for any number of clients: every other answer is followed
\* by the close of that connection, and of no other.
THEOREM OpenOnly404Always == Spec => []OpenOnly404
<1>1. Init => Ends /\ Only404
  BY DEF Init, TcpInit, Ends, Only404
<1>2. ASSUME IInv, Ends, Only404, Next
      PROVE  Ends' /\ Only404'
  BY <1>2, ClientEnds, ClientOnly404, ServerEnds, ServerOnly404 DEF Next, IInv
<1>3. ASSUME Ends, Only404, UNCHANGED vars
      PROVE  Ends' /\ Only404'
  BY <1>3 DEF vars, tcpVars, clientVars, serverVars, Ends, Only404, Missing
<1>4. IInv /\ Ends /\ Only404 /\ [Next]_vars => (Ends /\ Only404)'
  BY <1>2, <1>3
<1>5. Only404 => OpenOnly404
  BY DEF Only404, OpenOnly404, Missing, Open
<1> QED
  BY <1>1, <1>4, <1>5, Invariance, PTL DEF Spec

-----------------------------------------------------------------------------
(* Recursion over numbers                                                  *)

\* Induction: the set takes the place of the predicate.
LEMMA Induct ==
  ASSUME NEW N \in Nat, NEW S, 0 \in S, \A n \in 1..N : n - 1 \in S => n \in S
  PROVE  \A n \in 0..N : n \in S
<1> SUFFICES ASSUME {n \in 0..N : n \notin S} # {} PROVE FALSE
  OBVIOUS
<1> DEFINE R == OpToRel(<, Nat)
           T == {n \in 0..N : n \notin S}
<1>1. IsWellFoundedOn(R, Nat)
  BY NatLessThanWellFounded
<1>2. \A x, y \in Nat : x < y => <<x, y>> \in R
  BY DEF OpToRel
<1> HIDE DEF R
<1>3. T \subseteq Nat /\ T # {}
  OBVIOUS
<1>4. PICK n \in T : \A m \in T : <<m, n>> \notin R
  BY <1>1, <1>3, WFMin
<1>5. n \in 1..N /\ n - 1 \in 0..N /\ n - 1 < n
  BY <1>4
<1>6. n - 1 \notin T
  <2> SUFFICES ASSUME n - 1 \in T PROVE FALSE
    OBVIOUS
  <2>1. n - 1 \in Nat /\ n \in Nat
    BY <1>5
  <2>2. <<n - 1, n>> \in R
    BY <1>2, <1>5, <2>1
  <2> HIDE DEF T
  <2> QED
    BY <1>4, <2>2
<1> QED
  BY <1>4, <1>5, <1>6

\* f is computed one argument after the other, in X.
Computed(f, X, a, N, step) ==
  f \in [0..N -> X] /\ f[0] = a /\ \A n \in 1..N : f[n] = step[n][f[n - 1]]

\* Such a function exists.
LEMMA Recursion ==
  ASSUME NEW X, NEW a \in X, NEW N \in Nat, NEW step \in [1..N -> [X -> X]]
  PROVE  \E f : Computed(f, X, a, N, step)
<1> DEFINE S == {m \in 0..N : \E f \in [0..m -> X] :
                   f[0] = a /\ \A n \in 1..m : f[n] = step[n][f[n - 1]]}
<1>1. 0 \in S
  <2>1. PICK f \in [0..0 -> X] : f[0] = a
    <3> WITNESS [n \in 0..0 |-> a] \in [0..0 -> X]
    <3> QED
      OBVIOUS
  <2>2. \A n \in 1..0 : f[n] = step[n][f[n - 1]]
    OBVIOUS
  <2>3. \E g \in [0..0 -> X] : g[0] = a /\ \A n \in 1..0 : g[n] = step[n][g[n - 1]]
    BY <2>1, <2>2, Zenon
  <2> QED
    BY <2>3
<1>2. ASSUME NEW m \in 1..N, m - 1 \in S PROVE m \in S
  <2>1. PICK g \in [0..m - 1 -> X] :
          g[0] = a /\ \A n \in 1..m - 1 : g[n] = step[n][g[n - 1]]
    BY <1>2
  <2> DEFINE h == [n \in 0..m |-> IF n = m THEN step[m][g[m - 1]] ELSE g[n]]
  <2>2. m - 1 \in 0..m - 1 /\ step[m][g[m - 1]] \in X
    OBVIOUS
  <2>3. h \in [0..m -> X]
    BY <2>2
  <2>4. h[m] = step[m][g[m - 1]] /\ \A n \in 0..m - 1 : h[n] = g[n]
    OBVIOUS
  <2> HIDE DEF h
  <2>5. h[0] = a /\ \A n \in 1..m : h[n] = step[n][h[n - 1]]
    <3>1. ASSUME NEW n \in 1..m PROVE h[n] = step[n][h[n - 1]]
      <4>1. CASE n = m
        BY <2>2, <2>4, <4>1
      <4>2. CASE n \in 1..m - 1
        BY <2>1, <2>4, <4>2
      <4> QED
        BY <4>1, <4>2
    <3> QED
      BY <2>1, <2>4, <3>1
  <2> QED
    BY <2>3, <2>5
<1> HIDE DEF S
<1>3. \A m \in 0..N : m \in S
  BY <1>1, <1>2, Induct, Zenon
<1>4. N \in S
  BY <1>3
<1> QED
  BY <1>4 DEF S, Computed

\* What each step keeps in X is in X to the end.
LEMMA Stays ==
  ASSUME NEW N \in Nat, NEW X, NEW u, u[0] \in X,
         \A n \in 1..N : u[n - 1] \in X => u[n] \in X
  PROVE  \A n \in 0..N : u[n] \in X
<1> DEFINE S == {n \in 0..N : u[n] \in X}
<1>1. 0 \in S /\ \A n \in 1..N : n - 1 \in S => n \in S
  OBVIOUS
<1> HIDE DEF S
<1>2. \A n \in 0..N : n \in S
  BY <1>1, Induct, Zenon
<1> QED
  BY <1>2 DEF S

-----------------------------------------------------------------------------
(* The streams of get_line                                                 *)

Char == 0..255

\* What character n of stream t adds to the unified stream s.
UnifyStep(t, l, n, s) ==
  IF t[n] = LF /\ n > 1 /\ t[n - 1] = CR /\ n - 1 \notin l THEN s
  ELSE Append(s, IF t[n] = CR THEN LF ELSE t[n])

UnifiedOf(t, l) ==
  CHOOSE u : u = [n \in 0..Len(t) |->
                    IF n = 0 THEN <<>>
                    ELSE IF t[n] = LF /\ n > 1 /\ t[n - 1] = CR /\ n - 1 \notin l THEN u[n - 1]
                    ELSE Append(u[n - 1], IF t[n] = CR THEN LF ELSE t[n])]

FlatOf(ls) ==
  CHOOSE f : f = [k \in 0..Len(ls) |-> IF k = 0 THEN <<>> ELSE f[k - 1] \o ls[k]]

\* What line k of ls adds to the stream s.
FlatStep(ls, k, s) == s \o ls[k]

\* The two streams of the state, by what they depend on.
LEMMA StreamsAre ==
  /\ Unified = UnifiedOf(text, late) /\ Unified' = UnifiedOf(text', late')
  /\ Flat = FlatOf(lines) /\ Flat' = FlatOf(lines')
<1>1. Unified = UnifiedOf(text, late)
  BY DEF Unified, UnifiedOf
<1>2. Unified' = UnifiedOf(text', late')
  BY DEF Unified, UnifiedOf
<1>3. Flat = FlatOf(lines)
  BY DEF Flat, FlatOf
<1>4. Flat' = FlatOf(lines')
  BY DEF Flat, FlatOf
<1> QED
  BY <1>1, <1>2, <1>3, <1>4

\* The unified stream grows by a step per character.
LEMMA UnifiedIs ==
  ASSUME NEW t \in Seq(1..255), NEW l
  PROVE  /\ UnifiedOf(t, l)[0] = <<>>
         /\ \A n \in 1..Len(t) : UnifiedOf(t, l)[n] = UnifyStep(t, l, n, UnifiedOf(t, l)[n - 1])
         /\ \A n \in 0..Len(t) : UnifiedOf(t, l)[n] \in Seq(Char)
<1>1. PICK N \in Nat : N = Len(t)
  BY LenProperties
<1>2. PICK X : X = Seq(Char)
  OBVIOUS
<1>3. \A n \in 1..N : t[n] \in Char
  <2>1. \A n \in 1..N : t[n] \in 1..255
    BY <1>1, ElementOfSeq
  <2> QED
    BY <2>1 DEF Char
<1>4. ASSUME NEW n \in 1..N, NEW s \in X PROVE UnifyStep(t, l, n, s) \in X
  <2>1. LF \in Char
    BY DEF Char, LF
  <2>2. \A e \in Char : Append(s, e) \in X
    BY <1>2, AppendProperties
  <2> QED
    BY <1>3, <2>1, <2>2 DEF UnifyStep
<1>5. PICK step \in [1..N -> [X -> X]] :
        \A n \in 1..N, s \in X : step[n][s] = UnifyStep(t, l, n, s)
  <2> DEFINE g == [n \in 1..N |-> [s \in X |-> UnifyStep(t, l, n, s)]]
  <2>1. g \in [1..N -> [X -> X]]
    BY <1>4
  <2>2. \A n \in 1..N, s \in X : g[n][s] = UnifyStep(t, l, n, s)
    OBVIOUS
  <2> HIDE DEF g
  <2> QED
    BY <2>1, <2>2
<1>6. <<>> \in X
  BY <1>2
<1>7. PICK f \in [0..N -> X] : f[0] = <<>> /\ \A n \in 1..N : f[n] = step[n][f[n - 1]]
  <2>1. \E f : Computed(f, X, <<>>, N, step)
    BY <1>6, Recursion, Zenon
  <2> QED
    BY <2>1, Zenon DEF Computed
<1>8. \A n \in 1..N : n - 1 \in 0..N /\ f[n] = UnifyStep(t, l, n, f[n - 1])
  BY <1>5, <1>7
<1>9. f = [n \in 0..N |-> IF n = 0 THEN <<>> ELSE UnifyStep(t, l, n, f[n - 1])]
  <2>1. \A n \in 0..N : f[n] = IF n = 0 THEN <<>> ELSE UnifyStep(t, l, n, f[n - 1])
    BY <1>7, <1>8
  <2> QED
    BY <2>1
<1> DEFINE u == UnifiedOf(t, l)
<1>10. u = [n \in 0..N |-> IF n = 0 THEN <<>> ELSE UnifyStep(t, l, n, u[n - 1])]
  BY <1>1, <1>9, Zenon DEF UnifiedOf, UnifyStep
<1> HIDE DEF u
<1>11. u[0] = <<>> /\ \A n \in 1..N : u[n] = UnifyStep(t, l, n, u[n - 1])
  BY <1>10
<1>12. \A n \in 0..N : u[n] \in X
  <2>1. u[0] \in X /\ \A n \in 1..N : u[n - 1] \in X => u[n] \in X
    BY <1>4, <1>6, <1>11
  <2> QED
    BY <2>1, Stays, Zenon
<1> QED
  BY <1>1, <1>2, <1>11, <1>12 DEF u

\* What is late further on does not matter for what comes before.
LEMMA UnifiedSame ==
  ASSUME NEW t \in Seq(1..255), NEW l, NEW more, NEW k \in 0..Len(t),
         \A n \in 1..k - 1 : n \in l <=> n \in more
  PROVE  UnifiedOf(t, l)[k] = UnifiedOf(t, more)[k]
<1> DEFINE u == UnifiedOf(t, l)
           v == UnifiedOf(t, more)
<1>1. k \in Nat /\ Len(t) \in Nat /\ k <= Len(t)
  OBVIOUS
<1>2. /\ u[0] = <<>> /\ \A n \in 1..Len(t) : u[n] = UnifyStep(t, l, n, u[n - 1])
      /\ v[0] = <<>> /\ \A n \in 1..Len(t) : v[n] = UnifyStep(t, more, n, v[n - 1])
  BY UnifiedIs
<1> HIDE DEF u, v
<1>3. ASSUME NEW n \in 1..k, u[n - 1] = v[n - 1] PROVE u[n] = v[n]
  <2>1. n > 1 => (n - 1 \in l <=> n - 1 \in more)
    OBVIOUS
  <2>2. UnifyStep(t, l, n, u[n - 1]) = UnifyStep(t, more, n, v[n - 1])
    BY <1>3, <2>1 DEF UnifyStep
  <2> QED
    BY <1>1, <1>2, <2>2
<1> DEFINE S == {n \in 0..k : u[n] = v[n]}
<1>4. \A n \in 0..k : n \in S
  <2>1. 0 \in S /\ \A n \in 1..k : n - 1 \in S => n \in S
    BY <1>1, <1>2, <1>3
  <2>2. k \in Nat
    BY <1>1
  <2> HIDE DEF S
  <2> QED
    BY <2>1, <2>2, Induct, Zenon
<1> QED
  BY <1>1, <1>4 DEF u, v

\* The stream of what was returned grows by a line at a time.
LEMMA FlatIs ==
  ASSUME NEW ls \in Seq(Seq(Char))
  PROVE  /\ FlatOf(ls)[0] = <<>>
         /\ \A k \in 1..Len(ls) : FlatOf(ls)[k] = FlatOf(ls)[k - 1] \o ls[k]
         /\ \A k \in 0..Len(ls) : FlatOf(ls)[k] \in Seq(Char)
<1>1. PICK N \in Nat : N = Len(ls)
  BY LenProperties
<1>2. PICK X : X = Seq(Char)
  OBVIOUS
<1>3. \A n \in 1..N : ls[n] \in X
  BY <1>1, <1>2, ElementOfSeq
<1>4. \A n \in 1..N, s \in X : FlatStep(ls, n, s) \in X
  BY <1>2, <1>3, ConcatProperties DEF FlatStep
<1>5. PICK step \in [1..N -> [X -> X]] : \A n \in 1..N, s \in X : step[n][s] = FlatStep(ls, n, s)
  <2> DEFINE g == [n \in 1..N |-> [s \in X |-> FlatStep(ls, n, s)]]
  <2>1. g \in [1..N -> [X -> X]]
    BY <1>4
  <2>2. \A n \in 1..N, s \in X : g[n][s] = FlatStep(ls, n, s)
    OBVIOUS
  <2> HIDE DEF g
  <2> QED
    BY <2>1, <2>2
<1>6. <<>> \in X
  BY <1>2
<1>7. PICK f \in [0..N -> X] : f[0] = <<>> /\ \A n \in 1..N : f[n] = step[n][f[n - 1]]
  <2>1. \E f : Computed(f, X, <<>>, N, step)
    BY <1>6, Recursion, Zenon
  <2> QED
    BY <2>1, Zenon DEF Computed
<1>8. \A n \in 1..N : n - 1 \in 0..N /\ f[n] = FlatStep(ls, n, f[n - 1])
  BY <1>5, <1>7
<1>9. f = [n \in 0..N |-> IF n = 0 THEN <<>> ELSE FlatStep(ls, n, f[n - 1])]
  <2>1. \A n \in 0..N : f[n] = IF n = 0 THEN <<>> ELSE FlatStep(ls, n, f[n - 1])
    BY <1>7, <1>8
  <2> QED
    BY <2>1
<1> DEFINE u == FlatOf(ls)
<1>10. u = [n \in 0..N |-> IF n = 0 THEN <<>> ELSE FlatStep(ls, n, u[n - 1])]
  BY <1>1, <1>9, Zenon DEF FlatOf, FlatStep
<1> HIDE DEF u
<1>11. u[0] = <<>> /\ \A n \in 1..N : u[n] = FlatStep(ls, n, u[n - 1])
  BY <1>10
<1>12. \A n \in 0..N : u[n] \in X
  <2>1. u[0] \in X /\ \A n \in 1..N : u[n - 1] \in X => u[n] \in X
    BY <1>4, <1>6, <1>11
  <2> QED
    BY <2>1, Stays, Zenon
<1> QED
  BY <1>1, <1>2, <1>11, <1>12 DEF u, FlatStep

\* One line more is what it holds at the end.
LEMMA FlatMore ==
  ASSUME NEW ls \in Seq(Seq(Char)), NEW line \in Seq(Char)
  PROVE  FlatOf(Append(ls, line))[Len(Append(ls, line))] = FlatOf(ls)[Len(ls)] \o line
<1>1. PICK N \in Nat : N = Len(ls)
  BY LenProperties
<1>2. PICK more \in Seq(Seq(Char)) : more = Append(ls, line)
  BY AppendProperties
<1>3. Len(more) = N + 1 /\ more[N + 1] = line /\ \A n \in 1..N : more[n] = ls[n]
  BY <1>1, <1>2, AppendProperties
<1> DEFINE u == FlatOf(ls)
           v == FlatOf(more)
<1>4. u[0] = <<>> /\ \A n \in 1..N : u[n] = u[n - 1] \o ls[n]
  BY <1>1, FlatIs
<1>5. v[0] = <<>> /\ \A n \in 1..N + 1 : v[n] = v[n - 1] \o more[n]
  BY <1>3, FlatIs
<1> HIDE DEF u, v
<1>6. ASSUME NEW n \in 1..N, u[n - 1] = v[n - 1] PROVE u[n] = v[n]
  <2>1. n \in 1..N + 1
    OBVIOUS
  <2>2. v[n] = v[n - 1] \o more[n] /\ u[n] = u[n - 1] \o ls[n]
    BY <1>4, <1>5, <2>1
  <2> QED
    BY <1>3, <1>6, <2>2
<1> DEFINE S == {n \in 0..N : u[n] = v[n]}
<1>7. \A n \in 0..N : n \in S
  <2>1. 0 \in S
    BY <1>4, <1>5
  <2>2. \A n \in 1..N : n - 1 \in S => n \in S
    BY <1>6
  <2> HIDE DEF S
  <2> QED
    BY <2>1, <2>2, Induct, Zenon
<1>8. v[N + 1] = v[N] \o line
  <2>1. N + 1 \in 1..N + 1 /\ (N + 1) - 1 = N
    OBVIOUS
  <2> QED
    BY <1>3, <1>5, <2>1
<1>9. u[N] = v[N]
  BY <1>7
<1> QED
  BY <1>1, <1>2, <1>3, <1>8, <1>9 DEF u, v

-----------------------------------------------------------------------------
(* get_line                                                                *)

GetLineTypeOK ==
  /\ text \in Seq(1..255) /\ arrived \in 0..Len(text) /\ taken \in 0..arrived
  /\ buf \in Seq(Char) /\ ch \in Char
  /\ pc \in {"call", "recv", "peek", "eat", "store"}
  /\ lines \in Seq(Seq(Char)) /\ late \subseteq 1..taken

\* While a CR waits for its LF ("peek", "eat") it is not late; at other times
\* a LF that is still behind a CR is.
Pairs ==
  /\ pc \in {"peek", "eat"} => taken >= 1 /\ text[taken] = CR /\ taken \notin late
  /\ pc = "eat" => taken < arrived /\ text[taken + 1] = LF /\ ch = LF
  /\ pc \in {"call", "recv", "store"} =>
       (taken >= 1 /\ taken < Len(text) /\ text[taken] = CR /\ text[taken + 1] = LF
          => taken \in late)

\* The line that is being read: it fits, and a '\n' can only be its last character.
Growing ==
  /\ pc \in {"peek", "eat", "store"} =>
       Len(buf) + 1 < size /\ \A m \in 1..Len(buf) : buf[m] # LF
  /\ pc = "recv" =>
       Len(buf) < size /\ \A m \in 1..Len(buf) : buf[m] = LF => m = Len(buf) /\ ch = LF

\* What was returned and the line that is being read are what was taken, unified.
Content ==
  /\ pc = "call" => Flat[Len(lines)] = Unified[taken]
  /\ pc = "recv" => Flat[Len(lines)] \o buf = Unified[taken]
  /\ pc = "peek" => Flat[Len(lines)] \o Append(buf, LF) = Unified[taken]
  /\ pc \in {"eat", "store"} => Flat[Len(lines)] \o Append(buf, ch) = Unified[taken]

LineInv == GetLineTypeOK /\ Pairs /\ Growing /\ Content /\ LineShape

\* What arrives is a sequence of characters, no NUL among them.
LEMMA TextsAre == Texts \subseteq Seq(1..255)
<1> SUFFICES ASSUME NEW n \in 0..MaxText, NEW t \in [1..n -> Alphabet] PROVE t \in Seq(1..255)
  BY DEF Texts
<1>1. n \in Nat /\ t \in [1..n -> 1..255]
  <2>1. n \in Nat
    BY PubAssumption
  <2>2. \A e \in Alphabet : e \in 1..255
    BY PubAssumption
  <2>3. \A m \in 1..n : t[m] \in 1..255
    BY <2>2
  <2> QED
    BY <2>1, <2>3
<1> QED
  BY <1>1

\* Appending to the second of two sequences is appending to both.
LEMMA AppendBehind ==
  ASSUME NEW x \in Seq(Char), NEW y \in Seq(Char), NEW e \in Char
  PROVE  x \o Append(y, e) = Append(x \o y, e)
OBVIOUS

\* The streams while get_line runs.
LEMMA Streams ==
  ASSUME GetLineTypeOK
  PROVE  /\ Flat[Len(lines)] \in Seq(Char)
         /\ \A n \in 0..Len(text) : Unified[n] \in Seq(Char)
         /\ Unified[0] = <<>> /\ Flat[0] = <<>>
         /\ \A n \in 1..Len(text) : Unified[n] = UnifyStep(text, late, n, Unified[n - 1])
<1>1. text \in Seq(1..255) /\ lines \in Seq(Seq(Char)) /\ Len(lines) \in 0..Len(lines)
  BY LenProperties DEF GetLineTypeOK
<1> QED
  BY <1>1, StreamsAre, UnifiedIs, FlatIs

\* Nothing has arrived and nothing has been read.
LEMMA GetLineInitInv == GetLineInit => LineInv
<1> SUFFICES ASSUME GetLineInit PROVE LineInv
  OBVIOUS
<1>1. GetLineTypeOK
  <2>1. text \in Seq(1..255)
    BY TextsAre DEF GetLineInit
  <2> QED
    BY <2>1 DEF GetLineInit, GetLineTypeOK, Char, NUL
<1>2. Content
  <2>1. Len(lines) = 0 /\ taken = 0
    BY DEF GetLineInit
  <2> QED
    BY <1>1, <2>1, Streams DEF GetLineInit, Content
<1> QED
  <2>1. Pairs
    BY DEF GetLineInit, Pairs
  <2>2. Growing /\ LineShape
    BY DEF GetLineInit, Growing, LineShape
  <2> QED
    BY <1>1, <1>2, <2>1, <2>2 DEF LineInv

\* What arrives is not read yet.
LEMMA ArriveInv == LineInv /\ Arrive => LineInv'
<1> SUFFICES ASSUME LineInv, Arrive PROVE LineInv'
  OBVIOUS
<1> USE DEF LineInv, Arrive
<1>1. GetLineTypeOK'
  BY LenProperties DEF GetLineTypeOK
<1>2. Unified' = Unified /\ Flat' = Flat
  BY StreamsAre
<1>3. Content'
  BY <1>2 DEF Content
<1>4. Pairs'
  BY DEF Pairs, GetLineTypeOK
<1>5. Growing' /\ LineShape'
  BY DEF Growing, LineShape
<1> QED
  BY <1>1, <1>3, <1>4, <1>5

\* A call starts with an empty line.
LEMMA GetLineInv == LineInv /\ GetLine => LineInv'
<1> SUFFICES ASSUME LineInv, GetLine PROVE LineInv'
  OBVIOUS
<1> USE DEF LineInv, GetLine
<1>1. GetLineTypeOK'
  BY DEF GetLineTypeOK, Char, NUL
<1>2. Unified' = Unified /\ Flat' = Flat
  BY StreamsAre
<1>3. Content'
  <2>1. Flat[Len(lines)] \o <<>> = Flat[Len(lines)]
    BY Streams
  <2> QED
    BY <1>2, <2>1 DEF Content
<1>4. Pairs' /\ LineShape'
  BY DEF Pairs, LineShape
<1>5. Growing'
  BY PubAssumption DEF Growing
<1> QED
  BY <1>1, <1>3, <1>4, <1>5

\* A CR is put down as a LF at once; another character is its own line end or none,
\* because a LF behind a CR is met here only when it came late.
LEMMA RecvInv == LineInv /\ Recv => LineInv'
<1> SUFFICES ASSUME LineInv, Recv PROVE LineInv'
  OBVIOUS
<1> USE DEF LineInv, Recv
<1>1. Unified' = Unified /\ Flat' = Flat
  BY StreamsAre
<1>2. LineShape'
  BY DEF LineShape
<1>3. Len(buf) \in Nat /\ Len(buf) + 1 < size /\ \A m \in 1..Len(buf) : buf[m] # LF
  BY PubAssumption, LenProperties DEF Growing, Looping, GetLineTypeOK
<1>4. CASE ~(taken < arrived)
  <2>1. GetLineTypeOK'
    BY <1>4 DEF GetLineTypeOK, Char, LF
  <2>2. Content'
    BY <1>1, <1>4 DEF Content
  <2>3. Pairs'
    BY <1>4 DEF Pairs
  <2>4. Growing'
    BY <1>3, <1>4, PubAssumption DEF Growing
  <2> QED
    BY <1>2, <2>1, <2>2, <2>3, <2>4
<1>5. CASE taken < arrived
  <2>1. taken + 1 \in 1..Len(text) /\ text[taken + 1] \in 1..255 /\ (taken + 1) - 1 = taken
    <3>1. /\ text \in Seq(1..255) /\ Len(text) \in Nat /\ arrived \in 0..Len(text)
          /\ taken \in Nat
      BY LenProperties DEF GetLineTypeOK
    <3>2. taken + 1 \in 1..Len(text) /\ (taken + 1) - 1 = taken
      BY <1>5, <3>1
    <3> QED
      BY <3>1, <3>2, ElementOfSeq
  <2>2. /\ ch' = text[taken + 1] /\ taken' = taken + 1
        /\ pc' = IF ch' = CR THEN "peek" ELSE "store"
    BY <1>5
  <2>3. GetLineTypeOK'
    BY <1>5, <2>1, <2>2 DEF GetLineTypeOK, Char
  <2>4. Pairs'
    BY <1>5, <2>1, <2>2 DEF Pairs, GetLineTypeOK, CR
  <2>5. Growing'
    BY <1>3, <2>2 DEF Growing
  <2>6. Unified[taken + 1] = Append(Unified[taken], IF ch' = CR THEN LF ELSE ch')
    <3>1. Unified[taken + 1] = UnifyStep(text, late, taken + 1, Unified[taken])
      BY <2>1, Streams
    <3>2. ~(/\ text[taken + 1] = LF /\ taken + 1 > 1 /\ text[taken] = CR /\ taken \notin late)
      BY <2>1 DEF Pairs, GetLineTypeOK
    <3> QED
      BY <2>1, <2>2, <3>1, <3>2 DEF UnifyStep
  <2>7. Unified[taken + 1] = Flat[Len(lines)] \o Append(buf, IF ch' = CR THEN LF ELSE ch')
    <3>1. Flat[Len(lines)] \o buf = Unified[taken]
      BY DEF Content
    <3>2. (IF ch' = CR THEN LF ELSE ch') \in Char
      BY <2>1, <2>2 DEF Char, LF
    <3>3. Flat[Len(lines)] \in Seq(Char) /\ buf \in Seq(Char)
      BY Streams DEF GetLineTypeOK
    <3>4. Flat[Len(lines)] \o Append(buf, IF ch' = CR THEN LF ELSE ch')
            = Append(Flat[Len(lines)] \o buf, IF ch' = CR THEN LF ELSE ch')
      BY <3>2, <3>3, AppendBehind, Zenon
    <3> QED
      BY <2>6, <3>1, <3>4
  <2>8. Content'
    BY <1>1, <2>2, <2>7 DEF Content
  <2> QED
    BY <1>2, <2>3, <2>4, <2>5, <2>8
<1> QED
  BY <1>4, <1>5

\* Either the LF is there and will be eaten, or the CR is late from now on.
LEMMA PeekInv == LineInv /\ Peek => LineInv'
<1> SUFFICES ASSUME LineInv, Peek PROVE LineInv'
  OBVIOUS
<1> USE DEF LineInv, Peek
<1>1. Flat' = Flat
  BY StreamsAre
<1>2. taken \in 1..Len(text) /\ Len(text) \in Nat /\ text \in Seq(1..255)
  BY DEF Pairs, GetLineTypeOK
<1>3. GetLineTypeOK'
  BY <1>2 DEF GetLineTypeOK, Char, LF
<1>4. Unified'[taken] = Unified[taken]
  <2>1. taken \in 0..Len(text) /\ \A n \in 1..taken - 1 : n \in late <=> n \in late'
    BY <1>2
  <2> QED
    BY <1>2, <2>1, StreamsAre, UnifiedSame
<1>5. Content'
  BY <1>1, <1>4 DEF Content
<1>6. Pairs'
  BY <1>2 DEF Pairs, GetLineTypeOK
<1>7. Growing' /\ LineShape'
  BY DEF Growing, LineShape
<1> QED
  BY <1>3, <1>5, <1>6, <1>7

\* The LF of a CR adds nothing to the unified stream.
LEMMA EatInv == LineInv /\ Eat => LineInv'
<1> SUFFICES ASSUME LineInv, Eat PROVE LineInv'
  OBVIOUS
<1> USE DEF LineInv, Eat
<1>1. Flat' = Flat /\ Unified' = Unified
  BY StreamsAre
<1>2. /\ taken + 1 \in 1..Len(text) /\ text[taken + 1] = LF /\ ch = LF /\ ch' = LF
      /\ taken \in Nat /\ taken >= 1 /\ text[taken] = CR /\ taken \notin late
  BY DEF Pairs, GetLineTypeOK
<1>3. GetLineTypeOK'
  BY <1>2 DEF GetLineTypeOK, Pairs, Char, LF
<1>4. Unified[taken + 1] = Unified[taken]
  <2>1. (taken + 1) - 1 = taken /\ taken + 1 > 1
    BY <1>2
  <2>2. Unified[taken + 1] = UnifyStep(text, late, taken + 1, Unified[taken])
    BY <1>2, <2>1, Streams
  <2> QED
    BY <1>2, <2>1, <2>2 DEF UnifyStep
<1>5. Content'
  BY <1>1, <1>2, <1>4 DEF Content
<1>6. Pairs'
  BY <1>2 DEF Pairs, LF, CR
<1>7. Growing' /\ LineShape'
  BY DEF Growing, LineShape
<1> QED
  BY <1>3, <1>5, <1>6, <1>7

\* The character joins the line.
LEMMA StoreInv == LineInv /\ Store => LineInv'
<1> SUFFICES ASSUME LineInv, Store PROVE LineInv'
  OBVIOUS
<1> USE DEF LineInv, Store
<1>1. Flat' = Flat /\ Unified' = Unified
  BY StreamsAre
<1>2. buf \in Seq(Char) /\ ch \in Char
  BY DEF GetLineTypeOK
<1>3. /\ buf' \in Seq(Char) /\ Len(buf) \in Nat /\ Len(buf') = Len(buf) + 1
      /\ buf'[Len(buf) + 1] = ch /\ \A m \in 1..Len(buf) : buf'[m] = buf[m]
  BY <1>2, AppendProperties, LenProperties
<1>4. GetLineTypeOK'
  BY <1>3 DEF GetLineTypeOK
<1>5. Content' /\ Pairs' /\ LineShape'
  BY <1>1 DEF Content, Pairs, LineShape
<1>6. Growing'
  BY <1>3 DEF Growing
<1> QED
  BY <1>4, <1>5, <1>6

\* The line joins what has been returned.
LEMMA ReturnInv == LineInv /\ Return => LineInv'
<1> SUFFICES ASSUME LineInv, Return PROVE LineInv'
  OBVIOUS
<1> USE DEF LineInv, Return
<1>1. Unified' = Unified
  BY StreamsAre
<1>2. buf \in Seq(Char) /\ lines \in Seq(Seq(Char)) /\ Len(buf) \in Nat
  BY LenProperties DEF GetLineTypeOK
<1>3. Flat'[Len(lines')] = Flat[Len(lines)] \o buf
  <2>1. CASE buf = <<>>
    <3>1. Flat[Len(lines)] \o <<>> = Flat[Len(lines)]
      BY Streams
    <3> QED
      BY <2>1, <3>1, StreamsAre
  <2>2. CASE buf # <<>>
    BY <1>2, <2>2, StreamsAre, FlatMore
  <2> QED
    BY <2>1, <2>2
<1>4. Content'
  BY <1>1, <1>3 DEF Content
<1>5. GetLineTypeOK'
  BY <1>2, AppendProperties DEF GetLineTypeOK
<1>6. Pairs' /\ Growing'
  BY DEF Pairs, Growing
<1>7. LineShape'
  <2>1. Len(buf) < size /\ \A m \in 1..Len(buf) - 1 : buf[m] # LF
    BY <1>2 DEF Growing
  <2> QED
    BY <1>2, <2>1, AppendProperties DEF LineShape
<1> QED
  BY <1>4, <1>5, <1>6, <1>7

\* Every step of get_line and of the stream keeps LineInv.
LEMMA GetLineStepInv == LineInv /\ [GetLineNext]_getLineVars => LineInv'
<1> SUFFICES ASSUME LineInv, [GetLineNext]_getLineVars PROVE LineInv'
  OBVIOUS
<1>1. CASE UNCHANGED getLineVars
  <2>1. Unified' = Unified /\ Flat' = Flat
    BY <1>1, StreamsAre DEF getLineVars
  <2> QED
    BY <1>1, <2>1 DEF LineInv, GetLineTypeOK, Pairs, Growing, Content, LineShape, getLineVars
<1> QED
  BY <1>1, ArriveInv, GetLineInv, RecvInv, PeekInv, EatInv, StoreInv, ReturnInv
     DEF GetLineNext

\* What get_line returns is what the stream holds, every line end one '\n' unless
\* it arrives cut in two, and no line is longer than the buffer (pub.c:68-98).
THEOREM LinesFaithfulAlways == GetLineSpec => []LinesFaithful
<1>1. GetLineSpec => []LineInv
  BY GetLineInitInv, GetLineStepInv, PTL DEF GetLineSpec
<1>2. LineInv => LinesFaithful
  BY DEF LineInv, Content, LinesFaithful, OneLineEnd
<1> QED
  BY <1>1, <1>2, PTL

-----------------------------------------------------------------------------
(* strencode and strdecode                                                 *)

\* Two sequences, one behind the other.
LEMMA ConcatBehind ==
  ASSUME NEW x \in Seq(Char), NEW y \in Seq(Char)
  PROVE  /\ x \o y \in Seq(Char) /\ Len(x) \in Nat /\ Len(y) \in Nat
         /\ Len(x \o y) = Len(x) + Len(y)
         /\ \A a \in 1..Len(x) : (x \o y)[a] = x[a]
         /\ \A a \in 1..Len(y) : (x \o y)[Len(x) + a] = y[a]
OBVIOUS

\* Part m of ls is found in the stream behind the parts before it.
LEMMA FlatAt ==
  ASSUME NEW ls \in Seq(Seq(Char)), NEW n \in 0..Len(ls), NEW k \in 1..n,
         NEW i \in 1..Len(ls[k])
  PROVE  /\ Len(FlatOf(ls)[k - 1]) + i <= Len(FlatOf(ls)[n])
         /\ FlatOf(ls)[n][Len(FlatOf(ls)[k - 1]) + i] = ls[k][i]
<1>1. PICK N \in Nat : N = Len(ls)
  BY LenProperties
<1> DEFINE f == FlatOf(ls)
<1>2. /\ \A m \in 1..N : f[m] = f[m - 1] \o ls[m]
      /\ \A m \in 0..N : f[m] \in Seq(Char)
  BY <1>1, FlatIs
<1>3. \A m \in 1..N : ls[m] \in Seq(Char)
  BY <1>1, ElementOfSeq
<1> HIDE DEF f
<1>4. ASSUME NEW m \in 1..N
      PROVE  /\ Len(f[m - 1]) \in Nat /\ Len(f[m]) = Len(f[m - 1]) + Len(ls[m])
             /\ Len(ls[m]) \in Nat
             /\ \A a \in 1..Len(f[m - 1]) : f[m][a] = f[m - 1][a]
             /\ \A a \in 1..Len(ls[m]) : f[m][Len(f[m - 1]) + a] = ls[m][a]
  <2>1. m - 1 \in 0..N
    OBVIOUS
  <2>2. f[m - 1] \in Seq(Char) /\ ls[m] \in Seq(Char) /\ f[m] = f[m - 1] \o ls[m]
    BY <1>2, <1>3, <2>1
  <2>3. /\ Len(f[m - 1]) \in Nat /\ Len(f[m - 1] \o ls[m]) = Len(f[m - 1]) + Len(ls[m])
        /\ Len(ls[m]) \in Nat
        /\ \A a \in 1..Len(f[m - 1]) : (f[m - 1] \o ls[m])[a] = f[m - 1][a]
        /\ \A a \in 1..Len(ls[m]) : (f[m - 1] \o ls[m])[Len(f[m - 1]) + a] = ls[m][a]
    BY <2>2, ConcatBehind, Zenon
  <2> QED
    BY <2>2, <2>3, Zenon
<1> DEFINE At(m) == \A j \in 1..m : \A a \in 1..Len(ls[j]) :
                      /\ Len(f[j - 1]) + a <= Len(f[m])
                      /\ f[m][Len(f[j - 1]) + a] = ls[j][a]
           S == {m \in 0..N : At(m)}
<1>5. 0 \in S
  OBVIOUS
<1>6. ASSUME NEW m \in 1..N, m - 1 \in S PROVE m \in S
  <2>1. At(m - 1)
    BY <1>6
  <2>2. ASSUME NEW j \in 1..m, NEW a \in 1..Len(ls[j])
        PROVE  /\ Len(f[j - 1]) + a <= Len(f[m])
               /\ f[m][Len(f[j - 1]) + a] = ls[j][a]
    <3>1. CASE j = m
      <4>1. a \in 1..Len(ls[m])
        BY <3>1
      <4>2. /\ Len(f[m - 1]) \in Nat /\ Len(f[m]) = Len(f[m - 1]) + Len(ls[m])
            /\ Len(ls[m]) \in Nat /\ f[m][Len(f[m - 1]) + a] = ls[m][a]
        BY <1>4, <4>1
      <4> QED
        BY <3>1, <4>1, <4>2
    <3>2. CASE j \in 1..m - 1
      <4>1. /\ Len(f[j - 1]) + a <= Len(f[m - 1])
            /\ f[m - 1][Len(f[j - 1]) + a] = ls[j][a]
        BY <2>1, <3>2
      <4>2. j \in 1..N /\ Len(f[j - 1]) \in Nat /\ a \in Nat /\ a >= 1
        BY <1>4, <3>2
      <4>3. /\ Len(f[m - 1]) \in Nat /\ Len(f[m]) = Len(f[m - 1]) + Len(ls[m])
            /\ Len(ls[m]) \in Nat
        BY <1>4
      <4>4. \A b \in 1..Len(f[m - 1]) : f[m][b] = f[m - 1][b]
        BY <1>4
      <4>5. PICK b \in 1..Len(f[m - 1]) : b = Len(f[j - 1]) + a
        BY <4>1, <4>2, <4>3
      <4>6. f[m][b] = ls[j][a]
        BY <4>1, <4>5, <4>4
      <4>7. b <= Len(f[m])
        <5>1. b \in Nat /\ b <= Len(f[m - 1])
          BY <4>3
        <5>2. \A x, y \in Nat : b <= x => b <= x + y
          BY <5>1
        <5> QED
          BY <4>3, <5>1, <5>2, Zenon
      <4> QED
        BY <4>5, <4>6, <4>7
    <3> QED
      BY <3>1, <3>2
  <2>3. At(m)
    BY <2>2
  <2> HIDE DEF At
  <2> QED
    BY <2>3
<1> HIDE DEF S
<1>7. \A m \in 0..N : m \in S
  BY <1>5, <1>6, Induct, Zenon
<1>8. At(n)
  <2>1. n \in S
    BY <1>1, <1>7
  <2> QED
    BY <2>1 DEF S
<1> QED
  BY <1>8 DEF f

\* The characters of s as strencode writes them.
EscapedAll(s) == [k \in 1..Len(s) |-> Escaped(s[k])]

\* A digit that strencode writes is one that strdecode reads.
LEMMA HexDigits ==
  ASSUME NEW v \in 0..15
  PROVE  /\ HexDigit(v) \in 1..255 /\ Plain(HexDigit(v))
         /\ isxdigit(HexDigit(v)) /\ hexit(HexDigit(v)) = v
BY DEF HexDigit, Plain, isalnum, isxdigit, hexit, IsDigit, IsLower, IsUpper

\* A byte is its two hexadecimal digits.
LEMMA ByteIs ==
  ASSUME NEW c \in 1..255
  PROVE  /\ c \div 16 \in 0..15 /\ c % 16 \in 0..15
         /\ ((c \div 16) * 16 + (c % 16)) % 256 = c
<1>1. c \div 16 \in Int /\ c % 16 \in 0..15
  OBVIOUS
<1>2. c = (c \div 16) * 16 + (c % 16)
  OBVIOUS
<1>3. c % 256 = c
  OBVIOUS
<1>4. c \div 16 \in 0..15
  OBVIOUS
<1> QED
  BY <1>1, <1>2, <1>3, <1>4

\* A character is written as one character or three, none of them special.
LEMMA EscapedIs ==
  ASSUME NEW c \in 1..255
  PROVE  /\ Escaped(c) \in Seq(Char) /\ Len(Escaped(c)) \in {1, 3}
         /\ \A i \in 1..Len(Escaped(c)) : Plain(Escaped(c)[i]) \/ Escaped(c)[i] = Percent
<1>1. CASE Plain(c)
  BY <1>1 DEF Escaped, Char
<1>2. CASE ~Plain(c)
  <2>1. /\ HexDigit(c \div 16) \in Char /\ Plain(HexDigit(c \div 16))
        /\ HexDigit(c % 16) \in Char /\ Plain(HexDigit(c % 16))
    BY ByteIs, HexDigits DEF Char
  <2> QED
    BY <1>2, <2>1 DEF Escaped, Char, Percent
<1> QED
  BY <1>1, <1>2

\* A string as the parts strencode writes.
LEMMA EscapedAllIs ==
  ASSUME NEW s \in Seq(1..255)
  PROVE  /\ EscapedAll(s) \in Seq(Seq(Char)) /\ Len(EscapedAll(s)) = Len(s)
         /\ \A k \in 1..Len(s) : EscapedAll(s)[k] = Escaped(s[k]) /\ s[k] \in 1..255
<1>1. Len(s) \in Nat /\ \A k \in 1..Len(s) : s[k] \in 1..255
  BY LenProperties, ElementOfSeq
<1>2. \A k \in 1..Len(s) : Escaped(s[k]) \in Seq(Char)
  BY <1>1, EscapedIs
<1> QED
  BY <1>1, <1>2 DEF EscapedAll

\* What one character more adds to the encoded string.
EncodeStep(tosize, s, k, e) ==
  IF Len(e) + 4 >= tosize THEN e ELSE e \o Escaped(s[k])

\* strencode writes one character of the string after the other.
LEMMA EncodingIs ==
  ASSUME NEW tosize \in Nat \ {0}, NEW s \in Seq(1..255)
  PROVE  /\ Encoding(tosize, s)[0] = <<>>
         /\ \A k \in 1..Len(s) :
              Encoding(tosize, s)[k] = EncodeStep(tosize, s, k, Encoding(tosize, s)[k - 1])
<1>1. PICK N \in Nat : N = Len(s)
  BY LenProperties
<1>2. PICK X : X = Seq(Char)
  OBVIOUS
<1>3. ASSUME NEW k \in 1..N, NEW e \in X PROVE EncodeStep(tosize, s, k, e) \in X
  <2>1. s[k] \in 1..255
    BY <1>1, ElementOfSeq
  <2>2. Escaped(s[k]) \in Seq(Char)
    BY <2>1, EscapedIs
  <2> QED
    BY <1>2, <2>2, ConcatBehind DEF EncodeStep
<1>4. PICK step \in [1..N -> [X -> X]] :
        \A k \in 1..N, e \in X : step[k][e] = EncodeStep(tosize, s, k, e)
  <2> DEFINE g == [k \in 1..N |-> [e \in X |-> EncodeStep(tosize, s, k, e)]]
  <2>1. g \in [1..N -> [X -> X]]
    BY <1>3
  <2>2. \A k \in 1..N, e \in X : g[k][e] = EncodeStep(tosize, s, k, e)
    OBVIOUS
  <2> HIDE DEF g
  <2> QED
    BY <2>1, <2>2
<1>5. PICK f \in [0..N -> X] : f[0] = <<>> /\ \A k \in 1..N : f[k] = step[k][f[k - 1]]
  <2>1. <<>> \in X
    BY <1>2
  <2>2. \E f : Computed(f, X, <<>>, N, step)
    BY <2>1, Recursion, Zenon
  <2> QED
    BY <2>2, Zenon DEF Computed
<1>6. \A k \in 1..N : k - 1 \in 0..N /\ f[k] = EncodeStep(tosize, s, k, f[k - 1])
  BY <1>4, <1>5
<1>7. f = [k \in 0..N |-> IF k = 0 THEN <<>> ELSE EncodeStep(tosize, s, k, f[k - 1])]
  <2>1. \A k \in 0..N : f[k] = IF k = 0 THEN <<>> ELSE EncodeStep(tosize, s, k, f[k - 1])
    BY <1>5, <1>6
  <2> QED
    BY <2>1
<1> DEFINE u == Encoding(tosize, s)
<1>8. u = [k \in 0..N |-> IF k = 0 THEN <<>> ELSE EncodeStep(tosize, s, k, u[k - 1])]
  BY <1>1, <1>7, Zenon DEF Encoding, EncodeStep
<1> HIDE DEF u
<1>9. u[0] = <<>> /\ \A k \in 1..N : u[k] = EncodeStep(tosize, s, k, u[k - 1])
  BY <1>8
<1> QED
  BY <1>1, <1>9 DEF u

\* The encoded characters, one behind the other, as long as there is room.
Full(s) == FlatOf(EscapedAll(s))

\* The encoded string is at least as long as the string, and at most three times.
LEMMA FullIs ==
  ASSUME NEW s \in Seq(1..255)
  PROVE  /\ Full(s)[0] = <<>>
         /\ \A k \in 1..Len(s) : /\ Full(s)[k] = Full(s)[k - 1] \o Escaped(s[k])
                                 /\ Len(Full(s)[k]) = Len(Full(s)[k - 1]) + Len(Escaped(s[k]))
         /\ \A k \in 0..Len(s) : /\ Full(s)[k] \in Seq(Char)
                                 /\ Len(Full(s)[k]) \in k..3 * k
                                 /\ \A a \in 1..Len(Full(s)[k]) :
                                      Plain(Full(s)[k][a]) \/ Full(s)[k][a] = Percent
<1> DEFINE f == Full(s)
<1>1. PICK N \in Nat : N = Len(s)
  BY LenProperties
<1>2. /\ EscapedAll(s) \in Seq(Seq(Char)) /\ Len(EscapedAll(s)) = N
      /\ \A k \in 1..N : EscapedAll(s)[k] = Escaped(s[k]) /\ s[k] \in 1..255
  BY <1>1, EscapedAllIs
<1>3. /\ f[0] = <<>> /\ \A k \in 1..N : f[k] = f[k - 1] \o Escaped(s[k])
      /\ \A k \in 0..N : f[k] \in Seq(Char)
  BY <1>2, FlatIs DEF Full
<1> HIDE DEF f
<1>4. ASSUME NEW k \in 1..N
      PROVE  /\ Len(f[k - 1]) \in Nat /\ Len(f[k]) = Len(f[k - 1]) + Len(Escaped(s[k]))
             /\ Len(Escaped(s[k])) \in {1, 3}
             /\ \A a \in 1..Len(f[k - 1]) : f[k][a] = f[k - 1][a]
             /\ \A a \in 1..Len(Escaped(s[k])) : f[k][Len(f[k - 1]) + a] = Escaped(s[k])[a]
  <2>1. k - 1 \in 0..N
    OBVIOUS
  <2>2. f[k - 1] \in Seq(Char) /\ Escaped(s[k]) \in Seq(Char) /\ Len(Escaped(s[k])) \in {1, 3}
    BY <1>2, <1>3, <2>1, EscapedIs
  <2>3. f[k] = f[k - 1] \o Escaped(s[k])
    BY <1>3
  <2>4. /\ Len(f[k - 1]) \in Nat
        /\ Len(f[k - 1] \o Escaped(s[k])) = Len(f[k - 1]) + Len(Escaped(s[k]))
        /\ \A a \in 1..Len(f[k - 1]) : (f[k - 1] \o Escaped(s[k]))[a] = f[k - 1][a]
        /\ \A a \in 1..Len(Escaped(s[k])) :
             (f[k - 1] \o Escaped(s[k]))[Len(f[k - 1]) + a] = Escaped(s[k])[a]
    BY <2>2, ConcatBehind, Zenon
  <2> QED
    BY <2>2, <2>3, <2>4, Zenon
<1> DEFINE Good(k) == /\ Len(f[k]) \in k..3 * k
                      /\ \A a \in 1..Len(f[k]) : Plain(f[k][a]) \/ f[k][a] = Percent
           S == {k \in 0..N : Good(k)}
<1>5. 0 \in S
  BY <1>3
<1>6. ASSUME NEW k \in 1..N, k - 1 \in S PROVE k \in S
  <2>1. Good(k - 1)
    BY <1>6
  <2>2. Len(f[k]) \in k..3 * k
    <3>1. PICK x \in k - 1..3 * (k - 1) : x = Len(f[k - 1])
      BY <2>1
    <3>2. PICK y \in {1, 3} : y = Len(Escaped(s[k]))
      BY <1>4
    <3>3. Len(f[k]) = x + y
      BY <1>4, <3>1, <3>2
    <3>4. x + y \in k..3 * k
      OBVIOUS
    <3> QED
      BY <3>3, <3>4, Zenon
  <2>3. ASSUME NEW a \in 1..Len(f[k]) PROVE Plain(f[k][a]) \/ f[k][a] = Percent
    <3>1. CASE a \in 1..Len(f[k - 1])
      BY <1>4, <2>1, <3>1
    <3>2. CASE a \notin 1..Len(f[k - 1])
      <4>1. PICK b \in 1..Len(Escaped(s[k])) : a = Len(f[k - 1]) + b
        <5>1. PICK x \in Nat : x = Len(f[k - 1])
          BY <1>4
        <5>2. PICK y \in Nat : y = Len(Escaped(s[k]))
          BY <1>4
        <5>3. a \in 1..x + y /\ a \notin 1..x
          BY <1>4, <3>2, <5>1, <5>2, Zenon
        <5>4. a - x \in 1..y /\ a = x + (a - x)
          BY <5>3
        <5> QED
          BY <5>1, <5>2, <5>4
      <4>2. f[k][a] = Escaped(s[k])[b]
        BY <1>4, <4>1
      <4>3. Plain(Escaped(s[k])[b]) \/ Escaped(s[k])[b] = Percent
        BY <1>2, EscapedIs
      <4> QED
        BY <4>2, <4>3
    <3> QED
      BY <3>1, <3>2
  <2>4. Good(k)
    BY <2>2, <2>3
  <2> HIDE DEF Good
  <2> QED
    BY <2>4
<1> HIDE DEF S
<1>7. \A k \in 0..N : k \in S
  BY <1>5, <1>6, Induct, Zenon
<1>8. \A k \in 0..N : Good(k)
  BY <1>7 DEF S
<1> QED
  BY <1>1, <1>3, <1>4, <1>8 DEF f

\* strencode writes the first m characters, all of them if there is room.
LEMMA Written ==
  ASSUME NEW tosize \in Nat \ {0}, NEW s \in Seq(1..255)
  PROVE  \E m \in 0..Len(s) :
           /\ strencode(tosize, s) = Full(s)[m] /\ Len(Full(s)[m]) < tosize
           /\ m = Len(s) \/ Len(Full(s)[m]) + 4 >= tosize
<1>1. PICK N \in Nat : N = Len(s)
  BY LenProperties
<1> DEFINE e == Encoding(tosize, s)
           f == Full(s)
<1>2. e[0] = <<>> /\ \A k \in 1..N : e[k] = EncodeStep(tosize, s, k, e[k - 1])
  BY <1>1, EncodingIs
<1>3. /\ f[0] = <<>>
      /\ \A k \in 1..N : /\ f[k] = f[k - 1] \o Escaped(s[k])
                         /\ Len(f[k]) = Len(f[k - 1]) + Len(Escaped(s[k]))
                         /\ Len(Escaped(s[k])) \in {1, 3}
      /\ \A k \in 0..N : Len(f[k]) \in Nat
  <2>1. \A k \in 1..N : s[k] \in 1..255
    BY <1>1, ElementOfSeq
  <2>2. \A k \in 0..N : Len(f[k]) \in Nat
    BY <1>1, FullIs, LenProperties
  <2> QED
    BY <1>1, <2>1, <2>2, FullIs, EscapedIs
<1> DEFINE Is(k, m) == /\ e[k] = f[m] /\ Len(f[m]) < tosize
                       /\ m = k \/ Len(f[m]) + 4 >= tosize
           S == {k \in 0..N : \E m \in 0..k : Is(k, m)}
<1> HIDE DEF e, f
<1>4. 0 \in S
  <2>1. Is(0, 0)
    BY <1>2, <1>3
  <2> QED
    BY <2>1
<1>5. ASSUME NEW k \in 1..N, k - 1 \in S PROVE k \in S
  <2>1. PICK m \in 0..k - 1 : Is(k - 1, m)
    BY <1>5
  <2>2. k - 1 \in 0..N /\ Len(f[m]) \in Nat /\ Len(f[k - 1]) \in Nat
    BY <1>3
  <2>3. CASE Len(f[m]) + 4 >= tosize
    <3>1. Is(k, m)
      BY <1>2, <2>1, <2>3 DEF EncodeStep
    <3> QED
      BY <3>1
  <2>4. CASE ~(Len(f[m]) + 4 >= tosize)
    <3>1. m = k - 1
      BY <2>1, <2>4
    <3>2. e[k] = f[k]
      BY <1>2, <1>3, <2>1, <2>4, <3>1 DEF EncodeStep
    <3>3. Len(f[k]) < tosize
      <4>1. PICK x \in Nat : x = Len(f[k - 1])
        BY <2>2
      <4>2. PICK y \in {1, 3} : y = Len(Escaped(s[k]))
        BY <1>3
      <4>3. ~(x + 4 >= tosize)
        BY <2>4, <3>1, <4>1, Zenon
      <4>4. x + y < tosize
        BY <4>3
      <4> QED
        BY <1>3, <4>1, <4>2, <4>4, Zenon
    <3>4. Is(k, k)
      BY <3>2, <3>3
    <3> QED
      BY <3>4
  <2> QED
    BY <2>3, <2>4
<1> HIDE DEF S
<1>6. \A k \in 0..N : k \in S
  BY <1>4, <1>5, Induct, Zenon
<1>7. PICK m \in 0..N : Is(N, m)
  <2>1. N \in S
    BY <1>6
  <2> QED
    BY <2>1 DEF S
<1> QED
  BY <1>1, <1>7 DEF e, f, strencode

\* What strdecode's loop works on, for a string of L characters: the end of the
\* string is never overwritten, and writing is not ahead of reading.
Decodings(L) ==
  {d \in [mem : [1..L + 1 -> Char], to : 1..L + 1, from : 1..L + 1] :
     d.to <= d.from /\ d.mem[L + 1] = NUL}

\* hexit of a hexadecimal digit is below 16, and NUL is no digit.
LEMMA HexitIs ==
  \A c \in Char : /\ isxdigit(c) => hexit(c) \in 0..15 /\ c # NUL
                  /\ hexit(c) \in Nat
BY DEF Char, isxdigit, hexit, IsDigit, IsLower, IsUpper, NUL

\* A round stays in the string, and its two digits are read before its end.
LEMMA RoundStays ==
  ASSUME NEW L \in Nat, NEW d \in Decodings(L)
  PROVE  DecodeRound(d) \in Decodings(L)
<1>1. PICK mem \in [1..L + 1 -> Char] : mem = d.mem
  BY DEF Decodings
<1>2. PICK to \in 1..L + 1 : to = d.to
  BY DEF Decodings
<1>3. PICK from \in 1..L + 1 : from = d.from
  BY DEF Decodings
<1>4. to <= from /\ mem[L + 1] = NUL
  BY <1>1, <1>2, <1>3 DEF Decodings
<1>5. CASE mem[from] = NUL
  <2>1. DecodeRound(d) = d
    BY <1>1, <1>3, <1>5 DEF DecodeRound, NUL, Percent
  <2> QED
    BY <2>1
<1>6. CASE mem[from] # NUL
  <2>1. from \in 1..L /\ to \in 1..L
    BY <1>4, <1>6
  <2>2. ASSUME NEW c \in Char, NEW n \in to + 1..L + 1,
               DecodeRound(d) = [mem |-> [mem EXCEPT ![to] = c], to |-> to + 1, from |-> n]
        PROVE  DecodeRound(d) \in Decodings(L)
    <3>1. [mem EXCEPT ![to] = c] \in [1..L + 1 -> Char]
      OBVIOUS
    <3>2. [mem EXCEPT ![to] = c][L + 1] = NUL
      BY <1>4, <2>1
    <3>3. to + 1 \in 1..L + 1 /\ n \in 1..L + 1 /\ to + 1 <= n
      BY <2>1
    <3> QED
      BY <2>2, <3>1, <3>2, <3>3 DEF Decodings
  <2>3. CASE mem[from] = Percent /\ isxdigit(mem[from + 1]) /\ isxdigit(mem[from + 2])
    <3>1. from + 1 \in 1..L + 1
      BY <2>1
    <3>2. mem[from + 1] \in Char /\ mem[from + 1] # NUL
      BY <2>3, <3>1, HexitIs
    <3>3. from + 2 \in 1..L + 1
      BY <1>4, <2>1, <3>2
    <3>4. mem[from + 2] \in Char /\ mem[from + 2] # NUL
      BY <2>3, <3>3, HexitIs
    <3>5. from + 3 \in to + 1..L + 1
      BY <1>4, <2>1, <3>3, <3>4
    <3>6. (hexit(mem[from + 1]) * 16 + hexit(mem[from + 2])) % 256 \in Char
      <4>1. \A a, b \in 0..15 : (a * 16 + b) % 256 \in 0..255
        OBVIOUS
      <4>2. hexit(mem[from + 1]) \in 0..15 /\ hexit(mem[from + 2]) \in 0..15
        BY <2>3, <3>2, <3>4, HexitIs
      <4> QED
        BY <4>1, <4>2, Zenon DEF Char
    <3>7. DecodeRound(d) =
            [mem |-> [mem EXCEPT ![to] =
                        (hexit(mem[from + 1]) * 16 + hexit(mem[from + 2])) % 256],
             to |-> to + 1, from |-> from + 3]
      BY <1>1, <1>2, <1>3, <1>6, <2>3 DEF DecodeRound
    <3> QED
      BY <2>2, <3>5, <3>6, <3>7, Zenon
  <2>4. CASE ~(mem[from] = Percent /\ isxdigit(mem[from + 1]) /\ isxdigit(mem[from + 2]))
    <3>1. DecodeRound(d) =
            [mem |-> [mem EXCEPT ![to] = mem[from]], to |-> to + 1, from |-> from + 1]
      BY <1>1, <1>2, <1>3, <1>6, <2>4 DEF DecodeRound
    <3>2. from + 1 \in to + 1..L + 1 /\ mem[from] \in Char
      BY <1>4, <2>1
    <3> QED
      BY <2>2, <3>1, <3>2, Zenon
  <2> QED
    BY <2>3, <2>4
<1> QED
  BY <1>5, <1>6

\* strdecode makes one round after the other.
LEMMA DecodingIs ==
  ASSUME NEW s \in Seq(Char)
  PROVE  /\ Decoding(s)[0] = [mem |-> Stored(s), to |-> 1, from |-> 1]
         /\ \A k \in 1..Len(s) : Decoding(s)[k] = DecodeRound(Decoding(s)[k - 1])
         /\ \A k \in 0..Len(s) : Decoding(s)[k] \in Decodings(Len(s))
<1>1. PICK N \in Nat : N = Len(s)
  BY LenProperties
<1>2. PICK X : X = Decodings(N)
  OBVIOUS
<1>3. PICK start : start = [mem |-> Stored(s), to |-> 1, from |-> 1]
  OBVIOUS
<1>4. start \in X
  <2>1. \A a \in 1..N : s[a] \in Char
    BY <1>1, ElementOfSeq
  <2>2. Stored(s) = [a \in 1..N + 1 |-> IF a <= N THEN s[a] ELSE NUL]
    BY <1>1, Zenon DEF Stored
  <2>3. NUL \in Char
    BY DEF NUL, Char
  <2>4. Stored(s) \in [1..N + 1 -> Char] /\ Stored(s)[N + 1] = NUL
    BY <2>1, <2>2, <2>3
  <2> QED
    BY <1>2, <1>3, <2>4 DEF Decodings
<1>5. \A d \in X : DecodeRound(d) \in X
  BY <1>2, RoundStays
<1>6. PICK step \in [1..N -> [X -> X]] : \A k \in 1..N, d \in X : step[k][d] = DecodeRound(d)
  <2> DEFINE g == [k \in 1..N |-> [d \in X |-> DecodeRound(d)]]
  <2>1. g \in [1..N -> [X -> X]]
    BY <1>5
  <2>2. \A k \in 1..N, d \in X : g[k][d] = DecodeRound(d)
    OBVIOUS
  <2> HIDE DEF g
  <2> QED
    BY <2>1, <2>2
<1>7. PICK f \in [0..N -> X] : f[0] = start /\ \A k \in 1..N : f[k] = step[k][f[k - 1]]
  <2>1. \E f : Computed(f, X, start, N, step)
    BY <1>4, Recursion, Zenon
  <2> QED
    BY <2>1, Zenon DEF Computed
<1>8. \A k \in 1..N : k - 1 \in 0..N /\ f[k] = DecodeRound(f[k - 1])
  BY <1>6, <1>7
<1>9. f = [k \in 0..N |-> IF k = 0 THEN start ELSE DecodeRound(f[k - 1])]
  <2>1. \A k \in 0..N : f[k] = IF k = 0 THEN start ELSE DecodeRound(f[k - 1])
    BY <1>7, <1>8
  <2> QED
    BY <2>1
<1> DEFINE u == Decoding(s)
<1>10. u = [k \in 0..N |-> IF k = 0 THEN start ELSE DecodeRound(u[k - 1])]
  BY <1>1, <1>3, <1>9, Zenon DEF Decoding
<1> HIDE DEF u
<1>11. u[0] = start /\ \A k \in 1..N : u[k] = DecodeRound(u[k - 1])
  BY <1>10
<1>12. \A k \in 0..N : u[k] \in X
  <2>1. u[0] \in X /\ \A k \in 1..N : u[k - 1] \in X => u[k] \in X
    BY <1>4, <1>5, <1>11
  <2> QED
    BY <2>1, Stays, Zenon
<1> QED
  BY <1>1, <1>2, <1>3, <1>11, <1>12 DEF u

\* The string in memory is what stands before the first NUL.
LEMMA StringAtIs ==
  ASSUME NEW L \in Nat, NEW mem \in [1..L + 1 -> Char], NEW end \in 1..L + 1,
         mem[end] = NUL, \A b \in 1..end - 1 : mem[b] # NUL
  PROVE  StringAt(mem) = [a \in 1..end - 1 |-> mem[a]]
<1>1. \A x \in DOMAIN mem : mem[x] = NUL /\ (\A b \in 1..x - 1 : mem[b] # NUL) => x = end
  <2> SUFFICES ASSUME NEW x \in 1..L + 1, mem[x] = NUL, \A b \in 1..x - 1 : mem[b] # NUL
               PROVE  x = end
    OBVIOUS
  <2>1. ~(x \in 1..end - 1) /\ ~(end \in 1..x - 1)
    OBVIOUS
  <2> QED
    BY <2>1
<1>2. (CHOOSE x \in DOMAIN mem : mem[x] = NUL /\ \A b \in 1..x - 1 : mem[b] # NUL) = end
  BY <1>1
<1> QED
  BY <1>2, Zenon DEF StringAt

\* Where there is a NUL there is a first one.
LEMMA FirstNul ==
  ASSUME NEW L \in Nat, NEW mem \in [1..L + 1 -> Char], NEW n \in 1..L + 1, mem[n] = NUL
  PROVE  \E end \in 1..L + 1 : mem[end] = NUL /\ \A b \in 1..end - 1 : mem[b] # NUL
<1> DEFINE R == OpToRel(<, Nat)
           T == {a \in 1..L + 1 : mem[a] = NUL}
<1>1. IsWellFoundedOn(R, Nat)
  BY NatLessThanWellFounded
<1>2. \A x, y \in Nat : x < y => <<x, y>> \in R
  BY DEF OpToRel
<1> HIDE DEF R
<1>3. T \subseteq Nat /\ T # {}
  OBVIOUS
<1>4. PICK end \in T : \A a \in T : <<a, end>> \notin R
  BY <1>1, <1>3, WFMin
<1>5. ASSUME NEW b \in 1..end - 1, mem[b] = NUL PROVE FALSE
  <2>1. b \in T /\ b \in Nat /\ end \in Nat /\ b < end
    BY <1>5
  <2> QED
    BY <1>2, <1>4, <2>1
<1> QED
  BY <1>4, <1>5

\* Decoding never makes a string longer.
LEMMA NotLonger ==
  ASSUME NEW s \in Seq(Char)
  PROVE  Len(strdecode(s)) <= Len(s)
<1>1. PICK N \in Nat : N = Len(s)
  BY LenProperties
<1>2. PICK d \in Decodings(N) : d = Decoding(s)[N]
  <2>1. N \in 0..N
    OBVIOUS
  <2> QED
    BY <1>1, <2>1, DecodingIs
<1>3. PICK mem : mem = [d.mem EXCEPT ![d.to] = NUL]
  OBVIOUS
<1>4. mem \in [1..N + 1 -> Char] /\ d.to \in 1..N + 1 /\ mem[d.to] = NUL
  BY <1>3 DEF Decodings, Char, NUL
<1>5. PICK end \in 1..N + 1 : mem[end] = NUL /\ \A b \in 1..end - 1 : mem[b] # NUL
  BY <1>4, FirstNul
<1>6. StringAt(mem) = [a \in 1..end - 1 |-> mem[a]]
  BY <1>4, <1>5, StringAtIs
<1>7. Len(StringAt(mem)) = end - 1
  BY <1>6
<1>8. strdecode(s) = StringAt(mem)
  BY <1>1, <1>2, <1>3, Zenon DEF strdecode
<1>9. end - 1 <= N
  OBVIOUS
<1> QED
  BY <1>1, <1>7, <1>8, <1>9

\* After r rounds on the first m encoded characters of s, r characters are back.
Back(s, m, r, d) ==
  /\ d \in Decodings(Len(Full(s)[m]))
  /\ d.to = r + 1 /\ d.from = Len(Full(s)[r]) + 1
  /\ \A a \in 1..r : d.mem[a] = s[a]
  /\ \A a \in d.from..Len(Full(s)[m]) + 1 : d.mem[a] = Stored(Full(s)[m])[a]

\* A round gives back one character: itself, or from its two digits.
LEMMA RoundBack ==
  ASSUME NEW s \in Seq(1..255), NEW m \in 0..Len(s), NEW r \in 1..m, NEW d,
         Back(s, m, r - 1, d)
  PROVE  Back(s, m, r, DecodeRound(d))
<1>1. PICK N \in Nat : N = Len(s)
  BY LenProperties
<1>2. PICK e \in Seq(Char) : e = Full(s)[m]
  BY FullIs
<1>3. PICK L \in Nat : L = Len(e)
  BY <1>2, LenProperties
<1>4. PICK c \in 1..255 : c = s[r]
  <2>1. r \in 1..Len(s)
    BY <1>1
  <2> QED
    BY <2>1, ElementOfSeq
<1>5. PICK x \in Nat : x = Len(Full(s)[r - 1])
  <2>1. r - 1 \in 0..Len(s)
    BY <1>1
  <2> QED
    BY <2>1, FullIs, LenProperties
<1>6. PICK y \in {1, 3} : y = Len(Escaped(c))
  BY EscapedIs
<1>7. Len(Full(s)[r]) = x + y
  <2>1. r \in 1..Len(s)
    BY <1>1
  <2> QED
    BY <1>4, <1>5, <1>6, <2>1, FullIs
<1>8. \A i \in 1..y : x + i <= L /\ e[x + i] = Escaped(c)[i]
  <2>1. EscapedAll(s) \in Seq(Seq(Char)) /\ Len(EscapedAll(s)) = N
    BY <1>1, EscapedAllIs
  <2>2. EscapedAll(s)[r] = Escaped(c)
    <3>1. r \in 1..Len(s)
      BY <1>1
    <3> QED
      BY <1>4, <3>1, EscapedAllIs
  <2>3. ASSUME NEW i \in 1..y PROVE x + i <= L /\ e[x + i] = Escaped(c)[i]
    <3>1. m \in 0..Len(EscapedAll(s)) /\ i \in 1..Len(EscapedAll(s)[r])
      BY <1>1, <1>6, <2>1, <2>2
    <3>2. /\ Len(FlatOf(EscapedAll(s))[r - 1]) + i <= Len(FlatOf(EscapedAll(s))[m])
          /\ FlatOf(EscapedAll(s))[m][Len(FlatOf(EscapedAll(s))[r - 1]) + i] = EscapedAll(s)[r][i]
      BY <2>1, <3>1, FlatAt, Zenon
    <3> QED
      BY <1>2, <1>3, <1>5, <2>2, <3>2, Zenon DEF Full
  <2> QED
    BY <2>3
<1>9. PICK mem \in [1..L + 1 -> Char] : mem = d.mem
  BY <1>2, <1>3 DEF Back, Decodings
<1>10. d.to = r /\ d.from = x + 1 /\ r <= x + 1
  <2>1. (r - 1) + 1 = r
    OBVIOUS
  <2>2. d.to <= d.from
    BY DEF Back, Decodings
  <2> QED
    BY <1>5, <2>1, <2>2 DEF Back
<1>11. /\ \A a \in 1..r - 1 : mem[a] = s[a]
       /\ \A a \in x + 1..L + 1 : mem[a] = Stored(e)[a]
  BY <1>2, <1>3, <1>9, <1>10 DEF Back
<1>12. \A i \in 1..y : x + i \in 1..L /\ mem[x + i] = Escaped(c)[i]
  <2>1. ASSUME NEW i \in 1..y PROVE x + i \in 1..L /\ mem[x + i] = Escaped(c)[i]
    <3>1. x + i \in 1..L /\ x + i \in x + 1..L + 1 /\ x + i <= L
      <4>1. x + i <= L
        BY <1>8
      <4> QED
        BY <4>1
    <3>2. Stored(e) = [a \in 1..L + 1 |-> IF a <= L THEN e[a] ELSE NUL]
      BY <1>3, Zenon DEF Stored
    <3>3. Stored(e)[x + i] = e[x + i]
      BY <3>1, <3>2
    <3> QED
      BY <1>8, <1>11, <3>1, <3>3
  <2> QED
    BY <2>1
<1>13. DecodeRound(d) = [mem |-> [mem EXCEPT ![r] = c], to |-> r + 1, from |-> x + y + 1]
  <2>1. CASE Plain(c)
    <3>1. y = 1 /\ Escaped(c)[1] = c
      BY <1>6, <2>1 DEF Escaped
    <3>2. mem[x + 1] = c
      BY <1>12, <3>1
    <3>3. c # NUL /\ c # Percent
      BY <2>1 DEF Plain, isalnum, IsDigit, IsUpper, IsLower, NUL, Percent
    <3>4. DecodeRound(d) = [mem |-> [mem EXCEPT ![r] = mem[x + 1]], to |-> r + 1,
                            from |-> x + 1 + 1]
      BY <1>9, <1>10, <3>2, <3>3 DEF DecodeRound
    <3> QED
      BY <3>1, <3>2, <3>4
  <2>2. CASE ~Plain(c)
    <3>1. /\ y = 3 /\ Escaped(c)[1] = Percent /\ Escaped(c)[2] = HexDigit(c \div 16)
          /\ Escaped(c)[3] = HexDigit(c % 16)
      BY <1>6, <2>2 DEF Escaped
    <3>2. /\ mem[x + 1] = Percent /\ mem[x + 1 + 1] = HexDigit(c \div 16)
          /\ mem[x + 1 + 2] = HexDigit(c % 16)
      <4>1. /\ mem[x + 1] = Escaped(c)[1] /\ mem[x + 2] = Escaped(c)[2]
            /\ mem[x + 3] = Escaped(c)[3]
        BY <1>12, <3>1
      <4>2. x + 1 + 1 = x + 2 /\ x + 1 + 2 = x + 3
        OBVIOUS
      <4> QED
        BY <3>1, <4>1, <4>2
    <3>3. PICK v \in 0..15 : v = c \div 16
      BY ByteIs
    <3>4. PICK w \in 0..15 : w = c % 16
      BY ByteIs
    <3>5. (v * 16 + w) % 256 = c
      BY <3>3, <3>4, ByteIs
    <3>6. /\ isxdigit(HexDigit(v)) /\ hexit(HexDigit(v)) = v
          /\ isxdigit(HexDigit(w)) /\ hexit(HexDigit(w)) = w
      BY HexDigits
    <3>7. /\ mem[x + 1] = Percent /\ mem[x + 1] # NUL
          /\ isxdigit(mem[x + 1 + 1]) /\ hexit(mem[x + 1 + 1]) = v
          /\ isxdigit(mem[x + 1 + 2]) /\ hexit(mem[x + 1 + 2]) = w
      <4>1. mem[x + 1] = Percent /\ mem[x + 1] # NUL
        BY <3>2 DEF NUL, Percent
      <4> QED
        BY <3>2, <3>3, <3>4, <3>6, <4>1, Zenon
    <3>8. DecodeRound(d) = [mem |-> [mem EXCEPT ![r] = (v * 16 + w) % 256], to |-> r + 1,
                            from |-> x + 1 + 3]
      BY <1>9, <1>10, <3>7 DEF DecodeRound
    <3> QED
      BY <3>1, <3>5, <3>8
  <2> QED
    BY <2>1, <2>2
<1>14. x + y <= L
  <2>1. y \in 1..y
    OBVIOUS
  <2> QED
    BY <1>8, <2>1, Zenon
<1>15. DecodeRound(d) \in Decodings(L)
  BY <1>2, <1>3, RoundStays DEF Back
<1> DEFINE now == [mem EXCEPT ![r] = c]
<1>16. \A a \in 1..r : now[a] = s[a]
  <2>1. r \in 1..L + 1
    BY <1>10, <1>14
  <2> QED
    BY <1>4, <1>11, <2>1
<1>17. \A a \in x + y + 1..L + 1 : now[a] = Stored(e)[a]
  BY <1>10, <1>11
<1> HIDE DEF now
<1> QED
  BY <1>2, <1>3, <1>7, <1>13, <1>15, <1>16, <1>17 DEF Back, now

\* Decoding the first m encoded characters gives these characters.
LEMMA DecodeEncoded ==
  ASSUME NEW s \in Seq(1..255), NEW m \in 0..Len(s)
  PROVE  strdecode(Full(s)[m]) = SubSeq(s, 1, m)
<1>1. PICK N \in Nat : N = Len(s)
  BY LenProperties
<1>2. PICK e \in Seq(Char) : e = Full(s)[m]
  BY FullIs
<1>3. PICK L \in Nat : L = Len(e)
  BY <1>2, LenProperties
<1>4. m <= L
  <2>1. Len(Full(s)[m]) \in m..3 * m
    BY FullIs
  <2>2. L \in m..3 * m
    BY <1>2, <1>3, <2>1, Zenon
  <2> QED
    BY <2>2
<1> DEFINE d == Decoding(e)
<1>5. /\ d[0] = [mem |-> Stored(e), to |-> 1, from |-> 1]
      /\ \A k \in 1..L : d[k] = DecodeRound(d[k - 1])
      /\ \A k \in 0..L : d[k] \in Decodings(L)
  BY <1>3, DecodingIs
<1> HIDE DEF d
<1>6. Back(s, m, 0, d[0])
  <2>1. Full(s)[0] = <<>>
    BY FullIs
  <2>2. /\ d[0].to = 0 + 1 /\ d[0].from = Len(Full(s)[0]) + 1 /\ d[0].mem = Stored(e)
        /\ d[0] \in Decodings(L)
    BY <1>5, <2>1
  <2> QED
    BY <1>2, <1>3, <2>2 DEF Back
<1> DEFINE S == {r \in 0..m : Back(s, m, r, d[r])}
<1>7. \A r \in 0..m : r \in S
  <2>1. 0 \in S
    BY <1>6
  <2>2. ASSUME NEW r \in 1..m, r - 1 \in S PROVE r \in S
    <3>1. Back(s, m, r, DecodeRound(d[r - 1]))
      BY <2>2, RoundBack
    <3>2. d[r] = DecodeRound(d[r - 1])
      BY <1>4, <1>5
    <3> QED
      BY <3>1, <3>2
  <2>3. m \in Nat
    OBVIOUS
  <2> HIDE DEF S
  <2> QED
    BY <2>1, <2>2, <2>3, Induct, Zenon
<1>8. Back(s, m, m, d[m])
  <2>1. m \in S
    BY <1>7
  <2> QED
    BY <2>1
<1> HIDE DEF S
<1>9. PICK mem \in [1..L + 1 -> Char] : mem = d[m].mem
  <2>1. d[m] \in Decodings(L)
    BY <1>2, <1>3, <1>8 DEF Back
  <2> QED
    BY <2>1 DEF Decodings
<1>10. /\ d[m].to = m + 1 /\ d[m].from = L + 1 /\ mem[L + 1] = NUL
       /\ \A a \in 1..m : mem[a] = s[a]
  <2>1. d[m] \in Decodings(L) /\ d[m].to = m + 1 /\ d[m].from = L + 1
    BY <1>2, <1>3, <1>8 DEF Back
  <2> QED
    BY <1>8, <1>9, <2>1 DEF Back, Decodings
\* The end of the string has been reached: the remaining rounds do nothing.
<1>11. d[L] = d[m]
  <2>1. DecodeRound(d[m]) = d[m]
    BY <1>9, <1>10 DEF DecodeRound, NUL, Percent
  <2> DEFINE T == {k \in 0..L : k >= m => d[k] = d[m]}
  <2>2. 0 \in T
    OBVIOUS
  <2>3. ASSUME NEW k \in 1..L, k - 1 \in T PROVE k \in T
    <3>1. CASE k <= m
      BY <3>1
    <3>2. CASE k > m
      <4>1. k - 1 >= m /\ d[k] = DecodeRound(d[k - 1])
        BY <1>5, <3>2
      <4> QED
        BY <2>1, <2>3, <4>1
    <3> QED
      BY <3>1, <3>2
  <2> HIDE DEF T
  <2>4. \A k \in 0..L : k \in T
    BY <2>2, <2>3, Induct, Zenon
  <2>5. L \in T
    BY <2>4
  <2> QED
    BY <1>4, <2>5 DEF T
<1>12. PICK now : now = [mem EXCEPT ![m + 1] = NUL]
  OBVIOUS
<1>13. strdecode(e) = StringAt(now)
  <2>1. strdecode(e) = StringAt([d[L].mem EXCEPT ![d[L].to] = NUL])
    BY <1>3, Zenon DEF strdecode, d
  <2> QED
    BY <1>9, <1>10, <1>11, <1>12, <2>1, Zenon
<1>14. /\ now \in [1..L + 1 -> Char] /\ m + 1 \in 1..L + 1 /\ now[m + 1] = NUL
       /\ \A a \in 1..m : now[a] = s[a]
  BY <1>4, <1>10, <1>12 DEF Char, NUL
<1>15. \A a \in 1..m : s[a] # NUL
  <2>1. \A a \in 1..N : s[a] \in 1..255
    BY <1>1, ElementOfSeq
  <2>2. \A a \in 1..m : a \in 1..N
    BY <1>1
  <2>3. \A c \in 1..255 : c # NUL
    BY DEF NUL
  <2> QED
    BY <2>1, <2>2, <2>3, Zenon
<1>16. (m + 1) - 1 = m
  OBVIOUS
<1>17. StringAt(now) = [a \in 1..m |-> now[a]]
  <2>1. \A b \in 1..(m + 1) - 1 : now[b] # NUL
    BY <1>14, <1>15, <1>16
  <2>2. StringAt(now) = [a \in 1..(m + 1) - 1 |-> now[a]]
    BY <1>14, <2>1, StringAtIs
  <2> QED
    BY <1>16, <2>2
<1>18. SubSeq(s, 1, m) = [a \in 1..m |-> s[a]]
  BY <1>1
<1>19. [a \in 1..m |-> now[a]] = [a \in 1..m |-> s[a]]
  BY <1>14
<1> QED
  BY <1>2, <1>13, <1>17, <1>18, <1>19

\* What RoundTrip says of the texts of a run holds of any string and any size of
\* the buffer (pub.c:108-153).
THEOREM OneRoundTrip ==
  ASSUME NEW s \in Seq(1..255), NEW tosize \in Nat \ {0}
  PROVE  LET e == strencode(tosize, s)
             d == strdecode(e)
         IN  /\ Len(e) < tosize
             /\ \A k \in DOMAIN e : Plain(e[k]) \/ e[k] = Percent
             /\ d = SubSeq(s, 1, Len(d))
             /\ tosize > 3 * Len(s) + 4 => d = s
<1>1. PICK N \in Nat : N = Len(s)
  BY LenProperties
<1>2. PICK m \in 0..N :
        /\ strencode(tosize, s) = Full(s)[m] /\ Len(Full(s)[m]) < tosize
        /\ m = N \/ Len(Full(s)[m]) + 4 >= tosize
  BY <1>1, Written
<1>3. PICK e \in Seq(Char) : e = strencode(tosize, s)
  BY <1>1, <1>2, FullIs
<1>4. \A a \in 1..Len(e) : Plain(e[a]) \/ e[a] = Percent
  BY <1>1, <1>2, <1>3, FullIs
<1>5. DOMAIN e = 1..Len(e)
  BY LenProperties
<1>6. strdecode(e) = SubSeq(s, 1, m)
  BY <1>1, <1>2, <1>3, DecodeEncoded
<1>7. Len(SubSeq(s, 1, m)) = m
  BY <1>1
<1>8. tosize > 3 * N + 4 => m = N
  <2>1. PICK x \in m..3 * m : x = Len(Full(s)[m])
    BY <1>1, FullIs
  <2>2. m = N \/ x + 4 >= tosize
    BY <1>2, <2>1, Zenon
  <2> QED
    BY <2>1, <2>2
<1>9. SubSeq(s, 1, N) = s
  BY <1>1
<1> QED
  BY <1>1, <1>2, <1>3, <1>4, <1>5, <1>6, <1>7, <1>8, <1>9

\* RoundTrip holds of every text.
LEMMA RoundTrips == GetLineTypeOK => RoundTrip
<1> SUFFICES ASSUME GetLineTypeOK PROVE RoundTrip
  OBVIOUS
<1>1. text \in Seq(1..255) /\ text \in Seq(Char)
  BY DEF GetLineTypeOK, Char
<1>2. \A tosize \in 1..3 * MaxText + 5 : tosize \in Nat \ {0}
  BY PubAssumption
<1>3. Len(strdecode(text)) <= Len(text)
  BY <1>1, NotLonger
<1> QED
  BY <1>1, <1>2, <1>3, OneRoundTrip, Zenon DEF RoundTrip

\* Whatever the text, decoding in place what was encoded of it loses at most what
\* there was no room for, and no text is longer when it is decoded (pub.c:108-153).
THEOREM RoundTripAlways == GetLineSpec => []RoundTrip
<1>1. GetLineSpec => []LineInv
  BY GetLineInitInv, GetLineStepInv, PTL DEF GetLineSpec
<1>2. LineInv => RoundTrip
  BY RoundTrips DEF LineInv
<1> QED
  BY <1>1, <1>2, PTL
=============================================================================
