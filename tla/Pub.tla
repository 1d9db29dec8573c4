-------------------------------- MODULE Pub --------------------------------
(***************************************************************************)
(* 07_Day16/01_webserver/pub.c: get_line, call by call of recv, while the  *)
(* stream it reads is still arriving on the non-blocking socket; and       *)
(* strencode, strdecode and hexit on strings. Characters are their codes.  *)
(***************************************************************************)
EXTENDS Integers, Sequences, FiniteSets

CONSTANTS Alphabet,  \* the characters that occur, a NUL not among them
          MaxText,   \* bound: length of a text
          size       \* get_line's third argument

ASSUME PubAssumption ==
  Alphabet \subseteq 1..255 /\ MaxText \in Nat /\ size \in Nat \ {0}

NUL == 0  LF == 10  CR == 13  Percent == 37

Texts == UNION {[1..n -> Alphabet] : n \in 0..MaxText}

-----------------------------------------------------------------------------
(* strdecode and strencode                                                 *)

IsDigit(c) == 48 <= c /\ c <= 57
IsUpper(c) == 65 <= c /\ c <= 90
IsLower(c) == 97 <= c /\ c <= 122
isalnum(c) == IsDigit(c) \/ IsUpper(c) \/ IsLower(c)
isxdigit(c) == IsDigit(c) \/ (65 <= c /\ c <= 70) \/ (97 <= c /\ c <= 102)

\* Mutant of hexit: the letters start at 0.
HexitFromZero(c) == IF IsDigit(c) THEN c - 48 ELSE IF IsLower(c) THEN c - 97 ELSE c - 65

hexit(c) ==
  CASE IsDigit(c) -> c - 48
    [] 97 <= c /\ c <= 102 -> c - 97 + 10
    [] 65 <= c /\ c <= 70 -> c - 65 + 10
    [] OTHER -> 0

\* A string in memory from address 1, and the string found there.
Stored(s) == [a \in 1 .. Len(s) + 1 |-> IF a <= Len(s) THEN s[a] ELSE NUL]
StringAt(mem) ==
  LET end == CHOOSE a \in DOMAIN mem : mem[a] = NUL /\ \A b \in 1..a-1 : mem[b] # NUL
  IN  [a \in 1 .. end - 1 |-> mem[a]]

\* A round of strdecode's loop, with both pointers into the same memory:
\* http_request decodes the url in place.
DecodeRound(d) ==
  CASE d.mem[d.from] = NUL -> d
    [] /\ d.mem[d.from] = Percent
       /\ isxdigit(d.mem[d.from + 1]) /\ isxdigit(d.mem[d.from + 2]) ->
         [mem |-> [d.mem EXCEPT ![d.to] =
                     (hexit(d.mem[d.from + 1]) * 16 + hexit(d.mem[d.from + 2])) % 256],
          to |-> d.to + 1, from |-> d.from + 3]
    [] OTHER ->
         [mem |-> [d.mem EXCEPT ![d.to] = d.mem[d.from]],
          to |-> d.to + 1, from |-> d.from + 1]

\* The loop after each round; every round reads a character, so there are at
\* most Len(s) of them.
Decoding(s) ==
  LET d[k \in 0..Len(s)] ==
        IF k = 0 THEN [mem |-> Stored(s), to |-> 1, from |-> 1] ELSE DecodeRound(d[k - 1])
  IN  d
strdecode(s) ==
  LET d == Decoding(s)[Len(s)] IN StringAt([d.mem EXCEPT ![d.to] = NUL])

HexDigit(v) == IF v < 10 THEN 48 + v ELSE 97 + v - 10
Plain(c) == isalnum(c) \/ c \in {47, 95, 46, 45, 126}   \* one of / _ . - ~

\* A character as strencode writes it.
Escaped(c) ==
  IF Plain(c) THEN <<c>> ELSE <<Percent, HexDigit(c \div 16), HexDigit(c % 16)>>

\* What strencode's loop has written after each character of s; when there is no
\* room for one character, there is none for the next.
Encoding(tosize, s) ==
  LET to[k \in 0..Len(s)] ==
        IF k = 0 THEN <<>>
        ELSE IF Len(to[k - 1]) + 4 >= tosize THEN to[k - 1]
        ELSE to[k - 1] \o Escaped(s[k])
  IN  to
strencode(tosize, s) == Encoding(tosize, s)[Len(s)]

-----------------------------------------------------------------------------
(* get_line                                                                *)

VARIABLES text,     \* the stream
          arrived,  \* how much of it has come
          taken,    \* how much of that recv has taken out
          buf,      \* get_line's buffer; its length is i
          ch,       \* get_line's c
          pc,       \* "call", "recv", "peek", "eat", "store"
          lines,    \* what get_line has returned so far, empty results aside
          late      \* the CRs behind which nothing had arrived when they were read

getLineVars == <<text, arrived, taken, buf, ch, pc, lines, late>>

GetLineInit ==
  /\ text \in Texts /\ arrived = 0 /\ taken = 0
  /\ buf = <<>> /\ ch = NUL /\ pc = "call" /\ lines = <<>> /\ late = {}

Arrive ==
  /\ arrived' \in arrived + 1 .. Len(text)
  /\ UNCHANGED <<text, taken, buf, ch, pc, lines, late>>

GetLine ==
  /\ pc = "call" /\ taken < Len(text)
  /\ buf' = <<>> /\ ch' = NUL /\ pc' = "recv"
  /\ UNCHANGED <<text, arrived, taken, lines, late>>

Looping == Len(buf) < size - 1 /\ ch # LF

\* recv of one character; with nothing there (or an error) c becomes '\n'.
Recv ==
  /\ pc = "recv" /\ Looping
  /\ IF taken < arrived
     THEN /\ ch' = text[taken + 1] /\ taken' = taken + 1
          /\ pc' = IF ch' = CR THEN "peek" ELSE "store"
     ELSE ch' = LF /\ UNCHANGED <<taken, pc>>
  /\ UNCHANGED <<text, arrived, buf, lines, late>>

\* Mutant of Peek: whatever follows a CR is taken for its LF.
PeekAnything ==
  /\ pc = "peek" /\ ch' = LF
  /\ pc' = IF taken < arrived THEN "eat" ELSE "store"
  /\ late' = IF taken < arrived THEN late ELSE late \cup {taken}
  /\ UNCHANGED <<text, arrived, taken, buf, lines>>

\* After a CR: recv with MSG_PEEK, to see whether its LF has come.
Peek ==
  /\ pc = "peek" /\ ch' = LF
  /\ pc' = IF taken < arrived /\ text[taken + 1] = LF THEN "eat" ELSE "store"
  /\ late' = IF taken < arrived THEN late ELSE late \cup {taken}
  /\ UNCHANGED <<text, arrived, taken, buf, lines>>

Eat ==
  /\ pc = "eat"
  /\ ch' = text[taken + 1] /\ taken' = taken + 1 /\ pc' = "store"
  /\ UNCHANGED <<text, arrived, buf, lines, late>>

Store ==
  /\ pc = "store"
  /\ buf' = Append(buf, ch) /\ pc' = "recv"
  /\ UNCHANGED <<text, arrived, taken, ch, lines, late>>

\* The NUL is put behind the i characters, and i is returned.
Return ==
  /\ pc = "recv" /\ ~Looping
  /\ lines' = IF buf = <<>> THEN lines ELSE Append(lines, buf)
  /\ pc' = "call"
  /\ UNCHANGED <<text, arrived, taken, buf, ch, late>>

GetLineNext == Arrive \/ GetLine \/ Recv \/ Peek \/ Eat \/ Store \/ Return

GetLineSpec == GetLineInit /\ [][GetLineNext]_getLineVars

-----------------------------------------------------------------------------
(* Properties                                                              *)

\* What the calls return, put together, is the stream with every line end -
\* CR, LF or CR LF - made one '\n' (pub.c:55-56), however it arrives; but a CR
\* whose LF had not come when it was read gives a line end of its own.
Flat[k \in 0..Len(lines)] == IF k = 0 THEN <<>> ELSE Flat[k - 1] \o lines[k]
Unified[n \in 0..Len(text)] ==
  IF n = 0 THEN <<>>
  ELSE IF text[n] = LF /\ n > 1 /\ text[n - 1] = CR /\ n - 1 \notin late THEN Unified[n - 1]
  ELSE Append(Unified[n - 1], IF text[n] = CR THEN LF ELSE text[n])
OneLineEnd == pc = "call" => Flat[Len(lines)] = Unified[taken]

\* A line holds at most size - 1 characters and no '\n' but its last one.
LineShape ==
  \A k \in DOMAIN lines :
    /\ Len(lines[k]) < size
    /\ \A m \in 1 .. Len(lines[k]) - 1 : lines[k][m] # LF
LinesFaithful == OneLineEnd /\ LineShape

\* strencode writes at most tosize bytes, its NUL included, and strdecode in
\* place, which reads ahead of where it writes, gives back the string it
\* encoded, or as long a prefix as there was room for (pub.c:141).
RoundTrip ==
  arrived = 0 /\ pc = "call" =>
    /\ \A tosize \in 1 .. 3 * MaxText + 5 :
         LET e == strencode(tosize, text)
             d == strdecode(e)
         IN  /\ Len(e) < tosize
             /\ \A k \in DOMAIN e : Plain(e[k]) \/ e[k] = Percent
             /\ d = SubSeq(text, 1, Len(d))
             /\ tosize > 3 * Len(text) + 4 => d = text
    /\ Len(strdecode(text)) <= Len(text)
=============================================================================
