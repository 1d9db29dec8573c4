---------------------------- MODULE Talk_proofs ----------------------------
(***************************************************************************)
(* Two programs that talk, over a socket or over two FIFOs: who holds the  *)
(* descriptors, what an end of file means, and that no line is lost or     *)
(* reordered, for any number of lines and any size of the read buffer.     *)
(***************************************************************************)
EXTENDS Talk, SequenceTheorems, TLAPS

Setting == {"start", "mkfifo", "open1", "open2"}
Main(s) == proc[s][Parent(s)]

\* Side s is past its set-up, or the kernel keeps its connection for accept.
Past(s) == Main(s) \notin Setting /\ (Main(s) = "accept" => hold[s] = {"kernel"})

Using(s) == {r \in Roles : proc[s][r] \in {"open2", "fork", "run", "spin"}}

\* Where the processes of side s can be, and that it holds its descriptors as
\* long as one of them is there.
Places(s) ==
  /\ Main(s) # "none"
  /\ proc[s][Child(s)] \in {"none", "run", "spin"} \cup Gone
  /\ Main(s) \in Setting \cup {"accept", "fork"} => proc[s][Child(s)] = "none"
  /\ Main(s) = "accept" => s = A /\ kind = "socket" /\ hold[s] \subseteq {"kernel"}
  /\ Main(s) # "accept" => hold[s] = Using(s)

\* Nobody talks before both sides are connected.
Connected(s) ==
  /\ (\E r \in Roles : proc[s][r] \in {"fork", "run", "spin"}) => Past(Peer(s))
  /\ typed[s] # 0 => /\ Main(s) \notin Setting \cup {"accept", "fork"}
                     /\ Past(Peer(s))
  /\ hold[s] = {"kernel"} => Past(Peer(s))

Control == TypeOK /\ \A s \in Sides : Places(s) /\ Connected(s)

\* A connection is reset by a side that goes, and after it was accepted.
Accepted == Main(A) \notin Setting \cup {"accept"}
ResetHasCause == reset => Accepted /\ \E s \in Sides : SideGone(s)

\* What s typed is, in order, what its peer printed and what is on the way; as
\* long as somebody may still read it, all of it is.
InStep(s) ==
  LET p == Peer(s) IN
    /\ Len(got[p]) + Len(queue[s]) <= typed[s]
    /\ hold[p] # {} /\ ~reset => Len(got[p]) + Len(queue[s]) = typed[s]
    /\ \A k \in DOMAIN got[p] : got[p][k] = [from |-> s, n |-> k]
    /\ \A k \in DOMAIN queue[s] : queue[s][k] = [from |-> s, n |-> Len(got[p]) + k]

IInv == Control /\ ResetHasCause /\ EndHasCause /\ \A s \in Sides : InStep(s)

-----------------------------------------------------------------------------
(* The two sides                                                           *)

LEMMA TwoSides ==
  /\ Sides = {A, B} /\ A # B /\ Peer(A) = B /\ Peer(B) = A
  /\ \A s \in Sides : Peer(s) \in Sides /\ Peer(s) # s /\ Peer(Peer(s)) = s
  /\ \A s, t \in Sides : t = s \/ t = Peer(s)
BY TalkAssumption DEF Sides, Peer

LEMMA TwoRoles ==
  ASSUME NEW s \in Sides
  PROVE  /\ Parent(s) \in Roles /\ Child(s) \in Roles /\ Parent(s) # Child(s)
         /\ Roles = {Parent(s), Child(s)} /\ Roles = {"reader", "writer"}
         /\ s = A => Parent(s) = "reader" /\ Child(s) = "writer"
         /\ s = B => Parent(s) = "writer" /\ Child(s) = "reader"
BY TalkAssumption DEF Sides, Parent, Child, Roles

\* A connected side that holds nothing is gone.
LEMMA GoneHoldsNothing ==
  ASSUME TypeOK, NEW s \in Sides, Places(s), Past(s), hold[s] = {}
  PROVE  SideGone(s)
<1>1. Main(s) \in At /\ Main(s) \notin {"start", "mkfifo", "open1", "open2", "none", "accept"}
  BY TwoRoles DEF TypeOK, Places, Past, Main, Setting
<1>2. \A r \in Roles : proc[s][r] \notin {"open2", "fork", "run", "spin"}
  BY <1>1 DEF Places, Using
<1>3. proc[s][Parent(s)] \in Gone
  BY <1>1, <1>2, TwoRoles DEF Main, At
<1>4. proc[s][Child(s)] \in Gone \cup {"none"}
  BY <1>2, TwoRoles DEF Places
<1> QED
  BY <1>3, <1>4, TwoRoles DEF SideGone

\* A side that is gone is past its set-up, and holds nothing.
LEMMA GonePast ==
  ASSUME TypeOK, NEW s \in Sides, Places(s), SideGone(s)
  PROVE  Past(s) /\ hold[s] = {}
BY TwoRoles DEF TypeOK, Places, Past, Using, Main, Setting, Gone, SideGone

\* A side with a process that runs is not gone.
LEMMA Running ==
  ASSUME TypeOK, NEW s \in Sides, NEW r \in Roles, proc[s][r] \in {"run", "spin", "fork"}
  PROVE  ~SideGone(s)
BY DEF SideGone, Gone

-----------------------------------------------------------------------------
(* Control: the set-up                                                     *)

LEMMA InitControl ==
  ASSUME Init
  PROVE  IInv
<1>1. TypeOK
  <2>1. proc \in [Sides -> [Roles -> At]]
    BY DEF Init, At
  <2>2. typed \in [Sides -> 0..MaxLines]
    BY TalkAssumption DEF Init
  <2> QED
    BY <2>1, <2>2, EmptySeq DEF Init, TypeOK
<1>2. ASSUME NEW s \in Sides
      PROVE  Places(s) /\ Connected(s)
  BY <1>2, TwoRoles, TwoSides DEF Init, Places, Connected, Main, Using, Setting, Gone
<1>3. ResetHasCause
  BY DEF Init, ResetHasCause
<1>4. EndHasCause
  BY DEF Init, EndHasCause, Roles
<1>5. ASSUME NEW s \in Sides
      PROVE  InStep(s)
  <2>1. Len(<<>>) = 0 /\ DOMAIN <<>> = {}
    BY EmptySeq
  <2> QED
    BY <1>5, <2>1, TwoSides DEF Init, InStep
<1> QED
  BY <1>1, <1>2, <1>3, <1>4, <1>5 DEF IInv, Control

-----------------------------------------------------------------------------
(* What a step must show                                                   *)

\* A step of side s that leaves the peer's processes and descriptors alone.
LEMMA StepOfOne ==
  ASSUME Control, TypeOK', NEW s \in Sides, kind' = kind,
         proc'[Peer(s)] = proc[Peer(s)], hold'[Peer(s)] = hold[Peer(s)],
         typed'[Peer(s)] = typed[Peer(s)],
         Places(s)', Past(s) => Past(s)', Connected(s)'
  PROVE  Control'
<1> DEFINE p == Peer(s)
<1>1. p \in Sides /\ Peer(p) = s /\ Places(p) /\ Connected(p)
  BY TwoSides DEF Control
<1>2. Places(p)'
  BY <1>1 DEF Places, Main, Using
<1>3. Connected(p)'
  BY <1>1 DEF Connected, Main
<1>4. \A t \in Sides : t = s \/ t = p
  BY TwoSides
<1> HIDE DEF p
<1> QED
  BY <1>2, <1>3, <1>4 DEF Control

\* Ends that were read keep their causes, and new ones have theirs.
LEMMA CausesStay ==
  ASSUME EndHasCause, ResetHasCause,
         \A s \in Sides : SideGone(s) => SideGone(s)',
         \A s \in Sides :
           (proc'[s]["reader"] \in {"ended", "spin"} \/ proc'[s]["writer"] = "SIGPIPE") =>
             \/ proc[s]["reader"] \in {"ended", "spin"} \/ proc[s]["writer"] = "SIGPIPE"
             \/ SideGone(Peer(s)),
         reset' => reset \/ \E s \in Sides : SideGone(s)',
         reset' => Accepted'
  PROVE  EndHasCause' /\ ResetHasCause'
BY TwoSides DEF EndHasCause, ResetHasCause

\* Lines that nobody touches stay in step; what is written with nobody to read
\* it, and who comes to read a side that has typed nothing yet, do not matter.
LEMMA LinesStay ==
  ASSUME TypeOK, \A s \in Sides : InStep(s), UNCHANGED <<queue, got>>, reset => reset',
         \A s \in Sides :
           typed'[s] = typed[s] \/ (typed'[s] = typed[s] + 1 /\ (hold'[Peer(s)] = {} \/ reset')),
         \A s \in Sides : hold'[Peer(s)] # {} => hold[Peer(s)] # {} \/ typed[s] = 0
  PROVE  \A s \in Sides : InStep(s)'
<1> TAKE s \in Sides
<1> DEFINE p == Peer(s)
<1>1. /\ p \in Sides /\ InStep(s)
      /\ got[p] \in Seq(Lines) /\ queue[s] \in Seq(Lines)
  BY TwoSides DEF TypeOK
<1>2. Len(got[p]) \in Nat /\ Len(queue[s]) \in Nat
  BY <1>1, LenProperties
<1>3. typed[s] = 0 => Len(got[p]) + Len(queue[s]) = typed[s]
  <2>1. Len(got[p]) + Len(queue[s]) <= typed[s]
    BY <1>1 DEF InStep
  <2>2. \A m, n \in Nat : m + n <= 0 => m + n = 0
    OBVIOUS
  <2> HIDE DEF p
  <2> QED
    BY <1>2, <2>1, <2>2
<1>4. hold'[p] # {} /\ ~reset' => Len(got[p]) + Len(queue[s]) = typed'[s]
  BY <1>1, <1>3 DEF InStep
<1>5. Len(got[p]) + Len(queue[s]) <= typed'[s]
  <2>1. Len(got[p]) + Len(queue[s]) <= typed[s] /\ typed[s] \in Nat
    BY <1>1 DEF InStep, TypeOK
  <2>2. typed'[s] = typed[s] \/ typed'[s] = typed[s] + 1
    OBVIOUS
  <2>3. \A m, n, t \in Nat : m + n <= t => m + n <= t + 1
    OBVIOUS
  <2> HIDE DEF p
  <2> QED
    BY <1>2, <2>1, <2>2, <2>3
<1> QED
  BY <1>1, <1>4, <1>5 DEF InStep

Rest3 == /\ EndHasCause' /\ ResetHasCause' /\ \A s \in Sides : InStep(s)'

-----------------------------------------------------------------------------
(* Setting up                                                              *)

LEMMA StartKeeps ==
  ASSUME IInv, NEW s \in Sides, Start(s)
  PROVE  IInv'
<1> USE DEF IInv, Connect
<1>1. TypeOK /\ Places(A) /\ Places(B) /\ Connected(A) /\ Connected(B)
  BY TwoSides DEF Control
<1>2. /\ Main(s) = "start" /\ proc[s][Child(s)] = "none" /\ typed[s] = 0
      /\ typed[Peer(s)] = 0 /\ hold[s] = {} /\ ~SideGone(s)
  <2>1. Main(s) = "start"
    BY DEF Start, Main
  <2>2. proc[s][Child(s)] = "none" /\ hold[s] = {}
    BY <2>1, TwoSides, TwoRoles DEF Control, Places, Setting, Using, Main
  <2>3. typed[s] = 0 /\ typed[Peer(s)] = 0
    BY <2>1, TwoSides DEF Control, Connected, Past, Setting
  <2> QED
    BY <2>1, <2>2, <2>3, TwoRoles DEF SideGone, Main, Gone
<1>3. PICK w \in {"mkfifo", "open1", "accept", "fork", "failed"} :
        Goto(s, Parent(s), w)
  BY TwoSides, TwoRoles DEF Start
<1>4. /\ proc' \in [Sides -> [Roles -> At]] /\ Main(s)' = w
      /\ proc'[s][Child(s)] = "none" /\ proc'[Peer(s)] = proc[Peer(s)]
  BY <1>1, <1>2, <1>3, TwoSides, TwoRoles DEF TypeOK, Goto, At, Gone, Main
<1>5. hold' \in [Sides -> SUBSET (Roles \cup {"kernel"})]
  BY <1>1, TwoSides, TwoRoles DEF Start, TypeOK
<1>6. TypeOK'
  BY <1>1, <1>4, <1>5 DEF Start, TypeOK
<1>7. Rest3
  <2>1. \A t \in Sides : SideGone(t) => SideGone(t)'
    BY <1>2, <1>4, TwoSides DEF SideGone
  <2>2. \A t \in Sides : hold'[Peer(t)] # {} => hold[Peer(t)] # {} \/ typed[t] = 0
    BY <1>1, <1>2, TwoSides DEF Start
  <2>3. \A t \in Sides : t # s =>
          proc'[t]["reader"] = proc[t]["reader"] /\ proc'[t]["writer"] = proc[t]["writer"]
    BY <1>4, TwoSides
  <2>4. proc'[s]["reader"] \notin {"ended", "spin"} /\ proc'[s]["writer"] # "SIGPIPE"
    BY <1>4, TwoRoles, TwoSides DEF Main
  <2>5. UNCHANGED <<queue, got, typed, reset>>
    BY DEF Start
  <2>6. reset' => Accepted'
    BY <1>1, <1>2, <1>4, <2>5, TwoSides DEF ResetHasCause, Accepted, Main, Setting
  <2>7. EndHasCause' /\ ResetHasCause'
    BY <2>1, <2>3, <2>4, <2>5, <2>6, CausesStay
  <2> QED
    BY <1>1, <2>2, <2>5, <2>7, LinesStay DEF Rest3
<1>8. Control'
  <2>1. CASE hold' = hold /\ w # "fork"
    <3>1. hold'[s] = {} /\ typed'[s] = 0 /\ kind' = kind
      BY <1>2, <2>1 DEF Start
    <3>2. Main(s)' = "accept" => s = A /\ kind' = "socket"
      BY <1>3, <1>4, TwoSides, TwoRoles, <1>1 DEF Start, Goto, TypeOK, Main
    <3>3. Using(s)' = {}
      BY <1>4, <2>1, TwoRoles DEF Using, Main
    <3>4. Places(s)'
      BY <1>4, <2>1, <3>1, <3>2, <3>3 DEF Places
    <3>5. Connected(s)' /\ ~Past(s)
      BY <1>2, <1>4, <2>1, <3>1, TwoRoles DEF Connected, Main, Past, Setting
    <3> QED
      BY <1>4, <1>6, <2>1, <3>1, <3>4, <3>5, StepOfOne, TwoSides DEF Start
  <2>2. CASE ~(hold' = hold /\ w # "fork")
    <3>1. /\ s = B /\ w = "fork" /\ kind = "socket" /\ Main(A) = "accept"
          /\ hold' = [hold EXCEPT ![B] = {"writer"}, ![A] = {"kernel"}]
      BY <1>1, <1>3, <2>2, TwoSides, TwoRoles DEF Start, Goto, Main, TypeOK
    <3>2. hold'[A] = {"kernel"} /\ hold'[B] = {"writer"} /\ kind' = kind
      BY <1>1, <3>1, TwoSides DEF Start, TypeOK
    <3>3. Past(A)' /\ Past(B)'
      BY <1>4, <3>1, <3>2, TwoSides DEF Past, Main, Setting
    <3>4. Places(A)' /\ Connected(A)'
      <4>1. proc'[A] = proc[A] /\ typed'[A] = typed[A] /\ typed[A] = 0
        BY <1>2, <1>4, <3>1, TwoSides DEF Start
      <4>2. Places(A)'
        BY <1>1, <3>1, <3>2, <4>1 DEF Places, Main
      <4>3. Connected(A)'
        BY <3>3, <4>1, TwoSides DEF Connected
      <4> QED
        BY <4>2, <4>3
    <3>5. Using(B)' = {"writer"}
      BY <1>4, <3>1, TwoSides, TwoRoles DEF Using, Main
    <3>6. Places(B)' /\ Connected(B)'
      BY <1>1, <1>2, <1>4, <3>1, <3>2, <3>3, <3>5, TwoSides, TwoRoles
         DEF Places, Connected, Main, Start
    <3> QED
      BY <1>6, <3>4, <3>6, TwoSides DEF Control
  <2> QED
    BY <2>1, <2>2
<1> QED
  BY <1>7, <1>8 DEF Rest3

LEMMA AcceptKeeps ==
  ASSUME IInv, Accept
  PROVE  IInv'
<1> USE DEF IInv
<1>1. /\ TypeOK /\ Places(A) /\ Connected(A) /\ Main(A) = "accept" /\ kind = "socket"
      /\ proc[A]["writer"] = "none" /\ typed[A] = 0 /\ hold[A] \subseteq {"kernel"}
  <2>1. TypeOK /\ Places(A) /\ Connected(A) /\ Main(A) = "accept"
    BY TwoSides, TwoRoles DEF Control, Accept, Main
  <2>2. typed[A] = 0
    BY <2>1 DEF Connected
  <2> QED
    BY <2>1, <2>2, TwoSides, TwoRoles DEF Places
<1>2. PICK w \in {"fork", "failed"} :
        /\ Goto(A, "reader", w)
        /\ hold' = [hold EXCEPT ![A] = IF w = "fork" THEN {"reader"} ELSE {}]
        /\ w = "fork" => hold[A] = {"kernel"} /\ reset' = reset
        /\ w = "failed" => reset' = (hold[A] # {})
  BY DEF Accept
<1>3. /\ proc' \in [Sides -> [Roles -> At]] /\ Main(A)' = w
      /\ proc'[A]["reader"] = w /\ proc'[A]["writer"] = "none" /\ proc'[B] = proc[B]
      /\ hold'[A] = (IF w = "fork" THEN {"reader"} ELSE {}) /\ hold'[B] = hold[B]
  BY <1>1, <1>2, TwoSides, TwoRoles DEF TypeOK, Goto, At, Gone, Main
<1>4. TypeOK'
  BY <1>1, <1>2, <1>3, TwoSides, TwoRoles DEF Accept, TypeOK
<1>5. ~reset
  BY <1>1 DEF ResetHasCause, Accepted
<1>6. Rest3
  <2>1. SideGone(B) => SideGone(B)'
    BY <1>3 DEF SideGone
  <2>2. ~SideGone(A)
    BY <1>1, TwoSides, TwoRoles DEF SideGone, Main, Gone
  <2>3. w = "failed" => SideGone(A)'
    BY <1>3, TwoRoles, TwoSides DEF SideGone, Gone
  <2>4. UNCHANGED <<queue, got, typed>>
    BY DEF Accept
  <2>5. EndHasCause' /\ ResetHasCause'
    <3>1. Accepted'
      BY <1>3 DEF Accepted, Setting
    <3> QED
      BY <1>2, <1>3, <2>1, <2>2, <2>3, <3>1, CausesStay, TwoSides
  <2>6. \A t \in Sides : hold'[Peer(t)] # {} => hold[Peer(t)] # {} \/ typed[t] = 0
    BY <1>2, <1>3, TwoSides
  <2> QED
    BY <1>1, <1>5, <2>4, <2>5, <2>6, LinesStay DEF Rest3
<1>7. Control'
  <2>1. Using(A)' = hold'[A]
    BY <1>3, TwoRoles, TwoSides DEF Using
  <2>2. Places(A)'
    BY <1>3, <2>1, TwoRoles, TwoSides DEF Places
  <2>3. Past(A)'
    BY <1>3 DEF Past, Setting
  <2>4. proc'[B] = proc[B] /\ hold'[B] = hold[B] /\ UNCHANGED <<typed, kind>>
    BY <1>3 DEF Accept
  <2>5. Past(B) => Past(B)'
    BY <2>4 DEF Past, Main
  <2>6. Connected(A)'
    BY <1>1, <1>2, <1>3, <2>4, <2>5, TwoRoles, TwoSides DEF Connected
  <2> QED
    BY <1>4, <2>2, <2>3, <2>4, <2>6, StepOfOne, TwoSides
<1> QED
  BY <1>6, <1>7 DEF Rest3

\* Calls that only let one of the programs go on, or end before it talks.
LEMMA FirstCallsKeep ==
  ASSUME IInv, MkFifo \/ OpenMissing
  PROVE  IInv'
<1> USE DEF IInv
<1>1. PICK s \in Sides, w \in {"open1", "failed"} :
        Goto(s, Parent(s), w) /\ Main(s) \in {"mkfifo", "open1"}
  BY TwoSides, TwoRoles DEF MkFifo, OpenMissing, Main
<1>2. /\ UNCHANGED <<kind, hold, queue, reset, typed, got>>
      /\ fifos' \subseteq {"fifo_1", "fifo_2"}
  BY DEF MkFifo, OpenMissing, Control, TypeOK
<1>3. /\ TypeOK /\ Places(s) /\ Connected(s) /\ proc[s][Child(s)] = "none"
      /\ typed[s] = 0 /\ ~Past(s) /\ hold[s] = Using(s) /\ ~SideGone(s)
  BY <1>1, TwoRoles DEF Control, Places, Connected, Past, Setting, SideGone, Main, Gone
<1>4. /\ proc' \in [Sides -> [Roles -> At]] /\ proc'[s][Parent(s)] = w
      /\ proc'[s][Child(s)] = "none" /\ proc'[Peer(s)] = proc[Peer(s)]
  BY <1>1, <1>3, TwoSides, TwoRoles DEF TypeOK, Goto, At, Gone
<1>5. TypeOK'
  BY <1>2, <1>3, <1>4 DEF TypeOK
<1>6. Rest3
  <2>1. \A t \in Sides : SideGone(t) => SideGone(t)'
    BY <1>3, <1>4, TwoSides DEF SideGone
  <2>2. \A t \in Sides : t # s =>
          proc'[t]["reader"] = proc[t]["reader"] /\ proc'[t]["writer"] = proc[t]["writer"]
    BY <1>4, TwoSides
  <2>3. proc'[s]["reader"] \notin {"ended", "spin"} /\ proc'[s]["writer"] # "SIGPIPE"
    BY <1>4, TwoRoles, TwoSides
  <2>4. EndHasCause' /\ ResetHasCause'
    <3>1. reset' => Accepted'
      BY <1>1, <1>2, <1>4, TwoSides DEF ResetHasCause, Accepted, Main, Setting
    <3> QED
      BY <1>2, <2>1, <2>2, <2>3, <3>1, CausesStay
  <2> QED
    BY <1>2, <1>3, <2>4, LinesStay DEF Rest3
<1>7. Control'
  <2>1. Using(s)' = {} /\ Using(s) = {}
    BY <1>1, <1>3, <1>4, TwoRoles DEF Using, Main
  <2>2. Places(s)'
    BY <1>2, <1>3, <1>4, <2>1 DEF Places, Main
  <2>3. Connected(s)'
    <3>1. \A r \in Roles : proc'[s][r] \in {"none", "open1", "failed"}
      BY <1>4, TwoRoles
    <3>2. typed'[s] = 0 /\ hold'[s] = {}
      BY <1>2, <1>3, <2>1
    <3> QED
      BY <3>1, <3>2 DEF Connected
  <2> QED
    BY <1>2, <1>3, <1>4, <1>5, <2>2, <2>3, StepOfOne
<1> QED
  BY <1>6, <1>7 DEF Rest3

LEMMA RendezvousKeeps ==
  ASSUME IInv, Rendezvous
  PROVE  IInv'
<1> USE DEF IInv
<1>1. /\ UNCHANGED <<kind, fifos, queue, reset, typed, got>>
      /\ proc' = [t \in Sides |-> [proc[t] EXCEPT ![Parent(t)] =
                                    IF @ = "open1" THEN "open2" ELSE "fork"]]
      /\ hold' = [t \in Sides |-> {Parent(t)}]
  BY DEF Rendezvous
<1>2. \/ Main(A) = "open1" /\ Main(B) = "open1"
      \/ Main(A) = "open2" /\ Main(B) = "open2"
  BY TwoSides DEF Rendezvous, Opening, Opens, Control, TypeOK, Main
<1>3. PICK w \in {"open2", "fork"} :
        \A t \in Sides : Main(t)' = w /\ proc'[t][Child(t)] = "none" /\ typed[t] = 0
  <2>1. \A t \in Sides : proc[t] \in [Roles -> At] /\ proc[t][Child(t)] = "none" /\ typed[t] = 0
    BY <1>2, TwoSides DEF Control, TypeOK, Places, Connected, Setting
  <2> QED
    BY <1>1, <1>2, <2>1, TwoRoles, TwoSides DEF Main
<1>4. TypeOK'
  <2>1. proc' \in [Sides -> [Roles -> At]]
    BY <1>1, TwoRoles DEF Control, TypeOK, At
  <2>2. hold' \in [Sides -> SUBSET (Roles \cup {"kernel"})]
    BY <1>1, TwoRoles
  <2> QED
    BY <1>1, <2>1, <2>2 DEF Control, TypeOK
<1>5. Rest3
  <2>1. \A t \in Sides : ~SideGone(t)
    BY <1>2, TwoSides, TwoRoles DEF SideGone, Main, Gone
  <2>2. \A t \in Sides : proc'[t]["reader"] \notin {"ended", "spin"} /\ proc'[t]["writer"] # "SIGPIPE"
    BY <1>3, TwoRoles, TwoSides DEF Main
  <2>3. ~reset
    BY <2>1 DEF ResetHasCause
  <2> QED
    BY <1>1, <1>3, <2>2, <2>3, LinesStay DEF Rest3, Control, EndHasCause, ResetHasCause
<1>6. ASSUME NEW t \in Sides
      PROVE  Places(t)' /\ Connected(t)'
  <2>1. hold'[t] = {Parent(t)} /\ Using(t)' = {Parent(t)} /\ Parent(t) # "kernel"
    BY <1>1, <1>3, <1>6, TwoRoles DEF Using, Main
  <2>2. w = "fork" => Past(Peer(t))'
    BY <1>3, TwoSides DEF Past, Setting
  <2>3. Places(t)'
    BY <1>3, <2>1 DEF Places, Main
  <2>4. Connected(t)'
    BY <1>1, <1>3, <2>1, <2>2, TwoRoles DEF Connected, Main
  <2> QED
    BY <2>3, <2>4
<1> QED
  BY <1>4, <1>5, <1>6 DEF Control, Rest3

\* Processes rs of a connected side s go and drop its descriptors, for the
\* reasons `how`: the peer's bookkeeping stands, and a reset has its cause.
LEMMA GoingKeeps ==
  ASSUME IInv, NEW s \in Sides, Main(s) \in {"open2", "fork", "run", "spin"} \cup Gone,
         NEW rs \in SUBSET Roles, NEW how \in Gone,
         how \in {"ended", "SIGPIPE"} => SideGone(Peer(s)),
         proc' = [proc EXCEPT ![s] = [r \in Roles |-> IF r \in rs THEN how ELSE @[r]]],
         \A r \in rs : proc[s][r] \notin {"none"} \cup Gone,
         Drop(s, rs), UNCHANGED <<kind, fifos, queue, got>>,
         \/ typed' = typed
         \/ /\ typed' = [typed EXCEPT ![s] = @ + 1] /\ typed[s] < MaxLines
            /\ proc[s]["writer"] = "run" /\ SideGone(Peer(s))
  PROVE  IInv'
<1> USE DEF IInv
<1>1. TypeOK /\ Places(s) /\ Connected(s) /\ hold[s] = Using(s)
  BY DEF Control, Places, Gone
<1>2. /\ proc' \in [Sides -> [Roles -> At]] /\ proc'[Peer(s)] = proc[Peer(s)]
      /\ \A r \in rs : proc'[s][r] = how
      /\ \A r \in Roles \ rs : proc'[s][r] = proc[s][r]
  BY <1>1, TwoSides DEF TypeOK, At
<1>3. /\ hold' \in [Sides -> SUBSET (Roles \cup {"kernel"})]
      /\ hold'[s] = hold[s] \ rs /\ hold'[Peer(s)] = hold[Peer(s)]
  BY <1>1, TwoSides DEF Drop, TypeOK
<1>4. TypeOK' /\ typed'[Peer(s)] = typed[Peer(s)]
  <2>1. typed' \in [Sides -> 0..MaxLines] /\ typed'[Peer(s)] = typed[Peer(s)]
    BY <1>1, TwoSides, TalkAssumption DEF TypeOK
  <2> QED
    BY <1>1, <1>2, <1>3, <2>1 DEF TypeOK, Drop
<1>5. Places(s)' /\ Main(s)' \in {"open2", "fork", "run", "spin"} \cup Gone
  <2>1. Using(s)' = Using(s) \ rs
    BY <1>2 DEF Using, Gone
  <2>2. Main(s)' \in {"open2", "fork", "run", "spin"} \cup Gone
    BY <1>2, TwoRoles DEF Main
  <2>3. proc'[s][Child(s)] \in {"none", "run", "spin"} \cup Gone
    BY <1>1, <1>2, TwoRoles DEF Places
  <2>4. Main(s)' \in {"open2", "fork"} => proc'[s][Child(s)] = "none"
    BY <1>1, <1>2, TwoRoles DEF Main, Places, Gone, Setting
  <2> QED
    BY <1>1, <1>3, <2>1, <2>2, <2>3, <2>4 DEF Places, Gone, Setting
<1>6. Past(s) => Past(s)'
  BY <1>2, <1>5, TwoRoles DEF Past, Main, Setting, Gone
<1>7. Connected(s)'
  <2>1. Past(Peer(s)) => Past(Peer(s))'
    BY <1>2, <1>3 DEF Past, Main
  <2>2. (\E r \in Roles : proc'[s][r] \in {"fork", "run", "spin"}) =>
          \E r \in Roles : proc[s][r] \in {"fork", "run", "spin"}
    BY <1>2 DEF Gone
  <2>3. Main(s)' \in Setting \cup {"accept", "fork"} => Main(s) \in Setting \cup {"accept", "fork"}
    BY <1>2, TwoRoles DEF Main, Gone, Setting
  <2>4. hold'[s] # {"kernel"}
    BY <1>1, <1>3, TwoRoles DEF Using
  <2>5. proc[s]["writer"] = "run" =>
          Past(Peer(s)) /\ Main(s) \notin Setting \cup {"accept", "fork"}
    BY <1>1, TwoRoles DEF Connected, Places, Main, Setting
  <2> QED
    BY <1>1, <2>1, <2>2, <2>3, <2>4, <2>5 DEF Connected
<1>8. Control'
  BY <1>2, <1>3, <1>4, <1>5, <1>6, <1>7, StepOfOne
<1>9. reset' => reset \/ (SideGone(s)' /\ Accepted')
  <2>1. SUFFICES ASSUME kind = "socket", hold[s] # {}, hold[s] \subseteq rs, queue[Peer(s)] # <<>>
                 PROVE  SideGone(s)' /\ Accepted'
    BY DEF Drop
  <2>2. hold'[s] = {}
    BY <1>3, <2>1
  <2>3. InStep(Peer(s)) /\ queue[Peer(s)] \in Seq(Lines) /\ got[s] \in Seq(Lines)
        /\ typed[Peer(s)] \in Nat
    BY <1>1, TwoSides DEF TypeOK
  <2>4. typed[Peer(s)] # 0
    <3>1. Len(queue[Peer(s)]) \in Nat \ {0} /\ Len(got[s]) \in Nat
      BY <2>1, <2>3, EmptySeq, LenProperties
    <3>2. Len(got[s]) + Len(queue[Peer(s)]) <= typed[Peer(s)]
      BY <2>3, TwoSides DEF InStep
    <3>3. \A m \in Nat, n \in Nat \ {0} : ~(m + n <= 0)
      OBVIOUS
    <3> QED
      BY <3>1, <3>2, <3>3
  <2>5. Past(s) /\ Main(Peer(s)) \notin Setting \cup {"accept", "fork"}
    BY <2>4, TwoSides DEF Control, Connected
  <2>6. SideGone(s)'
    <3>1. Past(s)'
      BY <1>6, <2>5
    <3>2. \A r \in Roles : proc'[s][r] \notin {"open2", "fork", "run", "spin"}
      BY <1>5, <2>2, <3>1 DEF Places, Past, Using
    <3>3. Main(s)' \in Gone /\ proc'[s][Child(s)] \in Gone \cup {"none"}
      BY <1>5, <3>2, TwoRoles DEF Main, Places
    <3> QED
      BY <3>3, TwoRoles DEF SideGone, Main
  <2>7. Accepted'
    BY <1>2, <1>5, <2>5, TwoSides, TwoRoles, <1>6 DEF Accepted, Main, Past, Setting, Gone
  <2> QED
    BY <2>6, <2>7
<1>10. Rest3
  <2>1. \A t \in Sides : SideGone(t) => SideGone(t)'
    BY <1>2, TwoSides DEF SideGone
  <2>2. \A t \in Sides :
          (proc'[t]["reader"] \in {"ended", "spin"} \/ proc'[t]["writer"] = "SIGPIPE") =>
            \/ proc[t]["reader"] \in {"ended", "spin"} \/ proc[t]["writer"] = "SIGPIPE"
            \/ SideGone(Peer(t))
    BY <1>2, TwoSides DEF Roles, Gone
  <2>3. reset => reset'
    BY DEF Drop
  <2>4. reset' => Accepted'
    BY <1>2, <1>6, <1>9, TwoSides, TwoRoles DEF ResetHasCause, Accepted, Main, Past, Setting, Gone
  <2>5. EndHasCause' /\ ResetHasCause'
    BY <1>9, <2>1, <2>2, <2>4, CausesStay
  <2>6. \A t \in Sides : hold'[Peer(t)] # {} => hold[Peer(t)] # {}
    BY <1>3, TwoSides
  <2>7. SideGone(Peer(s)) => hold'[Peer(s)] = {}
    BY <1>1, <1>3, GonePast, TwoSides DEF Control
  <2>8. \A t \in Sides :
          typed'[t] = typed[t] \/ (typed'[t] = typed[t] + 1 /\ hold'[Peer(t)] = {})
    BY <1>1, <1>4, <2>7, TwoSides DEF TypeOK
  <2> QED
    BY <1>1, <2>3, <2>5, <2>6, <2>8, LinesStay DEF Rest3
<1> QED
  BY <1>8, <1>10 DEF Rest3

\* One process that exits is a case of it.
LEMMA ExitForm ==
  ASSUME TypeOK, NEW s \in Sides, NEW r \in Roles, NEW how, Goto(s, r, how)
  PROVE  proc' = [proc EXCEPT ![s] = [q \in Roles |-> IF q \in {r} THEN how ELSE @[q]]]
BY DEF TypeOK, Goto

LEMMA ForkKeeps ==
  ASSUME IInv, NEW s \in Sides, Fork(s)
  PROVE  IInv'
<1>1. /\ TypeOK /\ Places(s) /\ Connected(s) /\ Main(s) = "fork"
      /\ Parent(s) \in Roles /\ hold[s] = Using(s)
  BY TwoRoles DEF IInv, Control, Fork, Main, Places
<1>2. CASE Exit(s, Parent(s), "failed")
  BY <1>1, <1>2, ExitForm, GoingKeeps DEF Fork, Exit, Gone, Main
<1>3. CASE /\ proc' = [proc EXCEPT ![s] = [r \in Roles |-> "run"]]
           /\ hold' = [hold EXCEPT ![s] = Roles]
           /\ UNCHANGED reset
  <2>1. /\ UNCHANGED <<kind, fifos, queue, got, typed, reset>>
        /\ \A r \in Roles : proc'[s][r] = "run"
        /\ proc'[Peer(s)] = proc[Peer(s)] /\ hold'[s] = Roles /\ hold'[Peer(s)] = hold[Peer(s)]
    BY <1>1, <1>3, TwoSides DEF Fork, TypeOK
  <2>2. TypeOK'
    BY <1>1, <1>3, <2>1 DEF TypeOK, At
  <2>3. Places(s)' /\ Past(s)'
    BY <1>1, <2>1, TwoRoles DEF Places, Past, Main, Using, Setting
  <2>4. Connected(s)'
    <3>1. Past(Peer(s))
      BY <1>1, TwoRoles DEF Connected, Main
    <3>2. Past(Peer(s))'
      BY <2>1, <3>1 DEF Past, Main
    <3> QED
      BY <2>1, <3>2, TwoRoles DEF Connected, Main, Setting
  <2>5. Control'
    BY <2>1, <2>2, <2>3, <2>4, StepOfOne DEF IInv
  <2>6. EndHasCause' /\ ResetHasCause'
    <3>1. ~SideGone(s)
      BY <1>1, TwoRoles DEF SideGone, Main, Gone
    <3>2. \A t \in Sides : SideGone(t) => SideGone(t)'
      BY <2>1, <3>1, TwoSides DEF SideGone
    <3>3. reset' => Accepted'
      BY <1>1, <2>1, TwoSides, TwoRoles DEF IInv, ResetHasCause, Accepted, Main, Setting
    <3>4. \A t \in Sides :
            (proc'[t]["reader"] \in {"ended", "spin"} \/ proc'[t]["writer"] = "SIGPIPE") =>
              proc[t]["reader"] \in {"ended", "spin"} \/ proc[t]["writer"] = "SIGPIPE"
      BY <2>1, TwoSides DEF Roles
    <3> QED
      BY <2>1, <3>2, <3>3, <3>4, CausesStay DEF IInv
  <2>7. \A t \in Sides : hold'[Peer(t)] # {} => hold[Peer(t)] # {}
    BY <1>1, <2>1, TwoSides, TwoRoles DEF Using, Main
  <2> QED
    BY <1>1, <2>1, <2>5, <2>6, <2>7, LinesStay DEF IInv
<1> QED
  BY <1>2, <1>3 DEF Fork

\* Who runs is past its set-up.
LEMMA RunningMain ==
  ASSUME TypeOK, NEW s \in Sides, Places(s), NEW r \in Roles, proc[s][r] \in {"run", "spin"}
  PROVE  Main(s) \in {"run", "spin"} \cup Gone
<1>1. Main(s) \in At /\ Main(s) # "none"
  BY TwoRoles DEF Main, TypeOK, Places
<1>2. CASE r = Child(s)
  <2>1. Main(s) \notin {"start", "mkfifo", "open1", "open2", "accept", "fork"}
    BY <1>2 DEF Places, Setting
  <2> QED
    BY <1>1, <2>1 DEF At
<1>3. CASE r = Parent(s)
  BY <1>3 DEF Main
<1> QED
  BY <1>2, <1>3, TwoRoles

LEMMA LeaveKeeps ==
  ASSUME IInv, NEW s \in Sides, Leave(s)
  PROVE  IInv'
<1>1. /\ TypeOK /\ Places(s) /\ "writer" \in Roles /\ proc[s]["writer"] = "run"
      /\ Exit(s, "writer", "left")
  BY DEF IInv, Control, Leave, Roles
<1>2. Main(s) \in {"run", "spin"} \cup Gone
  BY <1>1, RunningMain
<1> QED
  BY <1>1, <1>2, ExitForm, GoingKeeps DEF Leave, Exit, Gone

LEMMA InterruptKeeps ==
  ASSUME IInv, NEW s \in Sides, Interrupt(s)
  PROVE  IInv'
<1> USE DEF IInv
<1>1. /\ TypeOK /\ Places(s) /\ Connected(s) /\ Main(s) \in At
      /\ Main(s) \notin Gone \cup {"start", "none"}
  BY TwoRoles DEF Control, Interrupt, Places, Main, TypeOK
<1> DEFINE rs == {r \in Roles : proc[s][r] \notin Gone \cup {"none"}}
<1>2. proc' = [proc EXCEPT ![s] = [r \in Roles |-> IF r \in rs THEN "interrupted" ELSE @[r]]]
  BY <1>1 DEF Interrupt, TypeOK
<1>3. CASE Main(s) \in {"open2", "fork", "run", "spin"}
  <2>1. hold[s] = Using(s) /\ hold[s] \subseteq rs /\ "kernel" \notin hold[s]
    BY <1>1, <1>3, TwoRoles DEF Places, Using, Gone
  <2>2. Drop(s, rs)
    BY <1>1, <2>1 DEF Interrupt, Drop, TypeOK
  <2>3. rs \in SUBSET Roles /\ \A r \in rs : proc[s][r] \notin {"none"} \cup Gone
    OBVIOUS
  <2>4. UNCHANGED <<kind, fifos, queue, got, typed>> /\ "interrupted" \in Gone
    BY DEF Interrupt, Gone
  <2> HIDE DEF rs
  <2> QED
    BY <1>2, <1>3, <2>2, <2>3, <2>4, GoingKeeps
<1>4. CASE Main(s) \in {"mkfifo", "open1", "accept"}
  <2>1. proc[s][Child(s)] = "none" /\ typed[s] = 0
    BY <1>1, <1>4 DEF Places, Connected, Setting
  <2>2. Main(s) # "accept" => hold[s] = {}
    BY <1>1, <1>4, <2>1, TwoRoles DEF Places, Using, Main
  <2>3. Main(s) = "accept" => s = A /\ ~reset
    BY <1>1 DEF Places, ResetHasCause, Accepted
  <2>4. /\ Main(s)' = "interrupted" /\ proc'[s][Child(s)] = "none"
        /\ proc'[Peer(s)] = proc[Peer(s)] /\ proc' \in [Sides -> [Roles -> At]]
    BY <1>1, <1>2, <2>1, TwoRoles, TwoSides DEF TypeOK, Main, At, Gone
  <2>5. /\ hold'[s] = {} /\ hold'[Peer(s)] = hold[Peer(s)]
        /\ hold' \in [Sides -> SUBSET (Roles \cup {"kernel"})]
        /\ UNCHANGED <<kind, fifos, queue, got, typed>>
    BY <1>1, TwoSides DEF Interrupt, TypeOK
  <2>6. reset' \in BOOLEAN /\ (reset => reset') /\ (reset' => reset \/ Main(s) = "accept")
    BY <1>1, <2>2 DEF Interrupt, TypeOK
  <2>7. TypeOK'
    BY <1>1, <2>4, <2>5, <2>6 DEF TypeOK
  <2>8. Using(s)' = {} /\ Past(s)' /\ SideGone(s)'
    BY <2>4, TwoRoles DEF Using, Past, Main, Setting, SideGone, Gone
  <2>9. Control'
    <3>1. Places(s)'
      BY <2>4, <2>5, <2>8 DEF Places, Gone, Setting
    <3>2. Connected(s)'
      BY <2>1, <2>4, <2>5, TwoRoles DEF Connected, Main
    <3> QED
      BY <2>4, <2>5, <2>7, <2>8, <3>1, <3>2, StepOfOne
  <2>10. EndHasCause' /\ ResetHasCause'
    <3>1. ~SideGone(s)
      BY <1>1, TwoRoles DEF SideGone, Main
    <3>2. \A t \in Sides : SideGone(t) => SideGone(t)'
      BY <2>4, <3>1, TwoSides DEF SideGone
    <3>3. \A t \in Sides :
            (proc'[t]["reader"] \in {"ended", "spin"} \/ proc'[t]["writer"] = "SIGPIPE") =>
              proc[t]["reader"] \in {"ended", "spin"} \/ proc[t]["writer"] = "SIGPIPE"
      BY <2>4, TwoSides, TwoRoles DEF Main
    <3>4. reset' => Accepted'
      BY <2>3, <2>4, <2>6, TwoSides DEF ResetHasCause, Accepted, Main, Setting
    <3> QED
      BY <2>6, <2>8, <3>2, <3>3, <3>4, CausesStay
  <2>11. \A t \in Sides : hold'[Peer(t)] # {} => hold[Peer(t)] # {}
    BY <2>5, TwoSides
  <2> QED
    BY <1>1, <2>5, <2>6, <2>9, <2>10, <2>11, LinesStay
<1> QED
  BY <1>1, <1>3, <1>4 DEF At

-----------------------------------------------------------------------------
(* Talking                                                                 *)

\* What the steps of a running process leave alone.
LEMMA QuietControl ==
  ASSUME Control, TypeOK', UNCHANGED <<kind, proc, hold>>,
         \A s \in Sides : typed'[s] # typed[s] => proc[s]["writer"] = "run"
  PROVE  Control'
<1>1. ASSUME NEW s \in Sides
      PROVE  Places(s)' /\ Connected(s)'
  <2>1. Places(s)'
    BY <1>1 DEF Control, Places, Main, Using
  <2>2. Past(Peer(s)) => Past(Peer(s))'
    BY DEF Past, Main
  <2>3. proc[s]["writer"] = "run" => Main(s) \in {"run", "spin"} \cup Gone /\ Past(Peer(s))
    BY <1>1, RunningMain DEF Control, Roles, Connected
  <2>4. typed'[s] # 0 => Main(s) \notin Setting \cup {"accept", "fork"} /\ Past(Peer(s))
    BY <1>1, <2>3 DEF Control, Connected, Setting, Gone
  <2> QED
    BY <1>1, <2>1, <2>2, <2>4 DEF Control, Connected, Main
<1> QED
  BY <1>1 DEF Control

LEMMA QuietCauses ==
  ASSUME EndHasCause, ResetHasCause, UNCHANGED <<proc, reset>>
  PROVE  EndHasCause' /\ ResetHasCause'
BY DEF EndHasCause, ResetHasCause, SideGone, Accepted, Main

\* A line goes to the end of the queue, with the next number.
LEMMA QueueGrows ==
  ASSUME NEW s, NEW g \in Seq(Lines), NEW q \in Seq(Lines), NEW t \in Nat,
         NEW a, a = Append(q, [from |-> s, n |-> t + 1]), [from |-> s, n |-> t + 1] \in Lines,
         Len(g) + Len(q) = t,
         \A k \in DOMAIN q : q[k] = [from |-> s, n |-> Len(g) + k]
  PROVE  /\ Len(g) + Len(a) = t + 1 /\ Len(g) + Len(a) <= t + 1
         /\ \A k \in DOMAIN a : a[k] = [from |-> s, n |-> Len(g) + k]
<1> DEFINE line == [from |-> s, n |-> t + 1]
<1>1. /\ Len(a) = Len(q) + 1 /\ DOMAIN a = 1..Len(a)
      /\ \A k \in 1..Len(q) : a[k] = q[k]
      /\ a[Len(q) + 1] = line
      /\ Len(q) \in Nat /\ Len(g) \in Nat /\ DOMAIN q = 1..Len(q)
  BY AppendProperties, LenProperties
<1>4. \A m, n \in Nat : m + n = t => m + (n + 1) = t + 1
  OBVIOUS
<1> HIDE DEF line
<1>2. Len(g) + Len(a) = t + 1
  BY <1>1, <1>4
<1>3. ASSUME NEW k \in DOMAIN a
      PROVE  a[k] = [from |-> s, n |-> Len(g) + k]
  <2>1. k \in 1..Len(q) \/ k = Len(q) + 1
    BY <1>1, <1>3
  <2>2. Len(g) + (Len(q) + 1) = t + 1
    BY <1>1, <1>4
  <2> QED
    BY <1>1, <2>1, <2>2 DEF line
<1>5. Len(g) + Len(a) <= t + 1
  <2>1. \A m \in Nat : m <= m
    OBVIOUS
  <2> QED
    BY <1>2, <2>1
<1> QED
  BY <1>2, <1>3, <1>5

LEMMA TypeLineKeeps ==
  ASSUME IInv, NEW s \in Sides, TypeLine(s)
  PROVE  IInv'
<1> USE DEF IInv
<1> DEFINE p == Peer(s)
<1>1. /\ TypeOK /\ Places(s) /\ Places(p) /\ "writer" \in Roles /\ p \in Sides
      /\ proc[s]["writer"] = "run" /\ typed[s] < MaxLines /\ typed[s] \in Nat
      /\ typed' = [typed EXCEPT ![s] = @ + 1] /\ UNCHANGED <<kind, fifos, got>>
  BY TwoSides DEF Control, TypeLine, Roles, TypeOK
<1>2. typed' \in [Sides -> 0..MaxLines] /\ typed'[s] = typed[s] + 1 /\ typed'[p] = typed[p]
  BY <1>1, TwoSides, TalkAssumption DEF TypeOK
<1>3. Main(s) \in {"run", "spin"} \cup Gone /\ Past(p)
  BY <1>1, RunningMain DEF Control, Connected
<1>4. hold[p] = {} \/ reset => SideGone(p)
  <2>1. ~SideGone(s)
    BY <1>1, Running
  <2> QED
    BY <1>1, <1>3, <2>1, GoneHoldsNothing, TwoSides DEF ResetHasCause
<1>5. CASE /\ hold[p] # {} /\ ~reset
           /\ queue' = [queue EXCEPT ![Outgoing(s)] = Append(@, [from |-> s, n |-> typed[s] + 1])]
           /\ UNCHANGED <<proc, hold, reset>>
  <2> DEFINE line == [from |-> s, n |-> typed[s] + 1]
  <2>1. line \in Lines
    BY <1>1, TalkAssumption DEF Lines
  <2>2. /\ queue'[s] = Append(queue[s], line) /\ queue'[p] = queue[p]
        /\ queue[s] \in Seq(Lines) /\ got[p] \in Seq(Lines)
    BY <1>1, <1>5, TwoSides DEF TypeOK, Outgoing
  <2>3. queue' \in [Sides -> Seq(Lines)]
    BY <1>1, <1>5, <2>1, <2>2, AppendProperties DEF Outgoing, TypeOK
  <2>4. TypeOK'
    BY <1>1, <1>2, <1>5, <2>3 DEF TypeOK
  <2>5. Control'
    BY <1>1, <1>2, <1>5, <2>4, QuietControl, TwoSides
  <2>6. InStep(s)'
    <3>1. Len(got[p]) + Len(queue[s]) = typed[s]
      BY <1>1, <1>5 DEF InStep
    <3>2. \A k \in DOMAIN queue[s] : queue[s][k] = [from |-> s, n |-> Len(got[p]) + k]
      BY <1>1 DEF InStep
    <3>3. \A k \in DOMAIN got[p] : got[p][k] = [from |-> s, n |-> k]
      BY <1>1 DEF InStep
    <3>4. queue'[s] = Append(queue[s], [from |-> s, n |-> typed[s] + 1])
      BY <2>2
    <3> HIDE DEF p
    <3>5. /\ Len(got[p]) + Len(queue'[s]) = typed[s] + 1
          /\ Len(got[p]) + Len(queue'[s]) <= typed[s] + 1
          /\ \A k \in DOMAIN queue'[s] : queue'[s][k] = [from |-> s, n |-> Len(got[p]) + k]
      <4> DEFINE g == got[p]
                 q == queue[s]
                 t == typed[s]
                 a == queue'[s]
      <4>1. g \in Seq(Lines) /\ q \in Seq(Lines) /\ t \in Nat
        BY <1>1, <2>2
      <4>2. a = Append(q, [from |-> s, n |-> t + 1]) /\ [from |-> s, n |-> t + 1] \in Lines
        BY <2>1, <3>4
      <4>3. Len(g) + Len(q) = t /\ \A k \in DOMAIN q : q[k] = [from |-> s, n |-> Len(g) + k]
        BY <3>1, <3>2
      <4> HIDE DEF g, q, t, a
      <4>4. /\ Len(g) + Len(a) = t + 1 /\ Len(g) + Len(a) <= t + 1
            /\ \A k \in DOMAIN a : a[k] = [from |-> s, n |-> Len(g) + k]
        BY <4>1, <4>2, <4>3, QueueGrows
      <4> QED
        BY <4>4 DEF g, q, t, a
    <3>6. got'[p] = got[p] /\ typed'[s] = typed[s] + 1
      BY <1>1, <1>2
    <3> QED
      BY <3>3, <3>5, <3>6 DEF InStep, p
  <2>7. InStep(p)'
    <3>1. Peer(p) = s /\ InStep(p)
      BY <1>1, TwoSides
    <3> HIDE DEF p
    <3> QED
      BY <1>1, <1>2, <1>5, <2>2, <3>1 DEF InStep
  <2> QED
    BY <1>5, <2>5, <2>6, <2>7, QuietCauses, TwoSides
<1>6. CASE /\ hold[p] = {} /\ kind = "socket" /\ ~reset
           /\ reset' = TRUE /\ UNCHANGED <<proc, hold, queue>>
  <2>1. TypeOK'
    BY <1>1, <1>2, <1>6 DEF TypeOK
  <2>2. Control'
    BY <1>1, <1>2, <1>6, <2>1, QuietControl, TwoSides
  <2>3. \A t \in Sides : SideGone(t)' <=> SideGone(t)
    BY <1>6 DEF SideGone
  <2>4. Accepted'
    <3>1. Main(p) # "accept" /\ Main(p) \notin Setting
      BY <1>3, <1>6 DEF Past
    <3>2. Main(s) \notin Setting \cup {"accept"}
      BY <1>3 DEF Setting, Gone
    <3> QED
      BY <1>6, <3>1, <3>2, TwoSides DEF Accepted, Main
  <2>5. EndHasCause' /\ ResetHasCause'
    BY <1>1, <1>4, <1>6, <2>3, <2>4, CausesStay
  <2>6. \A t \in Sides : typed'[t] = typed[t] \/ (typed'[t] = typed[t] + 1 /\ reset')
    BY <1>2, <1>6, TwoSides
  <2> QED
    BY <1>1, <1>6, <2>2, <2>5, <2>6, LinesStay
<1>7. CASE /\ reset \/ (kind = "fifo" /\ hold[p] = {})
           /\ Exit(s, "writer", "SIGPIPE") /\ UNCHANGED queue
  <2>1. proc' = [proc EXCEPT ![s] = [r \in Roles |-> IF r \in {"writer"} THEN "SIGPIPE" ELSE @[r]]]
    BY <1>1, <1>7, ExitForm DEF Exit
  <2>2. Drop(s, {"writer"}) /\ SideGone(p) /\ "SIGPIPE" \in Gone
    BY <1>4, <1>7 DEF Exit, Gone
  <2>3. /\ {"writer"} \in SUBSET Roles
        /\ \A r \in {"writer"} : proc[s][r] \notin {"none"} \cup Gone
    BY <1>1 DEF Gone
  <2>4. UNCHANGED <<kind, fifos, queue, got>>
    BY <1>1, <1>7
  <2> QED
    BY <1>1, <1>3, <2>1, <2>2, <2>3, <2>4, GoingKeeps
<1> QED
  BY <1>5, <1>6, <1>7 DEF TypeLine

\* A read moves lines from the front of the queue to the end of what was printed.
LEMMA ReadShifts ==
  ASSUME NEW s \in Sides, NEW p, InStep(p), p \in Sides, Peer(p) = s,
         got[s] \in Seq(Lines), queue[p] \in Seq(Lines), NEW k \in 1..Len(queue[p]),
         got'[s] = got[s] \o SubSeq(queue[p], 1, k),
         queue'[p] = SubSeq(queue[p], k + 1, Len(queue[p])),
         typed'[p] = typed[p], hold'[s] = hold[s], reset' = reset
  PROVE  InStep(p)' /\ got'[s] \in Seq(Lines) /\ queue'[p] \in Seq(Lines)
<1> DEFINE g == got[s]
           q == queue[p]
           a == g \o SubSeq(q, 1, k)
           b == SubSeq(q, k + 1, Len(q))
<1>0. /\ g \in Seq(Lines) /\ q \in Seq(Lines) /\ k \in 1..Len(q)
      /\ \A i \in DOMAIN g : g[i] = [from |-> p, n |-> i]
      /\ \A i \in DOMAIN q : q[i] = [from |-> p, n |-> Len(g) + i]
      /\ Len(g) + Len(q) <= typed[p]
      /\ hold[s] # {} /\ ~reset => Len(g) + Len(q) = typed[p]
      /\ got'[s] = a /\ queue'[p] = b
  BY DEF InStep
<1> HIDE DEF g, q
<1>1. /\ Len(g) \in Nat /\ Len(q) \in Nat /\ k \in Nat /\ 1 <= k /\ k <= Len(q)
      /\ DOMAIN g = 1..Len(g) /\ DOMAIN q = 1..Len(q)
  BY <1>0, LenProperties
<1>2. \A i \in 1..Len(q) : q[i] \in Lines
  BY <1>0, ElementOfSeq
<1> DEFINE h == SubSeq(q, 1, k)
<1>3. /\ h \in Seq(Lines) /\ Len(h) = k /\ \A i \in 1..k : h[i] = q[i]
  <2>1. \A i \in 1..k : q[i] \in Lines
    BY <1>1, <1>2
  <2>2. /\ h \in Seq(Lines) /\ Len(h) = (IF 1 <= k THEN k - 1 + 1 ELSE 0)
        /\ \A i \in 1 .. k - 1 + 1 : h[i] = q[1 + i - 1]
    BY <1>1, <2>1, SubSeqProperties
  <2> HIDE DEF h
  <2>3. Len(h) = k
    BY <1>1, <2>2
  <2>4. \A i \in 1..k : h[i] = q[i]
    BY <1>1, <2>2
  <2> QED
    BY <2>2, <2>3, <2>4
<1>4. /\ b \in Seq(Lines) /\ Len(b) = Len(q) - k
      /\ \A i \in 1..Len(q) - k : b[i] = q[k + i]
  <2>1. \A i \in k + 1 .. Len(q) : q[i] \in Lines
    BY <1>1, <1>2
  <2>2. /\ b \in Seq(Lines)
        /\ Len(b) = (IF k + 1 <= Len(q) THEN Len(q) - (k + 1) + 1 ELSE 0)
        /\ \A i \in 1 .. Len(q) - (k + 1) + 1 : b[i] = q[k + 1 + i - 1]
    BY <1>1, <2>1, SubSeqProperties
  <2> HIDE DEF b
  <2>5. \A m, n \in Nat : n <= m => (IF n + 1 <= m THEN m - (n + 1) + 1 ELSE 0) = m - n
    OBVIOUS
  <2>3. Len(b) = Len(q) - k
    BY <1>1, <2>2, <2>5
  <2>4. ASSUME NEW i \in 1..Len(q) - k
        PROVE  b[i] = q[k + i]
    <3>1. i \in 1 .. Len(q) - (k + 1) + 1 /\ k + 1 + i - 1 = k + i
      BY <1>1
    <3>2. b[i] = q[k + 1 + i - 1]
      BY <2>2, <3>1
    <3> QED
      BY <3>1, <3>2
  <2> QED
    BY <2>2, <2>3, <2>4
<1> HIDE DEF h
<1>5. /\ a \in Seq(Lines) /\ Len(a) = Len(g) + k
      /\ \A i \in 1 .. Len(g) + k : a[i] = IF i <= Len(g) THEN g[i] ELSE h[i - Len(g)]
  BY <1>0, <1>3, ConcatProperties DEF h
<1> HIDE DEF a, b
<1>6. Len(a) + Len(b) = Len(g) + Len(q)
  <2>1. \A m, n, j \in Nat : (m + j) + (n - j) = m + n
    OBVIOUS
  <2>2. Len(b) = Len(q) - k /\ Len(a) = Len(g) + k
    BY <1>4, <1>5
  <2>3. Len(g) \in Nat /\ Len(q) \in Nat /\ k \in Nat
    BY <1>1
  <2>4. (Len(g) + k) + (Len(q) - k) = Len(g) + Len(q)
    BY <2>1, <2>3
  <2> QED
    BY <2>2, <2>4, Zenon
<1>7. ASSUME NEW i \in DOMAIN a
      PROVE  a[i] = [from |-> p, n |-> i]
  <2>1. i \in 1 .. Len(g) + k
    BY <1>5, LenProperties
  <2>2. CASE i <= Len(g)
    BY <1>0, <1>1, <1>5, <2>1, <2>2
  <2>3. CASE ~(i <= Len(g))
    <3>1. i - Len(g) \in 1..k /\ i - Len(g) \in 1..Len(q) /\ Len(g) + (i - Len(g)) = i
      BY <1>1, <2>1, <2>3
    <3>2. a[i] = q[i - Len(g)]
      BY <1>3, <1>5, <2>1, <2>3, <3>1
    <3> QED
      BY <1>0, <1>1, <3>1, <3>2
  <2> QED
    BY <2>2, <2>3
<1>8. ASSUME NEW i \in DOMAIN b
      PROVE  b[i] = [from |-> p, n |-> Len(a) + i]
  <2>1. i \in 1 .. Len(q) - k
    BY <1>4, LenProperties
  <2>2. k + i \in 1..Len(q) /\ Len(g) + (k + i) = Len(a) + i
    <3>1. k + i \in 1..Len(q) /\ Len(g) + (k + i) = (Len(g) + k) + i
      BY <1>1, <2>1
    <3>2. Len(a) = Len(g) + k
      BY <1>5
    <3> QED
      BY <3>1, <3>2, Zenon
  <2>3. b[i] = q[k + i]
    BY <1>4, <2>1
  <2> QED
    BY <1>0, <1>1, <2>2, <2>3
<1> QED
  BY <1>0, <1>4, <1>5, <1>6, <1>7, <1>8 DEF InStep

LEMMA ReadKeeps ==
  ASSUME IInv, NEW s \in Sides, Read(s)
  PROVE  IInv'
<1> USE DEF IInv
<1> DEFINE p == Peer(s)
<1>1. /\ UNCHANGED <<kind, fifos, proc, hold, reset, typed>> /\ TypeOK
      /\ p \in Sides /\ Peer(p) = s /\ p # s /\ InStep(p) /\ InStep(s)
  BY TwoSides DEF Read, Control
<1> HIDE DEF p
<1>2. PICK k \in 1..Len(queue[p]) :
        /\ got' = [got EXCEPT ![s] = got[s] \o SubSeq(queue[p], 1, k)]
        /\ queue' = [queue EXCEPT ![p] = SubSeq(queue[p], k + 1, Len(queue[p]))]
  BY DEF Read, p
<1>3. /\ got[s] \in Seq(Lines) /\ queue[p] \in Seq(Lines)
      /\ got'[s] = got[s] \o SubSeq(queue[p], 1, k)
      /\ queue'[p] = SubSeq(queue[p], k + 1, Len(queue[p]))
      /\ got'[p] = got[p] /\ queue'[s] = queue[s]
  BY <1>1, <1>2 DEF TypeOK
<1>4. InStep(p)' /\ got'[s] \in Seq(Lines) /\ queue'[p] \in Seq(Lines)
  BY <1>1, <1>2, <1>3, ReadShifts
<1>5. TypeOK'
  <2>1. got' \in [Sides -> Seq(Lines)]
    BY <1>1, <1>2, <1>3, <1>4 DEF TypeOK
  <2>2. queue' \in [Sides -> Seq(Lines)]
    BY <1>1, <1>2, <1>3, <1>4 DEF TypeOK
  <2> QED
    BY <1>1, <2>1, <2>2 DEF TypeOK
<1>6. Control'
  BY <1>1, <1>5, QuietControl
<1>7. InStep(s)'
  BY <1>1, <1>3 DEF InStep, p
<1>8. EndHasCause' /\ ResetHasCause'
  BY <1>1, QuietCauses
<1> QED
  BY <1>1, <1>4, <1>6, <1>7, <1>8, TwoSides DEF p

LEMMA ReadEndsKeeps ==
  ASSUME IInv, NEW s \in Sides, ReadEnds(s)
  PROVE  IInv'
<1> USE DEF IInv
<1>1. /\ TypeOK /\ Places(s) /\ Connected(s) /\ "reader" \in Roles
      /\ proc[s]["reader"] = "run" /\ UNCHANGED <<kind, fifos, queue, typed, got>>
  BY DEF Control, ReadEnds, Roles
<1>2. Main(s) \in {"run", "spin"} \cup Gone /\ Past(Peer(s))
  BY <1>1, RunningMain DEF Connected
<1>3. SideGone(Peer(s))
  <2>1. ~SideGone(s)
    BY <1>1, Running
  <2>2. hold[Peer(s)] = {} \/ reset
    BY DEF ReadEnds, Ended
  <2> QED
    BY <1>1, <1>2, <2>1, <2>2, GoneHoldsNothing, TwoSides DEF ResetHasCause, Control
<1>4. CASE Exit(s, "reader", "ended")
  <2>1. proc' = [proc EXCEPT ![s] = [r \in Roles |-> IF r \in {"reader"} THEN "ended" ELSE @[r]]]
    BY <1>1, <1>4, ExitForm DEF Exit
  <2>2. Drop(s, {"reader"}) /\ "ended" \in Gone
    BY <1>4 DEF Exit, Gone
  <2>3. /\ {"reader"} \in SUBSET Roles
        /\ \A r \in {"reader"} : proc[s][r] \notin {"none"} \cup Gone
    BY <1>1 DEF Gone
  <2> QED
    BY <1>1, <1>2, <1>3, <2>1, <2>2, <2>3, GoingKeeps
<1>5. CASE Goto(s, "reader", "spin") /\ UNCHANGED <<hold, reset>>
  <2>1. /\ proc' \in [Sides -> [Roles -> At]] /\ proc'[Peer(s)] = proc[Peer(s)]
        /\ proc'[s]["reader"] = "spin" /\ proc'[s]["writer"] = proc[s]["writer"]
    BY <1>1, <1>5, TwoSides DEF Goto, TypeOK, At, Roles
  <2>2. TypeOK'
    BY <1>1, <1>5, <2>1 DEF TypeOK
  <2>3. Using(s)' = Using(s)
    BY <1>1, <2>1 DEF Using, Roles
  <2>4. Main(s)' = Main(s) \/ (Main(s) = "run" /\ Main(s)' = "spin")
    BY <1>1, <2>1, TwoRoles DEF Main
  <2>5. Places(s)'
    BY <1>1, <1>2, <1>5, <2>1, <2>3, <2>4, TwoRoles DEF Places, Gone, Setting
  <2>6. Connected(s)' /\ (Past(s) => Past(s)')
    <3>1. Past(Peer(s))'
      BY <1>2, <1>5, <2>1 DEF Past, Main
    <3> QED
      BY <1>1, <1>2, <1>5, <2>4, <3>1 DEF Connected, Past, Setting, Gone
  <2>7. Control'
    BY <1>1, <1>5, <2>1, <2>2, <2>5, <2>6, StepOfOne
  <2>8. EndHasCause' /\ ResetHasCause'
    <3>1. \A t \in Sides : SideGone(t) => SideGone(t)'
      BY <1>1, <2>1, Running, TwoSides DEF SideGone
    <3>2. reset' => Accepted'
      BY <1>5, <2>1, <2>4, TwoSides DEF ResetHasCause, Accepted, Main, Setting
    <3>3. \A t \in Sides :
            (proc'[t]["reader"] \in {"ended", "spin"} \/ proc'[t]["writer"] = "SIGPIPE") =>
              \/ proc[t]["reader"] \in {"ended", "spin"} \/ proc[t]["writer"] = "SIGPIPE"
              \/ SideGone(Peer(t))
      BY <1>3, <2>1, TwoSides
    <3> QED
      BY <1>5, <3>1, <3>2, <3>3, CausesStay
  <2> QED
    BY <1>1, <1>5, <2>7, <2>8, LinesStay
<1> QED
  BY <1>4, <1>5 DEF ReadEnds
-----------------------------------------------------------------------------
(* The theorems                                                            *)

LEMMA Stutters ==
  ASSUME IInv, UNCHANGED vars
  PROVE  IInv'
<1>1. UNCHANGED <<kind, fifos, proc, hold, queue, reset, typed, got>>
  BY DEF vars
<1>2. TypeOK'
  BY <1>1 DEF IInv, Control, TypeOK
<1>3. Control'
  BY <1>1, <1>2, QuietControl DEF IInv
<1>4. EndHasCause' /\ ResetHasCause'
  BY <1>1, QuietCauses DEF IInv
<1>5. \A s \in Sides : InStep(s)'
  BY <1>1 DEF IInv, InStep
<1> QED
  BY <1>3, <1>4, <1>5 DEF IInv

\* The inductive invariant: where the processes can be, who holds descriptors,
\* that nobody talks before both sides are connected, and the lines in step.
THEOREM Invariance == Spec => []IInv
<1>1. ASSUME IInv, Next
      PROVE  IInv'
  BY <1>1, AcceptKeeps, FirstCallsKeep, RendezvousKeeps, ForkKeeps, StartKeeps,
     TypeLineKeeps, LeaveKeeps, ReadKeeps, ReadEndsKeeps, InterruptKeeps DEF Next, SetUp
<1>2. IInv /\ [Next]_vars => IInv'
  BY <1>1, Stutters
<1>3. Init => IInv
  BY InitControl
<1> QED
  BY <1>2, <1>3, PTL DEF Spec

\* A reader that met the end and a writer that met SIGPIPE have lost both
\* processes of the peer, for any number of lines and over either medium.
THEOREM EndHasCauseAlways == Spec => []EndHasCause
<1>1. IInv => EndHasCause
  BY DEF IInv
<1> QED
  BY <1>1, Invariance, PTL

\* What a side printed and what is on its way to it are the peer's lines from
\* the first one on, for any number of lines and any buffer.
THEOREM InOrderAlways == Spec => []InOrder
<1>1. ASSUME IInv, NEW s \in Sides, NEW k \in DOMAIN (got[s] \o queue[Peer(s)])
      PROVE  (got[s] \o queue[Peer(s)])[k] = [from |-> Peer(s), n |-> k]
  <2> DEFINE p == Peer(s)
             g == got[s]
             q == queue[p]
             ms == g \o q
  <2>1. /\ g \in Seq(Lines) /\ q \in Seq(Lines)
        /\ \A i \in DOMAIN g : g[i] = [from |-> p, n |-> i]
        /\ \A i \in DOMAIN q : q[i] = [from |-> p, n |-> Len(g) + i]
    <3>1. p \in Sides /\ Peer(p) = s /\ TypeOK /\ InStep(p)
      BY <1>1, TwoSides DEF IInv, Control
    <3>2. g \in Seq(Lines) /\ q \in Seq(Lines)
      BY <3>1 DEF TypeOK
    <3> HIDE DEF p
    <3> QED
      BY <3>1, <3>2 DEF InStep
  <2> HIDE DEF p, g, q
  <2>2. /\ Len(g) \in Nat /\ Len(q) \in Nat
        /\ DOMAIN g = 1..Len(g) /\ DOMAIN q = 1..Len(q)
    BY <2>1, LenProperties
  <2>3. /\ ms \in Seq(Lines) /\ Len(ms) = Len(g) + Len(q)
        /\ \A i \in 1 .. Len(g) + Len(q) :
             ms[i] = IF i <= Len(g) THEN g[i] ELSE q[i - Len(g)]
    BY <2>1, ConcatProperties
  <2>4. k \in DOMAIN ms
    BY <1>1 DEF p, g, q
  <2> HIDE DEF ms
  <2>5. k \in 1 .. Len(g) + Len(q)
    BY <2>3, <2>4, LenProperties
  <2>6. CASE k <= Len(g)
    <3>1. k \in 1..Len(g)
      BY <2>2, <2>5, <2>6
    <3> QED
      BY <2>1, <2>2, <2>3, <2>5, <2>6, <3>1 DEF ms, p, g, q
  <2>7. CASE ~(k <= Len(g))
    <3>1. k - Len(g) \in 1..Len(q) /\ Len(g) + (k - Len(g)) = k
      BY <2>2, <2>5, <2>7
    <3>2. ms[k] = q[k - Len(g)]
      BY <2>3, <2>5, <2>7
    <3>3. ms[k] = [from |-> p, n |-> k]
      BY <2>1, <2>2, <3>1, <3>2
    <3> QED
      BY <3>3 DEF ms, p, g, q
  <2> QED
    BY <2>6, <2>7
<1>2. IInv => InOrder
  BY <1>1 DEF InOrder
<1> QED
  BY <1>2, Invariance, PTL
=============================================================================
