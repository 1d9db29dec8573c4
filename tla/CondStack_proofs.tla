-------------------------- MODULE CondStack_proofs --------------------------
(***************************************************************************)
(* Safety of CondStack for every finite heap, with or without spurious     *)
(* wakeups: the locking (IInv), the list and the heap it lives in          *)
(* (ListInv), and the stack that the list implements.                      *)
(***************************************************************************)
EXTENDS CondStack, SequenceTheorems, FiniteSetTheorems, WellFoundedInduction, TLAPS

\* The mutex is held by the thread that is between its lock and its unlock.
LockHeld ==
  /\ mutex = "producer" <=> producer \in {"push", "link", "unlock"}
  /\ mutex = "customer" <=> customer \in {"test", "woken", "pop", "unlink", "free", "unlock"}

\* The pop that follows a test of head under the same lock finds a node; only
\* the one that follows a wait (line 71, an `if`, not a `while`) may not.
KilledOnlyAfterWait ==
  /\ customer \in {"pop", "unlink"} => head # NULL
  /\ main = "killed" => customer = "woken" /\ head = NULL

\* A thread that main has not created yet does nothing.
Created ==
  /\ main = "create1" => producer = "none"
  /\ main \in {"create1", "create2"} => customer = "none"
  /\ main = "getchar" => customer # "none"

\* The node the producer is about to push exists.
HasNode == producer \in {"lock", "push", "link"} => new_node \in Node

IInv == /\ TypeOK /\ LockHeld /\ Created /\ HasNode
        /\ NoLostWakeup /\ DestroyedQuiet /\ KilledOnlyAfterWait

\* The program starts with an empty list, a free mutex and no thread.
LEMMA InitInv == Init => IInv
BY CondAssumption DEF Init, IInv, TypeOK, LockHeld, Created, HasNode,
   NoLostWakeup, DestroyedQuiet, KilledOnlyAfterWait

\* Every step of main, producer and customer keeps IInv.
LEMMA StepInv == IInv /\ [Next]_vars => IInv'
<1> SUFFICES ASSUME IInv, [Next]_vars PROVE IInv'
    OBVIOUS
<1> USE CondAssumption DEF IInv, TypeOK, LockHeld, Created, HasNode,
        NoLostWakeup, DestroyedQuiet, KilledOnlyAfterWait, Alive, list
<1>1. CASE CreateProducer
  BY <1>1 DEF CreateProducer
<1>2. CASE CreateCustomer
  BY <1>2 DEF CreateCustomer
<1>3. CASE DestroyMutex
  BY <1>3 DEF DestroyMutex, MutexUsed
<1>4. CASE DestroyCond
  BY <1>4 DEF DestroyCond
<1>5. CASE Malloc
  BY <1>5 DEF Malloc, Goto
<1>6. CASE ProducerLock
  BY <1>6 DEF ProducerLock, Goto
<1>7. CASE ProducerLockFails
  BY <1>7 DEF ProducerLockFails, Goto
<1>8. CASE PushNext \/ PushHead
  BY <1>8 DEF PushNext, PushHead, Goto
<1>9. CASE ProducerUnlock
  BY <1>9 DEF ProducerUnlock, Goto
<1>10. CASE Signal
  BY <1>10 DEF Signal
<1>11. CASE CustomerLock
  BY <1>11 DEF CustomerLock, GotoC
<1>12. CASE CustomerLockFails
  BY <1>12 DEF CustomerLockFails, GotoC
<1>13. CASE Test
  BY <1>13 DEF Test, GotoC
<1>14. CASE WakeUp
  BY <1>14 DEF WakeUp, GotoC
<1>15. CASE Relock
  BY <1>15 DEF Relock, GotoC
<1>16. CASE PopRead \/ PopUnlink \/ PopFree
  BY <1>16 DEF PopRead, PopUnlink, PopFree, GotoC
<1>17. CASE CustomerUnlock
  BY <1>17 DEF CustomerUnlock, GotoC
<1>18. CASE UNCHANGED vars
  BY <1>18 DEF vars
<1> QED
  BY <1>1, <1>2, <1>3, <1>4, <1>5, <1>6, <1>7, <1>8, <1>9, <1>10, <1>11,
     <1>12, <1>13, <1>14, <1>15, <1>16, <1>17, <1>18 DEF Next, Producer, Customer

\* The inductive invariant holds in every reachable state.
THEOREM Invariance == Spec => []IInv
<1>1. Init => IInv
  BY InitInv
<1>2. IInv /\ [Next]_vars => IInv'
  BY StepInv
<1> QED
  BY <1>1, <1>2, PTL DEF Spec

\* Signalling after the unlock (lines 40 and 47) never loses a wakeup.
THEOREM NoLostWakeupAlways == Spec => []NoLostWakeup
<1>1. IInv => NoLostWakeup
  BY DEF IInv
<1> QED
  BY <1>1, Invariance, PTL

\* main never destroys the mutex or the condition (lines 135 and 142) under a
\* thread that is using them.
THEOREM DestroyedQuietAlways == Spec => []DestroyedQuiet
<1>1. IInv => DestroyedQuiet
  BY DEF IInv
<1> QED
  BY <1>1, Invariance, PTL

\* Only a customer back from its wait can find the list empty (line 79).
THEOREM KilledOnlyAfterWaitAlways == Spec => []KilledOnlyAfterWait
<1>1. IInv => KilledOnlyAfterWait
  BY DEF IInv
<1> QED
  BY <1>1, Invariance, PTL

-----------------------------------------------------------------------------
(* The list and the heap                                                   *)

\* The k-th node of s, NULL behind its end.
At(s, k) == IF k \in 1..Len(s) THEN s[k] ELSE NULL

\* s is the list that starts at h and goes on along nx; no node is on it twice.
Linked(s, h, nx) ==
  /\ s \in Seq(Node)
  /\ \A k, m \in 1..Len(s) : k # m => s[k] # s[m]
  /\ h = At(s, 1)
  /\ \A k \in 1..Len(s) : nx[s[k]] = At(s, k + 1)

Items(s) == {s[k] : k \in 1..Len(s)}

\* Every node of the heap is on the list or in one hand, and the thread that is
\* changing the list has got its node ready.
Placed(s) ==
  /\ heap = Items(s) \cup {n \in Node : InHand /\ n = new_node}
                     \cup {n \in Node : Unlinked /\ n = temp}
  /\ InHand => new_node \in Node \ Items(s)
  /\ Unlinked => temp \in Node \ Items(s)
  /\ InHand /\ Unlinked => new_node # temp
  /\ producer = "link" => next[new_node] = head
  /\ customer = "unlink" => temp = head

ListInv == \E s \in Seq(Node) : Linked(s, head, next) /\ Placed(s)

\* The list after a push: n is linked to the old top.
LEMMA Pushed ==
  ASSUME NEW s, NEW h, NEW nx, Linked(s, h, nx), NEW n \in Node \ Items(s), nx[n] = h
  PROVE  Linked(<<n>> \o s, n, nx) /\ Items(<<n>> \o s) = Items(s) \cup {n}
<1> DEFINE u == <<n>>
           t == u \o s
<1>1. u \in Seq(Node) /\ Len(u) = 1 /\ u[1] = n
  OBVIOUS
<1> HIDE DEF u
<1>2. s \in Seq(Node) /\ Len(s) \in Nat
  BY LenProperties DEF Linked
<1>3. /\ t \in Seq(Node) /\ Len(t) = Len(s) + 1
      /\ \A k \in 1..Len(s) + 1 : t[k] = IF k <= 1 THEN u[k] ELSE s[k - 1]
  <2>1. /\ t \in Seq(Node) /\ Len(t) = Len(u) + Len(s)
        /\ \A k \in 1..Len(u) + Len(s) :
             t[k] = IF k <= Len(u) THEN u[k] ELSE s[k - Len(u)]
    BY <1>1, <1>2, ConcatProperties
  <2>2. Len(u) + Len(s) = Len(s) + 1
    BY <1>1, <1>2
  <2> QED
    BY <1>1, <2>1, <2>2
<1> HIDE DEF t
<1>4. /\ t[1] = n
      /\ \A k \in 1..Len(s) : k + 1 \in 1..Len(t) /\ t[k + 1] = s[k]
      /\ \A k \in 1..Len(t) : k = 1 \/ k - 1 \in 1..Len(s)
  <2>1. 1 \in 1..Len(s) + 1 /\ 1 <= 1
    BY <1>2
  <2>2. t[1] = n
    BY <1>1, <1>3, <2>1
  <2>3. ASSUME NEW k \in 1..Len(s) PROVE k + 1 \in 1..Len(t) /\ t[k + 1] = s[k]
    <3>1. k + 1 \in 1..Len(s) + 1 /\ ~(k + 1 <= 1) /\ (k + 1) - 1 = k
      BY <1>2
    <3> QED
      BY <1>3, <3>1
  <2>4. \A k \in 1..Len(t) : k = 1 \/ k - 1 \in 1..Len(s)
    BY <1>2, <1>3
  <2> QED
    BY <2>2, <2>3, <2>4
<1>5. \A k \in 1..Len(t) : k # 1 => t[k] = s[k - 1]
  BY <1>2, <1>3, <1>4
<1>6. \A k \in 0..Len(s) + 1 : At(t, k + 1) = IF k = 0 THEN n ELSE At(s, k)
  BY <1>2, <1>3, <1>4 DEF At
<1>7. ASSUME NEW k \in 1..Len(t), NEW m \in 1..Len(t), k # m PROVE t[k] # t[m]
  <2>1. \A l \in 1..Len(s) : s[l] # n
    BY DEF Items
  <2>2. CASE k # 1 /\ m # 1
    <3>1. k - 1 # m - 1
      BY <1>3, <1>2, <1>7
    <3> QED
      BY <1>4, <1>5, <2>2, <3>1 DEF Linked
  <2> QED
    BY <1>4, <1>5, <1>7, <2>1, <2>2
<1>8. ASSUME NEW k \in 1..Len(t) PROVE nx[t[k]] = At(t, k + 1)
  <2>1. CASE k = 1
    <3>1. At(t, 1 + 1) = At(s, 1)
      BY <1>2, <1>6
    <3> QED
      BY <1>4, <2>1, <3>1 DEF Linked
  <2>2. CASE k # 1
    <3>1. PICK m \in 1..Len(s) : k = m + 1
      BY <1>2, <1>4, <2>2
    <3>2. t[k] = s[m] /\ At(t, (m + 1) + 1) = At(s, m + 1)
      BY <1>2, <1>4, <1>6, <3>1
    <3> QED
      BY <3>1, <3>2 DEF Linked
  <2> QED
    BY <2>1, <2>2
<1>9. Linked(t, n, nx)
  <2>1. At(t, 1) = n
    BY <1>2, <1>3, <1>4 DEF At
  <2> QED
    BY <1>3, <1>7, <1>8, <2>1 DEF Linked
<1>10. Items(t) = Items(s) \cup {n}
  <2>1. 1 \in 1..Len(t)
    BY <1>2, <1>3
  <2>2. ASSUME NEW x \in Items(s) PROVE x \in Items(t)
    BY <1>4, <2>2 DEF Items
  <2>3. ASSUME NEW x \in Items(t) PROVE x \in Items(s) \cup {n}
    BY <1>4, <1>5, <2>3 DEF Items
  <2>4. n \in Items(t)
    BY <1>4, <2>1 DEF Items
  <2> QED
    BY <2>2, <2>3, <2>4
<1> QED
  BY <1>9, <1>10 DEF t, u

\* The list after a pop: its old top is on it no more.
LEMMA Popped ==
  ASSUME NEW s, NEW h, NEW nx, Linked(s, h, nx), h # NULL
  PROVE  /\ s # <<>> /\ Linked(Tail(s), nx[h], nx)
         /\ h \in Node \ Items(Tail(s)) /\ Items(s) = Items(Tail(s)) \cup {h}
<1> DEFINE t == Tail(s)
<1>1. s \in Seq(Node) /\ Len(s) \in Nat /\ 1 \in 1..Len(s) /\ h = s[1]
  BY LenProperties DEF Linked, At
<1>2. s # <<>> /\ h \in Node
  BY <1>1, ElementOfSeq
<1>3. /\ t \in Seq(Node) /\ Len(t) = Len(s) - 1
      /\ \A k \in 1..Len(s) - 1 : t[k] = s[k + 1]
  BY <1>1, <1>2, HeadTailProperties
<1> HIDE DEF t
<1>4. /\ \A k \in 1..Len(t) : k + 1 \in 1..Len(s) /\ t[k] = s[k + 1]
      /\ \A k \in 1..Len(s) : k = 1 \/ k - 1 \in 1..Len(t)
  BY <1>1, <1>3
<1>5. \A k \in 1..Len(s) : At(t, k) = At(s, k + 1)
  BY <1>1, <1>3, <1>4 DEF At
<1>6. ASSUME NEW k \in 1..Len(t), NEW m \in 1..Len(t), k # m PROVE t[k] # t[m]
  <2>1. k + 1 # m + 1
    BY <1>6
  <2> QED
    BY <1>4, <2>1 DEF Linked
<1>7. ASSUME NEW k \in 1..Len(t) PROVE nx[t[k]] = At(t, k + 1)
  BY <1>4, <1>5 DEF Linked
<1>8. nx[h] = At(t, 1)
  BY <1>1, <1>5 DEF Linked
<1>9. Linked(t, nx[h], nx)
  BY <1>3, <1>6, <1>7, <1>8 DEF Linked
<1>10. h \notin Items(t)
  <2>1. ASSUME NEW k \in 1..Len(t) PROVE t[k] # h
    <3>1. k + 1 # 1
      BY <1>3
    <3> QED
      BY <1>1, <1>4, <3>1 DEF Linked
  <2> QED
    BY <2>1 DEF Items
<1>11. Items(s) = Items(t) \cup {h}
  <2>1. ASSUME NEW x \in Items(s) PROVE x \in Items(t) \cup {h}
    <3>1. PICK k \in 1..Len(s) : x = s[k]
      BY <2>1 DEF Items
    <3>2. CASE k # 1
      <4>1. k - 1 \in 1..Len(t) /\ (k - 1) + 1 = k
        BY <1>1, <1>4, <3>2
      <4>2. x = t[k - 1]
        BY <1>4, <3>1, <4>1
      <4> QED
        BY <4>1, <4>2 DEF Items
    <3> QED
      BY <1>1, <3>1, <3>2
  <2>2. ASSUME NEW x \in Items(t) PROVE x \in Items(s)
    BY <1>4, <2>2 DEF Items
  <2>3. h \in Items(s)
    BY <1>1 DEF Items
  <2> QED
    BY <2>1, <2>2, <2>3
<1> QED
  BY <1>2, <1>9, <1>10, <1>11 DEF t

\* A step pushes a node that was not on the list, pops the top, or leaves the
\* list; and every node stays accounted for.
LEMMA ListStep ==
  ASSUME IInv, NEW s \in Seq(Node), Linked(s, head, next), Placed(s), [Next]_vars
  PROVE  \E t \in Seq(Node) :
           /\ Linked(t, head', next') /\ Placed(t)'
           /\ \/ t = s
              \/ s # <<>> /\ t = Tail(s)
              \/ \E n \in Node \ Items(s) : t = <<n>> \o s
<1> USE CondAssumption DEF IInv, TypeOK, LockHeld, HasNode, KilledOnlyAfterWait, Alive, list,
        InHand, Unlinked
<1>1. CASE PushHead
  <2>1. /\ producer = "link" /\ producer' = "unlock" /\ head' = new_node /\ InHand
        /\ UNCHANGED <<next, heap, new_node, temp, customer>>
        /\ customer \notin {"unlink", "free"}
    BY <1>1 DEF PushHead, Goto
  <2>2. new_node \in Node \ Items(s) /\ next[new_node] = head
    BY <2>1 DEF Placed
  <2>3. PICK t : t = <<new_node>> \o s
    OBVIOUS
  <2>4. Linked(t, new_node, next) /\ Items(t) = Items(s) \cup {new_node}
    BY <2>2, <2>3, Pushed
  <2>5. Placed(t)'
    BY <2>1, <2>2, <2>4 DEF Placed
  <2> QED
    BY <2>1, <2>2, <2>3, <2>4, <2>5 DEF Linked
<1>2. CASE PopUnlink
  <2>1. /\ customer = "unlink" /\ customer' = "free" /\ head' = next[head] /\ temp = head
        /\ UNCHANGED <<next, heap, new_node, temp, producer>>
        /\ producer # "link" /\ head # NULL
    BY <1>2 DEF PopUnlink, GotoC, Placed
  <2>2. PICK t : t = Tail(s)
    OBVIOUS
  <2>3. /\ s # <<>> /\ Linked(t, next[head], next)
        /\ head \in Node \ Items(t) /\ Items(s) = Items(t) \cup {head}
    BY <2>1, <2>2, Popped
  <2>4. Placed(t)'
    BY <2>1, <2>3 DEF Placed
  <2> QED
    BY <2>1, <2>2, <2>3, <2>4 DEF Linked
<1>3. CASE PushNext
  <2>1. /\ producer = "push" /\ producer' = "link" /\ InHand
        /\ next' = [next EXCEPT ![new_node] = head]
        /\ UNCHANGED <<head, heap, new_node, temp, customer>>
    BY <1>3 DEF PushNext, Goto
  <2>2. new_node \in Node \ Items(s)
    BY <2>1 DEF Placed
  <2>3. \A n \in Items(s) : n \in Node /\ next'[n] = next[n]
    BY <2>1, <2>2, ElementOfSeq DEF Items
  <2>4. Linked(s, head', next')
    BY <2>1, <2>3 DEF Linked, Items
  <2>5. Placed(s)'
    BY <2>1, <2>2 DEF Placed
  <2> QED
    BY <2>4, <2>5
<1>4. ASSUME UNCHANGED <<head, next>>, Placed(s)' PROVE \E t \in Seq(Node) :
           /\ Linked(t, head', next') /\ Placed(t)'
           /\ \/ t = s
              \/ s # <<>> /\ t = Tail(s)
              \/ \E n \in Node \ Items(s) : t = <<n>> \o s
  BY <1>4
<1>5. CASE Malloc
  <2>1. Placed(s)'
    BY <1>5 DEF Malloc, Goto, Placed
  <2> QED
    BY <1>4, <1>5, <2>1 DEF Malloc
<1>6. CASE ProducerLock \/ ProducerLockFails \/ ProducerUnlock \/ Signal
  <2>1. Placed(s)'
    BY <1>6 DEF ProducerLock, ProducerLockFails, ProducerUnlock, Signal, Goto, Placed
  <2> QED
    BY <1>4, <1>6, <2>1 DEF ProducerLock, ProducerLockFails, ProducerUnlock, Signal
<1>7. CASE PopRead
  <2>1. Placed(s)'
    BY <1>7 DEF PopRead, Placed
  <2> QED
    BY <1>4, <1>7, <2>1 DEF PopRead
<1>8. CASE PopFree
  <2>1. Placed(s)'
    BY <1>8 DEF PopFree, GotoC, Placed
  <2> QED
    BY <1>4, <1>8, <2>1 DEF PopFree
<1>9. CASE CustomerLock \/ CustomerLockFails \/ Test \/ WakeUp \/ Relock \/ CustomerUnlock
  <2>1. /\ UNCHANGED <<head, next, heap, new_node, temp, producer>>
        /\ customer # "free" /\ customer' \notin {"free", "unlink"}
    BY <1>9 DEF CustomerLock, CustomerLockFails, Test, WakeUp, Relock, CustomerUnlock, GotoC
  <2>2. Placed(s)'
    BY <2>1 DEF Placed
  <2> QED
    BY <1>4, <2>1, <2>2
<1>10. CASE CreateProducer \/ CreateCustomer \/ DestroyMutex \/ DestroyCond
  <2>1. /\ UNCHANGED <<head, next, heap, new_node, temp>>
        /\ producer' = producer \/ (producer = "none" /\ producer' = "malloc")
        /\ customer' = customer \/ (customer = "none" /\ customer' = "lock")
    BY <1>10 DEF CreateProducer, CreateCustomer, DestroyMutex, DestroyCond, Created
  <2>2. Placed(s)'
    BY <2>1 DEF Placed
  <2> QED
    BY <1>4, <2>1, <2>2
<1>11. CASE UNCHANGED vars
  <2>1. UNCHANGED <<head, next, heap, new_node, temp, producer, customer>>
    BY <1>11 DEF vars
  <2>2. Placed(s)'
    BY <2>1 DEF Placed
  <2> QED
    BY <1>4, <2>1, <2>2
<1> QED
  BY <1>1, <1>2, <1>3, <1>5, <1>6, <1>7, <1>8, <1>9, <1>10, <1>11
  DEF Next, Producer, Customer

LEMMA ListInit == Init => Linked(<<>>, head, next) /\ Placed(<<>>) /\ <<>> \in Seq(Node)
<1> SUFFICES ASSUME Init PROVE Linked(<<>>, head, next) /\ Placed(<<>>)
  OBVIOUS
<1>1. Len(<<>>) = 0 /\ <<>> \in Seq(Node) /\ 1..0 = {}
  OBVIOUS
<1>2. Items(<<>>) = {} /\ At(<<>>, 1) = NULL
  BY <1>1 DEF Items, At
<1>3. Linked(<<>>, head, next)
  BY <1>1, <1>2 DEF Linked, Init
<1>4. Placed(<<>>)
  BY <1>2 DEF Placed, Init, InHand, Unlinked
<1> QED
  BY <1>3, <1>4

THEOREM ListInvariance == Spec => []ListInv
<1>1. Init => ListInv
  BY ListInit DEF ListInv
<1>2. IInv /\ ListInv /\ [Next]_vars => ListInv'
  BY ListStep DEF ListInv
<1> QED
  BY <1>1, <1>2, Invariance, PTL DEF Spec

-----------------------------------------------------------------------------
(* What TLC computes by recursion along the list (NodeAt, Depth, Contents,    *)
(* Listed) is the sequence s that Linked describes.                          *)

\* The nodes from h on along nx, as NodeAt computes them from head and next.
Chain(h, nx) ==
  CHOOSE f : f = [k \in 1..Cardinality(Node) + 1 |->
                    IF k = 1 THEN h
                    ELSE IF f[k - 1] = NULL THEN NULL ELSE nx[f[k - 1]]]

LEMMA NodeAtIsChain == NodeAt = Chain(head, next) /\ NodeAt' = Chain(head', next')
<1>1. NodeAt = Chain(head, next)
  BY DEF NodeAt, Chain
<1>2. NodeAt' = Chain(head', next')
  BY DEF NodeAt, Chain
<1> QED
  BY <1>1, <1>2

\* A set of natural numbers that is not empty has a least one.
LEMMA Least ==
  ASSUME NEW S \in SUBSET Nat, S # {}
  PROVE  \E k \in S : \A m \in S : k <= m
<1> DEFINE R == OpToRel(<, Nat)
<1>1. IsWellFoundedOn(R, Nat)
  BY NatLessThanWellFounded
<1>2. \A x, y \in Nat : x < y => <<x, y>> \in R
  BY DEF OpToRel
<1> HIDE DEF R
<1>3. PICK k \in S : \A m \in S : <<m, k>> \notin R
  BY <1>1, WFMin
<1>4. \A m \in S : ~(m < k)
  BY <1>2, <1>3
<1> QED
  BY <1>4

LEMMA ChainIs ==
  ASSUME NEW s, NEW h, NEW nx, Linked(s, h, nx)
  PROVE  Chain(h, nx) = [k \in 1..Cardinality(Node) + 1 |-> At(s, k)]
<1> DEFINE N == Cardinality(Node)
           g == [k \in 1..N + 1 |-> At(s, k)]
           c == Chain(h, nx)
<1>1. N \in Nat /\ Len(s) \in Nat /\ s \in Seq(Node)
  BY CondAssumption, FS_CardinalityType, LenProperties DEF Linked
<1> HIDE DEF N
<1>2. ASSUME NEW k \in 1..N + 1, k # 1
      PROVE  /\ k - 1 \in 1..N + 1 /\ k \in 1..N + 1
             /\ At(s, k) = IF At(s, k - 1) = NULL THEN NULL ELSE nx[At(s, k - 1)]
  <2>1. k - 1 \in 1..N + 1 /\ (k - 1) + 1 = k
    BY <1>1, <1>2
  <2>2. CASE k - 1 \in 1..Len(s)
    <3>1. s[k - 1] \in Node
      BY <1>1, <2>2, ElementOfSeq
    <3>2. At(s, k - 1) = s[k - 1] /\ s[k - 1] # NULL
      BY <2>2, <3>1, CondAssumption DEF At
    <3>3. nx[s[k - 1]] = At(s, k)
      BY <2>1, <2>2 DEF Linked
    <3> QED
      BY <2>1, <3>2, <3>3
  <2>3. CASE k - 1 \notin 1..Len(s)
    <3>1. k \notin 1..Len(s)
      BY <1>1, <1>2, <2>1, <2>3
    <3> QED
      BY <2>1, <2>3, <3>1 DEF At
  <2> QED
    BY <2>2, <2>3
<1>3. \A k \in 1..N + 1 :
        At(s, k) = IF k = 1 THEN h ELSE IF g[k - 1] = NULL THEN NULL ELSE nx[g[k - 1]]
  BY <1>2 DEF Linked
<1>4. g = [k \in 1..N + 1 |->
             IF k = 1 THEN h ELSE IF g[k - 1] = NULL THEN NULL ELSE nx[g[k - 1]]]
  BY <1>3
<1> HIDE DEF g
<1>5. c = [k \in 1..N + 1 |->
             IF k = 1 THEN h ELSE IF c[k - 1] = NULL THEN NULL ELSE nx[c[k - 1]]]
  BY <1>4, Zenon DEF Chain, N
<1> HIDE DEF c
<1>6. \A k \in 1..N + 1 : c[k] = g[k]
  <2> DEFINE S == {k \in 1..N + 1 : c[k] # g[k]}
  <2>1. SUFFICES ASSUME S # {} PROVE FALSE
    OBVIOUS
  <2>2. S \in SUBSET Nat
    BY <1>1
  <2>3. PICK k \in S : \A m \in S : k <= m
    BY <2>1, <2>2, Least
  <2>4. k \in 1..N + 1 /\ c[k] # g[k]
    BY <2>3
  <2>5. CASE k = 1
    BY <1>4, <1>5, <2>4, <2>5
  <2>6. CASE k # 1
    <3>1. k - 1 \in 1..N + 1 /\ ~(k <= k - 1)
      BY <1>1, <2>4, <2>6
    <3>2. c[k - 1] = g[k - 1]
      BY <2>3, <3>1
    <3>3. c[k] = IF c[k - 1] = NULL THEN NULL ELSE nx[c[k - 1]]
      BY <1>5, <2>4, <2>6
    <3>4. g[k] = IF g[k - 1] = NULL THEN NULL ELSE nx[g[k - 1]]
      BY <1>4, <2>4, <2>6
    <3> QED
      BY <2>4, <3>2, <3>3, <3>4
  <2> QED
    BY <2>5, <2>6
<1>7. c = g
  BY <1>4, <1>5, <1>6
<1> QED
  BY <1>7 DEF c, g, N

\* The numbers from 1 to n are n.
LEMMA FromOne == ASSUME NEW n \in Nat PROVE Cardinality(1..n) = n
<1>1. Cardinality(1..n) = IF 1 > n THEN 0 ELSE n - 1 + 1
  BY FS_Interval
<1> QED
  BY <1>1

\* No node is on the list twice, so the list is no longer than the heap.
LEMMA Shorter ==
  ASSUME NEW s, NEW h, NEW nx, Linked(s, h, nx)
  PROVE  Len(s) <= Cardinality(Node)
<1>1. Len(s) \in Nat /\ s \in [1..Len(s) -> Node]
  BY LenProperties DEF Linked
<1>2. \A k, m \in 1..Len(s) : s[k] = s[m] => k = m
  BY DEF Linked
<1>3. s \in Injection(1..Len(s), Node)
  BY <1>1, <1>2 DEF Injection, IsInjective
<1>4. Cardinality(1..Len(s)) <= Cardinality(Node)
  BY <1>3, CondAssumption, FS_Injection
<1>5. Cardinality(1..Len(s)) = Len(s)
  BY <1>1, FromOne
<1> QED
  BY <1>4, <1>5

\* Depth, Contents and Listed of a list whose nodes are f[1], f[2], ...
DepthOf(f) == Cardinality({k \in 1..Cardinality(Node) : f[k] # NULL})
ContentsOf(f) == [k \in 1..DepthOf(f) |-> f[k]]
ListedOf(f) == {f[k] : k \in 1..DepthOf(f)}

LEMMA ContentsIs ==
  ASSUME NEW s, NEW h, NEW nx, Linked(s, h, nx)
  PROVE  /\ ContentsOf(Chain(h, nx)) = s
         /\ ListedOf(Chain(h, nx)) = Items(s)
         /\ Chain(h, nx)[Cardinality(Node) + 1] = NULL
<1> DEFINE N == Cardinality(Node)
           c == Chain(h, nx)
<1>1. N \in Nat /\ Len(s) \in Nat /\ s \in Seq(Node) /\ Len(s) <= N
  BY CondAssumption, FS_CardinalityType, LenProperties, Shorter DEF Linked
<1>2. c = [k \in 1..N + 1 |-> At(s, k)]
  BY ChainIs
<1> HIDE DEF c, N
<1>3. \A k \in 1..N + 1 : c[k] = At(s, k)
  BY <1>2
<1>4. \A k \in 1..Len(s) : k \in 1..N + 1 /\ At(s, k) = s[k] /\ s[k] # NULL
  BY <1>1, ElementOfSeq, CondAssumption DEF At
<1>5. {k \in 1..N : c[k] # NULL} = 1..Len(s)
  <2>1. ASSUME NEW k \in 1..N, c[k] # NULL PROVE k \in 1..Len(s)
    <3>1. k \in 1..N + 1
      BY <1>1
    <3> QED
      BY <1>3, <2>1, <3>1 DEF At
  <2>2. ASSUME NEW k \in 1..Len(s) PROVE k \in 1..N /\ c[k] # NULL
    <3>1. k \in 1..N
      BY <1>1
    <3> QED
      BY <1>3, <1>4, <3>1
  <2> QED
    BY <2>1, <2>2
<1>6. DepthOf(c) = Len(s)
  <2>1. DepthOf(c) = Cardinality(1..Len(s))
    BY <1>5, Zenon DEF DepthOf, N
  <2>2. Cardinality(1..Len(s)) = Len(s)
    BY <1>1, FromOne
  <2> QED
    BY <2>1, <2>2
<1>7. \A k \in 1..Len(s) : c[k] = s[k]
  BY <1>3, <1>4
<1>8. ContentsOf(c) = s
  <2>1. s = [k \in 1..Len(s) |-> s[k]]
    BY <1>1, LenProperties
  <2> QED
    BY <1>6, <1>7, <2>1 DEF ContentsOf
<1>9. ListedOf(c) = Items(s)
  BY <1>6, <1>7 DEF ListedOf, Items
<1>10. c[N + 1] = NULL
  <2>1. N + 1 \in 1..N + 1 /\ N + 1 \notin 1..Len(s)
    BY <1>1
  <2> QED
    BY <1>3, <2>1 DEF At
<1> QED
  BY <1>8, <1>9, <1>10 DEF c, N

\* The mapping of the refinement reads head and next only.
LEMMA Mapping ==
  /\ Contents = ContentsOf(Chain(head, next))
  /\ Contents' = ContentsOf(Chain(head', next'))
  /\ Listed = ListedOf(Chain(head, next))
<1>1. Contents = ContentsOf(NodeAt) /\ Listed = ListedOf(NodeAt)
  BY DEF Contents, Listed, Depth, ContentsOf, ListedOf, DepthOf
<1>2. Contents' = ContentsOf(NodeAt')
  BY DEF Contents, Depth, ContentsOf, DepthOf
<1> QED
  BY <1>1, <1>2, NodeAtIsChain

\* No node is lost, freed while it is on the list, or on the list after it was
\* freed: lines 34-36 and 81-84 account for every node of the heap.
THEOREM HeapAccountedAlways == Spec => []HeapAccounted
<1>1. ListInv => HeapAccounted
  <2> SUFFICES ASSUME ListInv PROVE HeapAccounted
    OBVIOUS
  <2>1. PICK s \in Seq(Node) : Linked(s, head, next) /\ Placed(s)
    BY DEF ListInv
  <2>2. Listed = Items(s) /\ NodeAt[Cardinality(Node) + 1] = NULL
    BY <2>1, ContentsIs, Mapping, NodeAtIsChain
  <2> QED
    BY <2>1, <2>2 DEF HeapAccounted, Placed
<1> QED
  BY <1>1, ListInvariance, PTL

-----------------------------------------------------------------------------
(* Refinement                                                              *)

\* The empty list maps to the empty stack.
LEMMA RefinesInit == Init => Nodes!Init
<1> SUFFICES ASSUME Init PROVE Contents = <<>>
  BY DEF Nodes!Init
<1> QED
  BY ListInit, ContentsIs, Mapping

\* Line 36 is Push, line 82 is Pop, all the rest stutters.
LEMMA RefinesStep == IInv /\ ListInv /\ [Next]_vars => [Nodes!Next]_Contents
<1> SUFFICES ASSUME IInv, ListInv, [Next]_vars PROVE [Nodes!Next]_Contents
  OBVIOUS
<1>1. PICK s \in Seq(Node) : Linked(s, head, next) /\ Placed(s)
  BY DEF ListInv
<1>2. PICK t \in Seq(Node) :
        /\ Linked(t, head', next')
        /\ \/ t = s
           \/ s # <<>> /\ t = Tail(s)
           \/ \E n \in Node \ Items(s) : t = <<n>> \o s
  BY <1>1, ListStep
<1>3. Contents = s
  BY <1>1, ContentsIs, Mapping
<1>4. Contents' = t
  BY <1>2, ContentsIs, Mapping
<1>5. CASE t = s
  BY <1>3, <1>4, <1>5
<1>6. CASE s # <<>> /\ t = Tail(s)
  <2>1. Nodes!Pop
    BY <1>3, <1>4, <1>6 DEF Nodes!Pop
  <2> QED
    BY <2>1 DEF Nodes!Next
<1>7. CASE \E n \in Node \ Items(s) : t = <<n>> \o s
  <2>1. PICK n \in Node \ Items(s) : t = <<n>> \o s
    BY <1>7
  <2>2. \A k \in DOMAIN s : s[k] # n
    BY <1>1, <2>1, LenProperties DEF Items
  <2>3. Nodes!Push(n)
    BY <1>3, <1>4, <2>1, <2>2 DEF Nodes!Push
  <2> QED
    BY <2>3 DEF Nodes!Next
<1> QED
  BY <1>2, <1>5, <1>6, <1>7

\* The list the two threads share is a stack of distinct nodes: no push or pop
\* is lost, whatever the heap hands out and however the threads interleave.
THEOREM StackRefinement == Spec => StackSpec
<1>1. Init => Nodes!Init
  BY RefinesInit
<1>2. IInv /\ ListInv /\ [Next]_vars => [Nodes!Next]_Contents
  BY RefinesStep
<1> QED
  BY <1>1, <1>2, Invariance, ListInvariance, PTL DEF Spec, StackSpec, Nodes!Spec
=============================================================================
