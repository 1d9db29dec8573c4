---------------------------- MODULE Mutex_proofs ----------------------------
(***************************************************************************)
(* Safety of the two programs of 09_Day09 whose threads take a mutex in    *)
(* turn and wait for nothing else but semaphores and joins: SemSyncLock    *)
(* for every set of values, and that it implements a one-slot buffer; then *)
(* MutexAdd for every number of iterations.                                *)
(***************************************************************************)
EXTENDS SemSyncLock, MutexAdd, TLAPS

\* The mutex is held exactly between a thread's lock and its unlock.
LockHeld ==
  /\ mutex = "producer" <=> producer \in {"link", "unlock"}
  /\ mutex = "customer" <=> customer \in {"take", "unlock"}

\* The list is full exactly from the producer's link to the customer's take.
ListFull ==
  head = Node <=> \/ sem2 = 1
                  \/ producer \in {"unlock", "post"}
                  \/ customer \in {"lock", "take"}

\* Only the producer's node is ever linked, and only linked memory is freed.
Provenance ==
  /\ head = Node \/ tmp = Node => new_node = Node
  /\ tmp = NULL => mem # "freed"
  /\ main = "killed" => new_node = NULL \/ mem = "freed"

\* The producer reuses one node, so linking it while it is still in the list
\* (lines 39-40) would make it its own successor: the list never does that,
\* although `head` may hold a node the customer has already freed.
NoSelfLoop == head = Node => next = NULL /\ data \in Value

\* A thread that has not been created, or has just started, has no state yet.
Fresh ==
  /\ main \in {"create1", "create2"} => customer = "none"
  /\ main = "create1" => producer = "none"
  /\ producer \in {"none", "malloc"} => new_node = NULL
  /\ customer \in {"none", "start"} => tmp = NULL

IInv == /\ TypeOK /\ OneToken /\ LockHeld /\ ListFull /\ NoSelfLoop
        /\ Provenance /\ Fresh

\* The program starts in IInv: nothing created, one token in sem1.
LEMMA InitInv == Init => IInv
BY DistinctAssumption DEF Init, IInv, TypeOK, OneToken, ProducerTurn, CustomerTurn,
   LockHeld, ListFull, NoSelfLoop, Provenance, Fresh

\* Every step of main, producer and customer keeps IInv.
LEMMA StepInv == IInv /\ [Next]_vars => IInv'
<1> SUFFICES ASSUME IInv, [Next]_vars PROVE IInv'
    OBVIOUS
<1> USE DistinctAssumption DEF IInv, TypeOK, OneToken, ProducerTurn,
        CustomerTurn, LockHeld, ListFull, NoSelfLoop, Provenance, Fresh, Alive
<1>1. CASE CreateProducer
  BY <1>1 DEF CreateProducer, sync, heap
<1>2. CASE CreateCustomer
  BY <1>2 DEF CreateCustomer, sync, heap
<1>3. CASE ProducerMalloc
  BY <1>3 DEF ProducerMalloc, Goto, sync
<1>4. CASE ProducerWait
  <2> USE <1>4 DEF ProducerWait, Goto, heap
  <2>1. TypeOK'
    OBVIOUS
  <2>2. OneToken'
    OBVIOUS
  <2>3. LockHeld' /\ ListFull'
    OBVIOUS
  <2>4. NoSelfLoop' /\ Provenance' /\ Fresh'
    OBVIOUS
  <2> QED
    BY <2>1, <2>2, <2>3, <2>4
<1>5. CASE ProducerLock
  <2> USE <1>5 DEF ProducerLock, Goto, heap
  <2>1. TypeOK'
    OBVIOUS
  <2>2. OneToken'
    OBVIOUS
  <2>3. LockHeld' /\ ListFull'
    OBVIOUS
  <2>4. NoSelfLoop' /\ Provenance' /\ Fresh'
    OBVIOUS
  <2> QED
    BY <2>1, <2>2, <2>3, <2>4
<1>6. CASE ProducerLink
  <2> USE <1>6 DEF ProducerLink, sync
  <2>1. TypeOK'
    OBVIOUS
  <2>2. OneToken'
    OBVIOUS
  <2>3. LockHeld' /\ ListFull'
    OBVIOUS
  <2>4. NoSelfLoop' /\ Provenance' /\ Fresh'
    OBVIOUS
  <2> QED
    BY <2>1, <2>2, <2>3, <2>4
<1>7. CASE ProducerUnlock
  BY <1>7 DEF ProducerUnlock, Goto, heap
<1>8. CASE ProducerPost
  BY <1>8 DEF ProducerPost, Goto, heap
<1>9. CASE CustomerStart
  BY <1>9 DEF CustomerStart, GotoC, sync
<1>10. CASE CustomerWait
  BY <1>10 DEF CustomerWait, GotoC, heap
<1>11. CASE CustomerLock
  BY <1>11 DEF CustomerLock, GotoC, heap
<1>12. CASE CustomerTake
  <2> USE <1>12 DEF CustomerTake, Free, sync
  <2>1. TypeOK'
    OBVIOUS
  <2>2. OneToken'
    OBVIOUS
  <2>3. LockHeld' /\ ListFull'
    OBVIOUS
  <2>4. NoSelfLoop' /\ Provenance' /\ Fresh'
    OBVIOUS
  <2> QED
    BY <2>1, <2>2, <2>3, <2>4
<1>13. CASE CustomerUnlock
  BY <1>13 DEF CustomerUnlock, GotoC, heap
<1>14. CASE CustomerPost
  BY <1>14 DEF CustomerPost, GotoC, heap
<1>15. CASE UNCHANGED vars
  BY <1>15 DEF vars
<1> QED
  BY <1>1, <1>2, <1>3, <1>4, <1>5, <1>6, <1>7, <1>8, <1>9, <1>10, <1>11,
     <1>12, <1>13, <1>14, <1>15 DEF Next, Producer, Customer

\* The inductive invariant holds in every reachable state.
THEOREM Invariance == Spec => []IInv
<1>1. Init => IInv
  BY InitInv
<1>2. IInv /\ [Next]_vars => IInv'
  BY StepInv
<1> QED
  BY <1>1, <1>2, PTL DEF Spec

\* The semaphores of lines 24, 53, 71 and 98 always hold one token together.
THEOREM OneTokenAlways == Spec => []OneToken
<1>1. IInv => OneToken
  BY DEF IInv
<1> QED
  BY <1>1, Invariance, PTL

\* The producer never links its node while the list still holds it (39-40).
THEOREM NoSelfLoopAlways == Spec => []NoSelfLoop
<1>1. IInv => NoSelfLoop
  BY DEF IInv
<1> QED
  BY <1>1, Invariance, PTL

\* sem2 lets the customer in only when the list is not empty (line 85), and
\* without a dangling tmp only a failed malloc can kill the process.
THEOREM CrashHasCauseAlways == Spec => []CrashHasCause
<1>1. IInv => CrashHasCause
  BY DistinctAssumption DEF IInv, TypeOK, ListFull, Provenance, CrashHasCause
<1> QED
  BY <1>1, Invariance, PTL

-----------------------------------------------------------------------------
(* Refinement                                                              *)

\* The empty list maps to the empty slot.
LEMMA RefinesInit == Init => Buffer!Init
BY DistinctAssumption DEF Init, Buffer!Init

\* Linking the node is Put, taking it is Take, all the rest stutters.
LEMMA RefinesStep == IInv /\ [Next]_vars => [Buffer!Next]_Buffer!vars
<1> SUFFICES ASSUME IInv, [Next]_vars PROVE [Buffer!Next]_Buffer!vars
    OBVIOUS
<1> USE DistinctAssumption DEF IInv, TypeOK, ListFull, NoSelfLoop, Provenance
<1>1. CASE ProducerLink
  <2>1. CASE new_node = NULL
    BY <1>1, <2>1 DEF ProducerLink, Buffer!vars
  <2>2. CASE new_node # NULL
    <3>1. PICK v \in Value : data' = v
      BY <1>1, <2>2 DEF ProducerLink
    <3>2. head = NULL /\ head' = Node /\ shown' = shown
      BY <1>1, <2>2 DEF ProducerLink, OneToken, ProducerTurn, CustomerTurn
    <3>3. Buffer!Put(v)
      BY <3>1, <3>2 DEF Buffer!Put
    <3> QED
      BY <3>3 DEF Buffer!Next
  <2> QED
    BY <2>1, <2>2
<1>2. CASE CustomerTake
  <2>1. head = Node /\ next = NULL /\ data \in Value
    BY <1>2 DEF CustomerTake
  <2>2. shown' = data /\ head' = NULL
    BY <1>2, <2>1 DEF CustomerTake
  <2>3. Buffer!Take
    BY <2>1, <2>2 DEF Buffer!Take
  <2> QED
    BY <2>3 DEF Buffer!Next
<1>3. CASE ~ProducerLink /\ ~CustomerTake
  <2>1. UNCHANGED <<head, data, shown>>
    BY <1>3 DEF Next, Producer, Customer, vars, heap, CreateProducer,
       CreateCustomer, ProducerMalloc, ProducerWait, ProducerLock,
       ProducerUnlock, ProducerPost, CustomerStart, CustomerWait,
       CustomerLock, CustomerUnlock, CustomerPost
  <2> QED
    BY <2>1 DEF Buffer!vars
<1> QED
  BY <1>1, <1>2, <1>3

\* The list, the semaphores and the mutex implement a one-slot buffer: no
\* value is overwritten before it is consumed, none is consumed twice.
THEOREM Refinement == Spec => BufferSpec
<1>1. Init => Buffer!Init
  BY RefinesInit
<1>2. IInv /\ [Next]_vars => [Buffer!Next]_Buffer!vars
  BY RefinesStep
<1> QED
  BY <1>1, <1>2, Invariance, PTL DEF Spec, BufferSpec, Buffer!Spec

-----------------------------------------------------------------------------
(* The mutex counter                                                       *)

Critical == {"load", "store", "unlock"}

\* The mutex is held by the thread that is between lock and unlock.
MutexHeld == \A t \in Thread : pc[t] \in Critical <=> holder = t

\* What a thread has loaded is still the value of NUM when it stores.
FreshCopy == \A t \in Thread : pc[t] = "store" => reg[t] = NUM

\* The mutex that line 71 destroys is neither held nor wanted by a thread.
DestroyedIdle == joiner = "destroy" => holder = 0 /\ \A t \in Thread : pc[t] = "done"

\* A thread ends only after N rounds, and enters the lock only before.
Rounds == \A t \in Thread : /\ pc[t] = "done" => i[t] = N
                            /\ pc[t] \in Critical => i[t] < N

\* main goes past a join only when that thread has ended.
Joined ==
  /\ joiner = "create1" => pc[1] = "none"
  /\ joiner \in {"create1", "create2"} => pc[2] = "none"
  /\ joiner \in {"join2", "print", "destroy"} => pc[1] = "done"
  /\ joiner \in {"print", "destroy"} => pc[2] = "done"
  /\ printed # -1 => joiner \in {"destroy", "exit"}

AddInv == /\ AddTypeOK /\ MutexHeld /\ FreshCopy /\ Rounds /\ Joined
        /\ NoLostUpdate /\ PrintsSum

\* Nothing is created, nothing is added.
LEMMA AddInitInv == AddInit => AddInv
BY NAssumption DEF AddInit, AddInv, AddTypeOK, MutexHeld, FreshCopy, Rounds, Joined,
   NoLostUpdate, PrintsSum, Added, Thread, Critical

\* Every step of main and of the two threads keeps AddInv.
LEMMA AddStepInv == AddInv /\ [AddNext]_addVars => AddInv'
<1> SUFFICES ASSUME AddInv, [AddNext]_addVars PROVE AddInv'
    OBVIOUS
<1> USE NAssumption DEF AddInv, AddTypeOK, MutexHeld, FreshCopy, Rounds, Joined,
        NoLostUpdate, PrintsSum, Added, Thread, Critical, Adding
<1>1. CASE Create(1, "create1", "create2") \/ Create(2, "create2", "join1")
  BY <1>1 DEF Create
<1>2. CASE \/ Join(1, "join1", "join2") \/ Join(2, "join2", "print")
           \/ PrintNum \/ Destroy
  BY <1>2 DEF Join, PrintNum, Destroy
<1>3. ASSUME NEW t \in Thread, Leave(t) PROVE AddInv'
  BY <1>3 DEF Leave, Step
<1>4. ASSUME NEW t \in Thread, Lock(t) PROVE AddInv'
  BY <1>4 DEF Lock, Step
<1>5. ASSUME NEW t \in Thread, Load(t) PROVE AddInv'
  BY <1>5 DEF Load, Step
<1>6. ASSUME NEW t \in Thread, Store(t) PROVE AddInv'
  BY <1>6 DEF Store, Step
<1>7. ASSUME NEW t \in Thread, Unlock(t) PROVE AddInv'
  BY <1>7 DEF Unlock, Step
<1>8. CASE UNCHANGED addVars
  BY <1>8 DEF addVars
<1> QED
  BY <1>1, <1>2, <1>3, <1>4, <1>5, <1>6, <1>7, <1>8 DEF AddNext, Main, Fun

\* The inductive invariant holds in every reachable state.
THEOREM AddInvariance == AddSpec => []AddInv
<1>1. AddInit => AddInv
  BY AddInitInv
<1>2. AddInv /\ [AddNext]_addVars => AddInv'
  BY AddStepInv
<1> QED
  BY <1>1, <1>2, PTL DEF AddSpec

\* For every N, no NUM++ (lines 12 and 24) overwrites another one.
THEOREM NoLostUpdateAlways == AddSpec => []NoLostUpdate
<1>1. AddInv => NoLostUpdate
  BY DEF AddInv
<1> QED
  BY <1>1, AddInvariance, PTL

\* For every N, the number printed at line 69 is 2 * N.
THEOREM PrintsSumAlways == AddSpec => []PrintsSum
<1>1. AddInv => PrintsSum
  BY DEF AddInv
<1> QED
  BY <1>1, AddInvariance, PTL

\* The mutex destroyed at line 71 is free and nobody will lock it again.
THEOREM DestroyedIdleAlways == AddSpec => []DestroyedIdle
<1>1. AddInv => DestroyedIdle
  BY DEF AddInv, AddTypeOK, MutexHeld, Joined, DestroyedIdle, Thread, Critical
<1> QED
  BY <1>1, AddInvariance, PTL
=============================================================================
