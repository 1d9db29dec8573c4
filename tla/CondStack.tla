------------------------------ MODULE CondStack ------------------------------
(***************************************************************************)
(* 04_cond/cond.c: a producer pushes heap nodes on a list, a customer pops *)
(* them and waits on a condition variable when the list is empty; main     *)
(* waits for a key, destroys the mutex and the condition and returns,      *)
(* whatever the two threads are doing.                                     *)
(*                                                                         *)
(* The mutex and the condition are modelled as glibc implements them:      *)
(* destroying a mutex that a thread holds, or gave up in pthread_cond_wait,*)
(* fails with EBUSY, and locking a destroyed one fails with EINVAL.        *)
(***************************************************************************)
EXTENDS Naturals, Sequences, FiniteSets

CONSTANTS Node,      \* the nodes malloc can return; bounds the heap
          NULL,      \* the null pointer
          Spurious   \* may pthread_cond_wait return without a signal?

ASSUME CondAssumption == IsFiniteSet(Node) /\ NULL \notin Node /\ Spurious \in BOOLEAN

VARIABLES main,      \* main(): "create1", "create2", "getchar", "destroy",
                     \* "exit" (returned), "killed" (null pointer dereferenced)
          producer,  \* program counter of producer()
          customer,  \* program counter of customer()
          mutex,     \* "free", "producer", "customer" or "destroyed"
          head,      \* the top of the list
          next,      \* the next field of each node
          heap,      \* the nodes that malloc returned and nobody freed
          new_node,  \* producer()'s local
          temp       \* customer()'s local

vars == <<main, producer, customer, mutex, head, next, heap, new_node, temp>>
list == <<head, next>>

Init ==
  /\ main = "create1" /\ producer = "none" /\ customer = "none"
  /\ mutex = "free"
  /\ head = NULL /\ next = [n \in Node |-> NULL]
  /\ heap = {} /\ new_node = NULL /\ temp = NULL

Alive == main \notin {"exit", "killed"}

-----------------------------------------------------------------------------
(* main                                                                    *)

CreateProducer ==
  /\ main = "create1"
  /\ \/ main' = "create2" /\ producer' = "malloc"
     \/ main' = "exit" /\ UNCHANGED producer
  /\ UNCHANGED <<customer, mutex, list, heap, new_node, temp>>

CreateCustomer ==
  /\ main = "create2"
  /\ \/ main' = "getchar" /\ customer' = "lock"
     \/ main' = "exit" /\ UNCHANGED customer
  /\ UNCHANGED <<producer, mutex, list, heap, new_node, temp>>

\* A thread that holds the mutex, or will take it back after its wait.
MutexUsed == mutex \in {"producer", "customer"} \/ customer \in {"wait", "relock"}

\* Mutant of DestroyMutex: the mutex is destroyed whoever uses it.
DestroyAnyMutex ==
  /\ main = "getchar"
  /\ main' = "destroy" /\ mutex' = "destroyed"
  /\ UNCHANGED <<producer, customer, list, heap, new_node, temp>>

\* A key is pressed: destroy the mutex, or return 1 when it is in use.
DestroyMutex ==
  /\ main = "getchar"
  /\ \/ MutexUsed /\ main' = "exit" /\ UNCHANGED mutex
     \/ ~MutexUsed /\ main' = "destroy" /\ mutex' = "destroyed"
  /\ UNCHANGED <<producer, customer, list, heap, new_node, temp>>

\* Nobody waits on the condition once the mutex could be destroyed.
DestroyCond ==
  /\ main = "destroy" /\ main' = "exit"
  /\ UNCHANGED <<producer, customer, mutex, list, heap, new_node, temp>>

-----------------------------------------------------------------------------
(* producer()                                                              *)

Goto(from, to) == Alive /\ producer = from /\ producer' = to /\ UNCHANGED customer

\* malloc takes any free node, or fails and ends the thread.
Malloc ==
  /\ \/ \E n \in Node \ heap :
          /\ Goto("malloc", "lock")
          /\ new_node' = n /\ heap' = heap \cup {n}
     \/ Goto("malloc", "ended") /\ new_node' = NULL /\ UNCHANGED heap
  /\ UNCHANGED <<main, mutex, list, temp>>

\* Mutant of ProducerLock: the producer goes on without the mutex.
ProducerLockNothing ==
  /\ mutex # "destroyed" /\ Goto("lock", "push")
  /\ UNCHANGED <<main, mutex, list, heap, new_node, temp>>

ProducerLock ==
  /\ mutex = "free" /\ Goto("lock", "push")
  /\ mutex' = "producer"
  /\ UNCHANGED <<main, list, heap, new_node, temp>>

\* The lock fails on a destroyed mutex: break, the node is left allocated.
ProducerLockFails ==
  /\ mutex = "destroyed" /\ Goto("lock", "ended")
  /\ UNCHANGED <<main, mutex, list, heap, new_node, temp>>

\* new_node->next = head
PushNext ==
  /\ Goto("push", "link")
  /\ next' = [next EXCEPT ![new_node] = head]
  /\ UNCHANGED <<main, mutex, head, heap, new_node, temp>>

\* head = new_node
PushHead ==
  /\ Goto("link", "unlock")
  /\ head' = new_node
  /\ UNCHANGED <<main, mutex, next, heap, new_node, temp>>

\* Mutant of ProducerUnlock: the round ends without the signal.
ProducerUnlockOnly ==
  /\ Goto("unlock", "malloc")
  /\ mutex' = "free"
  /\ UNCHANGED <<main, list, heap, new_node, temp>>

ProducerUnlock ==
  /\ Goto("unlock", "signal")
  /\ mutex' = "free"
  /\ UNCHANGED <<main, list, heap, new_node, temp>>

\* Mutant of Signal: nobody is woken.
SignalNobody ==
  /\ Goto("signal", "malloc")
  /\ UNCHANGED <<main, mutex, list, heap, new_node, temp>>

\* pthread_cond_signal, after the mutex has been given back.
Signal ==
  /\ Alive /\ producer = "signal" /\ producer' = "malloc"
  /\ customer' = IF customer = "wait" THEN "relock" ELSE customer
  /\ UNCHANGED <<main, mutex, list, heap, new_node, temp>>

Producer == \/ Malloc \/ ProducerLock \/ ProducerLockFails
            \/ PushNext \/ PushHead \/ ProducerUnlock \/ Signal

-----------------------------------------------------------------------------
(* customer()                                                              *)

GotoC(from, to) == Alive /\ customer = from /\ customer' = to /\ UNCHANGED producer

CustomerLock ==
  /\ mutex = "free" /\ GotoC("lock", "test")
  /\ mutex' = "customer"
  /\ UNCHANGED <<main, list, heap, new_node, temp>>

CustomerLockFails ==
  /\ mutex = "destroyed" /\ GotoC("lock", "ended")
  /\ UNCHANGED <<main, mutex, list, heap, new_node, temp>>

\* if (NULL == head) pthread_cond_wait: unlock and sleep in one step.
Test ==
  /\ \/ head # NULL /\ GotoC("test", "pop") /\ UNCHANGED mutex
     \/ head = NULL /\ GotoC("test", "wait") /\ mutex' = "free"
  /\ UNCHANGED <<main, list, heap, new_node, temp>>

WakeUp ==
  /\ Spurious /\ GotoC("wait", "relock")
  /\ UNCHANGED <<main, mutex, list, heap, new_node, temp>>

\* pthread_cond_wait takes the mutex back and returns; head is not tested again.
Relock ==
  /\ mutex = "free" /\ GotoC("relock", "woken")
  /\ mutex' = "customer"
  /\ UNCHANGED <<main, list, heap, new_node, temp>>

\* Print head->data, temp = head; a null head kills the process.
PopRead ==
  /\ Alive /\ customer \in {"pop", "woken"}
  /\ \/ /\ head = NULL
        /\ main' = "killed"
        /\ UNCHANGED <<customer, temp>>
     \/ /\ head # NULL
        /\ temp' = head
        /\ customer' = "unlink"
        /\ UNCHANGED main
  /\ UNCHANGED <<producer, mutex, list, heap, new_node>>

\* head = head->next
PopUnlink ==
  /\ GotoC("unlink", "free")
  /\ head' = next[head]
  /\ UNCHANGED <<main, mutex, next, heap, new_node, temp>>

\* Mutant of PopFree: the node is not freed.
PopLeak ==
  /\ GotoC("free", "unlock")
  /\ UNCHANGED <<main, mutex, list, heap, new_node, temp>>

PopFree ==
  /\ GotoC("free", "unlock")
  /\ heap' = heap \ {temp}
  /\ UNCHANGED <<main, mutex, list, new_node, temp>>

CustomerUnlock ==
  /\ GotoC("unlock", "lock")
  /\ mutex' = "free"
  /\ UNCHANGED <<main, list, heap, new_node, temp>>

Customer == \/ CustomerLock \/ CustomerLockFails \/ Test \/ WakeUp
            \/ Relock \/ PopRead \/ PopUnlink \/ PopFree \/ CustomerUnlock

-----------------------------------------------------------------------------
Next == \/ CreateProducer \/ CreateCustomer \/ DestroyMutex \/ DestroyCond
        \/ Producer \/ Customer

Spec == Init /\ [][Next]_vars

\* The kernel runs every thread that can run. The producer sleeps at least one
\* second between two rounds without the mutex (line 20), so the customer gets
\* a mutex that is free again and again: strong fairness. Nobody has to press
\* a key or to wake a thread spuriously.
Fairness ==
  /\ WF_vars(CreateProducer) /\ WF_vars(CreateCustomer) /\ WF_vars(DestroyCond)
  /\ WF_vars(Producer)
  /\ WF_vars(Customer /\ customer \notin {"lock", "wait", "relock"})
  /\ WF_vars(CustomerLockFails)
  /\ SF_vars(CustomerLock) /\ SF_vars(Relock)
FairSpec == Spec /\ Fairness

-----------------------------------------------------------------------------
(* Properties                                                              *)

TypeOK ==
  /\ main \in {"create1", "create2", "getchar", "destroy", "exit", "killed"}
  /\ producer \in {"none", "malloc", "lock", "push", "link", "unlock",
                   "signal", "ended"}
  /\ customer \in {"none", "lock", "test", "wait", "relock", "woken", "pop",
                   "unlink", "free", "unlock", "ended"}
  /\ mutex \in {"free", "producer", "customer", "destroyed"}
  /\ head \in Node \cup {NULL} /\ next \in [Node -> Node \cup {NULL}]
  /\ heap \subseteq Node
  /\ new_node \in Node \cup {NULL} /\ temp \in Node \cup {NULL}

\* The k-th node from the top, NULL below the bottom.
NodeAt[k \in 1..Cardinality(Node) + 1] ==
  IF k = 1 THEN head
  ELSE IF NodeAt[k - 1] = NULL THEN NULL ELSE next[NodeAt[k - 1]]

Depth == Cardinality({k \in 1..Cardinality(Node) : NodeAt[k] # NULL})
Listed == {NodeAt[k] : k \in 1..Depth}
Contents == [k \in 1..Depth |-> NodeAt[k]]

\* The list implements a stack of distinct nodes: no push or pop is lost when
\* the two threads interleave (lines 35-36 against 81-82).
Nodes == INSTANCE Stack WITH Item <- Node, stack <- Contents
StackSpec == Nodes!Spec

\* A customer asleep on a non-empty list is about to be signalled, although
\* line 47 signals only after line 40 has given the mutex back.
NoLostWakeup ==
  customer = "wait" /\ head # NULL => producer \in {"unlock", "signal"}

\* Every allocated node is on the list or in the hand of the thread that is
\* adding or removing it, and the list holds no freed node (lines 34-36, 81-84).
\* Only a malloc whose lock failed (lines 28-32) leaves one behind.
InHand == \/ producer \in {"lock", "push", "link"}
          \/ producer = "ended" /\ new_node # NULL
Unlinked == customer = "free"
HeapAccounted ==
  /\ NodeAt[Cardinality(Node) + 1] = NULL
  /\ heap = Listed \cup {n \in Node : InHand /\ n = new_node}
                   \cup {n \in Node : Unlinked /\ n = temp}
  /\ InHand => new_node \notin Listed
  /\ Unlinked => temp \notin Listed

\* Once main has destroyed the mutex (line 135), no thread is in its critical
\* section or asleep on the condition that main destroys next (line 142).
DestroyedQuiet ==
  mutex = "destroyed" =>
    /\ producer \notin {"push", "link", "unlock"}
    /\ customer \in {"lock", "ended"}

\* What the message of line 70 says: the customer waits for the producer to
\* make a node, so a customer whose wait is over finds one.
WaitedForNode == customer = "woken" => head # NULL

\* A customer asleep on a non-empty list wakes up, unless the process ends.
Woken == customer = "wait" /\ head # NULL ~> customer # "wait" \/ ~Alive
=============================================================================
