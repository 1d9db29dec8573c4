---------------------------- MODULE SemSyncLock ----------------------------
(***************************************************************************)
(* Producer and customer of 06_semaphore_sync_lock/semaphore_sync_lock.c:  *)
(* two semaphores make the threads alternate, a mutex guards the list.     *)
(*                                                                         *)
(* The producer allocates its node ONCE, before its loop, and links that   *)
(* same node again in every round; the customer reads `head` ONCE, before  *)
(* its loop and without the mutex, and frees that pointer in every round.  *)
(* So the heap holds at most one node, Node, and whether it is ever freed  *)
(* depends on which thread runs first.                                     *)
(***************************************************************************)
EXTENDS Naturals

CONSTANTS Value,   \* what random()%100 + 1 may store in a node
          NULL,    \* the null pointer
          Node,    \* the only heap node
          Garbage  \* what free() leaves in a node's fields

ASSUME DistinctAssumption ==
  /\ NULL # Node /\ Garbage # NULL /\ Garbage # Node
  /\ NULL \notin Value /\ Garbage \notin Value

VARIABLES main,      \* main(): "create1", "create2", "join"; then "exit"
                     \* when it returned, "killed" when a signal ended the
                     \* process (null pointer, abort in free)
          producer,  \* program counter of producer()
          customer,  \* program counter of customer()
          sem1,      \* semaphore "the slot is free", 1 at first
          sem2,      \* semaphore "the slot is full", 0 at first
          mutex,     \* who holds the mutex: "free", "producer", "customer"
          new_node,  \* the producer's node, NULL when malloc failed
          head,      \* the shared list head
          tmp,       \* the customer's pointer to free
          mem,       \* the node's memory: "none", "live", "freed"
          data, next,\* the node's two fields
          shown      \* what the customer printed last, NULL before the first

threads == <<main, producer, customer>>
sync == <<sem1, sem2, mutex>>
heap == <<new_node, head, tmp, mem, data, next>>
vars == <<main, producer, customer, sem1, sem2, mutex, new_node, head, tmp,
          mem, data, next, shown>>

\* Mutant of Init: sem1 starts at 2.
InitTwoTokens ==
  /\ main = "create1" /\ producer = "none" /\ customer = "none"
  /\ sem1 = 2 /\ sem2 = 0 /\ mutex = "free"
  /\ new_node = NULL /\ head = NULL /\ tmp = NULL
  /\ mem = "none" /\ data = Garbage /\ next = Garbage
  /\ shown = NULL

Init ==
  /\ main = "create1" /\ producer = "none" /\ customer = "none"
  /\ sem1 = 1 /\ sem2 = 0 /\ mutex = "free"
  /\ new_node = NULL /\ head = NULL /\ tmp = NULL
  /\ mem = "none" /\ data = Garbage /\ next = Garbage
  /\ shown = NULL

\* The process exists: main has not returned and nothing has killed it.
Alive == main \notin {"exit", "killed"}

-----------------------------------------------------------------------------
(* main: create both threads, then wait for threads that never end.        *)

CreateProducer ==
  /\ main = "create1"
  /\ \/ main' = "create2" /\ producer' = "malloc"
     \/ main' = "exit" /\ UNCHANGED producer
  /\ UNCHANGED <<customer, sync, heap, shown>>

CreateCustomer ==
  /\ main = "create2"
  /\ \/ main' = "join" /\ customer' = "start"
     \/ main' = "exit" /\ UNCHANGED customer
  /\ UNCHANGED <<producer, sync, heap, shown>>

-----------------------------------------------------------------------------
(* producer()                                                              *)

\* One thread's next instruction, with the rest of the process untouched.
Goto(from, to) == producer = from /\ producer' = to /\ UNCHANGED <<main, customer>>

ProducerMalloc ==
  /\ Alive /\ Goto("malloc", "wait")
  /\ \/ new_node' = Node /\ mem' = "live"
     \/ UNCHANGED <<new_node, mem>>
  /\ UNCHANGED <<sync, head, tmp, data, next, shown>>

ProducerWait ==
  /\ Alive /\ Goto("wait", "lock")
  /\ sem1 > 0 /\ sem1' = sem1 - 1
  /\ UNCHANGED <<sem2, mutex, heap, shown>>

ProducerLock ==
  /\ Alive /\ Goto("lock", "link")
  /\ mutex = "free" /\ mutex' = "producer"
  /\ UNCHANGED <<sem1, sem2, heap, shown>>

\* Fill in the node and put it in front of the list. A null new_node kills
\* the process; a freed one is written to all the same, the page is mapped.
ProducerLink ==
  /\ Alive /\ producer = "link"
  /\ \/ /\ new_node = NULL
        /\ main' = "killed"
        /\ UNCHANGED <<producer, head, data, next>>
     \/ /\ new_node # NULL
        /\ \E v \in Value : data' = v
        /\ next' = head
        /\ head' = new_node
        /\ producer' = "unlock"
        /\ UNCHANGED main
  /\ UNCHANGED <<customer, sync, new_node, tmp, mem, shown>>

ProducerUnlock ==
  /\ Alive /\ Goto("unlock", "post")
  /\ mutex' = "free"
  /\ UNCHANGED <<sem1, sem2, heap, shown>>

\* Mutants of ProducerPost: it posts its own semaphore, or posts nothing.
ProducerPostOwn ==
  /\ Alive /\ Goto("post", "wait")
  /\ sem1' = sem1 + 1
  /\ UNCHANGED <<sem2, mutex, heap, shown>>

ProducerPostNothing ==
  /\ Alive /\ Goto("post", "wait")
  /\ UNCHANGED <<sync, heap, shown>>

ProducerPost ==
  /\ Alive /\ Goto("post", "wait")
  /\ sem2' = sem2 + 1
  /\ UNCHANGED <<sem1, mutex, heap, shown>>

Producer == \/ ProducerMalloc \/ ProducerWait \/ ProducerLock
            \/ ProducerLink \/ ProducerUnlock \/ ProducerPost

-----------------------------------------------------------------------------
(* customer()                                                              *)

GotoC(from, to) == customer = from /\ customer' = to /\ UNCHANGED <<main, producer>>

\* pNode tmp = head, without the mutex.
CustomerStart ==
  /\ Alive /\ GotoC("start", "wait")
  /\ tmp' = head
  /\ UNCHANGED <<sync, new_node, head, mem, data, next, shown>>

\* Mutant of CustomerWait: it goes on when sem2 is 0.
CustomerDoesNotWait ==
  /\ Alive /\ GotoC("wait", "lock")
  /\ sem2' = IF sem2 > 0 THEN sem2 - 1 ELSE 0
  /\ UNCHANGED <<sem1, mutex, heap, shown>>

CustomerWait ==
  /\ Alive /\ GotoC("wait", "lock")
  /\ sem2 > 0 /\ sem2' = sem2 - 1
  /\ UNCHANGED <<sem1, mutex, heap, shown>>

CustomerLock ==
  /\ Alive /\ GotoC("lock", "take")
  /\ mutex = "free" /\ mutex' = "customer"
  /\ UNCHANGED <<sem1, sem2, heap, shown>>

\* free(tmp): nothing for NULL; the allocator's links overwrite the fields of
\* the chunk; a second free of the chunk aborts or corrupts silently.
Free ==
  \/ tmp = NULL /\ UNCHANGED <<main, mem, data, next>>
  \/ /\ tmp # NULL
     /\ mem' = "freed" /\ data' = Garbage /\ next' = Garbage
     /\ \/ UNCHANGED main
        \/ mem = "freed" /\ main' = "killed"

\* Print head->data, unlink the head, free(tmp).
CustomerTake ==
  /\ Alive /\ customer = "take"
  /\ \/ /\ head = NULL
        /\ main' = "killed"
        /\ UNCHANGED <<customer, head, mem, data, next, shown>>
     \/ /\ head # NULL
        /\ shown' = data
        /\ head' = next
        /\ Free
        /\ customer' = "unlock"
  /\ UNCHANGED <<producer, sync, new_node, tmp>>

CustomerUnlock ==
  /\ Alive /\ GotoC("unlock", "post")
  /\ mutex' = "free"
  /\ UNCHANGED <<sem1, sem2, heap, shown>>

CustomerPost ==
  /\ Alive /\ GotoC("post", "wait")
  /\ sem1' = sem1 + 1
  /\ UNCHANGED <<sem2, mutex, heap, shown>>

Customer == \/ CustomerStart \/ CustomerWait \/ CustomerLock
            \/ CustomerTake \/ CustomerUnlock \/ CustomerPost

-----------------------------------------------------------------------------
Next == CreateProducer \/ CreateCustomer \/ Producer \/ Customer

Spec == Init /\ [][Next]_vars

\* Every thread that can run is eventually run by the kernel.
Fairness == /\ WF_vars(CreateProducer) /\ WF_vars(CreateCustomer)
            /\ WF_vars(Producer) /\ WF_vars(Customer)
FairSpec == Spec /\ Fairness

-----------------------------------------------------------------------------
(* Properties                                                              *)

TypeOK ==
  /\ main \in {"create1", "create2", "join", "exit", "killed"}
  /\ producer \in {"none", "malloc", "wait", "lock", "link", "unlock", "post"}
  /\ customer \in {"none", "start", "wait", "lock", "take", "unlock", "post"}
  /\ sem1 \in 0..1 /\ sem2 \in 0..1
  /\ mutex \in {"free", "producer", "customer"}
  /\ new_node \in {NULL, Node} /\ head \in {NULL, Node} /\ tmp \in {NULL, Node}
  /\ mem \in {"none", "live", "freed"}
  /\ data \in Value \cup {Garbage} /\ next \in {NULL, Node, Garbage}
  /\ shown \in Value \cup {NULL}

ProducerTurn == producer \in {"lock", "link", "unlock", "post"}
CustomerTurn == customer \in {"lock", "take", "unlock", "post"}

\* The two semaphores pass one token around (lines 24, 53, 71, 98): exactly
\* one of "slot free", "slot full", "producer's turn", "customer's turn" holds.
OneToken ==
  (IF sem1 = 1 THEN 1 ELSE 0) + (IF sem2 = 1 THEN 1 ELSE 0)
    + (IF ProducerTurn THEN 1 ELSE 0) + (IF CustomerTurn THEN 1 ELSE 0) = 1

\* The customer never finds the list empty when sem2 let it in (line 85), and
\* a customer that read `head` before the first link (line 68) frees nothing:
\* then only a failed malloc can kill the process.
CrashHasCause ==
  /\ customer = "take" => head = Node
  /\ tmp = NULL => mem # "freed" /\ (main = "killed" => new_node = NULL)

\* The node list, both semaphores and the mutex implement a one-slot buffer.
Buffer == INSTANCE OneSlot WITH
            Empty <- NULL,
            slot  <- IF head = NULL THEN NULL ELSE data,
            taken <- shown
BufferSpec == Buffer!Spec

\* Every value produced is consumed, unless the process dies first.
Consumed == head = Node ~> head = NULL \/ ~Alive
=============================================================================
