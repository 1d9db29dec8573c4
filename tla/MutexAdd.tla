------------------------------ MODULE MutexAdd ------------------------------
(***************************************************************************)
(* 02_mutex_plus/mutex_add.c: two threads (fun1 and fun2, the same code)   *)
(* add 1 to the global NUM, N times each, under one mutex; main joins them *)
(* and prints NUM. NUM++ is a load and a store, not one step.              *)
(***************************************************************************)
EXTENDS Integers

CONSTANT N   \* iterations of each loop; 1000000 in the code

MaxInt == 2147483647   \* INT_MAX

\* NUM is an int and counts to 2 * N, so no addition overflows.
ASSUME NAssumption == N \in Nat /\ 2 * N <= MaxInt

Thread == {1, 2}   \* fun1 and fun2

VARIABLES joiner,  \* main(): "create1", "create2", "join1", "join2", "print",
                   \* "destroy", "exit"; "exit" is the end of the process
          pc,      \* each thread's program counter
          i,       \* each thread's loop counter
          reg,     \* each thread's copy of NUM between load and store
          holder,  \* the thread that holds mutex, 0 when it is free
          NUM,     \* the shared counter
          printed  \* what main printed, -1 before

addVars == <<joiner, pc, i, reg, holder, NUM, printed>>

AddInit ==
  /\ joiner = "create1" /\ pc = [t \in Thread |-> "none"]
  /\ i = [t \in Thread |-> 0] /\ reg = [t \in Thread |-> 0]
  /\ holder = 0 /\ NUM = 0 /\ printed = -1

Adding == joiner # "exit"

-----------------------------------------------------------------------------
(* main                                                                    *)

\* pthread_create of thread t, or its failure, which ends the process.
Create(t, from, to) ==
  /\ joiner = from
  /\ \/ joiner' = to /\ pc' = [pc EXCEPT ![t] = "loop"]
     \/ joiner' = "exit" /\ UNCHANGED pc
  /\ UNCHANGED <<i, reg, holder, NUM, printed>>

\* Mutant of Join: it does not wait for the thread.
JoinDetached(t, from, to) ==
  /\ joiner = from /\ joiner' = to
  /\ UNCHANGED <<pc, i, reg, holder, NUM, printed>>

Join(t, from, to) ==
  /\ joiner = from /\ pc[t] = "done"
  /\ joiner' = to
  /\ UNCHANGED <<pc, i, reg, holder, NUM, printed>>

\* printf of NUM, read without the mutex.
PrintNum ==
  /\ joiner = "print" /\ joiner' = "destroy"
  /\ printed' = NUM
  /\ UNCHANGED <<pc, i, reg, holder, NUM>>

\* pthread_mutex_destroy, then return 0.
Destroy ==
  /\ joiner = "destroy" /\ joiner' = "exit"
  /\ UNCHANGED <<pc, i, reg, holder, NUM, printed>>

Main == \/ Create(1, "create1", "create2") \/ Create(2, "create2", "join1")
        \/ Join(1, "join1", "join2") \/ Join(2, "join2", "print")
        \/ PrintNum \/ Destroy

-----------------------------------------------------------------------------
(* fun1 and fun2                                                           *)

Step(t, from, to) == Adding /\ pc[t] = from /\ pc' = [pc EXCEPT ![t] = to]

Leave(t) ==
  /\ i[t] >= N /\ Step(t, "loop", "done")
  /\ UNCHANGED <<joiner, i, reg, holder, NUM, printed>>

\* Mutant of Lock: the mutex is not taken.
LockNothing(t) ==
  /\ i[t] < N /\ Step(t, "loop", "load")
  /\ UNCHANGED <<joiner, i, reg, holder, NUM, printed>>

Lock(t) ==
  /\ i[t] < N /\ holder = 0 /\ Step(t, "loop", "load")
  /\ holder' = t
  /\ UNCHANGED <<joiner, i, reg, NUM, printed>>

Load(t) ==
  /\ Step(t, "load", "store")
  /\ reg' = [reg EXCEPT ![t] = NUM]
  /\ UNCHANGED <<joiner, i, holder, NUM, printed>>

Store(t) ==
  /\ Step(t, "store", "unlock")
  /\ NUM' = reg[t] + 1
  /\ UNCHANGED <<joiner, i, reg, holder, printed>>

\* Mutant of Unlock: the last round ends with the mutex locked.
UnlockNotLast(t) ==
  /\ Step(t, "unlock", "loop")
  /\ holder' = IF i[t] = N - 1 THEN t ELSE 0
  /\ i' = [i EXCEPT ![t] = i[t] + 1]
  /\ UNCHANGED <<joiner, reg, NUM, printed>>

Unlock(t) ==
  /\ Step(t, "unlock", "loop")
  /\ holder' = 0
  /\ i' = [i EXCEPT ![t] = i[t] + 1]
  /\ UNCHANGED <<joiner, reg, NUM, printed>>

Fun(t) == Leave(t) \/ Lock(t) \/ Load(t) \/ Store(t) \/ Unlock(t)

AddNext == Main \/ \E t \in Thread : Fun(t)

AddSpec == AddInit /\ [][AddNext]_addVars

\* The kernel runs every thread that can run. A thread that waits for the
\* mutex gets it in the end even if the other one keeps retaking it: the other
\* one has only N rounds, so weak fairness is enough.
AddFairSpec == AddSpec /\ WF_addVars(Main) /\ \A t \in Thread : WF_addVars(Fun(t))

-----------------------------------------------------------------------------
(* Properties                                                              *)

AddTypeOK ==
  /\ joiner \in {"create1", "create2", "join1", "join2", "print", "destroy", "exit"}
  /\ pc \in [Thread -> {"none", "loop", "load", "store", "unlock", "done"}]
  /\ i \in [Thread -> 0..N] /\ reg \in [Thread -> Int]
  /\ holder \in {0, 1, 2} /\ NUM \in Int /\ printed \in Int

\* How many additions of thread t are in NUM.
Added(t) == IF pc[t] = "unlock" THEN i[t] + 1 ELSE i[t]

\* No addition is lost, at any point of any interleaving (lines 12 and 24).
NoLostUpdate == NUM = Added(1) + Added(2)

\* What main prints at line 69, without the mutex, is the whole sum.
PrintsSum == printed # -1 => printed = 2 * N

\* Neither thread waits for the mutex forever, and main's joins return.
Terminates == <>(joiner = "exit")
=============================================================================
