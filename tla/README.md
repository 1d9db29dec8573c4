# Verification of Code-On-Linux

TLA+ models of the concurrent and distributed programs of this repository,
TLC runs that check them on small instances, and TLAPS proofs of what holds for
every value of the constants. `PROJECT.json` lists the runs, the mutants that
show each property can fail, the source lines behind every definition, the
hazards and the theorems.

    tlc -workers 2 -config MCSelect.cfg SelectSystem.tla     # one run
    tlapm ChatSystem_proofs.tla                              # one proof module

Paths below are relative to `src/01_Linux_System_Programming` (SYS) and
`src/02_Linux_Net_Programming` (NET).

## 1. The system

The repository is a collection of small C programs: system programming, then
network programming. They share no library; each program has its own processes
or threads, and the network programs come as a server and a client. The
demonstrations without shared state are listed in `PROJECT.json` and not
modelled. What is left is the inventory below.

### Threads

| component | state | operations | what is hard | what makes it correct |
|---|---|---|---|---|
| Semaphore lock-step (SYS 09_Day09/06_semaphore_sync_lock) | sem1, sem2, mutex, head, one heap node, the customer's tmp | malloc, link, take, free, waits and posts | the node is reused every round; `tmp` is read once, at a moment that depends on the scheduler | strict alternation; a one-slot buffer; only the late start can crash it |
| Mutex counter (02_mutex_plus) | NUM, mutex, two loops | lock, NUM++, unlock, join, print, destroy | NUM++ is a load and a store | the sum printed is 2N, the program ends |
| Condition-variable stack (04_cond) | mutex, condition, linked list, heap | push, signal, wait, pop, destroy | signal after unlock; `if` in place of `while`; destroy while in use | no lost wakeup, a stack, no node lost or used after free |
| Read-write lock (03_read_write_lock) | rwlock, head | 3 writers, 3 readers | no end, starvation | exclusion |
| Printers (SYS 08_Day08/03_printer, 09_Day09/05_semaphore) | thread ids, a file, a semaphore | create, join, fputc | overwritten thread id, uninitialised join | every thread is joined before the file is closed |
| Thread and signal demonstrations | none shared | one call each | nothing interleaves | - |

### Processes

| component | state | operations | what is hard | what makes it correct |
|---|---|---|---|---|
| FIFO messenger (SYS 06_Day06/99_Homework/04) and one-to-one TCP talk (NET 01_Day10/03) | two FIFOs or a socket, four processes that all hold them | mkfifo, open, fork, fgets, write, read | rendezvous of open, leftover names, copies of an end, SIGPIPE | the two programs can open; lines arrive in order; an end means that both processes of the peer have gone |
| ps-grep pipe (05_ps_aux_rep_bash), pipe demonstrations | pipe ends per process | fork, dup2, exec | an inherited write end keeps the reader waiting | the reader ends |
| mmap talk (06_mmap_procs_talk) | one shared page | strcpy, read | no synchronisation at all | a reader sees whole lines |
| linked list (SYS revision) | singly linked list | add, insert, delete, pop, search | positions at the borders | it behaves as a sequence |

### Network

| component | state | operations | what is hard | what makes it correct |
|---|---|---|---|---|
| TCP sockets (kernel) | streams, ends and who holds them, backlog, resets | connect, accept, read, write, close | an end is open while any process holds it | modelled as the environment |
| Forking echo server and chat room (NET 02_Day11/02, 99) | parent, handler, child per connection, inherited descriptors, errno | accept, fork, SIGCHLD, wait, read, relay | handler interleaved with accept, merged signals, inherited descriptors, SIGPIPE in the middle of a broadcast | no zombie forgotten, EINTR recognised, order per sender, every session ends with a cause |
| Forking client (same directories) | writer and reader process on one socket | type, quit, read, interrupt | the two processes hold the connection independently | see the server |
| Select server (NET 03_Day12/03) | fd_set `savefds`, `maxfd`, one buffer | select, accept, recv, send | `savefds` is not initialised, connections are never closed, `maxfd` moves inside the loop it bounds | no watched descriptor is missed, nothing blocks, each client gets its echo |
| Epoll server (NET 04_Day13/03) | events array, `ret`, a heap record per connection, the epoll set | epoll_wait, accept, recv, send | `ret` bounds the loop and is overwritten in it; records are read after free | the epoll set is sound; in-batch events are safe |
| Event-driven clients (same directories) | one process waiting for stdin and socket | type, receive, leave | - | see the servers |
| Thread-per-connection server (02_Day11/03) | one descriptor table, MAX slots, detached threads | accept, create, read, write, close | numbers are closed by threads and handed out again by accept; main closes a connection a thread serves, and leaves while threads run | no two running threads share a descriptor; a session ends on its client's account or main's |
| Web server (07_Day16/01_webserver) | epoll set, non-blocking sockets, request parser | get_line, response, directory listing, escaping | edge-triggered events, partial reads and sends, stale locals | no event is lost; nobody gets another client's answer; whole requests are answered and closed |
| libevent servers (06_Day15, 07_Day16) | bufferevents | callbacks | run inside a library | - |
| UDP echo, address conversion | none shared | one request, one answer | loss, for UDP | - |

### How they interact

Threads of one program interact through globals under pthread mutexes,
condition variables or semaphores. A forking server interacts with its children
through fork (inherited descriptors), SIGCHLD and wait, and with clients through
TCP alone. The event-driven servers have no concurrency inside: the interleaving
is between the server's single loop and its clients. The talking programs are two
forked pairs: parent and child of one side share nothing but the descriptors
both hold, and that is what decides when the other side sees an end.

## 2. Modules

| module | kind | stands for |
|---|---|---|
| `OneSlot` | abstract specification | a buffer for one value, put and take in turn |
| `SemSyncLock` | component, implements `OneSlot` | semaphore_sync_lock.c |
| `MutexAdd` | component | mutex_add.c |
| `Stack` | abstract specification | a stack of distinct items |
| `CondStack` | component, implements `Stack` | cond.c |
| `Tcp` | environment | TCP as the kernel provides it |
| `ForkClient` | component | client.c of the forking servers |
| `ForkServer` | component | both forking servers, selected by `Broadcast` |
| `ChatSystem`, `MCChat` | composition, its TLC instance | server, clients and sockets |
| `EventClient` | component | client.c of the select and of the epoll server |
| `SelectServer`, `SelectSystem` | component, composition | the select server |
| `EpollServer`, `EpollSystem`, `MCEpoll` | component, composition, its TLC instance | the epoll server |
| `PthreadServer`, `PthreadSystem`, `MCPthread` | component, composition with `ForkClient`, its TLC instance | the thread-per-connection server |
| `Talk` | component | the FIFO messenger, and server.c and client.c of 01_Day10/03_tcp_server |
| `WebServer`, `MCWeb` | component with its clients, its TLC instance | the web server |
| `Pub` | component and pure operators | pub.c: get_line, strdecode, strencode, hexit |
| `*_proofs` | theorems | about the modules they extend |

Conventions. A program counter is a variable named after the function or process
(`producer`, `parent`, `server`) whose values name the next step. An action is
what one thread or process does between two points at which another one can
matter: each system call is one action, and so is each access to unprotected
shared memory (`Load` and `Store` for `NUM++`, `PushNext` and `PushHead` for the
two stores of a push). What depends on memory nobody initialised (`savefds`, the
tail of `re`, the fields of a freed record) is chosen nondeterministically.
A definition whose comment begins with "Mutant" is not part of the model: it is
a wrong form of the definition after it, used to show that a property can fail.

### SemSyncLock

`CreateProducer`/`CreateCustomer` are main; `Producer` and `Customer` are the two
loops, one action per call. `sem1`, `sem2`, `mutex`, `head`, `tmp`, `new_node`
are the C variables. The node is the single one malloc'd at line 19; `mem` says
what has become of it, `data` and `next` are its fields, which `free` spoils.
main's two `pthread_join` never return, because the loops have no end.
Line 88 frees `tmp`, which the customer read before its loop (line 68): if it read
the node, a live node is freed, and then freed again, which glibc answers with an
abort or with silent reuse. Both are in the model.

### MutexAdd

`Thread` 1 and 2 are `fun1` and `fun2`, with the loop counter `i`, the register
`reg` between `Load` and `Store`, and the shared `NUM`. `holder` is the mutex.
`Create`, `Join`, `PrintNum` and `Destroy` are main, at `joiner`.

### CondStack

`Test` is the `if` of line 68 together with the unlock-and-sleep of
`pthread_cond_wait`; `Relock` its return; `PopRead` to `PopFree` lines 79 to 84.
`WakeUp` is a spurious wakeup and exists only with `Spurious`. `DestroyMutex`
and `DestroyCond` are main after the key press: as in glibc, a mutex that is held
or waited with cannot be destroyed, and locking a destroyed one fails.

### Tcp

`up[c]` and `down[c]` are the two directions of the connection of client c,
`cliEnd[c]` and `srvEnd[c]` the processes that hold each end, `reset[c]` whether a
write will fail, `backlog` the accept queue. A message is what one write put
there; a read takes any number of whole messages, up to what the reader's buffer
holds. A reader sees the end of a stream when it is empty and no process holds
the other end. A write towards an end that nobody holds resets the connection,
and so does closing an end with unread data. Nothing is lost inside an open
connection, and writes do not block.

### ForkServer, ForkClient, ChatSystem

`Accept`, `AcceptFails`, `CheckErrno`, `ForkChild` are the parent's loop;
`DeliverSignal`, `WaitChild`, `ReturnFromHandler` the SIGCHLD handler, which runs
instead of the parent (`handling`) and overwrites `errno`; `ChildReads`,
`ChildEnds`, `ChildWrites` the child, one action per read or write. `fd_list` is
the parent's table, `inherited[c]` the child's copy. `srvEnd` records every holder
of each connection, so that what the parent never closes stays open. In
`ForkClient` the writer and the reader are the two processes after the fork at
line 60; `Interrupt` is Ctrl-C, which both get. `MaxLines` bounds the lines of each
client. A write to a connection that was reset fails or raises SIGPIPE; a child
ends either way, and `cause` calls both SIGPIPE.

### EventClient, SelectServer, SelectSystem

Because the server never closes a connection, the k-th one has the number
`sockfd + k`, and `conns` is the table. `savefds` starts with arbitrary bits.
`Reported` is what select leaves in `readfds`: the ready descriptors, and in the
words that select does not rewrite, beyond `maxfd`, the old bits. `Recv` and
`Send` are the body of the for loop for the lowest remaining ready descriptor
(`NextReady`); the descriptors in between have no effect.

### EpollServer, EpollSystem

`re` is the events array across iterations, `ret` the variable that bounds the
loop, `count` a history variable with what epoll_wait returned. After `Accept`,
`ret` is 0; after `Send` it is the length of the line, up to one more than the
array. `reg` is the epoll set, `fdOf` the field fd of each heap record, `live`
the records not yet freed. `Leave` is the end of a connection: delete, free, and
close with the descriptor read from the freed record (`FreedFd`).

### PthreadServer, PthreadSystem

`fds` is the process's descriptor table, from number to connection; `NewFd` is the
kernel's rule that the lowest free number is handed out. `Accept`,
`AcceptFails`, `CreateThread`, `CloseListening`, `ClosePeer`, `Return` are main;
`Read`, `Write`, `Close` the thread of a slot. A slot is never used again, a
number is. The close of line 165 may happen while a thread waits in
`read`: the kernel then keeps the connection until that call returns (`held`,
`HeldRead`), or the thread was between two calls and gets EBADF. Both are in
`ClosePeer`. A `Write` on a connection that was reset has two outcomes: it fails,
and that thread alone goes on to its `Close` (lines 40 to 45), or it raises SIGPIPE.
`Return` and SIGPIPE end all threads. The clients are those of
`ForkClient`, whose program is the same.

### Talk

The two pairs of programs have the same shape and share a module; `kind` says
which pair runs. `Start` is a program up to its first call that can wait
(`accept`, `mkfifo`, `open`, and `Connect` for the client of the socket pair). `Rendezvous` is what the two blocking
open calls of a FIFO do together. `hold[s]` is who holds side s's descriptors,
`kernel` before the accept. `TypeLine`, `Leave`, `Read`, `ReadEnds` are the two
loops. The FIFO readers treat 0 as an empty line and read on (`spin`).
`fifos` starts with any leftover names: mkfifo then fails, and since nobody ever
removes them, no later start of fifo_messager can succeed.
part2 tests `fd1` again at line 26 after opening `fd2`: a failed second open would
go on with -1, but an open of an existing FIFO fails only by a signal, which
ends the program first, so no action stands for it.

### WebServer, Pub

`watched` is the epoll set, `edge` the connections with an event not yet
reported, `batch` what epoll_wait returned and the loop has not reached. `Wait` takes
edges out, the clients put them in, also while the server is busy, and so does the
reset that an answer draws from a client that has gone (`Reply`): on a connection left
open after a 404 that is one more call of http_request, with stale locals.
`Accept` has the four outcomes of lines 407 to 437, with the failed fcntl that
leaves the for loop (`broke`). `Call` is the call of http_request, `RequestLine`
its first get_line and sscanf, `HeaderLine` its loop, `Answer` everything up to
the close, `Close` the close.
`method` and `url` are locals that nobody initialises: `Call` leaves in them
what the last call left, or something else. A request is cut into four units
(`Units`), where a cut matters to get_line: inside the request line, before its
LF, before the other headers.
`Pub` is get_line one recv at a time, while characters arrive: `GetLine` is its call,
`Recv`, `Peek`, `Eat` and `Store` a round of its loop, `Return` its return. `late` is a history
variable: the CRs behind which nothing had arrived when they were read.
`strdecode` works on memory with both pointers in it, as http_request calls it in place;
`Decoding` is the memory and the pointers after each round of its loop, `Encoding`
what strencode has written after each character.
`WebServer` does not use `Pub`; `LineUnits` is get_line on units, and the two
agree on a CR whose LF is late.

## 3. Runs

| run | instance | checks |
|---|---|---|
| `sem_sync` | two values | `OneToken`: exactly one of "free", "full", "producer's turn", "customer's turn"; `CrashHasCause`: the customer never meets an empty list, and without the stale pointer only a failed malloc kills; `BufferSpec`: it implements `OneSlot`; `Consumed`: each value produced is taken |
| `mutex_add` | N = 3 | `NoLostUpdate` in every state, `PrintsSum`, `Terminates` |
| `cond_stack` | three nodes, spurious wakeups | `NoLostWakeup`; `HeapAccounted`: no leak, no use after free, no node listed twice; `DestroyedQuiet`; `StackSpec`: it implements `Stack`; `Woken` |
| `cond_stack_if` | two nodes, no spurious wakeups | expected violation of `WaitedForNode`, see section 6 |
| `chat` | 2 clients, 2 lines each, buffers of 2, symmetry | `OrderPerSender`; `EndsWithCause`; `NoEofWhileListening`: no reader can find the end of its stream while the server listens, whether its writer is there or has left |
| `echo` | 2 clients, 1 line each | `ZombieSignalled`; `EintrSurvives`; `Reaped`, `AcceptedInTheEnd`, `Relayed` under fairness |
| `select` | 2 clients, 2 lines each, words of 5 bits | `Watched`: every watched descriptor is below maxfd; `BlockedOnlyByGarbage`; `OwnEcho`; `Answered` under fairness |
| `epoll` | 3 clients, 1 line each, 2 records, array of 2, symmetry | `RegisteredLive`; `InBatchSafe`; `OwnEcho` |
| `pthread` | MAX = 2, 2 clients, one with 2 lines and one with 1, buffers of 1 | `ServesOwn`: no two running threads share a descriptor, and each has its own client's until main closes it; `EndsWithCause`: a session ends on its client's account or main's, and SIGPIPE needs a thread writing to a client that is gone; `Answered` under fairness |
| `talk` | both pairs, 3 lines each, buffers of 2 | `InOrder`; `EndHasCause`: an end or SIGPIPE only when both processes of the peer have gone; `Met`: the open calls find each other, `HangUp`: a departure is noticed, both under fairness |
| `web` | one client asks for a directory, one for a missing file, each in up to 2 pieces | `NoLostEdge`; `OwnAnswer`; `OpenOnly404`; `Served` under fairness |
| `pub` | all texts of up to 4 of 6 characters, lines of up to 2 | `LinesFaithful`: every arrival gives the stream with its line ends unified; `RoundTrip`: strdecode undoes strencode, for every `tosize` |

Why the bounds are enough. Two clients give every pair of roles: sender and
recipient, earlier and later connection, one that leaves and one that stays, and
reuse of a descriptor or of a heap record after a departure. Two lines are what
order can be wrong about, and with a buffer of two they can be cut into reads in
every way. In `select`, words of 5 bits put the first connection (descriptor 4)
in the word of the listening socket and the second (descriptor 5) in the next
one, so both cases of `Rewritten` occur; the state in which the server is
blocked by garbage is reached. In `epoll`, two connections and the listening
socket can be ready and two entries fit, so the limit of epoll_wait, stale
entries and an index past the array all occur; with two records for three
clients, records are reused and malloc can fail. One line per client is enough
for what these properties compare (a larger run with two lines each, 5.6 million
states, finds nothing else). Three nodes make the stack deep enough for a push over a node
that is being popped. N = 3 gives two threads several rounds each.
In `pthread`, MAX = 2 and two clients reach both ends of main, after the last slot and
after a failed accept; a client can leave before the second is accepted, so a
number is reused, and the second connection is the one that main closes while its
thread reads, is between calls, or has closed it already. The first answer to a client
that left draws the reset, and only a second write meets it: two lines of one
client reach the write that fails and the SIGPIPE that ends the process, two lines of
both add states and no new case. In `talk`, three
lines and a buffer of two let a read take part of what is there, with a line
written in between. In `web`, the directory is an answer that closes and the
missing file one that does not, so every branch of `Answer` but "special" is taken with the
client's own url; "other" methods, "special" and "file" come from request lines
that were cut, which leave anything behind. Two pieces per client put one cut
at each of the three places, and two clients interleave there. In `pub`, the six
characters are one of each class the functions tell apart (LF, CR, `%`, a digit, a
plain letter, a byte above 127), and four of them hold an escape with a character behind
it, or CR LF CR LF; lines of up to two characters are cut by `size`.
Symmetry is used only in runs without liveness.
Type invariants are no properties of runs; the `TypeOK` of the chat room, of
the web server and of `Talk` is part of what is proved.
Deadlock checking is off: every program here can end, and a client that has
typed all its lines may stay connected for good.

## 4. Fairness

Weak fairness of a thread or process that can run: the kernel schedules it.
`CondStack` alone has strong fairness, of the customer taking the mutex: the
producer sleeps at least a second per round without it (line 20), so the mutex
is free again and again while the customer waits. In `MutexAdd` weak fairness
is enough, because the loops are finite. No fairness is assumed of people:
typing, Ctrl-C, the key that ends `CondStack`, connecting, or of spurious
wakeups and failures. In `PthreadSystem` main, every thread and every client's
reader are scheduled. In `Talk` the set-up calls that can return do (`MkFifo`,
`Rendezvous`, `Fork`), and the readers run; nobody has to start a program.
The web server has one process, so weak fairness of its step is enough: it runs
whenever epoll_wait has something to report. `AcceptedInTheEnd` states what the forking server
provides: while any session lasts, its parent may sit in the handler, which
waits until it has no child left (line 19), and accepts nobody.

## 5. Proofs

All proofs are checked for arbitrary constants; the only assumptions are the
named ASSUMEs of the modules, which TLC evaluates too.

* `Mutex_proofs`, about `SemSyncLock` (for every set of values): `IInv` adds to the types and
  `OneToken`: `LockHeld` (who holds the mutex where), `ListFull` (the list is full
  exactly from link to take), `NoSelfLoop`, `Provenance` (a full list, or a
  stale tmp, is the producer's node; freed memory has a stale tmp behind it)
  and `Fresh` (who has not started). `OneToken` is not inductive by itself for the crash and the
  self-loop: they need to know what the list holds when a semaphore is 1.
  `Refinement` then maps every step to a step of `OneSlot` or to a stutter.
  About `MutexAdd` (for every N with 2N an int; N is 1000000 in the code): `AddInv`
  says that a register loaded under the lock is fresh, that the lock
  is held exactly in the critical section, and which threads are joined.
* `CondStack_proofs` (any finite heap, spurious wakeups or not; a heap that
  malloc can exhaust is finite). `LockHeld`, `Created`
  and `HasNode`; `NoLostWakeup` and `DestroyedQuiet` follow. `KilledOnlyAfterWait`
  says where the one null dereference can be. `HeapAccounted` and `StackSpec` speak
  of the list that `NodeAt` follows from head; the invariant, `ListInv`, names
  that list instead: a sequence of distinct nodes that is `Linked` from head
  along next and `Placed` in the heap beside the node in each hand. A
  step leaves the sequence, takes its head off or puts a fresh node in front
  (`ListStep`; this is where the lock matters: while one thread is between reading
  and writing head, the other changes nothing, so `temp` is still the top and
  the new node still points to it). `ContentsIs` shows that such a sequence is
  `Contents`; `StackRefinement` follows step by step, line 36 being `Push`
  and line 82 `Pop`.
* `ChatSystem_proofs` (any number of clients, both servers). `TypeCorrect` needs
  `ForkHasFd` (before a fork there is a connection). `ZombieSignalled` and
  `EintrSurvives` need `QuietCheck` and `Adopted`, about what errno can be
  when the handler has run and who reaps when the parent has gone.
  `NoEofWhileListening` and `EndsWithCause` are about who holds an end, and hold
  because of `HeldInv`: the parent keeps each connection it accepted, once, so that
  whoever is connected while the server listens has somebody at the other end (`Kept`), a connection that waits is served by nobody (`Waiting`), a child
  holds all it inherited, its own client among it (`Shared`), and a reset reaches a
  connection the server holds only from a client that left (`Resets`).
  `OrderPerSender` needs to know where every line is (`LinesInv`): of client c, a
  lines have gone to all recipients, the next are in the child's chunk and the last in
  the stream towards it, without a gap (`InLine`); and what recipient d has is the
  lines up to a, or up to the end of the chunk once the broadcast has passed d
  (`RelayedTo`, with the position `j` of the loop). Lines of different senders
  interleave in d's stream, so order is stated per sender (`Upto`).
* `SelectSystem_proofs` (any number of clients, any word size, any initial bits).
  `Watched` is inductive once the table is known to be a sequence of clients and
  maxfd a number; `AcceptFindsOne` says that accept is called with a connection
  waiting. `BlockedOnlyByGarbage` needs what select reported to stay true while the
  loop runs (`Reports`): each descriptor ahead of the loop can be read, or is the
  one accepted in this round with a bit that was there before it (`Unset`: such a
  bit is garbage). It needs `Bounds` (the loop reaches accepted connections only)
  and `OneConnection` (receiving for one descriptor cannot empty another). The
  descriptor served next is the least one reported, which exists because `<` is
  well-founded (`Least`). `OwnEcho` has the invariant `SInv`: what a client
  printed, what is on its way back, what the server has in hand and what is on its
  way to it are, one behind the other, the lines it typed (`InLine`); after a
  reset only the first two count.
* `EpollSystem_proofs` (any clients, records, array size, and any value of a freed
  field). `RegisteredLive` with `SendsForRecord`, that the entry being answered is
  a record. The argument: a live record is registered with its own fd only, so
  removing that fd from the set removes the record before the free can matter.
  `InBatchSafe` needs `Batch`: every entry still ahead in what epoll_wait wrote is
  the listener with a client waiting, or a live, registered, readable record, and
  the entries are distinct, so that handling one leaves the others as they were. By
  `OneConnection` a client has one connection at most: receiving for one entry
  cannot empty another. `OwnEcho` has the same `InLine` as the select server, with
  `SendsToClient` (the line in hand came through a record whose fd is a
  connection): a stale entry may serve the wrong client, but it receives and sends
  through the same record. All three assume that no client is named "stdin" or "unused".
* `PthreadSystem_proofs` (any clients, any MAX, lines and buffer). `ServesOwn` relates two
  running threads; what is inductive is the whole descriptor table. `SlotsInv` is how far
  main has got with its slots; by `Table` a descriptor is open for exactly one slot in
  use, and a slot in use has its connection until main's close of line 165 takes the
  last one away; by `Once` a client connects once, so the slots' addresses differ;
  by `Holds` the process holds no connection but those of its slots, a `read()` in
  progress among them; `Resets` says who can have reset one. The accept that
  reuses a closed number is the step where all of them are needed: while main
  accepts, fewer slots are in use than there are numbers (`SomeFree`, by counting),
  the lowest free one exists, and no running thread has it (`NewFdFree`).
  `EndsWithCause` rests on the same table: a thread whose descriptor still has its own
  client can only have read `quit`, or the end of a client that left, or written to
  one.
* `WebServer_proofs` (any number of clients, any requests, any number of pieces).
  `NoLostEdge` speaks of the moment the server sleeps; what is inductive is
  `EdgeFor`: a watched connection with unread data has an edge, is in the batch, or
  is the one http_request is reading. `OwnAnswer` needs the whole history of a
  request (`History`: where the units are that a client sent) and `Stages`: a client
  whose GET line came in one piece has it unread, is being handled with its own
  method and url in the locals, has been told, or was reset. The step from the
  first to the second is `RequestLine`, and it holds because a complete line
  assigns both locals, whatever was left in them. `OpenOnly404` adds `Ends` (the
  server's end exists exactly from accept to close; whoever is in the backlog is
  there once and has not been answered, so an accept opens a connection with
  nothing in it) and `Only404`, which excepts the moment before a close.
  About `Pub` (any text, any size of get_line's buffer): `LinesFaithful` speaks of the
  calls that have returned; `LineInv` adds the line that is being read (`Content`: what
  was returned and the characters in the buffer are what was taken, unified; `Growing`:
  the line fits, and only its last character can be a '\n') and `Pairs`: a CR
  whose LF is still to come is being peeked at or eaten, or is late. `RoundTrip` is no
  matter of reachable states: `OneRoundTrip` proves it for every string and size.
  `Written` finds the m characters for which there was room, and `RoundBack` shows
  that each round of strdecode gives one of them back, from memory that it has not
  overwritten because it writes no further than it reads (`Decodings`).
* `Talk_proofs` (any number of lines, any buffer, both pairs of programs). `EndHasCause`
  follows from three parts: where the two processes of a side can be (`Places`),
  that a side is held by exactly its processes that have not gone once it is connected
  (`Connected`), and that a reset has a departed side behind it
  (`ResetHasCause`). `InOrder` has its own part, `InStep`, about what was typed,
  is in the stream and was printed.

The prover cannot take an induction principle over an arbitrary predicate, but a
least counterexample serves for natural numbers: `Least` in `CondStack_proofs`,
`SelectSystem_proofs` and `PthreadSystem_proofs` is proved from the well-foundedness
of `<`, and so is induction with a set in place of the predicate (`Induct` in
`WebServer_proofs`), from which the existence of a function that is computed one
argument after the other follows (`Recursion`). `ChainIs` uses the former to compute
the recursive function `NodeAt`, `UnifiedIs` and its like the latter.

Only model-checked: all liveness (`Consumed`, `Terminates`, `Woken`, `Reaped`,
`AcceptedInTheEnd`, `Relayed`, `Answered`, `Met`, `HangUp`, `Served`), since fairness and ENABLED are out of
the prover's reach. Every safety property of a passing run is also a theorem.

## 6. Finding

`cond.c:68` tests `if(NULL == head)` and line 79 dereferences `head->data` as
soon as `pthread_cond_wait` returns. The message of line 70 says the customer waits
"for the producer to make...". The signal of line 47 comes after the unlock of
line 40. The run `cond_stack_if` has no spurious wakeups at all and shows the
customer popping the node before the late signal is sent, waiting on the empty
list, and being woken by that signal with head NULL. Theorem
`KilledOnlyAfterWaitAlways` shows that this is the only way to the null pointer.

Other things the models contain, which no document of the repository denies:
the customer of semaphore_sync_lock.c may free the live node; an echo or a chat
server in its handler accepts nobody; a departed recipient kills the sender's
child, a departed client kills the select and the epoll server by SIGPIPE; the
epoll server can block on, or crash through, an entry an earlier batch left;
the threaded server ends after MAX connections with everyone it serves, and by
SIGPIPE for a client that is gone; two
talkers whose writers have both left wait for each other; a request for a
missing file, or not a GET, is never closed, although the header of a
404 says `Connection: close` (server.c:53); and a failed fcntl loses the events of its batch.

`pub.c:55-56` says a line may end in newline, CR or CRLF. `OneLineEnd` states exactly
how far that is true: a CRLF is one line end unless the LF had not arrived when the
CR was read (`late`), in which case lines 82 to 87 make it two. The server
survives it, because an empty line does not end the headers.

## 7. Limits

Not modelled anywhere: signals sent to the servers from outside, more descriptors
than a table or fd_set holds, a send that blocks on a full socket buffer, memory
written past an array. `Tcp` has no network failure: a connection ends only
through its processes. Messages are whole lines; a read that cuts a line in two
differs from one that cuts between lines only in how the text is printed.

`WebServer` keeps which answer a client gets, not how much of it: a send that takes a
part, or none, only shortens it. The suffix table of get_mime_type, the names
in a directory, and the second decoding of a url that an earlier call left decoded
are not modelled (that url is arbitrary in the model). `Pub` has no NUL inside a
stream, which would end a string early. `Talk` starts each program once, and
a FIFO is never full.

Some hazards in `PROJECT.json` have no property, because what one would say is false of
the code and no text of the repository says it: the junk that follows a full buffer in
the echo and chat servers is relayed, a departed client ends the select server, a 404
and a request that is not a GET leave the connection open, a failed fcntl drops
events, a send may take part of a block, and two talkers whose writers have left wait
for each other. The properties around them name these cases as exceptions (`OrderPerSender`,
`Answered`, `Served`, `NoLostEdge`) or allow them (`EndHasCause`).

Not modelled, and why:

* `02_Day11/01_tcp_thread/server.c`: line 107 stores pthread_create's result, 0, in
  `tid`, and line 113 detaches thread 0, which crashes: the program ends with
  its first connection, and there is no behaviour to check.
* the earlier copies of the web server and pub.c: near-copies of what is modelled.
* the libevent servers: their loop and buffers are a library outside the repository.
* read-write lock, printers, mmap talk, ps-grep, linked list: candidates below.
* everything else is one process without shared state, a library call, or file I/O.

## 8. Plan

Done: the modules of section 2, in that order. To come:

1. `LinkList` against a sequence, as recursive functions so that it can be proved about.
2. The ps-grep pipe and the mmap talk: inherited ends, a page without synchronisation.
3. `Printer`: joins and the closed file.
4. An echo service as an abstract specification that the select, epoll, forking
   and threaded servers implement.
