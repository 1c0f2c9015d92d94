# Programiranje za UNIX: models, checks and proofs

The repository is a university course on UNIX system programming: eight
chapters with some sixty small C programs. What
makes them worth a formal model is what the course teaches with them: threads
that sleep on condition variables, a server that forks a child per connection
and is stopped by a signal, counters and queues in the kernel that outlive the
processes which use them, pipes that end only when the last descriptor is closed.
Those are the programs where a run that looks right proves little, and they are
what is modelled.

Every definition is translated from the C files under `src/`; `PROJECT.json`
(`map`) names the lines each one stands for. The kernel calls (`accept`,
`sem_wait`, `pthread_cond_wait`, signal delivery, ...) are modelled as the
programs use them.

## 1. Inventory

| part | state it keeps | operations | why it is hard |
|---|---|---|---|
| **Bounded buffer**: `P08/nit_cond.c`, `nit_cond2.c` | circular array, two indices, a counter, a mutex, two condition variables | put, take, wait, signal/broadcast, create, join | a wake-up given too early, to the wrong thread or to nobody; three writes that belong together |
| **Forking TCP server**: `P09/tcp_server_fork.c`, with `tcp_klijent.c` and `nc` as clients | listening socket and backlog, copies of `fd_klijent` in parent and child, `zaustavi`, children and zombies, pending signals | accept, fork, close, serve, `kill(getppid())`, two signal handlers | signals that merge, arrive between test and call, or interrupt the child as well; failing fork; clients that vanish; messages merged by TCP |
| **Counter in shared memory**: `P07/shm_brojac_sem.c` | memory and semaphore behind fixed names that outlive the process | open, reset, `sem_wait`/`sem_post`, fork, wait, unlink | processes killed inside the critical section, names left behind, two runs at once |
| Other counters: `P07/shm_brojac.c`, `P08/broji.c`, `broji2.c` | one integer; a mutex in `broji2.c` | increment in two or three instructions, join, print | lost updates: how small can the result get |
| Sequential servers: `P09/tcp_server.c`, `uds_server.c` with `uds_klijent.c` | one connection at a time; the socket's path in the file system | accept, echo, end on KRAJ, unlink of the path | a silent client blocks all others; two servers share one path |
| UDP: `udp_server.c`, `udp_klijent.c` | none between datagrams | receive, answer | lost, doubled and reordered datagrams, no timeout |
| Message queues: `P07/mq_posalji.c`, `mq_primi.c`, `sysv_msg_*.c` | bounded queue with priorities; a queue with types | send, receive, unlink | sender blocks at ten messages; the name is removed under other users |
| Pipes, FIFOs, redirection: `P07/cijev.c`, `prebroji.c`, `fifo*.c`, `P03/dup*_redirect.c`, `P05/preusmjeri.c` | descriptor tables, open ends of a pipe | pipe, fork, dup, dup2, close, exec | a write end left open means no end of file; dup gives the lowest free number |
| Shared memory without synchronisation: `P07/shm_pisi.c`, `shm_citaj.c` | one page | write, read, unlink | reader before writer |
| Signals: `P06/*` | flags and counters set by handlers, masks, alarms | pause, kill, alarm, sigprocmask, wait in a handler | test and pause are two steps; signals merge |
| Processes: `P05/noparent.c`, `nproc.c`, `pokreni2.c`, `ret_stat.c` | process tree, exit status | fork, exec, wait, exit | orphans, who waits for whom |
| Thread life cycles: `P08/pozdrav*.c`, `nit_detached.c`, `nit_signal.c`, `argumenti*.c`, `kvadrat*.c` | threads, arguments on a stack or heap, results | create, join, detach, cancel, `pthread_exit`, `sigwait` | main returns first; arguments overwritten; address of a dead local variable |
| Wrappers around exec: `P05/limitraj.c`, `pokreni.c` | limits that exec keeps | setrlimit, exec | no interleaving; time |
| Byte copying: `P03/io_copy.c`, `f_cat.c`, `f_write.c`, `read_file.c`, `f_strip.c`, `f_hole.c` | buffer and file position | read, write, lseek | short reads and writes |
| Array helpers: `P02/nizfn.c`, `niz.c` | an array | minimum, maximum, search, sort | edges of the array |
| File attribute tools `P04`, shell scripts `P01`, first programs `P02`, book builder, slides | none | library calls and printing | nothing that interleaves |

How they interact. The threads of the buffer share memory under one mutex. The
forking server and its children share a listening socket and copies of each
connection, and talk by signals: SIGCHLD from child to parent when it ends,
SIGTERM from child to parent when its client wrote KRAJ, SIGINT from the terminal
to all of them. Parent and child of the counter share memory and semaphore, and
successive runs meet through the names of these objects. The senders and receivers
of chapter 7 and the servers and clients of chapter 9 meet through a name or an address
only, so that what one of them removes (`unlink`, `mq_unlink`) another one misses. The
filters of chapter 3 work together in a pipeline the shell sets up. Otherwise programs of
different rows do not call each other.

What makes each of them correct:

- buffer: one thread at a time in the critical section; items leave in the
  order they came, once; nobody sleeps while there is work; the program ends;
- forking server: every zombie is collected; no copy of a connection outlives
  its use; clients get their own messages back in order; an order to stop is never lost and is
  acted on; nobody is dropped without a reason;
- counter under a semaphore: exact result for every interleaving, and a clear
  account of what a killed process leaves behind;
- other counters: exact with the mutex, between 2 and N*k without it;
- sequential servers and UDP: each answer belongs to a question; a path
  belongs to the server that bound it;
- queues: no message is lost or overtaken within its priority;
- pipes: the reader sees the end of the data; output goes where it was sent;
- signal programs: a signal that was counted is acted on;
- thread life cycles: what a thread reads still exists.

`PROJECT.json` (`hazards`) lists each point at its line, with the property that
guards it, or the reason why none does. Some of what the code can do is no violation of any property
because the code, or the text beside it, leaves it open: Ctrl+C ends the conversations of
`tcp_server_fork.c`, two UNIX servers take the path from each other, a silent client holds a
server, a client waits for ever for a lost datagram, a FIFO loses what its reader has not
fetched. The properties then say how far the effect reaches, and the entry of the hazard says so.

## 2. Modules

| module | what it is |
|---|---|
| `FifoChannel` | abstract: a FIFO channel of bounded capacity, no locks |
| `BoundedBuffer` | `nit_cond.c` and `nit_cond2.c`; refines `FifoChannel` |
| `BoundedBufferProofs` | its invariants and the refinement of the channel, proved |
| `EchoService` | abstract: clients that come, talk, hear their messages again and leave or are dismissed |
| `TcpServerFork` | `tcp_server_fork.c`, its clients, signals; refines `EchoService` |
| `TcpServerForkProofs` | proofs of its safety properties: signals and descriptors; what a client can rely on, and the refinement of the service |
| `ShmBrojac` | `shm_brojac_sem.c` over several runs and kills |
| `ShmBrojacProofs` | type correctness, mutual exclusion and the exact result, proved |
| `Broji` | `broji.c`, `broji2.c`; `shm_brojac.c` as the unlocked case with two threads |
| `BrojiProofs` | bounds of the result, and its exactness under the mutex, proved |
| `Signali` | `potvrdi`, `potvrdi2`, `alarm_clock`, `stoperica`, `stoperica2`, `razgovor` |
| `SignaliProofs` | type correctness, the count of alarms and the lines printed, proved |
| `EchoServer` | `tcp_server.c`, `uds_server.c`, `udp_server.c` and their clients, with crashes, restarts and lost datagrams |
| `EchoServerProofs` | its four safety properties, proved |
| `Programi` | the small programs of chapters 3 and 5 to 8, each as the sequence of calls it makes |
| `Jezgra` | what these calls do, and all interleavings of the programs of a scene |
| `JezgraProofs` | type correctness for every scene, zombies in the handler, answers to SIGINT, proved |
| `JezgraScenes` | for which scenes nothing is lost: senders and receivers, pipelines |
| `JezgraFlows` | no message and no text is lost, proved for all such scenes |
| `MC*` | constants for the runs; in `MCJezgra` the scenes |

Definitions marked "Mutated form" are not part of any specification. Each is a
plausible slip in the code (an `if` for a `while`, a missing `close`) and
stands before the definition it is a variant of; putting it in its place must
break the property named for it in `PROJECT.json` (`mutants`).

### 2.1 BoundedBuffer

One module serves both programs: `nit_cond.c` is Producers = {p1},
Consumers = {c1}, Wakeup = "signal"; `nit_cond2.c` has several of each and
"broadcast". A thread's control point `pc[t]` is the statement it runs next,
and every access to shared memory is a step of its own: storing the item,
moving the index, changing the counter, waking. `pthread_cond_wait` is two
steps with sleep in between: `Wait` releases the mutex and falls asleep
atomically (POSIX guarantees this one), `Reacquire` returns only after it has
won the mutex against all others. `SpuriousWakeup` wakes a thread nobody
signalled. `Create`, `JoinProducers`, `JoinConsumers` are `main`.
`put` and `taken` record the lines the threads print, in order; in the code
the `printf` is inside the critical section, so the order of lines is the order
of operations.

The random `usleep` between rounds touches no shared state and is the time a
thread spends at "lock". An item `id * 100 + i` is the pair `<<id, i>>`; the two
agree as long as `i < 100`, which both programs respect. Calls to
`pthread_create` are not checked in the code, and their failure is not modelled.

`FifoChannel` states the promise without any mechanism: `Put` appends, `Take`
removes the head. The mapping takes the `buff_items` slots from the oldest on;
a consumer that has moved `cit_idx` but not yet counted still owns the slot
behind it, which is the one subtle point (`Oldest`).

### 2.2 TcpServerFork

The server process is a control point with two interrupt levels: `reaping` says
that `rukovatelj_sigchld` is on the stack, and a stop signal may be handled on
top of it. A signal is *pending* until its handler runs, and a second one of the
same kind merges with it. `blocked` is a server asleep in `accept`; a stop
signal wakes it with EINTR only there and only if it is not inside the SIGCHLD
handler, whose `SA_RESTART` has `accept` called again. Each accepted connection
has a set `holders` of processes with an open copy of the descriptor, because
the client sees the end of the connection only when both copies are closed. A
child runs `posluzi_klijenta` and ends as a zombie, or is reaped by init when
the server has left.

A client opens one connection and writes the messages of its `Script`, then
closes; it can be refused, killed by its user (`Abort`), or find the connection
cut. TCP keeps no boundaries, so `Read` takes any non-empty run of what has
arrived. A write to a client that is gone is lost, and the next one may raise
SIGPIPE (`BrokenPipe`).

`EchoService` is what remains of this for somebody who talks to the server: a
client's `phase` (away, talks, left by itself, cut by the server), how many messages
it has `said`, what it has `heard`. It has no processes, signals, backlog or
buffers. Its `Cut` lists the reasons for which a conversation may be ended: the
client's own KRAJ was answered, Ctrl+C was pressed, or the client has not been
answered yet and `fork` failed for it or somebody has said KRAJ. The refinement maps
the state of a client to its phase (`Phase`); nearly everything the server does
between a read and a send is a stutter.

Left out: failure of `socket`, `bind` and `listen` at start-up; a SIGINT before
the handlers are installed (it simply kills the program); errors of `accept`
other than EINTR are one action, `AcceptFails`, because the code treats them
alike; a message split over two reads and one longer than the buffer (a message
is the unit of the model); the text of the answers.

### 2.3 ShmBrojac

A process is `<<run, role>>`. The kernel's objects are separate from their names,
so that an unlinked object stays usable by those who have it open, and a name
left behind is found by the next run. The increment is a load and a store.
`Kill` ends any process at any point; the kernel returns neither semaphore nor
names. `Overlap` says whether a second run may start while one is alive. The
failure of `shm_open`, `mmap`, `sem_open` and `fork`, which the program does not check,
is not modelled.

### 2.4 Broji

`count++` is a load into a register and a store of the value plus one, as the
unoptimised build of the Makefile compiles it. `locked`, chosen in `Init`, says which
program runs. `k[t]`, the loop counter, moves with the store; it is local to
the thread, so nobody can see the difference. The `sqrt` loop touches nothing
shared and is the time a thread spends before its next step. In `shm_brojac.c` the two
threads are the parent and its child, and `Join` is `wait`; what its name in the
file system does between runs is the same as in `ShmBrojac`.

### 2.5 Signali

All these programs wait in `while (condition) { pause(); ... }`. One module
holds them; `program`, chosen in `Init`, selects the handlers, the condition and
the line printed. `potvrdi2` and `stoperica2` differ from their originals in how a
handler is installed or shared, not in what happens. Handlers are installed one
after the other, and a signal that comes before its handler ends the process. A handler is
one step: each handler writes variables no other handler writes, and its own signal is
blocked while it runs. `Pause` is a step of its own after `Test`: that
gap is what the properties are about. Seconds are not counted, so an alarm may
go off before its program has reached `pause`.

### 2.6 EchoServer

The three servers that handle one conversation at a time differ in where the
address lives and what a socket keeps together, so they are one module, and
`transport`, chosen in `Init`, says which of them runs. A control point of `server[s]`
is the call the server makes next (`unlink`, `bind`, `listen`, `accept` or
`recvfrom`, `read`, `write`, `close`, the last `close` and `unlink`). Several
servers of the same kind may run, one after the other or at once, and each may be
killed at any point; a killed TCP or UDP server frees its port, a killed UNIX
server leaves its path behind (`Gives`). `Unlink` and `Tidy` remove the path
whosever it is, as the code does.

A message is a sequence of pieces. `Portion` is the one place where the
transports differ in what a read returns: TCP delivers any non-empty beginning, the other
two the whole message. `KRAJ` is two pieces long, so that TCP can cut it in
two and the server takes the first half for an ordinary message, as
`strncmp` on a short read does. The answer to KRAJ is
`Goodbye`. A client whose argument is empty, or `nc` without input, has an empty
message and keeps its server in `read`.

A client is `connect`, one write, one read, end. It can be refused, cut off when
its server dies or `accept` fails, or be killed; a datagram can be lost or delivered
twice; `udp_klijent.c` has no timeout and can wait for ever. A UNIX server that writes
to a client that is gone dies of SIGPIPE; a TCP server's write is lost.

`alone` is history: the servers that have never been alive together with another
one, the only ones for which the two unlinks of `uds_server.c` keep what the chapter
says of them.

Left out: failures of `socket`, `listen` and `setsockopt`, which end the program before anybody can
connect; errors of `accept` other than an aborted connection, which the code treats
alike; messages longer than the buffer; the text of the answers.

### 2.7 Programi and Jezgra

The other programs of chapters 3 and 5 to 8 are short sequences of system calls,
and what can go wrong in them lies between the calls of several processes.
`Programi` holds their code: an operator per program, named after it, that
gives a sequence of calls; a call is a tuple of its name and its operands,
written with operators named like the C functions (`pipe`, `dup2`, `fork`, `mq_send` as
`send`). A loop over `read` is one call `while` that puts its body back in front of
itself; `fork` has the code of the child, of the parent, and of the case that it
fails.

`Jezgra` is an interpreter of these calls. Outside `src/` are the kernel and the
thread library, so its definitions are marked external in `map`, except where they
also say what a program does when a call fails. Its state is a process table
(`proc`: code left, descriptors, variables, handlers, masks, parent or main thread), the
kernel's objects in order of creation (files, pipes, FIFOs, queues, shared
memory), and the names they are found by. Each call is one action; a thread is a
process that shares its end with its main. A signal waits in `pending` until
the process is about to make its next call, and waits longer if it is masked. The calls
whose result the program tests may fail: those of `Tested`, a `write` and a `dup2` that are
strict, `fork` and `pthread_create` (`CallFails`, `ForkFails`, `CreateFails`); `Failure` is
the status a program then ends with, which for a file that `f_cat.c` cannot open is 0. Errors
of `read`, `sigaction`, `sigprocmask` and `pthread_join` are not modelled. Any process may be
sent SIGINT (`Interrupt`), which ends the ones that have not seen to it.

A value that a program takes and prints later is taken in a step of its own: `noparent.c`
calls `getppid` before `printf` writes the line, so the line of a child may name a parent
that has ended in between, and come after the lines of everybody else (`Family`).
`shm_pisi.c` and `shm_citaj.c` use the memory through what `mmap` returned.

A *scene* starts one program, or the programs that work together, with their inputs,
and most of the redirection and pipe programs with every subset of the standard
descriptors closed. The scenes of the run `jezgra`:

- redirection: `dup_redirect`, `dup2_redirect`, `preusmjeri`;
- pipes: `cijev`, `prebroji` with the `ls` and `wc` it starts;
- the pipeline `read_file | io_copy | f_cat | f_write`, and `f_cat` with a file;
- two writers and one reader of a FIFO (`fifoposalji`, `fifoprimi`);
- two senders and two receivers of a POSIX and of a System V queue;
- `shm_pisi` and `shm_citaj`, one after the other and at once;
- `pokreni2`, `ret_stat`, `nproc`, `noparent`, `nozombie`, `maska`, `maska2`;
- threads: `pozdrav1..3`, `argumenti`, `argumenti2`, `kvadrat`, `kvadrat2`,
  `nit_detached`, `nit_signal`.

A scene also names the set `calls` its programs consist of, the calls inside loops,
forks and handlers included. `Wellmade` says of that set what a C program gives by
its types: a buffer size is a number, a handler is for SIGINT or SIGCHLD, a file is opened
to read or to write; and that no program both forks and makes threads, which
none does. TLC checks it of every scene of the run (`ScenesAssumption`),
and the proofs use nothing else about scenes.

`NothingLost` has two halves. `TextsFlow` follows a text along the *route* of its scene, the
places it can be at from the last object back to the first (screen, buffer of `f_cat`, pipe,
..., file): each item is at one place at most, the items come in their order, and all are
there unless the route has a FIFO whose reader has left. `MessagesKept` says the same of
messages, which are counted and not ordered: in the queue, in the buffer of a receiver or on
the screen, once in all three together.

`Delivered` compares what is on the screen, and in `izlaz.txt`, with the `results` of the scene
when all have ended undisturbed. Where `wait`, a join or the end of a pipe settles the output, these
are what the chapter shows. Where only a `sleep` does or nothing at all
(`noparent.c`, `pozdrav1.c`, `shm_citaj.c` started beside `shm_pisi.c`), they are every output the
order of the calls leaves possible, SIGBUS and half a text included: for these programs the
property records and does not forbid. In the same way `OwnArgument` records what the
threads of `argumenti.c` and `main` of `kvadrat.c` may read, which the chapter shows as mistakes, and
demands the right value of `argumenti2.c`, `kvadrat2.c` and `nit_detached.c`.

`JezgraScenes` says for which scenes `NothingLost` can be proved whatever their number of programs:
`QueueFits` (whoever sends or receives is one of the four message programs, at the
terminal; no two send the same text) and `PipeFits` (each
program is one of the six that copy, the route of a text leads through them, and what is read
by one process is read by no other). `MCJezgra` has TLC check both for each of its scenes
(`ScenesFit`).

What is simplified: a file that is read is consumed like a stream, which is why
`f_strip.c` and `f_hole.c`, which move the position, are left out; a write of at
most the capacity of a pipe is atomic; a `sleep` may take any time, so it
orders nothing; messages about progress and errors are not printed; memory that is
freed, or belonged to a thread that has ended, reads as "?"; threads copy the
descriptors of their process, since none of them opens or closes one; the System V queue is
bounded in messages and not in bytes.

## 3. Runs

| run | instance | what it shows |
|---|---|---|
| `buffer_many` | 2 producers, 2 consumers, 2 slots, 3 items each, broadcast, 1 spurious wake-up | `nit_cond2.c`: exclusion, FIFO delivery, no lost wake-up, both sides never asleep, termination, refinement of the channel |
| `buffer_one` | 1 + 1 threads, 4 slots, 30 items, signal, 2 spurious wake-ups | `nit_cond.c` with its own sizes: one `signal` is enough for everything to arrive |
| `tcp_fork` | clients `a` (writes text, KRAJ) and `b` (writes text), backlog 0, one mishap anywhere | zombies, descriptors, orders to stop, nobody dropped, every conversation ends, refinement of the echo service |
| `tcp_stop` (violation) | one client that writes KRAJ | the server can sleep in `accept` for ever with `zaustavi` set |
| `brojac_sem` | two successive runs, 3 rounds, 2 kills anywhere | exclusion, exact result, hangs only if a holder was killed |
| `broji` | both programs, 3 threads, 3 increments each | range of the result without the mutex, exact result with it, termination |
| `signali` | the four loops, 5 ticks, 5 messages, 7 alarms or keystrokes | no alarm lost, no line repeated, an alarm ends a sleep that began after the order to stop |
| `razgovor` (violation) | `razgovor.c` with 2 messages | child asleep in `pause` and parent in `wait` for ever |
| `echo` | three transports, 2 servers, clients with KRAJ, with a text of two pieces and without a word, backlog 0, one mishap anywhere | answers belong to their questions, the address to its server, a server leaves on request only, every conversation ends but behind a silent client |
| `jezgra` | thirty scenes, up to 7 processes, 2 mishaps anywhere | output reaches its place, nothing is lost or doubled on the way, wait in a handler never sleeps, threads read what they were given, SIGINT is answered, whoever waits for ever waits for a partner that never came |
| `brojac_overlap` (violation) | two runs at once, 1 round | the second run resets the counter of the first |
| `mq_red` (violation) | three `mq_posalji`, then three `mq_primi`, one after the other | the first receiver removes the queue under the other two |

Why the bounds are enough.

- *Buffer.* With two slots, three items per thread and two threads a side, the
  indices wrap, the buffer is full and empty, all threads of a side sleep at once,
  and a woken thread loses the race for the mutex. `nit_cond.c` runs with its real
  constants.
- *Server.* Two clients are the fewest for which two children end behind one
  pending SIGCHLD, one child is alive while another one stops the server, and the backlog
  overflows (listen(0) lets one wait). `MaxTrouble` = 1 lets one mishap
  (failed fork or accept, killed client, Ctrl+C) occur at every point of the
  run. The script of `a` lets both messages arrive in one read.
- *Counter.* Two kills cover: the parent and then the child, a process of the
  first run and one of the second.

- *Counting threads.* The smallest result 2 needs two threads with two rounds
  each; the third thread and round let a stale store wipe out a whole round of the others.
- *Echo servers.* Two servers are needed for one to take the path from another,
  and for a crash and a restart; with a backlog of 0 one client is served and one
  waits, and the third finds it full. KRAJ and the text have two pieces each, the
  fewest that TCP can split. One mishap is placed at every point; what more of them do
  to answers, address and request is covered by the proofs, which bound nothing.
- *Scenes.* Seven processes are what the longest scene creates. A pipe holds 2 items
  and texts have up to 3, so that a writer blocks; the POSIX queue holds 1 message (10 in the
  code) for two senders, so that the second one blocks; `argumenti` and `nit_signal` have 3 threads and `nit_detached` 2
  instead of 5, the fewest that let one overtake another; `nproc` forks twice
  and not three times, `nozombie` has 3 children, so that two end behind one
  pending SIGCHLD. Two mishaps let a failed call meet a killed partner, or a
  second SIGINT arrive while the first waits.
- *Signals.* The programs' own 5 ticks and 5 messages; 7 alarms or keystrokes let
  two of them come late, in the gap before `pause`.

The four violation runs are disagreements between code and text:

1. The header comment of `tcp_server_fork.c` says SIGTERM stops the accept loop.
   Delivered between the test of `zaustavi` and `accept`, or while the SIGCHLD
   handler runs, it sets the flag and `accept` sleeps on until another client
   happens to connect. (`AtMostOneMore` bounds the damage: the first
   connection after the flag is the last one.)
2. `P07/README.md` says the result under the semaphore is always right. The
   reset to 0 on line 25 is outside the semaphore, so a second start of the
   program spoils the result of the first.
3. `P06/README.md` says SIGTERM closes the loop of the child of `razgovor.c` and
   the parent leaves after `wait`. Handled between the test of `radi` and
   `pause`, it leaves both asleep. `stoperica.c` has the same gap and is saved by its alarm
   (`AlarmEndsSleep`).
4. `P07/README.md` shows three runs of `mq_primi` that print 9, 5, 1, and says the
   remaining messages stay available. Each run ends with `mq_unlink`, so the second
   one finds no queue, and two messages are gone with it.

### Fairness

Weak fairness per thread or process: the kernel runs what can run. Nothing is
assumed about the order in which a mutex or a semaphore is granted; none is
needed because every thread has finitely many rounds, so nobody can overtake for
ever. Spurious wake-ups, kills, failures, Ctrl+C and the decision of a client to connect are never
fair: they may fail to happen. For the server, `WF(Server)` covers the main
loop and the delivery of its signals, `WF` of each child and of each connected
client that the two sides of a conversation go on; a client of the model always
finishes its script or is cut off. In `EchoServer` each server is weakly fair, as is each client in
the calls after `connect`: nobody has to start. In `Jezgra` it is enough that some
process makes a call as long as one can, since every program of a scene is finite.

`CHECK_DEADLOCK FALSE` stands in the configurations of programs that end, or that
may wait for ever by design; what they may wait for is said by the
liveness property of the run.

## 4. Proofs

All theorems hold for every value of the constants that satisfies the named
`ASSUME`s, which say no more than the programs do (thread sets disjoint,
capacity positive, counts natural).

**BoundedBuffer.** `TypeCorrect`, `Exclusion`, `Delivery` (`FifoDelivery`),
`NoWakeupIsLost`, `SidesNeverBlockEachOther`. The inductive invariant ties the mutex to the
control points, the counter and both indices to the lengths of `put` and
`taken`, and each filled slot to the item of `put` it holds, with the thread that is half way through
its update accounted for. `NoWakeupIsLost` and
`SidesNeverBlockEachOther` need the extra hypothesis `WakesWholeSide`: `broadcast`,
or at most one thread per side; with `signal` and several consumers they are
false. `BufferIsAChannel` proves the safety
half of the refinement: initial states map to initial states, every step to a
step of the channel or a stutter.

**TcpServerFork.** `TypeCorrect`, `ZombiesAreReaped` (`NoForgottenZombie`),
`NoDescriptorLeaks` (`OneConnectionInHand`), `StopIsPrompt` (`AtMostOneMore`),
`StopIsKept` (`StopIsRemembered`), for any number of clients, any scripts and any
number of mishaps. `AtMostOneMore` is not inductive alone: one needs that a
late connection is only ever the one in hand (`LateIsLast`), and
`StopIsRemembered` that a child which never served anybody has answered nothing
(`ServedOnce`). The second half of the module adds `AnswersAreEchoes` (`EchoFidelity` of
the service), `NobodyIsDropped` (`NoSilentDrop`) and `ServerIsAnEchoService`
(`ImplementsService`). For the first: as long as the child serves and the client
listens, what was sent is exactly answers, buffer and socket in a row (`Stream`), which a read,
a write and a send keep; once either side has left, messages are lost, but answers stop
growing. For the second, every connection is accounted for from the backlog to the end
of its child (`Accounted`): who holds it open, and why a child that is past its loop left it.
The third is the whole refinement, as `EchoService` has no fairness: `Init` maps to its
`Init`, and each action, one lemma at a time, to one of its steps or to a stutter. A send
of what was read is `Hear`, since by `Stream` the buffer is the part of the script that comes next. The hard
step is `Cut`: the concrete server closes a connection because `zaustavi` is set or because it
returns, and the service wants to know who asked. `Causes` traces every pending signal, the
flag and a child about to call `kill` back to Ctrl+C or to a KRAJ that has been said, and `Carried`
that what is in buffers and sockets has been said at all.

**ShmBrojac.** `TypeCorrect` and `SemaphoreExcludes` (`Exclusion`), for any
number of runs, overlapping or not, and any number of kills. The invariant says
which object each run has open, that an object nobody opened is untouched, and
that the semaphore of a killed holder stays 0. `Exclusion` has a second half: a semaphore
at 0 that no kill took along is held by somebody alive, so no `sem_post` is ever lost. It
needs the same of the semaphore behind the name, which a later run will find (`Backed`).
`ResultIsExact` (`ExactResult`) is for runs that do not overlap (`Overlap = FALSE`; with overlap
it is false, run `brojac_overlap`): one run is active at a time (`OneRun`), the memory holds
what its two processes have stored (`Counted`), and the parent prints only after both have done
all their rounds (`Order`), whatever earlier runs, killed anywhere, have left behind.

**Broji.** `ResultIsBounded` and `MutexMakesExact`, for any number of threads
and increments. The stored rounds form a set `Done` of pairs; no value exceeds
its cardinality, which gives the upper bound and, with the mutex, equality. The
lower bound needs `Lower`: a thread that has stored once never loads 0 again, so
what it stores afterwards is at least 2, and the last store of all is such a one.

**Signali.** `TypeCorrect`, `EveryAlarmCounts` (`NoAlarmLost`) and the action property
`LinesAreNews` (`LinesReportNews`). The
invariant adds that a counted signal under way has not been counted yet, and
that no alarm exists before the first `alarm(1)`; for the lines, that the count never falls
behind what was printed, and is ahead of it from the moment `pause` returns for a signal that counts until its line is
printed (`News`).

**EchoServer.** `TypeCorrect`, `AddressIsKept` (`AloneKeepsAddress`), `AnswersBelong`
(`AnswersMatch`) and `NobodyLeavesUnasked` (`LeavesOnRequest`), for any number of
servers, clients, pieces and mishaps, any backlog and all three transports. The address
needs three facts: a server that has met nobody is the only one alive, a port never
outlives its server, and the path is free between such a server's
unlink and its bind. `AnswersMatch` is not inductive alone: the server must read a message from its
beginning, which holds because a connection is in one backlog or one hand, once
(`OnePlace`), so that no second read finds the rest TCP has left behind (`Unread`). The
prefix lemmas say that what begins a prefix of a message begins the message, so half a KRAJ
never counts as one.

**Jezgra.** Its state is a program to interpret, so the theorems are about every set
of scenes that is `Wellmade`, and any number of processes, pipe sizes and mishaps. `TypeCorrect` rests on
`IInv`: the scene (`SceneOK`), what objects, names and processes are made of, where a
process holds only calls of its scene and descriptors only objects that exist
(`ObjectsOK`, `NamesOK`, `ProcessesOK`), and the family (`FamilyOK`): a zombie has a running parent
only because whoever ends hands its children on and takes its own zombies with
it, threads included. There is one lemma per call.

`HandlersFindZombies` (`HandlerFindsZombie`) shows that `nozombie.c` never sleeps in its
handler. Merging signals are no danger to it: one wait per SIGCHLD leaves zombies behind rather than
waiting for too many. So `ChildrenOK` counts: a process that has a SIGCHLD pending, or stands before the wait of its
handler, has a zombie for each of the two, a different one. This is about scenes in which a
program that handles SIGCHLD waits only there, at the beginning of the handler
(`WaitsInHandler`), and no other signal is handled; where nobody handles SIGCHLD there is nothing to show. `NozombieFits` proves that
`nozombie.c` meets this, with any number of children and seconds.

`InterruptsAnswered` (`InterruptAnswered`) is about `maska.c` and `maska2.c`, run alone
at a terminal (`AloneAtTerminal`; `MaskaFits` says that their calls satisfy what the
theorem and `ScenesAssumption` ask). `InterruptsOK` follows the program through its three
phases (`Fresh`, `Answering`, `Ignoring`) and to its end (`Done`); in between, answers on
the screen and answers due, from a pending SIGINT or a handler under way, are together at most the SIGINTs that
came, and at least one of them if any did.

`NothingIsLost` (`NothingLost`, module `JezgraFlows`) is about scenes that fit (`JezgraScenes`).
Its invariant has two independent parts, each beside `IInv`. `MessagesOK`: descriptors
and queues are apart (`QueuesApart`: no `write` touches a queue), a sender has not begun, has its
queue, or has sent (`SenderOK`), a receiver holds a message exactly from `receive` to `printf`
(`ReceiverOK`), and no two messages in queues, old or new, have the same text (`PutsOK`), so
that counting one of them never counts another. `PipesOK` says for each process how far it
is in its program and what its descriptors then are (`CopierOK`: it reads from its place
on the route and writes to the one before), which object is the FIFO or `izlaz.txt` (`PipeObjects`),
and of each route that its items are in order, present or lost behind a reader that has
left, and nowhere off it (`RouteOK`). Every step moves a beginning of what is at one place to the end
of what is at the next (`RouteMoves`), or empties the FIFO when the last process that holds it
ends. What a killed
process had read and not yet written stays in its `buf`, so it counts as there; the hard case is the
FIFO, which loses what it holds when the last process leaves it: that this is only ever a rest needs
that no item enters it before its reader has opened it (`Opened`) and none that follows a lost one
comes further. `izlaz.txt` is made empty once, by the
only program that writes to it, before anything is on its way there.

All these hypotheses name the programs that the property is about in the code; other scenes of
the same run satisfy them because no program there handles the signal, sends a message or
has a route.

Only model-checked:

- liveness (`EverythingDelivered`, `EveryConversationEnds`,
  `EndsUnlessOrphaned`, `AllJoined`, `AlarmEndsSleep`, `EveryClientEnds`, `EveryoneEnds`) and the
  fairness half of `ImplementsChannel`, which the prover does not reach;
- `Delivered` and `OwnArgument` of `Jezgra`. The first says what is on the screen when a particular scene has
  ended, for the thirty of them; the second
  follows each thread program from the argument `main` prepares to the line it prints, and would need
  an invariant per program.

## 5. Plan

Done, in order of importance: `FifoChannel` and `BoundedBuffer`; `TcpServerFork`;
`ShmBrojac`; `Broji`; `Signali`; `EchoServer`; the abstract `EchoService`; `Programi` with `Jezgra`, which took the
place of separate modules for descriptors, queues, masks, thread life cycles and copying: all of
these are programs over the same few calls.

Left:

1. `EchoServer` against `EchoService`: its clients say one message each, which TCP may
   cut in two, so that the service has to hear parts of messages first.
2. `OwnArgument` for the thread programs, one scene after the other.
3. Files with a position in `Jezgra`, for `f_strip.c` and `f_hole.c`.
4. `Niz`: the array helpers of chapter 2 against reference definitions.

## 6. Not modelled, and why

- `P03/f_strip.c`, `f_hole.c`: they seek; files are streams in `Jezgra`.
- `P05/limitraj.c`, `pokreni.c`, and the programs that print the environment: one
  `exec`, or output only; a limit on processor time means nothing in a model without time.
- `P02/nizfn.c`, `niz.c`: sequential functions of one array; tests reach them.
- `P04` tools, `P01` scripts, the rest of `P02`: straight-line calls and
  printing, no state that two actors share.
- `build_pdf.py`, `Prezentacije/`: the book and the slides.
- Two remarks of the chapters about library calls are outside the models: `P06/README.md`
  lets `SA_RESTART` resume `sleep(1)`, which no flag does (the seconds are not modelled),
  and `P03/README.md` explains the guard before `close(fd)` in `dup_redirect.c` with a descriptor that is already 1, where
  in fact `dup` fails first when 1 was closed at the start (scene `dup_redirect`, `sure`).
