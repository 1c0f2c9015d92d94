------------------------------- MODULE Jezgra -------------------------------
(***************************************************************************)
(* The programs of chapters 3 and 5 to 8 at work: every step is one call   *)
(* of one process or thread of a scene (module Programi gives their code), *)
(* or its end.  Outside src/ are the kernel and libpthread: descriptors,   *)
(* files, pipes, FIFOs, queues, shared memory, wait, signals, join.        *)
(*                                                                         *)
(* A descriptor is an object and a side, "r" or "w"; Closed is none.  An   *)
(* object has what it still holds (data), what was ever put in it (put)    *)
(* and how often a FIFO's sides were opened (opened).                      *)
(***************************************************************************)
EXTENDS Programi, Integers, FiniteSets, SequencesExt, FiniteSetsExt

CONSTANTS
  Scenes,      (* Scenes[s]: start, the programs; calls, those they consist *)
               (* of; input and output, the objects of their descriptors 0  *)
               (* and 1; objects, those that exist from the start, and      *)
               (* file, moja_datoteka.txt among them; closed, the sets of   *)
               (* standard descriptors that may be closed; routes, sure,    *)
               (* ordered, results, own: see the properties                 *)
  Pids,        (* 1..n                                                     *)
  MaxFd,       (* bound: the highest descriptor, past the standard ones     *)
  PipeSize,    (* the capacity of a pipe, in items                         *)
  mq_maxmsg,   (* of attr in mq_posalji                                    *)
  MaxTrouble   (* bound: processes killed and calls failed                 *)

ASSUME BoundsAssumption ==
  /\ Pids \subseteq Nat \ {0} /\ IsFiniteSet(Pids)
  /\ MaxFd \in Nat /\ MaxFd >= 3 /\ MaxTrouble \in Nat
  /\ PipeSize \in Nat \ {0} /\ mq_maxmsg \in Nat \ {0}

VARIABLES
  scene, closed,   (* the scene, and what was closed at its start          *)
  proc,            (* proc[p]: see Init                                    *)
  obj,             (* the objects of the kernel, in order of creation      *)
  names,           (* which object a name stands for, 0 if none            *)
  trouble

vars == <<scene, closed, proc, obj, names, trouble>>

Names == {"izlaz.txt", "moja_datoteka.txt", "/tmp/moj_fifo", "/moj_mq",
          "kljuc", "/moja_memorija"}
Variables == {"STDIN", "STDOUT", "fd", "fd0", "fd1", "newfd", "n", "mq",
              "msqid", "nit1", "nit2", "nit3", "glavna", "arg", "podaci", "id",
              "r", "retval", "ppid"}
Closed == <<0, "">>

IsSeq(s) == s \in Seq(Range(s))

Object(kind, data) == [kind |-> kind, data |-> data, put |-> data,
                       opened |-> [side \in {"r", "w"} |-> 0]]
tty == 1           (* the terminal's screen                                *)
Kinds == {"file", "pipe", "fifo", "object", "memory"}
Streaming == {"pipe", "fifo"}

(* The code inside a call.                                                 *)
Parts(c) == CASE c[1] \in {"while", "read"}        -> {c[4]}
              [] c[1] = "fork"                     -> {c[2], c[3], c[4]}
              [] c[1] = "exec"                     -> {c[2]}
              [] c[1] \in {"create", "sigaction"}  -> {c[3]}
              [] OTHER                             -> {}

(* The operands of a call are of their kinds, and the code inside it is    *)
(* made of such calls again.  No program both forks and makes threads.     *)
Wellmade(calls) ==
  /\ \A c \in calls :
       /\ Parts(c) \subseteq Seq(calls)
       /\ c[1] \in {"while", "read", "alloc"} => c[3] \in Nat
       /\ c[1] = "sigaction" => c[2] \in {"INT", "CHLD"}
       /\ c[1] \in {"open", "openFifo"} => c[3] \in Names /\ c[4] \in {"r", "w"}
       /\ c[1] = "get" => c[3] \in Names
       /\ c[1] = "mkfifo" => c[2] \in Names
       /\ c[1] \notin {"meet", "sigreturn"}
  /\ \/ \A c \in calls : c[1] # "fork"
     \/ \A c \in calls : c[1] \notin {"create", "pthread_exit", "loop"}

ASSUME ScenesAssumption ==
  \A s \in DOMAIN Scenes :
    LET S == Scenes[s]
        given == 1 .. 1 + Len(S.objects)
    IN /\ Wellmade(S.calls)
       /\ \A p \in DOMAIN S.start :
            S.start[p] \in Seq(S.calls) /\ {S.input[p], S.output[p]} \subseteq given
       /\ S.closed \subseteq SUBSET (0..2)
       /\ S.file \in {0} \cup given
       /\ IsSeq(S.objects)
       /\ \A i \in DOMAIN S.objects :
            LET o == S.objects[i] IN
            /\ o = Object(o.kind, o.data) /\ o.kind \in Kinds /\ IsSeq(o.data)
            /\ o.kind \in Streaming => Len(o.data) <= PipeSize

(* state: "none", "runs", "zombie", "gone"; how it ended; code: the calls  *)
(* left to make; fd: its descriptors; reg: its variables; buf, got: what   *)
(* its last read brought and what all of them did; parent: 0 is init or    *)
(* the shell; s: the status wait returned; the signals it handles or       *)
(* ignores, those masked, in its handlers too, and those that wait.  A     *)
(* thread is a process whose main is another one; result: what             *)
(* pthread_exit gives.  The threads have copies of the descriptors, for    *)
(* none of them opens or closes any.                                       *)
Process(code, fd) ==
  [state |-> "runs", how |-> "", code |-> code, fd |-> fd,
   reg |-> [r \in Variables |-> CASE r = "STDIN" -> 0 [] r = "STDOUT" -> 1
                                  [] OTHER -> -1],
   buf |-> <<>>, got |-> <<>>, parent |-> 0, s |-> "",
   handler |-> [signal \in {"INT", "CHLD"} |-> <<>>], masked |-> {},
   pending |-> {}, main |-> 0, result |-> -1, cancelled |-> FALSE]

(* The objects of a scene: the screen, then its inputs, pipes and files.   *)
Init ==
  /\ scene \in DOMAIN Scenes
  /\ LET S == Scenes[scene] IN
     /\ closed \in S.closed
     /\ obj = <<Object("file", <<>>)>> \o S.objects
     /\ names = [name \in Names |->
                   IF name = "moja_datoteka.txt" THEN S.file ELSE 0]
     /\ proc = [p \in Pids |->
          IF p \in DOMAIN S.start
          THEN Process(S.start[p], [d \in 0..MaxFd |->
                 CASE d \in closed -> Closed
                   [] d = 0 -> <<S.input[p], "r">>
                   [] d = 1 -> <<S.output[p], "w">>
                   [] d = 2 -> <<tty, "w">>
                   [] OTHER -> Closed])
          ELSE [Process(<<>>, [d \in 0..MaxFd |-> Closed])
                  EXCEPT !.state = "none"]]
  /\ trouble = 0

Runs(p) == proc[p].state = "runs"
Over(p) == proc[p].state \in {"zombie", "gone"}
(* A signal that is not masked is handled before the next call.            *)
Acts(p) == Runs(p) /\ proc[p].pending \subseteq proc[p].masked
Call(p, name) == Acts(p) /\ proc[p].code # <<>> /\ Head(proc[p].code)[1] = name
Arg(p, i) == Head(proc[p].code)[i + 1]
Val(p, r) == proc[p].reg[r]
(* The next new process or thread.                                         *)
Unused(c) == /\ proc[c].state = "none"
             /\ \A q \in Pids : proc[q].state = "none" => c <= q
Fd(p, d) == IF d \in 0..MaxFd THEN proc[p].fd[d] ELSE Closed
Lowest(fd) == Min({d \in 0..MaxFd : fd[d] = Closed})
Next2(fd) == Lowest([fd EXCEPT ![Lowest(fd)] = <<tty, "w">>])

(* Who holds a side of an object open in the processes q.                  *)
Holders(q, o, side) ==
  {p \in Pids : \E d \in 0..MaxFd : q[p].fd[d] = <<o, side>>}
Streams == {o \in DOMAIN obj : obj[o].kind \in Streaming}

(* The rest of the code of p, with body before it.                         *)
Rest(p, body) == [proc[p] EXCEPT !.code = body \o Tail(@)]
Becomes(p, new) == proc' = [proc EXCEPT ![p] = new]
(* The threads of the process of p: those with its main, 0 for p itself.   *)
Leader(p) == IF proc[p].main = 0 THEN p ELSE proc[p].main
Group(p) == {q \in Pids : Leader(q) = Leader(p)}
Stopped(q, how) ==
  [proc[q] EXCEPT !.state = IF @ # "runs" THEN @
                            ELSE IF proc[q].parent # 0 THEN "zombie" ELSE "gone",
     !.how = how, !.code = <<>>, !.fd = [d \in 0..MaxFd |-> Closed]]

(* Mutated form: init does not take the children.                          *)
EndedAlone(p, how) ==
  [q \in Pids |-> IF q \in Group(p) THEN Stopped(q, how) ELSE proc[q]]

(* The process of p ends, all its threads with it: the descriptors are     *)
(* closed, its children pass to init, its parent is sent SIGCHLD.          *)
Ended(p, how) ==
  [q \in Pids |->
     IF q \in Group(p) THEN Stopped(q, how)
     ELSE IF proc[q].parent \in Group(p)
     THEN [proc[q] EXCEPT !.parent = 0,
             !.state = IF @ = "zombie" THEN "gone" ELSE @]
     ELSE IF proc[p].parent = q
     THEN [proc[q] EXCEPT !.pending =
             IF proc[q].handler["CHLD"] = <<>> THEN @ ELSE @ \cup {"CHLD"}]
     ELSE proc[q]]
(* A FIFO that nobody holds open any more loses what it has.               *)
Emptied(q) ==
  [o \in DOMAIN obj |->
     IF obj[o].kind = "fifo" /\ Holders(q, o, "r") \cup Holders(q, o, "w") = {}
     THEN [obj[o] EXCEPT !.data = <<>>] ELSE obj[o]]
Trouble == trouble < MaxTrouble /\ trouble' = trouble + 1

-----------------------------------------------------------------------------
(* Descriptors                                                             *)

Open(p) ==
  /\ Call(p, "open")
  /\ LET f == names[Arg(p, 2)]
         new == f = 0
         o == IF new THEN Len(obj) + 1 ELSE f
         d == Lowest(proc[p].fd)
     IN /\ Arg(p, 3) = "w" \/ ~ new
        /\ obj' = IF new THEN Append(obj, Object("file", <<>>))
                  ELSE IF Arg(p, 3) = "w" THEN [obj EXCEPT ![f].data = <<>>]
                  ELSE obj
        /\ names' = [names EXCEPT ![Arg(p, 2)] = o]
        /\ Becomes(p, [Rest(p, <<>>) EXCEPT !.fd[d] = <<o, Arg(p, 3)>>,
                                            !.reg[Arg(p, 1)] = d])
  /\ UNCHANGED <<scene, closed, trouble>>

MkFifo(p) ==
  /\ Call(p, "mkfifo")
  /\ IF names[Arg(p, 1)] # 0 THEN UNCHANGED <<obj, names>>
     ELSE /\ obj' = Append(obj, Object("fifo", <<>>))
          /\ names' = [names EXCEPT ![Arg(p, 1)] = Len(obj) + 1]
  /\ Becomes(p, Rest(p, <<>>))
  /\ UNCHANGED <<scene, closed, trouble>>

(* open of a FIFO counts at once; it returns (Meet) when the other side is *)
(* open, or has been opened since.  Every program makes the FIFO before.   *)
OpenFifo(p) ==
  /\ Call(p, "openFifo")
  /\ LET o == names[Arg(p, 2)]
         side == Arg(p, 3)
         other == IF side = "r" THEN "w" ELSE "r"
         d == Lowest(proc[p].fd)
         meet == IF Holders(proc, o, other) # {} THEN <<>>
                 ELSE << <<"meet", o, other, obj[o].opened[other]>> >>
     IN /\ o # 0
        /\ obj' = [obj EXCEPT ![o].opened[side] = @ + 1]
        /\ Becomes(p, [Rest(p, meet) EXCEPT !.fd[d] = <<o, side>>,
                                            !.reg[Arg(p, 1)] = d])
  /\ UNCHANGED <<scene, closed, names, trouble>>

Meet(p) ==
  /\ Call(p, "meet")
  /\ obj[Arg(p, 1)].opened[Arg(p, 2)] > Arg(p, 3)
  /\ Becomes(p, Rest(p, <<>>))
  /\ UNCHANGED <<scene, closed, obj, names, trouble>>

Pipe(p) ==
  /\ Call(p, "pipe")
  /\ LET o == Len(obj) + 1
         r == Lowest(proc[p].fd)
         w == Next2(proc[p].fd)
     IN /\ obj' = Append(obj, Object("pipe", <<>>))
        /\ Becomes(p, [Rest(p, <<>>) EXCEPT
             !.fd[r] = <<o, "r">>, !.fd[w] = <<o, "w">>,
             !.reg[Arg(p, 1)] = r, !.reg[Arg(p, 2)] = w])
  /\ UNCHANGED <<scene, closed, names, trouble>>

(* dup takes the lowest free descriptor, dup2 the one it is given.         *)
Dup(p) ==
  /\ Call(p, "dup") \/ Call(p, "dup2")
  /\ LET from == Fd(p, Val(p, Arg(p, 2)))
         d == IF Call(p, "dup") THEN Lowest(proc[p].fd) ELSE Val(p, Arg(p, 3))
     IN Becomes(p, IF from = Closed
                   THEN [Rest(p, <<>>) EXCEPT !.reg[Arg(p, 1)] = -1]
                   ELSE [Rest(p, <<>>) EXCEPT !.fd[d] = from,
                                              !.reg[Arg(p, 1)] = d])
  /\ UNCHANGED <<scene, closed, obj, names, trouble>>

(* close of a descriptor that is not open changes nothing.                 *)
Close(p) ==
  /\ Call(p, "close") \/ Call(p, "closeUnless")
  /\ LET d == Val(p, Arg(p, 1))
         keep == Call(p, "closeUnless") /\ Val(p, Arg(p, 2)) = d
         new == [proc EXCEPT ![p] =
                   IF keep \/ d = -1 THEN Rest(p, <<>>)
                   ELSE [Rest(p, <<>>) EXCEPT !.fd[d] = Closed]]
     IN proc' = new /\ obj' = Emptied(new)
  /\ UNCHANGED <<scene, closed, names, trouble>>
-----------------------------------------------------------------------------
(* Reading and writing                                                     *)

(* A read waits while a pipe is empty and somebody may still write to it.  *)
Read(p) ==
  /\ Call(p, "while") \/ Call(p, "read")
  /\ LET h == Fd(p, Val(p, Arg(p, 1)))
         o == h[1]
         some == IF h[2] # "r" THEN <<>>
                 ELSE SubSeq(obj[o].data, 1, Min({Arg(p, 2), Len(obj[o].data)}))
         again == IF Call(p, "while") THEN <<Head(proc[p].code)>> ELSE <<>>
     IN /\ h[2] = "r" /\ some = <<>> => Holders(proc, o, "w") = {}
        /\ obj' = IF some = <<>> THEN obj
                  ELSE [obj EXCEPT ![o].data = SubSeq(@, Len(some) + 1, Len(@))]
        /\ Becomes(p, IF some = <<>> THEN Rest(p, <<>>)
                      ELSE [Rest(p, Arg(p, 3) \o again) EXCEPT
                              !.buf = IF Arg(p, 3) = <<>> THEN <<>> ELSE some,
                              !.got = @ \o some])
  /\ UNCHANGED <<scene, closed, names, trouble>>

What(p) ==
  CASE Arg(p, 2) = "buf" -> proc[p].buf
    [] Arg(p, 2) = "got" -> proc[p].got
    [] Arg(p, 2) = "status" -> <<proc[p].s>>
    [] Arg(p, 2) = "ppid" -> <<IF Val(p, "ppid") = 0 THEN "init" ELSE "parent">>
    [] OTHER -> <<Arg(p, 2)>>
Target(p) == Fd(p, Val(p, Arg(p, 1)))
Unread(p) == Target(p)[1] \in Streams /\ Holders(proc, Target(p)[1], "r") = {}

Write(p) ==
  /\ Call(p, "write")
  /\ Target(p)[2] = "w"
  /\ ~ Unread(p)
  /\ LET o == Target(p)[1] IN
     /\ o \in Streams => Len(obj[o].data) + Len(What(p)) <= PipeSize
     /\ obj' = [obj EXCEPT ![o].data = @ \o What(p), ![o].put = @ \o What(p)]
  /\ Becomes(p, [Rest(p, <<>>) EXCEPT !.buf = <<>>])
  /\ UNCHANGED <<scene, closed, names, trouble>>

(* SIGPIPE                                                                 *)
BrokenPipe(p) ==
  /\ Call(p, "write")
  /\ Target(p)[2] = "w"
  /\ Unread(p)
  /\ proc' = Ended(p, "signal")
  /\ obj' = Emptied(proc')
  /\ UNCHANGED <<scene, closed, names, trouble>>

(* EBADF: only a strict program returns.                                   *)
WriteNowhere(p) ==
  /\ Call(p, "write")
  /\ Target(p)[2] # "w"
  /\ proc' = IF Arg(p, 3) THEN Ended(p, "exit 1")
             ELSE [proc EXCEPT ![p] = [Rest(p, <<>>) EXCEPT !.buf = <<>>]]
  /\ obj' = Emptied(proc')
  /\ UNCHANGED <<scene, closed, names, trouble>>

-----------------------------------------------------------------------------
(* Processes                                                               *)

Fork(p) ==
  /\ Call(p, "fork")
  /\ \E c \in Pids :
       /\ Unused(c)
       /\ proc' = [proc EXCEPT ![p] = Rest(p, Arg(p, 2)),
                               ![c] = [Rest(p, Arg(p, 1)) EXCEPT !.parent = p,
                                                                 !.pending = {}]]
  /\ UNCHANGED <<scene, closed, obj, names, trouble>>

Exec(p) ==
  /\ Call(p, "exec")
  /\ Becomes(p, [proc[p] EXCEPT !.code = Arg(p, 1)])
  /\ UNCHANGED <<scene, closed, obj, names, trouble>>

(* wait takes one zombie; without children it returns at once.             *)
Wait(p) ==
  /\ Call(p, "wait")
  /\ LET children == {c \in Pids : proc[c].parent = p /\ proc[c].state # "gone"}
     IN \/ /\ children = {}
           /\ Becomes(p, Rest(p, <<>>))
        \/ \E c \in children :
             /\ proc[c].state = "zombie"
             /\ proc' = [proc EXCEPT ![c].state = "gone",
                            ![p] = [Rest(p, <<>>) EXCEPT !.s = proc[c].how]]
  /\ UNCHANGED <<scene, closed, obj, names, trouble>>

(* The parent may have ended when the answer is printed.                   *)
GetPpid(p) ==
  /\ Call(p, "getppid")
  /\ Becomes(p, [Rest(p, <<>>) EXCEPT !.reg[Arg(p, 1)] = proc[p].parent])
  /\ UNCHANGED <<scene, closed, obj, names, trouble>>

SigAction(p) ==
  /\ Call(p, "sigaction")
  /\ Becomes(p, [Rest(p, <<>>) EXCEPT !.handler[Arg(p, 1)] = Arg(p, 2)])
  /\ UNCHANGED <<scene, closed, obj, names, trouble>>

(* Signals of a kind that come while one waits are one; a handler is not   *)
(* interrupted by its own signal.                                          *)
Deliver(p) ==
  /\ Runs(p)
  /\ \E signal \in proc[p].pending \ proc[p].masked :
       Becomes(p, [proc[p] EXCEPT
         !.pending = @ \ {signal}, !.masked = @ \cup {signal},
         !.code = proc[p].handler[signal] \o << <<"sigreturn", signal>> >> \o @])
  /\ UNCHANGED <<scene, closed, obj, names, trouble>>

SigReturn(p) ==
  /\ Call(p, "sigreturn")
  /\ Becomes(p, [Rest(p, <<>>) EXCEPT !.masked = @ \ {Arg(p, 1)}])
  /\ UNCHANGED <<scene, closed, obj, names, trouble>>

(* main ends the process, a thread only itself.                            *)
Return(p) ==
  /\ Acts(p) /\ (proc[p].code = <<>> \/ Call(p, "exit"))
  /\ LET how == IF Call(p, "exit") THEN Arg(p, 1) ELSE "exit 0" IN
     proc' = IF proc[p].main = 0 THEN Ended(p, how)
             ELSE [proc EXCEPT ![p] = Stopped(p, "")]
  /\ obj' = Emptied(proc')
  /\ UNCHANGED <<scene, closed, names, trouble>>

(* How a program ends whose call has failed.                               *)
Failure(p) == CASE Call(p, "exec") -> Arg(p, 2)
                [] Call(p, "open") -> Arg(p, 4)
                [] OTHER           -> "exit 1"

(* The file to read, or the queue or memory to use, does not exist.        *)
Missing(p) ==
  /\ \/ Call(p, "open") /\ Arg(p, 3) = "r" /\ names[Arg(p, 2)] = 0
     \/ Call(p, "get") /\ ~ Arg(p, 3) /\ names[Arg(p, 2)] = 0
  /\ proc' = Ended(p, Failure(p))
  /\ obj' = Emptied(proc')
  /\ UNCHANGED <<scene, closed, names, trouble>>

(* A call the program tests fails; fork goes on as the program says.       *)
Tested == {"open", "mkfifo", "openFifo", "pipe", "exec", "get", "send",
           "receive", "truncate", "mmap"}
CallFails(p) ==
  /\ \/ \E name \in Tested : Call(p, name)
     \/ Call(p, "write") /\ Arg(p, 3)
     \/ Call(p, "dup2") /\ Arg(p, 4)
  /\ Trouble
  /\ proc' = Ended(p, Failure(p))
  /\ obj' = Emptied(proc')
  /\ UNCHANGED <<scene, closed, names>>

ForkFails(p) ==
  /\ Call(p, "fork")
  /\ Trouble
  /\ Becomes(p, Rest(p, Arg(p, 3)))
  /\ UNCHANGED <<scene, closed, obj, names>>

(* The user sends SIGINT: it ends a process that does not ignore, handle   *)
(* or, in all its threads, mask it.                                        *)
Interrupt(p) ==
  /\ Runs(p)
  /\ Trouble
  /\ LET handler == proc[Leader(p)].handler["INT"] IN
     proc' = IF handler = SIG_IGN THEN proc
             ELSE IF \/ handler # <<>>
                     \/ \A q \in Group(p) : Runs(q) => "INT" \in proc[q].masked
             THEN [proc EXCEPT ![Leader(p)].pending = @ \cup {"INT"}]
             ELSE Ended(p, "signal")
  /\ obj' = Emptied(proc')
  /\ UNCHANGED <<scene, closed, names>>

-----------------------------------------------------------------------------
(* Threads                                                                 *)

Create(p) ==
  /\ Call(p, "create")
  /\ \E c \in Pids :
       /\ Unused(c)
       /\ proc' = [proc EXCEPT
            ![p] = [Rest(p, <<>>) EXCEPT !.reg[Arg(p, 1)] = c],
            ![c] = [Process(Arg(p, 2), proc[p].fd) EXCEPT
                      !.main = Leader(p), !.masked = proc[p].masked,
                      !.reg = [proc[p].reg EXCEPT !["arg"] = Val(p, Arg(p, 3))]]]
  /\ UNCHANGED <<scene, closed, obj, names, trouble>>

(* A program that does not look at the error keeps what the variable was.  *)
CreateFails(p) ==
  /\ Call(p, "create")
  /\ Trouble
  /\ IF Arg(p, 4) THEN proc' = Ended(p, "exit 1")
     ELSE \E c \in Pids :
            /\ Unused(c)
            /\ proc' = [proc EXCEPT ![p] = Rest(p, <<>>), ![c].state = "gone"]
  /\ UNCHANGED <<scene, closed, obj, names>>

Self(p) ==
  /\ Call(p, "self")
  /\ Becomes(p, [Rest(p, <<>>) EXCEPT !.reg[Arg(p, 1)] = p])
  /\ UNCHANGED <<scene, closed, obj, names, trouble>>

Join(p) ==
  /\ Call(p, "join")
  /\ LET t == Val(p, Arg(p, 1)) IN
     /\ t # -1 /\ ~ Runs(t)
     /\ Becomes(p, [Rest(p, <<>>) EXCEPT !.reg[Arg(p, 2)] = proc[t].result])
  /\ UNCHANGED <<scene, closed, obj, names, trouble>>

Cancel(p) ==
  /\ Call(p, "cancel")
  /\ LET t == Val(p, Arg(p, 1)) IN
     /\ t # -1
     /\ proc' = [proc EXCEPT ![p] = Rest(p, <<>>), ![t].cancelled = TRUE]
  /\ UNCHANGED <<scene, closed, obj, names, trouble>>

(* The variable of a thread that was never made holds anything: the call   *)
(* finds no such thread, or breaks the program.                            *)
NoThread(p) ==
  /\ Call(p, "join") \/ Call(p, "cancel")
  /\ Val(p, Arg(p, 1)) = -1
  /\ Becomes(p, Rest(p, <<>>)) \/ proc' = Ended(p, "signal")
  /\ UNCHANGED <<scene, closed, obj, names, trouble>>

(* The thread ends, the process goes on; sleep is a cancellation point.    *)
ThreadEnds(p) ==
  /\ \/ /\ Call(p, "pthread_exit")
        /\ Becomes(p, [Stopped(p, "") EXCEPT !.result = Val(p, Arg(p, 1))])
     \/ /\ Call(p, "loop") /\ proc[p].cancelled
        /\ Becomes(p, Stopped(p, ""))
  /\ UNCHANGED <<scene, closed, obj, names, trouble>>

SigMask(p) ==
  /\ Call(p, "sigmask")
  /\ Becomes(p, [Rest(p, <<>>) EXCEPT
       !.masked = IF Arg(p, 1) THEN @ \cup {"INT"} ELSE @ \ {"INT"}])
  /\ UNCHANGED <<scene, closed, obj, names, trouble>>

SigWait(p) ==
  /\ Call(p, "sigwait")
  /\ "INT" \in proc[p].pending
  /\ Becomes(p, [Rest(p, <<>>) EXCEPT !.pending = @ \ {"INT"}])
  /\ UNCHANGED <<scene, closed, obj, names, trouble>>

Alloc(p) ==
  /\ Call(p, "alloc")
  /\ obj' = Append(obj, Object("memory", [i \in 1..Arg(p, 2) |-> "?"]))
  /\ Becomes(p, [Rest(p, <<>>) EXCEPT !.reg[Arg(p, 1)] = Len(obj) + 1])
  /\ UNCHANGED <<scene, closed, names, trouble>>

(* What freed memory holds is anybody's guess: "?".                        *)
Free(p) ==
  /\ Call(p, "free")
  /\ LET o == Val(p, Arg(p, 1)) IN
     obj' = [obj EXCEPT ![o].data = [i \in DOMAIN @ |-> "?"]]
  /\ Becomes(p, Rest(p, <<>>))
  /\ UNCHANGED <<scene, closed, names, trouble>>

-----------------------------------------------------------------------------
(* Queues of messages and shared memory                                    *)

Get(p) ==
  /\ Call(p, "get")
  /\ LET o == names[Arg(p, 2)]
         at == IF o = 0 THEN Len(obj) + 1 ELSE o
     IN /\ o # 0 \/ Arg(p, 3)
        /\ obj' = IF o = 0 THEN Append(obj, Object("object", <<>>)) ELSE obj
        /\ names' = [names EXCEPT ![Arg(p, 2)] = at]
        /\ Becomes(p, [Rest(p, <<>>) EXCEPT !.reg[Arg(p, 1)] = at])
  /\ UNCHANGED <<scene, closed, trouble>>

(* The most urgent first, among equals the oldest.                         *)
Send(p) ==
  /\ Call(p, "send")
  /\ LET o == Val(p, Arg(p, 1))
         m == Arg(p, 2)
         before == {i \in DOMAIN obj[o].data :
                      obj[o].data[i].priority >= m.priority}
     IN /\ obj[o].kind = "object"
        /\ Len(obj[o].data) < mq_maxmsg
        /\ obj' = [obj EXCEPT ![o].data = InsertAt(@, Cardinality(before) + 1, m),
                              ![o].put = Append(@, m)]
  /\ Becomes(p, Rest(p, <<>>))
  /\ UNCHANGED <<scene, closed, names, trouble>>

Receive(p) ==
  /\ Call(p, "receive")
  /\ LET o == Val(p, Arg(p, 1)) IN
     /\ obj[o].data # <<>>
     /\ obj' = [obj EXCEPT ![o].data = Tail(@)]
     /\ Becomes(p, [Rest(p, <<>>) EXCEPT !.buf = <<Head(obj[o].data).text>>])
  /\ UNCHANGED <<scene, closed, names, trouble>>

(* The name goes; who has the queue open keeps it.                         *)
Unlink(p) ==
  /\ Call(p, "unlink")
  /\ names' = [names EXCEPT ![Arg(p, 1)] = 0]
  /\ Becomes(p, Rest(p, <<>>))
  /\ UNCHANGED <<scene, closed, obj, trouble>>

(* The memory has no page before ftruncate, and keeps what it has.         *)
Truncate(p) ==
  /\ Call(p, "truncate")
  /\ LET o == Val(p, Arg(p, 1)) IN
     /\ obj[o].kind = "object"
     /\ obj' = [obj EXCEPT ![o].data = IF @ = <<>> THEN <<"", "">> ELSE @]
  /\ Becomes(p, Rest(p, <<>>))
  /\ UNCHANGED <<scene, closed, names, trouble>>

Mmap(p) ==
  /\ Call(p, "mmap")
  /\ Becomes(p, [Rest(p, <<>>) EXCEPT !.reg[Arg(p, 1)] = Val(p, Arg(p, 2))])
  /\ UNCHANGED <<scene, closed, obj, names, trouble>>

Store(p) ==
  /\ Call(p, "store")
  /\ obj' = [obj EXCEPT ![Val(p, Arg(p, 1))].data[Arg(p, 2)] = Arg(p, 3)]
  /\ Becomes(p, Rest(p, <<>>))
  /\ UNCHANGED <<scene, closed, names, trouble>>

AfterLoads(code) ==
  SubSeq(code, Min({i \in 1..Len(code) + 1 :
                      i \in 1..Len(code) => code[i][1] # "load"}), Len(code))

(* SIGBUS where there is no page; the text ends at its first zero.         *)
Load(p) ==
  /\ Call(p, "load")
  /\ LET memory == obj[Val(p, Arg(p, 1))].data IN
     proc' = IF memory = <<>> THEN Ended(p, "signal")
             ELSE [proc EXCEPT ![p].got = Append(@, memory[Arg(p, 2)]),
                     ![p].code = IF memory[Arg(p, 2)] # "" THEN Tail(@)
                                 ELSE AfterLoads(@)]
  /\ UNCHANGED <<scene, closed, obj, names, trouble>>

-----------------------------------------------------------------------------
Calls(p) ==
  \/ Open(p) \/ MkFifo(p) \/ OpenFifo(p) \/ Meet(p) \/ Pipe(p) \/ Dup(p)
  \/ Close(p) \/ Read(p) \/ Write(p) \/ BrokenPipe(p) \/ WriteNowhere(p)
  \/ Fork(p) \/ Exec(p) \/ Wait(p) \/ GetPpid(p) \/ Return(p)
  \/ Missing(p) \/ SigAction(p) \/ Deliver(p) \/ SigReturn(p)
  \/ Get(p) \/ Send(p) \/ Receive(p) \/ Unlink(p)
  \/ Truncate(p) \/ Mmap(p) \/ Store(p) \/ Load(p)
  \/ Create(p) \/ Self(p) \/ Join(p) \/ Cancel(p) \/ NoThread(p)
  \/ ThreadEnds(p) \/ SigMask(p) \/ SigWait(p) \/ Alloc(p) \/ Free(p)

Next ==
  \E p \in Pids : \/ Calls(p) \/ CallFails(p) \/ ForkFails(p) \/ CreateFails(p)
                 \/ Interrupt(p)

(* The kernel does not rest while some process can go on; as every program *)
(* here is finite, no more is needed.  Nothing has to fail.                *)
Spec == Init /\ [][Next]_vars /\ WF_vars(\E p \in Pids : Calls(p))

-----------------------------------------------------------------------------
(* Every process has a state and a code to match, and every descriptor and *)
(* every name stands for an object the kernel has; a pipe keeps its bound, *)
(* and a zombie has a parent that can still wait for it (cijev.c,          *)
(* noparent.c, nozombie.c).                                                *)
TypeOK ==
  /\ scene \in DOMAIN Scenes /\ closed \subseteq 0..2
  /\ trouble \in 0..MaxTrouble
  /\ names \in [Names -> 0..Len(obj)]
  /\ \A o \in DOMAIN obj :
       /\ obj[o].kind \in Kinds
       /\ obj[o].kind \in Streaming => Len(obj[o].data) <= PipeSize
  /\ \A p \in Pids :
       /\ proc[p].state \in {"none", "runs", "zombie", "gone"}
       /\ proc[p].state # "runs" => proc[p].code = <<>>
       /\ proc[p].state = "zombie" => Runs(proc[p].parent)
       /\ \A d \in 0..MaxFd : proc[p].fd[d] # Closed =>
            proc[p].fd[d] \in (DOMAIN obj) \X {"r", "w"}

Text(place) == IF place[1] = "process" THEN proc[place[2]].buf
               ELSE IF place[2] \in DOMAIN obj THEN obj[place[2]].data ELSE <<>>
Times(m, seq) == Cardinality({i \in DOMAIN seq : seq[i] = m})

(* Where the k-th item of the text of a route lies: the place on the path, *)
(* and where in that place.                                                *)
Spots(r, k) ==
  UNION {{<<i, j>> : j \in {j \in DOMAIN Text(r.path[i]) :
                             Text(r.path[i])[j] = r.text[k]}} : i \in DOMAIN r.path}
Before(a, b) == a[1] < b[1] \/ (a[1] = b[1] /\ a[2] < b[2])

(* Along a route of objects and processes, from the last one back to the   *)
(* first, lies the whole text, in order.  Only when the reader of a FIFO   *)
(* has left may a rest be lost; what has come to the last place is then    *)
(* still a beginning.                                                      *)
TextsFlow ==
  \A r \in Scenes[scene].routes :
    /\ \A k, l \in DOMAIN r.text :
         \A a \in Spots(r, k), b \in Spots(r, l) : k < l <=> Before(a, b)
    /\ \A k, l \in DOMAIN r.text :
         k < l /\ (\E b \in Spots(r, l) : b[1] = 1) => \E a \in Spots(r, k) : a[1] = 1
    /\ \/ \A k \in DOMAIN r.text : Spots(r, k) # {}
       \/ r.reader # 0 /\ proc[r.reader].code = <<>>

(* A message sent is in its queue, printed, or on its way between the two, *)
(* once in all.                                                            *)
MessagesKept ==
  \A o \in DOMAIN obj : obj[o].kind = "object" =>
    \A i \in DOMAIN obj[o].put :
      LET m == obj[o].put[i] IN
      Times(m.text, obj[tty].data) + Times(m, obj[o].data)
        + Cardinality({p \in Pids : proc[p].buf = <<m.text>>}) = 1

(* Nothing is lost on its way, doubled or put out of order, whoever is     *)
(* killed: no text on its way through pipes, FIFOs and filters             *)
(* (fifoposalji.c, fifoprimi.c, io_copy.c, f_cat.c, f_write.c,             *)
(* read_file.c), and no message (mq_primi.c, sysv_msg_primi.c).            *)
NothingLost == TextsFlow /\ MessagesKept

(* When all have ended undisturbed, the screen and izlaz.txt show what the *)
(* program promises, whatever standard descriptors were closed at its      *)
(* start, except where sure says otherwise: what its README shows, where   *)
(* wait, join or a pipe settles it (cijev.c, prebroji.c, preusmjeri.c,     *)
(* pozdrav2.c, pozdrav3.c), and where only a sleep or nothing at all does  *)
(* (noparent.c, pozdrav1.c, shm_citaj.c beside shm_pisi.c), no more than   *)
(* the order of the calls allows.                                          *)
Delivered ==
  LET S == Scenes[scene]
      izlaz == names["izlaz.txt"]
  IN (trouble = 0 /\ closed \in S.sure /\ \A p \in Pids : ~ Runs(p)) =>
       \E r \in S.results :
         /\ IF S.ordered THEN obj[tty].data = r.screen
            ELSE \A x \in Range(r.screen) \cup Range(obj[tty].data) :
                   Times(x, r.screen) = Times(x, obj[tty].data)
         /\ (IF izlaz = 0 THEN <<>> ELSE obj[izlaz].data) = r.file

(* Every thread reads the number it was meant to have, and main the result *)
(* it asked for, though the memory between them is shared and freed        *)
(* (argumenti2.c, nit_detached.c, kvadrat2.c); in argumenti.c it may also  *)
(* be the number of a later thread, never that of an earlier one.          *)
OwnArgument ==
  LET own == Scenes[scene].own IN
  \A p \in DOMAIN own :
    proc[p].got # <<>> => proc[p].got[1] \in own[p]

(* However many SIGCHLDs merge, the wait in the handler finds a child that *)
(* has ended: the handler never makes the program wait (nozombie.c).       *)
HandlerFindsZombie ==
  \A p \in Pids : Call(p, "wait") /\ "CHLD" \in proc[p].masked =>
    \E c \in Pids : proc[c].parent = p /\ proc[c].state = "zombie"

(* A program that has seen to SIGINT is not ended by it, and has answered  *)
(* it when it ends, though the signal came while it was masked: once for   *)
(* all that came meanwhile (maska.c, maska2.c).                            *)
InterruptAnswered ==
  \A p \in Pids : (Over(p) /\ proc[p].handler["INT"] # <<>>) =>
    /\ proc[p].how = "exit 0"
    /\ trouble > 0 => obj[tty].data # <<>>
    /\ Times("obraden", obj[tty].data) <= trouble

(* Whoever waits for ever waits for a partner that never came: the other   *)
(* side of a FIFO, a message, or room in a queue.  So every pipe comes to  *)
(* its end, every wait returns, and every exec and return is reached.      *)
Lonely(p) ==
  \/ Call(p, "meet")
  \/ Call(p, "receive") /\ obj[Val(p, Arg(p, 1))].data = <<>>
  \/ Call(p, "send") /\ Len(obj[Val(p, Arg(p, 1))].data) = mq_maxmsg
  \/ Call(p, "sigwait") /\ "INT" \notin proc[p].pending
  \/ Call(p, "loop") /\ ~ proc[p].cancelled

EveryoneEnds == <>[](\A p \in Pids : Runs(p) => Lonely(p))
=============================================================================
