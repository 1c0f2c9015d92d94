---------------------------- MODULE JezgraFlows ----------------------------
(***************************************************************************)
(* Nothing is lost, doubled or put out of order (NothingLost of Jezgra),   *)
(* whatever the scene: first the messages (MessagesOK), with any number of *)
(* senders and receivers, then the texts (PipesOK), in pipelines and       *)
(* through FIFOs of any length and number of programs.                     *)
(***************************************************************************)
EXTENDS JezgraProofs, JezgraScenes

-----------------------------------------------------------------------------
(* What a step can be, call by call.                                       *)

(* The calls that can fail in a way the program tests, and end it.         *)
Gives(p) == CallFails(p) \/ Missing(p)

(* Who has no signal to handle makes its next call or returns.             *)
LEMMA StepOfCall ==
  ASSUME NEW p \in Pids, proc[p].pending \subseteq proc[p].masked,
         Calls(p) \/ CallFails(p) \/ ForkFails(p) \/ CreateFails(p)
  PROVE  LET name == Head(proc[p].code)[1] IN
         \/ proc[p].code = <<>> /\ Return(p)
         \/ /\ Acts(p) /\ proc[p].code # <<>>
            /\ \/ name = "open" /\ (Open(p) \/ Gives(p))
               \/ name = "mkfifo" /\ (MkFifo(p) \/ Gives(p))
               \/ name = "openFifo" /\ (OpenFifo(p) \/ Gives(p))
               \/ name = "meet" /\ Meet(p)
               \/ name = "pipe" /\ (Pipe(p) \/ Gives(p))
               \/ name \in {"dup", "dup2"} /\ (Dup(p) \/ Gives(p))
               \/ name \in {"close", "closeUnless"} /\ Close(p)
               \/ name \in {"while", "read"} /\ Read(p)
               \/ /\ name = "write"
                  /\ \/ Write(p) \/ BrokenPipe(p) \/ WriteNowhere(p)
                     \/ Gives(p)
               \/ name = "getppid" /\ GetPpid(p)
               \/ name = "mmap" /\ (Mmap(p) \/ Gives(p))
               \/ name = "fork" /\ (Fork(p) \/ ForkFails(p))
               \/ name = "exec" /\ (Exec(p) \/ Gives(p))
               \/ name = "wait" /\ Wait(p)
               \/ name = "exit" /\ Return(p)
               \/ name = "sigaction" /\ SigAction(p)
               \/ name = "sigreturn" /\ SigReturn(p)
               \/ name = "get" /\ (Get(p) \/ Gives(p))
               \/ name = "send" /\ (Send(p) \/ Gives(p))
               \/ name = "receive" /\ (Receive(p) \/ Gives(p))
               \/ name = "unlink" /\ Unlink(p)
               \/ name = "truncate" /\ (Truncate(p) \/ Gives(p))
               \/ name = "store" /\ Store(p)
               \/ name = "load" /\ Load(p)
               \/ name = "create" /\ (Create(p) \/ CreateFails(p))
               \/ name = "self" /\ Self(p)
               \/ name = "join" /\ (Join(p) \/ NoThread(p))
               \/ name = "cancel" /\ (Cancel(p) \/ NoThread(p))
               \/ name \in {"pthread_exit", "loop"} /\ ThreadEnds(p)
               \/ name = "sigmask" /\ SigMask(p)
               \/ name = "sigwait" /\ SigWait(p)
               \/ name = "alloc" /\ Alloc(p)
               \/ name = "free" /\ Free(p)
  <1>1. \A name : Call(p, name) =>
          /\ proc[p].code # <<>> /\ Acts(p) /\ Head(proc[p].code)[1] = name
    BY DEF Call
  <1>2. /\ Open(p) => Call(p, "open")
        /\ MkFifo(p) => Call(p, "mkfifo")
        /\ OpenFifo(p) => Call(p, "openFifo")
        /\ Meet(p) => Call(p, "meet")
        /\ Pipe(p) => Call(p, "pipe")
        /\ Dup(p) => Call(p, "dup") \/ Call(p, "dup2")
        /\ Close(p) => Call(p, "close") \/ Call(p, "closeUnless")
        /\ Read(p) => Call(p, "while") \/ Call(p, "read")
    BY DEF Open, MkFifo, OpenFifo, Meet, Pipe, Dup, Close, Read
  <1>3. /\ Write(p) \/ BrokenPipe(p) \/ WriteNowhere(p) => Call(p, "write")
        /\ Fork(p) \/ ForkFails(p) => Call(p, "fork")
        /\ Exec(p) => Call(p, "exec")
        /\ Wait(p) => Call(p, "wait")
        /\ SigAction(p) => Call(p, "sigaction")
        /\ SigReturn(p) => Call(p, "sigreturn")
        /\ Return(p) => proc[p].code = <<>> \/ Call(p, "exit")
    BY DEF Write, BrokenPipe, WriteNowhere, Fork, ForkFails, Exec, Wait,
           SigAction, SigReturn, Return
  <1>4. /\ Get(p) => Call(p, "get")
        /\ Send(p) => Call(p, "send")
        /\ Receive(p) => Call(p, "receive")
        /\ Unlink(p) => Call(p, "unlink")
        /\ Truncate(p) => Call(p, "truncate")
        /\ Store(p) => Call(p, "store")
        /\ Load(p) => Call(p, "load")
        /\ Create(p) \/ CreateFails(p) => Call(p, "create")
        /\ Self(p) => Call(p, "self")
        /\ Join(p) => Call(p, "join")
        /\ Cancel(p) => Call(p, "cancel")
    BY DEF Get, Send, Receive, Unlink, Truncate, Store, Load, Create,
           CreateFails, Self, Join, Cancel
  <1>5. /\ NoThread(p) => Call(p, "join") \/ Call(p, "cancel")
        /\ ThreadEnds(p) => Call(p, "pthread_exit") \/ Call(p, "loop")
        /\ SigMask(p) => Call(p, "sigmask")
        /\ SigWait(p) => Call(p, "sigwait")
        /\ Alloc(p) => Call(p, "alloc")
        /\ Free(p) => Call(p, "free")
        /\ Missing(p) => Call(p, "open") \/ Call(p, "get")
        /\ CallFails(p) => \E name \in Tested \cup {"write", "dup2"} :
                             Call(p, name)
        /\ GetPpid(p) => Call(p, "getppid")
        /\ Mmap(p) => Call(p, "mmap")
    BY DEF NoThread, ThreadEnds, SigMask, SigWait, Alloc, Free, Missing,
           CallFails, GetPpid, Mmap
  <1>6. ~ Deliver(p)
    BY DEF Deliver
  <1>7. CASE CallFails(p)
    BY <1>1, <1>5, <1>7 DEF Tested, Gives
  <1>8. CASE Missing(p)
    BY <1>1, <1>5, <1>8 DEF Gives
  <1>9. CASE \/ Open(p) \/ MkFifo(p) \/ OpenFifo(p) \/ Meet(p) \/ Pipe(p)
             \/ Dup(p) \/ Close(p) \/ Read(p)
    BY <1>1, <1>2, <1>9
  <1>10. CASE \/ Write(p) \/ BrokenPipe(p) \/ WriteNowhere(p)
              \/ Fork(p) \/ ForkFails(p) \/ Exec(p) \/ Wait(p) \/ Return(p)
              \/ SigAction(p) \/ SigReturn(p)
    BY <1>1, <1>3, <1>10
  <1>11. CASE \/ Get(p) \/ Send(p) \/ Receive(p) \/ Unlink(p) \/ Truncate(p)
              \/ Store(p) \/ Load(p) \/ Create(p) \/ CreateFails(p) \/ Self(p)
              \/ Join(p) \/ Cancel(p)
    BY <1>1, <1>4, <1>11
  <1>12. CASE \/ NoThread(p) \/ ThreadEnds(p) \/ SigMask(p) \/ SigWait(p)
              \/ Alloc(p) \/ Free(p) \/ GetPpid(p) \/ Mmap(p)
    BY <1>1, <1>5, <1>12
  <1>13. QED
    BY <1>6, <1>7, <1>8, <1>9, <1>10, <1>11, <1>12 DEF Calls

(* One process moves: it becomes what it becomes, the others stay.         *)
LEMMA OnlyOne ==
  ASSUME IInv, NEW p \in Pids, NEW new, Becomes(p, new)
  PROVE  proc'[p] = new /\ Others(p)
  BY HasFields DEF Becomes, Others

-----------------------------------------------------------------------------
(* What steps do to descriptors and objects, whatever the scene.           *)

(* A descriptor that somebody has now, somebody had before.                *)
Handed ==
  \A q \in Pids : \A d \in 0..MaxFd : proc'[q].fd[d] # Closed =>
    \E r \in Pids : \E e \in 0..MaxFd : proc'[q].fd[d] = proc[r].fd[e]

(* Who keeps its descriptors, or closes them, hands them on at most.       *)
LEMMA KeepsHanded ==
  ASSUME IInv, NEW p \in Pids, Others(p),
         \A d \in 0..MaxFd : \/ proc'[p].fd[d] = Closed
                             \/ \E e \in 0..MaxFd :
                                    proc'[p].fd[d] = proc[p].fd[e]
  PROVE  Handed
  BY DEF Handed, Others

(* So does a process that ends.                                            *)
LEMMA EndedHanded ==
  ASSUME IInv, NEW p \in Pids, NEW how, proc' = Ended(p, how)
  PROVE  Handed
  <1>1. ASSUME NEW q \in Pids
        PROVE  \/ proc'[q].fd = proc[q].fd
               \/ \A d \in 0..MaxFd : proc'[q].fd[d] = Closed
    <2>1. DOMAIN proc[q] = Fields
      BY HasFields
    <2>2. CASE q \in Group(p)
      <3>1. proc'[q] = Stopped(q, how)
        BY <2>2 DEF Ended
      <3>2. QED
        BY <2>1, <3>1 DEF Stopped, Fields
    <2>3. CASE q \notin Group(p)
      BY <2>1, <2>3 DEF Ended, Fields
    <2>4. QED
      BY <2>2, <2>3
  <1>2. QED
    BY <1>1 DEF Handed

(* A call that only changes the rest of its process.                       *)
LEMMA RestHanded ==
  ASSUME IInv, NEW p \in Pids, Acts(p), proc[p].code # <<>>, NEW new,
         Becomes(p, new), new.fd = proc[p].fd
  PROVE  Handed
  <1>1. proc'[p] = new /\ Others(p)
    BY OnlyOne
  <1>2. QED
    BY <1>1, KeepsHanded

(* Calls that make no descriptor.                                          *)
LEMMA CallsHanded ==
  ASSUME IInv, NEW p \in Pids,
         \/ MkFifo(p) \/ Meet(p) \/ Write(p) \/ WriteNowhere(p)
         \/ SigAction(p) \/ Deliver(p) \/ SigReturn(p)
         \/ Get(p) \/ Send(p) \/ Receive(p) \/ Unlink(p) \/ Truncate(p)
         \/ Store(p) \/ Load(p) \/ Self(p) \/ Join(p) \/ GetPpid(p) \/ Mmap(p)
         \/ NoThread(p) \/ ThreadEnds(p) \/ SigMask(p) \/ SigWait(p)
         \/ Alloc(p) \/ Free(p) \/ Exec(p) \/ ForkFails(p)
  PROVE  Handed
  <1>1. DOMAIN proc = Pids /\ DOMAIN proc[p] = Fields
    BY HasFields
  <1>2. \A body : Rest(p, body).fd = proc[p].fd /\ DOMAIN Rest(p, body) = Fields
    BY <1>1 DEF Rest, Fields
  <1>3. ASSUME NEW new, Becomes(p, new),
               \/ new.fd = proc[p].fd
               \/ \A d \in 0..MaxFd : new.fd[d] = Closed
        PROVE  Handed
    <2>1. proc'[p] = new /\ Others(p)
      BY <1>3, OnlyOne
    <2>2. QED
      BY <1>3, <2>1, KeepsHanded
  <1>4. CASE \/ MkFifo(p) \/ Meet(p) \/ Unlink(p) \/ Send(p) \/ Truncate(p)
             \/ Store(p) \/ Free(p) \/ ForkFails(p)
    <2>1. \E body : Becomes(p, Rest(p, body))
      BY <1>4 DEF MkFifo, Meet, Unlink, Send, Truncate, Store, Free, ForkFails
    <2>2. QED
      BY <1>2, <1>3, <2>1
  <1>5. CASE Write(p) \/ Receive(p)
    <2>1. \E v : Becomes(p, [Rest(p, <<>>) EXCEPT !.buf = v])
      BY <1>5 DEF Write, Receive
    <2>2. \A v : [Rest(p, <<>>) EXCEPT !.buf = v].fd = proc[p].fd
      BY <1>2 DEF Fields
    <2>3. QED
      BY <1>3, <2>1, <2>2
  <1>6. CASE Get(p) \/ Self(p) \/ Join(p) \/ Alloc(p) \/ GetPpid(p) \/ Mmap(p)
    <2>1. \E x, v : Becomes(p, [Rest(p, <<>>) EXCEPT !.reg[x] = v])
      <3>1. CASE Get(p)
        <4>1. PICK v : Becomes(p, [Rest(p, <<>>) EXCEPT !.reg[Arg(p, 1)] = v])
          BY <3>1 DEF Get
        <4>2. QED
          BY <4>1
      <3>2. CASE Self(p) \/ Alloc(p)
        BY <3>2 DEF Self, Alloc
      <3>3. CASE Join(p)
        BY <3>3 DEF Join
      <3>4. CASE GetPpid(p) \/ Mmap(p)
        BY <3>4 DEF GetPpid, Mmap
      <3>5. QED
        BY <1>6, <3>1, <3>2, <3>3, <3>4
    <2>2. \A x, v : [Rest(p, <<>>) EXCEPT !.reg[x] = v].fd = proc[p].fd
      BY <1>2 DEF Fields
    <2>3. PICK x, v : Becomes(p, [Rest(p, <<>>) EXCEPT !.reg[x] = v])
      BY <2>1
    <2>4. QED
      BY <1>3, <2>2, <2>3
  <1>7. CASE WriteNowhere(p)
    <2>1. CASE Becomes(p, [Rest(p, <<>>) EXCEPT !.buf = <<>>])
      <3>1. [Rest(p, <<>>) EXCEPT !.buf = <<>>].fd = proc[p].fd
        BY <1>2 DEF Fields
      <3>2. QED
        BY <1>3, <2>1, <3>1
    <2>2. CASE proc' = Ended(p, "exit 1")
      BY <2>2, EndedHanded
    <2>3. QED
      BY <1>7, <2>1, <2>2 DEF WriteNowhere, Becomes
  <1>8. CASE SigAction(p) \/ SigReturn(p) \/ SigMask(p) \/ SigWait(p)
             \/ Deliver(p)
    <2>1. \/ \E x, v : Becomes(p, [Rest(p, <<>>) EXCEPT !.handler[x] = v])
          \/ \E v : Becomes(p, [Rest(p, <<>>) EXCEPT !.masked = v])
          \/ \E v : Becomes(p, [Rest(p, <<>>) EXCEPT !.pending = v])
          \/ \E u, v, w : Becomes(p, [proc[p] EXCEPT !.pending = u,
                                        !.masked = v, !.code = w])
      <3>1. CASE SigAction(p)
        BY <3>1 DEF SigAction
      <3>2. CASE SigReturn(p) \/ SigMask(p)
        BY <3>2, <1>2 DEF SigReturn, SigMask, Fields
      <3>3. CASE SigWait(p)
        BY <3>3, <1>2 DEF SigWait, Fields
      <3>4. CASE Deliver(p)
        BY <3>4, <1>1 DEF Deliver, Fields
      <3>5. QED
        BY <1>8, <3>1, <3>2, <3>3, <3>4
    <2>2. /\ \A x, v : [Rest(p, <<>>) EXCEPT !.handler[x] = v].fd = proc[p].fd
          /\ \A v : [Rest(p, <<>>) EXCEPT !.masked = v].fd = proc[p].fd
          /\ \A v : [Rest(p, <<>>) EXCEPT !.pending = v].fd = proc[p].fd
          /\ \A u, v, w : [proc[p] EXCEPT !.pending = u, !.masked = v,
                             !.code = w].fd = proc[p].fd
      BY <1>1, <1>2 DEF Fields
    <2>3. ASSUME NEW x, NEW v,
                 Becomes(p, [Rest(p, <<>>) EXCEPT !.handler[x] = v])
          PROVE  Handed
      BY <1>3, <2>2, <2>3
    <2>4. ASSUME NEW v, \/ Becomes(p, [Rest(p, <<>>) EXCEPT !.masked = v])
                        \/ Becomes(p, [Rest(p, <<>>) EXCEPT !.pending = v])
          PROVE  Handed
      BY <1>3, <2>2, <2>4
    <2>5. ASSUME NEW u, NEW v, NEW w,
                 Becomes(p, [proc[p] EXCEPT !.pending = u, !.masked = v,
                               !.code = w])
          PROVE  Handed
      <3> DEFINE new == [proc[p] EXCEPT !.pending = u, !.masked = v, !.code = w]
      <3>1. new.fd = proc[p].fd /\ Becomes(p, new)
        BY <1>1, <2>5 DEF Fields
      <3> HIDE DEF new
      <3>2. QED
        BY <1>3, <3>1
    <2>6. QED
      BY <2>1, <2>3, <2>4, <2>5
  <1>9. CASE Exec(p)
    <2>1. [proc[p] EXCEPT !.code = Arg(p, 1)].fd = proc[p].fd
      BY <1>1 DEF Fields
    <2>2. QED
      BY <1>3, <1>9, <2>1 DEF Exec
  <1>10. CASE Load(p)
    <2>1. \/ proc' = Ended(p, "signal")
          \/ \E v, w : proc' = [proc EXCEPT ![p].got = v, ![p].code = w]
      BY <1>10, <1>1 DEF Load, Fields
    <2>2. ASSUME NEW v, NEW w,
                 proc' = [proc EXCEPT ![p].got = v, ![p].code = w]
          PROVE  Handed
      <3>1. proc'[p].fd = proc[p].fd /\ Others(p)
        BY <1>1, <2>2 DEF Others, Fields
      <3>2. QED
        BY <3>1, KeepsHanded
    <2>3. QED
      BY <2>1, <2>2, EndedHanded
  <1>11. CASE NoThread(p)
    BY <1>2, <1>3, <1>11, EndedHanded DEF NoThread
  <1>12. CASE ThreadEnds(p)
    <2>1. \/ Becomes(p, Stopped(p, ""))
          \/ \E v : Becomes(p, [Stopped(p, "") EXCEPT !.result = v])
      BY <1>12 DEF ThreadEnds
    <2>2. \A d \in 0..MaxFd : Stopped(p, "").fd[d] = Closed
      BY <1>1 DEF Stopped, Fields
    <2>3. DOMAIN Stopped(p, "") = Fields
      BY <1>1 DEF Stopped, Fields
    <2>4. \A v : [Stopped(p, "") EXCEPT !.result = v].fd = Stopped(p, "").fd
      BY <2>3 DEF Fields
    <2>5. QED
      BY <1>3, <2>1, <2>2, <2>4
  <1>13. QED
    BY <1>4, <1>5, <1>6, <1>7, <1>8, <1>9, <1>10, <1>11, <1>12

(* Calls that copy or close descriptors.                                   *)
LEMMA CopiesHanded ==
  ASSUME IInv, NEW p \in Pids,
         \/ Dup(p) \/ Close(p) \/ Read(p) \/ Fork(p) \/ Wait(p) \/ Create(p)
         \/ CreateFails(p) \/ Cancel(p) \/ Return(p) \/ BrokenPipe(p)
         \/ Missing(p) \/ CallFails(p) \/ Interrupt(p)
  PROVE  Handed
  <1>1. DOMAIN proc = Pids /\ \A q \in Pids : DOMAIN proc[q] = Fields
    BY HasFields
  <1>2. \A body : /\ Rest(p, body).fd = proc[p].fd
                  /\ DOMAIN Rest(p, body) = Fields
    BY <1>1 DEF Rest, Fields
  <1>3. DOMAIN proc[p].fd = 0..MaxFd
    BY DEF IInv, ProcessesOK, ProcessOK
  <1>4. CASE Dup(p)
    <2> DEFINE from == Fd(p, Val(p, Arg(p, 2)))
               r == Rest(p, <<>>)
    <2>1. PICK d : \/ Becomes(p, [r EXCEPT !.reg[Arg(p, 1)] = -1])
                   \/ Becomes(p, [r EXCEPT !.fd[d] = from,
                                           !.reg[Arg(p, 1)] = d])
      <3> DEFINE e == IF Call(p, "dup") THEN Lowest(proc[p].fd)
                      ELSE Val(p, Arg(p, 3))
                 one == [r EXCEPT !.reg[Arg(p, 1)] = -1]
                 two == [r EXCEPT !.fd[e] = from, !.reg[Arg(p, 1)] = e]
      <3>1. Becomes(p, IF from = Closed THEN one ELSE two)
        BY <1>4 DEF Dup
      <3>2. Becomes(p, one) \/ Becomes(p, two)
        <4> HIDE DEF one, two, from
        <4>1. QED
          BY <3>1
      <3> HIDE DEF r, e
      <3>3. QED
        BY <3>2
    <2>2. from = Closed \/ \E e \in 0..MaxFd : from = proc[p].fd[e]
      BY DEF Fd
    <2>3. r.fd = proc[p].fd /\ DOMAIN r = Fields
      BY <1>2
    <2> HIDE DEF from, r
    <2>4. CASE Becomes(p, [r EXCEPT !.reg[Arg(p, 1)] = -1])
      <3> DEFINE new == [r EXCEPT !.reg[Arg(p, 1)] = -1]
      <3>1. new.fd = proc[p].fd
        BY <2>3 DEF Fields
      <3> HIDE DEF new
      <3>2. proc'[p] = new /\ Others(p)
        BY <2>4, OnlyOne DEF new
      <3>3. QED
        BY <3>1, <3>2, KeepsHanded
    <2>5. CASE Becomes(p, [r EXCEPT !.fd[d] = from, !.reg[Arg(p, 1)] = d])
      <3> DEFINE new == [r EXCEPT !.fd[d] = from, !.reg[Arg(p, 1)] = d]
      <3>1. new.fd = [proc[p].fd EXCEPT ![d] = from]
        BY <2>3 DEF Fields
      <3> HIDE DEF new
      <3>2. proc'[p] = new /\ Others(p)
        BY <2>5, OnlyOne DEF new
      <3>3. \A e \in 0..MaxFd :
              proc'[p].fd[e] = from \/ proc'[p].fd[e] = proc[p].fd[e]
        BY <1>3, <3>1, <3>2
      <3>4. QED
        BY <2>2, <3>2, <3>3, KeepsHanded
    <2>6. QED
      BY <2>1, <2>4, <2>5
  <1>5. CASE Close(p)
    <2> DEFINE r == Rest(p, <<>>)
    <2>1. PICK d : \/ Becomes(p, r) \/ Becomes(p, [r EXCEPT !.fd[d] = Closed])
      <3> DEFINE e == Val(p, Arg(p, 1))
      <3>1. Becomes(p, r) \/ Becomes(p, [r EXCEPT !.fd[e] = Closed])
        BY <1>5 DEF Close, Becomes
      <3> HIDE DEF r, e
      <3>2. QED
        BY <3>1
    <2>2. r.fd = proc[p].fd /\ DOMAIN r = Fields
      BY <1>2
    <2> HIDE DEF r
    <2>3. CASE Becomes(p, r)
      BY <2>2, <2>3, OnlyOne, KeepsHanded
    <2>4. CASE Becomes(p, [r EXCEPT !.fd[d] = Closed])
      <3> DEFINE new == [r EXCEPT !.fd[d] = Closed]
      <3>1. new.fd = [proc[p].fd EXCEPT ![d] = Closed]
        BY <2>2 DEF Fields
      <3> HIDE DEF new
      <3>2. proc'[p] = new /\ Others(p)
        BY <2>4, OnlyOne DEF new
      <3>3. \A e \in 0..MaxFd :
              proc'[p].fd[e] = Closed \/ proc'[p].fd[e] = proc[p].fd[e]
        BY <1>3, <3>1, <3>2
      <3>4. QED
        BY <3>2, <3>3, KeepsHanded
    <2>5. QED
      BY <2>1, <2>3, <2>4
  <1>6. CASE Read(p)
    <2>1. PICK body, v, w : \/ Becomes(p, Rest(p, body))
                            \/ Becomes(p, [Rest(p, body) EXCEPT !.buf = v,
                                             !.got = @ \o w])
      BY <1>6 DEF Read
    <2> DEFINE r == Rest(p, body)
    <2>2. r.fd = proc[p].fd /\ DOMAIN r = Fields
      BY <1>2
    <2> HIDE DEF r
    <2>3. CASE Becomes(p, r)
      BY <2>2, <2>3, OnlyOne, KeepsHanded
    <2>4. CASE Becomes(p, [r EXCEPT !.buf = v, !.got = @ \o w])
      <3> DEFINE new == [r EXCEPT !.buf = v, !.got = @ \o w]
      <3>1. new.fd = proc[p].fd
        BY <2>2 DEF Fields
      <3> HIDE DEF new
      <3>2. proc'[p] = new /\ Others(p)
        BY <2>4, OnlyOne DEF new
      <3>3. QED
        BY <3>1, <3>2, KeepsHanded
    <2>5. QED
      BY <2>1, <2>3, <2>4 DEF r
  <1>7. CASE Fork(p)
    <2>1. \A q \in Pids : proc'[q].fd = proc[q].fd \/ proc'[q].fd = proc[p].fd
      <3>1. PICK c \in Pids : proc' = [proc EXCEPT
               ![p] = Rest(p, Arg(p, 2)),
               ![c] = [Rest(p, Arg(p, 1)) EXCEPT !.parent = p, !.pending = {}]]
        BY <1>7 DEF Fork
      <3>2. [Rest(p, Arg(p, 1)) EXCEPT !.parent = p, !.pending = {}].fd
              = proc[p].fd
        BY <1>2 DEF Fields
      <3>3. Rest(p, Arg(p, 2)).fd = proc[p].fd
        BY <1>2
      <3> DEFINE x == Rest(p, Arg(p, 2))
                 y == [Rest(p, Arg(p, 1)) EXCEPT !.parent = p, !.pending = {}]
      <3> HIDE DEF x, y
      <3>4. proc' = [proc EXCEPT ![p] = x, ![c] = y]
        BY <3>1 DEF x, y
      <3>5. \A q \in Pids : proc'[q] \in {x, y, proc[q]}
        BY <1>1, <3>4
      <3>6. QED
        BY <3>2, <3>3, <3>5 DEF x, y
    <2>2. QED
      BY <2>1 DEF Handed
  <1>8. CASE Wait(p) \/ Cancel(p)
    <2>1. ASSUME NEW q \in Pids
          PROVE  proc'[q].fd = proc[q].fd
      <3>1. CASE Wait(p)
        <4>1. CASE Becomes(p, Rest(p, <<>>))
          BY <1>2, <4>1, OnlyOne DEF Others
        <4>2. CASE \E c \in Pids :
                     proc' = [proc EXCEPT ![c].state = "gone",
                                ![p] = [Rest(p, <<>>) EXCEPT !.s = proc[c].how]]
          <5>1. PICK c \in Pids :
                     proc' = [proc EXCEPT ![c].state = "gone",
                                ![p] = [Rest(p, <<>>) EXCEPT !.s = proc[c].how]]
            BY <4>2
          <5> DEFINE y == [Rest(p, <<>>) EXCEPT !.s = proc[c].how]
                     x == [proc[c] EXCEPT !.state = "gone"]
          <5>2. y.fd = proc[p].fd /\ x.fd = proc[c].fd
            BY <1>1, <1>2 DEF Fields
          <5>3. proc' = [proc EXCEPT ![c] = x, ![p] = y]
            BY <1>1, <5>1
          <5> HIDE DEF x, y
          <5>4. QED
            BY <1>1, <5>2, <5>3
        <4>3. QED
          BY <3>1, <4>1, <4>2 DEF Wait
      <3>2. CASE Cancel(p)
        BY <1>1, <1>2, <3>2 DEF Cancel, Fields
      <3>3. QED
        BY <1>8, <3>1, <3>2
    <2>2. QED
      BY <2>1 DEF Handed
  <1>9. CASE Create(p)
    <2> DEFINE reg == [proc[p].reg EXCEPT !["arg"] = Val(p, Arg(p, 3))]
    <2>1. PICK c \in Pids : proc' = [proc EXCEPT
            ![p] = [Rest(p, <<>>) EXCEPT !.reg[Arg(p, 1)] = c],
            ![c] = [Process(Arg(p, 2), proc[p].fd) EXCEPT
                      !.main = Leader(p), !.masked = proc[p].masked,
                      !.reg = reg]]
      BY <1>9 DEF Create
    <2> DEFINE a == [Rest(p, <<>>) EXCEPT !.reg[Arg(p, 1)] = c]
               b == [Process(Arg(p, 2), proc[p].fd) EXCEPT
                      !.main = Leader(p), !.masked = proc[p].masked,
                      !.reg = reg]
    <2>2. a.fd = proc[p].fd
      BY <1>2 DEF Fields
    <2>3. b.fd = proc[p].fd
      BY DEF Process
    <2>4. proc' = [proc EXCEPT ![p] = a, ![c] = b]
      BY <2>1
    <2> HIDE DEF a, b
    <2>5. \A q \in Pids : proc'[q] \in {a, b, proc[q]}
      BY <1>1, <2>4
    <2>6. QED
      BY <2>2, <2>3, <2>5 DEF Handed
  <1>10. CASE CreateFails(p)
    <2>1. CASE proc' = Ended(p, "exit 1")
      BY <2>1, EndedHanded
    <2>2. CASE \E c \in Pids :
                 proc' = [proc EXCEPT ![p] = Rest(p, <<>>), ![c].state = "gone"]
      <3>1. PICK c \in Pids :
                 proc' = [proc EXCEPT ![p] = Rest(p, <<>>), ![c].state = "gone"]
        BY <2>2
      <3>2. \A q \in Pids : proc'[q].fd = proc[q].fd
        BY <1>1, <1>2, <3>1 DEF Fields
      <3>3. QED
        BY <3>2 DEF Handed
    <2>3. QED
      BY <1>10, <2>1, <2>2 DEF CreateFails
  <1>11. CASE Return(p)
    <2>1. CASE proc' = [proc EXCEPT ![p] = Stopped(p, "")]
      <3>1. proc'[p] = Stopped(p, "") /\ Others(p)
        BY <1>1, <2>1 DEF Others
      <3>2. \A d \in 0..MaxFd : proc'[p].fd[d] = Closed
        BY <1>1, <3>1 DEF Stopped, Fields
      <3>3. QED
        BY <3>1, <3>2, KeepsHanded
    <2>2. QED
      BY <1>11, <2>1, EndedHanded DEF Return
  <1>12. CASE BrokenPipe(p) \/ Missing(p) \/ CallFails(p)
    BY <1>12, EndedHanded DEF BrokenPipe, Missing, CallFails
  <1>13. CASE Interrupt(p)
    <2>1. CASE proc' = proc
      BY <2>1 DEF Handed
    <2>2. CASE proc' = [proc EXCEPT ![Leader(p)].pending = @ \cup {"INT"}]
      <3>1. \A q \in Pids : proc'[q].fd = proc[q].fd
        BY <1>1, <2>2 DEF Fields
      <3>2. QED
        BY <3>1 DEF Handed
    <2>3. QED
      BY <1>13, <2>1, <2>2, EndedHanded DEF Interrupt
  <1>14. QED
    BY <1>4, <1>5, <1>6, <1>7, <1>8, <1>9, <1>10, <1>11, <1>12, <1>13

(* The objects there are stay of their kinds, with what was put in them,   *)
(* and a new queue is empty.                                               *)
PutKept ==
  /\ \A o \in DOMAIN obj : /\ o \in DOMAIN obj' /\ obj'[o].kind = obj[o].kind
                           /\ obj'[o].put = obj[o].put
  /\ \A o \in DOMAIN obj' \ DOMAIN obj :
       obj'[o].kind = "object" => obj'[o].put = <<>>

LEMMA SamePut ==
  ASSUME obj' = obj
  PROVE  PutKept
  BY DEF PutKept

LEMMA EmptiedPut ==
  ASSUME IInv, NEW q, obj' = Emptied(q)
  PROVE  PutKept
  <1>1. \A o \in DOMAIN obj : ObjectOK(obj[o])
    BY DEF IInv, ObjectsOK
  <1>2. QED
    BY <1>1 DEF PutKept, Emptied, ObjectOK

LEMMA ChangedPut ==
  ASSUME IInv, NEW o, NEW x, obj' = [obj EXCEPT ![o] = x],
         o \in DOMAIN obj => x.kind = obj[o].kind /\ x.put = obj[o].put
  PROVE  PutKept
  BY DEF PutKept

LEMMA AddedPut ==
  ASSUME IInv, NEW x, obj' = Append(obj, x), x.kind = "object" => x.put = <<>>
  PROVE  /\ PutKept
         /\ DOMAIN obj' = DOMAIN obj \cup {Len(obj) + 1}
         /\ Len(obj) + 1 \notin DOMAIN obj
         /\ obj'[Len(obj) + 1] = x
         /\ \A o \in DOMAIN obj : obj'[o] = obj[o]
  <1> DEFINE S == Range(obj) \cup {x}
  <1>1. obj \in Seq(S) /\ Len(obj) \in Nat /\ DOMAIN obj = 1 .. Len(obj)
    BY SeqMonotonic, LenOfSeq DEF IInv, ObjectsOK, IsSeq
  <1> HIDE DEF S
  <1>2. x \in S
    BY DEF S
  <1>3. /\ Append(obj, x) \in Seq(S)
        /\ Len(Append(obj, x)) = Len(obj) + 1
        /\ \A i \in 1 .. Len(obj) : Append(obj, x)[i] = obj[i]
        /\ Append(obj, x)[Len(obj) + 1] = x
    BY <1>1, <1>2, AppendProperties
  <1>4. DOMAIN obj' = 1 .. Len(obj) + 1
    BY <1>1, <1>3
  <1>5. /\ DOMAIN obj' = DOMAIN obj \cup {Len(obj) + 1}
        /\ Len(obj) + 1 \notin DOMAIN obj
        /\ obj'[Len(obj) + 1] = x
        /\ \A o \in DOMAIN obj : obj'[o] = obj[o]
    BY <1>1, <1>3, <1>4
  <1>6. QED
    BY <1>5 DEF PutKept

(* The calls that do not write, or send.                                   *)
LEMMA CallsPut ==
  ASSUME IInv, NEW p \in Pids,
         Calls(p) \/ CallFails(p) \/ ForkFails(p) \/ CreateFails(p)
           \/ Interrupt(p),
         ~ Write(p), ~ Send(p)
  PROVE  PutKept
  <1>1. \A o \in DOMAIN obj : DOMAIN obj[o] = {"kind", "data", "put", "opened"}
    BY DEF IInv, ObjectsOK, ObjectOK
  <1>2. \A o \in DOMAIN obj : \A v :
          /\ [obj[o] EXCEPT !.data = v].kind = obj[o].kind
          /\ [obj[o] EXCEPT !.data = v].put = obj[o].put
          /\ [obj[o] EXCEPT !.opened = v].kind = obj[o].kind
          /\ [obj[o] EXCEPT !.opened = v].put = obj[o].put
    BY <1>1
  <1>3. ASSUME NEW o, NEW v, \/ obj' = [obj EXCEPT ![o].data = v]
                             \/ obj' = [obj EXCEPT ![o].opened = v]
        PROVE  PutKept
    <2>1. CASE obj' = [obj EXCEPT ![o].data = v]
      <3> DEFINE x == [obj[o] EXCEPT !.data = v]
      <3>1. obj' = [obj EXCEPT ![o] = x]
        BY <2>1
      <3>2. o \in DOMAIN obj => x.kind = obj[o].kind /\ x.put = obj[o].put
        BY <1>2
      <3> HIDE DEF x
      <3>3. QED
        BY <3>1, <3>2, ChangedPut
    <2>2. CASE obj' = [obj EXCEPT ![o].opened = v]
      <3> DEFINE x == [obj[o] EXCEPT !.opened = v]
      <3>1. obj' = [obj EXCEPT ![o] = x]
        BY <2>2
      <3>2. o \in DOMAIN obj => x.kind = obj[o].kind /\ x.put = obj[o].put
        BY <1>2
      <3> HIDE DEF x
      <3>3. QED
        BY <3>1, <3>2, ChangedPut
    <2>3. QED
      BY <1>3, <2>1, <2>2
  <1>4. \A kind, data : kind = "object" /\ data = <<>> =>
           Object(kind, data).put = <<>>
    BY DEF Object
  <1>5. ASSUME \/ Meet(p) \/ Dup(p) \/ Fork(p)
               \/ Exec(p) \/ Wait(p) \/ SigAction(p) \/ Deliver(p)
               \/ SigReturn(p) \/ Unlink(p)
        PROVE  PutKept
    <2>1. /\ Meet(p) => obj' = obj
          /\ Dup(p) => obj' = obj
          /\ Exec(p) => obj' = obj
      BY DEF Meet, Dup, Exec
    <2>4. Fork(p) => obj' = obj
      BY DEF Fork
    <2>2. /\ Wait(p) => obj' = obj
          /\ SigAction(p) => obj' = obj
          /\ Deliver(p) => obj' = obj
          /\ SigReturn(p) => obj' = obj
          /\ Unlink(p) => obj' = obj
      BY DEF Wait, SigAction, Deliver, SigReturn, Unlink
    <2>3. QED
      BY <1>5, <2>1, <2>2, <2>4, SamePut
  <1>6. ASSUME \/ Load(p) \/ Create(p) \/ Self(p) \/ GetPpid(p) \/ Mmap(p)
               \/ Join(p) \/ Cancel(p) \/ NoThread(p) \/ ThreadEnds(p)
               \/ SigMask(p) \/ SigWait(p) \/ ForkFails(p) \/ CreateFails(p)
        PROVE  PutKept
    BY <1>6, SamePut DEF Load, Create, Self, Join, Cancel, GetPpid, Mmap,
       NoThread, ThreadEnds, SigMask, SigWait, ForkFails, CreateFails
  <1>7. ASSUME \/ Close(p) \/ BrokenPipe(p) \/ Return(p) \/ Missing(p)
               \/ CallFails(p) \/ Interrupt(p) \/ WriteNowhere(p)
        PROVE  PutKept
    BY <1>7, EmptiedPut DEF Close, BrokenPipe, Return, Missing, CallFails,
       Interrupt, WriteNowhere
  <1>8. ASSUME Free(p) \/ Receive(p) \/ Truncate(p)
        PROVE  PutKept
    <2>1. PICK o, v : obj' = [obj EXCEPT ![o].data = v]
      <3>1. CASE Free(p)
        BY <3>1 DEF Free
      <3>2. CASE Receive(p)
        BY <3>2 DEF Receive
      <3>3. CASE Truncate(p)
        BY <3>3 DEF Truncate
      <3>4. QED
        BY <1>8, <3>1, <3>2, <3>3
    <2>2. QED
      BY <1>3, <2>1
  <1>9. ASSUME Store(p)
        PROVE  PutKept
    <2> DEFINE o == Val(p, Arg(p, 1))
               v == [obj[o].data EXCEPT ![Arg(p, 2)] = Arg(p, 3)]
    <2>1. obj' = [obj EXCEPT ![o].data = v]
      BY <1>9 DEF Store
    <2> HIDE DEF o, v
    <2>2. QED
      BY <1>3, <2>1
  <1>10. ASSUME Read(p)
        PROVE  PutKept
    <2>1. obj' = obj \/ \E o, v : obj' = [obj EXCEPT ![o].data = v]
      BY <1>10 DEF Read
    <2>2. QED
      BY <1>3, <2>1, SamePut
  <1>11. ASSUME OpenFifo(p)
         PROVE  PutKept
    <2> DEFINE o == names[Arg(p, 2)]
               v == [obj[o].opened EXCEPT ![Arg(p, 3)] = @ + 1]
    <2>1. obj' = [obj EXCEPT ![o].opened = v]
      BY <1>11 DEF OpenFifo
    <2> HIDE DEF o, v
    <2>2. QED
      BY <1>3, <2>1
  <1>12. ASSUME MkFifo(p) \/ Pipe(p) \/ Alloc(p) \/ Get(p)
         PROVE  PutKept
    <2>1. \/ obj' = obj
          \/ \E kind, data : /\ obj' = Append(obj, Object(kind, data))
                             /\ kind = "object" => data = <<>>
      BY <1>12 DEF MkFifo, Pipe, Alloc, Get
    <2>2. QED
      BY <1>4, <2>1, SamePut, AddedPut DEF Object
  <1>13. ASSUME Open(p)
         PROVE  PutKept
    <2> DEFINE f == names[Arg(p, 2)]
    <2>1. \/ obj' = obj
          \/ obj' = Append(obj, Object("file", <<>>))
          \/ obj' = [obj EXCEPT ![f].data = <<>>]
      BY <1>13 DEF Open
    <2> HIDE DEF f
    <2>2. CASE obj' = Append(obj, Object("file", <<>>))
      BY <2>2, AddedPut DEF Object
    <2>3. QED
      BY <1>3, <2>1, <2>2, SamePut
  <1>14. QED
    BY <1>5, <1>6, <1>7, <1>8, <1>9, <1>10, <1>11, <1>12, <1>13 DEF Calls

(* A write, or a send, changes one object, and no kind.                    *)
LEMMA WritePut ==
  ASSUME IInv, NEW p \in Pids, Write(p) \/ Send(p)
  PROVE  \E o : /\ Write(p) => /\ o \in DOMAIN obj /\ o = Target(p)[1]
                              /\ \E d \in 0..MaxFd : proc[p].fd[d] = <<o, "w">>
                /\ DOMAIN obj' = DOMAIN obj
                /\ \A x \in DOMAIN obj : obj'[x].kind = obj[x].kind
                /\ \A x \in DOMAIN obj \ {o} : obj'[x] = obj[x]
  <1>1. \A o \in DOMAIN obj : DOMAIN obj[o] = {"kind", "data", "put", "opened"}
    BY DEF IInv, ObjectsOK, ObjectOK
  <1>2. CASE Write(p)
    <2> DEFINE d == Val(p, Arg(p, 1))
               o == Target(p)[1]
    <2>1. Target(p)[2] = "w" /\ Target(p) = Fd(p, d)
      BY <1>2 DEF Write, Target
    <2> HIDE DEF d
    <2>2. d \in 0..MaxFd /\ Target(p) = proc[p].fd[d] /\ proc[p].fd[d] # Closed
      <3>1. Closed[2] # "w"
        BY DEF Closed
      <3>2. QED
        BY <2>1, <3>1 DEF Fd
    <2>3. proc[p].fd[d] \in (1..Len(obj)) \X {"r", "w"}
      BY <2>2 DEF IInv, ProcessesOK, ProcessOK
    <2>4. o \in 1..Len(obj) /\ proc[p].fd[d] = <<o, "w">>
      BY <2>1, <2>2, <2>3
    <2>5. o \in DOMAIN obj
      BY <2>4, LenOfSeq DEF IInv, ObjectsOK
    <2>6. \E u, v : obj' = [obj EXCEPT ![o].data = u, ![o].put = v]
      BY <1>2 DEF Write
    <2>7. o = Target(p)[1]
      OBVIOUS
    <2> HIDE DEF o
    <2>8. /\ DOMAIN obj' = DOMAIN obj
          /\ \A x \in DOMAIN obj : obj'[x].kind = obj[x].kind
          /\ \A x \in DOMAIN obj \ {o} : obj'[x] = obj[x]
      BY <1>1, <2>5, <2>6
    <2>9. QED
      BY <2>2, <2>4, <2>5, <2>7, <2>8
  <1>3. CASE Send(p)
    <2> DEFINE o == Val(p, Arg(p, 1))
    <2>1. \E u, v : obj' = [obj EXCEPT ![o].data = u, ![o].put = v]
      BY <1>3 DEF Send
    <2>2. ~ Write(p)
      BY <1>3 DEF Send, Write, Call
    <2> HIDE DEF o
    <2>3. QED
      BY <1>1, <2>1, <2>2
  <1>4. QED
    BY <1>2, <1>3

-----------------------------------------------------------------------------
(* Queues and files are apart.                                             *)

(* No descriptor is of one; a name that stands for one is got, not opened. *)
QueuesApart ==
  /\ \A p \in Pids : \A d \in 0..MaxFd : proc[p].fd[d] # Closed =>
       obj[proc[p].fd[d][1]].kind # "object"
  /\ \A name \in Names : names[name] # 0 /\ obj[names[name]].kind = "object" =>
       \E c \in Scenes[scene].calls : c[1] = "get" /\ c[3] = name

(* Without a send nothing is ever put into one.                            *)
NothingSent ==
  ~ Sending(Scenes[scene]) =>
    \A o \in DOMAIN obj : obj[o].kind = "object" => obj[o].put = <<>>

KindsKept ==
  \A o \in DOMAIN obj : o \in DOMAIN obj' /\ obj'[o].kind = obj[o].kind

(* Every step keeps the kinds of objects.                                  *)
LEMMA AllKinds ==
  ASSUME IInv, NEW p \in Pids,
         Calls(p) \/ CallFails(p) \/ ForkFails(p) \/ CreateFails(p)
           \/ Interrupt(p)
  PROVE  KindsKept
  <1>1. CASE Write(p) \/ Send(p)
    BY <1>1, WritePut DEF KindsKept
  <1>2. CASE ~ Write(p) /\ ~ Send(p)
    BY <1>2, CallsPut DEF KindsKept, PutKept
  <1>3. QED
    BY <1>1, <1>2

(* What a descriptor or a name stands for is there.                        *)
LEMMA Standing ==
  ASSUME IInv
  PROVE  /\ \A p \in Pids : \A d \in 0..MaxFd : proc[p].fd[d] # Closed =>
              proc[p].fd[d][1] \in DOMAIN obj
         /\ \A name \in Names : names[name] # 0 => names[name] \in DOMAIN obj
         /\ DOMAIN obj = 1 .. Len(obj) /\ Len(obj) \in Nat
         /\ DOMAIN names = Names
  <1>1. DOMAIN obj = 1 .. Len(obj) /\ Len(obj) \in Nat
    BY LenOfSeq DEF IInv, ObjectsOK
  <1>2. names \in [Names -> 0..Len(obj)]
    BY DEF IInv, NamesOK
  <1>3. \A p \in Pids : ProcessOK(proc[p], scene, Len(obj))
    BY DEF IInv, ProcessesOK
  <1>4. ASSUME NEW p \in Pids, NEW d \in 0..MaxFd, proc[p].fd[d] # Closed
        PROVE  proc[p].fd[d][1] \in DOMAIN obj
    <2>1. proc[p].fd[d] \in (1..Len(obj)) \X {"r", "w"}
      BY <1>3, <1>4 DEF ProcessOK
    <2>2. QED
      BY <1>1, <2>1
  <1>5. QED
    BY <1>1, <1>2, <1>4

(* Descriptors that are handed on stay apart from queues.                  *)
LEMMA HandedApart ==
  ASSUME IInv, QueuesApart, Handed, KindsKept
  PROVE  \A p \in Pids : \A d \in 0..MaxFd : proc'[p].fd[d] # Closed =>
           obj'[proc'[p].fd[d][1]].kind # "object"
  BY Standing DEF Handed, QueuesApart, KindsKept

(* Who opens a file or a FIFO gets no queue.                               *)
LEMMA OpensApart ==
  ASSUME IInv, QueuesApart, Separate(Scenes[scene]), NEW p \in Pids,
         Acts(p), proc[p].code # <<>>,
         Head(proc[p].code)[1] \in {"open", "openFifo"}
  PROVE  LET name == Arg(p, 2) IN
         /\ name \in Names
         /\ names[name] # 0 => /\ names[name] \in DOMAIN obj
                               /\ obj[names[name]].kind # "object"
  <1> DEFINE c == Head(proc[p].code)
  <1>1. c \in Scenes[scene].calls /\ scene \in DOMAIN Scenes
    BY NextCall
  <1>2. Arg(p, 2) = c[3]
    BY DEF Arg
  <1>3. c[1] \in {"open", "openFifo"}
    OBVIOUS
  <1> HIDE DEF c
  <1>4. c[3] \in Names
    BY <1>1, <1>3, Operands DEF Steps
  <1>5. \A b \in Scenes[scene].calls : ~ (b[1] = "get" /\ b[3] = c[3])
    BY <1>1, <1>3 DEF Separate
  <1>6. QED
    BY <1>2, <1>4, <1>5, Standing DEF QueuesApart

(* A descriptor that was not handed on stands for a thing that is no queue *)
LEMMA OpenedApart ==
  ASSUME IInv, QueuesApart, KindsKept, NEW p \in Pids, Others(p),
         \A d \in 0..MaxFd :
           \/ proc'[p].fd[d] = proc[p].fd[d]
           \/ obj'[proc'[p].fd[d][1]].kind # "object"
  PROVE  \A q \in Pids : \A d \in 0..MaxFd : proc'[q].fd[d] # Closed =>
           obj'[proc'[q].fd[d][1]].kind # "object"
  BY Standing DEF Others, QueuesApart, KindsKept

LEMMA OpenApart ==
  ASSUME IInv, QueuesApart, Separate(Scenes[scene]), NEW p \in Pids, Open(p)
  PROVE  /\ \A q \in Pids : \A d \in 0..MaxFd : proc'[q].fd[d] # Closed =>
              obj'[proc'[q].fd[d][1]].kind # "object"
         /\ \E name, o : /\ names' = [names EXCEPT ![name] = o]
                         /\ obj'[o].kind # "object"
  <1> DEFINE name == Arg(p, 2)
             f == names[name]
             o == IF f = 0 THEN Len(obj) + 1 ELSE f
             d == Lowest(proc[p].fd)
             new == [Rest(p, <<>>) EXCEPT !.fd[d] = <<o, Arg(p, 3)>>,
                                          !.reg[Arg(p, 1)] = d]
  <1>1. Acts(p) /\ proc[p].code # <<>> /\ Head(proc[p].code)[1] = "open"
    BY DEF Open, Call
  <1>2. /\ f # 0 => f \in DOMAIN obj /\ obj[f].kind # "object"
    BY <1>1, OpensApart
  <1>3. KindsKept
    BY AllKinds DEF Calls
  <1>4. ASSUME f = 0
        PROVE  obj'[o].kind # "object"
    <2>1. obj' = Append(obj, Object("file", <<>>))
      BY <1>4 DEF Open
    <2>2. obj'[Len(obj) + 1] = Object("file", <<>>)
      BY <2>1, AddedPut DEF Object
    <2>3. QED
      BY <1>4, <2>2 DEF Object
  <1>5. obj'[o].kind # "object"
    BY <1>2, <1>3, <1>4 DEF KindsKept
  <1>6. Becomes(p, new) /\ names' = [names EXCEPT ![name] = o]
    BY DEF Open
  <1> HIDE DEF name, o, d
  <1>7. DOMAIN Rest(p, <<>>) = Fields /\ Rest(p, <<>>).fd = proc[p].fd
    BY HasFields DEF Rest, Fields
  <1>8. new.fd = [proc[p].fd EXCEPT ![d] = <<o, Arg(p, 3)>>]
    BY <1>7 DEF Fields
  <1> HIDE DEF new
  <1>9. proc'[p] = new /\ Others(p)
    BY <1>6, OnlyOne
  <1>10. DOMAIN proc[p].fd = 0..MaxFd
    BY DEF IInv, ProcessesOK, ProcessOK
  <1>11. \A e \in 0..MaxFd : \/ proc'[p].fd[e] = proc[p].fd[e]
                             \/ proc'[p].fd[e] = <<o, Arg(p, 3)>>
    BY <1>8, <1>9, <1>10
  <1>12. \A e \in 0..MaxFd : \/ proc'[p].fd[e] = proc[p].fd[e]
                             \/ obj'[proc'[p].fd[e][1]].kind # "object"
    BY <1>5, <1>11
  <1>13. QED
    BY <1>3, <1>5, <1>6, <1>9, <1>12, OpenedApart

LEMMA OpenFifoApart ==
  ASSUME IInv, QueuesApart, Separate(Scenes[scene]), NEW p \in Pids,
         OpenFifo(p)
  PROVE  \A q \in Pids : \A d \in 0..MaxFd : proc'[q].fd[d] # Closed =>
           obj'[proc'[q].fd[d][1]].kind # "object"
  <1>1. PICK body, d, r, side :
          Becomes(p, [Rest(p, body) EXCEPT !.fd[d] = <<names[Arg(p, 2)], side>>,
                                           !.reg[r] = d])
    BY DEF OpenFifo
  <1> DEFINE o == names[Arg(p, 2)]
             x == <<o, side>>
             new == [Rest(p, body) EXCEPT !.fd[d] = x, !.reg[r] = d]
  <1>2. Acts(p) /\ proc[p].code # <<>> /\ Head(proc[p].code)[1] = "openFifo"
          /\ o # 0
    BY DEF OpenFifo, Call
  <1>3. o \in DOMAIN obj /\ obj[o].kind # "object"
    BY <1>2, OpensApart
  <1>4. KindsKept
    BY AllKinds DEF Calls
  <1>5. obj'[o].kind # "object"
    BY <1>3, <1>4 DEF KindsKept
  <1>6. Becomes(p, new)
    BY <1>1
  <1> HIDE DEF x
  <1>7. DOMAIN Rest(p, body) = Fields /\ Rest(p, body).fd = proc[p].fd
    BY HasFields DEF Rest, Fields
  <1>8. new.fd = [proc[p].fd EXCEPT ![d] = x]
    BY <1>7 DEF Fields
  <1> HIDE DEF new
  <1>9. proc'[p] = new /\ Others(p)
    BY <1>6, OnlyOne
  <1>10. DOMAIN proc[p].fd = 0..MaxFd
    BY DEF IInv, ProcessesOK, ProcessOK
  <1>11. \A e \in 0..MaxFd :
           proc'[p].fd[e] = proc[p].fd[e] \/ proc'[p].fd[e] = x
    BY <1>8, <1>9, <1>10
  <1>12. \A e \in 0..MaxFd : \/ proc'[p].fd[e] = proc[p].fd[e]
                             \/ obj'[proc'[p].fd[e][1]].kind # "object"
    BY <1>5, <1>11 DEF x
  <1>13. QED
    BY <1>4, <1>9, <1>12, OpenedApart

LEMMA PipeApart ==
  ASSUME IInv, QueuesApart, NEW p \in Pids, Pipe(p)
  PROVE  \A q \in Pids : \A d \in 0..MaxFd : proc'[q].fd[d] # Closed =>
           obj'[proc'[q].fd[d][1]].kind # "object"
  <1> DEFINE o == Len(obj) + 1
             a == <<o, "r">>
             b == <<o, "w">>
             r == Lowest(proc[p].fd)
             w == Next2(proc[p].fd)
             new == [Rest(p, <<>>) EXCEPT !.fd[r] = a, !.fd[w] = b,
                       !.reg[Arg(p, 1)] = r, !.reg[Arg(p, 2)] = w]
  <1>1. Becomes(p, new) /\ obj' = Append(obj, Object("pipe", <<>>))
    BY DEF Pipe
  <1>2. obj'[o].kind # "object"
    BY <1>1, AddedPut DEF Object
  <1>3. KindsKept
    BY AllKinds DEF Calls
  <1> HIDE DEF a, b, r, w
  <1>4. DOMAIN Rest(p, <<>>) = Fields /\ Rest(p, <<>>).fd = proc[p].fd
    BY HasFields DEF Rest, Fields
  <1>5. new.fd = [proc[p].fd EXCEPT ![r] = a, ![w] = b]
    BY <1>4 DEF Fields
  <1> HIDE DEF new
  <1>6. proc'[p] = new /\ Others(p)
    BY <1>1, OnlyOne
  <1>7. DOMAIN proc[p].fd = 0..MaxFd
    BY DEF IInv, ProcessesOK, ProcessOK
  <1>8. \A e \in 0..MaxFd : proc'[p].fd[e] \in {proc[p].fd[e], a, b}
    BY <1>5, <1>6, <1>7
  <1>9. \A e \in 0..MaxFd : \/ proc'[p].fd[e] = proc[p].fd[e]
                            \/ obj'[proc'[p].fd[e][1]].kind # "object"
    BY <1>2, <1>8 DEF a, b
  <1>10. QED
    BY <1>3, <1>6, <1>9, OpenedApart

(* Names stay, or come to stand for something that is no queue; or a queue *)
(* is got.                                                                 *)
LEMMA NamesApart ==
  ASSUME IInv, QueuesApart, Separate(Scenes[scene]), NEW p \in Pids,
         Calls(p) \/ CallFails(p) \/ ForkFails(p) \/ CreateFails(p)
           \/ Interrupt(p)
  PROVE  \A name \in Names : names'[name] # 0
             /\ obj'[names'[name]].kind = "object" =>
           \E c \in Scenes[scene].calls : c[1] = "get" /\ c[3] = name
  <1>1. KindsKept
    BY AllKinds
  <1>2. ASSUME names' = names
        PROVE  \A name \in Names : names'[name] # 0
                   /\ obj'[names'[name]].kind = "object" =>
                 \E c \in Scenes[scene].calls : c[1] = "get" /\ c[3] = name
    BY <1>1, <1>2, Standing DEF QueuesApart, KindsKept
  <1>3. ASSUME NEW x, NEW o, names' = [names EXCEPT ![x] = o],
               \/ o = 0 \/ obj'[o].kind # "object"
               \/ \E c \in Scenes[scene].calls : c[1] = "get" /\ c[3] = x
        PROVE  \A name \in Names : names'[name] # 0
                   /\ obj'[names'[name]].kind = "object" =>
                 \E c \in Scenes[scene].calls : c[1] = "get" /\ c[3] = name
    <2>1. ASSUME NEW name \in Names, name # x
          PROVE  names'[name] = names[name]
      BY <1>3, <2>1, Standing
    <2>2. x \in Names => names'[x] = o
      BY <1>3, Standing
    <2>3. QED
      BY <1>1, <1>3, <2>1, <2>2, Standing DEF QueuesApart, KindsKept
  <1>4. CASE Open(p)
    BY <1>3, <1>4, OpenApart
  <1>5. CASE MkFifo(p)
    <2> DEFINE x == Arg(p, 1)
    <2>1. CASE names[x] # 0
      BY <1>2, <1>5, <2>1 DEF MkFifo
    <2>2. CASE names[x] = 0
      <3>1. /\ obj' = Append(obj, Object("fifo", <<>>))
            /\ names' = [names EXCEPT ![x] = Len(obj) + 1]
        BY <1>5, <2>2 DEF MkFifo
      <3>2. obj'[Len(obj) + 1].kind # "object"
        BY <3>1, AddedPut DEF Object
      <3> HIDE DEF x
      <3>3. QED
        BY <1>3, <3>1, <3>2
    <2>3. QED
      BY <2>1, <2>2
  <1>6. CASE Get(p)
    <2> DEFINE c == Head(proc[p].code)
               x == Arg(p, 2)
               at == IF names[x] = 0 THEN Len(obj) + 1 ELSE names[x]
    <2>1. c \in Scenes[scene].calls /\ c[1] = "get"
      BY <1>6, NextCall DEF Get, Call
    <2>2. c[3] = x
      BY DEF Arg
    <2>3. names' = [names EXCEPT ![x] = at]
      BY <1>6 DEF Get
    <2> HIDE DEF c, x, at
    <2>4. QED
      BY <1>3, <2>1, <2>2, <2>3
  <1>7. CASE Unlink(p)
    BY <1>3, <1>7 DEF Unlink
  <1>8. ASSUME ~ Open(p), ~ MkFifo(p), ~ Get(p), ~ Unlink(p), Calls(p)
        PROVE  names' = names
    BY <1>8 DEF Calls, OpenFifo, Meet, Pipe, Dup, Close, Read, Write,
       BrokenPipe, WriteNowhere, Fork, Exec, Wait, Return, Missing, SigAction,
       Deliver, SigReturn, Send, Receive, Truncate, Store, Load, Create, Self,
       Join, Cancel, NoThread, ThreadEnds, SigMask, SigWait, Alloc, Free,
       GetPpid, Mmap
  <1>9. ASSUME CallFails(p) \/ ForkFails(p) \/ CreateFails(p) \/ Interrupt(p)
        PROVE  names' = names
    BY <1>9 DEF CallFails, ForkFails, CreateFails, Interrupt
  <1>10. QED
    BY <1>2, <1>4, <1>5, <1>6, <1>7, <1>8, <1>9

(* No step brings them together, and none puts a message where none is     *)
(* sent.                                                                   *)
LEMMA ApartKept ==
  ASSUME IInv, QueuesApart, NothingSent, Separate(Scenes[scene]), Next
  PROVE  QueuesApart' /\ NothingSent' /\ scene' = scene
  <1>1. scene' = scene
    BY StepsClose, StepKinds
  <1>2. PICK p \in Pids : Calls(p) \/ CallFails(p) \/ ForkFails(p)
                            \/ CreateFails(p) \/ Interrupt(p)
    BY DEF Next
  <1>3. KindsKept
    BY <1>2, AllKinds
  <1>4. \A q \in Pids : \A d \in 0..MaxFd : proc'[q].fd[d] # Closed =>
          obj'[proc'[q].fd[d][1]].kind # "object"
    <2>1. CASE Open(p)
      BY <2>1, OpenApart
    <2>2. CASE OpenFifo(p)
      BY <2>2, OpenFifoApart
    <2>3. CASE Pipe(p)
      BY <2>3, PipeApart
    <2>4. CASE ~ Open(p) /\ ~ OpenFifo(p) /\ ~ Pipe(p)
      <3>1. Handed
        BY <1>2, <2>4, CallsHanded, CopiesHanded DEF Calls
      <3>2. QED
        BY <1>3, <3>1, HandedApart
    <2>5. QED
      BY <2>1, <2>2, <2>3, <2>4
  <1>5. QueuesApart'
    BY <1>1, <1>2, <1>4, NamesApart DEF QueuesApart
  <1>6. NothingSent'
    <2>1. SUFFICES ASSUME ~ Sending(Scenes[scene])
                   PROVE  \A o \in DOMAIN obj' : obj'[o].kind = "object" =>
                            obj'[o].put = <<>>
      BY <1>1 DEF NothingSent
    <2>2. ~ Send(p)
      <3>1. Send(p) => Acts(p) /\ proc[p].code # <<>>
                       /\ Head(proc[p].code)[1] = "send"
        BY DEF Send, Call
      <3>2. QED
        BY <2>1, <3>1, NextCall DEF Sending
    <2>3. CASE Write(p)
      <3>1. PICK o : /\ o \in DOMAIN obj
                     /\ \E d \in 0..MaxFd : proc[p].fd[d] = <<o, "w">>
                     /\ DOMAIN obj' = DOMAIN obj
                     /\ \A x \in DOMAIN obj : obj'[x].kind = obj[x].kind
                     /\ \A x \in DOMAIN obj \ {o} : obj'[x] = obj[x]
        BY <2>3, WritePut
      <3>2. <<o, "w">> # Closed
        BY DEF Closed
      <3>3. obj[o].kind # "object"
        <4>1. PICK d \in 0..MaxFd : proc[p].fd[d] = <<o, "w">>
          BY <3>1
        <4>2. proc[p].fd[d][1] = o /\ proc[p].fd[d] # Closed
          BY <3>2, <4>1
        <4>3. QED
          BY <4>2 DEF QueuesApart
      <3>4. QED
        BY <2>1, <3>1, <3>3 DEF NothingSent
    <2>4. CASE ~ Write(p)
      <3>1. PutKept
        BY <1>2, <2>2, <2>4, CallsPut
      <3>2. QED
        BY <2>1, <3>1 DEF PutKept, NothingSent
    <2>5. QED
      BY <2>3, <2>4
  <1>7. QED
    BY <1>1, <1>5, <1>6

(* At the start there are none.                                            *)
LEMMA NoQueues ==
  ASSUME Init, Separate(Scenes[scene])
  PROVE  \A o \in DOMAIN obj : obj[o].kind # "object"
  <1> DEFINE objects == Scenes[scene].objects
             screen == Object("file", <<>>)
             T == {screen} \cup Range(objects)
             first == <<screen>>
  <1>1. IsSeq(objects) /\ obj = first \o objects
    BY ScenesAssumption DEF Init
  <1>2. \A x \in T : x.kind # "object"
    <2>1. \A i \in DOMAIN objects : objects[i].kind # "object"
      BY DEF Separate
    <2>2. screen.kind # "object"
      BY DEF Object
    <2>3. QED
      BY <2>1, <2>2 DEF Range
  <1>3. screen \in T /\ objects \in Seq(T)
    BY <1>1, SeqMonotonic DEF IsSeq
  <1> HIDE DEF objects, screen, T
  <1>4. first \in Seq(T)
    BY <1>3
  <1>5. obj \in Seq(T)
    BY <1>1, <1>3, <1>4, ConcatProperties
  <1>6. QED
    BY <1>2, <1>5

(* So they are apart, and nothing has been sent.                           *)
LEMMA ApartInit ==
  ASSUME Init, Separate(Scenes[scene])
  PROVE  QueuesApart /\ NothingSent
  <1> DEFINE S == Scenes[scene]
  <1>1. IInv
    BY InitOK
  <1>2. \A o \in DOMAIN obj : obj[o].kind # "object"
    BY NoQueues
  <1>3. ASSUME NEW p \in Pids, NEW d \in 0..MaxFd, proc[p].fd[d] # Closed
        PROVE  obj[proc[p].fd[d][1]].kind # "object"
    BY <1>1, <1>2, <1>3, Standing
  <1>4. QueuesApart
    BY <1>1, <1>2, <1>3, Standing DEF QueuesApart
  <1>5. NothingSent
    BY <1>2 DEF NothingSent
  <1>6. QED
    BY <1>4, <1>5

-----------------------------------------------------------------------------
(* Counting.                                                               *)

(* Joined sequences, element by element.                                   *)
LEMMA JoinedAt ==
  \A s, t : IsSeq(s) /\ IsSeq(t) =>
    /\ DOMAIN (s \o t) = 1 .. Len(s) + Len(t)
    /\ \A i \in 1 .. Len(s) + Len(t) :
         (s \o t)[i] = IF i <= Len(s) THEN s[i] ELSE t[i - Len(s)]
  <1>1. SUFFICES ASSUME NEW s, NEW t, IsSeq(s), IsSeq(t)
                 PROVE  /\ DOMAIN (s \o t) = 1 .. Len(s) + Len(t)
                        /\ \A i \in 1 .. Len(s) + Len(t) :
                             (s \o t)[i] = IF i <= Len(s) THEN s[i]
                                           ELSE t[i - Len(s)]
    OBVIOUS
  <1> DEFINE S == Range(s) \cup Range(t)
  <1>2. s \in Seq(S) /\ t \in Seq(S)
    BY <1>1, CommonSet
  <1> HIDE DEF S
  <1>3. /\ s \o t \in Seq(S) /\ Len(s \o t) = Len(s) + Len(t)
        /\ \A i \in 1 .. Len(s) + Len(t) :
             (s \o t)[i] = IF i <= Len(s) THEN s[i] ELSE t[i - Len(s)]
    BY <1>2, ConcatProperties
  <1>4. QED
    BY <1>3, LenProperties

(* What is in two sequences is in the joined one as often.                 *)
LEMMA TimesJoined ==
  ASSUME NEW s, NEW t, IsSeq(s), IsSeq(t), NEW m
  PROVE  /\ Times(m, s) \in Nat /\ Times(m, t) \in Nat
         /\ Times(m, s \o t) = Times(m, s) + Times(m, t)
  <1> DEFINE j == s \o t
             k == Len(s)
             l == Len(t)
             A == {i \in DOMAIN s : s[i] = m}
             B == {i \in DOMAIN t : t[i] = m}
             C == {i \in DOMAIN j : j[i] = m}
             D == {i \in k + 1 .. k + l : t[i - k] = m}
  <1>1. /\ k \in Nat /\ l \in Nat /\ DOMAIN s = 1 .. k /\ DOMAIN t = 1 .. l
    BY LenOfSeq
  <1>2. /\ DOMAIN j = 1 .. k + l
        /\ \A i \in 1 .. k + l : j[i] = IF i <= k THEN s[i] ELSE t[i - k]
    BY JoinedAt
  <1> HIDE DEF j, k, l
  <1>3. A \subseteq 1 .. k /\ B \subseteq 1 .. l /\ D \subseteq k + 1 .. k + l
    BY <1>1
  <1>4. C = A \cup D /\ A \cap D = {}
    BY <1>1, <1>2
  <1>5. ExistsBijection(B, D)
    <2> DEFINE f == [i \in B |-> i + k]
    <2>1. f \in Bijection(B, D)
      <3>1. f \in [B -> D]
        BY <1>1
      <3>2. \A x, y \in B : f[x] = f[y] => x = y
        BY <1>1, <1>3
      <3>3. \A z \in D : \E x \in B : f[x] = z
        <4>1. ASSUME NEW z \in D
              PROVE  z - k \in B /\ f[z - k] = z
          BY <1>1, <1>3
        <4>2. QED
          BY <4>1
      <3> HIDE DEF f, B, D
      <3>4. f \in Injection(B, D)
        BY <3>1, <3>2 DEF Injection, IsInjective
      <3>5. f \in Surjection(B, D)
        BY <3>1, <3>3 DEF Surjection
      <3>6. QED
        BY <3>4, <3>5 DEF Bijection
    <2>2. QED
      BY <2>1 DEF ExistsBijection
  <1>6. IsFiniteSet(A) /\ IsFiniteSet(B)
    <2>1. IsFiniteSet(1 .. k) /\ IsFiniteSet(1 .. l)
      BY <1>1, FS_Interval
    <2> HIDE DEF A, B
    <2>2. QED
      BY <1>3, <2>1, FS_Subset
  <1>7. Times(m, s) = Cardinality(A) /\ Times(m, t) = Cardinality(B)
          /\ Times(m, s \o t) = Cardinality(C)
    BY DEF Times, j
  <1> HIDE DEF A, B, C, D
  <1>8. IsFiniteSet(D) /\ Cardinality(D) = Cardinality(B)
    BY <1>5, <1>6, FS_Bijection
  <1>9. Cardinality(A \cap D) = 0
    BY <1>4, FS_EmptySet
  <1>10. Cardinality(A \cup D)
           = Cardinality(A) + Cardinality(D) - Cardinality(A \cap D)
    BY <1>6, <1>8, FS_Union
  <1>11. Cardinality(A) \in Nat /\ Cardinality(B) \in Nat
    BY <1>6, FS_CardinalityType
  <1>12. QED
    BY <1>4, <1>7, <1>8, <1>9, <1>10, <1>11

LEMMA TimesOne ==
  \A m, x : Times(m, <<x>>) = IF x = m THEN 1 ELSE 0
  <1>1. ASSUME NEW m, NEW x
        PROVE  Times(m, <<x>>) = IF x = m THEN 1 ELSE 0
    <2> DEFINE e == <<>>
    <2>1. IsSeq(e) /\ Times(m, e) = 0
      BY Short, NoneYet
    <2>2. e \o <<x>> = <<x>>
      OBVIOUS
    <2> HIDE DEF e
    <2>3. Times(m, e \o <<x>>) = Times(m, e) + IF x = m THEN 1 ELSE 0
      BY <2>1, OneMore
    <2>4. Times(m, e \o <<x>>) = IF x = m THEN 1 ELSE 0
      BY <2>1, <2>3
    <2>5. QED
      BY <2>2, <2>4, Zenon
  <1>2. QED
    BY <1>1

(* What is not in a sequence is not counted.                               *)
LEMMA TimesNone ==
  ASSUME NEW m, NEW s, \A i \in DOMAIN s : s[i] # m
  PROVE  Times(m, s) = 0
  <1>1. {i \in DOMAIN s : s[i] = m} = {}
    OBVIOUS
  <1>2. QED
    BY <1>1, FS_EmptySet DEF Times

(* The first element, and the rest.                                        *)
LEMMA TimesTail ==
  ASSUME NEW s, IsSeq(s), s # <<>>, NEW m
  PROVE  /\ IsSeq(Tail(s)) /\ Times(m, Tail(s)) \in Nat
         /\ Times(m, s) = Times(m, Tail(s)) + IF Head(s) = m THEN 1 ELSE 0
         /\ 1 \in DOMAIN s /\ Head(s) = s[1]
         /\ \A i \in DOMAIN Tail(s) :
              i + 1 \in DOMAIN s /\ Tail(s)[i] = s[i + 1]
  <1>1. /\ Head(s) \in Range(s) /\ Tail(s) \in Seq(Range(s))
        /\ Len(Tail(s)) = Len(s) - 1
        /\ \A i \in 1 .. Len(Tail(s)) : Tail(s)[i] = s[i + 1]
    BY HeadTailProperties DEF IsSeq
  <1>2. IsSeq(Tail(s)) /\ Len(s) \in Nat /\ DOMAIN s = 1 .. Len(s)
          /\ DOMAIN Tail(s) = 1 .. Len(Tail(s)) /\ Len(Tail(s)) \in Nat
    BY <1>1, AnySeq, LenOfSeq
  <1>3. Head(s) = s[1] /\ 1 \in DOMAIN s
    BY <1>1, <1>2
  <1> DEFINE h == Head(s)
             t == Tail(s)
             o == <<h>>
  <1>4. s = o \o t
    <2>1. IsSeq(o) /\ Len(o) = 1 /\ o[1] = h
      BY Short
    <2>2. \A i \in 1 .. 1 + Len(t) :
            (o \o t)[i] = IF i <= 1 THEN o[i] ELSE t[i - 1]
      <3> HIDE DEF o, t
      <3>1. \A i \in 1 .. Len(o) + Len(t) :
              (o \o t)[i] = IF i <= Len(o) THEN o[i] ELSE t[i - Len(o)]
        BY <1>2, <2>1, JoinedAt DEF t
      <3>2. QED
        BY <2>1, <3>1
    <2>3. s \in Seq(Range(s)) /\ o \in Seq(Range(s)) /\ t \in Seq(Range(s))
      BY <1>1 DEF IsSeq
    <2> HIDE DEF o, t
    <2>4. o \o t \in Seq(Range(s)) /\ Len(o \o t) = Len(o) + Len(t)
      BY <2>3, ConcatProperties
    <2>5. Len(s) = Len(o \o t) /\ \A i \in 1 .. Len(s) : s[i] = (o \o t)[i]
      BY <1>1, <1>2, <1>3, <2>1, <2>2, <2>4 DEF t, h
    <2>6. QED
      BY <2>3, <2>4, <2>5, SeqEqual
  <1>5. IsSeq(o) /\ Times(m, o) = IF h = m THEN 1 ELSE 0
    BY Short, TimesOne
  <1> HIDE DEF o, h, t
  <1>6. /\ Times(m, t) \in Nat
        /\ Times(m, s) = Times(m, o) + Times(m, t)
    BY <1>2, <1>4, <1>5, TimesJoined DEF t
  <1>7. QED
    BY <1>1, <1>2, <1>3, <1>5, <1>6 DEF h, t

(* One more, wherever it is put.                                           *)
LEMMA TimesInserted ==
  ASSUME NEW s, IsSeq(s), NEW n \in 1 .. Len(s) + 1, NEW x, NEW m
  PROVE  /\ IsSeq(InsertAt(s, n, x))
         /\ Times(m, s) \in Nat
         /\ Times(m, InsertAt(s, n, x)) = Times(m, s) + IF x = m THEN 1 ELSE 0
         /\ \A i \in DOMAIN InsertAt(s, n, x) :
              \/ InsertAt(s, n, x)[i] = x
              \/ \E j \in DOMAIN s : InsertAt(s, n, x)[i] = s[j]
  <1> DEFINE a == SubSeq(s, 1, n - 1)
             b == SubSeq(s, n, Len(s))
             o == <<x>>
             ao == a \o o
  <1>1. Len(s) \in Nat /\ DOMAIN s = 1 .. Len(s)
    BY LenOfSeq
  <1>2. IsSeq(a) /\ IsSeq(b) /\ Len(a) = n - 1 /\ Len(b) = Len(s) - n + 1
    BY <1>1, PartOfSeq
  <1>3. s = a \o b
    <2>1. s \in Seq(Range(s))
      BY DEF IsSeq
    <2>2. SubSeq(s, 1, Len(s)) = s
      BY <2>1, SubSeqFull
    <2>3. /\ 1 \in 1 .. Len(s) + 1 /\ n - 1 \in 1 - 1 .. Len(s)
          /\ Len(s) \in n - 1 .. Len(s) /\ n = n - 1 + 1
      BY <1>1
    <2>4. SubSeq(s, 1, n - 1) \o SubSeq(s, (n - 1) + 1, Len(s))
            = SubSeq(s, 1, Len(s))
      BY <2>1, <2>3, ConcatAdjacentSubSeq
    <2>5. QED
      BY <2>2, <2>3, <2>4
  <1>4. InsertAt(s, n, x) = ao \o b
    BY DEF InsertAt
  <1>5. IsSeq(o) /\ Len(o) = 1 /\ o[1] = x
          /\ Times(m, o) = IF x = m THEN 1 ELSE 0
    BY Short, TimesOne
  <1>6. DOMAIN o = {1}
    OBVIOUS
  <1> HIDE DEF a, b, o
  <1>7. IsSeq(ao) /\ Times(m, ao) = Times(m, a) + Times(m, o)
          /\ Times(m, a) \in Nat /\ Times(m, o) \in Nat
          /\ Len(ao) = Len(a) + 1
    BY <1>2, <1>5, Joined, TimesJoined
  <1>8. DOMAIN ao = 1 .. Len(a) + 1 /\ \A i \in DOMAIN ao :
          ao[i] = IF i <= Len(a) THEN a[i] ELSE o[i - Len(a)]
    <2>1. /\ DOMAIN (a \o o) = 1 .. Len(a) + Len(o)
          /\ \A i \in 1 .. Len(a) + Len(o) :
               (a \o o)[i] = IF i <= Len(a) THEN a[i] ELSE o[i - Len(a)]
      BY <1>2, <1>5, JoinedAt
    <2>2. QED
      BY <1>5, <2>1, Zenon
  <1> HIDE DEF ao
  <1>9. IsSeq(ao \o b) /\ Times(m, ao \o b) = Times(m, ao) + Times(m, b)
          /\ Times(m, b) \in Nat
    BY <1>2, <1>7, Joined, TimesJoined
  <1>10. Times(m, s) = Times(m, a) + Times(m, b)
    BY <1>2, <1>3, TimesJoined
  <1>11. /\ DOMAIN s = 1 .. Len(a) + Len(b)
         /\ \A i \in DOMAIN s :
                s[i] = IF i <= Len(a) THEN a[i] ELSE b[i - Len(a)]
    BY <1>2, <1>3, JoinedAt
  <1>12. /\ DOMAIN (ao \o b) = 1 .. Len(ao) + Len(b)
         /\ \A i \in DOMAIN (ao \o b) :
              (ao \o b)[i] = IF i <= Len(ao) THEN ao[i] ELSE b[i - Len(ao)]
    BY <1>2, <1>7, JoinedAt
  <1>13. Len(a) \in Nat /\ Len(b) \in Nat
    BY <1>2, LenOfSeq
  <1>14. ASSUME NEW i \in DOMAIN (ao \o b)
         PROVE  (ao \o b)[i] = x \/ \E j \in DOMAIN s : (ao \o b)[i] = s[j]
    <2>1. CASE i <= Len(a)
      <3>1. (ao \o b)[i] = a[i] /\ i \in DOMAIN s /\ s[i] = a[i]
        BY <1>7, <1>8, <1>11, <1>12, <1>13, <2>1
      <3>2. QED
        BY <3>1
    <2>2. CASE i = Len(a) + 1
      <3>1. i - Len(a) = 1
        BY <1>13, <2>2
      <3>2. (ao \o b)[i] = ao[i] /\ ao[i] = o[i - Len(a)]
        BY <1>7, <1>8, <1>12, <1>13, <2>2
      <3>3. QED
        BY <1>5, <3>1, <3>2
    <2>3. CASE i > Len(a) + 1
      <3>1. /\ i \in Nat /\ i - 1 \in DOMAIN s /\ ~ (i - 1 <= Len(a))
            /\ ~ (i <= Len(ao))
        BY <1>7, <1>11, <1>12, <1>13, <2>3
      <3>2. /\ (ao \o b)[i] = b[i - (Len(a) + 1)]
            /\ s[i - 1] = b[(i - 1) - Len(a)]
        BY <1>7, <1>11, <1>12, <3>1
      <3>3. i - (Len(a) + 1) = (i - 1) - Len(a)
        BY <1>13, <3>1
      <3>4. QED
        BY <3>1, <3>2, <3>3
    <2>4. QED
      BY <1>7, <1>12, <1>13, <2>1, <2>2, <2>3
  <1>15. QED
    BY <1>4, <1>5, <1>7, <1>9, <1>10, <1>14

(* Who holds what, when one process changes.                               *)
LEMMA HoldersChange ==
  ASSUME NEW p \in Pids, Others(p), NEW x
  PROVE  LET A == {q \in Pids : proc[q].buf = x}
             B == {q \in Pids : proc'[q].buf = x}
         IN /\ Cardinality(A) \in Nat /\ Cardinality(B) \in Nat
            /\ Cardinality(B) + (IF proc[p].buf = x THEN 1 ELSE 0)
                 = Cardinality(A) + (IF proc'[p].buf = x THEN 1 ELSE 0)
            /\ A = {} => Cardinality(A) = 0
  <1> DEFINE A == {q \in Pids : proc[q].buf = x}
             B == {q \in Pids : proc'[q].buf = x}
             C == {q \in Pids \ {p} : proc[q].buf = x}
  <1>1. /\ A = IF proc[p].buf = x THEN C \cup {p} ELSE C
        /\ B = IF proc'[p].buf = x THEN C \cup {p} ELSE C
        /\ p \notin C /\ C \subseteq Pids
    BY DEF Others
  <1> HIDE DEF A, B, C
  <1>2. IsFiniteSet(C) /\ Cardinality(C) \in Nat
    BY <1>1, FS_Subset, FS_CardinalityType, BoundsAssumption
  <1>3. Cardinality(C \cup {p}) = Cardinality(C) + 1
    BY <1>1, <1>2, FS_AddElement
  <1>4. A = {} => Cardinality(A) = 0
    BY FS_EmptySet
  <1>5. /\ Cardinality(A) \in Nat /\ Cardinality(B) \in Nat
        /\ Cardinality(B) + (IF proc[p].buf = x THEN 1 ELSE 0)
             = Cardinality(A) + (IF proc'[p].buf = x THEN 1 ELSE 0)
    BY <1>1, <1>2, <1>3
  <1>6. QED
    BY <1>4, <1>5 DEF A, B

-----------------------------------------------------------------------------
(* Scenes of programs that send and receive messages (mq_posalji.c,        *)
(* mq_primi.c, sysv_msg_posalji.c, sysv_msg_primi.c).                      *)

QueueNames == {"/moj_mq", "kljuc"}

Program(p) == Scenes[scene].start[p]
Message(p) == Program(p)[2][3]
AllQueues == {o \in DOMAIN obj : obj[o].kind = "object"}

(* A process of such a scene: no signal, thread or child has to do with it *)
Alone(p) ==
  /\ proc[p].main = 0 /\ proc[p].parent = 0 /\ proc[p].pending = {}
  /\ proc[p].masked = {} /\ proc[p].handler["INT"] = <<>>
  /\ DOMAIN proc[p].reg = Variables

(* A sender that has not begun, has its queue, or has sent or left.        *)
SenderOK(p) ==
  /\ proc[p].buf = <<>>
  /\ \/ proc[p].code \in {Program(p), <<>>}
     \/ /\ proc[p].code = <<Program(p)[2]>>
        /\ proc[p].reg[Program(p)[2][2]] \in AllQueues

(* What a receiver still has to do when it has its queue, its message, and *)
(* when it has printed it.                                                 *)
Waiting == {<<receive("mq"), printf("buf"), unlink("/moj_mq")>>,
            <<receive("msqid"), printf("buf")>>}
Printing == {<<printf("buf"), unlink("/moj_mq")>>, <<printf("buf")>>}
Leaving == {<<unlink("/moj_mq")>>, <<>>}
ReceiverOK(p) ==
  \/ proc[p].code = Program(p) /\ proc[p].buf = <<>>
  \/ /\ proc[p].code \in Waiting /\ proc[p].buf = <<>>
     /\ proc[p].reg[proc[p].code[1][2]] \in AllQueues
  \/ proc[p].code \in Printing /\ proc[p].buf # <<>>
  \/ proc[p].code \in Leaving

QueueProcess(p) ==
  /\ Alone(p)
  /\ IF p \in DOMAIN Scenes[scene].start
     THEN /\ proc[p].code # <<>> =>
               proc[p].fd[1] = <<tty, "w">> /\ proc[p].reg["STDOUT"] = 1
          /\ IF Sends(Program(p)) THEN SenderOK(p)
             ELSE Receives(Program(p)) /\ ReceiverOK(p)
     ELSE proc[p].state = "none" /\ proc[p].buf = <<>>

(* Every message in a queue was put there by a sender that has done its    *)
(* work, and no text is anywhere that was not sent.                        *)
Sent(p) ==
  p \in DOMAIN Scenes[scene].start /\ Sends(Program(p)) /\ proc[p].code = <<>>
TextSent(t) ==
  \E o \in AllQueues : \E i \in DOMAIN obj[o].put : obj[o].put[i].text = t
PutsOK ==
  /\ \A o \in AllQueues : IsSeq(obj[o].put)
  /\ \A o \in AllQueues : \A i \in DOMAIN obj[o].put :
       \E p \in Pids : Sent(p) /\ obj[o].put[i] = Message(p)
  /\ \A a, b \in AllQueues : \A i \in DOMAIN obj[a].put :
         \A j \in DOMAIN obj[b].put :
       obj[a].put[i].text = obj[b].put[j].text => a = b /\ i = j
  /\ \A o \in AllQueues : \A i \in DOMAIN obj[o].data :
       \E j \in DOMAIN obj[o].put : obj[o].data[i] = obj[o].put[j]
TextsOK ==
  /\ tty \in DOMAIN obj /\ obj[tty].kind = "file"
  /\ \A i \in DOMAIN obj[tty].data : TextSent(obj[tty].data[i])
  /\ \A p \in Pids : proc[p].buf # <<>> =>
       \E o \in AllQueues : \E i \in DOMAIN obj[o].put :
         proc[p].buf = <<obj[o].put[i].text>>

QueuesOK ==
  Sending(Scenes[scene]) =>
    /\ \A name \in QueueNames : names[name] \in AllQueues \cup {0}
    /\ \A p \in Pids : QueueProcess(p)
    /\ PutsOK /\ TextsOK /\ MessagesKept

(* How often a message is printed, in its queue, or on its way.            *)
Count(m, o) ==
  Times(m.text, obj[tty].data) + Times(m, obj[o].data)
    + Cardinality({p \in Pids : proc[p].buf = <<m.text>>})

LEMMA KeptCount ==
  MessagesKept <=> \A o \in AllQueues : \A i \in DOMAIN obj[o].put :
                     Count(obj[o].put[i], o) = 1
  BY DEF MessagesKept, AllQueues, Count

LEMMA CountsKept ==
  ASSUME \A o \in AllQueues' : \A i \in DOMAIN obj'[o].put : \A x :
           x = obj'[o].put[i] => Count(x, o)' = 1
  PROVE  MessagesKept'
  <1>1. \A o \in DOMAIN obj' : obj'[o].kind = "object" => o \in AllQueues'
    BY DEF AllQueues
  <1>2. ASSUME NEW o \in DOMAIN obj', obj'[o].kind = "object",
               NEW i \in DOMAIN obj'[o].put
        PROVE  LET m == obj'[o].put[i] IN
               Times(m.text, obj'[tty].data) + Times(m, obj'[o].data)
                 + Cardinality({p \in Pids : proc'[p].buf = <<m.text>>}) = 1
    BY <1>1, <1>2 DEF Count
  <1>3. QED
    BY <1>2, Zenon DEF MessagesKept

(* Where a step puts nothing anywhere and no process takes a text, all     *)
(* stays in order.                                                         *)
LEMMA QuietQueues ==
  ASSUME PutsOK, TextsOK, MessagesKept, scene' = scene, KindsKept,
         obj'[tty].data = obj[tty].data,
         \A o \in AllQueues :
           obj'[o].put = obj[o].put /\ obj'[o].data = obj[o].data,
         \A o \in DOMAIN obj' \ DOMAIN obj : obj'[o].kind = "object" =>
           obj'[o].put = <<>> /\ obj'[o].data = <<>>,
         \A q \in Pids : /\ proc'[q].buf = proc[q].buf
                         /\ proc[q].code = <<>> => proc'[q].code = <<>>
  PROVE  PutsOK' /\ TextsOK' /\ MessagesKept' /\ AllQueues \subseteq AllQueues'
  <1>1. AllQueues \subseteq AllQueues'
    BY DEF AllQueues, KindsKept
  <1>2. \A o \in AllQueues' \ AllQueues : obj'[o].put = <<>>
            /\ obj'[o].data = <<>>
    BY DEF AllQueues, KindsKept
  <1>3. IsSeq(<<>>) /\ DOMAIN <<>> = {}
    BY Short
  <1>4. \A q \in Pids : Sent(q) => Sent(q)' /\ Message(q)' = Message(q)
    BY DEF Sent, Message, Program
  <1>5. \A t : TextSent(t) => TextSent(t)'
    BY <1>1 DEF TextSent
  <1>6. \A o \in AllQueues' : IsSeq(obj'[o].put)
    BY <1>2, <1>3 DEF PutsOK
  <1>7. ASSUME NEW o \in AllQueues', NEW i \in DOMAIN obj'[o].put
        PROVE  /\ o \in AllQueues /\ i \in DOMAIN obj[o].put
               /\ obj'[o].put[i] = obj[o].put[i]
    BY <1>2, <1>3
  <1>8. ASSUME NEW o \in AllQueues', NEW i \in DOMAIN obj'[o].data
        PROVE  /\ o \in AllQueues /\ i \in DOMAIN obj[o].data
               /\ obj'[o].data[i] = obj[o].data[i]
    BY <1>2, <1>3
  <1>9. PutsOK'
    <2>1. \A o \in AllQueues' : \A i \in DOMAIN obj'[o].put :
            \E p \in Pids : Sent(p)' /\ obj'[o].put[i] = Message(p)'
      BY <1>4, <1>7 DEF PutsOK
    <2>2. ASSUME NEW a \in AllQueues', NEW b \in AllQueues',
                 NEW i \in DOMAIN obj'[a].put, NEW j \in DOMAIN obj'[b].put,
                 obj'[a].put[i].text = obj'[b].put[j].text
          PROVE  a = b /\ i = j
      BY <1>7, <2>2 DEF PutsOK
    <2>3. \A o \in AllQueues' : \A i \in DOMAIN obj'[o].data :
            \E j \in DOMAIN obj'[o].put : obj'[o].data[i] = obj'[o].put[j]
      BY <1>8 DEF PutsOK
    <2>4. QED
      BY <1>6, <2>1, <2>2, <2>3 DEF PutsOK
  <1>10. TextsOK'
    BY <1>1, <1>5 DEF TextsOK, KindsKept
  <1>11. MessagesKept'
    <2>1. ASSUME NEW o \in AllQueues', NEW i \in DOMAIN obj'[o].put, NEW x,
                 x = obj'[o].put[i]
          PROVE  Count(x, o)' = 1
      <3>1. Count(x, o) = 1
        BY <1>7, <2>1, KeptCount
      <3>2. {q \in Pids : proc'[q].buf = <<x.text>>}
              = {q \in Pids : proc[q].buf = <<x.text>>}
        OBVIOUS
      <3>3. QED
        BY <1>7, <3>1, <3>2 DEF Count
    <2>2. QED
      BY <2>1, CountsKept
  <1>12. QED
    BY <1>1, <1>9, <1>10, <1>11

(* One element more at the end.                                            *)
LEMMA AppendedAt ==
  ASSUME NEW s, IsSeq(s), NEW x
  PROVE  /\ IsSeq(Append(s, x))
         /\ Len(s) \in Nat /\ DOMAIN s = 1 .. Len(s)
         /\ DOMAIN Append(s, x) = 1 .. Len(s) + 1
         /\ \A i \in 1 .. Len(s) : Append(s, x)[i] = s[i]
         /\ Append(s, x)[Len(s) + 1] = x
  <1> DEFINE S == Range(s) \cup {x}
  <1>1. s \in Seq(S) /\ x \in S
    BY SeqMonotonic DEF IsSeq
  <1> HIDE DEF S
  <1>2. /\ Append(s, x) \in Seq(S) /\ Len(Append(s, x)) = Len(s) + 1
        /\ \A i \in 1 .. Len(s) : Append(s, x)[i] = s[i]
        /\ Append(s, x)[Len(s) + 1] = x
    BY <1>1, AppendProperties
  <1>3. QED
    BY <1>1, <1>2, AnySeq

(* A message that is sent is in its queue, once; nobody sent its text      *)
(* before.                                                                 *)
LEMMA SentQueues ==
  ASSUME IInv, QueueScene(Scenes[scene]), PutsOK, TextsOK, MessagesKept,
         scene' = scene, NEW p \in Pids, p \in DOMAIN Scenes[scene].start,
         Sends(Program(p)), proc[p].code # <<>>, proc'[p].code = <<>>,
         Others(p), proc'[p].buf = proc[p].buf, NEW o \in AllQueues,
         NEW n \in 1 .. Len(obj[o].data) + 1,
         DOMAIN obj' = DOMAIN obj, obj'[o].kind = obj[o].kind,
         \A x \in DOMAIN obj \ {o} : obj'[x] = obj[x],
         obj'[o].put = Append(obj[o].put, Message(p)),
         obj'[o].data = InsertAt(obj[o].data, n, Message(p))
  PROVE  PutsOK' /\ TextsOK' /\ MessagesKept' /\ AllQueues' = AllQueues
  <1> DEFINE m == Message(p)
             k == Len(obj[o].put)
  <1>1. AllQueues' = AllQueues
    BY DEF AllQueues
  <1>2. /\ k \in Nat /\ DOMAIN obj[o].put = 1 .. k
        /\ IsSeq(obj'[o].put) /\ DOMAIN obj'[o].put = 1 .. k + 1
        /\ \A i \in 1 .. k : obj'[o].put[i] = obj[o].put[i]
        /\ obj'[o].put[k + 1] = m
    BY AppendedAt DEF PutsOK
  <1>3. IsSeq(obj[o].data)
    BY DEF IInv, ObjectsOK, ObjectOK, AllQueues
  <1>4. /\ \A i \in DOMAIN obj'[o].data :
             \/ obj'[o].data[i] = m
             \/ \E j \in DOMAIN obj[o].data : obj'[o].data[i] = obj[o].data[j]
        /\ \A x : /\ Times(x, obj[o].data) \in Nat
                  /\ Times(x, obj'[o].data)
                       = Times(x, obj[o].data) + IF m = x THEN 1 ELSE 0
    BY <1>3, TimesInserted
  <1>5. \A q \in Pids : Sent(q) => Sent(q)' /\ Message(q)' = Message(q)
    BY DEF Sent, Message, Program, Others
  <1>6. Sent(p)' /\ Message(p)' = m
    BY DEF Sent, Message, Program
  <1>7. ASSUME NEW a \in AllQueues, NEW i \in DOMAIN obj[a].put
        PROVE  obj[a].put[i].text # m.text
    <2>1. PICK q \in Pids : Sent(q) /\ obj[a].put[i] = Message(q)
      BY DEF PutsOK
    <2>2. q # p
      BY <2>1 DEF Sent
    <2>3. QED
      BY <2>1, <2>2 DEF QueueScene, Sent, Message, Program
  <1>8. \A a \in AllQueues : a # o =>
            obj'[a].put = obj[a].put /\ obj'[a].data = obj[a].data
    BY DEF AllQueues
  <1>9. tty # o /\ obj'[tty] = obj[tty]
    BY DEF TextsOK, AllQueues
  <1> HIDE DEF m, k
  <1>10. ASSUME NEW a \in AllQueues, NEW i \in DOMAIN obj'[a].put
         PROVE  \/ i \in DOMAIN obj[a].put /\ obj'[a].put[i] = obj[a].put[i]
                \/ a = o /\ i = k + 1 /\ obj'[a].put[i] = m
    BY <1>2, <1>8
  <1>11. \A a \in AllQueues : \A i \in DOMAIN obj[a].put :
           i \in DOMAIN obj'[a].put /\ obj'[a].put[i] = obj[a].put[i]
    <2>1. \A i \in DOMAIN obj[o].put :
            i \in DOMAIN obj'[o].put /\ obj'[o].put[i] = obj[o].put[i]
      <3>1. \A i \in 1 .. k : i \in 1 .. k + 1
        BY <1>2
      <3>2. QED
        BY <1>2, <3>1
    <2>2. QED
      BY <1>8, <2>1
  <1>12. PutsOK'
    <2>1. \A a \in AllQueues' : IsSeq(obj'[a].put)
      BY <1>1, <1>2, <1>8 DEF PutsOK
    <2>2. \A a \in AllQueues' : \A i \in DOMAIN obj'[a].put :
            \E q \in Pids : Sent(q)' /\ obj'[a].put[i] = Message(q)'
      BY <1>1, <1>5, <1>6, <1>10 DEF PutsOK
    <2>3. ASSUME NEW a \in AllQueues', NEW b \in AllQueues',
                 NEW i \in DOMAIN obj'[a].put, NEW j \in DOMAIN obj'[b].put,
                 obj'[a].put[i].text = obj'[b].put[j].text
          PROVE  a = b /\ i = j
      <3>1. CASE i \in DOMAIN obj[a].put /\ obj'[a].put[i] = obj[a].put[i]
        <4>1. j \in DOMAIN obj[b].put /\ obj'[b].put[j] = obj[b].put[j]
          BY <1>1, <1>7, <1>10, <2>3, <3>1
        <4>2. QED
          BY <1>1, <2>3, <3>1, <4>1 DEF PutsOK
      <3>2. CASE a = o /\ i = k + 1 /\ obj'[a].put[i] = m
        BY <1>1, <1>7, <1>10, <2>3, <3>2
      <3>3. QED
        BY <1>1, <1>10, <3>1, <3>2
    <2>4. ASSUME NEW a \in AllQueues', NEW i \in DOMAIN obj'[a].data
          PROVE  \E j \in DOMAIN obj'[a].put : obj'[a].data[i] = obj'[a].put[j]
      <3>1. CASE a # o
        BY <1>1, <1>8, <2>4, <3>1 DEF PutsOK
      <3>2. CASE a = o /\ obj'[a].data[i] = m
        <4>1. k + 1 \in DOMAIN obj'[o].put
          BY <1>2
        <4>2. QED
          BY <1>2, <3>2, <4>1
      <3>3. CASE a = o /\ \E j \in DOMAIN obj[o].data :
                obj'[a].data[i] = obj[o].data[j]
        BY <1>11, <3>3 DEF PutsOK
      <3>4. QED
        BY <1>4, <2>4, <3>1, <3>2, <3>3
    <2>5. QED
      BY <2>1, <2>2, <2>3, <2>4 DEF PutsOK
  <1>13. TextsOK'
    <2>1. \A t : TextSent(t) => TextSent(t)'
      BY <1>1, <1>11 DEF TextSent
    <2>2. \A i \in DOMAIN obj'[tty].data : TextSent(obj[tty].data[i])'
      BY <1>9, <2>1 DEF TextsOK
    <2>3. ASSUME NEW q \in Pids, proc'[q].buf # <<>>
          PROVE  \E a \in AllQueues' : \E i \in DOMAIN obj'[a].put :
                   proc'[q].buf = <<obj'[a].put[i].text>>
      <3>1. proc'[q].buf = proc[q].buf
        BY DEF Others
      <3>2. PICK a \in AllQueues : \E i \in DOMAIN obj[a].put :
              proc[q].buf = <<obj[a].put[i].text>>
        BY <2>3, <3>1 DEF TextsOK
      <3>3. QED
        BY <1>1, <1>11, <3>1, <3>2
    <2>4. QED
      BY <1>9, <2>2, <2>3 DEF TextsOK
  <1>14. \A x : {q \in Pids : proc'[q].buf = x} = {q \in Pids : proc[q].buf = x}
    BY DEF Others
  <1>15. \A x, a : obj'[a].data = obj[a].data => Count(x, a)' = Count(x, a)
    BY <1>9, <1>14 DEF Count
  <1>16. ASSUME NEW a \in AllQueues', NEW i \in DOMAIN obj'[a].put, NEW x,
                x = obj'[a].put[i]
         PROVE  Count(x, a)' = 1
    <2>1. CASE i \in DOMAIN obj[a].put /\ obj[a].put[i] = x
      <3>1. Count(x, a) = 1
        BY <1>1, <2>1, KeptCount
      <3>2. CASE a # o
        BY <1>1, <1>8, <1>15, <3>1, <3>2
      <3>3. CASE a = o
        <4>1. x # m
          BY <1>1, <1>7, <2>1
        <4>2. Times(x, obj'[a].data) = Times(x, obj[a].data)
          BY <1>4, <3>3, <4>1
        <4>3. QED
          BY <1>9, <1>14, <3>1, <4>2 DEF Count
      <3>4. QED
        BY <3>2, <3>3
    <2>2. CASE a = o /\ x = m
      <3>1. ASSUME NEW t, TextSent(t)
            PROVE  t # x.text
        BY <1>7, <2>2, <3>1 DEF TextSent
      <3>2. Times(x.text, obj'[tty].data) = 0
        <4>1. \A j \in DOMAIN obj'[tty].data : obj'[tty].data[j] # x.text
          BY <1>9, <3>1 DEF TextsOK
        <4>2. QED
          BY <4>1, TimesNone
      <3>3. Times(x, obj'[a].data) = 1
        <4>1. \A j \in DOMAIN obj[o].data : obj[o].data[j] # x
          BY <1>7, <2>2 DEF PutsOK
        <4>2. Times(x, obj[o].data) = 0
          BY <4>1, TimesNone
        <4>3. QED
          BY <1>4, <2>2, <4>2
      <3>4. Cardinality({q \in Pids : proc'[q].buf = <<x.text>>}) = 0
        <4>1. ASSUME NEW q \in Pids
              PROVE  proc'[q].buf # <<x.text>>
          <5>1. <<x.text>> # <<>> /\ \A t : <<x.text>> = <<t>> => x.text = t
            OBVIOUS
          <5>2. proc[q].buf # <<x.text>>
            BY <1>7, <2>2, <5>1 DEF TextsOK
          <5>3. QED
            BY <1>14, <5>2
        <4>2. {q \in Pids : proc'[q].buf = <<x.text>>} = {}
          BY <4>1
        <4>3. QED
          BY <4>2, FS_EmptySet
      <3>5. QED
        BY <3>2, <3>3, <3>4 DEF Count
    <2>3. QED
      BY <1>1, <1>10, <1>16, <2>1, <2>2
  <1>17. MessagesKept'
    BY <1>16, CountsKept
  <1>18. QED
    BY <1>1, <1>12, <1>13, <1>17

(* A message that is received leaves its queue, and the receiver has it.   *)
LEMMA ReceivedQueues ==
  ASSUME IInv, PutsOK, TextsOK, MessagesKept, scene' = scene, NEW p \in Pids,
         proc[p].code = <<>> => proc'[p].code = <<>>, Others(p),
         proc[p].buf = <<>>, NEW o \in AllQueues, obj[o].data # <<>>,
         proc'[p].buf = <<Head(obj[o].data).text>>,
         DOMAIN obj' = DOMAIN obj, obj'[o].kind = obj[o].kind,
         \A x \in DOMAIN obj \ {o} : obj'[x] = obj[x],
         obj'[o].put = obj[o].put, obj'[o].data = Tail(obj[o].data)
  PROVE  PutsOK' /\ TextsOK' /\ MessagesKept' /\ AllQueues' = AllQueues
  <1> DEFINE h == Head(obj[o].data)
  <1>1. AllQueues' = AllQueues
    BY DEF AllQueues
  <1>2. IsSeq(obj[o].data)
    BY DEF IInv, ObjectsOK, ObjectOK, AllQueues
  <1>3. /\ \A x : /\ Times(x, Tail(obj[o].data)) \in Nat
                  /\ Times(x, obj[o].data) = Times(x, Tail(obj[o].data))
                                               + IF h = x THEN 1 ELSE 0
        /\ 1 \in DOMAIN obj[o].data /\ h = obj[o].data[1]
        /\ \A i \in DOMAIN Tail(obj[o].data) :
             /\ i + 1 \in DOMAIN obj[o].data
             /\ Tail(obj[o].data)[i] = obj[o].data[i + 1]
    BY <1>2, TimesTail
  <1>4. \A q \in Pids : Sent(q) => Sent(q)' /\ Message(q)' = Message(q)
    BY DEF Sent, Message, Program, Others
  <1>5. \A a \in AllQueues : /\ obj'[a].put = obj[a].put
                             /\ a # o => obj'[a].data = obj[a].data
    BY DEF AllQueues
  <1>6. tty # o /\ obj'[tty] = obj[tty]
    BY DEF TextsOK, AllQueues
  <1>7. PICK j \in DOMAIN obj[o].put : h = obj[o].put[j]
    BY <1>3 DEF PutsOK
  <1>8. ASSUME NEW a \in AllQueues, NEW i \in DOMAIN obj[a].put,
               obj[a].put[i] # h \/ a # o
        PROVE  obj[a].put[i].text # h.text
    BY <1>7, <1>8 DEF PutsOK
  <1> HIDE DEF h
  <1>9. PutsOK'
    <2>1. \A a \in AllQueues' : IsSeq(obj'[a].put)
      BY <1>1, <1>5 DEF PutsOK
    <2>2. \A a \in AllQueues' : \A i \in DOMAIN obj'[a].put :
            \E q \in Pids : Sent(q)' /\ obj'[a].put[i] = Message(q)'
      BY <1>1, <1>4, <1>5 DEF PutsOK
    <2>3. ASSUME NEW a \in AllQueues', NEW b \in AllQueues',
                 NEW i \in DOMAIN obj'[a].put, NEW k \in DOMAIN obj'[b].put,
                 obj'[a].put[i].text = obj'[b].put[k].text
          PROVE  a = b /\ i = k
      BY <1>1, <1>5, <2>3 DEF PutsOK
    <2>4. ASSUME NEW a \in AllQueues', NEW i \in DOMAIN obj'[a].data
          PROVE  \E k \in DOMAIN obj'[a].put : obj'[a].data[i] = obj'[a].put[k]
      <3>1. CASE a # o
        BY <1>1, <1>5, <2>4, <3>1 DEF PutsOK
      <3>2. CASE a = o
        <4>1. i + 1 \in DOMAIN obj[o].data
                  /\ obj'[a].data[i] = obj[o].data[i + 1]
          BY <1>3, <2>4, <3>2
        <4>2. QED
          BY <1>5, <3>2, <4>1 DEF PutsOK
      <3>3. QED
        BY <3>1, <3>2
    <2>5. QED
      BY <2>1, <2>2, <2>3, <2>4 DEF PutsOK
  <1>10. TextsOK'
    <2>1. \A t : TextSent(t) => TextSent(t)'
      BY <1>1, <1>5 DEF TextSent
    <2>2. \A i \in DOMAIN obj'[tty].data : TextSent(obj[tty].data[i])'
      BY <1>6, <2>1 DEF TextsOK
    <2>3. ASSUME NEW q \in Pids, proc'[q].buf # <<>>
          PROVE  \E a \in AllQueues' : \E i \in DOMAIN obj'[a].put :
                   proc'[q].buf = <<obj'[a].put[i].text>>
      <3>1. CASE q = p
        <4>1. proc'[p].buf = <<obj'[o].put[j].text>> /\ j \in DOMAIN obj'[o].put
          BY <1>5, <1>7 DEF h
        <4>2. QED
          BY <1>1, <3>1, <4>1
      <3>2. CASE q # p
        <4>1. proc'[q].buf = proc[q].buf
          BY <3>2 DEF Others
        <4>2. PICK a \in AllQueues : \E i \in DOMAIN obj[a].put :
                proc[q].buf = <<obj[a].put[i].text>>
          BY <2>3, <4>1 DEF TextsOK
        <4>3. QED
          BY <1>1, <1>5, <4>1, <4>2
      <3>3. QED
        BY <3>1, <3>2
    <2>4. tty \in DOMAIN obj' /\ obj'[tty].kind = "file"
      BY <1>6 DEF TextsOK
    <2>5. QED
      BY <2>2, <2>3, <2>4 DEF TextsOK
  <1>11. ASSUME NEW a \in AllQueues', NEW i \in DOMAIN obj'[a].put, NEW x,
                x = obj'[a].put[i]
         PROVE  Count(x, a)' = 1
    <2>1. i \in DOMAIN obj[a].put /\ obj[a].put[i] = x /\ Count(x, a) = 1
      BY <1>1, <1>5, <1>11, KeptCount
    <2> DEFINE A == {q \in Pids : proc[q].buf = <<x.text>>}
               B == {q \in Pids : proc'[q].buf = <<x.text>>}
               y == <<x.text>>
    <2>2. /\ Cardinality(A) \in Nat /\ Cardinality(B) \in Nat
          /\ Cardinality(B) + (IF proc[p].buf = y THEN 1 ELSE 0)
               = Cardinality(A) + (IF proc'[p].buf = y THEN 1 ELSE 0)
      <3> HIDE DEF y
      <3>1. LET C == {q \in Pids : proc[q].buf = y}
                D == {q \in Pids : proc'[q].buf = y}
            IN /\ Cardinality(C) \in Nat /\ Cardinality(D) \in Nat
               /\ Cardinality(D) + (IF proc[p].buf = y THEN 1 ELSE 0)
                    = Cardinality(C) + (IF proc'[p].buf = y THEN 1 ELSE 0)
        BY HoldersChange
      <3>2. QED
        BY <3>1 DEF y
    <2>3. proc[p].buf # y /\ (proc'[p].buf = y <=> h.text = x.text)
      <3>1. \A t, u : <<t>> = <<u>> => t = u
        OBVIOUS
      <3>2. QED
        BY <3>1 DEF h
    <2>4. /\ Count(x, a) = Times(x.text, obj[tty].data) + Times(x, obj[a].data)
                             + Cardinality(A)
          /\ Count(x, a)' = Times(x.text, obj'[tty].data)
                             + Times(x, obj'[a].data) + Cardinality(B)
      BY DEF Count
    <2> HIDE DEF A, B, y
    <2>5. IsSeq(obj[tty].data) /\ Times(x.text, obj[tty].data) \in Nat
      <3>1. IsSeq(obj[tty].data)
        BY DEF IInv, ObjectsOK, ObjectOK, TextsOK
      <3>2. QED
        BY <3>1, OneMore
    <2>6. CASE a = o /\ x = h
      <3>1. Times(x, obj[a].data) = Times(x, obj'[a].data) + 1
              /\ Times(x, obj'[a].data) \in Nat
        BY <1>3, <2>6
      <3>2. Cardinality(B) = Cardinality(A) + 1
        BY <2>2, <2>3, <2>6
      <3>3. QED
        BY <1>6, <2>1, <2>2, <2>4, <2>5, <3>1, <3>2
    <2>7. CASE a # o \/ x # h
      <3>1. h.text # x.text
        BY <1>1, <1>8, <2>1, <2>7
      <3>2. Cardinality(B) = Cardinality(A)
        BY <2>2, <2>3, <3>1
      <3>3. Times(x, obj'[a].data) = Times(x, obj[a].data)
        BY <1>1, <1>3, <1>5, <2>7
      <3>4. QED
        BY <1>6, <2>1, <2>4, <3>2, <3>3
    <2>8. QED
      BY <2>6, <2>7
  <1>12. MessagesKept'
    BY <1>11, CountsKept
  <1>13. QED
    BY <1>1, <1>9, <1>10, <1>12

(* A text that is printed is on the screen, and no longer on its way.      *)
LEMMA PrintedQueues ==
  ASSUME IInv, PutsOK, TextsOK, MessagesKept, scene' = scene, NEW p \in Pids,
         proc[p].code = <<>> => proc'[p].code = <<>>, Others(p),
         proc[p].buf # <<>>, proc'[p].buf = <<>>,
         DOMAIN obj' = DOMAIN obj, obj'[tty].kind = obj[tty].kind,
         obj'[tty].data = obj[tty].data \o proc[p].buf,
         \A x \in DOMAIN obj \ {tty} : obj'[x] = obj[x]
  PROVE  PutsOK' /\ TextsOK' /\ MessagesKept' /\ AllQueues' = AllQueues
  <1>1. AllQueues' = AllQueues
    BY DEF AllQueues, TextsOK
  <1>2. \A q \in Pids : Sent(q) => Sent(q)' /\ Message(q)' = Message(q)
    BY DEF Sent, Message, Program, Others
  <1>3. \A a \in AllQueues : obj'[a] = obj[a]
    BY DEF AllQueues, TextsOK
  <1>4. PutsOK'
    BY <1>1, <1>2, <1>3 DEF PutsOK
  <1>5. \A t : TextSent(t) => TextSent(t)'
    BY <1>1, <1>3 DEF TextSent
  <1>6. PICK t : proc[p].buf = <<t>> /\ TextSent(t)
    BY DEF TextsOK, TextSent
  <1>7. IsSeq(obj[tty].data)
    BY DEF IInv, ObjectsOK, ObjectOK, TextsOK
  <1>8. \A x : /\ Times(x, obj[tty].data) \in Nat
               /\ Times(x, obj'[tty].data) = Times(x, obj[tty].data)
                                               + IF t = x THEN 1 ELSE 0
    BY <1>6, <1>7, OneMore
  <1>9. \A i \in DOMAIN obj'[tty].data :
          obj'[tty].data[i] = t \/ \E j \in DOMAIN obj[tty].data :
                                     obj'[tty].data[i] = obj[tty].data[j]
    <2> DEFINE s == obj[tty].data
               w == <<t>>
    <2>1. IsSeq(s) /\ IsSeq(w) /\ Len(w) = 1 /\ w[1] = t
      BY <1>7, Short
    <2>2. obj'[tty].data = s \o w
      BY <1>6
    <2> HIDE DEF s, w
    <2>3. /\ DOMAIN (s \o w) = 1 .. Len(s) + 1
          /\ \A i \in 1 .. Len(s) + 1 :
               (s \o w)[i] = IF i <= Len(s) THEN s[i] ELSE w[i - Len(s)]
          /\ Len(s) \in Nat /\ DOMAIN s = 1 .. Len(s)
      <3>1. /\ DOMAIN (s \o w) = 1 .. Len(s) + Len(w)
            /\ \A i \in 1 .. Len(s) + Len(w) :
                 (s \o w)[i] = IF i <= Len(s) THEN s[i] ELSE w[i - Len(s)]
        BY <2>1, JoinedAt
      <3>2. QED
        BY <2>1, <3>1, LenOfSeq
    <2>4. ASSUME NEW i \in 1 .. Len(s) + 1
          PROVE  (s \o w)[i] = t \/ \E j \in DOMAIN s : (s \o w)[i] = s[j]
      <3>1. CASE i <= Len(s)
        BY <2>3, <3>1
      <3>2. CASE ~ (i <= Len(s))
        <4>1. i - Len(s) = 1
          BY <2>3, <3>2
        <4>2. QED
          BY <2>1, <2>3, <3>2, <4>1
      <3>3. QED
        BY <3>1, <3>2
    <2>5. QED
      BY <2>2, <2>3, <2>4 DEF s
  <1>10. TextsOK'
    <2>1. \A i \in DOMAIN obj'[tty].data : TextSent(obj[tty].data[i])'
      <3>1. ASSUME NEW i \in DOMAIN obj'[tty].data, NEW u,
                   u = obj'[tty].data[i]
            PROVE  TextSent(u)'
        <4>1. TextSent(u)
          BY <1>6, <1>9, <3>1 DEF TextsOK
        <4>2. QED
          BY <1>5, <4>1
      <3>2. QED
        BY <3>1 DEF TextSent
    <2>2. ASSUME NEW q \in Pids, proc'[q].buf # <<>>
          PROVE  \E a \in AllQueues' : \E i \in DOMAIN obj'[a].put :
                   proc'[q].buf = <<obj'[a].put[i].text>>
      <3>1. q # p /\ proc'[q].buf = proc[q].buf
        BY <2>2 DEF Others
      <3>2. PICK a \in AllQueues : \E i \in DOMAIN obj[a].put :
              proc[q].buf = <<obj[a].put[i].text>>
        BY <2>2, <3>1 DEF TextsOK
      <3>3. QED
        BY <1>1, <1>3, <3>1, <3>2
    <2>3. tty \in DOMAIN obj' /\ obj'[tty].kind = "file"
      BY DEF TextsOK
    <2>4. QED
      BY <2>1, <2>2, <2>3 DEF TextsOK
  <1>11. ASSUME NEW a \in AllQueues', NEW i \in DOMAIN obj'[a].put, NEW x,
                x = obj'[a].put[i]
         PROVE  Count(x, a)' = 1
    <2>1. i \in DOMAIN obj[a].put /\ obj[a].put[i] = x /\ Count(x, a) = 1
      BY <1>1, <1>3, <1>11, KeptCount
    <2> DEFINE A == {q \in Pids : proc[q].buf = <<x.text>>}
               B == {q \in Pids : proc'[q].buf = <<x.text>>}
               y == <<x.text>>
    <2>2. /\ Cardinality(A) \in Nat /\ Cardinality(B) \in Nat
          /\ Cardinality(B) + (IF proc[p].buf = y THEN 1 ELSE 0)
               = Cardinality(A) + (IF proc'[p].buf = y THEN 1 ELSE 0)
      <3> HIDE DEF y
      <3>1. LET C == {q \in Pids : proc[q].buf = y}
                D == {q \in Pids : proc'[q].buf = y}
            IN /\ Cardinality(C) \in Nat /\ Cardinality(D) \in Nat
               /\ Cardinality(D) + (IF proc[p].buf = y THEN 1 ELSE 0)
                    = Cardinality(C) + (IF proc'[p].buf = y THEN 1 ELSE 0)
        BY HoldersChange
      <3>2. QED
        BY <3>1 DEF y
    <2>3. proc'[p].buf # y /\ (proc[p].buf = y <=> t = x.text)
      <3>1. \A u, v : <<u>> = <<v>> => u = v
        OBVIOUS
      <3>2. QED
        BY <1>6, <3>1
    <2>4. /\ Count(x, a) = Times(x.text, obj[tty].data) + Times(x, obj[a].data)
                             + Cardinality(A)
          /\ Count(x, a)' = Times(x.text, obj'[tty].data)
                             + Times(x, obj'[a].data) + Cardinality(B)
      BY DEF Count
    <2> HIDE DEF A, B, y
    <2>5. Times(x, obj'[a].data) = Times(x, obj[a].data)
            /\ Times(x, obj[a].data) \in Nat
      <3>1. IsSeq(obj[a].data)
        BY <1>1 DEF IInv, ObjectsOK, ObjectOK, AllQueues
      <3>2. QED
        BY <1>1, <1>3, <3>1, OneMore
    <2>6. Cardinality(B) + (IF t = x.text THEN 1 ELSE 0) = Cardinality(A)
      BY <2>2, <2>3
    <2>7. /\ Times(x.text, obj[tty].data) \in Nat
          /\ Times(x.text, obj'[tty].data)
               = Times(x.text, obj[tty].data) + IF t = x.text THEN 1 ELSE 0
      BY <1>8
    <2>8. CASE t = x.text
      <3>1. Cardinality(B) + 1 = Cardinality(A)
        BY <2>6, <2>8, <2>2
      <3>2. Times(x.text, obj'[tty].data) = Times(x.text, obj[tty].data) + 1
        BY <2>7, <2>8
      <3>3. QED
        BY <2>1, <2>2, <2>4, <2>5, <2>7, <3>1, <3>2
    <2>9. CASE t # x.text
      <3>1. Cardinality(B) = Cardinality(A)
        BY <2>6, <2>9, <2>2
      <3>2. Times(x.text, obj'[tty].data) = Times(x.text, obj[tty].data)
        BY <2>7, <2>9
      <3>3. QED
        BY <2>1, <2>2, <2>4, <2>5, <2>7, <3>1, <3>2
    <2>10. QED
      BY <2>8, <2>9
  <1>12. MessagesKept'
    BY <1>11, CountsKept
  <1>13. QED
    BY <1>1, <1>4, <1>10, <1>12

-----------------------------------------------------------------------------
(* The steps of such a scene.                                              *)

(* Short codes.                                                            *)
LEMMA ShortCodes ==
  /\ \A a : <<a>> # <<>> /\ Head(<<a>>) = a /\ Tail(<<a>>) = <<>>
         /\ <<a>>[1] = a
  /\ \A a, b : /\ <<a, b>> # <<>> /\ Head(<<a, b>>) = a
               /\ Tail(<<a, b>>) = <<b>>
               /\ <<a, b>>[1] = a /\ <<a, b>>[2] = b
  /\ \A a, b, c : /\ <<a, b, c>> # <<>> /\ Head(<<a, b, c>>) = a
                  /\ Tail(<<a, b, c>>) = <<b, c>> /\ <<a, b, c>>[1] = a
  /\ \A a, b, c, d : /\ <<a, b, c, d>> # <<>> /\ Head(<<a, b, c, d>>) = a
                     /\ Tail(<<a, b, c, d>>) = <<b, c, d>>
  <1>1. \A a : <<a>> # <<>> /\ Head(<<a>>) = a /\ Tail(<<a>>) = <<>>
            /\ <<a>>[1] = a
    OBVIOUS
  <1>2. \A a, b : /\ <<a, b>> # <<>> /\ Head(<<a, b>>) = a
                  /\ Tail(<<a, b>>) = <<b>>
                  /\ <<a, b>>[1] = a /\ <<a, b>>[2] = b
    OBVIOUS
  <1>3. \A a, b, c : /\ <<a, b, c>> # <<>> /\ Head(<<a, b, c>>) = a
                     /\ Tail(<<a, b, c>>) = <<b, c>> /\ <<a, b, c>>[1] = a
    OBVIOUS
  <1>4. \A a, b, c, d : /\ <<a, b, c, d>> # <<>> /\ Head(<<a, b, c, d>>) = a
                        /\ Tail(<<a, b, c, d>>) = <<b, c, d>>
    OBVIOUS
  <1>5. QED
    BY <1>1, <1>2, <1>3, <1>4

(* The two calls of a sender.                                              *)
LEMMA SenderCode ==
  ASSUME NEW c, Sends(c)
  PROVE  \E r \in {"mq", "msqid"} : \E name \in QueueNames :
           c = << <<"get", r, name, TRUE>>, <<"send", r, c[2][3]>> >>
  <1> DEFINE m == c[2][3]
             rec == [text |-> m.text, priority |-> m.priority]
             one == [text |-> m.text, priority |-> 1]
             g == <<"get", "mq", "/moj_mq", TRUE>>
             k == <<"get", "msqid", "kljuc", TRUE>>
             s == <<"send", "mq", rec>>
             t == <<"send", "msqid", one>>
  <1>1. c \in {<<g, s>>, <<k, t>>}
    BY DEF Sends, MqPosalji, SysvPosalji, get, send
  <1>2. s[3] = rec /\ t[3] = one
    OBVIOUS
  <1>3. CASE c = <<g, s>>
    <2> HIDE DEF g, s, rec
    <2>1. c[2] = s
      BY <1>3
    <2>2. m = rec
      BY <1>2, <2>1
    <2>3. c = << <<"get", "mq", "/moj_mq", TRUE>>, <<"send", "mq", m>> >>
      BY <1>3, <2>2 DEF g, s
    <2>4. QED
      BY <2>3 DEF QueueNames
  <1>4. CASE c = <<k, t>>
    <2> HIDE DEF k, t, one
    <2>1. c[2] = t
      BY <1>4
    <2>2. m = one
      BY <1>2, <2>1
    <2>3. c = << <<"get", "msqid", "kljuc", TRUE>>, <<"send", "msqid", m>> >>
      BY <1>4, <2>2 DEF k, t
    <2>4. QED
      BY <2>3 DEF QueueNames
  <1>5. QED
    BY <1>1, <1>3, <1>4

(* What a receiver begins with, and what is left after each call.          *)
LEMMA ReceiverCode ==
  /\ \A c : Receives(c) =>
       \E r \in {"mq", "msqid"} : \E name \in QueueNames :
         /\ c # <<>> /\ Head(c) = <<"get", r, name, FALSE>>
         /\ Tail(c) \in Waiting /\ Tail(c)[1] = receive(r)
  /\ \A c \in Waiting : /\ c # <<>> /\ Head(c) = c[1] /\ Tail(c) \in Printing
                        /\ c[1] \in {receive("mq"), receive("msqid")}
  /\ \A c \in Printing : /\ c # <<>> /\ Head(c) = printf("buf")
                         /\ Tail(c) \in Leaving
  /\ \A c \in Leaving : c # <<>> =>
         Head(c) = unlink("/moj_mq") /\ Tail(c) = <<>>
  /\ Waiting \cap Printing = {} /\ Leaving \cap (Waiting \cup Printing) = {}
  <1> DEFINE gm == <<"get", "mq", "/moj_mq", FALSE>>
             gs == <<"get", "msqid", "kljuc", FALSE>>
             rm == receive("mq")
             rs == receive("msqid")
             w == printf("buf")
             u == unlink("/moj_mq")
  <1>0. /\ \A c : Receives(c) => c \in {<<gm, rm, w, u>>, <<gs, rs, w>>}
        /\ Waiting = {<<rm, w, u>>, <<rs, w>>}
        /\ Printing = {<<w, u>>, <<w>>} /\ Leaving = {<<u>>, <<>>}
    BY DEF Receives, MqPrimi, SysvPrimi, get, Waiting, Printing, Leaving
  <1>5. w # rm /\ w # rs /\ u # w /\ u # rm /\ u # rs
    BY DEF receive, printf, write, unlink
  <1>9. "mq" \in {"mq", "msqid"} /\ "msqid" \in {"mq", "msqid"}
        /\ "/moj_mq" \in QueueNames /\ "kljuc" \in QueueNames
    BY DEF QueueNames
  <1> HIDE DEF rm, rs, w, u, gm, gs
  <1>1. \A c : Receives(c) =>
          \E r \in {"mq", "msqid"} : \E name \in QueueNames :
            /\ c # <<>> /\ Head(c) = <<"get", r, name, FALSE>>
            /\ Tail(c) \in Waiting /\ Tail(c)[1] = receive(r)
    <2>1. ASSUME NEW c, c = <<gm, rm, w, u>>
          PROVE  /\ c # <<>> /\ Head(c) = gm
                 /\ Tail(c) \in Waiting /\ Tail(c)[1] = rm
      BY <1>0, <2>1, ShortCodes
    <2>2. ASSUME NEW c, c = <<gs, rs, w>>
          PROVE  /\ c # <<>> /\ Head(c) = gs
                 /\ Tail(c) \in Waiting /\ Tail(c)[1] = rs
      BY <1>0, <2>2, ShortCodes
    <2>3. ASSUME NEW c, Receives(c)
          PROVE  \/ /\ c # <<>> /\ Head(c) = gm
                    /\ Tail(c) \in Waiting /\ Tail(c)[1] = rm
                 \/ /\ c # <<>> /\ Head(c) = gs
                    /\ Tail(c) \in Waiting /\ Tail(c)[1] = rs
      BY <1>0, <2>1, <2>2, <2>3
    <2>4. QED
      BY <1>9, <2>3 DEF gm, gs, rm, rs
  <1>2. \A c \in Waiting : /\ c # <<>> /\ Head(c) = c[1] /\ Tail(c) \in Printing
                           /\ c[1] \in {rm, rs}
    <2>1. ASSUME NEW c, c = <<rm, w, u>>
          PROVE  c # <<>> /\ Head(c) = c[1] /\ Tail(c) = <<w, u>> /\ c[1] = rm
      BY <2>1, ShortCodes
    <2>2. ASSUME NEW c, c = <<rs, w>>
          PROVE  c # <<>> /\ Head(c) = c[1] /\ Tail(c) = <<w>> /\ c[1] = rs
      BY <2>2, ShortCodes
    <2>3. QED
      BY <1>0, <2>1, <2>2
  <1>3. \A c \in Printing : /\ c # <<>> /\ Head(c) = w
                            /\ Tail(c) \in Leaving
    <2>1. ASSUME NEW c, c = <<w, u>>
          PROVE  c # <<>> /\ Head(c) = w /\ Tail(c) = <<u>>
      BY <2>1, ShortCodes
    <2>2. ASSUME NEW c, c = <<w>>
          PROVE  c # <<>> /\ Head(c) = w /\ Tail(c) = <<>>
      BY <2>2, ShortCodes
    <2>3. QED
      BY <1>0, <2>1, <2>2
  <1>4. \A c \in Leaving : c # <<>> => Head(c) = u /\ Tail(c) = <<>>
    BY <1>0, ShortCodes
  <1>6. Waiting \cap Printing = {}
    BY <1>2, <1>3, <1>5
  <1>7. Leaving \cap (Waiting \cup Printing) = {}
    BY <1>2, <1>3, <1>4, <1>5
  <1>8. QED
    BY <1>1, <1>2, <1>3, <1>4, <1>6, <1>7 DEF rm, rs, w, u

(* Whoever does not move stays in order.                                   *)
LEMMA Bystanders ==
  ASSUME NEW p \in Pids, Others(p), scene' = scene,
         AllQueues \subseteq AllQueues',
         \A q \in Pids : QueueProcess(q), QueueProcess(p)'
  PROVE  \A q \in Pids : QueueProcess(q)'
  <1>1. ASSUME NEW q \in Pids, q # p
        PROVE  QueueProcess(q)'
    <2>1. proc'[q] = proc[q]
      BY <1>1 DEF Others
    <2>2. Program(q)' = Program(q)
      BY DEF Program
    <2>3. Alone(q)'
      BY <2>1 DEF Alone, QueueProcess
    <2>4. SenderOK(q) => SenderOK(q)'
      BY <2>1, <2>2 DEF SenderOK
    <2>5. ReceiverOK(q) => ReceiverOK(q)'
      BY <2>1, <2>2 DEF ReceiverOK
    <2>6. QED
      BY <2>1, <2>2, <2>3, <2>4, <2>5 DEF QueueProcess
  <1>2. QED
    BY <1>1

(* A process that ends.                                                    *)
LEMMA QueueEnds ==
  ASSUME IInv, NEW p \in Pids, Runs(p), NEW how, proc' = Ended(p, how),
         obj' = Emptied(proc'), UNCHANGED <<scene, names>>,
         \A q \in Pids : QueueProcess(q), PutsOK, TextsOK, MessagesKept,
         \A name \in QueueNames : names[name] \in AllQueues \cup {0}
  PROVE  /\ \A name \in QueueNames : names'[name] \in AllQueues' \cup {0}
         /\ \A q \in Pids : QueueProcess(q)'
         /\ PutsOK' /\ TextsOK' /\ MessagesKept'
  <1>1. Others(p)
    BY EndsAlone DEF Others, QueueProcess, Alone
  <1>2. proc'[p] = Stopped(p, how) /\ DOMAIN proc[p] = Fields
    <2>1. p \in Group(p)
      BY DEF Group
    <2>2. QED
      BY <2>1, HasFields DEF Ended
  <1>3. /\ proc'[p].code = <<>> /\ proc'[p].buf = proc[p].buf
        /\ proc'[p].reg = proc[p].reg /\ proc'[p].main = proc[p].main
        /\ proc'[p].parent = proc[p].parent /\ proc'[p].masked = proc[p].masked
        /\ proc'[p].pending = proc[p].pending
        /\ proc'[p].handler = proc[p].handler
    BY <1>2 DEF Stopped, Fields
  <1>4. /\ DOMAIN obj' = DOMAIN obj
        /\ \A o \in DOMAIN obj : obj[o].kind # "fifo" => obj'[o] = obj[o]
        /\ \A o \in DOMAIN obj : obj'[o].kind = obj[o].kind
    <2>1. \A o \in DOMAIN obj : ObjectOK(obj[o])
      BY DEF IInv, ObjectsOK
    <2>2. QED
      BY <2>1 DEF Emptied, ObjectOK
  <1>5. KindsKept
    BY <1>4 DEF KindsKept
  <1>6. obj'[tty].data = obj[tty].data
    BY <1>4 DEF TextsOK
  <1>7. \A o \in AllQueues : obj'[o].put = obj[o].put
            /\ obj'[o].data = obj[o].data
    BY <1>4 DEF AllQueues
  <1>8. \A q \in Pids : /\ proc'[q].buf = proc[q].buf
                        /\ proc[q].code = <<>> => proc'[q].code = <<>>
    BY <1>1, <1>3 DEF Others
  <1>9. PutsOK' /\ TextsOK' /\ MessagesKept' /\ AllQueues \subseteq AllQueues'
    BY <1>4, <1>5, <1>6, <1>7, <1>8, QuietQueues
  <1>10. QueueProcess(p)'
    <2>1. p \in DOMAIN Scenes[scene].start
      BY DEF QueueProcess, Runs
    <2>2. Alone(p)'
      BY <1>3 DEF Alone, QueueProcess
    <2>3. Sends(Program(p)) => SenderOK(p)'
      BY <1>3, <2>1 DEF QueueProcess, SenderOK
    <2>4. ReceiverOK(p)'
      BY <1>3 DEF ReceiverOK, Leaving
    <2>5. Program(p)' = Program(p)
      BY DEF Program
    <2>6. QED
      BY <1>3, <2>1, <2>2, <2>3, <2>4, <2>5 DEF QueueProcess
  <1>11. \A q \in Pids : QueueProcess(q)'
    BY <1>1, <1>9, <1>10, Bystanders
  <1>12. \A name \in QueueNames : names'[name] \in AllQueues' \cup {0}
    BY <1>9
  <1>13. QED
    BY <1>9, <1>11, <1>12

(* A process makes its next call, and nobody else moves.                   *)
Proceeds(p) ==
  /\ Others(p) /\ scene' = scene
  /\ Same(proc'[p], proc[p]) /\ proc'[p].code = Tail(proc[p].code)
  /\ proc'[p].fd = proc[p].fd

LEMMA Proceeding ==
  ASSUME IInv, NEW p \in Pids, Acts(p), proc[p].code # <<>>, scene' = scene,
         NEW new, Becomes(p, new), Changed(new, Rest(p, <<>>)),
         new.fd = proc[p].fd
  PROVE  Proceeds(p) /\ proc'[p] = new
  <1> DEFINE r == Rest(p, <<>>)
  <1>1. Same(r, proc[p]) /\ DOMAIN r = Fields
          /\ r.code = <<>> \o Tail(proc[p].code)
    BY RestSame
  <1>2. <<>> \o Tail(proc[p].code) = Tail(proc[p].code)
    <2>1. Tail(proc[p].code) \in Seq(Steps(scene))
      BY FirstCall
    <2>2. QED
      BY <2>1
  <1>3. Same(new, r) /\ new.code = r.code
    BY <1>1, ChangedSame
  <1> HIDE DEF r
  <1>4. Same(new, proc[p])
    BY <1>1, <1>3 DEF Same
  <1>5. proc'[p] = new /\ Others(p)
    BY OnlyOne
  <1>6. QED
    BY <1>1, <1>2, <1>3, <1>4, <1>5 DEF Proceeds

(* mq_open, msgget: the queue is there, or made.                           *)
LEMMA QueueGets ==
  ASSUME IInv, NEW p \in Pids, Get(p), NEW r \in Variables \ {"STDOUT"},
         NEW name \in QueueNames, NEW make,
         Head(proc[p].code) = <<"get", r, name, make>>,
         DOMAIN proc[p].reg = Variables, PutsOK, TextsOK, MessagesKept,
         \A x \in QueueNames : names[x] \in AllQueues \cup {0}
  PROVE  /\ Proceeds(p) /\ proc'[p].buf = proc[p].buf
         /\ DOMAIN proc'[p].reg = Variables /\ proc'[p].reg[r] \in AllQueues'
         /\ proc'[p].reg["STDOUT"] = proc[p].reg["STDOUT"]
         /\ PutsOK' /\ TextsOK' /\ MessagesKept'
                /\ AllQueues \subseteq AllQueues'
         /\ \A x \in QueueNames : names'[x] \in AllQueues' \cup {0}
  <1> DEFINE at == IF names[name] = 0 THEN Len(obj) + 1 ELSE names[name]
             base == Rest(p, <<>>)
             new == [base EXCEPT !.reg[r] = at]
  <1>1. Arg(p, 1) = r /\ Arg(p, 2) = name
    BY DEF Arg
  <1>2. /\ obj' = IF names[name] = 0 THEN Append(obj, Object("object", <<>>))
                  ELSE obj
        /\ names' = [names EXCEPT ![name] = at]
        /\ Becomes(p, new) /\ scene' = scene /\ Acts(p) /\ proc[p].code # <<>>
    BY <1>1 DEF Get, Call
  <1>3. DOMAIN base = Fields /\ base.reg = proc[p].reg /\ base.buf = proc[p].buf
          /\ base.fd = proc[p].fd
    BY HasFields DEF Rest, Fields
  <1>4. /\ new.fd = proc[p].fd /\ new.buf = proc[p].buf
        /\ DOMAIN new.reg = Variables /\ new.reg[r] = at
        /\ new.reg["STDOUT"] = proc[p].reg["STDOUT"]
    <2> HIDE DEF at, base
    <2>1. QED
      BY <1>3 DEF Fields
  <1>5. Changed(new, base)
    BY DEF Changed
  <1> HIDE DEF base
  <1>6. Proceeds(p) /\ proc'[p] = new
    <2> HIDE DEF new
    <2>1. QED
      BY <1>2, <1>4, <1>5, Proceeding DEF base
  <1> HIDE DEF new
  <1>7. /\ \A o \in DOMAIN obj : o \in DOMAIN obj' /\ obj'[o] = obj[o]
        /\ \A o \in DOMAIN obj' \ DOMAIN obj :
             o = Len(obj) + 1 /\ obj'[o] = Object("object", <<>>)
        /\ at \in DOMAIN obj' /\ obj'[at].kind = "object"
    <2>1. CASE names[name] = 0
      <3> DEFINE x == Object("object", <<>>)
      <3>1. x.put = <<>> /\ x.kind = "object"
        BY DEF Object
      <3> HIDE DEF x
      <3>2. obj' = Append(obj, x)
        BY <1>2, <2>1 DEF x
      <3>3. /\ DOMAIN obj' = DOMAIN obj \cup {Len(obj) + 1}
            /\ obj'[Len(obj) + 1] = x
            /\ \A o \in DOMAIN obj : obj'[o] = obj[o]
        BY <3>1, <3>2, AddedPut
      <3>4. QED
        BY <2>1, <3>1, <3>3 DEF x
    <2>2. CASE names[name] # 0
      BY <1>2, <2>2 DEF AllQueues
    <2>3. QED
      BY <2>1, <2>2
  <1>8. KindsKept /\ obj'[tty].data = obj[tty].data
    BY <1>7 DEF KindsKept, TextsOK
  <1>9. \A o \in AllQueues : obj'[o].put = obj[o].put
            /\ obj'[o].data = obj[o].data
    BY <1>7 DEF AllQueues
  <1>10. \A o \in DOMAIN obj' \ DOMAIN obj : obj'[o].put = <<>>
             /\ obj'[o].data = <<>>
    BY <1>7 DEF Object
  <1>11. \A q \in Pids : /\ proc'[q].buf = proc[q].buf
                         /\ proc[q].code = <<>> => proc'[q].code = <<>>
    BY <1>2, <1>4, <1>6 DEF Proceeds, Others
  <1>12. PutsOK' /\ TextsOK' /\ MessagesKept' /\ AllQueues \subseteq AllQueues'
    BY <1>2, <1>8, <1>9, <1>10, <1>11, QuietQueues
  <1>13. at \in AllQueues'
    BY <1>7 DEF AllQueues
  <1> HIDE DEF at
  <1>14. \A x \in QueueNames : names'[x] \in AllQueues' \cup {0}
    BY <1>2, <1>12, <1>13, Standing
  <1>15. QED
    BY <1>4, <1>6, <1>12, <1>13, <1>14

(* mq_unlink: the name goes, the queue stays.                              *)
LEMMA QueueUnlinks ==
  ASSUME IInv, NEW p \in Pids, Unlink(p), PutsOK, TextsOK, MessagesKept,
         \A x \in QueueNames : names[x] \in AllQueues \cup {0}
  PROVE  /\ Proceeds(p) /\ proc'[p].buf = proc[p].buf
         /\ proc'[p].reg = proc[p].reg
         /\ PutsOK' /\ TextsOK' /\ MessagesKept'
                /\ AllQueues \subseteq AllQueues'
         /\ \A x \in QueueNames : names'[x] \in AllQueues' \cup {0}
  <1> DEFINE new == Rest(p, <<>>)
             x == Arg(p, 1)
  <1>1. /\ Becomes(p, new) /\ obj' = obj /\ scene' = scene
        /\ names' = [names EXCEPT ![x] = 0] /\ Acts(p) /\ proc[p].code # <<>>
    BY DEF Unlink, Call
  <1>2. new.fd = proc[p].fd /\ new.buf = proc[p].buf /\ new.reg = proc[p].reg
    BY HasFields DEF Rest, Fields
  <1>3. Proceeds(p) /\ proc'[p] = new
    BY <1>1, <1>2, Proceeding DEF Changed
  <1> HIDE DEF new, x
  <1>4. KindsKept
    BY <1>1 DEF KindsKept
  <1>5. \A q \in Pids : /\ proc'[q].buf = proc[q].buf
                        /\ proc[q].code = <<>> => proc'[q].code = <<>>
    BY <1>1, <1>2, <1>3 DEF Proceeds, Others
  <1>6. PutsOK' /\ TextsOK' /\ MessagesKept' /\ AllQueues \subseteq AllQueues'
    BY <1>1, <1>4, <1>5, QuietQueues
  <1>7. \A y \in QueueNames : names'[y] = names[y] \/ names'[y] = 0
    BY <1>1
  <1>8. QED
    BY <1>2, <1>3, <1>6, <1>7

(* mq_send, msgsnd.                                                        *)
LEMMA QueueSends ==
  ASSUME IInv, QueueScene(Scenes[scene]), NEW p \in Pids, Send(p),
         p \in DOMAIN Scenes[scene].start, Sends(Program(p)), NEW r,
         proc[p].code = << <<"send", r, Message(p)>> >>,
         proc[p].reg[r] \in AllQueues, PutsOK, TextsOK, MessagesKept
  PROVE  /\ Proceeds(p) /\ proc'[p].buf = proc[p].buf
         /\ proc'[p].reg = proc[p].reg /\ proc'[p].code = <<>>
         /\ PutsOK' /\ TextsOK' /\ MessagesKept' /\ AllQueues' = AllQueues
         /\ names' = names
  <1> DEFINE new == Rest(p, <<>>)
             c == <<"send", r, Message(p)>>
             o == proc[p].reg[r]
             m == Message(p)
             before == {i \in DOMAIN obj[o].data :
                          obj[o].data[i].priority >= m.priority}
             n == Cardinality(before) + 1
  <1>1. proc[p].code # <<>> /\ Head(proc[p].code) = c
            /\ Tail(proc[p].code) = <<>>
    <2> HIDE DEF c
    <2>1. QED
      BY ShortCodes DEF c
  <1>2. Val(p, Arg(p, 1)) = o /\ Arg(p, 2) = m
    BY <1>1 DEF Arg, Val
  <1>3. /\ Becomes(p, new) /\ scene' = scene /\ names' = names /\ Acts(p)
        /\ obj' = [obj EXCEPT ![o].data = InsertAt(@, n, m),
                              ![o].put = Append(@, m)]
    BY <1>2 DEF Send, Call
  <1>4. new.fd = proc[p].fd /\ new.buf = proc[p].buf /\ new.reg = proc[p].reg
    BY HasFields DEF Rest, Fields
  <1>5. Proceeds(p) /\ proc'[p] = new
    BY <1>1, <1>3, <1>4, Proceeding DEF Changed
  <1>6. o \in DOMAIN obj /\ IsSeq(obj[o].data)
          /\ DOMAIN obj[o] = {"kind", "data", "put", "opened"}
    BY DEF AllQueues, IInv, ObjectsOK, ObjectOK
  <1>7. n \in 1 .. Len(obj[o].data) + 1
    <2> DEFINE l == Len(obj[o].data)
    <2>1. l \in Nat /\ DOMAIN obj[o].data = 1 .. l
      BY <1>6, LenOfSeq
    <2>2. before \subseteq 1 .. l
      BY <2>1
    <2> HIDE DEF before, l
    <2>3. IsFiniteSet(1 .. l) /\ Cardinality(1 .. l) = l
      BY <2>1, FS_Interval
    <2>4. Cardinality(before) <= l /\ Cardinality(before) \in Nat
      BY <2>2, <2>3, FS_Subset, FS_CardinalityType
    <2>5. QED
      BY <2>1, <2>4 DEF l
  <1> HIDE DEF new, n
  <1>8. /\ DOMAIN obj' = DOMAIN obj /\ obj'[o].kind = obj[o].kind
        /\ \A x \in DOMAIN obj \ {o} : obj'[x] = obj[x]
        /\ obj'[o].put = Append(obj[o].put, m)
        /\ obj'[o].data = InsertAt(obj[o].data, n, m)
    <2> HIDE DEF o, m
    <2>1. QED
      BY <1>3, <1>6
  <1>9. proc'[p].code = <<>> /\ Others(p) /\ proc'[p].buf = proc[p].buf
    BY <1>1, <1>4, <1>5 DEF Proceeds
  <1>10. PutsOK' /\ TextsOK' /\ MessagesKept' /\ AllQueues' = AllQueues
    BY <1>1, <1>3, <1>7, <1>8, <1>9, SentQueues
  <1>11. QED
    BY <1>3, <1>4, <1>5, <1>9, <1>10

(* mq_receive, msgrcv.                                                     *)
LEMMA QueueReceives ==
  ASSUME IInv, NEW p \in Pids, Receive(p), NEW r,
         Head(proc[p].code) = receive(r), proc[p].buf = <<>>,
         proc[p].reg[r] \in AllQueues, PutsOK, TextsOK, MessagesKept
  PROVE  /\ Proceeds(p) /\ proc'[p].buf # <<>> /\ proc'[p].reg = proc[p].reg
         /\ PutsOK' /\ TextsOK' /\ MessagesKept' /\ AllQueues' = AllQueues
         /\ names' = names
  <1> DEFINE base == Rest(p, <<>>)
             o == proc[p].reg[r]
             text == Head(obj[o].data).text
             new == [base EXCEPT !.buf = <<text>>]
  <1>1. Val(p, Arg(p, 1)) = o
    BY DEF Arg, Val, receive
  <1>2. /\ obj[o].data # <<>> /\ obj' = [obj EXCEPT ![o].data = Tail(@)]
        /\ Becomes(p, new) /\ scene' = scene /\ names' = names
        /\ Acts(p) /\ proc[p].code # <<>>
    BY <1>1 DEF Receive, Call
  <1>3. DOMAIN base = Fields /\ base.reg = proc[p].reg /\ base.fd = proc[p].fd
    BY HasFields DEF Rest, Fields
  <1>4. Changed(new, base)
    BY DEF Changed
  <1> HIDE DEF base, text
  <1>5. new.fd = proc[p].fd /\ new.reg = proc[p].reg /\ new.buf = <<text>>
    BY <1>3 DEF Fields
  <1> HIDE DEF new
  <1>6. Proceeds(p) /\ proc'[p] = new
    BY <1>2, <1>4, <1>5, Proceeding DEF base
  <1>7. o \in DOMAIN obj /\ DOMAIN obj[o] = {"kind", "data", "put", "opened"}
    BY DEF AllQueues, IInv, ObjectsOK, ObjectOK
  <1>8. /\ DOMAIN obj' = DOMAIN obj /\ obj'[o].kind = obj[o].kind
        /\ \A x \in DOMAIN obj \ {o} : obj'[x] = obj[x]
        /\ obj'[o].put = obj[o].put /\ obj'[o].data = Tail(obj[o].data)
    <2> HIDE DEF o
    <2>1. QED
      BY <1>2, <1>7
  <1>9. proc'[p].buf = <<Head(obj[o].data).text>> /\ Others(p)
    BY <1>5, <1>6 DEF Proceeds, text
  <1>10. proc'[p].buf # <<>>
    BY <1>5, <1>6, ShortCodes
  <1>11. PutsOK' /\ TextsOK' /\ MessagesKept' /\ AllQueues' = AllQueues
    BY <1>2, <1>8, <1>9, ReceivedQueues
  <1>12. QED
    BY <1>2, <1>5, <1>6, <1>10, <1>11

(* printf of what was received.                                            *)
LEMMA QueuePrints ==
  ASSUME IInv, NEW p \in Pids, Acts(p), proc[p].code # <<>>,
         Write(p) \/ BrokenPipe(p) \/ WriteNowhere(p),
         Head(proc[p].code) = printf("buf"), proc[p].buf # <<>>,
         proc[p].fd[1] = <<tty, "w">>, proc[p].reg["STDOUT"] = 1,
         PutsOK, TextsOK, MessagesKept
  PROVE  /\ Proceeds(p) /\ proc'[p].reg = proc[p].reg
         /\ PutsOK' /\ TextsOK' /\ MessagesKept' /\ AllQueues' = AllQueues
         /\ names' = names
  <1> DEFINE base == Rest(p, <<>>)
             b == proc[p].buf
             new == [base EXCEPT !.buf = <<>>]
  <1>1. Arg(p, 1) = "STDOUT" /\ Arg(p, 2) = "buf"
    BY DEF Arg, printf, write
  <1>2. Target(p) = <<tty, "w">>
    <2>1. Val(p, Arg(p, 1)) = 1 /\ 1 \in 0..MaxFd
      BY <1>1, BoundsAssumption DEF Val
    <2>2. QED
      BY <2>1 DEF Target, Fd
  <1>3. ~ Unread(p) /\ Target(p)[2] = "w" /\ Target(p)[1] = tty
    BY <1>2 DEF Unread, Streams, Streaming, TextsOK
  <1>4. Write(p)
    BY <1>3 DEF BrokenPipe, WriteNowhere
  <1>5. What(p) = b
    BY <1>1 DEF What
  <1>6. /\ obj' = [obj EXCEPT ![tty].data = @ \o b, ![tty].put = @ \o b]
        /\ Becomes(p, new) /\ scene' = scene /\ names' = names
    BY <1>3, <1>4, <1>5 DEF Write
  <1>7. DOMAIN base = Fields /\ base.reg = proc[p].reg /\ base.fd = proc[p].fd
    BY HasFields DEF Rest, Fields
  <1>8. Changed(new, base)
    BY DEF Changed
  <1> HIDE DEF base
  <1>9. new.fd = proc[p].fd /\ new.reg = proc[p].reg /\ new.buf = <<>>
    BY <1>7 DEF Fields
  <1> HIDE DEF new
  <1>10. Proceeds(p) /\ proc'[p] = new
    BY <1>6, <1>8, <1>9, Proceeding DEF base
  <1>11. ObjectOK(obj[tty]) /\ tty \in DOMAIN obj
    BY DEF IInv, ObjectsOK, TextsOK
  <1> HIDE DEF b
  <1>12. /\ DOMAIN obj' = DOMAIN obj /\ obj'[tty].kind = obj[tty].kind
         /\ obj'[tty].data = obj[tty].data \o b
         /\ \A x \in DOMAIN obj \ {tty} : obj'[x] = obj[x]
    BY <1>6, <1>11 DEF ObjectOK
  <1>13. PutsOK' /\ TextsOK' /\ MessagesKept' /\ AllQueues' = AllQueues
    BY <1>6, <1>9, <1>10, <1>12, PrintedQueues DEF Proceeds, b
  <1>14. QED
    BY <1>6, <1>9, <1>10, <1>13

(* A call that fails ends the program.                                     *)
LEMMA GivesEnds ==
  ASSUME NEW p \in Pids, Gives(p)
  PROVE  \E how : proc' = Ended(p, how) /\ obj' = Emptied(proc')
                    /\ UNCHANGED <<scene, names>>
  BY DEF Gives, CallFails, Missing

(* Where a process goes on, it stays alone.                                *)
LEMMA StaysAlone ==
  ASSUME NEW p \in Pids, Alone(p), Proceeds(p), DOMAIN proc'[p].reg = Variables
  PROVE  Alone(p)'
  BY DEF Alone, Proceeds, Same

(* A sender at work.                                                       *)
LEMMA SenderMoves ==
  ASSUME IInv, QueuesOK, Sending(Scenes[scene]), QueueScene(Scenes[scene]),
         NEW p \in Pids, p \in DOMAIN Scenes[scene].start, Sends(Program(p)),
         proc[p].code # <<>>, Acts(p),
         LET name == Head(proc[p].code)[1]
         IN \/ name = "get" /\ Get(p)
            \/ name = "send" /\ Send(p)
  PROVE  QueuesOK'
  <1>1. PICK r \in {"mq", "msqid"}, name \in QueueNames :
          Program(p) = << <<"get", r, name, TRUE>>, <<"send", r, Message(p)>> >>
    BY SenderCode DEF Message
  <1> DEFINE g == <<"get", r, name, TRUE>>
             s == <<"send", r, Message(p)>>
             P == Program(p)
  <1>2. g[1] = "get" /\ s[1] = "send" /\ s[2] = r
            /\ r \in Variables \ {"STDOUT"}
    BY DEF Variables
  <1>3. P = <<g, s>>
    BY <1>1
  <1> HIDE DEF g, s
  <1>4. Head(P) = g /\ P[2] = s /\ Tail(P) = <<s>> /\ Head(<<s>>) = s
    BY <1>3, ShortCodes
  <1>5. /\ QueueProcess(p) /\ Alone(p) /\ SenderOK(p)
        /\ proc[p].fd[1] = <<tty, "w">> /\ proc[p].reg["STDOUT"] = 1
        /\ \A q \in Pids : QueueProcess(q)
        /\ PutsOK /\ TextsOK /\ MessagesKept
        /\ \A x \in QueueNames : names[x] \in AllQueues \cup {0}
    BY DEF QueuesOK, QueueProcess
  <1>6. SUFFICES /\ scene' = scene /\ Others(p) /\ QueueProcess(p)'
                 /\ AllQueues \subseteq AllQueues'
                 /\ PutsOK' /\ TextsOK' /\ MessagesKept'
                 /\ \A x \in QueueNames : names'[x] \in AllQueues' \cup {0}
    BY <1>5, Bystanders DEF QueuesOK
  <1>7. DOMAIN proc[p].reg = Variables /\ proc[p].buf = <<>>
    BY <1>5 DEF Alone, SenderOK
  <1>8. scene' = scene => Program(p)' = P
    BY DEF Program
  <1>9. CASE proc[p].code = P
    <2>1. Get(p) /\ Head(proc[p].code) = <<"get", r, name, TRUE>>
      BY <1>2, <1>4, <1>9 DEF g
    <2>2. /\ Proceeds(p) /\ proc'[p].buf = proc[p].buf
          /\ DOMAIN proc'[p].reg = Variables /\ proc'[p].reg[r] \in AllQueues'
          /\ proc'[p].reg["STDOUT"] = proc[p].reg["STDOUT"]
          /\ PutsOK' /\ TextsOK' /\ MessagesKept'
          /\ AllQueues \subseteq AllQueues'
          /\ \A x \in QueueNames : names'[x] \in AllQueues' \cup {0}
      BY <1>2, <1>5, <1>7, <2>1, QueueGets
    <2>3. Alone(p)' /\ scene' = scene /\ Others(p) /\ proc'[p].fd = proc[p].fd
            /\ proc'[p].code = <<s>>
      BY <1>4, <1>5, <1>9, <2>2, StaysAlone DEF Proceeds
    <2>4. SenderOK(p)'
      BY <1>2, <1>4, <1>7, <1>8, <2>2, <2>3 DEF SenderOK
    <2>5. QueueProcess(p)'
      BY <1>5, <1>8, <2>2, <2>3, <2>4 DEF QueueProcess
    <2>6. QED
      BY <2>2, <2>3, <2>5
  <1>10. CASE proc[p].code = <<s>> /\ proc[p].reg[r] \in AllQueues
    <2>1. Send(p) /\ proc[p].code = << <<"send", r, Message(p)>> >>
      BY <1>2, <1>4, <1>10 DEF s
    <2>2. /\ Proceeds(p) /\ proc'[p].buf = proc[p].buf
          /\ proc'[p].reg = proc[p].reg /\ proc'[p].code = <<>>
          /\ PutsOK' /\ TextsOK' /\ MessagesKept' /\ AllQueues' = AllQueues
          /\ names' = names
      BY <1>5, <1>10, <2>1, QueueSends
    <2>3. Alone(p)' /\ scene' = scene /\ Others(p)
      BY <1>5, <1>7, <2>2, StaysAlone DEF Proceeds
    <2>4. SenderOK(p)'
      BY <1>7, <2>2 DEF SenderOK
    <2>5. QueueProcess(p)'
      BY <1>8, <2>2, <2>3, <2>4 DEF QueueProcess
    <2>6. QED
      BY <1>5, <2>2, <2>3, <2>5
  <1>11. QED
    BY <1>2, <1>4, <1>5, <1>9, <1>10 DEF SenderOK

(* A receiver at work.                                                     *)
LEMMA ReceiverMoves ==
  ASSUME IInv, QueuesOK, Sending(Scenes[scene]), QueueScene(Scenes[scene]),
         NEW p \in Pids, p \in DOMAIN Scenes[scene].start, ~ Sends(Program(p)),
         proc[p].code # <<>>, Acts(p),
         LET name == Head(proc[p].code)[1]
         IN \/ name = "get" /\ Get(p)
            \/ name = "receive" /\ Receive(p)
            \/ name = "write" /\ (Write(p) \/ BrokenPipe(p) \/ WriteNowhere(p))
            \/ name = "unlink" /\ Unlink(p)
  PROVE  QueuesOK'
  <1> DEFINE P == Program(p)
             code == proc[p].code
  <1>1. /\ QueueProcess(p) /\ Alone(p) /\ ReceiverOK(p) /\ Receives(P)
        /\ proc[p].fd[1] = <<tty, "w">> /\ proc[p].reg["STDOUT"] = 1
        /\ \A q \in Pids : QueueProcess(q)
        /\ PutsOK /\ TextsOK /\ MessagesKept
        /\ \A x \in QueueNames : names[x] \in AllQueues \cup {0}
    BY DEF QueuesOK, QueueProcess
  <1>2. SUFFICES /\ scene' = scene /\ Others(p) /\ QueueProcess(p)'
                 /\ AllQueues \subseteq AllQueues'
                 /\ PutsOK' /\ TextsOK' /\ MessagesKept'
                 /\ \A x \in QueueNames : names'[x] \in AllQueues' \cup {0}
    BY <1>1, Bystanders DEF QueuesOK
  <1>3. DOMAIN proc[p].reg = Variables
    BY <1>1 DEF Alone
  <1>4. scene' = scene => Program(p)' = P
    BY DEF Program
  <1>5. ASSUME Proceeds(p), DOMAIN proc'[p].reg = Variables,
               proc'[p].reg["STDOUT"] = 1, ReceiverOK(p)'
        PROVE  QueueProcess(p)' /\ scene' = scene /\ Others(p)
    <2>1. Alone(p)' /\ scene' = scene /\ Others(p) /\ proc'[p].fd = proc[p].fd
      BY <1>1, <1>5, StaysAlone DEF Proceeds
    <2>2. QED
      BY <1>1, <1>4, <1>5, <2>1 DEF QueueProcess
  <1>6. /\ receive("mq")[1] = "receive" /\ receive("msqid")[1] = "receive"
        /\ receive("mq")[2] = "mq" /\ receive("msqid")[2] = "msqid"
        /\ printf("buf")[1] = "write" /\ unlink("/moj_mq")[1] = "unlink"
        /\ {"mq", "msqid"} \subseteq Variables \ {"STDOUT"}
    BY DEF receive, printf, write, unlink, Variables
  <1>7. CASE code = P /\ proc[p].buf = <<>>
    <2>1. PICK r \in {"mq", "msqid"}, name \in QueueNames :
            /\ Head(P) = <<"get", r, name, FALSE>>
            /\ Tail(P) \in Waiting /\ Tail(P)[1] = receive(r)
      <3> HIDE DEF P
      <3>1. \E r \in {"mq", "msqid"} : \E name \in QueueNames :
              /\ P # <<>> /\ Head(P) = <<"get", r, name, FALSE>>
              /\ Tail(P) \in Waiting /\ Tail(P)[1] = receive(r)
        BY <1>1, ReceiverCode, Zenon
      <3>2. QED
        BY <3>1
    <2>2. Head(code)[1] = "get" /\ r \in Variables \ {"STDOUT"}
      <3>1. <<"get", r, name, FALSE>>[1] = "get"
        OBVIOUS
      <3>2. QED
        BY <1>6, <1>7, <2>1, <3>1
    <2>3. Get(p)
      BY <2>2
    <2>4. /\ Proceeds(p) /\ proc'[p].buf = proc[p].buf
          /\ DOMAIN proc'[p].reg = Variables /\ proc'[p].reg[r] \in AllQueues'
          /\ proc'[p].reg["STDOUT"] = proc[p].reg["STDOUT"]
          /\ PutsOK' /\ TextsOK' /\ MessagesKept'
          /\ AllQueues \subseteq AllQueues'
          /\ \A x \in QueueNames : names'[x] \in AllQueues' \cup {0}
      BY <1>1, <1>3, <1>7, <2>1, <2>2, <2>3, QueueGets
    <2>5. proc'[p].code = Tail(P)
      BY <1>7, <2>4 DEF Proceeds
    <2>6. ReceiverOK(p)'
      <3>1. receive(r)[2] = r
        BY DEF receive
      <3>2. QED
        BY <1>7, <2>1, <2>4, <2>5, <3>1 DEF ReceiverOK
    <2>7. QED
      BY <1>1, <1>5, <2>4, <2>6
  <1>8. CASE /\ code \in Waiting /\ proc[p].buf = <<>>
             /\ proc[p].reg[code[1][2]] \in AllQueues
    <2>1. PICK r \in {"mq", "msqid"} : code[1] = receive(r)
      BY <1>8, ReceiverCode
    <2>2. /\ Head(code) = receive(r) /\ Tail(code) \in Printing
          /\ receive(r)[1] = "receive" /\ receive(r)[2] = r
      BY <1>8, <2>1, ReceiverCode DEF receive
    <2>3. Receive(p) /\ proc[p].reg[r] \in AllQueues
      BY <1>8, <2>1, <2>2
    <2>4. /\ Proceeds(p) /\ proc'[p].buf # <<>> /\ proc'[p].reg = proc[p].reg
          /\ PutsOK' /\ TextsOK' /\ MessagesKept' /\ AllQueues' = AllQueues
          /\ names' = names
      BY <1>1, <1>8, <2>2, <2>3, QueueReceives
    <2>5. ReceiverOK(p)'
      BY <2>2, <2>4 DEF ReceiverOK, Proceeds
    <2>6. QED
      BY <1>1, <1>3, <1>5, <2>4, <2>5
  <1>9. CASE code \in Printing /\ proc[p].buf # <<>>
    <2>1. Head(code) = printf("buf") /\ Tail(code) \in Leaving
      BY <1>9, ReceiverCode
    <2>2. Write(p) \/ BrokenPipe(p) \/ WriteNowhere(p)
      BY <1>6, <2>1
    <2>3. /\ Proceeds(p) /\ proc'[p].reg = proc[p].reg
          /\ PutsOK' /\ TextsOK' /\ MessagesKept' /\ AllQueues' = AllQueues
          /\ names' = names
      BY <1>1, <1>9, <2>1, <2>2, QueuePrints
    <2>4. ReceiverOK(p)'
      BY <2>1, <2>3 DEF ReceiverOK, Proceeds
    <2>5. QED
      BY <1>1, <1>3, <1>5, <2>3, <2>4
  <1>10. CASE code \in Leaving
    <2>1. Head(code) = unlink("/moj_mq") /\ Tail(code) = <<>>
      BY <1>10, ReceiverCode
    <2>2. Unlink(p)
      BY <1>6, <2>1
    <2>3. /\ Proceeds(p) /\ proc'[p].reg = proc[p].reg
          /\ PutsOK' /\ TextsOK' /\ MessagesKept'
          /\ AllQueues \subseteq AllQueues'
          /\ \A x \in QueueNames : names'[x] \in AllQueues' \cup {0}
      BY <1>1, <2>2, QueueUnlinks
    <2>4. ReceiverOK(p)'
      BY <2>1, <2>3 DEF ReceiverOK, Proceeds, Leaving
    <2>5. QED
      BY <1>1, <1>3, <1>5, <2>3, <2>4
  <1>11. QED
    BY <1>1, <1>7, <1>8, <1>9, <1>10 DEF ReceiverOK

(* Every step of such a scene keeps the messages.                          *)
LEMMA QueuesKept ==
  ASSUME IInv, QueuesOK, Sending(Scenes[scene]), QueueScene(Scenes[scene]), Next
  PROVE  QueuesOK'
  <1>1. PICK p \in Pids : Calls(p) \/ CallFails(p) \/ ForkFails(p)
                            \/ CreateFails(p) \/ Interrupt(p)
    BY DEF Next
  <1>2. Runs(p)
    BY <1>1, WhoMoves
  <1>3. /\ \A q \in Pids : QueueProcess(q) /\ Alone(q)
        /\ PutsOK /\ TextsOK /\ MessagesKept
        /\ \A x \in QueueNames : names[x] \in AllQueues \cup {0}
    BY DEF QueuesOK, QueueProcess
  <1>4. p \in DOMAIN Scenes[scene].start
    BY <1>2, <1>3 DEF QueueProcess, Runs
  <1>5. ASSUME NEW how, proc' = Ended(p, how), obj' = Emptied(proc'),
               UNCHANGED <<scene, names>>
        PROVE  QueuesOK'
    BY <1>2, <1>3, <1>5, QueueEnds DEF QueuesOK
  <1>6. CASE Interrupt(p)
    <2>1. Leader(p) = p /\ p \in Group(p) /\ proc[p].handler["INT"] = <<>>
            /\ "INT" \notin proc[p].masked
      BY <1>3 DEF Leader, Group, Alone
    <2>2. SIG_IGN # <<>>
      BY DEF SIG_IGN
    <2>3. proc' = Ended(p, "signal") /\ obj' = Emptied(proc')
            /\ UNCHANGED <<scene, names>>
      BY <1>2, <1>6, <2>1, <2>2 DEF Interrupt
    <2>4. QED
      BY <1>5, <2>3
  <1>7. CASE Calls(p) \/ CallFails(p) \/ ForkFails(p) \/ CreateFails(p)
    <2> DEFINE name == Head(proc[p].code)[1]
    <2>1. proc[p].pending \subseteq proc[p].masked
      BY <1>3 DEF Alone
    <2>2. CASE Return(p)
      BY <1>3, <1>5, <2>2 DEF Return, Alone
    <2>3. CASE Gives(p)
      BY <1>5, <2>3, GivesEnds
    <2>4. ASSUME ~ Return(p), ~ Gives(p), name \in {"get", "send", "receive", "write",
                                             "unlink"}
          PROVE  /\ proc[p].code # <<>> /\ Acts(p)
                 /\ \/ name = "get" /\ Get(p)
                    \/ name = "send" /\ Send(p)
                    \/ name = "receive" /\ Receive(p)
                    \/ /\ name = "write"
                       /\ Write(p) \/ BrokenPipe(p) \/ WriteNowhere(p)
                    \/ name = "unlink" /\ Unlink(p)
      BY <1>7, <2>1, <2>4, StepOfCall
    <2>5. ASSUME ~ Return(p), ~ Gives(p)
          PROVE  proc[p].code # <<>> /\ Acts(p)
      BY <1>7, <2>1, <2>5, StepOfCall
    <2>6. ASSUME proc[p].code # <<>>, Sends(Program(p))
          PROVE  name \in {"get", "send"}
      <3>1. PICK r \in {"mq", "msqid"}, n \in QueueNames :
              Program(p) = << <<"get", r, n, TRUE>>,
                               <<"send", r, Message(p)>> >>
        BY <2>6, SenderCode DEF Message
      <3> DEFINE g == <<"get", r, n, TRUE>>
                 s == <<"send", r, Message(p)>>
      <3>2. g[1] = "get" /\ s[1] = "send" /\ Program(p) = <<g, s>>
        BY <3>1
      <3> HIDE DEF g, s
      <3>3. Head(Program(p)) = g /\ Program(p)[2] = s /\ Head(<<s>>) = s
        BY <3>2, ShortCodes
      <3>4. QED
        BY <1>3, <1>4, <2>6, <3>2, <3>3 DEF QueueProcess, SenderOK
    <2>7. ASSUME proc[p].code # <<>>, ~ Sends(Program(p))
          PROVE  name \in {"get", "receive", "write", "unlink"}
      <3>1. Receives(Program(p)) /\ ReceiverOK(p)
        BY <1>3, <1>4, <2>7 DEF QueueProcess
      <3>2. /\ receive("mq")[1] = "receive" /\ receive("msqid")[1] = "receive"
            /\ printf("buf")[1] = "write" /\ unlink("/moj_mq")[1] = "unlink"
            /\ \A r, n : <<"get", r, n, FALSE>>[1] = "get"
        BY DEF receive, printf, write, unlink
      <3>3. CASE proc[p].code = Program(p)
        <4>1. PICK r \in {"mq", "msqid"}, n \in QueueNames :
                Head(Program(p)) = <<"get", r, n, FALSE>>
          BY <3>1, ReceiverCode, Zenon
        <4>2. QED
          BY <3>2, <3>3, <4>1
      <3>4. CASE proc[p].code \in Waiting
        BY <3>2, <3>4, ReceiverCode
      <3>5. CASE proc[p].code \in Printing
        BY <3>2, <3>5, ReceiverCode
      <3>6. CASE proc[p].code \in Leaving
        BY <2>7, <3>2, <3>6, ReceiverCode
      <3>7. QED
        BY <3>1, <3>3, <3>4, <3>5, <3>6 DEF ReceiverOK
    <2> HIDE DEF name
    <2>8. CASE ~ Return(p) /\ ~ Gives(p) /\ Sends(Program(p))
      <3>1. /\ proc[p].code # <<>> /\ Acts(p)
            /\ \/ name = "get" /\ Get(p)
               \/ name = "send" /\ Send(p)
        BY <2>4, <2>5, <2>6, <2>8
      <3>2. QED
        BY <1>4, <2>8, <3>1, SenderMoves DEF name
    <2>9. CASE ~ Return(p) /\ ~ Gives(p) /\ ~ Sends(Program(p))
      <3>1. /\ proc[p].code # <<>> /\ Acts(p)
            /\ \/ name = "get" /\ Get(p)
               \/ name = "receive" /\ Receive(p)
               \/ /\ name = "write"
                  /\ Write(p) \/ BrokenPipe(p) \/ WriteNowhere(p)
               \/ name = "unlink" /\ Unlink(p)
        BY <2>4, <2>5, <2>7, <2>9
      <3>2. QED
        BY <1>4, <2>9, <3>1, ReceiverMoves DEF name
    <2>10. QED
      BY <2>2, <2>3, <2>8, <2>9
  <1>8. QED
    BY <1>1, <1>6, <1>7

(* At the start there are no queues.                                       *)
LEMMA QueuesInit ==
  ASSUME Init, Separate(Scenes[scene]),
         Sending(Scenes[scene]) => QueueScene(Scenes[scene])
  PROVE  QueuesOK
  <1> SUFFICES ASSUME Sending(Scenes[scene])
               PROVE  QueuesOK
    BY DEF QueuesOK
  <1> DEFINE S == Scenes[scene]
             nofd == [d \in 0..MaxFd |-> Closed]
             fd(p) == [d \in 0..MaxFd |->
                 CASE d \in closed -> Closed
                   [] d = 0 -> <<S.input[p], "r">>
                   [] d = 1 -> <<S.output[p], "w">>
                   [] d = 2 -> <<tty, "w">>
                   [] OTHER -> Closed]
  <1>1. \A code, f : LET r == Process(code, f) IN
          /\ DOMAIN r = Fields /\ r.handler["INT"] = <<>>
          /\ r.masked = {} /\ r.pending = {} /\ r.state = "runs"
          /\ r.parent = 0 /\ r.main = 0 /\ r.reg["STDOUT"] = 1
          /\ DOMAIN r.reg = Variables /\ r.buf = <<>>
          /\ r.code = code /\ r.fd = f
    BY DEF Process, Fields, Variables
  <1>2. AllQueues = {}
    BY NoQueues DEF AllQueues
  <1>3. ASSUME NEW p \in Pids, p \notin DOMAIN S.start
        PROVE  QueueProcess(p) /\ proc[p].buf = <<>>
    <2> DEFINE r == Process(<<>>, nofd)
    <2>1. proc[p] = [r EXCEPT !.state = "none"]
      BY <1>3 DEF Init
    <2>2. /\ DOMAIN r = Fields /\ r.handler["INT"] = <<>>
          /\ r.masked = {} /\ r.pending = {} /\ r.buf = <<>>
          /\ DOMAIN r.reg = Variables /\ r.parent = 0 /\ r.main = 0
      BY <1>1
    <2> HIDE DEF r
    <2>3. QED
      BY <1>3, <2>1, <2>2 DEF Fields, QueueProcess, Alone
  <1>4. ASSUME NEW p \in Pids, p \in DOMAIN S.start
        PROVE  QueueProcess(p) /\ proc[p].buf = <<>>
    <2>1. proc[p] = Process(S.start[p], fd(p))
      BY <1>4 DEF Init
    <2>2. S.output[p] = tty /\ 1 \notin closed /\ 1 \in 0..MaxFd
      BY <1>4, BoundsAssumption DEF QueueScene, Init
    <2>3. fd(p)[1] = <<tty, "w">>
      BY <2>2
    <2> HIDE DEF fd
    <2>4. /\ proc[p].handler["INT"] = <<>> /\ proc[p].masked = {}
          /\ proc[p].pending = {} /\ proc[p].parent = 0 /\ proc[p].main = 0
          /\ proc[p].reg["STDOUT"] = 1 /\ DOMAIN proc[p].reg = Variables
          /\ proc[p].buf = <<>> /\ proc[p].fd[1] = <<tty, "w">>
          /\ proc[p].code = Program(p)
      BY <1>1, <2>1, <2>3 DEF Program
    <2>5. SenderOK(p) /\ ReceiverOK(p) /\ Alone(p)
      BY <2>4 DEF SenderOK, ReceiverOK, Alone
    <2>6. Sends(Program(p)) \/ Receives(Program(p))
      BY <1>4 DEF QueueScene, Program
    <2>7. QED
      BY <1>4, <2>4, <2>5, <2>6 DEF QueueProcess
  <1>5. \A p \in Pids : QueueProcess(p) /\ proc[p].buf = <<>>
    BY <1>3, <1>4
  <1>6. \A name \in QueueNames : names[name] \in AllQueues \cup {0}
    BY DEF QueueNames, Init, Names
  <1>7. PutsOK
    BY <1>2 DEF PutsOK
  <1>8. TextsOK
    <2>1. tty \in DOMAIN obj /\ obj[tty] = Object("file", <<>>)
      BY ScreenFirst DEF tty
    <2>2. obj[tty].kind = "file" /\ obj[tty].data = <<>>
      BY <2>1 DEF Object
    <2>3. DOMAIN <<>> = {}
      OBVIOUS
    <2>4. \A i \in DOMAIN obj[tty].data : TextSent(obj[tty].data[i])
      BY <2>2, <2>3
    <2>5. QED
      BY <1>5, <2>1, <2>2, <2>4 DEF TextsOK
  <1>9. MessagesKept
    BY <1>2 DEF MessagesKept, AllQueues
  <1>10. QED
    BY <1>5, <1>6, <1>7, <1>8, <1>9 DEF QueuesOK

MessagesOK == QueuesApart /\ NothingSent /\ QueuesOK

LEMMA MessagesInit ==
  ASSUME Init, QueuesFit
  PROVE  MessagesOK
  BY ApartInit, QueuesInit DEF MessagesOK, QueuesFit, QueueFits, Init

LEMMA MessagesNext ==
  ASSUME IInv, MessagesOK, QueuesFit, [Next]_vars
  PROVE  MessagesOK'
  <1>1. CASE UNCHANGED vars
    <2>1. UNCHANGED <<scene, obj, proc, names>>
      BY <1>1 DEF vars
    <2>2. AllQueues' = AllQueues /\ \A p \in Pids : Program(p)' = Program(p)
      BY <2>1 DEF AllQueues, Program
    <2>3. \A p \in Pids : /\ Alone(p) => Alone(p)'
                          /\ SenderOK(p) => SenderOK(p)'
                          /\ ReceiverOK(p) => ReceiverOK(p)'
                          /\ Sent(p) => Sent(p)' /\ Message(p)' = Message(p)
      BY <2>1, <2>2 DEF Alone, SenderOK, ReceiverOK, Sent, Message
    <2>4. \A p \in Pids : QueueProcess(p) => QueueProcess(p)'
      BY <2>1, <2>2, <2>3 DEF QueueProcess
    <2>5. PutsOK => PutsOK'
      BY <2>1, <2>2, <2>3 DEF PutsOK
    <2>6. TextsOK => TextsOK'
      BY <2>1, <2>2 DEF TextsOK, TextSent
    <2>7. MessagesKept => MessagesKept'
      BY <2>1 DEF MessagesKept
    <2>8. QueuesOK'
      BY <2>1, <2>2, <2>4, <2>5, <2>6, <2>7 DEF QueuesOK, MessagesOK
    <2>9. QueuesApart' /\ NothingSent'
      BY <2>1 DEF QueuesApart, NothingSent, MessagesOK
    <2>10. QED
      BY <2>8, <2>9 DEF MessagesOK
  <1>2. CASE Next
    <2>1. Separate(Scenes[scene])
            /\ (Sending(Scenes[scene]) => QueueScene(Scenes[scene]))
      BY DEF QueuesFit, QueueFits, IInv, SceneOK
    <2>2. QueuesApart' /\ NothingSent' /\ scene' = scene
      BY <1>2, <2>1, ApartKept DEF MessagesOK
    <2>3. QueuesOK'
      <3>1. CASE Sending(Scenes[scene])
        BY <1>2, <2>1, <3>1, QueuesKept DEF MessagesOK
      <3>2. CASE ~ Sending(Scenes[scene])
        BY <2>2, <3>2 DEF QueuesOK
      <3>3. QED
        BY <3>1, <3>2
    <2>4. QED
      BY <2>2, <2>3 DEF MessagesOK
  <1>3. QED
    BY <1>1, <1>2

LEMMA MessagesFollow ==
  ASSUME MessagesOK
  PROVE  MessagesKept
  <1>1. CASE Sending(Scenes[scene])
    BY <1>1 DEF MessagesOK, QueuesOK
  <1>2. CASE ~ Sending(Scenes[scene])
    <2>1. \A o \in DOMAIN obj : obj[o].kind = "object" => DOMAIN obj[o].put = {}
      <3>1. DOMAIN <<>> = {}
        OBVIOUS
      <3>2. QED
        BY <1>2, <3>1 DEF MessagesOK, NothingSent
    <2>2. QED
      BY <2>1 DEF MessagesKept
  <1>3. QED
    BY <1>1, <1>2

(* No message is lost or doubled: whatever was sent is in its queue,       *)
(* printed, or on its way between the two, once in all, with any number of *)
(* senders and receivers, whoever is killed (mq_posalji.c, mq_primi.c,     *)
(* sysv_msg_posalji.c, sysv_msg_primi.c).                                  *)
THEOREM NoMessageLost ==
  ASSUME QueuesFit
  PROVE  Spec => []MessagesKept
  <1>1. Init => IInv /\ MessagesOK
    BY InitOK, MessagesInit
  <1>2. IInv /\ MessagesOK /\ [Next]_vars => IInv' /\ MessagesOK'
    BY NextOK, MessagesNext
  <1>3. MessagesOK => MessagesKept
    BY MessagesFollow
  <1>4. QED
    BY <1>1, <1>2, <1>3, PTL DEF Spec

-----------------------------------------------------------------------------
(* Scenes of programs that copy (io_copy.c, f_cat.c, read_file.c,          *)
(* f_write.c, fifoposalji.c, fifoprimi.c).                                 *)

-----------------------------------------------------------------------------
(* How far a program of such a scene is.                                   *)

LoopCode(c) == IF Copies(c) THEN c
               ELSE IF OfFifo(c) THEN Tail(Tail(c)) ELSE Tail(c)
In(c) == IF ReadsFile(c) \/ c = FifoPrimi THEN "fd" ELSE "STDIN"
Out(c) == IF WritesFile(c) \/ c = FifoPosalji THEN "fd" ELSE "STDOUT"
Other(c) == IF c = FifoPrimi THEN "w" ELSE "r"

New == Made(Scenes[scene])
Input(p) == From(Scenes[scene], p)
Output(p) == To(Scenes[scene], p)
Opened == New \in DOMAIN obj /\ obj[New].opened["r"] > 0

Starting(p) == proc[p].code = Program(p) /\ ~ Copies(Program(p))
Opening(p) == OfFifo(Program(p)) /\ proc[p].code = Tail(Program(p))
Meeting(p) ==
  /\ OfFifo(Program(p)) /\ proc[p].code # <<>>
  /\ Tail(proc[p].code) = LoopCode(Program(p))
  /\ \E n \in Nat : Head(proc[p].code) = <<"meet", New, Other(Program(p)), n>>
Looping(p) == proc[p].code = LoopCode(Program(p))
Writing(p) ==
  /\ proc[p].code # <<>> /\ Tail(proc[p].code) = LoopCode(Program(p))
  /\ \E strict \in BOOLEAN :
       Head(proc[p].code) = <<"write", Out(Program(p)), "buf", strict>>
Closing(p) == proc[p].code = <<close("fd")>>

(* Before it opens anything.                                               *)
Prepared(p) ==
  /\ proc[p].reg["STDIN"] = 0 /\ proc[p].reg["STDOUT"] = 1
  /\ proc[p].fd[1] = <<Scenes[scene].output[p], "w">>
  /\ proc[p].fd[0] \in {Closed, <<Scenes[scene].input[p], "r">>}
  /\ proc[p].fd[3] = Closed
(* When it copies.                                                         *)
Ready(p) ==
  LET in == Fd(p, Val(p, In(Program(p)))) IN
  /\ Fd(p, Val(p, Out(Program(p)))) = <<Output(p), "w">>
  /\ in[2] = "r" => in[1] = Input(p)
  /\ Program(p) = FifoPrimi => in = <<New, "r">>

CopierOK(p) ==
  \/ /\ Starting(p) \/ Opening(p)
     /\ Prepared(p) /\ proc[p].buf = <<>>
     /\ WritesFile(Program(p)) => New \notin DOMAIN obj
     /\ Opening(p) => names["/tmp/moj_fifo"] = New
     /\ Program(p) = FifoPrimi => ~ Opened
  \/ Meeting(p) /\ Ready(p) /\ proc[p].buf = <<>>
  \/ /\ Writing(p) \/ (Looping(p) /\ proc[p].buf = <<>>)
     /\ Ready(p) /\ (Program(p) = FifoPosalji => Opened)
  \/ /\ Closing(p) /\ proc[p].buf = <<>>
     /\ Program(p) = FifoPrimi => Fd(p, Val(p, "fd")) = <<New, "r">>
  \/ proc[p].code = <<>>

PipeProcess(p) ==
  /\ Alone(p)
  /\ IF p \in DOMAIN Scenes[scene].start THEN CopierOK(p)
     ELSE proc[p].state = "none"

OfScene(c) == \E p \in DOMAIN Scenes[scene].start : Scenes[scene].start[p] = c
PipeObjects ==
  /\ Len(obj) \in {New - 1, New}
  /\ \A o \in DOMAIN obj : o # New => obj[o].kind \in {"file", "pipe"}
  /\ New \in DOMAIN obj =>
       /\ obj[New].kind =
             IF OfScene(FWrite("izlaz.txt")) THEN "file" ELSE "fifo"
       /\ obj[New].kind = "fifo" /\ obj[New].data # <<>> => Opened
  /\ names["moja_datoteka.txt"] = Scenes[scene].file
  /\ names["izlaz.txt"] # 0 => New \in DOMAIN obj
  /\ names["/tmp/moj_fifo"] = IF New \in DOMAIN obj /\ obj[New].kind = "fifo"
                              THEN New ELSE 0
  /\ \A p \in Pids : \A d \in 0..MaxFd : proc[p].fd[d] = <<New, "r">> => Opened

(* Where an item is: at place i of the route, the j-th there.              *)
Places(r) == [i \in 1..Len(r.path) |-> Text(r.path[i])]
At(T, i, j, x) == i \in DOMAIN T /\ j \in DOMAIN T[i] /\ T[i][j] = x
InOrder(T, t) ==
  \A k, l \in DOMAIN t : \A a, b, c, d :
    At(T, a, b, t[k]) /\ At(T, c, d, t[l]) =>
      (k < l <=> a < c \/ (a = c /\ b < d))
Present(T, x) == \E a, b : At(T, a, b, x)

(* The k-th item is lost: the reader of the FIFO has left, and whatever    *)
(* came after it is no further than the FIFO.                              *)
Lost(r, T, k) ==
  /\ Risky(Scenes[scene], r) /\ proc[r.reader].code = <<>>
  /\ \A l \in DOMAIN r.text : \A a, b :
       k < l /\ At(T, a, b, r.text[l]) =>
         \E f \in 1..a : r.path[f] = <<"object", New>>
(* Nothing of the text is anywhere else.                                   *)
AllPlaces == ({"process"} \X Pids) \cup ({"object"} \X Nat)
Nowhere(r) ==
  \A k \in DOMAIN r.text : \A place \in AllPlaces :
    place \notin Range(r.path) => r.text[k] \notin Range(Text(place))
RouteOK(r) ==
  /\ InOrder(Places(r), r.text)
  /\ \A k \in DOMAIN r.text :
       Present(Places(r), r.text[k]) \/ Lost(r, Places(r), k)
  /\ Nowhere(r)

Piping ==
  /\ \A p \in Pids : PipeProcess(p)
  /\ PipeObjects
  /\ \A r \in Scenes[scene].routes : RouteOK(r)
PipesOK == Scenes[scene].routes # {} => Piping

-----------------------------------------------------------------------------
(* Texts on their way.                                                     *)

(* Where an item goes when the first k of place i + 1 are put after the m  *)
(* of place i: from c, d to a, b.                                          *)
Goes(i, m, k, c, d, a, b) ==
  \/ c # i + 1 /\ a = c /\ b = d
  \/ c = i + 1 /\ d <= k /\ a = i /\ b = m + d
  \/ c = i + 1 /\ d > k /\ a = c /\ b = d - k

(* T becomes U so.                                                         *)
Shifts(n, T, U, i, w, v) ==
  /\ n \in Nat /\ DOMAIN T = 1..n /\ DOMAIN U = 1..n
  /\ \A j \in 1..n : IsSeq(T[j])
  /\ i \in 1..n /\ i + 1 \in 1..n /\ IsSeq(w) /\ IsSeq(v)
  /\ T[i + 1] = w \o v /\ U[i + 1] = v /\ U[i] = T[i] \o w
  /\ \A j \in 1..n : j # i /\ j # i + 1 => U[j] = T[j]

LEMMA ShiftedAt ==
  ASSUME NEW n, NEW T, NEW U, NEW i, NEW w, NEW v, Shifts(n, T, U, i, w, v)
  PROVE  /\ \A x, a, b : At(U, a, b, x) =>
              \E c, d : At(T, c, d, x) /\ Goes(i, Len(T[i]), Len(w), c, d, a, b)
         /\ \A x, c, d : At(T, c, d, x) => Present(U, x)
  <1> DEFINE m == Len(T[i])
             k == Len(w)
             l == Len(v)
             s == T[i]
  <1>0. /\ n \in Nat /\ DOMAIN T = 1..n /\ DOMAIN U = 1..n
        /\ i \in 1..n /\ i + 1 \in 1..n /\ IsSeq(s) /\ IsSeq(w) /\ IsSeq(v)
        /\ T[i + 1] = w \o v /\ U[i + 1] = v /\ U[i] = s \o w
        /\ \A j \in 1..n : j # i /\ j # i + 1 => U[j] = T[j]
    BY DEF Shifts
  <1>1. /\ m \in Nat /\ DOMAIN s = 1..m
        /\ k \in Nat /\ DOMAIN w = 1..k
        /\ l \in Nat /\ DOMAIN v = 1..l
    BY <1>0, LenOfSeq
  <1>2. /\ DOMAIN (w \o v) = 1 .. k + l
        /\ \A j \in 1 .. k + l : (w \o v)[j] = IF j <= k THEN w[j] ELSE v[j - k]
    BY <1>0, JoinedAt
  <1>3. /\ DOMAIN (s \o w) = 1 .. m + k
        /\ \A j \in 1 .. m + k : (s \o w)[j] = IF j <= m THEN s[j] ELSE w[j - m]
    BY <1>0, JoinedAt
  <1>4. /\ i \in Int /\ i # i + 1
        /\ DOMAIN T[i + 1] = 1 .. k + l
        /\ \A j \in 1..k : T[i + 1][j] = w[j]
        /\ \A j \in 1..l : T[i + 1][k + j] = v[j]
        /\ DOMAIN U[i] = 1 .. m + k
        /\ \A j \in 1..m : U[i][j] = T[i][j]
        /\ \A j \in 1..k : U[i][m + j] = w[j]
    <2>1. \A j \in 1..l : k + j \in 1 .. k + l /\ ~ (k + j <= k)
              /\ k + j - k = j
      BY <1>1
    <2>2. \A j \in 1..k : m + j \in 1 .. m + k /\ ~ (m + j <= m)
              /\ m + j - m = j
      BY <1>1
    <2>3. \A j \in 1..k : j \in 1 .. k + l /\ j <= k
      BY <1>1
    <2>4. \A j \in 1..m : j \in 1 .. m + k /\ j <= m
      BY <1>1
    <2>5. \A j \in 1..l : (w \o v)[k + j] = v[j]
      BY <1>2, <2>1
    <2>6. \A j \in 1..k : (s \o w)[m + j] = w[j]
      BY <1>3, <2>2
    <2>7. \A j \in 1..k : (w \o v)[j] = w[j]
      BY <1>2, <2>3
    <2>8. \A j \in 1..m : (s \o w)[j] = s[j]
      BY <1>3, <2>4
    <2>9. QED
      BY <1>0, <1>2, <1>3, <2>5, <2>6, <2>7, <2>8
  <1> HIDE DEF m, k, l, s
  <1>5. \A j \in 1 .. m + k : j \in 1..m \/ (j - m \in 1..k /\ j = m + (j - m))
    BY <1>1
  <1>6. \A j \in 1 .. k + l : j \in 1..k \/ (j - k \in 1..l /\ j = k + (j - k))
    BY <1>1
  <1>7. ASSUME NEW x, NEW a, NEW b, At(U, a, b, x)
        PROVE  \E c, d : At(T, c, d, x) /\ Goes(i, m, k, c, d, a, b)
    <2>1. a \in 1..n /\ b \in DOMAIN U[a] /\ U[a][b] = x
      BY <1>0, <1>7 DEF At
    <2>2. CASE a # i /\ a # i + 1
      <3>1. At(T, a, b, x) /\ Goes(i, m, k, a, b, a, b)
        BY <1>0, <2>1, <2>2 DEF At, Goes
      <3>2. QED
        BY <3>1
    <2>3. CASE a = i
      <3>1. CASE b \in 1..m
        <4>1. At(T, a, b, x) /\ Goes(i, m, k, a, b, a, b)
          BY <1>0, <1>1, <1>4, <2>1, <2>3, <3>1 DEF At, Goes, s
        <4>2. QED
          BY <4>1
      <3>2. CASE b - m \in 1..k /\ b = m + (b - m)
        <4> DEFINE e == b - m
        <4>1. e \in 1..k /\ b = m + e
          BY <3>2
        <4> HIDE DEF e
        <4>2. T[i + 1][e] = x /\ e \in DOMAIN T[i + 1] /\ e <= k
          <5>1. U[i][m + e] = w[e] /\ T[i + 1][e] = w[e]
            BY <1>4, <4>1
          <5>2. e \in 1 .. k + l /\ e <= k
            BY <1>1, <4>1
          <5>3. U[i][m + e] = x
            BY <2>1, <2>3, <4>1
          <5>4. QED
            BY <1>4, <5>1, <5>2, <5>3
        <4>3. At(T, i + 1, e, x) /\ Goes(i, m, k, i + 1, e, a, b)
          BY <1>0, <2>3, <4>1, <4>2 DEF At, Goes
        <4>4. QED
          BY <4>3
      <3>3. QED
        BY <1>4, <1>5, <2>1, <2>3, <3>1, <3>2
    <2>4. CASE a = i + 1
      <3>1. b \in 1..l /\ v[b] = x
        BY <1>0, <1>1, <2>1, <2>4
      <3>2. k + b \in 1 .. k + l /\ k + b > k /\ b = (k + b) - k
        BY <1>1, <3>1
      <3>3. At(T, i + 1, k + b, x) /\ Goes(i, m, k, i + 1, k + b, a, b)
        BY <1>0, <1>4, <2>4, <3>1, <3>2 DEF At, Goes
      <3>4. QED
        BY <3>3
    <2>5. QED
      BY <2>2, <2>3, <2>4
  <1>8. ASSUME NEW x, NEW c, NEW d, At(T, c, d, x)
        PROVE  Present(U, x)
    <2>1. c \in 1..n /\ d \in DOMAIN T[c] /\ T[c][d] = x
      BY <1>0, <1>8 DEF At
    <2>2. \E a, b : At(U, a, b, x)
      <3>1. CASE c # i /\ c # i + 1
        BY <1>0, <2>1, <3>1 DEF At
      <3>2. CASE c = i
        <4>1. d \in 1..m
          BY <1>1, <2>1, <3>2 DEF s
        <4>2. At(U, i, d, x)
          BY <1>0, <1>1, <1>4, <2>1, <3>2, <4>1 DEF At
        <4>3. QED
          BY <4>2
      <3>3. CASE c = i + 1 /\ d \in 1..k
        <4>1. m + d \in 1 .. m + k
          BY <1>1, <3>3
        <4>2. At(U, i, m + d, x)
          BY <1>0, <1>4, <2>1, <3>3, <4>1 DEF At
        <4>3. QED
          BY <4>2
      <3>4. CASE c = i + 1 /\ d - k \in 1..l /\ d = k + (d - k)
        <4> DEFINE e == d - k
        <4>1. e \in 1..l /\ d = k + e
          BY <3>4
        <4> HIDE DEF e
        <4>2. At(U, i + 1, e, x)
          BY <1>0, <1>1, <1>4, <2>1, <3>4, <4>1 DEF At
        <4>3. QED
          BY <4>2
      <3>5. QED
        BY <1>4, <1>6, <2>1, <3>1, <3>2, <3>3, <3>4
    <2>3. QED
      BY <2>2 DEF Present
  <1>9. QED
    BY <1>7, <1>8 DEF m, k

(* The items stay in order.                                                *)
LEMMA ShiftedOrder ==
  ASSUME NEW i \in Nat, NEW m \in Nat, NEW k \in Nat,
         NEW c \in Int, NEW d \in Int, NEW a \in Int, NEW b \in Int,
         NEW e \in Int, NEW f \in Int, NEW g \in Int, NEW h \in Int,
         Goes(i, m, k, c, d, a, b), Goes(i, m, k, e, f, g, h),
         d > 0, f > 0, c = i => d <= m, e = i => f <= m
  PROVE  (c < e \/ (c = e /\ d < f)) <=> (a < g \/ (a = g /\ b < h))
  BY DEF Goes

LEMMA ShiftKeeps ==
  ASSUME NEW n, NEW T, NEW U, NEW i, NEW w, NEW v, Shifts(n, T, U, i, w, v)
  PROVE  /\ \A t : InOrder(T, t) => InOrder(U, t)
         /\ \A x : Present(T, x) => Present(U, x)
         /\ \A x, a, b : At(U, a, b, x) =>
              \E c, d : At(T, c, d, x) /\ c \in 1..n
                  /\ (a = c \/ (c = i + 1 /\ a = i))
  <1> DEFINE m == Len(T[i])
             k == Len(w)
  <1>0. /\ n \in Nat /\ DOMAIN T = 1..n /\ i \in 1..n /\ IsSeq(w)
        /\ \A j \in 1..n : IsSeq(T[j])
    BY DEF Shifts
  <1>1. \A x, a, b : At(U, a, b, x) =>
          \E c, d : At(T, c, d, x) /\ Goes(i, m, k, c, d, a, b)
    BY ShiftedAt
  <1>2. \A x, c, d : At(T, c, d, x) => Present(U, x)
    BY ShiftedAt
  <1>3. m \in Nat /\ k \in Nat /\ i \in Nat /\ DOMAIN T[i] = 1..m
    BY <1>0, LenOfSeq
  <1>4. \A c, d, x : At(T, c, d, x) =>
          c \in 1..n /\ d \in Nat /\ d > 0 /\ (c = i => d <= m)
    <2>1. ASSUME NEW c, NEW d, NEW x, At(T, c, d, x)
          PROVE  c \in 1..n /\ d \in Nat /\ d > 0 /\ (c = i => d <= m)
      <3>1. c \in 1..n /\ d \in DOMAIN T[c] /\ Len(T[c]) \in Nat
              /\ DOMAIN T[c] = 1 .. Len(T[c])
        BY <1>0, <2>1, LenOfSeq DEF At
      <3>2. QED
        BY <1>0, <3>1
    <2>2. QED
      BY <2>1
  <1> HIDE DEF m, k
  <1>5. ASSUME NEW t, InOrder(T, t)
        PROVE  InOrder(U, t)
    <2>1. ASSUME NEW y \in DOMAIN t, NEW z \in DOMAIN t,
                 NEW a, NEW b, NEW g, NEW h,
                 At(U, a, b, t[y]), At(U, g, h, t[z])
          PROVE  y < z <=> (a < g \/ (a = g /\ b < h))
      <3>1. PICK c, d : At(T, c, d, t[y]) /\ Goes(i, m, k, c, d, a, b)
        BY <1>1, <2>1
      <3>2. PICK e, f : At(T, e, f, t[z]) /\ Goes(i, m, k, e, f, g, h)
        BY <1>1, <2>1
      <3>3. y < z <=> (c < e \/ (c = e /\ d < f))
        BY <1>5, <3>1, <3>2 DEF InOrder
      <3>4. /\ c \in Int /\ d \in Int /\ e \in Int /\ f \in Int
            /\ d > 0 /\ f > 0 /\ (c = i => d <= m) /\ (e = i => f <= m)
        BY <1>4, <3>1, <3>2
      <3>5. a \in Int /\ b \in Int /\ g \in Int /\ h \in Int
        BY <1>3, <3>1, <3>2, <3>4 DEF Goes
      <3>6. (c < e \/ (c = e /\ d < f)) <=> (a < g \/ (a = g /\ b < h))
        <4>1. i \in Nat /\ m \in Nat /\ k \in Nat
          BY <1>3
        <4>2. Goes(i, m, k, c, d, a, b) /\ Goes(i, m, k, e, f, g, h)
          BY <3>1, <3>2
        <4>3. QED
          BY <3>4, <3>5, <4>1, <4>2, ShiftedOrder
      <3>7. QED
        BY <3>3, <3>6
    <2>2. QED
      BY <2>1 DEF InOrder
  <1>6. \A x : Present(T, x) => Present(U, x)
    BY <1>2 DEF Present
  <1>7. ASSUME NEW x, NEW a, NEW b, At(U, a, b, x)
        PROVE  \E c, d : /\ At(T, c, d, x) /\ c \in 1..n
                         /\ (a = c \/ (c = i + 1 /\ a = i))
    <2>1. PICK c, d : At(T, c, d, x) /\ Goes(i, m, k, c, d, a, b)
      BY <1>1, <1>7
    <2>2. c \in 1..n /\ (a = c \/ (c = i + 1 /\ a = i))
      BY <1>4, <2>1 DEF Goes
    <2>3. QED
      BY <2>1, <2>2
  <1>8. QED
    BY <1>5, <1>6, <1>7

(* What is read from the places of a route.                                *)
LEMMA TextOfPlaces ==
  /\ \A p : Text(<<"process", p>>) = proc[p].buf
  /\ \A o : Text(<<"object", o>>)
         = IF o \in DOMAIN obj THEN obj[o].data ELSE <<>>
  /\ \A p : Text(<<"process", p>>)' = proc'[p].buf
  /\ \A o : Text(<<"object", o>>)'
              = IF o \in DOMAIN obj' THEN obj'[o].data ELSE <<>>
  BY DEF Text

LEMMA Route ==
  ASSUME IInv, NEW r, Leads(Scenes[scene], r)
  PROVE  /\ Len(r.path) \in Nat /\ DOMAIN r.path = 1 .. Len(r.path)
         /\ DOMAIN Places(r) = 1 .. Len(r.path)
         /\ DOMAIN Places(r)' = 1 .. Len(r.path)
         /\ \A i \in 1 .. Len(r.path) : /\ IsSeq(Places(r)[i])
                                        /\ Places(r)[i] = Text(r.path[i])
                                        /\ Places(r)'[i] = Text(r.path[i])'
  <1>1. Len(r.path) \in Nat /\ DOMAIN r.path = 1 .. Len(r.path)
    BY LenOfSeq DEF Leads
  <1>2. \A p \in Pids : IsSeq(Text(<<"process", p>>))
    <2>1. \A p \in Pids : IsSeq(proc[p].buf)
      BY DEF IInv, ProcessesOK, ProcessOK
    <2>2. QED
      BY <2>1, TextOfPlaces
  <1>3. \A o : IsSeq(Text(<<"object", o>>))
    BY TextOfPlaces, Short DEF IInv, ObjectsOK, ObjectOK
  <1>4. \A i \in 1 .. Len(r.path) : IsSeq(Text(r.path[i]))
    BY <1>2, <1>3 DEF Leads
  <1>5. QED
    BY <1>1, <1>4 DEF Places

(* A text moves on along its route.                                        *)
LEMMA RouteMoves ==
  ASSUME IInv, NEW r, Leads(Scenes[scene], r), RouteOK(r), scene' = scene,
         NEW i \in 1 .. Len(r.path), i + 1 \in 1 .. Len(r.path),
         NEW w, NEW v, IsSeq(w), IsSeq(v),
         Text(r.path[i + 1]) = w \o v, Text(r.path[i + 1])' = v,
         Text(r.path[i])' = Text(r.path[i]) \o w,
         \A j \in 1 .. Len(r.path) : j # i /\ j # i + 1 =>
           Text(r.path[j])' = Text(r.path[j]),
         Risky(Scenes[scene], r) /\ proc[r.reader].code = <<>> =>
           /\ proc'[r.reader].code = <<>>
           /\ r.path[i + 1] # <<"object", New>>,
         Nowhere(r)'
  PROVE  RouteOK(r)'
  <1> DEFINE n == Len(r.path)
             T == Places(r)
             U == Places(r)'
  <1>1. n \in Nat /\ i \in 1..n /\ Shifts(n, T, U, i, w, v)
    BY Route DEF Shifts
  <1> HIDE DEF T, U, n
  <1>3. /\ \A t : InOrder(T, t) => InOrder(U, t)
        /\ \A x : Present(T, x) => Present(U, x)
        /\ \A x, a, b : At(U, a, b, x) =>
             \E c, d : At(T, c, d, x) /\ c \in 1..n
                 /\ (a = c \/ (c = i + 1 /\ a = i))
    BY <1>1, ShiftKeeps
  <1>4. InOrder(U, r.text)
    BY <1>3 DEF RouteOK, T
  <1>5. ASSUME NEW k \in DOMAIN r.text, Lost(r, T, k)
        PROVE  /\ Risky(Scenes[scene], r) /\ proc'[r.reader].code = <<>>
               /\ \A l \in DOMAIN r.text : \A a, b :
                    k < l /\ At(U, a, b, r.text[l]) =>
                      \E f \in 1..a : r.path[f] = <<"object", New>>
    <2>1. Risky(Scenes[scene], r) /\ proc[r.reader].code = <<>>
      BY <1>5 DEF Lost
    <2>2. ASSUME NEW l \in DOMAIN r.text, NEW a, NEW b, k < l,
                 At(U, a, b, r.text[l])
          PROVE  \E f \in 1..a : r.path[f] = <<"object", New>>
      <3>1. PICK c, d : /\ At(T, c, d, r.text[l]) /\ c \in 1..n
                        /\ (a = c \/ (c = i + 1 /\ a = i))
        BY <1>3, <2>2
      <3>2. PICK f \in 1..c : r.path[f] = <<"object", New>>
        BY <1>5, <2>2, <3>1 DEF Lost
      <3>3. f # i + 1
        BY <2>1, <3>2
      <3>4. f \in 1..a
        BY <1>1, <3>1, <3>3
      <3>5. QED
        BY <3>2, <3>4
    <2>3. QED
      BY <2>1, <2>2
  <1>6. \A k \in DOMAIN r.text : Lost(r, T, k) => Lost(r, T, k)'
    BY <1>5 DEF Lost, New, T, U
  <1>7. \A k \in DOMAIN r.text : Present(U, r.text[k]) \/ Lost(r, Places(r), k)'
    BY <1>3, <1>6 DEF RouteOK, T
  <1>8. QED
    BY <1>4, <1>7 DEF RouteOK, U

(* Nothing moves, or what moves is not of this text.                       *)
LEMMA RouteKept ==
  ASSUME IInv, NEW r, Leads(Scenes[scene], r), RouteOK(r), scene' = scene,
         \A k \in DOMAIN r.text : \A a, b :
           At(Places(r)', a, b, r.text[k]) <=> At(Places(r), a, b, r.text[k]),
         Risky(Scenes[scene], r) /\ proc[r.reader].code = <<>> =>
           proc'[r.reader].code = <<>>,
         Nowhere(r)'
  PROVE  RouteOK(r)'
  <1> DEFINE T == Places(r)
             U == Places(r)'
  <1>1. \A k \in DOMAIN r.text : \A a, b :
          At(U, a, b, r.text[k]) <=> At(T, a, b, r.text[k])
    OBVIOUS
  <1>2. InOrder(T, r.text)
          /\ \A k \in DOMAIN r.text : Present(T, r.text[k]) \/ Lost(r, T, k)
    BY DEF RouteOK
  <1>3. \A k \in DOMAIN r.text : Lost(r, T, k) => Lost(r, Places(r), k)'
    <2>1. New' = New /\ (Risky(Scenes[scene], r) => Risky(Scenes[scene], r)')
      BY DEF New, Risky
    <2>2. ASSUME NEW k \in DOMAIN r.text, Lost(r, T, k)
          PROVE  Lost(r, Places(r), k)'
      <3>1. \A l \in DOMAIN r.text : \A a, b :
              k < l /\ At(U, a, b, r.text[l]) =>
                \E f \in 1..a : r.path[f] = <<"object", New>>
        <4> HIDE DEF T, U
        <4>1. QED
          BY <1>1, <2>2 DEF Lost
      <3>2. QED
        BY <2>1, <2>2, <3>1 DEF Lost
    <2>3. QED
      BY <2>2
  <1>4. InOrder(U, r.text) /\ \A k \in DOMAIN r.text :
          Present(T, r.text[k]) => Present(U, r.text[k])
    <2> HIDE DEF T, U
    <2>1. InOrder(U, r.text)
      <3>1. ASSUME NEW k \in DOMAIN r.text, NEW l \in DOMAIN r.text,
                   NEW a, NEW b, NEW c, NEW d,
                   At(U, a, b, r.text[k]), At(U, c, d, r.text[l])
            PROVE  k < l <=> (a < c \/ (a = c /\ b < d))
        <4>1. At(T, a, b, r.text[k]) /\ At(T, c, d, r.text[l])
          BY <1>1, <3>1
        <4>2. QED
          BY <1>2, <4>1 DEF InOrder
      <3>2. QED
        BY <3>1 DEF InOrder
    <2>2. \A k \in DOMAIN r.text : Present(T, r.text[k]) =>
              Present(U, r.text[k])
      BY <1>1 DEF Present
    <2>3. QED
      BY <2>1, <2>2
  <1>5. QED
    BY <1>2, <1>3, <1>4 DEF RouteOK

(* The FIFO loses what it has.                                             *)
LEMMA RouteDrained ==
  ASSUME IInv, NEW r, Leads(Scenes[scene], r), RouteOK(r), scene' = scene,
         NEW i \in 1 .. Len(r.path), r.path[i] = <<"object", New>>,
         Text(r.path[i])' = <<>>,
         \A j \in 1 .. Len(r.path) : j # i =>
             Text(r.path[j])' = Text(r.path[j]),
         Risky(Scenes[scene], r), proc'[r.reader].code = <<>>, Nowhere(r)'
  PROVE  RouteOK(r)'
  <1> DEFINE n == Len(r.path)
             T == Places(r)
             U == Places(r)'
  <1>1. /\ n \in Nat /\ DOMAIN T = 1..n /\ DOMAIN U = 1..n
        /\ U[i] = <<>> /\ \A j \in 1..n : j # i => U[j] = T[j]
    BY Route
  <1>2. InOrder(T, r.text)
          /\ \A k \in DOMAIN r.text : Present(T, r.text[k]) \/ Lost(r, T, k)
    BY DEF RouteOK
  <1>3. New' = New /\ Risky(Scenes[scene], r)'
    BY DEF New, Risky
  <1> HIDE DEF T, U, n
  <1>4. \A a, b, x : At(U, a, b, x) <=> At(T, a, b, x) /\ a # i
    <2>1. DOMAIN <<>> = {}
      OBVIOUS
    <2>2. QED
      BY <1>1, <2>1 DEF At
  <1>5. InOrder(U, r.text)
    BY <1>2, <1>4 DEF InOrder
  <1>6. ASSUME NEW k \in DOMAIN r.text, ~ Present(U, r.text[k]),
               NEW l \in DOMAIN r.text, NEW a, NEW b, k < l,
               At(U, a, b, r.text[l])
        PROVE  \E f \in 1..a : r.path[f] = <<"object", New>>
    <2>1. At(T, a, b, r.text[l]) /\ a # i /\ a \in 1..n
      BY <1>1, <1>4, <1>6 DEF At
    <2>2. CASE Present(T, r.text[k])
      <3>1. PICK c, d : At(T, c, d, r.text[k])
        BY <2>2 DEF Present
      <3>2. c = i
        BY <1>4, <1>6, <3>1 DEF Present
      <3>3. c < a \/ (c = a /\ d < b)
        BY <1>2, <1>6, <2>1, <3>1 DEF InOrder
      <3>4. i \in 1..a
        BY <1>1, <2>1, <3>2, <3>3
      <3>5. QED
        BY <3>4
    <2>3. CASE Lost(r, T, k)
      BY <1>6, <2>1, <2>3 DEF Lost
    <2>4. QED
      BY <1>2, <2>2, <2>3
  <1>7. \A k \in DOMAIN r.text : Present(U, r.text[k]) \/ Lost(r, Places(r), k)'
    BY <1>3, <1>6 DEF Lost, U
  <1>8. QED
    BY <1>5, <1>7 DEF RouteOK, U

(* Something else comes to a place of the route.                           *)
LEMMA RouteGains ==
  ASSUME IInv, NEW r, Leads(Scenes[scene], r), RouteOK(r), scene' = scene,
         NEW i \in 1 .. Len(r.path), NEW w, IsSeq(w),
         \A k \in DOMAIN r.text : r.text[k] \notin Range(w),
         Text(r.path[i])' = Text(r.path[i]) \o w,
         \A j \in 1 .. Len(r.path) : j # i =>
             Text(r.path[j])' = Text(r.path[j]),
         Risky(Scenes[scene], r) /\ proc[r.reader].code = <<>> =>
           proc'[r.reader].code = <<>>,
         Nowhere(r)'
  PROVE  RouteOK(r)'
  <1> DEFINE n == Len(r.path)
             T == Places(r)
             U == Places(r)'
             s == T[i]
  <1>1. /\ n \in Nat /\ DOMAIN T = 1..n /\ DOMAIN U = 1..n /\ IsSeq(s)
        /\ U[i] = s \o w /\ \A j \in 1..n : j # i => U[j] = T[j]
    BY Route
  <1> HIDE DEF T, U, n
  <1>2. /\ DOMAIN (s \o w) = 1 .. Len(s) + Len(w)
        /\ \A j \in 1 .. Len(s) + Len(w) :
             (s \o w)[j] = IF j <= Len(s) THEN s[j] ELSE w[j - Len(s)]
        /\ Len(s) \in Nat /\ DOMAIN s = 1 .. Len(s)
        /\ Len(w) \in Nat /\ DOMAIN w = 1 .. Len(w)
    BY <1>1, JoinedAt, LenOfSeq
  <1>3. ASSUME NEW k \in DOMAIN r.text, NEW b, NEW x, x = r.text[k]
        PROVE  b \in DOMAIN (s \o w) /\ (s \o w)[b] = x <=>
                 b \in DOMAIN s /\ s[b] = x
    <2>1. ASSUME b \in DOMAIN (s \o w), (s \o w)[b] = x
          PROVE  b \in DOMAIN s /\ s[b] = x
      <3>1. CASE b <= Len(s)
        BY <1>2, <2>1, <3>1
      <3>2. CASE ~ (b <= Len(s))
        <4>1. b - Len(s) \in DOMAIN w /\ w[b - Len(s)] = x
          BY <1>2, <2>1, <3>2
        <4>2. x \in Range(w)
          BY <4>1 DEF Range
        <4>3. QED
          BY <1>3, <4>2
      <3>3. QED
        BY <3>1, <3>2
    <2>2. ASSUME b \in DOMAIN s, s[b] = x
          PROVE  b \in DOMAIN (s \o w) /\ (s \o w)[b] = x
      BY <1>2, <2>2
    <2>3. QED
      BY <2>1, <2>2
  <1> HIDE DEF s
  <1>4. ASSUME NEW k \in DOMAIN r.text, NEW a, NEW b
        PROVE  At(U, a, b, r.text[k]) <=> At(T, a, b, r.text[k])
    <2>1. CASE a = i
      <3>1. i \in 1..n
        BY DEF n
      <3>2. U[i] = s \o w /\ T[i] = s
        BY <1>1 DEF s
      <3> DEFINE x == r.text[k]
                 z == s \o w
      <3>3. b \in DOMAIN z /\ z[b] = x <=> b \in DOMAIN s /\ s[b] = x
        BY <1>3
      <3> HIDE DEF x, z
      <3>4. U[a] = z /\ T[a] = s /\ a \in DOMAIN U /\ a \in DOMAIN T
        BY <1>1, <2>1, <3>1, <3>2 DEF z
      <3>5. At(U, a, b, x) <=> At(T, a, b, x)
        BY <3>3, <3>4 DEF At
      <3>6. QED
        BY <3>5 DEF x
    <2>2. CASE a # i
      BY <1>1, <2>2 DEF At
    <2>3. QED
      BY <2>1, <2>2
  <1>5. QED
    BY <1>4, RouteKept DEF T, U

(* Nothing on the route moves.                                             *)
LEMMA RouteRests ==
  ASSUME IInv, NEW r, Leads(Scenes[scene], r), RouteOK(r), scene' = scene,
         \A j \in 1 .. Len(r.path) : Text(r.path[j])' = Text(r.path[j]),
         Risky(Scenes[scene], r) /\ proc[r.reader].code = <<>> =>
           proc'[r.reader].code = <<>>,
         Nowhere(r)'
  PROVE  RouteOK(r)'
  <1> DEFINE n == Len(r.path)
             T == Places(r)
             U == Places(r)'
  <1>1. /\ DOMAIN T = 1..n /\ DOMAIN U = 1..n
        /\ \A j \in 1..n : U[j] = T[j]
    BY Route
  <1> HIDE DEF T, U, n
  <1>2. \A a, b, x : At(U, a, b, x) <=> At(T, a, b, x)
    BY <1>1 DEF At
  <1>3. QED
    BY <1>2, RouteKept DEF T, U

(* Where a route leads.                                                    *)
LEMMA Neighbours ==
  ASSUME IInv, Pipeline(Scenes[scene]), NEW r \in Scenes[scene].routes
  PROVE  /\ Leads(Scenes[scene], r)
         /\ \A i, j \in 1 .. Len(r.path) : r.path[i] = r.path[j] => i = j
         /\ \A i \in 1 .. Len(r.path) : \A p : r.path[i] = <<"process", p>> =>
              /\ i - 1 \in 1 .. Len(r.path)
                     /\ r.path[i - 1] = <<"object", Output(p)>>
              /\ i + 1 \in 1 .. Len(r.path)
                     /\ r.path[i + 1] = <<"object", Input(p)>>
         /\ \A p \in DOMAIN Scenes[scene].start : \A i \in 1 .. Len(r.path) :
              r.path[i] = <<"object", Input(p)>> =>
                i - 1 \in 1 .. Len(r.path) /\ r.path[i - 1] = <<"process", p>>
         /\ \A place : place \in Range(r.path) <=>
                         \E i \in 1 .. Len(r.path) : r.path[i] = place
         /\ \A i \in 1 .. Len(r.path) : r.path[i] \in AllPlaces
  <1> DEFINE n == Len(r.path)
             S == Scenes[scene]
  <1>1. Leads(S, r)
    BY DEF Pipeline
  <1>2. DOMAIN r.path = 1..n /\ n \in Nat /\ Made(S) \in Nat
    <2>1. Len(S.objects) \in Nat
      BY ScenesAssumption, LenOfSeq DEF IInv, SceneOK
    <2>2. QED
      BY <1>1, <2>1, LenOfSeq DEF Leads, Made
  <1>3. /\ \A p, q : <<"process", p>> = <<"process", q>> => p = q
        /\ \A p, q : <<"process", p>> # <<"object", q>>
    OBVIOUS
  <1>4. \A i \in 1..n :
          \/ \E q \in Pids \cap DOMAIN S.start :
               /\ r.path[i] = <<"process", q>>
               /\ i - 1 \in 1..n /\ r.path[i - 1] = <<"object", Output(q)>>
               /\ i + 1 \in 1..n /\ r.path[i + 1] = <<"object", Input(q)>>
          \/ \E o \in 1..Made(S) : r.path[i] = <<"object", o>>
    BY <1>1 DEF Leads, Output, Input
  <1>5. \A i \in 1..n : \A p : r.path[i] = <<"process", p>> =>
          /\ i - 1 \in 1..n /\ r.path[i - 1] = <<"object", Output(p)>>
          /\ i + 1 \in 1..n /\ r.path[i + 1] = <<"object", Input(p)>>
    BY <1>3, <1>4
  <1>6. \A i \in 1..n : r.path[i] \in AllPlaces
    <2>1. \A q \in Pids : <<"process", q>> \in AllPlaces
      BY DEF AllPlaces
    <2>2. \A o \in 1..Made(S) : <<"object", o>> \in AllPlaces
      BY <1>2 DEF AllPlaces
    <2>3. QED
      BY <1>4, <2>1, <2>2
  <1>7. \A p \in DOMAIN S.start : \A i \in 1..n :
          r.path[i] = <<"object", Input(p)>> =>
            i - 1 \in 1..n /\ r.path[i - 1] = <<"process", p>>
    BY <1>1 DEF Leads, Input
  <1>8. \A i, j \in 1..n : r.path[i] = r.path[j] => i = j
    BY <1>1 DEF Leads
  <1>9. \A place : place \in Range(r.path) <=> \E i \in 1..n : r.path[i] = place
    BY <1>2 DEF Range
  <1>10. QED
    BY <1>1, <1>5, <1>6, <1>7, <1>8, <1>9

(* A part of what is at x goes to y, and nothing else moves.               *)
Carries(x, y, w, v) ==
  /\ x \in AllPlaces /\ y \in AllPlaces /\ x # y
  /\ IsSeq(w) /\ IsSeq(v) /\ IsSeq(Text(y))
  /\ Text(x) = w \o v /\ Text(x)' = v /\ Text(y)' = Text(y) \o w
  /\ \A z \in AllPlaces : z # x /\ z # y => Text(z)' = Text(z)

(* From a place of the route it goes to the one before it.                 *)
Along(r, x, y) ==
  \A i \in 1 .. Len(r.path) : r.path[i] = x =>
    i - 1 \in 1 .. Len(r.path) /\ r.path[i - 1] = y

LEMMA RangeJoined ==
  ASSUME NEW s, NEW t, IsSeq(s), IsSeq(t)
  PROVE  /\ \A x : x \in Range(s \o t) <=> x \in Range(s) \/ x \in Range(t)
         /\ \A x, z : x \in Range(z) <=> \E i \in DOMAIN z : z[i] = x
  <1>1. /\ DOMAIN (s \o t) = 1 .. Len(s) + Len(t)
        /\ \A i \in 1 .. Len(s) + Len(t) :
             (s \o t)[i] = IF i <= Len(s) THEN s[i] ELSE t[i - Len(s)]
        /\ Len(s) \in Nat /\ DOMAIN s = 1 .. Len(s)
        /\ Len(t) \in Nat /\ DOMAIN t = 1 .. Len(t)
    BY JoinedAt, LenOfSeq
  <1>2. \A x, z : x \in Range(z) <=> \E i \in DOMAIN z : z[i] = x
    BY DEF Range
  <1> DEFINE u == s \o t
             m == Len(s)
             n == Len(t)
  <1>3. /\ DOMAIN u = 1 .. m + n /\ m \in Nat /\ n \in Nat
        /\ DOMAIN s = 1 .. m /\ DOMAIN t = 1 .. n
        /\ \A i \in 1..m : u[i] = s[i]
        /\ \A i \in m + 1 .. m + n : u[i] = t[i - m]
    BY <1>1
  <1> HIDE DEF u, m, n
  <1>4. \A i \in 1..n : m + i \in m + 1 .. m + n /\ m + i - m = i
    BY <1>3
  <1>5. \A i \in 1..n : u[m + i] = t[i] /\ m + i \in 1 .. m + n
    BY <1>3, <1>4
  <1>6. ASSUME NEW x, x \in Range(u)
        PROVE  x \in Range(s) \/ x \in Range(t)
    <2>1. PICK i \in 1 .. m + n : u[i] = x
      BY <1>2, <1>3, <1>6
    <2>2. CASE i \in 1..m
      BY <1>2, <1>3, <2>1, <2>2
    <2>3. CASE i \in m + 1 .. m + n
      <3>1. i - m \in 1..n /\ t[i - m] = x
        BY <1>3, <2>1, <2>3
      <3>2. QED
        BY <1>2, <1>3, <3>1
    <2>4. QED
      BY <1>3, <2>2, <2>3
  <1>7. ASSUME NEW x, x \in Range(s) \/ x \in Range(t)
        PROVE  x \in Range(u)
    <2>1. CASE x \in Range(s)
      <3>1. PICK i \in 1..m : s[i] = x
        BY <1>2, <1>3, <2>1
      <3>2. u[i] = x /\ i \in 1 .. m + n
        BY <1>3, <3>1
      <3>3. QED
        BY <1>2, <1>3, <3>2
    <2>2. CASE x \in Range(t)
      <3>1. PICK i \in 1..n : t[i] = x
        BY <1>2, <1>3, <2>2
      <3>2. u[m + i] = x /\ m + i \in 1 .. m + n
        BY <1>5, <3>1
      <3>3. QED
        BY <1>2, <1>3, <3>2
    <2>3. QED
      BY <1>7, <2>1, <2>2
  <1>8. QED
    BY <1>2, <1>6, <1>7 DEF u

(* What is carried stays on its way.                                       *)
LEMMA Carried ==
  ASSUME IInv, NEW r, Leads(Scenes[scene], r), RouteOK(r), scene' = scene,
         \A i \in 1 .. Len(r.path) : r.path[i] \in AllPlaces,
         NEW x, NEW y, NEW w, NEW v, Carries(x, y, w, v), Along(r, x, y),
         Risky(Scenes[scene], r) /\ proc[r.reader].code = <<>> =>
           proc'[r.reader].code = <<>> /\ x # <<"object", New>>
  PROVE  RouteOK(r)'
  <1> DEFINE n == Len(r.path)
  <1>1. /\ n \in Nat /\ DOMAIN r.path = 1..n
        /\ \A z : z \in Range(r.path) <=> \E i \in 1..n : r.path[i] = z
        /\ \A i, j \in 1..n : r.path[i] = r.path[j] => i = j
    BY Route DEF Range, Leads
  <1>2. /\ x \in AllPlaces /\ y \in AllPlaces /\ x # y
        /\ IsSeq(w) /\ IsSeq(v) /\ IsSeq(Text(y))
        /\ Text(x) = w \o v /\ Text(x)' = v /\ Text(y)' = Text(y) \o w
        /\ \A z \in AllPlaces : z # x /\ z # y => Text(z)' = Text(z)
    BY DEF Carries
  <1>3. \A i \in 1..n : r.path[i] = x => i - 1 \in 1..n /\ r.path[i - 1] = y
    BY DEF Along
  <1>4. Nowhere(r)
    BY DEF RouteOK
  <1>5. /\ \A z : z \in Range(Text(x)) <=> z \in Range(w) \/ z \in Range(v)
        /\ \A z : z \in Range(Text(y)') <=>
               z \in Range(Text(y)) \/ z \in Range(w)
    BY <1>2, RangeJoined
  <1>6. x \notin Range(r.path) =>
            \A k \in DOMAIN r.text : r.text[k] \notin Range(w)
    BY <1>2, <1>4, <1>5 DEF Nowhere
  <1>7. Nowhere(r)'
    <2>1. ASSUME NEW k \in DOMAIN r.text, NEW place \in AllPlaces,
                 place \notin Range(r.path)
          PROVE  r.text[k] \notin Range(Text(place)')
      <3>1. r.text[k] \notin Range(Text(place))
        BY <1>4, <2>1 DEF Nowhere
      <3>2. CASE place = x
        BY <1>2, <1>5, <3>1, <3>2
      <3>3. CASE place = y
        <4>1. x \notin Range(r.path)
          BY <1>1, <1>3, <2>1, <3>3
        <4>2. QED
          BY <1>5, <1>6, <3>1, <3>3, <4>1
      <3>4. CASE place # x /\ place # y
        BY <1>2, <3>1, <3>4
      <3>5. QED
        BY <3>2, <3>3, <3>4
    <2>2. QED
      BY <2>1 DEF Nowhere
  <1>8. CASE x \in Range(r.path)
    <2>1. PICK j \in 1..n : r.path[j] = x
      BY <1>1, <1>8
    <2> DEFINE i == j - 1
    <2>2. i \in 1..n /\ i + 1 \in 1..n /\ r.path[i] = y /\ r.path[i + 1] = x
      BY <1>1, <1>3, <2>1
    <2> HIDE DEF i
    <2>3. \A l \in 1..n : l # i /\ l # i + 1 =>
              Text(r.path[l])' = Text(r.path[l])
      BY <1>1, <1>2, <2>2
    <2>4. QED
      BY <1>2, <1>7, <2>2, <2>3, RouteMoves
  <1>9. CASE x \notin Range(r.path) /\ y \in Range(r.path)
    <2>1. PICK i \in 1..n : r.path[i] = y
      BY <1>1, <1>9
    <2>2. \A l \in 1..n : l # i => Text(r.path[l])' = Text(r.path[l])
      BY <1>1, <1>2, <1>9, <2>1
    <2>3. QED
      BY <1>2, <1>6, <1>7, <1>9, <2>1, <2>2, RouteGains
  <1>10. CASE x \notin Range(r.path) /\ y \notin Range(r.path)
    <2>1. \A l \in 1..n : Text(r.path[l])' = Text(r.path[l])
      BY <1>1, <1>2, <1>10
    <2>2. QED
      BY <1>7, <2>1, RouteRests
  <1>11. QED
    BY <1>8, <1>9, <1>10

(* Nothing is carried; only the FIFO may lose what it has, when its reader *)
(* has left.                                                               *)
LEMMA Undisturbed ==
  ASSUME IInv, NEW r, Leads(Scenes[scene], r), RouteOK(r), scene' = scene,
         \A i \in 1 .. Len(r.path) : r.path[i] \in AllPlaces,
         NEW z, z = <<"object", New>>,
         \A x \in AllPlaces : Text(x)' = Text(x) \/ (x = z /\ Text(x)' = <<>>),
         Risky(Scenes[scene], r) /\ proc[r.reader].code = <<>> =>
           proc'[r.reader].code = <<>>,
         z \in Range(r.path) /\ Text(z)' # Text(z) =>
           Risky(Scenes[scene], r) /\ proc'[r.reader].code = <<>>
  PROVE  RouteOK(r)'
  <1> DEFINE n == Len(r.path)
  <1>1. /\ n \in Nat /\ DOMAIN r.path = 1..n
        /\ \A p : p \in Range(r.path) <=> \E i \in 1..n : r.path[i] = p
        /\ \A i, j \in 1..n : r.path[i] = r.path[j] => i = j
    BY Route DEF Range, Leads
  <1>2. Range(<<>>) = {}
    <2>1. DOMAIN <<>> = {}
      OBVIOUS
    <2>2. QED
      BY <2>1 DEF Range
  <1>3. Nowhere(r)'
    <2>1. ASSUME NEW k \in DOMAIN r.text, NEW place \in AllPlaces,
                 place \notin Range(r.path)
          PROVE  r.text[k] \notin Range(Text(place)')
      <3>1. r.text[k] \notin Range(Text(place))
        BY <2>1 DEF Nowhere, RouteOK
      <3>2. Text(place)' = Text(place) \/ Text(place)' = <<>>
        OBVIOUS
      <3>3. QED
        BY <1>2, <3>1, <3>2
    <2>2. QED
      BY <2>1 DEF Nowhere
  <1>4. CASE z \in Range(r.path) /\ Text(z)' # Text(z)
    <2>1. PICK i \in 1..n : r.path[i] = z
      BY <1>1, <1>4
    <2>2. Text(r.path[i])' = <<>>
      BY <1>4, <2>1
    <2>3. \A j \in 1..n : j # i => Text(r.path[j])' = Text(r.path[j])
      BY <1>1, <2>1
    <2>4. Risky(Scenes[scene], r) /\ proc'[r.reader].code = <<>>
      BY <1>4
    <2>5. QED
      BY <1>3, <2>1, <2>2, <2>3, <2>4, RouteDrained
  <1>5. CASE ~ (z \in Range(r.path) /\ Text(z)' # Text(z))
    <2>1. \A j \in 1..n : Text(r.path[j])' = Text(r.path[j])
      BY <1>1, <1>5
    <2>2. QED
      BY <1>3, <2>1, RouteRests
  <1>6. QED
    BY <1>4, <1>5

-----------------------------------------------------------------------------
(* The programs, and how far they are.                                     *)

LEMMA CopiesWhat ==
  \A c : Copies(c) => c = FCat \/ \E n \in Nat : c = IoCopy(n)
  BY DEF Copies

(* An open of that file, for that side.                                    *)
Opens(c, file, side) ==
  c[1] = "open" /\ c[2] = "fd" /\ c[3] = file /\ c[4] = side

(* No program is of two kinds.                                             *)
LEMMA CopierKinds ==
  /\ \A c : Copies(c) => c # <<>> /\ Head(c)[1] = "while"
  /\ \A c : ReadsFile(c) => c # <<>> /\ Opens(Head(c), "moja_datoteka.txt", "r")
  /\ \A c : WritesFile(c) => c # <<>> /\ Opens(Head(c), "izlaz.txt", "w")
  /\ \A c : OfFifo(c) => c # <<>> /\ Head(c) = mkfifo("/tmp/moj_fifo")
  /\ \A c : Copies(c) => ~ ReadsFile(c) /\ ~ WritesFile(c) /\ ~ OfFifo(c)
  /\ \A c : ReadsFile(c) => ~ WritesFile(c) /\ ~ OfFifo(c)
  /\ \A c : WritesFile(c) => ~ OfFifo(c)
  /\ FifoPosalji # FifoPrimi
  <1> DEFINE o == open("fd", "moja_datoteka.txt", "r")
             u == openOr("fd", "moja_datoteka.txt", "r", "exit 0")
             i == open("fd", "izlaz.txt", "w")
             m == mkfifo("/tmp/moj_fifo")
             x == openFifo("fd", "/tmp/moj_fifo", "w")
             y == openFifo("fd", "/tmp/moj_fifo", "r")
             z == close("fd")
             l(n) == while("STDIN", n, <<writeStrict("STDOUT", "buf")>>)
             g == rw("STDIN", "STDOUT")
             b == rw("fd", "STDOUT")
             d == while("fd", 1, <<writeStrict("STDOUT", "buf")>>)
             e == while("STDIN", 1, <<writeStrict("fd", "buf")>>)
             s == while("STDIN", 1, <<write("fd", "buf")>>)
             t == while("fd", 1, <<printf("buf")>>)
  <1>1. /\ o[1] = "open" /\ i[1] = "open" /\ m[1] = "mkfifo" /\ o[4] = "r"
        /\ u[4] = "r" /\ i[4] = "w" /\ g[1] = "while"
        /\ x[4] = "w" /\ y[4] = "r"
        /\ \A n : l(n)[1] = "while"
    BY DEF open, openOr, mkfifo, openFifo, rw, while
  <1>2. /\ FCat = <<g>> /\ \A n : IoCopy(n) = <<l(n)>>
        /\ ReadFile = <<o, d, z>> /\ FCatFile("moja_datoteka.txt") = <<u, b, z>>
        /\ FWrite("izlaz.txt") = <<i, e, z>>
        /\ FifoPosalji = <<m, x, s, z>> /\ FifoPrimi = <<m, y, t, z>>
    BY DEF FCat, IoCopy, ReadFile, FCatFile, FWrite, FifoPosalji, FifoPrimi
  <1>3. /\ Opens(o, "moja_datoteka.txt", "r")
        /\ Opens(u, "moja_datoteka.txt", "r")
        /\ Opens(i, "izlaz.txt", "w")
    BY DEF Opens, open, openOr
  <1> HIDE DEF o, u, i, m, x, y, z, l, g, b, d, e, s, t
  <1>4. \A c : Copies(c) => c # <<>> /\ Head(c)[1] = "while"
    BY <1>1, <1>2, ShortCodes, CopiesWhat
  <1>5. \A c : ReadsFile(c) => c # <<>> /\ Head(c) \in {o, u}
    BY <1>2, ShortCodes DEF ReadsFile
  <1>6. \A c : WritesFile(c) => c # <<>> /\ Head(c) = i
    BY <1>2, ShortCodes DEF WritesFile
  <1>7. \A c : OfFifo(c) => c # <<>> /\ Head(c) = m
    BY <1>2, ShortCodes DEF OfFifo
  <1>8. FifoPosalji # FifoPrimi
    <2>1. Head(Tail(FifoPosalji)) = x /\ Head(Tail(FifoPrimi)) = y
      BY <1>2, ShortCodes
    <2>2. QED
      BY <1>1, <2>1
  <1>9. /\ o[1] # "while" /\ u[1] # "while" /\ i[1] # "while" /\ m[1] # "while"
         /\ m \notin {o, u, i} /\ i \notin {o, u}
    BY <1>1, <1>3 DEF Opens
  <1>10. \A c : ReadsFile(c) => c # <<>> /\ Opens(Head(c), "moja_datoteka.txt", "r")
    BY <1>5, <1>3
  <1>11. \A c : WritesFile(c) => c # <<>> /\ Opens(Head(c), "izlaz.txt", "w")
    BY <1>6, <1>3
  <1>12. \A c : Copies(c) => ~ ReadsFile(c) /\ ~ WritesFile(c) /\ ~ OfFifo(c)
    BY <1>4, <1>5, <1>6, <1>7, <1>9
  <1>13. /\ \A c : ReadsFile(c) => ~ WritesFile(c) /\ ~ OfFifo(c)
         /\ \A c : WritesFile(c) => ~ OfFifo(c)
    BY <1>5, <1>6, <1>7, <1>9
  <1>14. QED
    BY <1>4, <1>7, <1>8, <1>10, <1>11, <1>12, <1>13 DEF m

(* What is left after the call that opens something.                       *)
LEMMA CopierOpens ==
  /\ \A c : ReadsFile(c) \/ WritesFile(c) => Tail(c) = LoopCode(c)
  /\ \A c : OfFifo(c) =>
       /\ Tail(c) # <<>> /\ Tail(Tail(c)) = LoopCode(c)
       /\ Head(Tail(c)) = openFifo("fd", "/tmp/moj_fifo",
                                   IF c = FifoPrimi THEN "r" ELSE "w")
  /\ \A c : Copies(c) => c = LoopCode(c)
  <1>1. \A c : ReadsFile(c) \/ WritesFile(c) => Tail(c) = LoopCode(c)
    BY CopierKinds DEF LoopCode
  <1>2. \A c : OfFifo(c) => Tail(Tail(c)) = LoopCode(c)
    BY CopierKinds DEF LoopCode
  <1>3. \A c : Copies(c) => c = LoopCode(c)
    BY DEF LoopCode
  <1> DEFINE m == mkfifo("/tmp/moj_fifo")
             x == openFifo("fd", "/tmp/moj_fifo", "w")
             y == openFifo("fd", "/tmp/moj_fifo", "r")
             z == close("fd")
             s == while("STDIN", 1, <<write("fd", "buf")>>)
             t == while("fd", 1, <<printf("buf")>>)
  <1>4. FifoPosalji = <<m, x, s, z>> /\ FifoPrimi = <<m, y, t, z>>
    BY DEF FifoPosalji, FifoPrimi
  <1> HIDE DEF m, x, y, z, s, t
  <1>5. /\ Tail(FifoPosalji) # <<>> /\ Head(Tail(FifoPosalji)) = x
        /\ Tail(FifoPrimi) # <<>> /\ Head(Tail(FifoPrimi)) = y
    BY <1>4, ShortCodes
  <1>6. \A c : OfFifo(c) =>
          /\ Tail(c) # <<>>
          /\ Head(Tail(c)) = openFifo("fd", "/tmp/moj_fifo",
                                      IF c = FifoPrimi THEN "r" ELSE "w")
    BY <1>5, CopierKinds DEF OfFifo, x, y
  <1>7. QED
    BY <1>1, <1>2, <1>3, <1>6

(* The loop of a program that copies.                                      *)
Copy(c, n, strict) ==
  <<"while", In(c), n, << <<"write", Out(c), "buf", strict>> >> >>
LEMMA CopierLoop ==
  \A c : Copies(c) \/ ReadsFile(c) \/ WritesFile(c) \/ OfFifo(c) =>
    /\ LoopCode(c) # <<>>
    /\ \E n \in Nat : \E strict \in BOOLEAN :
           Head(LoopCode(c)) = Copy(c, n, strict)
    /\ \/ LoopCode(c) = <<Head(LoopCode(c))>>
       \/ LoopCode(c) = <<Head(LoopCode(c)), close("fd")>>
  <1> DEFINE o == open("fd", "moja_datoteka.txt", "r")
             u == openOr("fd", "moja_datoteka.txt", "r", "exit 0")
             i == open("fd", "izlaz.txt", "w")
             m == mkfifo("/tmp/moj_fifo")
             x == openFifo("fd", "/tmp/moj_fifo", "w")
             y == openFifo("fd", "/tmp/moj_fifo", "r")
             z == close("fd")
             l(n) == while("STDIN", n, <<writeStrict("STDOUT", "buf")>>)
             g == rw("STDIN", "STDOUT")
             b == rw("fd", "STDOUT")
             d == while("fd", 1, <<writeStrict("STDOUT", "buf")>>)
             e == while("STDIN", 1, <<writeStrict("fd", "buf")>>)
             s == while("STDIN", 1, <<write("fd", "buf")>>)
             t == while("fd", 1, <<printf("buf")>>)
             copy(from, to, n, strict) ==
               <<"while", from, n, << <<"write", to, "buf", strict>> >> >>
  <1>1. /\ \A n : l(n) = copy("STDIN", "STDOUT", n, TRUE)
        /\ g = copy("STDIN", "STDOUT", 1, FALSE)
        /\ b = copy("fd", "STDOUT", 1, FALSE)
        /\ d = copy("fd", "STDOUT", 1, TRUE)
        /\ e = copy("STDIN", "fd", 1, TRUE)
        /\ s = copy("STDIN", "fd", 1, FALSE)
        /\ t = copy("fd", "STDOUT", 1, FALSE)
        /\ \A c, n, strict : Copy(c, n, strict) = copy(In(c), Out(c), n, strict)
    BY DEF rw, while, write, writeStrict, printf, Copy
  <1>2. /\ FCat = <<g>> /\ \A n : IoCopy(n) = <<l(n)>>
        /\ ReadFile = <<o, d, z>> /\ FCatFile("moja_datoteka.txt") = <<u, b, z>>
        /\ FWrite("izlaz.txt") = <<i, e, z>>
        /\ FifoPosalji = <<m, x, s, z>> /\ FifoPrimi = <<m, y, t, z>>
    BY DEF FCat, IoCopy, ReadFile, FCatFile, FWrite, FifoPosalji, FifoPrimi
  <1> HIDE DEF o, u, i, m, x, y, z, l, g, b, d, e, s, t, copy
  <1>3. /\ Tail(ReadFile) = <<d, z>>
               /\ Tail(FCatFile("moja_datoteka.txt")) = <<b, z>>
        /\ Tail(FWrite("izlaz.txt")) = <<e, z>>
        /\ Tail(Tail(FifoPosalji)) = <<s, z>>
               /\ Tail(Tail(FifoPrimi)) = <<t, z>>
    <2>1. /\ Tail(<<o, d, z>>) = <<d, z>> /\ Tail(<<u, b, z>>) = <<b, z>>
          /\ Tail(<<i, e, z>>) = <<e, z>>
      BY ShortCodes
    <2>2. Tail(<<m, x, s, z>>) = <<x, s, z>> /\ Tail(<<x, s, z>>) = <<s, z>>
      BY ShortCodes
    <2>3. Tail(<<m, y, t, z>>) = <<y, t, z>> /\ Tail(<<y, t, z>>) = <<t, z>>
      BY ShortCodes
    <2>4. QED
      BY <1>2, <2>1, <2>2, <2>3
  <1>4. \A c : /\ Copies(c) => In(c) = "STDIN" /\ Out(c) = "STDOUT"
               /\ ReadsFile(c) => In(c) = "fd" /\ Out(c) = "STDOUT"
               /\ WritesFile(c) => In(c) = "STDIN" /\ Out(c) = "fd"
               /\ c = FifoPosalji => In(c) = "STDIN" /\ Out(c) = "fd"
               /\ c = FifoPrimi => In(c) = "fd" /\ Out(c) = "STDOUT"
    BY CopierKinds DEF In, Out, OfFifo
  <1>5. ASSUME NEW c, NEW h, NEW n \in Nat, NEW strict \in BOOLEAN,
               h = Copy(c, n, strict), LoopCode(c) = <<h>>
                   \/ LoopCode(c) = <<h, z>>
        PROVE  /\ LoopCode(c) # <<>>
               /\ \E k \in Nat : \E w \in BOOLEAN :
                      Head(LoopCode(c)) = Copy(c, k, w)
               /\ \/ LoopCode(c) = <<Head(LoopCode(c))>>
                  \/ LoopCode(c) = <<Head(LoopCode(c)), z>>
    <2>1. Head(LoopCode(c)) = h /\ LoopCode(c) # <<>>
      BY <1>5, ShortCodes
    <2>2. QED
      BY <1>5, <2>1
  <1>6. ASSUME NEW c, Copies(c)
        PROVE  \E h : \E n \in Nat : \E strict \in BOOLEAN :
                 h = Copy(c, n, strict) /\ LoopCode(c) = <<h>>
    <2>1. CASE c = FCat
      <3>1. g = Copy(c, 1, FALSE) /\ LoopCode(c) = <<g>>
        BY <1>1, <1>2, <1>4, <1>6, <2>1 DEF LoopCode
      <3>2. QED
        BY <3>1
    <2>2. CASE \E n \in Nat : c = IoCopy(n)
      <3>1. PICK n \in Nat : c = IoCopy(n)
        BY <2>2
      <3>2. l(n) = Copy(c, n, TRUE) /\ LoopCode(c) = <<l(n)>>
        BY <1>1, <1>2, <1>4, <1>6, <3>1 DEF LoopCode
      <3>3. QED
        BY <3>2
    <2>3. QED
      BY <1>6, <2>1, <2>2, CopiesWhat
  <1>7. ASSUME NEW c, ReadsFile(c) \/ WritesFile(c) \/ OfFifo(c)
        PROVE  \E h : \E n \in Nat : \E strict \in BOOLEAN :
                 h = Copy(c, n, strict) /\ LoopCode(c) = <<h, z>>
    <2>1. /\ ReadsFile(c) \/ WritesFile(c) => LoopCode(c) = Tail(c)
          /\ OfFifo(c) => LoopCode(c) = Tail(Tail(c))
      BY CopierOpens
    <2>2. CASE c = ReadFile
      <3>1. d = Copy(c, 1, TRUE) /\ LoopCode(c) = <<d, z>>
        BY <1>1, <1>3, <1>4, <2>1, <2>2 DEF ReadsFile
      <3>2. QED
        BY <3>1
    <2>3. CASE c = FCatFile("moja_datoteka.txt")
      <3>1. b = Copy(c, 1, FALSE) /\ LoopCode(c) = <<b, z>>
        BY <1>1, <1>3, <1>4, <2>1, <2>3 DEF ReadsFile
      <3>2. QED
        BY <3>1
    <2>4. CASE c = FWrite("izlaz.txt")
      <3>1. e = Copy(c, 1, TRUE) /\ LoopCode(c) = <<e, z>>
        BY <1>1, <1>3, <1>4, <2>1, <2>4 DEF WritesFile
      <3>2. QED
        BY <3>1
    <2>5. CASE c = FifoPosalji
      <3>1. s = Copy(c, 1, FALSE) /\ LoopCode(c) = <<s, z>>
        BY <1>1, <1>3, <1>4, <2>1, <2>5 DEF OfFifo
      <3>2. QED
        BY <3>1
    <2>6. CASE c = FifoPrimi
      <3>1. t = Copy(c, 1, FALSE) /\ LoopCode(c) = <<t, z>>
        BY <1>1, <1>3, <1>4, <2>1, <2>6 DEF OfFifo
      <3>2. QED
        BY <3>1
    <2>7. QED
      BY <1>7, <2>2, <2>3, <2>4, <2>5, <2>6 DEF ReadsFile, WritesFile, OfFifo
  <1>8. QED
    BY <1>5, <1>6, <1>7 DEF z

(* The scene, and what a process of it gets and puts.                      *)
LEMMA CopierPlaces ==
  ASSUME IInv, Pipeline(Scenes[scene])
  PROVE  /\ New \in Nat /\ New >= 2
         /\ \A p \in DOMAIN Scenes[scene].start :
              /\ \/ Copies(Program(p)) \/ ReadsFile(Program(p))
                 \/ WritesFile(Program(p)) \/ OfFifo(Program(p))
              /\ Program(p) = FifoPrimi => Input(p) = New
              /\ ReadsFile(Program(p)) =>
                   Input(p) = Scenes[scene].file
                       /\ Output(p) = Scenes[scene].output[p]
              /\ ~ ReadsFile(Program(p)) /\ Program(p) # FifoPrimi =>
                   Input(p) = Scenes[scene].input[p]
              /\ WritesFile(Program(p)) \/ Program(p) = FifoPosalji =>
                     Output(p) = New
              /\ ~ WritesFile(Program(p)) /\ Program(p) # FifoPosalji =>
                   Output(p) = Scenes[scene].output[p]
              /\ Scenes[scene].input[p] # New /\ Scenes[scene].output[p] # New
         /\ Scenes[scene].file # New
         /\ \A p, q \in DOMAIN Scenes[scene].start :
              /\ WritesFile(Program(p)) /\ WritesFile(Program(q)) => p = q
              /\ Program(p) = FifoPrimi /\ Program(q) = FifoPrimi => p = q
              /\ ~ (WritesFile(Program(p)) /\ OfFifo(Program(q)))
         /\ \A p \in DOMAIN Scenes[scene].start :
              Program(p) = Scenes[scene].start[p]
  <1> DEFINE S == Scenes[scene]
             l == Len(S.objects)
  <1>1. scene \in DOMAIN Scenes
    BY DEF IInv, SceneOK
  <1>2. /\ l \in Nat /\ S.file \in {0} \cup 1 .. 1 + l
        /\ \A p \in DOMAIN S.start :
               {S.input[p], S.output[p]} \subseteq 1 .. 1 + l
    BY <1>1, ScenesAssumption, LenOfSeq
  <1>3. New = l + 2
    BY DEF New, Made
  <1>4. /\ New \in Nat /\ New >= 2 /\ S.file # New
        /\ \A p \in DOMAIN S.start : S.input[p] # New /\ S.output[p] # New
    BY <1>2, <1>3
  <1>5. \A p \in DOMAIN S.start : Program(p) = S.start[p]
    BY DEF Program
  <1>6. /\ \A p \in DOMAIN S.start :
             \/ Copies(S.start[p]) \/ ReadsFile(S.start[p])
             \/ WritesFile(S.start[p]) \/ OfFifo(S.start[p])
        /\ \A p, q \in DOMAIN S.start :
             /\ p # q /\ S.start[p] = S.start[q] =>
                  ~ WritesFile(S.start[p]) /\ S.start[p] # FifoPrimi
             /\ ~ (WritesFile(S.start[p]) /\ OfFifo(S.start[q]))
    BY DEF Pipeline
  <1>7. \A p, q \in DOMAIN S.start :
          /\ WritesFile(Program(p)) /\ WritesFile(Program(q)) => p = q
          /\ Program(p) = FifoPrimi /\ Program(q) = FifoPrimi => p = q
          /\ ~ (WritesFile(Program(p)) /\ OfFifo(Program(q)))
    BY <1>5, <1>6 DEF WritesFile
  <1>8. ~ ReadsFile(FifoPrimi) /\ ~ WritesFile(FifoPosalji)
    BY CopierKinds DEF OfFifo
  <1>9. \A p \in DOMAIN S.start :
          /\ Program(p) = FifoPrimi => Input(p) = New
          /\ ReadsFile(Program(p)) =>
                 Input(p) = S.file /\ Output(p) = S.output[p]
          /\ ~ ReadsFile(Program(p)) /\ Program(p) # FifoPrimi =>
                 Input(p) = S.input[p]
          /\ WritesFile(Program(p)) \/ Program(p) = FifoPosalji =>
                 Output(p) = New
          /\ ~ WritesFile(Program(p)) /\ Program(p) # FifoPosalji =>
               Output(p) = S.output[p]
    <2>1. \A c : ReadsFile(c) =>
              ~ WritesFile(c) /\ c # FifoPosalji /\ c # FifoPrimi
      BY CopierKinds DEF OfFifo
    <2>2. QED
      BY <1>5, <2>1 DEF Input, Output, From, To, New
  <1>10. QED
    BY <1>4, <1>5, <1>6, <1>7, <1>9

-----------------------------------------------------------------------------
(* What a step leaves to the others.                                       *)

(* What the step of p may do to what others count on.                      *)
Onward(p) ==
  /\ New \in DOMAIN obj' /\ New \notin DOMAIN obj =>
       WritesFile(Program(p)) \/ OfFifo(Program(p))
  /\ names["/tmp/moj_fifo"] = New => names'["/tmp/moj_fifo"] = New
  /\ Opened => Opened'
  /\ Opened' => Opened \/ Program(p) = FifoPrimi

LEMMA SceneStays ==
  ASSUME scene' = scene
  PROVE  /\ New' = New
         /\ \A q : /\ Program(q)' = Program(q) /\ Input(q)' = Input(q)
                   /\ Output(q)' = Output(q)
         /\ Opened' <=> New \in DOMAIN obj' /\ obj'[New].opened["r"] > 0
  BY DEF New, Program, Input, Output, Opened

LEMMA CopierStays ==
  ASSUME scene' = scene, NEW q \in Pids, proc'[q] = proc[q]
  PROVE  /\ Alone(q) => Alone(q)'
         /\ Starting(q)' <=> Starting(q)
         /\ Opening(q)' <=> Opening(q)
         /\ Meeting(q)' <=> Meeting(q)
         /\ Looping(q)' <=> Looping(q)
         /\ Writing(q)' <=> Writing(q)
         /\ Closing(q)' <=> Closing(q)
         /\ Prepared(q) => Prepared(q)'
         /\ Ready(q) => Ready(q)'
         /\ \A x : Fd(q, Val(q, x))' = Fd(q, Val(q, x))
  <1>1. /\ New' = New /\ Program(q)' = Program(q) /\ Input(q)' = Input(q)
        /\ Output(q)' = Output(q)
    BY SceneStays
  <1>2. \A x : Fd(q, Val(q, x))' = Fd(q, Val(q, x))
    BY DEF Fd, Val
  <1>3. Ready(q) => Ready(q)'
    BY <1>1, <1>2 DEF Ready
  <1>4. Meeting(q)' <=> Meeting(q)
    BY <1>1 DEF Meeting
  <1>5. Writing(q)' <=> Writing(q)
    BY <1>1 DEF Writing
  <1>6. QED
    BY <1>1, <1>2, <1>3, <1>4, <1>5
       DEF Alone, Starting, Opening, Looping, Closing, Prepared

LEMMA OthersCopy ==
  ASSUME IInv, Pipeline(Scenes[scene]), scene' = scene, NEW p \in Pids,
         p \in DOMAIN Scenes[scene].start, Others(p), Onward(p),
         \A q \in Pids : PipeProcess(q), PipeProcess(p)'
  PROVE  \A q \in Pids : PipeProcess(q)'
  <1>1. ASSUME NEW q \in Pids, q # p
        PROVE  PipeProcess(q)'
    <2>1. proc'[q] = proc[q]
      BY <1>1 DEF Others
    <2>2. /\ New' = New /\ Program(q)' = Program(q)
          /\ Alone(q) => Alone(q)'
          /\ Starting(q)' <=> Starting(q)
          /\ Opening(q)' <=> Opening(q)
          /\ Meeting(q)' <=> Meeting(q)
          /\ Looping(q)' <=> Looping(q)
          /\ Writing(q)' <=> Writing(q)
          /\ Closing(q)' <=> Closing(q)
          /\ Prepared(q) => Prepared(q)'
          /\ Ready(q) => Ready(q)'
          /\ \A x : Fd(q, Val(q, x))' = Fd(q, Val(q, x))
      BY <2>1, SceneStays, CopierStays
    <2>3. Alone(q)'
      BY <2>2 DEF PipeProcess
    <2>4. CASE q \in DOMAIN Scenes[scene].start
      <3>1. CopierOK(q)
        BY <2>4 DEF PipeProcess
      <3>2. WritesFile(Program(q)) /\ New \notin DOMAIN obj =>
                New \notin DOMAIN obj'
        BY <1>1, <2>4, CopierPlaces DEF Onward
      <3>3. Program(q) = FifoPrimi /\ ~ Opened => ~ Opened'
        BY <1>1, <2>4, CopierPlaces DEF Onward
      <3>4. /\ names["/tmp/moj_fifo"] = New => names'["/tmp/moj_fifo"] = New
            /\ Opened => Opened'
        BY DEF Onward
      <3>5. CopierOK(q)'
        <4>1. CASE /\ Starting(q) \/ Opening(q)
                   /\ Prepared(q) /\ proc[q].buf = <<>>
                   /\ WritesFile(Program(q)) => New \notin DOMAIN obj
                   /\ Opening(q) => names["/tmp/moj_fifo"] = New
                   /\ Program(q) = FifoPrimi => ~ Opened
          BY <2>1, <2>2, <3>2, <3>3, <3>4, <4>1 DEF CopierOK
        <4>2. CASE Meeting(q) /\ Ready(q) /\ proc[q].buf = <<>>
          BY <2>1, <2>2, <4>2 DEF CopierOK
        <4>3. CASE /\ Writing(q) \/ (Looping(q) /\ proc[q].buf = <<>>)
                   /\ Ready(q) /\ (Program(q) = FifoPosalji => Opened)
          BY <2>1, <2>2, <3>4, <4>3 DEF CopierOK
        <4>4. CASE /\ Closing(q) /\ proc[q].buf = <<>>
                   /\ Program(q) = FifoPrimi =>
                          Fd(q, Val(q, "fd")) = <<New, "r">>
          BY <2>1, <2>2, <4>4 DEF CopierOK
        <4>5. CASE proc[q].code = <<>>
          BY <2>1, <4>5 DEF CopierOK
        <4>6. QED
          BY <3>1, <4>1, <4>2, <4>3, <4>4, <4>5 DEF CopierOK
      <3>6. QED
        BY <2>3, <2>4, <3>5 DEF PipeProcess
    <2>5. CASE q \notin DOMAIN Scenes[scene].start
      BY <2>1, <2>3, <2>5 DEF PipeProcess
    <2>6. QED
      BY <2>4, <2>5
  <1>2. QED
    BY <1>1

(* No object comes, and no descriptor.                                     *)
Steady(p) ==
  /\ scene' = scene /\ names' = names /\ DOMAIN obj' = DOMAIN obj
  /\ \A o \in DOMAIN obj :
       obj'[o].kind = obj[o].kind /\ obj'[o].opened = obj[o].opened
  /\ Others(p) /\ \A d \in 0..MaxFd : proc'[p].fd[d] \in {proc[p].fd[d], Closed}

LEMMA SteadyObjects ==
  ASSUME IInv, IInv', PipeObjects, NEW p \in Pids, Steady(p),
         New \in DOMAIN obj /\ obj[New].kind = "fifo" =>
           obj'[New].data = <<>> \/ obj[New].data # <<>> \/ Opened
  PROVE  PipeObjects' /\ Onward(p)
  <1>1. /\ scene' = scene /\ names' = names /\ DOMAIN obj' = DOMAIN obj
        /\ \A o \in DOMAIN obj :
             obj'[o].kind = obj[o].kind /\ obj'[o].opened = obj[o].opened
    BY DEF Steady
  <1>2. Len(obj') = Len(obj)
    <2>1. /\ DOMAIN obj = 1 .. Len(obj) /\ Len(obj) \in Nat
          /\ DOMAIN obj' = 1 .. Len(obj') /\ Len(obj') \in Nat
      BY LenOfSeq DEF IInv, ObjectsOK
    <2>2. \A a, b \in Nat : 1..a = 1..b => a = b
      OBVIOUS
    <2>3. QED
      BY <1>1, <2>1, <2>2
  <1>3. New' = New /\ (Opened' <=> Opened)
    BY <1>1, SceneStays DEF Opened
  <1>4. Onward(p)
    BY <1>1, <1>3 DEF Onward
  <1>5. ASSUME NEW q \in Pids, NEW d \in 0..MaxFd, proc'[q].fd[d] = <<New, "r">>
        PROVE  Opened
    <2>1. proc'[q].fd[d] \in {proc[q].fd[d], Closed}
      BY DEF Steady, Others
    <2>2. Closed # <<New, "r">>
      BY DEF Closed
    <2>3. proc[q].fd[d] = <<New, "r">>
      BY <1>5, <2>1, <2>2
    <2>4. QED
      BY <2>3 DEF PipeObjects
  <1>6. OfScene(FWrite("izlaz.txt"))' <=> OfScene(FWrite("izlaz.txt"))
    BY <1>1 DEF OfScene
  <1>7. New \in DOMAIN obj' =>
       /\ obj'[New].kind =
             IF OfScene(FWrite("izlaz.txt")) THEN "file" ELSE "fifo"
       /\ obj'[New].kind = "fifo" /\ obj'[New].data # <<>> => Opened
    BY <1>1 DEF PipeObjects
  <1>8. /\ Len(obj') \in {New - 1, New}
        /\ \A o \in DOMAIN obj' : o # New => obj'[o].kind \in {"file", "pipe"}
        /\ names'["moja_datoteka.txt"] = Scenes[scene].file
        /\ names'["izlaz.txt"] # 0 => New \in DOMAIN obj'
        /\ names'["/tmp/moj_fifo"] =
             IF New \in DOMAIN obj' /\ obj'[New].kind = "fifo"
                                     THEN New ELSE 0
    BY <1>1, <1>2 DEF PipeObjects
  <1>9. PipeObjects'
    BY <1>1, <1>3, <1>5, <1>6, <1>7, <1>8 DEF PipeObjects
  <1>10. QED
    BY <1>4, <1>9

(* A process that leaves: the FIFO may lose what it has.                   *)
LEMMA PipeLeaves ==
  ASSUME IInv, IInv', Pipeline(Scenes[scene]), Piping, NEW p \in Pids,
         p \in DOMAIN Scenes[scene].start, scene' = scene, names' = names,
         Others(p), Alone(p)', proc'[p].code = <<>>, proc'[p].buf = proc[p].buf,
         \A d \in 0..MaxFd : proc'[p].fd[d] \in {proc[p].fd[d], Closed},
         obj' = Emptied(proc')
  PROVE  Piping'
  <1>1. /\ DOMAIN obj' = DOMAIN obj
        /\ \A o \in DOMAIN obj :
             /\ obj'[o].kind = obj[o].kind /\ obj'[o].opened = obj[o].opened
             /\ obj'[o].data = obj[o].data \/ obj'[o].data = <<>>
             /\ obj'[o].data # obj[o].data =>
                  obj[o].kind = "fifo" /\ Holders(proc', o, "r") = {}
    <2>1. \A o \in DOMAIN obj : ObjectOK(obj[o])
      BY DEF IInv, ObjectsOK
    <2>2. \A o \in DOMAIN obj :
            LET x == [obj[o] EXCEPT !.data = <<>>] IN
            x.kind = obj[o].kind /\ x.opened = obj[o].opened /\ x.data = <<>>
      BY <2>1 DEF ObjectOK
    <2>3. /\ DOMAIN obj' = DOMAIN obj
          /\ \A o \in DOMAIN obj :
               \/ obj'[o] = obj[o]
               \/ /\ obj'[o] = [obj[o] EXCEPT !.data = <<>>]
                  /\ obj[o].kind = "fifo" /\ Holders(proc', o, "r") = {}
      BY DEF Emptied
    <2>4. QED
      BY <2>2, <2>3
  <1>2. Steady(p)
    BY <1>1 DEF Steady
  <1>3. PipeObjects' /\ Onward(p)
    BY <1>1, <1>2, SteadyObjects DEF Piping
  <1>4. PipeProcess(p)'
    <2>1. CopierOK(p)'
      BY DEF CopierOK
    <2>2. QED
      BY <2>1 DEF PipeProcess
  <1>5. \A q \in Pids : PipeProcess(q)'
    BY <1>3, <1>4, OthersCopy DEF Piping
  <1>6. ASSUME NEW r \in Scenes[scene].routes
        PROVE  RouteOK(r)'
    <2> DEFINE z == <<"object", New>>
    <2>1. Leads(Scenes[scene], r) /\ RouteOK(r)
            /\ \A i \in 1 .. Len(r.path) : r.path[i] \in AllPlaces
      BY Neighbours DEF Piping
    <2>2. \A q \in Pids : proc'[q].buf = proc[q].buf
                            /\ (proc[q].code = <<>> => proc'[q].code = <<>>)
      BY DEF Others
    <2>3. \A x \in AllPlaces : Text(x)' = Text(x) \/ (x = z /\ Text(x)' = <<>>)
      <3>1. ASSUME NEW q \in Pids
            PROVE  Text(<<"process", q>>)' = Text(<<"process", q>>)
        BY <2>2, TextOfPlaces
      <3>2. ASSUME NEW o
            PROVE  \/ Text(<<"object", o>>)' = Text(<<"object", o>>)
                   \/ o = New /\ Text(<<"object", o>>)' = <<>>
        <4>1. CASE o \in DOMAIN obj
          <5>1. obj[o].kind = "fifo" => o = New
            BY <4>1 DEF Piping, PipeObjects
          <5>2. QED
            BY <1>1, <4>1, <5>1, TextOfPlaces
        <4>2. CASE o \notin DOMAIN obj
          BY <1>1, <4>2, TextOfPlaces
        <4>3. QED
          BY <4>1, <4>2
      <3>3. QED
        BY <3>1, <3>2 DEF AllPlaces
    <2>4. Risky(Scenes[scene], r) => r.reader \in Pids
      BY DEF Risky
    <2>5. ASSUME NEW x, x = z, x \in Range(r.path), Text(x)' # Text(x)
          PROVE  Risky(Scenes[scene], r) /\ proc'[r.reader].code = <<>>
      <3>1. /\ New \in DOMAIN obj /\ obj[New].kind = "fifo"
            /\ obj[New].data # <<>> /\ Holders(proc', New, "r") = {}
        BY <1>1, <2>5, TextOfPlaces
      <3>2. PICK i \in 1 .. Len(r.path) : r.path[i] = <<"object", New>>
        BY <2>5, Neighbours
      <3>3. Opened /\ ~ OfScene(FWrite("izlaz.txt"))
        BY <3>1 DEF Piping, PipeObjects
      <3>4. \/ Risky(Scenes[scene], r)
            \/ \E q \in DOMAIN Scenes[scene].start :
                   WritesFile(Scenes[scene].start[q])
        BY <2>1, <3>2 DEF Leads, New
      <3>5. Risky(Scenes[scene], r)
        BY <3>3, <3>4 DEF OfScene, WritesFile
      <3> DEFINE q == r.reader
      <3>6. /\ q \in Pids /\ q \in DOMAIN Scenes[scene].start
            /\ Program(q) = FifoPrimi
        BY <3>5 DEF Risky, Program
      <3> HIDE DEF q
      <3>7. In(FifoPrimi) = "fd"
        BY DEF In
      <3>8. CopierOK(q)
        BY <3>6 DEF Piping, PipeProcess
      <3>9. CASE q = p
        BY <3>5, <3>9 DEF q
      <3>10. CASE q # p
        <4>1. proc'[q] = proc[q]
          BY <3>6, <3>10 DEF Others
        <4>2. Fd(q, Val(q, "fd")) # <<New, "r">>
          <5>1. \A d \in 0..MaxFd : proc[q].fd[d] # <<New, "r">>
            BY <3>1, <3>6, <4>1 DEF Holders
          <5>2. Closed # <<New, "r">>
            BY DEF Closed
          <5>3. QED
            BY <5>1, <5>2 DEF Fd
        <4>3. ~ Ready(q)
          BY <3>6, <3>7, <4>2 DEF Ready
        <4>4. proc[q].code = <<>>
          BY <3>3, <3>6, <3>8, <4>2, <4>3 DEF CopierOK
        <4>5. QED
          BY <3>5, <4>1, <4>4 DEF q
      <3>11. QED
        BY <3>9, <3>10
    <2>6. QED
      <3>1. Risky(Scenes[scene], r) /\ proc[r.reader].code = <<>> =>
              proc'[r.reader].code = <<>>
        BY <2>2, <2>4
      <3>2. PICK x : x = z
        OBVIOUS
      <3> HIDE DEF z
      <3>3. /\ \A y \in AllPlaces :
                 Text(y)' = Text(y) \/ (y = x /\ Text(y)' = <<>>)
            /\ x \in Range(r.path) /\ Text(x)' # Text(x) =>
                 Risky(Scenes[scene], r) /\ proc'[r.reader].code = <<>>
        BY <2>3, <2>5, <3>2
      <3>4. x = <<"object", New>>
        BY <3>2 DEF z
      <3>5. QED
        BY <2>1, <3>1, <3>3, <3>4, Undisturbed
  <1>7. QED
    BY <1>3, <1>5, <1>6 DEF Piping

(* A process that goes on, and moves nothing ...                           *)
LEMMA RoutesRest ==
  ASSUME IInv, Pipeline(Scenes[scene]), Piping, scene' = scene,
         NEW p \in Pids, Others(p), proc[p].code # <<>>,
         \A x \in AllPlaces : Text(x)' = Text(x)
  PROVE  \A r \in Scenes[scene].routes : RouteOK(r)'
  <1>1. ASSUME NEW r \in Scenes[scene].routes
        PROVE  RouteOK(r)'
    <2>1. Leads(Scenes[scene], r) /\ RouteOK(r)
            /\ \A i \in 1 .. Len(r.path) : r.path[i] \in AllPlaces
      BY Neighbours DEF Piping
    <2>2. Risky(Scenes[scene], r) /\ proc[r.reader].code = <<>> =>
            proc'[r.reader].code = <<>>
      BY DEF Others, Risky
    <2>3. PICK z : z = <<"object", New>>
      OBVIOUS
    <2>4. z \in Range(r.path) => \E i \in 1 .. Len(r.path) : r.path[i] = z
      BY Neighbours
    <2>5. z \in Range(r.path) => Text(z)' = Text(z)
      BY <2>1, <2>4
    <2>6. QED
      BY <2>1, <2>2, <2>3, <2>5, Undisturbed
  <1>2. QED
    BY <1>1

(* ... or carries a part of its input, or of what it has, on.              *)
LEMMA RoutesCarry ==
  ASSUME IInv, Pipeline(Scenes[scene]), Piping, scene' = scene,
         NEW p \in Pids, p \in DOMAIN Scenes[scene].start, Others(p),
         proc[p].code # <<>>, NEW x, NEW y, NEW w, NEW v, Carries(x, y, w, v),
         \/ x = <<"object", Input(p)>> /\ y = <<"process", p>>
         \/ x = <<"process", p>> /\ y = <<"object", Output(p)>>
  PROVE  \A r \in Scenes[scene].routes : RouteOK(r)'
  <1>1. ASSUME NEW r \in Scenes[scene].routes
        PROVE  RouteOK(r)'
    <2>1. Leads(Scenes[scene], r) /\ RouteOK(r)
            /\ \A i \in 1 .. Len(r.path) : r.path[i] \in AllPlaces
      BY Neighbours DEF Piping
    <2>2. Along(r, x, y)
      <3>1. CASE x = <<"object", Input(p)>> /\ y = <<"process", p>>
        BY <3>1, Neighbours DEF Along
      <3>2. CASE x = <<"process", p>> /\ y = <<"object", Output(p)>>
        BY <3>2, Neighbours DEF Along
      <3>3. QED
        BY <3>1, <3>2
    <2>3. ASSUME Risky(Scenes[scene], r), proc[r.reader].code = <<>>
          PROVE  proc'[r.reader].code = <<>> /\ x # <<"object", New>>
      <3>1. /\ r.reader \in Pids /\ r.reader \in DOMAIN Scenes[scene].start
            /\ Program(r.reader) = FifoPrimi /\ r.reader # p
        BY <2>3 DEF Risky, Program
      <3>2. proc'[r.reader].code = <<>>
        BY <2>3, <3>1 DEF Others
      <3>3. Program(p) # FifoPrimi
        BY <3>1, CopierPlaces
      <3>4. Input(p) # New
        BY <3>3, CopierPlaces
      <3>5. <<"process", p>> # <<"object", New>>
        OBVIOUS
      <3>6. <<"object", Input(p)>> # <<"object", New>>
        BY <3>4
      <3>7. QED
        BY <3>2, <3>5, <3>6
    <2>4. QED
      BY <2>1, <2>2, <2>3, Carried
  <1>2. QED
    BY <1>1

-----------------------------------------------------------------------------
(* The steps of such a scene.                                              *)

(* A process ends.                                                         *)
LEMMA PipeEnds ==
  ASSUME IInv, IInv', Pipeline(Scenes[scene]), Piping, NEW p \in Pids,
         p \in DOMAIN Scenes[scene].start, Runs(p), NEW how,
         proc' = Ended(p, how), obj' = Emptied(proc'),
         UNCHANGED <<scene, names>>
  PROVE  Piping'
  <1>1. \A q \in Pids : Alone(q)
    BY DEF Piping, PipeProcess
  <1>2. Others(p)
    BY <1>1, EndsAlone DEF Others, Alone
  <1>3. proc'[p] = Stopped(p, how) /\ DOMAIN proc[p] = Fields
    <2>1. p \in Group(p)
      BY DEF Group
    <2>2. QED
      BY <2>1, HasFields DEF Ended
  <1>4. /\ proc'[p].code = <<>> /\ proc'[p].buf = proc[p].buf
        /\ proc'[p].reg = proc[p].reg /\ proc'[p].main = proc[p].main
        /\ proc'[p].parent = proc[p].parent /\ proc'[p].masked = proc[p].masked
        /\ proc'[p].pending = proc[p].pending
        /\ proc'[p].handler = proc[p].handler
        /\ proc'[p].fd = [d \in 0..MaxFd |-> Closed]
    BY <1>3 DEF Stopped, Fields
  <1>5. Alone(p)'
    BY <1>1, <1>4 DEF Alone
  <1>6. \A d \in 0..MaxFd : proc'[p].fd[d] \in {proc[p].fd[d], Closed}
    BY <1>4
  <1>7. QED
    BY <1>2, <1>4, <1>5, <1>6, PipeLeaves

(* A process goes on.                                                      *)
LEMMA PipeGoesOn ==
  ASSUME IInv, Pipeline(Scenes[scene]), Piping, NEW p \in Pids,
         p \in DOMAIN Scenes[scene].start, scene' = scene, Others(p),
         Same(proc'[p], proc[p]), DOMAIN proc'[p].reg = Variables,
         CopierOK(p)', Onward(p), PipeObjects',
         \A r \in Scenes[scene].routes : RouteOK(r)'
  PROVE  Piping'
  <1>1. Alone(p) /\ Alone(p)'
    BY DEF Piping, PipeProcess, Alone, Same
  <1>2. PipeProcess(p)'
    BY <1>1 DEF PipeProcess
  <1>3. \A q \in Pids : PipeProcess(q)'
    BY <1>2, OthersCopy DEF Piping
  <1>4. QED
    BY <1>3 DEF Piping

LEMMA ReadyStays ==
  ASSUME NEW p \in Pids, scene' = scene, proc'[p].fd = proc[p].fd,
         proc'[p].reg = proc[p].reg
  PROVE  /\ Ready(p) => Ready(p)'
         /\ \A x : Fd(p, Val(p, x))' = Fd(p, Val(p, x))
  <1>1. /\ New' = New /\ Program(p)' = Program(p) /\ Input(p)' = Input(p)
        /\ Output(p)' = Output(p)
    BY SceneStays
  <1>2. \A x : Fd(p, Val(p, x))' = Fd(p, Val(p, x))
    BY DEF Fd, Val
  <1>3. QED
    BY <1>1, <1>2 DEF Ready

(* open of the FIFO returns.                                               *)
LEMMA PipeMeets ==
  ASSUME IInv, IInv', Pipeline(Scenes[scene]), Piping, NEW p \in Pids,
         p \in DOMAIN Scenes[scene].start, Meeting(p), Ready(p),
         proc[p].buf = <<>>, Meet(p)
  PROVE  Piping'
  <1> DEFINE new == Rest(p, <<>>)
  <1>1. /\ Becomes(p, new) /\ obj' = obj /\ scene' = scene /\ names' = names
        /\ Acts(p) /\ proc[p].code # <<>>
        /\ obj[Arg(p, 1)].opened[Arg(p, 2)] > Arg(p, 3)
    BY DEF Meet, Call
  <1>2. new.fd = proc[p].fd /\ new.buf = proc[p].buf /\ new.reg = proc[p].reg
    BY HasFields DEF Rest, Fields
  <1>3. Proceeds(p) /\ proc'[p] = new
    BY <1>1, <1>2, Proceeding DEF Changed
  <1> HIDE DEF new
  <1>4. /\ proc'[p].code = LoopCode(Program(p)) /\ Others(p)
        /\ Same(proc'[p], proc[p]) /\ proc'[p].buf = <<>>
        /\ proc'[p].fd = proc[p].fd /\ proc'[p].reg = proc[p].reg
    BY <1>2, <1>3 DEF Proceeds, Meeting
  <1>5. Program(p)' = Program(p) /\ (Opened' <=> Opened) /\ New' = New
    BY <1>1, SceneStays DEF Opened
  <1>6. Looping(p)' /\ Ready(p)'
    BY <1>1, <1>4, <1>5, ReadyStays DEF Looping
  <1>7. Program(p) = FifoPosalji => Opened
    <2>1. SUFFICES ASSUME Program(p) = FifoPosalji
                   PROVE  Opened
      OBVIOUS
    <2>2. PICK n \in Nat : Head(proc[p].code) = <<"meet", New, "r", n>>
      BY <2>1, CopierKinds DEF Meeting, Other
    <2>3. Arg(p, 1) = New /\ Arg(p, 2) = "r" /\ Arg(p, 3) = n
      BY <2>2 DEF Arg
    <2>4. Fd(p, Val(p, Out(Program(p)))) = <<New, "w">>
      BY <2>1, CopierPlaces DEF Ready
    <2>5. New \in DOMAIN obj
      <3>2. Closed # <<New, "w">>
        BY DEF Closed
      <3>3. PICK d \in 0..MaxFd : proc[p].fd[d] = <<New, "w">>
        BY <2>4, <3>2 DEF Fd
      <3>4. proc[p].fd[d][1] \in DOMAIN obj
        BY <3>2, <3>3, Standing
      <3>5. QED
        BY <3>3, <3>4
    <2>6. obj[New].opened["r"] \in Nat
      BY <2>5 DEF IInv, ObjectsOK, ObjectOK
    <2>7. QED
      BY <1>1, <2>3, <2>5, <2>6 DEF Opened
  <1>8. CopierOK(p)'
    BY <1>4, <1>5, <1>6, <1>7 DEF CopierOK
  <1>9. Steady(p)
    BY <1>1, <1>4 DEF Steady
  <1>10. PipeObjects' /\ Onward(p)
    BY <1>1, <1>9, SteadyObjects DEF Piping
  <1>11. \A x \in AllPlaces : Text(x)' = Text(x)
    <2>1. \A q \in Pids : proc'[q].buf = proc[q].buf
      BY <1>4 DEF Others
    <2>2. \A q \in Pids : Text(<<"process", q>>)' = Text(<<"process", q>>)
      BY <2>1, TextOfPlaces
    <2>3. \A o : Text(<<"object", o>>)' = Text(<<"object", o>>)
      BY <1>1, TextOfPlaces
    <2>4. QED
      BY <2>2, <2>3 DEF AllPlaces
  <1>12. \A r \in Scenes[scene].routes : RouteOK(r)'
    BY <1>1, <1>4, <1>11, RoutesRest
  <1>13. DOMAIN proc'[p].reg = Variables
    BY <1>4 DEF Piping, PipeProcess, Alone
  <1>14. QED
    BY <1>1, <1>4, <1>8, <1>10, <1>12, <1>13, PipeGoesOn

(* close                                                                   *)
LEMMA PipeCloses ==
  ASSUME IInv, IInv', Pipeline(Scenes[scene]), Piping, NEW p \in Pids,
         p \in DOMAIN Scenes[scene].start, Closing(p), Close(p)
  PROVE  Piping'
  <1> DEFINE base == Rest(p, <<>>)
             c == close("fd")
             d == Val(p, Arg(p, 1))
  <1>1. /\ proc[p].code # <<>> /\ Head(proc[p].code) = c
        /\ Tail(proc[p].code) = <<>> /\ c[1] = "close"
    <2>1. c[1] = "close"
      BY DEF close
    <2> HIDE DEF c
    <2>2. QED
      BY <2>1, ShortCodes DEF Closing, c
  <1>2. ~ Call(p, "closeUnless") /\ Acts(p)
    BY <1>1 DEF Call, Close
  <1>3. DOMAIN base = Fields /\ base.reg = proc[p].reg /\ base.fd = proc[p].fd
          /\ base.buf = proc[p].buf /\ DOMAIN proc[p].fd = 0..MaxFd
    BY HasFields DEF Rest, Fields, IInv, ProcessesOK, ProcessOK
  <1> HIDE DEF base, c, d
  <1>4. \E new : /\ new = base \/ new = [base EXCEPT !.fd[d] = Closed]
                 /\ proc' = [proc EXCEPT ![p] = new] /\ obj' = Emptied(proc')
                 /\ scene' = scene /\ names' = names
    BY <1>2 DEF Close, base, d
  <1>5. PICK new : /\ new = base \/ new = [base EXCEPT !.fd[d] = Closed]
                   /\ proc' = [proc EXCEPT ![p] = new] /\ obj' = Emptied(proc')
                   /\ scene' = scene /\ names' = names
    BY <1>4
  <1>6. /\ new.buf = proc[p].buf /\ new.reg = proc[p].reg
        /\ \A e \in 0..MaxFd : new.fd[e] \in {proc[p].fd[e], Closed}
    <2>1. CASE new = base
      BY <1>3, <2>1
    <2>2. CASE new = [base EXCEPT !.fd[d] = Closed]
      <3>1. new.buf = base.buf /\ new.reg = base.reg
              /\ new.fd = [base.fd EXCEPT ![d] = Closed]
        BY <1>3, <2>2 DEF Fields
      <3>2. QED
        BY <1>3, <3>1
    <2>3. QED
      BY <1>5, <2>1, <2>2
  <1>7. Changed(new, base)
    BY <1>5 DEF Changed
  <1>8. Same(base, proc[p]) /\ base.code = <<>> \o Tail(proc[p].code)
    BY <1>1, <1>2, RestSame DEF base
  <1>9. Same(new, base) /\ new.code = base.code
    BY <1>3, <1>7, ChangedSame
  <1>10. new.code = <<>> /\ Same(new, proc[p])
    <2>1. <<>> \o <<>> = <<>>
      OBVIOUS
    <2>2. QED
      BY <1>1, <1>8, <1>9, <2>1 DEF Same
  <1>11. proc'[p] = new /\ Others(p)
    BY <1>5, OnlyOne DEF Becomes
  <1>12. Alone(p)'
    BY <1>6, <1>10, <1>11 DEF Alone, Same, Piping, PipeProcess
  <1>13. QED
    BY <1>5, <1>6, <1>10, <1>11, <1>12, PipeLeaves

(* write                                                                   *)
LEMMA PipeWrites ==
  ASSUME IInv, IInv', Pipeline(Scenes[scene]), Piping, NEW p \in Pids,
         p \in DOMAIN Scenes[scene].start, Writing(p), Ready(p), Acts(p),
         Program(p) = FifoPosalji => Opened,
         Write(p) \/ BrokenPipe(p) \/ WriteNowhere(p)
  PROVE  Piping'
  <1> DEFINE base == Rest(p, <<>>)
             o == Output(p)
             buf == proc[p].buf
             new == [base EXCEPT !.buf = <<>>]
             x == <<"process", p>>
             y == <<"object", o>>
  <1>1. /\ proc[p].code # <<>> /\ Arg(p, 1) = Out(Program(p))
               /\ Arg(p, 2) = "buf"
        /\ Tail(proc[p].code) = LoopCode(Program(p))
    BY DEF Writing, Arg
  <1>2. Target(p) = <<o, "w">> /\ Target(p)[1] = o /\ Target(p)[2] = "w"
    BY <1>1 DEF Target, Ready
  <1>3. o \in DOMAIN obj
    <2>1. Closed # <<o, "w">>
      BY DEF Closed
    <2>2. PICK d \in 0..MaxFd : proc[p].fd[d] = <<o, "w">>
      BY <1>2, <2>1 DEF Target, Fd
    <2>3. proc[p].fd[d][1] \in DOMAIN obj
      BY <2>1, <2>2, Standing
    <2>4. QED
      BY <2>2, <2>3
  <1>4. ~ WriteNowhere(p)
    BY <1>2 DEF WriteNowhere
  <1>5. CASE BrokenPipe(p)
    <2>1. Runs(p) /\ proc' = Ended(p, "signal") /\ obj' = Emptied(proc')
            /\ UNCHANGED <<scene, names>>
      BY <1>5 DEF BrokenPipe, Acts
    <2>2. QED
      BY <2>1, PipeEnds
  <1>6. CASE Write(p)
    <2>1. /\ obj' = [obj EXCEPT ![o].data = @ \o buf, ![o].put = @ \o buf]
          /\ Becomes(p, new) /\ scene' = scene /\ names' = names
      BY <1>1, <1>2, <1>6 DEF Write, What
    <2>2. DOMAIN base = Fields /\ base.reg = proc[p].reg /\ base.fd = proc[p].fd
      BY HasFields DEF Rest, Fields
    <2>3. Changed(new, base)
      BY DEF Changed
    <2> HIDE DEF base
    <2>4. new.fd = proc[p].fd /\ new.reg = proc[p].reg /\ new.buf = <<>>
      BY <2>2 DEF Fields
    <2> HIDE DEF new
    <2>5. Proceeds(p) /\ proc'[p] = new
      BY <1>1, <2>1, <2>3, <2>4, Proceeding DEF base
    <2>6. /\ proc'[p].code = LoopCode(Program(p)) /\ Others(p)
          /\ Same(proc'[p], proc[p]) /\ proc'[p].buf = <<>>
          /\ proc'[p].fd = proc[p].fd /\ proc'[p].reg = proc[p].reg
      BY <1>1, <2>4, <2>5 DEF Proceeds
    <2>7. ObjectOK(obj[o]) /\ IsSeq(buf)
      BY <1>3 DEF IInv, ObjectsOK, ProcessesOK, ProcessOK
    <2> HIDE DEF o, buf
    <2>8. /\ DOMAIN obj' = DOMAIN obj /\ obj'[o].kind = obj[o].kind
          /\ obj'[o].opened = obj[o].opened
          /\ obj'[o].data = obj[o].data \o buf
          /\ \A a \in DOMAIN obj : a # o => obj'[a] = obj[a]
      BY <1>3, <2>1, <2>7 DEF ObjectOK
    <2>9. Carries(x, y, buf, <<>>)
      <3>1. /\ Text(x) = buf /\ Text(x)' = <<>>
        BY <2>6, TextOfPlaces DEF buf
      <3>2. Text(y) = obj[o].data /\ Text(y)' = obj[o].data \o buf
        <4>1. \A a : a = o => Text(<<"object", a>>)' = obj[o].data \o buf
          BY <1>3, <2>8, TextOfPlaces
        <4>2. y' = y
          BY <2>1, SceneStays DEF o
        <4>3. Text(<<"object", o>>) = obj[o].data
          BY <1>3, TextOfPlaces
        <4>4. QED
          BY <4>1, <4>2, <4>3
      <3>3. \A z \in AllPlaces : z # x /\ z # y => Text(z)' = Text(z)
        <4>1. ASSUME NEW q \in Pids, q # p
              PROVE  Text(<<"process", q>>)' = Text(<<"process", q>>)
          BY <2>6, <4>1, TextOfPlaces DEF Others
        <4>2. ASSUME NEW a, a # o
              PROVE  Text(<<"object", a>>)' = Text(<<"object", a>>)
          BY <2>8, <4>2, TextOfPlaces
        <4>3. QED
          BY <4>1, <4>2 DEF AllPlaces
      <3>4. x \in AllPlaces /\ y \in AllPlaces /\ x # y
        <4>1. o \in Nat
          BY <1>3, Standing
        <4>2. QED
          BY <4>1 DEF AllPlaces
      <3>5. buf = buf \o <<>> /\ IsSeq(obj[o].data) /\ IsSeq(<<>>)
        <4>1. buf \o <<>> = buf
          BY <2>7 DEF IsSeq
        <4>2. QED
          BY <2>7, <4>1, Short DEF ObjectOK
      <3>6. QED
        BY <2>1, <2>7, <3>1, <3>2, <3>3, <3>4, <3>5 DEF Carries
    <2>10. \A r \in Scenes[scene].routes : RouteOK(r)'
      <3>1. PICK a, b : a = x /\ b = y
        OBVIOUS
      <3>2. Carries(a, b, buf, <<>>)
        BY <2>9, <3>1
      <3>3. QED
        BY <1>1, <2>1, <2>6, <3>1, <3>2, RoutesCarry DEF o
    <2>11. Steady(p)
      <3>1. \A a \in DOMAIN obj :
              obj'[a].kind = obj[a].kind /\ obj'[a].opened = obj[a].opened
        BY <2>8
      <3>2. QED
        BY <2>1, <2>6, <2>8, <3>1 DEF Steady
    <2>12. New \in DOMAIN obj /\ obj[New].kind = "fifo" =>
             obj'[New].data = <<>> \/ obj[New].data # <<>> \/ Opened
      <3>1. SUFFICES ASSUME New \in DOMAIN obj, obj[New].kind = "fifo", New = o
                     PROVE  Opened
        BY <2>8
      <3>2. ~ OfScene(FWrite("izlaz.txt"))
        BY <3>1 DEF Piping, PipeObjects
      <3>3. ~ WritesFile(Program(p))
        BY <3>2 DEF OfScene, WritesFile, Program
      <3>4. Program(p) = FifoPosalji
        BY <3>1, <3>3, CopierPlaces DEF o
      <3>5. QED
        BY <3>4
    <2>13. PipeObjects' /\ Onward(p)
      BY <2>11, <2>12, SteadyObjects DEF Piping
    <2>14. Program(p)' = Program(p) /\ (Opened' <=> Opened)
      BY <2>1, <2>8, SceneStays DEF Opened
    <2>15. Looping(p)' /\ Ready(p)'
      BY <2>1, <2>6, <2>14, ReadyStays DEF Looping
    <2>16. CopierOK(p)'
      BY <2>6, <2>14, <2>15 DEF CopierOK
    <2>17. DOMAIN proc'[p].reg = Variables
      BY <2>6 DEF Piping, PipeProcess, Alone
    <2>18. QED
      BY <2>1, <2>6, <2>10, <2>13, <2>16, <2>17, PipeGoesOn
  <1>7. QED
    BY <1>4, <1>5, <1>6

(* The first of a text, and what is left of it.                            *)
LEMMA SplitAt ==
  ASSUME NEW s, IsSeq(s), NEW n \in Nat
  PROVE  LET k == Min({n, Len(s)})
             a == SubSeq(s, 1, k)
             b == SubSeq(s, Len(a) + 1, Len(s))
         IN IsSeq(a) /\ IsSeq(b) /\ s = a \o b
  <1> DEFINE k == Min({n, Len(s)})
             a == SubSeq(s, 1, k)
             b == SubSeq(s, k + 1, Len(s))
  <1>1. Len(s) \in Nat /\ s \in Seq(Range(s))
    BY LenOfSeq DEF IsSeq
  <1>2. k \in {n, Len(s)} /\ k <= Len(s)
    <2>1. {n, Len(s)} \subseteq Nat /\ {n, Len(s)} # {}
      BY <1>1
    <2>2. QED
      BY <2>1, LeastNumber
  <1>3. k \in Nat /\ k <= Len(s)
    BY <1>1, <1>2
  <1> HIDE DEF k
  <1>4. IsSeq(a) /\ IsSeq(b) /\ Len(a) = k
    BY <1>1, <1>3, PartOfSeq
  <1>5. SubSeq(s, 1, Len(s)) = s
    BY <1>1, SubSeqFull
  <1>6. /\ 1 \in 1 .. Len(s) + 1 /\ k \in 1 - 1 .. Len(s)
        /\ Len(s) \in k .. Len(s)
    BY <1>1, <1>3
  <1>7. SubSeq(s, 1, k) \o SubSeq(s, k + 1, Len(s)) = SubSeq(s, 1, Len(s))
    BY <1>1, <1>6, ConcatAdjacentSubSeq
  <1>8. s = a \o b
    BY <1>5, <1>7
  <1>9. b = SubSeq(s, Len(a) + 1, Len(s))
    BY <1>4
  <1> HIDE DEF b
  <1>10. QED
    BY <1>4, <1>8, <1>9 DEF k

(* The body of a loop, before the loop.                                    *)
LEMMA BodyFirst ==
  \A a, h, z : /\ (<<a>> \o <<h>>) \o <<>> = <<a, h>>
               /\ (<<a>> \o <<h>>) \o <<z>> = <<a, h, z>>
               /\ <<>> \o <<>> = <<>> /\ <<>> \o <<z>> = <<z>>
  <1>1. ASSUME NEW a, NEW h, NEW z
        PROVE  /\ (<<a>> \o <<h>>) \o <<>> = <<a, h>>
               /\ (<<a>> \o <<h>>) \o <<z>> = <<a, h, z>>
               /\ <<>> \o <<>> = <<>> /\ <<>> \o <<z>> = <<z>>
    <2> DEFINE S == {a, h, z}
    <2>0. a \in S /\ h \in S /\ z \in S
      OBVIOUS
    <2> HIDE DEF S
    <2>1. <<a>> \o <<h>> = <<a, h>>
      <3>1. /\ <<a>> \in Seq(S) /\ Len(<<a>>) = 1 /\ <<a>>[1] = a
            /\ <<h>> \in Seq(S) /\ Len(<<h>>) = 1 /\ <<h>>[1] = h
            /\ <<a, h>> \in Seq(S) /\ Len(<<a, h>>) = 2
            /\ <<a, h>>[1] = a /\ <<a, h>>[2] = h
        BY <2>0
      <3>2. /\ <<a>> \o <<h>> \in Seq(S)
            /\ Len(<<a>> \o <<h>>) = Len(<<a>>) + Len(<<h>>)
            /\ \A i \in 1 .. Len(<<a>>) + Len(<<h>>) : (<<a>> \o <<h>>)[i] =
                 IF i <= Len(<<a>>) THEN <<a>>[i] ELSE <<h>>[i - Len(<<a>>)]
        BY <3>1, ConcatProperties, Zenon
      <3> DEFINE s == <<a>>
                 t == <<h>>
                 u == <<a, h>>
                 v == s \o t
      <3>3. /\ v \in Seq(S) /\ u \in Seq(S) /\ Len(u) = 2 /\ Len(v) = 2
            /\ \A i \in 1..2 : v[i] = IF i <= 1 THEN s[i] ELSE t[i - 1]
            /\ s[1] = a /\ t[1] = h /\ u[1] = a /\ u[2] = h
        BY <3>1, <3>2
      <3> HIDE DEF s, t, u, v
      <3>4. \A i \in 1..2 : v[i] = u[i]
        BY <3>3
      <3>5. v = u
        BY <3>3, <3>4, SeqEqual
      <3>6. QED
        BY <3>5 DEF u, v, s, t
    <2>2. <<a, h>> \o <<>> = <<a, h>>
      OBVIOUS
    <2>3. <<a, h>> \o <<z>> = <<a, h, z>>
      <3>1. /\ <<a, h>> \in Seq(S) /\ Len(<<a, h>>) = 2
            /\ <<a, h>>[1] = a /\ <<a, h>>[2] = h
            /\ <<z>> \in Seq(S) /\ Len(<<z>>) = 1 /\ <<z>>[1] = z
        BY <2>0
      <3>2. /\ <<a, h, z>> \in Seq(S) /\ Len(<<a, h, z>>) = 3
            /\ <<a, h, z>>[1] = a /\ <<a, h, z>>[2] = h /\ <<a, h, z>>[3] = z
        BY <2>0
      <3> DEFINE s == <<a, h>>
                 t == <<z>>
                 u == <<a, h, z>>
                 v == s \o t
      <3>3. /\ s \in Seq(S) /\ t \in Seq(S) /\ Len(s) = 2 /\ Len(t) = 1
            /\ s[1] = a /\ s[2] = h /\ t[1] = z
        BY <3>1
      <3>4. /\ u \in Seq(S) /\ Len(u) = 3 /\ u[1] = a /\ u[2] = h /\ u[3] = z
        BY <3>2
      <3> HIDE DEF s, t, u
      <3>5. /\ v \in Seq(S) /\ Len(v) = 3
            /\ \A i \in 1..3 : v[i] = IF i <= 2 THEN s[i] ELSE t[i - 2]
        <4>1. /\ v \in Seq(S) /\ Len(v) = Len(s) + Len(t)
              /\ \A i \in 1 .. Len(s) + Len(t) :
                   v[i] = IF i <= Len(s) THEN s[i] ELSE t[i - Len(s)]
          BY <3>3, ConcatProperties, Zenon
        <4>2. QED
          BY <3>3, <4>1
      <3> HIDE DEF v
      <3>6. \A i \in 1..3 : v[i] = u[i]
        BY <3>3, <3>4, <3>5
      <3>7. v = u
        BY <3>4, <3>5, <3>6, SeqEqual
      <3>8. QED
        BY <3>7 DEF u, v, s, t
    <2>4. <<>> \o <<>> = <<>>
      OBVIOUS
    <2>5. <<>> \o <<z>> = <<z>>
      OBVIOUS
    <2>6. QED
      BY <2>1, <2>2, <2>3, <2>4, <2>5
  <1>2. QED
    BY <1>1

(* read                                                                    *)
LEMMA PipeReads ==
  ASSUME IInv, IInv', Pipeline(Scenes[scene]), Piping, NEW p \in Pids,
         p \in DOMAIN Scenes[scene].start, Looping(p), Ready(p),
         proc[p].buf = <<>>, Program(p) = FifoPosalji => Opened, Read(p)
  PROVE  Piping'
  <1> DEFINE P == Program(p)
             W(strict) == <<"write", Out(P), "buf", strict>>
             H == Head(LoopCode(P))
             z == close("fd")
  <1>1. /\ LoopCode(P) # <<>> /\ proc[p].code = LoopCode(P)
        /\ LoopCode(P) = <<H>> \/ LoopCode(P) = <<H, z>>
    BY CopierLoop, CopierPlaces DEF Looping
  <1>2. PICK n \in Nat, strict \in BOOLEAN : H = Copy(P, n, strict)
    BY CopierLoop, CopierPlaces
  <1> DEFINE w == W(strict)
  <1>3. /\ Arg(p, 1) = In(P) /\ Arg(p, 2) = n /\ Arg(p, 3) = <<w>>
        /\ Head(proc[p].code)[1] = "while"
    BY <1>1, <1>2 DEF Copy, Arg
  <1>4. Call(p, "while") /\ Acts(p)
    BY <1>1, <1>3 DEF Read, Call
  <1> HIDE DEF H, w, z
  <1>5. Tail(LoopCode(P)) \in {<<>>, <<z>>}
    <2>1. CASE LoopCode(P) = <<H>>
      BY <2>1, ShortCodes
    <2>2. CASE LoopCode(P) = <<H, z>>
      BY <2>2, ShortCodes
    <2>3. QED
      BY <1>1, <2>1, <2>2
  <1> DEFINE h == Fd(p, Val(p, In(P)))
             o == h[1]
             some == IF h[2] # "r" THEN <<>>
                     ELSE SubSeq(obj[o].data, 1, Min({n, Len(obj[o].data)}))
             left == SubSeq(obj[o].data, Len(some) + 1, Len(obj[o].data))
             got == proc[p].got \o some
             base == Rest(p, <<w>> \o <<H>>)
             new == [base EXCEPT !.buf = some, !.got = got]
  <1>6. /\ obj' = IF some = <<>> THEN obj ELSE [obj EXCEPT ![o].data = left]
        /\ Becomes(p, IF some = <<>> THEN Rest(p, <<>>)
                      ELSE [base EXCEPT !.buf = some, !.got = @ \o some])
        /\ scene' = scene /\ names' = names
    <2>1. <<w>> # <<>>
      BY ShortCodes
    <2>2. Head(proc[p].code) = H
      BY <1>1 DEF H
    <2>3. QED
      BY <1>3, <1>4, <2>1, <2>2 DEF Read
  <1>7. Program(p)' = P /\ New' = New
    BY <1>6, SceneStays
  <1>8. CASE some = <<>>
    <2> DEFINE rest == Rest(p, <<>>)
    <2>1. /\ Becomes(p, rest) /\ obj' = obj
      BY <1>6, <1>8
    <2>2. rest.fd = proc[p].fd /\ rest.buf = proc[p].buf
              /\ rest.reg = proc[p].reg
      BY HasFields DEF Rest, Fields
    <2>3. Proceeds(p) /\ proc'[p] = rest
      BY <1>1, <1>4, <1>6, <2>1, <2>2, Proceeding DEF Changed
    <2> HIDE DEF rest
    <2>4. /\ proc'[p].code = Tail(LoopCode(P)) /\ Others(p)
          /\ Same(proc'[p], proc[p]) /\ proc'[p].buf = <<>>
          /\ proc'[p].fd = proc[p].fd /\ proc'[p].reg = proc[p].reg
      BY <1>1, <2>2, <2>3 DEF Proceeds
    <2>5. P = FifoPrimi => Fd(p, Val(p, "fd"))' = <<New, "r">>
      <3>1. P = FifoPrimi => Fd(p, Val(p, "fd")) = <<New, "r">>
        BY DEF Ready, In
      <3>2. Fd(p, Val(p, "fd"))' = Fd(p, Val(p, "fd"))
        BY <1>6, <2>4, ReadyStays
      <3>3. QED
        BY <3>1, <3>2
    <2>6. CopierOK(p)'
      <3>1. CASE Tail(LoopCode(P)) = <<>>
        BY <2>4, <3>1 DEF CopierOK
      <3>2. CASE Tail(LoopCode(P)) = <<z>>
        <4>1. Closing(p)'
          BY <2>4, <3>2 DEF Closing, z
        <4>2. QED
          BY <1>7, <2>4, <2>5, <4>1 DEF CopierOK
      <3>3. QED
        BY <1>5, <3>1, <3>2
    <2>7. Steady(p)
      BY <1>6, <2>1, <2>4 DEF Steady
    <2>8. PipeObjects' /\ Onward(p)
      BY <2>1, <2>7, SteadyObjects DEF Piping
    <2>9. \A x \in AllPlaces : Text(x)' = Text(x)
      <3>1. \A q \in Pids : proc'[q].buf = proc[q].buf
        BY <2>4 DEF Others
      <3>2. \A q \in Pids : Text(<<"process", q>>)' = Text(<<"process", q>>)
        BY <3>1, TextOfPlaces
      <3>3. \A a : Text(<<"object", a>>)' = Text(<<"object", a>>)
        BY <2>1, TextOfPlaces
      <3>4. QED
        BY <3>2, <3>3 DEF AllPlaces
    <2>10. \A r \in Scenes[scene].routes : RouteOK(r)'
      BY <1>1, <1>6, <2>4, <2>9, RoutesRest
    <2>11. DOMAIN proc'[p].reg = Variables
      BY <2>4 DEF Piping, PipeProcess, Alone
    <2>12. QED
      BY <1>6, <2>4, <2>6, <2>8, <2>10, <2>11, PipeGoesOn
  <1>9. CASE some # <<>>
    <2>1. h[2] = "r" /\ o = Input(p)
      BY <1>9 DEF Ready
    <2>2. o \in DOMAIN obj
      <3>1. Closed[2] = ""
        BY DEF Closed
      <3>2. h # Closed
        BY <2>1, <3>1
      <3> HIDE DEF o
      <3>3. PICK d \in 0..MaxFd : proc[p].fd[d] = h
        BY <3>2 DEF Fd
      <3>4. proc[p].fd[d][1] \in DOMAIN obj
        BY <3>2, <3>3, Standing
      <3>5. QED
        BY <3>3, <3>4 DEF o
    <2>3. ObjectOK(obj[o])
      BY <2>2 DEF IInv, ObjectsOK
    <2>4. some = SubSeq(obj[o].data, 1, Min({n, Len(obj[o].data)}))
      BY <2>1
    <2>5. IsSeq(some) /\ IsSeq(left) /\ obj[o].data = some \o left
      <3>1. IsSeq(obj[o].data)
        BY <2>3 DEF ObjectOK
      <3>2. /\ IsSeq(some) /\ IsSeq(SubSeq(obj[o].data, Len(some) + 1,
                   Len(obj[o].data)))
            /\ obj[o].data = some \o SubSeq(obj[o].data, Len(some) + 1,
                   Len(obj[o].data))
        <4> HIDE DEF o, some
        <4>1. QED
          BY <2>4, <3>1, SplitAt
      <3>3. QED
        BY <3>2
    <2>6. obj' = [obj EXCEPT ![o].data = left]
      BY <1>6, <1>9
    <2>7. Becomes(p, [base EXCEPT !.buf = some, !.got = @ \o some])
      BY <1>6, <1>9
    <2> HIDE DEF some, left, h
    <2>8. DOMAIN base = Fields /\ base.reg = proc[p].reg /\ base.fd = proc[p].fd
            /\ base.got = proc[p].got
      BY HasFields DEF Rest, Fields
    <2>9. Same(base, proc[p])
              /\ base.code = (<<w>> \o <<H>>) \o Tail(proc[p].code)
      BY <1>1, <1>4, RestSame
    <2> HIDE DEF base
    <2>10. Becomes(p, new)
      BY <2>7, <2>8
    <2>11. Changed(new, base)
      BY DEF Changed
    <2>12. Same(new, base) /\ new.code = base.code
      BY <2>8, <2>11, ChangedSame
    <2>13. new.fd = proc[p].fd /\ new.reg = proc[p].reg /\ new.buf = some
      BY <2>8 DEF Fields
    <2> HIDE DEF new, got
    <2>14. proc'[p] = new /\ Others(p)
      BY <2>10, OnlyOne
    <2>15. /\ Same(proc'[p], proc[p]) /\ proc'[p].buf = some
           /\ proc'[p].fd = proc[p].fd /\ proc'[p].reg = proc[p].reg
           /\ proc'[p].code = (<<w>> \o <<H>>) \o Tail(LoopCode(P))
      BY <1>1, <2>9, <2>12, <2>13, <2>14 DEF Same
    <2>16. /\ proc'[p].code # <<>> /\ Head(proc'[p].code) = w
           /\ Tail(proc'[p].code) = LoopCode(P)
      <3>1. CASE LoopCode(P) = <<H>>
        <4>1. Tail(LoopCode(P)) = <<>>
          BY <3>1, ShortCodes
        <4>2. proc'[p].code = <<w, H>>
          BY <2>15, <4>1, BodyFirst
        <4>3. QED
          BY <3>1, <4>2, ShortCodes
      <3>2. CASE LoopCode(P) = <<H, z>>
        <4>1. Tail(LoopCode(P)) = <<z>>
          BY <3>2, ShortCodes
        <4>2. proc'[p].code = <<w, H, z>>
          BY <2>15, <4>1, BodyFirst
        <4>3. QED
          BY <3>2, <4>2, ShortCodes
      <3>3. QED
        BY <1>1, <3>1, <3>2
    <2>17. Writing(p)'
      BY <1>7, <2>16 DEF Writing, w
    <2>18. /\ DOMAIN obj' = DOMAIN obj /\ obj'[o].kind = obj[o].kind
           /\ obj'[o].opened = obj[o].opened
           /\ obj'[o].data = left
           /\ \A a \in DOMAIN obj : a # o => obj'[a] = obj[a]
      <3> HIDE DEF o
      <3>1. QED
        BY <2>2, <2>3, <2>6 DEF ObjectOK
    <2> DEFINE x == <<"object", Input(p)>>
               y == <<"process", p>>
    <2>19. Carries(x, y, some, left)
      <3>1. Text(y) = <<>> /\ Text(y)' = <<>> \o some /\ IsSeq(Text(y))
        <4>1. <<>> \o some = some
          BY <2>5 DEF IsSeq
        <4>2. QED
          BY <2>15, <4>1, TextOfPlaces, Short
      <3>2. Text(x) = some \o left /\ Text(x)' = left
        <4>1. \A a : a = o => Text(<<"object", a>>)' = left
          BY <2>2, <2>18, TextOfPlaces
        <4>2. x' = x /\ x = <<"object", o>>
          BY <1>6, <2>1, SceneStays
        <4>3. Text(<<"object", o>>) = some \o left
          BY <2>2, <2>5, TextOfPlaces
        <4>4. QED
          BY <2>1, <4>1, <4>2, <4>3
      <3>3. \A a \in AllPlaces : a # x /\ a # y => Text(a)' = Text(a)
        <4>1. ASSUME NEW q \in Pids, q # p
              PROVE  Text(<<"process", q>>)' = Text(<<"process", q>>)
          BY <2>14, <4>1, TextOfPlaces DEF Others
        <4>2. ASSUME NEW a, a # o
              PROVE  Text(<<"object", a>>)' = Text(<<"object", a>>)
          BY <2>18, <4>2, TextOfPlaces
        <4>3. QED
          BY <2>1, <4>1, <4>2 DEF AllPlaces
      <3>4. x \in AllPlaces /\ y \in AllPlaces /\ x # y
        <4>1. Input(p) \in Nat
          BY <2>1, <2>2, Standing
        <4>2. QED
          BY <4>1 DEF AllPlaces
      <3>5. QED
        BY <2>5, <3>1, <3>2, <3>3, <3>4 DEF Carries
    <2>20. \A r \in Scenes[scene].routes : RouteOK(r)'
      <3>1. PICK a, b : a = x /\ b = y
        OBVIOUS
      <3>2. Carries(a, b, some, left)
        BY <2>19, <3>1
      <3>3. QED
        BY <1>1, <1>6, <2>14, <3>1, <3>2, RoutesCarry
    <2>21. Steady(p)
      <3>1. \A a \in DOMAIN obj :
              obj'[a].kind = obj[a].kind /\ obj'[a].opened = obj[a].opened
        BY <2>18
      <3>2. QED
        BY <1>6, <2>14, <2>15, <2>18, <3>1 DEF Steady
    <2>22. New \in DOMAIN obj /\ obj[New].kind = "fifo" =>
             obj'[New].data = <<>> \/ obj[New].data # <<>> \/ Opened
      <3>1. obj[o].data # <<>>
        <4>1. obj[o].data = <<>> => Len(some \o left) = 0
          BY <2>5
        <4>2. Len(some \o left) = Len(some) + Len(left)
                /\ Len(some) \in Nat /\ Len(left) \in Nat
          BY <2>5, Joined, LenOfSeq
        <4>3. Len(some) # 0
          BY <1>9, <2>5 DEF IsSeq
        <4>4. QED
          BY <4>1, <4>2, <4>3
      <3>2. New # o /\ New \in DOMAIN obj => obj'[New] = obj[New]
        BY <2>18
      <3>3. QED
        BY <3>1, <3>2
    <2>23. PipeObjects' /\ Onward(p)
      BY <2>21, <2>22, SteadyObjects DEF Piping
    <2>24. Program(p)' = Program(p) /\ (Opened' <=> Opened)
      <3>1. New \in DOMAIN obj => obj'[New].opened = obj[New].opened
        BY <2>18
      <3>2. QED
        BY <1>6, <2>18, <3>1, SceneStays DEF Opened
    <2>25. Ready(p)'
      BY <1>6, <2>15, ReadyStays
    <2>26. CopierOK(p)'
      BY <2>17, <2>24, <2>25 DEF CopierOK
    <2>27. DOMAIN proc'[p].reg = Variables
      BY <2>15 DEF Piping, PipeProcess, Alone
    <2>28. QED
      BY <1>6, <2>14, <2>15, <2>20, <2>23, <2>26, <2>27, PipeGoesOn
  <1>10. QED
    BY <1>8, <1>9

(* The lowest descriptor that is free.                                     *)
LEMMA FreeDescriptor ==
  ASSUME IInv, NEW p \in Pids, proc[p].fd[3] = Closed
  PROVE  /\ Lowest(proc[p].fd) \in 0..MaxFd
         /\ proc[p].fd[Lowest(proc[p].fd)] = Closed
  <1> DEFINE F == {d \in 0..MaxFd : proc[p].fd[d] = Closed}
  <1>1. 3 \in 0..MaxFd
    BY BoundsAssumption
  <1>2. F \subseteq Nat /\ F # {}
    BY <1>1
  <1>3. Min(F) \in F
    BY <1>2, LeastNumber
  <1>4. QED
    BY <1>3 DEF Lowest

(* What an open gives a program that has opened nothing yet.               *)
Obtains(p, e) ==
  \/ ReadsFile(Program(p)) /\ e = <<Scenes[scene].file, "r">>
  \/ WritesFile(Program(p)) /\ e = <<New, "w">>
  \/ Program(p) = FifoPosalji /\ e = <<New, "w">>
  \/ Program(p) = FifoPrimi /\ e = <<New, "r">>

LEMMA PreparedOpens ==
  ASSUME IInv, Pipeline(Scenes[scene]), scene' = scene, NEW p \in Pids,
         p \in DOMAIN Scenes[scene].start, Alone(p), Prepared(p), Acts(p),
         proc[p].code # <<>>, NEW body, NEW e, Obtains(p, e),
         Becomes(p, [Rest(p, body) EXCEPT
                       !.fd[Lowest(proc[p].fd)] = e,
                       !.reg["fd"] = Lowest(proc[p].fd)])
  PROVE  /\ Others(p) /\ Same(proc'[p], proc[p])
         /\ proc'[p].code = body \o Tail(proc[p].code)
         /\ proc'[p].buf = proc[p].buf /\ DOMAIN proc'[p].reg = Variables
         /\ \A d \in 0..MaxFd : proc'[p].fd[d] \in {proc[p].fd[d], e}
         /\ Ready(p)'
  <1> DEFINE d == Lowest(proc[p].fd)
             base == Rest(p, body)
             new == [base EXCEPT !.fd[d] = e, !.reg["fd"] = d]
  <1>1. /\ d \in 0..MaxFd /\ proc[p].fd[d] = Closed /\ 0 \in 0..MaxFd
        /\ 1 \in 0..MaxFd /\ "fd" \in Variables
    BY FreeDescriptor, BoundsAssumption DEF Prepared, Variables
  <1>2. DOMAIN proc[p].fd = 0..MaxFd /\ DOMAIN proc[p].reg = Variables
    BY DEF IInv, ProcessesOK, ProcessOK, Alone
  <1>3. /\ DOMAIN base = Fields /\ base.reg = proc[p].reg
               /\ base.fd = proc[p].fd
        /\ base.buf = proc[p].buf
    BY HasFields DEF Rest, Fields
  <1>4. Same(base, proc[p]) /\ base.code = body \o Tail(proc[p].code)
    BY RestSame
  <1>5. Changed(new, base)
    BY DEF Changed
  <1>6. Becomes(p, new)
    OBVIOUS
  <1> HIDE DEF base, d
  <1>7. Same(new, base) /\ new.code = base.code
    BY <1>3, <1>5, ChangedSame
  <1>8. /\ new.fd = [proc[p].fd EXCEPT ![d] = e]
        /\ new.reg = [proc[p].reg EXCEPT !["fd"] = d] /\ new.buf = proc[p].buf
    BY <1>3 DEF Fields
  <1> HIDE DEF new
  <1>9. proc'[p] = new /\ Others(p)
    BY <1>6, OnlyOne
  <1>10. /\ DOMAIN proc'[p].reg = Variables /\ proc'[p].reg["fd"] = d
         /\ proc'[p].reg["STDIN"] = 0 /\ proc'[p].reg["STDOUT"] = 1
         /\ proc'[p].fd[d] = e
         /\ \A x \in 0..MaxFd : x # d => proc'[p].fd[x] = proc[p].fd[x]
    <2>1. /\ DOMAIN proc'[p].reg = Variables /\ proc'[p].reg["fd"] = d
          /\ proc'[p].reg["STDIN"] = proc[p].reg["STDIN"]
          /\ proc'[p].reg["STDOUT"] = proc[p].reg["STDOUT"]
      <3>1. "STDIN" \in Variables /\ "STDOUT" \in Variables
        BY DEF Variables
      <3>2. proc'[p].reg = [proc[p].reg EXCEPT !["fd"] = d]
        BY <1>8, <1>9
      <3>3. QED
        BY <1>1, <1>2, <3>1, <3>2
    <2>2. /\ proc'[p].fd[d] = e
          /\ \A x \in 0..MaxFd : x # d => proc'[p].fd[x] = proc[p].fd[x]
      BY <1>1, <1>2, <1>8, <1>9
    <2>3. QED
      BY <2>1, <2>2 DEF Prepared
  <1>11. proc'[p].fd[1] = <<Scenes[scene].output[p], "w">>
    <2>1. \A o : <<o, "w">> # Closed
      BY DEF Closed
    <2>2. proc[p].fd[1] = <<Scenes[scene].output[p], "w">>
      BY DEF Prepared
    <2>3. d # 1
      BY <1>1, <2>1, <2>2
    <2>4. QED
      BY <1>1, <1>10, <2>2, <2>3
  <1>12. /\ Program(p)' = Program(p) /\ New' = New /\ Input(p)' = Input(p)
         /\ Output(p)' = Output(p)
    BY SceneStays
  <1>13. /\ Fd(p, Val(p, "fd"))' = e
         /\ Fd(p, Val(p, "STDOUT"))' = <<Scenes[scene].output[p], "w">>
         /\ Fd(p, Val(p, "STDIN"))' = proc'[p].fd[0]
    BY <1>1, <1>10, <1>11 DEF Fd, Val
  <1>14. proc'[p].fd[0] \in {Closed, <<Scenes[scene].input[p], "r">>, e}
    BY <1>1, <1>10 DEF Prepared
  <1>15. Ready(p)'
    <2>1. CASE ReadsFile(Program(p)) /\ e = <<Scenes[scene].file, "r">>
      <3>1. /\ In(Program(p)) = "fd" /\ Out(Program(p)) = "STDOUT"
            /\ Program(p) # FifoPrimi
        BY <2>1, CopierKinds DEF In, Out, OfFifo
      <3>2. /\ Input(p) = Scenes[scene].file
            /\ Output(p) = Scenes[scene].output[p]
        BY <2>1, CopierPlaces
      <3>3. QED
        BY <1>12, <1>13, <2>1, <3>1, <3>2 DEF Ready
    <2>2. CASE /\ WritesFile(Program(p)) \/ Program(p) = FifoPosalji
               /\ e = <<New, "w">>
      <3>1. /\ In(Program(p)) = "STDIN" /\ Out(Program(p)) = "fd"
            /\ Program(p) # FifoPrimi /\ ~ ReadsFile(Program(p))
        BY <2>2, CopierKinds DEF In, Out, OfFifo
      <3>2. Input(p) = Scenes[scene].input[p] /\ Output(p) = New
        BY <2>2, <3>1, CopierPlaces
      <3>3. proc'[p].fd[0][2] = "r" => proc'[p].fd[0][1] = Input(p)
        <4>1. CASE proc'[p].fd[0] = Closed
          <5>1. Closed[2] = ""
            BY DEF Closed
          <5>2. QED
            BY <4>1, <5>1
        <4>2. CASE proc'[p].fd[0] = <<Scenes[scene].input[p], "r">>
          BY <3>2, <4>2
        <4>3. CASE proc'[p].fd[0] = <<New, "w">>
          BY <4>3
        <4>4. QED
          BY <1>14, <2>2, <4>1, <4>2, <4>3
      <3>4. QED
        BY <1>12, <1>13, <2>2, <3>1, <3>2, <3>3 DEF Ready
    <2>3. CASE Program(p) = FifoPrimi /\ e = <<New, "r">>
      <3>1. /\ In(Program(p)) = "fd" /\ Out(Program(p)) = "STDOUT"
            /\ ~ WritesFile(Program(p)) /\ Program(p) # FifoPosalji
        BY <2>3, CopierKinds DEF In, Out, OfFifo
      <3>2. Input(p) = New /\ Output(p) = Scenes[scene].output[p]
        BY <2>3, <3>1, CopierPlaces
      <3>3. QED
        BY <1>12, <1>13, <2>3, <3>1, <3>2 DEF Ready
    <2>4. QED
      BY <2>1, <2>2, <2>3 DEF Obtains
  <1>16. Same(proc'[p], proc[p]) /\ proc'[p].code = body \o Tail(proc[p].code)
    BY <1>4, <1>7, <1>9 DEF Same
  <1>17. \A x \in 0..MaxFd : proc'[p].fd[x] \in {proc[p].fd[x], e}
    BY <1>10
  <1>18. QED
    BY <1>8, <1>9, <1>10, <1>15, <1>16, <1>17

(* No text moves.                                                          *)
LEMMA NothingMoves ==
  ASSUME IInv, NEW p \in Pids, Others(p), proc'[p].buf = proc[p].buf,
         \A o \in DOMAIN obj : o \in DOMAIN obj' /\ obj'[o].data = obj[o].data,
         \A o \in DOMAIN obj' : o \notin DOMAIN obj => obj'[o].data = <<>>
  PROVE  \A x \in AllPlaces : Text(x)' = Text(x)
  <1>1. \A q \in Pids : proc'[q].buf = proc[q].buf
    BY DEF Others
  <1>2. \A q \in Pids : Text(<<"process", q>>)' = Text(<<"process", q>>)
    BY <1>1, TextOfPlaces
  <1>3. \A a : Text(<<"object", a>>)' = Text(<<"object", a>>)
    BY TextOfPlaces
  <1>4. QED
    BY <1>2, <1>3 DEF AllPlaces

(* read_file.c, f_cat.c: the file is there, and nothing else changes.      *)
LEMMA PipeOpensFile ==
  ASSUME IInv, IInv', Pipeline(Scenes[scene]), Piping, NEW p \in Pids,
         p \in DOMAIN Scenes[scene].start, Starting(p), Prepared(p),
         proc[p].buf = <<>>, ReadsFile(Program(p)), Open(p)
  PROVE  Piping'
  <1> DEFINE P == Program(p)
             f == Scenes[scene].file
             d == Lowest(proc[p].fd)
             e == <<f, "r">>
  <1>1. /\ proc[p].code # <<>> /\ proc[p].code = P
        /\ Opens(Head(proc[p].code), "moja_datoteka.txt", "r")
        /\ Tail(proc[p].code) = LoopCode(P)
    BY CopierKinds, CopierOpens DEF Starting
  <1>2. Arg(p, 1) = "fd" /\ Arg(p, 2) = "moja_datoteka.txt" /\ Arg(p, 3) = "r"
    BY <1>1 DEF Arg, Opens
  <1>3. names["moja_datoteka.txt"] = f
    BY DEF Piping, PipeObjects
  <1>4. /\ f # 0 /\ obj' = obj
               /\ names' = [names EXCEPT !["moja_datoteka.txt"] = f]
        /\ Becomes(p, [Rest(p, <<>>) EXCEPT !.fd[d] = e, !.reg["fd"] = d])
        /\ scene' = scene /\ Acts(p)
    BY <1>2, <1>3 DEF Open, Call
  <1>5. names' = names
    <2>1. names = [x \in DOMAIN names |-> names[x]]
      BY DEF IInv, NamesOK
    <2>2. QED
      BY <1>3, <1>4, <2>1
  <1>6. Obtains(p, e) /\ Alone(p)
    BY DEF Obtains, Piping, PipeProcess
  <1> HIDE DEF d, e
  <1>7. /\ Others(p) /\ Same(proc'[p], proc[p])
        /\ proc'[p].code = <<>> \o Tail(proc[p].code)
        /\ proc'[p].buf = proc[p].buf /\ DOMAIN proc'[p].reg = Variables
        /\ \A x \in 0..MaxFd : proc'[p].fd[x] \in {proc[p].fd[x], e}
        /\ Ready(p)'
    BY <1>1, <1>4, <1>6, PreparedOpens DEF d
  <1>8. proc'[p].code = LoopCode(P)
    <2>1. Tail(proc[p].code) \in Seq(Steps(scene))
      BY <1>1, <1>4, FirstCall
    <2>2. <<>> \o Tail(proc[p].code) = Tail(proc[p].code)
      BY <2>1
    <2>3. QED
      BY <1>1, <1>7, <2>2
  <1>9. Program(p)' = P /\ New' = New /\ (Opened' <=> Opened)
    BY <1>4, SceneStays DEF Opened
  <1>10. P # FifoPosalji /\ ~ WritesFile(P) /\ P # FifoPrimi
    BY CopierKinds DEF OfFifo
  <1>11. CopierOK(p)'
    BY <1>7, <1>8, <1>9, <1>10 DEF CopierOK, Looping
  <1>12. Onward(p)
    BY <1>4, <1>5, <1>9 DEF Onward
  <1>13. PipeObjects'
    <2>1. PipeObjects
      BY DEF Piping
    <2>2. \A q \in Pids : \A x \in 0..MaxFd :
              proc'[q].fd[x] = <<New, "r">> => Opened
      <3>1. e # <<New, "r">>
        BY CopierPlaces DEF e
      <3>2. \A q \in Pids : \A x \in 0..MaxFd :
              proc'[q].fd[x] = proc[q].fd[x] \/ proc'[q].fd[x] = e
        BY <1>7 DEF Others
      <3>3. \A q \in Pids : \A x \in 0..MaxFd :
                proc[q].fd[x] = <<New, "r">> => Opened
        BY <2>1 DEF PipeObjects
      <3>4. QED
        BY <3>1, <3>2, <3>3
    <2>3. OfScene(FWrite("izlaz.txt"))' <=> OfScene(FWrite("izlaz.txt"))
      BY <1>4 DEF OfScene
    <2>4. QED
      BY <1>4, <1>5, <1>9, <2>1, <2>2, <2>3 DEF PipeObjects
  <1>14. \A x \in AllPlaces : Text(x)' = Text(x)
    BY <1>4, <1>7, NothingMoves
  <1>15. \A r \in Scenes[scene].routes : RouteOK(r)'
    BY <1>1, <1>4, <1>7, <1>14, RoutesRest
  <1>16. QED
    BY <1>4, <1>7, <1>11, <1>12, <1>13, <1>15, PipeGoesOn

(* The object that the scene makes.                                        *)
LEMMA MadeObject ==
  ASSUME IInv, Pipeline(Scenes[scene]), PipeObjects, New \notin DOMAIN obj,
         NEW kind \in {"file", "fifo"},
         obj' = Append(obj, Object(kind, <<>>)), scene' = scene
  PROVE  /\ Len(obj) + 1 = New
         /\ Len(obj') = New
         /\ New \in DOMAIN obj'
         /\ obj'[New].kind = kind
         /\ obj'[New].data = <<>>
         /\ \A o \in DOMAIN obj : o \in DOMAIN obj' /\ obj'[o] = obj[o]
         /\ \A o \in DOMAIN obj' : o \notin DOMAIN obj => o = New
         /\ ~ Opened
         /\ ~ Opened'
  <1> DEFINE x == Object(kind, <<>>)
  <1>1. /\ x.kind = kind /\ x.data = <<>> /\ x.opened["r"] = 0
        /\ x.kind # "object"
    BY DEF Object
  <1> HIDE DEF x
  <1>2. /\ DOMAIN obj' = DOMAIN obj \cup {Len(obj) + 1}
        /\ obj'[Len(obj) + 1] = x
        /\ \A o \in DOMAIN obj : obj'[o] = obj[o]
    BY <1>1, AddedPut DEF x
  <1>3. IsSeq(obj) /\ Len(obj) \in Nat /\ DOMAIN obj = 1 .. Len(obj)
          /\ Len(Append(obj, x)) = Len(obj) + 1
    BY LenOfSeq, AppendedSeq DEF IInv, ObjectsOK
  <1>4. Len(obj) + 1 = New
    <2>1. Len(obj) = New - 1 \/ Len(obj) = New
      BY DEF PipeObjects
    <2>2. New \in Nat /\ New >= 2
      BY CopierPlaces
    <2>3. Len(obj) \in Nat /\ DOMAIN obj = 1 .. Len(obj)
      BY <1>3
    <2>4. Len(obj) # New
      <3>1. New \in 1 .. New
        BY <2>2
      <3>2. QED
        BY <2>3, <3>1
    <2>5. Len(obj) = New - 1
      BY <2>1, <2>4
    <2>6. QED
      BY <2>2, <2>5
  <1>5. ~ Opened' /\ ~ Opened
    <2>1. ~ (obj'[New].opened["r"] > 0)
      BY <1>1, <1>2, <1>4
    <2>2. QED
      BY <2>1, SceneStays DEF Opened
  <1>6. Len(obj') = New
    BY <1>3, <1>4 DEF x
  <1>7. /\ New \in DOMAIN obj' /\ obj'[New].kind = kind /\ obj'[New].data = <<>>
        /\ \A o \in DOMAIN obj : o \in DOMAIN obj' /\ obj'[o] = obj[o]
    BY <1>1, <1>2, <1>4
  <1>8. \A o \in DOMAIN obj' : o \notin DOMAIN obj => o = New
    BY <1>2, <1>4
  <1>9. QED
    BY <1>4, <1>5, <1>6, <1>7, <1>8

(* f_write.c makes izlaz.txt.                                              *)
LEMMA PipeMakesFile ==
  ASSUME IInv, IInv', Pipeline(Scenes[scene]), Piping, NEW p \in Pids,
         p \in DOMAIN Scenes[scene].start, Starting(p), Prepared(p),
         proc[p].buf = <<>>, WritesFile(Program(p)), New \notin DOMAIN obj,
         Open(p)
  PROVE  Piping'
  <1> DEFINE P == Program(p)
             d == Lowest(proc[p].fd)
             e == <<New, "w">>
  <1>1. /\ proc[p].code # <<>> /\ proc[p].code = P
        /\ Opens(Head(proc[p].code), "izlaz.txt", "w")
        /\ Tail(proc[p].code) = LoopCode(P)
    BY CopierKinds, CopierOpens DEF Starting
  <1>2. Arg(p, 1) = "fd" /\ Arg(p, 2) = "izlaz.txt" /\ Arg(p, 3) = "w"
    BY <1>1 DEF Arg, Opens
  <1>3. PipeObjects /\ names["izlaz.txt"] = 0
    BY DEF Piping, PipeObjects
  <1>4. /\ obj' = Append(obj, Object("file", <<>>))
        /\ names' = [names EXCEPT !["izlaz.txt"] = Len(obj) + 1]
        /\ scene' = scene /\ Acts(p)
    BY <1>2, <1>3 DEF Open, Call
  <1>5. /\ Len(obj) + 1 = New /\ Len(obj') = New /\ New \in DOMAIN obj'
        /\ obj'[New].kind = "file" /\ obj'[New].data = <<>>
        /\ \A o \in DOMAIN obj : o \in DOMAIN obj' /\ obj'[o] = obj[o]
        /\ \A o \in DOMAIN obj' : o \notin DOMAIN obj => o = New
        /\ ~ Opened /\ ~ Opened'
    <2>1. PICK kind \in {"file", "fifo"} : kind = "file"
      OBVIOUS
    <2>2. obj' = Append(obj, Object(kind, <<>>))
      BY <1>4, <2>1
    <2>3. QED
      BY <1>3, <1>4, <2>1, <2>2, MadeObject
  <1>6. Obtains(p, e) /\ Alone(p)
    BY DEF Obtains, Piping, PipeProcess
  <1>7. Becomes(p, [Rest(p, <<>>) EXCEPT !.fd[d] = e, !.reg["fd"] = d])
    <2>1. Becomes(p, [Rest(p, <<>>) EXCEPT !.fd[d] = <<Len(obj) + 1, "w">>,
                                           !.reg["fd"] = d])
      BY <1>2, <1>3 DEF Open
    <2> HIDE DEF d
    <2>2. QED
      BY <1>5, <2>1
  <1> HIDE DEF d, e
  <1>8. /\ Others(p) /\ Same(proc'[p], proc[p])
        /\ proc'[p].code = <<>> \o Tail(proc[p].code)
        /\ proc'[p].buf = proc[p].buf /\ DOMAIN proc'[p].reg = Variables
        /\ \A x \in 0..MaxFd : proc'[p].fd[x] \in {proc[p].fd[x], e}
        /\ Ready(p)'
    BY <1>1, <1>4, <1>6, <1>7, PreparedOpens DEF d
  <1>9. proc'[p].code = LoopCode(P)
    <2>1. Tail(proc[p].code) \in Seq(Steps(scene))
      BY <1>1, <1>4, FirstCall
    <2>2. <<>> \o Tail(proc[p].code) = Tail(proc[p].code)
      BY <2>1
    <2>3. QED
      BY <1>1, <1>8, <2>2
  <1>10. Program(p)' = P /\ New' = New
    BY <1>4, SceneStays
  <1>11. P # FifoPosalji
    BY CopierKinds DEF OfFifo
  <1>12. CopierOK(p)'
    BY <1>8, <1>9, <1>10, <1>11 DEF CopierOK, Looping
  <1>13. DOMAIN names = Names /\ "izlaz.txt" \in Names
    BY Standing DEF Names
  <1>14. /\ names'["izlaz.txt"] = New
         /\ names'["moja_datoteka.txt"] = names["moja_datoteka.txt"]
         /\ names'["/tmp/moj_fifo"] = names["/tmp/moj_fifo"]
    BY <1>4, <1>5, <1>13 DEF Names
  <1>15. Onward(p)
    BY <1>5, <1>14 DEF Onward
  <1>16. OfScene(FWrite("izlaz.txt"))' /\ OfScene(FWrite("izlaz.txt"))
    BY <1>4 DEF OfScene, WritesFile, Program
  <1>17. PipeObjects'
    <2>1. \A q \in Pids : \A x \in 0..MaxFd : proc'[q].fd[x] # <<New, "r">>
      <3>1. e # <<New, "r">>
        BY DEF e
      <3>2. \A q \in Pids : \A x \in 0..MaxFd : proc[q].fd[x] # <<New, "r">>
        BY <1>3, <1>5 DEF PipeObjects
      <3>3. QED
        BY <1>8, <3>1, <3>2 DEF Others
    <2>2. /\ Len(obj') \in {New - 1, New}
          /\ \A o \in DOMAIN obj' : o # New => obj'[o].kind \in {"file", "pipe"}
      BY <1>3, <1>5 DEF PipeObjects
    <2>3. names'["moja_datoteka.txt"] = Scenes[scene].file
      BY <1>3, <1>14 DEF PipeObjects
    <2>4. names'["/tmp/moj_fifo"] = 0
      BY <1>3, <1>14 DEF PipeObjects
    <2>5. QED
      BY <1>4, <1>5, <1>10, <1>16, <2>1, <2>2, <2>3, <2>4 DEF PipeObjects
  <1>18. \A x \in AllPlaces : Text(x)' = Text(x)
    BY <1>5, <1>8, NothingMoves
  <1>19. \A r \in Scenes[scene].routes : RouteOK(r)'
    BY <1>1, <1>4, <1>8, <1>18, RoutesRest
  <1>20. QED
    BY <1>4, <1>8, <1>12, <1>15, <1>17, <1>19, PipeGoesOn

LEMMA OneFirst ==
  \A a, b, c : <<a>> \o <<b>> = <<a, b>> /\ <<a>> \o <<b, c>> = <<a, b, c>>
  <1>1. ASSUME NEW a, NEW b, NEW c
        PROVE  <<a>> \o <<b>> = <<a, b>> /\ <<a>> \o <<b, c>> = <<a, b, c>>
    <2> DEFINE S == {a, b, c}
               s == <<a>>
               t == <<b>>
               u == <<c>>
    <2>1. s \in Seq(S) /\ t \in Seq(S) /\ u \in Seq(S)
      OBVIOUS
    <2>2. ASSUME NEW x, NEW y
          PROVE  <<x>> \o <<y>> = <<x, y>>
      <3>1. (<<x>> \o <<y>>) \o <<>> = <<x, y>>
        BY BodyFirst
      <3>2. <<x>> \in Seq({x, y}) /\ <<y>> \in Seq({x, y})
        OBVIOUS
      <3>3. <<x>> \o <<y>> \in Seq({x, y})
        BY <3>2, ConcatProperties, Zenon
      <3> DEFINE v == <<x>> \o <<y>>
      <3> HIDE DEF v
      <3>4. v \o <<>> = v
        BY <3>3, ConcatEmptySeq DEF v
      <3>5. QED
        BY <3>1, <3>4 DEF v
    <2>3. (<<a>> \o <<b>>) \o <<c>> = <<a, b, c>>
      BY BodyFirst
    <2> HIDE DEF s, t, u, S
    <2>4. (s \o t) \o u = s \o (t \o u)
      BY <2>1, ConcatAssociative
    <2>5. t \o u = <<b, c>>
      BY <2>2 DEF t, u
    <2>6. (s \o t) \o u = <<a, b, c>> /\ s \o t = <<a, b>>
      BY <2>2, <2>3 DEF s, t, u
    <2>7. s \o <<b, c>> = <<a, b, c>>
      BY <2>4, <2>5, <2>6
    <2>8. QED
      BY <2>6, <2>7 DEF s, t, u
  <1>2. QED
    BY <1>1

(* fifoposalji.c, fifoprimi.c make the FIFO, unless it is there.           *)
LEMMA PipeMakesFifo ==
  ASSUME IInv, IInv', Pipeline(Scenes[scene]), Piping, NEW p \in Pids,
         p \in DOMAIN Scenes[scene].start, Starting(p), Prepared(p),
         proc[p].buf = <<>>, OfFifo(Program(p)),
         Program(p) = FifoPrimi => ~ Opened, MkFifo(p)
  PROVE  Piping'
  <1> DEFINE P == Program(p)
             new == Rest(p, <<>>)
  <1>1. /\ proc[p].code # <<>> /\ proc[p].code = P
        /\ Head(proc[p].code) = mkfifo("/tmp/moj_fifo")
    BY CopierKinds DEF Starting
  <1>2. Arg(p, 1) = "/tmp/moj_fifo"
    BY <1>1 DEF Arg, mkfifo
  <1>3. PipeObjects /\ DOMAIN names = Names /\ "/tmp/moj_fifo" \in Names
    BY Standing DEF Piping, Names
  <1>4. /\ Becomes(p, new) /\ scene' = scene /\ Acts(p)
        /\ \/ names["/tmp/moj_fifo"] # 0 /\ obj' = obj /\ names' = names
           \/ /\ names["/tmp/moj_fifo"] = 0
              /\ obj' = Append(obj, Object("fifo", <<>>))
              /\ names' = [names EXCEPT !["/tmp/moj_fifo"] = Len(obj) + 1]
    BY <1>2 DEF MkFifo, Call
  <1>5. new.fd = proc[p].fd /\ new.buf = proc[p].buf /\ new.reg = proc[p].reg
    BY HasFields DEF Rest, Fields
  <1>6. Proceeds(p) /\ proc'[p] = new
    BY <1>1, <1>4, <1>5, Proceeding DEF Changed
  <1> HIDE DEF new
  <1>7. /\ proc'[p].code = Tail(P) /\ Others(p)
        /\ Same(proc'[p], proc[p]) /\ proc'[p].buf = <<>>
        /\ proc'[p].fd = proc[p].fd /\ proc'[p].reg = proc[p].reg
    BY <1>1, <1>5, <1>6 DEF Proceeds
  <1>8. Program(p)' = P /\ New' = New
    BY <1>4, SceneStays
  <1>9. Opening(p)' /\ Prepared(p)' /\ ~ WritesFile(P)
    BY <1>4, <1>7, <1>8, CopierKinds DEF Opening, Prepared
  <1>10. ~ OfScene(FWrite("izlaz.txt"))
    BY CopierPlaces DEF OfScene, WritesFile
  <1>11. DOMAIN proc'[p].reg = Variables
    BY <1>7 DEF Piping, PipeProcess, Alone
  <1>12. \A q \in Pids : \A d \in 0..MaxFd :
           proc'[q].fd[d] = <<New, "r">> => proc[q].fd[d] = <<New, "r">>
    BY <1>7 DEF Others
  <1>13. CASE names["/tmp/moj_fifo"] # 0 /\ obj' = obj /\ names' = names
    <2>1. names["/tmp/moj_fifo"] = New
      BY <1>3, <1>13 DEF PipeObjects
    <2>2. Opened' <=> Opened
      BY <1>4, <1>13, SceneStays DEF Opened
    <2>3. CopierOK(p)'
      BY <1>7, <1>8, <1>9, <1>13, <2>1, <2>2 DEF CopierOK
    <2>4. Steady(p)
      BY <1>4, <1>7, <1>13 DEF Steady
    <2>5. PipeObjects' /\ Onward(p)
      BY <1>3, <1>13, <2>4, SteadyObjects
    <2>6. \A x \in AllPlaces : Text(x)' = Text(x)
      BY <1>7, <1>13, NothingMoves
    <2>7. \A r \in Scenes[scene].routes : RouteOK(r)'
      BY <1>1, <1>4, <1>7, <2>6, RoutesRest
    <2>8. QED
      BY <1>4, <1>7, <1>11, <2>3, <2>5, <2>7, PipeGoesOn
  <1>14. CASE /\ names["/tmp/moj_fifo"] = 0
              /\ obj' = Append(obj, Object("fifo", <<>>))
              /\ names' = [names EXCEPT !["/tmp/moj_fifo"] = Len(obj) + 1]
    <2>1. New \notin DOMAIN obj
      <3>1. New # 0
        BY CopierPlaces
      <3>2. QED
        BY <1>3, <1>10, <1>14, <3>1 DEF PipeObjects
    <2>2. /\ Len(obj) + 1 = New /\ Len(obj') = New /\ New \in DOMAIN obj'
          /\ obj'[New].kind = "fifo" /\ obj'[New].data = <<>>
          /\ \A o \in DOMAIN obj : o \in DOMAIN obj' /\ obj'[o] = obj[o]
          /\ \A o \in DOMAIN obj' : o \notin DOMAIN obj => o = New
          /\ ~ Opened /\ ~ Opened'
      <3>1. PICK kind \in {"file", "fifo"} : kind = "fifo"
        OBVIOUS
      <3>2. obj' = Append(obj, Object(kind, <<>>))
        BY <1>14, <3>1
      <3>3. QED
        BY <1>3, <1>4, <2>1, <3>1, <3>2, MadeObject
    <2>3. /\ names'["/tmp/moj_fifo"] = New
          /\ names'["moja_datoteka.txt"] = names["moja_datoteka.txt"]
          /\ names'["izlaz.txt"] = names["izlaz.txt"]
      BY <1>3, <1>14, <2>2 DEF Names
    <2>4. CopierOK(p)'
      BY <1>7, <1>8, <1>9, <2>2, <2>3 DEF CopierOK
    <2>5. Onward(p)
      BY <2>2, <2>3 DEF Onward
    <2>6. ~ OfScene(FWrite("izlaz.txt"))'
      BY <1>4, <1>10 DEF OfScene
    <2>7. PipeObjects'
      <3>1. \A q \in Pids : \A x \in 0..MaxFd : proc'[q].fd[x] # <<New, "r">>
        BY <1>3, <1>12, <2>2 DEF PipeObjects
      <3>2. /\ Len(obj') \in {New - 1, New}
            /\ \A o \in DOMAIN obj' : o # New =>
                   obj'[o].kind \in {"file", "pipe"}
        BY <1>3, <2>2 DEF PipeObjects
      <3>3. names'["moja_datoteka.txt"] = Scenes[scene].file
        BY <1>3, <2>3 DEF PipeObjects
      <3>4. QED
        BY <1>4, <1>8, <2>2, <2>3, <2>6, <3>1, <3>2, <3>3 DEF PipeObjects
    <2>8. \A x \in AllPlaces : Text(x)' = Text(x)
      BY <1>7, <2>2, NothingMoves
    <2>9. \A r \in Scenes[scene].routes : RouteOK(r)'
      BY <1>1, <1>4, <1>7, <2>8, RoutesRest
    <2>10. QED
      BY <1>4, <1>7, <1>11, <2>4, <2>5, <2>7, <2>9, PipeGoesOn
  <1>15. QED
    BY <1>4, <1>13, <1>14

(* They open it.                                                           *)
LEMMA PipeOpensFifo ==
  ASSUME IInv, IInv', Pipeline(Scenes[scene]), Piping, NEW p \in Pids,
         p \in DOMAIN Scenes[scene].start, Opening(p), Prepared(p),
         proc[p].buf = <<>>, names["/tmp/moj_fifo"] = New, OpenFifo(p)
  PROVE  Piping'
  <1> DEFINE P == Program(p)
             side == IF P = FifoPrimi THEN "r" ELSE "w"
             d == Lowest(proc[p].fd)
             e == <<New, side>>
             n == obj[New].opened[Other(P)]
             meet == IF Holders(proc, New, Other(P)) # {} THEN <<>>
                     ELSE << <<"meet", New, Other(P), n>> >>
             left == LoopCode(P)
  <1>1. /\ proc[p].code # <<>> /\ OfFifo(P)
        /\ Head(proc[p].code) = openFifo("fd", "/tmp/moj_fifo", side)
        /\ Tail(proc[p].code) = left
    BY CopierOpens DEF Opening
  <1>2. Arg(p, 1) = "fd" /\ Arg(p, 2) = "/tmp/moj_fifo" /\ Arg(p, 3) = side
    BY <1>1 DEF Arg, openFifo
  <1>3. /\ P = FifoPrimi \/ P = FifoPosalji
        /\ Other(P) = IF side = "r" THEN "w" ELSE "r"
        /\ Other(P) \in {"r", "w"} /\ side \in {"r", "w"}
    BY <1>1 DEF OfFifo, Other
  <1> HIDE DEF side
  <1>4. /\ obj' = [obj EXCEPT ![New].opened[side] = @ + 1]
        /\ scene' = scene /\ names' = names /\ Acts(p)
    BY <1>2 DEF OpenFifo, Call
  <1>5. Becomes(p, [Rest(p, meet) EXCEPT !.fd[d] = e, !.reg["fd"] = d])
    BY <1>2, <1>3 DEF OpenFifo
  <1>6. PipeObjects /\ Alone(p)
    BY DEF Piping, PipeProcess
  <1>7. New \in DOMAIN obj /\ New # 0 /\ obj[New].kind = "fifo"
          /\ ObjectOK(obj[New])
    <2>1. New # 0
      BY CopierPlaces
    <2>2. QED
      BY <1>6, <2>1 DEF PipeObjects, IInv, ObjectsOK
  <1>8. /\ DOMAIN obj' = DOMAIN obj
        /\ obj'[New] = [obj[New] EXCEPT !.opened[side] = @ + 1]
        /\ \A o \in DOMAIN obj : o # New => obj'[o] = obj[o]
    BY <1>4, <1>7
  <1>9. /\ obj'[New].kind = "fifo" /\ obj'[New].data = obj[New].data
        /\ obj'[New].opened = [obj[New].opened EXCEPT ![side] = @ + 1]
    BY <1>7, <1>8 DEF ObjectOK
  <1>10. n \in Nat /\ obj[New].opened["r"] \in Nat
           /\ obj'[New].opened["r"] = IF side
                  = "r" THEN obj[New].opened["r"] + 1
                                      ELSE obj[New].opened["r"]
    BY <1>3, <1>7, <1>9 DEF ObjectOK
  <1>11. New' = New /\ Program(p)' = P
           /\ (Opened' <=> side = "r" \/ Opened)
    <2>1. Opened' <=> obj'[New].opened["r"] > 0
      BY <1>4, <1>7, <1>8, SceneStays
    <2>2. Opened <=> obj[New].opened["r"] > 0
      BY <1>7 DEF Opened
    <2>3. QED
      BY <1>4, <1>10, <2>1, <2>2, SceneStays
  <1>12. Obtains(p, e)
    BY <1>3, CopierKinds DEF Obtains, side
  <1> HIDE DEF d, e, meet, n, left
  <1>13. /\ Others(p) /\ Same(proc'[p], proc[p])
         /\ proc'[p].code = meet \o left
         /\ proc'[p].buf = proc[p].buf /\ DOMAIN proc'[p].reg = Variables
         /\ \A x \in 0..MaxFd : proc'[p].fd[x] \in {proc[p].fd[x], e}
         /\ Ready(p)'
    BY <1>1, <1>4, <1>5, <1>6, <1>12, PreparedOpens DEF d
  <1>14. left \in Seq(Steps(scene))
    BY <1>1, <1>4, FirstCall
  <1>15. CopierOK(p)'
    <2>1. CASE Holders(proc, New, Other(P)) # {}
      <3>1. meet = <<>> /\ <<>> \o left = left
        BY <1>14, <2>1 DEF meet
      <3>2. Looping(p)'
        BY <1>11, <1>13, <3>1 DEF Looping, left
      <3>3. P = FifoPosalji => Opened'
        <4>1. SUFFICES ASSUME P = FifoPosalji
                       PROVE  Opened
          BY <1>11
        <4>2. Other(P) = "r"
          BY <4>1, CopierKinds DEF Other
        <4>3. PICK q \in Pids, x \in 0..MaxFd : proc[q].fd[x] = <<New, "r">>
          BY <2>1, <4>2 DEF Holders
        <4>4. QED
          BY <1>6, <4>3 DEF PipeObjects
      <3>4. QED
        BY <1>11, <1>13, <3>2, <3>3 DEF CopierOK
    <2>2. CASE Holders(proc, New, Other(P)) = {}
      <3> DEFINE m == <<"meet", New, Other(P), n>>
      <3>1. meet = <<m>>
        BY <2>2 DEF meet, n
      <3> HIDE DEF m
      <3>2. /\ left = <<Head(left)>> \/ left = <<Head(left), close("fd")>>
        BY <1>1, CopierLoop DEF left
      <3>3. /\ meet \o left # <<>> /\ Head(meet \o left) = m
            /\ Tail(meet \o left) = left
        <4>1. CASE left = <<Head(left)>>
          <5> DEFINE b == Head(left)
          <5> HIDE DEF b
          <5>1. left = <<b>>
            BY <4>1 DEF b
          <5> DEFINE code == meet \o left
          <5>2. code = <<m, b>>
            BY <3>1, <5>1, OneFirst
          <5> HIDE DEF code
          <5>3. code # <<>> /\ Head(code) = m /\ Tail(code) = left
            BY <5>1, <5>2, ShortCodes
          <5>4. QED
            BY <5>3 DEF code
        <4>2. CASE left = <<Head(left), close("fd")>>
          <5> DEFINE b == Head(left)
                     c == close("fd")
          <5> HIDE DEF b, c
          <5>1. left = <<b, c>>
            BY <4>2 DEF b, c
          <5> DEFINE code == meet \o left
          <5>2. code = <<m, b, c>>
            BY <3>1, <5>1, OneFirst
          <5> HIDE DEF code
          <5>3. code # <<>> /\ Head(code) = m /\ Tail(code) = left
            BY <5>1, <5>2, ShortCodes
          <5>4. QED
            BY <5>3 DEF code
        <4>3. QED
          BY <3>2, <4>1, <4>2
      <3>4. Meeting(p)'
        <4>1. proc'[p].code # <<>> /\ Tail(proc'[p].code) = LoopCode(P)
          BY <1>13, <3>3 DEF left
        <4>2. Head(proc'[p].code) = <<"meet", New, Other(P), n>>
          BY <1>13, <3>3 DEF m
        <4>3. QED
          BY <1>1, <1>10, <1>11, <4>1, <4>2 DEF Meeting
      <3>5. QED
        BY <1>13, <3>4 DEF CopierOK
    <2>3. QED
      BY <2>1, <2>2
  <1>16. Onward(p)
    BY <1>3, <1>4, <1>8, <1>11 DEF Onward, side
  <1>17. OfScene(FWrite("izlaz.txt"))' <=> OfScene(FWrite("izlaz.txt"))
    BY <1>4 DEF OfScene
  <1>18. Len(obj') = Len(obj)
    <2>1. /\ DOMAIN obj = 1 .. Len(obj) /\ Len(obj) \in Nat
          /\ DOMAIN obj' = 1 .. Len(obj') /\ Len(obj') \in Nat
      BY LenOfSeq DEF IInv, ObjectsOK
    <2>2. \A a, b \in Nat : 1..a = 1..b => a = b
      OBVIOUS
    <2>3. QED
      BY <1>8, <2>1, <2>2
  <1>19. PipeObjects'
    <2>1. ASSUME NEW q \in Pids, NEW x \in 0..MaxFd, proc'[q].fd[x]
                     = <<New, "r">>
          PROVE  Opened'
      <3>1. CASE proc'[q].fd[x] = proc[q].fd[x]
        BY <1>6, <1>11, <2>1, <3>1 DEF PipeObjects
      <3>2. CASE proc'[q].fd[x] = e
        <4>1. side = "r"
          BY <2>1, <3>2 DEF e
        <4>2. QED
          BY <1>11, <4>1
      <3>3. QED
        BY <1>13, <3>1, <3>2 DEF Others
    <2>2. /\ Len(obj') \in {New - 1, New}
          /\ \A o \in DOMAIN obj' : o # New => obj'[o].kind \in {"file", "pipe"}
      BY <1>6, <1>8, <1>18 DEF PipeObjects
    <2>3. names'["moja_datoteka.txt"] = Scenes[scene].file
            /\ (names'["izlaz.txt"] # 0 => New \in DOMAIN obj')
            /\ names'["/tmp/moj_fifo"] = New
      BY <1>4, <1>6, <1>8 DEF PipeObjects
    <2>4. obj'[New].kind = "fifo" /\ ~ OfScene(FWrite("izlaz.txt"))'
            /\ (obj'[New].data # <<>> => Opened')
      BY <1>6, <1>7, <1>9, <1>11, <1>17 DEF PipeObjects
    <2>5. QED
      BY <1>4, <1>7, <1>8, <1>11, <2>1, <2>2, <2>3, <2>4 DEF PipeObjects
  <1>20. \A x \in AllPlaces : Text(x)' = Text(x)
    <2>1. \A o \in DOMAIN obj : o \in DOMAIN obj' /\ obj'[o].data = obj[o].data
      BY <1>8, <1>9
    <2>2. \A o \in DOMAIN obj' : o \notin DOMAIN obj => obj'[o].data = <<>>
      BY <1>8
    <2>3. QED
      BY <1>13, <2>1, <2>2, NothingMoves
  <1>21. \A r \in Scenes[scene].routes : RouteOK(r)'
    BY <1>1, <1>4, <1>13, <1>20, RoutesRest
  <1>22. QED
    BY <1>4, <1>13, <1>15, <1>16, <1>19, <1>21, PipeGoesOn

(* Every step of such a scene keeps the texts.                             *)
LEMMA PipesKept ==
  ASSUME IInv, IInv', Pipeline(Scenes[scene]), Piping, Next
  PROVE  Piping'
  <1>1. PICK p \in Pids : Calls(p) \/ CallFails(p) \/ ForkFails(p)
                            \/ CreateFails(p) \/ Interrupt(p)
    BY DEF Next
  <1>2. Runs(p)
    BY <1>1, WhoMoves
  <1>3. PipeProcess(p) /\ Alone(p)
    BY DEF Piping, PipeProcess
  <1>4. p \in DOMAIN Scenes[scene].start /\ CopierOK(p)
    BY <1>2, <1>3 DEF PipeProcess, Runs
  <1>5. ASSUME NEW how, proc' = Ended(p, how), obj' = Emptied(proc'),
               UNCHANGED <<scene, names>>
        PROVE  Piping'
    BY <1>2, <1>4, <1>5, PipeEnds
  <1>6. CASE Interrupt(p)
    <2>1. Leader(p) = p /\ p \in Group(p) /\ proc[p].handler["INT"] = <<>>
            /\ "INT" \notin proc[p].masked
      BY <1>3 DEF Leader, Group, Alone
    <2>2. SIG_IGN # <<>>
      BY DEF SIG_IGN
    <2>3. proc' = Ended(p, "signal") /\ obj' = Emptied(proc')
            /\ UNCHANGED <<scene, names>>
      BY <1>2, <1>6, <2>1, <2>2 DEF Interrupt
    <2>4. QED
      BY <1>5, <2>3
  <1>7. CASE Return(p)
    BY <1>3, <1>5, <1>7 DEF Return, Alone
  <1>8. CASE Gives(p)
    BY <1>5, <1>8, GivesEnds
  <1>9. CASE /\ Calls(p) \/ CallFails(p) \/ ForkFails(p) \/ CreateFails(p)
             /\ ~ Return(p) /\ ~ Gives(p)
    <2> DEFINE name == Head(proc[p].code)[1]
               P == Program(p)
    <2>1. proc[p].pending \subseteq proc[p].masked
      BY <1>3 DEF Alone
    <2>2. proc[p].code # <<>> /\ Acts(p)
      BY <1>9, <2>1, StepOfCall
    <2>3. /\ name = "open" => Open(p)
          /\ name = "mkfifo" => MkFifo(p)
          /\ name = "openFifo" => OpenFifo(p)
          /\ name = "meet" => Meet(p)
          /\ name = "close" => Close(p)
          /\ name = "while" => Read(p)
          /\ name = "write" => Write(p) \/ BrokenPipe(p) \/ WriteNowhere(p)
      <3>1. ASSUME name \in {"open", "mkfifo", "openFifo", "meet", "close",
                             "while", "write"}
            PROVE  \/ name = "open" /\ Open(p)
                   \/ name = "mkfifo" /\ MkFifo(p)
                   \/ name = "openFifo" /\ OpenFifo(p)
                   \/ name = "meet" /\ Meet(p)
                   \/ name = "close" /\ Close(p)
                   \/ name = "while" /\ Read(p)
                   \/ /\ name = "write"
                      /\ Write(p) \/ BrokenPipe(p) \/ WriteNowhere(p)
        BY <1>9, <2>1, <3>1, StepOfCall
      <3> HIDE DEF name
      <3>2. QED
        BY <3>1
    <2>4. \/ Copies(P) \/ ReadsFile(P) \/ WritesFile(P) \/ OfFifo(P)
      BY <1>4, CopierPlaces
    <2>5. CASE /\ Starting(p) /\ Prepared(p) /\ proc[p].buf = <<>>
               /\ WritesFile(P) => New \notin DOMAIN obj
               /\ P = FifoPrimi => ~ Opened
      <3>1. proc[p].code = P /\ ~ Copies(P)
        BY <2>5 DEF Starting
      <3>2. CASE ReadsFile(P)
        <4>1. name = "open"
          BY <3>1, <3>2, CopierKinds DEF Opens
        <4>2. QED
          BY <1>4, <2>3, <2>5, <3>2, <4>1, PipeOpensFile
      <3>3. CASE WritesFile(P)
        <4>1. name = "open"
          BY <3>1, <3>3, CopierKinds DEF Opens
        <4>2. QED
          BY <1>4, <2>3, <2>5, <3>3, <4>1, PipeMakesFile
      <3>4. CASE OfFifo(P)
        <4>1. name = "mkfifo"
          BY <3>1, <3>4, CopierKinds DEF mkfifo
        <4>2. QED
          BY <1>4, <2>3, <2>5, <3>4, <4>1, PipeMakesFifo
      <3>5. QED
        BY <2>4, <3>1, <3>2, <3>3, <3>4
    <2>6. CASE /\ Opening(p) /\ Prepared(p) /\ proc[p].buf = <<>>
               /\ names["/tmp/moj_fifo"] = New
      <3>1. Head(proc[p].code) = openFifo("fd", "/tmp/moj_fifo",
                                          IF P = FifoPrimi THEN "r" ELSE "w")
        BY <2>6, CopierOpens DEF Opening
      <3>2. name = "openFifo"
        BY <3>1 DEF openFifo
      <3>3. QED
        BY <1>4, <2>3, <2>6, <3>2, PipeOpensFifo
    <2>7. CASE Meeting(p) /\ Ready(p) /\ proc[p].buf = <<>>
      <3>1. name = "meet"
        BY <2>7 DEF Meeting
      <3>2. QED
        BY <1>4, <2>3, <2>7, <3>1, PipeMeets
    <2>8. CASE /\ Writing(p) /\ Ready(p) /\ (P = FifoPosalji => Opened)
      <3>1. name = "write"
        BY <2>8 DEF Writing
      <3>2. QED
        BY <1>4, <2>2, <2>3, <2>8, <3>1, PipeWrites
    <2>9. CASE /\ Looping(p) /\ proc[p].buf = <<>> /\ Ready(p)
               /\ (P = FifoPosalji => Opened)
      <3>1. PICK n \in Nat, strict \in BOOLEAN :
              Head(LoopCode(P)) = Copy(P, n, strict)
        BY <2>4, CopierLoop
      <3>2. name = "while"
        BY <2>9, <3>1 DEF Looping, Copy
      <3>3. QED
        BY <1>4, <2>3, <2>9, <3>2, PipeReads
    <2>10. CASE Closing(p)
      <3>1. Head(proc[p].code) = close("fd")
        BY <2>10, ShortCodes DEF Closing
      <3>2. name = "close"
        BY <3>1 DEF close
      <3>3. QED
        BY <1>4, <2>3, <2>10, <3>2, PipeCloses
    <2> HIDE DEF name, P
    <2>11. \/ /\ Starting(p) \/ Opening(p)
              /\ Prepared(p) /\ proc[p].buf = <<>>
              /\ WritesFile(P) => New \notin DOMAIN obj
              /\ Opening(p) => names["/tmp/moj_fifo"] = New
              /\ P = FifoPrimi => ~ Opened
           \/ Meeting(p) /\ Ready(p) /\ proc[p].buf = <<>>
           \/ /\ Writing(p) \/ (Looping(p) /\ proc[p].buf = <<>>)
              /\ Ready(p) /\ (P = FifoPosalji => Opened)
           \/ Closing(p)
      BY <1>4, <2>2 DEF CopierOK, P
    <2>12. QED
      BY <2>5, <2>6, <2>7, <2>8, <2>9, <2>10, <2>11
  <1>10. QED
    BY <1>1, <1>6, <1>7, <1>8, <1>9

(* What such a scene has at the start.                                     *)
LEMMA PipesInitObjects ==
  ASSUME Init, IInv, Pipeline(Scenes[scene])
  PROVE  /\ Len(obj) = New - 1 /\ New \notin DOMAIN obj /\ New \in Nat
         /\ obj[1].kind = "file" /\ obj[1].data = <<>>
         /\ DOMAIN obj = 1 .. Len(Scenes[scene].objects) + 1
         /\ DOMAIN Scenes[scene].objects = 1 .. Len(Scenes[scene].objects)
         /\ Len(Scenes[scene].objects) \in Nat
         /\ \A i \in DOMAIN Scenes[scene].objects :
              i + 1 \in DOMAIN obj /\ obj[i + 1] = Scenes[scene].objects[i]
         /\ \A i \in DOMAIN obj : i # 1 =>
                i - 1 \in DOMAIN Scenes[scene].objects
                                  /\ obj[i] = Scenes[scene].objects[i - 1]
  <1> DEFINE objects == Scenes[scene].objects
             first == <<Object("file", <<>>)>>
  <1>1. IsSeq(objects) /\ obj = first \o objects
    BY ScenesAssumption DEF Init
  <1>2. IsSeq(first) /\ Len(first) = 1
    BY Short
  <1>3. Len(objects) \in Nat /\ DOMAIN objects = 1 .. Len(objects)
    BY <1>1, LenOfSeq
  <1>4. New = Len(objects) + 2
    BY DEF New, Made
  <1> HIDE DEF first, objects
  <1>5. /\ DOMAIN obj = 1 .. Len(first) + Len(objects)
        /\ Len(obj) = Len(first) + Len(objects)
        /\ \A i \in 1 .. Len(first) + Len(objects) :
             obj[i] = IF i <= Len(first) THEN first[i]
                      ELSE objects[i - Len(first)]
    BY <1>1, <1>2, JoinedAt, Joined
  <1>6. /\ DOMAIN obj = 1 .. Len(objects) + 1 /\ Len(obj) = Len(objects) + 1
        /\ \A i \in 1 .. Len(objects) : obj[i + 1] = objects[i]
        /\ \A i \in 1 .. Len(objects) + 1 : i # 1 => obj[i] = objects[i - 1]
    <2>1. DOMAIN obj = 1 .. Len(objects) + 1 /\ Len(obj) = Len(objects) + 1
      BY <1>2, <1>3, <1>5
    <2>2. ASSUME NEW i \in 1 .. Len(objects)
          PROVE  obj[i + 1] = objects[i]
      <3>1. i + 1 \in 1 .. Len(first) + Len(objects) /\ ~ (i + 1 <= Len(first))
              /\ (i + 1) - Len(first) = i
        BY <1>2, <1>3
      <3>2. obj[i + 1] = objects[(i + 1) - Len(first)]
        BY <1>5, <3>1
      <3>3. QED
        BY <3>1, <3>2
    <2>3. ASSUME NEW i \in 1 .. Len(objects) + 1, i # 1
          PROVE  obj[i] = objects[i - 1]
      <3>1. i - 1 \in 1 .. Len(objects) /\ (i - 1) + 1 = i
        BY <1>3, <2>3
      <3>2. QED
        BY <2>2, <3>1
    <2>4. QED
      BY <2>1, <2>2, <2>3
  <1>7. obj[1].kind = "file" /\ obj[1].data = <<>>
    BY ScreenFirst DEF Object
  <1>8. /\ Len(obj) = New - 1 /\ New \notin DOMAIN obj /\ New \in Nat
        /\ \A i \in 1 .. Len(objects) : i + 1 \in DOMAIN obj
        /\ \A i \in DOMAIN obj : i # 1 => i - 1 \in 1 .. Len(objects)
    BY <1>3, <1>4, <1>6
  <1>9. QED
    BY <1>3, <1>6, <1>7, <1>8 DEF objects

(* At the start no program has begun.                                      *)
LEMMA PipesInitProcesses ==
  ASSUME Init, IInv, Pipeline(Scenes[scene])
  PROVE  \A p \in Pids : PipeProcess(p) /\ proc[p].buf = <<>>
  <1> DEFINE S == Scenes[scene]
             nofd == [d \in 0..MaxFd |-> Closed]
             fd(p) == [d \in 0..MaxFd |->
                 CASE d \in closed -> Closed
                   [] d = 0 -> <<S.input[p], "r">>
                   [] d = 1 -> <<S.output[p], "w">>
                   [] d = 2 -> <<tty, "w">>
                   [] OTHER -> Closed]
  <1>1. \A code, f : LET r == Process(code, f) IN
          /\ DOMAIN r = Fields /\ r.handler["INT"] = <<>>
          /\ r.masked = {} /\ r.pending = {} /\ r.state = "runs"
          /\ r.parent = 0 /\ r.main = 0 /\ r.reg["STDOUT"] = 1
          /\ r.reg["STDIN"] = 0
          /\ DOMAIN r.reg = Variables /\ r.buf = <<>>
          /\ r.code = code /\ r.fd = f
    BY DEF Process, Fields, Variables
  <1>2. New \notin DOMAIN obj
    BY PipesInitObjects
  <1>3. ~ Opened
    BY <1>2 DEF Opened
  <1>4. ASSUME NEW p \in Pids, p \notin DOMAIN S.start
        PROVE  PipeProcess(p) /\ proc[p].buf = <<>>
    <2> DEFINE r == Process(<<>>, nofd)
    <2>1. proc[p] = [r EXCEPT !.state = "none"]
      BY <1>4 DEF Init
    <2>2. /\ DOMAIN r = Fields /\ r.handler["INT"] = <<>>
          /\ r.masked = {} /\ r.pending = {} /\ r.buf = <<>>
          /\ DOMAIN r.reg = Variables /\ r.parent = 0 /\ r.main = 0
      BY <1>1
    <2> HIDE DEF r
    <2>3. QED
      BY <1>4, <2>1, <2>2 DEF Fields, PipeProcess, Alone
  <1>5. ASSUME NEW p \in Pids, p \in DOMAIN S.start
        PROVE  PipeProcess(p) /\ proc[p].buf = <<>>
    <2> DEFINE P == Program(p)
    <2>1. proc[p] = Process(S.start[p], fd(p))
      BY <1>5 DEF Init
    <2>2. 1 \notin closed /\ closed \subseteq 0..2
            /\ {0, 1, 3} \subseteq 0..MaxFd /\ 3 \notin 0..2
      <3>1. closed \in S.closed /\ closed \subseteq 0..2
        BY DEF Init, IInv, SceneOK
      <3>2. 1 \notin closed
        BY <3>1 DEF Pipeline
      <3>3. QED
        BY <3>1, <3>2, BoundsAssumption
    <2>3. /\ fd(p)[1] = <<S.output[p], "w">>
          /\ fd(p)[0] \in {Closed, <<S.input[p], "r">>}
          /\ fd(p)[3] = Closed
      <3>1. fd(p)[1] = <<S.output[p], "w">>
        BY <2>2
      <3>2. fd(p)[0] \in {Closed, <<S.input[p], "r">>}
        BY <2>2
      <3>3. fd(p)[3] = Closed
        <4>1. 3 \notin closed /\ 3 \in 0..MaxFd
          BY <2>2
        <4>2. QED
          BY <4>1
      <3>4. QED
        BY <3>1, <3>2, <3>3
    <2> HIDE DEF fd
    <2>4. /\ proc[p].handler["INT"] = <<>> /\ proc[p].masked = {}
          /\ proc[p].pending = {} /\ proc[p].parent = 0 /\ proc[p].main = 0
          /\ proc[p].reg["STDOUT"] = 1 /\ proc[p].reg["STDIN"] = 0
          /\ DOMAIN proc[p].reg = Variables /\ proc[p].buf = <<>>
          /\ proc[p].fd = fd(p) /\ proc[p].code = P
      BY <1>1, <2>1 DEF Program
    <2>5. Alone(p) /\ Prepared(p)
      BY <2>3, <2>4 DEF Alone, Prepared
    <2>6. CASE Copies(P)
      <3>1. ~ ReadsFile(P) /\ ~ WritesFile(P) /\ P # FifoPosalji
                /\ P # FifoPrimi
        BY <2>6, CopierKinds DEF OfFifo
      <3>2. In(P) = "STDIN" /\ Out(P) = "STDOUT"
        BY <3>1 DEF In, Out
      <3>3. Input(p) = S.input[p] /\ Output(p) = S.output[p]
        BY <1>5, <3>1, CopierPlaces
      <3>4. Looping(p)
        BY <2>4, <2>6, CopierOpens DEF Looping
      <3>5. Fd(p, Val(p, "STDOUT")) = <<Output(p), "w">>
        BY <2>2, <2>3, <2>4, <3>3 DEF Fd, Val
      <3>6. Fd(p, Val(p, "STDIN")) \in {Closed, <<Input(p), "r">>}
        BY <2>2, <2>3, <2>4, <3>3 DEF Fd, Val
      <3>7. Closed[2] = ""
        BY DEF Closed
      <3>8. Ready(p)
        <4> DEFINE in == Fd(p, Val(p, "STDIN"))
        <4>1. in[2] = "r" => in[1] = Input(p)
          <5>1. CASE in = Closed
            <6>1. in[2] = ""
              BY <3>7, <5>1, Zenon
            <6>2. QED
              BY <6>1
          <5>2. CASE in = <<Input(p), "r">>
            <6> HIDE DEF in
            <6>1. QED
              BY <5>2
          <5>3. QED
            BY <3>6, <5>1, <5>2
        <4> HIDE DEF in
        <4>2. /\ Fd(p, Val(p, In(Program(p)))) = in
              /\ Fd(p, Val(p, Out(Program(p)))) = <<Output(p), "w">>
              /\ Program(p) # FifoPrimi
          BY <3>1, <3>2, <3>5 DEF in
        <4>3. QED
          BY <4>1, <4>2 DEF Ready
      <3> HIDE DEF P
      <3>9. CopierOK(p)
        BY <2>4, <3>1, <3>4, <3>8 DEF CopierOK, P
      <3>10. QED
        BY <1>5, <2>4, <2>5, <3>9 DEF PipeProcess
    <2>7. CASE ~ Copies(P)
      <3>1. Starting(p)
        BY <2>4, <2>7 DEF Starting
      <3>2. ~ Opening(p)
        <4>1. SUFFICES ASSUME OfFifo(P), P = Tail(P)
                       PROVE  FALSE
          BY <2>4 DEF Opening
        <4>2. Head(P) = mkfifo("/tmp/moj_fifo")
          BY <4>1, CopierKinds
        <4>3. Head(P) = openFifo("fd", "/tmp/moj_fifo",
                                 IF P = FifoPrimi THEN "r" ELSE "w")
          BY <4>1, CopierOpens
        <4>4. mkfifo("/tmp/moj_fifo")[1] = "mkfifo"
          BY DEF mkfifo
        <4>5. openFifo("fd", "/tmp/moj_fifo", IF P
                  = FifoPrimi THEN "r" ELSE "w")[1]
                = "openFifo"
          BY DEF openFifo
        <4>6. QED
          BY <4>2, <4>3, <4>4, <4>5
      <3> HIDE DEF P
      <3>3. CopierOK(p)
        BY <1>2, <1>3, <2>4, <2>5, <3>1, <3>2 DEF CopierOK
      <3>4. QED
        BY <1>5, <2>4, <2>5, <3>3 DEF PipeProcess
    <2>8. QED
      BY <2>6, <2>7
  <1>6. QED
    BY <1>4, <1>5

LEMMA PipesInitKinds ==
  ASSUME Init, IInv, Pipeline(Scenes[scene])
  PROVE  PipeObjects
  <1>1. Len(obj) = New - 1 /\ New \notin DOMAIN obj
    BY PipesInitObjects
  <1>2. \A o \in DOMAIN obj : obj[o].kind \in {"file", "pipe"}
    <2>1. \A i \in DOMAIN Scenes[scene].objects :
            Scenes[scene].objects[i].kind \in {"file", "pipe"}
      BY DEF Pipeline
    <2>2. QED
      BY <2>1, PipesInitObjects
  <1>3. /\ names["moja_datoteka.txt"] = Scenes[scene].file
        /\ names["izlaz.txt"] = 0 /\ names["/tmp/moj_fifo"] = 0
    BY DEF Init, Names
  <1>4. \A p \in Pids : \A d \in 0..MaxFd : proc[p].fd[d] # <<New, "r">>
    <2>1. SUFFICES ASSUME NEW p \in Pids, NEW d \in 0..MaxFd,
                          proc[p].fd[d] = <<New, "r">>
                   PROVE  FALSE
      OBVIOUS
    <2>2. <<New, "r">> # Closed
      <3>1. Closed[2] = "" /\ <<New, "r">>[2] = "r"
        BY DEF Closed
      <3>2. QED
        BY <3>1
    <2>3. DOMAIN obj = 1 .. Len(obj)
      BY LenOfSeq DEF IInv, ObjectsOK
    <2>4. proc[p].fd[d] \in (1 .. Len(obj)) \X {"r", "w"}
      BY <2>1, <2>2 DEF IInv, ProcessesOK, ProcessOK
    <2>5. New \in 1 .. Len(obj)
      BY <2>1, <2>4
    <2>6. QED
      BY <1>1, <2>3, <2>5
  <1>5. QED
    BY <1>1, <1>2, <1>3, <1>4 DEF PipeObjects

(* Every text lies at the end of its route.                                *)
LEMMA PipesInitRoutes ==
  ASSUME Init, IInv, Pipeline(Scenes[scene]), NEW r \in Scenes[scene].routes
  PROVE  RouteOK(r)
  <1> DEFINE S == Scenes[scene]
             n == Len(r.path)
             T == Places(r)
  <1>1. /\ Leads(S, r) /\ n \in Nat /\ n \in 1..n
        /\ \A i, j \in 1..n : r.path[i] = r.path[j] => i = j
        /\ \A place : place \in Range(r.path) <=>
               \E i \in 1..n : r.path[i] = place
        /\ \A i \in 1..n : r.path[i] \in AllPlaces
    <2>1. Leads(S, r)
      BY Neighbours
    <2>2. n \in Nat /\ n > 0
      BY <2>1, Route DEF Leads
    <2>3. n \in 1..n
      BY <2>2
    <2>4. QED
      BY <2>1, <2>2, <2>3, Neighbours, Zenon
  <1>2. /\ DOMAIN T = 1..n
        /\ \A i \in 1..n : T[i] = Text(r.path[i])
    BY <1>1, Route
  <1>3. PICK o \in DOMAIN S.objects :
          r.path[n] = <<"object", o + 1>> /\ S.objects[o].data = r.text
    BY <1>1 DEF Leads
  <1>4. \A i \in DOMAIN S.objects : \A j \in DOMAIN S.objects[i].data :
          \A k \in DOMAIN r.text :
            S.objects[i].data[j] = r.text[k] =>
              r.path[n] = <<"object", i + 1>> /\ j = k
    BY <1>1 DEF Leads
  <1>5. Text(r.path[n]) = r.text
    <2>1. o + 1 \in DOMAIN obj /\ obj[o + 1] = S.objects[o]
      BY PipesInitObjects
    <2>2. Text(<<"object", o + 1>>) = obj[o + 1].data
      BY <2>1, TextOfPlaces
    <2>3. QED
      BY <1>3, <2>1, <2>2
  <1>6. \A place \in AllPlaces : \A b \in DOMAIN Text(place) :
          \A k \in DOMAIN r.text :
            Text(place)[b] = r.text[k] => place = r.path[n] /\ b = k
    <2>1. SUFFICES ASSUME NEW place \in AllPlaces, NEW b \in DOMAIN Text(place),
                          NEW k \in DOMAIN r.text, Text(place)[b] = r.text[k]
                   PROVE  place = r.path[n] /\ b = k
      OBVIOUS
    <2>2. DOMAIN <<>> = {}
      OBVIOUS
    <2>3. CASE \E p \in Pids : place = <<"process", p>>
      <3>1. PICK p \in Pids : place = <<"process", p>>
        BY <2>3
      <3>2. Text(place) = <<>>
        BY <3>1, PipesInitProcesses, TextOfPlaces
      <3>3. QED
        BY <2>1, <2>2, <3>2
    <2>4. CASE \E x \in Nat : place = <<"object", x>>
      <3>1. PICK x \in Nat : place = <<"object", x>>
        BY <2>4
      <3>2. Text(place) = IF x \in DOMAIN obj THEN obj[x].data ELSE <<>>
        BY <3>1, TextOfPlaces
      <3>3. x \in DOMAIN obj /\ x # 1
        BY <2>1, <2>2, <3>2, PipesInitObjects
      <3>4. x - 1 \in DOMAIN S.objects /\ obj[x] = S.objects[x - 1]
        BY <3>3, PipesInitObjects
      <3>5. b \in DOMAIN S.objects[x - 1].data
              /\ S.objects[x - 1].data[b] = r.text[k]
        BY <2>1, <3>2, <3>3, <3>4
      <3>6. r.path[n] = <<"object", (x - 1) + 1>> /\ b = k
        BY <1>4, <3>4, <3>5
      <3>7. (x - 1) + 1 = x
        BY <3>1
      <3>8. QED
        BY <3>1, <3>6, <3>7
    <2>5. QED
      BY <2>3, <2>4 DEF AllPlaces
  <1> HIDE DEF n, T, S
  <1>7. \A a, b : \A k \in DOMAIN r.text :
          At(T, a, b, r.text[k]) => a = n /\ b = k
    <2>1. SUFFICES ASSUME NEW a, NEW b, NEW k \in DOMAIN r.text,
                          At(T, a, b, r.text[k])
                   PROVE  a = n /\ b = k
      OBVIOUS
    <2>2. a \in 1..n /\ b \in DOMAIN Text(r.path[a])
            /\ Text(r.path[a])[b] = r.text[k]
      BY <1>2, <2>1 DEF At
    <2>3. r.path[a] = r.path[n] /\ b = k
      BY <1>1, <1>6, <2>2
    <2>4. QED
      BY <1>1, <2>2, <2>3
  <1>8. InOrder(T, r.text)
    <2>1. ~ (n < n)
      BY <1>1
    <2>2. QED
      BY <1>7, <2>1 DEF InOrder
  <1>9. \A k \in DOMAIN r.text : Present(T, r.text[k])
    <2>1. \A k \in DOMAIN r.text : At(T, n, k, r.text[k])
      BY <1>1, <1>2, <1>5 DEF At
    <2>2. QED
      BY <2>1 DEF Present
  <1>10. Nowhere(r)
    <2>1. SUFFICES ASSUME NEW k \in DOMAIN r.text, NEW place \in AllPlaces,
                          place \notin Range(r.path),
                          r.text[k] \in Range(Text(place))
                   PROVE  FALSE
      BY DEF Nowhere
    <2>2. PICK b \in DOMAIN Text(place) : Text(place)[b] = r.text[k]
      BY <2>1 DEF Range
    <2>3. place = r.path[n]
      BY <1>6, <2>2
    <2>4. QED
      BY <1>1, <2>1, <2>3
  <1>11. QED
    BY <1>8, <1>9, <1>10 DEF RouteOK, T

LEMMA PipesInit ==
  ASSUME Init, PipesFit
  PROVE  PipesOK
  <1>1. SUFFICES ASSUME Scenes[scene].routes # {}
                 PROVE  Piping
    BY DEF PipesOK
  <1>2. IInv /\ Pipeline(Scenes[scene])
    BY <1>1, InitOK DEF PipesFit, PipeFits, Init
  <1>3. QED
    BY <1>2, PipesInitProcesses, PipesInitKinds, PipesInitRoutes DEF Piping

(* A step that changes nothing.                                            *)
LEMMA PipesStay ==
  ASSUME Piping, UNCHANGED vars
  PROVE  Piping'
  <1>1. UNCHANGED <<scene, proc, obj, names>>
    BY DEF vars
  <1>2. ASSUME NEW p \in Pids
        PROVE  PipeProcess(p)'
    <2>1. /\ Alone(p) => Alone(p)'
          /\ Starting(p)' <=> Starting(p)
          /\ Opening(p)' <=> Opening(p)
          /\ Meeting(p)' <=> Meeting(p)
          /\ Looping(p)' <=> Looping(p)
          /\ Writing(p)' <=> Writing(p)
          /\ Closing(p)' <=> Closing(p)
          /\ Prepared(p) => Prepared(p)'
          /\ Ready(p) => Ready(p)'
          /\ \A x : Fd(p, Val(p, x))' = Fd(p, Val(p, x))
      BY <1>1, CopierStays
    <2>2. /\ New' = New /\ Program(p)' = Program(p)
          /\ Opened' <=> Opened
      BY <1>1, SceneStays DEF Opened
    <2>3. CopierOK(p) => CopierOK(p)'
      BY <1>1, <2>1, <2>2 DEF CopierOK
    <2>4. PipeProcess(p)
      BY DEF Piping
    <2>5. QED
      BY <1>1, <2>1, <2>3, <2>4 DEF PipeProcess
  <1>3. PipeObjects'
    BY <1>1 DEF Piping, PipeObjects, OfScene, New, Opened
  <1>4. ASSUME NEW r \in Scenes[scene].routes
        PROVE  RouteOK(r)'
    <2>1. Places(r)' = Places(r)
      BY <1>1 DEF Places, Text
    <2>2. RouteOK(r)
      BY DEF Piping
    <2>4. QED
      BY <1>1, <2>1, <2>2 DEF RouteOK, Lost, New, Nowhere, Text
  <1>5. QED
    BY <1>1, <1>2, <1>3, <1>4 DEF Piping

LEMMA PipesNext ==
  ASSUME IInv, PipesOK, PipesFit, [Next]_vars
  PROVE  PipesOK'
  <1>1. CASE UNCHANGED vars
    BY <1>1, PipesStay DEF vars, PipesOK
  <1>2. CASE Next
    <2>1. scene' = scene
      BY <1>2, StepsClose, StepKinds
    <2>2. SUFFICES ASSUME Scenes[scene].routes # {}
                   PROVE  Piping'
      BY <2>1 DEF PipesOK
    <2>3. Pipeline(Scenes[scene]) /\ Piping
      BY <2>2 DEF PipesFit, PipeFits, PipesOK, IInv, SceneOK
    <2>4. IInv'
      BY NextOK
    <2>5. QED
      BY <1>2, <2>3, <2>4, PipesKept
  <1>3. QED
    BY <1>1, <1>2

(* A spot is a place of the route and an index there.                      *)
LEMMA SpotsAt ==
  ASSUME IInv, NEW r, Leads(Scenes[scene], r), NEW k \in DOMAIN r.text
  PROVE  /\ \A a \in Spots(r, k) : At(Places(r), a[1], a[2], r.text[k])
         /\ \A i, j : At(Places(r), i, j, r.text[k]) => <<i, j>> \in Spots(r, k)
  <1> DEFINE T == Places(r)
  <1>1. /\ DOMAIN T = DOMAIN r.path
        /\ \A i \in DOMAIN r.path : T[i] = Text(r.path[i])
    BY Route
  <1>2. ASSUME NEW a \in Spots(r, k)
        PROVE  At(T, a[1], a[2], r.text[k])
    <2>1. PICK i \in DOMAIN r.path :
            a \in {<<i, j>> : j \in {j \in DOMAIN Text(r.path[i]) :
                                       Text(r.path[i])[j] = r.text[k]}}
      BY DEF Spots
    <2>2. PICK j \in DOMAIN Text(r.path[i]) :
            Text(r.path[i])[j] = r.text[k] /\ a = <<i, j>>
      BY <2>1
    <2>3. a[1] = i /\ a[2] = j
      BY <2>2
    <2> HIDE DEF T
    <2>4. QED
      BY <1>1, <2>2, <2>3 DEF At
  <1>3. ASSUME NEW i, NEW j, At(T, i, j, r.text[k])
        PROVE  <<i, j>> \in Spots(r, k)
    <2> HIDE DEF T
    <2>1. i \in DOMAIN r.path /\ j \in DOMAIN Text(r.path[i])
            /\ Text(r.path[i])[j] = r.text[k]
      BY <1>1, <1>3 DEF At
    <2>2. QED
      BY <2>1 DEF Spots
  <1>4. QED
    BY <1>2, <1>3

LEMMA PipesFollow ==
  ASSUME IInv, PipesOK, PipesFit
  PROVE  TextsFlow
  <1>1. ASSUME NEW r \in Scenes[scene].routes, NEW k \in DOMAIN r.text,
               NEW l \in DOMAIN r.text
        PROVE  /\ \A a \in Spots(r, k), b \in Spots(r, l) : k < l <=>
                      Before(a, b)
               /\ k < l /\ (\E b \in Spots(r, l) : b[1] = 1) =>
                    \E a \in Spots(r, k) : a[1] = 1
               /\ \/ Spots(r, k) # {}
                  \/ r.reader # 0 /\ proc[r.reader].code = <<>>
    <2> DEFINE T == Places(r)
               t == r.text
               n == Len(r.path)
    <2>1. Pipeline(Scenes[scene]) /\ RouteOK(r)
      BY DEF PipesFit, PipeFits, PipesOK, Piping, IInv, SceneOK
    <2>2. Leads(Scenes[scene], r) /\ n \in Nat
      BY <2>1, Neighbours, Route
    <2>3. DOMAIN T = 1..n
      BY <2>2, Route
    <2>4. /\ \A a \in Spots(r, k) : At(T, a[1], a[2], t[k])
          /\ \A a \in Spots(r, l) : At(T, a[1], a[2], t[l])
          /\ \A i, j : At(T, i, j, t[k]) => <<i, j>> \in Spots(r, k)
      BY <2>2, SpotsAt
    <2>5. /\ \A a, b, c, d : At(T, a, b, t[k]) /\ At(T, c, d, t[l]) =>
               (k < l <=> a < c \/ (a = c /\ b < d))
          /\ Present(T, t[k]) \/ Lost(r, T, k)
      BY <2>1 DEF RouteOK, InOrder
    <2>6. Lost(r, T, k) =>
            /\ proc[r.reader].code = <<>> /\ r.reader # 0
            /\ r.reader \in DOMAIN Scenes[scene].start
            /\ Input(r.reader) = New
            /\ \A a, b : k < l /\ At(T, a, b, t[l]) =>
                 \E f \in 1..a : r.path[f] = <<"object", New>>
      <3>1. ASSUME Lost(r, T, k)
            PROVE  /\ proc[r.reader].code = <<>> /\ r.reader # 0
                   /\ r.reader \in DOMAIN Scenes[scene].start
                   /\ Scenes[scene].start[r.reader] = FifoPrimi
                   /\ \A a, b : k < l /\ At(T, a, b, t[l]) =>
                        \E f \in 1..a : r.path[f] = <<"object", New>>
        <4> HIDE DEF T
        <4>1. r.reader \in Pids
          BY <3>1 DEF Lost, Risky
        <4>2. r.reader # 0
          BY <4>1, BoundsAssumption
        <4>3. QED
          BY <3>1, <4>2 DEF Lost, Risky
      <3>2. \A p \in DOMAIN Scenes[scene].start :
              Scenes[scene].start[p] = FifoPrimi => Input(p) = New
        BY <2>1, CopierPlaces
      <3>3. QED
        BY <3>1, <3>2
    <2>7. \A a \in Spots(r, k), b \in Spots(r, l) : k < l <=> Before(a, b)
      BY <2>4, <2>5 DEF Before
    <2>8. ASSUME k < l, NEW b \in Spots(r, l), b[1] = 1
          PROVE  \E a \in Spots(r, k) : a[1] = 1
      <3>1. At(T, 1, b[2], t[l]) /\ 1 \in 1..n
        BY <2>3, <2>4, <2>8 DEF At
      <3>2. CASE Present(T, t[k])
        <4>1. PICK a, c : At(T, a, c, t[k])
          BY <3>2 DEF Present
        <4> HIDE DEF T
        <4>2. a \in 1..n
          BY <2>3, <4>1 DEF At
        <4>3. a < 1 \/ a = 1
          BY <2>5, <2>8, <3>1, <4>1
        <4>4. a = 1
          BY <4>2, <4>3
        <4>5. <<1, c>> \in Spots(r, k)
          BY <2>4, <4>1, <4>4
        <4>6. QED
          BY <4>5
      <3>3. CASE Lost(r, T, k)
        <4>1. r.path[1] = <<"object", New>>
          <5>1. PICK f \in 1..1 : r.path[f] = <<"object", New>>
            BY <2>6, <2>8, <3>1, <3>3
          <5>2. f = 1
            BY <5>1
          <5>3. QED
            BY <5>1, <5>2
        <4>2. 1 - 1 \in 1..n
          BY <2>1, <2>6, <3>1, <3>3, <4>1, Neighbours
        <4>3. QED
          BY <2>2, <4>2
      <3>4. QED
        BY <2>5, <3>2, <3>3
    <2>9. \/ Spots(r, k) # {}
          \/ r.reader # 0 /\ proc[r.reader].code = <<>>
      <3>1. CASE Present(T, t[k])
        BY <2>4, <3>1 DEF Present
      <3>2. CASE Lost(r, T, k)
        BY <2>6, <3>2
      <3>3. QED
        BY <2>5, <3>1, <3>2
    <2>10. QED
      BY <2>7, <2>8, <2>9
  <1>2. QED
    BY <1>1 DEF TextsFlow

(* Nothing is lost on its way, doubled or put out of order, whoever is     *)
(* killed: no message, and no text along any number of pipes and filters,  *)
(* or through a FIFO, of which only a rest may be lost, when its reader    *)
(* has left (fifoposalji.c, fifoprimi.c, io_copy.c, f_cat.c, f_write.c,    *)
(* read_file.c, mq_primi.c, sysv_msg_primi.c).                             *)
THEOREM NothingIsLost ==
  ASSUME QueuesFit, PipesFit
  PROVE  Spec => []NothingLost
  <1>1. Init => IInv /\ MessagesOK /\ PipesOK
    BY InitOK, MessagesInit, PipesInit
  <1>2. /\ IInv /\ MessagesOK /\ PipesOK /\ [Next]_vars
        => IInv' /\ MessagesOK' /\ PipesOK'
    BY NextOK, MessagesNext, PipesNext
  <1>3. IInv /\ MessagesOK /\ PipesOK => NothingLost
    BY MessagesFollow, PipesFollow DEF NothingLost
  <1>4. QED
    BY <1>1, <1>2, <1>3, PTL DEF Spec

=============================================================================
