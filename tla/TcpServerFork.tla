--------------------------- MODULE TcpServerFork ---------------------------
(***************************************************************************)
(* tcp_server_fork.c: a server that forks one child per accepted           *)
(* connection, with the clients of tcp_klijent.c and nc.  One client opens *)
(* at most one connection, so a client names its connection and the child  *)
(* that serves it.                                                         *)
(*                                                                         *)
(* pc, the server process:                                                 *)
(*   "start"   before listen                                               *)
(*   "test"    the condition of while (!zaustavi)                          *)
(*   "accept"  about to call accept                                        *)
(*   "blocked" inside accept, no connection there when it was called       *)
(*   "fork"    accept returned fd_klijent                                  *)
(*   "close"   the parent after fork                                       *)
(*   "done"    main returned                                               *)
(* child[c], the process that serves c: "none", "start" (fd_server still   *)
(* open), "read", "answer", "kill", "close", "exit", "zombie", "reaped".   *)
(* client[c]: "idle", "connected", "refused" (connect failed), "closed"    *)
(* (it closed or was killed), "reset" (closed, and a write to it has been  *)
(* answered by RST), "cut" (the server's side ended the connection).       *)
(*                                                                         *)
(* Signals are pending until the kernel runs their handler; a signal that  *)
(* is pending already is not queued twice.                                 *)
(***************************************************************************)
EXTENDS Integers, Sequences, FiniteSets

CONSTANTS
  Clients,
  Messages,     (* what clients write                                      *)
  Script,       (* Script[c]: the messages c writes, one write each        *)
  KRAJ,         (* a message that starts with "KRAJ"                       *)
  IZLAZIM,      (* the answer "U REDU -- IZLAZIM!"                         *)
  None,         (* fd_klijent before the first accept                      *)
  BACKLOG,
  MaxTrouble    (* bound: failing calls of accept and fork, clients killed *)
                (* by their user, Ctrl+C in the server's terminal          *)

ASSUME ScriptAssumption ==
  /\ Script \in [Clients -> Seq(Messages)]
  /\ \A c \in Clients : Script[c] # <<>>
  /\ IZLAZIM \notin Messages
  /\ None \notin Clients
ASSUME BoundsAssumption ==
  BACKLOG \in Nat /\ MaxTrouble \in Nat

VARIABLES
  pc, fd_klijent,
  zaustavi,       (* the flag the handlers of SIGTERM and SIGINT set       *)
  pending,        (* signals pending for the server                        *)
  reaping,        (* rukovatelj_sigchld is running                         *)
  backlog,        (* established connections not accepted yet              *)
  holders,        (* which of "parent", "child" has the connection open    *)
  child,
  interrupted,    (* children with SIGINT pending                          *)
  inp,            (* messages written by the client and not read yet       *)
  chunk,          (* the child's buffer                                    *)
  client, sent, answers,
  unforked,       (* accepted connections whose fork failed                *)
  accept_errors, aborts, ctrl_c,
  late            (* connections accepted with zaustavi already set        *)

flags == <<fd_klijent, zaustavi, pending, reaping>>
server == <<pc, flags>>
serving == <<child, interrupted, chunk>>
sockets == <<backlog, holders, inp, answers>>
peers == <<client, sent>>
bounds == <<unforked, accept_errors, aborts, ctrl_c, late>>
world == <<serving, sockets, peers, bounds>>
vars == <<server, world>>

StopSignals == {"SIGTERM", "SIGINT"}
Live == {"start", "read", "answer", "kill", "close", "exit"}

Init ==
  /\ pc = "start"
  /\ fd_klijent = None
  /\ zaustavi = FALSE
  /\ pending = {}
  /\ reaping = FALSE
  /\ backlog = <<>>
  /\ holders = [c \in Clients |-> {}]
  /\ child = [c \in Clients |-> "none"]
  /\ interrupted = {}
  /\ inp = [c \in Clients |-> <<>>]
  /\ chunk = [c \in Clients |-> <<>>]
  /\ client = [c \in Clients |-> "idle"]
  /\ sent = [c \in Clients |-> 0]
  /\ answers = [c \in Clients |-> <<>>]
  /\ unforked = {}
  /\ accept_errors = 0
  /\ aborts = 0
  /\ ctrl_c = 0
  /\ late = 0

(* The listening socket is open in the server, and in a child until its    *)
(* close(fd_server).  When the last copy is closed, the connections nobody *)
(* accepted are reset.                                                     *)
Listening ==
  pc \notin {"start", "done"} \/ \E c \in Clients : child[c] = "start"

Queued(c) == \E k \in 1 .. Len(backlog) : backlog[k] = c

(* The server's side of a connection is gone: nobody has it open.          *)
Dead(c) ==
  client[c] = "connected" /\ ~ Queued(c) /\ holders[c] = {}

Trouble == accept_errors + Cardinality(unforked) + aborts + ctrl_c

Gone(c) == client[c] \in {"closed", "reset"}

-----------------------------------------------------------------------------
(* The server process.  Its main program stands still while                *)
(* rukovatelj_sigchld runs on top of it.                                   *)

Step(from, to) ==
  /\ ~ reaping
  /\ pc \in from
  /\ pc' = to

(* The handlers are installed before any client can be accepted.           *)
Listen ==
  /\ Step({"start"}, "test")
  /\ UNCHANGED <<flags, world>>

(* Mutated form: without volatile the compiler tests the flag only once.   *)
TestCached ==
  /\ Step({"test"}, "accept")
  /\ UNCHANGED <<flags, world>>

Test ==
  /\ ~ zaustavi
  /\ Step({"test"}, "accept")
  /\ UNCHANGED <<flags, world>>

Block ==
  /\ Step({"accept"}, "blocked")
  /\ backlog = <<>>
  /\ UNCHANGED <<flags, world>>

Accept ==
  /\ Step({"accept", "blocked"}, "fork")
  /\ backlog # <<>>
  /\ fd_klijent' = Head(backlog)
  /\ backlog' = Tail(backlog)
  /\ holders' = [holders EXCEPT ![Head(backlog)] = {"parent"}]
  /\ late' = IF zaustavi THEN late + 1 ELSE late
  /\ UNCHANGED <<zaustavi, pending, reaping, serving, inp, answers, peers,
                 unforked, accept_errors, aborts, ctrl_c>>

(* accept fails for a reason other than a signal: perror and continue.     *)
AcceptFails ==
  /\ Step({"accept"}, "test")
  /\ Trouble < MaxTrouble
  /\ accept_errors' = accept_errors + 1
  /\ UNCHANGED <<flags, serving, sockets, peers, unforked, aborts, ctrl_c,
                 late>>

Fork ==
  /\ Step({"fork"}, "close")
  /\ child' = [child EXCEPT ![fd_klijent] = "start"]
  /\ holders' = [holders EXCEPT ![fd_klijent] = @ \cup {"child"}]
  /\ UNCHANGED <<flags, interrupted, chunk, backlog, inp, answers, peers,
                 bounds>>

(* Mutated form: fork fails and the parent forgets close(fd_klijent).      *)
ForkFailsOpen ==
  /\ Step({"fork"}, "test")
  /\ Trouble < MaxTrouble
  /\ unforked' = unforked \cup {fd_klijent}
  /\ UNCHANGED <<flags, serving, sockets, peers, accept_errors, aborts, ctrl_c,
                 late>>

ForkFails ==
  /\ Step({"fork"}, "test")
  /\ Trouble < MaxTrouble
  /\ unforked' = unforked \cup {fd_klijent}
  /\ holders' = [holders EXCEPT ![fd_klijent] = @ \ {"parent"}]
  /\ UNCHANGED <<flags, serving, backlog, inp, answers, peers, accept_errors,
                 aborts, ctrl_c, late>>

(* Mutated form: the parent keeps its copy of fd_klijent open.             *)
ParentKeeps ==
  /\ Step({"close"}, "test")
  /\ UNCHANGED <<flags, world>>

ParentCloses ==
  /\ Step({"close"}, "test")
  /\ holders' = [holders EXCEPT ![fd_klijent] = @ \ {"parent"}]
  /\ UNCHANGED <<flags, serving, backlog, inp, answers, peers, bounds>>

(* The server leaves; init inherits its children and reaps its zombies.    *)
Leave ==
  /\ zaustavi
  /\ Step({"test"}, "done")
  /\ pending' = {}
  /\ child' = [c \in Clients |->
                 IF child[c] = "zombie" THEN "reaped" ELSE child[c]]
  /\ backlog' = IF \E c \in Clients : child[c] = "start"
                THEN backlog ELSE <<>>
  /\ UNCHANGED <<fd_klijent, zaustavi, reaping, interrupted, chunk, holders,
                 inp, answers, peers, bounds>>

-----------------------------------------------------------------------------
(* Signal handlers of the server.                                          *)

Running == pc \notin {"start", "done"}

(* Mutated form: the flag is set only if the signal interrupts accept.     *)
StopOnlyInAccept(s) ==
  /\ Running
  /\ s \in pending
  /\ pending' = pending \ {s}
  /\ zaustavi' = (zaustavi \/ (pc = "blocked" /\ ~ reaping))
  /\ pc' = IF pc = "blocked" /\ ~ reaping THEN "test" ELSE pc
  /\ UNCHANGED <<fd_klijent, reaping, world>>

(* rukovatelj_zaustavi.  A signal that finds the server blocked in accept  *)
(* makes it return EINTR.  One that arrives before the call, or on top of  *)
(* rukovatelj_sigchld, whose SA_RESTART has accept called again, does not. *)
rukovatelj_zaustavi(s) ==
  /\ Running
  /\ s \in pending
  /\ pending' = pending \ {s}
  /\ zaustavi' = TRUE
  /\ pc' = IF pc = "blocked" /\ ~ reaping THEN "test" ELSE pc
  /\ UNCHANGED <<fd_klijent, reaping, world>>

(* rukovatelj_sigchld, with SIGCHLD blocked while it runs.                 *)
EnterSigchld ==
  /\ Running
  /\ ~ reaping
  /\ "SIGCHLD" \in pending
  /\ pending' = pending \ {"SIGCHLD"}
  /\ reaping' = TRUE
  /\ UNCHANGED <<pc, fd_klijent, zaustavi, world>>

(* waitpid(-1, NULL, WNOHANG) > 0                                          *)
Reap(c) ==
  /\ reaping
  /\ child[c] = "zombie"
  /\ child' = [child EXCEPT ![c] = "reaped"]
  /\ UNCHANGED <<server, interrupted, chunk, sockets, peers, bounds>>

(* Mutated form: one waitpid per signal, an if in place of the while.      *)
ReapSome ==
  /\ reaping
  /\ reaping' = FALSE
  /\ pc' = IF pc = "blocked" THEN "accept" ELSE pc
  /\ UNCHANGED <<fd_klijent, zaustavi, pending, world>>

(* waitpid finds nobody; an interrupted accept is called again.            *)
ReapEnd ==
  /\ reaping
  /\ \A c \in Clients : child[c] # "zombie"
  /\ reaping' = FALSE
  /\ pc' = IF pc = "blocked" THEN "accept" ELSE pc
  /\ UNCHANGED <<fd_klijent, zaustavi, pending, world>>

-----------------------------------------------------------------------------
(* The child that serves c: posluzi_klijenta and lines 124-130.            *)

Child(c, from, to) ==
  /\ child[c] = from
  /\ child' = [child EXCEPT ![c] = to]

DropListener(c) ==
  /\ Child(c, "start", "read")
  /\ backlog' = IF pc = "done" /\ \A d \in Clients \ {c} : child[d] # "start"
                THEN <<>> ELSE backlog
  /\ UNCHANGED <<server, interrupted, chunk, holders, inp, answers, peers,
                 bounds>>

(* Mutated form: the end of the stream (read returns 0) taken for data.    *)
ReadOrNothing(c) ==
  /\ Child(c, "read", "answer")
  /\ \E n \in 0 .. Len(inp[c]) :
       /\ n = 0 => inp[c] = <<>> /\ Gone(c)
       /\ chunk' = [chunk EXCEPT ![c] = SubSeq(inp[c], 1, n)]
       /\ inp' = [inp EXCEPT ![c] = SubSeq(inp[c], n + 1, Len(inp[c]))]
  /\ UNCHANGED <<server, interrupted, backlog, holders, answers, peers,
                 bounds>>

(* TCP keeps no message boundaries: one read returns what has arrived, one *)
(* message or several of them.                                             *)
Read(c) ==
  /\ Child(c, "read", "answer")
  /\ \E n \in 1 .. Len(inp[c]) :
       /\ chunk' = [chunk EXCEPT ![c] = SubSeq(inp[c], 1, n)]
       /\ inp' = [inp EXCEPT ![c] = SubSeq(inp[c], n + 1, Len(inp[c]))]
  /\ UNCHANGED <<server, interrupted, backlog, holders, answers, peers,
                 bounds>>

(* The client closed and all it wrote has been read: read returns 0, or -1 *)
(* after a reset.                                                          *)
ReadEnd(c) ==
  /\ Child(c, "read", "close")
  /\ Gone(c)
  /\ inp[c] = <<>>
  /\ UNCHANGED <<server, interrupted, chunk, sockets, peers, bounds>>

(* A write that finds the client gone is lost and draws a RST; a later one *)
(* is lost too, or ends in BrokenPipe.                                     *)
Write(c, reply) ==
  /\ answers' = IF Gone(c) THEN answers
                ELSE [answers EXCEPT ![c] = @ \o reply]
  /\ client' = [client EXCEPT ![c] = IF Gone(c) THEN "reset" ELSE @]
  /\ chunk' = [chunk EXCEPT ![c] = <<>>]

(* Mutated form: KRAJ is looked for anywhere in the buffer (strstr).       *)
EndsAnywhere(c) == \E k \in 1 .. Len(chunk[c]) : chunk[c][k] = KRAJ

(* strncmp(buffer, "KRAJ", 4) == 0                                         *)
EndsServer(c) == Head(chunk[c]) = KRAJ

AnswerEnd(c) ==
  /\ Child(c, "answer", "kill")
  /\ EndsServer(c)
  /\ Write(c, <<IZLAZIM>>)
  /\ UNCHANGED <<server, interrupted, backlog, holders, inp, sent, bounds>>

Echo(c) ==
  /\ Child(c, "answer", "read")
  /\ ~ EndsServer(c)
  /\ Write(c, chunk[c])
  /\ UNCHANGED <<server, interrupted, backlog, holders, inp, sent, bounds>>

(* The process ends: a zombie of the server, or reaped by init at once.    *)
(* What the client wrote and nobody read is lost with the connection.      *)
Ends(c) ==
  /\ child' = [child EXCEPT ![c] = IF pc = "done" THEN "reaped" ELSE "zombie"]
  /\ pending' = IF pc = "done" THEN pending ELSE pending \cup {"SIGCHLD"}
  /\ interrupted' = interrupted \ {c}
  /\ holders' = [holders EXCEPT ![c] = @ \ {"child"}]
  /\ inp' = [inp EXCEPT ![c] = <<>>]
  /\ chunk' = [chunk EXCEPT ![c] = <<>>]

(* A write after the RST has arrived: SIGPIPE kills the child.             *)
BrokenPipe(c) ==
  /\ child[c] = "answer"
  /\ client[c] = "reset"
  /\ Ends(c)
  /\ UNCHANGED <<pc, fd_klijent, zaustavi, reaping, backlog, answers, peers,
                 bounds>>

(* Mutated form: kill(0, SIGTERM), the whole process group.                *)
KillGroup(c) ==
  /\ Child(c, "kill", "close")
  /\ pending' = IF pc = "done" THEN pending ELSE pending \cup {"SIGTERM"}
  /\ interrupted' = interrupted \cup {d \in Clients : child[d] \in Live}
  /\ UNCHANGED <<pc, fd_klijent, zaustavi, reaping, chunk, sockets, peers,
                 bounds>>

(* kill(getppid(), SIGTERM).  When the server has left, the parent is init.*)
Kill(c) ==
  /\ Child(c, "kill", "close")
  /\ pending' = IF pc = "done" THEN pending ELSE pending \cup {"SIGTERM"}
  /\ UNCHANGED <<pc, fd_klijent, zaustavi, reaping, interrupted, chunk,
                 sockets, peers, bounds>>

ChildCloses(c) ==
  /\ Child(c, "close", "exit")
  /\ holders' = [holders EXCEPT ![c] = @ \ {"child"}]
  /\ UNCHANGED <<server, interrupted, chunk, backlog, inp, answers, peers,
                 bounds>>

Exit(c) ==
  /\ child[c] = "exit"
  /\ Ends(c)
  /\ UNCHANGED <<pc, fd_klijent, zaustavi, reaping, backlog, answers, peers,
                 bounds>>

(* The child inherited rukovatelj_zaustavi: SIGINT ends a read that waits  *)
(* for data (no SA_RESTART) and changes nothing elsewhere, for a child     *)
(* never looks at its zaustavi.                                            *)
ChildInterrupted(c) ==
  /\ c \in interrupted
  /\ interrupted' = interrupted \ {c}
  /\ \/ UNCHANGED child
     \/ Child(c, "read", "close") /\ inp[c] = <<>>
  /\ UNCHANGED <<server, chunk, sockets, peers, bounds>>

-----------------------------------------------------------------------------
(* The clients and the users.                                              *)

Connect(c) ==
  /\ client[c] = "idle"
  /\ \/ /\ Listening
        /\ Len(backlog) <= BACKLOG
        /\ client' = [client EXCEPT ![c] = "connected"]
        /\ backlog' = Append(backlog, c)
     \/ /\ ~ Listening
        /\ client' = [client EXCEPT ![c] = "refused"]
        /\ UNCHANGED backlog
  /\ UNCHANGED <<server, serving, holders, inp, answers, sent, bounds>>

Send(c) ==
  /\ client[c] = "connected"
  /\ ~ Dead(c)
  /\ sent[c] < Len(Script[c])
  /\ inp' = [inp EXCEPT ![c] = Append(@, Script[c][sent[c] + 1])]
  /\ sent' = [sent EXCEPT ![c] = @ + 1]
  /\ UNCHANGED <<server, serving, backlog, holders, answers, client, bounds>>

(* All messages written and at least one answer read.                      *)
Close(c) ==
  /\ client[c] = "connected"
  /\ sent[c] = Len(Script[c])
  /\ answers[c] # <<>>
  /\ client' = [client EXCEPT ![c] = "closed"]
  /\ UNCHANGED <<server, serving, sockets, sent, bounds>>

(* read returns 0 or an error, or write fails.                             *)
CutOff(c) ==
  /\ Dead(c)
  /\ client' = [client EXCEPT ![c] = "cut"]
  /\ UNCHANGED <<server, serving, sockets, sent, bounds>>

Abort(c) ==
  /\ client[c] = "connected"
  /\ Trouble < MaxTrouble
  /\ aborts' = aborts + 1
  /\ client' = [client EXCEPT ![c] = "closed"]
  /\ UNCHANGED <<server, serving, sockets, sent, unforked, accept_errors,
                 ctrl_c, late>>

(* The terminal sends SIGINT to the server and to every living child.      *)
CtrlC ==
  /\ Running
  /\ Trouble < MaxTrouble
  /\ ctrl_c' = ctrl_c + 1
  /\ pending' = pending \cup {"SIGINT"}
  /\ interrupted' = interrupted \cup {c \in Clients : child[c] \in Live}
  /\ UNCHANGED <<pc, fd_klijent, zaustavi, reaping, child, chunk, sockets,
                 peers, unforked, accept_errors, aborts, late>>

-----------------------------------------------------------------------------
Server ==
  \/ Listen \/ Test \/ Block \/ Accept \/ AcceptFails
  \/ Fork \/ ForkFails \/ ParentCloses \/ Leave
  \/ \E s \in StopSignals : rukovatelj_zaustavi(s)
  \/ EnterSigchld \/ (\E c \in Clients : Reap(c)) \/ ReapEnd

posluzi_klijenta(c) ==
  \/ DropListener(c) \/ Read(c) \/ ReadEnd(c)
  \/ AnswerEnd(c) \/ Echo(c) \/ BrokenPipe(c) \/ Kill(c)
  \/ ChildCloses(c) \/ Exit(c) \/ ChildInterrupted(c)

Talk(c) == Send(c) \/ Close(c) \/ CutOff(c)

Next ==
  \/ Server
  \/ \E c \in Clients : posluzi_klijenta(c)
  \/ \E c \in Clients : Connect(c) \/ Talk(c) \/ Abort(c)
  \/ CtrlC

(* Fairness: the kernel runs every process that can run and delivers its   *)
(* signals.  Whether a client is ever started, killed, or Ctrl+C pressed   *)
(* is the users' choice.                                                   *)
Fairness ==
  /\ WF_vars(Server)
  /\ \A c \in Clients : WF_vars(posluzi_klijenta(c)) /\ WF_vars(Talk(c))

Spec == Init /\ [][Next]_vars /\ Fairness

-----------------------------------------------------------------------------
(* Properties                                                              *)

ChildStates == Live \cup {"none", "zombie", "reaped"}
ClientStates == {"idle", "connected", "refused", "closed", "reset", "cut"}

(* The client was told IZLAZIM, and its child has gone on to send SIGTERM. *)
Ordered(c) ==
  /\ answers[c] # <<>>
  /\ answers[c][Len(answers[c])] = IZLAZIM
  /\ child[c] # "kill"

(* Every variable has its type, and a child that answers has read at least *)
(* one message (read returned more than 0).                                *)
TypeOK ==
  /\ pc \in {"start", "test", "accept", "blocked", "fork", "close", "done"}
  /\ fd_klijent \in Clients \cup {None}
  /\ pc \in {"fork", "close"} => fd_klijent \in Clients
  /\ zaustavi \in BOOLEAN
  /\ pending \subseteq StopSignals \cup {"SIGCHLD"}
  /\ reaping \in BOOLEAN
  /\ backlog \in Seq(Clients)
  /\ holders \in [Clients -> SUBSET {"parent", "child"}]
  /\ child \in [Clients -> ChildStates]
  /\ interrupted \subseteq Clients
  /\ inp \in [Clients -> Seq(Messages)]
  /\ chunk \in [Clients -> Seq(Messages)]
  /\ \A c \in Clients : child[c] = "answer" => chunk[c] # <<>>
  /\ client \in [Clients -> ClientStates]
  /\ sent \in [Clients -> Nat]
  /\ answers \in [Clients -> Seq(Messages \cup {IZLAZIM})]
  /\ unforked \subseteq Clients
  /\ accept_errors \in Nat /\ aborts \in Nat /\ ctrl_c \in Nat
  /\ late \in Nat

(* SIGCHLD is not queued: two children may end behind one pending signal.  *)
(* Still no zombie is forgotten: while one exists, SIGCHLD is pending or   *)
(* the handler, which reaps until nobody is left, is running.              *)
NoForgottenZombie ==
  (\E c \in Clients : child[c] = "zombie") => "SIGCHLD" \in pending \/ reaping

(* The server has at most the connection it is handing over open: no copy  *)
(* of fd_klijent outlives its round of the loop, whether fork succeeds or  *)
(* fails, so a client sees the end of its connection when the child ends.  *)
OneConnectionInHand ==
  \A c \in Clients :
    "parent" \in holders[c] => pc \in {"fork", "close"} /\ fd_klijent = c

(* What is left of a conversation when processes, sockets and signals are  *)
(* taken away.                                                             *)
Phase(c) ==
  CASE client[c] \in {"idle", "refused"} -> "away"
    [] client[c] = "connected"           -> "talks"
    [] client[c] = "cut"                 -> "cut"
    [] OTHER                             -> "left"

Service == INSTANCE EchoService WITH
  phase       <- [c \in Clients |-> Phase(c)],
  said        <- sent,
  heard       <- answers,
  unlucky     <- unforked,
  interrupted <- ctrl_c > 0

(* The server implements the echo service: whatever reads split or join    *)
(* and signals interrupt, a client hears its messages in order and nothing *)
(* after "U REDU -- IZLAZIM!", and its conversation is ended only for a    *)
(* reason: its own KRAJ, Ctrl+C, or, if it has heard nothing yet, a fork   *)
(* that failed or the KRAJ of somebody else.                               *)
ImplementsService == Service!Spec

(* An order to stop is never dropped: once a child has sent SIGTERM, or    *)
(* the user pressed Ctrl+C, the signal is pending, the flag is set or the  *)
(* server has left.                                                        *)
StopIsRemembered ==
  (ctrl_c > 0 \/ \E c \in Clients : Ordered(c)) =>
    pc = "done" \/ zaustavi \/ pending \cap StopSignals # {}

(* Nobody is dropped without a reason.  A connection a child took over is  *)
(* ended by the server only after its own KRAJ or after Ctrl+C; one that   *)
(* never got a child, only because fork failed or the server is leaving.   *)
NoSilentDrop ==
  \A c \in Clients : client[c] = "cut" =>
    \/ child[c] = "none" /\ (c \in unforked \/ zaustavi)
    \/ ctrl_c > 0
    \/ answers[c] # <<>> /\ answers[c][Len(answers[c])] = IZLAZIM

(* Once the flag is set the server takes at most one more connection.      *)
AtMostOneMore == late <= 1

(* Every connected client is done with the server at some time, as long as *)
(* processes run and signals are delivered.                                *)
EveryConversationEnds ==
  \A c \in Clients : (client[c] = "connected") ~> (client[c] # "connected")

(* The order to stop reaches the accept loop: the claim of the header      *)
(* comment, of the comment on the handlers and of the chapter.             *)
StopsWhenAsked == zaustavi ~> (pc = "done")
=============================================================================
