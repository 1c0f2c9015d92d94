----------------------------- MODULE EchoServer -----------------------------
(***************************************************************************)
(* The echo servers of chapter 9 that serve one client after the other,    *)
(* and their clients: tcp_server.c (with tcp_klijent.c), uds_server.c and  *)
(* uds_klijent.c, udp_server.c and udp_klijent.c.  The server takes one    *)
(* message from a client, sends it back and ends the conversation; after a *)
(* message that begins with KRAJ it says good-bye and leaves.              *)
(*                                                                         *)
(* transport tells the programs apart.  A message is a sequence of pieces  *)
(* that TCP may deliver one by one; UNIX sockets and datagrams keep it     *)
(* whole.  The empty message is a client that says nothing: an nc session  *)
(* without input, or the argument "".                                      *)
(*                                                                         *)
(* server[s]: "off", "unlink", "bind", "listen", "loop" (in accept or      *)
(* recvfrom), "read", "write", "close", "exit" (before close(fd_server)),  *)
(* "tidy" (before the last unlink); "done", "failed", "killed".            *)
(* client[c]: "off", "write", "read"; "done", "refused", "cut", "killed".  *)
(***************************************************************************)
EXTENDS Integers, Sequences, SequencesExt

CONSTANTS
  Servers,      (* server processes, started and ended in any order        *)
  Clients,
  Pieces,       (* the pieces messages are made of                         *)
  Message,      (* Message[c]: the argument of client c                    *)
  Transports,   (* which of "tcp", "uds", "udp"                            *)
  Backlog,      (* the 5 of listen                                         *)
  MaxTrouble,   (* bound: kills, failures, datagrams lost or doubled       *)
  None

KRAJ == <<"KR", "AJ">>
Goodbye == <<"U REDU">>

ASSUME MessageAssumption == Message \in [Clients -> Seq(Pieces)]
ASSUME PieceAssumption == Goodbye \in Seq(Pieces)
ASSUME TransportAssumption == Transports \subseteq {"tcp", "uds", "udp"}
ASSUME BoundsAssumption == Backlog \in Nat /\ MaxTrouble \in Nat
ASSUME NoneAssumption == None \notin Servers \cup Clients

VARIABLES
  transport,    (* never changes                                           *)
  server,
  address,      (* whose socket the port or the path names, or None        *)
  queue,        (* connections that wait in the backlog of a server        *)
  peer,         (* fd_klijent or adresa_klijenta of a server, or None      *)
  got,          (* its buffer; <<>> once it has been written               *)
  kraj,         (* the servers that have set kraj                          *)
  alone,        (* servers that have met no other one (history)            *)
  client,
  up,           (* under way from a client to the server                   *)
  down,         (* under way to the client                                 *)
  closed,       (* clients whose connection the server has closed          *)
  answer,       (* what a client prints; <<>> before or without an answer  *)
  trouble

sVars == <<server, address, queue, peer, got, kraj, alone>>
cVars == <<client, up, down, closed, answer>>
vars == <<transport, sVars, cVars, trouble>>

Init ==
  /\ transport \in Transports
  /\ server = [s \in Servers |-> "off"]
  /\ address = None
  /\ queue = [s \in Servers |-> <<>>]
  /\ peer = [s \in Servers |-> None]
  /\ got = [s \in Servers |-> <<>>]
  /\ kraj = {}
  /\ alone = {}
  /\ client = [c \in Clients |-> "off"]
  /\ up = [c \in Clients |-> <<>>]
  /\ down = [c \in Clients |-> <<>>]
  /\ closed = {}
  /\ answer = [c \in Clients |-> <<>>]
  /\ trouble = 0

Stream == transport # "udp"
Over(s) == server[s] \in {"done", "failed", "killed"}
Alive(s) == server[s] # "off" /\ ~ Over(s)
Serving(s) == server[s] \in {"loop", "read", "write", "close"}
Left(c) == client[c] \in {"done", "refused", "cut", "killed"}

Go(s, from, to) == server[s] = from /\ server' = [server EXCEPT ![s] = to]
Trouble == trouble < MaxTrouble /\ trouble' = trouble + 1

-----------------------------------------------------------------------------
(* The server: start                                                       *)

Start(s) ==
  /\ Go(s, "off", IF transport = "uds" THEN "unlink" ELSE "bind")
  /\ alone' = IF \E t \in Servers : Alive(t) THEN {} ELSE alone \cup {s}
  /\ UNCHANGED <<transport, address, queue, peer, got, kraj, cVars, trouble>>

(* Mutated form: the path is left as an earlier server left it.            *)
UnlinkNothing(s) ==
  /\ Go(s, "unlink", "bind")
  /\ UNCHANGED <<transport, address, queue, peer, got, kraj, alone, cVars,
                 trouble>>

(* The path goes, whosever socket it names.                                *)
Unlink(s) ==
  /\ Go(s, "unlink", "bind")
  /\ address' = None
  /\ UNCHANGED <<transport, queue, peer, got, kraj, alone, cVars, trouble>>

Bind(s) ==
  /\ address = None
  /\ Go(s, "bind", IF Stream THEN "listen" ELSE "loop")
  /\ address' = s
  /\ UNCHANGED <<transport, queue, peer, got, kraj, alone, cVars, trouble>>

BindFails(s) ==
  /\ address # None
  /\ Go(s, "bind", "failed")
  /\ UNCHANGED <<transport, address, queue, peer, got, kraj, alone, cVars,
                 trouble>>

Listen(s) ==
  /\ Go(s, "listen", "loop")
  /\ UNCHANGED <<transport, address, queue, peer, got, kraj, alone, cVars,
                 trouble>>

-----------------------------------------------------------------------------
(* The server: while (!kraj)                                               *)

Accept(s) ==
  /\ Stream
  /\ queue[s] # <<>>
  /\ Go(s, "loop", "read")
  /\ peer' = [peer EXCEPT ![s] = Head(queue[s])]
  /\ queue' = [queue EXCEPT ![s] = Tail(@)]
  /\ UNCHANGED <<transport, address, got, kraj, alone, cVars, trouble>>

(* Mutated form: without the continue.                                     *)
AcceptFailsOn(s) ==
  /\ Stream
  /\ queue[s] # <<>>
  /\ Go(s, "loop", "read")
  /\ Trouble
  /\ closed' = closed \cup {Head(queue[s])}
  /\ queue' = [queue EXCEPT ![s] = Tail(@)]
  /\ UNCHANGED <<transport, address, peer, got, kraj, alone, client, up, down,
                 answer>>

(* accept reports that the next connection was aborted: continue.          *)
AcceptFails(s) ==
  /\ Stream
  /\ server[s] = "loop" /\ queue[s] # <<>>
  /\ Trouble
  /\ closed' = closed \cup {Head(queue[s])}
  /\ queue' = [queue EXCEPT ![s] = Tail(@)]
  /\ UNCHANGED <<transport, server, address, peer, got, kraj, alone, client,
                 up, down, answer>>

(* What one read can return of the pieces on their way.                    *)
Portion(data) ==
  {SubSeq(data, 1, n) : n \in IF transport = "tcp" THEN 1 .. Len(data)
                              ELSE {Len(data)} \ {0}}

(* Mutated form: the server waits until the client has closed its side.    *)
ReadToEnd(s) ==
  /\ server[s] = "read" /\ Left(peer[s])
  /\ Go(s, "read", IF up[peer[s]] = <<>> THEN "close" ELSE "write")
  /\ got' = [got EXCEPT ![s] = up[peer[s]]]
  /\ up' = [up EXCEPT ![peer[s]] = <<>>]
  /\ UNCHANGED <<transport, address, queue, peer, kraj, alone, client, down,
                 closed, answer, trouble>>

(* n > 0, or n = 0 because the client has gone.                            *)
Read(s) ==
  /\ \/ /\ Go(s, "read", "write")
        /\ \E data \in Portion(up[peer[s]]) :
             /\ got' = [got EXCEPT ![s] = data]
             /\ up' = [up EXCEPT
                         ![peer[s]] = SubSeq(@, Len(data) + 1, Len(@))]
     \/ /\ Go(s, "read", "close")
        /\ up[peer[s]] = <<>> /\ Left(peer[s])
        /\ UNCHANGED <<got, up>>
  /\ UNCHANGED <<transport, address, queue, peer, kraj, alone, client, down,
                 closed, answer, trouble>>

(* A datagram; it may come a second time.                                  *)
RecvFrom(s) ==
  /\ ~ Stream
  /\ Go(s, "loop", "write")
  /\ \E c \in Clients :
       /\ up[c] # <<>>
       /\ peer' = [peer EXCEPT ![s] = c]
       /\ got' = [got EXCEPT ![s] = up[c]]
       /\ \/ up' = [up EXCEPT ![c] = <<>>] /\ UNCHANGED trouble
          \/ Trouble /\ UNCHANGED up
  /\ UNCHANGED <<transport, address, queue, kraj, alone, client, down, closed,
                 answer>>

(* strncmp(buffer, "KRAJ", 4) == 0                                         *)
LastWord(data) == IsPrefix(KRAJ, data)

(* Mutated form: without the else, the good-bye is followed by the echo.   *)
WriteBoth(s) ==
  /\ Go(s, "write", IF Stream THEN "close"
                    ELSE IF LastWord(got[s]) THEN "exit" ELSE "loop")
  /\ ~ (transport = "uds" /\ Left(peer[s]))
  /\ kraj' = IF LastWord(got[s]) THEN kraj \cup {s} ELSE kraj
  /\ down' = [down EXCEPT
        ![peer[s]] = IF LastWord(got[s]) THEN Goodbye \o got[s] ELSE got[s]]
  /\ peer' = IF Stream THEN peer ELSE [peer EXCEPT ![s] = None]
  /\ got' = [got EXCEPT ![s] = <<>>]
  /\ UNCHANGED <<transport, address, queue, alone, client, up, closed, answer,
                 trouble>>

(* The answer goes to whoever sent the message.  A write to a TCP client   *)
(* that has gone is lost.                                                  *)
Write(s) ==
  /\ Go(s, "write", IF Stream THEN "close"
                    ELSE IF LastWord(got[s]) THEN "exit" ELSE "loop")
  /\ ~ (transport = "uds" /\ Left(peer[s]))
  /\ kraj' = IF LastWord(got[s]) THEN kraj \cup {s} ELSE kraj
  /\ down' = [down EXCEPT
                ![peer[s]] = IF LastWord(got[s]) THEN Goodbye ELSE got[s]]
  /\ peer' = IF Stream THEN peer ELSE [peer EXCEPT ![s] = None]
  /\ got' = [got EXCEPT ![s] = <<>>]
  /\ UNCHANGED <<transport, address, queue, alone, client, up, closed, answer,
                 trouble>>

(* Mutated form: one round and no while.                                   *)
CloseOnce(s) ==
  /\ Go(s, "close", "exit")
  /\ closed' = closed \cup {peer[s]}
  /\ peer' = [peer EXCEPT ![s] = None]
  /\ UNCHANGED <<transport, address, queue, got, kraj, alone, client, up, down,
                 answer, trouble>>

(* close(fd_klijent).  TCP resets the connection if a part of the message  *)
(* has not been read, and the answer may not get through.                  *)
Close(s) ==
  /\ Go(s, "close", IF s \in kraj THEN "exit" ELSE "loop")
  /\ closed' = closed \cup {peer[s]}
  /\ \/ UNCHANGED down
     \/ /\ transport = "tcp" /\ up[peer[s]] # <<>>
        /\ down' = [down EXCEPT ![peer[s]] = <<>>]
  /\ peer' = [peer EXCEPT ![s] = None]
  /\ UNCHANGED <<transport, address, queue, got, kraj, alone, client, up,
                 answer, trouble>>

-----------------------------------------------------------------------------
(* The server: end                                                         *)

Connections(s) == {peer[s]} \cup ToSet(queue[s])

(* What the kernel closes with a process.  The port is free again; the     *)
(* path stays in the file system.                                          *)
Gives(s) ==
  /\ closed' = closed \cup (Connections(s) \cap Clients)
  /\ queue' = [queue EXCEPT ![s] = <<>>]
  /\ peer' = [peer EXCEPT ![s] = None]
  /\ got' = [got EXCEPT ![s] = <<>>]
  /\ address' = IF address = s /\ transport # "uds" THEN None ELSE address

CloseListener(s) ==
  /\ Go(s, "exit", IF transport = "uds" THEN "tidy" ELSE "done")
  /\ Gives(s)
  /\ UNCHANGED <<transport, kraj, alone, client, up, down, answer,
                 trouble>>

(* Again the path goes, whosever socket it names.                          *)
Tidy(s) ==
  /\ Go(s, "tidy", "done")
  /\ address' = None
  /\ UNCHANGED <<transport, queue, peer, got, kraj, alone, cVars, trouble>>

(* A UNIX socket whose other end is closed raises SIGPIPE at once.         *)
BrokenPipe(s) ==
  /\ transport = "uds" /\ server[s] = "write" /\ Left(peer[s])
  /\ Go(s, "write", "killed")
  /\ Gives(s)
  /\ UNCHANGED <<transport, kraj, alone, client, up, down, answer,
                 trouble>>

(* Ctrl+C in the terminal of the server, or a power cut.                   *)
Kill(s) ==
  /\ Alive(s)
  /\ server' = [server EXCEPT ![s] = "killed"]
  /\ Gives(s)
  /\ Trouble
  /\ UNCHANGED <<transport, kraj, alone, client, up, down, answer>>

-----------------------------------------------------------------------------
(* The clients                                                             *)

Turns(c, from, to) == client[c] = from /\ client' = [client EXCEPT ![c] = to]

(* connect waits while the backlog is full.                                *)
Connect(c) ==
  /\ Stream
  /\ Turns(c, "off", "write")
  /\ address # None /\ Serving(address)
  /\ Len(queue[address]) <= Backlog
  /\ queue' = [queue EXCEPT ![address] = Append(@, c)]
  /\ UNCHANGED <<transport, server, address, peer, got, kraj, alone, up, down,
                 closed, answer, trouble>>

ConnectFails(c) ==
  /\ Stream
  /\ Turns(c, "off", "refused")
  /\ IF address = None THEN TRUE ELSE ~ Serving(address)
  /\ UNCHANGED <<transport, sVars, up, down, closed, answer, trouble>>

(* write, or sendto of a client that needs no connection.                  *)
Send(c) ==
  /\ Turns(c, IF Stream THEN "write" ELSE "off", "read")
  /\ c \notin closed
  /\ up' = [up EXCEPT ![c] = Message[c]]
  /\ UNCHANGED <<transport, sVars, down, closed, answer, trouble>>

(* The one read of the answer, or of the end of the connection.            *)
Receive(c) ==
  /\ \/ /\ Turns(c, "read", "done")
        /\ \E data \in Portion(down[c]) : answer' = [answer EXCEPT ![c] = data]
     \/ /\ Turns(c, "read", "cut")
        /\ c \in closed /\ down[c] = <<>>
        /\ UNCHANGED answer
     \/ /\ Turns(c, "write", "cut")
        /\ c \in closed
        /\ UNCHANGED answer
  /\ UNCHANGED <<transport, sVars, up, down, closed, trouble>>

(* The user ends the client.                                               *)
Abort(c) ==
  /\ client[c] \in {"write", "read"}
  /\ client' = [client EXCEPT ![c] = "killed"]
  /\ Trouble
  /\ UNCHANGED <<transport, sVars, up, down, closed, answer>>

-----------------------------------------------------------------------------
(* Datagrams                                                               *)

Lose(c) ==
  /\ ~ Stream
  /\ Trouble
  /\ \/ up[c] # <<>> /\ up' = [up EXCEPT ![c] = <<>>] /\ UNCHANGED down
     \/ down[c] # <<>> /\ down' = [down EXCEPT ![c] = <<>>] /\ UNCHANGED up
  /\ UNCHANGED <<transport, sVars, client, closed, answer>>

(* Nobody listens on the port: the datagram is thrown away.                *)
Discard(c) ==
  /\ ~ Stream
  /\ address = None /\ up[c] # <<>>
  /\ up' = [up EXCEPT ![c] = <<>>]
  /\ UNCHANGED <<transport, sVars, client, down, closed, answer, trouble>>

-----------------------------------------------------------------------------
Serve(s) ==
  \/ Unlink(s) \/ Bind(s) \/ BindFails(s) \/ Listen(s)
  \/ Accept(s) \/ Read(s) \/ RecvFrom(s) \/ Write(s) \/ BrokenPipe(s) \/ Close(s)
  \/ CloseListener(s) \/ Tidy(s)

Next ==
  \/ \E s \in Servers : Start(s) \/ Serve(s) \/ AcceptFails(s) \/ Kill(s)
  \/ \E c \in Clients : \/ Connect(c) \/ ConnectFails(c) \/ Send(c) \/ Receive(c)
                        \/ Abort(c) \/ Lose(c) \/ Discard(c)

(* Fairness: a server runs, and a client that has connected goes on.       *)
(* Nobody has to start a server or a client, or to give up waiting.        *)
Spec ==
  /\ Init /\ [][Next]_vars
  /\ \A s \in Servers : WF_vars(Serve(s))
  /\ \A c \in Clients : /\ WF_vars(client[c] = "write" /\ Send(c))
                        /\ WF_vars(Receive(c)) /\ WF_vars(Discard(c))

-----------------------------------------------------------------------------
(* Properties                                                              *)

(* Every variable has its type; a server holds a client from accept or     *)
(* recvfrom to close, and the backlog keeps its bound.                     *)
TypeOK ==
  /\ transport \in Transports
  /\ server \in [Servers -> {"off", "unlink", "bind", "listen", "loop", "read",
                             "write", "close", "exit", "tidy", "done",
                             "failed", "killed"}]
  /\ address \in Servers \cup {None}
  /\ queue \in [Servers -> Seq(Clients)]
  /\ peer \in [Servers -> Clients \cup {None}]
  /\ \A s \in Servers :
       /\ Len(queue[s]) <= Backlog + 1
       /\ (server[s] \in {"read", "write", "close"}) = (peer[s] # None)
  /\ got \in [Servers -> Seq(Pieces)]
  /\ kraj \subseteq Servers /\ alone \subseteq Servers
  /\ client \in [Clients -> {"off", "write", "read", "done", "refused", "cut",
                             "killed"}]
  /\ up \in [Clients -> Seq(Pieces)]
  /\ down \in [Clients -> Seq(Pieces)]
  /\ closed \subseteq Clients
  /\ answer \in [Clients -> Seq(Pieces)]
  /\ trouble \in 0 .. MaxTrouble

(* Whatever is lost, doubled, cut short or restarted, an answer is about   *)
(* the client's own message: its beginning, or the good-bye if it was      *)
(* KRAJ.  Where messages stay whole, so do the answers.                    *)
AnswersMatch ==
  \A c \in Clients :
    \/ answer[c] \in {<<>>, IF LastWord(Message[c]) THEN Goodbye ELSE Message[c]}
    \/ transport = "tcp" /\ IsPrefix(answer[c], Message[c])

(* The chapter unlinks the path at both ends of uds_server.c, so that a    *)
(* server starts after a crash and leaves nothing behind.  That holds for  *)
(* a server that never meets another one: its bind succeeds whatever an    *)
(* earlier crash left, the address is its own as long as it serves, and    *)
(* is gone when it leaves.  (Two servers take the path from each other.)   *)
AloneKeepsAddress ==
  \A s \in alone : /\ server[s] # "failed"
                   /\ Serving(s) => address = s
                   /\ server[s] = "done" => address # s

(* A server leaves the loop only because a client asked for it.            *)
LeavesOnRequest ==
  \A s \in Servers : (server[s] \in {"exit", "tidy", "done"}) =>
    \E c \in Clients : LastWord(Message[c]) /\ client[c] \notin {"off", "write"}

(* The connection in front of c says nothing and is not given up.          *)
HeldUp(c) ==
  \E s \in Servers : /\ c \in ToSet(queue[s]) \cup {peer[s]}
                     /\ peer[s] # None /\ Message[peer[s]] = <<>>

(* The conversation of every client ends, unless a silent client is being  *)
(* served before it, or, with datagrams, neither its question nor an       *)
(* answer is under way any more.                                           *)
EveryClientEnds ==
  \A c \in Clients : (client[c] \in {"write", "read"}) ~>
    \/ Left(c) \/ HeldUp(c)
    \/ ~ Stream /\ up[c] = <<>> /\ down[c] = <<>>
=============================================================================
