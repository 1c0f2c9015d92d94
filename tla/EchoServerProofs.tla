-------------------------- MODULE EchoServerProofs --------------------------
(***************************************************************************)
(* What the echo servers of chapter 9 guarantee for every number of        *)
(* servers and clients, every message, every backlog and every bound on    *)
(* crashes, failures and datagrams lost or doubled.  TypeOK and            *)
(*   Ownership    a server that has met no other one is alone while it     *)
(*                lives, and the address is its own                        *)
(* give AloneKeepsAddress; TypeOK and Conversation, which joins            *)
(*   OnePlace     a connection is in one backlog or in the hand of one     *)
(*                server, once, and never comes back                       *)
(*   Said         what is under way comes from a client that has spoken    *)
(*   Unread       what waits in a backlog has not been read in part: so    *)
(*                the one read of the server starts at the beginning       *)
(*   Fitting      what is read, under way back or printed belongs to the   *)
(*                message of its client                                    *)
(*   Asked        who has left the loop, or is about to, was asked to      *)
(* give AnswersMatch and LeavesOnRequest.                                  *)
(***************************************************************************)
EXTENDS EchoServer, SequenceTheorems, TLAPS

(* The groups of variables that frame conditions name.                     *)
USE DEF vars, sVars, cVars

(* What one read returns is a sequence of pieces, and so is what it leaves.*)
LEMMA PortionType ==
  ASSUME NEW data \in Seq(Pieces), NEW part \in Portion(data)
  PROVE  part \in Seq(Pieces) /\ Len(part) \in 1 .. Len(data)
<1>1. PICK n \in 1 .. Len(data) : part = SubSeq(data, 1, n)
  BY LenProperties DEF Portion
<1>2. \A i \in 1 .. n : data[i] \in Pieces
  BY ElementOfSeq, LenProperties
<1>3. QED
  BY <1>1, <1>2, SubSeqProperties, LenProperties

LEMMA RestType ==
  ASSUME NEW data \in Seq(Pieces), NEW n \in Nat
  PROVE  SubSeq(data, n + 1, Len(data)) \in Seq(Pieces)
<1>1. Len(data) \in Nat
  BY LenProperties
<1>2. \A i \in n + 1 .. Len(data) : data[i] \in Pieces
  BY <1>1, ElementOfSeq
<1>3. QED
  BY <1>1, <1>2, SubSeqProperties

(* A function keeps its type when one value is replaced by another one.    *)
LEMMA Update ==
  ASSUME NEW S, NEW T, NEW f \in [S -> T], NEW x, NEW v \in T
  PROVE  [f EXCEPT ![x] = v] \in [S -> T]
OBVIOUS

(* The count of troubles keeps its bound.                                  *)
LEMMA TroubleType ==
  ASSUME trouble \in 0 .. MaxTrouble, trouble' = trouble \/ Trouble
  PROVE  trouble' \in 0 .. MaxTrouble
BY BoundsAssumption DEF Trouble

(* Every step keeps the types.                                             *)
LEMMA TypeStep ==
  ASSUME TypeOK, [Next]_vars
  PROVE  TypeOK'
<1> USE MessageAssumption, BoundsAssumption, NoneAssumption, PieceAssumption
<1>1. ASSUME NEW s \in Servers, Start(s) PROVE  TypeOK'
  BY <1>1 DEF Start, Go, Turns, Trouble, Gives, TypeOK
<1>2. ASSUME NEW s \in Servers, Unlink(s) PROVE  TypeOK'
  BY <1>2 DEF Unlink, Go, Turns, Trouble, Gives, TypeOK
<1>3. ASSUME NEW s \in Servers, Bind(s) PROVE  TypeOK'
  BY <1>3 DEF Bind, Go, Turns, Trouble, Gives, TypeOK
<1>4. ASSUME NEW s \in Servers, BindFails(s) PROVE  TypeOK'
  BY <1>4 DEF BindFails, Go, Turns, Trouble, Gives, TypeOK
<1>5. ASSUME NEW s \in Servers, Listen(s) PROVE  TypeOK'
  BY <1>5 DEF Listen, Go, Turns, Trouble, Gives, TypeOK
<1>6. ASSUME NEW s \in Servers, Accept(s) PROVE  TypeOK'
  <2>1. /\ Head(queue[s]) \in Clients
        /\ Tail(queue[s]) \in Seq(Clients)
        /\ Len(Tail(queue[s])) = Len(queue[s]) - 1
    BY <1>6, HeadTailProperties DEF Accept, TypeOK
  <2>2. /\ queue' \in [Servers -> Seq(Clients)]
        /\ \A t \in Servers : Len(queue'[t]) <= Backlog + 1
    <3>1. queue' = [queue EXCEPT ![s] = Tail(queue[s])]
      BY <1>6 DEF Accept, TypeOK
    <3>2. queue' \in [Servers -> Seq(Clients)]
      BY <2>1, <3>1 DEF TypeOK
    <3>3. ASSUME NEW t \in Servers PROVE  Len(queue'[t]) <= Backlog + 1
      <4>1. CASE t = s
        <5>1. queue'[t] = Tail(queue[s]) /\ Len(queue[s]) <= Backlog + 1
          BY <3>1, <4>1 DEF TypeOK
        <5>2. Len(queue[s]) \in Nat
          BY LenProperties DEF TypeOK
        <5>3. QED
          BY <2>1, <5>1, <5>2
      <4>2. CASE t # s
        BY <3>1, <4>2 DEF TypeOK
      <4>3. QED
        BY <4>1, <4>2
    <3>4. QED
      BY <3>2, <3>3
  <2>3. peer' \in [Servers -> Clients \cup {None}]
    BY <1>6, <2>1 DEF Accept, TypeOK
  <2>4. \A t \in Servers :
          (server'[t] \in {"read", "write", "close"}) = (peer'[t] # None)
    BY <1>6, <2>1 DEF Accept, Go, TypeOK
  <2>5. QED
    BY <1>6, <2>2, <2>3, <2>4 DEF Accept, Go, TypeOK
<1>7. ASSUME NEW s \in Servers, AcceptFails(s) PROVE  TypeOK'
  <2>1. /\ Head(queue[s]) \in Clients
        /\ Tail(queue[s]) \in Seq(Clients)
        /\ Len(Tail(queue[s])) = Len(queue[s]) - 1
    BY <1>7, HeadTailProperties DEF AcceptFails, TypeOK
  <2>2. /\ queue' \in [Servers -> Seq(Clients)]
        /\ \A t \in Servers : Len(queue'[t]) <= Backlog + 1
    <3>1. queue' = [queue EXCEPT ![s] = Tail(queue[s])]
      BY <1>7 DEF AcceptFails, TypeOK
    <3>2. queue' \in [Servers -> Seq(Clients)]
      BY <2>1, <3>1 DEF TypeOK
    <3>3. ASSUME NEW t \in Servers PROVE  Len(queue'[t]) <= Backlog + 1
      <4>1. CASE t = s
        <5>1. queue'[t] = Tail(queue[s]) /\ Len(queue[s]) <= Backlog + 1
          BY <3>1, <4>1 DEF TypeOK
        <5>2. Len(queue[s]) \in Nat
          BY LenProperties DEF TypeOK
        <5>3. QED
          BY <2>1, <5>1, <5>2
      <4>2. CASE t # s
        BY <3>1, <4>2 DEF TypeOK
      <4>3. QED
        BY <4>1, <4>2
    <3>4. QED
      BY <3>2, <3>3
  <2>3. QED
    <3>1. trouble' \in 0 .. MaxTrouble
      BY <1>7, TroubleType DEF AcceptFails, TypeOK
    <3>2. closed' \subseteq Clients
      <4>1. closed' = closed \cup {Head(queue[s])}
        BY <1>7 DEF AcceptFails
      <4>2. QED
        BY <2>1, <4>1 DEF TypeOK
    <3>3. UNCHANGED <<transport, server, address, peer, got, kraj, alone,
                      client, up, down, answer>>
      BY <1>7 DEF AcceptFails
    <3>4. QED
      BY <2>2, <3>1, <3>2, <3>3 DEF TypeOK
<1>8. ASSUME NEW s \in Servers, Read(s) PROVE  TypeOK'
  <2>1. server[s] = "read" /\ peer[s] \in Clients
    BY <1>8 DEF Read, Go, TypeOK
  <2>2. CASE Go(s, "read", "close")
    BY <1>8, <2>1, <2>2 DEF Read, Go, TypeOK
  <2>3. ASSUME Go(s, "read", "write"), NEW data \in Portion(up[peer[s]]),
               got' = [got EXCEPT ![s] = data],
               up' = [up EXCEPT ![peer[s]] = SubSeq(@, Len(data) + 1, Len(@))]
        PROVE  TypeOK'
    <3>1. data \in Seq(Pieces)
      BY <2>1, PortionType DEF TypeOK
    <3>2. up[peer[s]] \in Seq(Pieces)
      BY <2>1 DEF TypeOK
    <3>3. SubSeq(up[peer[s]], Len(data) + 1, Len(up[peer[s]])) \in Seq(Pieces)
      BY <3>1, <3>2, RestType
    <3>4. QED
      BY <1>8, <2>1, <2>3, <3>1, <3>3 DEF Read, Go, TypeOK
  <2>4. QED
    BY <1>8, <2>2, <2>3 DEF Read
<1>9. ASSUME NEW s \in Servers, RecvFrom(s) PROVE  TypeOK'
  <2>1. PICK c \in Clients :
          /\ peer' = [peer EXCEPT ![s] = c]
          /\ got' = [got EXCEPT ![s] = up[c]]
          /\ up' \in {up, [up EXCEPT ![c] = <<>>]}
    BY <1>9 DEF RecvFrom, TypeOK
  <2>2. /\ up' \in [Clients -> Seq(Pieces)]
        /\ got' \in [Servers -> Seq(Pieces)]
        /\ peer' \in [Servers -> Clients \cup {None}]
    <3>1. /\ <<>> \in Seq(Pieces) /\ up[c] \in Seq(Pieces)
          /\ up \in [Clients -> Seq(Pieces)] /\ got \in [Servers -> Seq(Pieces)]
          /\ peer \in [Servers -> Clients \cup {None}]
      BY DEF TypeOK
    <3>2. QED
      BY <2>1, <3>1, Update
  <2>3. trouble' \in 0 .. MaxTrouble
    <3>1. trouble' = trouble \/ Trouble
      BY <1>9 DEF RecvFrom
    <3>2. QED
      BY <3>1, TroubleType DEF TypeOK
  <2>4. /\ server' = [server EXCEPT ![s] = "write"]
        /\ UNCHANGED <<transport, address, queue, kraj, alone, client, down,
                       closed, answer>>
    BY <1>9 DEF RecvFrom, Go
  <2>5. QED
    BY <2>1, <2>2, <2>3, <2>4 DEF TypeOK
<1>10. ASSUME NEW s \in Servers, Write(s) PROVE  TypeOK'
  BY <1>10 DEF Write, Go, Turns, Trouble, Gives, TypeOK
<1>11. ASSUME NEW s \in Servers, BrokenPipe(s) PROVE  TypeOK'
  BY <1>11 DEF BrokenPipe, Go, Turns, Trouble, Gives, TypeOK
<1>12. ASSUME NEW s \in Servers, Close(s) PROVE  TypeOK'
  <2>1. server[s] = "close" /\ peer[s] \in Clients
    BY <1>12 DEF Close, Go, TypeOK
  <2>2. down' \in [Clients -> Seq(Pieces)] /\ closed' \subseteq Clients
    <3>1. down' \in {down, [down EXCEPT ![peer[s]] = <<>>]}
      BY <1>12 DEF Close
    <3>2. <<>> \in Seq(Pieces) /\ down \in [Clients -> Seq(Pieces)]
      BY DEF TypeOK
    <3>3. closed' = closed \cup {peer[s]} /\ closed \subseteq Clients
      BY <1>12 DEF Close, TypeOK
    <3>4. QED
      BY <2>1, <3>1, <3>2, <3>3, Update
  <2>3. /\ server' \in {[server EXCEPT ![s] = "exit"],
                         [server EXCEPT ![s] = "loop"]}
        /\ peer' = [peer EXCEPT ![s] = None]
        /\ UNCHANGED <<transport, address, queue, got, kraj, alone, client, up,
                       answer, trouble>>
    BY <1>12 DEF Close, Go
  <2>4. \A t \in Servers :
          (server'[t] \in {"read", "write", "close"}) = (peer'[t] # None)
    BY <2>1, <2>3 DEF TypeOK
  <2>5. server' \in [Servers -> {"off", "unlink", "bind", "listen", "loop",
                                 "read", "write", "close", "exit", "tidy",
                                 "done", "failed", "killed"}]
    BY <2>3 DEF TypeOK
  <2>6. peer' \in [Servers -> Clients \cup {None}]
    BY <2>3 DEF TypeOK
  <2>7. QED
    BY <2>2, <2>3, <2>4, <2>5, <2>6 DEF TypeOK
<1>13. ASSUME NEW s \in Servers, CloseListener(s) PROVE  TypeOK'
  BY <1>13 DEF CloseListener, Go, Turns, Trouble, Gives, TypeOK
<1>14. ASSUME NEW s \in Servers, Tidy(s) PROVE  TypeOK'
  BY <1>14 DEF Tidy, Go, Turns, Trouble, Gives, TypeOK
<1>15. ASSUME NEW s \in Servers, Kill(s) PROVE  TypeOK'
  BY <1>15 DEF Kill, Go, Turns, Trouble, Gives, TypeOK
<1>16. ASSUME NEW c \in Clients, Connect(c) PROVE  TypeOK'
  <2>1. address \in Servers /\ queue[address] \in Seq(Clients)
    BY <1>16 DEF Connect, TypeOK
  <2>2. /\ Append(queue[address], c) \in Seq(Clients)
        /\ Len(Append(queue[address], c)) = Len(queue[address]) + 1
    BY <2>1, AppendProperties
  <2>3. /\ queue' \in [Servers -> Seq(Clients)]
        /\ \A t \in Servers : Len(queue'[t]) <= Backlog + 1
    BY <1>16, <2>1, <2>2, LenProperties DEF Connect, TypeOK
  <2>4. QED
    BY <1>16, <2>3 DEF Connect, Turns, TypeOK
<1>17. ASSUME NEW c \in Clients, ConnectFails(c) PROVE  TypeOK'
  BY <1>17 DEF ConnectFails, Go, Turns, Trouble, Gives, TypeOK
<1>18. ASSUME NEW c \in Clients, Send(c) PROVE  TypeOK'
  BY <1>18 DEF Send, Go, Turns, Trouble, Gives, TypeOK
<1>19. ASSUME NEW c \in Clients, Receive(c) PROVE  TypeOK'
  <2>1. down[c] \in Seq(Pieces)
    BY DEF TypeOK
  <2>2. answer' \in [Clients -> Seq(Pieces)]
    BY <1>19, <2>1, PortionType, ZenonT(60) DEF Receive, TypeOK
  <2>3. client' \in [Clients -> {"off", "write", "read", "done", "refused",
                                 "cut", "killed"}]
    BY <1>19 DEF Receive, Turns, TypeOK
  <2>4. QED
    BY <1>19, <2>2, <2>3 DEF Receive, TypeOK
<1>20. ASSUME NEW c \in Clients, Abort(c) PROVE  TypeOK'
  BY <1>20 DEF Abort, Go, Turns, Trouble, Gives, TypeOK
<1>21. ASSUME NEW c \in Clients, Lose(c) PROVE  TypeOK'
  <2>1. up' \in {up, [up EXCEPT ![c] = <<>>]}
    BY <1>21 DEF Lose
  <2>2. down' \in {down, [down EXCEPT ![c] = <<>>]}
    BY <1>21 DEF Lose
  <2>3. up' \in [Clients -> Seq(Pieces)] /\ down' \in [Clients -> Seq(Pieces)]
    <3>1. /\ <<>> \in Seq(Pieces) /\ up \in [Clients -> Seq(Pieces)]
          /\ down \in [Clients -> Seq(Pieces)]
      BY DEF TypeOK
    <3>2. QED
      BY <2>1, <2>2, <3>1, Update
  <2>4. trouble' \in 0 .. MaxTrouble
    BY <1>21, TroubleType DEF Lose, TypeOK
  <2>5. QED
    BY <1>21, <2>3, <2>4 DEF Lose, TypeOK
<1>22. ASSUME NEW c \in Clients, Discard(c) PROVE  TypeOK'
  BY <1>22 DEF Discard, Go, Turns, Trouble, Gives, TypeOK
<1>23. ASSUME UNCHANGED vars PROVE  TypeOK'
  BY <1>23 DEF Go, Turns, Trouble, Gives, TypeOK
<1>24. QED
  BY <1>1, <1>2, <1>3, <1>4, <1>5, <1>6, <1>7, <1>8, <1>9, <1>10, <1>11,
     <1>12, <1>13, <1>14, <1>15, <1>16, <1>17, <1>18, <1>19, <1>20, <1>21,
     <1>22, <1>23
     DEF Next, Serve

(* The types hold in every reachable state.                                *)
THEOREM TypeCorrect == Spec => []TypeOK
<1>1. Init => TypeOK
  BY MessageAssumption, BoundsAssumption, NoneAssumption
     DEF Init, TypeOK
<1>2. QED
  BY <1>1, TypeStep, PTL DEF Spec

-----------------------------------------------------------------------------
(* The address                                                             *)

(* A server that has met no other one is the only one alive, as long as it *)
(* lives.                                                                  *)
OnlyOneAlive ==
  \A s \in alone, t \in Servers : Alive(s) /\ Alive(t) => s = t

(* A port belongs to a server that is alive and has bound it; a path       *)
(* outlives its server, but not one that has left by itself.               *)
AddressLives ==
  /\ address # None /\ transport # "uds" =>
       Alive(address) /\ server[address] \notin {"unlink", "bind"}
  /\ \A s \in Servers : server[s] = "done" => address # s

(* From unlink to bind the path of such a server is free; from bind to the *)
(* end of its loop the address is its own.                                 *)
AddressHeld ==
  \A s \in alone :
    /\ server[s] # "failed"
    /\ transport = "uds" /\ server[s] = "bind" => address = None
    /\ Serving(s) \/ server[s] \in {"listen", "exit"} => address = s

Ownership == OnlyOneAlive /\ AddressLives /\ AddressHeld

(* No step of a server takes the address from one that is alone.           *)
LEMMA OwnershipStep ==
  ASSUME TypeOK, Ownership, [Next]_vars
  PROVE  Ownership'
<1> USE NoneAssumption
<1> USE DEF Ownership, OnlyOneAlive, AddressLives, AddressHeld, Alive, Over,
            Serving
<1>1. ASSUME NEW s \in Servers, Start(s) PROVE  Ownership'
  BY <1>1 DEF Start, Go, TypeOK
<1>2. ASSUME NEW s \in Servers, Unlink(s) PROVE  Ownership'
  BY <1>2, ZenonT(60) DEF Unlink, Go, TypeOK
<1>3. ASSUME NEW s \in Servers, Bind(s) PROVE  Ownership'
  BY <1>3, ZenonT(60) DEF Bind, Go, Stream, TypeOK
<1>4. ASSUME NEW s \in Servers, BindFails(s) PROVE  Ownership'
  BY <1>4, ZenonT(60) DEF BindFails, Go, TypeOK
<1>5. ASSUME NEW s \in Servers, Listen(s) PROVE  Ownership'
  BY <1>5 DEF Listen, Go, TypeOK
<1>6. ASSUME NEW s \in Servers, Accept(s) PROVE  Ownership'
  BY <1>6, SMTT(30) DEF Accept, Go, TypeOK
<1>7. ASSUME NEW s \in Servers, AcceptFails(s) PROVE  Ownership'
  BY <1>7 DEF AcceptFails, Go, TypeOK
<1>8. ASSUME NEW s \in Servers, Read(s) PROVE  Ownership'
  <2>1. CASE Go(s, "read", "write")
    BY <1>8, <2>1 DEF Read, Go, TypeOK
  <2>2. CASE Go(s, "read", "close")
    BY <1>8, <2>2 DEF Read, Go, TypeOK
  <2>3. QED
    BY <1>8, <2>1, <2>2 DEF Read
<1>9. ASSUME NEW s \in Servers, RecvFrom(s) PROVE  Ownership'
  BY <1>9 DEF RecvFrom, Go, TypeOK
<1>10. ASSUME NEW s \in Servers, Write(s) PROVE  Ownership'
  BY <1>10 DEF Write, Go, Stream, TypeOK
<1>11. ASSUME NEW s \in Servers, BrokenPipe(s) PROVE  Ownership'
  BY <1>11 DEF BrokenPipe, Go, Gives, TypeOK
<1>12. ASSUME NEW s \in Servers, Close(s) PROVE  Ownership'
  BY <1>12 DEF Close, Go, TypeOK
<1>13. ASSUME NEW s \in Servers, CloseListener(s) PROVE  Ownership'
  BY <1>13 DEF CloseListener, Go, Gives, TypeOK
<1>14. ASSUME NEW s \in Servers, Tidy(s) PROVE  Ownership'
  BY <1>14, ZenonT(60) DEF Tidy, Go, TypeOK
<1>15. ASSUME NEW s \in Servers, Kill(s) PROVE  Ownership'
  BY <1>15 DEF Kill, Gives, TypeOK
<1>16. ASSUME NEW c \in Clients,
             \/ Connect(c) \/ ConnectFails(c) \/ Send(c) \/ Receive(c)
             \/ Abort(c) \/ Lose(c) \/ Discard(c)
      PROVE  Ownership'
  <2>1. UNCHANGED <<transport, server, address, alone>>
    BY <1>16 DEF Connect, ConnectFails, Send, Receive, Abort, Lose, Discard
  <2>2. QED
    BY <2>1
<1>17. CASE UNCHANGED vars
  BY <1>17
<1>18. QED
  BY <1>1, <1>2, <1>3, <1>4, <1>5, <1>6, <1>7, <1>8,
     <1>9, <1>10, <1>11, <1>12, <1>13, <1>14, <1>15, <1>16, <1>17 DEF Next, Serve

(* The bind of a server that has met no other one succeeds whatever a      *)
(* crash left behind, the address is its own while it serves, and is gone  *)
(* when it leaves: the two unlinks of uds_server.c do their work.          *)
THEOREM AddressIsKept == Spec => []AloneKeepsAddress
<1>1. Init => Ownership
  BY DEF Init, Ownership, OnlyOneAlive, AddressLives, AddressHeld, Alive, Over,
         Serving
<1>2. TypeOK /\ Ownership => AloneKeepsAddress
  BY DEF TypeOK, Ownership, AddressLives, AddressHeld, AloneKeepsAddress
<1>3. TypeOK /\ Ownership /\ [Next]_vars => Ownership'
  BY OwnershipStep
<1>4. QED
  BY <1>1, <1>2, <1>3, TypeCorrect, PTL DEF Spec

-----------------------------------------------------------------------------
(* Connections                                                             *)

Waits(c, s) == \E i \in 1 .. Len(queue[s]) : queue[s][i] = c

(* A connection waits in one backlog, once, or is in the hand of one       *)
(* server; a client that has not connected has none.                       *)
OneHand ==
  \A s \in Servers, t \in Servers :
    /\ peer[s] # None /\ peer[s] = peer[t] => s = t
    /\ peer[s] # None => ~ Waits(peer[s], t)

OneWait ==
  \A s \in Servers, t \in Servers :
    \A i \in 1 .. Len(queue[s]), j \in 1 .. Len(queue[t]) :
      queue[s][i] = queue[t][j] => s = t /\ i = j

NoneBefore ==
  \A c \in Clients, s \in Servers :
    client[c] = "off" => peer[s] # c /\ ~ Waits(c, s)

OnePlace == Stream => OneHand /\ OneWait /\ NoneBefore

(* What the head and the tail of a backlog are.                            *)
LEMMA FirstOut ==
  ASSUME NEW q \in Seq(Clients), q # <<>>
  PROVE  /\ Head(q) = q[1] /\ 1 \in 1 .. Len(q)
         /\ Len(Tail(q)) = Len(q) - 1 /\ Len(q) \in Nat
         /\ \A i \in 1 .. Len(Tail(q)) : Tail(q)[i] = q[i + 1]
                                          /\ i + 1 \in 1 .. Len(q)
<1>1. Len(q) \in Nat /\ Len(q) > 0
  BY LenProperties, EmptySeq
<1>2. QED
  BY <1>1, HeadTailProperties

(* A server that gives up the first connection of its backlog, or takes it *)
(* into its empty hand, leaves every connection in one place.              *)
LEMMA OnePlaceTake ==
  ASSUME TypeOK, OnePlace, Stream, Stream', NEW s \in Servers,
         queue[s] # <<>>, server[s] = "loop",
         queue' = [queue EXCEPT ![s] = Tail(@)],
         peer' = peer \/ peer' = [peer EXCEPT ![s] = Head(queue[s])],
         client' = client
  PROVE  OnePlace'
<1> USE NoneAssumption DEF Waits
<1>1. queue[s] \in Seq(Clients) /\ peer[s] = None
  BY DEF TypeOK
<1>2. PICK h \in Clients, q \in Seq(Clients) : h = Head(queue[s]) /\ q = queue[s]
  BY <1>1, HeadTailProperties
<1>3. /\ h = q[1] /\ 1 \in 1 .. Len(q)
      /\ Len(Tail(q)) = Len(q) - 1 /\ Len(q) \in Nat
      /\ \A i \in 1 .. Len(Tail(q)) : Tail(q)[i] = q[i + 1]
                                       /\ i + 1 \in 1 .. Len(q)
  BY <1>2, FirstOut
<1>4. \A t \in Servers : queue'[t] = IF t = s THEN Tail(q) ELSE queue[t]
  BY <1>2 DEF TypeOK
<1>5. \A c \in Clients, t \in Servers : Waits(c, t)' => Waits(c, t)
  BY <1>2, <1>3, <1>4
<1>6. ~ Waits(h, s)'
  <2>1. SUFFICES ASSUME NEW i \in 1 .. Len(Tail(q)), Tail(q)[i] = h
                 PROVE  FALSE
    BY <1>4
  <2>2. i + 1 = 1
    BY <1>2, <1>3, <2>1 DEF OnePlace, OneWait
  <2>3. QED
    BY <2>2
<1>7. \A t \in Servers : t # s => ~ Waits(h, t)'
  <2>1. SUFFICES ASSUME NEW t \in Servers, t # s,
                        NEW i \in 1 .. Len(queue[t]), queue[t][i] = h
                 PROVE  FALSE
    BY <1>4
  <2>2. QED
    BY <1>2, <1>3, <2>1 DEF OnePlace, OneWait
<1>8. Waits(h, s)
  BY <1>2, <1>3
<1>9. \A t \in Servers :
        peer'[t] = peer[t] \/ (t = s /\ peer'[t] = h)
  BY <1>2 DEF TypeOK
<1>10. OneHand'
  <2>1. \A t \in Servers : peer[t] # h
    BY <1>2, <1>8 DEF OnePlace, OneHand
  <2>2. SUFFICES ASSUME NEW t \in Servers, NEW u \in Servers, peer'[t] # None
                 PROVE  /\ peer'[t] = peer'[u] => t = u
                        /\ ~ \E i \in 1 .. Len(queue'[u]) :
                               queue'[u][i] = peer'[t]
    BY DEF OneHand
  <2>3. CASE peer'[t] = h
    BY <1>6, <1>7, <1>9, <2>1, <2>2, <2>3
  <2>4. CASE peer'[t] # h
    <3>1. peer'[t] = peer[t] /\ peer[t] \in Clients
      BY <1>9, <2>2, <2>4 DEF TypeOK
    <3>2. peer'[t] = peer'[u] => t = u
      BY <1>9, <2>4, <3>1 DEF OnePlace, OneHand
    <3>3. ~ \E i \in 1 .. Len(queue[u]) : queue[u][i] = peer[t]
      BY <2>2, <3>1 DEF OnePlace, OneHand
    <3>4. QED
      BY <1>5, <3>1, <3>2, <3>3
  <2>5. QED
    BY <2>3, <2>4
<1>11. OneWait'
  <2>1. SUFFICES ASSUME NEW t \in Servers, NEW u \in Servers,
                        NEW i \in 1 .. Len(queue'[t]),
                        NEW j \in 1 .. Len(queue'[u]),
                        queue'[t][i] = queue'[u][j]
                 PROVE  t = u /\ i = j
    BY DEF OneWait
  <2>2. PICK k \in 1 .. Len(queue[t]) : /\ queue'[t][i] = queue[t][k]
                                        /\ k = IF t = s THEN i + 1 ELSE i
    BY <1>2, <1>3, <1>4
  <2>3. PICK m \in 1 .. Len(queue[u]) : /\ queue'[u][j] = queue[u][m]
                                        /\ m = IF u = s THEN j + 1 ELSE j
    BY <1>2, <1>3, <1>4
  <2>4. t = u /\ k = m
    BY <2>1, <2>2, <2>3 DEF OnePlace, OneWait
  <2>5. QED
    BY <2>2, <2>3, <2>4
<1>12. NoneBefore'
  <2>1. SUFFICES ASSUME NEW c \in Clients, NEW t \in Servers, client[c] = "off"
                 PROVE  peer'[t] # c /\ ~ Waits(c, t)'
    BY DEF NoneBefore
  <2>2. h # c /\ peer[t] # c /\ ~ Waits(c, t)
    BY <1>8, <2>1 DEF OnePlace, NoneBefore
  <2>3. QED
    BY <1>5, <1>9, <2>2
<1>13. QED
  BY <1>10, <1>11, <1>12 DEF OnePlace

(* A step that only empties hands and backlogs leaves them so.             *)
LEMMA OnePlaceDrop ==
  ASSUME TypeOK, OnePlace, transport' = transport,
         \A t \in Servers : /\ peer'[t] \in {peer[t], None}
                            /\ queue'[t] \in {queue[t], <<>>},
         \A c \in Clients : client'[c] = "off" => client[c] = "off"
  PROVE  OnePlace'
<1> USE NoneAssumption DEF Waits
<1>1. SUFFICES ASSUME Stream PROVE  (OneHand /\ OneWait /\ NoneBefore)'
  BY DEF OnePlace, Stream
<1>2. \A t \in Servers : \A i \in 1 .. Len(queue'[t]) :
        i \in 1 .. Len(queue[t]) /\ queue'[t][i] = queue[t][i]
  BY EmptySeq
<1>3. OneHand'
  BY <1>1, <1>2 DEF OnePlace, OneHand
<1>4. OneWait'
  BY <1>1, <1>2 DEF OnePlace, OneWait
<1>5. NoneBefore'
  BY <1>1, <1>2 DEF OnePlace, NoneBefore
<1>6. QED
  BY <1>3, <1>4, <1>5

(* A client that connects joins the end of one backlog.                    *)
LEMMA OnePlaceConnect ==
  ASSUME TypeOK, OnePlace, NEW c \in Clients, Connect(c)
  PROVE  OnePlace'
<1> USE NoneAssumption DEF Waits
<1>1. Stream /\ address \in Servers /\ client[c] = "off"
  BY DEF Connect, Turns, TypeOK
<1>2. PICK s \in Servers, q \in Seq(Clients) : s = address /\ q = queue[s]
  BY <1>1 DEF TypeOK
<1>3. /\ Len(Append(q, c)) = Len(q) + 1 /\ Len(q) \in Nat
      /\ \A i \in 1 .. Len(q) : Append(q, c)[i] = q[i]
      /\ Append(q, c)[Len(q) + 1] = c
  BY AppendProperties, LenProperties
<1>4. \A t \in Servers :
        queue'[t] = IF t = s THEN Append(q, c) ELSE queue[t]
  BY <1>2 DEF Connect, TypeOK
<1>5. \A t \in Servers : \A i \in 1 .. Len(queue'[t]) :
        \/ i \in 1 .. Len(queue[t]) /\ queue'[t][i] = queue[t][i]
        \/ t = s /\ i = Len(q) + 1 /\ queue'[t][i] = c
  <2>1. ASSUME NEW t \in Servers, t # s
        PROVE  queue'[t] = queue[t]
    BY <1>4, <2>1
  <2>2. ASSUME NEW i \in 1 .. Len(Append(q, c))
        PROVE  \/ i \in 1 .. Len(q) /\ Append(q, c)[i] = q[i]
               \/ i = Len(q) + 1 /\ Append(q, c)[i] = c
    BY <1>3
  <2>3. queue'[s] = Append(q, c) /\ queue[s] = q
    BY <1>2, <1>4
  <2>4. QED
    BY <2>1, <2>2, <2>3
<1>6. \A t \in Servers : /\ peer'[t] = peer[t] /\ peer[t] # c
                         /\ \A i \in 1 .. Len(queue[t]) : queue[t][i] # c
  BY <1>1 DEF OnePlace, NoneBefore, Connect
<1>7. OneHand'
  BY <1>1, <1>5, <1>6 DEF OnePlace, OneHand
<1>8. OneWait'
  <2>1. SUFFICES ASSUME NEW t \in Servers, NEW u \in Servers,
                        NEW i \in 1 .. Len(queue'[t]),
                        NEW j \in 1 .. Len(queue'[u]),
                        queue'[t][i] = queue'[u][j]
                 PROVE  t = u /\ i = j
    BY DEF OneWait
  <2>2. CASE queue'[t][i] = c
    <3>1. t = s /\ i = Len(q) + 1
      <4>1. ~ (i \in 1 .. Len(queue[t]) /\ queue'[t][i] = queue[t][i])
        BY <1>6, <2>2
      <4>2. QED
        BY <1>5, <4>1
    <3>2. u = s /\ j = Len(q) + 1
      <4>1. ~ (j \in 1 .. Len(queue[u]) /\ queue'[u][j] = queue[u][j])
        BY <1>6, <2>1, <2>2
      <4>2. QED
        BY <1>5, <4>1
    <3>3. QED
      BY <3>1, <3>2
  <2>3. CASE queue'[t][i] # c
    <3>1. /\ i \in 1 .. Len(queue[t]) /\ queue'[t][i] = queue[t][i]
          /\ j \in 1 .. Len(queue[u]) /\ queue'[u][j] = queue[u][j]
      BY <1>5, <2>1, <2>3
    <3>2. queue[t][i] = queue[u][j]
      BY <2>1, <3>1
    <3>3. QED
      BY <1>1, <3>1, <3>2 DEF OnePlace, OneWait
  <2>4. QED
    BY <2>2, <2>3
<1>9. NoneBefore'
  <2>1. \A d \in Clients : client'[d] = "off" => client[d] = "off" /\ d # c
    BY DEF Connect, Turns, TypeOK
  <2>2. QED
    BY <1>1, <1>5, <1>6, <2>1 DEF OnePlace, NoneBefore
<1>10. QED
  BY <1>7, <1>8, <1>9 DEF OnePlace

(* Every step leaves each connection in one place.                         *)
LEMMA OnePlaceStep ==
  ASSUME TypeOK, OnePlace, [Next]_vars
  PROVE  OnePlace'
<1>1. ASSUME NEW s \in Servers, Accept(s) \/ AcceptFails(s)
      PROVE  OnePlace'
  BY <1>1, OnePlaceTake DEF Accept, AcceptFails, Go, Stream
<1>2. ASSUME NEW s \in Servers,
             \/ Start(s) \/ Unlink(s) \/ Bind(s) \/ BindFails(s)
             \/ Listen(s) \/ Read(s) \/ Tidy(s) \/ (Stream /\ Write(s))
      PROVE  OnePlace'
  <2>1. UNCHANGED <<transport, peer, queue, client>>
    BY <1>2 DEF Start, Unlink, Bind, BindFails, Listen, Read, Tidy, Write
  <2>2. QED
    BY <2>1, OnePlaceDrop
<1>3. ASSUME NEW s \in Servers, ~ Stream, RecvFrom(s) \/ Write(s)
      PROVE  OnePlace'
  BY <1>3 DEF RecvFrom, Write, Stream, OnePlace
<1>4. ASSUME NEW s \in Servers,
             \/ Close(s) \/ CloseListener(s) \/ BrokenPipe(s) \/ Kill(s)
      PROVE  OnePlace'
  <2>1. /\ peer' = [peer EXCEPT ![s] = None]
        /\ queue' = queue \/ queue' = [queue EXCEPT ![s] = <<>>]
        /\ UNCHANGED <<transport, client>>
    BY <1>4 DEF Close, CloseListener, BrokenPipe, Kill, Gives
  <2>2. \A t \in Servers : /\ peer'[t] \in {peer[t], None}
                           /\ queue'[t] \in {queue[t], <<>>}
    BY <2>1 DEF TypeOK
  <2>3. QED
    BY <2>1, <2>2, OnePlaceDrop
<1>5. ASSUME NEW c \in Clients, Connect(c) PROVE  OnePlace'
  BY <1>5, OnePlaceConnect
<1>6. ASSUME NEW c \in Clients,
             \/ ConnectFails(c) \/ Send(c) \/ Receive(c) \/ Abort(c)
             \/ Lose(c) \/ Discard(c)
      PROVE  OnePlace'
  <2>1. UNCHANGED <<transport, peer, queue>>
    BY <1>6 DEF ConnectFails, Send, Receive, Abort, Lose, Discard
  <2>2. \A d \in Clients : client'[d] = "off" => client[d] = "off"
    BY <1>6 DEF ConnectFails, Send, Receive, Abort, Lose, Discard, Turns, TypeOK
  <2>3. QED
    BY <2>1, <2>2, OnePlaceDrop
<1>7. CASE UNCHANGED vars
  BY <1>7, OnePlaceDrop
<1>8. ASSUME NEW s \in Servers, RecvFrom(s) PROVE  OnePlace'
  BY <1>3, <1>8 DEF RecvFrom
<1>9. ASSUME NEW s \in Servers, Write(s) PROVE  OnePlace'
  BY <1>2, <1>3, <1>9
<1>10. QED
  BY <1>1, <1>2, <1>4, <1>5, <1>6, <1>7, <1>8, <1>9 DEF Next, Serve

-----------------------------------------------------------------------------
(* Prefixes                                                                *)

(* A sequence is its own part from 1 to its length.                        *)
LEMMA Whole ==
  ASSUME NEW x \in Seq(Pieces)
  PROVE  SubSeq(x, 1, Len(x)) = x
<1>1. Len(x) \in Nat /\ \A i \in 1 .. Len(x) : x[i] \in Pieces
  BY LenProperties, ElementOfSeq
<1>2. /\ SubSeq(x, 1, Len(x)) \in Seq(Pieces)
      /\ Len(SubSeq(x, 1, Len(x))) = Len(x)
      /\ \A i \in 1 .. Len(x) : SubSeq(x, 1, Len(x))[i] = x[i]
  BY <1>1, SubSeqProperties
<1>3. QED
  BY <1>2, SeqEqual

(* A message and a prefix of it begin alike.                               *)
LEMMA SameBeginning ==
  ASSUME NEW x \in Seq(Pieces), NEW m \in Seq(Pieces), IsPrefix(x, m),
         NEW n \in 0 .. Len(x)
  PROVE  SubSeq(x, 1, n) = SubSeq(m, 1, n)
<1>1. /\ Len(x) \in Nat /\ Len(m) \in Nat /\ Len(x) <= Len(m)
      /\ \A i \in 1 .. Len(x) : x[i] \in Pieces
      /\ \A i \in 1 .. Len(m) : m[i] \in Pieces
  BY LenProperties, ElementOfSeq DEF IsPrefix
<1>2. x = SubSeq(m, 1, Len(x))
  BY Whole DEF IsPrefix
<1>3. \A i \in 1 .. Len(x) : SubSeq(m, 1, Len(x))[i] = m[i]
  BY <1>1, SubSeqProperties
<1>4. \A i \in 1 .. Len(x) : x[i] = m[i]
  BY <1>2, <1>3
<1>5. /\ SubSeq(x, 1, n) \in Seq(Pieces) /\ Len(SubSeq(x, 1, n)) = n
      /\ \A i \in 1 .. n : SubSeq(x, 1, n)[i] = x[i]
  BY <1>1, SubSeqProperties
<1>6. /\ SubSeq(m, 1, n) \in Seq(Pieces) /\ Len(SubSeq(m, 1, n)) = n
      /\ \A i \in 1 .. n : SubSeq(m, 1, n)[i] = m[i]
  BY <1>1, SubSeqProperties
<1>7. QED
  BY <1>1, <1>4, <1>5, <1>6, SeqEqual

(* What begins a prefix of a message begins the message.                   *)
LEMMA PrefixOfPrefix ==
  ASSUME NEW a, Len(a) \in Nat, NEW x \in Seq(Pieces), NEW m \in Seq(Pieces),
         IsPrefix(a, x), IsPrefix(x, m)
  PROVE  IsPrefix(a, m)
<1>1. /\ Len(x) \in Nat /\ Len(m) \in Nat
      /\ Len(a) <= Len(x) /\ Len(x) <= Len(m)
      /\ SubSeq(a, 1, Len(a)) = SubSeq(x, 1, Len(a))
  BY LenProperties DEF IsPrefix
<1>2. SubSeq(x, 1, Len(a)) = SubSeq(m, 1, Len(a))
  BY <1>1, SameBeginning
<1>3. QED
  BY <1>1, <1>2 DEF IsPrefix

(* What one read returns begins what was under way; a socket that keeps    *)
(* messages whole returns all of it.                                       *)
LEMMA PortionPrefix ==
  ASSUME NEW data \in Seq(Pieces), NEW part \in Portion(data)
  PROVE  IsPrefix(part, data) /\ (transport # "tcp" => part = data)
<1>1. Len(data) \in Nat
  BY LenProperties
<1>2. PICK n \in 1 .. Len(data) : /\ part = SubSeq(data, 1, n)
                                  /\ transport # "tcp" => n = Len(data)
  BY <1>1 DEF Portion
<1>3. part \in Seq(Pieces) /\ Len(part) = n
  <2>1. \A i \in 1 .. n : data[i] \in Pieces
    BY <1>1, ElementOfSeq
  <2>2. /\ SubSeq(data, 1, n) \in Seq(Pieces)
        /\ Len(SubSeq(data, 1, n)) = n
    BY <2>1, SubSeqProperties
  <2>3. QED
    BY <1>2, <2>2, Zenon
<1>4. SubSeq(part, 1, n) = part
  BY <1>3, Whole, Zenon
<1>5. IsPrefix(part, data)
  <2>1. Len(part) <= Len(data)
    BY <1>1, <1>3
  <2>2. QED
    BY <1>2, <1>3, <1>4, <2>1, Zenon DEF IsPrefix
<1>6. transport # "tcp" => part = data
  BY <1>2, Whole, Zenon
<1>7. QED
  BY <1>5, <1>6

-----------------------------------------------------------------------------
(* Messages and answers                                                    *)

Reply(c) == IF LastWord(Message[c]) THEN Goodbye ELSE Message[c]

(* x is a message of c as a server may read it.                            *)
Belongs(x, c) ==
  \/ x = Message[c]
  \/ transport = "tcp" /\ IsPrefix(x, Message[c])

(* x may be sent to c.                                                     *)
Fits(x, c) ==
  \/ x \in {<<>>, Reply(c)}
  \/ transport = "tcp" /\ IsPrefix(x, Message[c])

(* The answer to what was read fits, and a KRAJ that was read was sent.    *)
LEMMA AnswerFits ==
  ASSUME NEW c \in Clients, NEW x \in Seq(Pieces), Belongs(x, c)
  PROVE  /\ Fits(IF LastWord(x) THEN Goodbye ELSE x, c)
         /\ LastWord(x) => LastWord(Message[c])
<1>1. Message[c] \in Seq(Pieces)
  BY MessageAssumption
<1>2. LastWord(x) => LastWord(Message[c])
  <2>1. Len(KRAJ) \in Nat
    BY DEF KRAJ
  <2>2. CASE x = Message[c]
    BY <2>2
  <2>3. CASE IsPrefix(x, Message[c])
    BY <1>1, <2>1, <2>3, PrefixOfPrefix DEF LastWord
  <2>4. QED
    BY <2>2, <2>3 DEF Belongs
<1>3. QED
  BY <1>2 DEF Belongs, Fits, Reply

(* What a client reads of something that fits, fits.                       *)
LEMMA PortionFits ==
  ASSUME NEW c \in Clients, NEW x \in Seq(Pieces), Fits(x, c),
         NEW part \in Portion(x)
  PROVE  Fits(part, c)
<1>1. Message[c] \in Seq(Pieces)
  BY MessageAssumption
<1>2. /\ part \in Seq(Pieces) /\ Len(part) \in Nat
      /\ Len(part) \in 1 .. Len(x)
      /\ IsPrefix(part, x) /\ (transport # "tcp" => part = x)
  BY PortionType, PortionPrefix, LenProperties
<1>3. CASE transport # "tcp"
  BY <1>2, <1>3
<1>4. CASE transport = "tcp" /\ x = <<>>
  BY <1>2, <1>4, EmptySeq
<1>5. CASE transport = "tcp" /\ x = Goodbye
  <2>1. Len(x) = 1
    BY <1>5 DEF Goodbye
  <2>2. Len(part) = Len(x)
    BY <1>2, <2>1
  <2>3. part = x
    BY <1>2, <2>2, Whole DEF IsPrefix
  <2>4. QED
    BY <2>3
<1>6. CASE transport = "tcp" /\ x = Message[c]
  BY <1>2, <1>6 DEF Fits
<1>7. CASE transport = "tcp" /\ IsPrefix(x, Message[c])
  BY <1>1, <1>2, <1>7, PrefixOfPrefix DEF Fits
<1>8. QED
  BY <1>3, <1>4, <1>5, <1>6, <1>7 DEF Fits, Reply

Spoke(c) == client[c] \notin {"off", "write"}

(* What is under way has been said.                                        *)
Said == \A c \in Clients : up[c] # <<>> => Spoke(c)

(* A message is untouched until a server takes it out of its hand; TCP     *)
(* alone leaves a part of it behind.                                       *)
Unread ==
  \A c \in Clients :
    \/ up[c] \in {<<>>, Message[c]}
    \/ /\ transport = "tcp"
       /\ \A s \in Servers : /\ ~ Waits(c, s)
                             /\ server[s] = "read" => peer[s] # c

(* What a server is about to answer belongs to its client, and what is     *)
(* under way to a client or has been printed fits.                         *)
Fitting ==
  /\ \A s \in Servers :
       server[s] = "write" => Belongs(got[s], peer[s]) /\ Spoke(peer[s])
  /\ \A c \in Clients : Fits(down[c], c) /\ Fits(answer[c], c)

(* Who has set kraj or left the loop was told to.                          *)
Asked ==
  \A s \in Servers :
    s \in kraj \/ server[s] \in {"exit", "tidy", "done"} =>
      \E c \in Clients : LastWord(Message[c]) /\ Spoke(c)

(* A client that has spoken does not take it back.                         *)
LEMMA SpokeStays ==
  ASSUME TypeOK, [Next]_vars, NEW c \in Clients, Spoke(c)
  PROVE  Spoke(c)'
<1> USE DEF Spoke
<1>1. ASSUME NEW s \in Servers, Start(s) \/ Serve(s) \/ AcceptFails(s) \/ Kill(s)
      PROVE  Spoke(c)'
  <2>1. client' = client
    BY <1>1 DEF Serve, Start, Unlink, Bind, BindFails, Listen, Accept,
                AcceptFails, Read, RecvFrom, Write, BrokenPipe, Close,
                CloseListener, Tidy, Kill
  <2>2. QED
    BY <2>1
<1>2. ASSUME NEW d \in Clients,
             \/ Connect(d) \/ ConnectFails(d) \/ Send(d) \/ Receive(d)
             \/ Abort(d) \/ Lose(d) \/ Discard(d)
      PROVE  Spoke(c)'
  BY <1>2 DEF Connect, ConnectFails, Send, Receive, Abort, Lose, Discard, Turns,
              TypeOK
<1>3. QED
  BY <1>1, <1>2 DEF Next

(* The messages under way grow by Send alone.                              *)
LEMMA SaidStep ==
  ASSUME TypeOK, Said, [Next]_vars
  PROVE  Said'
<1>1. \A c \in Clients : Spoke(c) => Spoke(c)'
  BY SpokeStays
<1>2. ASSUME NEW c \in Clients, up'[c] # <<>>, up'[c] # up[c]
      PROVE  Spoke(c)' \/ up[c] # <<>>
  <2>1. ASSUME NEW s \in Servers, Read(s)
        PROVE  up[c] # <<>>
    <3>1. peer[s] \in Clients /\ up[peer[s]] \in Seq(Pieces)
      BY <2>1 DEF Read, Go, TypeOK
    <3>2. PICK data \in Portion(up[peer[s]]) :
            up' = [up EXCEPT ![peer[s]] = SubSeq(@, Len(data) + 1, Len(@))]
      BY <1>2, <2>1 DEF Read
    <3>3. c = peer[s]
      BY <1>2, <3>2 DEF TypeOK
    <3>4. Len(data) \in 1 .. Len(up[peer[s]])
      BY <3>1, PortionType
    <3>5. QED
      BY <3>1, <3>3, <3>4, EmptySeq
  <2>2. ASSUME NEW s \in Servers, RecvFrom(s)
        PROVE  FALSE
    BY <1>2, <2>2 DEF RecvFrom, TypeOK
  <2>3. ASSUME NEW s \in Servers,
               \/ Start(s) \/ Unlink(s) \/ Bind(s) \/ BindFails(s) \/ Listen(s)
               \/ Accept(s) \/ AcceptFails(s) \/ Write(s) \/ BrokenPipe(s)
               \/ Close(s) \/ CloseListener(s) \/ Tidy(s) \/ Kill(s)
        PROVE  FALSE
    <3>1. up' = up
      BY <2>3 DEF Start, Unlink, Bind, BindFails, Listen, Accept, AcceptFails,
                  Write, BrokenPipe, Close, CloseListener, Tidy, Kill
    <3>2. QED
      BY <1>2, <3>1
  <2>4. ASSUME NEW d \in Clients, Send(d)
        PROVE  Spoke(c)'
    BY <1>2, <2>4 DEF Send, Turns, Spoke, TypeOK
  <2>5. ASSUME NEW d \in Clients,
               \/ Connect(d) \/ ConnectFails(d) \/ Receive(d) \/ Abort(d)
               \/ Lose(d) \/ Discard(d)
        PROVE  FALSE
    <3>1. up' \in {up, [up EXCEPT ![d] = <<>>]}
      BY <2>5 DEF Connect, ConnectFails, Receive, Abort, Lose, Discard
    <3>2. QED
      BY <1>2, <3>1 DEF TypeOK
  <2>6. CASE UNCHANGED vars
    BY <1>2, <2>6
  <2>7. QED
    BY <2>1, <2>2, <2>3, <2>4, <2>5, <2>6 DEF Next, Serve
<1>3. QED
  BY <1>1, <1>2 DEF Said

(* A step that takes messages away or renews them whole, and brings no     *)
(* connection back, leaves messages unread.                                *)
LEMMA UnreadKept ==
  ASSUME Unread, transport' = transport,
         \A c \in Clients : up'[c] \in {up[c], <<>>, Message[c]},
         \A c \in Clients, s \in Servers :
           Waits(c, s)' => Waits(c, s) \/ up'[c] = <<>>,
         \A s \in Servers : server'[s] = "read" =>
           \/ server[s] = "read" /\ peer'[s] = peer[s]
           \/ Waits(peer'[s], s)
  PROVE  Unread'
<1>1. SUFFICES ASSUME NEW c \in Clients, up'[c] \notin {<<>>, Message[c]}
               PROVE  /\ transport = "tcp"
                      /\ \A s \in Servers : /\ ~ Waits(c, s)'
                                            /\ server'[s] = "read" => peer'[s] # c
  BY DEF Unread
<1>2. up'[c] = up[c]
  BY <1>1
<1>3. /\ transport = "tcp"
      /\ \A s \in Servers : /\ ~ Waits(c, s)
                            /\ server[s] = "read" => peer[s] # c
  BY <1>1, <1>2 DEF Unread
<1>4. QED
  BY <1>1, <1>3

(* A backlog whose first connection has been taken holds no new ones.      *)
LEMMA TailWaits ==
  ASSUME TypeOK, NEW s \in Servers, queue[s] # <<>>,
         queue' = [queue EXCEPT ![s] = Tail(@)]
  PROVE  /\ \A c \in Clients, t \in Servers : Waits(c, t)' => Waits(c, t)
         /\ Waits(Head(queue[s]), s)
<1>1. PICK q \in Seq(Clients) : q = queue[s]
  BY DEF TypeOK
<1>2. /\ Head(q) = q[1] /\ 1 \in 1 .. Len(q)
      /\ \A i \in 1 .. Len(Tail(q)) : Tail(q)[i] = q[i + 1]
                                      /\ i + 1 \in 1 .. Len(q)
  BY <1>1, FirstOut
<1>3. \A t \in Servers : queue'[t] = IF t = s THEN Tail(q) ELSE queue[t]
  BY <1>1 DEF TypeOK
<1>4. QED
  BY <1>1, <1>2, <1>3 DEF Waits

(* Every step leaves messages unread.                                      *)
LEMMA UnreadStep ==
  ASSUME TypeOK, OnePlace, Said, Unread, [Next]_vars
  PROVE  Unread'
<1> USE NoneAssumption
<1>1. ASSUME NEW s \in Servers, Accept(s) PROVE  Unread'
  <2>1. /\ queue[s] # <<>>
        /\ queue' = [queue EXCEPT ![s] = Tail(@)]
        /\ peer' = [peer EXCEPT ![s] = Head(queue[s])]
        /\ server' = [server EXCEPT ![s] = "read"]
        /\ UNCHANGED <<transport, up>>
    BY <1>1 DEF Accept, Go
  <2>2. /\ \A c \in Clients, t \in Servers : Waits(c, t)' => Waits(c, t)
        /\ Waits(Head(queue[s]), s)
    BY <2>1, TailWaits
  <2>3. ASSUME NEW t \in Servers, server'[t] = "read"
        PROVE  \/ server[t] = "read" /\ peer'[t] = peer[t]
               \/ Waits(peer'[t], t)
    BY <2>1, <2>2, <2>3 DEF TypeOK
  <2>4. QED
    BY <2>1, <2>2, <2>3, UnreadKept
<1>2. ASSUME NEW s \in Servers, AcceptFails(s) PROVE  Unread'
  <2>1. /\ queue[s] # <<>>
        /\ queue' = [queue EXCEPT ![s] = Tail(@)]
        /\ UNCHANGED <<transport, up, peer, server>>
    BY <1>2 DEF AcceptFails
  <2>2. QED
    BY <2>1, TailWaits, UnreadKept
<1>3. ASSUME NEW s \in Servers, Read(s) PROVE  Unread'
  <2>1. PICK c \in Clients : c = peer[s]
    BY <1>3 DEF Read, Go, TypeOK
  <2>2. /\ server[s] = "read" /\ server'[s] # "read"
        /\ \A t \in Servers : t # s => server'[t] = server[t]
        /\ UNCHANGED <<transport, queue, peer>>
    <3>1. CASE Go(s, "read", "write")
      BY <1>3, <3>1 DEF Read, Go, TypeOK
    <3>2. CASE Go(s, "read", "close")
      BY <1>3, <3>2 DEF Read, Go, TypeOK
    <3>3. QED
      BY <1>3, <3>1, <3>2 DEF Read
  <2>3. CASE up' = up
    BY <2>2, <2>3, UnreadKept DEF Waits
  <2>4. ASSUME NEW data \in Portion(up[c]),
               up' = [up EXCEPT ![c] = SubSeq(@, Len(data) + 1, Len(@))]
        PROVE  Unread'
    <3>1. up[c] \in Seq(Pieces) /\ Len(up[c]) \in Nat
      BY LenProperties DEF TypeOK
    <3>2. CASE transport # "tcp"
      <4>1. SubSeq(up[c], Len(data) + 1, Len(up[c])) = <<>>
        BY <3>1, <3>2, PortionPrefix, SubSeqEmpty
      <4>2. \A d \in Clients : up'[d] \in {up[d], <<>>}
        BY <2>4, <4>1 DEF TypeOK
      <4>3. QED
        BY <2>2, <4>2, UnreadKept DEF Waits
    <3>3. CASE transport = "tcp"
      <4>1. \A t \in Servers : ~ Waits(c, t)'
        BY <2>1, <2>2, <3>3 DEF OnePlace, OneHand, Waits, Stream
      <4>2. \A t \in Servers : server'[t] = "read" => peer'[t] # c
        BY <2>1, <2>2, <3>3 DEF OnePlace, OneHand, Stream
      <4>3. \A d \in Clients : d # c => up'[d] = up[d]
        BY <2>4 DEF TypeOK
      <4>4. SUFFICES ASSUME NEW d \in Clients, d # c
                     PROVE  \/ up'[d] \in {<<>>, Message[d]}
                            \/ \A t \in Servers :
                                 /\ ~ Waits(d, t)'
                                 /\ server'[t] = "read" => peer'[t] # d
        BY <2>2, <3>3, <4>1, <4>2 DEF Unread
      <4>5. QED
        BY <2>2, <4>3, <4>4 DEF Unread, Waits
    <3>4. QED
      BY <3>2, <3>3
  <2>5. QED
    BY <1>3, <2>1, <2>3, <2>4 DEF Read
<1>4. ASSUME NEW s \in Servers, RecvFrom(s) PROVE  Unread'
  <2>1. PICK c \in Clients : up' \in {up, [up EXCEPT ![c] = <<>>]}
    BY <1>4 DEF RecvFrom
  <2>2. \A d \in Clients : up'[d] \in {up[d], <<>>}
    BY <2>1 DEF TypeOK
  <2>3. transport # "tcp" /\ transport' = transport
    BY <1>4 DEF RecvFrom, Stream
  <2>4. QED
    BY <2>2, <2>3 DEF Unread
<1>5. ASSUME NEW s \in Servers,
             \/ Start(s) \/ Unlink(s) \/ Bind(s) \/ BindFails(s) \/ Listen(s)
             \/ Write(s) \/ BrokenPipe(s) \/ Close(s) \/ CloseListener(s)
             \/ Tidy(s) \/ Kill(s)
      PROVE  Unread'
  <2>1. UNCHANGED <<transport, up>>
    BY <1>5 DEF Start, Unlink, Bind, BindFails, Listen, Write, BrokenPipe, Close,
                CloseListener, Tidy, Kill
  <2>2. queue' = queue \/ queue' = [queue EXCEPT ![s] = <<>>]
    BY <1>5 DEF Start, Unlink, Bind, BindFails, Listen, Write, BrokenPipe, Close,
                CloseListener, Tidy, Kill, Gives
  <2>3. \A c \in Clients, t \in Servers : Waits(c, t)' => Waits(c, t)
    <3>1. \A t \in Servers : queue'[t] \in {queue[t], <<>>}
      BY <2>2 DEF TypeOK
    <3>2. QED
      BY <3>1, EmptySeq DEF Waits
  <2>4. \A t \in Servers : server'[t] = "read" =>
                             server[t] = "read" /\ t # s
    BY <1>5, SMTT(30)
       DEF Start, Unlink, Bind, BindFails, Listen, Write, BrokenPipe, Close,
                CloseListener, Tidy, Kill, Go, TypeOK
  <2>5. \A t \in Servers : t # s => peer'[t] = peer[t]
    BY <1>5 DEF Start, Unlink, Bind, BindFails, Listen, Write, BrokenPipe, Close,
                CloseListener, Tidy, Kill, Gives, TypeOK
  <2>6. QED
    BY <2>1, <2>3, <2>4, <2>5, UnreadKept
<1>6. ASSUME NEW c \in Clients, Connect(c) PROVE  Unread'
  <2>1. /\ client[c] = "off" /\ address \in Servers
        /\ queue' = [queue EXCEPT ![address] = Append(@, c)]
        /\ UNCHANGED <<transport, server, peer, up>>
    BY <1>6 DEF Connect, Turns, TypeOK
  <2>2. up[c] = <<>>
    BY <2>1 DEF Said, Spoke
  <2>3. PICK q \in Seq(Clients) : q = queue[address]
    BY <2>1 DEF TypeOK
  <2>4. /\ Len(Append(q, c)) = Len(q) + 1 /\ Len(q) \in Nat
        /\ \A i \in 1 .. Len(q) : Append(q, c)[i] = q[i]
        /\ Append(q, c)[Len(q) + 1] = c
    BY AppendProperties, LenProperties
  <2>5. ASSUME NEW d \in Clients, NEW t \in Servers, Waits(d, t)'
        PROVE  Waits(d, t) \/ d = c
    <3>1. CASE t = address
      <4>1. queue'[t] = Append(q, c)
        BY <2>1, <2>3, <3>1 DEF TypeOK
      <4>2. PICK i \in 1 .. Len(q) + 1 : Append(q, c)[i] = d
        BY <2>4, <2>5, <4>1 DEF Waits
      <4>3. CASE i \in 1 .. Len(q)
        BY <2>3, <2>4, <3>1, <4>2, <4>3 DEF Waits
      <4>4. CASE i = Len(q) + 1
        BY <2>4, <4>2, <4>4
      <4>5. QED
        BY <2>4, <4>3, <4>4
    <3>2. CASE t # address
      BY <2>1, <2>5, <3>2 DEF Waits, TypeOK
    <3>3. QED
      BY <3>1, <3>2
  <2>6. QED
    BY <2>1, <2>2, <2>5, UnreadKept
<1>7. ASSUME NEW c \in Clients,
             \/ ConnectFails(c) \/ Send(c) \/ Receive(c) \/ Abort(c)
             \/ Lose(c) \/ Discard(c)
      PROVE  Unread'
  <2>1. UNCHANGED <<transport, server, queue, peer>>
    BY <1>7 DEF ConnectFails, Send, Receive, Abort, Lose, Discard
  <2>2. up' \in {up, [up EXCEPT ![c] = <<>>], [up EXCEPT ![c] = Message[c]]}
    BY <1>7 DEF ConnectFails, Send, Receive, Abort, Lose, Discard
  <2>3. \A d \in Clients : up'[d] \in {up[d], <<>>, Message[d]}
    BY <2>2 DEF TypeOK
  <2>4. QED
    BY <2>1, <2>3, UnreadKept DEF Waits
<1>8. CASE UNCHANGED vars
  BY <1>8 DEF Unread, Waits
<1>9. QED
  BY <1>1, <1>2, <1>3, <1>4, <1>5, <1>6, <1>7, <1>8 DEF Next, Serve

(* A step after which every server about to answer was about to give the   *)
(* same answer before keeps what fits.                                     *)
LEMMA FittingKept ==
  ASSUME TypeOK, Fitting, [Next]_vars, transport' = transport,
         \A s \in Servers : server'[s] = "write" =>
           server[s] = "write" /\ got'[s] = got[s] /\ peer'[s] = peer[s],
         \A c \in Clients : Fits(down'[c], c) /\ Fits(answer'[c], c)
  PROVE  Fitting'
<1>1. \A c \in Clients : Spoke(c) => Spoke(c)'
  BY SpokeStays
<1>2. ASSUME NEW s \in Servers, server'[s] = "write"
      PROVE  (Belongs(got[s], peer[s]) /\ Spoke(peer[s]))'
  <2>1. PICK c \in Clients : c = peer[s]
    BY <1>2 DEF TypeOK
  <2>2. Belongs(got[s], c) /\ Spoke(c)
    BY <1>2, <2>1 DEF Fitting
  <2>3. Spoke(c)' /\ c = peer'[s] /\ got'[s] = got[s]
    BY <1>1, <1>2, <2>1, <2>2
  <2>4. QED
    BY <2>2, <2>3 DEF Belongs, Spoke
<1>3. QED
  BY <1>2 DEF Fitting, Fits

(* Every step keeps what fits.                                             *)
LEMMA FittingStep ==
  ASSUME TypeOK, Said, Unread, Fitting, [Next]_vars
  PROVE  Fitting'
<1> USE NoneAssumption
<1> DEFINE Same == \A c \in Clients : Fits(down[c], c) /\ Fits(answer[c], c)
<1>1. Same
  BY DEF Fitting
<1>2. \A c \in Clients : Spoke(c) => Spoke(c)'
  BY SpokeStays
<1>3. ASSUME NEW s \in Servers, NEW c \in Clients,
             Belongs(up[c], c) \/ up[c] = <<>>, up[c] # <<>>,
             NEW data, Belongs(data, c), peer'[s] = c, got'[s] = data,
             \A t \in Servers : t # s => /\ server'[t] = server[t]
                                         /\ peer'[t] = peer[t]
                                         /\ got'[t] = got[t],
             UNCHANGED <<transport, down, answer>>
      PROVE  Fitting'
  <2>1. Spoke(c)'
    BY <1>2, <1>3 DEF Said
  <2>2. ASSUME NEW t \in Servers, server'[t] = "write"
        PROVE  (Belongs(got[t], peer[t]) /\ Spoke(peer[t]))'
    <3>1. CASE t = s
      BY <1>3, <2>1, <3>1 DEF Belongs, Spoke
    <3>2. CASE t # s
      <4>1. PICK d \in Clients : d = peer[t]
        BY <1>3, <2>2, <3>2 DEF TypeOK
      <4>2. Belongs(got[t], d) /\ Spoke(d)
        BY <1>3, <2>2, <3>2, <4>1 DEF Fitting
      <4>3. Spoke(d)' /\ d = peer'[t] /\ got'[t] = got[t]
        BY <1>2, <1>3, <3>2, <4>1, <4>2
      <4>4. QED
        BY <1>3, <4>2, <4>3 DEF Belongs, Spoke
    <3>3. QED
      BY <3>1, <3>2
  <2>3. QED
    BY <1>1, <1>3, <2>2 DEF Fitting, Fits
<1>4. ASSUME NEW s \in Servers, Read(s) PROVE  Fitting'
  <2>1. PICK c \in Clients : c = peer[s]
    BY <1>4 DEF Read, Go, TypeOK
  <2>2. CASE Go(s, "read", "close")
    <3>1. /\ \A t \in Servers : server'[t] = "write" => server[t] = "write"
          /\ UNCHANGED <<transport, got, peer, down, answer>>
      BY <1>4, <2>2 DEF Read, Go, TypeOK
    <3>2. QED
      BY <1>1, <3>1, FittingKept
  <2>3. ASSUME NEW data \in Portion(up[c]), Go(s, "read", "write"),
               got' = [got EXCEPT ![s] = data]
        PROVE  Fitting'
    <3>1. up[c] \in Seq(Pieces) /\ up[c] # <<>>
      <4>1. up[c] \in Seq(Pieces)
        BY DEF TypeOK
      <4>2. QED
        BY <4>1, PortionType, EmptySeq
    <3>2. up[c] = Message[c]
      BY <2>1, <2>3, <3>1 DEF Unread, Go
    <3>3. Belongs(data, c) /\ Belongs(up[c], c)
      BY <3>1, <3>2, PortionPrefix DEF Belongs
    <3>4. UNCHANGED <<transport, peer, down, answer>>
      BY <1>4 DEF Read
    <3>5. \A t \in Servers : t # s => /\ server'[t] = server[t]
                                      /\ got'[t] = got[t]
      BY <2>3 DEF Go, TypeOK
    <3>6. got'[s] = data
      BY <2>3 DEF TypeOK
    <3>7. QED
      BY <1>3, <2>1, <3>1, <3>3, <3>4, <3>5, <3>6
  <2>4. QED
    BY <1>4, <2>1, <2>2, <2>3 DEF Read
<1>5. ASSUME NEW s \in Servers, RecvFrom(s) PROVE  Fitting'
  <2>1. PICK c \in Clients : /\ up[c] # <<>>
                             /\ peer' = [peer EXCEPT ![s] = c]
                             /\ got' = [got EXCEPT ![s] = up[c]]
    BY <1>5 DEF RecvFrom
  <2>2. Belongs(up[c], c)
    BY <1>5, <2>1 DEF RecvFrom, Stream, Unread, Belongs
  <2>3. /\ peer'[s] = c /\ got'[s] = up[c]
        /\ \A t \in Servers : t # s => /\ server'[t] = server[t]
                                       /\ peer'[t] = peer[t]
                                       /\ got'[t] = got[t]
    BY <1>5, <2>1 DEF RecvFrom, Go, TypeOK
  <2>4. UNCHANGED <<transport, down, answer>>
    BY <1>5 DEF RecvFrom
  <2>5. QED
    BY <1>3, <2>1, <2>2, <2>3, <2>4
<1>6. ASSUME NEW s \in Servers, Write(s) PROVE  Fitting'
  <2>1. PICK c \in Clients, x \in Seq(Pieces) : c = peer[s] /\ x = got[s]
    BY <1>6 DEF Write, Go, TypeOK
  <2>2. Fits(IF LastWord(x) THEN Goodbye ELSE x, c)
    BY <1>6, <2>1, AnswerFits DEF Write, Go, Fitting
  <2>3. down' = [down EXCEPT ![c] = IF LastWord(x) THEN Goodbye ELSE x]
    BY <1>6, <2>1 DEF Write
  <2>4. \A d \in Clients : Fits(down'[d], d)
    BY <1>1, <2>2, <2>3 DEF TypeOK
  <2>5. UNCHANGED <<transport, answer>>
    BY <1>6 DEF Write
  <2>6. \A t \in Servers : server'[t] = "write" => server[t] = "write" /\ t # s
    BY <1>6 DEF Write, Go, TypeOK
  <2>7. \A t \in Servers : t # s => got'[t] = got[t] /\ peer'[t] = peer[t]
    BY <1>6 DEF Write, TypeOK
  <2>8. QED
    BY <1>1, <2>4, <2>5, <2>6, <2>7, FittingKept
<1>7. ASSUME NEW s \in Servers,
             \/ Start(s) \/ Unlink(s) \/ Bind(s) \/ BindFails(s) \/ Listen(s)
             \/ Accept(s) \/ AcceptFails(s) \/ BrokenPipe(s) \/ Close(s)
             \/ CloseListener(s) \/ Tidy(s) \/ Kill(s)
      PROVE  Fitting'
  <2> USE DEF Start, Unlink, Bind, BindFails, Listen, Accept, AcceptFails,
              BrokenPipe, Close, CloseListener, Tidy, Kill
  <2>1. UNCHANGED <<transport, answer>>
    BY <1>7
  <2>2. down' = down \/ \E c \in Clients : down' = [down EXCEPT ![c] = <<>>]
    <3>1. CASE Close(s)
      BY <3>1 DEF Go, TypeOK
    <3>2. CASE ~ Close(s)
      BY <1>7, <3>2
    <3>3. QED
      BY <3>1, <3>2
  <2>3. \A c \in Clients : down'[c] \in {down[c], <<>>}
    BY <2>2 DEF TypeOK
  <2>4. \A t \in Servers : server'[t] = "write" => server[t] = "write" /\ t # s
    BY <1>7 DEF Go, TypeOK
  <2>5. \A t \in Servers : t # s => got'[t] = got[t] /\ peer'[t] = peer[t]
    BY <1>7 DEF Gives, TypeOK
  <2>6. \A c \in Clients : Fits(down'[c], c)
    BY <1>1, <2>3 DEF Fits
  <2>7. QED
    BY <1>1, <2>1, <2>4, <2>5, <2>6, FittingKept
<1>8. ASSUME NEW c \in Clients,
             \/ Connect(c) \/ ConnectFails(c) \/ Send(c) \/ Receive(c)
             \/ Abort(c) \/ Lose(c) \/ Discard(c)
      PROVE  Fitting'
  <2> USE DEF Connect, ConnectFails, Send, Abort, Lose, Discard
  <2>1. UNCHANGED <<transport, server, got, peer>>
    BY <1>8 DEF Receive
  <2>2. \A d \in Clients : down'[d] \in {down[d], <<>>}
    BY <1>8 DEF Receive, TypeOK
  <2>3. \A d \in Clients : Fits(answer'[d], d)
    <3>1. CASE answer' = answer
      BY <1>1, <3>1
    <3>2. ASSUME NEW data \in Portion(down[c]),
                 answer' = [answer EXCEPT ![c] = data]
          PROVE  \A d \in Clients : Fits(answer'[d], d)
      <4>1. down[c] \in Seq(Pieces)
        BY DEF TypeOK
      <4>2. Fits(data, c)
        BY <1>1, <4>1, PortionFits
      <4>3. QED
        BY <1>1, <3>2, <4>2 DEF TypeOK
    <3>3. QED
      BY <1>8, <3>1, <3>2 DEF Receive
  <2>4. \A d \in Clients : Fits(down'[d], d)
    BY <1>1, <2>2 DEF Fits
  <2>5. QED
    BY <2>1, <2>3, <2>4, FittingKept
<1>9. CASE UNCHANGED vars
  BY <1>1, <1>9, FittingKept
<1>10. QED
  BY <1>4, <1>5, <1>6, <1>7, <1>8, <1>9 DEF Next, Serve

(* A server sets kraj, or leaves for a datagram, for a KRAJ that was said. *)
LEMMA AskedStep ==
  ASSUME TypeOK, Fitting, Asked, [Next]_vars
  PROVE  Asked'
<1>1. \A c \in Clients : Spoke(c) => Spoke(c)'
  BY SpokeStays
<1>2. ASSUME \A s \in Servers :
               s \in kraj' \/ server'[s] \in {"exit", "tidy", "done"} =>
                 \/ s \in kraj \/ server[s] \in {"exit", "tidy", "done"}
                 \/ \E c \in Clients : LastWord(Message[c]) /\ Spoke(c)
      PROVE  Asked'
  BY <1>1, <1>2 DEF Asked
<1>3. ASSUME NEW s \in Servers, Write(s) PROVE  Asked'
  <2>1. PICK c \in Clients, x \in Seq(Pieces) : c = peer[s] /\ x = got[s]
    BY <1>3 DEF Write, Go, TypeOK
  <2>2. Spoke(c) /\ (LastWord(x) => LastWord(Message[c]))
    BY <1>3, <2>1, AnswerFits DEF Write, Go, Fitting
  <2>3. kraj' = IF LastWord(x) THEN kraj \cup {s} ELSE kraj
    BY <1>3, <2>1 DEF Write
  <2>4. server' = [server EXCEPT ![s] = IF Stream THEN "close"
                                        ELSE IF LastWord(x) THEN "exit"
                                        ELSE "loop"]
    BY <1>3, <2>1 DEF Write, Go
  <2>5. QED
    BY <1>2, <2>2, <2>3, <2>4 DEF TypeOK
<1>4. ASSUME NEW s \in Servers,
             \/ Start(s) \/ Unlink(s) \/ Bind(s) \/ BindFails(s) \/ Listen(s)
             \/ Accept(s) \/ AcceptFails(s) \/ Read(s) \/ RecvFrom(s)
             \/ BrokenPipe(s) \/ Close(s) \/ CloseListener(s) \/ Tidy(s)
             \/ Kill(s)
      PROVE  Asked'
  <2> USE DEF Start, Unlink, Bind, BindFails, Listen, Accept, AcceptFails, Read,
              RecvFrom, BrokenPipe, Close, CloseListener, Tidy, Kill
  <2>1. kraj' = kraj
    BY <1>4
  <2>2. \A t \in Servers : server'[t] \in {"exit", "tidy", "done"} =>
                             t \in kraj \/ server[t] \in {"exit", "tidy", "done"}
    BY <1>4 DEF Go, TypeOK
  <2>3. QED
    BY <1>2, <2>1, <2>2
<1>5. ASSUME NEW c \in Clients,
             \/ Connect(c) \/ ConnectFails(c) \/ Send(c) \/ Receive(c)
             \/ Abort(c) \/ Lose(c) \/ Discard(c)
      PROVE  Asked'
  <2>1. UNCHANGED <<server, kraj>>
    BY <1>5 DEF Connect, ConnectFails, Send, Receive, Abort, Lose, Discard
  <2>2. QED
    BY <1>2, <2>1
<1>6. CASE UNCHANGED vars
  BY <1>2, <1>6
<1>7. QED
  BY <1>3, <1>4, <1>5, <1>6 DEF Next, Serve

-----------------------------------------------------------------------------
(* The invariant                                                           *)

Conversation == OnePlace /\ Said /\ Unread /\ Fitting /\ Asked

(* The conversations stay in order from the start.                         *)
LEMMA ConversationHolds == Spec => []Conversation
<1>1. Init => Conversation
  <2>1. SUFFICES ASSUME Init PROVE  Conversation
    OBVIOUS
  <2>2. OnePlace
    BY <2>1, NoneAssumption, EmptySeq
       DEF Init, OnePlace, OneHand, OneWait, NoneBefore, Waits
  <2>3. Said /\ Unread
    BY <2>1 DEF Init, Said, Unread
  <2>4. Fitting
    BY <2>1 DEF Init, Fitting, Fits
  <2>5. Asked
    BY <2>1 DEF Init, Asked
  <2>6. QED
    BY <2>2, <2>3, <2>4, <2>5 DEF Conversation
<1>2. TypeOK /\ Conversation /\ [Next]_vars => Conversation'
  BY OnePlaceStep, SaidStep, UnreadStep, FittingStep, AskedStep
     DEF Conversation
<1>3. QED
  BY <1>1, <1>2, TypeCorrect, PTL DEF Spec

(* Whatever is killed, lost, doubled, cut short or restarted, a client     *)
(* prints what belongs to its own message, never to another client's.      *)
THEOREM AnswersBelong == Spec => []AnswersMatch
<1>1. Conversation => AnswersMatch
  BY DEF Conversation, Fitting, Fits, Reply, AnswersMatch
<1>2. QED
  BY <1>1, ConversationHolds, PTL

(* No server leaves its while (!kraj) unless a client that has sent its    *)
(* message asked for it.                                                   *)
THEOREM NobodyLeavesUnasked == Spec => []LeavesOnRequest
<1>1. Conversation => LeavesOnRequest
  BY DEF Conversation, Asked, Spoke, LeavesOnRequest
<1>2. QED
  BY <1>1, ConversationHolds, PTL
=============================================================================
