------------------------ MODULE TcpServerForkProofs ------------------------
(***************************************************************************)
(* What tcp_server_fork.c guarantees for every number of clients, every    *)
(* sequence of messages and every bound on failures, interrupts and killed *)
(* clients.  The inductive invariant joins the type invariant with         *)
(*   NoForgottenZombie, OneConnectionInHand   inductive as they stand      *)
(*   LateIsLast   says where the server can be after an accept with the    *)
(*                flag already set; it gives AtMostOneMore                 *)
(*   ServedOnce   says that a connection is in the backlog or in the hand  *)
(*                of the server only before its child exists; it gives     *)
(*                StopIsRemembered, for a second child of one connection   *)
(*                could undo what the first one has sent                   *)
(* and each of them is preserved by every action on its own.               *)
(*                                                                         *)
(* The second half is what a client can rely on: the answers are its       *)
(* messages in order (AnswersAreEchoes), nobody is dropped without a       *)
(* reason (NobodyIsDropped), and the server is, taken as a whole, the      *)
(* abstract echo service (ServerIsAnEchoService).                          *)
(*                                                                         *)
(* For the first, what was sent is, as long as the child serves and the    *)
(* client listens, exactly answers, buffer and socket one after the other  *)
(* (Stream); when either leaves, something is lost, but answers no longer  *)
(* grow.  For the second, every connection must be accounted for from the  *)
(* backlog to the end of its child (Accounted).  The third rests on both   *)
(* and on why the server is leaving: an order to stop goes back to Ctrl+C  *)
(* or to a KRAJ that some client has said (Causes).                        *)
(***************************************************************************)
EXTENDS TcpServerFork, SequenceTheorems, TLAPS

(* The groups of variables that frame conditions name.                     *)
USE DEF vars, flags, server, serving, sockets, peers, bounds, world

(* Every step keeps the types.                                             *)
LEMMA TypeStep ==
  ASSUME TypeOK, [Next]_vars
  PROVE  TypeOK'
<1> USE ScriptAssumption, BoundsAssumption
    DEF Live, ChildStates, ClientStates, StopSignals
<1>1. ASSUME Listen PROVE  TypeOK'
  BY <1>1 DEF Listen, Step, TypeOK
<1>2. ASSUME Test PROVE  TypeOK'
  BY <1>2 DEF Test, Step, TypeOK
<1>3. ASSUME Block PROVE  TypeOK'
  BY <1>3 DEF Block, Step, TypeOK
<1>4. ASSUME Accept PROVE  TypeOK'
  <2>1. /\ Head(backlog) \in Clients
        /\ Tail(backlog) \in Seq(Clients)
    BY <1>4, HeadTailProperties DEF Accept, TypeOK
  <2>2. /\ fd_klijent' \in Clients
        /\ backlog' \in Seq(Clients)
    BY <1>4, <2>1 DEF Accept
  <2>3. holders' \in [Clients -> SUBSET {"parent", "child"}]
    BY <1>4 DEF Accept, TypeOK
  <2>4. late' \in Nat
    BY <1>4 DEF Accept, TypeOK
  <2>5. pc' = "fork"
    BY <1>4 DEF Accept, Step
  <2>6. QED
    BY <1>4, <2>2, <2>3, <2>4, <2>5 DEF Accept, TypeOK
<1>5. ASSUME AcceptFails PROVE  TypeOK'
  BY <1>5 DEF AcceptFails, Step, TypeOK
<1>6. ASSUME Fork PROVE  TypeOK'
  BY <1>6 DEF Fork, Step, TypeOK
<1>7. ASSUME ForkFails PROVE  TypeOK'
  BY <1>7 DEF ForkFails, Step, TypeOK
<1>8. ASSUME ParentCloses PROVE  TypeOK'
  BY <1>8 DEF ParentCloses, Step, TypeOK
<1>9. ASSUME Leave PROVE  TypeOK'
  BY <1>9 DEF Leave, Step, TypeOK
<1>10. ASSUME NEW s \in StopSignals, rukovatelj_zaustavi(s) PROVE  TypeOK'
  BY <1>10 DEF rukovatelj_zaustavi, TypeOK
<1>11. ASSUME EnterSigchld PROVE  TypeOK'
  BY <1>11 DEF EnterSigchld, TypeOK
<1>12. ASSUME NEW c \in Clients, Reap(c) PROVE  TypeOK'
  BY <1>12 DEF Reap, TypeOK
<1>13. ASSUME ReapEnd PROVE  TypeOK'
  BY <1>13 DEF ReapEnd, TypeOK
<1>14. ASSUME NEW c \in Clients, DropListener(c) PROVE  TypeOK'
  <2>1. backlog' \in Seq(Clients)
    BY <1>14, EmptySeq DEF DropListener, TypeOK
  <2>2. QED
    BY <1>14, <2>1 DEF DropListener, Child, TypeOK
<1>15. ASSUME NEW c \in Clients, Read(c) PROVE  TypeOK'
  <2>1. PICK n \in 1 .. Len(inp[c]) :
          /\ chunk' = [chunk EXCEPT ![c] = SubSeq(inp[c], 1, n)]
          /\ inp' = [inp EXCEPT ![c] = SubSeq(inp[c], n + 1, Len(inp[c]))]
    BY <1>15 DEF Read
  <2>2. inp[c] \in Seq(Messages)
    BY DEF TypeOK
  <2>3. /\ SubSeq(inp[c], 1, n) \in Seq(Messages)
        /\ SubSeq(inp[c], n + 1, Len(inp[c])) \in Seq(Messages)
        /\ Len(SubSeq(inp[c], 1, n)) = n
    BY <2>2, SubSeqProperties, LenProperties
  <2>4. SubSeq(inp[c], 1, n) # <<>>
    BY <2>3, SMT
  <2>5. QED
    BY <1>15, <2>1, <2>3, <2>4 DEF Read, Child, TypeOK
<1>16. ASSUME NEW c \in Clients, ReadEnd(c) PROVE  TypeOK'
  BY <1>16 DEF ReadEnd, Child, TypeOK
<1>17. ASSUME NEW c \in Clients, AnswerEnd(c) PROVE  TypeOK'
  BY <1>17, SMTT(30) DEF AnswerEnd, Child, Write, TypeOK
<1>18. ASSUME NEW c \in Clients, Echo(c) PROVE  TypeOK'
  BY <1>18, SMTT(30) DEF Echo, Child, Write, TypeOK
<1>19. ASSUME NEW c \in Clients, BrokenPipe(c) PROVE  TypeOK'
  BY <1>19 DEF BrokenPipe, Ends, TypeOK
<1>20. ASSUME NEW c \in Clients, Kill(c) PROVE  TypeOK'
  BY <1>20 DEF Kill, Child, TypeOK
<1>21. ASSUME NEW c \in Clients, ChildCloses(c) PROVE  TypeOK'
  BY <1>21 DEF ChildCloses, Child, TypeOK
<1>22. ASSUME NEW c \in Clients, Exit(c) PROVE  TypeOK'
  BY <1>22 DEF Exit, Ends, TypeOK
<1>23. ASSUME NEW c \in Clients, ChildInterrupted(c) PROVE  TypeOK'
  BY <1>23 DEF ChildInterrupted, Child, TypeOK
<1>24. ASSUME NEW c \in Clients, Connect(c) PROVE  TypeOK'
  <2>1. backlog' \in Seq(Clients)
    <3>1. backlog \in Seq(Clients)
      BY DEF TypeOK
    <3>2. Append(backlog, c) \in Seq(Clients)
      BY <3>1, AppendProperties
    <3>3. QED
      BY <1>24, <3>1, <3>2 DEF Connect
  <2>2. client' \in [Clients -> ClientStates]
    BY <1>24 DEF Connect, TypeOK
  <2>3. QED
    BY <1>24, <2>1, <2>2 DEF Connect, TypeOK
<1>25. ASSUME NEW c \in Clients, Send(c) PROVE  TypeOK'
  <2>1. sent[c] + 1 \in 1 .. Len(Script[c])
    BY <1>25, LenProperties DEF Send, TypeOK
  <2>2. Script[c][sent[c] + 1] \in Messages
    BY <2>1, ElementOfSeq
  <2>3. Append(inp[c], Script[c][sent[c] + 1]) \in Seq(Messages)
    BY <2>2, AppendProperties DEF TypeOK
  <2>4. QED
    BY <1>25, <2>1, <2>3 DEF Send, TypeOK
<1>26. ASSUME NEW c \in Clients, Close(c) PROVE  TypeOK'
  BY <1>26 DEF Close, TypeOK
<1>27. ASSUME NEW c \in Clients, CutOff(c) PROVE  TypeOK'
  BY <1>27 DEF CutOff, TypeOK
<1>28. ASSUME NEW c \in Clients, Abort(c) PROVE  TypeOK'
  BY <1>28 DEF Abort, TypeOK
<1>29. ASSUME CtrlC PROVE  TypeOK'
  BY <1>29 DEF CtrlC, TypeOK
<1>30. ASSUME UNCHANGED vars PROVE  TypeOK'
  BY <1>30 DEF TypeOK
<1>31. QED
  BY <1>1, <1>2, <1>3, <1>4, <1>5, <1>6, <1>7, <1>8, <1>9, <1>10, <1>11,
     <1>12, <1>13, <1>14, <1>15, <1>16, <1>17, <1>18, <1>19, <1>20, <1>21,
     <1>22, <1>23, <1>24, <1>25, <1>26, <1>27, <1>28, <1>29, <1>30
     DEF Next, Server, posluzi_klijenta, Talk

(* Every step keeps the link between zombies and SIGCHLD: a child that     *)
(* ends raises it, and the handler is left only when nobody waits to be    *)
(* reaped.                                                                 *)
LEMMA ZombieStep ==
  ASSUME TypeOK, NoForgottenZombie, [Next]_vars
  PROVE  NoForgottenZombie'
<1>1. ASSUME Listen PROVE  NoForgottenZombie'
  BY <1>1
     DEF Listen, Step, NoForgottenZombie, TypeOK, ChildStates, Live,
         StopSignals
<1>2. ASSUME Test PROVE  NoForgottenZombie'
  BY <1>2
     DEF Test, Step, NoForgottenZombie, TypeOK, ChildStates, Live, StopSignals
<1>3. ASSUME Block PROVE  NoForgottenZombie'
  BY <1>3
     DEF Block, Step, NoForgottenZombie, TypeOK, ChildStates, Live, StopSignals
<1>4. ASSUME Accept PROVE  NoForgottenZombie'
  BY <1>4
     DEF Accept, Step, NoForgottenZombie, TypeOK, ChildStates, Live,
         StopSignals
<1>5. ASSUME AcceptFails PROVE  NoForgottenZombie'
  BY <1>5
     DEF AcceptFails, Step, NoForgottenZombie, TypeOK, ChildStates, Live,
         StopSignals
<1>6. ASSUME Fork PROVE  NoForgottenZombie'
  BY <1>6
     DEF Fork, Step, NoForgottenZombie, TypeOK, ChildStates, Live, StopSignals
<1>7. ASSUME ForkFails PROVE  NoForgottenZombie'
  BY <1>7
     DEF ForkFails, Step, NoForgottenZombie, TypeOK, ChildStates, Live,
         StopSignals
<1>8. ASSUME ParentCloses PROVE  NoForgottenZombie'
  BY <1>8
     DEF ParentCloses, Step, NoForgottenZombie, TypeOK, ChildStates, Live,
         StopSignals
<1>9. ASSUME Leave PROVE  NoForgottenZombie'
  BY <1>9
     DEF Leave, Step, NoForgottenZombie, TypeOK, ChildStates, Live, StopSignals
<1>10. ASSUME NEW s \in StopSignals, rukovatelj_zaustavi(s)
      PROVE  NoForgottenZombie'
  BY <1>10
     DEF rukovatelj_zaustavi, Running, NoForgottenZombie, TypeOK, ChildStates,
         Live, StopSignals
<1>11. ASSUME EnterSigchld PROVE  NoForgottenZombie'
  BY <1>11
     DEF EnterSigchld, Running, NoForgottenZombie, TypeOK, ChildStates, Live,
         StopSignals
<1>12. ASSUME NEW c \in Clients, Reap(c) PROVE  NoForgottenZombie'
  BY <1>12 DEF Reap, NoForgottenZombie, TypeOK, ChildStates, Live, StopSignals
<1>13. ASSUME ReapEnd PROVE  NoForgottenZombie'
  BY <1>13
     DEF ReapEnd, NoForgottenZombie, TypeOK, ChildStates, Live, StopSignals
<1>14. ASSUME NEW c \in Clients, DropListener(c) PROVE  NoForgottenZombie'
  BY <1>14
     DEF DropListener, Child, NoForgottenZombie, TypeOK, ChildStates, Live,
         StopSignals
<1>15. ASSUME NEW c \in Clients, Read(c) PROVE  NoForgottenZombie'
  BY <1>15
     DEF Read, Child, NoForgottenZombie, TypeOK, ChildStates, Live, StopSignals
<1>16. ASSUME NEW c \in Clients, ReadEnd(c) PROVE  NoForgottenZombie'
  BY <1>16
     DEF ReadEnd, Child, NoForgottenZombie, TypeOK, ChildStates, Live,
         StopSignals
<1>17. ASSUME NEW c \in Clients, AnswerEnd(c) PROVE  NoForgottenZombie'
  BY <1>17
     DEF AnswerEnd, Child, Write, NoForgottenZombie, TypeOK, ChildStates, Live,
         StopSignals
<1>18. ASSUME NEW c \in Clients, Echo(c) PROVE  NoForgottenZombie'
  BY <1>18
     DEF Echo, Child, Write, NoForgottenZombie, TypeOK, ChildStates, Live,
         StopSignals
<1>19. ASSUME NEW c \in Clients, BrokenPipe(c) PROVE  NoForgottenZombie'
  BY <1>19
     DEF BrokenPipe, Ends, NoForgottenZombie, TypeOK, ChildStates, Live,
         StopSignals
<1>20. ASSUME NEW c \in Clients, Kill(c) PROVE  NoForgottenZombie'
  BY <1>20
     DEF Kill, Child, NoForgottenZombie, TypeOK, ChildStates, Live, StopSignals
<1>21. ASSUME NEW c \in Clients, ChildCloses(c) PROVE  NoForgottenZombie'
  BY <1>21
     DEF ChildCloses, Child, NoForgottenZombie, TypeOK, ChildStates, Live,
         StopSignals
<1>22. ASSUME NEW c \in Clients, Exit(c) PROVE  NoForgottenZombie'
  BY <1>22
     DEF Exit, Ends, NoForgottenZombie, TypeOK, ChildStates, Live, StopSignals
<1>23. ASSUME NEW c \in Clients, ChildInterrupted(c) PROVE  NoForgottenZombie'
  BY <1>23
     DEF ChildInterrupted, Child, NoForgottenZombie, TypeOK, ChildStates, Live,
         StopSignals
<1>24. ASSUME NEW c \in Clients, Connect(c) \/ Talk(c) \/ Abort(c)
      PROVE  NoForgottenZombie'
  BY <1>24
     DEF Connect, Talk, Send, Close, CutOff, Abort, NoForgottenZombie, TypeOK,
         ChildStates, Live, StopSignals
<1>25. ASSUME CtrlC PROVE  NoForgottenZombie'
  BY <1>25
     DEF CtrlC, Running, NoForgottenZombie, TypeOK, ChildStates, Live,
         StopSignals
<1>26. ASSUME UNCHANGED vars PROVE  NoForgottenZombie'
  BY <1>26 DEF NoForgottenZombie, TypeOK, ChildStates, Live, StopSignals
<1>27. QED
  BY <1>1, <1>2, <1>3, <1>4, <1>5, <1>6, <1>7, <1>8, <1>9, <1>10, <1>11,
     <1>12, <1>13, <1>14, <1>15, <1>16, <1>17, <1>18, <1>19, <1>20, <1>21,
     <1>22, <1>23, <1>24, <1>25, <1>26
     DEF Next, Server, posluzi_klijenta

(* Every step keeps the copies of the parent closed outside its round.     *)
LEMMA HandStep ==
  ASSUME TypeOK, OneConnectionInHand, [Next]_vars
  PROVE  OneConnectionInHand'
<1>1. ASSUME Listen PROVE  OneConnectionInHand'
  BY <1>1 DEF Listen, Step, OneConnectionInHand, TypeOK
<1>2. ASSUME Test PROVE  OneConnectionInHand'
  BY <1>2 DEF Test, Step, OneConnectionInHand, TypeOK
<1>3. ASSUME Block PROVE  OneConnectionInHand'
  BY <1>3 DEF Block, Step, OneConnectionInHand, TypeOK
<1>4. ASSUME Accept PROVE  OneConnectionInHand'
  BY <1>4 DEF Accept, Step, OneConnectionInHand, TypeOK
<1>5. ASSUME AcceptFails PROVE  OneConnectionInHand'
  BY <1>5 DEF AcceptFails, Step, OneConnectionInHand, TypeOK
<1>6. ASSUME Fork PROVE  OneConnectionInHand'
  BY <1>6 DEF Fork, Step, OneConnectionInHand, TypeOK
<1>7. ASSUME ForkFails PROVE  OneConnectionInHand'
  BY <1>7 DEF ForkFails, Step, OneConnectionInHand, TypeOK
<1>8. ASSUME ParentCloses PROVE  OneConnectionInHand'
  BY <1>8 DEF ParentCloses, Step, OneConnectionInHand, TypeOK
<1>9. ASSUME Leave PROVE  OneConnectionInHand'
  BY <1>9 DEF Leave, Step, OneConnectionInHand, TypeOK
<1>10. ASSUME NEW s \in StopSignals, rukovatelj_zaustavi(s)
      PROVE  OneConnectionInHand'
  BY <1>10 DEF rukovatelj_zaustavi, Running, OneConnectionInHand, TypeOK
<1>11. ASSUME EnterSigchld PROVE  OneConnectionInHand'
  BY <1>11 DEF EnterSigchld, Running, OneConnectionInHand, TypeOK
<1>12. ASSUME NEW c \in Clients, Reap(c) PROVE  OneConnectionInHand'
  BY <1>12 DEF Reap, OneConnectionInHand, TypeOK
<1>13. ASSUME ReapEnd PROVE  OneConnectionInHand'
  BY <1>13 DEF ReapEnd, OneConnectionInHand, TypeOK
<1>14. ASSUME NEW c \in Clients, DropListener(c) PROVE  OneConnectionInHand'
  BY <1>14 DEF DropListener, Child, OneConnectionInHand, TypeOK
<1>15. ASSUME NEW c \in Clients, Read(c) PROVE  OneConnectionInHand'
  BY <1>15 DEF Read, Child, OneConnectionInHand, TypeOK
<1>16. ASSUME NEW c \in Clients, ReadEnd(c) PROVE  OneConnectionInHand'
  BY <1>16 DEF ReadEnd, Child, OneConnectionInHand, TypeOK
<1>17. ASSUME NEW c \in Clients, AnswerEnd(c) PROVE  OneConnectionInHand'
  BY <1>17 DEF AnswerEnd, Child, Write, OneConnectionInHand, TypeOK
<1>18. ASSUME NEW c \in Clients, Echo(c) PROVE  OneConnectionInHand'
  BY <1>18 DEF Echo, Child, Write, OneConnectionInHand, TypeOK
<1>19. ASSUME NEW c \in Clients, BrokenPipe(c) PROVE  OneConnectionInHand'
  BY <1>19 DEF BrokenPipe, Ends, OneConnectionInHand, TypeOK
<1>20. ASSUME NEW c \in Clients, Kill(c) PROVE  OneConnectionInHand'
  BY <1>20 DEF Kill, Child, OneConnectionInHand, TypeOK
<1>21. ASSUME NEW c \in Clients, ChildCloses(c) PROVE  OneConnectionInHand'
  BY <1>21 DEF ChildCloses, Child, OneConnectionInHand, TypeOK
<1>22. ASSUME NEW c \in Clients, Exit(c) PROVE  OneConnectionInHand'
  BY <1>22 DEF Exit, Ends, OneConnectionInHand, TypeOK
<1>23. ASSUME NEW c \in Clients, ChildInterrupted(c)
      PROVE  OneConnectionInHand'
  BY <1>23 DEF ChildInterrupted, Child, OneConnectionInHand, TypeOK
<1>24. ASSUME NEW c \in Clients, Connect(c) \/ Talk(c) \/ Abort(c)
      PROVE  OneConnectionInHand'
  BY <1>24
     DEF Connect, Talk, Send, Close, CutOff, Abort, OneConnectionInHand, TypeOK
<1>25. ASSUME CtrlC PROVE  OneConnectionInHand'
  BY <1>25 DEF CtrlC, Running, OneConnectionInHand, TypeOK
<1>26. ASSUME UNCHANGED vars PROVE  OneConnectionInHand'
  BY <1>26 DEF OneConnectionInHand, TypeOK
<1>27. QED
  BY <1>1, <1>2, <1>3, <1>4, <1>5, <1>6, <1>7, <1>8, <1>9, <1>10, <1>11,
     <1>12, <1>13, <1>14, <1>15, <1>16, <1>17, <1>18, <1>19, <1>20, <1>21,
     <1>22, <1>23, <1>24, <1>25, <1>26
     DEF Next, Server, posluzi_klijenta

(* Once a connection was accepted with the flag set, the server is between *)
(* that accept and the end of the loop.                                    *)
LateIsLast ==
  \/ late = 0
  \/ late = 1 /\ zaustavi /\ pc \in {"fork", "close", "test", "done"}

(* A connection accepted with the flag set is the last one: the loop is    *)
(* left at its next test.                                                  *)
LEMMA LateStep ==
  ASSUME TypeOK, LateIsLast, [Next]_vars
  PROVE  LateIsLast'
<1>1. ASSUME Listen PROVE  LateIsLast'
  BY <1>1 DEF Listen, Step, LateIsLast, TypeOK
<1>2. ASSUME Test PROVE  LateIsLast'
  BY <1>2 DEF Test, Step, LateIsLast, TypeOK
<1>3. ASSUME Block PROVE  LateIsLast'
  BY <1>3 DEF Block, Step, LateIsLast, TypeOK
<1>4. ASSUME Accept PROVE  LateIsLast'
  BY <1>4 DEF Accept, Step, LateIsLast, TypeOK
<1>5. ASSUME AcceptFails PROVE  LateIsLast'
  BY <1>5 DEF AcceptFails, Step, LateIsLast, TypeOK
<1>6. ASSUME Fork PROVE  LateIsLast'
  BY <1>6 DEF Fork, Step, LateIsLast, TypeOK
<1>7. ASSUME ForkFails PROVE  LateIsLast'
  BY <1>7 DEF ForkFails, Step, LateIsLast, TypeOK
<1>8. ASSUME ParentCloses PROVE  LateIsLast'
  BY <1>8 DEF ParentCloses, Step, LateIsLast, TypeOK
<1>9. ASSUME Leave PROVE  LateIsLast'
  BY <1>9 DEF Leave, Step, LateIsLast, TypeOK
<1>10. ASSUME NEW s \in StopSignals, rukovatelj_zaustavi(s) PROVE  LateIsLast'
  BY <1>10 DEF rukovatelj_zaustavi, Running, LateIsLast, TypeOK
<1>11. ASSUME EnterSigchld PROVE  LateIsLast'
  BY <1>11 DEF EnterSigchld, Running, LateIsLast, TypeOK
<1>12. ASSUME NEW c \in Clients, Reap(c) PROVE  LateIsLast'
  BY <1>12 DEF Reap, LateIsLast, TypeOK
<1>13. ASSUME ReapEnd PROVE  LateIsLast'
  BY <1>13 DEF ReapEnd, LateIsLast, TypeOK
<1>14. ASSUME NEW c \in Clients, DropListener(c) PROVE  LateIsLast'
  BY <1>14 DEF DropListener, Child, LateIsLast, TypeOK
<1>15. ASSUME NEW c \in Clients, Read(c) PROVE  LateIsLast'
  BY <1>15 DEF Read, Child, LateIsLast, TypeOK
<1>16. ASSUME NEW c \in Clients, ReadEnd(c) PROVE  LateIsLast'
  BY <1>16 DEF ReadEnd, Child, LateIsLast, TypeOK
<1>17. ASSUME NEW c \in Clients, AnswerEnd(c) PROVE  LateIsLast'
  BY <1>17 DEF AnswerEnd, Child, Write, LateIsLast, TypeOK
<1>18. ASSUME NEW c \in Clients, Echo(c) PROVE  LateIsLast'
  BY <1>18 DEF Echo, Child, Write, LateIsLast, TypeOK
<1>19. ASSUME NEW c \in Clients, BrokenPipe(c) PROVE  LateIsLast'
  BY <1>19 DEF BrokenPipe, Ends, LateIsLast, TypeOK
<1>20. ASSUME NEW c \in Clients, Kill(c) PROVE  LateIsLast'
  BY <1>20 DEF Kill, Child, LateIsLast, TypeOK
<1>21. ASSUME NEW c \in Clients, ChildCloses(c) PROVE  LateIsLast'
  BY <1>21 DEF ChildCloses, Child, LateIsLast, TypeOK
<1>22. ASSUME NEW c \in Clients, Exit(c) PROVE  LateIsLast'
  BY <1>22 DEF Exit, Ends, LateIsLast, TypeOK
<1>23. ASSUME NEW c \in Clients, ChildInterrupted(c) PROVE  LateIsLast'
  BY <1>23 DEF ChildInterrupted, Child, LateIsLast, TypeOK
<1>24. ASSUME NEW c \in Clients, Connect(c) \/ Talk(c) \/ Abort(c)
      PROVE  LateIsLast'
  BY <1>24 DEF Connect, Talk, Send, Close, CutOff, Abort, LateIsLast, TypeOK
<1>25. ASSUME CtrlC PROVE  LateIsLast'
  BY <1>25 DEF CtrlC, Running, LateIsLast, TypeOK
<1>26. ASSUME UNCHANGED vars PROVE  LateIsLast'
  BY <1>26 DEF LateIsLast, TypeOK
<1>27. QED
  BY <1>1, <1>2, <1>3, <1>4, <1>5, <1>6, <1>7, <1>8, <1>9, <1>10, <1>11,
     <1>12, <1>13, <1>14, <1>15, <1>16, <1>17, <1>18, <1>19, <1>20, <1>21,
     <1>22, <1>23, <1>24, <1>25, <1>26
     DEF Next, Server, posluzi_klijenta

(* A connection waits in the backlog, or is in the server's hand, before   *)
(* its child exists; it is there once.                                     *)
Fresh(c) == Queued(c) \/ (pc = "fork" /\ fd_klijent = c)

ServedOnce ==
  /\ \A c \in Clients :
       client[c] \in {"idle", "refused"} => ~ Fresh(c) /\ child[c] = "none"
  /\ \A c \in Clients : Fresh(c) => child[c] = "none"
  /\ pc = "fork" => ~ Queued(fd_klijent)
  /\ \A j, k \in 1 .. Len(backlog) : backlog[j] = backlog[k] => j = k

(* What Head, Tail and Append do to the backlog.                           *)
LEMMA QueueStep ==
  ASSUME TypeOK
  PROVE  /\ backlog # <<>> =>
              /\ Head(backlog) \in Clients
              /\ backlog[1] = Head(backlog)
              /\ Len(Tail(backlog)) = Len(backlog) - 1
              /\ \A k \in 1 .. Len(backlog) - 1 :
                   Tail(backlog)[k] = backlog[k + 1]
         /\ \A c \in Clients :
              /\ Len(Append(backlog, c)) = Len(backlog) + 1
              /\ Append(backlog, c)[Len(backlog) + 1] = c
              /\ \A k \in 1 .. Len(backlog) : Append(backlog, c)[k] = backlog[k]
<1>1. backlog \in Seq(Clients)
  BY DEF TypeOK
<1>2. QED
  BY <1>1, HeadTailProperties, AppendProperties

(* A connection moves from the client to the backlog, to the hand of the   *)
(* server and to one child, and never back.                                *)
LEMMA ServedOnceStep ==
  ASSUME TypeOK, ServedOnce, [Next]_vars
  PROVE  ServedOnce'
<1>1. ASSUME Listen PROVE  ServedOnce'
  BY <1>1 DEF Listen, Step, ServedOnce, Fresh, Queued, TypeOK
<1>2. ASSUME Test PROVE  ServedOnce'
  BY <1>2 DEF Test, Step, ServedOnce, Fresh, Queued, TypeOK
<1>3. ASSUME Block PROVE  ServedOnce'
  BY <1>3 DEF Block, Step, ServedOnce, Fresh, Queued, TypeOK
<1>4. ASSUME Accept PROVE  ServedOnce'
  <2>1. /\ backlog # <<>> /\ fd_klijent' = backlog[1] /\ fd_klijent' \in Clients
        /\ Len(backlog') = Len(backlog) - 1
        /\ \A k \in 1 .. Len(backlog') : backlog'[k] = backlog[k + 1]
        /\ Len(backlog) \in Nat \ {0}
    BY <1>4, QueueStep, EmptySeq DEF Accept, TypeOK
  <2>2. Queued(fd_klijent')
    BY <2>1 DEF Queued
  <2>3. \A c \in Clients : Queued(c)' => Queued(c)
    BY <2>1 DEF Queued
  <2>4. ~ Queued(fd_klijent)'
    BY <2>1 DEF Queued, ServedOnce
  <2>5. \A j, k \in 1 .. Len(backlog') : backlog'[j] = backlog'[k] => j = k
    BY <2>1 DEF ServedOnce
  <2>6. UNCHANGED <<client, child>>
    BY <1>4 DEF Accept
  <2>7. \A c \in Clients : Fresh(c)' => Fresh(c)
    BY <2>1, <2>2, <2>3 DEF Fresh
  <2>8. QED
    BY <2>4, <2>5, <2>6, <2>7 DEF ServedOnce
<1>5. ASSUME AcceptFails PROVE  ServedOnce'
  BY <1>5 DEF AcceptFails, Step, ServedOnce, Fresh, Queued, TypeOK
<1>6. ASSUME Fork PROVE  ServedOnce'
  BY <1>6, ZenonT(60) DEF Fork, Step, ServedOnce, Fresh, Queued, TypeOK
<1>7. ASSUME ForkFails PROVE  ServedOnce'
  BY <1>7 DEF ForkFails, Step, ServedOnce, Fresh, Queued, TypeOK
<1>8. ASSUME ParentCloses PROVE  ServedOnce'
  BY <1>8 DEF ParentCloses, Step, ServedOnce, Fresh, Queued, TypeOK
<1>9. ASSUME Leave PROVE  ServedOnce'
  <2>1. /\ backlog' = backlog \/ backlog' = <<>>
        /\ pc' = "done" /\ client' = client
        /\ \A c \in Clients : child[c] = "none" => child'[c] = "none"
    BY <1>9 DEF Leave, Step, TypeOK
  <2>2. QED
    BY <2>1 DEF ServedOnce, Fresh, Queued
<1>10. ASSUME NEW s \in StopSignals, rukovatelj_zaustavi(s) PROVE  ServedOnce'
  BY <1>10 DEF rukovatelj_zaustavi, Running, ServedOnce, Fresh, Queued, TypeOK
<1>11. ASSUME EnterSigchld PROVE  ServedOnce'
  BY <1>11 DEF EnterSigchld, Running, ServedOnce, Fresh, Queued, TypeOK
<1>12. ASSUME NEW c \in Clients, Reap(c) PROVE  ServedOnce'
  BY <1>12, ZenonT(60) DEF Reap, ServedOnce, Fresh, Queued, TypeOK
<1>13. ASSUME ReapEnd PROVE  ServedOnce'
  BY <1>13 DEF ReapEnd, ServedOnce, Fresh, Queued, TypeOK
<1>14. ASSUME NEW c \in Clients, DropListener(c) PROVE  ServedOnce'
  <2>1. /\ backlog' = backlog \/ backlog' = <<>>
        /\ pc' = pc /\ fd_klijent' = fd_klijent /\ client' = client
        /\ child[c] = "start"
        /\ \A d \in Clients : child[d] = "none" => child'[d] = "none"
    BY <1>14 DEF DropListener, Child, TypeOK
  <2>2. CASE backlog' = backlog
    <3>1. \A d \in Clients : Fresh(d)' <=> Fresh(d)
      BY <2>1, <2>2 DEF Fresh, Queued
    <3>2. pc' = "fork" => ~ Queued(fd_klijent)'
      BY <2>1, <2>2 DEF ServedOnce, Queued
    <3>3. QED
      BY <2>1, <2>2, <3>1, <3>2 DEF ServedOnce
  <2>3. CASE backlog' = <<>>
    <3>1. \A d \in Clients : Fresh(d)' => Fresh(d)
      BY <2>1, <2>3 DEF Fresh, Queued
    <3>2. ~ Queued(fd_klijent)'
      BY <2>3 DEF Queued
    <3>3. QED
      BY <2>1, <2>3, <3>1, <3>2 DEF ServedOnce
  <2>4. QED
    BY <2>1, <2>2, <2>3
<1>15. ASSUME NEW c \in Clients, Read(c) PROVE  ServedOnce'
  BY <1>15, ZenonT(60) DEF Read, Child, ServedOnce, Fresh, Queued, TypeOK
<1>16. ASSUME NEW c \in Clients, ReadEnd(c) PROVE  ServedOnce'
  BY <1>16, ZenonT(60) DEF ReadEnd, Child, ServedOnce, Fresh, Queued, TypeOK
<1>17. ASSUME NEW c \in Clients, AnswerEnd(c) PROVE  ServedOnce'
  BY <1>17, ZenonT(60)
     DEF AnswerEnd, Child, Write, ServedOnce, Fresh, Queued, TypeOK
<1>18. ASSUME NEW c \in Clients, Echo(c) PROVE  ServedOnce'
  BY <1>18, ZenonT(60)
     DEF Echo, Child, Write, ServedOnce, Fresh, Queued, TypeOK
<1>19. ASSUME NEW c \in Clients, BrokenPipe(c) PROVE  ServedOnce'
  BY <1>19, ZenonT(60) DEF BrokenPipe, Ends, ServedOnce, Fresh, Queued, TypeOK
<1>20. ASSUME NEW c \in Clients, Kill(c) PROVE  ServedOnce'
  BY <1>20, ZenonT(60) DEF Kill, Child, ServedOnce, Fresh, Queued, TypeOK
<1>21. ASSUME NEW c \in Clients, ChildCloses(c) PROVE  ServedOnce'
  BY <1>21, ZenonT(60)
     DEF ChildCloses, Child, ServedOnce, Fresh, Queued, TypeOK
<1>22. ASSUME NEW c \in Clients, Exit(c) PROVE  ServedOnce'
  BY <1>22, ZenonT(60) DEF Exit, Ends, ServedOnce, Fresh, Queued, TypeOK
<1>23. ASSUME NEW c \in Clients, ChildInterrupted(c) PROVE  ServedOnce'
  BY <1>23, ZenonT(60)
     DEF ChildInterrupted, Child, ServedOnce, Fresh, Queued, TypeOK
<1>24. ASSUME NEW c \in Clients, Connect(c) \/ Talk(c) \/ Abort(c)
      PROVE  ServedOnce'
  <2>1. UNCHANGED <<pc, fd_klijent, child>>
    BY <1>24 DEF Connect, Talk, Send, Close, CutOff, Abort
  <2>2. CASE backlog' = backlog
    <3>1. \A d \in Clients : client'[d] \in {"idle", "refused"} =>
                             client[d] \in {"idle", "refused"}
      BY <1>24 DEF Connect, Talk, Send, Close, CutOff, Abort, TypeOK
    <3>2. QED
      BY <2>1, <2>2, <3>1 DEF ServedOnce, Fresh, Queued
  <2>3. CASE backlog' # backlog
    <3>1. /\ client[c] = "idle"
          /\ client' = [client EXCEPT ![c] = "connected"]
          /\ backlog' = Append(backlog, c)
      BY <1>24, <2>3 DEF Connect, Talk, Send, Close, CutOff, Abort
    <3>2. /\ Len(backlog') = Len(backlog) + 1
          /\ backlog'[Len(backlog) + 1] = c
          /\ \A k \in 1 .. Len(backlog) : backlog'[k] = backlog[k]
          /\ Len(backlog) \in Nat
      BY <3>1, QueueStep, LenProperties DEF TypeOK
    <3>3. ~ Queued(c) /\ child[c] = "none" /\ ~ Fresh(c)
      BY <3>1 DEF ServedOnce, Fresh
    <3>4. \A d \in Clients : Queued(d)' <=> Queued(d) \/ d = c
      BY <3>2 DEF Queued
    <3>5. \A j, k \in 1 .. Len(backlog') : backlog'[j] = backlog'[k] => j = k
      BY <3>2, <3>3 DEF Queued, ServedOnce
    <3>6. \A d \in Clients :
            client'[d] \in {"idle", "refused"} =>
              client[d] \in {"idle", "refused"} /\ d # c
      BY <3>1 DEF TypeOK
    <3>7. pc = "fork" => fd_klijent \in Clients
      BY DEF TypeOK
    <3>8. QED
      BY <2>1, <3>3, <3>4, <3>5, <3>6, <3>7 DEF ServedOnce, Fresh
  <2>4. QED
    BY <2>2, <2>3
<1>25. ASSUME CtrlC PROVE  ServedOnce'
  BY <1>25 DEF CtrlC, Running, ServedOnce, Fresh, Queued, TypeOK
<1>26. ASSUME UNCHANGED vars PROVE  ServedOnce'
  BY <1>26 DEF ServedOnce, Fresh, Queued, TypeOK
<1>27. QED
  BY <1>1, <1>2, <1>3, <1>4, <1>5, <1>6, <1>7, <1>8, <1>9, <1>10, <1>11,
     <1>12, <1>13, <1>14, <1>15, <1>16, <1>17, <1>18, <1>19, <1>20, <1>21,
     <1>22, <1>23, <1>24, <1>25, <1>26
     DEF Next, Server, posluzi_klijenta

(* The order to stop, once given, is pending, noted or obeyed.             *)
LEMMA RememberStep ==
  ASSUME TypeOK, ServedOnce, StopIsRemembered, [Next]_vars
  PROVE  StopIsRemembered'
<1>1. ASSUME Listen PROVE  StopIsRemembered'
  BY <1>1
     DEF Listen, Step, StopIsRemembered, Ordered, TypeOK, StopSignals, Live,
         ChildStates
<1>2. ASSUME Test PROVE  StopIsRemembered'
  BY <1>2
     DEF Test, Step, StopIsRemembered, Ordered, TypeOK, StopSignals, Live,
         ChildStates
<1>3. ASSUME Block PROVE  StopIsRemembered'
  BY <1>3
     DEF Block, Step, StopIsRemembered, Ordered, TypeOK, StopSignals, Live,
         ChildStates
<1>4. ASSUME Accept PROVE  StopIsRemembered'
  BY <1>4
     DEF Accept, Step, StopIsRemembered, Ordered, TypeOK, StopSignals, Live,
         ChildStates
<1>5. ASSUME AcceptFails PROVE  StopIsRemembered'
  BY <1>5
     DEF AcceptFails, Step, StopIsRemembered, Ordered, TypeOK, StopSignals,
         Live, ChildStates
<1>6. ASSUME Fork PROVE  StopIsRemembered'
  <2>1. /\ fd_klijent \in Clients /\ child[fd_klijent] = "none"
        /\ child' = [child EXCEPT ![fd_klijent] = "start"]
        /\ pc' = "close" /\ pc = "fork"
        /\ UNCHANGED <<answers, zaustavi, pending, ctrl_c>>
    BY <1>6 DEF Fork, Step, ServedOnce, Fresh, TypeOK
  <2>2. \A c \in Clients : Ordered(c)' => Ordered(c)
    BY <2>1 DEF Ordered, TypeOK
  <2>3. QED
    BY <2>1, <2>2 DEF StopIsRemembered
<1>7. ASSUME ForkFails PROVE  StopIsRemembered'
  BY <1>7
     DEF ForkFails, Step, StopIsRemembered, Ordered, TypeOK, StopSignals, Live,
         ChildStates
<1>8. ASSUME ParentCloses PROVE  StopIsRemembered'
  BY <1>8
     DEF ParentCloses, Step, StopIsRemembered, Ordered, TypeOK, StopSignals,
         Live, ChildStates
<1>9. ASSUME Leave PROVE  StopIsRemembered'
  BY <1>9
     DEF Leave, Step, StopIsRemembered, Ordered, TypeOK, StopSignals, Live,
         ChildStates
<1>10. ASSUME NEW s \in StopSignals, rukovatelj_zaustavi(s)
      PROVE  StopIsRemembered'
  BY <1>10
     DEF rukovatelj_zaustavi, Running, StopIsRemembered, Ordered, TypeOK,
         StopSignals, Live, ChildStates
<1>11. ASSUME EnterSigchld PROVE  StopIsRemembered'
  BY <1>11
     DEF EnterSigchld, Running, StopIsRemembered, Ordered, TypeOK, StopSignals,
         Live, ChildStates
<1>12. ASSUME NEW c \in Clients, Reap(c) PROVE  StopIsRemembered'
  BY <1>12
     DEF Reap, StopIsRemembered, Ordered, TypeOK, StopSignals, Live,
         ChildStates
<1>13. ASSUME ReapEnd PROVE  StopIsRemembered'
  BY <1>13
     DEF ReapEnd, StopIsRemembered, Ordered, TypeOK, StopSignals, Live,
         ChildStates
<1>14. ASSUME NEW c \in Clients, DropListener(c) PROVE  StopIsRemembered'
  BY <1>14
     DEF DropListener, Child, StopIsRemembered, Ordered, TypeOK, StopSignals,
         Live, ChildStates
<1>15. ASSUME NEW c \in Clients, Read(c) PROVE  StopIsRemembered'
  BY <1>15
     DEF Read, Child, StopIsRemembered, Ordered, TypeOK, StopSignals, Live,
         ChildStates
<1>16. ASSUME NEW c \in Clients, ReadEnd(c) PROVE  StopIsRemembered'
  BY <1>16
     DEF ReadEnd, Child, StopIsRemembered, Ordered, TypeOK, StopSignals, Live,
         ChildStates
<1>17. ASSUME NEW c \in Clients, AnswerEnd(c) PROVE  StopIsRemembered'
  BY <1>17
     DEF AnswerEnd, Child, Write, StopIsRemembered, Ordered, TypeOK,
         StopSignals, Live, ChildStates
<1>18. ASSUME NEW c \in Clients, Echo(c) PROVE  StopIsRemembered'
  <2>1. /\ UNCHANGED <<pc, zaustavi, pending, ctrl_c>>
        /\ child[c] = "answer" /\ child' = [child EXCEPT ![c] = "read"]
        /\ answers' = answers
             \/ answers' = [answers EXCEPT ![c] = @ \o chunk[c]]
    BY <1>18 DEF Echo, Child, Write
  <2>2. /\ answers[c] \in Seq(Messages \cup {IZLAZIM})
        /\ chunk[c] \in Seq(Messages) /\ chunk[c] # <<>>
    BY <2>1 DEF TypeOK
  <2>3. /\ Len(chunk[c]) \in Nat \ {0} /\ Len(answers[c]) \in Nat
        /\ chunk[c] \in Seq(Messages \cup {IZLAZIM})
    BY <2>2, EmptySeq, LenProperties
  <2>4. chunk[c][Len(chunk[c])] \in Messages
    BY <2>2, <2>3, ElementOfSeq
  <2>5. /\ Len(answers[c] \o chunk[c]) = Len(answers[c]) + Len(chunk[c])
        /\ \A k \in 1 .. Len(answers[c]) + Len(chunk[c]) :
             (answers[c] \o chunk[c])[k] =
               IF k <= Len(answers[c]) THEN answers[c][k]
               ELSE chunk[c][k - Len(answers[c])]
    BY <2>2, <2>3, ConcatProperties, ZenonT(60)
  <2>6. (answers[c] \o chunk[c])[Len(answers[c] \o chunk[c])]
          = chunk[c][Len(chunk[c])]
    <3> DEFINE n == Len(answers[c])
               m == Len(chunk[c])
    <3>1. \A x \in Nat, y \in Nat \ {0} :
            (x + y) \in 1 .. (x + y) /\ ~ (x + y <= x) /\ (x + y) - x = y
      OBVIOUS
    <3>2. (n + m) \in 1 .. (n + m) /\ ~ (n + m <= n) /\ (n + m) - n = m
      BY <2>3, <3>1, Zenon
    <3>3. QED
      BY <2>5, <3>2
  <2>7. \A d \in Clients : Ordered(d)' => Ordered(d)
    BY <2>1, <2>4, <2>6, ScriptAssumption DEF Ordered, TypeOK
  <2>8. QED
    BY <2>1, <2>7 DEF StopIsRemembered
<1>19. ASSUME NEW c \in Clients, BrokenPipe(c) PROVE  StopIsRemembered'
  BY <1>19
     DEF BrokenPipe, Ends, StopIsRemembered, Ordered, TypeOK, StopSignals,
         Live, ChildStates
<1>20. ASSUME NEW c \in Clients, Kill(c) PROVE  StopIsRemembered'
  BY <1>20
     DEF Kill, Child, StopIsRemembered, Ordered, TypeOK, StopSignals, Live,
         ChildStates
<1>21. ASSUME NEW c \in Clients, ChildCloses(c) PROVE  StopIsRemembered'
  BY <1>21
     DEF ChildCloses, Child, StopIsRemembered, Ordered, TypeOK, StopSignals,
         Live, ChildStates
<1>22. ASSUME NEW c \in Clients, Exit(c) PROVE  StopIsRemembered'
  BY <1>22
     DEF Exit, Ends, StopIsRemembered, Ordered, TypeOK, StopSignals, Live,
         ChildStates
<1>23. ASSUME NEW c \in Clients, ChildInterrupted(c) PROVE  StopIsRemembered'
  BY <1>23
     DEF ChildInterrupted, Child, StopIsRemembered, Ordered, TypeOK,
         StopSignals, Live, ChildStates
<1>24. ASSUME NEW c \in Clients, Connect(c) \/ Talk(c) \/ Abort(c)
      PROVE  StopIsRemembered'
  BY <1>24
     DEF Connect, Talk, Send, Close, CutOff, Abort, StopIsRemembered, Ordered,
         TypeOK, StopSignals, Live, ChildStates
<1>25. ASSUME CtrlC PROVE  StopIsRemembered'
  BY <1>25
     DEF CtrlC, Running, StopIsRemembered, Ordered, TypeOK, StopSignals, Live,
         ChildStates
<1>26. ASSUME UNCHANGED vars PROVE  StopIsRemembered'
  BY <1>26
     DEF StopIsRemembered, Ordered, TypeOK, StopSignals, Live, ChildStates
<1>27. QED
  BY <1>1, <1>2, <1>3, <1>4, <1>5, <1>6, <1>7, <1>8, <1>9, <1>10, <1>11,
     <1>12, <1>13, <1>14, <1>15, <1>16, <1>17, <1>18, <1>19, <1>20, <1>21,
     <1>22, <1>23, <1>24, <1>25, <1>26
     DEF Next, Server, posluzi_klijenta

-----------------------------------------------------------------------------
Inv ==
  /\ TypeOK
  /\ NoForgottenZombie
  /\ OneConnectionInHand
  /\ LateIsLast
  /\ ServedOnce
  /\ StopIsRemembered

(* Nothing has happened yet: all parts hold.                               *)
LEMMA InitInv == Init => Inv
<1> SUFFICES ASSUME Init PROVE Inv
  OBVIOUS
<1>1. TypeOK
  BY EmptySeq DEF Init, TypeOK, ChildStates, ClientStates
<1>2. NoForgottenZombie /\ OneConnectionInHand /\ LateIsLast
  BY DEF Init, NoForgottenZombie, OneConnectionInHand, LateIsLast
<1>3. ServedOnce
  BY DEF Init, ServedOnce, Fresh, Queued
<1>4. StopIsRemembered
  BY DEF Init, StopIsRemembered, Ordered
<1>5. QED
  BY <1>1, <1>2, <1>3, <1>4 DEF Inv

(* The inductive invariant holds in every reachable state.                 *)
LEMMA Invariant == Spec => []Inv
<1>1. Inv /\ [Next]_vars => Inv'
  BY TypeStep, ZombieStep, HandStep, LateStep, ServedOnceStep, RememberStep
     DEF Inv
<1>2. QED
  BY InitInv, <1>1, PTL DEF Spec

(* Type correctness.                                                       *)
THEOREM TypeCorrect == Spec => []TypeOK
<1>1. Inv => TypeOK
  BY DEF Inv
<1>2. QED
  BY Invariant, <1>1, PTL

(* rukovatelj_sigchld leaves no zombie behind, although SIGCHLD of several *)
(* children may arrive as one.                                             *)
THEOREM ZombiesAreReaped == Spec => []NoForgottenZombie
<1>1. Inv => NoForgottenZombie
  BY DEF Inv
<1>2. QED
  BY Invariant, <1>1, PTL

(* The accept loop leaks no descriptor, whether fork succeeds or fails.    *)
THEOREM NoDescriptorLeaks == Spec => []OneConnectionInHand
<1>1. Inv => OneConnectionInHand
  BY DEF Inv
<1>2. QED
  BY Invariant, <1>1, PTL

(* The server serves at most one client more after the order to stop.      *)
THEOREM StopIsPrompt == Spec => []AtMostOneMore
<1>1. Inv => AtMostOneMore
  BY DEF Inv, LateIsLast, AtMostOneMore
<1>2. QED
  BY Invariant, <1>1, PTL

(* KRAJ and Ctrl+C are never forgotten, whatever the signals interrupt.    *)
THEOREM StopIsKept == Spec => []StopIsRemembered
<1>1. Inv => StopIsRemembered
  BY DEF Inv
<1>2. QED
  BY Invariant, <1>1, PTL

-----------------------------------------------------------------------------
(* What a client can rely on.                                              *)

(* The connection is served, or still will be, and the client listens.     *)
Open(c) == ~ Gone(c) /\ child[c] \in {"none", "start", "read", "answer"}

Stream(c) ==
  LET a == Len(answers[c])
      m == Len(chunk[c])
      n == Len(inp[c])
  IN  /\ sent[c] = a + m + n
      /\ child[c] # "answer" => m = 0
      /\ \A k \in 1 .. a : answers[c][k] = Script[c][k]
      /\ \A k \in 1 .. m : chunk[c][k] = Script[c][a + k]
      /\ \A k \in 1 .. n : inp[c][k] = Script[c][a + m + k]

Told(c) ==
  /\ sent[c] <= Len(Script[c])
  /\ Len(answers[c]) <= sent[c]
  /\ \A k \in 1 .. Len(answers[c]) :
       \/ answers[c][k] = Script[c][k]
       \/ k = Len(answers[c]) /\ answers[c][k] = IZLAZIM /\ Script[c][k] = KRAJ

Faithful(c) == Told(c) /\ (Open(c) => Stream(c))

(* A step that leaves the conversation of c alone, or ends it.             *)
Leaves(c) ==
  /\ answers'[c] = answers[c]
  /\ sent'[c] = sent[c]
  /\ Open(c)' => /\ Open(c)
                 /\ inp'[c] = inp[c]
                 /\ chunk'[c] = chunk[c]
                 /\ child'[c] # "answer" => child[c] # "answer"

(* Where and when a connection is on its way to its child.                 *)
Accounted ==
  /\ pc = "done" => zaustavi
  /\ pc = "fork" => "parent" \in holders[fd_klijent]
  /\ \A c \in Clients :
       /\ Fresh(c) => client[c] # "cut"
       /\ client[c] \in {"connected", "cut"} /\ child[c] = "none" =>
            Fresh(c) \/ c \in unforked \/ zaustavi
       /\ child[c] \in {"start", "read", "answer"} => client[c] # "cut"
       /\ child[c] \in {"start", "read", "answer", "kill", "close"} =>
            "child" \in holders[c]
       /\ c \in interrupted => ctrl_c > 0 \/ child[c] \in {"zombie", "reaped"}
       /\ child[c] \in {"kill", "close", "exit", "zombie", "reaped"} =>
            \/ Gone(c)
            \/ ctrl_c > 0
            \/ answers[c] # <<>> /\ answers[c][Len(answers[c])] = IZLAZIM

(* A connection stays accounted for, from the backlog to the end of its    *)
(* child.                                                                  *)
LEMMA AccountedStep ==
  ASSUME TypeOK, ServedOnce, Accounted, [Next]_vars
  PROVE  Accounted'
<1>1. ASSUME Listen PROVE Accounted'
  BY <1>1
     DEF Listen, Step, Accounted, ServedOnce, Fresh, Queued, Gone, TypeOK
<1>2. ASSUME Test PROVE Accounted'
  BY <1>2
     DEF Test, Step, Accounted, ServedOnce, Fresh, Queued, Gone, TypeOK
<1>3. ASSUME Block PROVE Accounted'
  BY <1>3
     DEF Block, Step, Accounted, ServedOnce, Fresh, Queued, Gone, TypeOK
<1>4. ASSUME Accept PROVE Accounted'
  <2>1. /\ backlog # <<>> /\ fd_klijent' = backlog[1] /\ fd_klijent' \in Clients
        /\ Len(backlog') = Len(backlog) - 1
        /\ \A k \in 1 .. Len(backlog') : backlog'[k] = backlog[k + 1]
        /\ Len(backlog) \in Nat \ {0}
    BY <1>4, QueueStep, EmptySeq DEF Accept, TypeOK
  <2>2. \A c \in Clients : Queued(c) => c = fd_klijent' \/ Queued(c)'
    <3> SUFFICES ASSUME NEW c \in Clients, NEW k \in 1 .. Len(backlog),
                        backlog[k] = c, k # 1
                 PROVE  Queued(c)'
      BY <2>1 DEF Queued
    <3>1. k - 1 \in 1 .. Len(backlog') /\ backlog'[k - 1] = backlog[k]
      BY <2>1
    <3>2. QED
      BY <3>1 DEF Queued
  <2>3. \A c \in Clients : Queued(c)' => Queued(c)
    BY <2>1 DEF Queued
  <2>4. Queued(fd_klijent')
    BY <2>1 DEF Queued
  <2>5. pc # "fork" /\ pc' = "fork"
    BY <1>4 DEF Accept, Step
  <2>6. \A c \in Clients : Fresh(c)' <=> Fresh(c)
    BY <2>2, <2>3, <2>4, <2>5 DEF Fresh
  <2>7. /\ child[fd_klijent'] = "none"
        /\ holders' = [holders EXCEPT ![fd_klijent'] = {"parent"}]
    BY <1>4, <2>1, <2>4 DEF Accept, ServedOnce, Fresh
  <2>8. UNCHANGED <<client, child, unforked, zaustavi, interrupted, ctrl_c,
                    answers>>
    BY <1>4 DEF Accept
  <2>9. QED
    BY <2>1, <2>5, <2>6, <2>7, <2>8 DEF Accounted, Gone, TypeOK
<1>5. ASSUME AcceptFails PROVE Accounted'
  BY <1>5
     DEF AcceptFails, Step, Accounted, ServedOnce, Fresh, Queued, Gone, TypeOK
<1>6. ASSUME Fork PROVE Accounted'
  BY <1>6
     DEF Fork, Step, Accounted, ServedOnce, Fresh, Queued, Gone, TypeOK
<1>7. ASSUME ForkFails PROVE Accounted'
  BY <1>7
     DEF ForkFails, Step, Accounted, ServedOnce, Fresh, Queued, Gone, TypeOK
<1>8. ASSUME ParentCloses PROVE Accounted'
  BY <1>8
     DEF ParentCloses, Step, Accounted, ServedOnce, Fresh, Queued, Gone, TypeOK
<1>9. ASSUME Leave PROVE Accounted'
  BY <1>9
     DEF Leave, Step, Accounted, ServedOnce, Fresh, Queued, Gone, TypeOK
<1>10. ASSUME NEW s \in StopSignals, rukovatelj_zaustavi(s) PROVE Accounted'
  BY <1>10
     DEF rukovatelj_zaustavi, Running, Accounted, ServedOnce, Fresh, Queued,
         Gone, TypeOK
<1>11. ASSUME EnterSigchld PROVE Accounted'
  BY <1>11
     DEF EnterSigchld, Running, Accounted, ServedOnce, Fresh, Queued, Gone,
         TypeOK
<1>12. ASSUME NEW c \in Clients, Reap(c) PROVE Accounted'
  BY <1>12
     DEF Reap, Accounted, ServedOnce, Fresh, Queued, Gone, TypeOK
<1>13. ASSUME ReapEnd PROVE Accounted'
  BY <1>13
     DEF ReapEnd, Accounted, ServedOnce, Fresh, Queued, Gone, TypeOK
<1>14. ASSUME NEW c \in Clients, DropListener(c) PROVE Accounted'
  <2>1. /\ child[c] = "start" /\ child' = [child EXCEPT ![c] = "read"]
        /\ backlog' = backlog \/ (backlog' = <<>> /\ pc = "done")
        /\ UNCHANGED <<pc, fd_klijent, zaustavi, client, holders, unforked,
                       interrupted, ctrl_c, answers>>
    BY <1>14 DEF DropListener, Child
  <2>2. \A d \in Clients : Fresh(d)' => Fresh(d)
    BY <2>1 DEF Fresh, Queued
  <2>3. \A d \in Clients : Fresh(d) => Fresh(d)' \/ zaustavi
    BY <2>1 DEF Fresh, Queued, Accounted
  <2>4. QED
    BY <2>1, <2>2, <2>3 DEF Accounted, Gone, TypeOK
<1>15. ASSUME NEW c \in Clients, Read(c) PROVE Accounted'
  BY <1>15, SMTT(30)
     DEF Read, Child, Accounted, ServedOnce, Fresh, Queued, Gone, TypeOK
<1>16. ASSUME NEW c \in Clients, ReadEnd(c) PROVE Accounted'
  BY <1>16, SMTT(30)
     DEF ReadEnd, Child, Accounted, ServedOnce, Fresh, Queued, Gone, TypeOK
<1>17. ASSUME NEW c \in Clients, AnswerEnd(c) PROVE Accounted'
  BY <1>17
     DEF AnswerEnd, Child, Write, Accounted, ServedOnce, Fresh, Queued, Gone,
         TypeOK
<1>18. ASSUME NEW c \in Clients, Echo(c) PROVE Accounted'
  BY <1>18
     DEF Echo, Child, Write, Accounted, ServedOnce, Fresh, Queued, Gone, TypeOK
<1>19. ASSUME NEW c \in Clients, BrokenPipe(c) PROVE Accounted'
  BY <1>19
     DEF BrokenPipe, Ends, Accounted, ServedOnce, Fresh, Queued, Gone, TypeOK
<1>20. ASSUME NEW c \in Clients, Kill(c) PROVE Accounted'
  BY <1>20, SMTT(30)
     DEF Kill, Child, Accounted, ServedOnce, Fresh, Queued, Gone, TypeOK
<1>21. ASSUME NEW c \in Clients, ChildCloses(c) PROVE Accounted'
  BY <1>21, SMTT(30)
     DEF ChildCloses, Child, Accounted, ServedOnce, Fresh, Queued, Gone, TypeOK
<1>22. ASSUME NEW c \in Clients, Exit(c) PROVE Accounted'
  BY <1>22
     DEF Exit, Ends, Accounted, ServedOnce, Fresh, Queued, Gone, TypeOK
<1>23. ASSUME NEW c \in Clients, ChildInterrupted(c) PROVE Accounted'
  BY <1>23
     DEF ChildInterrupted, Child, Accounted, ServedOnce, Fresh, Queued, Gone,
         TypeOK
<1>24. ASSUME NEW c \in Clients, Connect(c) PROVE Accounted'
  <2>1. UNCHANGED <<pc, fd_klijent, zaustavi, child, holders, unforked,
                    interrupted, ctrl_c, answers>>
    BY <1>24 DEF Connect
  <2>2. CASE backlog' = backlog
    <3>1. client[c] = "idle" /\ client'[c] # "cut"
      BY <1>24 DEF Connect, TypeOK
    <3>2. client' = [client EXCEPT ![c] = client'[c]]
      BY <1>24 DEF Connect, TypeOK
    <3>3. client'[c] = "connected" => backlog' = Append(backlog, c)
      BY <1>24 DEF Connect, TypeOK
    <3>4. Len(Append(backlog, c)) # Len(backlog)
      BY QueueStep, LenProperties DEF TypeOK
    <3>5. client'[c] # "connected" /\ child[c] = "none"
      BY <2>2, <3>1, <3>3, <3>4 DEF ServedOnce
    <3>6. \A d \in Clients : Fresh(d)' <=> Fresh(d)
      BY <2>1, <2>2 DEF Fresh, Queued
    <3>7. QED
      BY <2>1, <3>1, <3>2, <3>5, <3>6 DEF Accounted, Gone, TypeOK
  <2>3. CASE backlog' # backlog
    <3>1. /\ client[c] = "idle"
          /\ client' = [client EXCEPT ![c] = "connected"]
          /\ backlog' = Append(backlog, c)
      BY <1>24, <2>3 DEF Connect
    <3>2. /\ Len(backlog') = Len(backlog) + 1
          /\ backlog'[Len(backlog) + 1] = c
          /\ \A k \in 1 .. Len(backlog) : backlog'[k] = backlog[k]
          /\ Len(backlog) \in Nat
      BY <3>1, QueueStep, LenProperties DEF TypeOK
    <3>3. \A d \in Clients : Queued(d)' <=> Queued(d) \/ d = c
      BY <3>2 DEF Queued
    <3>4. \A d \in Clients : Fresh(d)' <=> Fresh(d) \/ d = c
      BY <2>1, <3>3 DEF Fresh
    <3>5. child[c] = "none"
      BY <3>1 DEF ServedOnce
    <3>6. QED
      BY <2>1, <3>1, <3>4, <3>5 DEF Accounted, Gone, TypeOK
  <2>4. QED
    BY <2>2, <2>3
<1>25. ASSUME NEW c \in Clients, Send(c) PROVE Accounted'
  BY <1>25
     DEF Send, Accounted, ServedOnce, Fresh, Queued, Gone, TypeOK
<1>26. ASSUME NEW c \in Clients, Close(c) PROVE Accounted'
  BY <1>26
     DEF Close, Accounted, ServedOnce, Fresh, Queued, Gone, TypeOK
<1>27. ASSUME NEW c \in Clients, CutOff(c) PROVE Accounted'
  <2>1. /\ client[c] = "connected" /\ ~ Queued(c) /\ holders[c] = {}
        /\ client' = [client EXCEPT ![c] = "cut"]
        /\ UNCHANGED <<pc, fd_klijent, backlog, zaustavi, child, holders,
                       unforked, interrupted, ctrl_c, answers>>
    BY <1>27 DEF CutOff, Dead
  <2>2. ~ Fresh(c)
    BY <2>1 DEF Fresh, Accounted
  <2>3. \A d \in Clients : Fresh(d)' <=> Fresh(d)
    BY <2>1 DEF Fresh, Queued
  <2>4. child[c] \notin {"start", "read", "answer", "kill", "close"}
    BY <2>1 DEF Accounted
  <2>5. QED
    BY <2>1, <2>2, <2>3, <2>4 DEF Accounted, Gone, TypeOK
<1>28. ASSUME NEW c \in Clients, Abort(c) PROVE Accounted'
  BY <1>28
     DEF Abort, Accounted, ServedOnce, Fresh, Queued, Gone, TypeOK
<1>29. ASSUME CtrlC PROVE Accounted'
  BY <1>29
     DEF CtrlC, Running, Live, Accounted, ServedOnce, Fresh, Queued, Gone,
         TypeOK
<1>30. ASSUME UNCHANGED vars PROVE Accounted'
  BY <1>30 DEF Accounted, ServedOnce, Fresh, Queued, Gone, TypeOK
<1>31. QED
  BY <1>1, <1>2, <1>3, <1>4, <1>5, <1>6, <1>7, <1>8, <1>9, <1>10, <1>11,
     <1>12, <1>13, <1>14, <1>15, <1>16, <1>17, <1>18, <1>19, <1>20, <1>21,
     <1>22, <1>23, <1>24, <1>25, <1>26, <1>27, <1>28, <1>29, <1>30
     DEF Next, Server, posluzi_klijenta, Talk

-----------------------------------------------------------------------------
(* The steps of a conversation.                                            *)
Moves(c) == Read(c) \/ Echo(c) \/ AnswerEnd(c) \/ Send(c)

(* All other steps leave the conversation alone.                           *)
LEMMA OthersLeave ==
  ASSUME TypeOK, ServedOnce, [Next]_vars, NEW d \in Clients
  PROVE  Leaves(d) \/ Moves(d)
<1>1. ASSUME Listen PROVE Leaves(d) \/ Moves(d)
  BY <1>1
     DEF Listen, Step, Leaves, Open, Gone, TypeOK
<1>2. ASSUME Test PROVE Leaves(d) \/ Moves(d)
  BY <1>2
     DEF Test, Step, Leaves, Open, Gone, TypeOK
<1>3. ASSUME Block PROVE Leaves(d) \/ Moves(d)
  BY <1>3
     DEF Block, Step, Leaves, Open, Gone, TypeOK
<1>4. ASSUME Accept PROVE Leaves(d) \/ Moves(d)
  BY <1>4
     DEF Accept, Step, Leaves, Open, Gone, TypeOK
<1>5. ASSUME AcceptFails PROVE Leaves(d) \/ Moves(d)
  BY <1>5
     DEF AcceptFails, Step, Leaves, Open, Gone, TypeOK
<1>6. ASSUME Fork PROVE Leaves(d) \/ Moves(d)
  BY <1>6
     DEF Fork, Step, Leaves, Open, Gone, TypeOK, ServedOnce, Fresh
<1>7. ASSUME ForkFails PROVE Leaves(d) \/ Moves(d)
  BY <1>7
     DEF ForkFails, Step, Leaves, Open, Gone, TypeOK
<1>8. ASSUME ParentCloses PROVE Leaves(d) \/ Moves(d)
  BY <1>8
     DEF ParentCloses, Step, Leaves, Open, Gone, TypeOK
<1>9. ASSUME Leave PROVE Leaves(d) \/ Moves(d)
  BY <1>9
     DEF Leave, Step, Leaves, Open, Gone, TypeOK
<1>10. ASSUME NEW s \in StopSignals, rukovatelj_zaustavi(s)
      PROVE  Leaves(d) \/ Moves(d)
  BY <1>10
     DEF rukovatelj_zaustavi, Leaves, Open, Gone, TypeOK
<1>11. ASSUME EnterSigchld PROVE Leaves(d) \/ Moves(d)
  BY <1>11
     DEF EnterSigchld, Leaves, Open, Gone, TypeOK
<1>12. ASSUME NEW c \in Clients, Reap(c) PROVE Leaves(d) \/ Moves(d)
  BY <1>12
     DEF Reap, Leaves, Open, Gone, TypeOK
<1>13. ASSUME ReapEnd PROVE Leaves(d) \/ Moves(d)
  BY <1>13
     DEF ReapEnd, Leaves, Open, Gone, TypeOK
<1>14. ASSUME NEW c \in Clients, DropListener(c) PROVE Leaves(d) \/ Moves(d)
  BY <1>14
     DEF DropListener, Child, Leaves, Open, Gone, TypeOK
<1>15. ASSUME NEW c \in Clients, Read(c) PROVE Leaves(d) \/ Moves(d)
  <2>1. CASE d = c
    BY <1>15, <2>1 DEF Moves
  <2>2. CASE d # c
    BY <1>15, <2>2 DEF Read, Child, Leaves, Open, Gone, TypeOK
  <2>3. QED
    BY <2>1, <2>2
<1>16. ASSUME NEW c \in Clients, ReadEnd(c) PROVE Leaves(d) \/ Moves(d)
  BY <1>16
     DEF ReadEnd, Child, Leaves, Open, Gone, TypeOK
<1>17. ASSUME NEW c \in Clients, AnswerEnd(c) PROVE Leaves(d) \/ Moves(d)
  <2>1. CASE d = c
    BY <1>17, <2>1 DEF Moves
  <2>2. CASE d # c
    BY <1>17, <2>2 DEF AnswerEnd, Child, Write, Leaves, Open, Gone, TypeOK
  <2>3. QED
    BY <2>1, <2>2
<1>18. ASSUME NEW c \in Clients, Echo(c) PROVE Leaves(d) \/ Moves(d)
  <2>1. CASE d = c
    BY <1>18, <2>1 DEF Moves
  <2>2. CASE d # c
    BY <1>18, <2>2 DEF Echo, Child, Write, Leaves, Open, Gone, TypeOK
  <2>3. QED
    BY <2>1, <2>2
<1>19. ASSUME NEW c \in Clients, BrokenPipe(c) PROVE Leaves(d) \/ Moves(d)
  BY <1>19
     DEF BrokenPipe, Ends, Leaves, Open, Gone, TypeOK
<1>20. ASSUME NEW c \in Clients, Kill(c) PROVE Leaves(d) \/ Moves(d)
  BY <1>20
     DEF Kill, Child, Leaves, Open, Gone, TypeOK
<1>21. ASSUME NEW c \in Clients, ChildCloses(c) PROVE Leaves(d) \/ Moves(d)
  BY <1>21
     DEF ChildCloses, Child, Leaves, Open, Gone, TypeOK
<1>22. ASSUME NEW c \in Clients, Exit(c) PROVE Leaves(d) \/ Moves(d)
  BY <1>22
     DEF Exit, Ends, Leaves, Open, Gone, TypeOK
<1>23. ASSUME NEW c \in Clients, ChildInterrupted(c)
      PROVE  Leaves(d) \/ Moves(d)
  BY <1>23
     DEF ChildInterrupted, Child, Leaves, Open, Gone, TypeOK
<1>24. ASSUME NEW c \in Clients, Connect(c) PROVE Leaves(d) \/ Moves(d)
  BY <1>24
     DEF Connect, Leaves, Open, Gone, TypeOK
<1>25. ASSUME NEW c \in Clients, Send(c) PROVE Leaves(d) \/ Moves(d)
  <2>1. CASE d = c
    BY <1>25, <2>1 DEF Moves
  <2>2. CASE d # c
    BY <1>25, <2>2 DEF Send, Leaves, Open, Gone, TypeOK
  <2>3. QED
    BY <2>1, <2>2
<1>26. ASSUME NEW c \in Clients, Close(c) PROVE Leaves(d) \/ Moves(d)
  BY <1>26
     DEF Close, Leaves, Open, Gone, TypeOK
<1>27. ASSUME NEW c \in Clients, CutOff(c) PROVE Leaves(d) \/ Moves(d)
  BY <1>27
     DEF CutOff, Dead, Leaves, Open, Gone, TypeOK
<1>28. ASSUME NEW c \in Clients, Abort(c) PROVE Leaves(d) \/ Moves(d)
  BY <1>28
     DEF Abort, Leaves, Open, Gone, TypeOK
<1>29. ASSUME CtrlC PROVE Leaves(d) \/ Moves(d)
  BY <1>29
     DEF CtrlC, Leaves, Open, Gone, TypeOK
<1>30. ASSUME UNCHANGED vars PROVE Leaves(d) \/ Moves(d)
  BY <1>30 DEF Leaves, Open, Gone, TypeOK
<1>31. QED
  BY <1>1, <1>2, <1>3, <1>4, <1>5, <1>6, <1>7, <1>8, <1>9, <1>10, <1>11,
     <1>12, <1>13, <1>14, <1>15, <1>16, <1>17, <1>18, <1>19, <1>20, <1>21,
     <1>22, <1>23, <1>24, <1>25, <1>26, <1>27, <1>28, <1>29, <1>30
     DEF Next, Server, posluzi_klijenta, Talk

(* What is left alone stays faithful.                                      *)
LEMMA LeavesStep ==
  ASSUME NEW c \in Clients, Faithful(c), Leaves(c)
  PROVE  Faithful(c)'
<1>1. Told(c)'
  BY DEF Faithful, Told, Leaves
<1>2. ASSUME Open(c)' PROVE Stream(c)'
  BY <1>2 DEF Faithful, Stream, Leaves
<1>3. QED
  BY <1>1, <1>2 DEF Faithful

(* A client writes the next message of its script.                         *)
LEMMA SendStep ==
  ASSUME TypeOK, NEW c \in Clients, Faithful(c), Send(c)
  PROVE  Faithful(c)'
<1> DEFINE next == Script[c][sent[c] + 1]
<1>1. /\ sent'[c] = sent[c] + 1
      /\ inp'[c] = Append(inp[c], next)
      /\ sent[c] < Len(Script[c])
      /\ UNCHANGED <<answers, chunk, child, client>>
  BY DEF Send, TypeOK
<1>2. /\ sent[c] \in Nat /\ inp[c] \in Seq(Messages)
      /\ Len(inp[c]) \in Nat /\ Len(Script[c]) \in Nat
      /\ Len(answers[c]) \in Nat /\ Len(chunk[c]) \in Nat
  BY ScriptAssumption, LenProperties DEF TypeOK
<1>3. next \in Messages
  BY <1>1, <1>2, ScriptAssumption, ElementOfSeq
<1>4. /\ Len(inp'[c]) = Len(inp[c]) + 1
      /\ inp'[c][Len(inp[c]) + 1] = next
      /\ \A k \in 1 .. Len(inp[c]) : inp'[c][k] = inp[c][k]
  BY <1>1, <1>2, <1>3, AppendProperties
<1>5. Told(c)'
  BY <1>1, <1>2 DEF Faithful, Told
<1>6. ASSUME Open(c) PROVE Stream(c)'
  <2> DEFINE a == Len(answers[c])
             m == Len(chunk[c])
             i == Len(inp[c])
  <2>1. /\ a \in Nat /\ m \in Nat /\ i \in Nat /\ sent[c] = a + m + i
        /\ \A k \in 1 .. i : inp'[c][k] = Script[c][a + m + k]
        /\ inp'[c][i + 1] = Script[c][sent[c] + 1]
        /\ Len(inp'[c]) = i + 1 /\ Len(answers'[c]) = a /\ Len(chunk'[c]) = m
        /\ child[c] # "answer" => m = 0
        /\ \A k \in 1 .. a : answers'[c][k] = Script[c][k]
        /\ \A k \in 1 .. m : chunk'[c][k] = Script[c][a + k]
    BY <1>1, <1>2, <1>4, <1>6 DEF Faithful, Stream
  <2> HIDE DEF a, m, i
  <2>2. \A k \in 1 .. i + 1 : k \in 1 .. i \/ k = i + 1
    BY <2>1
  <2>3. /\ sent[c] + 1 = a + m + (i + 1)
        /\ sent'[c] = a + m + (i + 1)
    BY <1>1, <2>1
  <2>4. QED
    BY <1>1, <2>1, <2>2, <2>3 DEF Stream
<1>7. Open(c)' => Open(c)
  BY <1>1 DEF Open, Gone
<1>8. QED
  BY <1>5, <1>6, <1>7 DEF Faithful

(* A sequence cut in two after n elements.                                 *)
LEMMA CutInTwo ==
  ASSUME NEW S, NEW s \in Seq(S), NEW n \in 1 .. Len(s)
  PROVE  /\ Len(SubSeq(s, 1, n)) = n
         /\ \A k \in 1 .. n : SubSeq(s, 1, n)[k] = s[k]
         /\ Len(SubSeq(s, n + 1, Len(s))) = Len(s) - n
         /\ \A k \in 1 .. Len(s) - n : SubSeq(s, n + 1, Len(s))[k] = s[n + k]
<1>1. Len(SubSeq(s, 1, n)) = n
  BY SMTT(30)
<1>2. \A k \in 1 .. n : SubSeq(s, 1, n)[k] = s[k]
  BY SMTT(30)
<1>3. Len(SubSeq(s, n + 1, Len(s))) = Len(s) - n
  BY SMTT(30)
<1>4. \A k \in 1 .. Len(s) - n : SubSeq(s, n + 1, Len(s))[k] = s[n + k]
  BY SMTT(30)
<1>5. QED
  BY <1>1, <1>2, <1>3, <1>4

(* A read moves messages from the socket to the buffer.                    *)
LEMMA ReadStep ==
  ASSUME TypeOK, NEW c \in Clients, Faithful(c), Read(c)
  PROVE  Faithful(c)'
<1>1. PICK n \in 1 .. Len(inp[c]) :
        /\ chunk'[c] = SubSeq(inp[c], 1, n)
        /\ inp'[c] = SubSeq(inp[c], n + 1, Len(inp[c]))
  BY DEF Read, TypeOK
<1>2. /\ child[c] = "read" /\ child'[c] = "answer"
      /\ UNCHANGED <<answers, sent, client>>
  BY DEF Read, Child, TypeOK
<1>3. /\ sent[c] \in Nat /\ inp[c] \in Seq(Messages)
      /\ Len(inp[c]) \in Nat
      /\ Len(answers[c]) \in Nat /\ Len(chunk[c]) \in Nat
  BY LenProperties DEF TypeOK
<1>4. /\ Len(chunk'[c]) = n
      /\ \A k \in 1 .. n : chunk'[c][k] = inp[c][k]
      /\ Len(inp'[c]) = Len(inp[c]) - n
      /\ \A k \in 1 .. Len(inp[c]) - n : inp'[c][k] = inp[c][n + k]
  BY <1>1, <1>3, CutInTwo, ZenonT(60)
<1>5. Told(c)'
  BY <1>2 DEF Faithful, Told
<1>6. ASSUME Open(c) PROVE Stream(c)'
  <2> DEFINE a == Len(answers[c])
             m == Len(chunk[c])
             i == Len(inp[c])
  <2>1. /\ a \in Nat /\ m = 0 /\ i \in Nat /\ n \in 1 .. i
        /\ sent[c] = a + m + i
        /\ \A k \in 1 .. i : inp[c][k] = Script[c][a + m + k]
        /\ \A k \in 1 .. a : answers'[c][k] = Script[c][k]
        /\ \A k \in 1 .. n : chunk'[c][k] = inp[c][k]
        /\ \A k \in 1 .. i - n : inp'[c][k] = inp[c][n + k]
        /\ Len(answers'[c]) = a /\ Len(chunk'[c]) = n /\ Len(inp'[c]) = i - n
    BY <1>2, <1>3, <1>4, <1>6 DEF Faithful, Stream
  <2> HIDE DEF a, m, i
  <2>2. \A k \in 1 .. n : k \in 1 .. i /\ a + m + k = a + k
    BY <2>1
  <2>3. \A k \in 1 .. i - n : n + k \in 1 .. i /\ a + m + (n + k) = a + n + k
    BY <2>1
  <2>4. \A k \in 1 .. n : chunk'[c][k] = Script[c][a + k]
    BY <2>1, <2>2
  <2>5. \A k \in 1 .. i - n : inp'[c][k] = Script[c][a + n + k]
    BY <2>1, <2>3
  <2>6. sent'[c] = a + n + (i - n)
    BY <1>2, <2>1
  <2>7. QED
    BY <1>2, <2>1, <2>4, <2>5, <2>6 DEF Stream
<1>7. Open(c)' => Open(c)
  BY <1>2 DEF Open, Gone
<1>8. QED
  BY <1>5, <1>6, <1>7 DEF Faithful

(* An answer to a client that listens is the buffer; others are lost.      *)
LEMMA EchoStep ==
  ASSUME TypeOK, NEW c \in Clients, Faithful(c), Echo(c)
  PROVE  Faithful(c)'
<1>1. CASE Gone(c)
  <2>1. UNCHANGED <<answers, sent>> /\ ~ Open(c)'
    BY <1>1 DEF Echo, Write, Open, Gone, TypeOK
  <2>2. QED
    BY <2>1, LeavesStep DEF Leaves
<1>2. CASE ~ Gone(c)
  <2>1. /\ answers'[c] = answers[c] \o chunk[c]
        /\ chunk'[c] = <<>> /\ child[c] = "answer" /\ child'[c] = "read"
        /\ UNCHANGED <<sent, inp>> /\ client'[c] = client[c]
    BY <1>2 DEF Echo, Child, Write, TypeOK
  <2>2. /\ sent[c] \in Nat /\ Len(inp[c]) \in Nat
        /\ Len(answers[c]) \in Nat /\ Len(chunk[c]) \in Nat
        /\ answers[c] \in Seq(Messages \cup {IZLAZIM})
        /\ chunk[c] \in Seq(Messages)
    BY LenProperties DEF TypeOK
  <2>3. chunk[c] \in Seq(Messages \cup {IZLAZIM})
    BY <2>2
  <2>4. /\ Len(answers'[c]) = Len(answers[c]) + Len(chunk[c])
        /\ \A k \in 1 .. Len(answers[c]) : answers'[c][k] = answers[c][k]
        /\ \A k \in 1 .. Len(chunk[c]) :
             answers'[c][Len(answers[c]) + k] = chunk[c][k]
    <3>1. \A k \in 1 .. Len(answers[c]) + Len(chunk[c]) :
            answers'[c][k] = IF k <= Len(answers[c]) THEN answers[c][k]
                             ELSE chunk[c][k - Len(answers[c])]
      BY <2>1, <2>2, <2>3, ConcatProperties
    <3>2. Len(answers'[c]) = Len(answers[c]) + Len(chunk[c])
      BY <2>1, <2>2, <2>3, ConcatProperties
    <3>3. \A k \in 1 .. Len(answers[c]) : answers'[c][k] = answers[c][k]
      <4>1. \A x, y \in Nat : \A j \in 1 .. x : j \in 1 .. x + y /\ j <= x
        OBVIOUS
      <4>2. \A k \in 1 .. Len(answers[c]) :
              k \in 1 .. Len(answers[c]) + Len(chunk[c]) /\ k <= Len(answers[c])
        BY <2>2, <4>1, Zenon
      <4>3. QED
        BY <3>1, <4>2
    <3>4. ASSUME NEW k \in 1 .. Len(chunk[c])
          PROVE  answers'[c][Len(answers[c]) + k] = chunk[c][k]
      <4>1. \A x, y \in Nat : \A j \in 1 .. y :
              /\ x + j \in 1 .. x + y
              /\ ~ (x + j <= x) /\ (x + j) - x = j
        OBVIOUS
      <4>2. /\ Len(answers[c]) + k \in 1 .. Len(answers[c]) + Len(chunk[c])
            /\ ~ (Len(answers[c]) + k <= Len(answers[c]))
            /\ (Len(answers[c]) + k) - Len(answers[c]) = k
        BY <2>2, <4>1, Zenon
      <4>3. QED
        BY <3>1, <4>2
    <3>5. QED
      BY <3>2, <3>3, <3>4
  <2>5. Len(chunk'[c]) = 0
    BY <2>1
  <2>6. Open(c) /\ Stream(c)
    BY <1>2, <2>1 DEF Open, Faithful
  <2> DEFINE a == Len(answers[c])
             m == Len(chunk[c])
             i == Len(inp[c])
  <2>7. /\ a \in Nat /\ m \in Nat /\ i \in Nat /\ sent[c] = a + m + i
        /\ \A k \in 1 .. a : answers'[c][k] = Script[c][k]
        /\ \A k \in 1 .. m : answers'[c][a + k] = Script[c][a + k]
        /\ \A k \in 1 .. i : inp'[c][k] = Script[c][a + m + k]
        /\ Len(answers'[c]) = a + m /\ Len(inp'[c]) = i
    BY <2>1, <2>2, <2>4, <2>6 DEF Stream
  <2> HIDE DEF a, m, i
  <2>8. \A k \in 1 .. a + m : answers'[c][k] = Script[c][k]
    <3> SUFFICES ASSUME NEW k \in 1 .. a + m
                 PROVE  answers'[c][k] = Script[c][k]
      OBVIOUS
    <3>1. CASE k <= a
      BY <2>7, <3>1
    <3>2. CASE k > a
      <4>1. k - a \in 1 .. m /\ k = a + (k - a)
        BY <2>7, <3>2
      <4>2. QED
        BY <2>7, <4>1
    <3>3. QED
      BY <2>7, <3>1, <3>2
  <2>9. Told(c)'
    <3>1. sent'[c] <= Len(Script[c])
      BY <2>1 DEF Faithful, Told
    <3>2. a + m <= sent'[c]
      BY <2>1, <2>7
    <3>3. QED
      BY <2>7, <2>8, <3>1, <3>2 DEF Told
  <2>10. Stream(c)'
    <3>1. sent'[c] = (a + m) + 0 + i
      BY <2>1, <2>7
    <3>2. \A k \in 1 .. i : (a + m) + 0 + k = a + m + k
      BY <2>7
    <3>3. \A k \in 1 .. i : inp'[c][k] = Script[c][(a + m) + 0 + k]
      BY <2>7, <3>2
    <3>4. \A k \in 1 .. 0 : FALSE
      OBVIOUS
    <3>5. QED
      BY <2>1, <2>5, <2>7, <2>8, <3>1, <3>3, <3>4, ZenonT(60) DEF Stream
  <2>11. QED
    BY <2>9, <2>10 DEF Faithful
<1>3. QED
  BY <1>1, <1>2

(* IZLAZIM takes the place of the KRAJ the buffer begins with.             *)
LEMMA AnswerEndStep ==
  ASSUME TypeOK, NEW c \in Clients, Faithful(c), AnswerEnd(c)
  PROVE  Faithful(c)'
<1>1. /\ child[c] = "answer" /\ child'[c] = "kill" /\ UNCHANGED sent
  BY DEF AnswerEnd, Child, TypeOK
<1>2. ~ Open(c)'
  BY <1>1 DEF Open
<1>3. CASE Gone(c)
  <2>1. UNCHANGED answers
    BY <1>3 DEF AnswerEnd, Write
  <2>2. QED
    BY <1>1, <1>2, <2>1, LeavesStep DEF Leaves
<1>4. CASE ~ Gone(c)
  <2>1. /\ answers'[c] = answers[c] \o <<IZLAZIM>>
        /\ Head(chunk[c]) = KRAJ
        /\ chunk[c] # <<>>
    BY <1>1, <1>4 DEF AnswerEnd, EndsServer, Write, TypeOK
  <2>2. /\ sent[c] \in Nat /\ Len(inp[c]) \in Nat
        /\ Len(answers[c]) \in Nat /\ Len(chunk[c]) \in Nat
        /\ answers[c] \in Seq(Messages \cup {IZLAZIM})
        /\ chunk[c] \in Seq(Messages)
    BY LenProperties DEF TypeOK
  <2>3. Len(chunk[c]) \in Nat \ {0} /\ chunk[c][1] = KRAJ
    BY <2>1, <2>2, EmptySeq, HeadTailProperties
  <2>4. answers'[c] = Append(answers[c], IZLAZIM)
    BY <2>1, <2>2
  <2>5. /\ Len(answers'[c]) = Len(answers[c]) + 1
        /\ answers'[c][Len(answers[c]) + 1] = IZLAZIM
        /\ \A k \in 1 .. Len(answers[c]) : answers'[c][k] = answers[c][k]
    BY <2>2, <2>4, AppendProperties
  <2>6. Open(c) /\ Stream(c)
    BY <1>1, <1>4 DEF Open, Faithful
  <2>7. Script[c][Len(answers[c]) + 1] = KRAJ
    BY <2>3, <2>6 DEF Stream
  <2>8. Told(c)'
    <3> DEFINE a == Len(answers[c])
               m == Len(chunk[c])
               i == Len(inp[c])
    <3>1. /\ a \in Nat /\ m \in Nat \ {0} /\ i \in Nat /\ sent[c] = a + m + i
          /\ sent'[c] <= Len(Script[c])
          /\ \A k \in 1 .. a : answers'[c][k] = Script[c][k]
          /\ Len(answers'[c]) = a + 1 /\ answers'[c][a + 1] = IZLAZIM
          /\ Script[c][a + 1] = KRAJ
      BY <1>1, <2>2, <2>3, <2>5, <2>6, <2>7 DEF Faithful, Told, Stream
    <3> HIDE DEF a, m, i
    <3>2. \A k \in 1 .. a + 1 : k \in 1 .. a \/ k = a + 1
      BY <3>1
    <3>3. a + 1 <= sent'[c]
      BY <1>1, <3>1
    <3>4. QED
      BY <3>1, <3>2, <3>3 DEF Told
  <2>9. QED
    BY <1>2, <2>8 DEF Faithful
<1>5. QED
  BY <1>3, <1>4

-----------------------------------------------------------------------------
AnswersInv ==
  /\ Inv
  /\ Accounted
  /\ \A c \in Clients : Faithful(c)

(* Every conversation is faithful and accounted for at all times.          *)
LEMMA AnswersInvariant == Spec => []AnswersInv
<1>1. Init => Accounted /\ \A c \in Clients : Faithful(c)
  <2> SUFFICES ASSUME Init PROVE Accounted /\ \A c \in Clients : Faithful(c)
    OBVIOUS
  <2>1. Accounted
    BY DEF Init, Accounted, Fresh, Queued, Gone
  <2>2. ASSUME NEW c \in Clients PROVE Faithful(c)
    <3>1. /\ answers[c] = <<>> /\ inp[c] = <<>> /\ chunk[c] = <<>>
          /\ sent[c] = 0 /\ Len(Script[c]) \in Nat
      BY ScriptAssumption, LenProperties DEF Init
    <3>2. QED
      BY <3>1, EmptySeq DEF Faithful, Told, Stream
  <2>3. QED
    BY <2>1, <2>2
<1>2. TypeOK /\ ServedOnce /\ Accounted /\ [Next]_vars => Accounted'
  BY AccountedStep
<1>3. ASSUME TypeOK, ServedOnce, \A c \in Clients : Faithful(c), [Next]_vars
      PROVE  \A c \in Clients : Faithful(c)'
  BY <1>3, OthersLeave, LeavesStep, SendStep, ReadStep, EchoStep, AnswerEndStep
     DEF Moves
<1>4. Inv => TypeOK /\ ServedOnce
  BY DEF Inv
<1>5. Init => AnswersInv
  BY <1>1, InitInv DEF AnswersInv
<1>6. Inv /\ Inv' /\ AnswersInv /\ [Next]_vars => AnswersInv'
  BY <1>2, <1>3, <1>4 DEF AnswersInv
<1>7. QED
  BY <1>5, <1>6, Invariant, PTL DEF Spec

(* Whatever reads split or join and signals interrupt, a client gets its   *)
(* own messages back in order, and IZLAZIM only for its KRAJ.              *)
THEOREM AnswersAreEchoes == Spec => []Service!EchoFidelity
<1>1. (\A c \in Clients : Faithful(c)) => Service!EchoFidelity
  BY DEF Service!EchoFidelity, Faithful, Told
<1>2. AnswersInv => \A c \in Clients : Faithful(c)
  BY DEF AnswersInv
<1>3. QED
  BY <1>1, <1>2, AnswersInvariant, PTL

(* A client that finds its connection ended by the server has sent KRAJ,   *)
(* or was not served because fork failed or the server was leaving, or     *)
(* Ctrl+C was pressed.                                                     *)
THEOREM NobodyIsDropped == Spec => []NoSilentDrop
<1>1. AnswersInv => NoSilentDrop
  BY DEF AnswersInv, Inv, TypeOK, ChildStates, Live, Accounted,
         NoSilentDrop, Gone
<1>2. QED
  BY <1>1, AnswersInvariant, PTL

-----------------------------------------------------------------------------
(* The reasons of the server.  What it reads was said by the client, and   *)
(* it stops only because a KRAJ was said or Ctrl+C was pressed.            *)
Uttered(c) == {Script[c][j] : j \in 1 .. sent[c]}
Wanted == \E c \in Clients : KRAJ \in Uttered(c)

Carried(c) ==
  /\ \A k \in 1 .. Len(inp[c]) : inp[c][k] \in Uttered(c)
  /\ \A k \in 1 .. Len(chunk[c]) : chunk[c][k] \in Uttered(c)

Causes ==
  /\ "SIGINT" \in pending => ctrl_c > 0
  /\ "SIGTERM" \in pending => Wanted
  /\ zaustavi => ctrl_c > 0 \/ Wanted
  /\ \A c \in Clients : /\ child[c] = "kill" => Wanted
                        /\ child[c] = "none" => answers[c] = <<>>

(* What was said stays said.                                               *)
LEMMA SaidStays ==
  ASSUME TypeOK, [Next]_vars
  PROVE  /\ \A d \in Clients : sent'[d] \in Nat /\ sent'[d] >= sent[d]
         /\ \A d \in Clients : Uttered(d) \subseteq Uttered(d)'
         /\ Wanted => Wanted'
<1>1. ASSUME NEW c \in Clients, Send(c)
      PROVE  \A d \in Clients : sent'[d] \in Nat /\ sent'[d] >= sent[d]
  BY <1>1 DEF Send, TypeOK
<1>2. sent' = sent \/ \E c \in Clients : Send(c)
  BY DEF Next, Server, posluzi_klijenta, Talk, Listen, Test, Block, Accept,
         AcceptFails, Fork, ForkFails, ParentCloses, Leave,
         rukovatelj_zaustavi, EnterSigchld, Reap, ReapEnd, DropListener, Read,
         ReadEnd, AnswerEnd, Echo, BrokenPipe, Kill, ChildCloses, Exit,
         ChildInterrupted, Connect, Close, CutOff, Abort, CtrlC
<1>3. \A d \in Clients : sent'[d] \in Nat /\ sent'[d] >= sent[d]
  BY <1>1, <1>2 DEF TypeOK
<1>4. \A d \in Clients : Uttered(d) \subseteq Uttered(d)'
  <2> SUFFICES ASSUME NEW d \in Clients, NEW j \in 1 .. sent[d]
               PROVE  Script[d][j] \in Uttered(d)'
    BY DEF Uttered
  <2>1. sent[d] \in Nat
    BY DEF TypeOK
  <2>2. j \in 1 .. sent'[d]
    BY <1>3, <2>1
  <2>3. QED
    BY <2>2 DEF Uttered
<1>5. QED
  BY <1>3, <1>4 DEF Wanted

(* Apart from reading and sending, messages only disappear.                *)
Drops(d) ==
  /\ sent'[d] = sent[d]
  /\ inp'[d] \in {inp[d], <<>>}
  /\ chunk'[d] \in {chunk[d], <<>>}

(* Only Read and Send do more than drop.                                   *)
LEMMA OthersDrop ==
  ASSUME TypeOK, [Next]_vars, NEW d \in Clients
  PROVE  Drops(d) \/ Read(d) \/ Send(d)
<1>1. ASSUME Listen PROVE Drops(d) \/ Read(d) \/ Send(d)
  BY <1>1 DEF Listen, Step, Drops, TypeOK
<1>2. ASSUME Test PROVE Drops(d) \/ Read(d) \/ Send(d)
  BY <1>2 DEF Test, Step, Drops, TypeOK
<1>3. ASSUME Block PROVE Drops(d) \/ Read(d) \/ Send(d)
  BY <1>3 DEF Block, Step, Drops, TypeOK
<1>4. ASSUME Accept PROVE Drops(d) \/ Read(d) \/ Send(d)
  BY <1>4 DEF Accept, Step, Drops, TypeOK
<1>5. ASSUME AcceptFails PROVE Drops(d) \/ Read(d) \/ Send(d)
  BY <1>5 DEF AcceptFails, Step, Drops, TypeOK
<1>6. ASSUME Fork PROVE Drops(d) \/ Read(d) \/ Send(d)
  BY <1>6 DEF Fork, Step, Drops, TypeOK
<1>7. ASSUME ForkFails PROVE Drops(d) \/ Read(d) \/ Send(d)
  BY <1>7 DEF ForkFails, Step, Drops, TypeOK
<1>8. ASSUME ParentCloses PROVE Drops(d) \/ Read(d) \/ Send(d)
  BY <1>8 DEF ParentCloses, Step, Drops, TypeOK
<1>9. ASSUME Leave PROVE Drops(d) \/ Read(d) \/ Send(d)
  BY <1>9 DEF Leave, Step, Drops, TypeOK
<1>10. ASSUME NEW s \in StopSignals, rukovatelj_zaustavi(s)
       PROVE  Drops(d) \/ Read(d) \/ Send(d)
  BY <1>10 DEF rukovatelj_zaustavi, Running, Drops, TypeOK
<1>11. ASSUME EnterSigchld PROVE Drops(d) \/ Read(d) \/ Send(d)
  BY <1>11 DEF EnterSigchld, Drops, TypeOK
<1>12. ASSUME NEW c \in Clients, Reap(c) PROVE Drops(d) \/ Read(d) \/ Send(d)
  BY <1>12 DEF Reap, Drops, TypeOK
<1>13. ASSUME ReapEnd PROVE Drops(d) \/ Read(d) \/ Send(d)
  BY <1>13 DEF ReapEnd, Drops, TypeOK
<1>14. ASSUME NEW c \in Clients, DropListener(c)
       PROVE  Drops(d) \/ Read(d) \/ Send(d)
  BY <1>14 DEF DropListener, Child, Drops, TypeOK
<1>15. ASSUME NEW c \in Clients, Read(c) PROVE Drops(d) \/ Read(d) \/ Send(d)
  BY <1>15 DEF Read, Child, Drops, TypeOK
<1>16. ASSUME NEW c \in Clients, ReadEnd(c)
       PROVE  Drops(d) \/ Read(d) \/ Send(d)
  BY <1>16 DEF ReadEnd, Child, Drops, TypeOK
<1>17. ASSUME NEW c \in Clients, AnswerEnd(c)
       PROVE  Drops(d) \/ Read(d) \/ Send(d)
  BY <1>17 DEF AnswerEnd, Child, Write, Gone, EndsServer, Drops, TypeOK
<1>18. ASSUME NEW c \in Clients, Echo(c) PROVE Drops(d) \/ Read(d) \/ Send(d)
  BY <1>18 DEF Echo, Child, Write, Gone, Drops, TypeOK
<1>19. ASSUME NEW c \in Clients, BrokenPipe(c)
       PROVE  Drops(d) \/ Read(d) \/ Send(d)
  BY <1>19 DEF BrokenPipe, Ends, Drops, TypeOK
<1>20. ASSUME NEW c \in Clients, Kill(c) PROVE Drops(d) \/ Read(d) \/ Send(d)
  BY <1>20 DEF Kill, Child, Drops, TypeOK
<1>21. ASSUME NEW c \in Clients, ChildCloses(c)
       PROVE  Drops(d) \/ Read(d) \/ Send(d)
  BY <1>21 DEF ChildCloses, Child, Drops, TypeOK
<1>22. ASSUME NEW c \in Clients, Exit(c) PROVE Drops(d) \/ Read(d) \/ Send(d)
  BY <1>22 DEF Exit, Ends, Drops, TypeOK
<1>23. ASSUME NEW c \in Clients, ChildInterrupted(c)
       PROVE  Drops(d) \/ Read(d) \/ Send(d)
  BY <1>23 DEF ChildInterrupted, Child, Drops, TypeOK
<1>24. ASSUME NEW c \in Clients, Connect(c)
       PROVE  Drops(d) \/ Read(d) \/ Send(d)
  BY <1>24 DEF Connect, Drops, TypeOK
<1>25. ASSUME NEW c \in Clients, Send(c) PROVE Drops(d) \/ Read(d) \/ Send(d)
  BY <1>25 DEF Send, Drops, TypeOK
<1>26. ASSUME NEW c \in Clients, Close(c) PROVE Drops(d) \/ Read(d) \/ Send(d)
  BY <1>26 DEF Close, Drops, TypeOK
<1>27. ASSUME NEW c \in Clients, CutOff(c) PROVE Drops(d) \/ Read(d) \/ Send(d)
  BY <1>27 DEF CutOff, Dead, Drops, TypeOK
<1>28. ASSUME NEW c \in Clients, Abort(c) PROVE Drops(d) \/ Read(d) \/ Send(d)
  BY <1>28 DEF Abort, Drops, TypeOK
<1>29. ASSUME CtrlC PROVE Drops(d) \/ Read(d) \/ Send(d)
  BY <1>29 DEF CtrlC, Drops, TypeOK
<1>30. ASSUME UNCHANGED vars PROVE Drops(d) \/ Read(d) \/ Send(d)
  BY <1>30 DEF Drops, TypeOK
<1>31. QED
  BY <1>1, <1>2, <1>3, <1>4, <1>5, <1>6, <1>7, <1>8, <1>9, <1>10, <1>11,
     <1>12, <1>13, <1>14, <1>15, <1>16, <1>17, <1>18, <1>19, <1>20, <1>21,
     <1>22, <1>23, <1>24, <1>25, <1>26, <1>27, <1>28, <1>29, <1>30
     DEF Next, Server, posluzi_klijenta, Talk

(* Every step keeps the reasons.                                           *)
LEMMA CausesStep ==
  ASSUME TypeOK, Causes, \A c \in Clients : Carried(c), [Next]_vars
  PROVE  Causes'
<1> USE SaidStays DEF Causes
<1>1. ASSUME Listen PROVE Causes'
  BY <1>1 DEF Listen, Step, TypeOK
<1>2. ASSUME Test PROVE Causes'
  BY <1>2 DEF Test, Step, TypeOK
<1>3. ASSUME Block PROVE Causes'
  BY <1>3 DEF Block, Step, TypeOK
<1>4. ASSUME Accept PROVE Causes'
  BY <1>4 DEF Accept, Step, TypeOK
<1>5. ASSUME AcceptFails PROVE Causes'
  BY <1>5 DEF AcceptFails, Step, TypeOK
<1>6. ASSUME Fork PROVE Causes'
  BY <1>6 DEF Fork, Step, TypeOK
<1>7. ASSUME ForkFails PROVE Causes'
  BY <1>7 DEF ForkFails, Step, TypeOK
<1>8. ASSUME ParentCloses PROVE Causes'
  BY <1>8 DEF ParentCloses, Step, TypeOK
<1>9. ASSUME Leave PROVE Causes'
  BY <1>9 DEF Leave, Step, TypeOK
<1>10. ASSUME NEW s \in StopSignals, rukovatelj_zaustavi(s) PROVE Causes'
  BY <1>10 DEF rukovatelj_zaustavi, Running, StopSignals, TypeOK
<1>11. ASSUME EnterSigchld PROVE Causes'
  BY <1>11 DEF EnterSigchld, TypeOK
<1>12. ASSUME NEW c \in Clients, Reap(c) PROVE Causes'
  BY <1>12 DEF Reap, TypeOK
<1>13. ASSUME ReapEnd PROVE Causes'
  BY <1>13 DEF ReapEnd, TypeOK
<1>14. ASSUME NEW c \in Clients, DropListener(c) PROVE Causes'
  BY <1>14 DEF DropListener, Child, TypeOK
<1>15. ASSUME NEW c \in Clients, Read(c) PROVE Causes'
  BY <1>15 DEF Read, Child, TypeOK
<1>16. ASSUME NEW c \in Clients, ReadEnd(c) PROVE Causes'
  BY <1>16 DEF ReadEnd, Child, TypeOK
<1>17. ASSUME NEW c \in Clients, AnswerEnd(c) PROVE Causes'
  <2>1. /\ chunk[c] \in Seq(Messages) /\ chunk[c] # <<>>
        /\ Head(chunk[c]) = KRAJ
    BY <1>17 DEF AnswerEnd, Child, EndsServer, TypeOK
  <2>2. 1 \in 1 .. Len(chunk[c]) /\ chunk[c][1] = KRAJ
    BY <2>1, EmptySeq, LenProperties, HeadTailProperties
  <2>3. Wanted
    BY <2>2 DEF Carried, Wanted
  <2>4. /\ UNCHANGED <<pending, ctrl_c, zaustavi>>
        /\ \A d \in Clients : child'[d] = "none" => d # c /\ child[d] = "none"
        /\ \A d \in Clients : d # c => answers'[d] = answers[d]
    BY <1>17 DEF AnswerEnd, Child, Write, TypeOK
  <2>5. QED
    BY <2>3, <2>4
<1>18. ASSUME NEW c \in Clients, Echo(c) PROVE Causes'
  BY <1>18 DEF Echo, Child, Write, Gone, TypeOK
<1>19. ASSUME NEW c \in Clients, BrokenPipe(c) PROVE Causes'
  BY <1>19 DEF BrokenPipe, Ends, TypeOK
<1>20. ASSUME NEW c \in Clients, Kill(c) PROVE Causes'
  BY <1>20 DEF Kill, Child, TypeOK
<1>21. ASSUME NEW c \in Clients, ChildCloses(c) PROVE Causes'
  BY <1>21 DEF ChildCloses, Child, TypeOK
<1>22. ASSUME NEW c \in Clients, Exit(c) PROVE Causes'
  BY <1>22 DEF Exit, Ends, TypeOK
<1>23. ASSUME NEW c \in Clients, ChildInterrupted(c) PROVE Causes'
  BY <1>23 DEF ChildInterrupted, Child, TypeOK
<1>24. ASSUME NEW c \in Clients, Connect(c) PROVE Causes'
  BY <1>24 DEF Connect, TypeOK
<1>25. ASSUME NEW c \in Clients, Send(c) PROVE Causes'
  BY <1>25 DEF Send, TypeOK
<1>26. ASSUME NEW c \in Clients, Close(c) PROVE Causes'
  BY <1>26 DEF Close, TypeOK
<1>27. ASSUME NEW c \in Clients, CutOff(c) PROVE Causes'
  BY <1>27 DEF CutOff, Dead, TypeOK
<1>28. ASSUME NEW c \in Clients, Abort(c) PROVE Causes'
  BY <1>28 DEF Abort, TypeOK
<1>29. ASSUME CtrlC PROVE Causes'
  BY <1>29 DEF CtrlC, TypeOK
<1>30. ASSUME UNCHANGED vars PROVE Causes'
  BY <1>30 DEF TypeOK
<1>31. QED
  BY <1>1, <1>2, <1>3, <1>4, <1>5, <1>6, <1>7, <1>8, <1>9, <1>10, <1>11,
     <1>12, <1>13, <1>14, <1>15, <1>16, <1>17, <1>18, <1>19, <1>20, <1>21,
     <1>22, <1>23, <1>24, <1>25, <1>26, <1>27, <1>28, <1>29, <1>30
     DEF Next, Server, posluzi_klijenta, Talk

(* What is carried has been said.                                          *)
LEMMA CarriedStep ==
  ASSUME TypeOK, [Next]_vars, NEW c \in Clients, Carried(c)
  PROVE  Carried(c)'
<1>1. Uttered(c) \subseteq Uttered(c)'
  BY SaidStays
<1>2. CASE Drops(c)
  BY <1>1, <1>2, EmptySeq DEF Drops, Carried
<1>3. CASE Read(c)
  <2>1. PICK n \in 1 .. Len(inp[c]) :
          /\ chunk'[c] = SubSeq(inp[c], 1, n)
          /\ inp'[c] = SubSeq(inp[c], n + 1, Len(inp[c]))
    BY <1>3 DEF Read, TypeOK
  <2>2. inp[c] \in Seq(Messages) /\ Len(inp[c]) \in Nat
    BY LenProperties DEF TypeOK
  <2>3. /\ Len(chunk'[c]) = n
        /\ \A k \in 1 .. n : chunk'[c][k] = inp[c][k]
        /\ Len(inp'[c]) = Len(inp[c]) - n
        /\ \A k \in 1 .. Len(inp[c]) - n : inp'[c][k] = inp[c][n + k]
    BY <2>1, <2>2, CutInTwo
  <2>4. /\ \A k \in 1 .. n : k \in 1 .. Len(inp[c])
        /\ \A k \in 1 .. Len(inp[c]) - n : n + k \in 1 .. Len(inp[c])
    BY <2>2
  <2>5. QED
    BY <1>1, <2>3, <2>4 DEF Carried
<1>4. CASE Send(c)
  <2> DEFINE next == Script[c][sent[c] + 1]
  <2>1. /\ sent'[c] = sent[c] + 1 /\ sent[c] \in Nat
        /\ inp'[c] = Append(inp[c], next) /\ chunk'[c] = chunk[c]
        /\ sent[c] < Len(Script[c]) /\ Len(Script[c]) \in Nat
        /\ inp[c] \in Seq(Messages) /\ Len(inp[c]) \in Nat
    BY <1>4, ScriptAssumption, LenProperties DEF Send, TypeOK
  <2>2. next \in Uttered(c)'
    BY <2>1 DEF Uttered
  <2>3. next \in Messages
    BY <2>1, ScriptAssumption, ElementOfSeq
  <2>4. /\ Len(inp'[c]) = Len(inp[c]) + 1
        /\ inp'[c][Len(inp[c]) + 1] = next
        /\ \A k \in 1 .. Len(inp[c]) : inp'[c][k] = inp[c][k]
    BY <2>1, <2>3, AppendProperties
  <2> HIDE DEF next
  <2>5. \A k \in 1 .. Len(inp'[c]) :
          k \in 1 .. Len(inp[c]) \/ k = Len(inp[c]) + 1
    BY <2>1, <2>4
  <2>6. QED
    BY <1>1, <2>1, <2>2, <2>4, <2>5 DEF Carried
<1>5. QED
  BY <1>2, <1>3, <1>4, OthersDrop

ReasonsInv ==
  /\ AnswersInv
  /\ Causes
  /\ \A c \in Clients : Carried(c)

(* The server has its reasons at all times.                                *)
LEMMA ReasonsInvariant == Spec => []ReasonsInv
<1>1. Init => Causes /\ \A c \in Clients : Carried(c)
  BY EmptySeq DEF Init, Causes, Carried
<1>2. AnswersInv => TypeOK
  BY DEF AnswersInv, Inv
<1>3. /\ TypeOK /\ Causes /\ (\A c \in Clients : Carried(c)) /\ [Next]_vars
      => Causes' /\ \A c \in Clients : Carried(c)'
  BY CausesStep, CarriedStep
<1>4. Init /\ AnswersInv => ReasonsInv
  BY <1>1 DEF ReasonsInv
<1>5. ReasonsInv /\ AnswersInv' /\ [Next]_vars => ReasonsInv'
  BY <1>2, <1>3 DEF ReasonsInv
<1>6. QED
  BY <1>4, <1>5, AnswersInvariant, PTL DEF Spec

-----------------------------------------------------------------------------
(* Every step of the server, its children and its clients is a step of the *)
(* echo service, or one that the service does not see.                     *)
phases == [c \in Clients |-> Phase(c)]

Quiet ==
  /\ UNCHANGED <<sent, answers, unforked, ctrl_c>>
  /\ \A c \in Clients : Phase(c)' = Phase(c)

(* What is quiet leaves the service as it is.                              *)
LEMMA QuietStutters ==
  ASSUME Quiet
  PROVE  UNCHANGED Service!vars
<1>1. UNCHANGED [c \in Clients |-> Phase(c)]
  BY DEF Quiet
<1>2. UNCHANGED (ctrl_c > 0)
  BY DEF Quiet
<1>3. QED
  BY <1>1, <1>2 DEF Quiet, Service!vars

(* The steps of the implementation that the service sees.                  *)
LEMMA OthersQuiet ==
  ASSUME [Next]_vars
  PROVE  \/ Quiet
         \/ ForkFails \/ CtrlC
         \/ \E c \in Clients : \/ Connect(c) \/ Send(c) \/ Echo(c)
                               \/ AnswerEnd(c) \/ Close(c) \/ Abort(c)
                               \/ CutOff(c)
<1>1. \/ UNCHANGED <<sent, answers, unforked, ctrl_c, client>>
      \/ ForkFails \/ CtrlC
      \/ \E c \in Clients : \/ Connect(c) \/ Send(c) \/ Echo(c)
                            \/ AnswerEnd(c) \/ Close(c) \/ Abort(c)
                            \/ CutOff(c)
  BY DEF Next, Server, posluzi_klijenta, Talk, Listen, Test, Block, Accept,
         AcceptFails, Fork, ParentCloses, Leave, rukovatelj_zaustavi,
         EnterSigchld, Reap, ReapEnd, DropListener, Read, ReadEnd, BrokenPipe,
         Kill, ChildCloses, Exit, ChildInterrupted, Ends
<1>2. QED
  BY <1>1 DEF Quiet, Phase

(* A client whose phase alone changes.                                     *)
LEMMA PhaseMoves ==
  ASSUME TypeOK, NEW c \in Clients, NEW s \in ClientStates,
         client' = [client EXCEPT ![c] = s]
  PROVE  phases' = [phases EXCEPT ![c] = Phase(c)']
<1>1. \A d \in Clients : d # c => Phase(d)' = Phase(d)
  BY DEF TypeOK, Phase
<1>2. QED
  BY <1>1 DEF phases

(* A client comes, or finds nobody and is none the wiser.                  *)
LEMMA ComeRefines ==
  ASSUME TypeOK, NEW c \in Clients, Connect(c)
  PROVE  Quiet \/ Service!Come(c)
<1>1. /\ client[c] = "idle" /\ client \in [Clients -> ClientStates]
      /\ UNCHANGED <<sent, answers, unforked, ctrl_c>>
      /\ \/ client' = [client EXCEPT ![c] = "connected"]
         \/ client' = [client EXCEPT ![c] = "refused"]
  BY DEF Connect, TypeOK
<1>2. CASE client' = [client EXCEPT ![c] = "connected"]
  <2>1. Phase(c) = "away" /\ Phase(c)' = "talks"
    BY <1>1, <1>2 DEF Phase
  <2>2. phases' = [phases EXCEPT ![c] = "talks"]
    BY <1>2, <2>1, PhaseMoves DEF ClientStates
  <2>3. QED
    BY <1>1, <2>1, <2>2 DEF phases, Service!Come, Service!Moves
<1>3. CASE client' = [client EXCEPT ![c] = "refused"]
  <2>1. \A d \in Clients : Phase(d)' = Phase(d)
    BY <1>1, <1>3 DEF Phase
  <2>2. QED
    BY <1>1, <2>1 DEF Quiet
<1>4. QED
  BY <1>1, <1>2, <1>3

(* A client writes the next message.                                       *)
LEMMA SayRefines ==
  ASSUME TypeOK, NEW c \in Clients, Send(c)
  PROVE  Service!Say(c)
<1>1. phases' = phases
  BY DEF Send, phases, Phase
<1>2. phases[c] = "talks"
  BY DEF Send, phases, Phase
<1>3. UNCHANGED (ctrl_c > 0)
  BY DEF Send
<1>4. QED
  BY <1>1, <1>2, <1>3 DEF Send, phases, Service!Say

(* A client leaves by itself, when it is done or is killed.                *)
LEMMA GoRefines ==
  ASSUME TypeOK, NEW c \in Clients, Close(c) \/ Abort(c)
  PROVE  Service!Go(c)
<1>1. /\ client[c] = "connected" /\ client \in [Clients -> ClientStates]
      /\ client' = [client EXCEPT ![c] = "closed"]
      /\ UNCHANGED <<sent, answers, unforked, ctrl_c>>
  BY DEF Close, Abort, TypeOK
<1>2. Phase(c) = "talks" /\ Phase(c)' = "left"
  BY <1>1 DEF Phase
<1>3. phases' = [phases EXCEPT ![c] = "left"]
  BY <1>1, <1>2, PhaseMoves DEF ClientStates
<1>4. QED
  BY <1>1, <1>2, <1>3 DEF phases, Service!Go, Service!Moves

(* fork fails for a connection that has heard nothing.                     *)
LEMMA FailRefines ==
  ASSUME ReasonsInv, ForkFails
  PROVE  \E c \in Clients : Service!Fail(c)
<1> DEFINE c == fd_klijent
<1>1. TypeOK /\ ServedOnce /\ Accounted /\ Causes
  BY DEF ReasonsInv, AnswersInv, Inv
<1>2. /\ pc = "fork" /\ c \in Clients /\ Fresh(c)
      /\ unforked' = unforked \cup {c}
      /\ UNCHANGED <<client, sent, answers, ctrl_c>>
  BY <1>1 DEF ForkFails, Step, TypeOK, Fresh
<1>3. child[c] = "none" /\ client[c] \in ClientStates
      /\ client[c] \notin {"idle", "refused", "cut"}
  BY <1>1, <1>2 DEF ServedOnce, Accounted, TypeOK
<1>4. answers[c] = <<>>
  BY <1>1, <1>2, <1>3 DEF Causes
<1>5. phases' = phases /\ phases[c] \in {"talks", "left"}
  BY <1>2, <1>3 DEF phases, Phase, ClientStates
<1>6. Service!Fail(c)
  BY <1>2, <1>4, <1>5 DEF phases, Service!Fail
<1>7. QED
  BY <1>2, <1>6

(* Ctrl+C in the terminal of the server.                                   *)
LEMMA InterruptRefines ==
  ASSUME TypeOK, CtrlC
  PROVE  Service!Interrupt
<1>1. phases' = phases /\ ctrl_c' > 0
  BY DEF CtrlC, phases, Phase, TypeOK
<1>2. QED
  BY <1>1 DEF CtrlC, phases, Service!Interrupt

(* The server ends a conversation for a reason the service allows.         *)
LEMMA CutRefines ==
  ASSUME ReasonsInv, NEW c \in Clients, CutOff(c)
  PROVE  Service!Cut(c)
<1>1. TypeOK /\ Accounted /\ Causes
  BY DEF ReasonsInv, AnswersInv, Inv
<1>2. /\ client[c] = "connected" /\ ~ Queued(c) /\ holders[c] = {}
      /\ client' = [client EXCEPT ![c] = "cut"]
      /\ UNCHANGED <<sent, answers, unforked, ctrl_c>>
  BY DEF CutOff, Dead
<1>3. Phase(c) = "talks" /\ Phase(c)' = "cut"
  BY <1>1, <1>2 DEF Phase, TypeOK
<1>4. phases' = [phases EXCEPT ![c] = "cut"]
  BY <1>1, <1>2, <1>3, PhaseMoves DEF ClientStates
<1>5. Wanted => Service!AskedToStop
  BY DEF Wanted, Uttered, Service!AskedToStop
<1>6. CASE child[c] = "none"
  <2>1. ~ Fresh(c)
    BY <1>1, <1>2 DEF Fresh, Accounted
  <2>2. c \in unforked \/ zaustavi
    BY <1>1, <1>2, <1>6, <2>1 DEF Accounted
  <2>3. answers[c] = <<>>
    BY <1>1, <1>6 DEF Causes
  <2>4. c \in unforked \/ ctrl_c > 0 \/ Wanted
    BY <1>1, <2>2 DEF Causes
  <2>5. QED
    BY <1>2, <1>3, <1>4, <1>5, <2>3, <2>4
       DEF phases, Service!Cut, Service!Moves
<1>7. CASE child[c] # "none"
  <2>1. child[c] \in {"exit", "zombie", "reaped"}
    BY <1>1, <1>2, <1>7 DEF Accounted, TypeOK, ChildStates, Live
  <2>2. ctrl_c > 0 \/ Service!Dismissed(c)
    BY <1>1, <1>2, <2>1 DEF Accounted, Gone, Service!Dismissed
  <2>3. QED
    BY <1>2, <1>3, <1>4, <2>2 DEF phases, Service!Cut, Service!Moves
<1>8. QED
  BY <1>6, <1>7

(* A child that answers talks to a client that has not been dismissed.     *)
LEMMA AnswersTalk ==
  ASSUME ReasonsInv, NEW c \in Clients, child[c] = "answer", ~ Gone(c)
  PROVE  /\ client[c] = "connected" /\ Phase(c) = "talks"
         /\ Stream(c) /\ Told(c)
         /\ answers[c] \in Seq(Messages \cup {IZLAZIM})
         /\ chunk[c] \in Seq(Messages)
         /\ sent[c] \in Nat
         /\ Len(answers[c]) \in Nat /\ Len(inp[c]) \in Nat
         /\ Len(chunk[c]) \in Nat \ {0} /\ chunk[c][1] = Head(chunk[c])
         /\ Script[c] \in Seq(Messages) /\ Len(Script[c]) \in Nat
         /\ ~ Service!Dismissed(c)
<1>1. TypeOK /\ ServedOnce /\ Accounted /\ Faithful(c)
  BY DEF ReasonsInv, AnswersInv, Inv
<1>2. client[c] = "connected"
  BY <1>1 DEF ServedOnce, Accounted, Gone, TypeOK, ClientStates
<1>3. Phase(c) = "talks"
  BY <1>2 DEF Phase
<1>4. Stream(c) /\ Told(c)
  BY <1>1 DEF Faithful, Open
<1>5. /\ answers[c] \in Seq(Messages \cup {IZLAZIM})
      /\ chunk[c] \in Seq(Messages) /\ chunk[c] # <<>> /\ sent[c] \in Nat
      /\ Len(answers[c]) \in Nat /\ Len(inp[c]) \in Nat
      /\ Script[c] \in Seq(Messages) /\ Len(Script[c]) \in Nat
  BY <1>1, ScriptAssumption, LenProperties DEF TypeOK
<1>6. Len(chunk[c]) \in Nat \ {0} /\ chunk[c][1] = Head(chunk[c])
  BY <1>5, EmptySeq, LenProperties, HeadTailProperties
<1>7. ASSUME answers[c] # <<>> PROVE answers[c][Len(answers[c])] # IZLAZIM
  <2>1. Len(answers[c]) \in 1 .. Len(answers[c])
    BY <1>5, <1>7, EmptySeq
  <2>2. Len(answers[c]) \in 1 .. Len(Script[c])
    BY <1>4, <1>5, <2>1 DEF Told
  <2>3. Script[c][Len(answers[c])] \in Messages
    BY <1>5, <2>2, ElementOfSeq
  <2>4. answers[c][Len(answers[c])] = Script[c][Len(answers[c])]
    BY <1>4, <2>1 DEF Stream
  <2>5. QED
    BY <2>3, <2>4, ScriptAssumption
<1>8. QED
  BY <1>2, <1>3, <1>4, <1>5, <1>6, <1>7 DEF Service!Dismissed

(* The answer to a KRAJ: the client is dismissed, unless it has gone.      *)
LEMMA HearEndRefines ==
  ASSUME ReasonsInv, NEW c \in Clients, AnswerEnd(c)
  PROVE  Quiet \/ Service!HearEnd(c)
<1>1. /\ TypeOK /\ child[c] = "answer" /\ Head(chunk[c]) = KRAJ
      /\ UNCHANGED <<sent, unforked, ctrl_c>>
  BY DEF ReasonsInv, AnswersInv, Inv, AnswerEnd, Child, EndsServer
<1>2. CASE Gone(c)
  BY <1>1, <1>2 DEF AnswerEnd, Write, Quiet, Phase, Gone, TypeOK
<1>3. CASE ~ Gone(c)
  <2>1. client' = client
    BY <1>1, <1>3 DEF AnswerEnd, Write, TypeOK
  <2>2. phases' = phases /\ phases[c] = "talks"
    BY <1>1, <1>3, <2>1, AnswersTalk DEF phases, Phase
  <2>3. answers' = [answers EXCEPT ![c] = @ \o <<IZLAZIM>>]
    BY <1>3 DEF AnswerEnd, Write
  <2>4. answers' = [answers EXCEPT ![c] = Append(@, IZLAZIM)]
    <3>1. answers[c] \in Seq(Messages \cup {IZLAZIM})
      BY <1>1, <1>3, AnswersTalk
    <3>2. answers[c] \o <<IZLAZIM>> = Append(answers[c], IZLAZIM)
      BY <3>1
    <3>3. QED
      BY <2>3, <3>2
  <2>5. /\ Len(answers[c]) < sent[c]
        /\ Script[c][Len(answers[c]) + 1] = KRAJ
    <3> DEFINE a == Len(answers[c])
               m == Len(chunk[c])
               i == Len(inp[c])
    <3>1. /\ a \in Nat /\ m \in Nat \ {0} /\ i \in Nat /\ sent[c] = a + m + i
          /\ \A k \in 1 .. m : chunk[c][k] = Script[c][a + k]
          /\ chunk[c][1] = KRAJ
      BY <1>1, <1>3, AnswersTalk DEF Stream
    <3> HIDE DEF a, m, i
    <3>2. a < sent[c] /\ 1 \in 1 .. m
      BY <3>1
    <3>3. Script[c][a + 1] = KRAJ
      BY <3>1, <3>2
    <3>4. QED
      BY <3>2, <3>3 DEF a
  <2>6. ~ Service!Dismissed(c)
    BY <1>1, <1>3, AnswersTalk
  <2>7. UNCHANGED (ctrl_c > 0)
    BY <1>1
  <2>8. QED
    BY <1>1, <2>2, <2>4, <2>5, <2>6, <2>7 DEF phases, Service!HearEnd
<1>4. QED
  BY <1>2, <1>3

(* An echo: the next messages come back, unless the client has gone.       *)
LEMMA HearRefines ==
  ASSUME ReasonsInv, NEW c \in Clients, Echo(c)
  PROVE  Quiet \/ Service!Hear(c)
<1>1. /\ TypeOK /\ child[c] = "answer"
      /\ UNCHANGED <<sent, unforked, ctrl_c>>
  BY DEF ReasonsInv, AnswersInv, Inv, Echo, Child
<1>2. CASE Gone(c)
  BY <1>1, <1>2 DEF Echo, Write, Quiet, Phase, Gone, TypeOK
<1>3. CASE ~ Gone(c)
  <2>1. client' = client
    BY <1>1, <1>3 DEF Echo, Write, TypeOK
  <2>2. phases' = phases /\ phases[c] = "talks"
    BY <1>1, <1>3, <2>1, AnswersTalk DEF phases, Phase
  <2>3. answers' = [answers EXCEPT ![c] = @ \o chunk[c]]
    BY <1>3 DEF Echo, Write
  <2> DEFINE a == Len(answers[c])
             m == Len(chunk[c])
             i == Len(inp[c])
             next == SubSeq(Script[c], a + 1, a + m)
  <2>4. /\ a \in Nat /\ m \in Nat \ {0} /\ i \in Nat /\ sent[c] = a + m + i
        /\ sent[c] <= Len(Script[c]) /\ Len(Script[c]) \in Nat
        /\ \A k \in 1 .. m : chunk[c][k] = Script[c][a + k]
    BY <1>1, <1>3, AnswersTalk DEF Stream, Told
  <2>5. Script[c] \in Seq(Messages) /\ chunk[c] \in Seq(Messages)
    BY <1>1, <1>3, AnswersTalk
  <2>6. chunk[c] = next
    <3>1. Len(chunk[c]) = m
      OBVIOUS
    <3> HIDE DEF a, m, i
    <3>2. /\ a + 1 \in Int /\ a + m \in Int /\ a + 1 <= a + m
          /\ (a + m) - (a + 1) + 1 = m
          /\ \A k \in 1 .. m : (a + 1) + k - 1 = a + k
          /\ \A k \in (a + 1) .. (a + m) : k \in 1 .. Len(Script[c])
      BY <2>4
    <3>3. \A k \in (a + 1) .. (a + m) : Script[c][k] \in Messages
      BY <2>5, <3>2, ElementOfSeq
    <3>4. /\ next \in Seq(Messages) /\ Len(next) = m
          /\ \A k \in 1 .. m : next[k] = Script[c][a + k]
      BY <3>2, <3>3, SubSeqProperties
    <3> HIDE DEF next
    <3>5. /\ Len(chunk[c]) = Len(next)
          /\ \A k \in 1 .. Len(chunk[c]) : chunk[c][k] = next[k]
      BY <2>4, <3>1, <3>4
    <3>6. QED
      BY <2>5, <3>4, <3>5, SeqEqual
  <2>7. a + m \in a + 1 .. sent[c]
    <3> HIDE DEF a, m, i
    <3>1. QED
      BY <2>4
  <2>8. answers' = [answers EXCEPT ![c] = @ \o next]
    BY <2>3, <2>6
  <2>9. ~ Service!Dismissed(c)
    BY <1>1, <1>3, AnswersTalk
  <2>10. UNCHANGED (ctrl_c > 0)
    BY <1>1
  <2>11. \E n \in Len(answers[c]) + 1 .. sent[c] :
           answers' = [answers EXCEPT ![c] =
                         @ \o SubSeq(Script[c], Len(answers[c]) + 1, n)]
    BY <2>7, <2>8
  <2>12. QED
    BY <1>1, <2>2, <2>9, <2>10, <2>11 DEF phases, Service!Hear
<1>4. QED
  BY <1>2, <1>3

(* tcp_server_fork.c is an echo service: what TcpServerFork does with      *)
(* processes, sockets and signals, EchoService does without them.          *)
THEOREM ServerIsAnEchoService == Spec => ImplementsService
<1>1. Init => Service!Init
  BY DEF Init, Phase, Service!Init
<1>2. ASSUME ReasonsInv, [Next]_vars
      PROVE  [Service!Next]_(Service!vars)
  <2>1. TypeOK
    BY <1>2 DEF ReasonsInv, AnswersInv, Inv
  <2>2. \/ Quiet
        \/ Service!Interrupt
        \/ \E c \in Clients :
             \/ Service!Come(c) \/ Service!Say(c) \/ Service!Hear(c)
             \/ Service!HearEnd(c) \/ Service!Go(c) \/ Service!Cut(c)
             \/ Service!Fail(c)
    BY <1>2, <2>1, OthersQuiet, ComeRefines, SayRefines, GoRefines,
       FailRefines, InterruptRefines, CutRefines, HearRefines, HearEndRefines
  <2>3. QED
    BY <2>2, QuietStutters DEF Service!Next
<1>3. QED
  BY <1>1, <1>2, ReasonsInvariant, PTL
     DEF Spec, ImplementsService, Service!Spec
=============================================================================
