---------------------------- MODULE EchoService ----------------------------
(***************************************************************************)
(* What tcp_server_fork.c promises to those who talk to it.  A client      *)
(* comes, says the messages of its script and hears them again, several at *)
(* a time perhaps, until it is dismissed for its KRAJ.  It may leave at    *)
(* any time; the server ends a conversation only for a reason.  There are  *)
(* no processes, signals, sockets or buffers here: TcpServerFork           *)
(* implements this specification.                                          *)
(***************************************************************************)
EXTENDS Naturals, Sequences

CONSTANTS
  Clients,
  Script,      (* Script[c]: the messages c says, in order                 *)
  KRAJ,        (* the request to end, a message of the script              *)
  IZLAZIM      (* the dismissal, no message of a script                    *)

VARIABLES
  phase,       (* phase[c]: "away", "talks", "left" (by itself), "cut" (by *)
               (* the server)                                              *)
  said,        (* how many messages a client has said                      *)
  heard,       (* what it has heard                                        *)
  unlucky,     (* clients the server had no process for                    *)
  interrupted  (* the user of the server has pressed Ctrl+C                *)

vars == <<phase, said, heard, unlucky, interrupted>>

Init ==
  /\ phase = [c \in Clients |-> "away"]
  /\ said = [c \in Clients |-> 0]
  /\ heard = [c \in Clients |-> <<>>]
  /\ unlucky = {}
  /\ interrupted = FALSE

Moves(c, from, to) == phase[c] = from /\ phase' = [phase EXCEPT ![c] = to]

Dismissed(c) == heard[c] # <<>> /\ heard[c][Len(heard[c])] = IZLAZIM

Come(c) ==
  /\ Moves(c, "away", "talks")
  /\ UNCHANGED <<said, heard, unlucky, interrupted>>

Say(c) ==
  /\ phase[c] = "talks"
  /\ said[c] < Len(Script[c])
  /\ said' = [said EXCEPT ![c] = @ + 1]
  /\ UNCHANGED <<phase, heard, unlucky, interrupted>>

(* The next messages come back.                                            *)
Hear(c) ==
  /\ phase[c] = "talks"
  /\ ~ Dismissed(c)
  /\ \E n \in Len(heard[c]) + 1 .. said[c] :
       heard' = [heard EXCEPT ![c] =
                   @ \o SubSeq(Script[c], Len(heard[c]) + 1, n)]
  /\ UNCHANGED <<phase, said, unlucky, interrupted>>

(* The next message is KRAJ, and IZLAZIM comes in its place.               *)
HearEnd(c) ==
  /\ phase[c] = "talks"
  /\ ~ Dismissed(c)
  /\ Len(heard[c]) < said[c]
  /\ Script[c][Len(heard[c]) + 1] = KRAJ
  /\ heard' = [heard EXCEPT ![c] = Append(@, IZLAZIM)]
  /\ UNCHANGED <<phase, said, unlucky, interrupted>>

Go(c) ==
  /\ Moves(c, "talks", "left")
  /\ UNCHANGED <<said, heard, unlucky, interrupted>>

(* Somebody has asked the server to leave.                                 *)
AskedToStop ==
  \E c \in Clients : \E k \in 1 .. said[c] : Script[c][k] = KRAJ

(* The server ends the conversation: with a client it has dismissed, with  *)
(* everyone after Ctrl+C, and otherwise only with one it has not answered  *)
(* yet, because it has no process for it or was asked to leave.            *)
Cut(c) ==
  /\ \/ Dismissed(c)
     \/ interrupted
     \/ heard[c] = <<>> /\ (c \in unlucky \/ AskedToStop)
  /\ Moves(c, "talks", "cut")
  /\ UNCHANGED <<said, heard, unlucky, interrupted>>

(* fork fails, for a client that has come and heard nothing.               *)
Fail(c) ==
  /\ phase[c] \in {"talks", "left"}
  /\ heard[c] = <<>>
  /\ unlucky' = unlucky \cup {c}
  /\ UNCHANGED <<phase, said, heard, interrupted>>

Interrupt ==
  /\ interrupted' = TRUE
  /\ UNCHANGED <<phase, said, heard, unlucky>>

Next ==
  \/ \E c \in Clients : \/ Come(c) \/ Say(c) \/ Hear(c) \/ HearEnd(c)
                        \/ Go(c) \/ Cut(c) \/ Fail(c)
  \/ Interrupt

Spec == Init /\ [][Next]_vars

(* A client gets its messages back in order and nothing else, and IZLAZIM  *)
(* only in place of a KRAJ and as the last word.                           *)
EchoFidelity ==
  \A c \in Clients :
    LET n == Len(heard[c])
    IN  /\ n <= said[c]
        /\ \A k \in 1 .. n :
             \/ heard[c][k] = Script[c][k]
             \/ k = n /\ heard[c][k] = IZLAZIM /\ Script[c][k] = KRAJ
=============================================================================
