-------------------------- MODULE MCTcpServerFork --------------------------
(***************************************************************************)
(* Small instances of TcpServerFork for TLC.  Client a is an nc session of *)
(* two lines, the second of which is KRAJ; b and c are calls of            *)
(* tcp_klijent.c with one message each.                                    *)
(*   tcp_fork.cfg  everything at once: a failing fork or accept, a killed  *)
(*                 client, Ctrl+C                                          *)
(*   tcp_stop.cfg  whether the order to stop reaches the accept loop       *)
(***************************************************************************)
EXTENDS TcpServerFork, TLC

CONSTANTS a, b, text

Conversations == (a :> <<text, KRAJ>>) @@ (b :> <<text>>)

LoneKRAJ == a :> <<KRAJ>>
=============================================================================
