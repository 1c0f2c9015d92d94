---------------------------- MODULE MCEchoServer ----------------------------
(* Two servers; a client that says KRAJ, one that sends a text, and a      *)
(* silent one.                                                             *)
EXTENDS EchoServer, TLC

CONSTANTS s1, s2, a, b, n

TwoServers == {s1, s2}
ThreeClients == {a, b, n}
AllPieces == {"KR", "AJ", "x", "y", "U REDU"}
Messages == (a :> KRAJ) @@ (b :> <<"x", "y">>) @@ (n :> <<>>)
AllTransports == {"tcp", "uds", "udp"}
=============================================================================
