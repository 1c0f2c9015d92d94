---------------------------- MODULE FifoChannel ----------------------------
(***************************************************************************)
(* What nit_cond.c and nit_cond2.c promise to their threads: one FIFO      *)
(* channel of bounded capacity.  Every producer puts its items in order,   *)
(* every consumer takes its share, an item is handed over exactly once and *)
(* the threads never get stuck before everything is delivered.  There is   *)
(* no mutex, no index and no condition variable here: BoundedBuffer        *)
(* implements this specification.                                          *)
(***************************************************************************)
EXTENDS Naturals, Sequences

CONSTANTS
  Producers,   (* threads that run proizvodjac                             *)
  Consumers,   (* threads that run potrosac                                *)
  Capacity,    (* VEL_BUFFERA                                              *)
  Quota        (* BROJ_STAVKI / STAVKI_PO_NITI                             *)

VARIABLES
  channel,     (* items put and not yet taken, oldest first                *)
  sent,        (* how many items each producer has put                     *)
  received,    (* how many items each consumer has taken                   *)
  delivered    (* <<consumer, item>> in the order of the takes             *)

vars == <<channel, sent, received, delivered>>

Init ==
  /\ channel = <<>>
  /\ sent = [p \in Producers |-> 0]
  /\ received = [c \in Consumers |-> 0]
  /\ delivered = <<>>

(* The k-th item of producer p is the pair <<p, k>>.                       *)
Put(p) ==
  /\ sent[p] < Quota
  /\ Len(channel) < Capacity
  /\ channel' = Append(channel, <<p, sent[p]>>)
  /\ sent' = [sent EXCEPT ![p] = @ + 1]
  /\ UNCHANGED <<received, delivered>>

Take(c) ==
  /\ received[c] < Quota
  /\ channel # <<>>
  /\ delivered' = Append(delivered, <<c, Head(channel)>>)
  /\ channel' = Tail(channel)
  /\ received' = [received EXCEPT ![c] = @ + 1]
  /\ UNCHANGED sent

Next ==
  \/ \E p \in Producers : Put(p)
  \/ \E c \in Consumers : Take(c)

Spec == Init /\ [][Next]_vars /\ WF_vars(Next)
=============================================================================
