-------------------------- MODULE MCBoundedBuffer --------------------------
(***************************************************************************)
(* Small instances of BoundedBuffer for TLC.  The cfg files give the       *)
(* threads their model values:                                             *)
(*   buffer_many.cfg  nit_cond2.c, two producers and two consumers         *)
(*   buffer_one.cfg   nit_cond.c, one producer and one consumer            *)
(***************************************************************************)
EXTENDS BoundedBuffer

(* As many items are produced as consumed: the two programs are balanced.  *)
ASSUME Balanced == Cardinality(Producers) = Cardinality(Consumers)
=============================================================================
