---------------------------- MODULE MCShmBrojac ----------------------------
(***************************************************************************)
(* Small instances of ShmBrojac for TLC.                                   *)
(*   brojac_sem.cfg      two runs, one after the other, two processes      *)
(*                       killed anywhere                                   *)
(*   brojac_overlap.cfg  two runs at the same time, nobody killed          *)
(***************************************************************************)
EXTENDS ShmBrojac

(* Two runs are enough for one to leave something behind for the other.    *)
ASSUME TwoRuns == \E r, s \in Runs : r # s
=============================================================================
