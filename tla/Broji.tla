------------------------------- MODULE Broji -------------------------------
(***************************************************************************)
(* broji.c and broji2.c: threads that increment one global counter,        *)
(* without and with a mutex around count++.  shm_brojac.c is the first of  *)
(* the two with processes for threads: the parent and its child increment  *)
(* a counter in shared memory, and the parent prints it after wait.        *)
(*                                                                         *)
(* pc: "new", "lock", "load", "store", "unlock", "done".  The programs are *)
(* built without optimisation, so that count++ is a load of the memory     *)
(* followed by a store of the value plus one.                              *)
(***************************************************************************)
EXTENDS Integers, FiniteSets

CONSTANTS
  Threads,   (* NTHREADS threads                                           *)
  cnt,       (* increments of every thread                                 *)
  Locking,   (* FALSE \in Locking: broji.c, TRUE \in Locking: broji2.c     *)
  Nobody     (* the owner of an unlocked mutex                             *)

ASSUME ThreadsAssumption ==
  IsFiniteSet(Threads) /\ Threads # {} /\ Nobody \notin Threads
ASSUME CntAssumption == cnt \in Nat \ {0} /\ Locking \subseteq BOOLEAN

VARIABLES
  locked,      (* which of the two programs runs; never changes            *)
  count,
  count_lock,
  pc,
  k,           (* loop counter: the increments a thread has stored         *)
  reg,         (* the value of count a thread has loaded                   *)
  main         (* "create", "join", "printed"                              *)

vars == <<locked, count, count_lock, pc, k, reg, main>>

Init ==
  /\ locked \in Locking
  /\ count = 0
  /\ count_lock = Nobody
  /\ pc = [t \in Threads |-> "new"]
  /\ k = [t \in Threads |-> 0]
  /\ reg = [t \in Threads |-> 0]
  /\ main = "create"

Body == IF locked THEN "lock" ELSE "load"

(* The head of the for loop after j rounds.  The mutated form runs once    *)
(* too often.                                                              *)
LoopTooLong(j) == IF j <= cnt THEN Body ELSE "done"
Loop(j) == IF j < cnt THEN Body ELSE "done"

GoTo(t, from, to) == pc[t] = from /\ pc' = [pc EXCEPT ![t] = to]

Create(t) ==
  /\ main = "create"
  /\ GoTo(t, "new", Loop(0))
  /\ main' = IF \A s \in Threads \ {t} : pc[s] # "new" THEN "join" ELSE main
  /\ UNCHANGED <<locked, count, count_lock, k, reg>>

(* Mutated form: pthread_mutex_trylock whose result nobody looks at.       *)
TryLock(t) ==
  /\ GoTo(t, "lock", "load")
  /\ count_lock' = IF count_lock = Nobody THEN t ELSE count_lock
  /\ UNCHANGED <<locked, count, k, reg, main>>

Lock(t) ==
  /\ GoTo(t, "lock", "load")
  /\ count_lock = Nobody
  /\ count_lock' = t
  /\ UNCHANGED <<locked, count, k, reg, main>>

Load(t) ==
  /\ GoTo(t, "load", "store")
  /\ reg' = [reg EXCEPT ![t] = count]
  /\ UNCHANGED <<locked, count, count_lock, k, main>>

Store(t) ==
  /\ GoTo(t, "store", IF locked THEN "unlock" ELSE Loop(k[t] + 1))
  /\ count' = reg[t] + 1
  /\ k' = [k EXCEPT ![t] = @ + 1]
  /\ UNCHANGED <<locked, count_lock, reg, main>>

(* Mutated form: a thread leaves its last round without unlocking.         *)
UnlockButLast(t) ==
  /\ GoTo(t, "unlock", Loop(k[t]))
  /\ count_lock' = IF k[t] < cnt THEN Nobody ELSE count_lock
  /\ UNCHANGED <<locked, count, k, reg, main>>

Unlock(t) ==
  /\ GoTo(t, "unlock", Loop(k[t]))
  /\ count_lock' = Nobody
  /\ UNCHANGED <<locked, count, k, reg, main>>

(* Mutated form: main does not wait for the last thread.                   *)
JoinButLast ==
  /\ main = "join"
  /\ \E s \in Threads : \A t \in Threads \ {s} : pc[t] = "done"
  /\ main' = "printed"
  /\ UNCHANGED <<locked, count, count_lock, pc, k, reg>>

(* main has joined all threads and prints count.                           *)
Join ==
  /\ main = "join"
  /\ \A t \in Threads : pc[t] = "done"
  /\ main' = "printed"
  /\ UNCHANGED <<locked, count, count_lock, pc, k, reg>>

counter(t) == Lock(t) \/ Load(t) \/ Store(t) \/ Unlock(t)

Main == (\E t \in Threads : Create(t)) \/ Join

Terminated == main = "printed" /\ UNCHANGED vars

Next == (\E t \in Threads : counter(t)) \/ Main \/ Terminated

(* Fairness: the kernel runs every thread that can run; nothing is assumed *)
(* of the order in which the mutex is granted.                             *)
Spec ==
  Init /\ [][Next]_vars /\ WF_vars(Main)
       /\ \A t \in Threads : WF_vars(counter(t))

-----------------------------------------------------------------------------
(* Properties                                                              *)

(* Every variable has its type, and no thread increments too often.        *)
TypeOK ==
  /\ locked \in BOOLEAN
  /\ count \in Nat
  /\ count_lock \in Threads \cup {Nobody}
  /\ pc \in [Threads -> {"new", "lock", "load", "store", "unlock", "done"}]
  /\ k \in [Threads -> 0 .. cnt]
  /\ reg \in [Threads -> Nat]
  /\ main \in {"create", "join", "printed"}

(* However the increments of broji.c interleave, the printed result lies   *)
(* between 2 (1 if every thread increments only once) and NTHREADS * cnt:  *)
(* a thread can overwrite all the others have done, but the last store of  *)
(* all comes from a thread that has seen a store of its own.               *)
ResultInRange ==
  main = "printed" =>
    /\ (IF cnt = 1 THEN 1 ELSE 2) <= count
    /\ count <= Cardinality(Threads) * cnt

(* broji2.c prints NTHREADS * cnt whatever the interleaving.               *)
ExactWithMutex ==
  locked /\ main = "printed" => count = Cardinality(Threads) * cnt

(* Both programs end: nobody keeps the mutex, and main joins every thread. *)
AllJoined == <>(main = "printed")
=============================================================================
