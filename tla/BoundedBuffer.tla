--------------------------- MODULE BoundedBuffer ---------------------------
(***************************************************************************)
(* The circular buffer shared by producer and consumer threads in          *)
(* nit_cond.c (one producer, one consumer, pthread_cond_signal) and        *)
(* nit_cond2.c (N_PROIZ producers, N_POTR consumers,                       *)
(* pthread_cond_broadcast).  The two programs differ only in the constants *)
(* Producers, Consumers, Quota and Wakeup.                                 *)
(*                                                                         *)
(* A thread's control point pc[t] names the statement it executes next:    *)
(*   "new"     not created yet                                             *)
(*   "lock"    pthread_mutex_lock                                          *)
(*   "test"    the condition of the while loop, mutex held                 *)
(*   "wait"    inside pthread_cond_wait, mutex released                    *)
(*   "move"    the slot is written (producer) or read (consumer)           *)
(*   "advance" upis_idx or cit_idx moves on                                *)
(*   "count"   buff_items++ or buff_items--                                *)
(*   "wake"    pthread_cond_signal / pthread_cond_broadcast                *)
(*   "unlock"  pthread_mutex_unlock, end of the for body                   *)
(*   "done"    the thread function returned                                *)
(* The random pause between two rounds touches no shared state: it is the  *)
(* time a thread may spend at "lock".                                      *)
(***************************************************************************)
EXTENDS Integers, Sequences, FiniteSets

CONSTANTS
  Producers,    (* threads that run proizvodjac                            *)
  Consumers,    (* threads that run potrosac                               *)
  VEL_BUFFERA,  (* number of slots                                         *)
  Quota,        (* BROJ_STAVKI / STAVKI_PO_NITI: rounds of every thread    *)
  Wakeup,       (* "signal" (nit_cond.c) or "broadcast" (nit_cond2.c)      *)
  MaxSpurious,  (* bound: wake-ups of pthread_cond_wait nobody asked for   *)
  Nobody,       (* the owner of an unlocked mutex                          *)
  Zero          (* what a slot of the static array holds before any write  *)

Threads == Producers \cup Consumers

(* The item id * 100 + i: the pair <<id, i>> (distinct while i < 100).     *)
Items == Producers \X (0 .. Quota - 1)

ASSUME ThreadsAssumption ==
  /\ Producers \cap Consumers = {}
  /\ Nobody \notin Threads
ASSUME SizeAssumption ==
  /\ VEL_BUFFERA \in Nat \ {0}
  /\ Quota \in Nat \ {0}
  /\ MaxSpurious \in Nat
ASSUME WakeupAssumption == Wakeup \in {"signal", "broadcast"}
ASSUME ZeroAssumption == Zero \notin Items

VARIABLES
  buffer, upis_idx, cit_idx, buff_items,
  mutex,      (* the thread that holds the mutex, or Nobody                *)
  waiting,    (* the threads asleep on ima_mjesta and on ima_robe          *)
  pc,
  i,          (* the loop counter of every thread                          *)
  v,          (* a consumer's local copy of the item                       *)
  put,        (* the lines "stavio", in the order they are printed         *)
  taken,      (* the lines "uzeo" as <<consumer, item>>, in printing order *)
  main,       (* "create", "join_p", "join_c", "finished"                  *)
  spurious    (* spurious wake-ups so far                                  *)

shared == <<buffer, upis_idx, cit_idx, buff_items>>
history == <<put, taken>>
vars == <<buffer, upis_idx, cit_idx, buff_items, mutex, waiting, pc, i, v,
          put, taken, main, spurious>>

Conditions == {"ima_mjesta", "ima_robe"}

(* The condition variable a thread waits on, and the one it wakes.  The    *)
(* mutated form wakes the waker's own side.                                *)
OwnSideCondition(t) == IF t \in Producers THEN "ima_mjesta" ELSE "ima_robe"
OwnCondition(t)   == IF t \in Producers THEN "ima_mjesta" ELSE "ima_robe"
OtherCondition(t) == IF t \in Producers THEN "ima_robe" ELSE "ima_mjesta"

Points == {"new", "lock", "test", "wait", "move", "advance", "count",
           "wake", "unlock", "done"}
Inside == {"test", "move", "advance", "count", "wake", "unlock"}

Init ==
  /\ buffer = [s \in 0 .. VEL_BUFFERA - 1 |-> Zero]
  /\ upis_idx = 0
  /\ cit_idx = 0
  /\ buff_items = 0
  /\ mutex = Nobody
  /\ waiting = [cv \in Conditions |-> {}]
  /\ pc = [t \in Threads |-> "new"]
  /\ i = [t \in Threads |-> 0]
  /\ v = [c \in Consumers |-> Zero]
  /\ put = <<>>
  /\ taken = <<>>
  /\ main = "create"
  /\ spurious = 0

-----------------------------------------------------------------------------
(* The mutex and the condition variables.                                  *)

GoTo(t, from, to) ==
  /\ pc[t] = from
  /\ pc' = [pc EXCEPT ![t] = to]

Lock(t) ==
  /\ GoTo(t, "lock", "test")
  /\ mutex = Nobody
  /\ mutex' = t
  /\ UNCHANGED <<shared, waiting, i, v, history, main, spurious>>

(* The condition of the while loop: the thread cannot proceed.  The        *)
(* mutated form is off by one at the full end.                             *)
MustWaitLate(t) ==
  buff_items = IF t \in Producers THEN VEL_BUFFERA + 1 ELSE 0

MustWait(t) ==
  buff_items = IF t \in Producers THEN VEL_BUFFERA ELSE 0

(* pthread_cond_wait: the mutex is released and the thread falls asleep in *)
(* one atomic step.                                                        *)
Wait(t) ==
  /\ GoTo(t, "test", "wait")
  /\ MustWait(t)
  /\ mutex' = Nobody
  /\ waiting' = [waiting EXCEPT ![OwnCondition(t)] = @ \cup {t}]
  /\ UNCHANGED <<shared, i, v, history, main, spurious>>

(* The loop ends: the thread goes on with the mutex held.                  *)
Proceed(t) ==
  /\ GoTo(t, "test", "move")
  /\ ~ MustWait(t)
  /\ UNCHANGED <<shared, mutex, waiting, i, v, history, main, spurious>>

Asleep(t) == t \in waiting[OwnCondition(t)]

(* Mutated forms of the return from pthread_cond_wait: an if in place of   *)
(* the while loop, and a wake-up that does not wait for the mutex.         *)
ReacquireWithIf(t) ==
  /\ GoTo(t, "wait", "move")
  /\ ~ Asleep(t)
  /\ mutex = Nobody
  /\ mutex' = t
  /\ UNCHANGED <<shared, waiting, i, v, history, main, spurious>>

ReacquireUnlocked(t) ==
  /\ GoTo(t, "wait", "test")
  /\ ~ Asleep(t)
  /\ UNCHANGED <<shared, mutex, waiting, i, v, history, main, spurious>>

(* A woken thread returns from pthread_cond_wait only once it has locked   *)
(* the mutex again, in competition with every other thread; the while loop *)
(* then tests the condition again.                                         *)
Reacquire(t) ==
  /\ GoTo(t, "wait", "test")
  /\ ~ Asleep(t)
  /\ mutex = Nobody
  /\ mutex' = t
  /\ UNCHANGED <<shared, waiting, i, v, history, main, spurious>>

(* pthread_cond_wait may return although nobody called signal.             *)
SpuriousWakeup(t) ==
  /\ Asleep(t)
  /\ spurious < MaxSpurious
  /\ spurious' = spurious + 1
  /\ waiting' = [waiting EXCEPT ![OwnCondition(t)] = @ \ {t}]
  /\ UNCHANGED <<shared, mutex, pc, i, v, history, main>>

WakeAll(cv) ==
  /\ Wakeup = "broadcast"
  /\ waiting' = [waiting EXCEPT ![cv] = {}]

WakeOne(cv) ==
  /\ Wakeup = "signal"
  /\ \E s \in waiting[cv] : waiting' = [waiting EXCEPT ![cv] = @ \ {s}]

WakeNone(cv) ==
  /\ Wakeup = "signal"
  /\ waiting[cv] = {}
  /\ UNCHANGED waiting

Wake(t) ==
  /\ GoTo(t, "wake", "unlock")
  /\ \/ WakeAll(OtherCondition(t))
     \/ WakeOne(OtherCondition(t))
     \/ WakeNone(OtherCondition(t))
  /\ UNCHANGED <<shared, mutex, i, v, history, main, spurious>>

(* The unlock, i++ and the test of the for loop.                           *)
Unlock(t) ==
  /\ GoTo(t, "unlock", IF i[t] + 1 < Quota THEN "lock" ELSE "done")
  /\ i' = [i EXCEPT ![t] = @ + 1]
  /\ mutex' = Nobody
  /\ UNCHANGED <<shared, waiting, v, history, main, spurious>>

-----------------------------------------------------------------------------
(* proizvodjac                                                             *)

Item(p) == <<p, i[p]>>

Store(p) ==
  /\ GoTo(p, "move", "advance")
  /\ buffer' = [buffer EXCEPT ![upis_idx] = Item(p)]
  /\ UNCHANGED <<upis_idx, cit_idx, buff_items, mutex, waiting, i, v,
                 history, main, spurious>>

AdvanceIn(p) ==
  /\ GoTo(p, "advance", "count")
  /\ upis_idx' = (upis_idx + 1) % VEL_BUFFERA
  /\ UNCHANGED <<buffer, cit_idx, buff_items, mutex, waiting, i, v,
                 history, main, spurious>>

CountIn(p) ==
  /\ GoTo(p, "count", "wake")
  /\ buff_items' = buff_items + 1
  /\ put' = Append(put, Item(p))
  /\ UNCHANGED <<buffer, upis_idx, cit_idx, mutex, waiting, i, v, taken,
                 main, spurious>>

-----------------------------------------------------------------------------
(* potrosac                                                                *)

Load(c) ==
  /\ GoTo(c, "move", "advance")
  /\ v' = [v EXCEPT ![c] = buffer[cit_idx]]
  /\ UNCHANGED <<shared, mutex, waiting, i, history, main, spurious>>

AdvanceOut(c) ==
  /\ GoTo(c, "advance", "count")
  /\ cit_idx' = (cit_idx + 1) % VEL_BUFFERA
  /\ UNCHANGED <<buffer, upis_idx, buff_items, mutex, waiting, i, v,
                 history, main, spurious>>

CountOut(c) ==
  /\ GoTo(c, "count", "wake")
  /\ buff_items' = buff_items - 1
  /\ taken' = Append(taken, <<c, v[c]>>)
  /\ UNCHANGED <<buffer, upis_idx, cit_idx, mutex, waiting, i, v, put,
                 main, spurious>>

-----------------------------------------------------------------------------
(* main creates the producers, then the consumers, and joins them in the   *)
(* same order.                                                             *)

Create(t) ==
  /\ main = "create"
  /\ GoTo(t, "new", "lock")
  /\ t \in Consumers => \A p \in Producers : pc[p] # "new"
  /\ main' = IF \A s \in Threads \ {t} : pc[s] # "new"
             THEN "join_p" ELSE main
  /\ UNCHANGED <<shared, mutex, waiting, i, v, history, spurious>>

JoinProducers ==
  /\ main = "join_p"
  /\ \A p \in Producers : pc[p] = "done"
  /\ main' = "join_c"
  /\ UNCHANGED <<shared, mutex, waiting, pc, i, v, history, spurious>>

JoinConsumers ==
  /\ main = "join_c"
  /\ \A c \in Consumers : pc[c] = "done"
  /\ main' = "finished"
  /\ UNCHANGED <<shared, mutex, waiting, pc, i, v, history, spurious>>

-----------------------------------------------------------------------------
Synchronise(t) ==
  Lock(t) \/ Wait(t) \/ Proceed(t) \/ Reacquire(t) \/ Wake(t) \/ Unlock(t)

proizvodjac(p) == Synchronise(p) \/ Store(p) \/ AdvanceIn(p) \/ CountIn(p)

potrosac(c) == Synchronise(c) \/ Load(c) \/ AdvanceOut(c) \/ CountOut(c)

Main == (\E t \in Threads : Create(t)) \/ JoinProducers \/ JoinConsumers

(* The program has returned: nothing more happens.                         *)
Terminated == main = "finished" /\ UNCHANGED vars

Next ==
  \/ \E p \in Producers : proizvodjac(p)
  \/ \E c \in Consumers : potrosac(c)
  \/ \E t \in Threads : SpuriousWakeup(t)
  \/ Main
  \/ Terminated

(* Fairness: the kernel keeps running every thread that can run.  Nothing  *)
(* is assumed of the order in which the mutex is granted, and a spurious   *)
(* wake-up never has to happen.                                            *)
Fairness ==
  /\ \A p \in Producers : WF_vars(proizvodjac(p))
  /\ \A c \in Consumers : WF_vars(potrosac(c))
  /\ WF_vars(Main)

Spec == Init /\ [][Next]_vars /\ Fairness

-----------------------------------------------------------------------------
(* Properties                                                              *)

(* Every variable has its type; in particular buff_items stays between 0   *)
(* and VEL_BUFFERA and both indices stay inside the array.                 *)
TypeOK ==
  /\ buffer \in [0 .. VEL_BUFFERA - 1 -> Items \cup {Zero}]
  /\ upis_idx \in 0 .. VEL_BUFFERA - 1
  /\ cit_idx \in 0 .. VEL_BUFFERA - 1
  /\ buff_items \in 0 .. VEL_BUFFERA
  /\ mutex \in Threads \cup {Nobody}
  /\ waiting \in [Conditions -> SUBSET Threads]
  /\ pc \in [Threads -> Points]
  /\ i \in [Threads -> 0 .. Quota]
  /\ v \in [Consumers -> Items \cup {Zero}]
  /\ put \in Seq(Items)
  /\ taken \in Seq(Consumers \X Items)
  /\ main \in {"create", "join_p", "join_c", "finished"}
  /\ spurious \in 0 .. MaxSpurious

(* At most one thread is between pthread_mutex_lock and                    *)
(* pthread_mutex_unlock (or inside the loop around pthread_cond_wait with  *)
(* the mutex held), whatever wakes whom.                                   *)
MutualExclusion ==
  \A s, t \in Threads : pc[s] \in Inside /\ pc[t] \in Inside => s = t

(* What the consumers print as taken is what the producers printed as put, *)
(* in the same order: no item is lost, duplicated, overtaken or read from  *)
(* a slot that was not written.                                            *)
FifoDelivery ==
  /\ Len(taken) <= Len(put)
  /\ \A k \in 1 .. Len(taken) : taken[k][2] = put[k]

(* A thread sleeps on its condition variable only while its condition is   *)
(* false, or while the thread that made it true is still about to wake it  *)
(* up: no wake-up is lost, neither with signal between one producer and    *)
(* one consumer nor with broadcast between many.                           *)
NoLostWakeup ==
  \A t \in Threads : Asleep(t) =>
    \/ MustWait(t)
    \/ \E s \in Threads : pc[s] = "wake" /\ OtherCondition(s) = OwnCondition(t)

(* Producers that sleep because the buffer is full and consumers that      *)
(* sleep because it is empty never meet: the two sides cannot block each   *)
(* other for good.                                                         *)
NeverBothAsleep == waiting["ima_mjesta"] = {} \/ waiting["ima_robe"] = {}

(* With as many items produced as consumed, the program ends: every thread *)
(* returns, main joins all of them, and every item of every producer has   *)
(* been handed to a consumer.                                              *)
EverythingDelivered ==
  <>[](/\ main = "finished"
       /\ {taken[k][2] : k \in 1 .. Len(taken)} = Items)

-----------------------------------------------------------------------------
(* Refinement.  The items of the channel are the buff_items slots from the *)
(* oldest one on.  A consumer that has moved cit_idx on but has not        *)
(* counted yet still owns the slot behind it.                              *)
Oldest ==
  IF \E c \in Consumers : pc[c] = "count"
  THEN (cit_idx + (VEL_BUFFERA - 1)) % VEL_BUFFERA
  ELSE cit_idx

Contents ==
  [k \in 1 .. buff_items |-> buffer[(Oldest + (k - 1)) % VEL_BUFFERA]]

(* Rounds in which t has counted its item.                                 *)
Rounds(t) == IF pc[t] \in {"wake", "unlock"} THEN i[t] + 1 ELSE i[t]

Channel == INSTANCE FifoChannel WITH
  Capacity  <- VEL_BUFFERA,
  channel   <- Contents,
  sent      <- [p \in Producers |-> Rounds(p)],
  received  <- [c \in Consumers |-> Rounds(c)],
  delivered <- taken

(* Both programs implement the FIFO channel, and keep it moving.           *)
ImplementsChannel == Channel!Spec
=============================================================================
