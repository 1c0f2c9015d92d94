------------------------ MODULE BoundedBufferProofs ------------------------
(***************************************************************************)
(* Theorems about BoundedBuffer for any number of producers and consumers, *)
(* any buffer length, any number of rounds, signal or broadcast, and any   *)
(* number of spurious wake-ups.                                            *)
(***************************************************************************)
EXTENDS BoundedBuffer, TLAPS

-----------------------------------------------------------------------------
(* Arithmetic of the circular index.                                       *)

(* Quotient and remainder of a natural number.                             *)
LEMMA DivMod ==
  \A N \in Nat \ {0}, k \in Nat :
     /\ k \div N \in Nat
     /\ (k % N) \in 0 .. N - 1
     /\ k = (N * (k \div N)) + (k % N)
  BY SMT

(* A positive multiple of N is at least N.                                 *)
LEMMA Multiple ==
  \A N \in Nat \ {0}, d \in Int : d >= 1 => N * d >= N
  BY SMT

(* Multiplication distributes over a difference.                           *)
LEMMA Distribute ==
  \A N, a, b \in Int : N * (a - b) = (N * a) - (N * b)
  BY SMT

(* The quotient and the remainder determine each other.                    *)
LEMMA UniqueRemainder ==
  ASSUME NEW N \in Nat \ {0}, NEW q1 \in Int, NEW q2 \in Int,
         NEW r1 \in 0 .. N - 1, NEW r2 \in 0 .. N - 1,
         (N * q1) + r1 = (N * q2) + r2
  PROVE  r1 = r2
  <1>1. N * (q1 - q2) = r2 - r1 /\ N * (q2 - q1) = r1 - r2
    BY Distribute, N \in Int
  <1>2. CASE q1 > q2
    <2>1. N * (q1 - q2) >= N
      BY <1>2, Multiple, q1 - q2 \in Int, q1 - q2 >= 1
    <2>2. QED
      BY <2>1, <1>1
  <1>3. CASE q1 < q2
    <2>1. N * (q2 - q1) >= N
      BY <1>3, Multiple, q2 - q1 \in Int, q2 - q1 >= 1
    <2>2. QED
      BY <2>1, <1>1
  <1>4. CASE q1 = q2
    BY <1>1, <1>4
  <1>5. QED
    BY <1>2, <1>3, <1>4

(* A remainder is recognised by its equation.                              *)
LEMMA RemainderIs ==
  ASSUME NEW N \in Nat \ {0}, NEW k \in Nat
  PROVE  \A q \in Int, r \in 0 .. N - 1 : k = (N * q) + r => k % N = r
  <1> DEFINE a == k \div N
             b == k % N
  <1>1. a \in Int /\ b \in 0 .. N - 1 /\ k = (N * a) + b
    BY DivMod
  <1> HIDE DEF a, b
  <1>2. ASSUME NEW q \in Int, NEW r \in 0 .. N - 1, k = (N * q) + r
        PROVE  b = r
    BY <1>1, <1>2, UniqueRemainder
  <1>3. QED
    BY <1>2 DEF b

(* Advancing an index modulo N is counting one more modulo N.              *)
LEMMA NextSlot ==
  ASSUME NEW N \in Nat \ {0}, NEW k \in Nat
  PROVE  ((k % N) + 1) % N = (k + 1) % N
  <1> DEFINE q == k \div N
             r == k % N
  <1>1. q \in Int /\ r \in 0 .. N - 1 /\ k = (N * q) + r
    BY DivMod
  <1> HIDE DEF q, r
  <1>2. CASE r + 1 < N
    <2>1. k + 1 = (N * q) + (r + 1) /\ r + 1 \in 0 .. N - 1 /\ k + 1 \in Nat
      BY <1>1, <1>2
    <2>2. (k + 1) % N = r + 1
      BY <1>1, <2>1, RemainderIs
    <2>3. r + 1 = (N * 0) + (r + 1) /\ 0 \in Int /\ r + 1 \in Nat
      BY <1>1
    <2>4. (r + 1) % N = r + 1
      BY <2>1, <2>3, RemainderIs
    <2>5. QED
      BY <2>2, <2>4 DEF r
  <1>3. CASE r + 1 = N
    <2>1. k + 1 = (N * (q + 1)) + 0 /\ q + 1 \in Int /\ k + 1 \in Nat
          /\ 0 \in 0 .. N - 1
      BY <1>1, <1>3
    <2>2. (k + 1) % N = 0
      BY <2>1, RemainderIs
    <2>3. r + 1 = (N * 1) + 0 /\ 1 \in Int /\ r + 1 \in Nat /\ 0 \in 0 .. N - 1
      BY <1>1, <1>3
    <2>4. (r + 1) % N = 0
      BY <2>3, RemainderIs
    <2>5. QED
      BY <2>2, <2>4 DEF r
  <1>4. QED
    BY <1>1, <1>2, <1>3

(* N consecutive numbers fall into different slots.                        *)
LEMMA SlotsDiffer ==
  ASSUME NEW N \in Nat \ {0}, NEW a \in Nat, NEW b \in Nat, a < b, b < a + N
  PROVE  a % N # b % N
  <1> DEFINE q == b \div N
             r == b % N
             s == a \div N
  <1>1. SUFFICES ASSUME a % N = r PROVE FALSE
    OBVIOUS
  <1>2. q \in Int /\ r \in 0 .. N - 1 /\ b = (N * q) + r
    BY DivMod
  <1>3. s \in Int /\ a = (N * s) + r
    BY <1>1, DivMod
  <1> HIDE DEF q, r, s
  <1>4. N * (q - s) = b - a /\ N * (s - q) = a - b
    BY <1>2, <1>3, Distribute, N \in Int
  <1>5. CASE q > s
    <2>1. N * (q - s) >= N
      BY <1>2, <1>3, <1>5, Multiple, q - s \in Int, q - s >= 1
    <2>2. QED
      BY <2>1, <1>4
  <1>6. CASE q < s
    <2>1. N * (s - q) >= N
      BY <1>2, <1>3, <1>6, Multiple, s - q \in Int, s - q >= 1
    <2>2. QED
      BY <2>1, <1>4
  <1>7. CASE q = s
    BY <1>2, <1>3, <1>7
  <1>8. QED
    BY <1>2, <1>3, <1>5, <1>6, <1>7

-----------------------------------------------------------------------------
(* The inductive invariant.                                                *)

(* The slot of the k-th item ever put, counting from 0.                    *)
Slot(k) == k % VEL_BUFFERA

(* A thread inside its critical section owns the mutex.                    *)
OwnerInv == \A t \in Threads : pc[t] \in Inside => mutex = t

(* Only threads inside pthread_cond_wait sleep, on their own condition.    *)
SleepInv ==
  \A t \in Threads, cv \in Conditions :
    t \in waiting[cv] => cv = OwnCondition(t) /\ pc[t] = "wait"

(* A thread that has not returned has rounds left.                         *)
RoundInv == \A t \in Threads : pc[t] # "done" => i[t] < Quota

(* buff_items is the number of items put and not taken.                    *)
CountInv ==
  /\ Len(taken) <= Len(put)
  /\ buff_items = Len(put) - Len(taken)

(* Past the while loop the condition stays false until the item is counted. *)
RoomInv ==
  \A t \in Threads : pc[t] \in {"move", "advance", "count"} => ~ MustWait(t)

(* The indices follow the number of items put and taken; they are one step *)
(* ahead while the mutex owner has advanced and not counted.               *)
IndexInv ==
  /\ (\A p \in Producers : pc[p] # "count") => upis_idx = Slot(Len(put))
  /\ (\E p \in Producers : pc[p] = "count") => upis_idx = Slot(Len(put) + 1)
  /\ (\A c \in Consumers : pc[c] # "count") => cit_idx = Slot(Len(taken))
  /\ (\E c \in Consumers : pc[c] = "count") => cit_idx = Slot(Len(taken) + 1)

(* The slots hold the items put and not taken.                             *)
SlotInv ==
  \A k \in 1 .. Len(put) : Len(taken) < k => buffer[Slot(k - 1)] = put[k]

(* The item in hand: stored and not counted, or loaded and not counted.    *)
HandInv ==
  /\ \A p \in Producers : pc[p] \in {"advance", "count"} =>
        buffer[Slot(Len(put))] = Item(p)
  /\ \A c \in Consumers : pc[c] \in {"advance", "count"} =>
        v[c] = put[Len(taken) + 1]

IInv ==
  /\ TypeOK
  /\ OwnerInv
  /\ SleepInv
  /\ RoundInv
  /\ CountInv
  /\ RoomInv
  /\ IndexInv
  /\ SlotInv
  /\ HandInv
  /\ FifoDelivery

-----------------------------------------------------------------------------
(* Initially the invariant holds.                                          *)
LEMMA InitInvariant == Init => IInv
  <1> SUFFICES ASSUME Init PROVE IInv
    OBVIOUS
  <1> USE SizeAssumption DEF Init
  <1>1. TypeOK
    BY DEF TypeOK, Points, Conditions, Threads
  <1>2. OwnerInv /\ SleepInv /\ RoundInv /\ RoomInv
    BY DEF OwnerInv, SleepInv, RoundInv, RoomInv, Inside, Conditions, Threads
  <1>3. Slot(0) = 0
    BY 0 \in Int /\ 0 \in 0 .. VEL_BUFFERA - 1 /\ 0 = (VEL_BUFFERA * 0) + 0,
       RemainderIs DEF Slot
  <1>4. CountInv /\ IndexInv
    BY <1>3 DEF CountInv, IndexInv, Threads
  <1>5. SlotInv /\ HandInv /\ FifoDelivery
    BY DEF SlotInv, HandInv, FifoDelivery, Threads
  <1>6. QED
    BY <1>1, <1>2, <1>4, <1>5 DEF IInv

(* Producers and consumers are different threads, and Nobody is neither.   *)
LEMMA Roles ==
  /\ Producers \subseteq Threads /\ Consumers \subseteq Threads
  /\ \A p \in Producers : p \notin Consumers
  /\ \A t \in Threads : t # Nobody
  BY ThreadsAssumption DEF Threads

(* While one thread is inside its critical section every other one is out. *)
LEMMA Alone ==
  ASSUME OwnerInv, NEW t \in Threads, pc[t] \in Inside
  PROVE  \A s \in Threads : s # t => pc[s] \notin Inside
  BY DEF OwnerInv

(* The case of a step that only moves one thread in or out of its critical *)
(* section: neither the buffer nor an item in hand changes.                *)
LEMMA QuietStep ==
  ASSUME IInv, NEW t \in Threads, NEW to \in Points,
         UNCHANGED <<shared, v, history>>,
         pc' = [pc EXCEPT ![t] = to],
         \A s \in Threads : s # t => i'[s] = i[s],
         pc[t] \notin {"move", "advance", "count"},
         to \notin {"advance", "count"},
         to = "move" => ~ MustWait(t)
  PROVE  /\ RoomInv' /\ CountInv' /\ IndexInv' /\ SlotInv' /\ HandInv'
         /\ FifoDelivery'
  <1> USE Roles
  <1> pc \in [Threads -> Points]
    BY DEF IInv, TypeOK
  <1>1. \A s \in Threads : pc'[s] \in {"advance", "count"} => s # t
    OBVIOUS
  <1>2. \A s \in Threads : pc'[s] = "count" <=> pc[s] = "count"
    OBVIOUS
  <1>3. RoomInv'
    BY DEF IInv, RoomInv, MustWait, shared
  <1>4. CountInv' /\ FifoDelivery'
    BY DEF IInv, CountInv, FifoDelivery, shared, history
  <1>5. IndexInv'
    BY <1>2 DEF IInv, IndexInv, Slot, shared, history
  <1>6. SlotInv'
    BY DEF IInv, SlotInv, Slot, shared, history
  <1>7. HandInv'
    BY <1>1 DEF IInv, HandInv, Item, Slot, shared, history
  <1>8. QED
    BY <1>3, <1>4, <1>5, <1>6, <1>7

(* The steps of the mutex, the condition variables and of main that leave  *)
(* the buffer alone.                                                       *)
SyncStep(t) ==
  Lock(t) \/ Wait(t) \/ Proceed(t) \/ Reacquire(t) \/ Wake(t) \/ Unlock(t)
  \/ Create(t) \/ SpuriousWakeup(t)

(* Waking somebody only removes threads from the set of sleepers.          *)
LEMMA WakeRemoves ==
  ASSUME TypeOK, NEW t \in Threads, Wake(t)
  PROVE  /\ waiting' \in [Conditions -> SUBSET Threads]
         /\ \A cv \in Conditions : waiting'[cv] \subseteq waiting[cv]
  <1>1. OtherCondition(t) \in Conditions
    BY DEF OtherCondition, Conditions
  <1>2. CASE WakeAll(OtherCondition(t))
    BY <1>1, <1>2 DEF WakeAll, TypeOK
  <1>3. CASE WakeOne(OtherCondition(t))
    BY <1>1, <1>3 DEF WakeOne, TypeOK
  <1>4. CASE WakeNone(OtherCondition(t))
    BY <1>4 DEF WakeNone, TypeOK
  <1>5. QED
    BY <1>2, <1>3, <1>4 DEF Wake

(* Such a step keeps the types and the control part of the invariant.      *)
LEMMA SyncControl ==
  ASSUME IInv, NEW t \in Threads, SyncStep(t)
  PROVE  TypeOK' /\ OwnerInv' /\ SleepInv' /\ RoundInv'
  <1>0. TypeOK
    BY DEF IInv
  <1> USE Roles, SizeAssumption
      DEF IInv, TypeOK, OwnerInv, SleepInv, RoundInv, shared, history, GoTo,
          Points, Inside
  <1>1. CASE Lock(t)
    BY <1>1 DEF Lock
  <1>2. CASE Wait(t)
    <2>1. OwnCondition(t) \in Conditions
      BY DEF OwnCondition, Conditions
    <2>2. QED
      BY <1>2, <2>1 DEF Wait
  <1>3. CASE Proceed(t)
    BY <1>3 DEF Proceed
  <1>4. CASE Reacquire(t)
    BY <1>4 DEF Reacquire, Asleep
  <1>5. CASE Wake(t)
    <2>1. \A cv \in Conditions : waiting'[cv] \subseteq waiting[cv]
      BY <1>5, <1>0, WakeRemoves
    <2>2. waiting' \in [Conditions -> SUBSET Threads]
      BY <1>5, <1>0, WakeRemoves
    <2>3. TypeOK'
      BY <1>5, <2>2 DEF Wake
    <2>4. OwnerInv' /\ RoundInv'
      BY <1>5 DEF Wake
    <2>5. SleepInv'
      BY <1>5, <2>1 DEF Wake
    <2>6. QED
      BY <2>3, <2>4, <2>5
  <1>6. CASE Unlock(t)
    <2>1. i[t] < Quota /\ i[t] \in Nat /\ mutex = t
      BY <1>6 DEF Unlock
    <2>2. i'[t] = i[t] + 1 /\ i' \in [Threads -> 0 .. Quota]
      BY <1>6, <2>1 DEF Unlock
    <2>3. TypeOK'
      BY <1>6, <2>2 DEF Unlock
    <2>4. OwnerInv'
      BY <1>6, <2>1 DEF Unlock
    <2>5. RoundInv'
      BY <1>6, <2>1, <2>2 DEF Unlock
    <2>6. SleepInv'
      BY <1>6 DEF Unlock
    <2>7. QED
      BY <2>3, <2>4, <2>5, <2>6
  <1>7. CASE Create(t)
    BY <1>7 DEF Create
  <1>8. CASE SpuriousWakeup(t)
    <2>1. OwnCondition(t) \in Conditions
      BY DEF OwnCondition, Conditions
    <2>2. QED
      BY <1>8, <2>1 DEF SpuriousWakeup
  <1>9. QED
    BY <1>1, <1>2, <1>3, <1>4, <1>5, <1>6, <1>7, <1>8 DEF SyncStep

(* And the part about the buffer: each is a quiet step.                    *)
LEMMA SyncData ==
  ASSUME IInv, NEW t \in Threads, SyncStep(t)
  PROVE  /\ RoomInv' /\ CountInv' /\ IndexInv' /\ SlotInv' /\ HandInv'
         /\ FifoDelivery'
  <1> USE Roles DEF GoTo, Points, shared, history
  <1> pc \in [Threads -> Points] /\ i \in [Threads -> 0 .. Quota]
    BY DEF IInv, TypeOK
  <1>1. CASE Lock(t)
    BY <1>1, QuietStep, "test" \in Points DEF Lock
  <1>2. CASE Wait(t)
    BY <1>2, QuietStep, "wait" \in Points DEF Wait
  <1>3. CASE Proceed(t)
    BY <1>3, QuietStep, "move" \in Points DEF Proceed
  <1>4. CASE Reacquire(t)
    BY <1>4, QuietStep, "test" \in Points DEF Reacquire
  <1>5. CASE Wake(t)
    BY <1>5, QuietStep, "unlock" \in Points DEF Wake
  <1>6. CASE Unlock(t)
    <2> DEFINE to == IF i[t] + 1 < Quota THEN "lock" ELSE "done"
    <2>1. to \in Points /\ to \notin {"move", "advance", "count"}
      OBVIOUS
    <2>2. /\ pc' = [pc EXCEPT ![t] = to] /\ pc[t] = "unlock"
          /\ UNCHANGED <<shared, v, history>>
          /\ \A s \in Threads : s # t => i'[s] = i[s]
      BY <1>6 DEF Unlock
    <2> HIDE DEF to
    <2>3. QED
      BY <2>1, <2>2, QuietStep
  <1>7. CASE Create(t)
    BY <1>7, QuietStep, "lock" \in Points DEF Create
  <1>8. CASE SpuriousWakeup(t)
    <2>1. pc[t] = "wait"
      BY <1>8 DEF SpuriousWakeup, Asleep, IInv, SleepInv, OwnCondition, Conditions
    <2>2. pc' = [pc EXCEPT ![t] = "wait"]
      BY <1>8, <2>1 DEF SpuriousWakeup
    <2>3. QED
      BY <1>8, <2>1, <2>2, QuietStep, "wait" \in Points DEF SpuriousWakeup
  <1>9. QED
    BY <1>1, <1>2, <1>3, <1>4, <1>5, <1>6, <1>7, <1>8 DEF SyncStep

-----------------------------------------------------------------------------
(* The steps that move an item.                                            *)

(* The facts every step of a thread with an item in hand starts from.      *)
LEMMA InHand ==
  ASSUME IInv, NEW t \in Threads, pc[t] \in {"move", "advance", "count"}
  PROVE  /\ \A s \in Threads : s # t => pc[s] \notin Inside
         /\ i[t] \in 0 .. Quota - 1
         /\ Len(put) \in Nat /\ Len(taken) \in Nat
         /\ t \in Producers =>
              /\ Len(put) - Len(taken) < VEL_BUFFERA
              /\ Item(t) \in Items
         /\ t \in Consumers => Len(taken) < Len(put)
  <1> USE DEF IInv
  <1>1. \A s \in Threads : s # t => pc[s] \notin Inside
    BY Alone DEF Inside
  <1>2. i[t] \in 0 .. Quota - 1
    <2>1. i \in [Threads -> 0 .. Quota]
      BY DEF TypeOK
    <2>2. i[t] < Quota
      BY DEF RoundInv
    <2>3. QED
      BY <2>1, <2>2, SizeAssumption
  <1>3. Len(put) \in Nat /\ Len(taken) \in Nat
    BY DEF TypeOK
  <1>4. t \in Producers => Len(put) - Len(taken) < VEL_BUFFERA
    <2>1. buff_items \in 0 .. VEL_BUFFERA
      BY DEF TypeOK
    <2>2. buff_items = Len(put) - Len(taken)
      BY DEF CountInv
    <2>3. t \in Producers => buff_items # VEL_BUFFERA
      BY DEF RoomInv, MustWait
    <2>4. QED
      BY <1>3, <2>1, <2>2, <2>3, SizeAssumption
  <1>5. t \in Producers => Item(t) \in Items
    BY <1>2 DEF Item, Items
  <1>6. t \in Consumers => Len(taken) < Len(put)
    BY <1>3, Roles DEF RoomInv, MustWait, CountInv, TypeOK
  <1>7. QED
    BY <1>1, <1>2, <1>3, <1>4, <1>5, <1>6

(* buffer[upis_idx] = stavka: a slot that holds no item is overwritten.    *)
LEMMA StoreStep ==
  ASSUME IInv, NEW p \in Producers, Store(p)
  PROVE  IInv'
  <1> USE Roles, SizeAssumption DEF GoTo, history, Store
  <1> DEFINE L == Len(put)
  <1>1. /\ \A s \in Threads : s # p => pc[s] \notin Inside
        /\ L \in Nat /\ Len(taken) \in Nat /\ L - Len(taken) < VEL_BUFFERA
        /\ Item(p) \in Items
    BY InHand
  <1>2. upis_idx = Slot(L) /\ upis_idx \in 0 .. VEL_BUFFERA - 1
    BY <1>1 DEF IInv, IndexInv, TypeOK, Inside
  <1>3. TypeOK'
    BY <1>1 DEF IInv, TypeOK, Points
  <1>4. OwnerInv' /\ SleepInv' /\ RoundInv' /\ RoomInv' /\ CountInv'
    BY DEF IInv, TypeOK, OwnerInv, SleepInv, RoundInv, RoomInv, CountInv,
           MustWait, Inside
  <1>5. IndexInv' /\ FifoDelivery'
    BY DEF IInv, TypeOK, IndexInv, FifoDelivery, Slot
  <1>6. SlotInv'
    <2>1. SUFFICES ASSUME NEW k \in 1 .. L, Len(taken) < k
                   PROVE  buffer'[Slot(k - 1)] = put[k]
      BY DEF SlotInv, Slot
    <2>2. Slot(k - 1) # Slot(L)
      BY <1>1, <2>1, SlotsDiffer, k - 1 \in Nat, k - 1 < L,
         L < (k - 1) + VEL_BUFFERA DEF Slot
    <2>3. buffer'[Slot(k - 1)] = buffer[Slot(k - 1)]
      BY <1>2, <2>2 DEF IInv, TypeOK
    <2>4. QED
      BY <2>1, <2>3 DEF IInv, SlotInv
  <1>7. HandInv'
    <2>1. buffer'[Slot(L)] = Item(p)
      BY <1>2 DEF IInv, TypeOK
    <2>2. \A s \in Threads : pc'[s] \in {"advance", "count"} => s = p
      BY <1>1 DEF IInv, TypeOK, Inside
    <2>3. Item(p)' = Item(p) /\ Slot(Len(put))' = Slot(L)
      BY DEF Item, Slot
    <2>4. QED
      BY <2>1, <2>2, <2>3 DEF HandInv
  <1>8. QED
    BY <1>3, <1>4, <1>5, <1>6, <1>7 DEF IInv

(* upis_idx = (upis_idx + 1) % VEL_BUFFERA                                 *)
LEMMA AdvanceInStep ==
  ASSUME IInv, NEW p \in Producers, AdvanceIn(p)
  PROVE  IInv'
  <1> USE Roles, SizeAssumption DEF GoTo, history, AdvanceIn
  <1> DEFINE L == Len(put)
  <1>1. /\ \A s \in Threads : s # p => pc[s] \notin Inside
        /\ L \in Nat
    BY InHand
  <1>2. upis_idx' = Slot(L + 1)
    <2>1. upis_idx = Slot(L)
      BY <1>1 DEF IInv, IndexInv, Inside
    <2>2. QED
      BY <1>1, <2>1, NextSlot DEF Slot
  <1>3. upis_idx' \in 0 .. VEL_BUFFERA - 1
    BY <1>1, <1>2, DivMod, L + 1 \in Nat DEF Slot
  <1>4. TypeOK'
    BY <1>3 DEF IInv, TypeOK, Points
  <1>5. OwnerInv' /\ SleepInv' /\ RoundInv' /\ RoomInv' /\ CountInv'
    BY DEF IInv, TypeOK, OwnerInv, SleepInv, RoundInv, RoomInv, CountInv,
           MustWait, Inside
  <1>6. IndexInv'
    <2>1. pc'[p] = "count" /\ \A c \in Consumers : pc'[c] = "count" <=> pc[c] = "count"
      BY DEF IInv, TypeOK
    <2>2. QED
      BY <1>2, <2>1 DEF IInv, IndexInv, Slot
  <1>7. SlotInv' /\ HandInv' /\ FifoDelivery'
    BY DEF IInv, TypeOK, SlotInv, HandInv, FifoDelivery, Slot, Item
  <1>8. QED
    BY <1>4, <1>5, <1>6, <1>7 DEF IInv

(* buff_items++: the stored item becomes one of the items of the buffer.   *)
LEMMA CountInStep ==
  ASSUME IInv, NEW p \in Producers, CountIn(p)
  PROVE  IInv'
  <1> USE Roles, SizeAssumption DEF GoTo, CountIn
  <1> DEFINE L == Len(put)
  <1>1. /\ \A s \in Threads : s # p => pc[s] \notin Inside
        /\ L \in Nat /\ Len(taken) \in Nat /\ L - Len(taken) < VEL_BUFFERA
        /\ Item(p) \in Items
    BY InHand
  <1>2. put \in Seq(Items) /\ taken \in Seq(Consumers \X Items)
    BY DEF IInv, TypeOK
  <1>3. /\ put' \in Seq(Items) /\ Len(put') = L + 1
        /\ put'[L + 1] = Item(p) /\ \A k \in 1 .. L : put'[k] = put[k]
    BY <1>1, <1>2
  <1>4. CountInv'
    BY <1>1, <1>3 DEF IInv, CountInv
  <1>5. TypeOK'
    <2>1. buff_items' \in 0 .. VEL_BUFFERA
      BY <1>1, <1>3, <1>4 DEF CountInv
    <2>2. QED
      BY <1>3, <2>1 DEF IInv, TypeOK, Points
  <1>6. \A s \in Threads : pc'[s] \notin {"move", "advance", "count"}
    BY <1>1 DEF IInv, TypeOK, Inside
  <1>7. OwnerInv' /\ SleepInv' /\ RoundInv' /\ RoomInv' /\ HandInv'
    BY <1>6 DEF IInv, TypeOK, OwnerInv, SleepInv, RoundInv, RoomInv, HandInv,
           Inside
  <1>8. IndexInv'
    <2>1. upis_idx = Slot(L + 1) /\ cit_idx = Slot(Len(taken))
      BY <1>1 DEF IInv, IndexInv, Inside
    <2>2. QED
      BY <1>3, <1>6, <2>1 DEF IndexInv, Slot
  <1>9. SlotInv'
    <2>1. buffer[Slot(L)] = Item(p)
      BY DEF IInv, HandInv
    <2>2. SUFFICES ASSUME NEW k \in 1 .. L + 1, Len(taken) < k
                   PROVE  buffer[Slot(k - 1)] = put'[k]
      BY <1>3 DEF SlotInv, Slot
    <2>3. CASE k \in 1 .. L
      BY <1>3, <2>2, <2>3 DEF IInv, SlotInv
    <2>4. CASE k = L + 1
      BY <1>1, <1>3, <2>1, <2>4, (L + 1) - 1 = L
    <2>5. QED
      BY <1>1, <2>2, <2>3, <2>4
  <1>10. FifoDelivery'
    BY <1>1, <1>3 DEF IInv, FifoDelivery
  <1>11. QED
    BY <1>4, <1>5, <1>7, <1>8, <1>9, <1>10 DEF IInv

(* v = buffer[cit_idx]: the slot read holds the oldest item not taken.     *)
LEMMA LoadStep ==
  ASSUME IInv, NEW c \in Consumers, Load(c)
  PROVE  IInv'
  <1> USE Roles, SizeAssumption DEF GoTo, shared, history, Load
  <1> DEFINE T == Len(taken)
  <1>1. /\ \A s \in Threads : s # c => pc[s] \notin Inside
        /\ T \in Nat /\ Len(put) \in Nat /\ T < Len(put)
    BY InHand
  <1>2. buffer[cit_idx] = put[T + 1]
    <2>1. cit_idx = Slot(T)
      BY <1>1 DEF IInv, IndexInv, Inside
    <2>2. T + 1 \in 1 .. Len(put) /\ T < T + 1 /\ (T + 1) - 1 = T
      BY <1>1
    <2>3. buffer[Slot((T + 1) - 1)] = put[T + 1]
      BY <2>2 DEF IInv, SlotInv
    <2>4. QED
      BY <2>1, <2>2, <2>3
  <1>3. TypeOK'
    BY DEF IInv, TypeOK, Points
  <1>4. OwnerInv' /\ SleepInv' /\ RoundInv' /\ RoomInv' /\ CountInv'
    BY DEF IInv, TypeOK, OwnerInv, SleepInv, RoundInv, RoomInv, CountInv,
           MustWait, Inside
  <1>5. IndexInv' /\ SlotInv' /\ FifoDelivery'
    BY DEF IInv, TypeOK, IndexInv, SlotInv, FifoDelivery, Slot
  <1>6. HandInv'
    <2>1. v'[c] = put[T + 1]
      BY <1>2 DEF IInv, TypeOK
    <2>2. \A s \in Threads : pc'[s] \in {"advance", "count"} => s = c
      BY <1>1 DEF IInv, TypeOK, Inside
    <2>3. QED
      BY <2>1, <2>2 DEF HandInv
  <1>7. QED
    BY <1>3, <1>4, <1>5, <1>6 DEF IInv

(* cit_idx = (cit_idx + 1) % VEL_BUFFERA                                   *)
LEMMA AdvanceOutStep ==
  ASSUME IInv, NEW c \in Consumers, AdvanceOut(c)
  PROVE  IInv'
  <1> USE Roles, SizeAssumption DEF GoTo, history, AdvanceOut
  <1> DEFINE T == Len(taken)
  <1>1. /\ \A s \in Threads : s # c => pc[s] \notin Inside
        /\ T \in Nat
    BY InHand
  <1>2. cit_idx' = Slot(T + 1)
    <2>1. cit_idx = Slot(T)
      BY <1>1 DEF IInv, IndexInv, Inside
    <2>2. QED
      BY <1>1, <2>1, NextSlot DEF Slot
  <1>3. cit_idx' \in 0 .. VEL_BUFFERA - 1
    BY <1>1, <1>2, DivMod, T + 1 \in Nat DEF Slot
  <1>4. TypeOK'
    BY <1>3 DEF IInv, TypeOK, Points
  <1>5. OwnerInv' /\ SleepInv' /\ RoundInv' /\ RoomInv' /\ CountInv'
    BY DEF IInv, TypeOK, OwnerInv, SleepInv, RoundInv, RoomInv, CountInv,
           MustWait, Inside
  <1>6. IndexInv'
    <2>1. pc'[c] = "count" /\ \A p \in Producers : pc'[p] = "count" <=> pc[p] = "count"
      BY DEF IInv, TypeOK
    <2>2. QED
      BY <1>2, <2>1 DEF IInv, IndexInv, Slot
  <1>7. SlotInv' /\ HandInv' /\ FifoDelivery'
    BY DEF IInv, TypeOK, SlotInv, HandInv, FifoDelivery, Slot, Item
  <1>8. QED
    BY <1>4, <1>5, <1>6, <1>7 DEF IInv

(* buff_items--: the loaded item is the next one in the order of the puts. *)
LEMMA CountOutStep ==
  ASSUME IInv, NEW c \in Consumers, CountOut(c)
  PROVE  IInv'
  <1> USE Roles, SizeAssumption DEF GoTo, CountOut
  <1> DEFINE T == Len(taken)
  <1>1. /\ \A s \in Threads : s # c => pc[s] \notin Inside
        /\ T \in Nat /\ Len(put) \in Nat /\ T < Len(put)
    BY InHand
  <1>2. put \in Seq(Items) /\ taken \in Seq(Consumers \X Items)
    BY DEF IInv, TypeOK
  <1>3. v[c] = put[T + 1] /\ v[c] \in Items
    <2>1. v[c] = put[T + 1]
      BY DEF IInv, HandInv
    <2>2. T + 1 \in 1 .. Len(put)
      BY <1>1
    <2>3. QED
      BY <1>2, <2>1, <2>2
  <1>4. /\ taken' \in Seq(Consumers \X Items) /\ Len(taken') = T + 1
        /\ taken'[T + 1] = <<c, v[c]>> /\ \A k \in 1 .. T : taken'[k] = taken[k]
    BY <1>1, <1>2, <1>3
  <1>5. CountInv'
    BY <1>1, <1>4 DEF IInv, CountInv
  <1>6. TypeOK'
    <2>1. buff_items' \in 0 .. VEL_BUFFERA
      <3>1. buff_items \in 0 .. VEL_BUFFERA /\ buff_items = Len(put) - T
        BY DEF IInv, TypeOK, CountInv
      <3>2. QED
        BY <1>1, <3>1
    <2>2. QED
      BY <1>4, <2>1 DEF IInv, TypeOK, Points
  <1>7. \A s \in Threads : pc'[s] \notin {"move", "advance", "count"}
    BY <1>1 DEF IInv, TypeOK, Inside
  <1>8. OwnerInv' /\ SleepInv' /\ RoundInv' /\ RoomInv' /\ HandInv'
    BY <1>7 DEF IInv, TypeOK, OwnerInv, SleepInv, RoundInv, RoomInv, HandInv,
           Inside
  <1>9. IndexInv'
    <2>1. upis_idx = Slot(Len(put)) /\ cit_idx = Slot(T + 1)
      BY <1>1 DEF IInv, IndexInv, Inside
    <2>2. QED
      BY <1>4, <1>7, <2>1 DEF IndexInv, Slot
  <1>10. SlotInv'
    BY <1>1, <1>4 DEF IInv, SlotInv, Slot
  <1>11. FifoDelivery'
    <2>1. T + 1 <= Len(put)
      BY <1>1
    <2>2. \A k \in 1 .. T : taken'[k][2] = put[k]
      BY <1>4 DEF IInv, FifoDelivery
    <2>3. taken'[T + 1][2] = put[T + 1]
      BY <1>3, <1>4
    <2>4. \A k \in 1 .. T + 1 : taken'[k][2] = put[k]
      BY <1>1, <2>2, <2>3
    <2>5. QED
      BY <1>4, <2>1, <2>4 DEF FifoDelivery
  <1>12. QED
    BY <1>5, <1>6, <1>8, <1>9, <1>10, <1>11 DEF IInv

-----------------------------------------------------------------------------
(* Every step keeps the invariant.                                         *)
LEMMA StepInvariant == IInv /\ [Next]_vars => IInv'
  <1> SUFFICES ASSUME IInv, [Next]_vars PROVE IInv'
    OBVIOUS
  <1> USE Roles
  <1>1. ASSUME NEW t \in Threads, SyncStep(t)
        PROVE  IInv'
    BY <1>1, SyncControl, SyncData DEF IInv
  <1>2. CASE JoinProducers \/ JoinConsumers \/ UNCHANGED vars
    <2>1. UNCHANGED <<shared, mutex, waiting, pc, i, v, history, spurious>>
      BY <1>2 DEF JoinProducers, JoinConsumers, vars, shared, history
    <2>2. main' \in {"create", "join_p", "join_c", "finished"}
      BY <1>2 DEF JoinProducers, JoinConsumers, vars, IInv, TypeOK
    <2>3. TypeOK'
      BY <2>1, <2>2 DEF IInv, TypeOK, shared, history
    <2>4. OwnerInv' /\ SleepInv' /\ RoundInv' /\ CountInv' /\ RoomInv'
      BY <2>1 DEF IInv, OwnerInv, SleepInv, RoundInv, CountInv, RoomInv,
                  MustWait, shared, history
    <2>5. IndexInv' /\ SlotInv' /\ HandInv' /\ FifoDelivery'
      BY <2>1 DEF IInv, IndexInv, SlotInv, HandInv, FifoDelivery, Slot, Item,
                  shared, history
    <2>6. QED
      BY <2>3, <2>4, <2>5 DEF IInv
  <1>3. ASSUME NEW p \in Producers, proizvodjac(p)
        PROVE  IInv'
    BY <1>1, <1>3, StoreStep, AdvanceInStep, CountInStep
       DEF proizvodjac, Synchronise, SyncStep
  <1>4. ASSUME NEW c \in Consumers, potrosac(c)
        PROVE  IInv'
    BY <1>1, <1>4, LoadStep, AdvanceOutStep, CountOutStep
       DEF potrosac, Synchronise, SyncStep
  <1>5. CASE Main
    BY <1>1, <1>2, <1>5 DEF Main, SyncStep
  <1>6. ASSUME NEW t \in Threads, SpuriousWakeup(t)
        PROVE  IInv'
    BY <1>1, <1>6 DEF SyncStep
  <1>7. QED
    BY <1>2, <1>3, <1>4, <1>5, <1>6 DEF Next, Terminated

(* The inductive invariant holds in every reachable state.                 *)
LEMMA InvariantHolds == Spec => []IInv
  <1>1. Init => IInv
    BY InitInvariant
  <1>2. IInv /\ [Next]_vars => IInv'
    BY StepInvariant
  <1>3. QED
    BY <1>1, <1>2, PTL DEF Spec

(* Type correctness: in every reachable state of either program            *)
(* 0 <= buff_items <= VEL_BUFFERA and the indices are inside the array.    *)
THEOREM TypeCorrect == Spec => []TypeOK
  <1>1. IInv => TypeOK
    BY DEF IInv
  <1>2. QED
    BY <1>1, InvariantHolds, PTL

(* The mutex and pthread_cond_wait keep every two threads apart.           *)
THEOREM Exclusion == Spec => []MutualExclusion
  <1>1. IInv => MutualExclusion
    BY DEF IInv, OwnerInv, MutualExclusion
  <1>2. QED
    BY <1>1, InvariantHolds, PTL

(* The consumers take exactly the items put, in the order of the puts: no  *)
(* item is lost, duplicated or overtaken, for any number of threads.       *)
THEOREM Delivery == Spec => []FifoDelivery
  <1>1. IInv => FifoDelivery
    BY DEF IInv
  <1>2. QED
    BY <1>1, InvariantHolds, PTL

-----------------------------------------------------------------------------
(* Wake-ups.  nit_cond.c signals between one producer and one consumer,    *)
(* nit_cond2.c broadcasts: in both a wake-up leaves nobody of the woken    *)
(* side asleep.                                                            *)
WakesWholeSide ==
  \/ Wakeup = "broadcast"
  \/ /\ \A s, t \in Producers : s = t
     /\ \A s, t \in Consumers : s = t

WakeInv == NoLostWakeup /\ NeverBothAsleep

(* Sleepers are never woken for nothing: after Wake nobody sleeps there.   *)
LEMMA WakeEmpties ==
  ASSUME WakesWholeSide, IInv, NEW s \in Threads, Wake(s)
  PROVE  waiting'[OtherCondition(s)] = {}
  <1>1. /\ OtherCondition(s) \in Conditions
        /\ waiting \in [Conditions -> SUBSET Threads]
    BY DEF OtherCondition, Conditions, IInv, TypeOK
  <1>2. ASSUME NEW cv \in Conditions, WakeAll(cv) \/ WakeOne(cv) \/ WakeNone(cv)
        PROVE  waiting'[cv] = {}
    <2>1. CASE WakeAll(cv)
      BY <1>1, <2>1 DEF WakeAll
    <2>2. CASE WakeOne(cv)
      <3>1. PICK t \in waiting[cv] : waiting' = [waiting EXCEPT ![cv] = @ \ {t}]
        BY <2>2 DEF WakeOne
      <3>2. Wakeup # "broadcast"
        BY <2>2 DEF WakeOne
      <3>3. \A u \in waiting[cv] : u \in Threads /\ OwnCondition(u) = cv
        BY <1>1 DEF IInv, SleepInv
      <3>4. \A u \in waiting[cv] : u = t
        BY <3>2, <3>3, Roles DEF WakesWholeSide, OwnCondition, Threads
      <3>5. QED
        BY <1>1, <3>1, <3>4
    <2>3. CASE WakeNone(cv)
      BY <2>3 DEF WakeNone
    <2>4. QED
      BY <1>2, <2>1, <2>2, <2>3
  <1>3. QED
    BY <1>1, <1>2 DEF Wake

(* A sleeper stays in its justified sleep unless a step touches the count, *)
(* the sleepers or a thread about to wake somebody.                        *)
LEMMA SleepersUndisturbed ==
  ASSUME TypeOK, NoLostWakeup, buff_items' = buff_items,
         \A t \in Threads : Asleep(t)' => Asleep(t),
         \A s \in Threads : pc[s] = "wake" => pc'[s] = "wake"
  PROVE  NoLostWakeup'
  BY DEF NoLostWakeup, MustWait

(* Every step keeps the invariant about wake-ups.                          *)
LEMMA WakeStep ==
  ASSUME WakesWholeSide, IInv, WakeInv, [Next]_vars
  PROVE  WakeInv'
  <1> USE Roles DEF WakeInv
  <1> pc \in [Threads -> Points] /\ waiting \in [Conditions -> SUBSET Threads]
    BY DEF IInv, TypeOK
  <1>0. /\ \A t \in Threads : OwnCondition(t) \in Conditions
        /\ \A t \in Threads : OtherCondition(t) \in Conditions
    BY DEF OwnCondition, OtherCondition, Conditions
  <1>1. ASSUME \A cv \in Conditions : waiting'[cv] \subseteq waiting[cv]
        PROVE  NeverBothAsleep' /\ \A t \in Threads : Asleep(t)' => Asleep(t)
    BY <1>0, <1>1 DEF NeverBothAsleep, Asleep, Conditions
  <1>2. ASSUME NEW t \in Threads, Wait(t)
        PROVE  WakeInv'
    <2>1. /\ MustWait(t) /\ buff_items' = buff_items
          /\ waiting' = [waiting EXCEPT ![OwnCondition(t)] = @ \cup {t}]
          /\ pc[t] = "test" /\ pc' = [pc EXCEPT ![t] = "wait"]
      BY <1>2 DEF Wait, GoTo, shared
    <2>2. \A s \in Threads : pc[s] # "wake"
      BY <2>1, Alone DEF IInv, Inside
    <2>3. \A u \in Threads : Asleep(u) => MustWait(u)
      BY <2>2 DEF NoLostWakeup
    <2>4. NoLostWakeup'
      BY <1>0, <2>1, <2>3 DEF NoLostWakeup, MustWait, Asleep
    <2>5. \A cv \in Conditions : \A u \in waiting[cv] : u \in Threads /\ Asleep(u)
      BY DEF IInv, SleepInv, Asleep
    <2>6. VEL_BUFFERA # 0
      BY SizeAssumption
    <2>7. \A cv \in Conditions : cv # OwnCondition(t) => waiting[cv] = {}
      BY <2>1, <2>3, <2>5, <2>6 DEF MustWait, OwnCondition, Conditions, Asleep,
                                    IInv, SleepInv
    <2>8. NeverBothAsleep'
      BY <1>0, <2>1, <2>7 DEF NeverBothAsleep, Conditions
    <2>9. QED
      BY <2>4, <2>8
  <1>3. ASSUME NEW s \in Threads, Wake(s)
        PROVE  WakeInv'
    <2>1. \A cv \in Conditions : waiting'[cv] \subseteq waiting[cv]
      BY <1>3, WakeRemoves DEF IInv
    <2>2. /\ pc[s] = "wake" /\ pc' = [pc EXCEPT ![s] = "unlock"]
          /\ buff_items' = buff_items
      BY <1>3 DEF Wake, GoTo, shared
    <2>3. \A u \in Threads : u # s => pc[u] # "wake"
      BY <2>2, Alone DEF IInv, Inside
    <2>4. SUFFICES ASSUME NEW t \in Threads, Asleep(t)' PROVE MustWait(t)'
      BY <1>1, <2>1 DEF NoLostWakeup
    <2>5. Asleep(t)
      BY <1>1, <2>1, <2>4
    <2>6. OwnCondition(t) # OtherCondition(s)
      BY <1>3, <2>4, WakeEmpties DEF Asleep
    <2>7. MustWait(t)
      BY <2>3, <2>5, <2>6 DEF NoLostWakeup
    <2>8. QED
      BY <2>2, <2>7 DEF MustWait
  <1>4. ASSUME NEW p \in Producers, CountIn(p)
        PROVE  WakeInv'
    <2>1. /\ pc[p] = "count" /\ pc' = [pc EXCEPT ![p] = "wake"]
          /\ waiting' = waiting /\ ~ MustWait(p)
      BY <1>4 DEF CountIn, GoTo, IInv, RoomInv
    <2>2. \A s \in Threads : pc[s] # "wake"
      BY <2>1, Alone DEF IInv, Inside
    <2>3. \A t \in Producers : ~ Asleep(t)
      BY <2>1, <2>2 DEF NoLostWakeup, MustWait
    <2>4. NoLostWakeup'
      BY <2>1, <2>3 DEF NoLostWakeup, Asleep, OwnCondition, OtherCondition, Threads
    <2>5. QED
      BY <1>1, <2>1, <2>4
  <1>5. ASSUME NEW c \in Consumers, CountOut(c)
        PROVE  WakeInv'
    <2>1. /\ pc[c] = "count" /\ pc' = [pc EXCEPT ![c] = "wake"]
          /\ waiting' = waiting /\ ~ MustWait(c)
      BY <1>5 DEF CountOut, GoTo, IInv, RoomInv
    <2>2. \A s \in Threads : pc[s] # "wake"
      BY <2>1, Alone DEF IInv, Inside
    <2>3. \A t \in Consumers : ~ Asleep(t)
      BY <2>1, <2>2 DEF NoLostWakeup, MustWait
    <2>4. NoLostWakeup'
      BY <2>1, <2>3 DEF NoLostWakeup, Asleep, OwnCondition, OtherCondition, Threads
    <2>5. QED
      BY <1>1, <2>1, <2>4
  <1>6. ASSUME waiting' = waiting, buff_items' = buff_items,
               \A s \in Threads : pc[s] = "wake" => pc'[s] = "wake"
        PROVE  WakeInv'
    BY <1>1, <1>6, SleepersUndisturbed DEF IInv
  <1>7. ASSUME NEW t \in Threads, SpuriousWakeup(t)
        PROVE  WakeInv'
    <2>1. /\ waiting' = [waiting EXCEPT ![OwnCondition(t)] = @ \ {t}]
          /\ pc' = pc /\ buff_items' = buff_items
      BY <1>7 DEF SpuriousWakeup, shared
    <2>2. \A cv \in Conditions : waiting'[cv] \subseteq waiting[cv]
      BY <1>0, <2>1
    <2>3. QED
      BY <1>1, <2>1, <2>2, SleepersUndisturbed DEF IInv
  <1>8. ASSUME NEW t \in Threads, Synchronise(t) \/ Create(t)
        PROVE  WakeInv'
    <2>1. CASE Lock(t) \/ Proceed(t) \/ Reacquire(t) \/ Unlock(t) \/ Create(t)
      BY <1>6, <2>1 DEF Lock, Proceed, Reacquire, Unlock, Create, GoTo, shared
    <2>2. QED
      BY <1>2, <1>3, <1>8, <2>1 DEF Synchronise
  <1>9. ASSUME NEW p \in Producers, proizvodjac(p)
        PROVE  WakeInv'
    <2>1. CASE Store(p) \/ AdvanceIn(p)
      BY <1>6, <2>1 DEF Store, AdvanceIn, GoTo
    <2>2. QED
      BY <1>4, <1>8, <1>9, <2>1 DEF proizvodjac
  <1>10. ASSUME NEW c \in Consumers, potrosac(c)
         PROVE  WakeInv'
    <2>1. CASE Load(c) \/ AdvanceOut(c)
      BY <1>6, <2>1 DEF Load, AdvanceOut, GoTo, shared
    <2>2. QED
      BY <1>5, <1>8, <1>10, <2>1 DEF potrosac
  <1>11. CASE JoinProducers \/ JoinConsumers \/ UNCHANGED vars
    BY <1>6, <1>11 DEF JoinProducers, JoinConsumers, vars, shared
  <1>12. QED
    BY <1>7, <1>8, <1>9, <1>10, <1>11 DEF Next, Main, Terminated

(* With broadcast, or with signal between one producer and one consumer,   *)
(* no wake-up is lost: a thread sleeps only while it has to, or while the  *)
(* thread that will wake it is on its way.                                 *)
THEOREM NoWakeupIsLost ==
  ASSUME WakesWholeSide
  PROVE  Spec => []NoLostWakeup
  <1>1. Init => WakeInv
    BY DEF Init, WakeInv, NoLostWakeup, NeverBothAsleep, Asleep, OwnCondition,
           Conditions
  <1>2. IInv /\ WakeInv /\ [Next]_vars => WakeInv'
    BY WakeStep
  <1>3. WakeInv => NoLostWakeup
    BY DEF WakeInv
  <1>4. QED
    BY <1>1, <1>2, <1>3, InvariantHolds, PTL DEF Spec

(* And the two sides never sleep at the same time.                         *)
THEOREM SidesNeverBlockEachOther ==
  ASSUME WakesWholeSide
  PROVE  Spec => []NeverBothAsleep
  <1>1. Init => WakeInv
    BY DEF Init, WakeInv, NoLostWakeup, NeverBothAsleep, Asleep, OwnCondition,
           Conditions
  <1>2. IInv /\ WakeInv /\ [Next]_vars => WakeInv'
    BY WakeStep
  <1>3. WakeInv => NeverBothAsleep
    BY DEF WakeInv
  <1>4. QED
    BY <1>1, <1>2, <1>3, InvariantHolds, PTL DEF Spec

-----------------------------------------------------------------------------
(* BoundedBuffer implements FifoChannel: the initial state maps to an      *)
(* initial state, the two counting steps map to Put and Take, and every    *)
(* other step leaves the channel unchanged.  (The fairness half of the     *)
(* refinement is left to TLC.)                                             *)

(* Reducing a summand modulo N does not change the sum modulo N.           *)
LEMMA SumModulo ==
  ASSUME NEW N \in Nat \ {0}, NEW a \in Nat, NEW b \in Nat
  PROVE  ((a % N) + b) % N = (a + b) % N
  <1> DEFINE q == a \div N
             r == a % N
             x == r + b
             s == x \div N
             w == x % N
  <1>1. q \in Int /\ r \in 0 .. N - 1 /\ a = (N * q) + r
    BY DivMod
  <1> HIDE DEF q, r
  <1>2. x \in Nat
    BY <1>1
  <1>3. x = r + b
    OBVIOUS
  <1> HIDE DEF x
  <1>4. s \in Int /\ w \in 0 .. N - 1 /\ x = (N * s) + w
    BY <1>2, DivMod
  <1> HIDE DEF s, w
  <1>5. a + b = (N * (q + s)) + w
    <2>1. N * (q + s) = (N * q) + (N * s)
      BY <1>1, <1>4
    <2>2. QED
      BY <1>1, <1>3, <1>4, <2>1
  <1>6. (a + b) % N = w
    BY <1>1, <1>4, <1>5, RemainderIs, q + s \in Int, a + b \in Nat
  <1>7. QED
    BY <1>3, <1>6 DEF w, r

(* A whole turn of the ring leads back to the same slot.                   *)
LEMMA WholeTurn ==
  ASSUME NEW N \in Nat \ {0}, NEW a \in Nat
  PROVE  (a + N) % N = a % N
  <1> DEFINE q == a \div N
             r == a % N
  <1>1. q \in Int /\ r \in 0 .. N - 1 /\ a = (N * q) + r
    BY DivMod
  <1> HIDE DEF q, r
  <1>2. a + N = (N * (q + 1)) + r
    BY <1>1
  <1>3. (a + N) % N = r
    BY <1>1, <1>2, RemainderIs, q + 1 \in Int, a + N \in Nat
  <1>4. QED
    BY <1>3 DEF r

(* The items of the channel are the ones put and not taken, in the order   *)
(* of the puts.                                                            *)
LEMMA ContentsAreTheRest ==
  ASSUME IInv
  PROVE  /\ Contents \in Seq(Items)
         /\ Len(Contents) = Len(put) - Len(taken)
         /\ Len(Contents) = buff_items
         /\ \A k \in 1 .. Len(put) - Len(taken) : Contents[k] = put[Len(taken) + k]
  <1> DEFINE T == Len(taken)
             L == Len(put)
  <1>1. /\ T \in Nat /\ L \in Nat /\ T <= L /\ buff_items = L - T
        /\ put \in Seq(Items) /\ VEL_BUFFERA \in Nat \ {0}
    BY SizeAssumption DEF IInv, TypeOK, CountInv
  <1>2. Oldest = Slot(T)
    <2>1. CASE \E c \in Consumers : pc[c] = "count"
      <3>1. cit_idx = Slot(T + 1)
        BY <2>1 DEF IInv, IndexInv
      <3>2. (Slot(T + 1) + (VEL_BUFFERA - 1)) % VEL_BUFFERA
              = ((T + 1) + (VEL_BUFFERA - 1)) % VEL_BUFFERA
        BY <1>1, SumModulo, T + 1 \in Nat, VEL_BUFFERA - 1 \in Nat DEF Slot
      <3>3. (T + 1) + (VEL_BUFFERA - 1) = T + VEL_BUFFERA
        BY <1>1
      <3>4. Oldest = (Slot(T + 1) + (VEL_BUFFERA - 1)) % VEL_BUFFERA
        BY <2>1, <3>1 DEF Oldest
      <3>5. QED
        BY <1>1, <3>2, <3>3, <3>4, WholeTurn DEF Slot
    <2>2. CASE \A c \in Consumers : pc[c] # "count"
      BY <2>2 DEF Oldest, IInv, IndexInv
    <2>3. QED
      BY <2>1, <2>2
  <1>3. ASSUME NEW k \in 1 .. L - T
        PROVE  buffer[(Oldest + (k - 1)) % VEL_BUFFERA] = put[T + k]
    <2>1. Slot(T) \in Int /\ k \in Nat /\ k - 1 \in Nat
      BY <1>1, DivMod DEF Slot
    <2>2. Oldest + (k - 1) = Slot(T) + (k - 1)
      BY <1>2, <2>1
    <2>3. (Slot(T) + (k - 1)) % VEL_BUFFERA = Slot((T + k) - 1)
      <3>1. T + (k - 1) = (T + k) - 1
        BY <1>1, <2>1
      <3>2. (Slot(T) + (k - 1)) % VEL_BUFFERA = (T + (k - 1)) % VEL_BUFFERA
        BY <1>1, <2>1, SumModulo DEF Slot
      <3>3. QED
        BY <3>1, <3>2 DEF Slot
    <2>4. T + k \in 1 .. L /\ T < T + k
      BY <1>1
    <2>5. buffer[Slot((T + k) - 1)] = put[T + k]
      BY <2>4 DEF IInv, SlotInv
    <2>6. (Oldest + (k - 1)) % VEL_BUFFERA = Slot((T + k) - 1)
      BY <2>2, <2>3
    <2>7. QED
      BY <2>5, <2>6
  <1>4. \A k \in 1 .. L - T : put[T + k] \in Items
    BY <1>1
  <1>5. Contents = [k \in 1 .. L - T |-> put[T + k]]
    BY <1>1, <1>3 DEF Contents
  <1>6. L - T \in Nat
    BY <1>1
  <1>7. QED
    BY <1>1, <1>4, <1>5, <1>6

(* The same in the next state.                                             *)
LEMMA ContentsAreTheRestPrimed ==
  IInv' => /\ Contents' \in Seq(Items)
           /\ Len(Contents') = Len(put') - Len(taken')
           /\ \A k \in 1 .. Len(put') - Len(taken') :
                Contents'[k] = put'[Len(taken') + k]
  <1> DEFINE Rest == /\ Contents \in Seq(Items)
                     /\ Len(Contents) = Len(put) - Len(taken)
                     /\ \A k \in 1 .. Len(put) - Len(taken) :
                          Contents[k] = put[Len(taken) + k]
  <1>1. IInv => Rest
    BY ContentsAreTheRest
  <1> HIDE DEF Rest
  <1>2. IInv' => Rest'
    BY <1>1, PTL
  <1>3. QED
    BY <1>2 DEF Rest

(* A step that prints nothing and completes no count leaves the channel    *)
(* as it is.                                                               *)
LEMMA SilentStep ==
  ASSUME IInv, IInv', put' = put, taken' = taken,
         \A t \in Threads : Rounds(t)' = Rounds(t)
  PROVE  UNCHANGED Channel!vars
  <1>1. Contents' = Contents
    <2>1. /\ Contents \in Seq(Items) /\ Contents' \in Seq(Items)
          /\ Len(Contents) = Len(put) - Len(taken)
          /\ Len(Contents') = Len(put) - Len(taken)
      BY ContentsAreTheRest, ContentsAreTheRestPrimed
    <2>2. \A k \in 1 .. Len(put) - Len(taken) : Contents'[k] = Contents[k]
      BY ContentsAreTheRest, ContentsAreTheRestPrimed
    <2>3. QED
      BY <2>1, <2>2
  <1>2. [p \in Producers |-> Rounds(p)]' = [p \in Producers |-> Rounds(p)]
    BY Roles
  <1>3. [c \in Consumers |-> Rounds(c)]' = [c \in Consumers |-> Rounds(c)]
    BY Roles
  <1>4. QED
    BY <1>1, <1>2, <1>3 DEF Channel!vars

(* Counting a stored item is the Put of the channel.                       *)
LEMMA CountInIsPut ==
  ASSUME IInv, IInv', NEW p \in Producers, CountIn(p)
  PROVE  Channel!Put(p)
  <1> USE Roles
  <1>1. /\ pc \in [Threads -> Points] /\ i \in [Threads -> 0 .. Quota]
        /\ put \in Seq(Items)
    BY DEF IInv, TypeOK
  <1>2. /\ pc[p] = "count" /\ pc' = [pc EXCEPT ![p] = "wake"] /\ i' = i
        /\ put' = Append(put, Item(p)) /\ taken' = taken
    BY DEF CountIn, GoTo
  <1>3. /\ i[p] \in 0 .. Quota - 1 /\ Item(p) \in Items
        /\ Len(put) \in Nat /\ Len(taken) \in Nat
        /\ Len(put) - Len(taken) < VEL_BUFFERA
    BY <1>2, InHand
  <1>4. Rounds(p) = i[p] /\ Rounds(p)' = i[p] + 1
    BY <1>1, <1>2 DEF Rounds
  <1>5. \A t \in Threads : t # p => Rounds(t)' = Rounds(t)
    BY <1>1, <1>2 DEF Rounds
  <1>6. Contents' = Append(Contents, Item(p))
    <2> DEFINE T == Len(taken)
               L == Len(put)
    <2>1. /\ Contents \in Seq(Items) /\ Len(Contents) = L - T
          /\ \A k \in 1 .. L - T : Contents[k] = put[T + k]
      BY ContentsAreTheRest
    <2>2. /\ Len(put') = L + 1 /\ put'[L + 1] = Item(p)
          /\ \A k \in 1 .. L : put'[k] = put[k]
      BY <1>1, <1>2, <1>3
    <2>3. /\ Contents' \in Seq(Items) /\ Len(Contents') = (L + 1) - T
          /\ \A k \in 1 .. (L + 1) - T : Contents'[k] = put'[T + k]
      BY <1>2, <2>2, ContentsAreTheRestPrimed
    <2>4. T <= L
      BY DEF IInv, CountInv
    <2>5. ASSUME NEW k \in 1 .. L - T
          PROVE  Contents'[k] = Contents[k]
      <3>1. k \in 1 .. (L + 1) - T /\ T + k \in 1 .. L
        BY <1>3, <2>4
      <3>2. QED
        BY <2>1, <2>2, <2>3, <3>1
    <2>6. Contents'[(L - T) + 1] = Item(p)
      <3>1. (L - T) + 1 \in 1 .. (L + 1) - T /\ T + ((L - T) + 1) = L + 1
        BY <1>3, <2>4
      <3>2. QED
        BY <2>2, <2>3, <3>1
    <2>7. L - T \in Nat /\ (L + 1) - T = (L - T) + 1
      BY <1>3, <2>4
    <2> DEFINE A == Append(Contents, Item(p))
    <2>8. /\ A \in Seq(Items) /\ Len(A) = (L - T) + 1
          /\ \A k \in 1 .. L - T : A[k] = Contents[k]
          /\ A[(L - T) + 1] = Item(p)
      BY <1>3, <2>1, <2>7
    <2> HIDE DEF A
    <2>9. \A k \in 1 .. (L - T) + 1 : Contents'[k] = A[k]
      BY <2>5, <2>6, <2>7, <2>8
    <2>10. Contents' = A
      BY <2>3, <2>7, <2>8, <2>9
    <2>11. QED
      BY <2>10 DEF A
  <1>7. Len(Contents) < VEL_BUFFERA
    BY <1>3, ContentsAreTheRest
  <1>8. [q \in Producers |-> Rounds(q)]'
          = [[q \in Producers |-> Rounds(q)] EXCEPT ![p] = @ + 1]
    BY <1>4, <1>5
  <1>9. [c \in Consumers |-> Rounds(c)]' = [c \in Consumers |-> Rounds(c)]
    BY <1>5
  <1>10. [q \in Producers |-> Rounds(q)][p] = i[p]
    BY <1>4
  <1>11. Contents' = Append(Contents, <<p, [q \in Producers |-> Rounds(q)][p]>>)
    BY <1>6, <1>10 DEF Item
  <1>12. [q \in Producers |-> Rounds(q)][p] < Quota
    BY <1>3, <1>10, SizeAssumption
  <1>13. QED
    BY <1>2, <1>7, <1>8, <1>9, <1>11, <1>12 DEF Channel!Put

(* Counting a loaded item is the Take of the channel.                      *)
LEMMA CountOutIsTake ==
  ASSUME IInv, IInv', NEW c \in Consumers, CountOut(c)
  PROVE  Channel!Take(c)
  <1> USE Roles
  <1>1. /\ pc \in [Threads -> Points] /\ i \in [Threads -> 0 .. Quota]
        /\ put \in Seq(Items) /\ taken \in Seq(Consumers \X Items)
    BY DEF IInv, TypeOK
  <1>2. /\ pc[c] = "count" /\ pc' = [pc EXCEPT ![c] = "wake"] /\ i' = i
        /\ put' = put /\ taken' = Append(taken, <<c, v[c]>>)
    BY DEF CountOut, GoTo
  <1>3. /\ i[c] \in 0 .. Quota - 1
        /\ Len(put) \in Nat /\ Len(taken) \in Nat
        /\ Len(taken) < Len(put)
    BY <1>2, InHand
  <1>4. Rounds(c) = i[c] /\ Rounds(c)' = i[c] + 1
    BY <1>1, <1>2 DEF Rounds
  <1>5. \A t \in Threads : t # c => Rounds(t)' = Rounds(t)
    BY <1>1, <1>2 DEF Rounds
  <1> DEFINE T == Len(taken)
             L == Len(put)
  <1>6. /\ Contents \in Seq(Items) /\ Len(Contents) = L - T
        /\ \A k \in 1 .. L - T : Contents[k] = put[T + k]
    BY ContentsAreTheRest
  <1>7. Contents # <<>> /\ Head(Contents) = v[c]
    <2>1. v[c] = put[T + 1]
      BY <1>2 DEF IInv, HandInv
    <2>2. 1 \in 1 .. L - T
      BY <1>3
    <2>3. Contents[1] = put[T + 1]
      BY <1>6, <2>2
    <2>4. QED
      BY <1>3, <1>6, <2>1, <2>3
  <1>8. Contents' = Tail(Contents)
    <2>1. Len(taken') = T + 1
      BY <1>1, <1>2
    <2>2. /\ Contents' \in Seq(Items) /\ Len(Contents') = L - (T + 1)
          /\ \A k \in 1 .. L - (T + 1) : Contents'[k] = put[(T + 1) + k]
      BY <1>2, <2>1, ContentsAreTheRestPrimed
    <2>3. ASSUME NEW k \in 1 .. L - (T + 1)
          PROVE  Contents'[k] = Contents[k + 1]
      <3>1. /\ k \in Int /\ k + 1 \in 1 .. L - T
            /\ (T + 1) + k = T + (k + 1)
        BY <1>3
      <3>2. Contents[k + 1] = put[T + (k + 1)]
        BY <1>6, <3>1
      <3>3. Contents'[k] = put[(T + 1) + k]
        BY <2>2
      <3>4. QED
        BY <3>1, <3>2, <3>3
    <2>4. /\ Tail(Contents) \in Seq(Items)
          /\ Len(Tail(Contents)) = L - (T + 1)
          /\ \A k \in 1 .. L - (T + 1) : Tail(Contents)[k] = Contents[k + 1]
      BY <1>3, <1>6, <1>7
    <2>5. QED
      BY <2>2, <2>3, <2>4
  <1>9. [d \in Consumers |-> Rounds(d)]'
          = [[d \in Consumers |-> Rounds(d)] EXCEPT ![c] = @ + 1]
    BY <1>4, <1>5
  <1>10. [p \in Producers |-> Rounds(p)]' = [p \in Producers |-> Rounds(p)]
    BY <1>5
  <1>11. [d \in Consumers |-> Rounds(d)][c] < Quota
    BY <1>3, <1>4, SizeAssumption
  <1>12. taken' = Append(taken, <<c, Head(Contents)>>)
    BY <1>2, <1>7
  <1>13. QED
    BY <1>7, <1>8, <1>9, <1>10, <1>11, <1>12 DEF Channel!Take

(* Every step of the threads, of main and of the condition variables is a  *)
(* step of the channel or leaves it unchanged.                             *)
LEMMA StepSimulation ==
  ASSUME IInv, IInv', [Next]_vars
  PROVE  [Channel!Next]_Channel!vars
  <1> USE Roles
  <1> pc \in [Threads -> Points] /\ i \in [Threads -> 0 .. Quota]
    BY DEF IInv, TypeOK
  <1>1. ASSUME NEW t \in Threads, SyncStep(t)
        PROVE  UNCHANGED Channel!vars
    <2>1. put' = put /\ taken' = taken
      BY <1>1 DEF SyncStep, Lock, Wait, Proceed, Reacquire, Wake, Unlock, Create,
                  SpuriousWakeup, history
    <2>2. \A s \in Threads : Rounds(s)' = Rounds(s)
      <3>1. CASE Unlock(t)
        BY <3>1 DEF Unlock, GoTo, Rounds
      <3>2. CASE SpuriousWakeup(t)
        BY <3>2 DEF SpuriousWakeup, Rounds
      <3>3. CASE \E from, to \in Points : /\ from \notin {"unlock"}
                                          /\ to \in {"wait", "test", "move", "lock"}
                                          /\ from # "wake"
                                          /\ GoTo(t, from, to) /\ i' = i
        BY <3>3 DEF GoTo, Rounds
      <3>4. CASE Wake(t)
        BY <3>4 DEF Wake, GoTo, Rounds
      <3>5. QED
        BY <1>1, <3>1, <3>2, <3>3, <3>4
           DEF SyncStep, Lock, Wait, Proceed, Reacquire, Create, Points
    <2>3. QED
      BY <2>1, <2>2, SilentStep
  <1>2. ASSUME NEW t \in Threads,
               \/ t \in Producers /\ (Store(t) \/ AdvanceIn(t))
               \/ t \in Consumers /\ (Load(t) \/ AdvanceOut(t))
        PROVE  UNCHANGED Channel!vars
    <2>1. put' = put /\ taken' = taken
      BY <1>2 DEF Store, AdvanceIn, Load, AdvanceOut, history
    <2>2. \A s \in Threads : Rounds(s)' = Rounds(s)
      BY <1>2 DEF Store, AdvanceIn, Load, AdvanceOut, GoTo, Rounds
    <2>3. QED
      BY <2>1, <2>2, SilentStep
  <1>3. CASE JoinProducers \/ JoinConsumers \/ UNCHANGED vars
    <2>1. put' = put /\ taken' = taken /\ pc' = pc /\ i' = i
      BY <1>3 DEF JoinProducers, JoinConsumers, vars, history
    <2>2. \A s \in Threads : Rounds(s)' = Rounds(s)
      BY <2>1 DEF Rounds
    <2>3. QED
      BY <2>1, <2>2, SilentStep
  <1>4. ASSUME NEW p \in Producers, proizvodjac(p)
        PROVE  [Channel!Next]_Channel!vars
    BY <1>1, <1>2, <1>4, CountInIsPut
       DEF proizvodjac, Synchronise, SyncStep, Channel!Next
  <1>5. ASSUME NEW c \in Consumers, potrosac(c)
        PROVE  [Channel!Next]_Channel!vars
    BY <1>1, <1>2, <1>5, CountOutIsTake
       DEF potrosac, Synchronise, SyncStep, Channel!Next
  <1>6. CASE Main
    BY <1>1, <1>3, <1>6 DEF Main, SyncStep
  <1>7. ASSUME NEW t \in Threads, SpuriousWakeup(t)
        PROVE  [Channel!Next]_Channel!vars
    BY <1>1, <1>7 DEF SyncStep
  <1>8. QED
    BY <1>3, <1>4, <1>5, <1>6, <1>7 DEF Next, Terminated

(* The empty ring is the empty channel.                                    *)
LEMMA InitialSimulation == Init => Channel!Init
  <1> SUFFICES ASSUME Init PROVE Channel!Init
    OBVIOUS
  <1>1. Contents = <<>>
    BY DEF Init, Contents
  <1>2. \A t \in Threads : Rounds(t) = 0
    BY DEF Init, Rounds
  <1>3. QED
    BY <1>1, <1>2, Roles DEF Init, Channel!Init

(* The circular buffer with its mutex and condition variables implements   *)
(* the FIFO channel: safety part of ImplementsChannel.                     *)
THEOREM BufferIsAChannel ==
  Spec => Channel!Init /\ [][Channel!Next]_Channel!vars
  <1>1. Init => Channel!Init
    BY InitialSimulation
  <1>2. IInv /\ IInv' /\ [Next]_vars => [Channel!Next]_Channel!vars
    BY StepSimulation
  <1>3. QED
    BY <1>1, <1>2, InvariantHolds, PTL DEF Spec
=============================================================================
