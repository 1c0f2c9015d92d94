---------------------------- MODULE BrojiProofs ----------------------------
(***************************************************************************)
(* The result of broji.c and broji2.c, for any number of threads and of    *)
(* increments.                                                             *)
(***************************************************************************)
EXTENDS Broji, FiniteSetTheorems, TLAPS

Rounds == Threads \X (0 .. cnt - 1)

(* The rounds whose increment has been stored.                             *)
Done == {x \in Rounds : x[2] < k[x[1]]}

(* Where a thread is says how many rounds it has behind it.                *)
Control ==
  /\ \A t \in Threads :
       /\ pc[t] \in {"new", "lock", "load", "store"} => k[t] < cnt
       /\ pc[t] = "done" => k[t] = cnt
  /\ main = "printed" => \A t \in Threads : pc[t] = "done"

(* No value in memory or in a register exceeds the stores done so far.     *)
Upper ==
  /\ count <= Cardinality(Done)
  /\ \A t \in Threads : pc[t] = "store" => reg[t] <= Cardinality(Done)

(* Once something was stored count is positive; once every thread has      *)
(* stored twice it is at least 2.                                          *)
Lower ==
  /\ \A t \in Threads : k[t] > 0 => count > 0
  /\ \A t \in Threads : pc[t] = "store" /\ k[t] > 0 => reg[t] > 0
  /\ count > 1 \/ \E t \in Threads : k[t] < 2

(* With the mutex, only its owner is inside, its register is up to date    *)
(* and no increment has been lost.                                         *)
Locked ==
  locked =>
    /\ \A t \in Threads :
         /\ pc[t] \in {"load", "store", "unlock"} => count_lock = t
         /\ pc[t] = "store" => reg[t] = count
    /\ count = Cardinality(Done)

Inv == TypeOK /\ Control /\ Upper /\ Lower /\ Locked

(* There are NTHREADS * cnt rounds in all.                                 *)
LEMMA RoundsFinite ==
  /\ IsFiniteSet(Rounds)
  /\ Cardinality(Rounds) = Cardinality(Threads) * cnt
  <1>1. /\ IsFiniteSet(0 .. cnt - 1)
        /\ Cardinality(0 .. cnt - 1) = cnt
    BY FS_Interval, CntAssumption
  <1>2. QED
    BY <1>1, FS_Product, ThreadsAssumption DEF Rounds

(* The rounds done can be counted.                                         *)
LEMMA DoneFinite ==
  IsFiniteSet(Done) /\ Cardinality(Done) \in Nat
  <1>1. Done \subseteq Rounds
    BY DEF Done
  <1>2. QED
    BY <1>1, RoundsFinite, FS_Subset, FS_CardinalityType

(* A store adds its own round to those done.                               *)
LEMMA StoreAddsRound ==
  ASSUME TypeOK, Control, NEW t \in Threads, Store(t)
  PROVE  Cardinality(Done') = Cardinality(Done) + 1
  <1>1. /\ k \in [Threads -> 0 .. cnt] /\ k' = [k EXCEPT ![t] = @ + 1]
        /\ k[t] \in 0 .. cnt - 1
    BY CntAssumption DEF TypeOK, Control, Store, GoTo
  <1>2. Done' = Done \cup {<<t, k[t]>>}
    <2>1. ASSUME NEW x \in Rounds
          PROVE  x[2] < k'[x[1]] <=> x[2] < k[x[1]] \/ x = <<t, k[t]>>
      <3>1. PICK s \in Threads, j \in 0 .. cnt - 1 : x = <<s, j>>
        BY DEF Rounds
      <3>2. CASE s = t
        BY <1>1, <3>1, <3>2
      <3>3. CASE s # t
        BY <1>1, <3>1, <3>3
      <3>4. QED
        BY <3>2, <3>3
    <2>2. <<t, k[t]>> \in Rounds
      BY <1>1 DEF Rounds
    <2>3. QED
      BY <2>1, <2>2 DEF Done
  <1>3. <<t, k[t]>> \notin Done
    BY <1>1 DEF Done
  <1>4. QED
    BY <1>2, <1>3, DoneFinite, FS_AddElement

(* The invariant holds at the start.                                       *)
LEMMA InitInv == Init => Inv
  <1> SUFFICES ASSUME Init PROVE Inv
    OBVIOUS
  <1>1. TypeOK
    BY CntAssumption DEF Init, TypeOK
  <1>2. Control
    BY CntAssumption DEF Init, Control
  <1>3. Cardinality(Done) = 0
    <2>1. Done = {}
      BY CntAssumption DEF Init, Done, Rounds
    <2>2. QED
      BY <2>1, FS_EmptySet
  <1>4. Upper
    BY <1>3 DEF Init, Upper
  <1>5. Lower
    BY ThreadsAssumption DEF Init, Lower
  <1>6. Locked
    BY <1>3 DEF Init, Locked
  <1>7. QED
    BY <1>1, <1>2, <1>4, <1>5, <1>6 DEF Inv

(* A store keeps it.                                                       *)
LEMMA StoreInv ==
  ASSUME Inv, NEW t \in Threads, Store(t)
  PROVE  Inv'
  <1> USE DEF Inv
  <1>1. /\ pc[t] = "store" /\ k[t] \in 0 .. cnt - 1
        /\ pc' = [pc EXCEPT ![t] = IF locked THEN "unlock" ELSE Loop(k[t] + 1)]
        /\ count' = reg[t] + 1 /\ k' = [k EXCEPT ![t] = @ + 1]
        /\ locked' = locked /\ count_lock' = count_lock
        /\ reg' = reg /\ main' = main
    BY CntAssumption DEF TypeOK, Control, Store, GoTo
  <1>2. TypeOK'
    BY <1>1, CntAssumption DEF TypeOK, Loop, Body
  <1>3. Control'
    BY <1>1, CntAssumption DEF TypeOK, Control, Loop, Body
  <1>4. /\ Cardinality(Done') = Cardinality(Done) + 1
        /\ Cardinality(Done) \in Nat
    BY StoreAddsRound, DoneFinite
  <1>5. /\ reg \in [Threads -> Nat] /\ count \in Nat
        /\ k \in [Threads -> 0 .. cnt]
        /\ pc \in [Threads -> {"new", "lock", "load", "store", "unlock", "done"}]
    BY DEF TypeOK
  <1>6. \A s \in Threads : pc'[s] = "store" => s # t /\ pc[s] = "store"
    BY <1>1, <1>5 DEF Loop, Body
  <1>7. Upper'
    BY <1>1, <1>4, <1>5, <1>6 DEF Upper
  <1>8. Lower'
    <2>1. count' > 0
      BY <1>1, <1>5
    <2>2. \A s \in Threads : pc'[s] = "store" /\ k'[s] > 0 => reg'[s] > 0
      BY <1>1, <1>5, <1>6 DEF Lower
    <2>3. count' > 1 \/ \E s \in Threads : k'[s] < 2
      <3>1. CASE k[t] = 0
        BY <1>1, <1>5, <3>1
      <3>2. CASE k[t] > 0
        BY <1>1, <1>5, <3>2 DEF Lower
      <3>3. QED
        BY <1>1, <3>1, <3>2
    <2>4. QED
      BY <2>1, <2>2, <2>3 DEF Lower
  <1>9. Locked'
    <2> SUFFICES ASSUME locked
                 PROVE  /\ \A s \in Threads :
                             /\ pc'[s] \in {"load", "store", "unlock"}
                                  => count_lock' = s
                             /\ pc'[s] = "store" => reg'[s] = count'
                        /\ count' = Cardinality(Done')
      BY <1>1 DEF Locked
    <2>1. \A s \in Threads : pc[s] \in {"load", "store", "unlock"}
                               => count_lock = s
      BY DEF Locked
    <2>2. count' = Cardinality(Done')
      BY <1>1, <1>4 DEF Locked
    <2>3. \A s \in Threads : pc'[s] \in {"load", "store", "unlock"}
                               => count_lock' = s
      BY <1>1, <1>5, <2>1
    <2>4. \A s \in Threads : pc'[s] # "store"
      BY <1>1, <1>6, <2>1
    <2>5. QED
      BY <2>2, <2>3, <2>4
  <1>10. QED
    BY <1>2, <1>3, <1>7, <1>8, <1>9

(* Steps that store nothing leave Done alone.                              *)
LEMMA OtherInv ==
  ASSUME Inv, NEW t \in Threads,
         Create(t) \/ Lock(t) \/ Load(t) \/ Unlock(t)
  PROVE  Inv'
  <1> USE DEF Inv
  <1>1. k' = k /\ count' = count /\ locked' = locked
    BY DEF Create, Lock, Load, Unlock
  <1>2. Done' = Done
    BY <1>1 DEF Done
  <1>3. Cardinality(Done) \in Nat
    BY DoneFinite
  <1>4. TypeOK'
    BY CntAssumption DEF TypeOK, Create, Lock, Load, Unlock, GoTo, Loop, Body
  <1>5. Control'
    <2> USE CntAssumption DEF TypeOK, Control, GoTo, Loop, Body
    <2>1. CASE Create(t)
      BY <2>1 DEF Create
    <2>2. CASE Lock(t)
      BY <2>2 DEF Lock
    <2>3. CASE Load(t)
      BY <2>3 DEF Load
    <2>4. CASE Unlock(t)
      BY <2>4 DEF Unlock
    <2>5. QED
      BY <2>1, <2>2, <2>3, <2>4
  <1>6. \A s \in Threads : pc'[s] = "store" =>
          \/ reg'[s] = count
          \/ pc[s] = "store" /\ reg'[s] = reg[s]
    BY DEF TypeOK, Create, Lock, Load, Unlock, GoTo, Loop, Body
  <1>7. Upper'
    BY <1>1, <1>2, <1>6 DEF Upper
  <1>8. Lower'
    BY <1>1, <1>6 DEF Lower
  <1>9. Locked'
    <2>1. locked => count' = Cardinality(Done')
      BY <1>1, <1>2 DEF Locked
    <2>2. locked => \A s \in Threads : pc'[s] = "store" => reg'[s] = count'
      BY <1>1, <1>6 DEF Locked
    <2>3. locked => \A s \in Threads :
             pc'[s] \in {"load", "store", "unlock"} => count_lock' = s
      <3> USE ThreadsAssumption DEF TypeOK, Locked, GoTo, Loop, Body
      <3>1. CASE Create(t)
        BY <3>1 DEF Create
      <3>2. CASE Lock(t)
        BY <3>2 DEF Lock
      <3>3. CASE Load(t)
        BY <3>3 DEF Load
      <3>4. CASE Unlock(t)
        BY <3>4 DEF Unlock
      <3>5. QED
        BY <3>1, <3>2, <3>3, <3>4
    <2>4. QED
      BY <1>1, <2>1, <2>2, <2>3 DEF Locked
  <1>10. QED
    BY <1>4, <1>5, <1>7, <1>8, <1>9

(* Every step keeps it.                                                    *)
LEMMA NextInv == Inv /\ [Next]_vars => Inv'
  <1> SUFFICES ASSUME Inv, [Next]_vars PROVE Inv'
    OBVIOUS
  <1>1. ASSUME NEW t \in Threads, Create(t) \/ counter(t)
        PROVE  Inv'
    BY <1>1, StoreInv, OtherInv DEF counter
  <1>2. ASSUME Join PROVE Inv'
    <2>1. Done' = Done
      BY <1>2 DEF Join, Done
    <2>2. QED
      BY <1>2, <2>1
         DEF Inv, TypeOK, Control, Upper, Lower, Locked, Join
  <1>3. ASSUME UNCHANGED vars PROVE Inv'
    <2>1. Done' = Done
      BY <1>3 DEF vars, Done
    <2>2. QED
      BY <1>3, <2>1
         DEF Inv, TypeOK, Control, Upper, Lower, Locked, vars
  <1>4. QED
    BY <1>1, <1>2, <1>3 DEF Next, Main, Terminated

(* It holds in every reachable state.                                      *)
LEMMA Invariant == Spec => []Inv
  <1>1. QED
    BY InitInv, NextInv, PTL DEF Spec

(* When main prints, every round is done.                                  *)
LEMMA AllRoundsDone ==
  ASSUME Inv, main = "printed"
  PROVE  /\ \A t \in Threads : k[t] = cnt
         /\ Cardinality(Done) = Cardinality(Threads) * cnt
  <1>1. \A t \in Threads : k[t] = cnt
    BY DEF Inv, Control
  <1>2. Done = Rounds
    BY <1>1, CntAssumption DEF Done, Rounds
  <1>3. QED
    BY <1>1, <1>2, RoundsFinite

(* TypeOK: no counter, register or control point leaves its range.         *)
THEOREM TypeCorrect == Spec => []TypeOK
  <1>1. Inv => TypeOK
    BY DEF Inv
  <1>2. QED
    BY <1>1, Invariant, PTL

(* ResultInRange: whatever is lost, the result of broji.c lies between 2   *)
(* and NTHREADS * cnt.                                                     *)
THEOREM ResultIsBounded == Spec => []ResultInRange
  <1>1. Inv => ResultInRange
    <2> SUFFICES ASSUME Inv, main = "printed"
                 PROVE  /\ (IF cnt = 1 THEN 1 ELSE 2) <= count
                        /\ count <= Cardinality(Threads) * cnt
      BY DEF ResultInRange
    <2>1. count \in Nat
      BY DEF Inv, TypeOK
    <2>2. PICK t \in Threads : k[t] = cnt
      BY AllRoundsDone, ThreadsAssumption
    <2>3. count > 0
      BY <2>2, CntAssumption DEF Inv, Lower
    <2>4. cnt # 1 => count > 1
      BY AllRoundsDone, CntAssumption DEF Inv, Lower
    <2>5. count <= Cardinality(Threads) * cnt
      BY AllRoundsDone DEF Inv, Upper
    <2>6. QED
      BY <2>1, <2>3, <2>4, <2>5
  <1>2. QED
    BY <1>1, Invariant, PTL

(* ExactWithMutex: the mutex of broji2.c makes the result exact.           *)
THEOREM MutexMakesExact == Spec => []ExactWithMutex
  <1>1. Inv => ExactWithMutex
    BY AllRoundsDone DEF Inv, Locked, ExactWithMutex
  <1>2. QED
    BY <1>1, Invariant, PTL
=============================================================================
