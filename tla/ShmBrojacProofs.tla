-------------------------- MODULE ShmBrojacProofs --------------------------
(***************************************************************************)
(* The semaphore of shm_brojac_sem.c is binary and excludes, for every     *)
(* number of runs, one after the other or at the same time, and for every  *)
(* number of killed processes.  Exclusion is inductive once it is known    *)
(* where the processes of a run are relative to each other and how far     *)
(* they have counted (Control), that the objects a process uses exist      *)
(* (Opened), that a run which has not reached sem_open cannot have created *)
(* a semaphore that is in use (Unused), and that a semaphore whose holder  *)
(* was killed stays at 0 (Stuck).  The other direction, that a semaphore   *)
(* at 0 has a living holder unless it lost it to a kill, is Backed.        *)
(*                                                                         *)
(* When runs do not overlap the result is exact: only one run is active    *)
(* (OneRun), the memory holds what its two processes have stored (Counted),*)
(* and the parent prints after both have done all their rounds (Order).    *)
(***************************************************************************)
EXTENDS ShmBrojac, TLAPS

USE DEF vars, process, names, history

(* The child comes with the fork; a process in the loop has rounds left.   *)
Control ==
  /\ \A r \in Runs :
       pc[parent(r)] \in {"off", "zero", "sem", "fork"} => pc[child(r)] = "off"
  /\ \A w \in Processes :
       /\ pc[w] \in {"off", "zero", "sem", "fork"} => i[w] = 0
       /\ pc[w] \in {"wait", "load", "store", "post"} => i[w] < ITERACIJA
       /\ pc[w] = "store" => reg[w] \in Nat

Stuck == \A o \in orphaned : sem[o] = 0

(* A process in the loop has both objects open.                            *)
Opened ==
  \A w \in Processes :
    /\ pc[w] \notin {"off", "killed"} => shm_of[w[1]] \in Runs
    /\ pc[w] \notin {"off", "zero", "sem", "killed"} => sem_of[w[1]] \in Runs

(* Before sem_open no semaphore bears the name of the run.                 *)
Unused ==
  \A r \in Runs :
    pc[parent(r)] \in {"off", "zero", "sem"} =>
      /\ sem_name # r /\ r \notin orphaned
      /\ \A s \in Runs : sem_of[s] # r

(* One process at a time: the first half of Exclusion.                     *)
Excludes ==
  \A w, x \in Processes :
    Holds(w) => /\ sem[sem_of[w[1]]] = 0
                /\ sem_of[w[1]] \notin orphaned
                /\ Holds(x) /\ sem_of[x[1]] = sem_of[w[1]] => x = w

(* A semaphore somebody can still wait on is at 1, in somebody's hands, or *)
(* lost with its holder: the second half, for the name as well.            *)
InUse(o) == o = sem_name \/ \E r \in Runs : sem_of[r] = o
Held(o) == \E w \in Processes : Holds(w) /\ sem_of[w[1]] = o
Backed ==
  \A o \in Runs : InUse(o) /\ o \notin orphaned => sem[o] = 1 \/ Held(o)

Inv == TypeOK /\ Control /\ Opened /\ Unused /\ Stuck /\ Excludes

(* The processes of a run.                                                 *)
LEMMA ProcessFacts ==
  /\ \A r \in Runs :
       /\ parent(r) \in Processes /\ child(r) \in Processes
       /\ parent(r)[1] = r /\ child(r)[1] = r
       /\ parent(r)[2] = "parent" /\ child(r)[2] = "child"
       /\ parent(r) # child(r)
  /\ \A w \in Processes : w[1] \in Runs /\ w[2] \in {"parent", "child"}
  /\ \A w \in Processes : w = parent(w[1]) \/ w = child(w[1])
BY DEF Processes, parent, child

(* The invariant holds at the start.                                       *)
LEMMA InitInv == Init => Inv
<1> SUFFICES ASSUME Init PROVE Inv
  OBVIOUS
<1>1. TypeOK
  BY ConstantsAssumption DEF Init, TypeOK, Points
<1>2. Control /\ Opened /\ Unused /\ Stuck /\ Excludes
  BY ProcessFacts, ConstantsAssumption
     DEF Init, Control, Opened, Unused, Stuck, Excludes, Holds
<1>3. QED
  BY <1>1, <1>2 DEF Inv

(* Every step keeps every part.                                            *)
LEMMA StepInv ==
  ASSUME Inv, [Next]_vars
  PROVE  Inv'
<1> USE ProcessFacts, ConstantsAssumption
    DEF Inv, Holds, Points, GoTo
<1>1. ASSUME NEW r \in Runs, Open(r) PROVE Inv'
  <2>1. TypeOK'
    BY <1>1 DEF Open, TypeOK, Opened, Control
  <2>2. Control'
    BY <1>1 DEF Open, TypeOK, Opened, Control
  <2>3. Opened'
    BY <1>1 DEF Open, TypeOK, Opened
  <2>4. Unused'
    BY <1>1 DEF Open, TypeOK, Unused, Opened
  <2>5. Stuck'
    BY <1>1 DEF Open, TypeOK, Stuck
  <2>6. Excludes'
    BY <1>1 DEF Open, TypeOK, Excludes, Opened
  <2>7. QED
    BY <2>1, <2>2, <2>3, <2>4, <2>5, <2>6
<1>2. ASSUME NEW r \in Runs, Zero(r) PROVE Inv'
  <2>1. TypeOK'
    BY <1>2 DEF Zero, TypeOK, Opened, Control
  <2>2. Control'
    BY <1>2 DEF Zero, TypeOK, Opened, Control
  <2>3. Opened'
    BY <1>2 DEF Zero, TypeOK, Opened
  <2>4. Unused'
    BY <1>2 DEF Zero, TypeOK, Unused
  <2>5. Stuck'
    BY <1>2 DEF Zero, TypeOK, Stuck
  <2>6. Excludes'
    BY <1>2 DEF Zero, TypeOK, Excludes, Opened
  <2>7. QED
    BY <2>1, <2>2, <2>3, <2>4, <2>5, <2>6
<1>3. ASSUME NEW r \in Runs, OpenSem(r) PROVE Inv'
  <2>1. TypeOK'
    BY <1>3 DEF OpenSem, OpenSemWith, TypeOK, Opened, Control
  <2>2. Control'
    BY <1>3 DEF OpenSem, OpenSemWith, TypeOK, Opened, Control
  <2>3. Opened'
    BY <1>3 DEF OpenSem, OpenSemWith, TypeOK, Opened
  <2>4. Unused'
    BY <1>3 DEF OpenSem, OpenSemWith, TypeOK, Unused, Opened
  <2>5. Stuck'
    BY <1>3 DEF OpenSem, OpenSemWith, TypeOK, Stuck, Unused
  <2>6. Excludes'
    BY <1>3 DEF OpenSem, OpenSemWith, TypeOK, Excludes, Opened, Control, Unused
  <2>7. QED
    BY <2>1, <2>2, <2>3, <2>4, <2>5, <2>6
<1>4. ASSUME NEW r \in Runs, Fork(r) PROVE Inv'
  <2>1. TypeOK'
    BY <1>4 DEF Fork, TypeOK, Opened, Control
  <2>2. Control'
    BY <1>4 DEF Fork, TypeOK, Opened, Control
  <2>3. Opened'
    BY <1>4 DEF Fork, TypeOK, Opened
  <2>4. Unused'
    BY <1>4 DEF Fork, TypeOK, Unused
  <2>5. Stuck'
    BY <1>4 DEF Fork, TypeOK, Stuck
  <2>6. Excludes'
    BY <1>4 DEF Fork, TypeOK, Excludes, Opened, Control, Unused
  <2>7. QED
    BY <2>1, <2>2, <2>3, <2>4, <2>5, <2>6
<1>5. ASSUME NEW w \in Processes, SemWait(w) PROVE Inv'
  <2>1. TypeOK'
    BY <1>5 DEF SemWait, TypeOK, Opened, Control
  <2>2. Control'
    BY <1>5 DEF SemWait, TypeOK, Opened, Control
  <2>3. Opened'
    BY <1>5 DEF SemWait, TypeOK, Opened
  <2>4. Unused'
    BY <1>5 DEF SemWait, TypeOK, Unused
  <2>5. Stuck'
    BY <1>5 DEF SemWait, TypeOK, Stuck, Excludes, Opened
  <2>6. Excludes'
    BY <1>5 DEF SemWait, TypeOK, Excludes, Opened, Stuck
  <2>7. QED
    BY <2>1, <2>2, <2>3, <2>4, <2>5, <2>6
<1>6. ASSUME NEW w \in Processes, Load(w) PROVE Inv'
  <2>1. TypeOK'
    BY <1>6 DEF Load, TypeOK, Opened, Control
  <2>2. Control'
    BY <1>6 DEF Load, TypeOK, Opened, Control
  <2>3. Opened'
    BY <1>6 DEF Load, TypeOK, Opened
  <2>4. Unused'
    BY <1>6 DEF Load, TypeOK, Unused
  <2>5. Stuck'
    BY <1>6 DEF Load, TypeOK, Stuck
  <2>6. Excludes'
    BY <1>6 DEF Load, TypeOK, Excludes, Opened
  <2>7. QED
    BY <2>1, <2>2, <2>3, <2>4, <2>5, <2>6
<1>7. ASSUME NEW w \in Processes, Store(w) PROVE Inv'
  <2>1. TypeOK'
    BY <1>7 DEF Store, TypeOK, Opened, Control
  <2>2. Control'
    BY <1>7 DEF Store, TypeOK, Opened, Control
  <2>3. Opened'
    BY <1>7 DEF Store, TypeOK, Opened
  <2>4. Unused'
    BY <1>7 DEF Store, TypeOK, Unused
  <2>5. Stuck'
    BY <1>7 DEF Store, TypeOK, Stuck
  <2>6. Excludes'
    BY <1>7 DEF Store, TypeOK, Excludes, Opened
  <2>7. QED
    BY <2>1, <2>2, <2>3, <2>4, <2>5, <2>6
<1>8. ASSUME NEW w \in Processes, SemPost(w) PROVE Inv'
  <2>1. TypeOK'
    BY <1>8 DEF SemPost, AfterLoop, TypeOK, Opened, Control, Excludes
  <2>2. Control'
    BY <1>8 DEF SemPost, AfterLoop, TypeOK, Opened, Control
  <2>3. Opened'
    BY <1>8 DEF SemPost, AfterLoop, TypeOK, Opened
  <2>4. Unused'
    BY <1>8 DEF SemPost, AfterLoop, TypeOK, Unused
  <2>5. Stuck'
    BY <1>8 DEF SemPost, AfterLoop, TypeOK, Stuck, Excludes, Opened
  <2>6. Excludes'
    BY <1>8 DEF SemPost, AfterLoop, TypeOK, Excludes, Opened
  <2>7. QED
    BY <2>1, <2>2, <2>3, <2>4, <2>5, <2>6
<1>9. ASSUME NEW r \in Runs, Reap(r) PROVE Inv'
  <2>1. TypeOK'
    BY <1>9 DEF Reap, TypeOK, Opened, Control
  <2>2. Control'
    BY <1>9 DEF Reap, TypeOK, Opened, Control
  <2>3. Opened'
    BY <1>9 DEF Reap, TypeOK, Opened
  <2>4. Unused'
    BY <1>9 DEF Reap, TypeOK, Unused
  <2>5. Stuck'
    BY <1>9 DEF Reap, TypeOK, Stuck
  <2>6. Excludes'
    BY <1>9 DEF Reap, TypeOK, Excludes, Opened
  <2>7. QED
    BY <2>1, <2>2, <2>3, <2>4, <2>5, <2>6
<1>10. ASSUME NEW r \in Runs, PrintResult(r) PROVE Inv'
  <2>1. TypeOK'
    BY <1>10 DEF PrintResult, TypeOK, Opened, Control
  <2>2. Control'
    BY <1>10 DEF PrintResult, TypeOK, Opened, Control
  <2>3. Opened'
    BY <1>10 DEF PrintResult, TypeOK, Opened
  <2>4. Unused'
    BY <1>10 DEF PrintResult, TypeOK, Unused
  <2>5. Stuck'
    BY <1>10 DEF PrintResult, TypeOK, Stuck
  <2>6. Excludes'
    BY <1>10 DEF PrintResult, TypeOK, Excludes, Opened
  <2>7. QED
    BY <2>1, <2>2, <2>3, <2>4, <2>5, <2>6
<1>11. ASSUME NEW r \in Runs, UnlinkSem(r) PROVE Inv'
  <2>1. TypeOK'
    BY <1>11 DEF UnlinkSem, TypeOK, Opened, Control
  <2>2. Control'
    BY <1>11 DEF UnlinkSem, TypeOK, Opened, Control
  <2>3. Opened'
    BY <1>11 DEF UnlinkSem, TypeOK, Opened
  <2>4. Unused'
    BY <1>11 DEF UnlinkSem, TypeOK, Unused
  <2>5. Stuck'
    BY <1>11 DEF UnlinkSem, TypeOK, Stuck
  <2>6. Excludes'
    BY <1>11 DEF UnlinkSem, TypeOK, Excludes, Opened
  <2>7. QED
    BY <2>1, <2>2, <2>3, <2>4, <2>5, <2>6
<1>12. ASSUME NEW r \in Runs, UnlinkShm(r) PROVE Inv'
  <2>1. TypeOK'
    BY <1>12 DEF UnlinkShm, TypeOK, Opened, Control
  <2>2. Control'
    BY <1>12 DEF UnlinkShm, TypeOK, Opened, Control
  <2>3. Opened'
    BY <1>12 DEF UnlinkShm, TypeOK, Opened
  <2>4. Unused'
    BY <1>12 DEF UnlinkShm, TypeOK, Unused
  <2>5. Stuck'
    BY <1>12 DEF UnlinkShm, TypeOK, Stuck
  <2>6. Excludes'
    BY <1>12 DEF UnlinkShm, TypeOK, Excludes, Opened
  <2>7. QED
    BY <2>1, <2>2, <2>3, <2>4, <2>5, <2>6
<1>13. ASSUME NEW w \in Processes, Kill(w) PROVE Inv'
  <2>1. TypeOK'
    BY <1>13 DEF Kill, Ended, TypeOK, Opened, Control
  <2>2. Control'
    BY <1>13 DEF Kill, Ended, TypeOK, Opened, Control
  <2>3. Opened'
    BY <1>13 DEF Kill, Ended, TypeOK, Opened
  <2>4. Unused'
    BY <1>13 DEF Kill, Ended, TypeOK, Unused, Opened
  <2>5. Stuck'
    BY <1>13 DEF Kill, Ended, TypeOK, Stuck, Excludes, Opened
  <2>6. Excludes'
    BY <1>13 DEF Kill, Ended, TypeOK, Excludes, Opened
  <2>7. QED
    BY <2>1, <2>2, <2>3, <2>4, <2>5, <2>6
<1>14. ASSUME UNCHANGED vars PROVE Inv'
  BY <1>14 DEF TypeOK, Control, Opened, Unused, Stuck, Excludes
<1>15. QED
  BY <1>1, <1>2, <1>3, <1>4, <1>5, <1>6, <1>7, <1>8, <1>9, <1>10, <1>11, <1>12, <1>13, <1>14
     DEF Next, Parent, Count

(* It holds in every reachable state.                                      *)
LEMMA Invariant == Spec => []Inv
BY InitInv, StepInv, PTL DEF Spec

(* Type correctness: in particular the semaphore never exceeds 1, not even *)
(* when several runs post to it.                                           *)
THEOREM TypeCorrect == Spec => []TypeOK
<1>1. Inv => TypeOK
  BY DEF Inv
<1>2. QED
  BY Invariant, <1>1, PTL

-----------------------------------------------------------------------------
(* Only sem_wait, sem_post, sem_open and a kill disturb it.                *)
LEMMA StepBacked ==
  ASSUME Inv, Backed, [Next]_vars
  PROVE  Backed'
<1> USE ProcessFacts, ConstantsAssumption
    DEF Inv, Holds, GoTo, TypeOK
<1>1. ASSUME UNCHANGED <<sem_name, sem_of, sem, orphaned>>,
             \A w \in Processes : Holds(w) => Holds(w)'
      PROVE  Backed'
  BY <1>1 DEF Backed, InUse, Held
<1>2. ASSUME NEW r \in Runs, Open(r) \/ Zero(r) \/ Fork(r) \/ Reap(r)
                             \/ PrintResult(r) \/ UnlinkShm(r)
      PROVE  Backed'
  <2>1. UNCHANGED <<sem_name, sem_of, sem, orphaned>>
    BY <1>2 DEF Open, Zero, Fork, Reap, PrintResult, UnlinkShm
  <2>2. \A w \in Processes : Holds(w) => Holds(w)'
    BY <1>2 DEF Open, Zero, Fork, Reap, PrintResult, UnlinkShm, Control
  <2>3. QED
    BY <1>1, <2>1, <2>2
<1>3. ASSUME NEW w \in Processes, Load(w) \/ Store(w) PROVE Backed'
  <2>1. UNCHANGED <<sem_name, sem_of, sem, orphaned>>
    BY <1>3 DEF Load, Store
  <2>2. \A x \in Processes : Holds(x) => Holds(x)'
    BY <1>3 DEF Load, Store
  <2>3. QED
    BY <1>1, <2>1, <2>2
<1>4. ASSUME NEW r \in Runs, UnlinkSem(r) PROVE Backed'
  <2>1. UNCHANGED <<sem_of, sem, orphaned>> /\ sem_name' = None
    BY <1>4 DEF UnlinkSem
  <2>2. \A w \in Processes : Holds(w) => Holds(w)'
    BY <1>4 DEF UnlinkSem
  <2>3. QED
    BY <2>1, <2>2 DEF Backed, InUse, Held
<1>5. ASSUME NEW r \in Runs, OpenSem(r) PROVE Backed'
  <2>1. /\ pc[parent(r)] = "sem" /\ pc' = [pc EXCEPT ![parent(r)] = "fork"]
        /\ sem_name' = IF sem_name = None THEN r ELSE sem_name
        /\ sem_of' = [sem_of EXCEPT ![r] = sem_name']
        /\ sem' = IF sem_name = None THEN [sem EXCEPT ![r] = 1] ELSE sem
        /\ orphaned' = orphaned
    BY <1>5 DEF OpenSem, OpenSemWith
  <2>2. \A w \in Processes : Holds(w) => Holds(w)' /\ w[1] # r
    BY <2>1 DEF Control
  <2>3. \A o \in Runs : Held(o) => Held(o)'
    BY <2>1, <2>2 DEF Held
  <2>4. CASE sem_name = None
    BY <2>1, <2>3, <2>4 DEF Backed, InUse
  <2>5. CASE sem_name # None
    BY <2>1, <2>3, <2>5 DEF Backed, InUse
  <2>6. QED
    BY <2>4, <2>5
<1>6. ASSUME NEW w \in Processes, SemWait(w) PROVE Backed'
  <2>1. /\ pc' = [pc EXCEPT ![w] = "load"]
        /\ sem' = [sem EXCEPT ![sem_of[w[1]]] = @ - 1]
        /\ UNCHANGED <<sem_name, sem_of, orphaned>>
    BY <1>6 DEF SemWait
  <2>2. \A x \in Processes : Holds(x) => Holds(x)'
    BY <2>1
  <2>3. Held(sem_of[w[1]])'
    BY <2>1 DEF Held
  <2>4. QED
    BY <2>1, <2>2, <2>3 DEF Backed, InUse, Held
<1>7. ASSUME NEW w \in Processes, SemPost(w) PROVE Backed'
  <2> DEFINE o == sem_of[w[1]]
  <2>1. /\ pc[w] = "post" /\ \A x \in Processes : x # w => pc'[x] = pc[x]
        /\ sem' = [sem EXCEPT ![o] = @ + 1]
        /\ UNCHANGED <<sem_name, sem_of, orphaned>>
    BY <1>7 DEF SemPost
  <2>2. o \in Runs /\ sem[o] = 0
    BY <2>1 DEF Opened, Excludes
  <2>3. sem'[o] = 1
    BY <2>1, <2>2
  <2>4. \A p \in Runs : p # o => sem'[p] = sem[p] /\ (Held(p) => Held(p)')
    BY <2>1 DEF Held
  <2>5. QED
    BY <2>1, <2>3, <2>4 DEF Backed, InUse
<1>8. ASSUME NEW w \in Processes, Kill(w) PROVE Backed'
  <2>1. /\ \A x \in Processes : x # w => pc'[x] = pc[x]
        /\ orphaned' = IF Holds(w) THEN orphaned \cup {sem_of[w[1]]}
                       ELSE orphaned
        /\ UNCHANGED <<sem_name, sem_of, sem>>
    BY <1>8 DEF Kill
  <2>2. \A p \in Runs : Held(p) /\ p \notin orphaned' => Held(p)'
    BY <2>1 DEF Held
  <2>3. QED
    BY <2>1, <2>2 DEF Backed, InUse
<1>9. CASE UNCHANGED vars
  BY <1>1, <1>9
<1>10. QED
  BY <1>2, <1>3, <1>4, <1>5, <1>6, <1>7, <1>8, <1>9 DEF Next, Parent, Count

(* One process at a time increments the counter under a semaphore, however *)
(* many runs share it; one whose holder was killed admits nobody any more, *)
(* and every other one is free or in the hands of a process that lives.    *)
THEOREM SemaphoreExcludes == Spec => []Exclusion
<1>1. Init => Backed
  BY ConstantsAssumption DEF Init, Backed, InUse
<1>2. Inv /\ Backed /\ [Next]_vars => Backed'
  BY StepBacked
<1>3. Inv /\ Backed => Exclusion
  BY DEF Inv, TypeOK, Excludes, Backed, InUse, Held, Exclusion
<1>4. QED
  BY <1>1, <1>2, <1>3, Invariant, PTL DEF Spec

-----------------------------------------------------------------------------
(* The result                                                              *)

Active(r) == ~ Ended(parent(r)) \/ ~ Ended(child(r))

(* Runs that come one after the other are not alive together.              *)
OneRun == \A r, s \in Runs : Active(r) /\ Active(s) => r = s

Counts(r) ==
  /\ pc[parent(r)] \notin {"off", "zero", "done", "killed"}
  /\ pc[child(r)] # "killed"

(* How often a process has stored.                                         *)
Stored(w) == IF pc[w] = "post" THEN i[w] + 1 ELSE i[w]

(* The memory of a run holds what its two processes have stored, and who   *)
(* is about to store has read it.                                          *)
Counted ==
  \A r \in Runs : Counts(r) =>
    /\ brojac[shm_of[r]] = Stored(parent(r)) + Stored(child(r))
    /\ pc[parent(r)] = "store" => reg[parent(r)] = brojac[shm_of[r]]
    /\ pc[child(r)] = "store" => reg[child(r)] = brojac[shm_of[r]]

(* A process that has left the loop has done all its rounds; the parent    *)
(* prints after its child has ended.                                       *)
Order ==
  \A r \in Runs :
    /\ pc[parent(r)] \in {"reap", "print"} => i[parent(r)] = ITERACIJA
    /\ pc[child(r)] = "done" => i[child(r)] = ITERACIJA
    /\ pc[child(r)] \in {"off", "wait", "load", "store", "post", "done", "killed"}
    /\ pc[parent(r)] \in {"wait", "load", "store", "post", "reap", "print"} =>
         pc[child(r)] # "off"
    /\ pc[parent(r)] = "print" \/ printed[r] # None => Ended(child(r))
    /\ printed[r] # None => pc[parent(r)] \in {"unlink_sem", "unlink_shm",
                                                "done", "killed"}

Result == OneRun /\ Counted /\ Order /\ ExactResult

(* Every step keeps the count.                                             *)
LEMMA StepResult ==
  ASSUME ~ Overlap, Inv, Result, [Next]_vars
  PROVE  Result'
<1> USE ProcessFacts, ConstantsAssumption
    DEF Inv, Points, GoTo, Result, OneRun, Active, Ended, TypeOK
<1>1. ASSUME NEW r \in Runs, Open(r) PROVE Result'
  <2>1. OneRun'
    BY <1>1 DEF Open
  <2>2. Counted'
    BY <1>1 DEF Open, Counted, Counts, Stored, Order, Control, Opened
  <2>3. Order'
    BY <1>1 DEF Open, Order, Control
  <2>4. ExactResult'
    BY <1>1 DEF Open, ExactResult, Order
  <2>5. QED
    BY <2>1, <2>2, <2>3, <2>4
<1>2. ASSUME NEW r \in Runs, Zero(r) PROVE Result'
  <2>1. OneRun'
    BY <1>2 DEF Zero
  <2>2. Counted'
    BY <1>2 DEF Zero, Counted, Counts, Stored, Order, Control, Opened
  <2>3. Order'
    BY <1>2 DEF Zero, Order, Control
  <2>4. ExactResult'
    BY <1>2 DEF Zero, ExactResult, Order
  <2>5. QED
    BY <2>1, <2>2, <2>3, <2>4
<1>3. ASSUME NEW r \in Runs, OpenSem(r) PROVE Result'
  <2>1. OneRun'
    BY <1>3 DEF OpenSem, OpenSemWith
  <2>2. Counted'
    BY <1>3 DEF OpenSem, OpenSemWith, Counted, Counts, Stored, Order, Control, Opened
  <2>3. Order'
    BY <1>3 DEF OpenSem, OpenSemWith, Order, Control
  <2>4. ExactResult'
    BY <1>3 DEF OpenSem, OpenSemWith, ExactResult, Order
  <2>5. QED
    BY <2>1, <2>2, <2>3, <2>4
<1>4. ASSUME NEW r \in Runs, Fork(r) PROVE Result'
  <2>1. OneRun'
    BY <1>4 DEF Fork
  <2>2. Counted'
    BY <1>4 DEF Fork, Counted, Counts, Stored, Order, Control, Opened
  <2>3. Order'
    BY <1>4 DEF Fork, Order, Control
  <2>4. ExactResult'
    BY <1>4 DEF Fork, ExactResult, Order
  <2>5. QED
    BY <2>1, <2>2, <2>3, <2>4
<1>5. ASSUME NEW w \in Processes, SemWait(w) PROVE Result'
  <2>1. OneRun'
    BY <1>5 DEF SemWait
  <2>2. Counted'
    BY <1>5 DEF SemWait, Counted, Counts, Stored, Order, Control, Opened
  <2>3. Order'
    BY <1>5 DEF SemWait, Order, Control
  <2>4. ExactResult'
    BY <1>5 DEF SemWait, ExactResult, Order
  <2>5. QED
    BY <2>1, <2>2, <2>3, <2>4
<1>6. ASSUME NEW w \in Processes, Load(w) PROVE Result'
  <2>1. OneRun'
    BY <1>6 DEF Load
  <2>2. Counted'
    BY <1>6 DEF Load, Counted, Counts, Stored, Order, Control, Opened
  <2>3. Order'
    BY <1>6 DEF Load, Order, Control
  <2>4. ExactResult'
    BY <1>6 DEF Load, ExactResult, Order
  <2>5. QED
    BY <2>1, <2>2, <2>3, <2>4
<1>7. ASSUME NEW w \in Processes, Store(w) PROVE Result'
  <2>1. OneRun'
    BY <1>7 DEF Store
  <2>2. Counted'
    <3>1. PICK r \in Runs : w = parent(r) \/ w = child(r)
      BY ONLY ProcessFacts, w \in Processes
    <3>2. /\ pc[w] = "store" /\ w[1] = r
          /\ pc' = [pc EXCEPT ![w] = "post"]
          /\ reg' = [reg EXCEPT ![w] = None]
          /\ brojac' = [brojac EXCEPT ![shm_of[r]] = reg[w] + 1]
          /\ UNCHANGED <<i, shm_of>>
      BY <1>7, <3>1 DEF Store
    <3>3. shm_of[r] \in Runs /\ i[parent(r)] \in Nat /\ i[child(r)] \in Nat
      BY <3>1, <3>2 DEF Opened
    <3>4. ASSUME NEW s \in Runs, Counts(s)'
          PROVE  s = r /\ Counts(r)
      BY <3>1, <3>2, <3>4 DEF Counts
    <3>5. ASSUME Counts(r)
          PROVE  /\ brojac'[shm_of[r]] = Stored(parent(r))' + Stored(child(r))'
                 /\ pc'[parent(r)] # "store" /\ pc'[child(r)] # "store"
      <4>1. brojac'[shm_of[r]] = brojac[shm_of[r]] + 1
        BY <3>1, <3>2, <3>3, <3>5 DEF Counted
      <4>2. pc'[parent(r)] # "store" /\ pc'[child(r)] # "store"
        <5>1. \A x \in Processes : pc[x] = "store" /\ x[1] = r => x = w
          BY <3>2 DEF Excludes, Holds
        <5>2. \A x \in Processes : x[1] = r => pc'[x] # "store"
          BY <3>2, <5>1
        <5>3. QED
          BY <5>2
      <4>3. Stored(w)' = Stored(w) + 1
        BY <3>2 DEF Stored
      <4>4. \A x \in Processes : x # w => Stored(x)' = Stored(x)
        BY <3>2 DEF Stored
      <4>5. QED
        <5>1. brojac[shm_of[r]] = Stored(parent(r)) + Stored(child(r))
          BY <3>5 DEF Counted
        <5>2. Stored(parent(r)) \in Nat /\ Stored(child(r)) \in Nat
          BY <3>3 DEF Stored
        <5>3. CASE w = parent(r)
          BY <4>1, <4>2, <4>3, <4>4, <5>1, <5>2, <5>3
        <5>4. CASE w = child(r)
          BY <4>1, <4>2, <4>3, <4>4, <5>1, <5>2, <5>4
        <5>5. QED
          BY <3>1, <5>3, <5>4
    <3>6. QED
      BY <3>2, <3>4, <3>5 DEF Counted
  <2>3. Order'
    BY <1>7 DEF Store, Order, Control
  <2>4. ExactResult'
    BY <1>7 DEF Store, ExactResult, Order
  <2>5. QED
    BY <2>1, <2>2, <2>3, <2>4
<1>8. ASSUME NEW w \in Processes, SemPost(w) PROVE Result'
  <2>1. OneRun'
    BY <1>8 DEF SemPost, AfterLoop
  <2>2. Counted'
    BY <1>8 DEF SemPost, AfterLoop, Counted, Counts, Stored, Order, Control, Opened
  <2>3. Order'
    <3>1. PICK r \in Runs : w = parent(r) \/ w = child(r)
      BY ONLY ProcessFacts, w \in Processes
    <3>2. i' = [i EXCEPT ![w] = i[w] + 1] /\ printed' = printed
      BY <1>8 DEF SemPost
    <3>3. \/ i[w] + 1 < ITERACIJA /\ pc' = [pc EXCEPT ![w] = "wait"]
          \/ i[w] + 1 = ITERACIJA /\ pc' = [pc EXCEPT ![w] = AfterLoop(w)]
      <4>1. i[w] \in Nat /\ i[w] < ITERACIJA
        BY <1>8 DEF SemPost, Control
      <4>2. i[w] + 1 < ITERACIJA \/ i[w] + 1 = ITERACIJA
        BY <4>1
      <4>3. QED
        BY <1>8, <4>2 DEF SemPost
    <3>4. pc[w] = "post"
      BY <1>8 DEF SemPost
    <3>5. CASE w = parent(r)
      <4>1. AfterLoop(w) = "reap"
        BY <3>5 DEF AfterLoop
      <4>2. QED
        BY <3>2, <3>3, <3>4, <3>5, <4>1 DEF Order
    <3>6. CASE w = child(r)
      <4>1. AfterLoop(w) = "done"
        BY <3>6 DEF AfterLoop
      <4>2. QED
        BY <3>2, <3>3, <3>4, <3>6, <4>1 DEF Order
    <3>7. QED
      BY <3>1, <3>5, <3>6
  <2>4. ExactResult'
    BY <1>8 DEF SemPost, AfterLoop, ExactResult, Order
  <2>5. QED
    BY <2>1, <2>2, <2>3, <2>4
<1>9. ASSUME NEW r \in Runs, Reap(r) PROVE Result'
  <2>1. OneRun'
    BY <1>9 DEF Reap
  <2>2. Counted'
    BY <1>9 DEF Reap, Counted, Counts, Stored, Order, Control, Opened
  <2>3. Order'
    BY <1>9 DEF Reap, Order, Control
  <2>4. ExactResult'
    BY <1>9 DEF Reap, ExactResult, Order
  <2>5. QED
    BY <2>1, <2>2, <2>3, <2>4
<1>10. ASSUME NEW r \in Runs, PrintResult(r) PROVE Result'
  <2>1. OneRun'
    BY <1>10 DEF PrintResult
  <2>2. Counted'
    BY <1>10 DEF PrintResult, Counted, Counts, Stored, Order, Control, Opened
  <2>3. Order'
    BY <1>10 DEF PrintResult, Order, Control
  <2>4. ExactResult'
    BY <1>10, SMTT(30)
       DEF PrintResult, ExactResult, Order, Counted, Counts, Stored
  <2>5. QED
    BY <2>1, <2>2, <2>3, <2>4
<1>11. ASSUME NEW r \in Runs, UnlinkSem(r) PROVE Result'
  <2>1. OneRun'
    BY <1>11 DEF UnlinkSem
  <2>2. Counted'
    BY <1>11 DEF UnlinkSem, Counted, Counts, Stored, Order, Control, Opened
  <2>3. Order'
    BY <1>11 DEF UnlinkSem, Order, Control
  <2>4. ExactResult'
    BY <1>11 DEF UnlinkSem, ExactResult, Order
  <2>5. QED
    BY <2>1, <2>2, <2>3, <2>4
<1>12. ASSUME NEW r \in Runs, UnlinkShm(r) PROVE Result'
  <2>1. OneRun'
    BY <1>12 DEF UnlinkShm
  <2>2. Counted'
    BY <1>12 DEF UnlinkShm, Counted, Counts, Stored, Order, Control, Opened
  <2>3. Order'
    BY <1>12 DEF UnlinkShm, Order, Control
  <2>4. ExactResult'
    BY <1>12 DEF UnlinkShm, ExactResult, Order
  <2>5. QED
    BY <2>1, <2>2, <2>3, <2>4
<1>13. ASSUME NEW w \in Processes, Kill(w) PROVE Result'
  <2>1. OneRun'
    BY <1>13 DEF Kill
  <2>2. Counted'
    BY <1>13 DEF Kill, Counted, Counts, Stored, Order, Control, Opened
  <2>3. Order'
    BY <1>13 DEF Kill, Order, Control
  <2>4. ExactResult'
    BY <1>13 DEF Kill, ExactResult, Order
  <2>5. QED
    BY <2>1, <2>2, <2>3, <2>4
<1>14. ASSUME UNCHANGED vars PROVE Result'
  BY <1>14 DEF Counted, Counts, Stored, Order, ExactResult
<1>15. QED
  BY <1>1, <1>2, <1>3, <1>4, <1>5, <1>6, <1>7, <1>8, <1>9, <1>10, <1>11, <1>12, <1>13, <1>14
     DEF Next, Parent, Count

(* When runs do not overlap, a run whose child was not killed prints       *)
(* exactly 2 * ITERACIJA, whatever the interleaving and whatever earlier   *)
(* runs, killed anywhere, have left behind.                                *)
THEOREM ResultIsExact ==
  ASSUME ~ Overlap
  PROVE  Spec => []ExactResult
<1>1. Init => Result
  BY ProcessFacts
     DEF Init, Result, OneRun, Active, Ended, Counted, Counts, Order, ExactResult
<1>2. Inv /\ Result /\ [Next]_vars => Result'
  BY StepResult
<1>3. Result => ExactResult
  BY DEF Result
<1>4. QED
  BY <1>1, <1>2, <1>3, Invariant, PTL DEF Spec
=============================================================================
