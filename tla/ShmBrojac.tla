----------------------------- MODULE ShmBrojac -----------------------------
(***************************************************************************)
(* shm_brojac_sem.c: a parent and a child count in shared memory under a   *)
(* named semaphore.  The shared memory and the semaphore outlive the       *)
(* processes, so the model follows several runs of the program, one after  *)
(* the other or at the same time, and processes killed at any point.       *)
(*                                                                         *)
(* A process is <<run, role>>.  Objects of the kernel are named after the  *)
(* run that created them: brojac[o] and sem[o].  shm_name and sem_name say *)
(* which object the names /moj_brojac and /moj_sem refer to at the moment. *)
(* pc: "off", "zero", "sem", "fork", "wait", "load", "store", "post",      *)
(* "reap", "print", "unlink_sem", "unlink_shm", "done", "killed".          *)
(***************************************************************************)
EXTENDS Integers

CONSTANTS
  Runs,       (* executions of the program                                 *)
  ITERACIJA,
  Overlap,    (* may a run start while another one is alive                *)
  MaxKills,   (* bound: processes killed from outside                      *)
  None        (* no object, nothing printed, nothing read                  *)

ASSUME ConstantsAssumption ==
  /\ ITERACIJA \in Nat \ {0}
  /\ Overlap \in BOOLEAN
  /\ MaxKills \in Nat
  /\ None \notin Runs /\ None \notin Int

VARIABLES
  pc, i,
  reg,        (* the value of *brojac a process has read and not written   *)
  shm_name, sem_name,
  shm_of, sem_of,    (* the objects a run has open                         *)
  brojac, sem,
  printed,    (* what the parent of a run prints                           *)
  orphaned,   (* semaphores whose holder was killed                        *)
  kills

process == <<pc, i, reg>>
names == <<shm_name, sem_name, shm_of, sem_of>>
history == <<printed, orphaned, kills>>
vars == <<process, names, brojac, sem, history>>

Processes == Runs \X {"parent", "child"}
parent(r) == <<r, "parent">>
child(r) == <<r, "child">>

Ended(w) == pc[w] \in {"off", "done", "killed"}
Holds(w) == pc[w] \in {"load", "store", "post"}

Init ==
  /\ pc = [w \in Processes |-> "off"]
  /\ i = [w \in Processes |-> 0]
  /\ reg = [w \in Processes |-> None]
  /\ shm_name = None
  /\ sem_name = None
  /\ shm_of = [r \in Runs |-> None]
  /\ sem_of = [r \in Runs |-> None]
  /\ brojac = [r \in Runs |-> 0]
  /\ sem = [r \in Runs |-> 0]
  /\ printed = [r \in Runs |-> None]
  /\ orphaned = {}
  /\ kills = 0

GoTo(w, from, to) == pc[w] = from /\ pc' = [pc EXCEPT ![w] = to]

(* shm_open, ftruncate and mmap: the object behind the name, or a new one. *)
Open(r) ==
  /\ GoTo(parent(r), "off", "zero")
  /\ Overlap \/ \A w \in Processes : Ended(w)
  /\ shm_name' = IF shm_name = None THEN r ELSE shm_name
  /\ shm_of' = [shm_of EXCEPT ![r] = shm_name']
  /\ UNCHANGED <<i, reg, sem_name, sem_of, brojac, sem, history>>

Zero(r) ==
  /\ GoTo(parent(r), "zero", "sem")
  /\ brojac' = [brojac EXCEPT ![shm_of[r]] = 0]
  /\ UNCHANGED <<i, reg, names, sem, history>>

(* sem_open(SEM_NAME, O_CREAT, 0666, 1): the value 1 is for a new          *)
(* semaphore only.  The mutated form passes the value 2.                   *)
OpenSemWith(r, value) ==
  /\ GoTo(parent(r), "sem", "fork")
  /\ sem_name' = IF sem_name = None THEN r ELSE sem_name
  /\ sem_of' = [sem_of EXCEPT ![r] = sem_name']
  /\ sem' = IF sem_name = None THEN [sem EXCEPT ![r] = value] ELSE sem
  /\ UNCHANGED <<i, reg, shm_name, shm_of, brojac, history>>

OpenSemTwo(r) == OpenSemWith(r, 2)

OpenSem(r) == OpenSemWith(r, 1)

Fork(r) ==
  /\ pc[parent(r)] = "fork"
  /\ pc' = [pc EXCEPT ![parent(r)] = "wait", ![child(r)] = "wait"]
  /\ UNCHANGED <<i, reg, names, brojac, sem, history>>

(* Mutated form: sem_trywait whose result nobody looks at.                 *)
SemTry(w) ==
  /\ GoTo(w, "wait", "load")
  /\ LET o == sem_of[w[1]]
     IN  sem' = [sem EXCEPT ![o] = IF @ > 0 THEN @ - 1 ELSE 0]
  /\ UNCHANGED <<i, reg, names, brojac, history>>

SemWait(w) ==
  /\ GoTo(w, "wait", "load")
  /\ sem[sem_of[w[1]]] > 0
  /\ sem' = [sem EXCEPT ![sem_of[w[1]]] = @ - 1]
  /\ UNCHANGED <<i, reg, names, brojac, history>>

(* The increment reads the memory and writes it in two steps.              *)
Load(w) ==
  /\ GoTo(w, "load", "store")
  /\ reg' = [reg EXCEPT ![w] = brojac[shm_of[w[1]]]]
  /\ UNCHANGED <<i, names, brojac, sem, history>>

Store(w) ==
  /\ GoTo(w, "store", "post")
  /\ brojac' = [brojac EXCEPT ![shm_of[w[1]]] = reg[w] + 1]
  /\ reg' = [reg EXCEPT ![w] = None]
  /\ UNCHANGED <<i, names, sem, history>>

AfterLoop(w) == IF w[2] = "parent" THEN "reap" ELSE "done"

(* Mutated form: the last round leaves the loop without sem_post.          *)
SemPostButLast(w) ==
  /\ GoTo(w, "post", IF i[w] + 1 < ITERACIJA THEN "wait" ELSE AfterLoop(w))
  /\ i' = [i EXCEPT ![w] = @ + 1]
  /\ sem' = [sem EXCEPT ![sem_of[w[1]]] =
               IF i[w] + 1 < ITERACIJA THEN @ + 1 ELSE @]
  /\ UNCHANGED <<reg, names, brojac, history>>

SemPost(w) ==
  /\ GoTo(w, "post", IF i[w] + 1 < ITERACIJA THEN "wait" ELSE AfterLoop(w))
  /\ i' = [i EXCEPT ![w] = @ + 1]
  /\ sem' = [sem EXCEPT ![sem_of[w[1]]] = @ + 1]
  /\ UNCHANGED <<reg, names, brojac, history>>

(* Mutated form: no wait(NULL) before the result is printed.               *)
ReapNobody(r) ==
  /\ GoTo(parent(r), "reap", "print")
  /\ UNCHANGED <<i, reg, names, brojac, sem, history>>

Reap(r) ==
  /\ GoTo(parent(r), "reap", "print")
  /\ Ended(child(r))
  /\ UNCHANGED <<i, reg, names, brojac, sem, history>>

PrintResult(r) ==
  /\ GoTo(parent(r), "print", "unlink_sem")
  /\ printed' = [printed EXCEPT ![r] = brojac[shm_of[r]]]
  /\ UNCHANGED <<i, reg, names, brojac, sem, orphaned, kills>>

(* The names go, whichever object they refer to; open objects stay usable. *)
UnlinkSem(r) ==
  /\ GoTo(parent(r), "unlink_sem", "unlink_shm")
  /\ sem_name' = None
  /\ UNCHANGED <<i, reg, shm_name, shm_of, sem_of, brojac, sem, history>>

UnlinkShm(r) ==
  /\ GoTo(parent(r), "unlink_shm", "done")
  /\ shm_name' = None
  /\ UNCHANGED <<i, reg, sem_name, shm_of, sem_of, brojac, sem, history>>

(* A signal ends a process wherever it is; the kernel closes what it had   *)
(* open and gives back neither the semaphore nor the names.                *)
Kill(w) ==
  /\ ~ Ended(w)
  /\ kills < MaxKills
  /\ kills' = kills + 1
  /\ pc' = [pc EXCEPT ![w] = "killed"]
  /\ orphaned' = IF Holds(w) THEN orphaned \cup {sem_of[w[1]]} ELSE orphaned
  /\ UNCHANGED <<i, reg, names, brojac, sem, printed>>

Count(w) == SemWait(w) \/ Load(w) \/ Store(w) \/ SemPost(w)

Parent(r) ==
  \/ Zero(r) \/ OpenSem(r) \/ Fork(r) \/ Count(parent(r))
  \/ Reap(r) \/ PrintResult(r) \/ UnlinkSem(r) \/ UnlinkShm(r)

Next ==
  \/ \E r \in Runs : Open(r) \/ Parent(r) \/ Count(child(r))
  \/ \E w \in Processes : Kill(w)

(* Fairness: the kernel runs every process that can run.  Nothing is       *)
(* assumed of the order in which sem_wait is served (every process has     *)
(* finitely many rounds), and nobody has to start or kill a run.           *)
Fairness ==
  \A r \in Runs : WF_vars(Parent(r)) /\ WF_vars(Count(child(r)))

Spec == Init /\ [][Next]_vars /\ Fairness

-----------------------------------------------------------------------------
(* Properties                                                              *)

Points == {"off", "zero", "sem", "fork", "wait", "load", "store", "post",
           "reap", "print", "unlink_sem", "unlink_shm", "done", "killed"}

(* Every variable has its type; the semaphore is binary.                   *)
TypeOK ==
  /\ pc \in [Processes -> Points]
  /\ i \in [Processes -> 0 .. ITERACIJA]
  /\ reg \in [Processes -> Nat \cup {None}]
  /\ shm_name \in Runs \cup {None} /\ sem_name \in Runs \cup {None}
  /\ shm_of \in [Runs -> Runs \cup {None}]
  /\ sem_of \in [Runs -> Runs \cup {None}]
  /\ brojac \in [Runs -> Nat]
  /\ sem \in [Runs -> 0 .. 1]
  /\ printed \in [Runs -> Nat \cup {None}]
  /\ orphaned \subseteq Runs
  /\ kills \in Nat

(* One process at a time is between sem_wait and sem_post of a semaphore,  *)
(* and none when its value is 1 or when a killed process has taken it      *)
(* along: also when several runs share the semaphore through its name.     *)
(* The other way round, a semaphore at 0 is on its way back: somebody      *)
(* alive holds it and will post it, unless a killed process took it along. *)
Exclusion ==
  /\ \A w, x \in Processes :
       Holds(w) => /\ sem[sem_of[w[1]]] = 0
                   /\ sem_of[w[1]] \notin orphaned
                   /\ Holds(x) /\ sem_of[x[1]] = sem_of[w[1]] => x = w
  /\ \A r \in Runs : sem_of[r] # None /\ sem_of[r] \notin orphaned =>
       \/ sem[sem_of[r]] = 1
       \/ \E w \in Processes : Holds(w) /\ sem_of[w[1]] = sem_of[r]

(* A run whose processes were not killed prints exactly 2 * ITERACIJA: the *)
(* claim of the chapter, "whatever the interleaving".                      *)
ExactResult ==
  \A r \in Runs :
    printed[r] # None /\ pc[child(r)] # "killed" => printed[r] = 2 * ITERACIJA

(* A run comes to its end, unless a process was killed between sem_wait    *)
(* and sem_post: the name then keeps a semaphore of value 0 that the next  *)
(* run opens again and waits on for ever.                                  *)
EndsUnlessOrphaned ==
  \A r \in Runs :
    (pc[parent(r)] = "zero") ~> (Ended(parent(r)) \/ sem_of[r] \in orphaned)
=============================================================================
