---------------------------- MODULE JezgraProofs ----------------------------
(***************************************************************************)
(* Theorems about Jezgra for every set of scenes, every number of          *)
(* processes and every size of a pipe or a queue.                          *)
(*                                                                         *)
(* TypeCorrect rests on IInv: the scene and its bounds (SceneOK), what     *)
(* every object, name and process is made of (ObjectsOK, NamesOK,          *)
(* ProcessesOK), and who is whose parent (FamilyOK), as a zombie has a     *)
(* parent only because a process that ends takes its place in the family   *)
(* with it.  HandlersFindZombies adds ChildrenOK, InterruptsAnswered adds  *)
(* InterruptsOK; all three are inductive only together with IInv.          *)
(***************************************************************************)
EXTENDS Jezgra, SequenceTheorems, FiniteSetTheorems, WellFoundedInduction,
        TLAPS

-----------------------------------------------------------------------------
(* Sequences, of whatever elements.                                        *)

(* A sequence is one over the set of its elements.                         *)
LEMMA AnySeq ==
  \A S : \A s \in Seq(S) : IsSeq(s) /\ Len(s) \in Nat /\ DOMAIN s = 1 .. Len(s)
  BY SeqOfRange DEF IsSeq

(* Its length is a number.                                                 *)
LEMMA LenOfSeq ==
  \A s : IsSeq(s) => Len(s) \in Nat /\ DOMAIN s = 1 .. Len(s)
  BY AnySeq DEF IsSeq

(* Two sequences are sequences over one set.                               *)
LEMMA CommonSet ==
  \A s, t : IsSeq(s) /\ IsSeq(t) =>
    s \in Seq(Range(s) \cup Range(t)) /\ t \in Seq(Range(s) \cup Range(t))
  BY SeqMonotonic DEF IsSeq

(* Joining two sequences gives one.                                        *)
LEMMA Joined ==
  \A s, t : IsSeq(s) /\ IsSeq(t) =>
    IsSeq(s \o t) /\ Len(s \o t) = Len(s) + Len(t)
  <1>1. SUFFICES ASSUME NEW s, NEW t, IsSeq(s), IsSeq(t)
                 PROVE  IsSeq(s \o t) /\ Len(s \o t) = Len(s) + Len(t)
    OBVIOUS
  <1> DEFINE S == Range(s) \cup Range(t)
  <1>2. s \in Seq(S) /\ t \in Seq(S)
    BY <1>1, CommonSet
  <1> HIDE DEF S
  <1>3. s \o t \in Seq(S) /\ Len(s \o t) = Len(s) + Len(t)
    BY <1>2, ConcatProperties
  <1>4. QED
    BY <1>3, AnySeq

(* The short sequences.                                                    *)
LEMMA Short ==
  /\ IsSeq(<<>>) /\ Len(<<>>) = 0
  /\ \A x : IsSeq(<<x>>) /\ Len(<<x>>) = 1
  /\ \A x, y : IsSeq(<<x, y>>) /\ Len(<<x, y>>) = 2
  <1>1. <<>> \in Seq({}) /\ Len(<<>>) = 0
    OBVIOUS
  <1>2. \A x : <<x>> \in Seq({x}) /\ Len(<<x>>) = 1
    OBVIOUS
  <1>3. \A x, y : <<x, y>> \in Seq({x, y}) /\ Len(<<x, y>>) = 2
    OBVIOUS
  <1>4. QED
    BY <1>1, <1>2, <1>3, AnySeq

(* A part of a sequence is one.                                            *)
LEMMA PartOfSeq ==
  \A s : \A i, j \in Int : IsSeq(s) /\ 1 <= i /\ j <= Len(s) =>
    /\ IsSeq(SubSeq(s, i, j))
    /\ Len(SubSeq(s, i, j)) = IF i <= j THEN j - i + 1 ELSE 0
  <1>1. SUFFICES ASSUME NEW s, NEW i \in Int, NEW j \in Int, IsSeq(s), 1 <= i,
          j <= Len(s)
                 PROVE  /\ IsSeq(SubSeq(s, i, j))
                        /\ Len(SubSeq(s, i, j)) = IF i <= j THEN j - i + 1
                             ELSE 0
    OBVIOUS
  <1> DEFINE S == Range(s)
  <1>2. s \in Seq(S)
    BY <1>1 DEF IsSeq
  <1> HIDE DEF S
  <1>3. /\ SubSeq(s, i, j) \in Seq(S)
        /\ Len(SubSeq(s, i, j)) = IF i <= j THEN j - i + 1 ELSE 0
    BY <1>1, <1>2
  <1>4. QED
    BY <1>3, AnySeq

(* So is the rest after the first element.                                 *)
LEMMA RestOfSeq ==
  \A s : IsSeq(s) /\ s # <<>> => IsSeq(Tail(s)) /\ Len(Tail(s)) = Len(s) - 1
  <1>1. SUFFICES ASSUME NEW s, IsSeq(s), s # <<>>
                 PROVE  IsSeq(Tail(s)) /\ Len(Tail(s)) = Len(s) - 1
    OBVIOUS
  <1>2. Tail(s) \in Seq(Range(s)) /\ Len(Tail(s)) = Len(s) - 1
    BY <1>1, HeadTailProperties DEF IsSeq
  <1>3. QED
    BY <1>2, AnySeq

(* So is one with a changed element, or with other elements altogether.    *)
LEMMA ChangedSeq ==
  /\ \A s, i, x : IsSeq(s) =>
       IsSeq([s EXCEPT ![i] = x]) /\ Len([s EXCEPT ![i] = x]) = Len(s)
  /\ \A s, x : IsSeq(s) =>
       IsSeq([i \in DOMAIN s |-> x]) /\ Len([i \in DOMAIN s |-> x]) = Len(s)
  /\ \A n \in Nat : \A x :
       IsSeq([i \in 1..n |-> x]) /\ Len([i \in 1..n |-> x]) = n
  <1>1. ASSUME NEW s, NEW i, NEW x, IsSeq(s)
        PROVE  IsSeq([s EXCEPT ![i] = x]) /\ Len([s EXCEPT ![i] = x]) = Len(s)
    <2>1. s \in Seq(Range(s) \cup {x})
      BY <1>1, SeqMonotonic DEF IsSeq
    <2>2. /\ [s EXCEPT ![i] = x] \in Seq(Range(s) \cup {x})
          /\ Len([s EXCEPT ![i] = x]) = Len(s)
      <3>1. CASE i \in 1 .. Len(s)
        BY <2>1, <3>1, ExceptSeq
      <3>2. CASE i \notin 1 .. Len(s)
        <4>1. [s EXCEPT ![i] = x] = s
          <5>1. s \in [1 .. Len(s) -> Range(s)]
            BY <1>1, LenProperties DEF IsSeq
          <5>2. QED
            BY <5>1, <3>2
        <4>2. QED
          BY <4>1, <2>1
      <3>3. QED
        BY <3>1, <3>2
    <2>3. QED
      BY <2>2, AnySeq
  <1>2. ASSUME NEW n \in Nat, NEW x
        PROVE  IsSeq([i \in 1..n |-> x]) /\ Len([i \in 1..n |-> x]) = n
    <2>1. [i \in 1..n |-> x] \in Seq({x}) /\ Len([i \in 1..n |-> x]) = n
      OBVIOUS
    <2>2. QED
      BY <2>1, AnySeq
  <1>3. ASSUME NEW s, NEW x, IsSeq(s)
        PROVE  IsSeq([i \in DOMAIN s |-> x])
               /\ Len([i \in DOMAIN s |-> x]) = Len(s)
    <2>1. Len(s) \in Nat /\ DOMAIN s = 1 .. Len(s)
      BY <1>3, LenOfSeq
    <2>2. QED
      BY <2>1, <1>2
  <1>4. QED
    BY <1>1, <1>2, <1>3, Zenon

(* A set of natural numbers that is not empty has a least one.             *)
LEMMA LeastNumber ==
  \A S : S \subseteq Nat /\ S # {} => Min(S) \in S /\ \A y \in S : Min(S) <= y
  <1>1. SUFFICES ASSUME NEW S, S \subseteq Nat, S # {}
                 PROVE  \E x \in S : \A y \in S : x <= y
    BY DEF Min
  <1> DEFINE R == {ss \in Nat \X Nat : ss[1] < ss[2]}
  <1>2. IsWellFoundedOn(R, Nat)
    BY NatLessThanWellFounded DEF OpToRel
  <1> HIDE DEF R
  <1>3. \A T : T \subseteq Nat /\ T # {} =>
          \E x \in T : \A y \in T : ~ (<<y, x>> \in R)
    BY <1>2, WFMin, Zenon
  <1>4. PICK x \in S : \A y \in S : ~ (<<y, x>> \in R)
    BY <1>1, <1>3
  <1>5. ASSUME NEW y \in S
        PROVE  x <= y
    <2>1. x \in Nat /\ y \in Nat /\ <<y, x>> \notin R
      BY <1>1, <1>4
    <2>2. ~ (y < x)
      BY <2>1 DEF R
    <2>3. QED
      BY <2>1, <2>2
  <1>6. QED
    BY <1>5

-----------------------------------------------------------------------------
(* The inductive invariant.                                                *)

(* A call left to make is one of the scene's, the rest of an open that     *)
(* waits for the other side, or the end of a handler.                      *)
Steps(s) == Scenes[s].calls \cup ({"meet"} \X Nat \X {"r", "w"} \X Nat)
                            \cup ({"sigreturn"} \X {"INT", "CHLD"})

Fields == {"state", "how", "code", "fd", "reg", "buf", "got", "parent", "s",
           "handler", "masked", "pending", "main", "result", "cancelled"}

(* What holds of a process by itself, when the kernel has n objects.       *)
ProcessOK(r, s, n) ==
  /\ DOMAIN r = Fields
  /\ r.state \in {"none", "runs", "zombie", "gone"}
  /\ r.state # "runs" => r.code = <<>>
  /\ r.code \in Seq(Steps(s))
  /\ DOMAIN r.fd = 0..MaxFd
  /\ \A d \in 0..MaxFd : r.fd[d] # Closed => r.fd[d] \in (1..n) \X {"r", "w"}
  /\ IsSeq(r.buf) /\ IsSeq(r.got)
  /\ r.pending \subseteq {"INT", "CHLD"}
  /\ r.handler \in [{"INT", "CHLD"} -> Seq(Steps(s))]
  /\ r.main \in Pids \cup {0}

ProcessesOK ==
  /\ DOMAIN proc = Pids
  /\ \A p \in Pids : ProcessOK(proc[p], scene, Len(obj))

(* The programs of a scene fork, or make threads, never both; a process    *)
(* that has not been waited for has another one for a parent, which runs,  *)
(* or none.                                                                *)
Forking(s) == \E c \in Scenes[s].calls : c[1] = "fork"
Threaded(s) ==
  \E c \in Scenes[s].calls : c[1] \in {"create", "pthread_exit", "loop"}

FamilyOK ==
  /\ Forking(scene) \/ \A p \in Pids : proc[p].parent = 0
  /\ Threaded(scene) \/ \A p \in Pids : proc[p].main = 0
  /\ \A p \in Pids : proc[p].state \in {"runs", "zombie"} =>
       \/ proc[p].parent = 0 /\ proc[p].state = "runs"
       \/ /\ proc[p].parent \in Pids \ {p}
          /\ proc[proc[p].parent].state = "runs"

ObjectOK(o) ==
  /\ DOMAIN o = {"kind", "data", "put", "opened"}
  /\ o.kind \in Kinds
  /\ IsSeq(o.data)
  /\ o.kind \in Streaming => Len(o.data) <= PipeSize
  /\ o.opened \in [{"r", "w"} -> Nat]

ObjectsOK == IsSeq(obj) /\ \A i \in DOMAIN obj : ObjectOK(obj[i])

NamesOK == names \in [Names -> 0..Len(obj)]

SceneOK ==
  scene \in DOMAIN Scenes /\ closed \subseteq 0..2 /\ trouble \in 0..MaxTrouble

IInv == SceneOK /\ ObjectsOK /\ NamesOK /\ ProcessesOK /\ FamilyOK

(* The operands of a call that is left to make.                            *)
LEMMA Operands ==
  ASSUME NEW s \in DOMAIN Scenes, NEW c \in Steps(s)
  PROVE  /\ c[1] \in {"while", "read"} => c[3] \in Nat
              /\ c[4] \in Seq(Steps(s))
         /\ c[1] = "fork" => /\ c[2] \in Seq(Steps(s))
                             /\ c[3] \in Seq(Steps(s))
                             /\ c[4] \in Seq(Steps(s))
                             /\ Forking(s)
         /\ c[1] = "exec" => c[2] \in Seq(Steps(s))
         /\ c[1] = "create" => c[3] \in Seq(Steps(s))
         /\ c[1] \in {"create", "pthread_exit", "loop"} => Threaded(s)
         /\ c[1] = "sigaction" => c[2] \in {"INT", "CHLD"}
                                  /\ c[3] \in Seq(Steps(s))
         /\ c[1] \in {"open", "openFifo"} => c[3] \in Names
                                             /\ c[4] \in {"r", "w"}
         /\ c[1] = "get" => c[3] \in Names
         /\ c[1] = "mkfifo" => c[2] \in Names
         /\ c[1] = "alloc" => c[3] \in Nat
         /\ c[1] = "sigreturn" => c[2] \in {"INT", "CHLD"}
         /\ ~ (Forking(s) /\ Threaded(s))
  <1> DEFINE calls == Scenes[s].calls
  <1>1. Wellmade(calls)
    BY ScenesAssumption
  <1>2. \A code \in Seq(calls) : code \in Seq(Steps(s))
    BY SeqMonotonic DEF Steps
  <1>3. ~ (Forking(s) /\ Threaded(s))
    BY <1>1 DEF Wellmade, Forking, Threaded
  <1>4. CASE c \in calls
    BY <1>1, <1>2, <1>3, <1>4 DEF Wellmade, Parts, Forking, Threaded
  <1>5. CASE c \in {"meet"} \X Nat \X {"r", "w"} \X Nat
    <2>1. c[1] = "meet"
      BY <1>5
    <2>2. QED
      BY <2>1, <1>3
  <1>6. CASE c \in {"sigreturn"} \X {"INT", "CHLD"}
    <2>1. c[1] = "sigreturn" /\ c[2] \in {"INT", "CHLD"}
      BY <1>6
    <2>2. QED
      BY <2>1, <1>3
  <1>7. QED
    BY <1>4, <1>5, <1>6 DEF Steps

(* A process that makes a call has it as the first one of its code.        *)
LEMMA FirstCall ==
  ASSUME IInv, NEW p \in Pids, Acts(p), proc[p].code # <<>>
  PROVE  /\ Head(proc[p].code) \in Steps(scene)
         /\ Tail(proc[p].code) \in Seq(Steps(scene))
         /\ scene \in DOMAIN Scenes
         /\ Runs(p) /\ ProcessOK(proc[p], scene, Len(obj))
  <1>1. ProcessOK(proc[p], scene, Len(obj)) /\ scene \in DOMAIN Scenes
          /\ Runs(p)
    BY DEF IInv, ProcessesOK, SceneOK, Acts
  <1>2. proc[p].code \in Seq(Steps(scene))
    BY <1>1 DEF ProcessOK
  <1>3. QED
    BY <1>1, <1>2

(* The rest of the code, with some before it, is that of a process that is *)
(* in order, and so is any change of what no other process looks at.       *)
LEMMA RestOK ==
  ASSUME IInv, NEW p \in Pids, Acts(p), proc[p].code # <<>>,
         NEW body \in Seq(Steps(scene))
  PROVE  /\ ProcessOK(Rest(p, body), scene, Len(obj))
         /\ Rest(p, body).state = "runs"
         /\ Rest(p, body).parent = proc[p].parent
         /\ Rest(p, body).main = proc[p].main
         /\ Rest(p, body).fd = proc[p].fd
         /\ Rest(p, body).masked = proc[p].masked
         /\ Rest(p, body).pending = proc[p].pending
         /\ Rest(p, body).got = proc[p].got
         /\ Rest(p, body).reg = proc[p].reg
         /\ Rest(p, body).handler = proc[p].handler
  <1>1. /\ Tail(proc[p].code) \in Seq(Steps(scene))
        /\ Runs(p) /\ ProcessOK(proc[p], scene, Len(obj))
    BY FirstCall
  <1>2. body \o Tail(proc[p].code) \in Seq(Steps(scene))
    BY <1>1, ConcatProperties
  <1>3. QED
    BY <1>1, <1>2 DEF Rest, ProcessOK, Fields, Runs

-----------------------------------------------------------------------------
(* What steps do to the objects.                                           *)

(* A new object.                                                           *)
LEMMA ObjectAdded ==
  ASSUME IInv, NEW x, ObjectOK(x), obj' = Append(obj, x)
  PROVE  ObjectsOK' /\ Len(obj') = Len(obj) + 1
  <1> DEFINE S == Range(obj) \cup {x}
  <1>1. obj \in Seq(S) /\ Len(obj) \in Nat /\ DOMAIN obj = 1 .. Len(obj)
    BY SeqMonotonic, LenOfSeq DEF IInv, ObjectsOK, IsSeq
  <1>2. \A i \in 1 .. Len(obj) : ObjectOK(obj[i])
    BY <1>1 DEF IInv, ObjectsOK
  <1> HIDE DEF S
  <1>3. x \in S
    BY DEF S
  <1>4. /\ Append(obj, x) \in Seq(S)
        /\ Len(Append(obj, x)) = Len(obj) + 1
        /\ \A i \in 1 .. Len(obj) : Append(obj, x)[i] = obj[i]
        /\ Append(obj, x)[Len(obj) + 1] = x
    BY <1>1, <1>3, AppendProperties
  <1>5. \A i \in 1 .. Len(obj) + 1 : ObjectOK(obj'[i])
    BY <1>1, <1>2, <1>4
  <1>6. QED
    BY <1>4, <1>5, AnySeq DEF ObjectsOK

(* A changed one.                                                          *)
LEMMA ObjectChanged ==
  ASSUME IInv, NEW o, NEW x, o \in DOMAIN obj => ObjectOK(x),
         obj' = [obj EXCEPT ![o] = x]
  PROVE  ObjectsOK' /\ Len(obj') = Len(obj)
  <1>1. IsSeq(obj) /\ \A i \in DOMAIN obj : ObjectOK(obj[i])
    BY DEF IInv, ObjectsOK
  <1>2. IsSeq(obj') /\ Len(obj') = Len(obj)
    <2>1. \A s, i, y : IsSeq(s) => /\ IsSeq([s EXCEPT ![i] = y])
                                  /\ Len([s EXCEPT ![i] = y]) = Len(s)
      BY ChangedSeq, Zenon
    <2>2. /\ IsSeq([obj EXCEPT ![o] = x])
          /\ Len([obj EXCEPT ![o] = x]) = Len(obj)
      BY <1>1, <2>1, Zenon
    <2>3. QED
      BY <2>2
  <1>3. \A i \in DOMAIN obj' : ObjectOK(obj'[i])
    BY <1>1, <1>2
  <1>4. QED
    BY <1>2, <1>3 DEF ObjectsOK

(* All changed: the FIFOs nobody holds are emptied.                        *)
LEMMA ObjectsEmptied ==
  ASSUME IInv, NEW q, obj' = Emptied(q)
  PROVE  ObjectsOK' /\ Len(obj') = Len(obj)
  <1>1. /\ IsSeq(obj) /\ Len(obj) \in Nat /\ DOMAIN obj = 1 .. Len(obj)
        /\ \A i \in DOMAIN obj : ObjectOK(obj[i])
    BY LenOfSeq DEF IInv, ObjectsOK
  <1>2. \A i \in DOMAIN obj : ObjectOK([obj[i] EXCEPT !.data = <<>>])
    BY <1>1, Short, BoundsAssumption DEF ObjectOK
  <1>3. DOMAIN obj' = DOMAIN obj /\ \A i \in DOMAIN obj' : ObjectOK(obj'[i])
    BY <1>1, <1>2 DEF Emptied
  <1>4. obj' \in [1 .. Len(obj) -> Range(obj')]
    BY <1>1, <1>3 DEF Emptied, Range
  <1>5. obj' \in Seq(Range(obj')) /\ Len(obj') = Len(obj)
    BY <1>1, <1>4
  <1>6. QED
    BY <1>3, <1>5 DEF ObjectsOK, IsSeq

-----------------------------------------------------------------------------
(* What steps do to the processes.                                         *)

(* More objects change nothing for a process.                              *)
LEMMA MoreObjects ==
  ASSUME NEW r, NEW s, NEW n \in Nat, NEW m \in Nat, n <= m, ProcessOK(r, s, n)
  PROVE  ProcessOK(r, s, m)
  BY DEF ProcessOK

(* A step of one process that is seen by no other one.                     *)
LEMMA OneStep ==
  ASSUME IInv, NEW p \in Pids, Runs(p), NEW new, Becomes(p, new),
         UNCHANGED <<scene, closed>>, trouble' \in 0..MaxTrouble,
         ObjectsOK', NamesOK', Len(obj') >= Len(obj),
         ProcessOK(new, scene, Len(obj')), new.state = "runs",
         new.parent = proc[p].parent, new.main = proc[p].main
  PROVE  IInv'
  <1>1. Len(obj) \in Nat /\ Len(obj') \in Nat
    BY LenOfSeq DEF IInv, ObjectsOK
  <1>2. /\ DOMAIN proc = Pids
        /\ \A q \in Pids : ProcessOK(proc[q], scene, Len(obj))
    BY DEF IInv, ProcessesOK
  <1>3. \A q \in Pids : ProcessOK(proc[q], scene, Len(obj'))
    BY <1>1, <1>2, MoreObjects
  <1>4. /\ DOMAIN proc' = Pids /\ proc'[p] = new
        /\ \A q \in Pids \ {p} : proc'[q] = proc[q]
    BY <1>2 DEF Becomes
  <1>5. \A q \in Pids : ProcessOK(proc'[q], scene', Len(obj'))
    BY <1>3, <1>4
  <1>6. \A q \in Pids : /\ proc'[q].state = proc[q].state
                        /\ proc'[q].parent = proc[q].parent
                        /\ proc'[q].main = proc[q].main
    BY <1>4 DEF Runs
  <1>7. FamilyOK'
    BY <1>6 DEF IInv, FamilyOK
  <1>8. SceneOK'
    BY DEF IInv, SceneOK
  <1>9. QED
    BY <1>4, <1>5, <1>7, <1>8 DEF IInv, ProcessesOK

(* No scene has both parents and threads.                                  *)
LEMMA Kin ==
  ASSUME IInv
  PROVE  \/ \A p \in Pids : proc[p].parent = 0
         \/ \A p \in Pids : proc[p].main = 0
  <1>1. Wellmade(Scenes[scene].calls)
    BY ScenesAssumption DEF IInv, SceneOK
  <1>2. ~ Forking(scene) \/ ~ Threaded(scene)
    BY <1>1 DEF Wellmade, Forking, Threaded
  <1>3. QED
    BY <1>2 DEF IInv, FamilyOK

(* A process that ends, with its threads.                                  *)
LEMMA AllEnd ==
  ASSUME IInv, NEW p \in Pids, Runs(p), NEW how, proc' = Ended(p, how),
         UNCHANGED <<scene, closed, names>>, trouble' \in 0..MaxTrouble,
         obj' = Emptied(proc') \/ obj' = obj
  PROVE  IInv'
  <1>1. ObjectsOK' /\ Len(obj') = Len(obj)
    BY ObjectsEmptied DEF IInv, ObjectsOK
  <1>2. NamesOK' /\ SceneOK'
    BY <1>1 DEF IInv, NamesOK, SceneOK
  <1>3. /\ DOMAIN proc = Pids
        /\ \A q \in Pids : ProcessOK(proc[q], scene, Len(obj))
    BY DEF IInv, ProcessesOK
  <1>4. \A q \in Pids : ProcessOK(Stopped(q, how), scene, Len(obj))
    <2>1. <<>> \in Seq(Steps(scene))
      OBVIOUS
    <2>2. QED
      BY <1>3, <2>1 DEF ProcessOK, Stopped, Fields
  <1>5. ProcessesOK'
    <2>1. DOMAIN proc' = Pids
      BY DEF Ended
    <2>2. ASSUME NEW q \in Pids
          PROVE  ProcessOK(proc'[q], scene, Len(obj))
      <3>1. CASE q \in Group(p)
        BY <1>4, <3>1 DEF Ended
      <3>2. CASE q \notin Group(p) /\ proc[q].parent \in Group(p)
        <4>1. proc'[q] = [proc[q] EXCEPT !.parent = 0,
                            !.state = IF @ = "zombie" THEN "gone" ELSE @]
          BY <3>2 DEF Ended
        <4>2. QED
          BY <1>3, <4>1 DEF ProcessOK, Fields
      <3>3. CASE /\ q \notin Group(p) /\ proc[q].parent \notin Group(p)
                 /\ proc[p].parent = q
        <4>1. proc'[q] = [proc[q] EXCEPT !.pending =
                            IF proc[q].handler["CHLD"] = <<>> THEN @
                            ELSE @ \cup {"CHLD"}]
          BY <3>3 DEF Ended
        <4>2. QED
          BY <1>3, <4>1 DEF ProcessOK, Fields
      <3>4. CASE /\ q \notin Group(p) /\ proc[q].parent \notin Group(p)
                 /\ proc[p].parent # q
        BY <1>3, <3>4 DEF Ended
      <3>5. QED
        BY <3>1, <3>2, <3>3, <3>4
    <2>3. QED
      BY <1>1, <2>1, <2>2 DEF ProcessesOK
  <1>6. FamilyOK'
    <2>1. \A q \in Pids : "state" \in DOMAIN proc[q]
            /\ "parent" \in DOMAIN proc[q]
                          /\ "main" \in DOMAIN proc[q] /\ 0 \notin Pids
      BY <1>3, BoundsAssumption DEF ProcessOK, Fields
    <2>2. \A q \in Pids :
            /\ q \in Group(p) => /\ proc'[q].main = proc[q].main
                                 /\ proc'[q].parent = proc[q].parent
                                 /\ proc'[q].state =
                                      IF proc[q].state # "runs"
                                         THEN proc[q].state
                                      ELSE IF proc[q].parent # 0 THEN "zombie"
                                      ELSE "gone"
            /\ q \notin Group(p) /\ proc[q].parent \in Group(p) =>
                 /\ proc'[q].main = proc[q].main
                 /\ proc'[q].parent = 0
                 /\ proc'[q].state = IF proc[q].state = "zombie" THEN "gone"
                                     ELSE proc[q].state
            /\ q \notin Group(p) /\ proc[q].parent \notin Group(p) =>
                 /\ proc'[q].main = proc[q].main
                 /\ proc'[q].parent = proc[q].parent
                 /\ proc'[q].state = proc[q].state
      BY <2>1 DEF Ended, Stopped
    <2>3. CASE \A q \in Pids : proc[q].parent = 0
      BY <2>1, <2>2, <2>3 DEF IInv, FamilyOK
    <2>4. CASE \A q \in Pids : proc[q].main = 0
      <3>1. \A q \in Pids : q \in Group(p) <=> q = p
        BY <2>4 DEF Group, Leader
      <3>2. QED
        BY <2>1, <2>2, <2>4, <3>1 DEF IInv, FamilyOK, Runs
    <2>5. QED
      BY <2>3, <2>4, Kin
  <1>7. QED
    BY <1>1, <1>2, <1>5, <1>6 DEF IInv

(* The state of a process that a step of its own may leave behind.         *)
Keeps(p, new, n) ==
  /\ ProcessOK(new, scene, n)
  /\ new.state = "runs"
  /\ new.parent = proc[p].parent
  /\ new.main = proc[p].main

(* A step that changes nothing but one process.                            *)
LEMMA QuietStep ==
  ASSUME IInv, NEW p \in Pids, Runs(p), NEW new, Keeps(p, new, Len(obj)),
         Becomes(p, new), UNCHANGED <<scene, closed, obj, names>>,
         trouble' \in 0..MaxTrouble
  PROVE  IInv'
  <1>1. ObjectsOK' /\ NamesOK' /\ Len(obj') >= Len(obj) /\ Len(obj') = Len(obj)
    BY LenOfSeq DEF IInv, ObjectsOK, NamesOK
  <1>2. ProcessOK(new, scene, Len(obj'))
    BY <1>1 DEF Keeps
  <1>3. QED
    BY <1>1, <1>2, OneStep DEF Keeps

(* One that leaves the names alone, and as many objects as there were.     *)
LEMMA SameNames ==
  ASSUME IInv, NEW p \in Pids, Runs(p), NEW new, Keeps(p, new, Len(obj)),
         Becomes(p, new), ObjectsOK', Len(obj') = Len(obj),
         UNCHANGED <<scene, closed, names, trouble>>
  PROVE  IInv'
  <1>1. NamesOK' /\ Len(obj') >= Len(obj) /\ trouble' \in 0..MaxTrouble
    BY LenOfSeq DEF IInv, ObjectsOK, NamesOK, SceneOK
  <1>2. ProcessOK(new, scene, Len(obj'))
    BY DEF Keeps
  <1>3. QED
    BY <1>1, <1>2, OneStep DEF Keeps

(* A call that only goes on, whatever it does to these fields.             *)
LEMMA GoesOn ==
  ASSUME IInv, NEW p \in Pids, Acts(p), proc[p].code # <<>>
  PROVE  /\ Keeps(p, Rest(p, <<>>), Len(obj))
         /\ \A x, v : Keeps(p, [Rest(p, <<>>) EXCEPT !.reg[x] = v], Len(obj))
         /\ \A v : Keeps(p, [Rest(p, <<>>) EXCEPT !.masked = v], Len(obj))
         /\ \A v : Keeps(p, [Rest(p, <<>>) EXCEPT !.s = v], Len(obj))
         /\ \A v : IsSeq(v) =>
              Keeps(p, [Rest(p, <<>>) EXCEPT !.buf = v], Len(obj))
         /\ \A d, x, v, e : e = Closed \/ e \in (1..Len(obj)) \X {"r", "w"} =>
              /\ Keeps(p, [Rest(p, <<>>) EXCEPT !.fd[d] = e], Len(obj))
              /\ Keeps(p, [Rest(p, <<>>) EXCEPT !.fd[d] = e, !.reg[x] = v],
                       Len(obj))
  <1> DEFINE r == Rest(p, <<>>)
  <1>1. <<>> \in Seq(Steps(scene))
    OBVIOUS
  <1>2. Keeps(p, r, Len(obj))
    BY <1>1, RestOK DEF Keeps
  <1> HIDE DEF r
  <1>3. QED
    BY <1>2 DEF Keeps, ProcessOK, Fields, r

(* What a descriptor stands for.                                           *)
LEMMA HeldOK ==
  ASSUME IInv, NEW p \in Pids, NEW d
  PROVE  Fd(p, d) = Closed \/ Fd(p, d) \in (1..Len(obj)) \X {"r", "w"}
  BY DEF IInv, ProcessesOK, ProcessOK, Fd

(* A longer sequence is one.                                               *)
LEMMA AppendedSeq ==
  \A s, x : IsSeq(s) => IsSeq(Append(s, x)) /\ Len(Append(s, x)) = Len(s) + 1
  <1>1. SUFFICES ASSUME NEW s, NEW x, IsSeq(s)
                 PROVE  IsSeq(Append(s, x)) /\ Len(Append(s, x)) = Len(s) + 1
    OBVIOUS
  <1> DEFINE S == Range(s) \cup {x}
  <1>2. s \in Seq(S)
    BY <1>1, SeqMonotonic DEF IsSeq
  <1>3. x \in S
    OBVIOUS
  <1> HIDE DEF S
  <1>4. Append(s, x) \in Seq(S) /\ Len(Append(s, x)) = Len(s) + 1
    BY <1>2, <1>3, AppendProperties
  <1>5. QED
    BY <1>4, AnySeq

(* What comes after the loads is a part of the code.                       *)
LEMMA LoadsSkipped ==
  ASSUME NEW S, NEW code \in Seq(S)
  PROVE  AfterLoads(code) \in Seq(S)
  <1> DEFINE rest == {i \in 1..Len(code) + 1 :
                        i \in 1..Len(code) => code[i][1] # "load"}
  <1>1. Len(code) \in Nat
    OBVIOUS
  <1>2. Len(code) + 1 \in rest /\ rest \subseteq Nat
    BY <1>1
  <1>3. Min(rest) \in 1..Len(code) + 1
    <2>1. Min(rest) \in rest
      BY <1>2, LeastNumber
    <2>2. QED
      BY <2>1
  <1> HIDE DEF rest
  <1>4. \A i \in 1..Len(code) + 1 : SubSeq(code, i, Len(code)) \in Seq(S)
    BY <1>1
  <1>5. SubSeq(code, Min(rest), Len(code)) \in Seq(S)
    BY <1>3, <1>4
  <1>6. QED
    BY <1>5 DEF AfterLoads, rest

(* The two sides of a FIFO meet: only the code of one process goes on.     *)
LEMMA MeetOK ==
  ASSUME IInv, NEW p \in Pids, Meet(p)
  PROVE  IInv'
  <1>1. /\ Acts(p) /\ Runs(p) /\ proc[p].code # <<>>
        /\ trouble' \in 0..MaxTrouble
    BY DEF Meet, Call, Acts, IInv, SceneOK
  <1>2. Keeps(p, Rest(p, <<>>), Len(obj))
    BY <1>1, GoesOn
  <1>3. QED
    BY <1>1, <1>2, QuietStep DEF Meet

(* pthread_self changes one variable.                                      *)
LEMMA SelfOK ==
  ASSUME IInv, NEW p \in Pids, Self(p)
  PROVE  IInv'
  <1>1. /\ Acts(p) /\ Runs(p) /\ proc[p].code # <<>>
        /\ trouble' \in 0..MaxTrouble
    BY DEF Self, Call, Acts, IInv, SceneOK
  <1>2. Keeps(p, [Rest(p, <<>>) EXCEPT !.reg[Arg(p, 1)] = p], Len(obj))
    BY <1>1, GoesOn
  <1>3. QED
    BY <1>1, <1>2, QuietStep DEF Self

(* getppid changes one variable.                                           *)
LEMMA GetPpidOK ==
  ASSUME IInv, NEW p \in Pids, GetPpid(p)
  PROVE  IInv'
  <1>1. /\ Acts(p) /\ Runs(p) /\ proc[p].code # <<>>
        /\ trouble' \in 0..MaxTrouble
    BY DEF GetPpid, Call, Acts, IInv, SceneOK
  <1>2. Keeps(p, [Rest(p, <<>>) EXCEPT !.reg[Arg(p, 1)] =
          proc[p].parent], Len(obj))
    BY <1>1, GoesOn
  <1>3. QED
    BY <1>1, <1>2, QuietStep DEF GetPpid

(* mmap changes one variable.                                              *)
LEMMA MmapOK ==
  ASSUME IInv, NEW p \in Pids, Mmap(p)
  PROVE  IInv'
  <1>1. /\ Acts(p) /\ Runs(p) /\ proc[p].code # <<>>
        /\ trouble' \in 0..MaxTrouble
    BY DEF Mmap, Call, Acts, IInv, SceneOK
  <1>2. Keeps(p, [Rest(p, <<>>) EXCEPT !.reg[Arg(p, 1)] = Val(p, Arg(p, 2))],
          Len(obj))
    BY <1>1, GoesOn
  <1>3. QED
    BY <1>1, <1>2, QuietStep DEF Mmap

(* pthread_join changes one variable.                                      *)
LEMMA JoinOK ==
  ASSUME IInv, NEW p \in Pids, Join(p)
  PROVE  IInv'
  <1>1. /\ Acts(p) /\ Runs(p) /\ proc[p].code # <<>>
        /\ trouble' \in 0..MaxTrouble
    BY DEF Join, Call, Acts, IInv, SceneOK
  <1>2. Keeps(p, [Rest(p, <<>>) EXCEPT !.reg[Arg(p, 2)] = proc[Val(p,
          Arg(p, 1))].result], Len(obj))
    BY <1>1, GoesOn
  <1>3. QED
    BY <1>1, <1>2, QuietStep DEF Join

(* Masking SIGINT changes the mask of one process.                         *)
LEMMA SigMaskOK ==
  ASSUME IInv, NEW p \in Pids, SigMask(p)
  PROVE  IInv'
  <1>1. /\ Acts(p) /\ Runs(p) /\ proc[p].code # <<>>
        /\ trouble' \in 0..MaxTrouble
    BY DEF SigMask, Call, Acts, IInv, SceneOK
  <1>2. Keeps(p, [Rest(p, <<>>) EXCEPT !.masked = IF Arg(p, 1)
          THEN @ \cup {"INT"} ELSE @ \ {"INT"}], Len(obj))
    BY <1>1, GoesOn
  <1>3. QED
    BY <1>1, <1>2, QuietStep DEF SigMask

(* The end of a handler unmasks its signal.                                *)
LEMMA SigReturnOK ==
  ASSUME IInv, NEW p \in Pids, SigReturn(p)
  PROVE  IInv'
  <1>1. /\ Acts(p) /\ Runs(p) /\ proc[p].code # <<>>
        /\ trouble' \in 0..MaxTrouble
    BY DEF SigReturn, Call, Acts, IInv, SceneOK
  <1>2. Keeps(p, [Rest(p, <<>>) EXCEPT !.masked = @ \ {Arg(p, 1)}], Len(obj))
    BY <1>1, GoesOn
  <1>3. QED
    BY <1>1, <1>2, QuietStep DEF SigReturn

(* The copy stands for the same object as the original.                    *)
LEMMA DupOK ==
  ASSUME IInv, NEW p \in Pids, Dup(p)
  PROVE  IInv'
  <1>1. /\ Acts(p) /\ Runs(p) /\ proc[p].code # <<>>
        /\ trouble' \in 0..MaxTrouble
    BY DEF Dup, Call, Acts, IInv, SceneOK
  <1> DEFINE from == Fd(p, Val(p, Arg(p, 2)))
  <1>2. from = Closed \/ from \in (1..Len(obj)) \X {"r", "w"}
    BY HeldOK
  <1> HIDE DEF from
  <1>3. \A d : /\ Keeps(p, [Rest(p, <<>>) EXCEPT !.reg[Arg(p, 1)] = -1],
                    Len(obj))
               /\ Keeps(p, [Rest(p, <<>>) EXCEPT !.fd[d] = from,
                                                 !.reg[Arg(p, 1)] = d], Len(obj))
    BY <1>1, <1>2, GoesOn
  <1>4. QED
    BY <1>1, <1>3, QuietStep DEF Dup, from

(* The new program is one of the scene.                                    *)
LEMMA ExecOK ==
  ASSUME IInv, NEW p \in Pids, Exec(p)
  PROVE  IInv'
  <1>1. /\ Acts(p) /\ Runs(p) /\ proc[p].code # <<>>
        /\ trouble' \in 0..MaxTrouble
    BY DEF Exec, Call, Acts, IInv, SceneOK
  <1>2. Arg(p, 1) \in Seq(Steps(scene))
    BY <1>1, FirstCall, Operands DEF Exec, Call, Arg
  <1>3. Keeps(p, [proc[p] EXCEPT !.code = Arg(p, 1)], Len(obj))
    BY <1>1, <1>2, FirstCall DEF Keeps, ProcessOK, Fields, Runs
  <1>4. QED
    BY <1>1, <1>3, QuietStep DEF Exec

(* The handler that is set up is one of the scene.                         *)
LEMMA SigActionOK ==
  ASSUME IInv, NEW p \in Pids, SigAction(p)
  PROVE  IInv'
  <1>1. /\ Acts(p) /\ Runs(p) /\ proc[p].code # <<>>
        /\ trouble' \in 0..MaxTrouble
    BY DEF SigAction, Call, Acts, IInv, SceneOK
  <1>2. Arg(p, 1) \in {"INT", "CHLD"} /\ Arg(p, 2) \in Seq(Steps(scene))
    BY <1>1, FirstCall, Operands DEF SigAction, Call, Arg
  <1>3. Keeps(p, Rest(p, <<>>), Len(obj))
    BY <1>1, GoesOn
  <1>4. Keeps(p, [Rest(p, <<>>) EXCEPT !.handler[Arg(p, 1)] = Arg(p, 2)],
          Len(obj))
    <2> DEFINE r == Rest(p, <<>>)
               x == Arg(p, 1)
               v == Arg(p, 2)
    <2>1. Keeps(p, r, Len(obj)) /\ x \in {"INT", "CHLD"}
            /\ v \in Seq(Steps(scene))
      BY <1>2, <1>3
    <2> HIDE DEF r, x, v
    <2>2. Keeps(p, [r EXCEPT !.handler[x] = v], Len(obj))
      BY <2>1 DEF Keeps, ProcessOK, Fields
    <2>3. QED
      BY <2>2 DEF r, x, v
  <1>5. QED
    BY <1>1, <1>4, QuietStep DEF SigAction

(* The handler that begins is code of the scene, before its sigreturn.     *)
LEMMA DeliverOK ==
  ASSUME IInv, NEW p \in Pids, Deliver(p)
  PROVE  IInv'
  <1>1. PICK signal \in proc[p].pending \ proc[p].masked :
          Becomes(p, [proc[p] EXCEPT
            !.pending = @ \ {signal}, !.masked = @ \cup {signal},
            !.code = proc[p].handler[signal] \o << <<"sigreturn", signal>> >>
               \o @])
    BY DEF Deliver
  <1> DEFINE code == proc[p].handler[signal] \o << <<"sigreturn", signal>> >>
                     \o proc[p].code
  <1>2. ProcessOK(proc[p], scene, Len(obj)) /\ Runs(p)
    BY DEF IInv, ProcessesOK, Deliver
  <1>3. signal \in {"INT", "CHLD"} /\ proc[p].code \in Seq(Steps(scene))
        /\ proc[p].handler[signal] \in Seq(Steps(scene))
    BY <1>2 DEF ProcessOK
  <1>4. <<"sigreturn", signal>> \in Steps(scene)
    BY <1>3 DEF Steps
  <1>5. << <<"sigreturn", signal>> >> \in Seq(Steps(scene))
    BY <1>4
  <1>6. code \in Seq(Steps(scene))
    BY <1>3, <1>5, ConcatProperties
  <1>7. Becomes(p, [proc[p] EXCEPT !.pending = @ \ {signal},
                      !.masked = @ \cup {signal}, !.code = code])
    BY <1>1
  <1> HIDE DEF code
  <1>8. Keeps(p, [proc[p] EXCEPT !.pending = @ \ {signal},
                    !.masked = @ \cup {signal}, !.code = code], Len(obj))
    BY <1>2, <1>6 DEF Keeps, ProcessOK, Fields, Runs
  <1>9. trouble' \in 0..MaxTrouble /\ UNCHANGED <<scene, closed, obj, names>>
    BY DEF Deliver, IInv, SceneOK
  <1>10. QED
    BY <1>2, <1>7, <1>8, <1>9, QuietStep

(* sigwait takes a signal that was pending.                                *)
LEMMA SigWaitOK ==
  ASSUME IInv, NEW p \in Pids, SigWait(p)
  PROVE  IInv'
  <1>1. /\ Acts(p) /\ Runs(p) /\ proc[p].code # <<>>
        /\ trouble' \in 0..MaxTrouble
    BY DEF SigWait, Call, Acts, IInv, SceneOK
  <1>2. Keeps(p, Rest(p, <<>>), Len(obj))
    BY <1>1, GoesOn
  <1> DEFINE r == Rest(p, <<>>)
  <1>3. Keeps(p, [r EXCEPT !.pending = @ \ {"INT"}], Len(obj))
    <2> HIDE DEF r
    <2>1. Keeps(p, r, Len(obj))
      BY <1>2 DEF r
    <2>2. QED
      BY <2>1 DEF Keeps, ProcessOK, Fields
  <1>4. QED
    BY <1>1, <1>3, QuietStep DEF SigWait

(* Without a child the code goes on with its last branch.                  *)
LEMMA ForkFailsOK ==
  ASSUME IInv, NEW p \in Pids, ForkFails(p)
  PROVE  IInv'
  <1>1. Acts(p) /\ Runs(p) /\ proc[p].code # <<>> /\ trouble' \in 0..MaxTrouble
    BY BoundsAssumption DEF ForkFails, Call, Acts, IInv, SceneOK, Trouble
  <1>2. Arg(p, 3) \in Seq(Steps(scene))
    BY <1>1, FirstCall, Operands DEF ForkFails, Call, Arg
  <1>3. Keeps(p, Rest(p, Arg(p, 3)), Len(obj))
    BY <1>1, <1>2, RestOK DEF Keeps
  <1>4. QED
    BY <1>1, <1>3, QuietStep DEF ForkFails

(* A thread that was never made: the call returns, or the process ends.    *)
LEMMA NoThreadOK ==
  ASSUME IInv, NEW p \in Pids, NoThread(p)
  PROVE  IInv'
  <1>1. /\ Acts(p) /\ Runs(p) /\ proc[p].code # <<>>
        /\ trouble' \in 0..MaxTrouble
    BY DEF NoThread, Call, Acts, IInv, SceneOK
  <1>2. Keeps(p, Rest(p, <<>>), Len(obj))
    BY <1>1, GoesOn
  <1>3. CASE Becomes(p, Rest(p, <<>>))
    BY <1>1, <1>2, <1>3, QuietStep DEF NoThread
  <1>4. CASE proc' = Ended(p, "signal")
    BY <1>1, <1>4, AllEnd DEF NoThread
  <1>5. QED
    BY <1>3, <1>4 DEF NoThread

(* A byte is read, or the process ends for want of a page.                 *)
LEMMA LoadOK ==
  ASSUME IInv, NEW p \in Pids, Load(p)
  PROVE  IInv'
  <1>1. /\ Acts(p) /\ Runs(p) /\ proc[p].code # <<>>
        /\ trouble' \in 0..MaxTrouble
    BY DEF Load, Call, Acts, IInv, SceneOK
  <1> DEFINE memory == obj[Val(p, Arg(p, 1))].data
             item == memory[Arg(p, 2)]
             code == IF item # "" THEN Tail(proc[p].code)
                     ELSE AfterLoads(proc[p].code)
             new == [proc[p] EXCEPT !.got = Append(@, item), !.code = code]
  <1>2. CASE memory = <<>>
    <2>1. proc' = Ended(p, "signal") /\ UNCHANGED <<scene, closed, obj, names>>
      BY <1>2 DEF Load
    <2>2. QED
      BY <1>1, <2>1, AllEnd
  <1>3. CASE memory # <<>>
    <2>1. ProcessOK(proc[p], scene, Len(obj))
            /\ Tail(proc[p].code) \in Seq(Steps(scene))
      BY <1>1, FirstCall
    <2>2. AfterLoads(proc[p].code) \in Seq(Steps(scene))
      BY <2>1, LoadsSkipped DEF ProcessOK
    <2>3. code \in Seq(Steps(scene))
      BY <2>1, <2>2
    <2>4. Becomes(p, new) /\ UNCHANGED <<scene, closed, obj, names>>
      BY <1>3, <2>1 DEF Load, Becomes, ProcessOK, Fields
    <2> HIDE DEF code, item
    <2>5. IsSeq(Append(proc[p].got, item))
      BY <2>1, AppendedSeq DEF ProcessOK
    <2>6. Keeps(p, new, Len(obj))
      BY <1>1, <2>1, <2>3, <2>5 DEF Keeps, ProcessOK, Fields, Runs
    <2>7. QED
      BY <1>1, <2>4, <2>6, QuietStep
  <1>4. QED
    BY <1>2, <1>3

(* A step of several processes that leaves the objects as they are, or     *)
(* empties some.                                                           *)
LEMMA SeveralStep ==
  ASSUME IInv, UNCHANGED <<scene, closed, names>>, trouble' \in 0..MaxTrouble,
         obj' = obj \/ obj' = Emptied(proc'), DOMAIN proc' = Pids,
         \A q \in Pids : ProcessOK(proc'[q], scene, Len(obj)), FamilyOK'
  PROVE  IInv'
  <1>1. ObjectsOK' /\ Len(obj') = Len(obj)
    BY ObjectsEmptied DEF IInv, ObjectsOK
  <1>2. NamesOK' /\ SceneOK' /\ ProcessesOK'
    BY <1>1 DEF IInv, NamesOK, SceneOK, ProcessesOK
  <1>3. QED
    BY <1>1, <1>2 DEF IInv

(* Only a process that has ended may go without more.                      *)
LEMMA StatesOnly ==
  ASSUME FamilyOK, NEW c \in Pids, scene' = scene,
         \A q \in Pids : /\ proc'[q].parent = proc[q].parent
                         /\ proc'[q].main = proc[q].main
                         /\ q # c => proc'[q].state = proc[q].state
                         /\ q = c => proc'[q].state = "gone",
         \A q \in Pids : proc[q].state \in {"runs", "zombie"} => proc[q].parent
            # c
  PROVE  FamilyOK'
  BY DEF FamilyOK

(* What is left of a process that ends.                                    *)
LEMMA EndedOK ==
  ASSUME IInv, NEW p \in Pids, Runs(p), proc[p].parent = 0, NEW how
  PROVE  /\ ProcessOK(Stopped(p, how), scene, Len(obj))
         /\ Stopped(p, how).state = "gone" /\ Stopped(p, how).parent = 0
         /\ Stopped(p, how).main = proc[p].main
  <1>1. ProcessOK(proc[p], scene, Len(obj)) /\ <<>> \in Seq(Steps(scene))
    BY EmptySeq DEF IInv, ProcessesOK
  <1>2. QED
    BY <1>1 DEF Stopped, ProcessOK, Fields, Runs

(* The zombie that is taken has no children of its own.                    *)
LEMMA WaitOK ==
  ASSUME IInv, NEW p \in Pids, Wait(p)
  PROVE  IInv'
  <1>1. /\ Acts(p) /\ Runs(p) /\ proc[p].code # <<>>
        /\ trouble' \in 0..MaxTrouble
    BY DEF Wait, Call, Acts, IInv, SceneOK
  <1> DEFINE children == {c \in Pids : proc[c].parent = p
     /\ proc[c].state # "gone"}
  <1>2. CASE Becomes(p, Rest(p, <<>>))
    BY <1>1, <1>2, GoesOn, QuietStep DEF Wait
  <1>3. ASSUME NEW c \in children, proc[c].state = "zombie",
               proc' = [proc EXCEPT ![c].state = "gone",
                          ![p] = [Rest(p, <<>>) EXCEPT !.s = proc[c].how]]
        PROVE  IInv'
    <2> DEFINE new == [Rest(p, <<>>) EXCEPT !.s = proc[c].how]
    <2>1. Keeps(p, new, Len(obj))
      BY <1>1, GoesOn
    <2> HIDE DEF new
    <2>2. /\ DOMAIN proc = Pids
          /\ \A q \in Pids : ProcessOK(proc[q], scene, Len(obj))
      BY DEF IInv, ProcessesOK
    <2>3. c \in Pids \ {p}
      BY <1>1, <1>3 DEF Runs
    <2>4. /\ DOMAIN proc' = Pids
          /\ proc'[p] = new
          /\ proc'[c] = [proc[c] EXCEPT !.state = "gone"]
          /\ \A q \in Pids \ {p, c} : proc'[q] = proc[q]
      BY <1>3, <2>2, <2>3 DEF new
    <2>5. ProcessOK(proc'[c], scene, Len(obj))
      <3>1. ProcessOK(proc[c], scene, Len(obj)) /\ proc[c].state = "zombie"
        BY <1>3, <2>2
      <3>2. QED
        BY <2>4, <3>1 DEF ProcessOK, Fields
    <2>6. \A q \in Pids : ProcessOK(proc'[q], scene, Len(obj))
      BY <2>1, <2>2, <2>4, <2>5 DEF Keeps
    <2>7. \A q \in Pids : /\ proc'[q].parent = proc[q].parent
                          /\ proc'[q].main = proc[q].main
                          /\ q # c => proc'[q].state = proc[q].state
                          /\ q = c => proc'[q].state = "gone"
      BY <1>1, <2>1, <2>2, <2>3, <2>4, SMTT(30)
         DEF Keeps, ProcessOK, Fields, Runs
    <2>8. FamilyOK'
      <3>1. scene' = scene
        BY DEF Wait
      <3>2. QED
        <4>1. \A q \in Pids :
                proc[q].state \in {"runs", "zombie"} => proc[q].parent # c
          BY <1>3, BoundsAssumption DEF IInv, FamilyOK
        <4>2. QED
          BY <2>3, <2>7, <3>1, <4>1, StatesOnly DEF IInv
    <2>9. QED
      BY <1>1, <2>4, <2>6, <2>8, SeveralStep DEF Wait
  <1>4. QED
    BY <1>2, <1>3 DEF Wait

(* A thread is marked, in the same process or in another.                  *)
LEMMA CancelOK ==
  ASSUME IInv, NEW p \in Pids, Cancel(p)
  PROVE  IInv'
  <1>1. /\ Acts(p) /\ Runs(p) /\ proc[p].code # <<>>
        /\ trouble' \in 0..MaxTrouble
    BY DEF Cancel, Call, Acts, IInv, SceneOK
  <1> DEFINE t == Val(p, Arg(p, 1))
             new == Rest(p, <<>>)
  <1>2. Keeps(p, new, Len(obj))
    BY <1>1, GoesOn
  <1>3. /\ DOMAIN proc = Pids
        /\ \A q \in Pids : ProcessOK(proc[q], scene, Len(obj))
    BY DEF IInv, ProcessesOK
  <1>4. proc' = [[proc EXCEPT ![p] = new] EXCEPT ![t].cancelled = TRUE]
    BY DEF Cancel
  <1> HIDE DEF new, t
  <1> DEFINE before == [proc EXCEPT ![p] = new]
  <1>5. /\ DOMAIN proc' = Pids
        /\ \A q \in Pids : proc'[q] =
             IF q = t THEN [before[q] EXCEPT !.cancelled = TRUE] ELSE before[q]
    BY <1>3, <1>4
  <1>6. \A q \in Pids : ProcessOK(before[q], scene, Len(obj))
    BY <1>2, <1>3 DEF Keeps
  <1>7. \A q \in Pids : /\ before[q].parent = proc[q].parent
                        /\ before[q].main = proc[q].main
                        /\ before[q].state = proc[q].state
    BY <1>1, <1>2 DEF Keeps, Runs
  <1> HIDE DEF before
  <1>8. \A r : ProcessOK(r, scene, Len(obj)) =>
          /\ ProcessOK([r EXCEPT !.cancelled = TRUE], scene, Len(obj))
          /\ [r EXCEPT !.cancelled = TRUE].parent = r.parent
          /\ [r EXCEPT !.cancelled = TRUE].main = r.main
          /\ [r EXCEPT !.cancelled = TRUE].state = r.state
    BY DEF ProcessOK, Fields
  <1>9. \A q \in Pids : /\ ProcessOK(proc'[q], scene, Len(obj))
                        /\ proc'[q].parent = proc[q].parent
                        /\ proc'[q].main = proc[q].main
                        /\ proc'[q].state = proc[q].state
    <2> SUFFICES ASSUME NEW q \in Pids
                 PROVE  /\ ProcessOK(proc'[q], scene, Len(obj))
                        /\ proc'[q].parent = proc[q].parent
                        /\ proc'[q].main = proc[q].main
                        /\ proc'[q].state = proc[q].state
      OBVIOUS
    <2>1. /\ ProcessOK(before[q], scene, Len(obj))
          /\ before[q].parent = proc[q].parent
          /\ before[q].main = proc[q].main
          /\ before[q].state = proc[q].state
      BY <1>6, <1>7
    <2>2. CASE q = t
      <3>1. proc'[q] = [before[q] EXCEPT !.cancelled = TRUE]
        BY <1>5, <2>2
      <3>2. QED
        BY <1>8, <2>1, <3>1
    <2>3. CASE q # t
      <3>1. proc'[q] = before[q]
        BY <1>5, <2>3
      <3>2. QED
        BY <2>1, <3>1
    <2>4. QED
      BY <2>2, <2>3
  <1>10. FamilyOK'
    <2>1. scene' = scene
      BY DEF Cancel
    <2>2. QED
      BY <1>9, <2>1 DEF IInv, FamilyOK
  <1>11. QED
    BY <1>1, <1>5, <1>9, <1>10, SeveralStep DEF Cancel

(* The child runs, and has a parent that runs.                             *)
LEMMA ForkOK ==
  ASSUME IInv, NEW p \in Pids, Fork(p)
  PROVE  IInv'
  <1>1. /\ Acts(p) /\ Runs(p) /\ proc[p].code # <<>>
        /\ trouble' \in 0..MaxTrouble
    BY DEF Fork, Call, Acts, IInv, SceneOK
  <1>2. /\ Arg(p, 1) \in Seq(Steps(scene)) /\ Arg(p, 2) \in Seq(Steps(scene))
        /\ Forking(scene) /\ ~ Threaded(scene)
    BY <1>1, FirstCall, Operands DEF Fork, Call, Arg
  <1>3. Keeps(p, Rest(p, Arg(p, 1)), Len(obj))
          /\ Keeps(p, Rest(p, Arg(p, 2)), Len(obj))
    BY <1>1, <1>2, RestOK DEF Keeps
  <1> DEFINE mine == Rest(p, Arg(p, 2))
             its == Rest(p, Arg(p, 1))
             child == [its EXCEPT !.parent = p, !.pending = {}]
  <1>4. PICK c \in Pids : Unused(c)
          /\ proc' = [proc EXCEPT ![p] = mine, ![c] = child]
    BY DEF Fork
  <1>5. c # p /\ proc[c].state = "none"
    BY <1>1, <1>4 DEF Unused, Runs
  <1>6. /\ DOMAIN proc = Pids
        /\ \A q \in Pids : ProcessOK(proc[q], scene, Len(obj))
    BY DEF IInv, ProcessesOK
  <1>7. Keeps(p, mine, Len(obj)) /\ Keeps(p, its, Len(obj))
    BY <1>3
  <1> HIDE DEF mine, its
  <1>8. /\ ProcessOK(child, scene, Len(obj)) /\ child.state = "runs"
        /\ child.parent = p /\ child.main = proc[p].main
    BY <1>7 DEF Keeps, ProcessOK, Fields
  <1> HIDE DEF child
  <1>9. /\ DOMAIN proc' = Pids /\ proc'[p] = mine /\ proc'[c] = child
        /\ \A q \in Pids \ {p, c} : proc'[q] = proc[q]
    BY <1>4, <1>5, <1>6
  <1>10. \A q \in Pids : ProcessOK(proc'[q], scene, Len(obj))
    BY <1>6, <1>7, <1>8, <1>9 DEF Keeps
  <1>11. \A q \in Pids \ {c} : /\ proc'[q].parent = proc[q].parent
                               /\ proc'[q].main = proc[q].main
                               /\ proc'[q].state = proc[q].state
    BY <1>1, <1>7, <1>9 DEF Keeps, Runs
  <1>12. FamilyOK'
    <2>1. scene' = scene
      BY DEF Fork
    <2>2. QED
      BY <1>1, <1>2, <1>5, <1>8, <1>9, <1>11, <2>1 DEF IInv, FamilyOK, Runs
  <1>13. QED
    BY <1>1, <1>9, <1>10, <1>12, SeveralStep DEF Fork

(* The new thread has the main thread of its maker for its own.            *)
LEMMA CreateOK ==
  ASSUME IInv, NEW p \in Pids, Create(p)
  PROVE  IInv'
  <1>1. /\ Acts(p) /\ Runs(p) /\ proc[p].code # <<>>
        /\ trouble' \in 0..MaxTrouble
    BY DEF Create, Call, Acts, IInv, SceneOK
  <1>2. Arg(p, 2) \in Seq(Steps(scene)) /\ Threaded(scene) /\ ~ Forking(scene)
    BY <1>1, FirstCall, Operands DEF Create, Call, Arg
  <1> DEFINE result(c) == [Rest(p, <<>>) EXCEPT !.reg[Arg(p, 1)] = c]
             thread == [Process(Arg(p, 2), proc[p].fd) EXCEPT
                          !.main = Leader(p), !.masked = proc[p].masked,
                          !.reg = [proc[p].reg EXCEPT !["arg"] = Val(p,
                             Arg(p, 3))]]
  <1>3. PICK c \in Pids :
          Unused(c) /\ proc' = [proc EXCEPT ![p] = result(c), ![c] = thread]
    BY DEF Create
  <1> DEFINE mine == result(c)
  <1>4. Keeps(p, mine, Len(obj))
    BY <1>1, GoesOn
  <1>5. c # p /\ proc[c].state = "none"
    BY <1>1, <1>3 DEF Unused, Runs
  <1>6. /\ DOMAIN proc = Pids
        /\ \A q \in Pids : ProcessOK(proc[q], scene, Len(obj))
    BY DEF IInv, ProcessesOK
  <1>7. /\ ProcessOK(thread, scene, Len(obj)) /\ thread.state = "runs"
        /\ thread.parent = 0
    <2>1. ProcessOK(proc[p], scene, Len(obj)) /\ Leader(p) \in Pids
      BY <1>6 DEF ProcessOK, Leader
    <2>2. <<>> \in Seq(Steps(scene)) /\ IsSeq(<<>>)
      BY Short
    <2>3. QED
      BY <1>2, <2>1, <2>2 DEF Process, ProcessOK, Fields
  <1> HIDE DEF mine, thread
  <1>8. /\ DOMAIN proc' = Pids /\ proc'[p] = mine /\ proc'[c] = thread
        /\ \A q \in Pids \ {p, c} : proc'[q] = proc[q]
    BY <1>3, <1>5, <1>6 DEF mine
  <1>9. \A q \in Pids : ProcessOK(proc'[q], scene, Len(obj))
    BY <1>4, <1>6, <1>7, <1>8 DEF Keeps
  <1>10. \A q \in Pids \ {c} : /\ proc'[q].parent = proc[q].parent
                               /\ proc'[q].main = proc[q].main
                               /\ proc'[q].state = proc[q].state
    BY <1>1, <1>4, <1>8 DEF Keeps, Runs
  <1>11. FamilyOK'
    <2>1. scene' = scene
      BY DEF Create
    <2>2. QED
      BY <1>1, <1>2, <1>5, <1>7, <1>8, <1>10, <2>1, BoundsAssumption
         DEF IInv, FamilyOK, Runs
  <1>12. QED
    BY <1>1, <1>8, <1>9, <1>11, SeveralStep DEF Create

(* The thread that could not be made is over before it runs.               *)
LEMMA CreateFailsOK ==
  ASSUME IInv, NEW p \in Pids, CreateFails(p)
  PROVE  IInv'
  <1>1. Acts(p) /\ Runs(p) /\ proc[p].code # <<>> /\ trouble' \in 0..MaxTrouble
    <2>1. Call(p, "create") /\ Trouble
      BY DEF CreateFails
    <2>2. QED
      BY <2>1, BoundsAssumption DEF Call, Acts, IInv, SceneOK, Trouble
  <1>2. CASE proc' = Ended(p, "exit 1")
    BY <1>1, <1>2, AllEnd DEF CreateFails
  <1>3. ASSUME NEW c \in Pids, Unused(c),
               proc' = [proc EXCEPT ![p] = Rest(p, <<>>), ![c].state = "gone"]
        PROVE  IInv'
    <2> DEFINE new == Rest(p, <<>>)
    <2>1. Keeps(p, new, Len(obj))
      BY <1>1, GoesOn
    <2> HIDE DEF new
    <2>2. /\ DOMAIN proc = Pids
          /\ \A q \in Pids : ProcessOK(proc[q], scene, Len(obj))
      BY DEF IInv, ProcessesOK
    <2>3. c \in Pids \ {p} /\ proc[c].state = "none"
      BY <1>1, <1>3 DEF Runs, Unused
    <2>4. /\ DOMAIN proc' = Pids
          /\ proc'[p] = new
          /\ proc'[c] = [proc[c] EXCEPT !.state = "gone"]
          /\ \A q \in Pids \ {p, c} : proc'[q] = proc[q]
      BY <1>3, <2>2, <2>3 DEF new
    <2>5. ProcessOK(proc'[c], scene, Len(obj))
      BY <2>2, <2>3, <2>4 DEF ProcessOK, Fields
    <2>6. \A q \in Pids : ProcessOK(proc'[q], scene, Len(obj))
      BY <2>1, <2>2, <2>4, <2>5 DEF Keeps
    <2>7. \A q \in Pids : /\ proc'[q].parent = proc[q].parent
                          /\ proc'[q].main = proc[q].main
                          /\ q # c => proc'[q].state = proc[q].state
                          /\ q = c => proc'[q].state = "gone"
      BY <1>1, <2>1, <2>2, <2>3, <2>4 DEF Keeps, ProcessOK, Fields, Runs
    <2>8. FamilyOK'
      <3>1. scene' = scene
        BY DEF CreateFails
      <3>2. QED
        BY <2>3, <2>7, <3>1 DEF IInv, FamilyOK
    <2>9. QED
      BY <1>1, <2>4, <2>6, <2>8, SeveralStep DEF CreateFails
  <1>4. QED
    BY <1>2, <1>3 DEF CreateFails

(* A thread that ends alone, whatever its result.                          *)
LEMMA OneEnds ==
  ASSUME IInv, NEW p \in Pids, NEW new, \A q \in Pids : proc[q].parent = 0,
         ProcessOK(new, scene, Len(obj)), new.state = "gone", new.parent = 0,
         new.main = proc[p].main,
         Becomes(p, new), UNCHANGED <<scene, closed, names, trouble>>,
         obj' = obj \/ obj' = Emptied(proc')
  PROVE  IInv'
  <1>1. /\ DOMAIN proc = Pids
        /\ \A q \in Pids : ProcessOK(proc[q], scene, Len(obj))
    BY DEF IInv, ProcessesOK
  <1>2. /\ DOMAIN proc' = Pids /\ proc'[p] = new
        /\ \A q \in Pids \ {p} : proc'[q] = proc[q]
    BY <1>1 DEF Becomes
  <1>3. \A q \in Pids : ProcessOK(proc'[q], scene, Len(obj))
    BY <1>1, <1>2
  <1>4. \A q \in Pids : /\ proc'[q].parent = 0
                        /\ proc'[q].main = proc[q].main
                        /\ q # p => proc'[q].state = proc[q].state
                        /\ q = p => proc'[q].state = "gone"
    BY <1>2
  <1>5. FamilyOK'
    BY <1>4, StatesOnly, BoundsAssumption DEF IInv
  <1>6. QED
    BY <1>2, <1>3, <1>5, SeveralStep DEF IInv, SceneOK

(* A thread ends alone and leaves no zombie.                               *)
LEMMA ThreadEndsOK ==
  ASSUME IInv, NEW p \in Pids, ThreadEnds(p)
  PROVE  IInv'
  <1>1. /\ Acts(p) /\ Runs(p) /\ proc[p].code # <<>>
        /\ trouble' \in 0..MaxTrouble
    BY DEF ThreadEnds, Call, Acts, IInv, SceneOK
  <1>2. \A q \in Pids : proc[q].parent = 0
    <2>1. Threaded(scene) /\ ~ Forking(scene)
      BY <1>1, FirstCall, Operands DEF ThreadEnds, Call
    <2>2. QED
      BY <2>1 DEF IInv, FamilyOK
  <1>3. /\ ProcessOK(Stopped(p, ""), scene, Len(obj))
        /\ Stopped(p, "").state = "gone" /\ Stopped(p, "").parent = 0
        /\ Stopped(p, "").main = proc[p].main
    BY <1>1, <1>2, EndedOK
  <1> DEFINE r == Stopped(p, "")
  <1>4. ProcessOK(r, scene, Len(obj)) /\ r.state = "gone" /\ r.parent = 0
        /\ r.main = proc[p].main
    BY <1>3
  <1>5. CASE Becomes(p, r)
    BY <1>1, <1>2, <1>4, <1>5, OneEnds DEF ThreadEnds
  <1>6. CASE Becomes(p, [r EXCEPT !.result = Val(p, Arg(p, 1))])
    <2> DEFINE new == [r EXCEPT !.result = Val(p, Arg(p, 1))]
    <2> HIDE DEF r
    <2>1. ProcessOK(new, scene, Len(obj)) /\ new.state = "gone"
            /\ new.parent = 0
          /\ new.main = proc[p].main
      BY <1>4 DEF ProcessOK, Fields
    <2> HIDE DEF new
    <2>2. Becomes(p, new)
      BY <1>6 DEF new
    <2>3. QED
      BY <1>1, <1>2, <2>1, <2>2, OneEnds DEF ThreadEnds
  <1>7. QED
    BY <1>5, <1>6 DEF ThreadEnds

(* main takes its threads with it, a thread only itself.                   *)
LEMMA ReturnOK ==
  ASSUME IInv, NEW p \in Pids, Return(p)
  PROVE  IInv'
  <1>1. /\ Acts(p) /\ Runs(p)
        /\ trouble' \in 0..MaxTrouble
    BY DEF Return, Call, Acts, IInv, SceneOK
  <1> DEFINE how == IF Call(p, "exit") THEN Arg(p, 1) ELSE "exit 0"
  <1>2. CASE proc[p].main = 0
    <2>1. proc' = Ended(p, how) /\ obj' = Emptied(proc')
          /\ UNCHANGED <<scene, closed, names>>
      BY <1>2 DEF Return
    <2>2. QED
      BY <1>1, <2>1, AllEnd
  <1>3. CASE proc[p].main # 0
    <2>1. Becomes(p, Stopped(p, "")) /\ obj' = Emptied(proc')
          /\ UNCHANGED <<scene, closed, names, trouble>>
      BY <1>3 DEF Return, Becomes
    <2>2. \A q \in Pids : proc[q].parent = 0
      BY <1>3, Kin
    <2>3. QED
      BY <1>1, <2>1, <2>2, EndedOK, OneEnds
  <1>4. QED
    BY <1>2, <1>3

(* SIGPIPE ends the writer.                                                *)
LEMMA BrokenPipeOK ==
  ASSUME IInv, NEW p \in Pids, BrokenPipe(p)
  PROVE  IInv'
  <1>1. /\ Acts(p) /\ Runs(p) /\ proc[p].code # <<>>
        /\ trouble' \in 0..MaxTrouble
    BY DEF BrokenPipe, Call, Acts, IInv, SceneOK
  <1>2. QED
    BY <1>1, AllEnd DEF BrokenPipe

(* A program that misses its file or queue ends.                           *)
LEMMA MissingOK ==
  ASSUME IInv, NEW p \in Pids, Missing(p)
  PROVE  IInv'
  <1>1. /\ Acts(p) /\ Runs(p) /\ proc[p].code # <<>>
        /\ trouble' \in 0..MaxTrouble
    BY DEF Missing, Call, Acts, IInv, SceneOK
  <1>2. QED
    BY <1>1, AllEnd DEF Missing

(* A program whose call failed ends.                                       *)
LEMMA CallFailsOK ==
  ASSUME IInv, NEW p \in Pids, CallFails(p)
  PROVE  IInv'
  <1>1. Runs(p) /\ trouble' \in 0..MaxTrouble
    <2>1. (\E name : Call(p, name)) /\ Trouble
      BY DEF CallFails
    <2>2. QED
      BY <2>1, BoundsAssumption DEF Call, Acts, IInv, SceneOK, Trouble
  <1>2. QED
    BY <1>1, AllEnd DEF CallFails

(* Nothing is written, and a strict program ends.                          *)
LEMMA WriteNowhereOK ==
  ASSUME IInv, NEW p \in Pids, WriteNowhere(p)
  PROVE  IInv'
  <1>1. /\ Acts(p) /\ Runs(p) /\ proc[p].code # <<>>
        /\ trouble' \in 0..MaxTrouble
    BY DEF WriteNowhere, Call, Acts, IInv, SceneOK
  <1>2. CASE proc' = Ended(p, "exit 1")
    BY <1>1, <1>2, AllEnd DEF WriteNowhere
  <1>3. CASE Becomes(p, [Rest(p, <<>>) EXCEPT !.buf = <<>>])
    <2> DEFINE new == [Rest(p, <<>>) EXCEPT !.buf = <<>>]
    <2>1. Keeps(p, new, Len(obj))
      BY <1>1, GoesOn, Short
    <2> HIDE DEF new
    <2>2. Becomes(p, new) /\ obj' = Emptied(proc')
          /\ UNCHANGED <<scene, closed, names, trouble>>
      BY <1>3 DEF WriteNowhere, new
    <2>3. ObjectsOK' /\ Len(obj') = Len(obj)
      BY <2>2, ObjectsEmptied
    <2>4. QED
      BY <1>1, <2>1, <2>2, <2>3, SameNames
  <1>4. QED
    BY <1>2, <1>3 DEF WriteNowhere, Becomes

(* SIGINT ends a process, waits, or is ignored.                            *)
LEMMA InterruptOK ==
  ASSUME IInv, NEW p \in Pids, Interrupt(p)
  PROVE  IInv'
  <1>1. Runs(p) /\ trouble' \in 0..MaxTrouble
    BY BoundsAssumption DEF Interrupt, IInv, SceneOK, Trouble
  <1>2. /\ DOMAIN proc = Pids
        /\ \A q \in Pids : ProcessOK(proc[q], scene, Len(obj))
    BY DEF IInv, ProcessesOK
  <1>3. obj' = Emptied(proc') /\ UNCHANGED <<scene, closed, names>>
    BY DEF Interrupt
  <1>4. CASE proc' = proc
    <2>1. FamilyOK'
      BY <1>3, <1>4 DEF IInv, FamilyOK
    <2>2. QED
      BY <1>1, <1>2, <1>3, <1>4, <2>1, SeveralStep
  <1>5. CASE proc' = [proc EXCEPT ![Leader(p)].pending = @ \cup {"INT"}]
    <2>1. \A r : ProcessOK(r, scene, Len(obj)) =>
            /\ ProcessOK([r EXCEPT !.pending = @ \cup {"INT"}], scene,
                 Len(obj))
            /\ [r EXCEPT !.pending = @ \cup {"INT"}].parent = r.parent
            /\ [r EXCEPT !.pending = @ \cup {"INT"}].main = r.main
            /\ [r EXCEPT !.pending = @ \cup {"INT"}].state = r.state
      BY DEF ProcessOK, Fields
    <2>2. Leader(p) \in Pids
      BY <1>2 DEF ProcessOK, Leader
    <2> DEFINE l == Leader(p)
               new == [proc[l] EXCEPT !.pending = @ \cup {"INT"}]
    <2>3. proc' = [proc EXCEPT ![l] = new]
      BY <1>5
    <2>4. /\ ProcessOK(new, scene, Len(obj)) /\ new.parent = proc[l].parent
          /\ new.main = proc[l].main /\ new.state = proc[l].state
      BY <1>2, <2>1, <2>2
    <2> HIDE DEF l, new
    <2>5. DOMAIN proc' = Pids /\ \A q \in Pids :
            proc'[q] = IF q = l THEN new ELSE proc[q]
      BY <1>2, <2>3
    <2>6. \A q \in Pids : /\ ProcessOK(proc'[q], scene, Len(obj))
                          /\ proc'[q].parent = proc[q].parent
                          /\ proc'[q].main = proc[q].main
                          /\ proc'[q].state = proc[q].state
      BY <1>2, <2>4, <2>5
    <2>7. FamilyOK'
      BY <1>3, <2>6 DEF IInv, FamilyOK
    <2>8. QED
      BY <1>1, <1>3, <2>5, <2>6, <2>7, SeveralStep
  <1>6. CASE proc' = Ended(p, "signal")
    BY <1>1, <1>3, <1>6, AllEnd
  <1>7. QED
    BY <1>4, <1>5, <1>6 DEF Interrupt

(* A new object is in order.                                               *)
LEMMA NewObject ==
  ASSUME NEW kind \in Kinds, NEW data, IsSeq(data),
         kind \in Streaming => Len(data) <= PipeSize
  PROVE  ObjectOK(Object(kind, data))
  BY DEF ObjectOK, Object

(* So are empty ones.                                                      *)
LEMMA EmptyObject ==
  \A kind \in Kinds : ObjectOK(Object(kind, <<>>))
  BY NewObject, Short, BoundsAssumption

(* An object with other data.                                              *)
LEMMA OtherData ==
  ASSUME IInv, NEW o \in DOMAIN obj, NEW data, IsSeq(data),
         obj[o].kind \in Streaming => Len(data) <= PipeSize
  PROVE  /\ ObjectOK([obj[o] EXCEPT !.data = data])
         /\ \A v : ObjectOK([obj[o] EXCEPT !.data = data, !.put = v])
  BY DEF IInv, ObjectsOK, ObjectOK

(* A step of a process that may make one object or name one.               *)
LEMMA GrowStep ==
  ASSUME IInv, NEW p \in Pids, Runs(p), NEW new, Keeps(p, new, Len(obj')),
         Becomes(p, new), ObjectsOK', Len(obj') \in {Len(obj), Len(obj) + 1},
         names' = names
           \/ \E x : \E v \in 0..Len(obj') : names' = [names EXCEPT ![x] = v],
         UNCHANGED <<scene, closed, trouble>>
  PROVE  IInv'
  <1>1. Len(obj) \in Nat /\ names \in [Names -> 0..Len(obj)]
    BY LenOfSeq DEF IInv, ObjectsOK, NamesOK
  <1>2. names \in [Names -> 0..Len(obj')]
    BY <1>1
  <1>3. NamesOK'
    BY <1>2 DEF NamesOK
  <1>4. Len(obj') >= Len(obj) /\ trouble' \in 0..MaxTrouble
    BY <1>1 DEF IInv, SceneOK
  <1>5. QED
    BY <1>3, <1>4, OneStep DEF Keeps

(* More objects do no harm to what a process leaves behind.                *)
LEMMA MoreKept ==
  ASSUME IInv, NEW p \in Pids, NEW new, Keeps(p, new, Len(obj)),
         Len(obj') \in {Len(obj), Len(obj) + 1}
  PROVE  Keeps(p, new, Len(obj'))
  <1>1. Len(obj) \in Nat
    BY LenOfSeq DEF IInv, ObjectsOK
  <1>2. QED
    BY <1>1, MoreObjects DEF Keeps

(* New memory is an object.                                                *)
LEMMA AllocOK ==
  ASSUME IInv, NEW p \in Pids, Alloc(p)
  PROVE  IInv'
  <1>1. /\ Acts(p) /\ Runs(p) /\ proc[p].code # <<>>
        /\ trouble' \in 0..MaxTrouble
    BY DEF Alloc, Call, Acts, IInv, SceneOK
  <1> DEFINE x == Object("memory", [i \in 1..Arg(p, 2) |-> "?"])
             new == [Rest(p, <<>>) EXCEPT !.reg[Arg(p, 1)] = Len(obj) + 1]
  <1>2. Arg(p, 2) \in Nat
    BY <1>1, FirstCall, Operands DEF Alloc, Call, Arg
  <1>3. IsSeq([i \in 1..Arg(p, 2) |-> "?"])
    BY <1>2, ChangedSeq
  <1>4. ObjectOK(x)
    BY <1>3, NewObject DEF Kinds, Streaming
  <1>5. Keeps(p, new, Len(obj))
    BY <1>1, GoesOn
  <1> HIDE DEF x, new
  <1>6. obj' = Append(obj, x) /\ Becomes(p, new)
        /\ UNCHANGED <<scene, closed, names, trouble>>
    BY DEF Alloc, x, new
  <1>7. ObjectsOK' /\ Len(obj') = Len(obj) + 1
    BY <1>4, <1>6, ObjectAdded
  <1>8. QED
    BY <1>1, <1>5, <1>6, <1>7, MoreKept, GrowStep

(* The name stands for a FIFO, a new one if there was none.                *)
LEMMA MkFifoOK ==
  ASSUME IInv, NEW p \in Pids, MkFifo(p)
  PROVE  IInv'
  <1>1. /\ Acts(p) /\ Runs(p) /\ proc[p].code # <<>>
        /\ trouble' \in 0..MaxTrouble
    BY DEF MkFifo, Call, Acts, IInv, SceneOK
  <1> DEFINE new == Rest(p, <<>>)
             x == Object("fifo", <<>>)
  <1>2. Keeps(p, new, Len(obj)) /\ ObjectOK(x)
    BY <1>1, GoesOn, EmptyObject DEF Kinds
  <1> HIDE DEF new, x
  <1>3. Becomes(p, new) /\ UNCHANGED <<scene, closed, trouble>>
    BY DEF MkFifo, new
  <1>4. CASE UNCHANGED <<obj, names>>
    BY <1>1, <1>2, <1>3, <1>4, QuietStep
  <1>5. CASE /\ obj' = Append(obj, x)
             /\ names' = [names EXCEPT ![Arg(p, 1)] = Len(obj) + 1]
    <2>1. ObjectsOK' /\ Len(obj') = Len(obj) + 1
      BY <1>2, <1>5, ObjectAdded
    <2>2. Len(obj) + 1 \in 0..Len(obj')
      BY <2>1, LenOfSeq DEF IInv, ObjectsOK
    <2>3. QED
      BY <1>1, <1>2, <1>3, <1>5, <2>1, <2>2, MoreKept, GrowStep
  <1>6. QED
    BY <1>4, <1>5 DEF MkFifo, x

(* The queue or the memory has the name, new or not.                       *)
LEMMA GetOK ==
  ASSUME IInv, NEW p \in Pids, Get(p)
  PROVE  IInv'
  <1>1. /\ Acts(p) /\ Runs(p) /\ proc[p].code # <<>>
        /\ trouble' \in 0..MaxTrouble
    BY DEF Get, Call, Acts, IInv, SceneOK
  <1> DEFINE o == names[Arg(p, 2)]
             at == IF o = 0 THEN Len(obj) + 1 ELSE o
             new == [Rest(p, <<>>) EXCEPT !.reg[Arg(p, 1)] = at]
             x == Object("object", <<>>)
  <1>2. Keeps(p, new, Len(obj)) /\ ObjectOK(x)
    BY <1>1, GoesOn, EmptyObject DEF Kinds
  <1>3. Arg(p, 2) \in Names
    <2>1. Head(proc[p].code) \in Steps(scene) /\ scene \in DOMAIN Scenes
      BY <1>1, FirstCall
    <2>2. Head(proc[p].code)[1] = "get"
      BY DEF Get, Call
    <2>3. Head(proc[p].code)[3] \in Names
      BY <2>1, <2>2, Operands
    <2>4. QED
      BY <2>3 DEF Arg
  <1>4. o \in 0..Len(obj) /\ Len(obj) \in Nat
    BY <1>3, LenOfSeq DEF IInv, NamesOK, ObjectsOK
  <1> HIDE DEF o, new, x
  <1>5. Becomes(p, new) /\ UNCHANGED <<scene, closed, trouble>>
        /\ obj' = (IF o = 0 THEN Append(obj, x) ELSE obj)
        /\ names' = [names EXCEPT ![Arg(p, 2)] = at]
    BY DEF Get, new, x, o
  <1>6. CASE o = 0
    <2>1. ObjectsOK' /\ Len(obj') = Len(obj) + 1
      BY <1>2, <1>5, <1>6, ObjectAdded
    <2>2. at \in 0..Len(obj')
      BY <1>4, <1>6, <2>1
    <2>3. QED
      BY <1>1, <1>2, <1>5, <2>1, <2>2, MoreKept, GrowStep
  <1>7. CASE o # 0
    <2>1. ObjectsOK' /\ Len(obj') = Len(obj)
      BY <1>5, <1>7 DEF IInv, ObjectsOK
    <2>2. at \in 0..Len(obj')
      BY <1>4, <1>7, <2>1
    <2>3. QED
      BY <1>1, <1>2, <1>5, <2>1, <2>2, MoreKept, GrowStep
  <1>8. QED
    BY <1>6, <1>7

(* A name stands for no object any more.                                   *)
LEMMA UnlinkOK ==
  ASSUME IInv, NEW p \in Pids, Unlink(p)
  PROVE  IInv'
  <1>1. /\ Acts(p) /\ Runs(p) /\ proc[p].code # <<>>
        /\ trouble' \in 0..MaxTrouble
    BY DEF Unlink, Call, Acts, IInv, SceneOK
  <1>2. Keeps(p, Rest(p, <<>>), Len(obj))
    BY <1>1, GoesOn
  <1>3. ObjectsOK' /\ Len(obj') = Len(obj) /\ 0 \in 0..Len(obj')
    BY LenOfSeq DEF Unlink, IInv, ObjectsOK
  <1>4. QED
    BY <1>1, <1>2, <1>3, MoreKept, GrowStep DEF Unlink

(* The two descriptors are the two sides of the new pipe.                  *)
LEMMA PipeOK ==
  ASSUME IInv, NEW p \in Pids, Pipe(p)
  PROVE  IInv'
  <1>1. /\ Acts(p) /\ Runs(p) /\ proc[p].code # <<>>
        /\ trouble' \in 0..MaxTrouble
    BY DEF Pipe, Call, Acts, IInv, SceneOK
  <1> DEFINE o == Len(obj) + 1
             x == Object("pipe", <<>>)
             fd(r, w) == [Rest(p, <<>>) EXCEPT
               !.fd[r] = <<o, "r">>, !.fd[w] = <<o, "w">>,
               !.reg[Arg(p, 1)] = r, !.reg[Arg(p, 2)] = w]
  <1>2. Keeps(p, Rest(p, <<>>), Len(obj)) /\ ObjectOK(x)
    BY <1>1, GoesOn, EmptyObject DEF Kinds
  <1>3. PICK r, w : Becomes(p, fd(r, w))
    BY DEF Pipe
  <1>4. obj' = Append(obj, x) /\ UNCHANGED <<scene, closed, names, trouble>>
    BY DEF Pipe
  <1>5. ObjectsOK' /\ Len(obj') = Len(obj) + 1
    BY <1>2, <1>4, ObjectAdded
  <1> DEFINE before == Rest(p, <<>>)
             new == [before EXCEPT
               !.fd[r] = <<o, "r">>, !.fd[w] = <<o, "w">>,
               !.reg[Arg(p, 1)] = r, !.reg[Arg(p, 2)] = w]
  <1>6. Keeps(p, before, Len(obj')) /\ Becomes(p, new)
    BY <1>2, <1>3, <1>5, MoreKept
  <1>7. o \in 1..Len(obj')
    BY <1>5, LenOfSeq DEF IInv, ObjectsOK
  <1> HIDE DEF before, o
  <1>8. Keeps(p, new, Len(obj'))
    BY <1>6, <1>7 DEF Keeps, ProcessOK, Fields
  <1> HIDE DEF new
  <1>9. QED
    BY <1>1, <1>4, <1>5, <1>6, <1>8, GrowStep

(* The file is there for the descriptor and for the name.                  *)
LEMMA OpenOK ==
  ASSUME IInv, NEW p \in Pids, Open(p)
  PROVE  IInv'
  <1>1. /\ Acts(p) /\ Runs(p) /\ proc[p].code # <<>>
        /\ trouble' \in 0..MaxTrouble
    BY DEF Open, Call, Acts, IInv, SceneOK
  <1> DEFINE f == names[Arg(p, 2)]
             o == IF f = 0 THEN Len(obj) + 1 ELSE f
             d == Lowest(proc[p].fd)
             x == Object("file", <<>>)
             y == [obj[f] EXCEPT !.data = <<>>]
             before == Rest(p, <<>>)
             new == [before EXCEPT !.fd[d] = <<o, Arg(p, 3)>>,
                                   !.reg[Arg(p, 1)] = d]
  <1>2. Keeps(p, before, Len(obj)) /\ ObjectOK(x)
    BY <1>1, GoesOn, EmptyObject DEF Kinds
  <1>3. Arg(p, 2) \in Names /\ Arg(p, 3) \in {"r", "w"}
    <2>1. Head(proc[p].code) \in Steps(scene) /\ scene \in DOMAIN Scenes
          /\ Head(proc[p].code)[1] = "open"
      BY <1>1, FirstCall DEF Open, Call
    <2>2. Head(proc[p].code)[3] \in Names
            /\ Head(proc[p].code)[4] \in {"r", "w"}
      BY <2>1, Operands
    <2>3. QED
      BY <2>2 DEF Arg
  <1>4. f \in 0..Len(obj) /\ Len(obj) \in Nat
    BY <1>3, LenOfSeq DEF IInv, NamesOK, ObjectsOK
  <1>5. Becomes(p, new) /\ UNCHANGED <<scene, closed, trouble>>
        /\ obj' = (IF f = 0 THEN Append(obj, x)
                   ELSE IF Arg(p, 3) = "w" THEN [obj EXCEPT ![f] = y] ELSE obj)
        /\ names' = [names EXCEPT ![Arg(p, 2)] = o]
    BY DEF Open
  <1>6. f \in DOMAIN obj => ObjectOK(y)
    <2>1. IsSeq(<<>>) /\ Len(<<>>) <= PipeSize
      BY Short, BoundsAssumption
    <2>2. QED
      BY <2>1, OtherData
  <1> HIDE DEF f, x, y, before, d
  <1>7. ObjectsOK' /\ Len(obj') \in {Len(obj), Len(obj) + 1}
          /\ o \in 1..Len(obj')
    <2>1. CASE f = 0
      BY <1>2, <1>4, <1>5, <2>1, ObjectAdded
    <2>2. CASE f # 0 /\ Arg(p, 3) = "w"
      <3>1. obj' = [obj EXCEPT ![f] = y]
        BY <1>5, <2>2
      <3>2. ObjectsOK' /\ Len(obj') = Len(obj)
        BY <1>6, <3>1, ObjectChanged
      <3>3. QED
        BY <1>4, <2>2, <3>2
    <2>3. CASE f # 0 /\ Arg(p, 3) # "w"
      BY <1>4, <1>5, <2>3 DEF IInv, ObjectsOK
    <2>4. QED
      BY <2>1, <2>2, <2>3
  <1>8. Keeps(p, before, Len(obj'))
    BY <1>2, <1>7, MoreKept
  <1> HIDE DEF o
  <1>9. Keeps(p, new, Len(obj'))
    BY <1>3, <1>7, <1>8 DEF Keeps, ProcessOK, Fields
  <1>10. o \in 0..Len(obj')
    BY <1>7
  <1> HIDE DEF new
  <1>11. QED
    BY <1>1, <1>5, <1>7, <1>9, <1>10, GrowStep

(* The FIFO counts who opened it.                                          *)
LEMMA OpenFifoOK ==
  ASSUME IInv, NEW p \in Pids, OpenFifo(p)
  PROVE  IInv'
  <1>1. /\ Acts(p) /\ Runs(p) /\ proc[p].code # <<>>
        /\ trouble' \in 0..MaxTrouble
    BY DEF OpenFifo, Call, Acts, IInv, SceneOK
  <1> DEFINE o == names[Arg(p, 2)]
             side == Arg(p, 3)
             other == IF side = "r" THEN "w" ELSE "r"
             d == Lowest(proc[p].fd)
             meet == IF Holders(proc, o, other) # {} THEN <<>>
                     ELSE << <<"meet", o, other, obj[o].opened[other]>> >>
             before == Rest(p, meet)
             new == [before EXCEPT !.fd[d] = <<o, side>>, !.reg[Arg(p, 1)] = d]
             x == [obj[o] EXCEPT !.opened[side] = @ + 1]
  <1>2. Arg(p, 2) \in Names /\ side \in {"r", "w"}
    <2>1. Head(proc[p].code) \in Steps(scene) /\ scene \in DOMAIN Scenes
          /\ Head(proc[p].code)[1] = "openFifo"
      BY <1>1, FirstCall DEF OpenFifo, Call
    <2>2. Head(proc[p].code)[3] \in Names
            /\ Head(proc[p].code)[4] \in {"r", "w"}
      BY <2>1, Operands
    <2>3. QED
      BY <2>2 DEF Arg
  <1>3. /\ o \in 1..Len(obj) /\ Len(obj) \in Nat
        /\ obj' = [obj EXCEPT ![o] = x] /\ Becomes(p, new)
        /\ UNCHANGED <<scene, closed, names, trouble>>
    <2>1. o # 0
      BY DEF OpenFifo
    <2>2. o \in 0..Len(obj) /\ Len(obj) \in Nat
      BY <1>2, LenOfSeq DEF IInv, NamesOK, ObjectsOK
    <2>3. obj' = [obj EXCEPT ![o] = x] /\ Becomes(p, new)
          /\ UNCHANGED <<scene, closed, names, trouble>>
      BY DEF OpenFifo
    <2> HIDE DEF o, x, new
    <2>4. QED
      BY <2>1, <2>2, <2>3
  <1>4. ObjectOK(obj[o]) /\ other \in {"r", "w"}
    BY <1>3, LenOfSeq DEF IInv, ObjectsOK
  <1>5. obj[o].opened[other] \in Nat
    BY <1>4 DEF ObjectOK
  <1> HIDE DEF o, side, other, d
  <1>6. meet \in Seq(Steps(scene))
    <2>1. <<"meet", o, other, obj[o].opened[other]>> \in Steps(scene)
      BY <1>3, <1>4, <1>5 DEF Steps
    <2>2. QED
      BY <2>1
  <1>7. ObjectOK(x)
    BY <1>2, <1>4 DEF ObjectOK
  <1> HIDE DEF x, meet
  <1>8. ObjectsOK' /\ Len(obj') = Len(obj)
    BY <1>3, <1>7, ObjectChanged
  <1>9. Keeps(p, before, Len(obj))
    BY <1>1, <1>6, RestOK DEF Keeps
  <1> HIDE DEF before
  <1>10. Keeps(p, new, Len(obj))
    BY <1>2, <1>3, <1>9 DEF Keeps, ProcessOK, Fields
  <1> HIDE DEF new
  <1>11. QED
    BY <1>1, <1>3, <1>8, <1>10, SameNames

(* A FIFO that nobody holds open any more is emptied.                      *)
LEMMA CloseOK ==
  ASSUME IInv, NEW p \in Pids, Close(p)
  PROVE  IInv'
  <1>1. /\ Acts(p) /\ Runs(p) /\ proc[p].code # <<>>
        /\ trouble' \in 0..MaxTrouble
    BY DEF Close, Call, Acts, IInv, SceneOK
  <1> DEFINE d == Val(p, Arg(p, 1))
             keep == Call(p, "closeUnless") /\ Val(p, Arg(p, 2)) = d
             new == IF keep \/ d = -1 THEN Rest(p, <<>>)
                    ELSE [Rest(p, <<>>) EXCEPT !.fd[d] = Closed]
  <1>2. Keeps(p, Rest(p, <<>>), Len(obj))
        /\ Keeps(p, [Rest(p, <<>>) EXCEPT !.fd[d] = Closed], Len(obj))
    BY <1>1, GoesOn
  <1>3. Keeps(p, new, Len(obj))
    BY <1>2
  <1>4. Becomes(p, new) /\ obj' = Emptied(proc')
        /\ UNCHANGED <<scene, closed, names, trouble>>
    BY DEF Close, Becomes
  <1> HIDE DEF new
  <1>5. ObjectsOK' /\ Len(obj') = Len(obj)
    BY <1>4, ObjectsEmptied
  <1>6. QED
    BY <1>1, <1>3, <1>4, <1>5, SameNames

(* Freed memory is as long as it was.                                      *)
LEMMA FreeOK ==
  ASSUME IInv, NEW p \in Pids, Free(p)
  PROVE  IInv'
  <1>1. /\ Acts(p) /\ Runs(p) /\ proc[p].code # <<>>
        /\ trouble' \in 0..MaxTrouble
    BY DEF Free, Call, Acts, IInv, SceneOK
  <1> DEFINE o == Val(p, Arg(p, 1))
             data == [i \in DOMAIN obj[o].data |-> "?"]
             x == [obj[o] EXCEPT !.data = data]
             new == Rest(p, <<>>)
  <1>2. Keeps(p, new, Len(obj))
    BY <1>1, GoesOn
  <1>3. Becomes(p, new) /\ obj' = [obj EXCEPT ![o] = x]
        /\ UNCHANGED <<scene, closed, names, trouble>>
    BY DEF Free
  <1>4. o \in DOMAIN obj => ObjectOK(x)
    <2>1. SUFFICES ASSUME o \in DOMAIN obj PROVE ObjectOK(x)
      OBVIOUS
    <2>2. ObjectOK(obj[o])
      BY <2>1 DEF IInv, ObjectsOK
    <2>3. IsSeq(data) /\ Len(data) = Len(obj[o].data)
      BY <2>2, ChangedSeq DEF ObjectOK
    <2> HIDE DEF data, o
    <2>4. QED
      BY <2>1, <2>2, <2>3, OtherData DEF ObjectOK
  <1> HIDE DEF x, o, new
  <1>5. ObjectsOK' /\ Len(obj') = Len(obj)
    BY <1>3, <1>4, ObjectChanged
  <1>6. QED
    BY <1>1, <1>2, <1>3, <1>5, SameNames

(* A byte of the memory is changed.                                        *)
LEMMA StoreOK ==
  ASSUME IInv, NEW p \in Pids, Store(p)
  PROVE  IInv'
  <1>1. /\ Acts(p) /\ Runs(p) /\ proc[p].code # <<>>
        /\ trouble' \in 0..MaxTrouble
    BY DEF Store, Call, Acts, IInv, SceneOK
  <1> DEFINE o == Val(p, Arg(p, 1))
             data == [obj[o].data EXCEPT ![Arg(p, 2)] = Arg(p, 3)]
             x == [obj[o] EXCEPT !.data = data]
             new == Rest(p, <<>>)
  <1>2. Keeps(p, new, Len(obj))
    BY <1>1, GoesOn
  <1>3. Becomes(p, new) /\ obj' = [obj EXCEPT ![o] = x]
        /\ UNCHANGED <<scene, closed, names, trouble>>
    BY DEF Store
  <1>4. o \in DOMAIN obj => ObjectOK(x)
    <2>1. SUFFICES ASSUME o \in DOMAIN obj PROVE ObjectOK(x)
      OBVIOUS
    <2>2. ObjectOK(obj[o])
      BY <2>1 DEF IInv, ObjectsOK
    <2>3. \A s, i, y : IsSeq(s) => /\ IsSeq([s EXCEPT ![i] = y])
                                  /\ Len([s EXCEPT ![i] = y]) = Len(s)
      BY ChangedSeq, Zenon
    <2>4. IsSeq(obj[o].data)
      BY <2>2 DEF ObjectOK
    <2>5. IsSeq(data) /\ Len(data) = Len(obj[o].data)
      BY <2>3, <2>4, Zenon
    <2> HIDE DEF data, o
    <2>6. QED
      BY <2>1, <2>2, <2>5, OtherData DEF ObjectOK
  <1> HIDE DEF x, o, new
  <1>5. ObjectsOK' /\ Len(obj') = Len(obj)
    BY <1>3, <1>4, ObjectChanged
  <1>6. QED
    BY <1>1, <1>2, <1>3, <1>5, SameNames

(* The memory gets its page.                                               *)
LEMMA TruncateOK ==
  ASSUME IInv, NEW p \in Pids, Truncate(p)
  PROVE  IInv'
  <1>1. /\ Acts(p) /\ Runs(p) /\ proc[p].code # <<>>
        /\ trouble' \in 0..MaxTrouble
    BY DEF Truncate, Call, Acts, IInv, SceneOK
  <1> DEFINE o == Val(p, Arg(p, 1))
             data == IF obj[o].data = <<>> THEN <<"", "">> ELSE obj[o].data
             x == [obj[o] EXCEPT !.data = data]
             new == Rest(p, <<>>)
  <1>2. Keeps(p, new, Len(obj))
    BY <1>1, GoesOn
  <1>3. Becomes(p, new) /\ obj' = [obj EXCEPT ![o] = x]
          /\ obj[o].kind = "object"
        /\ UNCHANGED <<scene, closed, names, trouble>>
    BY DEF Truncate
  <1>4. o \in DOMAIN obj => ObjectOK(x)
    <2>1. SUFFICES ASSUME o \in DOMAIN obj PROVE ObjectOK(x)
      OBVIOUS
    <2>2. ObjectOK(obj[o])
      BY <2>1 DEF IInv, ObjectsOK
    <2>3. IsSeq(data)
      BY <2>2, Short DEF ObjectOK
    <2> HIDE DEF data, o
    <2>4. QED
      BY <1>3, <2>1, <2>3, OtherData DEF Streaming
  <1> HIDE DEF x, o, new
  <1>5. ObjectsOK' /\ Len(obj') = Len(obj)
    BY <1>3, <1>4, ObjectChanged
  <1>6. QED
    BY <1>1, <1>2, <1>3, <1>5, SameNames

(* The first message leaves the queue.                                     *)
LEMMA ReceiveOK ==
  ASSUME IInv, NEW p \in Pids, Receive(p)
  PROVE  IInv'
  <1>1. /\ Acts(p) /\ Runs(p) /\ proc[p].code # <<>>
        /\ trouble' \in 0..MaxTrouble
    BY DEF Receive, Call, Acts, IInv, SceneOK
  <1> DEFINE o == Val(p, Arg(p, 1))
             x == [obj[o] EXCEPT !.data = Tail(obj[o].data)]
             item == Head(obj[o].data).text
             new == [Rest(p, <<>>) EXCEPT !.buf = <<item>>]
  <1>2. Keeps(p, new, Len(obj))
    BY <1>1, GoesOn, Short
  <1>3. Becomes(p, new) /\ obj' = [obj EXCEPT ![o] = x] /\ obj[o].data # <<>>
        /\ UNCHANGED <<scene, closed, names, trouble>>
    BY DEF Receive
  <1>4. o \in DOMAIN obj => ObjectOK(x)
    <2>1. SUFFICES ASSUME o \in DOMAIN obj PROVE ObjectOK(x)
      OBVIOUS
    <2>2. ObjectOK(obj[o])
      BY <2>1 DEF IInv, ObjectsOK
    <2>3. /\ IsSeq(Tail(obj[o].data))
               /\ Len(Tail(obj[o].data)) = Len(obj[o].data) - 1
          /\ Len(obj[o].data) \in Nat
      BY <1>3, <2>2, RestOfSeq, LenOfSeq DEF ObjectOK
    <2> HIDE DEF o
    <2>4. obj[o].kind \in Streaming => Len(Tail(obj[o].data)) <= PipeSize
      BY <2>2, <2>3, BoundsAssumption DEF ObjectOK
    <2>5. QED
      BY <2>1, <2>3, <2>4, OtherData
  <1> HIDE DEF x, o, new
  <1>5. ObjectsOK' /\ Len(obj') = Len(obj)
    BY <1>3, <1>4, ObjectChanged
  <1>6. QED
    BY <1>1, <1>2, <1>3, <1>5, SameNames

(* The message goes to its place in the queue.                             *)
LEMMA SendOK ==
  ASSUME IInv, NEW p \in Pids, Send(p)
  PROVE  IInv'
  <1>1. /\ Acts(p) /\ Runs(p) /\ proc[p].code # <<>>
        /\ trouble' \in 0..MaxTrouble
    BY DEF Send, Call, Acts, IInv, SceneOK
  <1> DEFINE o == Val(p, Arg(p, 1))
             m == Arg(p, 2)
             before == {i \in DOMAIN obj[o].data :
                          obj[o].data[i].priority >= m.priority}
             n == Cardinality(before) + 1
             data == InsertAt(obj[o].data, n, m)
             v == Append(obj[o].put, m)
             x == [obj[o] EXCEPT !.data = data, !.put = v]
             new == Rest(p, <<>>)
  <1>2. Keeps(p, new, Len(obj))
    BY <1>1, GoesOn
  <1>3. Becomes(p, new) /\ obj' = [obj EXCEPT ![o] = x]
          /\ obj[o].kind = "object"
        /\ UNCHANGED <<scene, closed, names, trouble>>
    BY DEF Send
  <1>4. o \in DOMAIN obj => ObjectOK(x)
    <2>1. SUFFICES ASSUME o \in DOMAIN obj PROVE ObjectOK(x)
      OBVIOUS
    <2>2. IsSeq(obj[o].data)
      BY <2>1 DEF IInv, ObjectsOK, ObjectOK
    <2>3. IsSeq(data)
      <3>1. Len(obj[o].data) \in Nat
              /\ DOMAIN obj[o].data = 1..Len(obj[o].data)
        BY <2>2, LenOfSeq
      <3>2. n \in 1..Len(obj[o].data) + 1
        <4> DEFINE l == Len(obj[o].data)
        <4>1. IsFiniteSet(1..l) /\ Cardinality(1..l) = l
          BY <3>1, FS_Interval
        <4>2. before \subseteq 1..l
          BY <3>1
        <4> HIDE DEF before, l
        <4>3. Cardinality(before) <= l /\ Cardinality(before) \in Nat
          BY <4>1, <4>2, FS_Subset, FS_CardinalityType
        <4>4. QED
          BY <3>1, <4>3 DEF l
      <3> HIDE DEF n
      <3>3. /\ IsSeq(SubSeq(obj[o].data, 1, n - 1)) /\ IsSeq(<<m>>)
            /\ IsSeq(SubSeq(obj[o].data, n, Len(obj[o].data)))
        BY <2>2, <3>1, <3>2, PartOfSeq, Short
      <3>4. QED
        BY <3>3, Joined DEF InsertAt
    <2> HIDE DEF data, o, v
    <2>4. QED
      BY <1>3, <2>1, <2>3, OtherData DEF Streaming
  <1> HIDE DEF x, o, new
  <1>5. ObjectsOK' /\ Len(obj') = Len(obj)
    BY <1>3, <1>4, ObjectChanged
  <1>6. QED
    BY <1>1, <1>2, <1>3, <1>5, SameNames

(* What is written fits into a pipe.                                       *)
LEMMA WriteOK ==
  ASSUME IInv, NEW p \in Pids, Write(p)
  PROVE  IInv'
  <1>1. /\ Acts(p) /\ Runs(p) /\ proc[p].code # <<>>
        /\ trouble' \in 0..MaxTrouble
    BY DEF Write, Call, Acts, IInv, SceneOK
  <1> DEFINE o == Target(p)[1]
             data == obj[o].data \o What(p)
             v == obj[o].put \o What(p)
             x == [obj[o] EXCEPT !.data = data, !.put = v]
             new == [Rest(p, <<>>) EXCEPT !.buf = <<>>]
  <1>2. Keeps(p, new, Len(obj))
    BY <1>1, GoesOn, Short
  <1>3. /\ Becomes(p, new) /\ obj' = [obj EXCEPT ![o] = x]
        /\ o \in Streams => Len(obj[o].data) + Len(What(p)) <= PipeSize
        /\ UNCHANGED <<scene, closed, names, trouble>>
    BY DEF Write
  <1>4. IsSeq(What(p))
    <2>1. IsSeq(proc[p].buf) /\ IsSeq(proc[p].got)
      BY DEF IInv, ProcessesOK, ProcessOK
    <2>2. QED
      BY <2>1, Short DEF What
  <1>5. o \in DOMAIN obj => ObjectOK(x)
    <2>1. SUFFICES ASSUME o \in DOMAIN obj PROVE ObjectOK(x)
      OBVIOUS
    <2>2. IsSeq(obj[o].data)
      BY <2>1 DEF IInv, ObjectsOK, ObjectOK
    <2>3. IsSeq(data) /\ Len(data) = Len(obj[o].data) + Len(What(p))
      BY <1>4, <2>2, Joined
    <2>4. obj[o].kind \in Streaming => Len(data) <= PipeSize
      BY <1>3, <2>1, <2>3 DEF Streams
    <2> HIDE DEF data, o, v
    <2>5. QED
      BY <2>1, <2>3, <2>4, OtherData
  <1> HIDE DEF x, o, new
  <1>6. ObjectsOK' /\ Len(obj') = Len(obj)
    BY <1>3, <1>5, ObjectChanged
  <1>7. QED
    BY <1>1, <1>2, <1>3, <1>6, SameNames

(* What is read leaves the object, and the body of the loop comes next.    *)
LEMMA ReadOK ==
  ASSUME IInv, NEW p \in Pids, Read(p)
  PROVE  IInv'
  <1>1. /\ Acts(p) /\ Runs(p) /\ proc[p].code # <<>>
        /\ trouble' \in 0..MaxTrouble
    BY DEF Read, Call, Acts, IInv, SceneOK
  <1> DEFINE h == Fd(p, Val(p, Arg(p, 1)))
             o == h[1]
             len == Len(obj[o].data)
             k == Min({Arg(p, 2), len})
             some == IF h[2] # "r" THEN <<>> ELSE SubSeq(obj[o].data, 1, k)
             again == IF Call(p, "while") THEN <<Head(proc[p].code)>> ELSE <<>>
             data == SubSeq(obj[o].data, Len(some) + 1, len)
             x == [obj[o] EXCEPT !.data = data]
             buf == IF Arg(p, 3) = <<>> THEN <<>> ELSE some
             got == proc[p].got \o some
             body == Arg(p, 3) \o again
             before == Rest(p, body)
             new == [before EXCEPT !.buf = buf, !.got = got]
  <1>2. /\ obj' = (IF some = <<>> THEN obj ELSE [obj EXCEPT ![o] = x])
        /\ Becomes(p, IF some = <<>> THEN Rest(p, <<>>)
                      ELSE [Rest(p, body) EXCEPT !.buf = buf, !.got = @
                         \o some])
        /\ UNCHANGED <<scene, closed, names, trouble>>
    BY DEF Read
  <1>3. CASE some = <<>>
    <2>1. Keeps(p, Rest(p, <<>>), Len(obj))
      BY <1>1, GoesOn
    <2>2. QED
      BY <1>1, <1>2, <1>3, <2>1, QuietStep
  <1>4. CASE some # <<>>
    <2>1. /\ Head(proc[p].code) \in Steps(scene) /\ scene \in DOMAIN Scenes
          /\ Head(proc[p].code)[1] \in {"while", "read"}
          /\ ProcessOK(proc[p], scene, Len(obj))
      BY <1>1, FirstCall DEF Read, Call
    <2>2. Arg(p, 2) \in Nat /\ Arg(p, 3) \in Seq(Steps(scene))
      BY <2>1, Operands DEF Arg
    <2>3. body \in Seq(Steps(scene))
      <3>1. again \in Seq(Steps(scene))
        BY <2>1
      <3> HIDE DEF again
      <3>2. QED
        BY <2>2, <3>1, ConcatProperties
    <2>4. o \in 1..Len(obj)
      <3>1. h[2] = "r"
        BY <1>4
      <3>2. h = Closed \/ h \in (1..Len(obj)) \X {"r", "w"}
        BY HeldOK
      <3>3. Closed[2] = ""
        BY DEF Closed
      <3>4. h \in (1..Len(obj)) \X {"r", "w"}
        BY <3>1, <3>2, <3>3
      <3> HIDE DEF h
      <3>5. QED
        BY <3>4
    <2>5. ObjectOK(obj[o]) /\ o \in DOMAIN obj
      BY <2>4, LenOfSeq DEF IInv, ObjectsOK
    <2>6. IsSeq(obj[o].data) /\ len \in Nat
      BY <2>5, LenOfSeq DEF ObjectOK
    <2>7. k \in 0..len
      <3>1. k \in {Arg(p, 2), len} /\ k <= len
        <4>1. {Arg(p, 2), len} \subseteq Nat /\ {Arg(p, 2), len} # {}
          BY <2>2, <2>6
        <4>2. QED
          BY <4>1, LeastNumber
      <3>2. QED
        BY <2>2, <2>6, <3>1
    <2>8. IsSeq(some) /\ Len(some) \in 0..len
      <3>1. some = SubSeq(obj[o].data, 1, k)
        BY <1>4
      <3> HIDE DEF some, k, len
      <3>2. k \in Int /\ 1 <= 1 /\ 1 \in Int /\ k <= Len(obj[o].data)
        BY <2>7, <2>6 DEF len
      <3>3. /\ IsSeq(some)
            /\ Len(some) = IF 1 <= k THEN k - 1 + 1 ELSE 0
        BY <2>6, <3>1, <3>2, PartOfSeq
      <3>4. QED
        BY <2>7, <2>6, <3>3
    <2> HIDE DEF some
    <2>9. IsSeq(data) /\ Len(data) <= len
      <3> DEFINE i == Len(some) + 1
      <3>1. i \in Int /\ 1 <= i /\ len \in Int /\ len <= Len(obj[o].data)
        BY <2>6, <2>8
      <3> HIDE DEF i
      <3>2. /\ IsSeq(SubSeq(obj[o].data, i, len))
            /\ Len(SubSeq(obj[o].data, i, len)) = IF i <= len THEN len - i + 1
                 ELSE 0
        BY <2>6, <3>1, PartOfSeq
      <3>3. data = SubSeq(obj[o].data, i, len)
        BY DEF i
      <3> HIDE DEF data, len
      <3>4. QED
        BY <2>6, <3>1, <3>2, <3>3
    <2>10. obj[o].kind \in Streaming => Len(data) <= PipeSize
      <3>1. Len(data) \in Nat
        BY <2>9, LenOfSeq
      <3>2. obj[o].kind \in Streaming => len <= PipeSize
        BY <2>5 DEF ObjectOK
      <3> HIDE DEF data, len
      <3>3. QED
        BY <2>6, <2>9, <3>1, <3>2, BoundsAssumption
    <2>11. ObjectOK(x)
      <3> HIDE DEF data, o
      <3>1. QED
        BY <2>5, <2>9, <2>10, OtherData
    <2>12. IsSeq(buf) /\ IsSeq(got)
      <3>1. IsSeq(proc[p].got)
        BY <2>1 DEF ProcessOK
      <3>2. QED
        BY <2>8, <3>1, Joined, Short
    <2>13. Keeps(p, before, Len(obj)) /\ before.got = proc[p].got
      BY <1>1, <2>3, RestOK DEF Keeps
    <2>14. obj' = [obj EXCEPT ![o] = x]
      BY <1>2, <1>4
    <2>15. Becomes(p, [before EXCEPT !.buf = buf, !.got = @ \o some])
      BY <1>2, <1>4
    <2> HIDE DEF x, o, body, buf, before
    <2>16. ObjectsOK' /\ Len(obj') = Len(obj)
      BY <2>11, <2>14, ObjectChanged
    <2>17. Becomes(p, new)
      BY <2>13, <2>15
    <2> HIDE DEF got
    <2>18. Keeps(p, new, Len(obj))
      BY <2>12, <2>13 DEF Keeps, ProcessOK, Fields
    <2> HIDE DEF new
    <2>19. QED
      BY <1>1, <1>2, <2>16, <2>17, <2>18, SameNames
  <1>5. QED
    BY <1>3, <1>4

-----------------------------------------------------------------------------
(* The theorem.                                                            *)

(* The invariant holds at the start of every scene.                        *)
LEMMA InitOK == Init => IInv
  <1> SUFFICES ASSUME Init
               PROVE  IInv
    OBVIOUS
  <1> DEFINE S == Scenes[scene]
             given == 1 .. 1 + Len(S.objects)
  <1>1. /\ Wellmade(S.calls) /\ scene \in DOMAIN Scenes
        /\ \A p \in DOMAIN S.start :
             S.start[p] \in Seq(S.calls)
                /\ {S.input[p], S.output[p]} \subseteq given
        /\ S.closed \subseteq SUBSET (0..2)
        /\ S.file \in {0} \cup given
        /\ IsSeq(S.objects)
        /\ \A i \in DOMAIN S.objects :
             LET o == S.objects[i] IN
             /\ o = Object(o.kind, o.data) /\ o.kind \in Kinds /\ IsSeq(o.data)
             /\ o.kind \in Streaming => Len(o.data) <= PipeSize
    BY ScenesAssumption DEF Init
  <1>2. SceneOK
    BY <1>1, BoundsAssumption DEF Init, SceneOK
  <1> DEFINE screen == Object("file", <<>>)
  <1>3. Len(obj) = 1 + Len(S.objects) /\ ObjectsOK
    <2>1. ObjectOK(screen)
      BY EmptyObject DEF Kinds
    <2>2. \A i \in DOMAIN S.objects : ObjectOK(S.objects[i])
      BY <1>1, NewObject
    <2>3. obj = <<screen>> \o S.objects
      BY DEF Init
    <2> DEFINE T == {screen} \cup Range(S.objects)
               objects == S.objects
    <2> HIDE DEF screen
    <2>4. <<screen>> \in Seq(T) /\ objects \in Seq(T)
      BY <1>1, SeqMonotonic DEF IsSeq
    <2>5. \A y \in T : ObjectOK(y)
      BY <2>1, <2>2 DEF Range
    <2> HIDE DEF T, objects
    <2>6. <<screen>> \o objects \in Seq(T)
          /\ Len(<<screen>> \o objects) = 1 + Len(objects)
      BY <2>4
    <2>7. obj \in Seq(T) /\ Len(obj) = 1 + Len(objects)
      BY <2>3, <2>6 DEF objects
    <2>8. \A i \in DOMAIN obj : obj[i] \in T
      BY <2>7, ElementOfSeq, LenProperties
    <2>9. QED
      BY <2>5, <2>7, <2>8, AnySeq DEF ObjectsOK, objects
  <1>4. Len(S.objects) \in Nat
    BY <1>1, LenOfSeq
  <1>5. NamesOK
    BY <1>1, <1>3, <1>4 DEF Init, NamesOK
  <1>6. ProcessesOK /\ \A p \in Pids : /\ proc[p].state \in {"runs", "none"}
                                       /\ proc[p].parent = 0 /\ proc[p].main
                                            = 0
    <2> DEFINE fd(p) == [d \in 0..MaxFd |->
                 CASE d \in closed -> Closed
                   [] d = 0 -> <<S.input[p], "r">>
                   [] d = 1 -> <<S.output[p], "w">>
                   [] d = 2 -> <<tty, "w">>
                   [] OTHER -> Closed]
               nofd == [d \in 0..MaxFd |-> Closed]
    <2>1. DOMAIN proc = Pids /\ \A p \in Pids :
            proc[p] = IF p \in DOMAIN S.start THEN Process(S.start[p], fd(p))
                      ELSE [Process(<<>>, nofd) EXCEPT !.state = "none"]
      BY DEF Init
    <2>2. <<>> \in Seq(Steps(scene)) /\ IsSeq(<<>>)
      BY EmptySeq, Short
    <2>3. \A p \in DOMAIN S.start : S.start[p] \in Seq(Steps(scene))
      BY <1>1, SeqMonotonic DEF Steps
    <2>4. \A p \in DOMAIN S.start :
            /\ DOMAIN fd(p) = 0..MaxFd
            /\ \A d \in 0..MaxFd : fd(p)[d] # Closed =>
                 fd(p)[d] \in (1..Len(obj)) \X {"r", "w"}
      BY <1>1, <1>3, <1>4 DEF tty
    <2> HIDE DEF fd
    <2>5. \A code \in Seq(Steps(scene)) : \A f :
            (/\ DOMAIN f = 0..MaxFd
             /\ \A d \in 0..MaxFd : f[d] # Closed =>
                  f[d] \in (1..Len(obj)) \X {"r", "w"})
            => /\ ProcessOK(Process(code, f), scene, Len(obj))
               /\ Process(code, f).state = "runs"
                    /\ Process(code, f).parent = 0
               /\ Process(code, f).main = 0
      BY <2>2 DEF Process, ProcessOK, Fields
    <2>6. \A p \in DOMAIN S.start :
               /\ ProcessOK(Process(S.start[p], fd(p)), scene, Len(obj))
               /\ Process(S.start[p], fd(p)).state = "runs"
               /\ Process(S.start[p], fd(p)).parent = 0
               /\ Process(S.start[p], fd(p)).main = 0
      BY <2>3, <2>4, <2>5
    <2>7. /\ ProcessOK([Process(<<>>, nofd) EXCEPT !.state = "none"], scene,
               Len(obj))
          /\ [Process(<<>>, nofd) EXCEPT !.state = "none"].state = "none"
          /\ [Process(<<>>, nofd) EXCEPT !.state = "none"].parent = 0
          /\ [Process(<<>>, nofd) EXCEPT !.state = "none"].main = 0
      BY <2>2 DEF Process, ProcessOK, Fields
    <2> HIDE DEF nofd
    <2>8. \A p \in Pids : /\ ProcessOK(proc[p], scene, Len(obj))
                          /\ proc[p].state \in {"runs", "none"}
                          /\ proc[p].parent = 0 /\ proc[p].main = 0
      <3> SUFFICES ASSUME NEW p \in Pids
                   PROVE  /\ ProcessOK(proc[p], scene, Len(obj))
                          /\ proc[p].state \in {"runs", "none"}
                          /\ proc[p].parent = 0 /\ proc[p].main = 0
        OBVIOUS
      <3>1. CASE p \in DOMAIN S.start
        <4>1. proc[p] = Process(S.start[p], fd(p))
          BY <2>1, <3>1
        <4>2. QED
          BY <2>6, <3>1, <4>1
      <3>2. CASE p \notin DOMAIN S.start
        <4>1. proc[p] = [Process(<<>>, nofd) EXCEPT !.state = "none"]
          BY <2>1, <3>2
        <4>2. QED
          BY <2>7, <4>1
      <3>3. QED
        BY <3>1, <3>2
    <2>9. QED
      BY <2>1, <2>8 DEF ProcessesOK
  <1>7. FamilyOK
    BY <1>6 DEF FamilyOK
  <1>8. QED
    BY <1>2, <1>3, <1>5, <1>6, <1>7 DEF IInv

(* Every step keeps it.                                                    *)
LEMMA NextOK == IInv /\ [Next]_vars => IInv'
  <1> SUFFICES ASSUME IInv, [Next]_vars
               PROVE  IInv'
    OBVIOUS
  <1>1. CASE UNCHANGED vars
    BY <1>1 DEF vars, IInv, SceneOK, ObjectsOK, NamesOK, ProcessesOK, FamilyOK
  <1>2. ASSUME NEW p \in Pids, Calls(p)
        PROVE  IInv'
    BY <1>2, OpenOK, MkFifoOK, OpenFifoOK, MeetOK, PipeOK, DupOK,
       CloseOK, ReadOK, WriteOK, BrokenPipeOK, WriteNowhereOK,
       ForkOK, ExecOK, WaitOK, ReturnOK, MissingOK, SigActionOK,
       DeliverOK, SigReturnOK, GetOK, SendOK, ReceiveOK,
       UnlinkOK, TruncateOK, StoreOK, LoadOK, CreateOK, SelfOK,
       GetPpidOK, MmapOK,
       JoinOK, CancelOK, NoThreadOK, ThreadEndsOK, SigMaskOK,
       SigWaitOK, AllocOK, FreeOK
       DEF Calls
  <1>3. ASSUME NEW p \in Pids,
               CallFails(p) \/ ForkFails(p) \/ CreateFails(p) \/ Interrupt(p)
        PROVE  IInv'
    BY <1>3, CallFailsOK, ForkFailsOK, CreateFailsOK, InterruptOK
  <1>4. QED
    BY <1>1, <1>2, <1>3 DEF Next

(* Every process has a state and a code to match, every descriptor and     *)
(* every name stands for an object the kernel has, a pipe keeps its bound, *)
(* and a zombie has a parent that can still wait for it, whatever programs *)
(* run together (cijev.c, prebroji.c, noparent.c, nozombie.c, fifoprimi.c).*)
THEOREM TypeCorrect == Spec => []TypeOK
  <1>1. IInv => TypeOK
    <2> SUFFICES ASSUME IInv
                 PROVE  TypeOK
      OBVIOUS
    <2>1. \A p \in Pids :
       /\ proc[p].state \in {"none", "runs", "zombie", "gone"}
       /\ proc[p].state # "runs" => proc[p].code = <<>>
       /\ \A d \in 0..MaxFd : proc[p].fd[d] # Closed =>
            proc[p].fd[d] \in (DOMAIN obj) \X {"r", "w"}
      BY LenOfSeq DEF IInv, ProcessesOK, ProcessOK, ObjectsOK
    <2>2. \A p \in Pids : proc[p].state = "zombie" => Runs(proc[p].parent)
      BY DEF IInv, FamilyOK, Runs
    <2>3. \A o \in DOMAIN obj :
            /\ obj[o].kind \in Kinds
            /\ obj[o].kind \in Streaming => Len(obj[o].data) <= PipeSize
      BY DEF IInv, ObjectsOK, ObjectOK
    <2>4. QED
      BY <2>1, <2>2, <2>3 DEF TypeOK, IInv, SceneOK, NamesOK
  <1>2. QED
    BY <1>1, InitOK, NextOK, PTL DEF Spec

-----------------------------------------------------------------------------
(* What steps do to signals, and to the code.                              *)

(* The calls of Q bring no others into the code.                           *)
Closes(Q) ==
  /\ {"meet"} \X Nat \X {"r", "w"} \X Nat \subseteq Q
  /\ \A c \in Q : c[1] \in {"while", "read", "fork", "exec"} =>
       Parts(c) \subseteq Seq(Q)

(* Nothing about a process changes that others, or signals, look at.       *)
Same(new, old) ==
  /\ new.state = old.state /\ new.parent = old.parent /\ new.main = old.main
  /\ new.handler = old.handler /\ new.masked = old.masked
  /\ new.pending = old.pending /\ new.how = old.how

(* One process makes a call that concerns no other, and no signal.         *)
Local(p, Q) ==
  /\ Runs(p) /\ Becomes(p, proc'[p])
  /\ Same(proc'[p], proc[p])
  /\ proc[p].code # <<>>
  /\ Head(proc[p].code)[1] \notin {"wait", "sigaction", "sigreturn", "sigmask"}
  /\ proc[p].code \in Seq(Q) => proc'[p].code \in Seq(Q)

(* The rest of a code of such calls, and some of them before it.           *)
LEMMA RestIn ==
  ASSUME NEW Q, NEW code \in Seq(Q), code # <<>>
  PROVE  /\ Tail(code) \in Seq(Q) /\ Head(code) \in Q
         /\ <<>> \o Tail(code) \in Seq(Q)
         /\ \A body \in Seq(Q) : body \o Tail(code) \in Seq(Q)
  <1>1. Tail(code) \in Seq(Q) /\ Head(code) \in Q
    OBVIOUS
  <1>2. QED
    BY <1>1, ConcatProperties, EmptySeq

(* A call that leaves everything else alone is local.                      *)
LEMMA LocalRest ==
  ASSUME IInv, NEW p \in Pids, Acts(p), proc[p].code # <<>>, NEW Q,
         Head(proc[p].code)[1]
           \notin {"wait", "sigaction", "sigreturn", "sigmask"},
         NEW body, proc[p].code \in Seq(Q) => body \in Seq(Q),
         NEW new, Becomes(p, new), Same(new, proc[p]),
         new.code = body \o Tail(proc[p].code)
  PROVE  Local(p, Q)
  <1>1. proc'[p] = new
    BY DEF Becomes, IInv, ProcessesOK
  <1>2. proc[p].code \in Seq(Q) => new.code \in Seq(Q)
    BY RestIn
  <1>3. QED
    BY <1>1, <1>2 DEF Local, Acts

(* What Rest changes, and what it does not.                                *)
LEMMA RestSame ==
  ASSUME IInv, NEW p \in Pids, Acts(p), proc[p].code # <<>>
  PROVE  \A body : /\ Same(Rest(p, body), proc[p])
                   /\ Rest(p, body).code = body \o Tail(proc[p].code)
                   /\ DOMAIN Rest(p, body) = Fields
  <1>1. DOMAIN proc[p] = Fields
    BY DEF IInv, ProcessesOK, ProcessOK
  <1>2. QED
    BY <1>1 DEF Rest, Same, Fields

(* A change of the fields that no other process and no signal looks at.    *)
Changed(new, r) ==
  \/ new = r
  \/ \E x, v : new = [r EXCEPT !.reg[x] = v]
  \/ \E v : new = [r EXCEPT !.buf = v]
  \/ \E v, w : new = [r EXCEPT !.buf = v, !.got = w]
  \/ \E d, e : new = [r EXCEPT !.fd[d] = e]
  \/ \E d, e, x, v : new = [r EXCEPT !.fd[d] = e, !.reg[x] = v]
  \/ \E d, e, x, v, d2, e2, x2, v2 :
       new = [r EXCEPT !.fd[d] = e, !.fd[d2] = e2,
                       !.reg[x] = v, !.reg[x2] = v2]

(* It leaves the rest alone.                                               *)
LEMMA ChangedSame ==
  ASSUME NEW r, DOMAIN r = Fields, NEW new, Changed(new, r)
  PROVE  Same(new, r) /\ new.code = r.code
  <1>1. CASE new = r
    BY <1>1 DEF Same
  <1>2. CASE \E x, v : new = [r EXCEPT !.reg[x] = v]
    BY <1>2 DEF Same, Fields
  <1>3. CASE \E v : new = [r EXCEPT !.buf = v]
    BY <1>3 DEF Same, Fields
  <1>4. CASE \E v, w : new = [r EXCEPT !.buf = v, !.got = w]
    BY <1>4 DEF Same, Fields
  <1>5. CASE \E d, e : new = [r EXCEPT !.fd[d] = e]
    BY <1>5 DEF Same, Fields
  <1>6. CASE \E d, e, x, v : new = [r EXCEPT !.fd[d] = e, !.reg[x] = v]
    BY <1>6 DEF Same, Fields
  <1>7. CASE \E d, e, x, v, d2, e2, x2, v2 :
               new = [r EXCEPT !.fd[d] = e, !.fd[d2] = e2,
                               !.reg[x] = v, !.reg[x2] = v2]
    BY <1>7 DEF Same, Fields
  <1>8. QED
    BY <1>1, <1>2, <1>3, <1>4, <1>5, <1>6, <1>7 DEF Changed

(* A process goes on, with or without such a change.                       *)
LEMMA LocalGoesOn ==
  ASSUME IInv, NEW p \in Pids, Acts(p), proc[p].code # <<>>, NEW Q,
         Head(proc[p].code)[1]
           \notin {"wait", "sigaction", "sigreturn", "sigmask"},
         NEW body, proc[p].code \in Seq(Q) => body \in Seq(Q),
         NEW new, Becomes(p, new), Changed(new, Rest(p, body))
  PROVE  Local(p, Q)
  <1> DEFINE r == Rest(p, body)
  <1>1. Same(r, proc[p]) /\ r.code = body \o Tail(proc[p].code)
          /\ DOMAIN r = Fields
    BY RestSame
  <1> HIDE DEF r
  <1>2. Same(new, r) /\ new.code = r.code
    BY <1>1, ChangedSame DEF r
  <1>3. Same(new, proc[p]) /\ new.code = body \o Tail(proc[p].code)
    BY <1>1, <1>2 DEF Same
  <1>4. QED
    BY <1>3, LocalRest

(* A process ends, and all its threads.                                    *)
Dies(p) == Runs(p) /\ \E how : proc' = Ended(p, how)

(* Meeting at a FIFO concerns no other process.                            *)
LEMMA MeetLocal ==
  ASSUME IInv, NEW p \in Pids, Meet(p), NEW Q
  PROVE  Local(p, Q)
  <1>1. /\ Acts(p) /\ proc[p].code # <<>>
        /\ Head(proc[p].code)[1]
             \notin {"wait", "sigaction", "sigreturn", "sigmask"}
    BY DEF Meet, Call
  <1>2. PICK new : Becomes(p, new) /\ Changed(new, Rest(p, <<>>))
    BY DEF Meet, Changed
  <1>3. QED
    BY <1>1, <1>2, LocalGoesOn, EmptySeq

(* mkfifo makes an object, or none.                                        *)
LEMMA MkFifoLocal ==
  ASSUME IInv, NEW p \in Pids, MkFifo(p), NEW Q
  PROVE  Local(p, Q)
  <1>1. /\ Acts(p) /\ proc[p].code # <<>>
        /\ Head(proc[p].code)[1]
             \notin {"wait", "sigaction", "sigreturn", "sigmask"}
    BY DEF MkFifo, Call
  <1>2. PICK new : Becomes(p, new) /\ Changed(new, Rest(p, <<>>))
    BY DEF MkFifo, Changed
  <1>3. QED
    BY <1>1, <1>2, LocalGoesOn, EmptySeq

(* Sending changes a queue.                                                *)
LEMMA SendLocal ==
  ASSUME IInv, NEW p \in Pids, Send(p), NEW Q
  PROVE  Local(p, Q)
  <1>1. /\ Acts(p) /\ proc[p].code # <<>>
        /\ Head(proc[p].code)[1]
             \notin {"wait", "sigaction", "sigreturn", "sigmask"}
    BY DEF Send, Call
  <1>2. PICK new : Becomes(p, new) /\ Changed(new, Rest(p, <<>>))
    BY DEF Send, Changed
  <1>3. QED
    BY <1>1, <1>2, LocalGoesOn, EmptySeq

(* unlink changes a name.                                                  *)
LEMMA UnlinkLocal ==
  ASSUME IInv, NEW p \in Pids, Unlink(p), NEW Q
  PROVE  Local(p, Q)
  <1>1. /\ Acts(p) /\ proc[p].code # <<>>
        /\ Head(proc[p].code)[1]
             \notin {"wait", "sigaction", "sigreturn", "sigmask"}
    BY DEF Unlink, Call
  <1>2. PICK new : Becomes(p, new) /\ Changed(new, Rest(p, <<>>))
    BY DEF Unlink, Changed
  <1>3. QED
    BY <1>1, <1>2, LocalGoesOn, EmptySeq

(* ftruncate changes the memory.                                           *)
LEMMA TruncateLocal ==
  ASSUME IInv, NEW p \in Pids, Truncate(p), NEW Q
  PROVE  Local(p, Q)
  <1>1. /\ Acts(p) /\ proc[p].code # <<>>
        /\ Head(proc[p].code)[1]
             \notin {"wait", "sigaction", "sigreturn", "sigmask"}
    BY DEF Truncate, Call
  <1>2. PICK new : Becomes(p, new) /\ Changed(new, Rest(p, <<>>))
    BY DEF Truncate, Changed
  <1>3. QED
    BY <1>1, <1>2, LocalGoesOn, EmptySeq

(* Filling memory changes an object.                                       *)
LEMMA StoreLocal ==
  ASSUME IInv, NEW p \in Pids, Store(p), NEW Q
  PROVE  Local(p, Q)
  <1>1. /\ Acts(p) /\ proc[p].code # <<>>
        /\ Head(proc[p].code)[1]
             \notin {"wait", "sigaction", "sigreturn", "sigmask"}
    BY DEF Store, Call
  <1>2. PICK new : Becomes(p, new) /\ Changed(new, Rest(p, <<>>))
    BY DEF Store, Changed
  <1>3. QED
    BY <1>1, <1>2, LocalGoesOn, EmptySeq

(* free changes an object.                                                 *)
LEMMA FreeLocal ==
  ASSUME IInv, NEW p \in Pids, Free(p), NEW Q
  PROVE  Local(p, Q)
  <1>1. /\ Acts(p) /\ proc[p].code # <<>>
        /\ Head(proc[p].code)[1]
             \notin {"wait", "sigaction", "sigreturn", "sigmask"}
    BY DEF Free, Call
  <1>2. PICK new : Becomes(p, new) /\ Changed(new, Rest(p, <<>>))
    BY DEF Free, Changed
  <1>3. QED
    BY <1>1, <1>2, LocalGoesOn, EmptySeq

(* pthread_self changes a variable.                                        *)
LEMMA SelfLocal ==
  ASSUME IInv, NEW p \in Pids, Self(p), NEW Q
  PROVE  Local(p, Q)
  <1>1. /\ Acts(p) /\ proc[p].code # <<>>
        /\ Head(proc[p].code)[1]
             \notin {"wait", "sigaction", "sigreturn", "sigmask"}
    BY DEF Self, Call
  <1>2. PICK new : Becomes(p, new) /\ Changed(new, Rest(p, <<>>))
    BY DEF Self, Changed
  <1>3. QED
    BY <1>1, <1>2, LocalGoesOn, EmptySeq

(* getppid changes a variable.                                             *)
LEMMA GetPpidLocal ==
  ASSUME IInv, NEW p \in Pids, GetPpid(p), NEW Q
  PROVE  Local(p, Q)
  <1>1. /\ Acts(p) /\ proc[p].code # <<>>
        /\ Head(proc[p].code)[1]
             \notin {"wait", "sigaction", "sigreturn", "sigmask"}
    BY DEF GetPpid, Call
  <1>2. PICK new : Becomes(p, new) /\ Changed(new, Rest(p, <<>>))
    BY DEF GetPpid, Changed
  <1>3. QED
    BY <1>1, <1>2, LocalGoesOn, EmptySeq

(* mmap changes a variable.                                                *)
LEMMA MmapLocal ==
  ASSUME IInv, NEW p \in Pids, Mmap(p), NEW Q
  PROVE  Local(p, Q)
  <1>1. /\ Acts(p) /\ proc[p].code # <<>>
        /\ Head(proc[p].code)[1]
             \notin {"wait", "sigaction", "sigreturn", "sigmask"}
    BY DEF Mmap, Call
  <1>2. PICK new : Becomes(p, new) /\ Changed(new, Rest(p, <<>>))
    BY DEF Mmap, Changed
  <1>3. QED
    BY <1>1, <1>2, LocalGoesOn, EmptySeq

(* pthread_join changes a variable.                                        *)
LEMMA JoinLocal ==
  ASSUME IInv, NEW p \in Pids, Join(p), NEW Q
  PROVE  Local(p, Q)
  <1>1. /\ Acts(p) /\ proc[p].code # <<>>
        /\ Head(proc[p].code)[1]
             \notin {"wait", "sigaction", "sigreturn", "sigmask"}
    BY DEF Join, Call
  <1>2. PICK new : Becomes(p, new) /\ Changed(new, Rest(p, <<>>))
    <2>1. PICK x, v : Becomes(p, [Rest(p, <<>>) EXCEPT !.reg[x] = v])
      BY DEF Join
    <2>2. Changed([Rest(p, <<>>) EXCEPT !.reg[x] = v], Rest(p, <<>>))
      BY DEF Changed
    <2>3. QED
      BY <2>1, <2>2
  <1>3. QED
    BY <1>1, <1>2, LocalGoesOn, EmptySeq

(* An allocation changes a variable.                                       *)
LEMMA AllocLocal ==
  ASSUME IInv, NEW p \in Pids, Alloc(p), NEW Q
  PROVE  Local(p, Q)
  <1>1. /\ Acts(p) /\ proc[p].code # <<>>
        /\ Head(proc[p].code)[1]
             \notin {"wait", "sigaction", "sigreturn", "sigmask"}
    BY DEF Alloc, Call
  <1>2. PICK new : Becomes(p, new) /\ Changed(new, Rest(p, <<>>))
    BY DEF Alloc, Changed
  <1>3. QED
    BY <1>1, <1>2, LocalGoesOn, EmptySeq

(* So does opening a queue or memory.                                      *)
LEMMA GetLocal ==
  ASSUME IInv, NEW p \in Pids, Get(p), NEW Q
  PROVE  Local(p, Q)
  <1>1. /\ Acts(p) /\ proc[p].code # <<>>
        /\ Head(proc[p].code)[1]
             \notin {"wait", "sigaction", "sigreturn", "sigmask"}
    BY DEF Get, Call
  <1>2. PICK new : Becomes(p, new) /\ Changed(new, Rest(p, <<>>))
    <2>1. PICK at : Becomes(p, [Rest(p, <<>>) EXCEPT !.reg[Arg(p, 1)] = at])
      BY DEF Get
    <2>2. Changed([Rest(p, <<>>) EXCEPT !.reg[Arg(p, 1)] = at], Rest(p, <<>>))
      BY Zenon DEF Changed
    <2>3. QED
      BY <2>1, <2>2
  <1>3. QED
    BY <1>1, <1>2, LocalGoesOn, EmptySeq

(* Receiving changes buf.                                                  *)
LEMMA ReceiveLocal ==
  ASSUME IInv, NEW p \in Pids, Receive(p), NEW Q
  PROVE  Local(p, Q)
  <1>1. /\ Acts(p) /\ proc[p].code # <<>>
        /\ Head(proc[p].code)[1]
             \notin {"wait", "sigaction", "sigreturn", "sigmask"}
    BY DEF Receive, Call
  <1>2. PICK new : Becomes(p, new) /\ Changed(new, Rest(p, <<>>))
    <2>1. PICK v : Becomes(p, [Rest(p, <<>>) EXCEPT !.buf = v])
      BY DEF Receive
    <2>2. Changed([Rest(p, <<>>) EXCEPT !.buf = v], Rest(p, <<>>))
      BY Zenon DEF Changed
    <2>3. QED
      BY <2>1, <2>2
  <1>3. QED
    BY <1>1, <1>2, LocalGoesOn, EmptySeq

(* Writing empties buf.                                                    *)
LEMMA WriteLocal ==
  ASSUME IInv, NEW p \in Pids, Write(p), NEW Q
  PROVE  Local(p, Q)
  <1>1. /\ Acts(p) /\ proc[p].code # <<>>
        /\ Head(proc[p].code)[1]
             \notin {"wait", "sigaction", "sigreturn", "sigmask"}
    BY DEF Write, Call
  <1>2. PICK new : Becomes(p, new) /\ Changed(new, Rest(p, <<>>))
    <2>1. PICK v : Becomes(p, [Rest(p, <<>>) EXCEPT !.buf = v])
      BY DEF Write
    <2>2. Changed([Rest(p, <<>>) EXCEPT !.buf = v], Rest(p, <<>>))
      BY Zenon DEF Changed
    <2>3. QED
      BY <2>1, <2>2
  <1>3. QED
    BY <1>1, <1>2, LocalGoesOn, EmptySeq

(* open changes a descriptor and a variable.                               *)
LEMMA OpenLocal ==
  ASSUME IInv, NEW p \in Pids, Open(p), NEW Q
  PROVE  Local(p, Q)
  <1>1. /\ Acts(p) /\ proc[p].code # <<>>
        /\ Head(proc[p].code)[1]
             \notin {"wait", "sigaction", "sigreturn", "sigmask"}
    BY DEF Open, Call
  <1>2. PICK new : Becomes(p, new) /\ Changed(new, Rest(p, <<>>))
    <2>1. PICK d, e : Becomes(p, [Rest(p, <<>>) EXCEPT !.fd[d] = e,
                                                !.reg[Arg(p, 1)] = d])
      BY DEF Open
    <2>2. Changed([Rest(p, <<>>) EXCEPT !.fd[d] = e,
                                                !.reg[Arg(p, 1)] = d], Rest(p,
                                                   <<>>))
      BY Zenon DEF Changed
    <2>3. QED
      BY <2>1, <2>2
  <1>3. QED
    BY <1>1, <1>2, LocalGoesOn, EmptySeq

(* pipe changes two of each.                                               *)
LEMMA PipeLocal ==
  ASSUME IInv, NEW p \in Pids, Pipe(p), NEW Q
  PROVE  Local(p, Q)
  <1>1. /\ Acts(p) /\ proc[p].code # <<>>
        /\ Head(proc[p].code)[1]
             \notin {"wait", "sigaction", "sigreturn", "sigmask"}
    BY DEF Pipe, Call
  <1>2. PICK new : Becomes(p, new) /\ Changed(new, Rest(p, <<>>))
    <2>1. PICK o, r, w : Becomes(p, [Rest(p, <<>>) EXCEPT 
             !.fd[r] = <<o, "r">>, !.fd[w] = <<o, "w">>,
             !.reg[Arg(p, 1)] = r, !.reg[Arg(p, 2)] = w])
      BY DEF Pipe
    <2>2. Changed([Rest(p, <<>>) EXCEPT 
             !.fd[r] = <<o, "r">>, !.fd[w] = <<o, "w">>,
             !.reg[Arg(p, 1)] = r, !.reg[Arg(p, 2)] = w], Rest(p, <<>>))
      BY Zenon DEF Changed
    <2>3. QED
      BY <2>1, <2>2
  <1>3. QED
    BY <1>1, <1>2, LocalGoesOn, EmptySeq

(* dup and dup2 change a descriptor and a variable, or only this.          *)
LEMMA DupLocal ==
  ASSUME IInv, NEW p \in Pids, Dup(p), NEW Q
  PROVE  Local(p, Q)
  <1>1. /\ Acts(p) /\ proc[p].code # <<>>
        /\ Head(proc[p].code)[1]
             \notin {"wait", "sigaction", "sigreturn", "sigmask"}
    BY DEF Dup, Call
  <1>2. PICK new : Becomes(p, new) /\ Changed(new, Rest(p, <<>>))
    <2> DEFINE from == Fd(p, Val(p, Arg(p, 2)))
               d == IF Call(p, "dup") THEN Lowest(proc[p].fd)
                    ELSE Val(p, Arg(p, 3))
               r == Rest(p, <<>>)
               x == Arg(p, 1)
               v == -1
               one == [r EXCEPT !.reg[x] = v]
               two == [r EXCEPT !.fd[d] = from, !.reg[x] = d]
    <2>1. Becomes(p, one) \/ Becomes(p, two)
      <3>1. Becomes(p, IF from = Closed THEN one ELSE two)
        BY DEF Dup
      <3> HIDE DEF one, two, from
      <3>2. QED
        BY <3>1
    <2> HIDE DEF r, x, v, d, from
    <2>2. Changed(one, r) /\ Changed(two, r)
      BY Zenon DEF Changed
    <2> HIDE DEF one, two
    <2>3. QED
      BY <2>1, <2>2 DEF r
  <1>3. QED
    BY <1>1, <1>2, LocalGoesOn, EmptySeq

(* close changes a descriptor, or nothing.                                 *)
LEMMA CloseLocal ==
  ASSUME IInv, NEW p \in Pids, Close(p), NEW Q
  PROVE  Local(p, Q)
  <1>1. /\ Acts(p) /\ proc[p].code # <<>>
        /\ Head(proc[p].code)[1]
             \notin {"wait", "sigaction", "sigreturn", "sigmask"}
    BY DEF Close, Call
  <1>2. PICK new : Becomes(p, new) /\ Changed(new, Rest(p, <<>>))
    <2> DEFINE d == Val(p, Arg(p, 1))
               r == Rest(p, <<>>)
               e == Closed
    <2>1. Becomes(p, r) \/ Becomes(p, [r EXCEPT !.fd[d] = e])
      BY DEF Close, Becomes
    <2>2. Changed(r, r) /\ Changed([r EXCEPT !.fd[d] = e], r)
      BY Zenon DEF Changed
    <2>3. QED
      BY <2>1, <2>2
  <1>3. QED
    BY <1>1, <1>2, LocalGoesOn, EmptySeq

(* Opening a FIFO does what open does, and may have to wait.               *)
LEMMA OpenFifoLocal ==
  ASSUME IInv, NEW p \in Pids, OpenFifo(p), NEW Q, Closes(Q)
  PROVE  Local(p, Q)
  <1>1. /\ Acts(p) /\ proc[p].code # <<>>
        /\ Head(proc[p].code)[1]
             \notin {"wait", "sigaction", "sigreturn", "sigmask"}
    BY DEF OpenFifo, Call
  <1> DEFINE o == names[Arg(p, 2)]
             side == Arg(p, 3)
             other == IF side = "r" THEN "w" ELSE "r"
             d == Lowest(proc[p].fd)
             meet == IF Holders(proc, o, other) # {} THEN <<>>
                     ELSE << <<"meet", o, other, obj[o].opened[other]>> >>
             r == Rest(p, meet)
             e == <<o, side>>
             x == Arg(p, 1)
             new == [r EXCEPT !.fd[d] = e, !.reg[x] = d]
  <1>2. Becomes(p, new)
    BY DEF OpenFifo
  <1>3. Changed(new, r)
    <2> HIDE DEF r, d, e, x
    <2>1. QED
      BY Zenon DEF Changed
  <1>4. Closes(Q) => meet \in Seq(Q)
    <2>1. o # 0
      BY DEF OpenFifo
    <2>2. /\ Head(proc[p].code) \in Steps(scene) /\ scene \in DOMAIN Scenes
          /\ Head(proc[p].code)[1] = "openFifo"
      BY <1>1, FirstCall DEF OpenFifo, Call
    <2>3. Arg(p, 2) \in Names
      BY <2>2, Operands DEF Arg
    <2>4. o \in 1..Len(obj) /\ o \in Nat /\ other \in {"r", "w"}
      BY <2>1, <2>3, LenOfSeq DEF IInv, NamesOK, ObjectsOK
    <2>5. ObjectOK(obj[o])
      BY <2>4, LenOfSeq DEF IInv, ObjectsOK
    <2>6. obj[o].opened[other] \in Nat
      BY <2>4, <2>5 DEF ObjectOK
    <2> HIDE DEF o, other
    <2>7. Closes(Q) => <<"meet", o, other, obj[o].opened[other]>> \in Q
      BY <2>4, <2>6 DEF Closes
    <2>8. QED
      BY <2>7, EmptySeq
  <1> HIDE DEF new, meet, r
  <1>5. QED
    BY <1>1, <1>2, <1>3, <1>4, LocalGoesOn DEF r

(* Reading changes buf and got, and may put the body of its loop first.    *)
LEMMA ReadLocal ==
  ASSUME IInv, NEW p \in Pids, Read(p), NEW Q, Closes(Q)
  PROVE  Local(p, Q)
  <1>1. /\ Acts(p) /\ proc[p].code # <<>>
        /\ Head(proc[p].code)[1]
             \notin {"wait", "sigaction", "sigreturn", "sigmask"}
    BY DEF Read, Call
  <1> DEFINE h == Fd(p, Val(p, Arg(p, 1)))
             o == h[1]
             some == IF h[2] # "r" THEN <<>>
                     ELSE SubSeq(obj[o].data, 1, Min({Arg(p, 2),
                        Len(obj[o].data)}))
             again == IF Call(p, "while") THEN <<Head(proc[p].code)>> ELSE <<>>
             body == Arg(p, 3) \o again
             buf == IF Arg(p, 3) = <<>> THEN <<>> ELSE some
             r == Rest(p, body)
             got == r.got \o some
             new == [r EXCEPT !.buf = buf, !.got = got]
  <1>2. CASE some = <<>>
    <2>1. Becomes(p, Rest(p, <<>>)) /\ Changed(Rest(p, <<>>), Rest(p, <<>>))
      BY <1>2 DEF Read, Changed
    <2>2. QED
      BY <1>1, <2>1, LocalGoesOn, EmptySeq
  <1>3. CASE some # <<>>
    <2>1. Becomes(p, [r EXCEPT !.buf = buf, !.got = @ \o some])
      BY <1>3 DEF Read
    <2>2. DOMAIN r = Fields
      BY <1>1, RestSame
    <2>3. proc[p].code \in Seq(Q) => body \in Seq(Q)
      <3>1. SUFFICES ASSUME proc[p].code \in Seq(Q) PROVE body \in Seq(Q)
        OBVIOUS
      <3>2. Head(proc[p].code) \in Q
        BY <1>1, <3>1
      <3>3. Arg(p, 3) \in Parts(Head(proc[p].code))
            /\ Head(proc[p].code)[1] \in {"while", "read"}
        <4> DEFINE c == Head(proc[p].code)
        <4>1. c[1] \in {"while", "read"}
          BY DEF Read, Call
        <4>2. Arg(p, 3) = c[4]
          BY DEF Arg
        <4> HIDE DEF c
        <4>3. Parts(c) = {c[4]}
          BY <4>1 DEF Parts
        <4>4. QED
          BY <4>1, <4>2, <4>3 DEF c
      <3>4. Arg(p, 3) \in Seq(Q)
        BY <3>2, <3>3 DEF Closes
      <3>5. again \in Seq(Q)
        BY <3>2
      <3> HIDE DEF again
      <3>6. QED
        BY <3>4, <3>5, ConcatProperties
    <2> HIDE DEF r, buf, some
    <2>4. Becomes(p, new)
      BY <2>1, <2>2 DEF Fields
    <2> HIDE DEF got
    <2>5. Changed(new, r)
      BY Zenon DEF Changed
    <2> HIDE DEF new, body
    <2>6. QED
      BY <1>1, <2>3, <2>4, <2>5, LocalGoesOn DEF r
  <1>4. QED
    BY <1>2, <1>3

(* The code after exec is of the same calls.                               *)
LEMMA ExecLocal ==
  ASSUME IInv, NEW p \in Pids, Exec(p), NEW Q, Closes(Q)
  PROVE  Local(p, Q)
  <1>1. /\ Acts(p) /\ proc[p].code # <<>>
        /\ Head(proc[p].code)[1]
             \notin {"wait", "sigaction", "sigreturn", "sigmask"}
    BY DEF Exec, Call
  <1> DEFINE body == Arg(p, 1)
             new == [proc[p] EXCEPT !.code = body]
  <1>2. Becomes(p, new)
    BY DEF Exec
  <1>3. DOMAIN proc = Pids /\ DOMAIN proc[p] = Fields
    BY DEF IInv, ProcessesOK, ProcessOK
  <1>4. proc[p].code \in Seq(Q) => body \in Seq(Q)
    <2>1. SUFFICES ASSUME proc[p].code \in Seq(Q) PROVE body \in Seq(Q)
      OBVIOUS
    <2>2. Head(proc[p].code) \in Q
      BY <1>1, <2>1
    <2>3. body \in Parts(Head(proc[p].code)) /\ Head(proc[p].code)[1] = "exec"
      BY DEF Exec, Call, Parts, Arg
    <2>4. QED
      BY <2>2, <2>3 DEF Closes
  <1> HIDE DEF body
  <1>5. Same(new, proc[p]) /\ new.code = body
    BY <1>3 DEF Same, Fields
  <1>6. proc'[p] = new
    BY <1>2, <1>3 DEF Becomes
  <1>7. QED
    BY <1>1, <1>2, <1>4, <1>5, <1>6 DEF Local, Acts

(* So is the branch of a fork that failed.                                 *)
LEMMA ForkFailsLocal ==
  ASSUME IInv, NEW p \in Pids, ForkFails(p), NEW Q, Closes(Q)
  PROVE  Local(p, Q)
  <1>1. /\ Acts(p) /\ proc[p].code # <<>>
        /\ Head(proc[p].code)[1]
             \notin {"wait", "sigaction", "sigreturn", "sigmask"}
    BY DEF ForkFails, Call
  <1> DEFINE body == Arg(p, 3)
  <1>2. Becomes(p, Rest(p, body))
    BY DEF ForkFails
  <1>3. proc[p].code \in Seq(Q) => body \in Seq(Q)
    <2>1. SUFFICES ASSUME proc[p].code \in Seq(Q) PROVE body \in Seq(Q)
      OBVIOUS
    <2>2. Head(proc[p].code) \in Q
      BY <1>1, <2>1
    <2>3. body \in Parts(Head(proc[p].code)) /\ Head(proc[p].code)[1] = "fork"
      BY DEF ForkFails, Call, Parts, Arg
    <2>4. QED
      BY <2>2, <2>3 DEF Closes
  <1> HIDE DEF body
  <1>4. Changed(Rest(p, body), Rest(p, body))
    BY DEF Changed
  <1>5. QED
    BY <1>1, <1>2, <1>3, <1>4, LocalGoesOn

(* A thread that was never made concerns nobody, or ends the process.      *)
LEMMA NoThreadLocal ==
  ASSUME IInv, NEW p \in Pids, NoThread(p), NEW Q
  PROVE  Local(p, Q) \/ Dies(p)
  <1>1. /\ Acts(p) /\ proc[p].code # <<>>
        /\ Head(proc[p].code)[1]
             \notin {"wait", "sigaction", "sigreturn", "sigmask"}
    BY DEF NoThread, Call
  <1>2. CASE Becomes(p, Rest(p, <<>>))
    <2>1. Changed(Rest(p, <<>>), Rest(p, <<>>))
      BY DEF Changed
    <2>2. QED
      BY <1>1, <1>2, <2>1, LocalGoesOn, EmptySeq
  <1>3. CASE proc' = Ended(p, "signal")
    BY <1>1, <1>3 DEF Dies, Acts
  <1>4. QED
    BY <1>2, <1>3 DEF NoThread

(* A write to nowhere empties buf, or ends the process.                    *)
LEMMA WriteNowhereLocal ==
  ASSUME IInv, NEW p \in Pids, WriteNowhere(p), NEW Q
  PROVE  Local(p, Q) \/ Dies(p)
  <1>1. /\ Acts(p) /\ proc[p].code # <<>>
        /\ Head(proc[p].code)[1]
             \notin {"wait", "sigaction", "sigreturn", "sigmask"}
    BY DEF WriteNowhere, Call
  <1> DEFINE r == Rest(p, <<>>)
             v == <<>>
  <1>2. CASE Becomes(p, [r EXCEPT !.buf = v])
    <2>1. Changed([r EXCEPT !.buf = v], r)
      BY Zenon DEF Changed
    <2> DEFINE new == [r EXCEPT !.buf = v]
    <2> HIDE DEF new
    <2>2. Changed(new, r) /\ Becomes(p, new)
      BY <1>2, <2>1 DEF new
    <2>3. QED
      BY <1>1, <2>2, LocalGoesOn, EmptySeq
  <1>3. CASE proc' = Ended(p, "exit 1")
    BY <1>1, <1>3 DEF Dies, Acts
  <1>4. QED
    BY <1>2, <1>3 DEF WriteNowhere, Becomes

(* Reading shared memory changes got, or ends the process.                 *)
LEMMA LoadLocal ==
  ASSUME IInv, NEW p \in Pids, Load(p), NEW Q
  PROVE  Local(p, Q) \/ Dies(p)
  <1>1. /\ Acts(p) /\ proc[p].code # <<>>
        /\ Head(proc[p].code)[1]
             \notin {"wait", "sigaction", "sigreturn", "sigmask"}
    BY DEF Load, Call
  <1> DEFINE memory == obj[Val(p, Arg(p, 1))].data
             item == memory[Arg(p, 2)]
             code == IF item # "" THEN Tail(proc[p].code)
                     ELSE AfterLoads(proc[p].code)
             got == Append(proc[p].got, item)
             new == [proc[p] EXCEPT !.got = got, !.code = code]
  <1>2. CASE memory = <<>>
    BY <1>1, <1>2 DEF Load, Dies, Acts
  <1>3. CASE memory # <<>>
    <2>1. DOMAIN proc = Pids /\ DOMAIN proc[p] = Fields
      BY DEF IInv, ProcessesOK, ProcessOK
    <2>2. Becomes(p, new)
      BY <1>3, <2>1 DEF Load, Becomes, Fields
    <2>3. proc[p].code \in Seq(Q) => code \in Seq(Q)
      BY <1>1, RestIn, LoadsSkipped
    <2> HIDE DEF code, got
    <2>4. Same(new, proc[p]) /\ new.code = code
      BY <2>1 DEF Same, Fields
    <2>5. proc'[p] = new
      BY <2>1, <2>2 DEF Becomes
    <2>6. QED
      BY <1>1, <2>2, <2>3, <2>4, <2>5 DEF Local, Acts
  <1>4. QED
    BY <1>2, <1>3

(* ThreadMissed: a thread that could not be made; Leaves: one that ends.   *)
ThreadMissed(p) ==
  /\ Call(p, "create")
  /\ \E c \in Pids :
       proc' = [proc EXCEPT ![p] = Rest(p, <<>>), ![c].state = "gone"]
Leaves(p) ==
  /\ proc[p].main # 0 /\ Runs(p)
  /\ proc' = [proc EXCEPT ![p] = Stopped(p, "")]

(* What else a step can be.                                                *)
Signals(p) ==
  \/ SigAction(p) \/ Deliver(p) \/ SigReturn(p) \/ SigMask(p) \/ SigWait(p)
OfThreads(p) ==
  \/ Create(p) \/ Cancel(p) \/ ThreadEnds(p) \/ ThreadMissed(p) \/ Leaves(p)

(* Every step is of one of these kinds.                                    *)
LEMMA StepKinds ==
  ASSUME IInv, Next, NEW Q, Closes(Q)
  PROVE  /\ scene' = scene
         /\ \E p \in Pids : \/ Local(p, Q) \/ Dies(p) \/ Fork(p) \/ Wait(p)
                            \/ Signals(p) \/ OfThreads(p) \/ Interrupt(p)
  <1> DEFINE Kind(p) == \/ Local(p, Q) \/ Dies(p) \/ Fork(p) \/ Wait(p)
                        \/ Signals(p) \/ OfThreads(p) \/ Interrupt(p)
  <1>1. ASSUME NEW p \in Pids, Calls(p)
        PROVE  scene' = scene
    BY <1>1 DEF Calls, Open, MkFifo, OpenFifo, Meet, Pipe, Dup, Close, Read,
       Write, BrokenPipe, WriteNowhere, Fork, Exec, Wait, Return, Missing,
       SigAction, Deliver, SigReturn, Get, Send, Receive, Unlink, Truncate,
       Store, Load, Create, Self, Join, Cancel, NoThread, ThreadEnds, SigMask,
       SigWait, Alloc, Free, GetPpid, Mmap
  <1>2. ASSUME NEW p \in Pids,
               CallFails(p) \/ ForkFails(p) \/ CreateFails(p) \/ Interrupt(p)
        PROVE  scene' = scene
    BY <1>2 DEF CallFails, ForkFails, CreateFails, Interrupt
  <1>3. ASSUME NEW p \in Pids, BrokenPipe(p) \/ Missing(p) \/ CallFails(p)
        PROVE  Dies(p)
    BY <1>3 DEF BrokenPipe, Missing, CallFails, Dies, Call, Acts
  <1>4. ASSUME NEW p \in Pids, CreateFails(p)
        PROVE  Dies(p) \/ ThreadMissed(p)
    BY <1>4 DEF CreateFails, Dies, ThreadMissed, Call, Acts
  <1>5. ASSUME NEW p \in Pids, Return(p)
        PROVE  Dies(p) \/ Leaves(p)
    BY <1>5 DEF Return, Dies, Leaves, Acts
  <1>6. ASSUME NEW p \in Pids, Calls(p)
        PROVE  Kind(p)
    BY <1>3, <1>5, <1>6, OpenLocal, MkFifoLocal, OpenFifoLocal, MeetLocal,
       PipeLocal, DupLocal, CloseLocal, ReadLocal, WriteLocal,
       WriteNowhereLocal, ExecLocal, GetLocal, SendLocal, ReceiveLocal,
       UnlinkLocal, TruncateLocal, StoreLocal, LoadLocal, SelfLocal,
       GetPpidLocal, MmapLocal,
       JoinLocal, NoThreadLocal, AllocLocal, FreeLocal
       DEF Calls, Signals, OfThreads
  <1>7. ASSUME NEW p \in Pids,
               CallFails(p) \/ ForkFails(p) \/ CreateFails(p) \/ Interrupt(p)
        PROVE  Kind(p)
    BY <1>3, <1>4, <1>7, ForkFailsLocal DEF OfThreads
  <1>8. QED
    BY <1>1, <1>2, <1>6, <1>7 DEF Next

(* Every process has its fields, before and after a step.                  *)
LEMMA HasFields ==
  ASSUME IInv
  PROVE  DOMAIN proc = Pids /\ \A q \in Pids : DOMAIN proc[q] = Fields
  BY DEF IInv, ProcessesOK, ProcessOK

(* A local step leaves the signals of all alone.                           *)
LEMMA LocalAll ==
  ASSUME IInv, NEW Q, NEW p \in Pids, Local(p, Q)
  PROVE  \A q \in Pids : Same(proc'[q], proc[q])
                         /\ (q # p => proc'[q] = proc[q])
  BY HasFields DEF Local, Becomes, Same

(* So does pthread_cancel.                                                 *)
LEMMA CancelAll ==
  ASSUME IInv, NEW p \in Pids, Cancel(p)
  PROVE  \A q \in Pids : /\ Same(proc'[q], proc[q])
                         /\ q # p => proc'[q].code = proc[q].code
                         /\ proc'[p].code = <<>> \o Tail(proc[p].code)
  <1> DEFINE t == Val(p, Arg(p, 1))
             new == Rest(p, <<>>)
             before == [proc EXCEPT ![p] = new]
  <1>1. proc' = [before EXCEPT ![t].cancelled = TRUE]
    BY DEF Cancel
  <1>2. /\ Same(new, proc[p]) /\ DOMAIN new = Fields
        /\ new.code = <<>> \o Tail(proc[p].code)
    BY RestSame DEF Cancel, Call
  <1>3. \A q \in Pids : DOMAIN before[q] = Fields /\ Same(before[q], proc[q])
                        /\ before[q].code = IF q = p
                             THEN <<>> \o Tail(proc[p].code)
                                            ELSE proc[q].code
    <2> HIDE DEF new
    <2>1. QED
      BY <1>2, HasFields DEF Same
  <1>4. DOMAIN before = Pids
    BY HasFields
  <1> HIDE DEF before, t
  <1>5. \A q \in Pids : proc'[q] = IF q = t
          THEN [before[q] EXCEPT !.cancelled = TRUE]
                                   ELSE before[q]
    BY <1>1, <1>4
  <1>6. ASSUME NEW q \in Pids
        PROVE  Same(proc'[q], before[q]) /\ proc'[q].code = before[q].code
    <2>1. CASE q = t
      BY <1>3, <1>5, <2>1 DEF Same, Fields
    <2>2. CASE q # t
      BY <1>5, <2>2 DEF Same
    <2>3. QED
      BY <2>1, <2>2
  <1>7. QED
    BY <1>3, <1>6 DEF Same

(* What the end of a process does to the signals of all: a parent that     *)
(* handles SIGCHLD is sent it.                                             *)
LEMMA DiesSignals ==
  ASSUME IInv, NEW p \in Pids, Dies(p)
  PROVE  \A q \in Pids :
           /\ proc'[q].handler = proc[q].handler
           /\ proc'[q].masked = proc[q].masked
           /\ \/ proc'[q].pending = proc[q].pending
              \/ /\ proc[p].parent = q /\ proc[q].handler["CHLD"] # <<>>
                 /\ proc'[q].pending = proc[q].pending \cup {"CHLD"}
  <1>1. PICK how : proc' = Ended(p, how)
    BY DEF Dies
  <1>2. SUFFICES ASSUME NEW q \in Pids
                 PROVE  /\ proc'[q].handler = proc[q].handler
                        /\ proc'[q].masked = proc[q].masked
                        /\ \/ proc'[q].pending = proc[q].pending
                           \/ /\ proc[p].parent = q
                              /\ proc[q].handler["CHLD"] # <<>>
                              /\ proc'[q].pending = proc[q].pending
                                   \cup {"CHLD"}
    OBVIOUS
  <1>3. DOMAIN proc[q] = Fields
    BY HasFields
  <1>4. CASE q \in Group(p)
    <2>1. proc'[q] = Stopped(q, how)
      BY <1>1, <1>4 DEF Ended
    <2>2. QED
      BY <1>3, <2>1 DEF Stopped, Fields
  <1>5. CASE q \notin Group(p) /\ proc[q].parent \in Group(p)
    <2>1. proc'[q] = [proc[q] EXCEPT !.parent = 0,
                        !.state = IF @ = "zombie" THEN "gone" ELSE @]
      BY <1>1, <1>5 DEF Ended
    <2>2. QED
      BY <1>3, <2>1 DEF Fields
  <1>6. CASE /\ q \notin Group(p) /\ proc[q].parent \notin Group(p)
             /\ proc[p].parent = q
    <2>1. proc'[q] = [proc[q] EXCEPT !.pending =
                        IF proc[q].handler["CHLD"] = <<>> THEN @
                        ELSE @ \cup {"CHLD"}]
      BY <1>1, <1>6 DEF Ended
    <2>2. QED
      BY <1>3, <1>6, <2>1 DEF Fields
  <1>7. CASE /\ q \notin Group(p) /\ proc[q].parent \notin Group(p)
             /\ proc[p].parent # q
    BY <1>1, <1>7 DEF Ended
  <1>8. QED
    BY <1>4, <1>5, <1>6, <1>7

(* What it does to the processes themselves, where there are no threads.   *)
LEMMA DiesStates ==
  ASSUME IInv, NEW p \in Pids, Dies(p), \A q \in Pids : proc[q].main = 0
  PROVE  /\ proc'[p].state # "runs" /\ proc'[p].parent = proc[p].parent
         /\ proc[p].parent # 0 => proc'[p].state = "zombie"
         /\ \A q \in Pids \ {p} :
              /\ proc'[q].code = proc[q].code
              /\ proc'[q].state = "runs" => proc[q].state = "runs"
              /\ proc[q].parent # p => /\ proc'[q].parent = proc[q].parent
                                       /\ proc'[q].state = proc[q].state
  <1>1. PICK how : proc' = Ended(p, how)
    BY DEF Dies
  <1>2. \A q \in Pids : DOMAIN proc[q] = Fields /\ q # 0
    BY HasFields, BoundsAssumption
  <1>3. \A q \in Pids : q \in Group(p) <=> q = p
    BY DEF Group, Leader
  <1>4. Runs(p) /\ 0 \notin Group(p)
    BY <1>2, <1>3 DEF Dies, Group
  <1>5. proc'[p] = Stopped(p, how)
    BY <1>1, <1>3 DEF Ended
  <1>6. /\ proc'[p].state # "runs" /\ proc'[p].parent = proc[p].parent
        /\ proc[p].parent # 0 => proc'[p].state = "zombie"
    BY <1>2, <1>4, <1>5 DEF Stopped, Fields, Runs
  <1>7. ASSUME NEW q \in Pids \ {p}
        PROVE  /\ proc'[q].code = proc[q].code
               /\ proc'[q].state = "runs" => proc[q].state = "runs"
               /\ proc[q].parent # p => /\ proc'[q].parent = proc[q].parent
                                        /\ proc'[q].state = proc[q].state
    <2>1. CASE proc[q].parent \in Group(p)
      <3>1. proc[q].parent = p
        BY <1>3, <2>1 DEF Group
      <3>2. proc'[q] = [proc[q] EXCEPT !.parent = 0,
                          !.state = IF @ = "zombie" THEN "gone" ELSE @]
        BY <1>1, <1>3, <2>1 DEF Ended
      <3>3. QED
        BY <1>2, <3>1, <3>2 DEF Fields
    <2>2. CASE proc[q].parent \notin Group(p) /\ proc[p].parent = q
      <3>1. proc'[q] = [proc[q] EXCEPT !.pending =
                          IF proc[q].handler["CHLD"] = <<>> THEN @
                          ELSE @ \cup {"CHLD"}]
        BY <1>1, <1>3, <2>2 DEF Ended
      <3>2. QED
        BY <1>2, <3>1 DEF Fields
    <2>3. CASE proc[q].parent \notin Group(p) /\ proc[p].parent # q
      BY <1>1, <1>3, <2>3 DEF Ended
    <2>4. QED
      BY <2>1, <2>2, <2>3
  <1>8. QED
    BY <1>6, <1>7

-----------------------------------------------------------------------------
(* Whose SIGCHLD is handled, and how.                                      *)

(* A program of the scene handles the signal.                              *)
Handles(S, signal) == \E c \in S.calls : c[1] = "sigaction" /\ c[2] = signal

(* As in nozombie.c: the handler begins with the only wait of the scene,   *)
(* and no signal but SIGCHLD is handled, ignored or masked by a program.   *)
Waitless(S) == {c \in S.calls : c[1] # "wait"}
WaitsInHandler(S) ==
  /\ \A p \in DOMAIN S.start : S.start[p] \in Seq(Waitless(S))
  /\ \A c \in S.calls :
       /\ c[1] \notin {"create", "pthread_exit", "loop", "sigmask"}
       /\ IF c[1] = "sigaction"
          THEN /\ c[2] = "CHLD" /\ c[3] # <<>>
               /\ Head(c[3])[1] = "wait" /\ Tail(c[3]) \in Seq(Waitless(S))
          ELSE Parts(c) \subseteq Seq(Waitless(S))

(* Where it is not handled, it never waits and is never masked.            *)
Unconcerned(p) ==
  /\ proc[p].handler["CHLD"] = <<>>
  /\ "CHLD" \notin proc[p].pending /\ "CHLD" \notin proc[p].masked

(* Where it is, every SIGCHLD that waits or is being handled has a zombie  *)
(* of its own: a process comes to a wait only by a handler that has just   *)
(* begun, and while it is there another SIGCHLD stands for another child.  *)
Calm(s) == {c \in Steps(s) : c[1] # "wait"}
Zombies(p) == {c \in Pids : proc[c].parent = p /\ proc[c].state = "zombie"}
BeginsWithWait(code) ==
  code # <<>> /\ Head(code)[1] = "wait" /\ Tail(code) \in Seq(Calm(scene))
Expecting(p) ==
  /\ proc[p].masked \subseteq {"CHLD"} /\ proc[p].pending \subseteq {"CHLD"}
  /\ proc[p].handler["INT"] = <<>>
  /\ \/ proc[p].handler["CHLD"] = <<>>
     \/ BeginsWithWait(proc[p].handler["CHLD"])
  /\ Runs(p) =>
       /\ \/ proc[p].code \in Seq(Calm(scene))
          \/ /\ BeginsWithWait(proc[p].code)
             /\ "CHLD" \in proc[p].masked /\ Zombies(p) # {}
       /\ "CHLD" \in proc[p].pending =>
            IF proc[p].code \in Seq(Calm(scene)) THEN Zombies(p) # {}
            ELSE \E c, d \in Zombies(p) : c # d

ChildrenOK ==
  \A p \in Pids : IF Handles(Scenes[scene], "CHLD") THEN Expecting(p)
                  ELSE Unconcerned(p)

(* The call that is next belongs to the scene, unless it only waits for    *)
(* the other side of a FIFO or ends a handler.                             *)
LEMMA NextCall ==
  ASSUME IInv, NEW p \in Pids, Acts(p), proc[p].code # <<>>,
         Head(proc[p].code)[1] \notin {"meet", "sigreturn"}
  PROVE  Head(proc[p].code) \in Scenes[scene].calls /\ scene \in DOMAIN Scenes
  <1> DEFINE c == Head(proc[p].code)
  <1>1. c \in Steps(scene) /\ scene \in DOMAIN Scenes
    BY FirstCall
  <1> HIDE DEF c
  <1>2. c[1] \notin {"meet", "sigreturn"}
    BY DEF c
  <1>3. c \notin {"meet"} \X Nat \X {"r", "w"} \X Nat
    BY <1>2
  <1>4. c \notin {"sigreturn"} \X {"INT", "CHLD"}
    BY <1>2
  <1>5. QED
    BY <1>1, <1>3, <1>4 DEF Steps, c

(* All calls of a scene, with what Jezgra adds, bring no others.           *)
LEMMA StepsClose ==
  ASSUME IInv
  PROVE  Closes(Steps(scene))
  <1> DEFINE Q == Steps(scene)
  <1>1. scene \in DOMAIN Scenes
    BY DEF IInv, SceneOK
  <1>2. ASSUME NEW c \in Q, c[1] \in {"while", "read", "fork", "exec"}
        PROVE  Parts(c) \subseteq Seq(Q)
    <2>1. CASE c[1] \in {"while", "read"}
      <3>1. Parts(c) = {c[4]}
        BY <2>1 DEF Parts
      <3>2. QED
        BY <1>1, <2>1, <3>1, Operands
    <2>2. CASE c[1] = "fork"
      <3>1. Parts(c) = {c[2], c[3], c[4]}
        BY <2>2 DEF Parts
      <3>2. QED
        BY <1>1, <2>2, <3>1, Operands
    <2>3. CASE c[1] = "exec"
      <3>1. Parts(c) = {c[2]}
        BY <2>3 DEF Parts
      <3>2. QED
        BY <1>1, <2>3, <3>1, Operands
    <2>4. QED
      BY <1>2, <2>1, <2>2, <2>3
  <1>3. QED
    BY <1>2 DEF Closes, Steps

(* What a fork does to the signals of all.                                 *)
LEMMA ForkAll ==
  ASSUME IInv, NEW p \in Pids, Fork(p)
  PROVE  \E c \in Pids \ {p} :
           /\ proc[c].state = "none" /\ proc[p].state = "runs"
           /\ proc'[c].handler = proc[p].handler
           /\ proc'[c].masked = proc[p].masked /\ proc'[c].pending = {}
           /\ proc'[c].state = "runs"
           /\ proc'[c].code = Arg(p, 1) \o Tail(proc[p].code)
           /\ Same(proc'[p], proc[p])
           /\ proc'[p].code = Arg(p, 2) \o Tail(proc[p].code)
           /\ \A q \in Pids \ {p, c} : proc'[q] = proc[q]
  <1> DEFINE mine == Rest(p, Arg(p, 2))
             its == Rest(p, Arg(p, 1))
             child == [its EXCEPT !.parent = p, !.pending = {}]
  <1>1. PICK c \in Pids : Unused(c)
          /\ proc' = [proc EXCEPT ![p] = mine, ![c] = child]
    BY DEF Fork
  <1>2. Acts(p) /\ Runs(p) /\ proc[p].code # <<>>
    BY DEF Fork, Call, Acts
  <1>3. c # p /\ proc[c].state = "none" /\ proc[p].state = "runs"
    BY <1>1, <1>2 DEF Unused, Runs
  <1>4. /\ Same(mine, proc[p]) /\ mine.code = Arg(p, 2) \o Tail(proc[p].code)
        /\ Same(its, proc[p]) /\ its.code = Arg(p, 1) \o Tail(proc[p].code)
        /\ DOMAIN its = Fields
    BY <1>2, RestSame
  <1> HIDE DEF mine, its
  <1>5. /\ child.handler = proc[p].handler /\ child.masked = proc[p].masked
        /\ child.pending = {} /\ child.state = proc[p].state
        /\ child.code = its.code
    BY <1>4 DEF Fields, Same
  <1> HIDE DEF child
  <1>6. /\ proc'[p] = mine /\ proc'[c] = child
        /\ \A q \in Pids \ {p, c} : proc'[q] = proc[q]
    BY <1>1, <1>3, HasFields
  <1>7. QED
    BY <1>3, <1>4, <1>5, <1>6

(* What wait does to them.                                                 *)
LEMMA WaitAll ==
  ASSUME IInv, NEW p \in Pids, Wait(p)
  PROVE  /\ proc'[p].code = <<>> \o Tail(proc[p].code)
         /\ proc'[p].state = "runs"
         /\ \A q \in Pids \ {p} : proc'[q].code = proc[q].code
         /\ \A q \in Pids : /\ proc'[q].handler = proc[q].handler
                            /\ proc'[q].masked = proc[q].masked
                            /\ proc'[q].pending = proc[q].pending
                            /\ proc'[q].parent = proc[q].parent
         /\ \/ /\ {c \in Pids : proc[c].parent = p
                    /\ proc[c].state # "gone"} = {}
               /\ \A q \in Pids : proc'[q].state = proc[q].state
            \/ \E c \in Zombies(p) :
                 /\ proc'[c].state = "gone"
                 /\ \A q \in Pids \ {c} : proc'[q].state = proc[q].state
  <1> DEFINE children == {c \in Pids : proc[c].parent = p
     /\ proc[c].state # "gone"}
             r == Rest(p, <<>>)
  <1>1. /\ Acts(p) /\ proc[p].code # <<>> /\ proc[p].state = "runs"
        /\ DOMAIN proc = Pids /\ \A q \in Pids : DOMAIN proc[q] = Fields
    BY HasFields DEF Wait, Call, Acts, Runs
  <1>2. /\ Same(r, proc[p]) /\ DOMAIN r = Fields
        /\ r.code = <<>> \o Tail(proc[p].code)
    BY <1>1, RestSame
  <1>3. CASE children = {} /\ Becomes(p, r)
    <2> HIDE DEF r
    <2>1. proc'[p] = r /\ \A q \in Pids \ {p} : proc'[q] = proc[q]
      BY <1>1, <1>3 DEF Becomes
    <2>2. QED
      BY <1>1, <1>2, <1>3, <2>1 DEF Same
  <1>4. ASSUME NEW c \in children, proc[c].state = "zombie",
               proc' = [proc EXCEPT ![c].state = "gone", ![p] = [r EXCEPT !.s
                  = proc[c].how]]
        PROVE  /\ proc'[p].code = <<>> \o Tail(proc[p].code)
               /\ proc'[p].state = "runs"
               /\ \A q \in Pids \ {p} : proc'[q].code = proc[q].code
               /\ \A q \in Pids : /\ proc'[q].handler = proc[q].handler
                                  /\ proc'[q].masked = proc[q].masked
                                  /\ proc'[q].pending = proc[q].pending
                                  /\ proc'[q].parent = proc[q].parent
               /\ c \in Zombies(p) /\ proc'[c].state = "gone"
               /\ \A q \in Pids \ {c} : proc'[q].state = proc[q].state
    <2> DEFINE how == proc[c].how
               new == [r EXCEPT !.s = how]
               other == [proc[c] EXCEPT !.state = "gone"]
    <2>1. c \in Pids \ {p} /\ c \in Zombies(p)
      BY <1>1, <1>4 DEF Zombies
    <2> HIDE DEF r, how
    <2>2. Same(new, proc[p]) /\ new.code = r.code
      BY <1>2 DEF Same, Fields
    <2>3. /\ other.handler = proc[c].handler /\ other.masked = proc[c].masked
          /\ other.pending = proc[c].pending /\ other.parent = proc[c].parent
          /\ other.state = "gone" /\ other.code = proc[c].code
      BY <1>1, <2>1 DEF Fields
    <2>4. proc' = [proc EXCEPT ![c] = other, ![p] = new]
      BY <1>1, <1>4, <2>1 DEF how
    <2> HIDE DEF new, other
    <2>5. /\ proc'[p] = new /\ proc'[c] = other
          /\ \A q \in Pids \ {p, c} : proc'[q] = proc[q]
      BY <1>1, <2>1, <2>4
    <2>6. QED
      BY <1>1, <1>2, <2>1, <2>2, <2>3, <2>5 DEF Same
  <1>5. QED
    BY <1>3, <1>4 DEF Wait

(* What the calls for signals do: only to the process that makes them.     *)
LEMMA SignalsAll ==
  ASSUME IInv, NEW p \in Pids, Signals(p)
  PROVE  /\ Runs(p) /\ \A q \in Pids \ {p} : proc'[q] = proc[q]
         /\ proc'[p].state = proc[p].state /\ proc'[p].parent = proc[p].parent
         /\ proc'[p].main = proc[p].main
         /\ proc'[p].fd = proc[p].fd /\ proc'[p].reg = proc[p].reg
         /\ obj' = obj /\ trouble' = trouble
         /\ \/ /\ Call(p, "sigaction")
               /\ proc'[p].code = <<>> \o Tail(proc[p].code)
               /\ proc'[p].handler = [proc[p].handler EXCEPT ![Arg(p, 1)]
                    = Arg(p, 2)]
               /\ proc'[p].masked = proc[p].masked
               /\ proc'[p].pending = proc[p].pending
            \/ \E signal \in proc[p].pending \ proc[p].masked :
               /\ proc'[p].code = proc[p].handler[signal]
                                  \o << <<"sigreturn", signal>> >>
                                     \o proc[p].code
               /\ proc'[p].handler = proc[p].handler
               /\ proc'[p].masked = proc[p].masked \cup {signal}
               /\ proc'[p].pending = proc[p].pending \ {signal}
            \/ /\ Call(p, "sigreturn")
               /\ proc'[p].code = <<>> \o Tail(proc[p].code)
               /\ proc'[p].handler = proc[p].handler
               /\ proc'[p].masked = proc[p].masked \ {Arg(p, 1)}
               /\ proc'[p].pending = proc[p].pending
            \/ /\ Call(p, "sigmask")
               /\ proc'[p].code = <<>> \o Tail(proc[p].code)
               /\ proc'[p].handler = proc[p].handler
               /\ proc'[p].masked = IF Arg(p, 1)
                    THEN proc[p].masked \cup {"INT"}
                                    ELSE proc[p].masked \ {"INT"}
               /\ proc'[p].pending = proc[p].pending
            \/ /\ Call(p, "sigwait") /\ "INT" \in proc[p].pending
               /\ proc'[p].code = <<>> \o Tail(proc[p].code)
               /\ proc'[p].handler = proc[p].handler
               /\ proc'[p].masked = proc[p].masked
               /\ proc'[p].pending = proc[p].pending \ {"INT"}
  <1> DEFINE r == Rest(p, <<>>)
  <1>1. DOMAIN proc = Pids /\ DOMAIN proc[p] = Fields
    BY HasFields
  <1>2. ~ Deliver(p) => Acts(p) /\ proc[p].code # <<>>
    BY DEF Signals, SigAction, SigReturn, SigMask, SigWait, Call
  <1>3. Runs(p)
    BY <1>2 DEF Deliver, Acts
  <1>4. \A new : Becomes(p, new) =>
          proc'[p] = new /\ \A q \in Pids \ {p} : proc'[q] = proc[q]
    BY <1>1 DEF Becomes
  <1>5. ~ Deliver(p) => /\ Same(r, proc[p]) /\ DOMAIN r = Fields
                        /\ r.code = <<>> \o Tail(proc[p].code)
    BY <1>2, RestSame
  <1>9. obj' = obj /\ trouble' = trouble
    BY DEF Signals, SigAction, Deliver, SigReturn, SigMask, SigWait
  <1>6. CASE Deliver(p)
    <2>1. PICK signal \in proc[p].pending \ proc[p].masked :
            Becomes(p, [proc[p] EXCEPT
              !.pending = @ \ {signal}, !.masked = @ \cup {signal},
              !.code = proc[p].handler[signal]
                       \o << <<"sigreturn", signal>> >> \o @])
      BY <1>6 DEF Deliver
    <2> DEFINE code == proc[p].handler[signal]
                       \o << <<"sigreturn", signal>> >> \o proc[p].code
               new == [proc[p] EXCEPT !.pending = @ \ {signal},
                         !.masked = @ \cup {signal}, !.code = code]
    <2>2. Becomes(p, new)
      BY <2>1
    <2> HIDE DEF code
    <2>3. /\ new.code = code /\ new.handler = proc[p].handler
          /\ new.masked = proc[p].masked \cup {signal}
          /\ new.pending = proc[p].pending \ {signal}
          /\ new.state = proc[p].state /\ new.parent = proc[p].parent
          /\ new.main = proc[p].main
          /\ new.fd = proc[p].fd /\ new.reg = proc[p].reg
      BY <1>1 DEF Fields
    <2> HIDE DEF new
    <2>4. proc'[p] = new /\ \A q \in Pids \ {p} : proc'[q] = proc[q]
      BY <1>4, <2>2
    <2>5. QED
      BY <1>3, <1>9, <2>3, <2>4 DEF code
  <1>7. CASE ~ Deliver(p)
    <2>1. /\ Same(r, proc[p]) /\ DOMAIN r = Fields
          /\ r.code = <<>> \o Tail(proc[p].code)
          /\ r.fd = proc[p].fd /\ r.reg = proc[p].reg
      BY <1>1, <1>5, <1>7 DEF Rest, Fields
    <2> HIDE DEF r
    <2>2. CASE SigAction(p)
      <3> DEFINE new == [r EXCEPT !.handler[Arg(p, 1)] = Arg(p, 2)]
      <3>1. Becomes(p, new) /\ Call(p, "sigaction")
        BY <2>2 DEF SigAction, r
      <3>2. /\ new.code = <<>> \o Tail(proc[p].code)
            /\ new.handler = [proc[p].handler EXCEPT ![Arg(p, 1)] = Arg(p, 2)]
            /\ new.masked = proc[p].masked
            /\ new.pending = proc[p].pending
            /\ new.state = proc[p].state /\ new.parent = proc[p].parent
            /\ new.main = proc[p].main
            /\ new.fd = proc[p].fd /\ new.reg = proc[p].reg
        BY <2>1 DEF Same, Fields
      <3> HIDE DEF new
      <3>3. proc'[p] = new /\ \A q \in Pids \ {p} : proc'[q] = proc[q]
        BY <1>4, <3>1
      <3>4. QED
        BY <1>3, <1>9, <3>1, <3>2, <3>3
    <2>3. CASE SigReturn(p)
      <3> DEFINE new == [r EXCEPT !.masked = @ \ {Arg(p, 1)}]
      <3>1. Becomes(p, new) /\ Call(p, "sigreturn")
        BY <2>3 DEF SigReturn, r
      <3>2. /\ new.code = <<>> \o Tail(proc[p].code)
            /\ new.handler = proc[p].handler
            /\ new.masked = proc[p].masked \ {Arg(p, 1)}
            /\ new.pending = proc[p].pending
            /\ new.state = proc[p].state /\ new.parent = proc[p].parent
            /\ new.main = proc[p].main
            /\ new.fd = proc[p].fd /\ new.reg = proc[p].reg
        BY <2>1 DEF Same, Fields
      <3> HIDE DEF new
      <3>3. proc'[p] = new /\ \A q \in Pids \ {p} : proc'[q] = proc[q]
        BY <1>4, <3>1
      <3>4. QED
        BY <1>3, <1>9, <3>1, <3>2, <3>3
    <2>4. CASE SigMask(p)
      <3> DEFINE new == [r EXCEPT !.masked = IF Arg(p, 1) THEN @ \cup {"INT"}
                                           ELSE @ \ {"INT"}]
      <3>1. Becomes(p, new) /\ Call(p, "sigmask")
        BY <2>4 DEF SigMask, r
      <3>2. /\ new.code = <<>> \o Tail(proc[p].code)
            /\ new.handler = proc[p].handler
            /\ new.masked = IF Arg(p, 1) THEN proc[p].masked \cup {"INT"}
                            ELSE proc[p].masked \ {"INT"}
            /\ new.pending = proc[p].pending
            /\ new.state = proc[p].state /\ new.parent = proc[p].parent
            /\ new.main = proc[p].main
            /\ new.fd = proc[p].fd /\ new.reg = proc[p].reg
        BY <2>1 DEF Same, Fields
      <3> HIDE DEF new
      <3>3. proc'[p] = new /\ \A q \in Pids \ {p} : proc'[q] = proc[q]
        BY <1>4, <3>1
      <3>4. QED
        BY <1>3, <1>9, <3>1, <3>2, <3>3
    <2>5. CASE SigWait(p)
      <3> DEFINE new == [r EXCEPT !.pending = @ \ {"INT"}]
      <3>1. /\ Becomes(p, new) /\ Call(p, "sigwait")
            /\ "INT" \in proc[p].pending
        BY <2>5 DEF SigWait, r
      <3>2. /\ new.code = <<>> \o Tail(proc[p].code)
            /\ new.handler = proc[p].handler
            /\ new.masked = proc[p].masked
            /\ new.pending = proc[p].pending \ {"INT"}
            /\ new.state = proc[p].state /\ new.parent = proc[p].parent
            /\ new.main = proc[p].main
            /\ new.fd = proc[p].fd /\ new.reg = proc[p].reg
        BY <2>1 DEF Same, Fields
      <3> HIDE DEF new
      <3>3. proc'[p] = new /\ \A q \in Pids \ {p} : proc'[q] = proc[q]
        BY <1>4, <3>1
      <3>4. QED
        BY <1>3, <1>9, <3>1, <3>2, <3>3
    <2>6. QED
      BY <1>7, <2>2, <2>3, <2>4, <2>5 DEF Signals
  <1>8. QED
    BY <1>6, <1>7

(* What threads that come and go do to signals: a new one handles none and *)
(* masks what its maker does.                                              *)
LEMMA OfThreadsSignals ==
  ASSUME IInv, NEW p \in Pids, OfThreads(p)
  PROVE  \A q \in Pids :
           \/ /\ proc'[q].handler = proc[q].handler
              /\ proc'[q].masked = proc[q].masked
              /\ proc'[q].pending = proc[q].pending
           \/ /\ proc'[q].handler = [signal \in {"INT", "CHLD"} |-> <<>>]
              /\ proc'[q].masked = proc[p].masked /\ proc'[q].pending = {}
  <1> DEFINE r == Rest(p, <<>>)
  <1>1. DOMAIN proc = Pids /\ \A q \in Pids : DOMAIN proc[q] = Fields
    BY HasFields
  <1>2. Acts(p) /\ proc[p].code # <<>> => Same(r, proc[p]) /\ DOMAIN r = Fields
    BY RestSame
  <1>3. \A q \in Pids : \A how : DOMAIN Stopped(q, how) = Fields
            /\ Stopped(q, how).handler = proc[q].handler
            /\ Stopped(q, how).masked = proc[q].masked
            /\ Stopped(q, how).pending = proc[q].pending
    BY <1>1 DEF Stopped, Fields
  <1>4. CASE Create(p)
    <2>1. Same(r, proc[p]) /\ DOMAIN r = Fields
      BY <1>2, <1>4 DEF Create, Call
    <2> DEFINE mine(c) == [r EXCEPT !.reg[Arg(p, 1)] = c]
               its == [Process(Arg(p, 2), proc[p].fd) EXCEPT
                         !.main = Leader(p), !.masked = proc[p].masked,
                         !.reg = [proc[p].reg EXCEPT !["arg"] = Val(p,
                            Arg(p, 3))]]
    <2>2. PICK c \in Pids : proc' = [proc EXCEPT ![p] = mine(c), ![c] = its]
      BY <1>4 DEF Create
    <2>3. /\ its.handler = [signal \in {"INT", "CHLD"} |-> <<>>]
          /\ its.masked = proc[p].masked /\ its.pending = {}
      BY DEF Process
    <2> DEFINE new == mine(c)
    <2> HIDE DEF r
    <2>4. Same(new, proc[p])
      BY <2>1 DEF Same, Fields
    <2>5. proc' = [proc EXCEPT ![p] = new, ![c] = its]
      BY <2>2
    <2> HIDE DEF its, new
    <2>6. \A q \in Pids : proc'[q] = IF q = c THEN its ELSE IF q = p THEN new
            ELSE proc[q]
      BY <1>1, <2>5
    <2>7. QED
      BY <2>3, <2>4, <2>6 DEF Same
  <1>5. CASE Cancel(p)
    BY <1>5, CancelAll DEF Same
  <1>6. CASE ThreadEnds(p)
    <2>1. PICK v, new : /\ Becomes(p, new)
                        /\ \/ new = [Stopped(p, "") EXCEPT !.result = v]
                           \/ new = Stopped(p, "")
      BY <1>6 DEF ThreadEnds
    <2> DEFINE old == Stopped(p, "")
    <2>2. /\ DOMAIN old = Fields /\ old.handler = proc[p].handler
          /\ old.masked = proc[p].masked /\ old.pending = proc[p].pending
      BY <1>3
    <2>5. new = [old EXCEPT !.result = v] \/ new = old
      BY <2>1
    <2> HIDE DEF old
    <2>6. /\ new.handler = proc[p].handler /\ new.masked = proc[p].masked
          /\ new.pending = proc[p].pending
      BY <2>2, <2>5 DEF Fields
    <2>3. \A q \in Pids : proc'[q] = IF q = p THEN new ELSE proc[q]
      BY <1>1, <2>1 DEF Becomes
    <2>4. QED
      BY <2>3, <2>6
  <1>7. CASE ThreadMissed(p)
    <2>1. Same(r, proc[p]) /\ DOMAIN r = Fields
      BY <1>2, <1>7 DEF ThreadMissed, Call
    <2>2. PICK c \in Pids : proc' = [proc EXCEPT ![p] = r, ![c].state = "gone"]
      BY <1>7 DEF ThreadMissed
    <2> HIDE DEF r
    <2> DEFINE before == [proc EXCEPT ![p] = r]
    <2>3. \A q \in Pids : DOMAIN before[q] = Fields /\ Same(before[q], proc[q])
      BY <1>1, <2>1 DEF Same
    <2>4. proc' = [before EXCEPT ![c].state = "gone"] /\ DOMAIN before = Pids
      BY <1>1, <2>2
    <2> HIDE DEF before
    <2>5. \A q \in Pids : proc'[q] = IF q = c
            THEN [before[q] EXCEPT !.state = "gone"]
                                     ELSE before[q]
      BY <2>4
    <2>6. \A q \in Pids : /\ proc'[q].handler = before[q].handler
                          /\ proc'[q].masked = before[q].masked
                          /\ proc'[q].pending = before[q].pending
      BY <2>3, <2>5 DEF Fields
    <2>7. QED
      BY <2>3, <2>6 DEF Same
  <1>8. CASE Leaves(p)
    <2> DEFINE new == Stopped(p, "")
    <2>1. proc' = [proc EXCEPT ![p] = new]
      BY <1>8 DEF Leaves
    <2>2. /\ new.handler = proc[p].handler /\ new.masked = proc[p].masked
          /\ new.pending = proc[p].pending
      BY <1>3
    <2> HIDE DEF new
    <2>3. \A q \in Pids : proc'[q] = IF q = p THEN new ELSE proc[q]
      BY <1>1, <2>1
    <2>4. QED
      BY <2>2, <2>3
  <1>9. QED
    BY <1>4, <1>5, <1>6, <1>7, <1>8 DEF OfThreads

(* What SIGINT does: a process that does not handle or mask it ends.       *)
LEMMA InterruptSignals ==
  ASSUME IInv, NEW p \in Pids, Interrupt(p)
  PROVE  \/ Dies(p)
         \/ /\ proc[Leader(p)].handler["INT"] # <<>>
                 \/ "INT" \in proc[p].masked
            /\ \A q \in Pids :
                 /\ proc'[q].handler = proc[q].handler
                 /\ proc'[q].masked = proc[q].masked
                 /\ proc'[q].pending \in {proc[q].pending,
                                          proc[q].pending \cup {"INT"}}
  <1> DEFINE l == Leader(p)
             handler == proc[l].handler["INT"]
  <1>1. Runs(p) /\ DOMAIN proc = Pids
          /\ \A q \in Pids : DOMAIN proc[q] = Fields
    BY HasFields DEF Interrupt
  <1>2. l \in Pids
    BY DEF IInv, ProcessesOK, ProcessOK, Leader
  <1>3. CASE handler = SIG_IGN
    <2>1. proc' = proc
      BY <1>3 DEF Interrupt
    <2>2. handler # <<>>
      BY <1>3 DEF SIG_IGN
    <2>3. QED
      BY <2>1, <2>2
  <1>4. CASE /\ handler # SIG_IGN
             /\ \/ handler # <<>>
                \/ \A q \in Group(p) : Runs(q) => "INT" \in proc[q].masked
    <2>1. proc' = [proc EXCEPT ![l].pending = @ \cup {"INT"}]
      BY <1>4 DEF Interrupt
    <2>2. p \in Group(p)
      BY DEF Group
    <2>3. handler # <<>> \/ "INT" \in proc[p].masked
      BY <1>1, <1>4, <2>2
    <2> HIDE DEF l
    <2>4. \A q \in Pids : proc'[q] =
            IF q = l THEN [proc[l] EXCEPT !.pending = @ \cup {"INT"}]
               ELSE proc[q]
      BY <1>1, <1>2, <2>1
    <2>5. \A q \in Pids :
            /\ proc'[q].handler = proc[q].handler
            /\ proc'[q].masked = proc[q].masked
            /\ proc'[q].pending \in {proc[q].pending,
                 proc[q].pending \cup {"INT"}}
      BY <1>1, <1>2, <2>4 DEF Fields
    <2>6. QED
      BY <2>3, <2>5 DEF l
  <1>5. CASE /\ handler # SIG_IGN /\ handler = <<>>
             /\ ~ \A q \in Group(p) : Runs(q) => "INT" \in proc[q].masked
    <2>1. proc' = Ended(p, "signal")
      BY <1>5 DEF Interrupt
    <2>2. QED
      BY <1>1, <2>1 DEF Dies
  <1>6. QED
    BY <1>3, <1>4, <1>5

(* Where no program handles SIGCHLD, it stays so.                          *)
LEMMA UnconcernedKept ==
  ASSUME IInv, Next, ~ Handles(Scenes[scene], "CHLD"),
         \A p \in Pids : Unconcerned(p)
  PROVE  \A p \in Pids : Unconcerned(p)'
  <1> DEFINE Q == Steps(scene)
  <1>1. Closes(Q)
    BY StepsClose
  <1> HIDE DEF Q
  <1>2. PICK p \in Pids : \/ Local(p, Q) \/ Dies(p) \/ Fork(p) \/ Wait(p)
                          \/ Signals(p) \/ OfThreads(p) \/ Interrupt(p)
    BY <1>1, StepKinds
  <1>3. ASSUME NEW q \in Pids, Same(proc'[q], proc[q])
        PROVE  Unconcerned(q)'
    BY <1>3 DEF Same, Unconcerned
  <1>4. CASE Local(p, Q)
    BY <1>3, <1>4, LocalAll
  <1>5. CASE Dies(p)
    BY <1>5, DiesSignals DEF Unconcerned
  <1>6. CASE Fork(p)
    BY <1>6, ForkAll DEF Unconcerned, Same
  <1>7. CASE Wait(p)
    BY <1>7, WaitAll DEF Unconcerned
  <1>8. CASE Signals(p)
    <2>1. \A q \in Pids \ {p} : Unconcerned(q)'
      <3>1. \A q \in Pids \ {p} : proc'[q] = proc[q]
        BY <1>8, SignalsAll
      <3>2. QED
        BY <3>1 DEF Unconcerned
    <2>8. proc[p].handler \in [{"INT", "CHLD"} -> Seq(Steps(scene))]
      BY DEF IInv, ProcessesOK, ProcessOK
    <2>2. CASE /\ Call(p, "sigaction")
               /\ proc'[p].handler = [proc[p].handler EXCEPT ![Arg(p, 1)]
                    = Arg(p, 2)]
               /\ proc'[p].masked = proc[p].masked
               /\ proc'[p].pending = proc[p].pending
      <3>1. Head(proc[p].code) \in Scenes[scene].calls
        BY <2>2, NextCall DEF Call
      <3>2. Arg(p, 1) # "CHLD"
        BY <2>2, <3>1 DEF Handles, Call, Arg
      <3>3. QED
        BY <2>1, <2>2, <2>8, <3>2 DEF Unconcerned
    <2>3. CASE \E signal \in proc[p].pending \ proc[p].masked :
               /\ proc'[p].handler = proc[p].handler
               /\ proc'[p].masked = proc[p].masked \cup {signal}
               /\ proc'[p].pending = proc[p].pending \ {signal}
      BY <2>1, <2>3 DEF Unconcerned
    <2>4. CASE /\ proc'[p].handler = proc[p].handler
               /\ proc'[p].masked = proc[p].masked \ {Arg(p, 1)}
               /\ proc'[p].pending = proc[p].pending
      BY <2>1, <2>4 DEF Unconcerned
    <2>5. CASE /\ proc'[p].handler = proc[p].handler
               /\ proc'[p].masked \in {proc[p].masked \cup {"INT"},
                                       proc[p].masked \ {"INT"}}
               /\ proc'[p].pending = proc[p].pending
      BY <2>1, <2>5 DEF Unconcerned
    <2>6. CASE /\ proc'[p].handler = proc[p].handler
               /\ proc'[p].masked = proc[p].masked
               /\ proc'[p].pending = proc[p].pending \ {"INT"}
      BY <2>1, <2>6 DEF Unconcerned
    <2>7. QED
      BY <1>8, <2>1, <2>2, <2>3, <2>4, <2>5, <2>6, SignalsAll
  <1>9. CASE OfThreads(p)
    BY <1>9, OfThreadsSignals DEF Unconcerned
  <1>10. CASE Interrupt(p)
    BY <1>5, <1>10, InterruptSignals DEF Unconcerned
  <1>11. QED
    BY <1>2, <1>4, <1>5, <1>6, <1>7, <1>8, <1>9, <1>10

(* What else leaves a process where it was.                                *)
LEMMA StillExpecting ==
  ASSUME NEW q \in Pids, Expecting(q), scene' = scene,
         proc'[q].handler = proc[q].handler,
         proc'[q].masked = proc[q].masked,
         proc'[q].pending = proc[q].pending,
         proc'[q].state = "runs" =>
           /\ proc[q].state = "runs" /\ Zombies(q) \subseteq Zombies(q)'
           /\ \/ proc'[q].code = proc[q].code
              \/ /\ proc[q].code \in Seq(Calm(scene))
                 /\ proc'[q].code \in Seq(Calm(scene))
  PROVE  Expecting(q)'
  <1>1. CASE proc'[q].state # "runs"
    BY <1>1 DEF Expecting, BeginsWithWait, Runs
  <1>2. CASE proc'[q].state = "runs" /\ proc'[q].code = proc[q].code
    BY <1>2 DEF Expecting, BeginsWithWait, Runs
  <1>3. CASE /\ proc'[q].state = "runs"
             /\ proc[q].code \in Seq(Calm(scene))
             /\ proc'[q].code \in Seq(Calm(scene))
    BY <1>3 DEF Expecting, BeginsWithWait, Runs
  <1>4. QED
    BY <1>1, <1>2, <1>3

(* A process that is not about to wait.                                    *)
LEMMA CalmlyExpecting ==
  ASSUME NEW q \in Pids, scene' = scene,
         proc'[q].code \in Seq(Calm(scene)),
         proc'[q].masked \subseteq {"CHLD"},
         proc'[q].pending \subseteq {"CHLD"},
         proc'[q].handler["INT"] = <<>>,
         proc'[q].handler["CHLD"] = <<>>
         \/ BeginsWithWait(proc[q].handler["CHLD"])',
         "CHLD" \in proc'[q].pending => Zombies(q)' # {}
  PROVE  Expecting(q)'
  BY DEF Expecting

(* What begins a code is its beginning still when more is joined to it.    *)
LEMMA FirstStays ==
  ASSUME NEW T, NEW x \in Seq(T), x # <<>>, NEW y \in Seq(T)
  PROVE  /\ x \o y \in Seq(T) /\ x \o y # <<>> /\ Head(x \o y) = Head(x)
         /\ Tail(x \o y) = Tail(x) \o y
  <1>1. /\ x \o y \in Seq(T) /\ Len(x \o y) = Len(x) + Len(y) /\ Len(x) > 0
        /\ x \o y # <<>> /\ Head(x \o y) = Head(x)
    OBVIOUS
  <1>2. Tail(x \o y) = Tail(x) \o y
    BY <1>1
  <1>3. QED
    BY <1>1, <1>2

(* The calls of a scene in which only the handler waits bring no wait.     *)
LEMMA CalmCloses ==
  ASSUME IInv, WaitsInHandler(Scenes[scene])
  PROVE  /\ Closes(Calm(scene)) /\ ~ Threaded(scene)
         /\ \A code : code \in Seq(Waitless(Scenes[scene])) =>
              code \in Seq(Calm(scene))
  <1> DEFINE S == Scenes[scene]
             Q == Calm(scene)
  <1>1. ~ Threaded(scene)
    BY DEF WaitsInHandler, Threaded
  <1>2. Waitless(S) \subseteq Q
    BY DEF Waitless, Calm, Steps
  <1>3. \A code : code \in Seq(Waitless(S)) => code \in Seq(Q)
    BY <1>2, SeqMonotonic
  <1>4. {"meet"} \X Nat \X {"r", "w"} \X Nat \subseteq Q
    BY DEF Calm, Steps
  <1>5. ASSUME NEW c \in Q, c[1] \in {"while", "read", "fork", "exec"}
        PROVE  Parts(c) \subseteq Seq(Q)
    <2>1. c \notin {"meet"} \X Nat \X {"r", "w"} \X Nat
      BY <1>5
    <2>2. c \notin {"sigreturn"} \X {"INT", "CHLD"}
      BY <1>5
    <2>3. c \in S.calls
      BY <2>1, <2>2 DEF Calm, Steps
    <2>4. Parts(c) \subseteq Seq(Waitless(S))
      BY <1>5, <2>3 DEF WaitsInHandler
    <2>5. QED
      BY <1>3, <2>4
  <1>6. QED
    BY <1>1, <1>3, <1>4, <1>5 DEF Closes

(* Where the handler waits, it stays expected.                             *)
LEMMA ExpectingKept ==
  ASSUME IInv, Next, Handles(Scenes[scene], "CHLD"),
         WaitsInHandler(Scenes[scene]), \A p \in Pids : Expecting(p)
  PROVE  \A p \in Pids : Expecting(p)'
  <1> DEFINE Q == Calm(scene)
             S == Scenes[scene]
  <1>1. /\ Closes(Q) /\ ~ Threaded(scene)
        /\ \A code : code \in Seq(Waitless(S)) => code \in Seq(Q)
    BY CalmCloses
  <1>2. /\ \A q \in Pids : proc[q].main = 0
        /\ DOMAIN proc = Pids /\ \A q \in Pids : DOMAIN proc[q] = Fields
    BY <1>1, HasFields DEF IInv, FamilyOK
  <1>3. PICK p \in Pids : \/ Local(p, Q) \/ Dies(p) \/ Fork(p) \/ Wait(p)
                          \/ Signals(p) \/ OfThreads(p) \/ Interrupt(p)
    BY <1>1, StepKinds
  <1>4. scene' = scene
    BY <1>1, StepKinds
  <1>5. \A q \in Pids : Expecting(q)
    OBVIOUS
  <1>6. \A q \in Pids : proc[q].state = "runs" => proc[q].parent # q
    BY BoundsAssumption DEF IInv, FamilyOK
  <1>7. ASSUME NEW name, Call(p, name), name # "wait"
        PROVE  proc[p].code \in Seq(Q) /\ Tail(proc[p].code) \in Seq(Q)
               /\ Runs(p) /\ Head(proc[p].code) \in Q
    <2>1. Runs(p) /\ proc[p].code # <<>> /\ Head(proc[p].code)[1] # "wait"
      BY <1>7 DEF Call, Acts
    <2>2. proc[p].code \in Seq(Q)
      BY <1>5, <2>1 DEF Expecting, BeginsWithWait
    <2>3. QED
      BY <2>1, <2>2, RestIn
  <1>8. CASE Local(p, Q) \/ Cancel(p)
    <2>1. /\ \A q \in Pids : Same(proc'[q], proc[q])
          /\ \A q \in Pids \ {p} : proc'[q].code = proc[q].code
      BY <1>8, LocalAll, CancelAll
    <2>2. proc[p].code \in Seq(Q) /\ proc'[p].code \in Seq(Q)
      <3>1. CASE Local(p, Q)
        <4>1. proc[p].code \in Seq(Q)
          BY <1>5, <3>1 DEF Local, Expecting, BeginsWithWait
        <4>2. QED
          BY <3>1, <4>1 DEF Local
      <3>2. CASE Cancel(p)
        <4>1. Call(p, "cancel") /\ proc[p].code # <<>>
          BY <3>2 DEF Cancel, Call
        <4>2. proc[p].code \in Seq(Q)
          BY <1>7, <4>1
        <4>3. QED
          BY <3>2, <4>1, <4>2, CancelAll, RestIn
      <3>3. QED
        BY <1>8, <3>1, <3>2
    <2>3. \A q \in Pids : Zombies(q)' = Zombies(q)
      BY <2>1 DEF Zombies, Same
    <2>4. QED
      BY <1>4, <1>5, <2>1, <2>2, <2>3, StillExpecting DEF Same
  <1>9. CASE Dies(p)
    <2>1. \A q \in Pids \ {p} : Zombies(q) \subseteq Zombies(q)'
      BY <1>2, <1>9, DiesStates DEF Zombies, Dies, Runs
    <2>2. ASSUME NEW q \in Pids, proc'[q].pending = proc[q].pending
          PROVE  Expecting(q)'
      BY <1>2, <1>4, <1>5, <1>9, <2>1, <2>2, DiesStates, DiesSignals,
         StillExpecting
    <2>3. ASSUME NEW q \in Pids, proc[p].parent = q,
                 proc[q].handler["CHLD"] # <<>>,
                 proc'[q].pending = proc[q].pending \cup {"CHLD"}
          PROVE  Expecting(q)'
      <3>1. /\ q # p /\ q # 0 /\ p \notin Zombies(q) /\ p \in Zombies(q)'
        BY <1>2, <1>6, <1>9, <2>3, DiesStates, BoundsAssumption
           DEF Zombies, Dies, Runs
      <3>2. /\ proc'[q].handler = proc[q].handler
            /\ proc'[q].masked = proc[q].masked
            /\ proc'[q].code = proc[q].code
            /\ proc'[q].state = "runs" => proc[q].state = "runs"
        BY <1>2, <1>9, <3>1, DiesStates, DiesSignals
      <3>3. Expecting(q) /\ Zombies(q) \subseteq Zombies(q)'
        BY <1>5, <2>1, <3>1
      <3>4. CASE proc[q].code \in Seq(Q)
        BY <1>4, <2>3, <3>1, <3>2, <3>3, <3>4
           DEF Expecting, BeginsWithWait, Runs
      <3>5. CASE proc[q].code \notin Seq(Q)
        <4>1. proc[q].state = "runs" => \E c, d \in Zombies(q)' : c # d
          BY <3>1, <3>3, <3>5 DEF Expecting, Runs
        <4>2. QED
          BY <1>4, <2>3, <3>1, <3>2, <3>3, <3>5, <4>1
             DEF Expecting, BeginsWithWait, Runs
      <3>6. QED
        BY <3>4, <3>5
    <2>4. QED
      BY <1>9, <2>2, <2>3, DiesSignals
  <1>10. CASE Fork(p)
    <2>1. PICK c \in Pids \ {p} :
           /\ proc[c].state = "none" /\ proc[p].state = "runs"
           /\ proc'[c].handler = proc[p].handler
           /\ proc'[c].masked = proc[p].masked /\ proc'[c].pending = {}
           /\ proc'[c].state = "runs"
           /\ proc'[c].code = Arg(p, 1) \o Tail(proc[p].code)
           /\ Same(proc'[p], proc[p])
           /\ proc'[p].code = Arg(p, 2) \o Tail(proc[p].code)
           /\ \A q \in Pids \ {p, c} : proc'[q] = proc[q]
      BY <1>10, ForkAll
    <2>2. Call(p, "fork") /\ Head(proc[p].code)[1] = "fork"
      BY <1>10 DEF Fork, Call
    <2>3. proc[p].code \in Seq(Q) /\ Head(proc[p].code) \in Q
          /\ Tail(proc[p].code) \in Seq(Q)
      BY <1>7, <2>2
    <2>4. Parts(Head(proc[p].code)) \subseteq Seq(Q)
      BY <1>1, <2>2, <2>3 DEF Closes
    <2>5. Arg(p, 1) \in Seq(Q) /\ Arg(p, 2) \in Seq(Q)
      <3> DEFINE h == Head(proc[p].code)
      <3>1. Parts(h) = {h[2], h[3], h[4]}
        BY <2>2 DEF Parts
      <3>2. QED
        BY <2>4, <3>1 DEF Arg
    <2>6. proc'[p].code \in Seq(Q) /\ proc'[c].code \in Seq(Q)
      BY <2>1, <2>3, <2>5, ConcatProperties
    <2>7. \A q \in Pids : Zombies(q) \subseteq Zombies(q)'
      BY <2>1 DEF Zombies, Same
    <2>8. Expecting(c)'
      BY <1>4, <1>5, <2>1, <2>6 DEF Expecting, BeginsWithWait, Runs
    <2>9. \A q \in Pids \ {c} : Expecting(q)'
      BY <1>4, <1>5, <2>1, <2>3, <2>6, <2>7, StillExpecting DEF Same
    <2>10. QED
      BY <2>8, <2>9
  <1>11. CASE Wait(p)
    <2>1. Call(p, "wait") /\ Runs(p) /\ proc[p].code # <<>>
          /\ Head(proc[p].code)[1] = "wait"
      BY <1>11 DEF Wait, Call, Acts
    <2>2. proc[p].code \notin Seq(Q)
      <3>1. ASSUME proc[p].code \in Seq(Q) PROVE FALSE
        <4>1. Head(proc[p].code) \in Q
          BY <2>1, <3>1, RestIn
        <4>2. QED
          BY <2>1, <4>1 DEF Calm
      <3>2. QED
        BY <3>1
    <2>3. /\ Tail(proc[p].code) \in Seq(Q) /\ Zombies(p) # {}
          /\ "CHLD" \in proc[p].pending => \E c, d \in Zombies(p) : c # d
      BY <1>5, <2>1, <2>2 DEF Expecting, BeginsWithWait
    <2>4. PICK c \in Zombies(p) :
            /\ proc'[c].state = "gone"
            /\ \A q \in Pids \ {c} : proc'[q].state = proc[q].state
      <3>1. {c \in Pids : proc[c].parent = p /\ proc[c].state # "gone"} # {}
        BY <2>3 DEF Zombies
      <3>2. QED
        BY <1>11, <3>1, WaitAll
    <2>5. /\ proc'[p].code = <<>> \o Tail(proc[p].code)
          /\ proc'[p].state = "runs"
          /\ \A q \in Pids \ {p} : proc'[q].code = proc[q].code
          /\ \A q \in Pids : /\ proc'[q].handler = proc[q].handler
                             /\ proc'[q].masked = proc[q].masked
                             /\ proc'[q].pending = proc[q].pending
                             /\ proc'[q].parent = proc[q].parent
      BY <1>11, WaitAll
    <2>6. /\ \A q \in Pids \ {p} : Zombies(q)' = Zombies(q)
          /\ Zombies(p) \ {c} \subseteq Zombies(p)'
      BY <2>4, <2>5 DEF Zombies
    <2>7. proc'[p].code \in Seq(Q)
      BY <2>3, <2>5, ConcatProperties, EmptySeq
    <2>8. Expecting(p)'
      <3>1. "CHLD" \in proc'[p].pending => Zombies(p)' # {}
        BY <2>3, <2>5, <2>6
      <3>2. QED
        BY <1>4, <1>5, <2>5, <2>7, <3>1 DEF Expecting, BeginsWithWait, Runs
    <2>9. \A q \in Pids \ {p} : Expecting(q)'
      <3>1. \A q \in Pids \ {p} : proc'[q].state = "runs" => proc[q].state
              = "runs"
        BY <2>4
      <3>2. QED
        BY <1>4, <1>5, <2>5, <2>6, <3>1, StillExpecting
    <2>10. QED
      BY <2>8, <2>9
  <1>12. CASE Signals(p)
    <2>1. /\ Runs(p) /\ \A q \in Pids \ {p} : proc'[q] = proc[q]
          /\ proc'[p].state = proc[p].state /\ proc'[p].parent = proc[p].parent
      BY <1>12, SignalsAll
    <2>2. \A q \in Pids : Zombies(q)' = Zombies(q)
      BY <2>1 DEF Zombies
    <2>3. \A q \in Pids \ {p} : Expecting(q)'
      BY <1>4, <1>5, <2>1, <2>2, StillExpecting
    <2>4. Expecting(p)
      BY <1>5
    <2>5. proc[p].handler \in [{"INT", "CHLD"} -> Seq(Steps(scene))]
      BY DEF IInv, ProcessesOK, ProcessOK
    <2>6. ASSUME NEW name, Call(p, name), name # "wait",
                 proc'[p].code = <<>> \o Tail(proc[p].code)
          PROVE  /\ proc[p].code \in Seq(Q) /\ proc'[p].code \in Seq(Q)
                 /\ "CHLD" \in proc[p].pending => Zombies(p)' # {}
      <3>1. /\ proc[p].code \in Seq(Q) /\ Tail(proc[p].code) \in Seq(Q)
            /\ Runs(p)
        BY <1>7, <2>6
      <3>2. <<>> \o Tail(proc[p].code) \in Seq(Q)
        BY <3>1, ConcatProperties, EmptySeq
      <3>3. QED
        BY <2>2, <2>4, <2>6, <3>1, <3>2 DEF Expecting
    <2>7. CASE /\ Call(p, "sigaction")
               /\ proc'[p].code = <<>> \o Tail(proc[p].code)
               /\ proc'[p].handler = [proc[p].handler EXCEPT ![Arg(p, 1)]
                    = Arg(p, 2)]
               /\ proc'[p].masked = proc[p].masked
               /\ proc'[p].pending = proc[p].pending
      <3> DEFINE h == Head(proc[p].code)
      <3>1. h \in S.calls /\ h[1] = "sigaction"
        BY <2>7, NextCall DEF Call
      <3>2. /\ h[2] = "CHLD" /\ h[3] # <<>>
            /\ Head(h[3])[1] = "wait" /\ Tail(h[3]) \in Seq(Waitless(S))
        BY <3>1 DEF WaitsInHandler
      <3>3. Arg(p, 1) = "CHLD" /\ Arg(p, 2) = h[3] /\ BeginsWithWait(h[3])
        <4>1. Arg(p, 1) = h[2] /\ Arg(p, 2) = h[3]
          BY DEF Arg
        <4>2. Tail(h[3]) \in Seq(Q)
          BY <1>1, <3>2
        <4>3. QED
          BY <3>2, <4>1, <4>2 DEF BeginsWithWait
      <3> HIDE DEF h
      <3>4. /\ proc'[p].handler["INT"] = <<>>
            /\ proc'[p].handler["CHLD"] = h[3]
        BY <2>4, <2>5, <2>7, <3>3 DEF Expecting
      <3>5. QED
        <4>1. /\ proc[p].code \in Seq(Q) /\ proc'[p].code \in Seq(Q)
              /\ "CHLD" \in proc[p].pending => Zombies(p)' # {}
          BY <2>6, <2>7
        <4>2. proc'[p].masked \subseteq {"CHLD"}
                /\ proc'[p].pending \subseteq {"CHLD"}
          BY <2>4, <2>7 DEF Expecting
        <4>3. BeginsWithWait(proc[p].handler["CHLD"])'
          BY <1>4, <3>3, <3>4 DEF BeginsWithWait
        <4>4. "CHLD" \in proc'[p].pending => Zombies(p)' # {}
          BY <2>7, <4>1
        <4>5. proc'[p].handler["INT"] = <<>>
          BY <3>4
        <4>6. Expecting(p)'
          BY <1>4, <4>1, <4>2, <4>3, <4>4, <4>5, CalmlyExpecting
        <4>7. QED
          BY <2>3, <4>6
    <2>8. ASSUME NEW signal \in proc[p].pending \ proc[p].masked,
                 proc'[p].code = proc[p].handler[signal]
                                  \o << <<"sigreturn", signal>> >>
                                     \o proc[p].code,
                 proc'[p].handler = proc[p].handler,
                 proc'[p].masked = proc[p].masked \cup {signal},
                 proc'[p].pending = proc[p].pending \ {signal}
          PROVE  Expecting(p)'
      <3> DEFINE back == << <<"sigreturn", "CHLD">> >>
                 handler == proc[p].handler["CHLD"]
                 rest == proc[p].code
      <3>1. signal = "CHLD" /\ "CHLD" \notin proc[p].masked
        BY <2>4, <2>8 DEF Expecting
      <3>2. rest \in Seq(Q) /\ Zombies(p)' # {}
        BY <2>1, <2>2, <2>4, <2>8, <3>1 DEF Expecting
      <3>3. back \in Seq(Q)
        <4>1. <<"sigreturn", "CHLD">> \in Q
          BY DEF Calm, Steps
        <4>2. QED
          BY <4>1
      <3>4. proc'[p].code = handler \o back \o rest
        BY <2>8, <3>1
      <3>5. /\ handler = <<>> \/ BeginsWithWait(handler)
            /\ handler \in Seq(Steps(scene))
        BY <2>4, <2>5 DEF Expecting
      <3>6. proc'[p].pending = {} /\ proc'[p].masked = {"CHLD"}
        BY <2>4, <2>8, <3>1 DEF Expecting
      <3> HIDE DEF handler, back, rest
      <3>7. CASE handler = <<>>
        <4>1. proc'[p].code \in Seq(Q)
          BY <3>2, <3>3, <3>4, <3>7, ConcatProperties, EmptySeq
        <4>2. QED
          BY <1>4, <2>1, <2>4, <2>8, <3>6, <4>1
             DEF Expecting, BeginsWithWait, Runs
      <3>8. CASE BeginsWithWait(handler)
        <4>1. /\ handler # <<>> /\ Head(handler)[1] = "wait"
              /\ Tail(handler) \in Seq(Q)
          BY <3>8 DEF BeginsWithWait
        <4>2. back \in Seq(Steps(scene)) /\ rest \in Seq(Steps(scene))
          BY <3>2, <3>3, SeqMonotonic DEF Calm
        <4> DEFINE T == Steps(scene)
                   front == handler \o back
                   all == front \o rest
        <4>7. handler \in Seq(T) /\ back \in Seq(T) /\ rest \in Seq(T)
          BY <3>5, <4>2
        <4>10. /\ front \in Seq(T) /\ front # <<>>
               /\ Head(front) = Head(handler)
                    /\ Tail(front) = Tail(handler) \o back
          BY <4>1, <4>7, FirstStays
        <4> HIDE DEF front
        <4>11. /\ all # <<>> /\ Head(all) = Head(front)
               /\ Tail(all) = Tail(front) \o rest
          BY <4>7, <4>10, FirstStays
        <4> HIDE DEF all
        <4>3. /\ proc'[p].code # <<>>
              /\ Head(proc'[p].code) = Head(handler)
              /\ Tail(proc'[p].code) = Tail(handler) \o back \o rest
          BY <3>4, <4>10, <4>11 DEF all, front
        <4> HIDE DEF Q
        <4>9. Tail(handler) \o back \in Seq(Q)
          BY <3>3, <4>1, ConcatProperties
        <4>4. Tail(proc'[p].code) \in Seq(Q)
          BY <3>2, <4>3, <4>9, ConcatProperties
        <4>5. BeginsWithWait(proc[p].code)'
          BY <1>4, <4>1, <4>3, <4>4 DEF BeginsWithWait, Q
        <4>6. QED
          BY <1>4, <2>1, <2>4, <2>8, <3>2, <3>6, <4>5
             DEF Expecting, BeginsWithWait, Runs
      <3>9. QED
        BY <3>5, <3>7, <3>8
    <2>9. CASE /\ Call(p, "sigreturn")
               /\ proc'[p].code = <<>> \o Tail(proc[p].code)
               /\ proc'[p].handler = proc[p].handler
               /\ proc'[p].masked = proc[p].masked \ {Arg(p, 1)}
               /\ proc'[p].pending = proc[p].pending
      <3>1. /\ proc[p].code \in Seq(Q) /\ proc'[p].code \in Seq(Q)
            /\ "CHLD" \in proc[p].pending => Zombies(p)' # {}
        BY <2>6, <2>9
      <3>2. /\ proc'[p].masked \subseteq {"CHLD"}
            /\ proc'[p].pending \subseteq {"CHLD"}
            /\ proc'[p].handler["INT"] = <<>>
        BY <2>4, <2>9 DEF Expecting
      <3>3. proc'[p].handler["CHLD"] = <<>>
            \/ BeginsWithWait(proc[p].handler["CHLD"])'
        BY <1>4, <2>4, <2>9 DEF Expecting, BeginsWithWait
      <3>4. "CHLD" \in proc'[p].pending => Zombies(p)' # {}
        BY <2>9, <3>1
      <3>5. Expecting(p)'
        BY <1>4, <3>1, <3>2, <3>3, <3>4, CalmlyExpecting
      <3>6. QED
        BY <2>3, <3>5
    <2>10. CASE Call(p, "sigmask")
      <3>1. Head(proc[p].code) \in S.calls /\ Head(proc[p].code)[1] = "sigmask"
        BY <2>10, NextCall DEF Call
      <3>2. QED
        BY <3>1 DEF WaitsInHandler
    <2>11. CASE Call(p, "sigwait") /\ "INT" \in proc[p].pending
      BY <2>4, <2>11 DEF Expecting
    <2>12. QED
      BY <1>12, <2>3, <2>7, <2>8, <2>9, <2>10, <2>11, SignalsAll
  <1>13. CASE OfThreads(p) /\ ~ Cancel(p)
    <2>1. proc[p].main = 0
      BY <1>2
    <2>2. \/ Call(p, "create") \/ Call(p, "pthread_exit") \/ Call(p, "loop")
      BY <1>13, <2>1
         DEF OfThreads, Create, ThreadEnds, ThreadMissed, Leaves
    <2>3. /\ Head(proc[p].code) \in S.calls
          /\ Head(proc[p].code)[1] \in {"create", "pthread_exit", "loop"}
      BY <2>2, NextCall DEF Call
    <2>4. QED
      BY <2>3 DEF WaitsInHandler
  <1>14. CASE Interrupt(p)
    <2>1. Leader(p) = p
      BY <1>2 DEF Leader
    <2>2. Expecting(p)
      BY <1>5
    <2>3. proc[p].handler["INT"] = <<>> /\ "INT" \notin proc[p].masked
      BY <2>2 DEF Expecting
    <2>4. QED
      BY <1>9, <1>14, <2>1, <2>3, InterruptSignals
  <1>15. QED
    BY <1>3, <1>8, <1>9, <1>10, <1>11, <1>12, <1>13, <1>14 DEF OfThreads

(* At the start nobody has set anything up.                                *)
LEMMA ChildrenInit ==
  ASSUME Init,
         Handles(Scenes[scene], "CHLD") => WaitsInHandler(Scenes[scene])
  PROVE  ChildrenOK
  <1> DEFINE S == Scenes[scene]
             Q == Calm(scene)
  <1>1. IInv
    BY InitOK
  <1>2. \A p \in Pids :
          /\ proc[p].handler = [signal \in {"INT", "CHLD"} |-> <<>>]
          /\ proc[p].masked = {} /\ proc[p].pending = {}
          /\ proc[p].code = IF p \in DOMAIN S.start THEN S.start[p] ELSE <<>>
    <2>1. ASSUME NEW p \in Pids
          PROVE  \E code, fd : /\ \/ proc[p] = Process(code, fd)
                                  \/ proc[p] = [Process(code,
                                       fd) EXCEPT !.state = "none"]
                               /\ code = IF p \in DOMAIN S.start
                                    THEN S.start[p] ELSE <<>>
      BY DEF Init
    <2>2. SUFFICES ASSUME NEW p \in Pids
                   PROVE  /\ proc[p].handler = [signal
                               \in {"INT", "CHLD"} |-> <<>>]
                          /\ proc[p].masked = {} /\ proc[p].pending = {}
                          /\ proc[p].code = IF p \in DOMAIN S.start
                               THEN S.start[p]
                                            ELSE <<>>
      OBVIOUS
    <2>3. PICK code, fd : /\ \/ proc[p] = Process(code, fd)
                             \/ proc[p] = [Process(code, fd) EXCEPT !.state
                                  = "none"]
                          /\ code = IF p \in DOMAIN S.start THEN S.start[p]
                               ELSE <<>>
      BY <2>1
    <2> DEFINE r == Process(code, fd)
    <2>4. /\ DOMAIN r = Fields /\ r.masked = {} /\ r.pending = {}
               /\ r.code = code
          /\ r.handler = [signal \in {"INT", "CHLD"} |-> <<>>]
      BY DEF Process, Fields
    <2>5. proc[p] = r \/ proc[p] = [r EXCEPT !.state = "none"]
      BY <2>3
    <2> HIDE DEF r
    <2>6. /\ proc[p].handler = r.handler /\ proc[p].code = r.code
          /\ proc[p].masked = r.masked /\ proc[p].pending = r.pending
      BY <2>4, <2>5 DEF Fields
    <2>7. QED
      BY <2>3, <2>4, <2>6
  <1>3. CASE Handles(S, "CHLD")
    <2>1. \A code : code \in Seq(Waitless(S)) => code \in Seq(Q)
      BY <1>1, <1>3, CalmCloses
    <2>2. \A p \in Pids : proc[p].code \in Seq(Q)
      BY <1>2, <1>3, <2>1, EmptySeq DEF WaitsInHandler
    <2>3. QED
      BY <1>2, <1>3, <2>2 DEF ChildrenOK, Expecting
  <1>4. CASE ~ Handles(S, "CHLD")
    BY <1>2, <1>4 DEF ChildrenOK, Unconcerned
  <1>5. QED
    BY <1>3, <1>4

(* However many SIGCHLDs merge, the wait in a handler finds a child that   *)
(* has ended, so that the handler never makes its program wait, whatever   *)
(* else the program and its children do, however many of them there are    *)
(* and whoever is killed (nozombie.c): in every scene whose handler begins *)
(* with the only wait of the scene.                                        *)
THEOREM HandlersFindZombies ==
  ASSUME \A s \in DOMAIN Scenes :
           Handles(Scenes[s], "CHLD") => WaitsInHandler(Scenes[s])
  PROVE  Spec => []HandlerFindsZombie
  <1>1. Init => IInv /\ ChildrenOK
    BY InitOK, ChildrenInit DEF Init
  <1>2. IInv /\ ChildrenOK /\ [Next]_vars => ChildrenOK'
    <2>1. CASE UNCHANGED vars
      <3>1. scene' = scene /\ proc' = proc
        BY <2>1 DEF vars
      <3>2. \A p \in Pids : Zombies(p)' = Zombies(p)
        BY <3>1 DEF Zombies
      <3>3. \A p \in Pids : Expecting(p) => Expecting(p)'
        BY <3>1, <3>2, StillExpecting
      <3>4. \A p \in Pids : Unconcerned(p) => Unconcerned(p)'
        BY <3>1 DEF Unconcerned
      <3>5. QED
        BY <3>1, <3>3, <3>4 DEF ChildrenOK
    <2>2. ASSUME IInv, ChildrenOK, Next
          PROVE  ChildrenOK'
      <3>1. scene' = scene
        BY <2>2, StepsClose, StepKinds
      <3>2. CASE Handles(Scenes[scene], "CHLD")
        BY <2>2, <3>1, <3>2, ExpectingKept DEF ChildrenOK, IInv, SceneOK
      <3>3. CASE ~ Handles(Scenes[scene], "CHLD")
        BY <2>2, <3>1, <3>3, UnconcernedKept DEF ChildrenOK
      <3>4. QED
        BY <3>2, <3>3
    <2>3. QED
      BY <2>1, <2>2
  <1>3. IInv /\ ChildrenOK => HandlerFindsZombie
    <2> SUFFICES ASSUME IInv, ChildrenOK, NEW p \in Pids, Call(p, "wait"),
                        "CHLD" \in proc[p].masked
                 PROVE  Zombies(p) # {}
      BY DEF HandlerFindsZombie, Zombies
    <2>1. Handles(Scenes[scene], "CHLD") /\ Expecting(p)
      BY DEF ChildrenOK, Unconcerned
    <2>2. Runs(p) /\ proc[p].code # <<>> /\ Head(proc[p].code)[1] = "wait"
      BY DEF Call, Acts
    <2>3. proc[p].code \notin Seq(Calm(scene))
      <3>1. ASSUME proc[p].code \in Seq(Calm(scene))
            PROVE  FALSE
        <4>1. Head(proc[p].code) \in Calm(scene)
          BY <2>2, <3>1, RestIn
        <4>2. QED
          BY <2>2, <4>1 DEF Calm
      <3>2. QED
        BY <3>1
    <2>4. QED
      BY <2>1, <2>2, <2>3 DEF Expecting
  <1>4. QED
    BY <1>1, <1>2, <1>3, InitOK, NextOK, PTL DEF Spec

(* That is how nozombie.c is: whatever the number of its children and of   *)
(* its seconds, the theorem is about it.                                   *)
NozombieCalls ==
  {sigaction("CHLD", <<wait, printf("pokupljeno")>>), wait,
   printf("pokupljeno"), fork(<<exit("exit 1")>>, <<>>, <<>>), exit("exit 1"),
   printf("sekunda")}

(* The scene of nozombie.c meets the hypothesis of HandlersFindZombies.    *)
THEOREM NozombieFits ==
  ASSUME NEW n \in Nat, NEW sekundi \in Nat, NEW S,
         S.start = <<NoZombie(n, sekundi)>>, S.calls = NozombieCalls
  PROVE  /\ Wellmade(S.calls) /\ Handles(S, "CHLD") /\ WaitsInHandler(S)
         /\ \A p \in DOMAIN S.start : S.start[p] \in Seq(S.calls)
  <1> DEFINE h == <<wait, printf("pokupljeno")>>
             C == sigaction("CHLD", h)
             F == fork(<<exit("exit 1")>>, <<>>, <<>>)
             K == printf("sekunda")
             W == Waitless(S)
             P == printf("pokupljeno")
             E == exit("exit 1")
  <1>13. /\ C[1] = "sigaction" /\ F[1] = "fork" /\ K[1] = "write"
         /\ P[1] = "write" /\ E[1] = "exit" /\ wait[1] = "wait"
    BY DEF printf, write, exit, fork, wait, sigaction
  <1>1. W = {P, F, E, K, C}
    <2>1. S.calls = {C, wait, P, F, E, K}
      BY DEF NozombieCalls
    <2> HIDE DEF C, F, K, P, E
    <2>2. QED
      BY <1>13, <2>1 DEF Waitless
  <1>2. C \in W /\ F \in W /\ K \in W /\ W \subseteq S.calls
    BY <1>1 DEF Waitless
  <1>3. NoZombie(n, sekundi) \in Seq(W)
    <2> DEFINE a == <<C>>
               b == [i \in 1..n |-> F]
               c == [i \in 1..sekundi |-> K]
    <2>1. NoZombie(n, sekundi) = a \o b \o c
      BY DEF NoZombie
    <2> HIDE DEF C, F, K, W
    <2>2. a \in Seq(W) /\ b \in Seq(W) /\ c \in Seq(W)
      BY <1>2
    <2> HIDE DEF a, b, c
    <2>3. QED
      BY <2>1, <2>2, ConcatProperties
  <1>4. /\ <<>> \in Seq(W) /\ <<exit("exit 1")>> \in Seq(W)
        /\ Tail(h) \in Seq(W) /\ h \in Seq(S.calls)
    <2> DEFINE e == exit("exit 1")
               k == printf("pokupljeno")
    <2>1. e \in W /\ k \in W /\ wait \in S.calls /\ k \in S.calls
      BY <1>1, <1>2 DEF NozombieCalls
    <2> HIDE DEF e, k, W
    <2>2. <<>> \in Seq(W) /\ <<e>> \in Seq(W) /\ <<k>> \in Seq(W)
          /\ <<wait, k>> \in Seq(S.calls) /\ Tail(<<wait, k>>) = <<k>>
      BY <2>1
    <2>3. QED
      BY <2>2 DEF e, k
  <1>5. \A code \in Seq(W) : code \in Seq(S.calls)
    BY <1>2, SeqMonotonic
  <1>6. ASSUME NEW c \in S.calls
        PROVE  /\ Parts(c) = IF c[1] = "sigaction" THEN {h}
                             ELSE IF c[1] = "fork" THEN {<<exit("exit 1")>>,
                                <<>>}
                             ELSE {}
               /\ c[1] \in {"sigaction", "wait", "write", "fork", "exit"}
               /\ c[1] = "sigaction" => c = C
    <2>1. \/ c = C \/ c = wait \/ c = printf("pokupljeno") \/ c = F
          \/ c = exit("exit 1") \/ c = K
      BY DEF NozombieCalls
    <2>2. CASE c = C
      BY <2>2 DEF Parts, sigaction
    <2>3. CASE c = F
      <3>1. /\ c[1] = "fork" /\ c[2] = <<exit("exit 1")>> /\ c[3] = <<>>
            /\ c[4] = <<>>
        BY <2>3 DEF fork
      <3>2. QED
        BY <3>1 DEF Parts
    <2>4. CASE c \in {wait, printf("pokupljeno"), exit("exit 1"), K}
      <3>1. c[1] \in {"wait", "write", "exit"}
        BY <1>13, <2>4
      <3>2. QED
        BY <3>1 DEF Parts
    <2>5. QED
      BY <2>1, <2>2, <2>3, <2>4
  <1>7. C[1] = "sigaction" /\ C[2] = "CHLD" /\ C[3] = h /\ C \in S.calls
    BY <1>2 DEF sigaction
  <1>8. h # <<>> /\ Head(h)[1] = "wait"
    BY DEF wait
  <1> HIDE DEF C, F, K, W, h
  <1>9. Wellmade(S.calls)
    BY <1>4, <1>5, <1>6, <1>7 DEF Wellmade
  <1>10. Handles(S, "CHLD")
    BY <1>7 DEF Handles
  <1>11. WaitsInHandler(S)
    <2>1. \A p \in DOMAIN S.start : S.start[p] \in Seq(W)
      BY <1>3
    <2>2. QED
      BY <1>4, <1>6, <1>7, <1>8, <2>1 DEF WaitsInHandler, W
  <1>12. QED
    BY <1>3, <1>5, <1>9, <1>10, <1>11

-----------------------------------------------------------------------------
(* SIGINT at a terminal.                                                   *)

(* Where SIGINT is seen to (maska.c, maska2.c), the program is alone at    *)
(* its terminal.                                                           *)
AloneAtTerminal(S) ==
  /\ S.start \in {<<Maska>>, <<Maska2>>}
  /\ S.output = <<tty>> /\ S.closed = {{}}

(* Maska has not begun, is in its handler, has SIGINT masked, or none of   *)
(* these; a SIGINT that came is pending, or its answer is about to be      *)
(* printed, or is on the screen: never more answers than SIGINTs, and at   *)
(* least one.  Maska2 prints its line whatever comes.                      *)
Obraden == printf("obraden")
Back == <<"sigreturn", "INT">>
Answers == { <<Obraden, Back>>, <<Obraden, Back, block, unblock>> }
Unmasked == { <<>>, <<block, unblock>> }
Masked == { <<unblock>>, <<Back>>, <<Back, block, unblock>> } \cup Answers

Idle(p) ==
  /\ proc[p].state = "none" /\ proc[p].parent = 0 /\ proc[p].main = 0
  /\ proc[p].handler["INT"] = <<>>
Given == Times("obraden", obj[tty].data)
Due(p) == (IF "INT" \in proc[p].pending THEN 1 ELSE 0)
          + (IF proc[p].code \in Answers THEN 1 ELSE 0)
Fresh(p) ==
  /\ trouble = 0 /\ obj[tty].data = <<>>
  /\ proc[p].masked = {} /\ proc[p].pending = {}
  /\ proc[p].handler["INT"] = <<>>
  /\ <<proc[p].code>> = Scenes[scene].start
Answering(p) ==
  /\ Scenes[scene].start = <<Maska>>
  /\ proc[p].handler["INT"] = <<Obraden>>
  /\ \/ proc[p].code \in Unmasked /\ proc[p].masked = {}
     \/ proc[p].code \in Masked /\ proc[p].masked = {"INT"}
  /\ proc[p].pending \subseteq {"INT"}
  /\ trouble > 0 => Due(p) > 0 \/ obj[tty].data # <<>>
  /\ Given + Due(p) <= trouble
Ignoring(p) ==
  /\ Scenes[scene].start = <<Maska2>>
  /\ proc[p].handler["INT"] = SIG_IGN
  /\ proc[p].masked = {} /\ proc[p].pending = {}
  /\ \/ proc[p].code = <<printf("kraj")>> /\ obj[tty].data = <<>>
     \/ proc[p].code = <<>> /\ obj[tty].data = <<"kraj">>
(* It writes to the terminal, alone; when it has ended, every SIGINT that  *)
(* it saw to has its answer.                                               *)
AtTerminal(p) ==
  /\ Runs(p) /\ proc[p].parent = 0 /\ proc[p].main = 0
  /\ tty \in DOMAIN obj /\ obj[tty].kind = "file"
  /\ proc[p].fd[1] = <<tty, "w">> /\ proc[p].reg["STDOUT"] = 1
Done(p) ==
  /\ ~ Runs(p) /\ proc[p].parent = 0 /\ proc[p].main = 0
  /\ proc[p].handler["INT"] # <<>> =>
       /\ proc[p].how = "exit 0"
       /\ trouble > 0 => obj[tty].data # <<>>
       /\ Given <= trouble
Answered(p) == \/ AtTerminal(p) /\ (Fresh(p) \/ Answering(p) \/ Ignoring(p))
               \/ Done(p)

InterruptsOK ==
  \A p \in Pids : IF ~ Handles(Scenes[scene], "INT")
                  THEN proc[p].handler["INT"] = <<>>
                  ELSE IF p = 1 THEN Answered(p) ELSE Idle(p)

(* One more of something in a sequence, or one of something else.          *)
LEMMA OneMore ==
  ASSUME NEW q, IsSeq(q), NEW m, NEW x
  PROVE  /\ Times(m, q) \in Nat
         /\ Times(m, q \o <<x>>) = Times(m, q) + IF x = m THEN 1 ELSE 0
  <1> DEFINE n == Len(q)
             r == q \o <<x>>
             A == {i \in DOMAIN q : q[i] = m}
             B == {i \in DOMAIN r : r[i] = m}
  <1>1. n \in Nat /\ DOMAIN q = 1 .. n
    BY LenOfSeq
  <1>2. /\ DOMAIN r = 1 .. n + 1 /\ r[n + 1] = x
        /\ \A i \in 1 .. n : r[i] = q[i]
    <2> DEFINE T == Range(q) \cup {x}
    <2>1. q \in Seq(T) /\ <<x>> \in Seq(T) /\ Len(<<x>>) = 1 /\ <<x>>[1] = x
      <3>1. q \in Seq(T)
        BY SeqMonotonic DEF IsSeq
      <3>2. x \in T
        OBVIOUS
      <3> HIDE DEF T
      <3>3. QED
        BY <3>1, <3>2
    <2> HIDE DEF T
    <2> DEFINE y == <<x>>
    <2>2. y \in Seq(T) /\ Len(y) = 1 /\ y[1] = x
      BY <2>1
    <2> HIDE DEF y
    <2>3. Len(q) \in Nat /\ DOMAIN q = 1 .. Len(q) /\ n = Len(q)
      BY LenOfSeq
    <2> HIDE DEF n
    <2>9. q \in Seq(T) /\ y \in Seq(T)
      BY <2>1, <2>2
    <2>10. Len(q \o y) = Len(q) + Len(y)
      BY <2>9
    <2>4. Len(q \o y) = n + 1
      BY <2>2, <2>3, <2>10
    <2>5. DOMAIN (q \o y) = 1 .. n + 1
      BY <2>1, <2>2, <2>4
    <2>6. \A i \in 1 .. n + 1 :
            (q \o y)[i] = IF i <= n THEN q[i] ELSE y[i - n]
      BY <2>1, <2>2, <2>3, <2>4
    <2>7. (q \o y)[n + 1] = x /\ \A i \in 1 .. n : (q \o y)[i] = q[i]
      BY <2>2, <2>3, <2>6
    <2>8. QED
      BY <2>5, <2>7 DEF y
  <1> HIDE DEF n, r
  <1>3. IsFiniteSet(A) /\ Cardinality(A) \in Nat
    <2>1. IsFiniteSet(1 .. n) /\ A \subseteq 1 .. n
      BY <1>1, FS_Interval
    <2> HIDE DEF A
    <2>2. QED
      BY <2>1, FS_Subset, FS_CardinalityType
  <1>4. CASE x = m
    <2>1. B = A \cup {n + 1} /\ n + 1 \notin A
      BY <1>1, <1>2, <1>4
    <2> HIDE DEF A, B
    <2>2. Cardinality(B) = Cardinality(A) + 1
      BY <1>3, <2>1, FS_AddElement
    <2>3. QED
      BY <1>3, <1>4, <2>2 DEF Times, A, B, r
  <1>5. CASE x # m
    <2>1. B = A
      BY <1>1, <1>2, <1>5
    <2>2. Times(m, q) = Cardinality(A) /\ Times(m, r) = Cardinality(B)
      BY DEF Times
    <2> HIDE DEF A, B
    <2>3. QED
      BY <1>3, <1>5, <2>1, <2>2 DEF r
  <1>6. QED
    BY <1>4, <1>5

(* Nothing is in an empty sequence.                                        *)
LEMMA NoneYet == \A m : Times(m, <<>>) = 0
  <1>1. \A m : {i \in DOMAIN <<>> : <<>>[i] = m} = {}
    OBVIOUS
  <1>2. QED
    BY <1>1, FS_EmptySet DEF Times

(* Whoever moves, runs.                                                    *)
LEMMA WhoMoves ==
  ASSUME NEW p \in Pids, \/ Calls(p) \/ CallFails(p) \/ ForkFails(p)
                         \/ CreateFails(p) \/ Interrupt(p)
  PROVE  Runs(p)
  BY DEF Calls, Open, MkFifo, OpenFifo, Meet, Pipe, Dup, Close, Read, Write,
     BrokenPipe, WriteNowhere, Fork, Exec, Wait, Return, Missing, SigAction,
     Deliver, SigReturn, Get, Send, Receive, Unlink, Truncate, Store, Load,
     Create, Self, Join, Cancel, NoThread, ThreadEnds, SigMask, SigWait,
     Alloc, Free, GetPpid, Mmap, CallFails, ForkFails, CreateFails, Interrupt,
     Call, Acts

(* What a program that only writes and sees to signals can do.             *)
LEMMA FewCalls ==
  ASSUME NEW p \in Pids,
         Calls(p) \/ CallFails(p) \/ ForkFails(p) \/ CreateFails(p),
         proc[p].code # <<>> =>
           Head(proc[p].code)[1]
             \in {"sigaction", "sigmask", "sigreturn", "write"},
         proc[p].code # <<>> /\ Head(proc[p].code)[1] = "write" => ~ Arg(p, 3)
  PROVE  \/ Signals(p)
         \/ Return(p) /\ proc[p].code = <<>>
         \/ /\ Write(p) \/ BrokenPipe(p) \/ WriteNowhere(p)
            /\ Acts(p) /\ proc[p].code # <<>>
                 /\ Head(proc[p].code)[1] = "write"
  <1> DEFINE others == {"alloc", "cancel", "close", "closeUnless",
                 "create", "dup", "dup2", "exec", "exit", "fork",
                 "free", "get", "getppid", "join", "load", "loop", "meet",
                 "mkfifo", "mmap", "open", "openFifo", "pipe", "pthread_exit",
                 "read", "receive", "self", "send", "sigwait", "store",
                 "truncate", "unlink", "wait", "while"}
  <1>1. \A name : Call(p, name) =>
          /\ proc[p].code # <<>> /\ Acts(p) /\ Head(proc[p].code)[1] = name
    BY DEF Call
  <1>2. \A name \in others : ~ Call(p, name)
    BY <1>1
  <1>3. /\ ~ Call(p, "dup") /\ ~ Call(p, "dup2") /\ ~ Call(p, "meet")
        /\ ~ Call(p, "mkfifo") /\ ~ Call(p, "open") /\ ~ Call(p, "openFifo")
        /\ ~ Call(p, "pipe")
    BY <1>2
  <1>4. /\ ~ Open(p) /\ ~ MkFifo(p) /\ ~ OpenFifo(p) /\ ~ Meet(p) /\ ~ Pipe(p)
        /\ ~ Dup(p)
    BY <1>3 DEF Open, MkFifo, OpenFifo, Meet, Pipe, Dup
  <1>5. /\ ~ Call(p, "close") /\ ~ Call(p, "closeUnless") /\ ~ Call(p, "exec")
        /\ ~ Call(p, "fork") /\ ~ Call(p, "get") /\ ~ Call(p, "open")
        /\ ~ Call(p, "read") /\ ~ Call(p, "wait") /\ ~ Call(p, "while")
    BY <1>2
  <1>6. /\ ~ Close(p) /\ ~ Read(p) /\ ~ Fork(p) /\ ~ Exec(p) /\ ~ Wait(p)
        /\ ~ Missing(p)
    BY <1>5 DEF Close, Read, Fork, Exec, Wait, Missing
  <1>7. /\ ~ Call(p, "get") /\ ~ Call(p, "receive") /\ ~ Call(p, "send")
        /\ ~ Call(p, "truncate") /\ ~ Call(p, "unlink")
    BY <1>2
  <1>8. /\ ~ Get(p) /\ ~ Send(p) /\ ~ Receive(p) /\ ~ Unlink(p)
        /\ ~ Truncate(p)
    BY <1>7 DEF Get, Send, Receive, Unlink, Truncate
  <1>9. /\ ~ Call(p, "cancel") /\ ~ Call(p, "create") /\ ~ Call(p, "join")
        /\ ~ Call(p, "load") /\ ~ Call(p, "self") /\ ~ Call(p, "store")
    BY <1>2
  <1>14. ~ Call(p, "getppid") /\ ~ Call(p, "mmap")
    BY <1>2
  <1>15. ~ GetPpid(p) /\ ~ Mmap(p)
    BY <1>14 DEF GetPpid, Mmap
  <1>10. /\ ~ Store(p) /\ ~ Load(p) /\ ~ Create(p) /\ ~ Self(p) /\ ~ Join(p)
         /\ ~ Cancel(p)
    BY <1>9 DEF Store, Load, Create, Self, Join, Cancel
  <1>11. /\ ~ Call(p, "alloc") /\ ~ Call(p, "cancel") /\ ~ Call(p, "free")
         /\ ~ Call(p, "join") /\ ~ Call(p, "loop")
         /\ ~ Call(p, "pthread_exit")
    BY <1>2
  <1>12. /\ ~ NoThread(p) /\ ~ ThreadEnds(p) /\ ~ Alloc(p) /\ ~ Free(p)
    BY <1>11 DEF NoThread, ThreadEnds, Alloc, Free
  <1>20. \A name \in Tested : ~ Call(p, name)
    BY <1>2 DEF Tested
  <1>21. ~ CallFails(p)
    BY <1>1, <1>3, <1>20 DEF CallFails
  <1>22. ~ Call(p, "create") /\ ~ Call(p, "fork") /\ ~ Call(p, "exit")
    BY <1>2
  <1>23. ~ ForkFails(p) /\ ~ CreateFails(p)
    BY <1>22 DEF ForkFails, CreateFails
  <1>24. Return(p) => proc[p].code = <<>>
    BY <1>22 DEF Return
  <1>25. Write(p) \/ BrokenPipe(p) \/ WriteNowhere(p) => Call(p, "write")
    BY DEF Write, BrokenPipe, WriteNowhere
  <1>26. QED
    BY <1>1, <1>4, <1>6, <1>8, <1>10, <1>12, <1>15, <1>21,
       <1>23, <1>24, <1>25 DEF Calls, Signals

(* Who is alone and ends, ends alone.                                      *)
LEMMA EndsAlone ==
  ASSUME IInv, NEW p \in Pids, NEW how, proc' = Ended(p, how),
         \A q \in Pids : proc[q].main = 0 /\ proc[q].parent = 0, Runs(p)
  PROVE  /\ \A q \in Pids \ {p} : proc'[q] = proc[q]
         /\ proc'[p].state = "gone" /\ proc'[p].how = how
         /\ proc'[p].main = 0 /\ proc'[p].parent = 0
         /\ proc'[p].handler = proc[p].handler
  <1>1. \A q \in Pids : DOMAIN proc[q] = Fields /\ q # 0
    BY HasFields, BoundsAssumption
  <1>2. \A q \in Pids : q \in Group(p) <=> q = p
    BY DEF Group, Leader
  <1>3. 0 \notin Group(p)
    BY <1>1 DEF Group
  <1>4. \A q \in Pids \ {p} : proc'[q] = proc[q]
    BY <1>1, <1>2, <1>3 DEF Ended
  <1>5. proc'[p] = Stopped(p, how)
    BY <1>2 DEF Ended
  <1>6. QED
    BY <1>1, <1>4, <1>5 DEF Stopped, Fields, Runs

(* A file stays what it is when others are emptied.                        *)
LEMMA FileStays ==
  ASSUME NEW o \in DOMAIN obj, obj[o].kind = "file", obj' = Emptied(proc')
  PROVE  o \in DOMAIN obj' /\ obj'[o] = obj[o]
  BY DEF Emptied

(* printf at the terminal.                                                 *)
LEMMA Prints ==
  ASSUME IInv, NEW p \in Pids, Acts(p), proc[p].code # <<>>,
         NEW m, m \notin {"buf", "got", "status", "ppid"},
         Head(proc[p].code) = printf(m),
         AtTerminal(p),
         Write(p) \/ BrokenPipe(p) \/ WriteNowhere(p)
  PROVE  /\ tty \in DOMAIN obj' /\ obj'[tty].kind = "file"
         /\ obj'[tty].data = obj[tty].data \o <<m>>
         /\ trouble' = trouble
         /\ \A q \in Pids \ {p} : proc'[q] = proc[q]
         /\ Same(proc'[p], proc[p])
         /\ proc'[p].code = <<>> \o Tail(proc[p].code)
         /\ proc'[p].fd = proc[p].fd /\ proc'[p].reg = proc[p].reg
  <1>1. Arg(p, 1) = "STDOUT" /\ Arg(p, 2) = m
    BY DEF Arg, printf, write
  <1>2. Target(p) = <<tty, "w">>
    <2>1. Val(p, Arg(p, 1)) = 1 /\ 1 \in 0..MaxFd
      BY <1>1, BoundsAssumption DEF Val, AtTerminal
    <2>2. QED
      BY <2>1 DEF Target, Fd, AtTerminal
  <1>3. ~ Unread(p) /\ Target(p)[2] = "w" /\ Target(p)[1] = tty
    BY <1>2 DEF Unread, Streams, Streaming, tty, AtTerminal
  <1>4. Write(p)
    BY <1>3 DEF BrokenPipe, WriteNowhere
  <1>5. What(p) = <<m>>
    BY <1>1 DEF What
  <1>6. obj' = [obj EXCEPT ![tty].data = @ \o <<m>>, ![tty].put = @ \o <<m>>]
    BY <1>3, <1>4, <1>5 DEF Write
  <1>7. ObjectOK(obj[tty])
    BY DEF IInv, ObjectsOK, AtTerminal
  <1>8. /\ tty \in DOMAIN obj' /\ obj'[tty].kind = "file"
        /\ obj'[tty].data = obj[tty].data \o <<m>>
    BY <1>6, <1>7 DEF ObjectOK, AtTerminal
  <1> DEFINE r == Rest(p, <<>>)
  <1>9. /\ Same(r, proc[p]) /\ DOMAIN r = Fields
        /\ r.code = <<>> \o Tail(proc[p].code)
        /\ r.fd = proc[p].fd /\ r.reg = proc[p].reg
    BY RestSame, HasFields DEF Rest, Fields
  <1> DEFINE new == [r EXCEPT !.buf = <<>>]
  <1>10. Becomes(p, new) /\ trouble' = trouble
    BY <1>4 DEF Write
  <1> HIDE DEF r
  <1>11. /\ Same(new, proc[p]) /\ new.code = <<>> \o Tail(proc[p].code)
         /\ new.fd = proc[p].fd /\ new.reg = proc[p].reg
    BY <1>9 DEF Same, Fields
  <1> HIDE DEF new
  <1>12. proc'[p] = new /\ \A q \in Pids \ {p} : proc'[q] = proc[q]
    BY <1>10, HasFields DEF Becomes
  <1>13. QED
    BY <1>8, <1>10, <1>11, <1>12

(* Where no program handles SIGINT, it stays so.                           *)
LEMMA UnhandledKept ==
  ASSUME IInv, Next, ~ Handles(Scenes[scene], "INT"),
         \A p \in Pids : proc[p].handler["INT"] = <<>>
  PROVE  \A p \in Pids : proc'[p].handler["INT"] = <<>>
  <1> DEFINE Q == Steps(scene)
  <1>1. Closes(Q)
    BY StepsClose
  <1> HIDE DEF Q
  <1>2. PICK p \in Pids : \/ Local(p, Q) \/ Dies(p) \/ Fork(p) \/ Wait(p)
                          \/ Signals(p) \/ OfThreads(p) \/ Interrupt(p)
    BY <1>1, StepKinds
  <1>3. CASE Local(p, Q)
    BY <1>3, LocalAll DEF Same
  <1>4. CASE Dies(p)
    BY <1>4, DiesSignals
  <1>5. CASE Fork(p)
    BY <1>5, ForkAll DEF Same
  <1>6. CASE Wait(p)
    BY <1>6, WaitAll
  <1>7. CASE Signals(p)
    <2>1. \A q \in Pids \ {p} : proc'[q].handler["INT"] = <<>>
      BY <1>7, SignalsAll
    <2>2. proc[p].handler \in [{"INT", "CHLD"} -> Seq(Steps(scene))]
      BY DEF IInv, ProcessesOK, ProcessOK
    <2>3. CASE /\ Call(p, "sigaction")
               /\ proc'[p].handler = [proc[p].handler EXCEPT ![Arg(p, 1)]
                    = Arg(p, 2)]
      <3>1. Head(proc[p].code) \in Scenes[scene].calls
        BY <2>3, NextCall DEF Call
      <3>2. Arg(p, 1) # "INT"
        BY <2>3, <3>1 DEF Handles, Call, Arg
      <3>3. QED
        BY <2>1, <2>2, <2>3, <3>2
    <2>4. CASE proc'[p].handler = proc[p].handler
      BY <2>1, <2>4
    <2>5. QED
      BY <1>7, <2>3, <2>4, SignalsAll
  <1>8. CASE OfThreads(p)
    BY <1>8, OfThreadsSignals
  <1>9. CASE Interrupt(p)
    BY <1>4, <1>9, InterruptSignals
  <1>10. QED
    BY <1>2, <1>3, <1>4, <1>5, <1>6, <1>7, <1>8, <1>9

(* Where the code of Maska goes from where it is.                          *)
LEMMA MaskaCodes ==
  /\ \A x \in Answers : /\ x # <<>> /\ Head(x) = Obraden
                        /\ <<>> \o Tail(x) \in Masked \ Answers
  /\ \A x \in (Unmasked \cup Masked) \ Answers :
       \/ x = <<>> /\ x \notin Masked
       \/ /\ x # <<>> /\ Head(x) = block /\ x \notin Masked
          /\ <<>> \o Tail(x) \in Masked \ Answers
       \/ /\ x # <<>> /\ Head(x) \in {unblock, Back} /\ x \notin Unmasked
          /\ <<>> \o Tail(x) \in Unmasked
  /\ \A x \in Unmasked : /\ x \notin Answers
                         /\ <<Obraden>> \o << <<"sigreturn", "INT">> >> \o x
                              \in Answers
  <1> DEFINE o == Obraden
             k == Back
             b == block
             u == unblock
  <1>1. o # k /\ o # b /\ o # u /\ k # b /\ k # u /\ b # u
    BY DEF Obraden, Back, block, unblock, printf, write
  <1> HIDE DEF o, k, b, u
  <1>2. /\ Answers = {<<o, k>>, <<o, k, b, u>>}
        /\ Unmasked = {<<>>, <<b, u>>}
        /\ Masked = {<<u>>, <<k>>, <<k, b, u>>, <<o, k>>, <<o, k, b, u>>}
    BY DEF Answers, Unmasked, Masked, o, k, b, u
  <1>3. /\ \A x : /\ <<x>> # <<>> /\ Head(<<x>>) = x
                  /\ <<>> \o Tail(<<x>>) = <<>>
        /\ \A x, y : /\ <<x, y>> # <<>> /\ Head(<<x, y>>) = x
                     /\ <<>> \o Tail(<<x, y>>) = <<y>>
        /\ \A x, y, z : /\ <<x, y, z>> # <<>> /\ Head(<<x, y, z>>) = x
                        /\ <<>> \o Tail(<<x, y, z>>) = <<y, z>>
        /\ \A x, y, z, w : /\ <<x, y, z, w>> # <<>> /\ Head(<<x, y, z, w>>) = x
                           /\ <<>> \o Tail(<<x, y, z, w>>) = <<y, z, w>>
    OBVIOUS
  <1>4. <<o>> \o <<k>> \o <<>> = <<o, k>>
        /\ <<o>> \o <<k>> \o <<b, u>> = <<o, k, b, u>>
    <2> DEFINE T == {o, k, b, u}
    <2>1. o \in T /\ k \in T /\ b \in T /\ u \in T
      OBVIOUS
    <2> HIDE DEF T
    <2>2. /\ <<o>> \in Seq(T) /\ <<k>> \in Seq(T) /\ <<o, k>> \in Seq(T)
          /\ <<b, u>> \in Seq(T) /\ <<o, k, b, u>> \in Seq(T)
          /\ <<>> \in Seq(T)
      BY <2>1
    <2>3. <<o>> \o <<k>> = <<o, k>>
      <3> DEFINE x == <<o>>
                 y == <<k>>
                 z == <<o, k>>
      <3>1. /\ x \in Seq(T) /\ y \in Seq(T) /\ z \in Seq(T)
            /\ Len(x) = 1 /\ Len(y) = 1 /\ Len(z) = 2
            /\ x[1] = o /\ y[1] = k /\ z[1] = o /\ z[2] = k
        BY <2>2
      <3> HIDE DEF x, y, z
      <3>4. x \o y \in Seq(T) /\ Len(x \o y) = Len(x) + Len(y)
        BY <3>1, ConcatProperties
      <3>5. x \o y \in Seq(T) /\ Len(x \o y) = 2
        BY <3>1, <3>4
      <3>6. \A i \in 1..2 : (x \o y)[i] = IF i <= 1 THEN x[i] ELSE y[i - 1]
        BY <3>1, ConcatProperties
      <3>2. /\ x \o y \in Seq(T) /\ Len(x \o y) = 2
            /\ (x \o y)[1] = o /\ (x \o y)[2] = k
        BY <3>1, <3>5, <3>6
      <3>3. x \o y = z
        BY <3>1, <3>2, SeqEqual
      <3>7. QED
        BY <3>3 DEF x, y, z
    <2>4. <<o, k>> \o <<b, u>> = <<o, k, b, u>>
      <3> DEFINE x == <<o, k>>
                 y == <<b, u>>
                 z == <<o, k, b, u>>
      <3>1. /\ x \in Seq(T) /\ y \in Seq(T) /\ z \in Seq(T)
            /\ Len(x) = 2 /\ Len(y) = 2 /\ Len(z) = 4
            /\ x[1] = o /\ x[2] = k /\ y[1] = b /\ y[2] = u
            /\ z[1] = o /\ z[2] = k /\ z[3] = b /\ z[4] = u
        BY <2>2
      <3> HIDE DEF x, y, z
      <3>4. x \o y \in Seq(T) /\ Len(x \o y) = Len(x) + Len(y)
        BY <3>1, ConcatProperties
      <3>5. x \o y \in Seq(T) /\ Len(x \o y) = 4
        BY <3>1, <3>4
      <3>6. /\ (x \o y)[1] = x[1] /\ (x \o y)[2] = x[2]
            /\ (x \o y)[3] = y[1] /\ (x \o y)[4] = y[2]
        <4>1. \A i \in 1 .. Len(x) + Len(y) :
                (x \o y)[i] = IF i <= Len(x) THEN x[i] ELSE y[i - Len(x)]
          <5>1. x \in Seq(T) /\ y \in Seq(T)
            BY <3>1
          <5>2. QED
            BY <5>1, ConcatProperties
        <4>2. Len(x) = 2 /\ Len(y) = 2
          BY <3>1
        <4> DEFINE w == x \o y
                   m == Len(x)
                   n == Len(y)
        <4>3. \A i \in 1 .. m + n : w[i] = IF i <= m THEN x[i] ELSE y[i - m]
          BY <4>1
        <4>4. m = 2 /\ n = 2
          BY <4>2
        <4> HIDE DEF w, m, n
        <4>5. w[1] = x[1] /\ w[2] = x[2] /\ w[3] = y[1] /\ w[4] = y[2]
          BY <4>3, <4>4
        <4>6. QED
          BY <4>5 DEF w
      <3>2. /\ x \o y \in Seq(T) /\ Len(x \o y) = 4
            /\ (x \o y)[1] = o /\ (x \o y)[2] = k
            /\ (x \o y)[3] = b /\ (x \o y)[4] = u
        BY <3>1, <3>5, <3>6
      <3>3. x \o y = z
        BY <3>1, <3>2, SeqEqual
      <3>7. QED
        BY <3>3 DEF x, y, z
    <2>5. <<o, k>> \o <<>> = <<o, k>>
      BY <2>2
    <2>6. QED
      BY <2>3, <2>4, <2>5
  <1>5. /\ <<o, k>> \notin Unmasked /\ <<o, k, b, u>> \notin Unmasked
        /\ <<u>> \notin Unmasked /\ <<k>> \notin Unmasked
        /\ <<k, b, u>> \notin Unmasked
        /\ <<>> \notin Masked /\ <<b, u>> \notin Masked
        /\ <<u>> \notin Answers /\ <<k>> \notin Answers
        /\ <<k, b, u>> \notin Answers
        /\ <<>> \notin Answers /\ <<b, u>> \notin Answers
    BY <1>1, <1>2, <1>3
  <1>6. \A x \in Answers : /\ x # <<>> /\ Head(x) = o
                           /\ <<>> \o Tail(x) \in Masked \ Answers
    <2>1. /\ <<o, k>> # <<>> /\ Head(<<o, k>>) = o
          /\ <<>> \o Tail(<<o, k>>) = <<k>>
      BY <1>3
    <2>2. /\ <<o, k, b, u>> # <<>> /\ Head(<<o, k, b, u>>) = o
          /\ <<>> \o Tail(<<o, k, b, u>>) = <<k, b, u>>
      BY <1>3
    <2>3. <<k>> \in Masked \ Answers /\ <<k, b, u>> \in Masked \ Answers
      BY <1>2, <1>5
    <2>4. ASSUME NEW x \in Answers
          PROVE  x = <<o, k>> \/ x = <<o, k, b, u>>
      BY <1>2
    <2>5. QED
      BY <2>1, <2>2, <2>3, <2>4
  <1>7. \A x \in (Unmasked \cup Masked) \ Answers :
       \/ x = <<>> /\ x \notin Masked
       \/ /\ x # <<>> /\ Head(x) = b /\ x \notin Masked
          /\ <<>> \o Tail(x) \in Masked \ Answers
       \/ /\ x # <<>> /\ Head(x) \in {u, k} /\ x \notin Unmasked
          /\ <<>> \o Tail(x) \in Unmasked
    <2>1. /\ <<b, u>> # <<>> /\ Head(<<b, u>>) = b
          /\ <<>> \o Tail(<<b, u>>) = <<u>>
      BY <1>3
    <2>2. /\ <<u>> # <<>> /\ Head(<<u>>) = u /\ <<>> \o Tail(<<u>>) = <<>>
          /\ <<k>> # <<>> /\ Head(<<k>>) = k /\ <<>> \o Tail(<<k>>) = <<>>
      BY <1>3
    <2>3. /\ <<k, b, u>> # <<>> /\ Head(<<k, b, u>>) = k
          /\ <<>> \o Tail(<<k, b, u>>) = <<b, u>>
      BY <1>3
    <2>4. <<u>> \in Masked \ Answers /\ {<<>>, <<b, u>>} \subseteq Unmasked
      BY <1>2, <1>5
    <2>5. ASSUME NEW x \in (Unmasked \cup Masked) \ Answers
          PROVE  x \in {<<>>, <<b, u>>, <<u>>, <<k>>, <<k, b, u>>}
      BY <1>2
    <2>6. QED
      BY <1>5, <2>1, <2>2, <2>3, <2>4, <2>5
  <1>8. \A x \in Unmasked : x \notin Answers /\ <<o>> \o <<k>> \o x \in Answers
    BY <1>2, <1>4, <1>5
  <1>9. <<"sigreturn", "INT">> = k
    BY DEF Back, k
  <1>10. QED
    BY <1>6, <1>7, <1>8, <1>9 DEF o, k, b, u

(* Maska masks, takes and answers its SIGINTs.                             *)
LEMMA AnsweringSignals ==
  ASSUME IInv, NEW p \in Pids, Answering(p), Signals(p), scene' = scene
  PROVE  Answering(p)'
  <1> DEFINE code == proc[p].code
  <1>1. \/ code \in Unmasked /\ proc[p].masked = {}
        \/ code \in Masked /\ proc[p].masked = {"INT"}
    BY DEF Answering
  <1>2. obj' = obj /\ trouble' = trouble /\ Given' = Given
    BY SignalsAll DEF Given
  <1>3. SUFFICES /\ proc'[p].handler = proc[p].handler
                 /\ \/ proc'[p].code \in Unmasked /\ proc'[p].masked = {}
                    \/ proc'[p].code \in Masked /\ proc'[p].masked = {"INT"}
                 /\ proc'[p].pending \subseteq {"INT"}
                 /\ Due(p)' = Due(p)
    BY <1>2 DEF Answering
  <1>4. \A name : Call(p, name) => code # <<>> /\ Head(code)[1] = name
    BY DEF Call
  <1>5. /\ Obraden[1] = "write" /\ Back[1] = "sigreturn" /\ Back[2] = "INT"
        /\ block[1] = "sigmask" /\ block[2] = TRUE
        /\ unblock[1] = "sigmask" /\ unblock[2] = FALSE
    BY DEF Obraden, Back, block, unblock, printf, write
  <1>6. CASE Call(p, "sigaction") \/ Call(p, "sigwait")
    <2>1. code # <<>> /\ Head(code)[1] \in {"sigaction", "sigwait"}
      BY <1>4, <1>6
    <2>2. Head(code) \in {Obraden, block, unblock, Back}
      BY <1>1, <2>1, MaskaCodes
    <2>3. QED
      BY <1>5, <2>1, <2>2
  <1>7. ASSUME NEW signal \in proc[p].pending \ proc[p].masked,
               proc'[p].code = proc[p].handler[signal]
                               \o << <<"sigreturn", signal>> >> \o code,
               proc'[p].handler = proc[p].handler,
               proc'[p].masked = proc[p].masked \cup {signal},
               proc'[p].pending = proc[p].pending \ {signal}
        PROVE  /\ proc'[p].handler = proc[p].handler
               /\ proc'[p].code \in Masked /\ proc'[p].masked = {"INT"}
               /\ proc'[p].pending \subseteq {"INT"} /\ Due(p)' = Due(p)
    <2>1. signal = "INT" /\ proc[p].pending = {"INT"} /\ proc[p].masked = {}
      BY <1>1 DEF Answering
    <2>2. code \in Unmasked /\ proc[p].handler["INT"] = <<Obraden>>
      BY <1>1, <2>1 DEF Answering
    <2>3. code \notin Answers /\ proc'[p].code \in Answers
      BY <1>7, <2>1, <2>2, MaskaCodes
    <2>4. proc'[p].pending = {} /\ proc'[p].masked = {"INT"}
      BY <1>7, <2>1
    <2>5. Due(p) = 1 /\ Due(p)' = 1
      BY <2>1, <2>3, <2>4 DEF Due
    <2>6. proc'[p].code \in Masked
      BY <2>3 DEF Masked
    <2>7. QED
      BY <1>7, <2>4, <2>5, <2>6
  <1>8. ASSUME proc'[p].pending = proc[p].pending, code \notin Answers,
               proc'[p].code \notin Answers
        PROVE  proc'[p].pending \subseteq {"INT"} /\ Due(p)' = Due(p)
    BY <1>8 DEF Due, Answering
  <1>9. CASE /\ Call(p, "sigreturn")
             /\ proc'[p].code = <<>> \o Tail(code)
             /\ proc'[p].handler = proc[p].handler
             /\ proc'[p].masked = proc[p].masked \ {Arg(p, 1)}
             /\ proc'[p].pending = proc[p].pending
    <2>1. code # <<>> /\ Head(code)[1] = "sigreturn"
      BY <1>4, <1>9
    <2>2. code \notin Answers
      BY <1>5, <2>1, MaskaCodes
    <2>3. /\ Head(code) = Back /\ code \notin Unmasked
          /\ <<>> \o Tail(code) \in Unmasked
      BY <1>1, <1>5, <2>1, <2>2, MaskaCodes
    <2>4. Arg(p, 1) = "INT" /\ proc[p].masked = {"INT"}
      BY <1>1, <1>5, <2>3 DEF Arg
    <2>5. proc'[p].code \in Unmasked /\ proc'[p].masked = {}
      BY <1>9, <2>3, <2>4
    <2>6. QED
      BY <1>8, <1>9, <2>2, <2>5, MaskaCodes
  <1>10. CASE /\ Call(p, "sigmask")
              /\ proc'[p].code = <<>> \o Tail(code)
              /\ proc'[p].handler = proc[p].handler
              /\ proc'[p].masked = IF Arg(p, 1)
                   THEN proc[p].masked \cup {"INT"}
                                   ELSE proc[p].masked \ {"INT"}
              /\ proc'[p].pending = proc[p].pending
    <2>1. code # <<>> /\ Head(code)[1] = "sigmask"
      BY <1>4, <1>10
    <2>2. code \notin Answers
      BY <1>5, <2>1, MaskaCodes
    <2>3. CASE Head(code) = block
      <3>1. code \notin Masked /\ <<>> \o Tail(code) \in Masked \ Answers
        BY <1>1, <1>5, <2>1, <2>2, <2>3, MaskaCodes
      <3>2. Arg(p, 1) = TRUE /\ proc[p].masked = {}
        BY <1>1, <1>5, <2>3, <3>1 DEF Arg
      <3>3. /\ proc'[p].code \in Masked /\ proc'[p].code \notin Answers
            /\ proc'[p].masked = {"INT"}
        BY <1>10, <3>1, <3>2
      <3>4. QED
        BY <1>8, <1>10, <2>2, <3>3
    <2>4. CASE Head(code) # block
      <3>1. /\ Head(code) = unblock /\ code \notin Unmasked
            /\ <<>> \o Tail(code) \in Unmasked
        BY <1>1, <1>5, <2>1, <2>2, <2>4, MaskaCodes
      <3>2. Arg(p, 1) = FALSE /\ proc[p].masked = {"INT"}
        BY <1>1, <1>5, <3>1 DEF Arg
      <3>3. proc'[p].code \in Unmasked /\ proc'[p].masked = {}
        BY <1>10, <3>1, <3>2
      <3>4. QED
        BY <1>8, <1>10, <2>2, <3>3, MaskaCodes
    <2>5. QED
      BY <2>3, <2>4
  <1>11. QED
    BY <1>6, <1>7, <1>9, <1>10, SignalsAll

(* Nobody else is touched.                                                 *)
Others(p) == \A q \in Pids \ {p} : proc'[q] = proc[q]

(* How often something was printed is a number.                            *)
LEMMA GivenNat ==
  ASSUME IInv, tty \in DOMAIN obj
  PROVE  /\ IsSeq(obj[tty].data) /\ Given \in Nat /\ trouble \in Nat
         /\ \A x : Times("obraden", obj[tty].data \o <<x>>)
                     = Given + IF x = "obraden" THEN 1 ELSE 0
  <1> DEFINE q == obj[tty].data
  <1>1. IsSeq(q) /\ trouble \in Nat
    BY BoundsAssumption DEF IInv, SceneOK, ObjectsOK, ObjectOK
  <1> HIDE DEF q
  <1>2. \A x : /\ Times("obraden", q) \in Nat
               /\ Times("obraden", q \o <<x>>)
                    = Times("obraden", q) + IF x = "obraden" THEN 1 ELSE 0
    BY <1>1, OneMore
  <1>3. QED
    BY <1>1, <1>2 DEF Given, q

(* Maska prints an answer.                                                 *)
LEMMA AnsweringWrites ==
  ASSUME IInv, NEW p \in Pids, Answering(p), AtTerminal(p), scene' = scene,
         Acts(p), proc[p].code # <<>>, Head(proc[p].code)[1] = "write",
         Write(p) \/ BrokenPipe(p) \/ WriteNowhere(p)
  PROVE  Answering(p)' /\ AtTerminal(p)' /\ Others(p)
  <1> DEFINE code == proc[p].code
  <1>1. /\ Obraden[1] = "write" /\ Back[1] = "sigreturn"
        /\ block[1] = "sigmask" /\ unblock[1] = "sigmask"
    BY DEF Obraden, Back, block, unblock, printf, write
  <1>2. code \in Unmasked \cup Masked
    BY DEF Answering
  <1>3. code \in Answers
    BY <1>1, <1>2, MaskaCodes
  <1>4. Head(code) = printf("obraden")
          /\ <<>> \o Tail(code) \in Masked \ Answers
    BY <1>3, MaskaCodes DEF Obraden
  <1>5. proc[p].masked = {"INT"}
    BY <1>3, MaskaCodes DEF Answering
  <1>6. /\ tty \in DOMAIN obj' /\ obj'[tty].kind = "file"
        /\ obj'[tty].data = obj[tty].data \o <<"obraden">>
        /\ trouble' = trouble /\ Others(p)
        /\ Same(proc'[p], proc[p])
        /\ proc'[p].code = <<>> \o Tail(code)
        /\ proc'[p].fd = proc[p].fd /\ proc'[p].reg = proc[p].reg
    BY <1>4, Prints DEF AtTerminal, Others
  <1>7. AtTerminal(p)'
    BY <1>6 DEF AtTerminal, Same, Runs
  <1>8. /\ Given \in Nat /\ trouble \in Nat /\ Given' = Given + 1
        /\ obj'[tty].data # <<>>
    <2>1. /\ IsSeq(obj[tty].data) /\ Given \in Nat /\ trouble \in Nat
          /\ \A x : Times("obraden", obj[tty].data \o <<x>>)
                      = Given + IF x = "obraden" THEN 1 ELSE 0
      BY GivenNat DEF AtTerminal
    <2>2. Times("obraden", obj[tty].data \o <<"obraden">>) = Given + 1
      BY <2>1
    <2>3. Given' = Given + 1
      BY <1>6, <2>2 DEF Given
    <2>4. obj'[tty].data # <<>>
      <3>1. Times("obraden", <<>>) = 0
        BY NoneYet
      <3>2. Given' # 0
        BY <2>1, <2>3
      <3>3. QED
        BY <3>1, <3>2 DEF Given
    <2>5. QED
      BY <2>1, <2>3, <2>4
  <1>9. Due(p) \in Nat /\ Due(p)' + 1 = Due(p)
    BY <1>3, <1>4, <1>6 DEF Due, Same
  <1>10. Given' + Due(p)' <= trouble'
    <2>1. Given + Due(p) <= trouble
      BY DEF Answering
    <2> HIDE DEF code
    <2>2. Due(p)' \in Nat
      BY DEF Due
    <2>3. QED
      BY <1>6, <1>8, <1>9, <2>1, <2>2
  <1>11. Answering(p)'
    BY <1>4, <1>5, <1>6, <1>8, <1>10 DEF Answering, Same
  <1>12. QED
    BY <1>6, <1>7, <1>11

(* Who is alone at the terminal ends there.                                *)
LEMMA EndsThere ==
  ASSUME IInv, NEW p \in Pids, NEW how, AtTerminal(p),
         \A q \in Pids : proc[q].main = 0 /\ proc[q].parent = 0,
         proc' = Ended(p, how), obj' = Emptied(proc')
  PROVE  /\ proc'[p].how = how /\ proc'[p].handler = proc[p].handler
         /\ ~ Runs(p)' /\ proc'[p].parent = 0 /\ proc'[p].main = 0
         /\ tty \in DOMAIN obj' /\ obj'[tty] = obj[tty]
         /\ Others(p)
  <1>1. /\ Others(p)
        /\ proc'[p].state = "gone" /\ proc'[p].how = how
        /\ proc'[p].main = 0 /\ proc'[p].parent = 0
        /\ proc'[p].handler = proc[p].handler
    BY EndsAlone DEF Others, AtTerminal
  <1>2. tty \in DOMAIN obj' /\ obj'[tty] = obj[tty]
    BY FileStays DEF AtTerminal
  <1>3. QED
    BY <1>1, <1>2 DEF Runs

(* Maska returns only when every SIGINT has its answer.                    *)
LEMMA AnsweringReturns ==
  ASSUME IInv, NEW p \in Pids, Answering(p), AtTerminal(p),
         \A q \in Pids : proc[q].main = 0 /\ proc[q].parent = 0,
         Return(p), proc[p].code = <<>>
  PROVE  Done(p)' /\ Others(p)
  <1>1. Acts(p) /\ Runs(p) /\ trouble' = trouble /\ obj' = Emptied(proc')
    BY DEF Return, Acts
  <1>2. proc' = Ended(p, "exit 0")
    BY DEF Return, Call
  <1>3. proc[p].masked = {} /\ <<>> \notin Answers
    BY MaskaCodes DEF Answering, Unmasked
  <1>4. proc[p].pending = {}
    BY <1>1, <1>3 DEF Acts
  <1>5. Due(p) = 0
    BY <1>3, <1>4 DEF Due
  <1>6. Given \in Nat /\ trouble \in Nat
    BY GivenNat DEF AtTerminal
  <1>7. /\ trouble > 0 => obj[tty].data # <<>>
        /\ Given <= trouble
    BY <1>5, <1>6 DEF Answering
  <1>8. /\ proc'[p].how = "exit 0"
        /\ ~ Runs(p)' /\ proc'[p].parent = 0 /\ proc'[p].main = 0
        /\ tty \in DOMAIN obj' /\ obj'[tty] = obj[tty]
        /\ Others(p)
    BY <1>1, <1>2, EndsThere
  <1>9. Given' = Given
    BY <1>8 DEF Given
  <1>10. QED
    BY <1>1, <1>7, <1>8, <1>9 DEF Done

(* SIGINT comes to Maska: it waits, and counts once however often.         *)
LEMMA AnsweringInterrupted ==
  ASSUME IInv, NEW p \in Pids, Answering(p), AtTerminal(p), Interrupt(p),
         scene' = scene
  PROVE  Answering(p)' /\ AtTerminal(p)' /\ Others(p)
  <1>1. DOMAIN proc = Pids /\ DOMAIN proc[p] = Fields
    BY HasFields
  <1>2. Leader(p) = p
    BY DEF Leader, AtTerminal
  <1>3. proc[p].handler["INT"] # <<>> /\ proc[p].handler["INT"] # SIG_IGN
    <2>1. Obraden # <<"ignored">>
      BY DEF Obraden, printf, write
    <2>2. <<Obraden>> # << <<"ignored">> >> /\ <<Obraden>> # <<>>
      BY <2>1
    <2>3. QED
      BY <2>2 DEF Answering, SIG_IGN
  <1>4. proc' = [proc EXCEPT ![p].pending = @ \cup {"INT"}]
    BY <1>2, <1>3 DEF Interrupt
  <1> DEFINE new == [proc[p] EXCEPT !.pending = @ \cup {"INT"}]
  <1>5. /\ new.pending = proc[p].pending \cup {"INT"}
        /\ new.state = proc[p].state /\ new.code = proc[p].code
        /\ new.fd = proc[p].fd /\ new.reg = proc[p].reg
        /\ new.parent = proc[p].parent /\ new.main = proc[p].main
        /\ new.handler = proc[p].handler /\ new.masked = proc[p].masked
    BY <1>1 DEF Fields
  <1>6. proc' = [proc EXCEPT ![p] = new]
    BY <1>4
  <1> HIDE DEF new
  <1>7. proc'[p] = new /\ Others(p)
    BY <1>1, <1>6 DEF Others
  <1>8. Runs(p) /\ obj' = Emptied(proc') /\ trouble' = trouble + 1
    BY DEF Interrupt, Trouble
  <1>9. tty \in DOMAIN obj' /\ obj'[tty] = obj[tty]
    BY <1>8, FileStays DEF AtTerminal
  <1>10. AtTerminal(p)'
    BY <1>5, <1>7, <1>9 DEF AtTerminal, Runs
  <1>11. Given \in Nat /\ trouble \in Nat /\ Given' = Given
    BY <1>9, GivenNat DEF AtTerminal, Given
  <1>12. /\ Due(p) \in Nat /\ Due(p)' \in Nat
         /\ Due(p)' > 0 /\ Due(p)' <= Due(p) + 1
    BY <1>5, <1>7 DEF Due
  <1>13. Given' + Due(p)' <= trouble'
    BY <1>8, <1>11, <1>12 DEF Answering
  <1>14. proc'[p].pending \subseteq {"INT"}
    BY <1>5, <1>7 DEF Answering
  <1>15. Answering(p)'
    BY <1>5, <1>7, <1>12, <1>13, <1>14 DEF Answering
  <1>16. QED
    BY <1>7, <1>10, <1>15

(* From the start, sigaction: SIGINT is handled or ignored, and none came. *)
LEMMA FreshSignals ==
  ASSUME IInv, NEW p \in Pids, Fresh(p), AtTerminal(p), Signals(p),
         scene' = scene, AloneAtTerminal(Scenes[scene])
  PROVE  (Answering(p)' \/ Ignoring(p)') /\ AtTerminal(p)' /\ Others(p)
  <1>1. /\ Others(p) /\ AtTerminal(p)' /\ Given' = Given
        /\ obj' = obj /\ trouble' = trouble
    BY SignalsAll DEF Others, AtTerminal, Runs, Given
  <1>2. proc[p].code = Maska \/ proc[p].code = Maska2
    <2>1. \A x, y : <<x>> = <<y>> => x = y
      OBVIOUS
    <2>2. QED
      BY <2>1 DEF Fresh, AloneAtTerminal
  <1>3. /\ Head(Maska) = sigaction("INT", <<Obraden>>)
        /\ <<>> \o Tail(Maska) = <<block, unblock>>
        /\ Head(Maska2) = sigaction("INT", SIG_IGN)
        /\ <<>> \o Tail(Maska2) = <<printf("kraj")>>
    BY DEF Maska, Maska2, Obraden
  <1>4. Head(proc[p].code)[1] = "sigaction"
    BY <1>2, <1>3 DEF sigaction
  <1>5. \A name : Call(p, name) => name = "sigaction"
    BY <1>4 DEF Call
  <1>6. ~ \E signal \in proc[p].pending \ proc[p].masked : TRUE
    BY DEF Fresh
  <1>7. /\ proc'[p].code = <<>> \o Tail(proc[p].code)
        /\ proc'[p].handler = [proc[p].handler EXCEPT ![Arg(p, 1)] = Arg(p, 2)]
        /\ proc'[p].masked = proc[p].masked
        /\ proc'[p].pending = proc[p].pending
    BY <1>5, <1>6, SignalsAll
  <1>8. DOMAIN proc[p].handler = {"INT", "CHLD"}
    BY DEF IInv, ProcessesOK, ProcessOK
  <1>9. /\ proc'[p].masked = {} /\ proc'[p].pending = {} /\ trouble' = 0
        /\ obj'[tty].data = <<>> /\ Given' = 0
    BY <1>1, <1>7, NoneYet DEF Fresh, Given
  <1>10. CASE proc[p].code = Maska
    <2>1. Arg(p, 1) = "INT" /\ Arg(p, 2) = <<Obraden>>
      BY <1>3, <1>10 DEF Arg, sigaction
    <2>2. proc'[p].handler["INT"] = <<Obraden>>
      BY <1>7, <1>8, <2>1
    <2>3. proc'[p].code \in Unmasked /\ proc'[p].code \notin Answers
      <3>1. proc'[p].code = <<block, unblock>>
        BY <1>3, <1>7, <1>10
      <3>2. QED
        BY <3>1, MaskaCodes DEF Unmasked
    <2>4. Due(p)' = 0
      BY <1>9, <2>3 DEF Due
    <2>5. Scenes[scene].start = <<Maska>>
      BY <1>10 DEF Fresh
    <2>6. QED
      BY <1>1, <1>9, <2>2, <2>3, <2>4, <2>5 DEF Answering
  <1>11. CASE proc[p].code = Maska2
    <2>1. Arg(p, 1) = "INT" /\ Arg(p, 2) = SIG_IGN
      BY <1>3, <1>11 DEF Arg, sigaction
    <2>2. proc'[p].handler["INT"] = SIG_IGN
      BY <1>7, <1>8, <2>1
    <2>3. proc'[p].code = <<printf("kraj")>>
      BY <1>3, <1>7, <1>11
    <2>4. Scenes[scene].start = <<Maska2>>
      BY <1>11 DEF Fresh
    <2>5. QED
      BY <1>1, <1>9, <2>2, <2>3, <2>4 DEF Ignoring
  <1>12. QED
    BY <1>2, <1>10, <1>11

(* SIGINT ends a program that has not yet seen to it.                      *)
LEMMA FreshInterrupted ==
  ASSUME IInv, NEW p \in Pids, Fresh(p), AtTerminal(p), Interrupt(p),
         \A q \in Pids : proc[q].main = 0 /\ proc[q].parent = 0
  PROVE  Done(p)' /\ Others(p)
  <1>1. Leader(p) = p /\ p \in Group(p)
    BY DEF Leader, AtTerminal, Group
  <1>2. proc[p].handler["INT"] = <<>> /\ <<>> # SIG_IGN
    BY DEF Fresh, SIG_IGN
  <1>3. ~ \A q \in Group(p) : Runs(q) => "INT" \in proc[q].masked
    BY <1>1 DEF Fresh, AtTerminal
  <1>4. proc' = Ended(p, "signal")
    BY <1>1, <1>2, <1>3 DEF Interrupt
  <1>5. obj' = Emptied(proc')
    BY DEF Interrupt
  <1>6. QED
    BY <1>2, <1>4, <1>5, EndsThere DEF Done

(* Maska2 prints its line and returns, whatever comes.                     *)
LEMMA IgnoringKept ==
  ASSUME IInv, NEW p \in Pids, Ignoring(p), AtTerminal(p), scene' = scene,
         \A q \in Pids : proc[q].main = 0 /\ proc[q].parent = 0,
         \/ Return(p) /\ proc[p].code = <<>>
         \/ /\ Write(p) \/ BrokenPipe(p) \/ WriteNowhere(p)
            /\ Acts(p) /\ proc[p].code # <<>>
                 /\ Head(proc[p].code)[1] = "write"
         \/ Interrupt(p)
  PROVE  /\ (AtTerminal(p)' /\ Ignoring(p)') \/ Done(p)'
         /\ Others(p)
  <1>1. CASE Return(p) /\ proc[p].code = <<>>
    <2>1. trouble' = trouble /\ obj' = Emptied(proc')
      BY <1>1 DEF Return
    <2>2. proc' = Ended(p, "exit 0")
      BY <1>1 DEF Return, Call, AtTerminal
    <2>3. obj[tty].data = <<"kraj">>
      BY <1>1 DEF Ignoring
    <2>4. Given = 0 /\ trouble \in Nat
      <3> DEFINE e == <<>>
                 k == "kraj"
      <3>1. IsSeq(e) /\ Times("obraden", e) = 0 /\ k # "obraden"
        BY NoneYet DEF IsSeq
      <3> HIDE DEF e, k
      <3>2. Times("obraden", e \o <<k>>) = 0
        BY <3>1, OneMore
      <3>3. e \o <<k>> = <<"kraj">>
        BY DEF e, k
      <3>4. QED
        BY <2>3, <3>2, <3>3, GivenNat DEF Given, AtTerminal
    <2>5. /\ proc'[p].how = "exit 0"
          /\ ~ Runs(p)' /\ proc'[p].parent = 0 /\ proc'[p].main = 0
          /\ tty \in DOMAIN obj' /\ obj'[tty] = obj[tty]
          /\ Others(p)
      BY <2>1, <2>2, EndsThere
    <2>6. Given' = Given
      BY <2>5 DEF Given
    <2>7. Given' <= trouble'
      BY <2>1, <2>4, <2>6
    <2>8. obj'[tty].data # <<>>
      <3>1. <<"kraj">> # <<>>
        OBVIOUS
      <3>2. QED
        BY <2>3, <2>5, <3>1
    <2>9. QED
      BY <2>5, <2>7, <2>8 DEF Done
  <1>2. CASE /\ Write(p) \/ BrokenPipe(p) \/ WriteNowhere(p)
             /\ Acts(p) /\ proc[p].code # <<>>
                  /\ Head(proc[p].code)[1] = "write"
    <2>1. proc[p].code = <<printf("kraj")>> /\ obj[tty].data = <<>>
      BY <1>2 DEF Ignoring
    <2>2. Head(proc[p].code) = printf("kraj")
            /\ <<>> \o Tail(proc[p].code) = <<>>
      BY <2>1
    <2>3. /\ tty \in DOMAIN obj' /\ obj'[tty].kind = "file"
          /\ obj'[tty].data = obj[tty].data \o <<"kraj">>
          /\ trouble' = trouble /\ Others(p)
          /\ Same(proc'[p], proc[p])
          /\ proc'[p].code = <<>> \o Tail(proc[p].code)
          /\ proc'[p].fd = proc[p].fd /\ proc'[p].reg = proc[p].reg
      BY <1>2, <2>2, Prints DEF Others
    <2>4. <<>> \o <<"kraj">> = <<"kraj">>
      OBVIOUS
    <2>5. proc'[p].code = <<>> /\ obj'[tty].data = <<"kraj">>
      BY <2>1, <2>2, <2>3, <2>4
    <2>6. AtTerminal(p)'
      BY <2>3 DEF AtTerminal, Same, Runs
    <2>7. Ignoring(p)'
      BY <2>3, <2>5 DEF Ignoring, Same
    <2>8. QED
      BY <2>3, <2>6, <2>7
  <1>3. CASE Interrupt(p)
    <2>1. Leader(p) = p
      BY DEF Leader, AtTerminal
    <2>2. proc' = proc /\ obj' = Emptied(proc')
      BY <1>3, <2>1 DEF Interrupt, Ignoring
    <2>3. tty \in DOMAIN obj' /\ obj'[tty] = obj[tty]
      BY <2>2, FileStays DEF AtTerminal
    <2>4. AtTerminal(p)' /\ Ignoring(p)' /\ Others(p)
      BY <2>2, <2>3 DEF AtTerminal, Ignoring, Others, Runs
    <2>5. QED
      BY <2>4
  <1>4. QED
    BY <1>1, <1>2, <1>3

(* Maska2 makes no call for signals once SIGINT is ignored.                *)
LEMMA NoSignals ==
  ASSUME IInv, NEW p \in Pids, Ignoring(p)
  PROVE  ~ Signals(p)
  <1>1. Head(<<printf("kraj")>>)[1] = "write"
    BY DEF printf, write
  <1>2. \A name : Call(p, name) => name = "write"
    BY <1>1 DEF Call, Ignoring
  <1>3. ~ \E signal \in proc[p].pending \ proc[p].masked : TRUE
    BY DEF Ignoring
  <1>4. QED
    BY <1>2, <1>3, SignalsAll

(* The calls that Maska and Maska2 make.                                   *)
LEMMA ProgramCalls ==
  ASSUME NEW p \in Pids, Fresh(p) \/ Answering(p) \/ Ignoring(p),
         AloneAtTerminal(Scenes[scene])
  PROVE  /\ proc[p].code # <<>> =>
              Head(proc[p].code)[1] \in
                {"sigaction", "sigmask", "sigreturn", "write"}
         /\ Fresh(p) => /\ proc[p].code # <<>>
                        /\ Head(proc[p].code)[1] = "sigaction"
         /\ Ignoring(p) /\ proc[p].code # <<>> =>
              Head(proc[p].code)[1] = "write"
         /\ proc[p].code # <<>> /\ Head(proc[p].code)[1] = "write" =>
              ~ Arg(p, 3)
  <1>1. /\ Obraden[1] = "write" /\ Back[1] = "sigreturn"
        /\ block[1] = "sigmask" /\ unblock[1] = "sigmask"
        /\ printf("kraj")[1] = "write"
        /\ ~ Obraden[4] /\ ~ printf("kraj")[4]
    BY DEF Obraden, Back, block, unblock, printf, write
  <1>2. ASSUME Fresh(p)
        PROVE  proc[p].code # <<>> /\ Head(proc[p].code)[1] = "sigaction"
    <2>1. \A x, y : <<x>> = <<y>> => x = y
      OBVIOUS
    <2>2. proc[p].code = Maska \/ proc[p].code = Maska2
      BY <1>2, <2>1 DEF Fresh, AloneAtTerminal
    <2>3. /\ Maska # <<>> /\ Head(Maska)[1] = "sigaction"
          /\ Maska2 # <<>> /\ Head(Maska2)[1] = "sigaction"
      BY DEF Maska, Maska2, sigaction
    <2>4. QED
      BY <2>2, <2>3
  <1>3. ASSUME Answering(p), proc[p].code # <<>>
        PROVE  /\ Head(proc[p].code)[1] \in {"sigmask", "sigreturn", "write"}
               /\ Head(proc[p].code)[1] = "write" => ~ Head(proc[p].code)[4]
    <2>1. proc[p].code \in Unmasked \cup Masked
      BY <1>3 DEF Answering
    <2>2. Head(proc[p].code) \in {Obraden, block, unblock, Back}
      BY <1>3, <2>1, MaskaCodes
    <2>3. QED
      BY <1>1, <2>2
  <1>4. ASSUME Ignoring(p), proc[p].code # <<>>
        PROVE  Head(proc[p].code)[1] = "write" /\ ~ Head(proc[p].code)[4]
    <2>1. proc[p].code = <<printf("kraj")>>
      BY <1>4 DEF Ignoring
    <2>2. Head(<<printf("kraj")>>) = printf("kraj")
      OBVIOUS
    <2>3. QED
      BY <1>1, <2>1, <2>2
  <1>5. Arg(p, 3) = Head(proc[p].code)[4]
    BY DEF Arg
  <1>6. QED
    BY <1>2, <1>3, <1>4, <1>5

(* Where SIGINT is seen to, it is.                                         *)
LEMMA AnsweredKept ==
  ASSUME IInv, Next, scene' = scene, AloneAtTerminal(Scenes[scene]),
         \A q \in Pids : IF q = 1 THEN Answered(q) ELSE Idle(q)
  PROVE  \A q \in Pids : IF q = 1 THEN Answered(q)' ELSE Idle(q)'
  <1>1. PICK p \in Pids : \/ Calls(p) \/ CallFails(p) \/ ForkFails(p)
                          \/ CreateFails(p) \/ Interrupt(p)
    BY DEF Next
  <1>2. Runs(p)
    BY <1>1, WhoMoves
  <1>3. p = 1 /\ AtTerminal(p) /\ (Fresh(p) \/ Answering(p) \/ Ignoring(p))
    BY <1>2 DEF Idle, Answered, Runs, Done
  <1>4. \A q \in Pids : proc[q].main = 0 /\ proc[q].parent = 0
    BY <1>3 DEF Idle, AtTerminal
  <1>5. SUFFICES Answered(p)' /\ Others(p)
    BY <1>3 DEF Others, Idle
  <1>6. CASE Interrupt(p)
    BY <1>3, <1>4, <1>6, FreshInterrupted, AnsweringInterrupted, IgnoringKept
       DEF Answered
  <1>7. CASE Calls(p) \/ CallFails(p) \/ ForkFails(p) \/ CreateFails(p)
    <2> DEFINE code == proc[p].code
               name == Head(code)[1]
    <2>1. /\ code # <<>> =>
               name \in {"sigaction", "sigmask", "sigreturn", "write"}
          /\ Fresh(p) => code # <<>> /\ name = "sigaction"
          /\ Ignoring(p) /\ code # <<>> => name = "write"
          /\ code # <<>> /\ name = "write" => ~ Arg(p, 3)
      BY <1>3, ProgramCalls
    <2>2. CASE Signals(p)
      <3>1. CASE Fresh(p)
        BY <1>3, <2>2, <3>1, FreshSignals DEF Answered
      <3>2. CASE Answering(p)
        <4>1. Answering(p)' /\ Others(p) /\ AtTerminal(p)'
          BY <1>3, <2>2, <3>2, AnsweringSignals, SignalsAll
             DEF Others, AtTerminal, Runs
        <4>2. QED
          BY <4>1 DEF Answered
      <3>3. CASE Ignoring(p)
        BY <2>2, <3>3, NoSignals
      <3>4. QED
        BY <1>3, <3>1, <3>2, <3>3
    <2>3. CASE Return(p) /\ code = <<>>
      BY <1>3, <1>4, <2>1, <2>3, AnsweringReturns, IgnoringKept DEF Answered
    <2>4. CASE /\ Write(p) \/ BrokenPipe(p) \/ WriteNowhere(p)
               /\ Acts(p) /\ code # <<>> /\ name = "write"
      BY <1>3, <1>4, <2>1, <2>4, AnsweringWrites, IgnoringKept DEF Answered
    <2>5. QED
      BY <1>7, <2>1, <2>2, <2>3, <2>4, FewCalls
  <1>8. QED
    BY <1>1, <1>6, <1>7

(* The first object is the screen, empty at the start.                     *)
LEMMA ScreenFirst ==
  ASSUME Init
  PROVE  1 \in DOMAIN obj /\ obj[1] = Object("file", <<>>)
  <1> DEFINE objects == Scenes[scene].objects
             screen == Object("file", <<>>)
             T == {screen} \cup Range(objects)
             first == <<screen>>
  <1>1. IsSeq(objects) /\ obj = first \o objects
    BY ScenesAssumption DEF Init
  <1> HIDE DEF screen
  <1>2. first \in Seq(T) /\ objects \in Seq(T) /\ Len(first) = 1
        /\ first[1] = screen
    BY <1>1, SeqMonotonic DEF IsSeq
  <1> HIDE DEF T, objects, first
  <1> DEFINE all == first \o objects
  <1>3. /\ all \in Seq(T) /\ Len(all) = Len(first) + Len(objects)
        /\ \A i \in 1 .. Len(first) + Len(objects) :
             all[i] = IF i <= Len(first) THEN first[i]
                ELSE objects[i - Len(first)]
    BY <1>2, ConcatProperties
  <1>4. obj = all
    BY <1>1
  <1> HIDE DEF all
  <1>5. Len(objects) \in Nat /\ DOMAIN obj = 1 .. Len(obj)
    BY <1>2, <1>3, <1>4
  <1>6. QED
    BY <1>2, <1>3, <1>5, <1>4 DEF screen

(* At the start nothing came, and nobody else is there.                    *)
LEMMA InterruptsInit ==
  ASSUME Init,
         Handles(Scenes[scene], "INT") => AloneAtTerminal(Scenes[scene])
  PROVE  InterruptsOK
  <1> DEFINE S == Scenes[scene]
             nofd == [d \in 0..MaxFd |-> Closed]
             fd(p) == [d \in 0..MaxFd |->
                 CASE d \in closed -> Closed
                   [] d = 0 -> <<S.input[p], "r">>
                   [] d = 1 -> <<S.output[p], "w">>
                   [] d = 2 -> <<tty, "w">>
                   [] OTHER -> Closed]
  <1>1. \A code, f : LET r == Process(code, f) IN
          /\ DOMAIN r = Fields /\ r.handler["INT"] = <<>>
          /\ r.masked = {} /\ r.pending = {} /\ r.state = "runs"
          /\ r.parent = 0 /\ r.main = 0 /\ r.reg["STDOUT"] = 1
          /\ r.code = code /\ r.fd = f
    BY DEF Process, Fields, Variables
  <1>2. ASSUME NEW p \in Pids, p \notin DOMAIN S.start
        PROVE  /\ proc[p].state = "none" /\ proc[p].parent = 0
               /\ proc[p].main = 0 /\ proc[p].handler["INT"] = <<>>
    <2> DEFINE r == Process(<<>>, nofd)
    <2>1. proc[p] = [r EXCEPT !.state = "none"]
      BY <1>2 DEF Init
    <2>2. /\ DOMAIN r = Fields /\ r.handler["INT"] = <<>>
          /\ r.parent = 0 /\ r.main = 0
      BY <1>1
    <2> HIDE DEF r
    <2>3. QED
      BY <2>1, <2>2 DEF Fields
  <1>3. ASSUME NEW p \in Pids, p \in DOMAIN S.start
        PROVE  /\ proc[p] = Process(S.start[p], fd(p))
               /\ proc[p].handler["INT"] = <<>>
    <2>1. proc[p] = Process(S.start[p], fd(p))
      BY <1>3 DEF Init
    <2> HIDE DEF fd
    <2>2. QED
      BY <1>1, <2>1
  <1>4. CASE ~ Handles(S, "INT")
    BY <1>2, <1>3, <1>4 DEF InterruptsOK
  <1>5. CASE Handles(S, "INT")
    <2>1. /\ S.start \in {<<Maska>>, <<Maska2>>}
          /\ S.output = <<tty>> /\ closed = {}
      BY <1>5 DEF AloneAtTerminal, Init
    <2>2. DOMAIN S.start = {1} /\ <<S.start[1]>> = S.start
      BY <2>1
    <2>3. S.output[1] = tty
      BY <2>1
    <2>4. ASSUME 1 \in Pids
          PROVE  AtTerminal(1) /\ Fresh(1)
      <3>1. proc[1] = Process(S.start[1], fd(1))
        BY <1>3, <2>2, <2>4
      <3>2. fd(1)[1] = <<tty, "w">>
        BY <2>1, <2>3, BoundsAssumption
      <3> HIDE DEF fd
      <3>3. /\ proc[1].handler["INT"] = <<>>
            /\ proc[1].masked = {} /\ proc[1].pending = {}
            /\ proc[1].state = "runs" /\ proc[1].parent = 0
            /\ proc[1].main = 0 /\ proc[1].reg["STDOUT"] = 1
            /\ proc[1].code = S.start[1] /\ proc[1].fd[1] = <<tty, "w">>
        BY <1>1, <3>1, <3>2
      <3>4. /\ tty \in DOMAIN obj /\ obj[tty].kind = "file"
            /\ obj[tty].data = <<>> /\ trouble = 0
        <4>1. obj[1] = Object("file", <<>>) /\ 1 \in DOMAIN obj
          BY ScreenFirst
        <4>2. QED
          BY <4>1 DEF tty, Object, Init
      <3>5. QED
        BY <2>2, <3>3, <3>4 DEF AtTerminal, Fresh, Runs
    <2>5. \A p \in Pids : p # 1 => Idle(p)
      BY <1>2, <2>2 DEF Idle
    <2>6. QED
      BY <1>5, <2>4, <2>5 DEF InterruptsOK, Answered
  <1>6. QED
    BY <1>4, <1>5

(* A program that has seen to SIGINT is never ended by it, and has         *)
(* answered when it ends, though the signal came while it was masked, not  *)
(* more often than SIGINT came (maska.c, maska2.c): whenever and however   *)
(* often it comes.                                                         *)
THEOREM InterruptsAnswered ==
  ASSUME \A s \in DOMAIN Scenes :
           Handles(Scenes[s], "INT") => AloneAtTerminal(Scenes[s])
  PROVE  Spec => []InterruptAnswered
  <1>1. Init => IInv /\ InterruptsOK
    BY InitOK, InterruptsInit DEF Init
  <1>2. IInv /\ InterruptsOK /\ [Next]_vars => InterruptsOK'
    <2>1. CASE UNCHANGED vars
      <3>1. scene' = scene /\ proc' = proc /\ obj' = obj /\ trouble' = trouble
        BY <2>1 DEF vars
      <3>2. Given' = Given /\ \A p \in Pids : Due(p)' = Due(p)
        BY <3>1 DEF Given, Due
      <3>3. \A p \in Pids : /\ AtTerminal(p) => AtTerminal(p)'
                            /\ Done(p) => Done(p)'
                            /\ Fresh(p) => Fresh(p)'
                            /\ Idle(p) => Idle(p)'
        BY <3>1, <3>2 DEF AtTerminal, Done, Runs, Fresh, Idle
      <3>4. \A p \in Pids : /\ Answering(p) => Answering(p)'
                            /\ Ignoring(p) => Ignoring(p)'
        BY <3>1, <3>2 DEF Answering, Ignoring
      <3>5. \A p \in Pids : Answered(p) => Answered(p)'
        BY <3>3, <3>4 DEF Answered
      <3>6. QED
        BY <3>1, <3>3, <3>5 DEF InterruptsOK
    <2>2. ASSUME IInv, InterruptsOK, Next
          PROVE  InterruptsOK'
      <3>1. scene' = scene
        BY <2>2, StepsClose, StepKinds
      <3>2. CASE Handles(Scenes[scene], "INT")
        <4>1. AloneAtTerminal(Scenes[scene])
          BY <2>2, <3>2 DEF IInv, SceneOK
        <4>2. \A p \in Pids : IF p = 1 THEN Answered(p)' ELSE Idle(p)'
          BY <2>2, <3>1, <3>2, <4>1, AnsweredKept DEF InterruptsOK
        <4>3. QED
          BY <3>1, <3>2, <4>2 DEF InterruptsOK
      <3>3. CASE ~ Handles(Scenes[scene], "INT")
        BY <2>2, <3>1, <3>3, UnhandledKept DEF InterruptsOK
      <3>4. QED
        BY <3>2, <3>3
    <2>3. QED
      BY <2>1, <2>2
  <1>3. IInv /\ InterruptsOK => InterruptAnswered
    <2>1. ASSUME InterruptsOK, NEW p \in Pids, Over(p),
                 proc[p].handler["INT"] # <<>>
          PROVE  Done(p)
      BY <2>1 DEF InterruptsOK, Answered, Idle, Over, AtTerminal, Runs
    <2>2. QED
      BY <2>1 DEF InterruptAnswered, Done, Given
  <1>4. QED
    BY <1>1, <1>2, <1>3, InitOK, NextOK, PTL DEF Spec

(* Scenes of maska.c and maska2.c meet the hypothesis of                   *)
(* InterruptsAnswered.                                                     *)
MaskaCalls ==
  {sigaction("INT", <<Obraden>>), sigaction("INT", SIG_IGN), Obraden, block,
   unblock, printf("kraj"), SIG_IGN[1]}

THEOREM MaskaFits ==
  ASSUME NEW S, S.start \in {<<Maska>>, <<Maska2>>}, S.calls = MaskaCalls,
         S.output = <<tty>>, S.closed = {{}}
  PROVE  /\ Wellmade(S.calls) /\ Handles(S, "INT") /\ AloneAtTerminal(S)
         /\ Maska \in Seq(S.calls) /\ Maska2 \in Seq(S.calls)
  <1> DEFINE C == S.calls
             o == Obraden
             k == printf("kraj")
             i == SIG_IGN[1]
             h == <<o>>
             g == <<i>>
             H == sigaction("INT", h)
             G == sigaction("INT", g)
  <1>1. /\ o[1] = "write" /\ k[1] = "write" /\ i[1] = "ignored"
        /\ block[1] = "sigmask" /\ unblock[1] = "sigmask"
        /\ H[1] = "sigaction" /\ H[2] = "INT" /\ H[3] = h
        /\ G[1] = "sigaction" /\ G[2] = "INT" /\ G[3] = g
        /\ g = SIG_IGN
    BY DEF Obraden, printf, write, SIG_IGN, block, unblock, sigaction
  <1>2. /\ C = {H, G, o, block, unblock, k, i}
        /\ Maska = <<H, block, unblock>> /\ Maska2 = <<G, k>>
    BY <1>1 DEF MaskaCalls, Maska, Maska2, Obraden
  <1> HIDE DEF C, H, G, o, k, i
  <1>3. h \in Seq(C) /\ g \in Seq(C)
    BY <1>2
  <1> HIDE DEF h, g
  <1>4. Maska \in Seq(C) /\ Maska2 \in Seq(C)
    BY <1>2
  <1>5. ASSUME NEW c \in C
        PROVE  /\ Parts(c) \subseteq Seq(C)
               /\ c[1] \in {"sigaction", "write", "sigmask", "ignored"}
               /\ c[1] = "sigaction" => c[2] = "INT"
    <2>1. CASE c = H \/ c = G
      <3>1. c[1] = "sigaction" /\ c[2] = "INT" /\ c[3] \in Seq(C)
        BY <1>1, <1>3, <2>1
      <3>2. Parts(c) = {c[3]}
        BY <3>1 DEF Parts
      <3>3. QED
        BY <3>1, <3>2
    <2>2. CASE c \in {o, block, unblock, k, i}
      <3>1. c[1] \in {"write", "sigmask", "ignored"}
        BY <1>1, <2>2
      <3>2. Parts(c) = {}
        BY <3>1 DEF Parts
      <3>3. QED
        BY <3>1, <3>2
    <2>3. QED
      BY <1>2, <2>1, <2>2
  <1>6. Wellmade(C)
    BY <1>5 DEF Wellmade
  <1>7. Handles(S, "INT")
    BY <1>1, <1>2 DEF Handles, C
  <1>8. QED
    BY <1>4, <1>6, <1>7 DEF AloneAtTerminal, C
=============================================================================
