---------------------------- MODULE JezgraScenes ----------------------------
(***************************************************************************)
(* For which scenes nothing is lost (NothingLost of Jezgra): those that    *)
(* send no message or consist of senders and receivers, and those without  *)
(* routes or of programs that copy along theirs.                           *)
(***************************************************************************)
EXTENDS Jezgra

-----------------------------------------------------------------------------
(* Programs that send and receive messages (mq_posalji.c, mq_primi.c,      *)
(* sysv_msg_posalji.c, sysv_msg_primi.c).                                  *)

Sends(code) ==
  /\ code[2][1] = "send"
  /\ LET m == code[2][3] IN
     code \in {MqPosalji(m.text, m.priority), SysvPosalji(m.text)}
Receives(code) == code \in {MqPrimi, SysvPrimi}

(* As many of each as one likes; each text is sent once.                   *)
QueueScene(S) ==
  /\ \A p \in DOMAIN S.start :
       (Sends(S.start[p]) \/ Receives(S.start[p])) /\ S.output[p] = tty
  /\ \A p, q \in DOMAIN S.start :
       p # q /\ Sends(S.start[p]) /\ Sends(S.start[q]) =>
         S.start[p][2][3].text # S.start[q][2][3].text
  /\ \A c \in S.closed : 1 \notin c

(* Nobody opens what is a queue, or shared memory.                         *)
Sending(S) == \E c \in S.calls : c[1] = "send"
Separate(S) ==
  /\ \A i \in DOMAIN S.objects : S.objects[i].kind # "object"
  /\ \A c, d \in S.calls :
       c[1] = "get" /\ d[1] \in {"open", "openFifo"} => c[3] # d[3]

QueueFits(S) == Separate(S) /\ (Sending(S) => QueueScene(S))

-----------------------------------------------------------------------------
(* Programs that copy (io_copy.c, f_cat.c, read_file.c, f_write.c,         *)
(* fifoposalji.c, fifoprimi.c).                                            *)

Copies(c) ==
  \/ c = FCat
  \/ /\ Head(c)[1] = "while" /\ Head(c)[3] \in Nat
     /\ c = IoCopy(Head(c)[3])
ReadsFile(c) == c \in {ReadFile, FCatFile("moja_datoteka.txt")}
WritesFile(c) == c = FWrite("izlaz.txt")
OfFifo(c) == c \in {FifoPosalji, FifoPrimi}

(* The object that such a scene makes: izlaz.txt, or the FIFO.             *)
Made(S) == Len(S.objects) + 2
(* Where a program gets what it copies, and where it puts it.              *)
From(S, p) == CASE ReadsFile(S.start[p])     -> S.file
                [] S.start[p] = FifoPrimi    -> Made(S)
                [] OTHER                     -> S.input[p]
To(S, p) == IF WritesFile(S.start[p]) \/ S.start[p] = FifoPosalji
            THEN Made(S) ELSE S.output[p]

(* Only the reader of a FIFO can lose something.                           *)
Risky(S, r) ==
  r.reader \in Pids \cap DOMAIN S.start /\ S.start[r.reader] = FifoPrimi

(* The route is the way of a text, which lies at its end at the start: an  *)
(* object of it is read only by the process before it, the first by none.  *)
Leads(S, r) ==
  LET n == Len(r.path) IN
  /\ IsSeq(r.path) /\ n > 0
  /\ \A i, j \in 1..n : r.path[i] = r.path[j] => i = j
  /\ \A i \in 1..n :
       \/ \E p \in Pids \cap DOMAIN S.start :
            /\ r.path[i] = <<"process", p>>
            /\ i - 1 \in 1..n /\ r.path[i - 1] = <<"object", To(S, p)>>
            /\ i + 1 \in 1..n /\ r.path[i + 1] = <<"object", From(S, p)>>
       \/ \E o \in 1..Made(S) : r.path[i] = <<"object", o>>
  /\ \A p \in DOMAIN S.start : \A i \in 1..n :
       r.path[i] = <<"object", From(S, p)>> =>
         i - 1 \in 1..n /\ r.path[i - 1] = <<"process", p>>
  /\ \E o \in DOMAIN S.objects :
       r.path[n] = <<"object", o + 1>> /\ S.objects[o].data = r.text
  /\ \A i \in DOMAIN S.objects : \A j \in DOMAIN S.objects[i].data :
       \A k \in DOMAIN r.text :
         S.objects[i].data[j] = r.text[k] =>
           r.path[n] = <<"object", i + 1>> /\ j = k
  /\ \A i \in 1..n : r.path[i] = <<"object", Made(S)>> =>
       Risky(S, r) \/ \E p \in DOMAIN S.start : WritesFile(S.start[p])

(* One program at most makes izlaz.txt, or reads the FIFO; standard output *)
(* is there.                                                               *)
Pipeline(S) ==
  /\ \A p \in DOMAIN S.start :
       \/ Copies(S.start[p]) \/ ReadsFile(S.start[p])
       \/ WritesFile(S.start[p]) \/ OfFifo(S.start[p])
  /\ \A p, q \in DOMAIN S.start :
       /\ p # q /\ S.start[p] = S.start[q] =>
            ~ WritesFile(S.start[p]) /\ S.start[p] # FifoPrimi
       /\ ~ (WritesFile(S.start[p]) /\ OfFifo(S.start[q]))
  /\ \A i \in DOMAIN S.objects : S.objects[i].kind \in {"file", "pipe"}
  /\ \A c \in S.closed : 1 \notin c
  /\ \A r \in S.routes : Leads(S, r)

PipeFits(S) == S.routes # {} => Pipeline(S)

-----------------------------------------------------------------------------
QueuesFit == \A s \in DOMAIN Scenes : QueueFits(Scenes[s])
PipesFit == \A s \in DOMAIN Scenes : PipeFits(Scenes[s])
=============================================================================
