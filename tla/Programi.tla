------------------------------ MODULE Programi ------------------------------
(***************************************************************************)
(* Programs of chapters 3 and 5 to 8 as the system calls they make;        *)
(* module Jezgra runs them.  A call is a tuple: its name, then its         *)
(* operands; an operand r, w, n or d names a variable of the program.      *)
(*                                                                         *)
(* Left out are messages about progress and errors, and calls no other     *)
(* step sees (munmap, mq_close).  A sleep orders nothing for certain:      *)
(* every step may be late anyway.                                          *)
(***************************************************************************)
EXTENDS Naturals, SequencesExt

(* side "w" creates the file or empties it; how is the end of a program    *)
(* that cannot open it.                                                    *)
openOr(r, file, side, how) == <<"open", r, file, side, how>>
open(r, file, side) == openOr(r, file, side, "exit 1")
mkfifo(file) == <<"mkfifo", file>>
openFifo(r, file, side) == <<"openFifo", r, file, side>>
pipe(r, w) == <<"pipe", r, w>>
dup(n, r) == <<"dup", n, r>>
(* A strict program returns when the call fails.                           *)
dup2(n, r, d) == <<"dup2", n, r, d, FALSE>>
dup2Strict(n, r, d) == <<"dup2", n, r, d, TRUE>>
close(r) == <<"close", r>>
closeUnless(r, n) == <<"closeUnless", r, n>>      (* if (r != n) close(r)  *)
(* while (read(r, k items) > 0) body, and if (read ...) body.              *)
while(r, k, body) == <<"while", r, k, body>>
read(r, k, body) == <<"read", r, k, body>>
(* what: "buf" (what the last read brought), "got" (what all reads did),   *)
(* "status" (how the child ended), "ppid" (the answer of getppid), or the  *)
(* text itself.  A strict program returns when the call fails.             *)
write(r, what) == <<"write", r, what, FALSE>>
writeStrict(r, what) == <<"write", r, what, TRUE>>
printf(what) == write("STDOUT", what)
(* The arguments of a printf are there before it writes.                   *)
getppid(r) == <<"getppid", r>>
(* The branches of if (pid == 0), and what is left to do if fork fails.    *)
fork(child, parent, fails) == <<"fork", child, parent, fails>>
exec(program, status) == <<"exec", program, status>>    (* if it fails      *)
wait == <<"wait">>
exit(how) == <<"exit", how>>
(* signal is "INT" or "CHLD", handler the code to run, or SIG_IGN.         *)
sigaction(signal, handler) == <<"sigaction", signal, handler>>
SIG_IGN == << <<"ignored">> >>
(* mq_open, msgget, shm_open; mq_send, msgsnd; mq_receive, msgrcv.         *)
get(r, name, create) == <<"get", r, name, create>>
send(r, text, priority) == <<"send", r, [text |-> text, priority |-> priority]>>
receive(r) == <<"receive", r>>
unlink(name) == <<"unlink", name>>
(* Memory whose address others are given: malloc or a variable; free.      *)
alloc(r, size) == <<"alloc", r, size>>
free(r) == <<"free", r>>
(* A new thread in n that begins with start and is given r; a strict       *)
(* program returns when it cannot have it.                                 *)
create(n, start, r) == <<"create", n, start, r, FALSE>>
createStrict(n, start, r) == <<"create", n, start, r, TRUE>>
self(n) == <<"self", n>>
join(n, r) == <<"join", n, r>>
pthread_exit(r) == <<"pthread_exit", r>>
cancel(n) == <<"cancel", n>>
(* SIGINT is masked, not masked, waited for; a loop that only cancel ends. *)
block == <<"sigmask", TRUE>>
unblock == <<"sigmask", FALSE>>
sigwait == <<"sigwait">>
loop == <<"loop">>
(* ftruncate; mmap in r; one step of filling or of reading the memory.     *)
truncate(r) == <<"truncate", r>>
mmap(r, d) == <<"mmap", r, d>>
store(r, i, text) == <<"store", r, i, text>>
load(r, i) == <<"load", r, i>>

-----------------------------------------------------------------------------
(* Chapter 3: redirection and copying                                      *)

DupRedirect == <<open("fd", "izlaz.txt", "w"), close("STDOUT"),
                 dup("newfd", "fd"), closeUnless("fd", "newfd"),
                 printf("tekst")>>

Dup2Redirect == <<open("fd", "izlaz.txt", "w"), dup2("newfd", "fd", "STDOUT"),
                  closeUnless("fd", "newfd"), printf("tekst")>>

IoCopy(BUFFSIZE) ==
  <<while("STDIN", BUFFSIZE, <<writeStrict("STDOUT", "buf")>>)>>

rw(fdin, fdout) == while(fdin, 1, <<write(fdout, "buf")>>)

(* f_cat without an argument, and with one.                                *)
FCat == <<rw("STDIN", "STDOUT")>>
FCatFile(file) == <<openOr("fd", file, "r", "exit 0"), rw("fd", "STDOUT"), close("fd")>>

FWrite(file) == <<open("fd", file, "w"),
                  while("STDIN", 1, <<writeStrict("fd", "buf")>>),
                  close("fd")>>

ReadFile == <<open("fd", "moja_datoteka.txt", "r"),
              while("fd", 1, <<writeStrict("STDOUT", "buf")>>), close("fd")>>

-----------------------------------------------------------------------------
(* Chapter 5: processes                                                    *)

(* Mutated form: fd is closed whatever number it has.                      *)
PreusmjeriClosing(file, naredba) ==
  <<open("fd", file, "w"), dup2Strict("newfd", "fd", "STDOUT"), close("fd"),
    exec(naredba, "exit 1")>>

Preusmjeri(file, naredba) ==
  <<open("fd", file, "w"), dup2Strict("newfd", "fd", "STDOUT"),
    closeUnless("fd", "STDOUT"), exec(naredba, "exit 1")>>

Pokreni2(naredba) ==
  <<fork(<<exec(naredba, "exit 127")>>, <<wait, printf("status")>>,
         <<exit("exit 1")>>)>>

RetStat(how) ==
  <<fork(<<exit(how)>>, <<wait, printf("status")>>, <<exit("exit 1")>>)>>

(* n is the 3 of the loop: 2^n processes print.                            *)
Nproc(n) == [k \in 1..n |-> fork(<<>>, <<>>, <<>>)] \o <<printf("PID")>>

NoParent ==
  LET child2  == <<getppid("ppid"), printf("ppid"),
                   getppid("ppid"), printf("ppid")>>
      child1  == <<printf("CHILD 1")>>
      parent1 == <<wait, printf("izlazi"), printf("PARENT 1")>>
  IN <<fork(<<fork(child2, child1, child1)>>, parent1, parent1)>>

-----------------------------------------------------------------------------
(* Chapter 6: SIGCHLD, and SIGINT that comes while it is masked or ignored *)

(* Mutated form: the mask is never taken back.                             *)
MaskaKept == <<sigaction("INT", <<printf("obraden")>>), block>>

Maska == <<sigaction("INT", <<printf("obraden")>>), block, unblock>>

Maska2 == <<sigaction("INT", SIG_IGN), printf("kraj")>>

(* Mutated form: the handler takes two children at once.                   *)
NoZombieTwo(n, sekundi) ==
  <<sigaction("CHLD", <<wait, wait, printf("pokupljeno")>>)>>
  \o [i \in 1..n |-> fork(<<exit("exit 1")>>, <<>>, <<>>)]
  \o [i \in 1..sekundi |-> printf("sekunda")]

(* n children, and so many seconds of the parent.                          *)
NoZombie(n, sekundi) ==
  <<sigaction("CHLD", <<wait, printf("pokupljeno")>>)>>
  \o [i \in 1..n |-> fork(<<exit("exit 1")>>, <<>>, <<>>)]
  \o [i \in 1..sekundi |-> printf("sekunda")]

-----------------------------------------------------------------------------
(* Chapter 7: pipes and FIFOs                                              *)

Cijev(poruka) ==
  <<pipe("fd0", "fd1"),
    fork(<<close("fd1"), read("fd0", 127, <<printf("buf")>>), close("fd0")>>,
         <<close("fd0"), write("fd1", poruka), close("fd1"), wait>>,
         <<exit("exit 1")>>)>>

(* ls, of which the rest is outside src/, prints lines; wc reads to the    *)
(* end before it prints.                                                   *)
Ls == <<printf("redak 1"), printf("redak 2")>>
Wc == <<while("STDIN", 1, <<>>), printf("got")>>

(* Mutated form: the parent keeps its write end.                           *)
PrebrojiOpen ==
  <<pipe("fd0", "fd1"),
    fork(<<dup2("n", "fd1", "STDOUT"), closeUnless("fd1", "STDOUT"),
           close("fd0"), exec(Ls, "exit 1")>>,
         <<dup2("n", "fd0", "STDIN"), closeUnless("fd0", "STDIN"),
           exec(Wc, "exit 1")>>,
         <<exit("exit 1")>>)>>

Prebroji ==
  <<pipe("fd0", "fd1"),
    fork(<<dup2("n", "fd1", "STDOUT"), closeUnless("fd1", "STDOUT"),
           close("fd0"), exec(Ls, "exit 1")>>,
         <<dup2("n", "fd0", "STDIN"), closeUnless("fd0", "STDIN"),
           close("fd1"), exec(Wc, "exit 1")>>,
         <<exit("exit 1")>>)>>

FifoPosalji == <<mkfifo("/tmp/moj_fifo"), openFifo("fd", "/tmp/moj_fifo", "w"),
                 while("STDIN", 1, <<write("fd", "buf")>>), close("fd")>>

(* Mutated form: the FIFO is closed and opened again after every item.     *)
FifoPrimiAnew ==
  <<mkfifo("/tmp/moj_fifo"), openFifo("fd", "/tmp/moj_fifo", "r"),
    read("fd", 1, <<printf("buf"), close("fd"),
                    openFifo("fd", "/tmp/moj_fifo", "r")>>),
    while("fd", 1, <<printf("buf")>>), close("fd")>>

FifoPrimi == <<mkfifo("/tmp/moj_fifo"), openFifo("fd", "/tmp/moj_fifo", "r"),
               while("fd", 1, <<printf("buf")>>), close("fd")>>

-----------------------------------------------------------------------------
(* Chapter 7: queues of messages and shared memory                         *)

MqPosalji(poruka, prioritet) ==
  <<get("mq", "/moj_mq", TRUE), send("mq", poruka, prioritet)>>

MqPrimi == <<get("mq", "/moj_mq", FALSE), receive("mq"), printf("buf"),
             unlink("/moj_mq")>>

(* Every message has type 1, and msgtyp 0 takes the first one.             *)
SysvPosalji(poruka) ==
  <<get("msqid", "kljuc", TRUE), send("msqid", poruka, 1)>>

SysvPrimi == <<get("msqid", "kljuc", FALSE), receive("msqid"), printf("buf")>>

(* strncpy fills the memory piece by piece.                                *)
ShmPisi(p, q) ==
  <<get("fd", "/moja_memorija", TRUE), truncate("fd"), mmap("podaci", "fd"),
    store("podaci", 1, p), store("podaci", 2, q)>>

ShmCitaj == <<get("fd", "/moja_memorija", FALSE), mmap("podaci", "fd"),
              load("podaci", 1), load("podaci", 2), printf("got")>>

-----------------------------------------------------------------------------
(* Chapter 8: threads                                                      *)

Nit == <<"nit1", "nit2", "nit3">>
Broj == <<"0", "1", "2">>
pozdrav == <<printf("druga"), printf("druga izlazi")>>

Pozdrav1 == <<createStrict("nit1", pozdrav, "arg"), printf("prva"),
              printf("prva izlazi")>>

Pozdrav2 == <<createStrict("nit1", pozdrav, "arg"), printf("prva"),
              join("nit1", "retval"), printf("prva izlazi")>>

Pozdrav3 ==
  <<self("glavna"),
    createStrict("nit1", <<printf("druga"), join("glavna", "retval"),
                           printf("druga izlazi")>>, "arg"),
    printf("prva"), printf("prva izlazi"), pthread_exit("retval")>>

(* n is BROJ_NITI.                                                         *)
radnik(i) == <<load("arg", i), printf("got"), printf("got")>>
Joins(n) == [i \in 1..n |-> join(Nit[i], "retval")] \o <<printf("sve")>>

(* All threads are given the address of one variable ...                   *)
Argumenti(n) ==
  <<alloc("podaci", 1)>>
  \o FlattenSeq([i \in 1..n |-> <<store("podaci", 1, Broj[i]),
                   createStrict(Nit[i], radnik(1), "podaci")>>])
  \o Joins(n)

(* ... or each one the address of its own.                                 *)
Argumenti2(n) ==
  <<alloc("podaci", n)>>
  \o FlattenSeq([i \in 1..n |-> <<store("podaci", i, Broj[i]),
                   createStrict(Nit[i], radnik(i), "podaci")>>])
  \o Joins(n)

(* The result is in a variable of the thread, which ends with it ...       *)
Kvadrat(broj, njegov) ==
  <<alloc("podaci", 1), store("podaci", 1, broj),
    createStrict("nit1", <<load("arg", 1), alloc("r", 1), store("r", 1, njegov),
                           free("r"), pthread_exit("r")>>, "podaci"),
    join("nit1", "retval"), load("retval", 1), printf("got")>>

(* ... or on the heap.                                                     *)
Kvadrat2(broj, njegov) ==
  <<alloc("podaci", 1), store("podaci", 1, broj),
    createStrict("nit1", <<load("arg", 1), alloc("r", 1), store("r", 1, njegov),
                           pthread_exit("r")>>, "podaci"),
    join("nit1", "retval"), load("retval", 1), printf("got")>>

(* Mutated form: the argument is freed before it is read.                  *)
pozadinskiPosaoFreed ==
  <<free("arg"), load("arg", 1), printf("got"), printf("got")>>

pozadinski_posao ==
  <<load("arg", 1), free("arg"), printf("got"), printf("got")>>

NitDetached(n) ==
  FlattenSeq([i \in 1..n |-> <<alloc("id", 1), store("id", 1, Broj[i]),
                               create(Nit[i], pozadinski_posao, "id")>>])
  \o <<printf("ceka"), printf("izlazi")>>

NitSignal(n) ==
  <<block, alloc("podaci", n)>>
  \o FlattenSeq([i \in 1..n |-> <<store("podaci", i, Broj[i]),
                   create(Nit[i], <<load("arg", i), block, loop>>, "podaci")>>])
  \o <<sigwait>> \o [i \in 1..n |-> cancel(Nit[i])] \o Joins(n)
=============================================================================
