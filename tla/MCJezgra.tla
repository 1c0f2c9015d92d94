------------------------------ MODULE MCJezgra ------------------------------
(* The scenes: each program of module Programi on its own or with those it *)
(* works with, most of them with any standard descriptors closed.          *)
EXTENDS JezgraScenes

SevenPids == 1..7
AnyClosed == SUBSET (0..2)

(* The calls of a code, and those within them.                             *)
RECURSIVE CallsIn(_)
CallsIn(code) ==
  Range(code) \cup UNION {CallsIn(part) : part \in UNION {Parts(c) : c \in Range(code)}}
AllCalls(start) == UNION {CallsIn(start[p]) : p \in DOMAIN start}

(* Objects of a scene: 2 is an input without text.                         *)
Plain(start, closedSets, sure, results) ==
  [start |-> start, calls |-> AllCalls(start), input |-> [p \in DOMAIN start |-> 2],
   output |-> [p \in DOMAIN start |-> tty],
   objects |-> <<Object("file", <<>>)>>, file |-> 0, closed |-> closedSets,
   routes |-> {}, sure |-> sure, ordered |-> TRUE, results |-> results,
   own |-> <<>>]

Screen(text) == [screen |-> text, file |-> <<>>]
InFile(text) == [screen |-> <<>>, file |-> text]
Naredba == <<printf("tekst")>>

Redirect == <<
  Plain(<<DupRedirect>>, AnyClosed, AnyClosed \ {{1}, {1, 2}}, {InFile(<<"tekst">>)}),
  Plain(<<Dup2Redirect>>, AnyClosed, AnyClosed, {InFile(<<"tekst">>)}),
  Plain(<<Preusmjeri("izlaz.txt", Naredba)>>, AnyClosed, AnyClosed,
        {InFile(<<"tekst">>)}) >>

(* Without a standard output there is nothing to see.                      *)
Open1 == {c \in AnyClosed : 1 \notin c}
Pipes == <<
  Plain(<<Cijev("Pozdrav")>>, AnyClosed, Open1, {Screen(<<"Pozdrav">>)}),
  Plain(<<Prebroji>>, AnyClosed, Open1, {Screen(<<"redak 1", "redak 2">>)}) >>

(* read_file | io_copy | f_cat | f_write izlaz.txt                         *)
Letters == <<"a", "b", "c">>
FilterPrograms == <<ReadFile, IoCopy(2), FCat, FWrite("izlaz.txt")>>
Filter == <<
  [start |-> FilterPrograms, calls |-> AllCalls(FilterPrograms),
   input |-> <<2, 4, 5, 6>>, output |-> <<4, 5, 6, tty>>,
   objects |-> <<Object("file", <<>>), Object("file", Letters)>>
               \o [i \in 1..3 |-> Object("pipe", <<>>)],
   file |-> 3, closed |-> {{}},
   routes |-> {[text |-> Letters, reader |-> 0,
                path |-> << <<"object", 7>>, <<"process", 4>>, <<"object", 6>>,
                  <<"process", 3>>, <<"object", 5>>, <<"process", 2>>,
                  <<"object", 4>>, <<"process", 1>>, <<"object", 3>> >>]},
   sure |-> {{}}, ordered |-> TRUE, results |-> {InFile(Letters)}, own |-> <<>>],
  [Plain(<<FCatFile("moja_datoteka.txt")>>, {{}, {0}}, {{}, {0}}, {Screen(Letters)})
     EXCEPT !.objects = @ \o <<Object("file", Letters)>>, !.file = 3,
       !.routes = {[text |-> Letters, reader |-> 0,
         path |-> << <<"object", tty>>, <<"process", 1>>, <<"object", 3>> >>]}] >>

(* Two writers and a reader, which may meet the end between the two.       *)
Route(text, writer, input) ==
  [text |-> text, reader |-> 3,
   path |-> << <<"object", tty>>, <<"process", 3>>, <<"object", 5>>,
               <<"process", writer>>, <<"object", input>> >>]
FifoPrograms == <<FifoPosalji, FifoPosalji, FifoPrimi>>
Fifo == <<
  [start |-> FifoPrograms, calls |-> AllCalls(FifoPrograms),
   input |-> <<3, 4, 2>>, output |-> <<2, 2, tty>>,
   objects |-> <<Object("file", <<>>), Object("file", <<"a", "b">>),
                 Object("file", <<"c">>)>>,
   file |-> 0, closed |-> {{}}, sure |-> {}, ordered |-> TRUE,
   results |-> {}, own |-> <<>>,
   routes |-> {Route(<<"a", "b">>, 1, 3), Route(<<"c">>, 2, 4)}] >>

Queues == <<
  Plain(<<MqPosalji("niska", 1), MqPosalji("visoka", 9), MqPrimi, MqPrimi>>,
        {{}}, {}, {}),
  Plain(<<SysvPosalji("x"), SysvPosalji("y"), SysvPrimi, SysvPrimi>>,
        {{}}, {}, {}) >>

(* The shell runs programs one after the other.                            *)
InTurn(programs) ==
  FlattenSeq([i \in DOMAIN programs |->
                <<fork(<<exec(programs[i], "exit 127")>>, <<wait>>, <<>>)>>])
Memory == <<
  Plain(<<InTurn(<<ShmPisi("x", "y"), ShmPisi("p", "q"), ShmCitaj>>)>>, {{}}, {{}},
        {Screen(<<"p", "q">>)}),
  Plain(<<ShmPisi("p", "q"), ShmCitaj>>, {{}}, {{}},
        {Screen(s) : s \in {<<>>, <<"">>, <<"p", "">>, <<"p", "q">>}}) >>

(* Child 2 asks for its parent before each of its two lines.  It is told   *)
(* init only after the line of child 1.  It is told its parent a second    *)
(* time only after its first line, and before parent 1, which waits for    *)
(* child 1, writes.  Its lines may come at any time after the answers.     *)
OtherLines(s) == SelectSeq(s, LAMBDA line : line \notin {"parent", "init"})
Family ==
  {s \in [1..5 -> {"parent", "init", "CHILD 1", "izlazi", "PARENT 1"}] :
     /\ OtherLines(s) = <<"CHILD 1", "izlazi", "PARENT 1">>
     /\ \A i, j \in 1..5 :
          /\ s[i] = "init" /\ s[j] = "CHILD 1" => j < i
          /\ s[i] = "init" /\ s[j] = "parent" => j < i
          /\ i < j /\ s[i] = "parent" /\ s[j] = "parent" =>
               \A k \in 1..i : s[k] # "izlazi"}
Families == <<
  Plain(<<Pokreni2(Naredba)>>, {{}}, {{}}, {Screen(<<"tekst", "exit 0">>)}),
  Plain(<<RetStat("exit 7")>>, {{}}, {{}}, {Screen(<<"exit 7">>)}),
  Plain(<<Nproc(2)>>, {{}}, {{}}, {Screen([i \in 1..4 |-> "PID"])}),
  Plain(<<NoParent>>, {{}}, {{}}, {Screen(s) : s \in Family}),
  Plain(<<NoZombie(3, 2)>>, {{}}, {}, {}),
  Plain(<<Maska>>, {{}}, {{}}, {Screen(<<>>)}),
  Plain(<<Maska2>>, {{}}, {{}}, {Screen(<<"kraj">>)}) >>

(* Without a join the second thread's lines may be missing at the end.     *)
Prva == <<"prva", "prva izlazi">>
Druga == <<"druga", "druga izlazi">>
Threads(program, results, own) ==
  [Plain(<<program>>, {{}}, {{}}, {Screen(r) : r \in results})
     EXCEPT !.ordered = FALSE, !.own = own]
Niti == <<
  Threads(Pozdrav1, {Prva, Append(Prva, Druga[1]), Prva \o Druga}, <<>>),
  Plain(<<Pozdrav2>>, {{}}, {{}},
        {Screen(<<"prva">> \o Druga \o <<"prva izlazi">>),
         Screen(<<Druga[1], "prva", Druga[2], "prva izlazi">>),
         Screen(Druga \o Prva)}),
  Threads(Pozdrav3, {Prva \o Druga}, <<>>),
  Threads(Argumenti2(3), {<<"0", "0", "1", "1", "2", "2", "sve">>},
          <<{}, {"0"}, {"1"}, {"2"}>>),
  [Threads(Argumenti(3), {}, <<{}, {"0", "1", "2"}, {"1", "2"}, {"2"}>>)
     EXCEPT !.sure = {}],
  Threads(Kvadrat2("7", "49"), {<<"49">>}, <<{"49"}, {"7"}>>),
  [Threads(Kvadrat("7", "49"), {}, <<{"?"}, {"7"}>>) EXCEPT !.sure = {}],
  [Threads(NitDetached(2), {}, <<{}, {"0"}, {"1"}>>) EXCEPT !.sure = {}],
  [Threads(NitSignal(3), {}, <<{}, {"0"}, {"1"}, {"2"}>>) EXCEPT !.sure = {}] >>

AllScenes == Redirect \o Pipes \o Filter \o Fifo \o Queues \o Memory \o Families
             \o Niti

(* Nothing is lost in them, however many processes they had: what module   *)
(* JezgraFlows assumes of scenes.                                          *)
ASSUME ScenesFit ==
  \A s \in DOMAIN AllScenes : QueueFits(AllScenes[s]) /\ PipeFits(AllScenes[s])

(* The demonstration of priorities of the chapter's README.                *)
Demonstration ==
  << Plain(<<InTurn(<<MqPosalji("niska", 1), MqPosalji("visoka", 9),
                      MqPosalji("srednja", 5), MqPrimi, MqPrimi, MqPrimi>>)>>,
           {{}}, {{}}, {Screen(<<"visoka", "srednja", "niska">>)}) >>

(* P07/README.md:1024: three messages sent with priorities 1, 9 and 5 are  *)
(* printed by three runs of mq_primi as 9, 5, 1 (mq_posalji.c, mq_primi.c).*)
DescendingPriorities ==
  (\A p \in Pids : ~ Runs(p)) =>
    obj[tty].data = <<"visoka", "srednja", "niska">>
=============================================================================
