--------------------------- MODULE SignaliProofs ---------------------------
(***************************************************************************)
(* Safety of the programs that wait in pause, for any number of alarms,    *)
(* messages and keystrokes.                                                *)
(***************************************************************************)
EXTENDS Signali, TLAPS

Names == {"SIGINT", "SIGALRM", "SIGUSR1", "SIGTERM"}

(* The two halves of TypeOK: the flags, and everything else.               *)
Flags == armed \in BOOLEAN /\ broji \in BOOLEAN
Values ==
  /\ program \in Programs
  /\ pc \in {"install", "arm", "test", "pause", "asleep", "after", "print",
             "done", "killed"}
  /\ caught \subseteq Names
  /\ pending \subseteq Names
  /\ raised \in Nat
  /\ brojac \in 0 .. raised
  /\ last \in Nat
  /\ parent \in {"none", "send", "wait", "done"}

(* A counted signal that waits has been sent and not been counted yet.     *)
Uncounted == Counted \in pending => brojac < raised

(* Before the first alarm(1) no alarm is set or under way.                 *)
NotYetArmed ==
  pc \in {"install", "arm"} => ~ armed /\ "SIGALRM" \notin pending

Inv == Flags /\ Values /\ Uncounted /\ NotYetArmed /\ NoAlarmLost

(* The handler table has entries that are signals, and the first one of    *)
(* the programs with alarms is SIGALRM.                                    *)
LEMMA Table ==
  ASSUME program \in Programs
  PROVE  /\ Counted \in Names
         /\ \A n \in 1 .. Len(Handlers) : Handlers[n] \in Names
         /\ program \in AlarmPrograms <=> Counted = "SIGALRM"
  BY ProgramsAssumption DEF Handlers, Counted, Names, AlarmPrograms

(* The table depends on the program only.                                  *)
LEMMA TablePrimed ==
  program' = program => Counted' = Counted
  BY DEF Counted, Handlers

(* The invariant holds at the start.                                       *)
LEMMA InitInv == Init => Inv
  <1> SUFFICES ASSUME Init PROVE Inv
    OBVIOUS
  <1>1. Flags /\ Values
    <2>1. Flags
      BY DEF Init, Flags
    <2>2. Values
      BY DEF Init, Values
    <2>3. QED
      BY <2>1, <2>2
  <1>2. Uncounted
    BY DEF Init, Uncounted
  <1>3. NotYetArmed
    BY DEF Init, NotYetArmed
  <1>4. NoAlarmLost
    BY DEF Init, NoAlarmLost
  <1>5. QED
    BY <1>1, <1>2, <1>3, <1>4 DEF Inv

(* Steps of the program itself neither send nor count.                     *)
LEMMA LoopInv ==
  ASSUME Inv, Loop
  PROVE  Inv'
  <1>1. /\ program \in Programs /\ program' = program
        /\ pending' = pending /\ brojac' = brojac /\ raised' = raised
    BY DEF Inv, Flags, Values, Loop, Install, Arm, Test, Pause, After,
           PrintLine, data
  <1> USE <1>1, TablePrimed DEF Inv, Uncounted, NotYetArmed, NoAlarmLost
  <1>2. ASSUME Install PROVE Inv'
    <2>1. caught' \subseteq Names
      BY <1>2, Table DEF Install, Values
    <2>2. Flags' /\ Values'
      <3>1. Flags'
        BY <1>2 DEF Install, Flags, data
      <3>2. Values'
        BY <1>2, <2>1 DEF Install, Values, GoTo, data
      <3>3. QED
        BY <3>1, <3>2
    <2>3. QED
      BY <1>2, <2>2 DEF Install, GoTo
  <1>3. ASSUME Arm PROVE Inv'
    <2> USE <1>3 DEF Arm, GoTo, data
    <2>1. Flags' /\ Values'
      <3>1. Flags'
        BY DEF Flags
      <3>2. Values'
        BY DEF Values
      <3>3. QED
        BY <3>1, <3>2
    <2>2. Uncounted'
      BY DEF Values
    <2>3. NotYetArmed'
      BY DEF Values
    <2>4. NoAlarmLost'
      BY DEF Values
    <2>5. QED
      BY <2>1, <2>2, <2>3, <2>4
  <1>4. ASSUME Test \/ Pause \/ After PROVE Inv'
    <2>1. Flags'
      BY <1>4 DEF Test, Pause, After, Flags, data
    <2>2. Values'
      BY <1>4 DEF Test, Pause, After, GoTo, Values, data
    <2>3. UNCHANGED <<armed, pending>> /\ pc' \notin {"install", "arm"}
      BY <1>4 DEF Test, Pause, After, GoTo
    <2>4. QED
      BY <2>1, <2>2, <2>3
  <1>5. ASSUME PrintLine PROVE Inv'
    BY <1>5 DEF PrintLine, GoTo, Flags, Values
  <1>6. QED
    BY <1>2, <1>3, <1>4, <1>5 DEF Loop

(* Delivering a signal keeps it.                                           *)
LEMMA KernelInv ==
  ASSUME Inv, NEW s \in pending, Deliver(s) \/ DeliverDefault(s)
  PROVE  Inv'
  <1>1. program \in Programs /\ program' = program
    BY DEF Inv, Flags, Values, Deliver, DeliverDefault
  <1> USE <1>1, Table, TablePrimed
      DEF Inv, Uncounted, NotYetArmed, NoAlarmLost
  <1>2. ASSUME Deliver(s) PROVE Inv'
    <2>1. Flags' /\ Values'
      <3>1. Flags'
        BY <1>2 DEF Deliver, Handle, Flags
      <3>2. Values'
        BY <1>2 DEF Deliver, Handle, Values
      <3>3. QED
        BY <3>1, <3>2
    <2>2. Uncounted'
      BY <1>2 DEF Deliver, Handle, Values
    <2>3. NotYetArmed'
      BY <1>2 DEF Deliver, Handle, Values
    <2>4. NoAlarmLost'
      <3>1. CASE program \in AlarmPrograms
        <4>1. /\ brojac' = IF s = "SIGALRM" THEN brojac + 1 ELSE brojac
              /\ armed' = (armed \/ s = "SIGALRM")
              /\ pending' = pending \ {s} /\ raised' = raised
          BY <1>2, <3>1 DEF Deliver, Handle
        <4>2. CASE s = "SIGALRM"
          BY <3>1, <4>1, <4>2 DEF Values
        <4>3. CASE s # "SIGALRM"
          BY <3>1, <4>1, <4>3 DEF Values
        <4>4. QED
          BY <4>2, <4>3
      <3>2. CASE program \notin AlarmPrograms
        BY <3>2
      <3>3. QED
        BY <3>1, <3>2
    <2>5. QED
      BY <2>1, <2>2, <2>3, <2>4
  <1>3. ASSUME DeliverDefault(s) PROVE Inv'
    BY <1>3 DEF DeliverDefault, Flags, Values, data
  <1>4. QED
    BY <1>2, <1>3

(* So do the alarm, the user and the parent of razgovor.c.                 *)
LEMMA SenderInv ==
  ASSUME Inv, Fire \/ CtrlC \/ Parent
  PROVE  Inv'
  <1>1. program \in Programs /\ program' = program
    BY DEF Inv, Flags, Values, Fire, CtrlC, Parent, SendUsr1, SendTerm, WaitChild
  <1> USE <1>1, Table, TablePrimed
      DEF Inv, Uncounted, NotYetArmed, NoAlarmLost
  <1>2. ASSUME Fire PROVE Inv'
    <2> USE <1>2 DEF Fire, Raise, data
    <2>1. Flags' /\ Values'
      <3>1. Flags'
        BY DEF Flags
      <3>2. Values'
        BY DEF Values, Names
      <3>3. QED
        BY <3>1, <3>2
    <2>2. Uncounted'
      BY DEF Values
    <2>3. NotYetArmed'
      BY DEF Values
    <2>4. NoAlarmLost'
      BY DEF Values
    <2>5. QED
      BY <2>1, <2>2, <2>3, <2>4
  <1>3. ASSUME CtrlC PROVE Inv'
    <2> USE <1>3 DEF CtrlC, Raise, data
    <2>1. Flags' /\ Values'
      <3>1. Flags'
        BY DEF Flags
      <3>2. Values'
        BY DEF Values, Names
      <3>3. QED
        BY <3>1, <3>2
    <2>2. Uncounted'
      BY DEF Values
    <2>3. NotYetArmed'
      BY DEF Values
    <2>4. NoAlarmLost'
      BY DEF Values
    <2>5. QED
      BY <2>1, <2>2, <2>3, <2>4
  <1>4. ASSUME SendUsr1 PROVE Inv'
    <2> USE <1>4 DEF SendUsr1, Send, Raise, data
    <2>1. Flags' /\ Values'
      <3>1. Flags'
        BY DEF Flags
      <3>2. raised \in Nat /\ brojac \in 0 .. raised
        BY DEF Values
      <3>3. raised' \in Nat /\ raised' >= raised
        BY <3>2
      <3>4. brojac' \in 0 .. raised'
        BY <3>2, <3>3
      <3>5. pending' \subseteq Names
        BY DEF Values, Names
      <3>6. Values'
        BY <3>3, <3>4, <3>5 DEF Values
      <3>7. QED
        BY <3>1, <3>6
    <2>2. Uncounted'
      BY DEF Values
    <2>3. NotYetArmed'
      BY DEF Values
    <2>4. NoAlarmLost'
      BY DEF Values
    <2>5. QED
      BY <2>1, <2>2, <2>3, <2>4
  <1>5. ASSUME SendTerm PROVE Inv'
    <2> USE <1>5 DEF SendTerm, Send, Raise, data
    <2>1. Flags' /\ Values'
      <3>1. Flags'
        BY DEF Flags
      <3>2. raised \in Nat /\ brojac \in 0 .. raised
        BY DEF Values
      <3>3. raised' \in Nat /\ raised' >= raised
        BY <3>2
      <3>4. brojac' \in 0 .. raised'
        BY <3>2, <3>3
      <3>5. pending' \subseteq Names
        BY DEF Values, Names
      <3>6. Values'
        BY <3>3, <3>4, <3>5 DEF Values
      <3>7. QED
        BY <3>1, <3>6
    <2>2. Uncounted'
      BY DEF Values
    <2>3. NotYetArmed'
      BY DEF Values
    <2>4. NoAlarmLost'
      BY DEF Values
    <2>5. QED
      BY <2>1, <2>2, <2>3, <2>4
  <1>6. ASSUME WaitChild PROVE Inv'
    BY <1>6 DEF WaitChild, Flags, Values, data
  <1>7. QED
    BY <1>2, <1>3, <1>4, <1>5, <1>6 DEF Parent

(* It holds in every reachable state.                                      *)
LEMMA Invariant == Spec => []Inv
  <1>1. ASSUME Inv, UNCHANGED vars PROVE Inv'
    <2> USE <1>1, TablePrimed DEF Inv, vars, data
    <2>1. Flags'
      BY DEF Flags
    <2>2. Values'
      BY DEF Values
    <2>3. Uncounted' /\ NotYetArmed' /\ NoAlarmLost'
      BY DEF Uncounted, NotYetArmed, NoAlarmLost
    <2>4. QED
      BY <2>1, <2>2, <2>3
  <1>2. Inv /\ [Next]_vars => Inv'
    BY <1>1, LoopInv, KernelInv, SenderInv DEF Next, Kernel
  <1>3. QED
    BY InitInv, <1>2, PTL DEF Spec

(* TypeOK: in particular nothing is counted that was not sent.             *)
THEOREM TypeCorrect == Spec => []TypeOK
  <1>1. Inv => TypeOK
    BY DEF Inv, Flags, Values, TypeOK, Names
  <1>2. QED
    BY <1>1, Invariant, PTL

(* NoAlarmLost: alarm_clock.c and stoperica.c count every alarm.           *)
THEOREM EveryAlarmCounts == Spec => []NoAlarmLost
  <1>1. Inv => NoAlarmLost
    BY DEF Inv
  <1>2. QED
    BY <1>1, Invariant, PTL

-----------------------------------------------------------------------------
(* What a program has to say.  Only the signals of the table are caught, a *)
(* program with a single handler never clears its flag, no line is ahead   *)
(* of the counter, and after a sleep there is something new to print,      *)
(* unless the flag was cleared.                                            *)
Entries == {Handlers[n] : n \in 1 .. Len(Handlers)}

News ==
  /\ caught \subseteq Entries
  /\ program \in {"potvrdi", "alarm_clock"} => broji
  /\ last <= brojac
  /\ pc = "after" => last < brojac \/ ~ broji
  /\ pc = "print" => last < brojac /\ (program = "potvrdi" => last = 0)

(* potvrdi.c and alarm_clock.c install one handler, which counts.          *)
LEMMA SingleHandler ==
  program \in {"potvrdi", "alarm_clock"} => Entries = {Counted}
  BY DEF Entries, Handlers, Counted

(* The entries depend on the program only.                                 *)
LEMMA EntriesPrimed ==
  program' = program => Entries' = Entries
  BY DEF Entries, Handlers

(* A signal handled during the sleep counts or clears the flag; outside it *)
(* takes nothing away from what there is to print.                         *)
LEMMA DeliverNews ==
  ASSUME Inv, News, NEW s \in pending, Deliver(s)
  PROVE  News'
  <1>1. /\ program' = program /\ caught' = caught /\ last' = last
        /\ s \in caught
        /\ brojac' = IF s = Counted THEN brojac + 1 ELSE brojac
        /\ broji' = (broji /\ s = Counted)
        /\ pc' = IF pc = "asleep" THEN "after" ELSE pc
    BY DEF Deliver, Handle
  <1>2. last \in Nat /\ brojac \in Nat /\ broji \in BOOLEAN
    BY DEF Inv, Flags, Values
  <1>3. caught' \subseteq Entries'
    BY <1>1, EntriesPrimed DEF News
  <1>4. program' \in {"potvrdi", "alarm_clock"} => broji'
    <2>1. program \in {"potvrdi", "alarm_clock"} => s = Counted
      BY <1>1, SingleHandler DEF News
    <2>2. QED
      BY <1>1, <2>1 DEF News
  <1>5. last' <= brojac' /\ brojac' >= brojac
    BY <1>1, <1>2 DEF News
  <1>6. pc' = "after" => last' < brojac' \/ ~ broji'
    <2>1. CASE s = Counted
      <3>1. last' < brojac'
        BY <1>1, <1>2, <2>1 DEF News
      <3>2. QED
        BY <3>1
    <2>2. CASE s # Counted
      <3>1. ~ broji'
        BY <1>1, <2>2
      <3>2. QED
        BY <3>1
    <2>3. QED
      BY <2>1, <2>2
  <1>7. pc' = "print" => last' < brojac' /\ (program' = "potvrdi" => last' = 0)
    BY <1>1, <1>2, <1>5 DEF News
  <1>8. QED
    BY <1>3, <1>4, <1>5, <1>6, <1>7 DEF News

(* Every step keeps it.                                                    *)
LEMMA NewsStep ==
  ASSUME Inv, News, [Next]_vars
  PROVE  News'
  <1>1. /\ last \in Nat /\ brojac \in Nat /\ broji \in BOOLEAN
        /\ program \in Programs
    BY DEF Inv, Flags, Values
  <1>2. ASSUME program' = program, caught' = caught,
               UNCHANGED <<brojac, broji, last>>,
               pc' \notin {"after", "print"} \/ pc' = pc
        PROVE  News'
    BY <1>2, EntriesPrimed DEF News
  <1>3. CASE Install
    <2>1. /\ program' = program /\ caught' \subseteq caught \cup Entries
          /\ UNCHANGED <<brojac, broji, last>>
          /\ pc' \notin {"after", "print"}
      BY <1>3 DEF Install, GoTo, data, Entries
    <2>2. QED
      BY <2>1, EntriesPrimed DEF News
  <1>4. CASE Arm \/ Test \/ Pause
    BY <1>2, <1>4 DEF Arm, Test, Pause, GoTo, data
  <1>5. CASE After
    <2>1. /\ program' = program /\ caught' = caught /\ pc = "after"
          /\ UNCHANGED <<brojac, broji, last>>
          /\ pc' = IF Prints THEN "print" ELSE "test"
      BY <1>5 DEF After, GoTo, data
    <2>2. CASE Prints
      <3>1. broji => last < brojac
        BY <2>1 DEF News
      <3>2. broji
        BY <1>1, <2>2, ProgramsAssumption DEF Prints, News, AlarmPrograms
      <3>3. program = "potvrdi" => last = 0
        BY <1>1, <2>2, <3>1, <3>2 DEF Prints
      <3>4. QED
        BY <2>1, <3>1, <3>2, <3>3, EntriesPrimed DEF News
    <2>3. CASE ~ Prints
      BY <1>2, <2>1, <2>3
    <2>4. QED
      BY <2>2, <2>3
  <1>6. CASE PrintLine
    <2>1. /\ program' = program /\ caught' = caught /\ pc = "print"
          /\ UNCHANGED <<brojac, broji>> /\ pc' = "test"
          /\ last' = IF program = "potvrdi" THEN 1 ELSE brojac
      BY <1>6 DEF PrintLine, GoTo
    <2>2. last' <= brojac'
      BY <1>1, <2>1 DEF News
    <2>3. QED
      BY <2>1, <2>2, EntriesPrimed DEF News
  <1>7. CASE Kernel
    <2>1. PICK s \in pending : Deliver(s) \/ DeliverDefault(s)
      BY <1>7 DEF Kernel
    <2>2. CASE DeliverDefault(s)
      BY <1>2, <2>2 DEF DeliverDefault, data
    <2>3. QED
      BY <2>1, <2>2, DeliverNews
  <1>8. CASE Fire \/ CtrlC \/ Parent
    BY <1>2, <1>8
       DEF Fire, CtrlC, Parent, SendUsr1, SendTerm, WaitChild, data
  <1>9. CASE UNCHANGED vars
    BY <1>2, <1>9 DEF vars, data
  <1>10. QED
    BY <1>3, <1>4, <1>5, <1>6, <1>7, <1>8, <1>9 DEF Next, Loop

(* LinesReportNews: no program prints a count it has printed already, and  *)
(* potvrdi.c does not ask twice.                                           *)
THEOREM LinesAreNews == Spec => LinesReportNews
  <1>1. Init => News
    BY DEF Init, News
  <1>2. Inv /\ News /\ [Next]_vars => News'
    BY NewsStep
  <1>3. Inv /\ News => (PrintLine => last' > last)
    <2> SUFFICES ASSUME Inv, News, PrintLine PROVE last' > last
      OBVIOUS
    <2>1. last \in Nat /\ brojac \in Nat
      BY DEF Inv, Flags, Values
    <2>2. QED
      BY <2>1 DEF News, PrintLine, GoTo
  <1>4. QED
    BY <1>1, <1>2, <1>3, Invariant, PTL DEF Spec, LinesReportNews
=============================================================================
