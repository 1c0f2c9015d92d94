------------------------------ MODULE Signali ------------------------------
(***************************************************************************)
(* The programs of chapter 6 that wait for signals in a loop               *)
(*                 while (condition) { pause(); ... }                      *)
(* potvrdi.c and potvrdi2.c, alarm_clock.c, stoperica.c and stoperica2.c,  *)
(* and the child of razgovor.c with the parent that sends it signals.  The *)
(* programs differ in the signals they catch, in the condition of the loop *)
(* and in what they print; two programs of one name behave alike.          *)
(*                                                                         *)
(* pc: "install" signal or sigaction for the next signal, "arm" the first  *)
(* alarm(1), "test", "pause" about to call pause, "asleep" in pause,       *)
(* "after" pause has returned, "print", "done", "killed".                  *)
(*                                                                         *)
(* Seconds are not counted: an alarm goes off at some time after it was    *)
(* set, and the parent of razgovor.c sends at any pace.                    *)
(***************************************************************************)
EXTENDS Integers, Sequences

CONSTANTS
  Programs,    (* which of "potvrdi", "alarm_clock", "stoperica", "razgovor"*)
  Tikova,      (* the 5 of alarm_clock.c                                   *)
  Prolaza,     (* the 5 SIGUSR1 of razgovor.c                              *)
  MaxRaised    (* bound: alarms gone off, Ctrl+C pressed                   *)

AlarmPrograms == {"alarm_clock", "stoperica"}

ASSUME ProgramsAssumption ==
  Programs \subseteq AlarmPrograms \cup {"potvrdi", "razgovor"}
ASSUME CountsAssumption ==
  Tikova \in Nat /\ Prolaza \in Nat /\ MaxRaised \in Nat

VARIABLES
  program,     (* the program that runs; never changes                     *)
  pc,
  caught,      (* signals with a handler                                   *)
  pending,     (* signals sent and not handled; one of a kind at most      *)
  armed,       (* alarm(1) has been called and has not gone off            *)
  brojac,      (* brojac, or prosao of razgovor.c                          *)
  broji,       (* broji, or radi of razgovor.c                             *)
  last,        (* the number in the last line printed, 0 before it         *)
  raised,      (* signals sent that the handlers count                     *)
  parent       (* razgovor.c: "send", "wait", "done"; "none" elsewhere     *)

vars == <<program, pc, caught, pending, armed, brojac, broji, last, raised,
          parent>>
data == <<brojac, broji, last>>

(* The signals a program catches, in the order of its calls of signal, and *)
(* the one its handlers count.                                             *)
Handlers ==
  CASE program = "potvrdi"     -> <<"SIGINT">>
    [] program = "alarm_clock" -> <<"SIGALRM">>
    [] program = "stoperica"   -> <<"SIGALRM", "SIGINT">>
    [] program = "razgovor"    -> <<"SIGUSR1", "SIGTERM">>

Counted == Handlers[1]

Init ==
  /\ program \in Programs
  /\ pc = "install"
  /\ caught = {}
  /\ pending = {}
  /\ armed = FALSE
  /\ brojac = 0
  /\ broji = TRUE
  /\ last = 0
  /\ raised = 0
  /\ parent = IF program = "razgovor" THEN "send" ELSE "none"

Ended == pc \in {"done", "killed"}

-----------------------------------------------------------------------------
(* main (the child, in razgovor.c)                                         *)

GoTo(from, to) == pc = from /\ pc' = to

Install ==
  \E n \in 1 .. Len(Handlers) :
    /\ caught = {Handlers[j] : j \in 1 .. n - 1}
    /\ caught' = caught \cup {Handlers[n]}
    /\ GoTo("install", IF n < Len(Handlers) THEN "install"
                       ELSE IF program \in AlarmPrograms THEN "arm"
                       ELSE "test")
    /\ UNCHANGED <<program, pending, armed, data, raised, parent>>

Arm ==
  /\ GoTo("arm", "test")
  /\ armed' = TRUE
  /\ UNCHANGED <<program, caught, pending, data, raised, parent>>

(* The condition of the while loop.                                        *)
Continues ==
  CASE program = "potvrdi"     -> brojac < 2
    [] program = "alarm_clock" -> brojac < Tikova
    [] OTHER                   -> broji

Test ==
  /\ GoTo("test", IF Continues THEN "pause" ELSE "done")
  /\ UNCHANGED <<program, caught, pending, armed, data, raised, parent>>

(* pause puts the process to sleep; a signal handled before that has been  *)
(* handled, and does not end the sleep.                                    *)
Pause ==
  /\ GoTo("pause", "asleep")
  /\ UNCHANGED <<program, caught, pending, armed, data, raised, parent>>

(* Does the round end with a line.  The mutated form leaves out if (broji).*)
PrintsAlways == program = "potvrdi" => brojac = 1

Prints ==
  CASE program = "potvrdi"     -> brojac = 1
    [] program = "alarm_clock" -> TRUE
    [] OTHER                   -> broji

After ==
  /\ GoTo("after", IF Prints THEN "print" ELSE "test")
  /\ UNCHANGED <<program, caught, pending, armed, data, raised, parent>>

(* The line of potvrdi.c asks for the second Ctrl+C.                       *)
PrintLine ==
  /\ GoTo("print", "test")
  /\ last' = IF program = "potvrdi" THEN 1 ELSE brojac
  /\ UNCHANGED <<program, caught, pending, armed, brojac, broji, raised,
                 parent>>

-----------------------------------------------------------------------------
(* Signals                                                                 *)

(* Mutated form: one handler for all signals counts without looking at     *)
(* signum.                                                                 *)
HandleUnread(s) ==
  /\ brojac' = brojac + 1
  /\ broji' = (broji /\ s = Counted)
  /\ armed' = (armed \/ s = "SIGALRM")

(* Mutated form: the alarm is set again only while broji is set.           *)
HandleNoRearm(s) ==
  /\ brojac' = IF s = Counted THEN brojac + 1 ELSE brojac
  /\ broji' = (broji /\ s = Counted)
  /\ armed' = (armed \/ (s = "SIGALRM" /\ broji))

(* What the handlers do: count, and call alarm(1) again if it was the      *)
(* alarm; SIGINT of stoperica.c and SIGTERM of razgovor.c clear the flag.  *)
Handle(s) ==
  /\ brojac' = IF s = Counted THEN brojac + 1 ELSE brojac
  /\ broji' = (broji /\ s = Counted)
  /\ armed' = (armed \/ s = "SIGALRM")

(* A caught signal interrupts the program wherever it is, and ends pause.  *)
Deliver(s) ==
  /\ ~ Ended
  /\ s \in pending /\ s \in caught
  /\ Handle(s)
  /\ pending' = pending \ {s}
  /\ pc' = IF pc = "asleep" THEN "after" ELSE pc
  /\ UNCHANGED <<program, caught, last, raised, parent>>

(* The default action of a signal nobody has installed a handler for yet.  *)
DeliverDefault(s) ==
  /\ ~ Ended
  /\ s \in pending \ caught
  /\ pc' = "killed"
  /\ UNCHANGED <<program, caught, pending, armed, data, raised, parent>>

Raise(s) ==
  /\ ~ Ended
  /\ pending' = pending \cup {s}
  /\ raised' = IF s = Counted THEN raised + 1 ELSE raised

(* The bound spares a signal that has to end a sleep.                      *)
Bound(s) ==
  \/ raised < MaxRaised
  \/ pc = "asleep" /\ ~ Continues /\ s \notin pending

(* Mutated form: an interval timer in place of alarm.                      *)
FirePeriodic ==
  /\ armed
  /\ Bound("SIGALRM")
  /\ Raise("SIGALRM")
  /\ UNCHANGED <<program, pc, caught, armed, data, parent>>

Fire ==
  /\ armed
  /\ Bound("SIGALRM")
  /\ Raise("SIGALRM")
  /\ armed' = FALSE
  /\ UNCHANGED <<program, pc, caught, data, parent>>

CtrlC ==
  /\ program # "razgovor"
  /\ Bound("SIGINT")
  /\ Raise("SIGINT")
  /\ UNCHANGED <<program, pc, caught, armed, data, parent>>

-----------------------------------------------------------------------------
(* The parent of razgovor.c.  A kill whose target has ended changes        *)
(* nothing.                                                                *)

Send(s) ==
  \/ Raise(s)
  \/ Ended /\ UNCHANGED <<pending, raised>>

SendUsr1 ==
  /\ parent = "send"
  /\ raised < Prolaza
  /\ Send("SIGUSR1")
  /\ UNCHANGED <<program, pc, caught, armed, data, parent>>

SendTerm ==
  /\ parent = "send"
  /\ raised = Prolaza \/ Ended
  /\ Send("SIGTERM")
  /\ parent' = "wait"
  /\ UNCHANGED <<program, pc, caught, armed, data>>

WaitChild ==
  /\ parent = "wait"
  /\ Ended
  /\ parent' = "done"
  /\ UNCHANGED <<program, pc, caught, pending, armed, data, raised>>

-----------------------------------------------------------------------------
Loop == Install \/ Arm \/ Test \/ Pause \/ After \/ PrintLine
Kernel == \E s \in pending : Deliver(s) \/ DeliverDefault(s)
Parent == SendUsr1 \/ SendTerm \/ WaitChild

Next == Loop \/ Kernel \/ Fire \/ CtrlC \/ Parent

(* Fairness: processes run, signals are delivered and alarms go off.  The  *)
(* user may never press Ctrl+C.                                            *)
Spec ==
  Init /\ [][Next]_vars
       /\ WF_vars(Loop) /\ WF_vars(Kernel) /\ WF_vars(Fire) /\ WF_vars(Parent)

-----------------------------------------------------------------------------
(* Properties                                                              *)

(* Every variable has its type, and nothing is counted that was not sent.  *)
TypeOK ==
  /\ program \in Programs
  /\ pc \in {"install", "arm", "test", "pause", "asleep", "after", "print",
             "done", "killed"}
  /\ caught \subseteq {"SIGINT", "SIGALRM", "SIGUSR1", "SIGTERM"}
  /\ pending \subseteq {"SIGINT", "SIGALRM", "SIGUSR1", "SIGTERM"}
  /\ armed \in BOOLEAN
  /\ raised \in Nat
  /\ brojac \in 0 .. raised
  /\ broji \in BOOLEAN
  /\ last \in Nat
  /\ parent \in {"none", "send", "wait", "done"}

(* Signals of one kind merge, but no second of alarm_clock.c and           *)
(* stoperica.c gets lost: the handler sets the next alarm, so that two     *)
(* SIGALRM are never under way together and every one is counted.          *)
NoAlarmLost ==
  program \in AlarmPrograms =>
    /\ raised = brojac + (IF "SIGALRM" \in pending THEN 1 ELSE 0)
    /\ ~ (armed /\ "SIGALRM" \in pending)

(* No line of the loop repeats one: pause has returned because something   *)
(* was counted, and after an order to stop the program is silent unless it *)
(* was just about to print.  The hint of potvrdi.c appears only once.      *)
LinesReportNews == [][PrintLine => last' > last]_vars

(* An order to stop that arrives between the test and pause is slept over. *)
(* stoperica.c acts on it all the same, for the next alarm ends the sleep; *)
(* alarm_clock.c comes to its end even if nobody does anything.            *)
AlarmEndsSleep ==
  (\/ program = "alarm_clock"
   \/ program = "stoperica" /\ ~ Continues) ~> Ended

(* The SIGTERM of the parent ends the loop of the child, and the parent    *)
(* leaves after wait: the claim of the chapter about razgovor.c.           *)
ConversationEnds == (parent = "wait") ~> (parent = "done")
=============================================================================
