----------------------------- MODULE MCSignali -----------------------------
(* The programs of the runs of Signali.                                    *)
EXTENDS Signali

AllPrograms == {"potvrdi", "alarm_clock", "stoperica", "razgovor"}
Conversation == {"razgovor"}
=============================================================================
