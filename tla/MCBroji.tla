------------------------------ MODULE MCBroji ------------------------------
(* Model values and both programs for the run of Broji.                    *)
EXTENDS Broji
CONSTANTS t1, t2, t3

BothPrograms == {FALSE, TRUE}
=============================================================================
