----------------------------- MODULE MCIoWorker -----------------------------
(* Values of the constants of IoWorker for TLC.                            *)
EXTENDS IoWorker, TLC

CONSTANTS t1, t2, t3, t4

MCOne == {t1}
MCThree == {t1, t2, t3}
MCFour == {t1, t2, t3, t4}

\* Threads run the same code, and the invariant treats them alike.
MCSymmetry == Permutations(Threads)
=============================================================================
