----------------------------- MODULE MCRegPool ------------------------------
(* A pool of two registers and a spill array that must grow, with enough   *)
(* temporaries to fill registers and three slots.                          *)
EXTENDS RegPool, TLC

CONSTANTS t1, t2, t3, t4, t5

MCTmp == {t1, t2, t3, t4, t5}
MCVal == {0, 1}
MCFrames == {0, 8}

Symm == Permutations(MCTmp)
=============================================================================
