---------------------------- MODULE MCCallFrame -----------------------------
(* Two pool registers, two argument registers, up to three arguments, so   *)
(* that arguments are spilled and passed on the stack.                     *)
EXTENDS CallFrame, TLC

CONSTANTS t1, t2, t3, t4

MCTmp == {t1, t2, t3, t4}
MCVal == {0, 1}
MCFrames == {0}
MCParamCounts == {0, 3}

Symm == Permutations(MCTmp)
=============================================================================
