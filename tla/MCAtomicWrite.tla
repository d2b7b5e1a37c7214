----------------------------- MODULE MCAtomicWrite -----------------------------
(***************************************************************************)
(* Writers for TLC; two of them, who are alike.                            *)
(***************************************************************************)
EXTENDS AtomicWrite, TLC

CONSTANTS w1, w2, f1, f2, f3, f4

TwoWriters == {w1, w2}
FourFiles == {f1, f2, f3, f4}
InTurns == {c \in Setting : c.turns}
Symmetry == Permutations(TwoWriters) \cup Permutations(FourFiles)
================================================================================
