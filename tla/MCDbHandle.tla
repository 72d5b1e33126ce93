----------------------------- MODULE MCDbHandle -----------------------------
(* Instances of DbHandle for TLC: symmetric threads.                       *)
EXTENDS DbHandle, TLC

Symmetry == Permutations(Thread)
=============================================================================
