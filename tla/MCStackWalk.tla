---------------------------- MODULE MCStackWalk ----------------------------
(* Instances of StackWalk for TLC.                                          *)
EXTENDS StackWalk, TLC

Symmetric == Permutations(Addr)

(* Off, none, one, two, and the largest int, with which sums overflow.      *)
MCFromLeaf == {-1, 0, 1, 2, 7}
MCFromRoot == {-1, 0, 1, 2, 7}
============================================================================
