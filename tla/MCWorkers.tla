----------------------------- MODULE MCWorkers -----------------------------
(* The threads of an instance of Workers are interchangeable. *)
EXTENDS Workers, TLC

Symmetry == Permutations(Threads) \cup Permutations(Pids)
============================================================================
