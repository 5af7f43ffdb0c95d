------------------------------- MODULE MCFout ------------------------------
(* The trace_id record gains a digit after the second chunk.                *)
EXTENDS Fout

MCTailLen == [k \in 0..FoutMaxBuffer |-> IF k < 2 THEN 3 ELSE 4]
============================================================================
