----------------------------- MODULE MCHeapFile -----------------------------
(* Model-checking instance of HeapFile: page ids 0..1, two record bodies. *)
EXTENDS HeapFile, TLC

CONSTANTS t1, t2, b1, b2

=============================================================================
