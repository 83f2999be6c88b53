----------------------------- MODULE MCMemstore -----------------------------
(* The memstore storage manager for TLC: two threads, one container id, *)
(* two values of different encoded lengths, slot ids 0..1.          *)
EXTENDS Memstore, TLC

MCValueLen == [v \in Values |-> IF v = CHOOSE x \in Values : TRUE THEN 1 ELSE 3]
(* The threads run the same code, so swapping them is a symmetry. *)
ThreadSymmetry == Permutations(Threads)
=============================================================================
