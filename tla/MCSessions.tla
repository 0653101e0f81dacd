----------------------------- MODULE MCSessions -----------------------------
(* Sessions with interchangeable threads. *)
EXTENDS Sessions, TLC

CONSTANTS t1, t2

Swaps == Permutations(Threads)

==============================================================================
