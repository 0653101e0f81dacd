----------------------------- MODULE MCMmsSales -----------------------------
(* MmsSales with figures that are interchangeable. *)
EXTENDS MmsSales, TLC

Swaps == Permutations(Values)

==============================================================================
