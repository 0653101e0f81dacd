----------------------------- MODULE MCEtlEngine -----------------------------
(* EtlEngine on small instances; the configurations choose the bounds. *)
EXTENDS EtlEngine, TLC

\* Jobs, workers and TriggerNow goroutines are interchangeable.
Symmetric == Permutations(Jobs) \cup Permutations(Workers) \cup Permutations(Triggers)

==============================================================================
