----------------------------- MODULE MCEtlRange -----------------------------
(* EtlRange with three meters and a clock of a few seconds. *)
EXTENDS EtlRange

Reading(d, t)  == [dev |-> d, tv |-> t, item |-> 1]
Another(d, t)  == [dev |-> d, tv |-> t, item |-> 2]

\* Readings in the first second, on both sides of a slice, and in the last;
\* three of one meter in one slice, more than a page, of which two have one key;
\* one that comes late.
Regular == {Reading(1, 0), Reading(1, 1), Another(1, 1), Reading(2, 1), Reading(2, 3), Reading(3, 2)}
OneLate == {Reading(2, 1)}
Nothing == {}

\* Pages of two rows and chunks of one meter; and one query for two meters,
\* loaded in batches of one.
Paginated == [start |-> 0, step |-> 2, chunk |-> 1, paged |-> TRUE, page |-> 2, batch |-> 1]
AtOnce    == [start |-> 1, step |-> 3, chunk |-> 2, paged |-> FALSE, page |-> 1, batch |-> 1]
Both      == {Paginated, AtOnce}
OnlyPages == {Paginated}

==============================================================================
