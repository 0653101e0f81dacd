------------------------------ MODULE MCEtlLoad ------------------------------
(* EtlLoad on small tables. *)
EXTENDS EtlLoad

Incrementing(u) == [incremental |-> TRUE, upsert |-> u]
Refreshing      == [incremental |-> FALSE, upsert |-> TRUE]

\* Every kind of job but one: a full refresh without conflict columns adds all
\* rows again in every run.
AllKinds == {Incrementing(FALSE), Incrementing(TRUE), Refreshing}

\* Four rows with watermark values of their own.
Rising == <<1, 2, 3, 4>>

\* The second and the third row are versions of one record.
Versions == <<1, 2, 2, 3>>

==============================================================================
