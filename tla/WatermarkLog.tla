---------------------------- MODULE WatermarkLog ----------------------------
(***************************************************************************)
(* What an incremental job promises the readers of its destination table   *)
(* and of app.etl_job_state: the table holds exactly the source rows up to *)
(* last_watermark, each once, whatever runs failed or were cut short.      *)
(***************************************************************************)
EXTENDS Naturals

CONSTANTS Rows, Wm

VARIABLES source,    \* the rows of the source table
          loaded,    \* the rows of the destination table
          watermark

logVars == <<source, loaded, watermark>>

UpTo(w) == {r \in source : Wm[r] <= w}

LogInit == source = {} /\ loaded = {} /\ watermark = 0

Grow == \E r \in Rows \ source : source' = source \cup {r} /\ UNCHANGED <<loaded, watermark>>

Advance ==
  \E w \in {Wm[r] : r \in source} :
    /\ w > watermark
    /\ watermark' = w
    /\ loaded' = UpTo(w)
    /\ UNCHANGED source

LogSpec == LogInit /\ [][Grow \/ Advance]_logVars

==============================================================================
