------------------------------ MODULE MmsSales ------------------------------
(***************************************************************************)
(* app.mms_customer_sales and what is kept in step with it: the procedure  *)
(* populate_mms_customer_sales_accounting loads one row per meter and      *)
(* month, the retired MMS_SALES feed has left (and may still leave)        *)
(* readings, and resync_mms_incremental flags readings that were written   *)
(* twice and rebuilds the daily summary and the customer activity.         *)
(*                                                                         *)
(* A meter stands for its customer and its dimensions.  A sum is the set   *)
(* of what was added up.                                                   *)
(***************************************************************************)
EXTENDS Integers, FiniteSets

CONSTANTS
  Meters,        \* meter numbers, which order the keys of one month
  Months,        \* how many months there are
  MonthLength,   \* days of a month
  Values,        \* figures in kWh
  Absent,        \* no figure: there is no row
  OverlapDays,   \* overlap_days
  BatchSize,     \* p_batch_size
  MaxArrivals    \* bound: rows and corrections of rows that the two feeds bring

ASSUME SalesAssumption ==
  /\ IsFiniteSet(Meters) /\ Meters \subseteq Nat \ {0}
  /\ {Months, MonthLength, BatchSize} \subseteq Nat \ {0}
  /\ Absent \notin Values
  /\ {OverlapDays, MaxArrivals} \subseteq Nat

VARIABLES
  staging,    \* app.mms_sales_accounting: the kWh of a month and a meter
  sales,      \* app.mms_customer_sales: [kwh, dup] of a meter and a day
  summary,    \* app.mms_sales_daily_summary
  activity,   \* app.mms_customer_activity
  synced,     \* synced_through
  checkpoint, \* last_text in app.migration_checkpoints
  pc,         \* whether the procedure is in its LOOP, and has picked a batch
  lastKey,    \* v_last_key
  batchMin,   \* v_batch_min_key
  batchMax,   \* v_batch_max_key
  late,       \* keys delivered behind the checkpoint
  slipped,    \* keys that slipped into a batch that had been picked, before its first month
  dirty,      \* meters with rows that no resync has seen
  arrivals    \* how many there were

vars == <<staging, sales, summary, activity, synced, checkpoint, pc, lastKey,
          batchMin, batchMax, late, slipped, dirty, arrivals>>

Days       == 1..(Months * MonthLength)
MonthOf(d) == (d - 1) \div MonthLength + 1

\* date_time of an accounting row.  A reading of the old feed has the time it was
\* taken: it never has this one.
FirstOf(mo) == (mo - 1) * MonthLength + 1
Firsts      == {FirstOf(mo) : mo \in 1..Months}

\* monthyear \x01 meter_id, and the order of such keys.
Keys         == (1..Months) \X Meters
Start        == <<0, 0>>
Before(k, l) == k[1] < l[1] \/ (k[1] = l[1] /\ k[2] < l[2])

Never == -1
NoRow == [kwh |-> Absent, dup |-> FALSE]

\* The variables keep their types, and between two batches the procedure is
\* where its checkpoint is, so that a batch is not loaded again when it breaks,
\* unless it was told to start over and has not loaded any.
TypeOK ==
  /\ staging \in [Keys -> Values \cup {Absent}]
  /\ sales \in [Meters -> [Days -> [kwh : Values \cup {Absent}, dup : BOOLEAN]]]
  /\ summary \in [Days -> SUBSET (Meters \X Values)]
  /\ activity \in [Meters -> SUBSET (1..Months)]
  /\ synced \in Days \cup {Never}
  /\ checkpoint \in Keys \cup {Start}
  /\ pc \in {"idle", "loop", "picked"}
  /\ lastKey \in {checkpoint, Start}
  /\ {batchMin, batchMax} \subseteq IF pc = "picked" THEN Keys ELSE {Start}
  /\ late \subseteq Keys
  /\ slipped \subseteq Keys
  /\ dirty \subseteq Meters
  /\ arrivals \in 0..MaxArrivals

Init ==
  /\ staging = [k \in Keys |-> Absent]
  /\ sales = [m \in Meters |-> [d \in Days |-> NoRow]]
  /\ summary = [d \in Days |-> {}]
  /\ activity = [m \in Meters |-> {}]
  /\ synced = Never
  /\ checkpoint = Start
  /\ pc = "idle"
  /\ lastKey = Start
  /\ batchMin = Start
  /\ batchMax = Start
  /\ late = {}
  /\ slipped = {}
  /\ dirty = {}
  /\ arrivals = 0

There(s, m, d) == s[m][d].kwh # Absent

-----------------------------------------------------------------------------
(* The two feeds. *)

Arrives == arrivals < MaxArrivals /\ arrivals' = arrivals + 1

\* A row, or a correction of one, is delivered (UNIQUE (meter_id, monthyear)).
Deliver(k, v) ==
  /\ Arrives
  /\ staging[k] # v
  /\ staging' = [staging EXCEPT ![k] = v]
  /\ late' = IF Before(checkpoint, k) THEN late ELSE late \cup {k}
  /\ UNCHANGED <<sales, summary, activity, synced, checkpoint, pc, lastKey, batchMin, batchMax,
                 slipped, dirty>>

\* Where the next incremental resync starts.
WindowStart == synced - OverlapDays

\* The old feed writes a reading, the same one as before or another one, "under
\* a new, more recent date_time" that is not behind the window.
Ingest(m, d, v) ==
  /\ Arrives
  /\ d \notin Firsts
  /\ ~There(sales, m, d)
  /\ synced # Never => d >= WindowStart
  /\ sales' = [sales EXCEPT ![m][d] = [kwh |-> v, dup |-> FALSE]]
  /\ dirty' = dirty \cup {m}
  /\ UNCHANGED <<staging, summary, activity, synced, checkpoint, pc, lastKey, batchMin, batchMax,
                 late, slipped>>

-----------------------------------------------------------------------------
(* The steps of a resync, as functions of the tables they read. *)

\* Flags of earlier readings left alone.
Flagged_bug(s, from, to) ==
  [m \in Meters |-> [d \in Days |->
    IF d \notin from..to THEN s[m][d]
    ELSE [s[m][d] EXCEPT !.dup = \E e \in Days :
           e > d /\ MonthOf(e) = MonthOf(d) /\ s[m][e].kwh = s[m][d].kwh
           /\ There(s, m, d) /\ d \notin Firsts]]]

\* resync_mms_duplicate_flags: of the rows of a meter with one reading in one
\* month the latest counts, for every meter with a row in the window and over
\* its whole history.  An accounting row has no credit figures, so that it is in
\* no group with a reading.
Flagged(s, from, to) ==
  LET touched == {m \in Meters : \E d \in Days \cap (from..to) : There(s, m, d)}
      again(m, d) == \E e \in Days \ Firsts :
                       e > d /\ MonthOf(e) = MonthOf(d) /\ s[m][e].kwh = s[m][d].kwh
  IN [m \in Meters |-> [d \in Days |->
       IF m \in touched /\ There(s, m, d)
         THEN [s[m][d] EXCEPT !.dup = d \notin Firsts /\ again(m, d)] ELSE s[m][d]]]

Counts(s, m, d) == There(s, m, d) /\ ~s[m][d].dup

\* resync_mms_sales_summary: delete and rebuild the days of the window.
Summed(s, from, to) ==
  [d \in Days |-> IF d \in from..to THEN {<<m, s[m][d].kwh>> : m \in {n \in Meters : Counts(s, n, d)}}
                  ELSE summary[d]]

\* The months stripped, and re-added from the rows after the watermark only.
Active_bug(s, from, to) ==
  LET window == Days \cap (from..to) IN
  [m \in Meters |-> (activity[m] \ {MonthOf(d) : d \in window})
                    \cup {MonthOf(d) : d \in {e \in window : Counts(s, m, e) /\ e > synced}}]

\* resync_mms_customer_activity: strip the months of the window, then re-add
\* those with a row in the window.
Active(s, from, to) ==
  LET window == Days \cap (from..to) IN
  [m \in Meters |-> (activity[m] \ {MonthOf(d) : d \in window})
                    \cup {MonthOf(d) : d \in {e \in window : Counts(s, m, e)}}]

-----------------------------------------------------------------------------
(* resync_mms_incremental, one transaction. *)

Dated == {d \in Days : \E m \in Meters : There(sales, m, d)}
Newest == CHOOSE d \in Dated : \A e \in Dated : e <= d
Oldest == CHOOSE d \in Dated : \A e \in Dated : d <= e

From == IF synced = Never THEN Oldest ELSE WindowStart

Resync ==
  LET flagged == Flagged(sales, From, Newest) IN
  /\ Dated # {}
  /\ sales' = flagged
  /\ summary' = Summed(flagged, From, Newest)
  /\ activity' = Active(flagged, From, Newest)
  /\ synced' = Newest
  /\ slipped' = {k \in slipped : FirstOf(k[1]) \notin From..Newest}
  /\ dirty' = {}
  /\ UNCHANGED <<staging, checkpoint, pc, lastKey, batchMin, batchMax, late, arrivals>>

-----------------------------------------------------------------------------
(* populate_mms_customer_sales_accounting.  Each batch is a transaction of   *)
(* several statements, each of which sees what was committed before it.  No  *)
(* resync is at work while a batch writes: src/sql asks for a single writer. *)

ProcVars == <<staging, sales, summary, activity, synced, late, slipped, dirty, arrivals>>

\* CALL, with p_reset or without; what p_reset does to the checkpoint commits
\* with the first batch.
Call(reset) ==
  /\ pc = "idle"
  /\ pc' = "loop"
  /\ lastKey' = IF reset THEN Start ELSE checkpoint
  /\ UNCHANGED <<ProcVars, checkpoint, batchMin, batchMax>>

Pending == {k \in Keys : staging[k] # Absent /\ Before(lastKey, k)}

\* The next p_batch_size keys.
Batch == {k \in Pending : Cardinality({l \in Pending : Before(l, k)}) < BatchSize}

First(K) == CHOOSE k \in K : \A l \in K : ~Before(l, k)
Last(K)  == CHOOSE k \in K : \A l \in K : ~Before(k, l)

\* SELECT ... INTO v_batch_min_key, v_batch_max_key.
PickBatch ==
  /\ pc = "loop"
  /\ Batch # {}
  /\ pc' = "picked"
  /\ batchMin' = First(Batch)
  /\ batchMax' = Last(Batch)
  /\ UNCHANGED <<ProcVars, checkpoint, lastKey>>

\* Without the last key.
Taken_bug == {k \in Pending : Before(k, batchMax)}

\* What the INSERT reads, later: every key up to the last one.
Taken == {k \in Pending : ~Before(batchMax, k)}

\* ON CONFLICT DO UPDATE, which leaves is_duplicate_reading alone.
Loaded(K) ==
  [m \in Meters |-> [d \in Days |->
    IF d \in Firsts /\ <<MonthOf(d), m>> \in K
      THEN [sales[m][d] EXCEPT !.kwh = staging[<<MonthOf(d), m>>]] ELSE sales[m][d]]]

\* Only the month of the last key.
Touched_bug == [from |-> FirstOf(batchMax[1]), to |-> batchMax[1] * MonthLength]

\* The first day of the first month to the last day of the last.
Touched == [from |-> FirstOf(batchMin[1]), to |-> batchMax[1] * MonthLength]

\* The checkpoint saved at the end only.
LoadBatch_bug ==
  LET loaded == Loaded(Taken) IN
  /\ pc = "picked"
  /\ pc' = "loop"
  /\ sales' = loaded
  /\ summary' = Summed(loaded, Touched.from, Touched.to)
  /\ lastKey' = batchMax
  /\ batchMin' = Start /\ batchMax' = Start
  /\ late' = late \ Taken
  /\ slipped' = {k \in slipped : k[1] \notin batchMin[1]..batchMax[1]} \cup {k \in Taken : k[1] < batchMin[1]}
  /\ dirty' = dirty \cup {k[2] : k \in Taken}
  /\ UNCHANGED <<staging, activity, synced, checkpoint, arrivals>>

\* INSERT, resync_mms_sales_summary, the checkpoint and COMMIT.  Readings that the
\* old feed adds in between are summed as if they had come before.
LoadBatch ==
  LET loaded == Loaded(Taken) IN
  /\ pc = "picked"
  /\ pc' = "loop"
  /\ sales' = loaded
  /\ summary' = Summed(loaded, Touched.from, Touched.to)
  /\ lastKey' = batchMax
  /\ checkpoint' = batchMax
  /\ batchMin' = Start /\ batchMax' = Start
  /\ late' = late \ Taken
  /\ slipped' = {k \in slipped : k[1] \notin batchMin[1]..batchMax[1]} \cup {k \in Taken : k[1] < batchMin[1]}
  /\ dirty' = dirty \cup {k[2] : k \in Taken}
  /\ UNCHANGED <<staging, activity, synced, arrivals>>

Return ==
  /\ pc = "loop"
  /\ Batch = {}
  /\ pc' = "idle"
  /\ checkpoint' = lastKey
  /\ UNCHANGED <<ProcVars, lastKey, batchMin, batchMax>>

\* The session ends, or a batch fails and is rolled back.
Fail ==
  /\ pc # "idle"
  /\ pc' = "idle"
  /\ lastKey' = checkpoint
  /\ batchMin' = Start /\ batchMax' = Start
  /\ UNCHANGED <<ProcVars, checkpoint>>

Next ==
  \/ \E k \in Keys, v \in Values : Deliver(k, v)
  \/ \E m \in Meters, d \in Days, v \in Values : Ingest(m, d, v)
  \/ Resync
  \/ \E reset \in BOOLEAN : Call(reset)
  \/ PickBatch
  \/ LoadBatch
  \/ Return
  \/ Fail

Spec == Init /\ [][Next]_vars

-----------------------------------------------------------------------------

\* However often the procedure breaks, is resumed or is told to start over, all
\* that was delivered up to its checkpoint is loaded as it was delivered, but for
\* what came or was corrected after the checkpoint had passed.
LoadedUpToCheckpoint ==
  \A k \in Keys \ late :
    staging[k] # Absent /\ ~Before(checkpoint, k) => sales[k[2]][FirstOf(k[1])].kwh = staging[k]

SummedFor(k) == {v \in Values : <<k[2], v>> \in summary[FirstOf(k[1])]}
Figure(k)    == {sales[k[2]][FirstOf(k[1])].kwh} \ {Absent}

\* The summary never shows another figure of the new feed than the table does, and
\* none is missing from it, whichever of the two procedures rebuilds it and in
\* whatever order, but for rows that slipped into a batch, in a month before its
\* first one: those are missing until somebody rebuilds that month.
AccountingIsSummed ==
  \A k \in Keys : /\ SummedFor(k) \subseteq Figure(k)
                  /\ k \notin slipped => Figure(k) \subseteq SummedFor(k)

\* After a resync, of the readings of a meter that are equal in one month the
\* latest counts and no other, wherever in the month they are; what counts is in
\* the summary, rows that slipped into a batch excepted, and within the overlap
\* nothing else is.  (A reading from before the overlap that is flagged stays in it.)
SummaryCounts ==
  \A m \in Meters \ dirty, d \in Days :
    /\ d \notin Firsts /\ There(sales, m, d) =>
         (sales[m][d].dup <=> \E e \in Days \ Firsts :
            e > d /\ MonthOf(e) = MonthOf(d) /\ sales[m][e].kwh = sales[m][d].kwh)
    /\ Counts(sales, m, d) =>
         <<m, sales[m][d].kwh>> \in summary[d] \/ (d \in Firsts /\ <<MonthOf(d), m>> \in slipped)
    /\ d >= WindowStart => \A v \in Values :
         <<m, v>> \in summary[d] => Counts(sales, m, d) /\ sales[m][d].kwh = v

\* Within the overlap, a customer that has a row is active in its month.
RecentActivity ==
  \A m \in Meters \ dirty, d \in Days :
    Counts(sales, m, d) /\ d >= WindowStart => MonthOf(d) \in activity[m]

==============================================================================
