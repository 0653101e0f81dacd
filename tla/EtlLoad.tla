------------------------------- MODULE EtlLoad -------------------------------
(***************************************************************************)
(* One run of a plain job, in the steps of internal/etl/run.go: read the   *)
(* watermark, open the source query, gather its rows into batches, commit  *)
(* each batch together with the watermark of its last row.  A run may      *)
(* break at any step, the answer to a commit may be lost, and the job is   *)
(* triggered again later.  Runs of one job never overlap: EtlEngine.       *)
(***************************************************************************)
EXTENDS Naturals, Sequences, FiniteSets

CONSTANTS
  Rows,        \* the rows the source will ever have
  Wm,          \* their values in the watermark column, above defaultWatermark = 0
  Key,         \* their values in the conflict columns
  Jobs,        \* kinds of job: see Job
  BatchSize,   \* Job.BatchSize
  MaxFaults    \* bound: runs that break

\* Job.Mode is incremental (or full_refresh); Job.ConflictColumns is set.
Job == [incremental : BOOLEAN, upsert : BOOLEAN]

ASSUME LoadAssumption ==
  /\ Wm \in [Rows -> Nat \ {0}]
  /\ Jobs \subseteq Job
  /\ BatchSize \in Nat \ {0}
  /\ MaxFaults \in Nat

VARIABLES
  job,       \* the row of app.etl_jobs
  source,    \* the source table
  dest,      \* the destination table: how many copies it has of each row
  watermark, \* last_watermark in app.etl_job_state
  pc,        \* "idle" between runs, "reading" during one
  asked,     \* the rows the source query of this run selected
  rows,      \* those not read yet, in the order of the result
  batch,     \* those read and not committed
  faults     \* breaks left

vars == <<job, source, dest, watermark, pc, asked, rows, batch, faults>>

Elements(s) == {s[i] : i \in 1..Len(s)}

\* The variables keep their types, and no batch grows beyond BatchSize: each
\* goes out as one INSERT, whose placeholders PostgreSQL limits.
TypeOK ==
  /\ job \in Jobs
  /\ source \subseteq Rows
  /\ dest \in [Rows -> Nat]
  /\ watermark \in Nat
  /\ pc \in {"idle", "reading"}
  /\ asked \subseteq source
  /\ rows \in Seq(source)
  /\ batch \in Seq(source)
  /\ Len(batch) <= BatchSize
  /\ faults \in Nat

Init ==
  /\ job \in Jobs
  /\ source = {}
  /\ dest = [r \in Rows |-> 0]
  /\ watermark = 0
  /\ pc = "idle"
  /\ asked = {}
  /\ rows = <<>>
  /\ batch = <<>>
  /\ faults = MaxFaults

\* Rows reach the source in the order of its watermark column.
SourceGrows(r) ==
  /\ r \notin source
  /\ \A q \in source : Wm[q] <= Wm[r]
  /\ source' = source \cup {r}
  /\ UNCHANGED <<job, dest, watermark, pc, asked, rows, batch, faults>>

-----------------------------------------------------------------------------

\* Results of a query that selects the rows in R: in watermark order for an
\* incremental job, whose source_query must ORDER BY that column; rows with
\* equal values come in any order.
Results(R) ==
  {s \in [1..Cardinality(R) -> R] :
     /\ \A i, k \in DOMAIN s : i # k => s[i] # s[k]
     /\ job.incremental => \A i, k \in DOMAIN s : i < k => Wm[s[i]] <= Wm[s[k]]}

\* The rows the source query asks for: WHERE watermark_column > {{WATERMARK}}.
Selected == IF job.incremental THEN {r \in source : Wm[r] > watermark} ELSE source

StartRun ==
  /\ pc = "idle"
  /\ asked' = Selected
  /\ rows' \in Results(Selected)
  /\ batch' = <<>>
  /\ pc' = "reading"
  /\ UNCHANGED <<job, source, dest, watermark, faults>>

\* A batch that is flushed only at the end of the result.
ReadRow_bug ==
  /\ pc = "reading"
  /\ rows # <<>>
  /\ batch' = Append(batch, Head(rows))
  /\ rows' = Tail(rows)
  /\ UNCHANGED <<job, source, dest, watermark, pc, asked, faults>>

ReadRow ==
  /\ pc = "reading"
  /\ rows # <<>>
  /\ Len(batch) < BatchSize
  /\ batch' = Append(batch, Head(rows))
  /\ rows' = Tail(rows)
  /\ UNCHANGED <<job, source, dest, watermark, pc, asked, faults>>

\* PostgreSQL refuses an ON CONFLICT DO UPDATE that meets a key twice.
Rejected(b) == job.upsert /\ \E i, k \in DOMAIN b : i # k /\ Key[b[i]] = Key[b[k]]

\* The destination after one multi-row INSERT.
Inserted(b) ==
  LET new == Elements(b) IN
  [r \in Rows |-> IF r \in new THEN (IF job.upsert THEN 1 ELSE dest[r] + 1)
                  ELSE IF job.upsert /\ Key[r] \in {Key[q] : q \in new} THEN 0 ELSE dest[r]]

\* The watermark of the last row the query returned, not of the batch.
Reached_bug(b) ==
  IF ~job.incremental THEN watermark ELSE IF rows = <<>> THEN Wm[b[Len(b)]] ELSE Wm[rows[Len(rows)]]

\* The watermark of the first row of the batch.
Reached_bug2(b) == IF job.incremental THEN Wm[b[1]] ELSE watermark

\* The watermark of the last row of the batch.
Reached(b) == IF job.incremental THEN Wm[b[Len(b)]] ELSE watermark

Full == Len(batch) = BatchSize \/ rows = <<>>

RunEnds == /\ pc' = "idle"
           /\ rows' = <<>>
           /\ batch' = <<>>
           /\ asked' = {}

Fault == faults > 0 /\ faults' = faults - 1

GoesOn == batch' = <<>> /\ UNCHANGED <<pc, asked, rows, faults>>

\* Rows and watermark written in two transactions, the second one failing.
Flush_bug ==
  /\ pc = "reading"
  /\ batch # <<>>
  /\ Full
  /\ \/ /\ ~Rejected(batch)
        /\ dest' = Inserted(batch)
        /\ \/ watermark' = Reached(batch) /\ GoesOn
           \/ UNCHANGED watermark /\ RunEnds /\ Fault
     \/ UNCHANGED <<dest, watermark>> /\ RunEnds /\ Fault
     \/ Rejected(batch) /\ UNCHANGED <<dest, watermark, faults>> /\ RunEnds
  /\ UNCHANGED <<job, source>>

\* loadBatch: one transaction.  It commits, and the run goes on or, when the
\* answer is lost, fails; or it is rolled back and the run fails.
Flush ==
  /\ pc = "reading"
  /\ batch # <<>>
  /\ Full
  /\ \/ /\ ~Rejected(batch)
        /\ dest' = Inserted(batch)
        /\ watermark' = Reached(batch)
        /\ GoesOn \/ (RunEnds /\ Fault)
     \/ UNCHANGED <<dest, watermark>> /\ RunEnds /\ Fault
     \/ Rejected(batch) /\ UNCHANGED <<dest, watermark, faults>> /\ RunEnds
  /\ UNCHANGED <<job, source>>

\* The last, short batch forgotten.
Succeed_bug ==
  /\ pc = "reading"
  /\ rows = <<>>
  /\ RunEnds
  /\ UNCHANGED <<job, source, dest, watermark, faults>>

\* The result is exhausted and flushed: the run succeeds.
Succeed ==
  /\ pc = "reading"
  /\ rows = <<>>
  /\ batch = <<>>
  /\ RunEnds
  /\ UNCHANGED <<job, source, dest, watermark, faults>>

\* The source fails, the run is stopped or times out, or the process dies.
\* Nothing of a run but its committed batches survives any of these.
Break ==
  /\ pc = "reading"
  /\ RunEnds
  /\ Fault
  /\ UNCHANGED <<job, source, dest, watermark>>

Next ==
  \/ \E r \in Rows : SourceGrows(r)
  \/ StartRun
  \/ ReadRow
  \/ Flush
  \/ Succeed
  \/ Break

Spec == Init /\ [][Next]_vars

\* The job is triggered again and again (EtlEngine!TimedJobIsScheduled) and a
\* run goes on until it ends.  Nothing obliges the source to grow.
FairSpec == Spec /\ WF_vars(StartRun) /\ WF_vars(ReadRow) /\ WF_vars(Flush) /\ WF_vars(Succeed)

-----------------------------------------------------------------------------

\* A row the destination accounts for: it is there, or a row that has its key
\* and does not come before it is there in its place.
Loaded(r) ==
  \/ dest[r] > 0
  \/ /\ job.upsert
     /\ \E q \in source :
          /\ Key[q] = Key[r]
          /\ dest[q] > 0
          /\ job.incremental => Wm[q] >= Wm[r]

\* Whatever breaks, and whenever: no row at or below the saved watermark is
\* missing from the destination, so resuming from the watermark loses nothing.
\* It follows from ImplementsLog.  Rows that share a value break it in two ways: a
\* batch may end between them (ResumeLosesNothing), and one may come to the source
\* when a run has already loaded the other.
NothingSkipped == job.incremental => \A r \in source : Wm[r] <= watermark => Loaded(r)

\* A run that ends, well or not, leaves none of the rows its query selected behind:
\* each is in the destination, or the next run, which resumes from the watermark of
\* the last committed batch, will ask for it again.  It holds when rows have values
\* of their own: of two with one value on both sides of the end of a batch, the second
\* is left behind when the run breaks there.
ResumeLosesNothing ==
  [][pc = "reading" /\ pc' = "idle" /\ job.incremental
       => \A r \in asked : Loaded(r)' \/ Wm[r] > watermark']_vars

\* No row is in the destination before the watermark says so, so that resuming
\* from the watermark loads nothing twice, not even after a lost answer; and of
\* the rows with one key an upserting job keeps the latest up to the watermark.
LoadedOnce ==
  job.incremental =>
    /\ \A r \in Rows : dest[r] <= 1 /\ (dest[r] = 1 => Wm[r] <= watermark)
    /\ job.upsert => \A q, r \in source :
         Key[q] = Key[r] /\ Wm[q] < Wm[r] /\ Wm[r] <= watermark => dest[q] = 0

\* A run that succeeds has loaded every row its query returned.
SuccessIsComplete == [][Succeed => \A r \in asked : Loaded(r)]_vars

\* Under fairness, whatever reaches the source reaches the destination of an
\* appending job.  An upserting one gets stuck behind a batch that is Rejected.
EventuallyLoaded == \A r \in Rows : (r \in source /\ ~job.upsert) ~> Loaded(r)

\* An incremental job as WatermarkLog describes it, whether it appends or
\* upserts.  A full refresh has no watermark, and the log knows nothing of it.
Log == INSTANCE WatermarkLog
         WITH loaded <- {r \in source : job.incremental /\ Loaded(r)}
ImplementsLog == Log!LogSpec

==============================================================================
