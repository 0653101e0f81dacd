------------------------------ MODULE EtlRange ------------------------------
(***************************************************************************)
(* One ranged job (Job.RangeStepSeconds) of internal/etl/run.go: a run     *)
(* walks forward in date slices from the saved checkpoint to the present.  *)
(* For every slice it reads the filter values from app.meters, cuts them   *)
(* into chunks, drains each chunk page by page behind a keyset cursor, and *)
(* saves the checkpoint when the whole slice is in.  Runs of one job never *)
(* overlap: EtlEngine.                                                     *)
(***************************************************************************)
EXTENDS Integers, Sequences, FiniteSets

CONSTANTS
  Devices,     \* numbers of the meters the source has readings of
  FirstMeters, \* those listed in app.meters from the start
  Feed,        \* the readings, [dev, tv, item], the source will get
  Late,        \* those that come after their time
  Jobs,        \* rows of app.etl_jobs: see Job
  FirstNow,    \* the clock at the start
  MaxNow,      \* bound: the clock
  MaxFaults    \* bound: runs that break

\* RangeStart, RangeStepSeconds, FilterBatchSize, whether CursorColumns is set,
\* the rows of one page when it is, and BatchSize.
Job == [start : Nat, step : Nat, chunk : Nat \ {0}, paged : BOOLEAN,
        page : Nat \ {0}, batch : Nat \ {0}]

ASSUME RangeAssumption ==
  /\ IsFiniteSet(Devices) /\ IsFiniteSet(Feed)
  /\ FirstMeters \subseteq Devices
  /\ Devices \subseteq Nat
  /\ Feed \subseteq [dev : Devices, tv : Nat, item : Nat]
  /\ Late \subseteq Feed
  /\ Jobs \subseteq Job
  /\ {FirstNow, MaxNow, MaxFaults} \subseteq Nat

None == -1

VARIABLES
  job,        \* the job
  now,        \* time.Now().Unix()
  source,     \* the readings in the source table
  meters,     \* what filter_query returns
  dest,       \* how often each reading was written to the destination
  checkpoint, \* last_watermark in app.etl_job_state, or None
  pc,         \* "idle", or where the run is
  win,        \* the slice: [from, to, last]
  asked,      \* its filter values
  values,     \* those not drained yet, in the order of filter_query
  cursor,     \* the key of the last row of the previous page, or cursorSentinel
  rows,       \* the page, minus what is committed
  faults      \* breaks left

world == <<job, now, source, meters>>
vars == <<world, dest, checkpoint, pc, win, asked, values, cursor, rows, faults>>

cursorSentinel == [dev |-> -1, tv |-> -1]

\* CursorColumns: id and tv.  A meter has up to six readings, of different items,
\* with one tv.
Keyset(r) == [dev |-> r.dev, tv |-> r.tv]

\* The values in {{FILTER}}.
Chunk == {values[i] : i \in 1..(IF job.chunk < Len(values) THEN job.chunk ELSE Len(values))}

\* The variables keep their types, and the cursor is a row of the chunk that is
\* being drained: that of another chunk would hide rows of this one.
TypeOK ==
  /\ job \in Jobs
  /\ now \in Nat
  /\ source \subseteq Feed
  /\ meters \subseteq Devices
  /\ dest \in [Feed -> Nat]
  /\ checkpoint \in Nat \cup {None}
  /\ pc \in {"idle", "slice", "query", "load", "save"}
  /\ win \in [from : Nat, to : Nat, last : BOOLEAN]
  /\ asked \subseteq Devices
  /\ values \in Seq(asked)
  /\ cursor \in {Keyset(r) : r \in Feed} \cup {cursorSentinel}
  /\ rows \in Seq(source)
  /\ pc \in {"query", "load"} /\ cursor # cursorSentinel => cursor.dev \in Chunk
  /\ faults \in Nat

OnTime == Feed \ Late

Init ==
  /\ job \in Jobs
  /\ now = FirstNow
  /\ source = {r \in OnTime : r.tv <= FirstNow}
  /\ meters = FirstMeters
  /\ dest = [r \in Feed |-> 0]
  /\ checkpoint = None
  /\ pc = "idle"
  /\ win = [from |-> 0, to |-> 0, last |-> FALSE]
  /\ asked = {}
  /\ values = <<>>
  /\ cursor = cursorSentinel
  /\ rows = <<>>
  /\ faults = MaxFaults

-----------------------------------------------------------------------------
\* What goes on around the run.

Tick ==
  /\ now < MaxNow
  /\ now' = now + 1
  /\ source' = source \cup {r \in OnTime : r.tv = now + 1}
  /\ UNCHANGED <<job, meters, dest, checkpoint, pc, win, asked, values, cursor, rows, faults>>

ArriveLate(r) ==
  /\ r \notin source
  /\ r.tv < now
  /\ source' = source \cup {r}
  /\ UNCHANGED <<job, now, meters, dest, checkpoint, pc, win, asked, values, cursor, rows, faults>>

ListMeter(d) ==
  /\ d \notin meters
  /\ meters' = meters \cup {d}
  /\ UNCHANGED <<job, now, source, dest, checkpoint, pc, win, asked, values, cursor, rows, faults>>

-----------------------------------------------------------------------------

Orders(S) == {s \in [1..Cardinality(S) -> S] : \A i, k \in DOMAIN s : i # k => s[i] # s[k]}

\* Keyset order: (CURSOR_COL1, CURSOR_COL2) > (...).
Before(q, r) == q.dev < r.dev \/ (q.dev = r.dev /\ q.tv < r.tv)

Lesser(a, b) == IF a < b THEN a ELSE b

\* Where the next slice starts.
From == IF checkpoint = None THEN job.start ELSE checkpoint

\* The bound is not capped at the present.
Slice_bug == [from |-> From, to |-> From + job.step, last |-> From + job.step >= now]

\* The checkpoint plus one step, capped at the present; a slice that gets to
\* the present is the last of the run.
Slice == [from |-> From, to |-> Lesser(From + job.step, now), last |-> From + job.step >= now]

Idle == pc' = "idle" /\ rows' = <<>> /\ values' = <<>> /\ asked' = {}

Fault == faults > 0 /\ faults' = faults - 1

\* A run starts, or goes on to its next slice: applyDateRangeWindow, then
\* loadFilterValues.  No value, nothing to load.
StartSlice(order) ==
  /\ win' = Slice
  /\ asked' = meters
  /\ values' = order
  /\ cursor' = cursorSentinel
  /\ pc' = IF meters = {} THEN "save" ELSE "query"
  /\ UNCHANGED <<world, dest, checkpoint, rows, faults>>

StartRun == pc = "idle" /\ \E order \in Orders(meters) : StartSlice(order)

NextSlice == pc = "slice" /\ \E order \in Orders(meters) : StartSlice(order)

\* The last chunk forgotten when it is not a full one.
Remaining_bug ==
  IF Len(values) < 2 * job.chunk THEN <<>> ELSE SubSeq(values, job.chunk + 1, Len(values))

Remaining == SubSeq(values, job.chunk + 1, Len(values))

\* The rows source_query asks for, in its own bounds.
Wanted ==
  {r \in source : r.dev \in Chunk /\ win.from <= r.tv /\ r.tv < win.to
                  /\ (job.paged => Before(cursor, r))}

\* One page: the first job.page of them in keyset order, in which rows with one key
\* come in any order; all of them, in any order, when the job is not paginated.
Pages(R) ==
  IF ~job.paged THEN Orders(R)
  ELSE {s \in UNION {Orders(P) : P \in SUBSET R} :
          /\ Len(s) = Lesser(job.page, Cardinality(R))
          /\ \A i, k \in DOMAIN s : i < k => ~Before(s[k], s[i])
          /\ \A q \in R, i \in DOMAIN s :
               Before(q, s[i]) => \E k \in DOMAIN s : s[k] = q}

\* The cursor kept over the end of the chunk.
ChunkDone_bug ==
  /\ values' = Remaining
  /\ UNCHANGED cursor
  /\ pc' = IF Remaining = <<>> THEN "save" ELSE "query"

ChunkDone ==
  /\ values' = Remaining
  /\ cursor' = cursorSentinel
  /\ pc' = IF Remaining = <<>> THEN "save" ELSE "query"

\* openFilteredRowSource: an empty page means that the chunk is drained.
OpenQuery ==
  /\ pc = "query"
  /\ rows' \in Pages(Wanted)
  /\ IF rows' = <<>> THEN ChunkDone ELSE pc' = "load" /\ UNCHANGED <<values, cursor>>
  /\ UNCHANGED <<world, dest, checkpoint, win, asked, faults>>

\* loadBatch commits one batch; after the last one of the result the next page
\* or the next chunk follows.
LoadBatch ==
  LET n == Lesser(job.batch, Len(rows)) IN
  /\ pc = "load"
  /\ dest' = [r \in Feed |-> IF \E i \in 1..n : rows[i] = r THEN dest[r] + 1 ELSE dest[r]]
  /\ \/ /\ rows' = SubSeq(rows, n + 1, Len(rows))
        /\ \/ n < Len(rows) /\ UNCHANGED <<pc, values, cursor>>
           \/ n = Len(rows) /\ job.paged /\ cursor' = Keyset(rows[n]) /\ pc' = "query" /\ UNCHANGED values
           \/ n = Len(rows) /\ ~job.paged /\ ChunkDone
        /\ UNCHANGED <<asked, faults>>
     \/ Idle /\ Fault /\ UNCHANGED cursor
  /\ UNCHANGED <<world, checkpoint, win>>

\* saveRangeCheckpoint, once the whole slice has succeeded.  A lost answer
\* fails the run although the checkpoint is there.
SaveCheckpoint ==
  /\ pc = "save"
  /\ checkpoint' = win.to
  /\ \/ win.last /\ Idle /\ UNCHANGED faults
     \/ ~win.last /\ pc' = "slice" /\ UNCHANGED <<rows, values, asked, faults>>
     \/ Idle /\ Fault
  /\ UNCHANGED <<world, dest, win, cursor>>

\* The source or a write fails, the run is stopped or times out, or the process
\* dies: the checkpoint stays where it was.
Break ==
  /\ pc # "idle"
  /\ Idle
  /\ Fault
  /\ UNCHANGED <<world, dest, checkpoint, win, cursor>>

RunStep == NextSlice \/ OpenQuery \/ LoadBatch \/ SaveCheckpoint

Next ==
  \/ Tick
  \/ \E r \in Late : ArriveLate(r)
  \/ \E d \in Devices : ListMeter(d)
  \/ StartRun
  \/ NextSlice
  \/ OpenQuery
  \/ LoadBatch
  \/ SaveCheckpoint
  \/ Break

Spec == Init /\ [][Next]_vars

\* The clock goes on, the job is triggered again and again, and a run goes on
\* until it ends.
FairSpec == Spec /\ WF_vars(Tick) /\ WF_vars(StartRun) /\ WF_vars(RunStep)

-----------------------------------------------------------------------------

InRange(r, from, to) == from <= r.tv /\ r.tv < to

\* What accounts for a reading: itself or, in a paginated job, another reading with
\* its key.  The cursor goes behind the key of the last row of a page, and with it
\* behind the rows with that key that the page had no room for.
StandFor(r) == {q \in source : q = r \/ (job.paged /\ Keyset(q) = Keyset(r))}

\* No reading that came in time, of a meter listed from the start, lies behind
\* the checkpoint without being in the destination (or, in a paginated job, some
\* reading with its key): a slice that failed is repeated and never skipped.
\* Slices, chunks and pages do not overlap: a row is loaded twice only when the
\* slice it is in was repeated after a failure.
NothingSkipped ==
  /\ \A r \in source \ Late :
       r.dev \in FirstMeters /\ checkpoint # None /\ InRange(r, job.start, checkpoint)
         => \E q \in StandFor(r) : dest[q] > 0
  /\ \A r \in Feed : dest[r] <= 1 + (MaxFaults - faults)

\* Pages lose nothing: every reading behind the checkpoint is in the destination.
\* It holds as long as no two readings have one key; EtlRange_bad_ties shows a page
\* that ends among the readings of one.
PagesLoadAll ==
  \A r \in source \ Late :
    r.dev \in FirstMeters /\ checkpoint # None /\ InRange(r, job.start, checkpoint) => dest[r] > 0

\* The job gets to the present: every reading that comes in time, before the
\* last second of the clock, or one that stands for it, gets to the destination,
\* if range_step_seconds is positive.  (With 0, a run reads one empty slice over
\* and over.)
CatchesUp ==
  \A r \in OnTime :
    job.step > 0 /\ r.dev \in FirstMeters /\ InRange(r, job.start, MaxNow)
      => <>(\E q \in StandFor(r) : dest[q] > 0)

==============================================================================
