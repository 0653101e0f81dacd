------------------------------ MODULE EtlEngine ------------------------------
(***************************************************************************)
(* The ETL engine of internal/etl/engine.go: one scheduling goroutine per  *)
(* enabled job, a bounded dispatch channel, a pool of workers, manual runs *)
(* (TriggerNow), Stop (Cancel), the reload loop that follows the           *)
(* app.etl_jobs table, and the run history in app.etl_job_runs.            *)
(*                                                                         *)
(* What a run extracts and loads is in EtlLoad and EtlRange; here a run is *)
(* an interval with an outcome.  Everything below "Engine memory" is lost  *)
(* when the process stops; the two tables survive.                         *)
(***************************************************************************)
EXTENDS Naturals, Sequences, FiniteSets

CONSTANTS
  Jobs,        \* ids of app.etl_jobs rows
  NoJob,       \* "no job", for a thread that holds none
  Workers,     \* worker goroutines, Engine.workers of them
  Triggers,    \* goroutines serving TriggerNow requests
  Slots,       \* bound: scheduling goroutines of one job alive at a time
  DispatchCap, \* capacity of the dispatch channel
  TimedValues, \* what an edit may put in trigger_times: TRUE a valid,
               \*   non-empty list, FALSE an empty one ("manual-only")
  MaxRuns,     \* bound: rows ever inserted in app.etl_job_runs
  MaxFires,    \* bound: timer firings
  MaxManual,   \* bound: "Run now" requests
  MaxEdits,    \* bound: creations, updates and deletions of jobs
  MaxCrashes   \* bound: process stops

Threads == Workers \cup Triggers
RunIds  == 1..MaxRuns
NoRun   == 0
NoSlot  == 0

ASSUME ConstantsAssumption ==
  /\ NoJob \notin Jobs
  /\ Workers \cap Triggers = {}
  /\ Slots \subseteq Nat \ {0}
  /\ DispatchCap \in Nat \ {0}
  /\ TimedValues \subseteq BOOLEAN
  /\ {MaxRuns, MaxFires, MaxManual, MaxEdits, MaxCrashes} \subseteq Nat
  /\ MaxFires + MaxManual <= MaxRuns   \* so MaxRuns never refuses an insert

VARIABLES
  \* Tables
  jobRow,      \* app.etl_jobs, as far as scheduling looks at it
  runRow,      \* app.etl_job_runs
  nextRun,     \* its id sequence
  \* Engine memory
  jobsByID,    \* the cached rows: "timed", "manual", or "absent"
  cancelFuncs, \* job -> the scheduling goroutine its cancel func stops
  sched,       \* the scheduling goroutines
  reloading,   \* the reload loop: the rows it has read, not applied yet
  dispatch,    \* the channel of jobs waiting for a worker
  running,     \* jobs with a run in flight (the overlap guard)
  runCancels,  \* runs whose cancel func is registered
  thread,      \* workers and TriggerNow goroutines
  \* What the operator and the history of the system know
  stop,        \* Cancel calls: "found" its func, "sent" the cancellation
  orphaned,    \* runs that nothing will ever record the end of
  budget       \* events left to happen, one counter per bound

tables  == <<jobRow, runRow, nextRun>>
planner == <<jobsByID, cancelFuncs, sched, reloading>>
vars    == <<jobRow, runRow, nextRun, jobsByID, cancelFuncs, sched, reloading,
             dispatch, running, runCancels, thread, stop, orphaned, budget>>

-----------------------------------------------------------------------------
(* Types *)

JobStates == {"none", "enabled", "disabled", "deleted"}
Terminal  == {"success", "failed", "cancelled"}
Cached    == {"absent", "manual", "timed"}

\* Steps of runOnce and of TriggerNow, in order.
Steps == {"idle", "lock", "source", "insert", "register", "exec",
          "record", "finish", "unregister", "unlock"}

Thread == [pc: Steps, job: Jobs \cup {NoJob}, run: RunIds \cup {NoRun},
           ctx: {"live", "canceled", "deadline"},
           out: {"none", "ok", "broke", "interrupted"} \cup Terminal]

Goroutine == [pc: {"idle", "get", "wait", "send"}, done: BOOLEAN]

TablesOK ==
  /\ jobRow \in [Jobs -> [state: JobStates, timed: BOOLEAN]]
  /\ runRow \in [RunIds -> [job: Jobs \cup {NoJob},
                            status: {"none", "running", "deleted"} \cup Terminal]]
  /\ nextRun \in 1..(MaxRuns + 1)

PlannerOK ==
  /\ jobsByID \in [Jobs -> Cached]
  /\ cancelFuncs \in [Jobs -> Slots \cup {NoSlot}]
  /\ sched \in [Jobs -> [Slots -> Goroutine]]
  /\ reloading \in [pc: {"idle", "apply"}, rows: [Jobs -> Cached]]

RunsOK ==
  /\ dispatch \in Seq(Jobs)
  /\ running \subseteq Jobs
  /\ runCancels \subseteq RunIds

ThreadsOK == thread \in [Threads -> Thread]

HistoryOK ==
  /\ stop \in [RunIds -> {"none", "found", "sent"}]
  /\ orphaned \subseteq RunIds
  /\ budget \in [fires: Nat, manual: Nat, edits: Nat, crashes: Nat]

\* The values of the variables: in particular, a run gets no status in the
\* history but success, failed and cancelled.
TypeOK == TablesOK /\ PlannerOK /\ RunsOK /\ ThreadsOK /\ HistoryOK

IdleThread    == [pc |-> "idle", job |-> NoJob, run |-> NoRun,
                  ctx |-> "live", out |-> "none"]
Starting(j)   == [pc |-> "lock", job |-> j, run |-> NoRun,
                  ctx |-> "live", out |-> "none"]
IdleGoroutine == [pc |-> "idle", done |-> FALSE]
NothingRead   == [pc |-> "idle", rows |-> [j \in Jobs |-> "absent"]]

Present(j)   == jobRow[j].state \in {"enabled", "disabled"}

\* The threads between a successful tryLock and their unlock.
Holding(t)   == thread[t].pc \notin {"idle", "lock"}

\* The threads whose run has a row and no recorded end yet.
Carrying(t)  == thread[t].pc \in {"register", "exec", "record", "finish"}

\* The rows of the enabled jobs, as the reload query returns them.
EnabledRows ==
  [j \in Jobs |-> IF jobRow[j].state # "enabled" THEN "absent"
                  ELSE IF jobRow[j].timed THEN "timed" ELSE "manual"]

\* The memory of an engine that has just started.
Fresh == [jobsByID    |-> [j \in Jobs |-> "absent"],
          cancelFuncs |-> [j \in Jobs |-> NoSlot],
          sched       |-> [j \in Jobs |-> [g \in Slots |-> IdleGoroutine]],
          thread      |-> [t \in Threads |-> IdleThread]]

Init ==
  /\ jobRow \in [Jobs -> [state: {"none", "enabled", "disabled"}, timed: TimedValues]]
  /\ runRow = [r \in RunIds |-> [job |-> NoJob, status |-> "none"]]
  /\ nextRun = 1
  /\ jobsByID = Fresh.jobsByID
  /\ cancelFuncs = Fresh.cancelFuncs
  /\ sched = Fresh.sched
  /\ reloading = NothingRead
  /\ dispatch = <<>>
  /\ running = {}
  /\ runCancels = {}
  /\ thread = Fresh.thread
  /\ stop = [r \in RunIds |-> "none"]
  /\ orphaned = {}
  /\ budget = [fires |-> MaxFires, manual |-> MaxManual,
               edits |-> MaxEdits, crashes |-> MaxCrashes]

-----------------------------------------------------------------------------
(* The reload loop.  Its two queries and its critical section are separate *)
(* steps: what it applies may already be out of date.  A failing query     *)
(* changes nothing and is left out.                                        *)

ReloadRead ==
  /\ reloading.pc = "idle"
  /\ reloading' = [pc |-> "apply", rows |-> EnabledRows]
  /\ UNCHANGED <<tables, jobsByID, cancelFuncs, sched, dispatch, running,
                 runCancels, thread, stop, orphaned, budget>>

FreeSlots(j) == {g \in Slots : sched[j][g].pc = "idle"}
NewSlot(j)   == CHOOSE g \in FreeSlots(j) : TRUE

\* Faulty variants of definitions have the suffix _bug and stand before the
\* definition they vary; no action uses them.
ToStart_bug == {j \in Jobs : reloading.rows[j] # "absent"}
ToStop_bug  == {}

ToStart == {j \in Jobs : reloading.rows[j] # "absent" /\ cancelFuncs[j] = NoSlot}
ToStop  == {j \in Jobs : reloading.rows[j] = "absent" /\ cancelFuncs[j] # NoSlot}

\* The critical section: start a goroutine for each newly enabled job,
\* cancel the goroutine of each job no longer there, replace the cache.
ReloadApply ==
  /\ reloading.pc = "apply"
  /\ \A j \in ToStart : FreeSlots(j) # {}
  /\ jobsByID' = reloading.rows
  /\ cancelFuncs' = [j \in Jobs |-> IF j \in ToStart THEN NewSlot(j)
                                    ELSE IF j \in ToStop THEN NoSlot
                                    ELSE cancelFuncs[j]]
  /\ sched' = [j \in Jobs |-> [g \in Slots |->
       IF j \in ToStart /\ g = NewSlot(j) THEN [pc |-> "get", done |-> FALSE]
       ELSE IF j \in ToStop /\ g = cancelFuncs[j] THEN [sched[j][g] EXCEPT !.done = TRUE]
       ELSE sched[j][g]]]
  /\ reloading' = NothingRead
  /\ UNCHANGED <<tables, dispatch, running, runCancels, thread, stop, orphaned, budget>>

-----------------------------------------------------------------------------
(* A scheduling goroutine: read the job, wait for the next trigger time,   *)
(* read it again, put a copy on the channel.                               *)

SchedVars == <<tables, jobsByID, cancelFuncs, reloading, running, runCancels,
               thread, stop, orphaned>>

\* A manual-only job, or one that is gone, ends the goroutine for good.
SchedGet(j, g) ==
  /\ sched[j][g].pc = "get"
  /\ sched' = IF jobsByID[j] = "timed" THEN [sched EXCEPT ![j][g].pc = "wait"]
              ELSE [sched EXCEPT ![j][g] = IdleGoroutine]
  /\ UNCHANGED <<SchedVars, dispatch, budget>>

\* The select may take the timer even if the context is cancelled too.
SchedFire(j, g) ==
  /\ sched[j][g].pc = "wait"
  /\ budget.fires > 0
  /\ budget' = [budget EXCEPT !.fires = @ - 1]
  /\ sched' = IF jobsByID[j] # "absent" THEN [sched EXCEPT ![j][g].pc = "send"]
              ELSE [sched EXCEPT ![j][g] = IdleGoroutine]
  /\ UNCHANGED <<SchedVars, dispatch>>

SchedSend(j, g) ==
  /\ sched[j][g].pc = "send"
  /\ Len(dispatch) < DispatchCap
  /\ dispatch' = Append(dispatch, j)
  /\ sched' = [sched EXCEPT ![j][g].pc = "get"]
  /\ UNCHANGED <<SchedVars, budget>>

SchedStop(j, g) ==
  /\ sched[j][g].pc \in {"wait", "send"}
  /\ sched[j][g].done
  /\ sched' = [sched EXCEPT ![j][g] = IdleGoroutine]
  /\ UNCHANGED <<SchedVars, dispatch, budget>>

-----------------------------------------------------------------------------
(* A run, scheduled (runOnce, on a worker) or manual (TriggerNow).  Both   *)
(* take the same steps in the same order; they differ in how they start.   *)

\* A worker receives a job copy, however old, from the channel.
Take(w) ==
  /\ thread[w].pc = "idle"
  /\ dispatch # <<>>
  /\ thread' = [thread EXCEPT ![w] = Starting(Head(dispatch))]
  /\ dispatch' = Tail(dispatch)
  /\ UNCHANGED <<tables, planner, running, runCancels, stop, orphaned, budget>>

\* TriggerNow reads the job from the table, enabled or not.
TriggerLoad(t, j) ==
  /\ thread[t].pc = "idle"
  /\ Present(j)
  /\ budget.manual > 0
  /\ budget' = [budget EXCEPT !.manual = @ - 1]
  /\ thread' = [thread EXCEPT ![t] = Starting(j)]
  /\ UNCHANGED <<tables, planner, dispatch, running, runCancels, stop, orphaned>>

\* The overlap guard forgotten.
TryLock_bug(t) ==
  /\ thread[t].pc = "lock"
  /\ thread' = [thread EXCEPT ![t].pc = "source"]
  /\ running' = running \cup {thread[t].job}
  /\ UNCHANGED <<tables, planner, dispatch, runCancels, stop, orphaned, budget>>

\* A trigger that finds the job locked is skipped (scheduled) or refused (manual).
TryLock(t) ==
  /\ thread[t].pc = "lock"
  /\ IF thread[t].job \in running
       THEN /\ thread' = [thread EXCEPT ![t] = IdleThread]
            /\ UNCHANGED running
       ELSE /\ thread' = [thread EXCEPT ![t].pc = "source"]
            /\ running' = running \cup {thread[t].job}
  /\ UNCHANGED <<tables, planner, dispatch, runCancels, stop, orphaned, budget>>

\* The early return without its unlock.
OpenSource_bug(t) ==
  /\ thread[t].pc = "source"
  /\ \E next \in {"insert", "idle"} : thread' = [thread EXCEPT ![t].pc = next]
  /\ UNCHANGED <<tables, planner, dispatch, running, runCancels, stop, orphaned, budget>>

\* The source is unknown, cannot be decrypted or opened: give up, no run row.
OpenSource(t) ==
  /\ thread[t].pc = "source"
  /\ \E next \in {"insert", "unlock"} : thread' = [thread EXCEPT ![t].pc = next]
  /\ UNCHANGED <<tables, planner, dispatch, running, runCancels, stop, orphaned, budget>>

\* The insert fails on the foreign key if the job has been deleted, and may
\* fail at any time: before it commits, or after, when only its answer is lost
\* (TriggerNow inserts under the context of the HTTP request).
InsertRunStarted(t) ==
  /\ thread[t].pc = "insert"
  /\ \/ /\ Present(thread[t].job)
        /\ nextRun \in RunIds
        /\ runRow' = [runRow EXCEPT ![nextRun] = [job |-> thread[t].job, status |-> "running"]]
        /\ thread' = [thread EXCEPT ![t].pc = "register", ![t].run = nextRun]
        /\ nextRun' = nextRun + 1
        /\ UNCHANGED orphaned
     \/ /\ Present(thread[t].job)
        /\ nextRun \in RunIds
        /\ runRow' = [runRow EXCEPT ![nextRun] = [job |-> thread[t].job, status |-> "running"]]
        /\ orphaned' = orphaned \cup {nextRun}
        /\ nextRun' = nextRun + 1
        /\ thread' = [thread EXCEPT ![t].pc = "unlock"]
     \/ /\ thread' = [thread EXCEPT ![t].pc = "unlock"]
        /\ UNCHANGED <<runRow, nextRun, orphaned>>
  /\ UNCHANGED <<jobRow, planner, dispatch, running, runCancels, stop, budget>>

RegisterRunCancel(t) ==
  /\ thread[t].pc = "register"
  /\ runCancels' = runCancels \cup {thread[t].run}
  /\ thread' = [thread EXCEPT ![t].pc = "exec"]
  /\ UNCHANGED <<tables, planner, dispatch, running, stop, orphaned, budget>>

\* extractAndLoad returns: with no error, with an error of its own, or with
\* the error of its cancelled or expired context.
Extract(t) ==
  /\ thread[t].pc = "exec"
  /\ \E out \in {"ok", IF thread[t].ctx = "live" THEN "broke" ELSE "interrupted"} :
       thread' = [thread EXCEPT ![t].pc = "record", ![t].out = out]
  /\ UNCHANGED <<tables, planner, dispatch, running, runCancels, stop, orphaned, budget>>

Timeout(t) ==
  /\ thread[t].pc \in {"exec", "record"}
  /\ thread[t].ctx = "live"
  /\ thread' = [thread EXCEPT ![t].ctx = "deadline"]
  /\ UNCHANGED <<tables, planner, dispatch, running, runCancels, stop, orphaned, budget>>

\* Any end of the context taken for a Stop.
DecideStatus_bug(t) ==
  /\ thread[t].pc = "record"
  /\ thread' = [thread EXCEPT ![t].pc = "finish",
                  ![t].out = IF @ = "ok" THEN "success"
                             ELSE IF thread[t].ctx # "live" THEN "cancelled" ELSE "failed"]
  /\ UNCHANGED <<tables, planner, dispatch, running, runCancels, stop, orphaned, budget>>

\* A failure with no status of its own.
DecideStatus_bug2(t) ==
  /\ thread[t].pc = "record"
  /\ thread' = [thread EXCEPT ![t].pc = "finish",
                  ![t].out = IF @ = "ok" THEN "success"
                             ELSE IF thread[t].ctx = "canceled" THEN "cancelled" ELSE @]
  /\ UNCHANGED <<tables, planner, dispatch, running, runCancels, stop, orphaned, budget>>

\* The status to record is chosen by looking at the context after the fact.
DecideStatus(t) ==
  /\ thread[t].pc = "record"
  /\ thread' = [thread EXCEPT ![t].pc = "finish",
                  ![t].out = IF @ = "ok" THEN "success"
                             ELSE IF thread[t].ctx = "canceled" THEN "cancelled" ELSE "failed"]
  /\ UNCHANGED <<tables, planner, dispatch, running, runCancels, stop, orphaned, budget>>

\* The result written under the context of the run, which may have ended.
FinishRun_bug(t) ==
  /\ thread[t].pc = "finish"
  /\ runRow' = IF thread[t].ctx # "live" THEN runRow
               ELSE [runRow EXCEPT ![thread[t].run].status = thread[t].out]
  /\ thread' = [thread EXCEPT ![t].pc = "unregister"]
  /\ UNCHANGED <<jobRow, nextRun, planner, dispatch, running, runCancels, stop, orphaned, budget>>

\* The result written as an upsert, which brings a deleted row back.
FinishRun_bug2(t) ==
  /\ thread[t].pc = "finish"
  /\ runRow' = [runRow EXCEPT ![thread[t].run].status = thread[t].out]
  /\ thread' = [thread EXCEPT ![t].pc = "unregister"]
  /\ UNCHANGED <<jobRow, nextRun, planner, dispatch, running, runCancels, stop, orphaned, budget>>

\* finishRun updates by id: no row if the job has been deleted meanwhile.
\* If the update fails the error is logged and the row stays "running".
FinishRun(t) ==
  /\ thread[t].pc = "finish"
  /\ LET r == thread[t].run IN
       \/ /\ runRow' = IF runRow[r].status = "deleted" THEN runRow
                       ELSE [runRow EXCEPT ![r].status = thread[t].out]
          /\ UNCHANGED orphaned
       \/ /\ orphaned' = orphaned \cup {r}
          /\ UNCHANGED runRow
  /\ thread' = [thread EXCEPT ![t].pc = "unregister"]
  /\ UNCHANGED <<jobRow, nextRun, planner, dispatch, running, runCancels, stop, budget>>

\* The cancel func left registered.
UnregisterRunCancel_bug(t) ==
  /\ thread[t].pc = "unregister"
  /\ thread' = [thread EXCEPT ![t].pc = "unlock", ![t].run = NoRun]
  /\ UNCHANGED <<tables, planner, dispatch, running, runCancels, stop, orphaned, budget>>

UnregisterRunCancel(t) ==
  /\ thread[t].pc = "unregister"
  /\ runCancels' = runCancels \ {thread[t].run}
  /\ thread' = [thread EXCEPT ![t].pc = "unlock", ![t].run = NoRun]
  /\ UNCHANGED <<tables, planner, dispatch, running, stop, orphaned, budget>>

Unlock(t) ==
  /\ thread[t].pc = "unlock"
  /\ running' = running \ {thread[t].job}
  /\ thread' = [thread EXCEPT ![t] = IdleThread]
  /\ UNCHANGED <<tables, planner, dispatch, runCancels, stop, orphaned, budget>>

RunStep(t) ==
  \/ TryLock(t) \/ OpenSource(t) \/ InsertRunStarted(t) \/ RegisterRunCancel(t)
  \/ Extract(t) \/ DecideStatus(t) \/ FinishRun(t) \/ UnregisterRunCancel(t) \/ Unlock(t)

-----------------------------------------------------------------------------
(* Stop.  The cancel func is looked up under the mutex and called after    *)
(* it is released.  A Cancel that finds nothing only returns an error.     *)

CancelLookup(r) ==
  /\ r \in runCancels
  /\ stop[r] = "none"
  /\ stop' = [stop EXCEPT ![r] = "found"]
  /\ UNCHANGED <<tables, planner, dispatch, running, runCancels, thread, orphaned, budget>>

CancelCall(r) ==
  /\ stop[r] = "found"
  /\ stop' = [stop EXCEPT ![r] = "sent"]
  /\ thread' = [t \in Threads |->
       IF thread[t].run = r /\ thread[t].ctx = "live"
         THEN [thread[t] EXCEPT !.ctx = "canceled"] ELSE thread[t]]
  /\ UNCHANGED <<tables, planner, dispatch, running, runCancels, orphaned, budget>>

-----------------------------------------------------------------------------
(* The admin API (service.go) and the process itself. *)

AdminVars == <<nextRun, planner, dispatch, running, runCancels, thread, stop, orphaned>>

SpendEdit == budget.edits > 0 /\ budget' = [budget EXCEPT !.edits = @ - 1]

\* A new job gets a fresh uuid: ids are never reused.
CreateJob(j) ==
  /\ jobRow[j].state = "none"
  /\ \E s \in {"enabled", "disabled"}, timed \in TimedValues :
       jobRow' = [jobRow EXCEPT ![j] = [state |-> s, timed |-> timed]]
  /\ SpendEdit
  /\ UNCHANGED <<AdminVars, runRow>>

UpdateJob(j) ==
  /\ Present(j)
  /\ \E s \in {"enabled", "disabled"}, timed \in TimedValues :
       jobRow' = [jobRow EXCEPT ![j] = [state |-> s, timed |-> timed]]
  /\ SpendEdit
  /\ UNCHANGED <<AdminVars, runRow>>

\* The run history goes with the job (ON DELETE CASCADE).
DeleteJob(j) ==
  /\ Present(j)
  /\ jobRow' = [jobRow EXCEPT ![j].state = "deleted"]
  /\ runRow' = [r \in RunIds |-> IF runRow[r].job = j
                                   THEN [runRow[r] EXCEPT !.status = "deleted"] ELSE runRow[r]]
  /\ SpendEdit
  /\ UNCHANGED AdminVars

\* The process stops, cleanly or not, and a new one starts.
Crash ==
  /\ budget.crashes > 0
  /\ budget' = [budget EXCEPT !.crashes = @ - 1]
  /\ orphaned' = orphaned \cup {thread[t].run : t \in {u \in Threads : Carrying(u)}}
  /\ stop' = [r \in RunIds |-> IF stop[r] = "found" THEN "none" ELSE stop[r]]
  /\ jobsByID' = Fresh.jobsByID
  /\ cancelFuncs' = Fresh.cancelFuncs
  /\ sched' = Fresh.sched
  /\ reloading' = NothingRead
  /\ dispatch' = <<>>
  /\ running' = {}
  /\ runCancels' = {}
  /\ thread' = Fresh.thread
  /\ UNCHANGED tables

-----------------------------------------------------------------------------

SchedStep(j, g) ==
  SchedGet(j, g) \/ SchedFire(j, g) \/ SchedSend(j, g) \/ SchedStop(j, g)

Next ==
  \/ ReloadRead
  \/ ReloadApply
  \/ \E j \in Jobs, g \in Slots : SchedStep(j, g)
  \/ \E w \in Workers : Take(w)
  \/ \E t \in Triggers, j \in Jobs : TriggerLoad(t, j)
  \/ \E t \in Threads : RunStep(t) \/ Timeout(t)
  \/ \E r \in RunIds : CancelLookup(r) \/ CancelCall(r)
  \/ \E j \in Jobs : CreateJob(j) \/ UpdateJob(j) \/ DeleteJob(j)
  \/ Crash

Spec == Init /\ [][Next]_vars

\* The runtime keeps every goroutine going, the reload ticker keeps ticking,
\* and every extract ends because its context has a timeout.  Nothing is
\* assumed of administrators, operators, timers or crashes.
Fairness ==
  /\ WF_vars(ReloadRead)
  /\ WF_vars(ReloadApply)
  /\ \A j \in Jobs, g \in Slots :
       /\ WF_vars(SchedGet(j, g))
       /\ WF_vars(SchedSend(j, g))
       /\ WF_vars(SchedStop(j, g))
  /\ \A w \in Workers : WF_vars(Take(w))
  /\ \A t \in Threads : WF_vars(RunStep(t))

FairSpec == Spec /\ Fairness

-----------------------------------------------------------------------------
(* Safety *)

\* No two runs of one job are in flight at once, whether scheduled or manual
\* (the overlap guard, tryLock/unlock).
OneRunPerJob ==
  \A t, u \in Threads :
    Holding(t) /\ Holding(u) /\ thread[t].job = thread[u].job => t = u

\* A locked job is locked by a run that is still there to unlock it, on every
\* path out of runOnce and TriggerNow: a leaked lock would refuse the job
\* until a restart.
NoLeakedLock ==
  \A j \in running : \E t \in Threads : Holding(t) /\ thread[t].job = j

\* A row that says "running" belongs to a run in flight of that job, unless the
\* process stopped, or a write to the row failed, in between.
RunningRowIsLive ==
  \A r \in RunIds \ orphaned : runRow[r].status = "running" =>
    \E t \in Threads : Carrying(t) /\ thread[t].run = r /\ thread[t].job = runRow[r].job

\* A registered cancel func is that of exactly one run in flight, so Stop never
\* reaches another run and never succeeds on one that has returned.
StopReachesOneRun ==
  \A r \in runCancels : \E t \in Threads :
    /\ thread[t].run = r
    /\ \A u \in Threads \ {t} : thread[u].run # r

\* Each job has at most one scheduling goroutine that has not been told to stop:
\* the one cancelFuncs stops.  The cache and cancelFuncs agree on which jobs
\* there are.
OneScheduler ==
  \A j \in Jobs :
    /\ jobsByID[j] = "absent" <=> cancelFuncs[j] = NoSlot
    /\ \A g \in Slots : sched[j][g].pc # "idle" /\ ~sched[j][g].done => cancelFuncs[j] = g

\* "cancelled" in the history means that an operator stopped the run: never a
\* timeout, never a stop of another run.
CancelledWasStopped ==
  \A r \in RunIds : runRow[r].status = "cancelled" => stop[r] = "sent"

\* The run history is the one RunLedger describes, whatever the threads do.
Ledger == INSTANCE RunLedger
            WITH live <- {thread[t].run : t \in {u \in Threads : Carrying(u)}}
RunHistory == Ledger!LedgerSpec

-----------------------------------------------------------------------------
(* Liveness, under Fairness *)

\* A job that is locked is unlocked again: no path leaves it refused for ever.
LockReleased == \A j \in Jobs : j \in running ~> j \notin running

\* A job that stays disabled (or deleted) ends up with no scheduling goroutine,
\* no copy on the channel and no worker running it.
DisabledEventuallyStops ==
  \A j \in Jobs :
    <>[](jobRow[j].state # "enabled") =>
      <>[](/\ \A g \in Slots : sched[j][g].pc = "idle"
           /\ \A i \in 1..Len(dispatch) : dispatch[i] # j
           /\ \A w \in Workers : thread[w].job # j)

\* A job that stays enabled with trigger times ends up with a goroutine that
\* schedules it.  It holds as long as a job is never without trigger times while
\* it is enabled (etl_live): TimedValues = {TRUE}.  With {TRUE, FALSE} it is what
\* engine.go:101-104 says and the code does not do (etl_bad_edit).
Scheduled(j) == \E g \in Slots : sched[j][g].pc # "idle" /\ ~sched[j][g].done
TimedJobIsScheduled ==
  \A j \in Jobs :
    <>[](jobRow[j].state = "enabled" /\ jobRow[j].timed) => <>[]Scheduled(j)

==============================================================================
