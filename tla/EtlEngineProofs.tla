--------------------------- MODULE EtlEngineProofs ---------------------------
(***************************************************************************)
(* Theorems about EtlEngine, for any jobs, threads, channel capacity and   *)
(* bounds.  Types come first; every later invariant is proved on top.      *)
(***************************************************************************)
EXTENDS EtlEngine, TLAPS

\* What the program counter of a thread says of its other fields.
Shape(th) ==
  /\ th.pc # "idle" => th.job \in Jobs
  /\ th.pc \in {"register", "exec", "record", "finish", "unregister"} => th.run \in RunIds
  /\ th.pc = "record" => th.out \in {"ok", "broke", "interrupted"}
  /\ th.pc = "finish" => th.out \in Terminal

ThreadShape == \A t \in Threads : Shape(thread[t])

TypeInv == TypeOK /\ ThreadShape

-----------------------------------------------------------------------------
(* Types *)

\* Init establishes the types.
LEMMA InitTypes == Init => TypeInv
  <1> SUFFICES ASSUME Init PROVE TypeInv
    OBVIOUS
  <1> USE DEF Init, Fresh, NoSlot
  <1>1. TablesOK
    BY ConstantsAssumption DEF TablesOK, JobStates, RunIds
  <1>2. PlannerOK
    BY DEF PlannerOK, Cached, IdleGoroutine, Goroutine, NothingRead
  <1>3. RunsOK
    BY DEF RunsOK
  <1>4. ThreadsOK /\ ThreadShape
    BY DEF ThreadsOK, ThreadShape, Shape, Thread, Steps, IdleThread, NoRun
  <1>5. HistoryOK
    BY ConstantsAssumption DEF HistoryOK
  <1>6. QED
    BY <1>1, <1>2, <1>3, <1>4, <1>5 DEF TypeInv, TypeOK

\* What a thread is set to decides its type and its shape.
LEMMA SetThread ==
  ASSUME NEW t \in Threads, NEW th \in Thread, Shape(th), ThreadsOK, ThreadShape,
         thread' = [thread EXCEPT ![t] = th]
  PROVE  ThreadsOK' /\ ThreadShape'
  BY DEF ThreadsOK, ThreadShape

\* Threads and goroutines with some of their fields changed.
LEMMA Fields ==
  /\ \A th \in Thread, p \in Steps, r \in RunIds \cup {NoRun} :
       [th EXCEPT !.pc = p, !.run = r] \in Thread
  /\ \A th \in Thread, p \in Steps, o \in Terminal : [th EXCEPT !.pc = p, !.out = o] \in Thread
  /\ \A h \in Goroutine, p \in {"get", "wait", "send"} : [h EXCEPT !.pc = p] \in Goroutine
  <1>1. \A th \in Thread, p \in Steps, r \in RunIds \cup {NoRun} :
          [th EXCEPT !.pc = p, !.run = r] \in Thread
    BY DEF Thread
  <1>2. \A th \in Thread, p \in Steps, o \in Terminal :
          [th EXCEPT !.pc = p, !.out = o] \in Thread
    BY DEF Thread
  <1>3. \A h \in Goroutine, p \in {"get", "wait", "send"} : [h EXCEPT !.pc = p] \in Goroutine
    BY DEF Goroutine
  <1>4. QED
    BY <1>1, <1>2, <1>3

\* The variables an action leaves alone keep their types.
LEMMA Frame ==
  /\ TablesOK /\ UNCHANGED tables => TablesOK'
  /\ PlannerOK /\ UNCHANGED planner => PlannerOK'
  /\ RunsOK /\ UNCHANGED <<dispatch, running, runCancels>> => RunsOK'
  /\ ThreadsOK /\ UNCHANGED thread => ThreadsOK'
  /\ ThreadShape /\ UNCHANGED thread => ThreadShape'
  /\ HistoryOK /\ UNCHANGED <<stop, orphaned, budget>> => HistoryOK'
  <1>1. TablesOK /\ UNCHANGED tables => TablesOK'
    BY DEF TablesOK, tables
  <1>2. PlannerOK /\ UNCHANGED planner => PlannerOK'
    BY DEF PlannerOK, planner
  <1>3. RunsOK /\ UNCHANGED <<dispatch, running, runCancels>> => RunsOK'
    BY DEF RunsOK
  <1>4. ThreadsOK /\ UNCHANGED thread => ThreadsOK'
    BY DEF ThreadsOK
  <1>5. ThreadShape /\ UNCHANGED thread => ThreadShape'
    BY DEF ThreadShape, Shape
  <1>6. HistoryOK /\ UNCHANGED <<stop, orphaned, budget>> => HistoryOK'
    BY DEF HistoryOK
  <1>7. QED
    BY <1>1, <1>2, <1>3, <1>4, <1>5, <1>6

LEMMA ReloadTypes ==
  ASSUME TypeInv, ReloadRead \/ ReloadApply PROVE TypeInv'
  <1> USE DEF TypeInv, TypeOK
  <1>1. CASE ReloadRead
    <2>1. EnabledRows \in [Jobs -> Cached]
      BY DEF EnabledRows, Cached
    <2>2. PlannerOK'
      BY <1>1, <2>1 DEF ReloadRead, PlannerOK
    <2>3. QED
      BY <1>1, <2>2, Frame DEF ReloadRead
  <1>2. CASE ReloadApply
    <2>1. ASSUME NEW j \in ToStart PROVE NewSlot(j) \in Slots
      BY <1>2, <2>1 DEF ReloadApply, NewSlot, FreeSlots
    <2>2. cancelFuncs' \in [Jobs -> Slots \cup {NoSlot}]
      BY <1>2, <2>1 DEF ReloadApply, PlannerOK
    <2>3. sched' \in [Jobs -> [Slots -> Goroutine]]
      <3>1. \A h \in Goroutine : [h EXCEPT !.done = TRUE] \in Goroutine
        BY DEF Goroutine
      <3>2. [pc |-> "get", done |-> FALSE] \in Goroutine
        BY DEF Goroutine
      <3>3. \A j \in Jobs, g \in Slots : sched[j][g] \in Goroutine
        BY DEF PlannerOK
      <3>4. ASSUME NEW j \in Jobs, NEW g \in Slots PROVE sched'[j][g] \in Goroutine
        BY <1>2, <3>1, <3>2, <3>3 DEF ReloadApply
      <3>5. QED
        BY <1>2, <3>4 DEF ReloadApply
    <2>4. /\ reloading' \in [pc: {"idle", "apply"}, rows: [Jobs -> Cached]]
          /\ jobsByID' \in [Jobs -> Cached]
      BY <1>2 DEF ReloadApply, NothingRead, Cached, PlannerOK
    <2>5. PlannerOK'
      BY <2>2, <2>3, <2>4 DEF PlannerOK
    <2>6. QED
      BY <1>2, <2>5, Frame DEF ReloadApply
  <1>3. QED
    BY <1>1, <1>2

LEMMA SchedTypes ==
  ASSUME TypeInv, NEW j \in Jobs, NEW g \in Slots, SchedStep(j, g) PROVE TypeInv'
  <1> USE DEF TypeInv, TypeOK
  <1>1. \A h \in Goroutine : [sched EXCEPT ![j][g] = h] \in [Jobs -> [Slots -> Goroutine]]
    BY DEF PlannerOK
  <1>2. \A p \in {"get", "wait", "send"} :
          [sched EXCEPT ![j][g].pc = p] \in [Jobs -> [Slots -> Goroutine]]
    <2> SUFFICES ASSUME NEW p \in {"get", "wait", "send"}
                 PROVE  [sched EXCEPT ![j][g].pc = p] \in [Jobs -> [Slots -> Goroutine]]
      OBVIOUS
    <2>1. sched[j][g] \in Goroutine
      BY DEF PlannerOK
    <2>2. [sched[j][g] EXCEPT !.pc = p] \in Goroutine
      BY <2>1, Fields
    <2>3. [sched EXCEPT ![j][g].pc = p] = [sched EXCEPT ![j][g] = [sched[j][g] EXCEPT !.pc = p]]
      OBVIOUS
    <2>4. QED
      BY <1>1, <2>2, <2>3
  <1>3. sched' \in [Jobs -> [Slots -> Goroutine]]
    <2>1. IdleGoroutine \in Goroutine
      BY DEF IdleGoroutine, Goroutine
    <2>2. QED
      BY <1>1, <1>2, <2>1 DEF SchedStep, SchedGet, SchedFire, SchedSend, SchedStop
  <1>4. HistoryOK'
    BY DEF SchedStep, SchedGet, SchedFire, SchedSend, SchedStop, SchedVars, HistoryOK
  <1>5. RunsOK'
    BY DEF SchedStep, SchedGet, SchedFire, SchedSend, SchedStop, SchedVars, RunsOK
  <1>6. UNCHANGED SchedVars
    BY DEF SchedStep, SchedGet, SchedFire, SchedSend, SchedStop
  <1>7. PlannerOK'
    BY <1>3, <1>6 DEF SchedVars, PlannerOK
  <1>8. QED
    BY <1>4, <1>5, <1>6, <1>7, Frame DEF SchedVars

LEMMA StartTypes ==
  ASSUME TypeInv,
         \/ \E w \in Workers : Take(w)
         \/ \E t \in Triggers, j \in Jobs : TriggerLoad(t, j)
  PROVE  TypeInv'
  <1> USE DEF TypeInv, TypeOK
  <1>1. ASSUME NEW j \in Jobs
        PROVE  Starting(j) \in Thread /\ Shape(Starting(j))
    BY DEF Starting, Thread, Steps, Shape, NoRun
  <1>2. ASSUME NEW w \in Workers, Take(w) PROVE TypeInv'
    <2>1. Head(dispatch) \in Jobs /\ Tail(dispatch) \in Seq(Jobs)
      BY <1>2 DEF Take, RunsOK
    <2>2. /\ w \in Threads /\ Starting(Head(dispatch)) \in Thread /\ Shape(Starting(Head(dispatch)))
          /\ thread' = [thread EXCEPT ![w] = Starting(Head(dispatch))]
      BY <1>1, <1>2, <2>1 DEF Take, Threads
    <2>3. ThreadsOK' /\ ThreadShape'
      BY <2>2, SetThread
    <2>4. RunsOK'
      BY <1>2, <2>1 DEF Take, RunsOK
    <2>5. QED
      BY <1>2, <2>3, <2>4, Frame DEF Take
  <1>3. ASSUME NEW t \in Triggers, NEW j \in Jobs, TriggerLoad(t, j) PROVE TypeInv'
    <2>1. ThreadsOK' /\ ThreadShape'
      BY <1>1, <1>3, SetThread DEF TriggerLoad, Threads
    <2>2. budget' \in [fires: Nat, manual: Nat, edits: Nat, crashes: Nat]
      <3>1. budget.manual > 0 /\ budget' = [budget EXCEPT !.manual = @ - 1]
        BY <1>3 DEF TriggerLoad
      <3>2. QED
        BY <3>1 DEF HistoryOK
    <2>3. QED
      BY <1>3, <2>1, <2>2, Frame DEF TriggerLoad, HistoryOK
  <1>4. QED
    BY <1>2, <1>3

LEMMA RunTypes ==
  ASSUME TypeInv, NEW t \in Threads, RunStep(t) \/ Timeout(t) PROVE TypeInv'
  <1> USE DEF TypeInv, TypeOK
  <1>1. thread[t] \in Thread /\ Shape(thread[t])
    BY DEF ThreadsOK, ThreadShape
  <1>2. CASE TryLock(t)
    <2>1. ThreadsOK'
      BY <1>2 DEF TryLock, ThreadsOK, Thread, Steps, IdleThread, NoRun
    <2>2. ThreadShape'
      BY <1>1, <1>2 DEF TryLock, ThreadsOK, ThreadShape, Shape, Thread, IdleThread
    <2>3. RunsOK'
      BY <1>1, <1>2 DEF TryLock, RunsOK, Shape
    <2>4. QED
      BY <1>2, <2>1, <2>2, <2>3, Frame DEF TryLock
  <1>3. CASE OpenSource(t)
    <2>1. ThreadsOK'
      BY <1>3 DEF OpenSource, ThreadsOK, Thread, Steps
    <2>2. ThreadShape'
      BY <1>1, <1>3 DEF OpenSource, ThreadsOK, ThreadShape, Shape, Thread
    <2>3. QED
      BY <1>3, <2>1, <2>2, Frame DEF OpenSource
  <1>4. CASE InsertRunStarted(t)
    <2>1. ThreadsOK'
      BY <1>4 DEF InsertRunStarted, ThreadsOK, Thread, Steps
    <2>2. ThreadShape'
      BY <1>1, <1>4 DEF InsertRunStarted, ThreadsOK, ThreadShape, Shape, Thread
    <2>3. nextRun \in RunIds => nextRun + 1 \in 1..(MaxRuns + 1)
      BY ConstantsAssumption DEF RunIds
    <2>4. TablesOK'
      <3>1. thread[t].job \in Jobs
        BY <1>1, <1>4 DEF InsertRunStarted, Shape
      <3>2. QED
        BY <1>4, <2>3, <3>1 DEF InsertRunStarted, TablesOK
    <2>5. HistoryOK'
      BY <1>4 DEF InsertRunStarted, HistoryOK
    <2>6. QED
      BY <1>4, <2>1, <2>2, <2>4, <2>5, Frame DEF InsertRunStarted
  <1>5. CASE RegisterRunCancel(t)
    <2>1. ThreadsOK'
      BY <1>5 DEF RegisterRunCancel, ThreadsOK, Thread, Steps
    <2>2. ThreadShape'
      BY <1>1, <1>5 DEF RegisterRunCancel, ThreadsOK, ThreadShape, Shape, Thread
    <2>3. RunsOK'
      BY <1>1, <1>5 DEF RegisterRunCancel, RunsOK, Shape
    <2>4. QED
      BY <1>5, <2>1, <2>2, <2>3, Frame DEF RegisterRunCancel
  <1>6. CASE Extract(t)
    <2>1. PICK out \in {"ok", IF thread[t].ctx = "live" THEN "broke" ELSE "interrupted"} :
            thread' = [thread EXCEPT ![t].pc = "record", ![t].out = out]
      BY <1>6 DEF Extract
    <2>2. out \in {"ok", "broke", "interrupted"}
      BY <2>1
    <2>3. ThreadsOK'
      BY <1>1, <2>1, <2>2 DEF ThreadsOK, Thread, Steps
    <2>4. ThreadShape'
      BY <1>1, <1>6, <2>1, <2>2 DEF Extract, ThreadsOK, ThreadShape, Shape, Thread
    <2>5. QED
      BY <1>6, <2>3, <2>4, Frame DEF Extract
  <1>7. CASE DecideStatus(t)
    <2>1. PICK out \in Terminal :
            thread' = [thread EXCEPT ![t].pc = "finish", ![t].out = out]
      BY <1>7 DEF DecideStatus, Terminal
    <2>2. ThreadsOK'
      <3>1. [thread[t] EXCEPT !.pc = "finish", !.out = out] \in Thread
        BY <1>1, <2>1, Fields DEF Steps
      <3>2. QED
        BY <2>1, <3>1 DEF ThreadsOK
    <2>3. ThreadShape'
      BY <1>1, <1>7, <2>1 DEF DecideStatus, ThreadsOK, ThreadShape, Shape, Thread
    <2>4. QED
      BY <1>7, <2>2, <2>3, Frame DEF DecideStatus
  <1>8. CASE FinishRun(t)
    <2>1. ThreadsOK'
      BY <1>8 DEF FinishRun, ThreadsOK, Thread, Steps
    <2>2. ThreadShape'
      BY <1>1, <1>8 DEF FinishRun, ThreadsOK, ThreadShape, Shape, Thread
    <2>3. TablesOK'
      BY <1>1, <1>8 DEF FinishRun, TablesOK, Shape
    <2>4. HistoryOK'
      BY <1>1, <1>8 DEF FinishRun, HistoryOK, Shape
    <2>5. QED
      BY <1>8, <2>1, <2>2, <2>3, <2>4, Frame DEF FinishRun
  <1>9. CASE UnregisterRunCancel(t)
    <2>1. ThreadsOK'
      <3>1. thread' = [thread EXCEPT ![t].pc = "unlock", ![t].run = NoRun]
        BY <1>9 DEF UnregisterRunCancel
      <3>2. [thread[t] EXCEPT !.pc = "unlock", !.run = NoRun] \in Thread
        BY <1>1, Fields DEF Steps
      <3>3. QED
        BY <3>1, <3>2 DEF ThreadsOK
    <2>2. ThreadShape'
      BY <1>1, <1>9 DEF UnregisterRunCancel, ThreadsOK, ThreadShape, Shape, Thread
    <2>3. RunsOK'
      BY <1>9 DEF UnregisterRunCancel, RunsOK
    <2>4. QED
      BY <1>9, <2>1, <2>2, <2>3, Frame DEF UnregisterRunCancel
  <1>10. CASE Unlock(t)
    <2>1. ThreadsOK'
      BY <1>10 DEF Unlock, ThreadsOK, Thread, Steps, IdleThread, NoRun
    <2>2. ThreadShape'
      BY <1>1, <1>10 DEF Unlock, ThreadsOK, ThreadShape, Shape, Thread, IdleThread
    <2>3. RunsOK'
      BY <1>10 DEF Unlock, RunsOK
    <2>4. QED
      BY <1>10, <2>1, <2>2, <2>3, Frame DEF Unlock
  <1>11. CASE Timeout(t)
    <2>1. ThreadsOK'
      BY <1>11 DEF Timeout, ThreadsOK, Thread
    <2>2. ThreadShape'
      BY <1>1, <1>11 DEF Timeout, ThreadsOK, ThreadShape, Shape, Thread
    <2>3. QED
      BY <1>11, <2>1, <2>2, Frame DEF Timeout
  <1>12. QED
    BY <1>2, <1>3, <1>4, <1>5, <1>6, <1>7, <1>8, <1>9, <1>10, <1>11 DEF RunStep

LEMMA CancelTypes ==
  ASSUME TypeInv, NEW r \in RunIds, CancelLookup(r) \/ CancelCall(r) PROVE TypeInv'
  <1> USE DEF TypeInv, TypeOK
  <1>1. HistoryOK'
    BY DEF CancelLookup, CancelCall, HistoryOK
  <1>2. \A th \in Thread : [th EXCEPT !.ctx = "canceled"] \in Thread
    BY DEF Thread
  <1>3. ThreadsOK'
    BY <1>2 DEF CancelLookup, CancelCall, ThreadsOK
  <1>4. \A th \in Thread : Shape(th) => Shape([th EXCEPT !.ctx = "canceled"])
    BY DEF Shape, Thread
  <1>5. ThreadShape'
    <2>1. CASE CancelLookup(r)
      BY <2>1, Frame DEF CancelLookup
    <2>2. CASE CancelCall(r)
      BY <1>4, <2>2 DEF CancelCall, ThreadShape, ThreadsOK
    <2>3. QED
      BY <2>1, <2>2
  <1>6. QED
    BY <1>1, <1>3, <1>5, Frame DEF CancelLookup, CancelCall

LEMMA AdminTypes ==
  ASSUME TypeInv, NEW j \in Jobs, CreateJob(j) \/ UpdateJob(j) \/ DeleteJob(j) PROVE TypeInv'
  <1> USE DEF TypeInv, TypeOK
  <1>1. jobRow' \in [Jobs -> [state: JobStates, timed: BOOLEAN]]
    BY ConstantsAssumption DEF CreateJob, UpdateJob, DeleteJob, JobStates, TablesOK
  <1>2. runRow' \in [RunIds -> [job: Jobs \cup {NoJob},
                          status: {"none", "running", "deleted"} \cup Terminal]]
    BY DEF CreateJob, UpdateJob, DeleteJob, TablesOK
  <1>3. UNCHANGED AdminVars
    BY DEF CreateJob, UpdateJob, DeleteJob
  <1>4. HistoryOK'
    BY <1>3 DEF CreateJob, UpdateJob, DeleteJob, SpendEdit, AdminVars, HistoryOK
  <1>5. TablesOK'
    BY <1>1, <1>2, <1>3 DEF TablesOK, AdminVars
  <1>6. QED
    BY <1>3, <1>4, <1>5, Frame DEF AdminVars

LEMMA CrashTypes ==
  ASSUME TypeInv, Crash PROVE TypeInv'
  <1> USE DEF TypeInv, TypeOK
  <1>1. HistoryOK'
    <2>1. orphaned' \subseteq RunIds
      BY DEF Crash, Carrying, ThreadShape, Shape, HistoryOK
    <2>2. QED
      BY <2>1 DEF Crash, HistoryOK
  <1>2. PlannerOK'
    BY DEF Crash, Fresh, PlannerOK, Cached, IdleGoroutine, Goroutine, NothingRead
  <1>3. ThreadsOK' /\ ThreadShape'
    BY DEF Crash, Fresh, IdleThread, Thread, Steps, ThreadsOK, ThreadShape, Shape, NoRun
  <1>4. RunsOK'
    BY DEF Crash, RunsOK
  <1>5. QED
    BY <1>1, <1>2, <1>3, <1>4, Frame DEF Crash

LEMMA StutterTypes ==
  ASSUME TypeInv, UNCHANGED vars PROVE TypeInv'
  BY Frame DEF TypeInv, TypeOK, vars, tables, planner

\* Every step preserves the types.
LEMMA StepTypes == TypeInv /\ [Next]_vars => TypeInv'
  BY ReloadTypes, SchedTypes, StartTypes, RunTypes, CancelTypes, AdminTypes,
     CrashTypes, StutterTypes
  DEF Next

\* The values every variable takes: in particular a run never gets a status in
\* the history other than success, failed or cancelled.
THEOREM TypeCorrect == Spec => []TypeOK
  <1>1. TypeInv => TypeOK
    BY DEF TypeInv
  <1>2. QED
    BY InitTypes, StepTypes, <1>1, PTL DEF Spec

-----------------------------------------------------------------------------
(* The overlap guard *)

\* The set running is exactly the jobs of the threads between tryLock and
\* unlock, and no two of those threads have the same job.
HolderIsLocked == \A t \in Threads : Holding(t) => thread[t].job \in running
LockInv == HolderIsLocked /\ OneRunPerJob /\ NoLeakedLock

LEMMA InitLock == Init => LockInv
  BY DEF Init, Fresh, IdleThread, LockInv, HolderIsLocked, OneRunPerJob, NoLeakedLock, Holding

\* A step that changes neither running nor who holds what keeps the guard.
LEMMA LockFrame ==
  ASSUME LockInv, running' = running,
         \A t \in Threads : /\ Holding(t)' <=> Holding(t)
                            /\ Holding(t) => thread'[t].job = thread[t].job
  PROVE  LockInv'
  BY DEF LockInv, HolderIsLocked, OneRunPerJob, NoLeakedLock

\* Every step keeps the guard.
LEMMA StepLock == TypeInv /\ LockInv /\ [Next]_vars => LockInv'
  <1> SUFFICES ASSUME TypeInv, LockInv, [Next]_vars PROVE LockInv'
    OBVIOUS
  <1>0. ThreadsOK
    BY DEF TypeInv, TypeOK
  <1>1. CASE UNCHANGED <<thread, running>>
    BY <1>1, LockFrame DEF Holding
  <1>2. ASSUME NEW w \in Workers, Take(w) PROVE LockInv'
    BY <1>0, <1>2, LockFrame DEF Take, Holding, Starting, Threads, ThreadsOK
  <1>3. ASSUME NEW t \in Triggers, NEW j \in Jobs, TriggerLoad(t, j) PROVE LockInv'
    BY <1>0, <1>3, LockFrame DEF TriggerLoad, Holding, Starting, Threads, ThreadsOK
  <1>4. ASSUME NEW t \in Threads, TryLock(t) PROVE LockInv'
    <2>1. CASE thread[t].job \in running
      BY <1>0, <1>4, <2>1, LockFrame DEF TryLock, Holding, IdleThread, ThreadsOK
    <2>2. CASE thread[t].job \notin running
      <3>1. /\ running' = running \cup {thread[t].job}
            /\ thread' = [thread EXCEPT ![t].pc = "source"]
            /\ ~Holding(t)
        BY <1>4, <2>2 DEF TryLock, Holding
      <3>2. \A u \in Threads : /\ thread'[u].job = thread[u].job
                               /\ Holding(u)' <=> Holding(u) \/ u = t
        BY <1>0, <3>1 DEF Holding, ThreadsOK, Thread
      <3>3. QED
        BY <2>2, <3>1, <3>2 DEF LockInv, HolderIsLocked, OneRunPerJob, NoLeakedLock
    <2>3. QED
      BY <2>1, <2>2
  <1>5. ASSUME NEW t \in Threads, Unlock(t) PROVE LockInv'
    <2>1. /\ running' = running \ {thread[t].job}
          /\ thread' = [thread EXCEPT ![t] = IdleThread]
          /\ Holding(t)
      BY <1>5 DEF Unlock, Holding
    <2>2. \A u \in Threads : /\ Holding(u)' <=> Holding(u) /\ u # t
                             /\ u # t => thread'[u] = thread[u]
      BY <1>0, <2>1 DEF Holding, ThreadsOK, IdleThread
    <2>3. QED
      BY <2>1, <2>2 DEF LockInv, HolderIsLocked, OneRunPerJob, NoLeakedLock
  <1>6. ASSUME NEW t \in Threads,
               \/ OpenSource(t) \/ InsertRunStarted(t) \/ RegisterRunCancel(t) \/ Extract(t)
               \/ DecideStatus(t) \/ FinishRun(t) \/ UnregisterRunCancel(t) \/ Timeout(t)
        PROVE  LockInv'
    <2>1. UNCHANGED running /\ Holding(t)
      BY <1>6 DEF OpenSource, InsertRunStarted, RegisterRunCancel, Extract,
                  DecideStatus, FinishRun, UnregisterRunCancel, Timeout, Holding
    <2>2. \A u \in Threads \ {t} : thread'[u] = thread[u]
      BY <1>0, <1>6 DEF OpenSource, InsertRunStarted, RegisterRunCancel, Extract,
                  DecideStatus, FinishRun, UnregisterRunCancel, Timeout, ThreadsOK
    <2>3. thread'[t].job = thread[t].job /\ Holding(t)'
      BY <1>0, <1>6 DEF OpenSource, InsertRunStarted, RegisterRunCancel, Extract,
                  DecideStatus, FinishRun, UnregisterRunCancel, Timeout,
                  ThreadsOK, Thread, Holding
    <2>4. QED
      BY <2>1, <2>2, <2>3, LockFrame DEF Holding
  <1>7. ASSUME NEW r \in RunIds, CancelCall(r) PROVE LockInv'
    <2>1. \A u \in Threads : thread'[u].job = thread[u].job /\ thread'[u].pc = thread[u].pc
      BY <1>0, <1>7 DEF CancelCall, ThreadsOK, Thread
    <2>2. QED
      BY <1>7, <2>1, LockFrame DEF CancelCall, Holding
  <1>8. CASE Crash
    BY <1>8 DEF Crash, Fresh, IdleThread, Holding,
                LockInv, HolderIsLocked, OneRunPerJob, NoLeakedLock
  <1>9. ASSUME \/ ReloadRead \/ ReloadApply
               \/ \E j \in Jobs, g \in Slots : SchedStep(j, g)
               \/ \E r \in RunIds : CancelLookup(r)
               \/ \E j \in Jobs : CreateJob(j) \/ UpdateJob(j) \/ DeleteJob(j)
               \/ UNCHANGED vars
        PROVE  UNCHANGED <<thread, running>>
    BY <1>9 DEF ReloadRead, ReloadApply, SchedStep, SchedGet, SchedFire, SchedSend, SchedStop,
                SchedVars, CancelLookup, CreateJob, UpdateJob, DeleteJob, AdminVars, vars
  <1>10. QED
    BY <1>1, <1>2, <1>3, <1>4, <1>5, <1>6, <1>7, <1>8, <1>9 DEF Next, RunStep

\* No two runs of one job are ever in flight at once (tryLock, unlock).
THEOREM OverlapGuard == Spec => []OneRunPerJob
  <1>1. LockInv => OneRunPerJob
    BY DEF LockInv
  <1>2. QED
    BY InitTypes, StepTypes, InitLock, StepLock, <1>1, PTL DEF Spec

\* Whenever a job is locked some thread is on its way to unlock it.
THEOREM LockIsHeld == Spec => []NoLeakedLock
  <1>1. LockInv => NoLeakedLock
    BY DEF LockInv
  <1>2. QED
    BY InitTypes, StepTypes, InitLock, StepLock, <1>1, PTL DEF Spec

-----------------------------------------------------------------------------
(* Runs and their rows *)

\* The threads that know the id of a run.
HasRun(t) == Carrying(t) \/ thread[t].pc = "unregister"

\* A run belongs to one thread; its id comes from the sequence.
RunOwned ==
  \A t \in Threads :
    /\ HasRun(t) <=> thread[t].run # NoRun
    /\ HasRun(t) => thread[t].run < nextRun
    /\ \A u \in Threads : HasRun(t) /\ thread[t].run = thread[u].run => t = u

\* The row of a run that is not over is that of the thread's job, and says
\* "running" until the job and its history are deleted.
RowOfRun ==
  \A t \in Threads : Carrying(t) =>
    /\ runRow[thread[t].run].job = thread[t].job
    /\ runRow[thread[t].run].status \in {"running", "deleted"}

\* The sequence has not reached the rows that do not exist.
RowsAhead == \A r \in RunIds : r >= nextRun => runRow[r] = [job |-> NoJob, status |-> "none"]

\* A registered cancel func is that of a thread between its registration and
\* the removal of it.
CancelsOwned ==
  \A r \in runCancels : \E t \in Threads :
    thread[t].run = r /\ thread[t].pc \in {"exec", "record", "finish", "unregister"}

RunInv == RunOwned /\ RowOfRun /\ RowsAhead /\ CancelsOwned /\ RunningRowIsLive

LEMMA InitRun == Init => RunInv
  BY DEF Init, Fresh, IdleThread, RunInv, RunOwned, RowOfRun, RowsAhead, CancelsOwned,
         RunningRowIsLive, HasRun, Carrying, NoRun

\* A registered cancel func reaches one thread and no other.
LEMMA CancelReachesOne ==
  ASSUME TypeInv, RunInv PROVE StopReachesOneRun
  <1> SUFFICES ASSUME NEW r \in runCancels
               PROVE  \E t \in Threads : /\ thread[t].run = r
                                         /\ \A u \in Threads \ {t} : thread[u].run # r
    BY DEF StopReachesOneRun
  <1>1. PICK t \in Threads :
          thread[t].run = r /\ thread[t].pc \in {"exec", "record", "finish", "unregister"}
    BY DEF RunInv, CancelsOwned
  <1>2. HasRun(t)
    BY <1>1 DEF HasRun, Carrying
  <1>3. \A u \in Threads \ {t} : thread[u].run # r
    BY <1>1, <1>2 DEF RunInv, RunOwned
  <1>4. QED
    BY <1>1, <1>3

\* A step that leaves the rows alone and moves no thread into, out of or
\* across the registered part of a run.
LEMMA RunFrame ==
  ASSUME RunInv, UNCHANGED <<runRow, nextRun, runCancels, orphaned>>,
         \A t \in Threads :
           /\ thread'[t].run = thread[t].run
           /\ Carrying(t)' <=> Carrying(t)
           /\ Carrying(t) => thread'[t].job = thread[t].job
           /\ HasRun(t)' <=> HasRun(t)
           /\ thread[t].pc \in {"exec", "record", "finish", "unregister"} =>
                thread'[t].pc \in {"exec", "record", "finish", "unregister"}
  PROVE  RunInv'
  <1> USE DEF RunInv
  <1>1. RunOwned'
    BY DEF RunOwned
  <1>2. RowOfRun'
    BY DEF RowOfRun
  <1>3. RowsAhead'
    BY DEF RowsAhead
  <1>4. CancelsOwned'
    BY DEF CancelsOwned
  <1>5. RunningRowIsLive'
    BY DEF RunningRowIsLive, RunOwned, RowOfRun
  <1>6. QED
    BY <1>1, <1>2, <1>3, <1>4, <1>5

\* The steps that move a thread outside its run, or within its registered part.
LEMMA RunKept ==
  ASSUME TypeInv, RunInv, NEW t \in Threads,
         \/ t \in Workers /\ Take(t)
         \/ \E j \in Jobs : TriggerLoad(t, j)
         \/ TryLock(t) \/ OpenSource(t) \/ Extract(t) \/ DecideStatus(t) \/ Timeout(t) \/ Unlock(t)
  PROVE  RunInv'
  <1>1. UNCHANGED <<runRow, nextRun, runCancels, orphaned>>
    BY DEF Take, TriggerLoad, TryLock, OpenSource, Extract, DecideStatus, Timeout, Unlock, tables
  <1>2. \A u \in Threads \ {t} : thread'[u] = thread[u]
    BY DEF Take, TriggerLoad, TryLock, OpenSource, Extract, DecideStatus, Timeout, Unlock,
           TypeInv, TypeOK, ThreadsOK
  <1>3. \/ /\ ~HasRun(t) /\ ~HasRun(t)'
           /\ ~Carrying(t) /\ ~Carrying(t)'
           /\ thread[t].run = NoRun /\ thread'[t].run = NoRun
           /\ thread[t].pc \notin {"exec", "record", "finish", "unregister"}
        \/ /\ thread'[t].run = thread[t].run /\ thread'[t].job = thread[t].job
           /\ {thread[t].pc, thread'[t].pc} \subseteq {"exec", "record", "finish"}
    <2>1. CASE \/ t \in Workers /\ Take(t)
               \/ \E j \in Jobs : TriggerLoad(t, j)
               \/ TryLock(t) \/ OpenSource(t) \/ Unlock(t)
      <3>1. ~HasRun(t) /\ ~Carrying(t) /\ thread[t].run = NoRun
        BY <2>1 DEF Take, TriggerLoad, TryLock, OpenSource, Unlock, HasRun, Carrying,
                    RunInv, RunOwned
      <3>2. PICK p \in {"idle", "lock", "source", "insert", "unlock"}, j \in Jobs \cup {NoJob} :
              \/ thread' = [thread EXCEPT ![t] = Starting(j)]
              \/ thread' = [thread EXCEPT ![t] = IdleThread]
              \/ thread' = [thread EXCEPT ![t].pc = p]
        <4>1. CASE \/ \E j \in Jobs : TriggerLoad(t, j)
                   \/ TryLock(t) \/ OpenSource(t) \/ Unlock(t)
          BY <4>1 DEF TriggerLoad, TryLock, OpenSource, Unlock
        <4>2. CASE t \in Workers /\ Take(t)
          <5>1. Head(dispatch) \in Jobs
            BY <4>2 DEF Take, TypeInv, TypeOK, RunsOK
          <5>2. QED
            BY <4>2, <5>1 DEF Take
        <4>3. QED
          BY <2>1, <4>1, <4>2
      <3>3. \/ thread'[t] = Starting(j)
            \/ thread'[t] = IdleThread
            \/ thread'[t] = [thread[t] EXCEPT !.pc = p]
        BY <3>2 DEF TypeInv, TypeOK, ThreadsOK
      <3>4. thread'[t].pc \in {"idle", "lock", "source", "insert", "unlock"} /\ thread'[t].run = NoRun
        <4>1. CASE thread'[t] = Starting(j) \/ thread'[t] = IdleThread
          BY <4>1 DEF Starting, IdleThread
        <4>2. CASE thread'[t] = [thread[t] EXCEPT !.pc = p]
          <5>1. thread[t] \in Thread
            BY DEF TypeInv, TypeOK, ThreadsOK
          <5>2. QED
            BY <3>1, <4>2, <5>1 DEF Thread
        <4>3. QED
          BY <3>3, <4>1, <4>2
      <3>5. QED
        BY <3>1, <3>4 DEF HasRun, Carrying
    <2>2. CASE Extract(t) \/ DecideStatus(t) \/ Timeout(t)
      BY <2>2 DEF Extract, DecideStatus, Timeout, TypeInv, TypeOK, ThreadsOK, Thread
    <2>3. QED
      BY <2>1, <2>2
  <1>4. QED
    BY <1>1, <1>2, <1>3, RunFrame DEF HasRun, Carrying

LEMMA RunInsert ==
  ASSUME TypeInv, RunInv, NEW t \in Threads, InsertRunStarted(t) PROVE RunInv'
  <1> USE DEF TypeInv, TypeOK
  <1>1. ~HasRun(t) /\ ~Carrying(t) /\ thread[t].run = NoRun /\ thread[t].job \in Jobs
    BY DEF InsertRunStarted, HasRun, Carrying, RunInv, RunOwned, ThreadShape, Shape
  <1>2. UNCHANGED runCancels /\ \A u \in Threads \ {t} : thread'[u] = thread[u]
    BY DEF InsertRunStarted, ThreadsOK
  <1>3. nextRun \in Nat \ {0}
    BY DEF TablesOK
  <1>4. CASE UNCHANGED <<runRow, nextRun, orphaned>> /\ thread' = [thread EXCEPT ![t].pc = "unlock"]
    BY <1>1, <1>2, <1>4, RunFrame DEF HasRun, Carrying, ThreadsOK, Thread
  <1>5. ASSUME runRow' = [runRow EXCEPT ![nextRun] = [job |-> thread[t].job, status |-> "running"]],
               nextRun' = nextRun + 1, nextRun \in RunIds
        PROVE  /\ RowsAhead'
               /\ \A u \in Threads : HasRun(u) => /\ thread[u].run < nextRun'
                                                 /\ runRow'[thread[u].run] = runRow[thread[u].run]
               /\ \A r \in RunIds \ {nextRun} : runRow'[r] = runRow[r]
               /\ runRow'[nextRun] = [job |-> thread[t].job, status |-> "running"]
    <2>1. RowsAhead'
      BY <1>3, <1>5 DEF RunInv, RowsAhead, TablesOK, RunIds
    <2>2. \A u \in Threads : HasRun(u) => thread[u].run \in RunIds /\ thread[u].run < nextRun
      BY DEF RunInv, RunOwned, ThreadShape, Shape, HasRun, Carrying
    <2>3. QED
      BY <1>3, <1>5, <2>1, <2>2 DEF TablesOK, RunIds
  <1>6. CASE /\ nextRun \in RunIds
             /\ runRow' = [runRow EXCEPT ![nextRun] = [job |-> thread[t].job, status |-> "running"]]
             /\ nextRun' = nextRun + 1
             /\ orphaned' = orphaned
             /\ thread' = [thread EXCEPT ![t].pc = "register", ![t].run = nextRun]
    <2>0. /\ \A u \in Threads : HasRun(u) => /\ thread[u].run < nextRun'
                                              /\ runRow'[thread[u].run] = runRow[thread[u].run]
          /\ \A r \in RunIds \ {nextRun} : runRow'[r] = runRow[r]
          /\ runRow'[nextRun] = [job |-> thread[t].job, status |-> "running"]
      BY <1>5, <1>6
    <2>1. thread'[t].pc = "register" /\ thread'[t].run = nextRun /\ thread'[t].job = thread[t].job
      BY <1>6 DEF ThreadsOK, Thread
    <2>2. HasRun(t)' /\ Carrying(t)'
      BY <2>1 DEF HasRun, Carrying
    <2>3. \A u \in Threads \ {t} : (HasRun(u)' <=> HasRun(u)) /\ (Carrying(u)' <=> Carrying(u))
      BY <1>2 DEF HasRun, Carrying
    <2>4. \A u \in Threads : Carrying(u) => HasRun(u)
      BY DEF HasRun
    <2>5. RunOwned'
      <3>1. ASSUME NEW u \in Threads
            PROVE  /\ HasRun(u)' <=> thread'[u].run # NoRun
                   /\ HasRun(u)' => thread'[u].run < nextRun'
        <4>1. CASE u = t
          BY <1>3, <1>6, <2>1, <2>2, <4>1 DEF NoRun
        <4>2. CASE u # t
          BY <1>2, <2>0, <2>3, <4>2 DEF RunInv, RunOwned
        <4>3. QED
          BY <4>1, <4>2
      <3>2. ASSUME NEW u \in Threads, NEW v \in Threads, HasRun(u)', thread'[u].run = thread'[v].run
            PROVE  u = v
        <4>1. \A x \in Threads \ {t} : thread'[x].run # nextRun
          BY <1>2, <1>3 DEF RunInv, RunOwned, NoRun
        <4>2. QED
          BY <1>2, <2>1, <2>3, <3>2, <4>1 DEF RunInv, RunOwned
      <3>3. QED
        BY <3>1, <3>2 DEF RunOwned
    <2>6. RowOfRun'
      <3>1. ASSUME NEW u \in Threads, Carrying(u)'
            PROVE  /\ runRow'[thread'[u].run].job = thread'[u].job
                   /\ runRow'[thread'[u].run].status \in {"running", "deleted"}
        <4>1. CASE u = t
          BY <2>0, <2>1, <4>1
        <4>2. CASE u # t
          BY <1>2, <2>0, <2>3, <2>4, <3>1, <4>2 DEF RunInv, RowOfRun
        <4>3. QED
          BY <4>1, <4>2
      <3>2. QED
        BY <3>1 DEF RowOfRun
    <2>7. CancelsOwned'
      BY <1>1, <1>2, <2>1 DEF RunInv, CancelsOwned, HasRun, Carrying
    <2>8. RunningRowIsLive'
      <3>1. ASSUME NEW r \in RunIds \ orphaned, runRow'[r].status = "running"
            PROVE  \E u \in Threads : /\ Carrying(u)' /\ thread'[u].run = r
                                      /\ thread'[u].job = runRow'[r].job
        <4>1. CASE r = nextRun
          BY <2>0, <2>1, <2>2, <4>1
        <4>2. CASE r # nextRun
          <5>1. PICK u \in Threads : /\ Carrying(u) /\ thread[u].run = r
                                     /\ thread[u].job = runRow[r].job
            BY <1>6, <2>0, <3>1, <4>2 DEF RunInv, RunningRowIsLive
          <5>2. u # t
            BY <1>1, <5>1
          <5>3. QED
            BY <1>2, <2>0, <2>3, <4>2, <5>1, <5>2
        <4>3. QED
          BY <4>1, <4>2
      <3>2. QED
        BY <1>6, <3>1 DEF RunningRowIsLive
    <2>9. QED
      BY <1>5, <1>6, <2>5, <2>6, <2>7, <2>8 DEF RunInv
  <1>7. CASE /\ nextRun \in RunIds
             /\ runRow' = [runRow EXCEPT ![nextRun] = [job |-> thread[t].job, status |-> "running"]]
             /\ nextRun' = nextRun + 1
             /\ orphaned' = orphaned \cup {nextRun}
             /\ thread' = [thread EXCEPT ![t].pc = "unlock"]
    <2>1. thread'[t].pc = "unlock" /\ thread'[t].run = thread[t].run
      BY <1>7 DEF ThreadsOK, Thread
    <2>2. RunOwned'
      BY <1>1, <1>2, <1>3, <1>5, <1>7, <2>1 DEF RunInv, RunOwned, HasRun, Carrying, NoRun
    <2>3. RowOfRun'
      BY <1>1, <1>2, <1>5, <1>7, <2>1 DEF RunInv, RowOfRun, HasRun, Carrying
    <2>4. CancelsOwned'
      BY <1>1, <1>2, <2>1 DEF RunInv, CancelsOwned, HasRun, Carrying
    <2>5. RunningRowIsLive'
      BY <1>1, <1>2, <1>5, <1>7, <2>1 DEF RunInv, RunningRowIsLive, HasRun, Carrying
    <2>6. QED
      BY <1>5, <1>7, <2>2, <2>3, <2>4, <2>5 DEF RunInv
  <1>8. QED
    BY <1>4, <1>6, <1>7 DEF InsertRunStarted

LEMMA RunRegister ==
  ASSUME TypeInv, RunInv, NEW t \in Threads,
         RegisterRunCancel(t) \/ UnregisterRunCancel(t)
  PROVE  RunInv'
  <1> USE DEF TypeInv, TypeOK
  <1>1. /\ UNCHANGED <<runRow, nextRun, orphaned>>
        /\ \A u \in Threads \ {t} : thread'[u] = thread[u]
    BY DEF RegisterRunCancel, UnregisterRunCancel, tables, ThreadsOK
  <1>2. HasRun(t)
    BY DEF RegisterRunCancel, UnregisterRunCancel, HasRun, Carrying
  <1>3. \A u \in Threads \ {t} : (HasRun(u)' <=> HasRun(u)) /\ (Carrying(u)' <=> Carrying(u))
    BY <1>1 DEF HasRun, Carrying
  <1>4. CASE RegisterRunCancel(t)
    <2>1. /\ runCancels' = runCancels \cup {thread[t].run}
          /\ thread'[t].pc = "exec" /\ thread'[t].run = thread[t].run
          /\ thread'[t].job = thread[t].job
      BY <1>4 DEF RegisterRunCancel, ThreadsOK, Thread
    <2>2. Carrying(t) /\ Carrying(t)' /\ HasRun(t)'
      BY <1>4, <2>1 DEF RegisterRunCancel, HasRun, Carrying
    <2>3. RunOwned'
      BY <1>1, <1>2, <1>3, <2>1, <2>2 DEF RunInv, RunOwned
    <2>4. RowOfRun'
      BY <1>1, <1>3, <2>1, <2>2 DEF RunInv, RowOfRun
    <2>5. RowsAhead'
      BY <1>1 DEF RunInv, RowsAhead
    <2>6. CancelsOwned'
      BY <1>1, <2>1 DEF RunInv, CancelsOwned
    <2>7. RunningRowIsLive'
      BY <1>1, <1>3, <2>1, <2>2 DEF RunInv, RunningRowIsLive
    <2>8. QED
      BY <2>3, <2>4, <2>5, <2>6, <2>7 DEF RunInv
  <1>5. CASE UnregisterRunCancel(t)
    <2>1. /\ runCancels' = runCancels \ {thread[t].run}
          /\ thread'[t].pc = "unlock" /\ thread'[t].run = NoRun
      BY <1>5 DEF UnregisterRunCancel, ThreadsOK, Thread
    <2>2. ~Carrying(t) /\ ~Carrying(t)' /\ ~HasRun(t)'
      BY <1>5, <2>1 DEF UnregisterRunCancel, HasRun, Carrying
    <2>3. RunOwned'
      BY <1>1, <1>3, <2>1, <2>2 DEF RunInv, RunOwned
    <2>4. RowOfRun'
      BY <1>1, <1>3, <2>1, <2>2 DEF RunInv, RowOfRun
    <2>5. RowsAhead'
      BY <1>1 DEF RunInv, RowsAhead
    <2>6. CancelsOwned'
      BY <1>1, <2>1 DEF RunInv, CancelsOwned
    <2>7. RunningRowIsLive'
      BY <1>1, <1>3, <2>1, <2>2 DEF RunInv, RunningRowIsLive
    <2>8. QED
      BY <2>3, <2>4, <2>5, <2>6, <2>7 DEF RunInv
  <1>6. QED
    BY <1>4, <1>5

LEMMA RunFinish ==
  ASSUME TypeInv, RunInv, NEW t \in Threads, FinishRun(t) PROVE RunInv'
  <1> USE DEF TypeInv, TypeOK
  <1> DEFINE r == thread[t].run
  <1>1. /\ UNCHANGED <<nextRun, runCancels>>
        /\ \A u \in Threads \ {t} : thread'[u] = thread[u]
        /\ Carrying(t) /\ HasRun(t)
        /\ r \in RunIds
    BY DEF FinishRun, ThreadsOK, ThreadShape, Shape, Carrying, HasRun
  <1>2. thread'[t].pc = "unregister" /\ thread'[t].run = r
    BY DEF FinishRun, ThreadsOK, Thread
  <1>3. HasRun(t)' /\ ~Carrying(t)'
    BY <1>2 DEF HasRun, Carrying
  <1>4. \A u \in Threads \ {t} : (HasRun(u)' <=> HasRun(u)) /\ (Carrying(u)' <=> Carrying(u))
    BY <1>1 DEF HasRun, Carrying
  <1>5. /\ \A s \in RunIds \ {r} : runRow'[s] = runRow[s]
        /\ \/ r \in orphaned'
           \/ runRow'[r].status # "running"
        /\ orphaned \subseteq orphaned'
        /\ orphaned' \subseteq orphaned \cup {r}
    <2>1. thread[t].out # "running"
      BY DEF FinishRun, ThreadShape, Shape, Terminal
    <2>2. CASE orphaned' = orphaned \cup {r} /\ runRow' = runRow
      BY <2>2
    <2>3. CASE /\ orphaned' = orphaned
               /\ runRow' = IF runRow[r].status = "deleted" THEN runRow
                            ELSE [runRow EXCEPT ![r].status = thread[t].out]
      <3>1. \A s \in RunIds \ {r} : runRow'[s] = runRow[s]
        BY <1>1, <2>3 DEF TablesOK
      <3>2. runRow'[r].status # "running"
        BY <1>1, <2>1, <2>3 DEF TablesOK
      <3>3. QED
        BY <2>3, <3>1, <3>2
    <2>4. QED
      BY <2>2, <2>3 DEF FinishRun
  <1>6. \A u \in Threads \ {t} : thread[u].run # r
    BY <1>1 DEF RunInv, RunOwned
  <1>7. RunOwned'
    BY <1>1, <1>2, <1>3, <1>4 DEF RunInv, RunOwned
  <1>8. RowOfRun'
    <2>1. \A u \in Threads : Carrying(u) => thread[u].run \in RunIds
      BY DEF Carrying, ThreadShape, Shape
    <2>2. QED
      BY <1>1, <1>3, <1>4, <1>5, <1>6, <2>1 DEF RunInv, RowOfRun
  <1>9. RowsAhead'
    <2>1. r < nextRun /\ nextRun \in Nat /\ r \in Nat
      BY <1>1 DEF RunInv, RunOwned, TablesOK, RunIds
    <2>2. QED
      BY <1>1, <1>5, <2>1 DEF RunInv, RowsAhead, RunIds
  <1>10. CancelsOwned'
    BY <1>1, <1>2 DEF RunInv, CancelsOwned
  <1>11. RunningRowIsLive'
    <2>1. ASSUME NEW s \in RunIds \ orphaned', runRow'[s].status = "running"
          PROVE  \E u \in Threads : /\ Carrying(u)' /\ thread'[u].run = s
                                    /\ thread'[u].job = runRow'[s].job
      <3>1. s # r
        BY <1>5, <2>1
      <3>2. PICK u \in Threads : Carrying(u) /\ thread[u].run = s /\ thread[u].job = runRow[s].job
        BY <1>5, <2>1, <3>1 DEF RunInv, RunningRowIsLive
      <3>3. QED
        BY <1>1, <1>4, <1>5, <2>1, <3>1, <3>2
    <2>2. QED
      BY <2>1 DEF RunningRowIsLive
  <1>12. QED
    BY <1>7, <1>8, <1>9, <1>10, <1>11 DEF RunInv

LEMMA RunDelete ==
  ASSUME TypeInv, RunInv, NEW j \in Jobs, DeleteJob(j) PROVE RunInv'
  <1> USE DEF TypeInv, TypeOK
  <1>1. UNCHANGED <<nextRun, runCancels, orphaned, thread>>
    BY DEF DeleteJob, AdminVars
  <1>2. \A r \in RunIds :
          /\ runRow'[r].job = runRow[r].job
          /\ runRow'[r].status \in {runRow[r].status, "deleted"}
          /\ runRow[r].job = NoJob => runRow'[r] = runRow[r]
    BY ConstantsAssumption DEF DeleteJob, TablesOK
  <1>3. \A u \in Threads : (HasRun(u)' <=> HasRun(u)) /\ (Carrying(u)' <=> Carrying(u))
    BY <1>1 DEF HasRun, Carrying
  <1>4. \A u \in Threads : Carrying(u) => thread[u].run \in RunIds
    BY DEF Carrying, ThreadShape, Shape
  <1>5. RunOwned'
    BY <1>1, <1>3 DEF RunInv, RunOwned
  <1>6. RowOfRun'
    BY <1>1, <1>2, <1>3, <1>4 DEF RunInv, RowOfRun
  <1>7. RowsAhead'
    BY <1>1, <1>2 DEF RunInv, RowsAhead
  <1>8. CancelsOwned'
    BY <1>1 DEF RunInv, CancelsOwned
  <1>9. RunningRowIsLive'
    BY <1>1, <1>2, <1>3 DEF RunInv, RunningRowIsLive
  <1>10. QED
    BY <1>5, <1>6, <1>7, <1>8, <1>9 DEF RunInv

LEMMA RunCrash ==
  ASSUME TypeInv, RunInv, Crash PROVE RunInv'
  <1> USE DEF TypeInv, TypeOK
  <1>1. /\ UNCHANGED <<runRow, nextRun>>
        /\ runCancels' = {}
        /\ orphaned' = orphaned \cup {thread[t].run : t \in {u \in Threads : Carrying(u)}}
        /\ \A t \in Threads : thread'[t] = IdleThread
    BY DEF Crash, Fresh, tables
  <1>2. \A t \in Threads : ~HasRun(t)' /\ ~Carrying(t)' /\ thread'[t].run = NoRun
    BY <1>1 DEF HasRun, Carrying, IdleThread
  <1>3. RunningRowIsLive'
    BY <1>1 DEF RunInv, RunningRowIsLive
  <1>4. RowsAhead'
    BY <1>1 DEF RunInv, RowsAhead
  <1>5. QED
    BY <1>1, <1>2, <1>3, <1>4 DEF RunInv, RunOwned, RowOfRun, CancelsOwned

\* Every step keeps runs, rows and cancel funcs together.
LEMMA StepRun == TypeInv /\ RunInv /\ [Next]_vars => RunInv'
  <1> SUFFICES ASSUME TypeInv, RunInv, [Next]_vars PROVE RunInv'
    OBVIOUS
  <1>1. CASE UNCHANGED <<runRow, nextRun, runCancels, orphaned, thread>>
    BY <1>1, RunFrame DEF HasRun, Carrying
  <1>2. ASSUME \/ ReloadRead \/ ReloadApply
               \/ \E j \in Jobs, g \in Slots : SchedStep(j, g)
               \/ \E r \in RunIds : CancelLookup(r)
               \/ \E j \in Jobs : CreateJob(j) \/ UpdateJob(j)
               \/ UNCHANGED vars
        PROVE  UNCHANGED <<runRow, nextRun, runCancels, orphaned, thread>>
    BY <1>2 DEF ReloadRead, ReloadApply, SchedStep, SchedGet, SchedFire, SchedSend, SchedStop,
                SchedVars, CancelLookup, CreateJob, UpdateJob, AdminVars, vars, tables
  <1>3. ASSUME NEW r \in RunIds, CancelCall(r) PROVE RunInv'
    <2>1. \A t \in Threads : /\ thread'[t].run = thread[t].run
                             /\ thread'[t].job = thread[t].job
                             /\ thread'[t].pc = thread[t].pc
      BY <1>3 DEF CancelCall, TypeInv, TypeOK, ThreadsOK, Thread
    <2>2. QED
      BY <1>3, <2>1, RunFrame DEF CancelCall, HasRun, Carrying, tables
  <1>4. QED
    BY <1>1, <1>2, <1>3, RunKept, RunInsert, RunRegister, RunFinish, RunDelete, RunCrash
    DEF Next, RunStep, Threads

\* A row that says "running" is that of a run in flight, or of one that was lost.
THEOREM RunningIsTrue == Spec => []RunningRowIsLive
  <1>1. RunInv => RunningRowIsLive
    BY DEF RunInv
  <1>2. QED
    BY InitTypes, StepTypes, InitRun, StepRun, <1>1, PTL DEF Spec

\* Stop reaches exactly the run it names.
THEOREM StopIsPrecise == Spec => []StopReachesOneRun
  <1>1. TypeInv /\ RunInv => StopReachesOneRun
    BY CancelReachesOne
  <1>2. QED
    BY InitTypes, StepTypes, InitRun, StepRun, <1>1, PTL DEF Spec

-----------------------------------------------------------------------------
(* The run history *)

InFlight == {thread[t].run : t \in {u \in Threads : Carrying(u)}}

LEMMA InitLedger == Init => Ledger!LedgerInit
  BY DEF Init, Fresh, IdleThread, Carrying, Ledger!LedgerInit, RunIds

\* The operations of the run history are its steps.
LEMMA LedgerSteps ==
  /\ \A j \in Jobs : Ledger!StartRun(j) \/ Ledger!StartLost(j) \/ Ledger!JobDeleted(j)
                     => Ledger!LedgerNext
  /\ \A r \in RunIds : Ledger!EndUnrecorded(r) => Ledger!LedgerNext
  /\ \A r \in RunIds, s \in Terminal : Ledger!EndRun(r, s) => Ledger!LedgerNext
  BY DEF Ledger!LedgerNext, Ledger!Ended, Terminal, RunIds

\* Every step of the engine is a step of the run history, or none.
LEMMA StepLedger ==
  ASSUME TypeInv, LockInv, RunInv, [Next]_vars
  PROVE  [Ledger!LedgerNext]_(Ledger!ledgerVars)
  <1> USE DEF TypeInv, TypeOK
  <1>1. ASSUME UNCHANGED <<runRow, nextRun>>,
               \A t \in Threads : /\ Carrying(t)' <=> Carrying(t)
                                  /\ Carrying(t) => thread'[t].run = thread[t].run
        PROVE  UNCHANGED Ledger!ledgerVars
    <2>1. InFlight' = InFlight
      BY <1>1 DEF InFlight
    <2>2. QED
      BY <1>1, <2>1 DEF Ledger!ledgerVars, InFlight
  <1>2. CASE UNCHANGED <<runRow, nextRun, thread>>
    BY <1>1, <1>2 DEF Carrying
  <1>3. ASSUME NEW t \in Threads,
               \/ t \in Workers /\ Take(t)
               \/ \E j \in Jobs : TriggerLoad(t, j)
               \/ TryLock(t) \/ OpenSource(t) \/ RegisterRunCancel(t) \/ Extract(t)
               \/ DecideStatus(t) \/ UnregisterRunCancel(t) \/ Timeout(t) \/ Unlock(t)
        PROVE  UNCHANGED Ledger!ledgerVars
    <2>1. UNCHANGED <<runRow, nextRun>>
      BY <1>3 DEF Take, TriggerLoad, TryLock, OpenSource, RegisterRunCancel, Extract,
                  DecideStatus, UnregisterRunCancel, Timeout, Unlock, tables
    <2>2. \A u \in Threads \ {t} : thread'[u] = thread[u]
      BY <1>3 DEF Take, TriggerLoad, TryLock, OpenSource, RegisterRunCancel, Extract,
                  DecideStatus, UnregisterRunCancel, Timeout, Unlock, ThreadsOK
    <2>3. \/ /\ {thread[t].pc, thread'[t].pc} \subseteq {"register", "exec", "record", "finish"}
             /\ thread'[t].run = thread[t].run
          \/ /\ thread[t].pc \notin {"register", "exec", "record", "finish"}
             /\ thread'[t].pc \notin {"register", "exec", "record", "finish"}
      <3>1. CASE Take(t) \/ (\E j \in Jobs : TriggerLoad(t, j)) \/ TryLock(t) \/ Unlock(t)
        BY <3>1 DEF Take, TriggerLoad, TryLock, Unlock, Starting, IdleThread, ThreadsOK, Thread
      <3>2. CASE OpenSource(t) \/ RegisterRunCancel(t) \/ UnregisterRunCancel(t)
        BY <3>2 DEF OpenSource, RegisterRunCancel, UnregisterRunCancel, ThreadsOK, Thread
      <3>3. CASE Extract(t) \/ DecideStatus(t) \/ Timeout(t)
        BY <3>3 DEF Extract, DecideStatus, Timeout, ThreadsOK, Thread
      <3>4. QED
        BY <1>3, <3>1, <3>2, <3>3
    <2>4. QED
      BY <1>1, <2>1, <2>2, <2>3 DEF Carrying
  <1>4. ASSUME NEW t \in Threads, InsertRunStarted(t)
        PROVE  [Ledger!LedgerNext]_(Ledger!ledgerVars)
    <2>1. thread[t].job \in Jobs /\ ~Carrying(t) /\ Holding(t)
      BY <1>4 DEF InsertRunStarted, ThreadShape, Shape, Carrying, Holding
    <2>2. \A u \in Threads \ {t} : thread'[u] = thread[u]
      BY <1>4 DEF InsertRunStarted, ThreadsOK
    <2>0. PICK j \in Jobs : j = thread[t].job
      BY <2>1
    <2>3. ASSUME nextRun \in RunIds,
                 runRow' = [runRow EXCEPT ![nextRun] =
                                    [job |-> thread[t].job, status |-> "running"]],
                 thread' = [thread EXCEPT ![t].pc = "register", ![t].run = nextRun],
                 nextRun' = nextRun + 1
          PROVE  Ledger!StartRun(j)
      <3>1. thread'[t].pc = "register" /\ thread'[t].run = nextRun
        BY <2>3 DEF ThreadsOK, Thread
      <3>2. InFlight' = InFlight \cup {nextRun}
        BY <2>1, <2>2, <3>1 DEF InFlight, Carrying
      <3>3. ASSUME NEW r \in InFlight PROVE runRow[r].job # j
        <4>1. PICK u \in Threads : Carrying(u) /\ thread[u].run = r
          BY <3>3 DEF InFlight
        <4>2. Holding(u) /\ runRow[r].job = thread[u].job
          BY <4>1 DEF Holding, Carrying, RunInv, RowOfRun
        <4>3. QED
          BY <2>0, <2>1, <4>1, <4>2 DEF LockInv, OneRunPerJob
      <3>4. QED
        BY <2>0, <2>3, <3>2, <3>3 DEF Ledger!StartRun, Ledger!Insert, InFlight, RunIds
    <2>4. ASSUME nextRun \in RunIds,
                 runRow' = [runRow EXCEPT ![nextRun] =
                                    [job |-> thread[t].job, status |-> "running"]],
                 thread' = [thread EXCEPT ![t].pc = "unlock"],
                 nextRun' = nextRun + 1
          PROVE  Ledger!StartLost(j)
      <3>1. thread'[t].pc = "unlock"
        BY <2>4 DEF ThreadsOK, Thread
      <3>2. InFlight' = InFlight
        BY <2>1, <2>2, <3>1 DEF InFlight, Carrying
      <3>3. QED
        BY <2>0, <2>4, <3>2 DEF Ledger!StartLost, Ledger!Insert, InFlight, RunIds
    <2>5. ASSUME thread' = [thread EXCEPT ![t].pc = "unlock"], UNCHANGED <<runRow, nextRun>>
          PROVE  UNCHANGED Ledger!ledgerVars
      <3>1. thread'[t].pc = "unlock"
        BY <2>5 DEF ThreadsOK, Thread
      <3>2. QED
        BY <1>1, <2>1, <2>2, <2>5, <3>1 DEF Carrying
    <2>6. QED
      BY <1>4, <2>1, <2>3, <2>4, <2>5, LedgerSteps DEF InsertRunStarted
  <1>5. ASSUME NEW t \in Threads, FinishRun(t)
        PROVE  Ledger!LedgerNext
    <2>0. PICK r \in RunIds, s \in Terminal : r = thread[t].run /\ s = thread[t].out
      BY <1>5 DEF FinishRun, ThreadShape, Shape
    <2>1. /\ Carrying(t) /\ HasRun(t)
          /\ runRow[r].status \in {"running", "deleted"}
      BY <2>0, <1>5 DEF FinishRun, ThreadShape, Shape, Carrying, HasRun, RunInv, RowOfRun
    <2>2. /\ UNCHANGED nextRun
          /\ \A u \in Threads \ {t} : thread'[u] = thread[u]
          /\ thread'[t].pc = "unregister"
      BY <1>5 DEF FinishRun, ThreadsOK, Thread
    <2>3. InFlight' = InFlight \ {r}
      <3>1. \A u \in Threads \ {t} : thread[u].run # r
        BY <2>0, <2>1 DEF RunInv, RunOwned
      <3>2. QED
        BY <2>0, <2>1, <2>2, <3>1 DEF InFlight, Carrying
    <2>4. r \in InFlight
      BY <2>0, <2>1 DEF InFlight
    <2>5. CASE runRow' = runRow
      <3>1. Ledger!EndUnrecorded(r)
        BY <2>2, <2>3, <2>4, <2>5 DEF Ledger!EndUnrecorded, InFlight
      <3>2. QED
        BY <3>1, LedgerSteps
    <2>6. CASE /\ runRow[r].status # "deleted"
               /\ runRow' = [runRow EXCEPT ![r].status = s]
      <3>1. Ledger!EndRun(r, s)
        BY <2>1, <2>2, <2>3, <2>4, <2>6 DEF Ledger!EndRun, InFlight
      <3>2. QED
        BY <3>1, LedgerSteps
    <2>7. QED
      BY <1>5, <2>0, <2>5, <2>6 DEF FinishRun
  <1>6. ASSUME NEW r \in RunIds, CancelCall(r) PROVE UNCHANGED Ledger!ledgerVars
    <2>1. \A t \in Threads : thread'[t].run = thread[t].run /\ thread'[t].pc = thread[t].pc
      BY <1>6 DEF CancelCall, ThreadsOK, Thread
    <2>2. QED
      BY <1>1, <1>6, <2>1 DEF CancelCall, Carrying, tables
  <1>7. ASSUME NEW j \in Jobs, DeleteJob(j) PROVE Ledger!JobDeleted(j)
    <2>1. InFlight' = InFlight
      BY <1>7 DEF DeleteJob, AdminVars, InFlight, Carrying
    <2>2. QED
      BY <1>7, <2>1 DEF DeleteJob, AdminVars, Ledger!JobDeleted, InFlight, RunIds
  <1>8. CASE Crash
    <2>1. InFlight' = {}
      BY <1>8 DEF Crash, Fresh, IdleThread, InFlight, Carrying
    <2>2. QED
      BY <1>8, <2>1 DEF Crash, tables, Ledger!LedgerNext, Ledger!ProcessLost, InFlight
  <1>9. ASSUME \/ ReloadRead \/ ReloadApply
               \/ \E j \in Jobs, g \in Slots : SchedStep(j, g)
               \/ \E r \in RunIds : CancelLookup(r)
               \/ \E j \in Jobs : CreateJob(j) \/ UpdateJob(j)
               \/ UNCHANGED vars
        PROVE  UNCHANGED <<runRow, nextRun, thread>>
    BY <1>9 DEF ReloadRead, ReloadApply, SchedStep, SchedGet, SchedFire, SchedSend, SchedStop,
                SchedVars, CancelLookup, CreateJob, UpdateJob, AdminVars, vars, tables
  <1>10. QED
    BY <1>2, <1>3, <1>4, <1>5, <1>6, <1>7, <1>8, <1>9 DEF Next, RunStep, Threads, Ledger!LedgerNext

\* The engine implements the run history: a run starts once, while its job has no
\* other in flight, under a new id; it ends once, and its end is never rewritten.
THEOREM EngineImplementsLedger == Spec => RunHistory
  BY InitTypes, StepTypes, InitLock, StepLock, InitRun, StepRun, InitLedger, StepLedger, PTL
  DEF Spec, RunHistory, Ledger!LedgerSpec

-----------------------------------------------------------------------------
(* The scheduling goroutines *)

LEMMA InitSched == Init => OneScheduler
  BY DEF Init, Fresh, IdleGoroutine, OneScheduler, NoSlot

LEMMA StepSched == TypeInv /\ OneScheduler /\ [Next]_vars => OneScheduler'
  <1> SUFFICES ASSUME TypeInv, OneScheduler, [Next]_vars PROVE OneScheduler'
    OBVIOUS
  <1>0. PlannerOK
    BY DEF TypeInv, TypeOK
  <1>1. CASE UNCHANGED <<jobsByID, cancelFuncs, sched>>
    BY <1>1 DEF OneScheduler
  <1>2. CASE ReloadApply
    <2>1. ASSUME NEW j \in Jobs, j \in ToStart
          PROVE  /\ jobsByID'[j] # "absent"
                 /\ cancelFuncs'[j] = NewSlot(j) /\ NewSlot(j) \in Slots
                 /\ \A g \in Slots \ {NewSlot(j)} : sched'[j][g] = sched[j][g]
      <3>1. j \notin ToStop
        BY <2>1 DEF ToStart, ToStop
      <3>2. NewSlot(j) \in Slots
        BY <1>2, <2>1 DEF ReloadApply, NewSlot, FreeSlots
      <3>3. QED
        BY <1>0, <1>2, <2>1, <3>1, <3>2 DEF ReloadApply, ToStart, PlannerOK
    <2>2. ASSUME NEW j \in Jobs, j \in ToStop
          PROVE  /\ jobsByID'[j] = "absent" /\ cancelFuncs'[j] = NoSlot
                 /\ \A g \in Slots : sched'[j][g] =
                      IF g = cancelFuncs[j] THEN [sched[j][g] EXCEPT !.done = TRUE] ELSE sched[j][g]
      <3>1. j \notin ToStart
        BY <2>2 DEF ToStart, ToStop
      <3>2. QED
        BY <1>0, <1>2, <2>2, <3>1 DEF ReloadApply, ToStop, PlannerOK
    <2>3. ASSUME NEW j \in Jobs, j \notin ToStart, j \notin ToStop
          PROVE  /\ jobsByID'[j] = "absent" <=> cancelFuncs'[j] = NoSlot
                 /\ cancelFuncs'[j] = cancelFuncs[j]
                 /\ \A g \in Slots : sched'[j][g] = sched[j][g]
      BY <1>0, <1>2, <2>3 DEF ReloadApply, ToStart, ToStop, PlannerOK
    <2>4. ASSUME NEW j \in Jobs
          PROVE  /\ jobsByID'[j] = "absent" <=> cancelFuncs'[j] = NoSlot
                 /\ \A g \in Slots : sched'[j][g].pc # "idle" /\ ~sched'[j][g].done
                                       => cancelFuncs'[j] = g
      <3>0. NoSlot \notin Slots
        BY ConstantsAssumption DEF NoSlot
      <3>1. CASE j \in ToStart
        BY <2>1, <3>0, <3>1 DEF OneScheduler, ToStart
      <3>2. CASE j \in ToStop
        <4>1. ASSUME NEW g \in Slots, sched'[j][g].pc # "idle", ~sched'[j][g].done PROVE FALSE
          <5>1. CASE g = cancelFuncs[j]
            <6>1. sched'[j][g] = [sched[j][g] EXCEPT !.done = TRUE] /\ sched[j][g] \in Goroutine
              BY <1>0, <2>2, <3>2, <5>1 DEF PlannerOK
            <6>2. QED
              BY <4>1, <6>1 DEF Goroutine
          <5>2. CASE g # cancelFuncs[j]
            BY <2>2, <3>2, <4>1, <5>2 DEF OneScheduler
          <5>3. QED
            BY <5>1, <5>2
        <4>2. QED
          BY <2>2, <3>2, <4>1
      <3>3. CASE j \notin ToStart /\ j \notin ToStop
        BY <2>3, <3>3 DEF OneScheduler
      <3>4. QED
        BY <3>1, <3>2, <3>3
    <2>5. QED
      BY <2>4 DEF OneScheduler
  <1>3. ASSUME NEW j \in Jobs, NEW g \in Slots, SchedStep(j, g) PROVE OneScheduler'
    <2>1. UNCHANGED <<jobsByID, cancelFuncs>>
      BY <1>3 DEF SchedStep, SchedGet, SchedFire, SchedSend, SchedStop, SchedVars
    <2>2. \/ sched' = [sched EXCEPT ![j][g] = IdleGoroutine]
          \/ \E p \in {"get", "wait", "send"} : sched' = [sched EXCEPT ![j][g].pc = p]
      BY <1>3 DEF SchedStep, SchedGet, SchedFire, SchedSend, SchedStop
    <2>3. sched[j][g].pc # "idle"
      BY <1>3 DEF SchedStep, SchedGet, SchedFire, SchedSend, SchedStop
    <2>4. \A k \in Jobs, h \in Slots :
            sched'[k][h].pc # "idle" /\ ~sched'[k][h].done
              => sched[k][h].pc # "idle" /\ ~sched[k][h].done
      <3>1. CASE sched' = [sched EXCEPT ![j][g] = IdleGoroutine]
        BY <1>0, <3>1 DEF PlannerOK, IdleGoroutine
      <3>2. ASSUME NEW p \in {"get", "wait", "send"}, sched' = [sched EXCEPT ![j][g].pc = p]
            PROVE  \A k \in Jobs, h \in Slots :
                     /\ sched'[k][h].done = sched[k][h].done
                     /\ <<k, h>> # <<j, g>> => sched'[k][h].pc = sched[k][h].pc
        BY <1>0, <3>2 DEF PlannerOK, Goroutine
      <3>3. QED
        BY <2>2, <2>3, <3>1, <3>2
    <2>5. QED
      BY <2>1, <2>4 DEF OneScheduler
  <1>4. CASE Crash
    BY <1>4 DEF Crash, Fresh, IdleGoroutine, OneScheduler, NoSlot
  <1>5. ASSUME \/ ReloadRead
               \/ \E w \in Workers : Take(w)
               \/ \E t \in Triggers, j \in Jobs : TriggerLoad(t, j)
               \/ \E t \in Threads : RunStep(t) \/ Timeout(t)
               \/ \E r \in RunIds : CancelLookup(r) \/ CancelCall(r)
               \/ \E j \in Jobs : CreateJob(j) \/ UpdateJob(j) \/ DeleteJob(j)
               \/ UNCHANGED vars
        PROVE  UNCHANGED <<jobsByID, cancelFuncs, sched>>
    BY <1>5 DEF ReloadRead, Take, TriggerLoad, RunStep, Timeout, TryLock, OpenSource,
                InsertRunStarted, RegisterRunCancel, Extract, DecideStatus, FinishRun,
                UnregisterRunCancel, Unlock, CancelLookup, CancelCall, CreateJob, UpdateJob,
                DeleteJob, AdminVars, planner, vars
  <1>6. QED
    BY <1>1, <1>2, <1>3, <1>4, <1>5 DEF Next

\* However stale the rows a reload applies, no job ever has two goroutines
\* scheduling it.
THEOREM SchedulerIsUnique == Spec => []OneScheduler
  BY InitTypes, StepTypes, InitSched, StepSched, PTL DEF Spec

-----------------------------------------------------------------------------
(* Stop and the status "cancelled" *)

\* Only a Stop cancels the context of a run, and only a cancelled context gives
\* a run the status "cancelled".  A thread that has no run yet was not stopped.
StopInv ==
  /\ \A t \in Threads :
       /\ HasRun(t) /\ thread[t].ctx = "canceled" => stop[thread[t].run] = "sent"
       /\ Carrying(t) /\ thread[t].out = "cancelled" => stop[thread[t].run] = "sent"
       /\ thread[t].pc \in {"lock", "source", "insert"}
            => thread[t].ctx = "live" /\ thread[t].out = "none"
  /\ CancelledWasStopped

LEMMA InitStop == Init => StopInv
  BY DEF Init, Fresh, IdleThread, StopInv, HasRun, Carrying, CancelledWasStopped

LEMMA StepStop == TypeInv /\ RunInv /\ StopInv /\ [Next]_vars => StopInv'
  <1> SUFFICES ASSUME TypeInv, RunInv, StopInv, [Next]_vars PROVE StopInv'
    OBVIOUS
  <1> USE DEF TypeInv, TypeOK
  <1>1. CASE UNCHANGED <<runRow, stop, thread>>
    BY <1>1 DEF StopInv, HasRun, Carrying, CancelledWasStopped
  <1>2. ASSUME NEW t \in Threads, UNCHANGED <<runRow, stop>>,
               \A u \in Threads \ {t} : thread'[u] = thread[u],
               \/ thread'[t].pc \in {"idle", "unlock"}
               \/ /\ thread'[t].pc \in {"lock", "source", "insert"}
                  /\ thread'[t].ctx = "live" /\ thread'[t].out = "none"
               \/ /\ thread'[t].pc \in {"register", "exec", "record", "finish", "unregister"}
                  /\ thread'[t].ctx = "canceled" => stop[thread'[t].run] = "sent"
                  /\ thread'[t].out = "cancelled" => stop[thread'[t].run] = "sent"
        PROVE  StopInv'
    BY <1>2 DEF StopInv, HasRun, Carrying, CancelledWasStopped
  <1>3. ASSUME NEW t \in Threads,
                (t \in Workers /\ Take(t)) \/ (\E j \in Jobs : TriggerLoad(t, j))
        PROVE  StopInv'
    BY <1>2, <1>3 DEF Take, TriggerLoad, Starting, tables, ThreadsOK
  <1>4. ASSUME NEW t \in Threads, TryLock(t) \/ OpenSource(t) \/ Unlock(t) PROVE StopInv'
    <2>1. /\ UNCHANGED <<runRow, stop>>
          /\ \A u \in Threads \ {t} : thread'[u] = thread[u]
      BY <1>4 DEF TryLock, OpenSource, Unlock, tables, ThreadsOK
    <2>2. \/ thread'[t].pc \in {"idle", "unlock"}
          \/ /\ thread'[t].pc \in {"lock", "source", "insert"}
             /\ thread'[t].ctx = "live" /\ thread'[t].out = "none"
      BY <1>4 DEF TryLock, OpenSource, Unlock, IdleThread, StopInv, ThreadsOK, Thread
    <2>3. QED
      BY <1>2, <2>1, <2>2
  <1>5. ASSUME NEW t \in Threads, InsertRunStarted(t) PROVE StopInv'
    <2>1. /\ \A u \in Threads \ {t} : thread'[u] = thread[u]
          /\ UNCHANGED stop
          /\ \/ thread'[t].pc = "unlock"
             \/ thread'[t].pc = "register" /\ thread'[t].ctx = "live" /\ thread'[t].out = "none"
      BY <1>5 DEF InsertRunStarted, StopInv, ThreadsOK, Thread
    <2>2. \A r \in RunIds : runRow'[r].status = "cancelled" => runRow[r].status = "cancelled"
      BY <1>5 DEF InsertRunStarted, TablesOK
    <2>3. QED
      BY <2>1, <2>2 DEF StopInv, HasRun, Carrying, CancelledWasStopped
  <1>6. ASSUME NEW t \in Threads, RegisterRunCancel(t) \/ Extract(t) \/ Timeout(t)
        PROVE  StopInv'
    <2>1. /\ UNCHANGED <<runRow, stop>>
          /\ \A u \in Threads \ {t} : thread'[u] = thread[u]
          /\ Carrying(t) /\ HasRun(t)
      BY <1>6 DEF RegisterRunCancel, Extract, Timeout, tables, ThreadsOK, Carrying, HasRun
    <2>2. /\ thread'[t].pc \in {"register", "exec", "record", "finish", "unregister"}
          /\ thread'[t].run = thread[t].run
          /\ thread'[t].ctx = "canceled" => thread[t].ctx = "canceled"
          /\ thread'[t].out = "cancelled" => thread[t].out = "cancelled"
      BY <1>6 DEF RegisterRunCancel, Extract, Timeout, ThreadsOK, Thread
    <2>3. QED
      BY <1>2, <2>1, <2>2 DEF StopInv
  <1>7. ASSUME NEW t \in Threads, DecideStatus(t) PROVE StopInv'
    <2>1. /\ UNCHANGED <<runRow, stop>>
          /\ \A u \in Threads \ {t} : thread'[u] = thread[u]
          /\ HasRun(t)
      BY <1>7 DEF DecideStatus, tables, ThreadsOK, Carrying, HasRun
    <2>2. /\ thread'[t].pc = "finish"
          /\ thread'[t].run = thread[t].run
          /\ thread'[t].ctx = thread[t].ctx
          /\ thread'[t].out = "cancelled" => thread[t].ctx = "canceled"
      BY <1>7 DEF DecideStatus, ThreadsOK, Thread
    <2>3. QED
      BY <1>2, <2>1, <2>2 DEF StopInv
  <1>8. ASSUME NEW t \in Threads, FinishRun(t) PROVE StopInv'
    <2>1. /\ UNCHANGED stop
          /\ \A u \in Threads \ {t} : thread'[u] = thread[u]
          /\ Carrying(t) /\ HasRun(t)
          /\ thread'[t].pc = "unregister" /\ thread'[t].run = thread[t].run
          /\ thread'[t].ctx = thread[t].ctx
      BY <1>8 DEF FinishRun, ThreadsOK, Thread, Carrying, HasRun
    <2>2. \A r \in RunIds : runRow'[r].status = "cancelled" =>
            \/ runRow[r].status = "cancelled"
            \/ r = thread[t].run /\ thread[t].out = "cancelled"
      BY <1>8 DEF FinishRun, TablesOK
    <2>3. CancelledWasStopped'
      BY <2>1, <2>2 DEF StopInv, CancelledWasStopped
    <2>4. QED
      BY <2>1, <2>3 DEF StopInv, HasRun, Carrying
  <1>9. ASSUME NEW t \in Threads, UnregisterRunCancel(t) PROVE StopInv'
    <2>1. /\ UNCHANGED <<runRow, stop>>
          /\ \A u \in Threads \ {t} : thread'[u] = thread[u]
          /\ thread'[t].pc = "unlock"
      BY <1>9 DEF UnregisterRunCancel, tables, ThreadsOK, Thread
    <2>2. QED
      BY <1>2, <2>1
  <1>10. ASSUME NEW r \in RunIds, CancelLookup(r) PROVE StopInv'
    <2>1. /\ UNCHANGED <<runRow, thread>>
          /\ \A s \in RunIds : stop[s] = "sent" => stop'[s] = "sent"
      BY <1>10 DEF CancelLookup, tables, HistoryOK
    <2>2. \A t \in Threads : HasRun(t) => thread[t].run \in RunIds
      BY DEF HasRun, Carrying, ThreadShape, Shape
    <2>3. \A t \in Threads : (HasRun(t)' <=> HasRun(t)) /\ (Carrying(t)' <=> Carrying(t))
      BY <2>1 DEF HasRun, Carrying
    <2>4. \A t \in Threads : Carrying(t) => HasRun(t)
      BY DEF HasRun
    <2>5. QED
      BY <2>1, <2>2, <2>3, <2>4 DEF StopInv, CancelledWasStopped
  <1>11. ASSUME NEW r \in RunIds, CancelCall(r) PROVE StopInv'
    <2>1. /\ UNCHANGED runRow
          /\ stop'[r] = "sent"
          /\ \A s \in RunIds : stop[s] = "sent" => stop'[s] = "sent"
      BY <1>11 DEF CancelCall, tables, HistoryOK
    <2>2. \A t \in Threads :
            /\ thread'[t].run = thread[t].run /\ thread'[t].pc = thread[t].pc
            /\ thread'[t].out = thread[t].out
            /\ thread[t].run = r \/ thread'[t].ctx = thread[t].ctx
      BY <1>11 DEF CancelCall, ThreadsOK, Thread
    <2>3. \A t \in Threads : HasRun(t) => thread[t].run \in RunIds
      BY DEF HasRun, Carrying, ThreadShape, Shape
    <2>4. \A t \in Threads : (HasRun(t)' <=> HasRun(t)) /\ (Carrying(t)' <=> Carrying(t))
      BY <2>2 DEF HasRun, Carrying
    <2>5. \A t \in Threads : /\ Carrying(t) => HasRun(t)
                             /\ thread[t].pc \in {"lock", "source", "insert"} => ~HasRun(t)
      BY DEF HasRun, Carrying
    <2>6. \A t \in Threads : ~HasRun(t) => thread[t].run # r
      BY DEF RunInv, RunOwned, NoRun, RunIds
    <2>7. QED
      BY <2>1, <2>2, <2>3, <2>4, <2>5, <2>6 DEF StopInv, CancelledWasStopped
  <1>12. ASSUME NEW j \in Jobs, DeleteJob(j) PROVE StopInv'
    <2>1. UNCHANGED <<stop, thread>>
      BY <1>12 DEF DeleteJob, AdminVars
    <2>2. \A r \in RunIds : runRow'[r].status = "cancelled" => runRow[r].status = "cancelled"
      BY <1>12 DEF DeleteJob, TablesOK
    <2>3. QED
      BY <2>1, <2>2 DEF StopInv, HasRun, Carrying, CancelledWasStopped
  <1>13. CASE Crash
    <2>1. /\ UNCHANGED runRow
          /\ \A r \in RunIds : stop[r] = "sent" => stop'[r] = "sent"
          /\ \A t \in Threads : thread'[t] = IdleThread
      BY <1>13 DEF Crash, Fresh, tables
    <2>2. QED
      BY <2>1 DEF StopInv, HasRun, Carrying, CancelledWasStopped, IdleThread
  <1>14. ASSUME \/ ReloadRead \/ ReloadApply
                \/ \E j \in Jobs, g \in Slots : SchedStep(j, g)
                \/ \E j \in Jobs : CreateJob(j) \/ UpdateJob(j)
                \/ UNCHANGED vars
         PROVE  UNCHANGED <<runRow, stop, thread>>
    BY <1>14 DEF ReloadRead, ReloadApply, SchedStep, SchedGet, SchedFire, SchedSend, SchedStop,
                 SchedVars, CreateJob, UpdateJob, AdminVars, vars, tables
  <1>15. QED
    BY <1>1, <1>3, <1>4, <1>5, <1>6, <1>7, <1>8, <1>9, <1>10, <1>11, <1>12, <1>13, <1>14
    DEF Next, RunStep, Threads

\* The history says "cancelled" only of runs an operator stopped.
THEOREM CancelledMeansStopped == Spec => []CancelledWasStopped
  <1>1. StopInv => CancelledWasStopped
    BY DEF StopInv
  <1>2. QED
    BY InitTypes, StepTypes, InitRun, StepRun, InitStop, StepStop, <1>1, PTL DEF Spec

==============================================================================
