------------------------------ MODULE RunLedger ------------------------------
(***************************************************************************)
(* What app.etl_job_runs promises its readers (ListRunningRuns, ListRuns,  *)
(* ListAllRuns): a run is started once, under a new id, while its job has  *)
(* no other run in flight; it ends once, and its end is never rewritten.   *)
(* A run the process lost track of keeps the status "running" for ever.    *)
(***************************************************************************)
EXTENDS Naturals

CONSTANTS Jobs, NoJob, MaxRuns

VARIABLES runRow, \* the table
          nextRun,
          live    \* the runs in flight in the current process

ledgerVars == <<runRow, nextRun, live>>

Ended == {"success", "failed", "cancelled"}

LedgerInit ==
  /\ runRow = [r \in 1..MaxRuns |-> [job |-> NoJob, status |-> "none"]]
  /\ nextRun = 1
  /\ live = {}

Insert(j) ==
  /\ nextRun \in 1..MaxRuns
  /\ runRow' = [runRow EXCEPT ![nextRun] = [job |-> j, status |-> "running"]]
  /\ nextRun' = nextRun + 1

StartRun(j) ==
  /\ \A r \in live : runRow[r].job # j
  /\ Insert(j)
  /\ live' = live \cup {nextRun}

\* The row is written but whoever asked for it never learns of it.
StartLost(j) ==
  /\ Insert(j)
  /\ UNCHANGED live

EndRun(r, s) ==
  /\ r \in live
  /\ runRow[r].status = "running"
  /\ runRow' = [runRow EXCEPT ![r].status = s]
  /\ live' = live \ {r}
  /\ UNCHANGED nextRun

\* The end of a run is not recorded: its row is gone, or the update failed.
EndUnrecorded(r) ==
  /\ r \in live
  /\ live' = live \ {r}
  /\ UNCHANGED <<runRow, nextRun>>

ProcessLost == live' = {} /\ UNCHANGED <<runRow, nextRun>>

JobDeleted(j) ==
  /\ runRow' = [r \in 1..MaxRuns |-> IF runRow[r].job = j
                  THEN [runRow[r] EXCEPT !.status = "deleted"] ELSE runRow[r]]
  /\ UNCHANGED <<nextRun, live>>

LedgerNext ==
  \/ \E j \in Jobs : StartRun(j) \/ StartLost(j) \/ JobDeleted(j)
  \/ \E r \in 1..MaxRuns : EndUnrecorded(r) \/ \E s \in Ended : EndRun(r, s)
  \/ ProcessLost

LedgerSpec == LedgerInit /\ [][LedgerNext]_ledgerVars

==============================================================================
