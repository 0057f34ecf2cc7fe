------------------------------ MODULE Scheduler ------------------------------
(***************************************************************************)
(* The in-process scheduler, backend/app/core/scheduler, and the table of  *)
(* scheduled jobs.  The table is read when the process starts and not      *)
(* again: a job that is added, changed or switched off later goes on as it *)
(* was until the process restarts.                                         *)
(***************************************************************************)
EXTENDS FiniteSets

CONSTANTS
  Jobs,      \* ids of scheduled_jobs
  JobRows    \* bound: what a job may be saved as: [on, type, trigger]

\* JobType, and whether _dispatch has a branch that can do it: the one for
\* notifications imports a function that is not there, verification has none.
Types == {"discovery", "network_scan", "ct_monitor", "renewal", "health", "compliance",
          "backup", "notification", "retention", "verification"}
Handled == Types \ {"notification", "verification"}

ASSUME SchedulerAssumption ==
  JobRows \subseteq [on: BOOLEAN, type: Types, trigger: BOOLEAN]

VARIABLES
  jobs,    \* the scheduled_jobs table; "nil": no such row
  timer,   \* type of the job as registered, or "none"
  up,      \* the scheduler runs
  busy     \* jobs that are being dispatched

svars == <<jobs, timer, up, busy>>

NoJob == [on |-> FALSE, type |-> "nil", trigger |-> FALSE]

SchedulerInit ==
  /\ jobs = [j \in Jobs |-> NoJob]
  /\ timer = [j \in Jobs |-> "none"]
  /\ up = FALSE
  /\ busy = {}

\* POST and PATCH /scheduled-jobs: the row, and nothing else
SaveJob(j, row) ==
  /\ row # jobs[j]
  /\ jobs' = [jobs EXCEPT ![j] = row]
  /\ UNCHANGED <<timer, up, busy>>

\* A schedule that cannot be parsed has no trigger, and the job is left out.
Registered(row) == IF row.on /\ row.trigger THEN row.type ELSE "none"

StartScheduler ==
  /\ ~up
  /\ up' = TRUE
  /\ timer' = [j \in Jobs |-> Registered(jobs[j])]
  /\ UNCHANGED <<jobs, busy>>

\* The process stops; jobs are not waited for, and their threads end with it.
StopScheduler ==
  /\ up
  /\ up' = FALSE
  /\ timer' = [j \in Jobs |-> "none"]
  /\ busy' = {}
  /\ UNCHANGED jobs

\* A trigger fires, unless the last run of the job has not ended (max_instances).
Fire(j, type) ==
  /\ timer[j] = type
  /\ type \in Handled
  /\ j \notin busy
  /\ busy' = busy \cup {j}
  /\ UNCHANGED <<jobs, timer, up>>

\* _dispatch returns, whatever was raised.
Dispatched(j) ==
  /\ busy' = busy \ {j}
  /\ UNCHANGED <<jobs, timer, up>>
==============================================================================
