------------------------------- MODULE Backups -------------------------------
(***************************************************************************)
(* Scheduled backup jobs: the backup_jobs rows, the scheduler's own list   *)
(* in memory, and the runs.  Creating and updating are handlers of the     *)
(* event loop, toggling, deleting and "run now" have threads of their own, *)
(* so that requests on one job and its runs interleave between commits.    *)
(***************************************************************************)
EXTENDS Naturals, FiniteSets

CONSTANTS
    Jobs,         \* identifiers of backup jobs
    Requests,     \* requests of the API, each made once
    Runs,         \* runs that may be active at a time
    MaxEvents     \* bound: restarts and commits that fail

VARIABLES
    row,          \* row[j] of backup_jobs
    sched,        \* jobs the scheduler knows
    req,          \* req[r]: the request, how far it is and what it has read
    run,          \* run[n]: the active runs
    contested,    \* history: jobs with overlapping requests or a failed commit
    stuck,        \* history: jobs whose run was lost, or could not say how it ended
    events

vars == <<row, sched, req, run, contested, stuck, events>>

NoRow == [there |-> FALSE, enabled |-> FALSE, valid |-> FALSE, status |-> "none"]
NoReq == [pc |-> "new", job |-> "-", read |-> FALSE]
NoRun == [pc |-> "idle", job |-> "-", cron |-> FALSE, loaded |-> "none"]

\* After a start: the scheduler is filled from the rows (valid: the cron
\* expression is one).
Init ==
    /\ row \in [Jobs -> {NoRow} \union
                    [there : {TRUE}, enabled : BOOLEAN, valid : BOOLEAN, status : {"none", "success"}]]
    /\ sched = {j \in Jobs : row[j].there /\ row[j].enabled /\ row[j].valid}
    /\ req = [r \in Requests |-> NoReq]
    /\ run = [n \in Runs |-> NoRun]
    /\ contested = {} /\ stuck = {} /\ events = 0

-----------------------------------------------------------------------------
Event == events < MaxEvents /\ events' = events + 1
Open(j) == {r \in Requests : req[r].job = j /\ req[r].pc \notin {"new", "done"}}
GoTo(r, pc) == req' = [req EXCEPT ![r].pc = pc]
At(r, pc) == req[r].pc = pc

Begin(r, j, pc) ==
    /\ req[r].pc = "new"
    /\ req' = [req EXCEPT ![r] = [pc |-> pc, job |-> j, read |-> row[j].enabled]]
    /\ contested' = IF Open(j) = {} THEN contested ELSE contested \union {j}

\* add_job_from_model: a disabled job, or one whose expression is none, is left
\* as the scheduler has it.
AddJob(j, enabled) == IF enabled /\ row[j].valid THEN sched \union {j} ELSE sched

(* POST and PUT: handlers of the event loop.                               *)
Create(r, j) ==
    /\ ~row[j].there /\ Open(j) = {}
    /\ Begin(r, j, "register")
    /\ \E on, valid \in BOOLEAN :
          row' = [row EXCEPT ![j] = [there |-> TRUE, enabled |-> on, valid |-> valid, status |-> "none"]]
    /\ UNCHANGED <<sched, run, stuck, events>>

Register(r) ==
    /\ At(r, "register")
    /\ sched' = IF row[req[r].job].there THEN AddJob(req[r].job, row[req[r].job].enabled) ELSE sched
    /\ GoTo(r, "done")
    /\ UNCHANGED <<row, run, contested, stuck, events>>

\* The row is read before the body of the request is waited for.
Update(r, j) ==
    /\ row[j].there
    /\ Begin(r, j, "body")
    /\ UNCHANGED <<row, sched, run, stuck, events>>

\* The session writes "enabled" when it differs from what was read; the commit
\* of a row that is gone fails.
CommitUpdate(r) ==
    /\ At(r, "body")
    /\ LET j == req[r].job IN
       IF ~row[j].there THEN GoTo(r, "done") /\ UNCHANGED row
       ELSE \E on, valid \in BOOLEAN :
              LET now == IF on = req[r].read THEN row[j].enabled ELSE on IN
              /\ row' = [row EXCEPT ![j].enabled = now, ![j].valid = valid]
              /\ req' = [req EXCEPT ![r].pc = "reschedule", ![r].read = now]
    /\ UNCHANGED <<sched, run, contested, stuck, events>>

\* Mutant: a job that was disabled stays with the scheduler.
MutReschedule(r) ==
    /\ At(r, "reschedule")
    /\ sched' = AddJob(req[r].job, req[r].read)
    /\ GoTo(r, "done")
    /\ UNCHANGED <<row, run, contested, stuck, events>>

Reschedule(r) ==
    /\ At(r, "reschedule")
    /\ LET j == req[r].job IN
       sched' = IF req[r].read /\ row[j].valid THEN sched \union {j} ELSE sched \ {j}
    /\ GoTo(r, "done")
    /\ UNCHANGED <<row, run, contested, stuck, events>>

(* PATCH toggle and DELETE: threads of the pool.                           *)
Toggle(r, j) ==
    /\ row[j].there
    /\ Begin(r, j, "flip")
    /\ UNCHANGED <<row, sched, run, stuck, events>>

CommitToggle(r) ==
    /\ At(r, "flip")
    /\ LET j == req[r].job IN
       IF row[j].there
       THEN row' = [row EXCEPT ![j].enabled = ~req[r].read] /\ GoTo(r, "reload")
       ELSE UNCHANGED row /\ GoTo(r, "done")
    /\ UNCHANGED <<sched, run, contested, stuck, events>>

\* After the commit the row is loaded again: what it says now is applied.
ReloadToggle(r) ==
    /\ At(r, "reload")
    /\ LET j == req[r].job IN
       req' = [req EXCEPT ![r].pc = IF row[j].there THEN "apply" ELSE "done",
                          ![r].read = row[j].enabled]
    /\ UNCHANGED <<row, sched, run, contested, stuck, events>>

ApplyToggle(r) ==
    /\ At(r, "apply")
    /\ LET j == req[r].job IN
       sched' = IF req[r].read THEN AddJob(j, TRUE) ELSE sched \ {j}
    /\ GoTo(r, "done")
    /\ UNCHANGED <<row, run, contested, stuck, events>>

Delete(r, j) ==
    /\ row[j].there
    /\ Begin(r, j, "erase")
    /\ sched' = sched \ {j}
    /\ UNCHANGED <<row, run, stuck, events>>

\* A commit that fails leaves a row the scheduler has forgotten.
CommitDelete(r) ==
    /\ At(r, "erase")
    /\ LET j == req[r].job IN
       \/ row' = [row EXCEPT ![j] = NoRow] /\ UNCHANGED <<contested, events>>
       \/ UNCHANGED row /\ contested' = contested \union {j} /\ Event
    /\ GoTo(r, "done")
    /\ UNCHANGED <<sched, run, stuck>>

-----------------------------------------------------------------------------
(* Runs.                                                                   *)
Idle(n) == run[n].pc = "idle"
StartRun(n, j, cron) == run' = [run EXCEPT ![n] = [pc |-> "load", job |-> j, cron |-> cron, loaded |-> "none"]]
RunTo(n, pc) == run' = [run EXCEPT ![n].pc = pc]

\* The scheduler runs a job once at a time; a request to run it now is not asked.
Fire(n, j) ==
    /\ Idle(n) /\ j \in sched
    /\ \A m \in Runs : ~(run[m].job = j /\ run[m].cron)
    /\ StartRun(n, j, TRUE)
    /\ UNCHANGED <<row, sched, req, contested, stuck, events>>

RunNow(r, n, j) ==
    /\ At(r, "new") /\ row[j].there /\ Idle(n)
    /\ StartRun(n, j, FALSE)
    /\ GoTo(r, "done")
    /\ UNCHANGED <<row, sched, contested, stuck, events>>

LoadJob(n) ==
    /\ run[n].pc = "load"
    /\ LET j == run[n].job IN
       IF row[j].there THEN run' = [run EXCEPT ![n].pc = "mark", ![n].loaded = row[j].status]
                       ELSE run' = [run EXCEPT ![n] = NoRun]
    /\ UNCHANGED <<row, sched, req, contested, stuck, events>>

\* _update_job_status: a status equal to the one loaded is not written, one
\* that cannot be written is forgotten.
Written(n, st) ==
    LET j == run[n].job IN
    IF row[j].there /\ st # run[n].loaded THEN [row EXCEPT ![j].status = st] ELSE row

\* Without a server the run fails here.
MarkRunning(n) ==
    /\ run[n].pc = "mark"
    /\ \/ row' = Written(n, "running") /\ RunTo(n, "reload")
       \/ row' = Written(n, "failed") /\ run' = [run EXCEPT ![n] = NoRun]
    /\ UNCHANGED <<sched, req, contested, stuck, events>>

\* Mutant: a job that was disabled meanwhile ends the run.
MutReloadJob(n) ==
    /\ run[n].pc = "reload"
    /\ LET j == run[n].job IN
       IF row[j].enabled THEN run' = [run EXCEPT ![n].pc = "end", ![n].loaded = row[j].status]
                         ELSE run' = [run EXCEPT ![n] = NoRun]
    /\ UNCHANGED <<row, sched, req, contested, stuck, events>>

\* The row is read again for what is to be saved; if it is gone the run breaks off.
ReloadJob(n) ==
    /\ run[n].pc = "reload"
    /\ LET j == run[n].job IN
       IF row[j].there THEN run' = [run EXCEPT ![n].pc = "end", ![n].loaded = row[j].status]
                       ELSE run' = [run EXCEPT ![n] = NoRun]
    /\ UNCHANGED <<row, sched, req, contested, stuck, events>>

\* Mutant: a status no reader of the rows knows.
MutEndRun(n) ==
    /\ run[n].pc = "end"
    /\ \E out \in {"success", "error"} : row' = Written(n, out)
    /\ run' = [run EXCEPT ![n] = NoRun]
    /\ UNCHANGED <<sched, req, contested, stuck, events>>

\* Every guest is asked for, one refusal makes the run a failure.
EndRun(n) ==
    /\ run[n].pc = "end"
    /\ \/ \E out \in {"success", "failed"} : row' = Written(n, out) /\ UNCHANGED <<stuck, events>>
       \/ UNCHANGED row /\ stuck' = stuck \union {run[n].job} /\ Event
    /\ run' = [run EXCEPT ![n] = NoRun]
    /\ UNCHANGED <<sched, req, contested>>

\* The process is lost and started again: the scheduler is filled from the rows.
Restart ==
    /\ Event
    /\ stuck' = stuck \union {run[n].job : n \in {m \in Runs : run[m].pc \in {"reload", "end"}}}
    /\ run' = [n \in Runs |-> NoRun]
    /\ req' = [r \in Requests |-> IF req[r].pc = "new" THEN NoReq ELSE [req[r] EXCEPT !.pc = "done"]]
    /\ sched' = {j \in Jobs : row[j].there /\ row[j].enabled /\ row[j].valid}
    /\ UNCHANGED <<row, contested>>

Next ==
    \/ \E r \in Requests :
          \/ \E j \in Jobs : Create(r, j) \/ Update(r, j) \/ Toggle(r, j) \/ Delete(r, j)
          \/ \E j \in Jobs, n \in Runs : RunNow(r, n, j)
          \/ Register(r) \/ CommitUpdate(r) \/ Reschedule(r)
          \/ CommitToggle(r) \/ ReloadToggle(r) \/ ApplyToggle(r) \/ CommitDelete(r)
    \/ \E n \in Runs : \/ \E j \in Jobs : Fire(n, j)
                       \/ LoadJob(n) \/ MarkRunning(n) \/ ReloadJob(n) \/ EndRun(n)
    \/ Restart

Spec == Init /\ [][Next]_vars

-----------------------------------------------------------------------------
Statuses == {"none", "running", "success", "failed"}
TypeOK ==
    /\ row \in [Jobs -> [there : BOOLEAN, enabled : BOOLEAN, valid : BOOLEAN, status : Statuses]]
    /\ sched \subseteq Jobs
    /\ \A r \in Requests : req[r].job \in Jobs \union {"-"}
    /\ \A n \in Runs : run[n].loaded \in Statuses
    /\ contested \subseteq Jobs /\ stuck \subseteq Jobs /\ events \in 0..MaxEvents

\* The scheduler's memory and the table agree: a job whose requests came one
\* after the other is scheduled exactly when its row is there, enabled and has
\* a cron expression, whatever restarts and runs came between.
ScheduleFollows ==
    \A j \in Jobs \ contested : Open(j) = {} =>
        (j \in sched <=> row[j].there /\ row[j].enabled /\ row[j].valid)

\* A job is shown as running only while a run of it is, however scheduled runs
\* and runs on request overlap; a run that was lost with the process, or whose
\* last commit failed, is the exception: nothing corrects its status.
RunningHasRun ==
    \A j \in Jobs \ stuck : row[j].status = "running" =>
        \E n \in Runs : run[n].job = j /\ run[n].pc \in {"mark", "reload", "end"}
=============================================================================
