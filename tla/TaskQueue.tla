------------------------------ MODULE TaskQueue ------------------------------
(***************************************************************************)
(* The bulk-operation queue: services/task_queue_service.py, the two API   *)
(* handlers that feed it, and the job of the monitoring scheduler that     *)
(* drains it every five seconds.                                           *)
(*                                                                         *)
(* Three kinds of process share the task_queue table.  The processor (one  *)
(* APScheduler job, max_instances = 1) picks the oldest pending task and   *)
(* issues one Proxmox call per item.  Request threads cancel tasks: they   *)
(* read the row in one statement and write it in a later one, by primary   *)
(* key and without a version check.  The backend process may crash and is  *)
(* restarted by the container runtime.                                     *)
(*                                                                         *)
(* A task is named by its rank in created_at order.  created_at is the     *)
(* start of the inserting transaction, so a task may be inserted after a   *)
(* task of higher rank: CreateTask picks any unused rank.                  *)
(***************************************************************************)
EXTENDS Naturals, Sequences

CONSTANTS
    MaxTasks,       \* bound: number of bulk tasks ever created
    Total,          \* Total[t]: number of items of task t (total_items)
    Users,          \* panel users
    Owner,          \* Owner[t]: the user who created task t (user_id)
    Requests,       \* request threads that may serve a cancel
    MaxCrashes,     \* bound: backend crashes
    MaxDbErrors     \* bound: database errors met by the processor

Tasks == 1..MaxTasks
NoTask == 0

ASSUME BoundsAssumption == MaxTasks \in Nat /\ MaxCrashes \in Nat /\ MaxDbErrors \in Nat
ASSUME TotalAssumption == Total \in [Tasks -> Nat \ {0}]
ASSUME OwnerAssumption == Owner \in [Tasks -> Users]

VARIABLES
    status,      \* status[t]: the column task_queue.status, or the row's absence
    completed,   \* completed[t]: completed_items
    failed,      \* failed[t]: failed_items
    results,     \* results[t]: the JSON column, one success flag per item done
    pc,          \* where the processor is
    cur,         \* the task the processor holds
    res,         \* the processor's local list of results
    req,         \* req[r]: the task request thread r read as pending
    up,          \* the backend process is running
    crashes, dbErrors,   \* how much of the fault bounds is used
    calls        \* history: calls[t] lists the items a Proxmox call was made for

rowVars == <<status, completed, failed, results>>
procVars == <<pc, cur, res>>
faultVars == <<up, crashes, dbErrors>>
vars == <<status, completed, failed, results, pc, cur, res, req,
          up, crashes, dbErrors, calls>>

Done == {"completed", "failed", "cancelled"}
Status == {"none", "pending", "running", "deleted"} \union Done

\* What one item can come to: no usable client for its server, a Proxmox call
\* that raises, or a call that returns.
ItemOutcomes == {"no_client", "error", "ok"}

Init ==
    /\ status = [t \in Tasks |-> "none"]
    /\ completed = [t \in Tasks |-> 0]
    /\ failed = [t \in Tasks |-> 0]
    /\ results = [t \in Tasks |-> << >>]
    /\ pc = "idle" /\ cur = NoTask /\ res = << >>
    /\ req = [r \in Requests |-> NoTask]
    /\ up = TRUE /\ crashes = 0 /\ dbErrors = 0
    /\ calls = [t \in Tasks |-> << >>]

-----------------------------------------------------------------------------
(* The API handlers.                                                       *)

\* POST /api/bulk-operation: one committed INSERT.
CreateTask(t) ==
    /\ up /\ status[t] = "none"
    /\ status' = [status EXCEPT ![t] = "pending"]
    /\ UNCHANGED <<completed, failed, results, procVars, req, faultVars, calls>>

\* cancel_task, first half: the SELECT that filters on owner and 'pending'.
CancelRead(r, u, t) ==
    /\ up /\ req[r] = NoTask
    /\ Owner[t] = u /\ status[t] = "pending"
    /\ req' = [req EXCEPT ![r] = t]
    /\ UNCHANGED <<rowVars, procVars, faultVars, calls>>

\* cancel_task, second half: UPDATE by primary key.  A row deleted in between
\* matches nothing and the request fails.
CancelCommit(r) ==
    LET t == req[r] IN
    /\ up /\ t # NoTask
    /\ req' = [req EXCEPT ![r] = NoTask]
    /\ \/ /\ status[t] # "deleted"
          /\ status' = [status EXCEPT ![t] = "cancelled"]
       \/ /\ status[t] = "deleted"
          /\ UNCHANGED status
    /\ UNCHANGED <<completed, failed, results, procVars, faultVars, calls>>

\* DELETE /api/all-tasks/completed: every finished row of the user goes.
ClearCompleted(u) ==
    /\ up
    /\ \E t \in Tasks : Owner[t] = u /\ status[t] \in Done
    /\ status' = [t \in Tasks |-> IF Owner[t] = u /\ status[t] \in Done
                                  THEN "deleted" ELSE status[t]]
    /\ UNCHANGED <<completed, failed, results, procVars, req, faultVars, calls>>

-----------------------------------------------------------------------------
(* The processor.                                                          *)

OldestPending(t) ==
    /\ status[t] = "pending"
    /\ \A s \in Tasks : status[s] = "pending" => t <= s

\* Mutant: the look-out for a 'running' row is dropped.
MutPickTask ==
    /\ up /\ pc = "idle"
    /\ \E t \in Tasks : OldestPending(t) /\ cur' = t
    /\ pc' = "picked"
    /\ UNCHANGED <<rowVars, res, req, faultVars, calls>>

\* process_pending_tasks: nothing is picked while a row is 'running'.
PickTask ==
    /\ up /\ pc = "idle"
    /\ \A t \in Tasks : status[t] # "running"
    /\ \E t \in Tasks : OldestPending(t) /\ cur' = t
    /\ pc' = "picked"
    /\ UNCHANGED <<rowVars, res, req, faultVars, calls>>

\* Mutant: the processor keeps the task it is done with.
MutGoIdle == pc' = "idle" /\ UNCHANGED cur /\ res' = << >>

GoIdle == pc' = "idle" /\ cur' = NoTask /\ res' = << >>

\* process_task reads the row again in its own session, and returns when it
\* is no longer pending.
LoadTask ==
    /\ up /\ pc = "picked"
    /\ \/ status[cur] = "pending" /\ pc' = "loaded" /\ UNCHANGED <<cur, res>>
       \/ status[cur] # "pending" /\ GoIdle
    /\ UNCHANGED <<rowVars, req, faultVars, calls>>

\* status = 'running' is committed by primary key, whatever the row holds by
\* now.  Only a deleted row makes the UPDATE fail.
MarkRunning ==
    /\ up /\ pc = "loaded"
    /\ \/ /\ status[cur] # "deleted"
          /\ status' = [status EXCEPT ![cur] = "running"]
          /\ pc' = "loop" /\ res' = << >> /\ UNCHANGED cur
       \/ status[cur] = "deleted" /\ GoIdle /\ UNCHANGED status
    /\ UNCHANGED <<completed, failed, results, req, faultVars, calls>>

\* One item: find the client, issue the Proxmox call, remember the outcome.
ProcessItem ==
    /\ up /\ pc = "loop" /\ Len(res) < Total[cur]
    /\ \E o \in ItemOutcomes :
        /\ res' = Append(res, o = "ok")
        /\ calls' = IF o = "no_client" THEN calls
                    ELSE [calls EXCEPT ![cur] = Append(calls[cur], Len(res) + 1)]
    /\ pc' = "done_item"
    /\ UNCHANGED <<rowVars, cur, req, faultVars>>

\* Mutant: an item that failed is not counted.
MutCommitItem ==
    /\ up /\ pc = "done_item"
    /\ completed' = IF status[cur] # "deleted" /\ res[Len(res)]
                    THEN [completed EXCEPT ![cur] = @ + 1] ELSE completed
    /\ results' = IF status[cur] # "deleted" THEN [results EXCEPT ![cur] = res] ELSE results
    /\ IF status[cur] # "deleted" THEN pc' = "loop" /\ UNCHANGED <<cur, res>> ELSE GoIdle
    /\ UNCHANGED <<status, failed, req, faultVars, calls>>

\* The counters are read back from the row, so a deleted row ends the task.
CommitItem ==
    /\ up /\ pc = "done_item"
    /\ \/ /\ status[cur] # "deleted"
          /\ IF res[Len(res)]
             THEN /\ completed' = [completed EXCEPT ![cur] = completed[cur] + 1]
                  /\ UNCHANGED failed
             ELSE /\ failed' = [failed EXCEPT ![cur] = failed[cur] + 1]
                  /\ UNCHANGED completed
          /\ results' = [results EXCEPT ![cur] = res]
          /\ pc' = "loop" /\ UNCHANGED <<cur, res>>
       \/ /\ status[cur] = "deleted" /\ GoIdle
          /\ UNCHANGED <<completed, failed, results>>
    /\ UNCHANGED <<status, req, faultVars, calls>>

FinishTask ==
    /\ up /\ pc = "loop" /\ Len(res) = Total[cur]
    /\ IF status[cur] # "deleted"
       THEN status' = [status EXCEPT ![cur] = "completed"]
       ELSE UNCHANGED status
    /\ GoIdle
    /\ UNCHANGED <<completed, failed, results, req, faultVars, calls>>

\* A statement or a commit of the processor's session fails.  The handler of
\* process_task uses the same session without rolling it back, so its own
\* commit fails too: the row keeps what was committed last.
DbError ==
    /\ up /\ pc # "idle" /\ dbErrors < MaxDbErrors
    /\ dbErrors' = dbErrors + 1
    /\ GoIdle
    /\ UNCHANGED <<rowVars, req, up, crashes, calls>>

-----------------------------------------------------------------------------
(* The process.                                                            *)

Crash ==
    /\ up /\ crashes < MaxCrashes
    /\ up' = FALSE /\ crashes' = crashes + 1
    /\ GoIdle
    /\ req' = [r \in Requests |-> NoTask]
    /\ UNCHANGED <<rowVars, dbErrors, calls>>

\* Mutants: interrupted work is queued again, or left as it is.
MutRequeueInterrupted ==
    /\ status' = [t \in Tasks |-> IF status[t] = "running" THEN "pending" ELSE status[t]]
    /\ UNCHANGED dbErrors
MutLeaveInterrupted == UNCHANGED <<status, dbErrors>>

\* start_monitoring_worker calls recover_interrupted_tasks before the
\* processor job exists: every 'running' row becomes 'failed'.  A database
\* error there is logged and swallowed, and the start-up goes on.
RecoverInterrupted ==
    \/ /\ status' = [t \in Tasks |->
                        IF status[t] = "running" THEN "failed" ELSE status[t]]
       /\ UNCHANGED dbErrors
    \/ /\ dbErrors < MaxDbErrors /\ dbErrors' = dbErrors + 1
       /\ UNCHANGED status

Restart ==
    /\ ~up
    /\ up' = TRUE
    /\ RecoverInterrupted
    /\ UNCHANGED <<completed, failed, results, procVars, req, crashes, calls>>

-----------------------------------------------------------------------------
Processor ==
    \/ PickTask \/ LoadTask \/ MarkRunning
    \/ ProcessItem \/ CommitItem \/ FinishTask

Api ==
    \/ \E t \in Tasks : CreateTask(t)
    \/ \E r \in Requests, u \in Users, t \in Tasks : CancelRead(r, u, t)
    \/ \E r \in Requests : CancelCommit(r)
    \/ \E u \in Users : ClearCompleted(u)

Next == Processor \/ Api \/ DbError \/ Crash \/ Restart

Spec == Init /\ [][Next]_vars

\* The scheduler keeps firing the job and the container runtime restarts the
\* process (restart: unless-stopped); users promise nothing.
FairSpec == Spec /\ WF_vars(Processor) /\ WF_vars(Restart)

-----------------------------------------------------------------------------
(* Properties.                                                             *)

TypeOK ==
    /\ status \in [Tasks -> Status]
    /\ completed \in [Tasks -> Nat] /\ failed \in [Tasks -> Nat]
    /\ results \in [Tasks -> Seq(BOOLEAN)]
    /\ pc \in {"idle", "picked", "loaded", "loop", "done_item"}
    /\ cur \in Tasks \union {NoTask}
    /\ (pc = "idle") <=> (cur = NoTask)
    /\ res \in Seq(BOOLEAN)
    /\ req \in [Requests -> Tasks \union {NoTask}]
    /\ up \in BOOLEAN /\ crashes \in Nat /\ dbErrors \in Nat
    /\ calls \in [Tasks -> Seq(Nat)]

\* No item is ever sent to Proxmox twice, and items are sent in the order of
\* task_data, whatever crashes, restarts, database errors and cancels happen
\* in between: process_task never starts a task over.
ItemsOnceInOrder ==
    \A t \in Tasks : \A i, j \in DOMAIN calls[t] : i < j => calls[t][i] < calls[t][j]

\* "Check if there's already a running task" holds the queue to one 'running'
\* row at a time, rows left behind by a failed processor included.
SingleRunning ==
    \A s, t \in Tasks : status[s] = "running" /\ status[t] = "running" => s = t

\* The progress columns are honest: they count the stored results, a task is
\* reported 'completed' only with a result for each of its items (unless a
\* cancel overwrote the row), and at most one Proxmox call is missing from the
\* stored results (the one in flight when the processor was lost).
JournalHonest ==
    \A t \in Tasks :
        /\ completed[t] + failed[t] = Len(results[t])
        /\ status[t] = "completed" => Len(results[t]) = Total[t]
        /\ \A i \in DOMAIN calls[t] : calls[t][i] <= Len(results[t]) + 1

\* A finished task never goes back to the queue: once out of 'pending' a row
\* is never pending again, so recovery fails interrupted work and never
\* repeats it.
NeverRequeued ==
    [][\A t \in Tasks : status[t] \notin {"none", "pending"} => status'[t] # "pending"]_vars

\* A row that a database error has left 'running' while the processor looks
\* for work: only a restart gets it out of the way.
Wedged ==
    /\ up /\ pc = "idle" /\ dbErrors > 0
    /\ \E t \in Tasks : status[t] = "running"

\* Every queued task is eventually started or cancelled, and every started
\* one eventually finishes, crashes of the backend included, unless a
\* database error wedges the queue.
DrainsOrWedges ==
    \A t \in Tasks : status[t] \in {"pending", "running"}
                        ~> status[t] \notin {"pending", "running"} \/ Wedged

\* The same without the exception.
QueueDrains ==
    \A t \in Tasks : status[t] \in {"pending", "running"}
                        ~> status[t] \notin {"pending", "running"}

-----------------------------------------------------------------------------
(* What the queue promises.                                                *)

\* A task is claimed from the moment it is picked until the processor lets go.
Phase == [t \in Tasks |->
    IF t = cur THEN "claimed"
    ELSE IF status[t] = "none" THEN "absent"
    ELSE IF status[t] = "pending" THEN "waiting" ELSE "over"]

Queue == INSTANCE BulkQueue WITH Jobs <- Tasks, phase <- Phase, sent <- calls

\* The queue keeps its promise: with Phase for the jobs and the log of Proxmox
\* calls, every step of requests, processor, crashes, database errors and
\* recovery is a step of BulkQueue or none.
KeepsPromise == Queue!Spec
=============================================================================
