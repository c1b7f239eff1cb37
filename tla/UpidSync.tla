------------------------------ MODULE UpidSync ------------------------------
(***************************************************************************)
(* Tracking of long Proxmox tasks: the table proxmox_tasks, the handlers   *)
(* that register tasks in it, and run_upid_task_sync, the job of the       *)
(* monitoring worker that asks Proxmox every five seconds what became of   *)
(* the tasks whose row says 'running'.                                     *)
(*                                                                         *)
(* A poll that fails is counted in memory; a row is given up after         *)
(* Threshold failures without an answer in between.  Every commit of the   *)
(* job is on one session: one that fails leaves the session unusable, and  *)
(* reading the task's attributes for the error message raises again, so    *)
(* the whole run ends there.  exit_status holds 100 characters, and        *)
(* PostgreSQL refuses a longer text.                                       *)
(*                                                                         *)
(* Deletions are registered after the fact, under an identifier made up    *)
(* by the panel that Proxmox does not know: that of a VM is completed by   *)
(* the handler in a second commit, that of a container is left running.    *)
(*                                                                         *)
(* The rows are those of one user.  Progress and log texts are left out.   *)
(***************************************************************************)
EXTENDS Naturals

CONSTANTS
    Tasks,
    Servers,
    ServerOf,      \* ServerOf[t]: the server of task t
    Kind,          \* Kind[t]: a Proxmox task, or the deletion of a VM or a container
    NoTask,        \* no task: the job holds none
    Threshold,     \* UPID_FAIL_THRESHOLD
    MaxErrors,     \* bound: polls of a known task that fail on a server that answers
    MaxOutages,    \* bound: times a server stops answering
    MaxRemovals,   \* bound: servers removed from the panel
    MaxCrashes     \* bound: crashes of the backend

Kinds == {"upid", "vm_delete", "ct_delete"}

ASSUME ServersAssumption == ServerOf \in [Tasks -> Servers]
ASSUME NoTaskAssumption == NoTask \notin Tasks
ASSUME KindAssumption == Kind \in [Tasks -> Kinds]
ASSUME BoundsAssumption ==
    /\ Threshold \in Nat \ {0} /\ MaxErrors \in Nat
    /\ MaxOutages \in Nat /\ MaxRemovals \in Nat /\ MaxCrashes \in Nat

VARIABLES
    pve,         \* pve[t]: the task on Proxmox and how it ended
    reach,       \* servers whose API answers
    known,       \* servers in the panel
    online,      \* proxmox_servers.is_online
    row,         \* row[t]: proxmox_tasks.status
    halfway,     \* VM deletions whose handler stands between its two commits
    fails,       \* fails[t]: upid_fail_counts, in memory
    pc,          \* where the job is
    todo,        \* rows of this run still to be looked at
    cur, got,    \* the row to be committed and what Proxmox said about it
    expired,     \* a commit of this run has expired what the session read
    errors, outages, removals, crashes,   \* how much of the bounds is used
    streak       \* history: streak[t], polls of t that failed since its last
                 \* answer, counted up to Threshold

proxmox == <<pve, reach>>
servers == <<known, online>>
job == <<pc, todo, cur, got, expired>>
bounds == <<errors, outages, removals, crashes>>
vars == <<pve, reach, known, online, row, halfway, fails, pc, todo, cur, got, expired,
          errors, outages, removals, crashes, streak>>

\* How a task ends on Proxmox: exit status OK, any other text, or one that is
\* too long for the column.
Ends == {"ok", "error", "long"}
Nothing == "nothing"

RowStates == {"none", "running", "completed", "failed", "deleted"}
Finished == {"completed", "failed"}

Init ==
    /\ pve = [t \in Tasks |-> "none"]
    /\ reach = Servers /\ known = Servers /\ online = Servers
    /\ row = [t \in Tasks |-> "none"]
    /\ halfway = {}
    /\ fails = [t \in Tasks |-> 0]
    /\ pc = "idle" /\ todo = {} /\ cur = NoTask /\ got = Nothing /\ expired = FALSE
    /\ errors = 0 /\ outages = 0 /\ removals = 0 /\ crashes = 0
    /\ streak = [t \in Tasks |-> 0]

-----------------------------------------------------------------------------
(* The API handlers.                                                       *)

\* ProxmoxTaskService.register.  A deletion has already been carried out.
Register(t) ==
    /\ row[t] = "none" /\ ServerOf[t] \in known
    /\ row' = [row EXCEPT ![t] = "running"]
    /\ pve' = [pve EXCEPT ![t] = IF Kind[t] = "upid" THEN "running" ELSE "ok"]
    /\ halfway' = IF Kind[t] = "vm_delete" THEN halfway \union {t} ELSE halfway
    /\ UNCHANGED <<reach, servers, fails, job, bounds, streak>>

\* delete_vm: the second commit.  Of a row that is gone it fails, which is
\* only logged.
CompleteDeletion(t) ==
    /\ t \in halfway
    /\ halfway' = halfway \ {t}
    /\ row' = IF row[t] = "deleted" THEN row ELSE [row EXCEPT ![t] = "completed"]
    /\ UNCHANGED <<proxmox, servers, fails, job, bounds, streak>>

\* DELETE /api/all-tasks/completed
ClearCompleted ==
    /\ \E t \in Tasks : row[t] \in Finished
    /\ row' = [t \in Tasks |-> IF row[t] \in Finished THEN "deleted" ELSE row[t]]
    /\ UNCHANGED <<proxmox, servers, halfway, fails, job, bounds, streak>>

\* delete_server: the rows keep no server (ON DELETE SET NULL).
RemoveServer(s) ==
    /\ s \in known /\ removals < MaxRemovals
    /\ known' = known \ {s} /\ removals' = removals + 1
    /\ UNCHANGED <<proxmox, online, row, halfway, fails, job, errors, outages, crashes, streak>>

-----------------------------------------------------------------------------
(* run_upid_task_sync.                                                     *)

StartPoll ==
    /\ pc = "idle"
    /\ \E t \in Tasks : row[t] = "running"
    /\ pc' = "loop" /\ todo' = {t \in Tasks : row[t] = "running"}
    /\ UNCHANGED <<proxmox, servers, row, halfway, fails, cur, got, expired, bounds, streak>>

\* What ends a run.
EndRun ==
    pc' = "idle" /\ todo' = {} /\ cur' = NoTask /\ got' = Nothing /\ expired' = FALSE

\* Mutant: the loop goes on without letting go of the row.
MutRowDone(t) == pc' = "loop" /\ todo' = todo \ {t} /\ UNCHANGED cur /\ got' = Nothing

\* What ends the work on one row.
RowDone(t) == pc' = "loop" /\ todo' = todo \ {t} /\ cur' = NoTask /\ got' = Nothing

\* A row deleted since the run began is noticed when the session has to read
\* it again, outside the handler of the row: the run ends.
RowGone(t) == row[t] = "deleted" /\ expired
FindGone(t) ==
    /\ pc = "loop" /\ t \in todo /\ RowGone(t)
    /\ EndRun
    /\ UNCHANGED <<proxmox, servers, row, halfway, fails, bounds, streak>>

\* No server, a server recorded as offline, or a client without connection.
Answers(s) == s \in known /\ s \in online /\ s \in reach
Skip(t) ==
    /\ pc = "loop" /\ t \in todo /\ ~RowGone(t)
    /\ ~Answers(ServerOf[t])
    /\ RowDone(t)
    /\ UNCHANGED <<proxmox, servers, row, halfway, fails, expired, bounds, streak>>

Poll(t) ==
    /\ pc = "loop" /\ t \in todo /\ ~RowGone(t)
    /\ Answers(ServerOf[t])
    /\ UNCHANGED <<proxmox, servers, row, halfway, expired, outages, removals, crashes>>

\* Mutant: an answer leaves the count of failures as it is.
MutPollAnswers(t) ==
    /\ Poll(t) /\ Kind[t] = "upid"
    /\ streak' = [streak EXCEPT ![t] = 0]
    /\ pc' = "record" /\ cur' = t /\ got' = pve[t]
    /\ UNCHANGED <<todo, fails, errors>>

PollAnswers(t) ==
    /\ Poll(t) /\ Kind[t] = "upid"
    /\ fails' = [fails EXCEPT ![t] = 0] /\ streak' = [streak EXCEPT ![t] = 0]
    /\ pc' = "record" /\ cur' = t /\ got' = pve[t]
    /\ UNCHANGED <<todo, errors>>

\* Mutant: the count starts again at the threshold and no row is given up.
MutPollFails(t) ==
    /\ Poll(t)
    /\ \E text \in {"error", "long"} :
        /\ IF Kind[t] # "upid" /\ text = "error"
           THEN UNCHANGED errors
           ELSE errors < MaxErrors /\ errors' = errors + 1
        /\ fails' = [fails EXCEPT ![t] = IF @ + 1 < Threshold THEN @ + 1 ELSE 0]
        /\ streak' = [streak EXCEPT ![t] = IF @ < Threshold THEN @ + 1 ELSE @]
        /\ RowDone(t)

\* get_task_status raises: a transient fault, or an identifier Proxmox cannot
\* parse.  Its text is what a row that is given up gets as exit_status.
PollFails(t) ==
    /\ Poll(t)
    /\ \E text \in {"error", "long"} :
        /\ IF Kind[t] # "upid" /\ text = "error"
           THEN UNCHANGED errors
           ELSE errors < MaxErrors /\ errors' = errors + 1
        /\ fails' = [fails EXCEPT ![t] = @ + 1]
        /\ streak' = [streak EXCEPT ![t] = IF @ < Threshold THEN @ + 1 ELSE @]
        /\ IF fails[t] + 1 < Threshold
           THEN RowDone(t)
           ELSE pc' = "give_up" /\ cur' = t /\ got' = text /\ UNCHANGED todo

CommitFails == got = "long" \/ row[cur] = "deleted"

\* The count is dropped after the commit: one that fails keeps it.
GiveUp ==
    /\ pc = "give_up"
    /\ IF CommitFails
       THEN EndRun /\ UNCHANGED <<row, fails>>
       ELSE /\ row' = [row EXCEPT ![cur] = "failed"]
            /\ fails' = [fails EXCEPT ![cur] = 0]
            /\ expired' = TRUE /\ RowDone(cur)
    /\ UNCHANGED <<proxmox, servers, halfway, bounds, streak>>

\* The answer is stored; a stopped task is final.
Record ==
    /\ pc = "record"
    /\ IF CommitFails
       THEN EndRun /\ UNCHANGED row
       ELSE /\ row' = CASE got = "ok" -> [row EXCEPT ![cur] = "completed"]
                        [] got = "error" -> [row EXCEPT ![cur] = "failed"]
                        [] got = "running" -> row
            /\ expired' = TRUE /\ RowDone(cur)
    /\ UNCHANGED <<proxmox, servers, halfway, fails, bounds, streak>>

FinishPoll ==
    /\ pc = "loop" /\ todo = {}
    /\ EndRun
    /\ UNCHANGED <<proxmox, servers, row, halfway, fails, bounds, streak>>

-----------------------------------------------------------------------------
(* The rest of the world.                                                  *)

TaskEnds(t) ==
    /\ pve[t] = "running"
    /\ \E e \in Ends : pve' = [pve EXCEPT ![t] = e]
    /\ UNCHANGED <<reach, servers, row, halfway, fails, job, bounds, streak>>

LoseServer(s) ==
    /\ s \in reach /\ outages < MaxOutages
    /\ reach' = reach \ {s} /\ outages' = outages + 1
    /\ UNCHANGED <<pve, servers, row, halfway, fails, job, errors, removals, crashes, streak>>

RegainServer(s) ==
    /\ s \in Servers \ reach
    /\ reach' = reach \union {s}
    /\ UNCHANGED <<pve, servers, row, halfway, fails, job, bounds, streak>>

\* run_server_availability_check
CheckAvailability(s) ==
    /\ s \in known /\ (s \in online) # (s \in reach)
    /\ online' = IF s \in reach THEN online \union {s} ELSE online \ {s}
    /\ UNCHANGED <<proxmox, known, row, halfway, fails, job, bounds, streak>>

\* The job, the handlers and the counts in memory are lost.
Crash ==
    /\ crashes < MaxCrashes /\ crashes' = crashes + 1
    /\ EndRun
    /\ halfway' = {} /\ fails' = [t \in Tasks |-> 0]
    /\ UNCHANGED <<proxmox, servers, row, errors, outages, removals, streak>>

-----------------------------------------------------------------------------
PollJob ==
    \/ StartPoll \/ GiveUp \/ Record \/ FinishPoll
    \/ \E t \in Tasks : FindGone(t) \/ Skip(t) \/ PollAnswers(t) \/ PollFails(t)

Api ==
    \/ \E t \in Tasks : Register(t) \/ CompleteDeletion(t)
    \/ ClearCompleted
    \/ \E s \in Servers : RemoveServer(s)

World ==
    \/ \E t \in Tasks : TaskEnds(t)
    \/ \E s \in Servers : LoseServer(s) \/ RegainServer(s) \/ CheckAvailability(s)

Next == PollJob \/ Api \/ World \/ Crash

Spec == Init /\ [][Next]_vars

\* APScheduler runs both jobs for ever, and a task on Proxmox ends.  Nothing
\* is assumed of users, of handlers, or of the network.
FairSpec ==
    /\ Spec
    /\ WF_vars(PollJob)
    /\ \A s \in Servers : WF_vars(CheckAvailability(s))
    /\ \A t \in Tasks : WF_vars(TaskEnds(t))

-----------------------------------------------------------------------------
(* Properties.                                                             *)

TypeOK ==
    /\ pve \in [Tasks -> {"none", "running"} \union Ends]
    /\ reach \subseteq Servers /\ known \subseteq Servers /\ online \subseteq Servers
    /\ row \in [Tasks -> RowStates] /\ halfway \subseteq Tasks
    /\ fails \in [Tasks -> Nat] /\ streak \in [Tasks -> Nat]
    /\ pc \in {"idle", "loop", "record", "give_up"}
    /\ todo \subseteq Tasks
    /\ IF pc \in {"record", "give_up"} THEN cur \in todo ELSE cur = NoTask
    /\ got \in {"running", Nothing} \union Ends /\ expired \in BOOLEAN
    /\ errors \in Nat /\ outages \in Nat /\ removals \in Nat /\ crashes \in Nat

\* A row says 'completed' only of a task that succeeded.  It says 'failed'
\* only of one that ended otherwise, or after Threshold failed polls with no
\* answer in between ("a transient fault must not kill a living task"),
\* whatever runs were cut short and counts lost in a crash.
OutcomeHasCause ==
    \A t \in Tasks :
        /\ row[t] = "completed" => pve[t] = "ok"
        /\ row[t] = "failed" => pve[t] = "error" \/ streak[t] >= Threshold

AllAnswer == reach = Servers
ServersKept == \A t \in Tasks : row[t] = "running" => ServerOf[t] \in known
ShortTexts == \A t \in Tasks : pve[t] # "long"

\* When servers come back and stay, each row that says 'running' ends, be it
\* of a task that Proxmox never knew, unless its server was removed or some
\* task ended with a long text.
RowsEnd ==
    <>[](AllAnswer /\ ServersKept /\ ShortTexts)
        => \A t \in Tasks : row[t] = "running" ~> row[t] # "running"
=============================================================================
