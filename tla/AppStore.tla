------------------------------ MODULE AppStore ------------------------------
(***************************************************************************)
(* The App Store engine: every installed application is a row and one LXC  *)
(* container with Docker Compose inside.  A request checks the row, writes *)
(* an operation and leaves the work to a pool of threads; requests, jobs,  *)
(* the reconciliation every minute and other deployments share the vmids   *)
(* of one Proxmox server.                                                  *)
(***************************************************************************)
EXTENDS Naturals, FiniteSets, Sequences

CONSTANTS
    Apps,         \* installed_apps identifiers, each used once
    NVmids,       \* vmids of the server
    Workers,      \* threads of the engine's pool
    MaxOps,       \* bound: operations on applications
    MaxVersion,   \* bound: versions of the catalogue entry
    MaxEvents     \* bound: power requests, crashes, and what happens outside the engine

Vmids == 1..NVmids
Versions == 1..MaxVersion
None == 0         \* no vmid, snapshot or version
Other == "other"  \* the owner of a container that is not an application's

VARIABLES
    req,          \* req[a]: the install request before its row exists
    row,          \* row[a] of installed_apps
    ops,          \* app_operations with the jobs of the pool, oldest first
    calls,        \* lifecycle requests that wait for Proxmox
    pass,         \* what the running reconciliation has read, by application
    ct,           \* ct[v]: the containers of the server
    alloc,        \* IPAM allocations: whom the address of vmid v was taken for
    latest,       \* version of the catalogue entry
    muddled,      \* history: applications whose version may be misreported
    crossed,      \* history: applications with operations that overlapped, or at one vmid
    events

vars == <<req, row, ops, calls, pass, ct, alloc, latest, muddled, crossed, events>>

Statuses == {"installing", "running", "stopped", "error", "deleting",
             "updating", "update_failed", "orphaned"}
NoRow == [status |-> "none", vmid |-> None, ip |-> FALSE, ver |-> None, snap |-> None, snapVer |-> None]
NoRequest == [pc |-> "idle", vmid |-> None, ip |-> FALSE]
\* made is the operation that created the container.
NoCt == [st |-> "none", owner |-> Other, made |-> None, app |-> Other, ver |-> None, snaps |-> {}]

Init ==
    /\ req = [a \in Apps |-> NoRequest]
    /\ row = [a \in Apps |-> NoRow]
    /\ ops = <<>> /\ calls = {} /\ pass = {}
    /\ ct = [v \in Vmids |-> NoCt]
    /\ alloc = {}
    /\ latest = 1
    /\ muddled = {} /\ crossed = {} /\ events = 0

-----------------------------------------------------------------------------
Exists(a) == row[a].status # "none"
Taken == {row[a].vmid : a \in {b \in Apps : Exists(b)}}
Live(o) == ops[o].pc \notin {"done", "lost"}
Busy(a) == \E o \in DOMAIN ops : ops[o].app = a /\ Live(o)

\* The other applications that have vmid v, or a job at it: two requests may
\* choose the same one before either has its row.
Beside(a, v) ==
    {b \in Apps \ {a} : \/ Exists(b) /\ row[b].vmid = v
                       \/ \E o \in DOMAIN ops : ops[o].app = b /\ Live(o) /\ ops[o].vmid = v}

\* Proxmox offers the least free number and reserves nothing.
NextId == LET free == {v \in Vmids : ct[v].st = "none"}
          IN  {v \in free : \A u \in free : v <= u}

\* Where an application may be put: the first number from v on that no row has.
Shifted(v) == LET free == {u \in Vmids : u >= v /\ u \notin Taken}
              IN  {u \in free : \A w \in free : u <= w}

\* The operation is committed and its job handed to the pool; the loss of the
\* process between the two looks like one right after.
Submit(a, type) ==
    /\ Len(ops) < MaxOps
    /\ ops' = Append(ops, [app |-> a, type |-> type, vmid |-> row'[a].vmid, pc |-> "queued",
                           ver |-> latest, out |-> "none"])
    /\ LET with == Beside(a, row'[a].vmid)
       IN  crossed' = crossed \union with \union (IF Busy(a) \/ with # {} THEN {a} ELSE {})

-----------------------------------------------------------------------------
(* Requests.                                                               *)

PickVmid(a) ==
    /\ req[a].pc = "idle" /\ ~Exists(a)
    /\ \A o \in DOMAIN ops : ops[o].app # a
    /\ \E n \in NextId : \E v \in Shifted(n) : \E ip \in BOOLEAN :
          req' = [req EXCEPT ![a] = [pc |-> IF ip THEN "address" ELSE "insert",
                                     vmid |-> v, ip |-> ip]]
    /\ UNCHANGED <<row, ops, calls, pass, ct, alloc, latest, muddled, crossed, events>>

\* IPAM commits the allocation; without a free address the request is refused.
Allocate(a) ==
    /\ req[a].pc = "address"
    /\ \/ /\ alloc' = alloc \union {[vmid |-> req[a].vmid, owner |-> a]}
          /\ req' = [req EXCEPT ![a].pc = "insert"]
       \/ req' = [req EXCEPT ![a] = NoRequest] /\ UNCHANGED alloc
    /\ UNCHANGED <<row, ops, calls, pass, ct, latest, muddled, crossed, events>>

Insert(a) ==
    /\ req[a].pc = "insert"
    /\ row' = [row EXCEPT ![a] = [NoRow EXCEPT !.status = "installing", !.vmid = req[a].vmid,
                                               !.ip = req[a].ip, !.ver = latest]]
    /\ req' = [req EXCEPT ![a] = NoRequest]
    /\ Submit(a, "install")
    /\ UNCHANGED <<calls, pass, ct, alloc, latest, muddled, events>>

\* The catalogue's present compose file goes in, the version stays as it was.
Retry(a) ==
    /\ row[a].status \in {"error", "installing"}
    /\ row' = [row EXCEPT ![a].status = "installing"]
    /\ Submit(a, "install")
    /\ muddled' = IF latest = row[a].ver THEN muddled ELSE muddled \union {a}
    /\ UNCHANGED <<req, calls, pass, ct, alloc, latest, events>>

Update(a) ==
    /\ row[a].status \in {"running", "stopped", "update_failed"}
    /\ UNCHANGED row
    /\ Submit(a, "update")
    /\ UNCHANGED <<req, calls, pass, ct, alloc, latest, muddled, events>>

Rollback(a) ==
    /\ Exists(a) /\ row[a].snap # None
    /\ UNCHANGED row
    /\ Submit(a, "rollback")
    /\ UNCHANGED <<req, calls, pass, ct, alloc, latest, muddled, events>>

DeleteApp(a) ==
    /\ Exists(a)
    /\ row' = [row EXCEPT ![a].status = "deleting"]
    /\ Submit(a, "delete")
    /\ UNCHANGED <<req, calls, pass, ct, alloc, latest, muddled, events>>

\* A Proxmox call changes a container that is there and not being created.
Ready(v) == ct[v].st \in {"stopped", "running"}
Switched(v, st) == IF Ready(v) THEN [ct EXCEPT ![v].st = st] ELSE ct

\* Start, stop or restart: the call first, the status after the wait.
BeginLifecycle(a, new) ==
    /\ Exists(a) /\ \A c \in calls : c.app # a
    /\ calls' = calls \union {[app |-> a, seen |-> row[a].status, new |-> new]}
    /\ ct' \in {ct, Switched(row[a].vmid, new)}
    /\ events < MaxEvents /\ events' = events + 1
    /\ UNCHANGED <<req, row, ops, pass, alloc, latest, muddled, crossed>>

\* The session writes the status when it differs from the one it read.
EndLifecycle(c) ==
    /\ c \in calls
    /\ calls' = calls \ {c}
    /\ row' = IF Exists(c.app) /\ c.seen # c.new
              THEN [row EXCEPT ![c.app].status = c.new] ELSE row
    /\ UNCHANGED <<req, ops, pass, ct, alloc, latest, muddled, crossed, events>>

-----------------------------------------------------------------------------
(* Jobs of the pool.                                                       *)

Job(o, type, pc) == o \in DOMAIN ops /\ ops[o].type = type /\ ops[o].pc = pc
GoTo(o, pc) == ops' = [ops EXCEPT ![o].pc = pc]
Record(o, out) == ops' = [ops EXCEPT ![o].pc = "record", ![o].out = out]
Running == {o \in DOMAIN ops : Live(o) /\ ops[o].pc # "queued"}

First(type) == CASE type = "install" -> "probe" [] type = "update" -> "snapshot"
                 [] type = "rollback" -> "restore" [] type = "delete" -> "teardown"

StartJob(o) ==
    /\ o \in DOMAIN ops /\ ops[o].pc = "queued"
    /\ \A p \in 1..(o - 1) : ops[p].pc # "queued"
    /\ Cardinality(Running) < Workers
    /\ GoTo(o, First(ops[o].type))
    /\ UNCHANGED <<req, row, calls, pass, ct, alloc, latest, muddled, crossed, events>>

\* Whatever answers to the vmid is taken for the application's own container.
Probe(o) ==
    /\ Job(o, "install", "probe")
    /\ GoTo(o, IF ct[ops[o].vmid].st = "none" THEN "create" ELSE "deploy")
    /\ UNCHANGED <<req, row, calls, pass, ct, alloc, latest, muddled, crossed, events>>

CreateCt(o) ==
    /\ Job(o, "install", "create")
    /\ LET v == ops[o].vmid IN
       \/ /\ ct[v].st = "none"
          /\ ct' = [ct EXCEPT ![v] = [NoCt EXCEPT !.st = "creating", !.owner = ops[o].app,
                                             !.made = o]]
          /\ GoTo(o, "await")
       \/ Record(o, "error") /\ UNCHANGED ct
    /\ UNCHANGED <<req, row, calls, pass, alloc, latest, muddled, crossed, events>>

\* Five minutes are waited for the Proxmox task, which goes on afterwards.
Await(o) ==
    /\ Job(o, "install", "await")
    /\ \/ ct[ops[o].vmid].st \in {"stopped", "running"} /\ GoTo(o, "deploy")
       \/ ct[ops[o].vmid].st \in {"none", "creating"} /\ Record(o, "error")
    /\ UNCHANGED <<req, row, calls, pass, ct, alloc, latest, muddled, crossed, events>>

\* Start, compose file and data, docker compose up, health check.
Deploy(o) ==
    /\ Job(o, "install", "deploy")
    /\ LET v == ops[o].vmid IN
       \/ /\ Ready(v)
          /\ ct' = [ct EXCEPT ![v].st = "running", ![v].app = ops[o].app, ![v].ver = ops[o].ver]
          /\ \E out \in {"running", "error"} : Record(o, out)
       \/ ct' = Switched(v, "running") /\ Record(o, "error")
    /\ UNCHANGED <<req, row, calls, pass, alloc, latest, muddled, crossed, events>>

RecordInstall(o) ==
    /\ Job(o, "install", "record")
    /\ LET a == ops[o].app IN
       row' = IF Exists(a)
              THEN [row EXCEPT ![a].status = ops[o].out, ![a].vmid = ops[o].vmid] ELSE row
    /\ GoTo(o, "finish")
    /\ UNCHANGED <<req, calls, pass, ct, alloc, latest, muddled, crossed, events>>

\* The snapshot, and with it the version to come back to.  Reading the row
\* first is part of the step: an update or a rollback beside it is "crossed".
Snapshot(o) ==
    /\ Job(o, "update", "snapshot")
    /\ LET a == ops[o].app
           v == ops[o].vmid IN
       \/ /\ Ready(v)
          /\ ct' = [ct EXCEPT ![v].snaps = @ \union {[id |-> o, ver |-> ct[v].ver]}]
          /\ muddled' = IF ct[v].ver = row[a].ver THEN muddled ELSE muddled \union {a}
          /\ IF Exists(a)
             THEN /\ row' = [row EXCEPT ![a].status = "updating", ![a].snap = o,
                                        ![a].snapVer = row[a].ver]
                  /\ GoTo(o, "compose")
             ELSE UNCHANGED row /\ Record(o, "update_failed")
       \/ Record(o, "update_failed") /\ UNCHANGED <<row, ct, muddled>>
    /\ UNCHANGED <<req, calls, pass, alloc, latest, crossed, events>>

\* Nothing starts a stopped container here; a failure may come before or
\* after the new containers are up.
Compose(o) ==
    /\ Job(o, "update", "compose")
    /\ LET v == ops[o].vmid IN
       \/ /\ ct[v].st = "running"
          /\ ct' = [ct EXCEPT ![v].app = ops[o].app, ![v].ver = ops[o].ver]
          /\ \E out \in {"running", "update_failed"} : Record(o, out)
       \/ Record(o, "update_failed") /\ UNCHANGED ct
    /\ UNCHANGED <<req, row, calls, pass, alloc, latest, muddled, crossed, events>>

\* Mutant: the version is that of the catalogue when the update has ended.
MutRecordUpdate(o) ==
    /\ Job(o, "update", "record")
    /\ LET a == ops[o].app
           ok == ops[o].out = "running" IN
       /\ row' = IF Exists(a)
                 THEN [row EXCEPT ![a].status = ops[o].out, ![a].ver = IF ok THEN latest ELSE @]
                 ELSE row
       /\ GoTo(o, IF ok /\ Exists(a) THEN "prune" ELSE "finish")
    /\ UNCHANGED <<req, calls, pass, ct, alloc, latest, muddled, crossed, events>>

RecordUpdate(o) ==
    /\ Job(o, "update", "record")
    /\ LET a == ops[o].app
           ok == ops[o].out = "running" IN
       /\ row' = IF Exists(a)
                 THEN [row EXCEPT ![a].status = ops[o].out,
                                  ![a].ver = IF ok THEN ops[o].ver ELSE @]
                 ELSE row
       /\ GoTo(o, IF ok /\ Exists(a) THEN "prune" ELSE "finish")
    /\ UNCHANGED <<req, calls, pass, ct, alloc, latest, muddled, crossed, events>>

\* Mutant: the snapshot just taken is not spared.
MutPrune(o) ==
    /\ Job(o, "update", "prune")
    /\ ct' = [ct EXCEPT ![ops[o].vmid].snaps = {}]
    /\ GoTo(o, "finish")
    /\ UNCHANGED <<req, row, calls, pass, alloc, latest, muddled, crossed, events>>

\* The older snapshots go, those whose deletion fails excepted.
Prune(o) ==
    /\ Job(o, "update", "prune")
    /\ LET v == ops[o].vmid IN
       \E kept \in SUBSET {s \in ct[v].snaps : s.id # o} :
          ct' = [ct EXCEPT ![v].snaps = kept \union {s \in @ : s.id = o}]
    /\ GoTo(o, "finish")
    /\ UNCHANGED <<req, row, calls, pass, alloc, latest, muddled, crossed, events>>

\* How the Proxmox task ended is not looked at, only what answers afterwards.
Restore(o) ==
    /\ Job(o, "rollback", "restore")
    /\ LET a == ops[o].app
           v == ops[o].vmid
           target == {s \in ct[v].snaps : s.id = row[a].snap} IN
       \/ /\ Exists(a) /\ Ready(v)
          /\ \E s \in target : ct' = [ct EXCEPT ![v].st = "running", ![v].ver = s.ver]
          /\ \E out \in {"running", "stopped"} : Record(o, out)
          /\ UNCHANGED muddled
       \/ /\ Exists(a) /\ Ready(v) /\ target # {}
          /\ ct' = [ct EXCEPT ![v].st = "running"]
          /\ \E out \in {"running", "stopped"} : Record(o, out)
          /\ muddled' = muddled \union {a}
       \/ Record(o, "update_failed") /\ UNCHANGED <<ct, muddled>>
    /\ UNCHANGED <<req, row, calls, pass, alloc, latest, crossed, events>>

RecordRollback(o) ==
    /\ Job(o, "rollback", "record")
    /\ LET a == ops[o].app IN
       row' = IF ~Exists(a) THEN row
              ELSE [row EXCEPT ![a].status = ops[o].out,
                               ![a].ver = IF ops[o].out = "update_failed" THEN @
                                          ELSE row[a].snapVer]
    /\ GoTo(o, "finish")
    /\ UNCHANGED <<req, calls, pass, ct, alloc, latest, muddled, crossed, events>>

\* Mutant: an error of the removal is passed over.
MutTeardown(o) ==
    /\ Job(o, "delete", "teardown")
    /\ ct' \in {ct, IF Ready(ops[o].vmid) THEN [ct EXCEPT ![ops[o].vmid] = NoCt] ELSE ct}
    /\ GoTo(o, "release")
    /\ UNCHANGED <<req, row, calls, pass, alloc, latest, muddled, crossed, events>>

\* A container that is not there counts as removed; one that cannot be removed,
\* or not in time, is an error.
Teardown(o) ==
    /\ Job(o, "delete", "teardown")
    /\ LET v == ops[o].vmid IN
       \/ /\ ct[v].st # "creating"
          /\ ct' = [ct EXCEPT ![v] = NoCt]
          /\ GoTo(o, "release")
       \/ /\ ct' \in {ct, IF Ready(v) THEN [ct EXCEPT ![v] = NoCt] ELSE ct}
          /\ Record(o, "error")
    /\ UNCHANGED <<req, row, calls, pass, alloc, latest, muddled, crossed, events>>

Release(o) ==
    /\ Job(o, "delete", "release")
    /\ alloc' = {l \in alloc : l.vmid # ops[o].vmid}
    /\ GoTo(o, "erase")
    /\ UNCHANGED <<req, row, calls, pass, ct, latest, muddled, crossed, events>>

Erase(o) ==
    /\ Job(o, "delete", "erase")
    /\ row' = [row EXCEPT ![ops[o].app] = NoRow]
    /\ ops' = [ops EXCEPT ![o].pc = "done", ![o].out = "running", ![o].ver = None]
    /\ UNCHANGED <<req, calls, pass, ct, alloc, latest, muddled, crossed, events>>

RecordDelete(o) ==
    /\ Job(o, "delete", "record")
    /\ row' = IF Exists(ops[o].app) THEN [row EXCEPT ![ops[o].app].status = "error"] ELSE row
    /\ GoTo(o, "finish")
    /\ UNCHANGED <<req, calls, pass, ct, alloc, latest, muddled, crossed, events>>

FinishOp(o) ==
    /\ o \in DOMAIN ops /\ ops[o].pc = "finish"
    /\ ops' = [ops EXCEPT ![o].pc = "done", ![o].ver = None]
    /\ UNCHANGED <<req, row, calls, pass, ct, alloc, latest, muddled, crossed, events>>

JobStep(o) ==
    \/ StartJob(o) \/ Probe(o) \/ CreateCt(o) \/ Await(o) \/ Deploy(o) \/ RecordInstall(o)
    \/ Snapshot(o) \/ Compose(o) \/ RecordUpdate(o) \/ Prune(o)
    \/ Restore(o) \/ RecordRollback(o)
    \/ Teardown(o) \/ Release(o) \/ Erase(o) \/ RecordDelete(o) \/ FinishOp(o)

-----------------------------------------------------------------------------
(* Reconciliation, the catalogue, and what happens outside the engine.     *)

\* Mutant: a container that does not answer counts as stopped.
MutSeen(v) == IF ct[v].st = "running" THEN "running" ELSE "stopped"

\* What Proxmox says of a container; no answer, for whatever reason, is taken
\* for its absence.
Seen(v) == IF Ready(v) THEN ct[v].st ELSE IF ct[v].st = "creating" THEN "stopped" ELSE "orphaned"

BeginPass ==
    /\ pass = {}
    /\ LET rows == {a \in Apps : row[a].status \in {"running", "stopped", "orphaned"}}
           New(a, deaf) == IF a \in deaf THEN "orphaned" ELSE Seen(row[a].vmid) IN
       \E deaf \in SUBSET rows :
          /\ deaf # {} => events < MaxEvents
          /\ events' = IF deaf = {} THEN events ELSE events + 1
          /\ pass' = {[app |-> a, new |-> New(a, deaf)] :
                        a \in {b \in rows : New(b, deaf) # row[b].status}}
    /\ UNCHANGED <<req, row, ops, calls, ct, alloc, latest, muddled, crossed>>

\* One commit for all; a row that was deleted meanwhile fails it for all.
CommitPass ==
    /\ pass # {}
    /\ row' = IF \A p \in pass : Exists(p.app)
              THEN [a \in Apps |-> IF \E p \in pass : p.app = a
                                   THEN [row[a] EXCEPT !.status = (CHOOSE p \in pass : p.app = a).new]
                                   ELSE row[a]]
              ELSE row
    /\ pass' = {}
    /\ UNCHANGED <<req, ops, calls, ct, alloc, latest, muddled, crossed, events>>

SyncCatalogue ==
    /\ latest < MaxVersion
    /\ latest' = latest + 1
    /\ UNCHANGED <<req, row, ops, calls, pass, ct, alloc, muddled, crossed, events>>

CreationEnds(v) ==
    /\ ct[v].st = "creating"
    /\ ct' \in {[ct EXCEPT ![v].st = "stopped"], [ct EXCEPT ![v] = NoCt]}
    /\ UNCHANGED <<req, row, ops, calls, pass, alloc, latest, muddled, crossed, events>>

\* Another deployment of the panel, with an address of IPAM.
OtherDeploys(v) ==
    /\ v \in NextId
    /\ events < MaxEvents /\ events' = events + 1
    /\ ct' = [ct EXCEPT ![v] = [NoCt EXCEPT !.st = "running"]]
    /\ alloc' = alloc \union {[vmid |-> v, owner |-> Other]}
    /\ UNCHANGED <<req, row, ops, calls, pass, latest, muddled, crossed>>

\* A container is removed on Proxmox.
RemovedOutside(v) ==
    /\ Ready(v)
    /\ events < MaxEvents /\ events' = events + 1
    /\ ct' = [ct EXCEPT ![v] = NoCt]
    /\ UNCHANGED <<req, row, ops, calls, pass, alloc, latest, muddled, crossed>>

\* Nothing resumes, or closes, the operations the process was at.
Crash ==
    /\ events < MaxEvents /\ events' = events + 1
    /\ ops' = [o \in DOMAIN ops |-> IF Live(o) THEN [ops[o] EXCEPT !.pc = "lost", !.ver = None] ELSE ops[o]]
    /\ req' = [a \in Apps |-> NoRequest]
    /\ calls' = {} /\ pass' = {}
    /\ UNCHANGED <<row, ct, alloc, latest, muddled, crossed>>

Next ==
    \/ \E a \in Apps : \/ PickVmid(a) \/ Allocate(a) \/ Insert(a) \/ Retry(a) \/ Update(a)
                       \/ Rollback(a) \/ DeleteApp(a)
                       \/ \E new \in {"running", "stopped"} : BeginLifecycle(a, new)
    \/ \E c \in calls : EndLifecycle(c)
    \/ \E o \in 1..MaxOps : JobStep(o)
    \/ BeginPass \/ CommitPass \/ SyncCatalogue
    \/ \E v \in Vmids : CreationEnds(v) \/ OtherDeploys(v) \/ RemovedOutside(v)
    \/ Crash

Spec == Init /\ [][Next]_vars

\* Jobs run on; the reconciliation comes every minute; Proxmox ends its tasks.
Fairness ==
    /\ \A o \in 1..MaxOps : WF_vars(JobStep(o))
    /\ WF_vars(BeginPass) /\ WF_vars(CommitPass)
    /\ \A v \in Vmids : WF_vars(CreationEnds(v))
FairSpec == Spec /\ Fairness

-----------------------------------------------------------------------------
CtStates == {"none", "creating", "stopped", "running"}
TypeOK ==
    /\ req \in [Apps -> [pc : {"idle", "address", "insert"}, vmid : Vmids \union {None}, ip : BOOLEAN]]
    /\ row \in [Apps -> [status : Statuses \union {"none"}, vmid : Vmids \union {None}, ip : BOOLEAN,
                         ver : Versions \union {None}, snap : 0..MaxOps, snapVer : 0..MaxVersion]]
    /\ Len(ops) <= MaxOps
    /\ \A v \in Vmids : ct[v].st \in CtStates /\ ct[v].owner \in Apps \union {Other}
    /\ pass \subseteq [app : Apps, new : Statuses]
    /\ latest \in Versions /\ events \in 0..MaxEvents

LastOf(a) == {o \in DOMAIN ops : ops[o].app = a /\ \A p \in DOMAIN ops : ops[p].app = a => p <= o}
Own(a) == Ready(row[a].vmid) /\ ct[row[a].vmid].owner = a /\ ct[row[a].vmid].app = a
Undisturbed(a) == a \notin crossed \union muddled /\ Exists(a) /\ Own(a)

\* What the row says of the version is so: after an install, an update or a
\* rollback that succeeded the container runs version_installed, whatever
\* failed or was lost before it, as long as the operations of an application
\* came one after the other.
VersionTrue ==
    \A a \in Apps : Undisturbed(a) =>
        \A o \in LastOf(a) :
            ops[o].pc = "done" /\ ops[o].out = "running" => ct[row[a].vmid].ver = row[a].ver

\* There is something to roll back to: the snapshot the row names is on the
\* container, through failed updates, rollbacks and the pruning of older ones.
\* An installation that is tried again may create the container anew and leaves
\* the row its snapshot of the one before.
SnapshotKept ==
    \A a \in Apps : Undisturbed(a) /\ row[a].snap > ct[row[a].vmid].made =>
        \E s \in ct[row[a].vmid].snaps : s.id = row[a].snap

\* No container is left without a row: what the engine has created stays
\* named by the application's row, which goes only when the container has.
ContainerHasRow ==
    \A v \in Vmids : LET a == ct[v].owner IN
        a # Other /\ a \notin crossed => Exists(a) /\ row[a].vmid = v

\* The address of an application is given up only when its container is gone.
AddressHeld ==
    [][\A l \in alloc : l.owner # Other /\ l.owner \notin crossed /\ l \notin alloc' =>
          ct[l.vmid].owner # l.owner]_vars

\* A row that is shown running or stopped though its container is gone is
\* found out by the reconciliation.
OrphansNoticed ==
    \A a \in Apps : []<>~(row[a].status \in {"running", "stopped"} /\ ct[row[a].vmid].st = "none")

\* What the engine does leaves the containers of others, and their addresses,
\* alone: only the outside starts and removes them.
Outside == \E v \in Vmids : OtherDeploys(v) \/ RemovedOutside(v)
ForeignUntouched ==
    [][~Outside => \A v \in Vmids : ct[v].owner = Other /\ ct[v].st # "none" =>
          ct'[v] = ct[v] /\ \A l \in alloc : l.vmid = v /\ l.owner = Other => l \in alloc']_vars
=============================================================================
