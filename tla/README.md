# PVE Manager: a verification project

PVE Manager is a web panel for Proxmox VE. Its backend (`src/backend/app`, FastAPI, SQLAlchemy, PostgreSQL,
one uvicorn worker with request threads, an event loop and APScheduler jobs in the same process) keeps a cache of the
guests of several Proxmox servers, an IP address management (IPAM), a queue of bulk operations, applications it installs
into containers, and records of long-running tasks; it edits clusters, firewalls, networks and guests through the Proxmox
API. The modules here model the parts of it where several actors share state, check them with TLC on small instances and
prove the central safety properties with TLAPS for all values of the constants.

Paths below are relative to `src/backend/app`, where nothing else is said.

Contents: inventory; how the modules are made; plan; the modules; runs, bounds, fairness; findings and observations;
proofs; what is only model-checked; not modelled.

## Inventory

| component | module | state | operations | hard behaviour | what makes it correct |
|---|---|---|---|---|---|
| **Bulk operation queue** `services/task_queue_service.py`, `api/proxmox/tasks.py` | `TaskQueue`, `BulkQueue` | table `task_queue`; the processor's local task and results | create, cancel, clear; the 5 s job; recovery at start-up | cancel against processor, crash in the middle of a task, database errors | no item sent twice, one task at a time, honest counters, nothing requeued, the queue drains |
| **Guest cache** `workers/monitoring_worker.py` `sync_vm_cache`, `api/proxmox/_helpers.py` | `VmSync` | `vm_instances`, `proxmox_servers.is_online` | the 10 s job: probe, collect, upsert, sweep; save and soft-delete by requests | minutes pass between reads and writes; servers fail in between; clusters are recognised anew each time | a living guest keeps its row and its addresses; the cache converges to the truth |
| **IPAM** `ipam_service.py`, `api/ipam.py` | `Ipam`, `Networks` | `ipam_allocations`, `ipam_history`, networks, pools | allocate, release, set primary, update, link; networks, pools, defaults, clean-up of orphans | check-then-act under READ COMMITTED; loops with one commit per address; no foreign keys | an address has one owner; the history accounts for the table; networks and pools do not overlap; nothing is left of what was deleted |
| **Proxmox task tracking** `run_upid_task_sync` | `UpidSync` | `proxmox_tasks`, failure counts in memory | poll, count failures, finalise, register | three-strikes rule, restart loses counts, errors that abort the run | a live task is not failed early, every task ends, a failed one did fail |
| **Guest alias addresses** `services/guest_ip_service.py`, `guest_ip/sync_aliases.sh`, `script_engine.py` | `GuestAddresses` | `apply_status`; interface, state file and OS configuration inside the guest | push the alias list, record the outcome | overlapping pushes of lists read at different times, one script path, scripts that fail half way or outlast their request | a push settles the guest; hand-made addresses stay |
| **Deployment, quotas** `api/proxmox/lxc.py`, `iso_vm.py`, `api/templates.py`, `quota_service.py` | `Deployment` | `deploy_tasks`, an address, a guest, a row | choose vmid, reserve, create, start, save | failure at each step, two deployments with one vmid, quota checked minutes before the row | the guest keeps its address, the quota holds, automatic choices differ |
| **Long operations** `api/proxmox/async_ops.py` | `GuestMoves` | guests, rows, allocations, `deploy_tasks` | reinstall, clone, migrate, migrate to another server | jobs of many minutes beside the synchronisation and deletions | the owner goes with the guest, the address goes last |
| **Server monitoring** `workers/monitoring_worker.py` | `ServerMonitor` | last states and alert times in memory, `is_online` | availability job, VM status job | two jobs share memory without a lock | an outage and a recovery that last are told |
| **Accounts, sessions, lock-out** `services/security_service.py`, `api/auth.py`, `api/users.py` | `Accounts` | users, sessions | login, lock-out, validation, termination, reset | unlocked counters, sliding expiry, two commits of a reset | ended sessions stay ended, the counter counts, a lock is lifted by who may |
| **Gate of the login** `api/auth.py`, `services/two_factor_service.py` | `LoginGate` | blocked addresses, second factor, recovery codes | count failures, block, set up, enable, disable, consume | read and write apart in every request | tries are bounded, codes open once |
| **User administration, RBAC** `api/users.py`, `api/auth.py` | `Administration` | users, roles | create, change, delete users and roles | authorised by what was read before | an administrator remains |
| **WebSocket manager** `websocket_manager.py` | `WebSockets` | sockets by user and by channel | connect, subscribe, broadcast, disconnect | sets change while a broadcast awaits | no dead socket kept, no live one dropped |
| **Backup scheduler** `services/backup_scheduler.py`, `api/proxmox/backup.py` | `Backups` | `backup_jobs`, the scheduler's list | create, update, toggle, delete, run, load | restart during a run, edits during a run | scheduled iff enabled; running iff a run is |
| **App Store engine** `services/appstore_engine.py`, `appstore/pipeline.py` | `AppStore` | `installed_apps`, `app_operations`, containers, snapshots | install, retry, update, rollback, delete, lifecycle, reconcile | long operations against a reconciler; restarts | the version shown runs, a snapshot to go back to, no lost container |
| **Consoles** `api/proxmox/vms.py` | `Consoles` | handlers, relay tasks, pooled connections | ticket, open, relay, close | the first of two tasks to end ends both; a pool of bounded size | nothing stays behind; output in order |
| **Servers and connections** `api/proxmox/servers.py`, `proxmox/client.py`, `proxmox/token_provisioning.py` | `Connections` | the row of a server, the cache of clients, tokens on Proxmox | open, edit, delete, provision | cache cleared before the commit; a token issued before it is saved | no stale credential is cached; no token forgotten |
| **Guest hardware and power** `api/proxmox/vms.py`, `proxmox/mixins/vm.py` | `GuestHardware` | slots, volumes, boot order, power | detach, destroy, move, resize, boot, restart | unhooked first, destroyed after; a power cycle that comes too late | no volume destroyed unasked; a restart is a restart |
| **Templates and images** `api/templates.py`, `api/proxmox/async_ops.py` | `Templates` | rows, groups, files, guests that are templates | fetch, import, convert, register, clone, delete | rows name a VMID that may be another guest's | the clone is of the template that was meant |
| **Clusters** `api/proxmox/cluster.py` | `Clusters` | membership, `cluster_name`, guests, backups | create, prepare, join, import, eject | emptiness is asked minutes before the join | no guest without a backup; servers are shown where they are |
| **Firewall** `api/proxmox/firewall.py` | `Firewall` | lists by position, tables by name | read, change, move, delete | others edit in between | a change reaches what was meant |
| **Node and SDN settings** `api/proxmox/node_admin.py`, `sdn.py`, `networks.py` | `NodeSettings` | forms, staged changes, repositories, certificate | read, write back, stage, apply, revert | stale forms, other people's staged changes | no edit undone by somebody who had not seen it |
| **Start-up** `backend/migrations/migrations.py`, `rbac/migration.py`, `db.py` | `Startup`, `Migrations`, `Schema` | schema, values, roles, markers | create_all, the migrations, restarts | every start runs everything; a failed statement aborts a transaction | choices survive; the schema is complete |

Interactions: deployments and applications reserve addresses in IPAM and save rows into the guest cache; the sync job and
the delete handlers release addresses through IPAM; linking addresses asks the cache whether their owner still lives; the
queue, the handlers and the jobs call Proxmox; long operations run beside the synchronisation and deletions of the same
guests; jobs and handlers meet only in the database and, inside the process, in the scheduler's list, the cached
connections, the socket sets and the alert memory. What interacts on the same guests and rows is in one module: the
synchronisation is in `VmSync`, `Deployment` and `GuestMoves`, the reconciler and foreign deployments in `AppStore`.

The remaining components (metrics history, notifications, panel updates, logs, the user interface ...) are listed with
their reason in `PROJECT.json` and under "Not modelled".

## How the modules are made

* A component is a module without a bound on what it does: its sizes and event bounds are CONSTANTS with a named
  assumption. An action is what a handler, a job or a script does between two points at which another actor may come in:
  between two commits, two awaits, two calls of Proxmox. Sync handlers run in threads and interleave at every statement that
  a decision rests on; handlers of the event loop interleave at their awaits only, and block it while they wait for Proxmox
  (`GuestHardware`, `Consoles`).
* A session keeps what it has loaded, and an UPDATE by primary key writes only the columns whose value changed: a thread that
  holds a row read earlier overwrites what came between without noticing. There is no version column anywhere.
* A crash loses what is in memory (the processor's state, the scheduler's list, alert times, failure counts, cached connections)
  and keeps the commits. The start that follows is part of the restart action.
* History variables, named as such, record why something may go wrong (`crossed`, `contested`, `muddled`, `disturbed` ...).
  A property of the form "P unless a recorded cause" is as strong as its causes are narrow: each is set by exactly the
  interleaving or fault that the code leaves unprotected, and these are listed under "Observations".
* No module declares a RECURSIVE operator, so that theorems can be stated about each of them.

## Plan

Done: the queue with its abstract specification and refinement; task tracking; synchronisation; IPAM and its administration;
alias addresses; deployment and quotas; long operations; monitoring; accounts, the gate of the login, administration;
sockets; backup jobs; App Store; consoles; connections; hardware; templates; clusters; firewall; node settings; start-up
and migrations. Proofs for all of these.

Left, in this order:

1. `Deployment` composed with `Ipam` instead of a release in one step.
2. Pure algorithms against reference definitions: matching of permissions with wildcards, retention of metrics.

## Modules

For every definition that models code `PROJECT.json` ("map") names the file, lines and symbol. The tables say how state and
actions correspond for the components whose code is spread most widely; for the others a paragraph does.

### TaskQueue and BulkQueue

| TLA+ | code |
|---|---|
| `status`, `completed`, `failed`, `results` | columns of `task_queue`; a row is named by its rank in `created_at` order |
| `pc`, `cur`, `res` | where the processor is, its task, its local `results` |
| `req[r]` | what a cancelling request thread read |
| `CreateTask`, `CancelRead`, `CancelCommit`, `ClearCompleted` | `create_task`, `cancel_task` (its SELECT and its UPDATE), `clear_completed_tasks` |
| `PickTask`, `LoadTask`, `MarkRunning`, `ProcessItem`, `CommitItem`, `FinishTask` | `process_pending_tasks` and the stages of `process_task` between two commits |
| `DbError` | any statement of the processor fails; its handler's commit fails too, on the same session |
| `Crash`, `Restart` | loss of the process; `start_monitoring_worker` with `recover_interrupted_tasks` |
| `calls`, `cancelOK` | history: Proxmox calls made, cancels answered |

A row written by primary key is written whatever it holds by then, and a deleted row makes
the UPDATE fail; both follow from the session settings in `db.py`. The six task types differ only in the call made.

`BulkQueue` is what whoever queues a job may rely on: jobs are claimed one at a time, the oldest first; calls are made while
a job is claimed, in order and none twice; a job goes back only if none of its calls was made, and one that is over stays so.
`TaskQueue` implements it (`KeepsPromise`, an INSTANCE with a refinement mapping): a job is claimed from `picked` on, not
from the commit of `running`, which is why a cancel answered in between withdraws nothing.

### VmSync

| TLA+ | code |
|---|---|
| `rows[k]`, `alloc` | `vm_instances` by (server_id, vmid) and `deleted_at`; the keys that hold allocations |
| `online`, `reach` | `is_online`; whether the Proxmox API answers |
| `StartSync`, `Probe`, `Collect` | lines 615-741 of `sync_vm_cache`: the servers, the node lists, the guests |
| `LoadRow`, `UpsertCommit` | the upsert loop and its single commit, which a key inserted meanwhile breaks |
| `SweepRead`, `MarkDeleted`, `FinishSync` | lines 886-925: rows not collected are marked and their addresses released; a release commits the marks made so far |
| `DeployReserve`, `DeployCreate`, `DeploySave` | a deployment thread: reservation, creation on Proxmox, `save_vm_instance` |
| `DeleteSave`, `DeleteAccept`, `DeleteUnlink`, `DeleteMark`, `DeleteRelease` | the delete handlers and `soft_delete_vm_instance`, commit by commit |
| `CheckAvailability` | `run_server_availability_check` as to `is_online` |
| `Vanish`, `Appear`, `LoseServer`, `RegainServer`, `Crash` | the environment |

Servers are numbered by id and grouped into installations (`Site`); a guest lives in one. Left out: other attributes of
a guest, IP detection, templates, broadcasts, and several addresses per guest (module `Ipam`).

### Ipam

`rows` is the table `ipam_allocations` of one network; `thr[t]` is what a request has read and where it stands. Each SELECT
that a decision rests on is an action and so is each commit: `CheckFree`, `ReadPrimary`, `Insert` (`allocate_ip`);
`BeginReleaseGuest`, `NextRelease`, `Requery`, `Delete`, `ReplyReleased` (`release_ip_by_vmid` around `release_ip`);
`WritePrimary` (`set_primary`, which writes only the flags that differ from what it read); `SyncRead`, `SyncPrimary`,
`SyncOwner`, `MoveRead`, `Move` (`sync_from_proxmox_vm` and `update_allocation`). `BeginAuto` takes the lowest free pool
address, for one pool. `granted` and `released` count the entries of `ipam_history`. Whether a guest is in
the cache is a choice at every read of it.

Left out: edits of `status` and of `resource_id`, `release_all_by_server`, the exclusion of node addresses when a whole
subnet is scanned, and the column `vm_instances.ip_address`.

### Networks

What surrounds the allocations: rows of networks and pools, the default network of a workspace, automatic allocation, the
clean-up of orphans, linking, and the subnets of the SDN that bring a network of their own. A request reads and
decides (`Asked`) and goes on later (`GoesOn`): its checks hold for what it read. Guests come, go, take an address and enter
the cache by themselves (`GuestChanges`). No table refers to another by a foreign key, so that what one request deletes another
may still write to.

### GuestAddresses

| TLA+ | code |
|---|---|
| `rows` | the alias allocations of one interface of one container, with `apply_status` |
| `thr[t]` | a request: the rows and the list it read, where it stands, the outcome it will write |
| `live`, `state`, `conf`, `file` | in the container: the interface's addresses, the script's state file, the OS configuration, `/tmp/pve_script_<vmid>.sh` |
| `proc[t]` | the script process a request started, which goes on when the request times out |
| `AddAddress`, `ApplyAddress`, `RemoveAddress` | the handlers in `api/ipam.py` up to the push |
| `ReadRows`, `Upload`, `Exec`, `Collect`, `Cleanup`, `Finish` | `sync_interface`, `run_on_lxc`, `SSHClient.execute`, `_finish` |
| `Clear`, `AddNext`, `WriteState`, `Persist` | `sync_aliases.sh`, step by step |
| `Reboot`, `HandAdds`, `HandRemoves`, `LinkFound`, `DeleteAllocation` | what else changes the guest or the rows |
| `hand`, `managed`, `lost` | what the administrator configured; history: addresses ever in IPAM; addresses dropped from the state file by a script that overlapped another, or failed before it wrote it |

`Upload` and `Exec` are apart because all requests to a container use one script path; the choice of a failing branch in each
stands for lost connections and a switched-off guest. The stack that keeps addresses over a reboot is chosen once:
a file of the panel's own (ifupdown, netplan, sysconfig), NetworkManager, the systemd unit, or none. Left out: the
transport to a VM, several interfaces, prefixes, the choice of an interface.

### UpidSync

| TLA+ | code |
|---|---|
| `row[t]`, `halfway` | `proxmox_tasks.status`; VM deletions registered but not yet completed by their handler |
| `pve[t]`, `reach` | the task on Proxmox and how it ended; whether the API answers |
| `known`, `online` | the servers in the panel and `is_online` |
| `fails` | `upid_fail_counts`, in memory |
| `pc`, `todo`, `cur`, `got`, `expired` | the job, the rows it still has to look at, the row it holds, what Proxmox said, whether its session has to read rows again |
| `Register`, `CompleteDeletion`, `ClearCompleted`, `RemoveServer` | `ProxmoxTaskService.register`, the second commit of `delete_vm`, `clear_completed_tasks`, `delete_proxmox_server` |
| `StartPoll`, `FindGone`, `Skip`, `PollAnswers`, `PollFails`, `GiveUp`, `Record`, `FinishPoll` | `run_upid_task_sync`, one action per row and stage, commits apart from the polls they follow |
| `CheckAvailability`, `Crash`, `TaskEnds`, `LoseServer`, `RegainServer` | the availability job as to `is_online`, the loss of the process, the environment |

A commit that fails ends the run (`EndRun`): the session is never rolled back, and reading the task for the message of the
error handler raises a second time. Registered deletions have an invented identifier, so every poll of one fails.
The rows are those of one user. Left out: progress, log texts and broadcasts.

### AppStore

| TLA+ | code |
|---|---|
| `row[a]`, `ops` | `installed_apps`; `app_operations` with the jobs of the pool, oldest first |
| `ct[v]`, `alloc` | the containers of one server, with version and snapshots; addresses by the vmid they were taken for |
| `PickVmid`, `Allocate`, `Insert` | the install request: number, address and row in commits of their own |
| `Retry`, `Update`, `Rollback`, `DeleteApp`, `BeginLifecycle`, `EndLifecycle` | the requests on a row; a lifecycle request waits for Proxmox itself |
| `JobStep(o)` | one stage of the job of an operation: probe, create, install, snapshot, update, rollback, destroy, release, finish |
| `BeginPass`, `CommitPass` | the reconciliation of every minute: all rows and containers are read, the rows written at the end |
| `CreationEnds`, `OtherDeploys`, `RemovedOutside`, `SyncCatalogue`, `Crash` | Proxmox, other users of the same server, the catalogue, the loss of the process |

`muddled` and `crossed` are the applications whose operations overlapped, for which the row of an older operation may be written last.

### Deployment, GuestMoves

`Deployment` follows a request from the quota check (`Submit`) through its job, stage by stage (`JobStep`) or out of it at any
stage (`Fail`): vmid, address, creation, wait, configuration, row, start, with the exits of the container, ISO and template variants.
`Delete`, `SoftDelete`, `ReleaseAgain` are a deletion, `Synchronise` the sync job as to one vmid. `CreationEnds` comes also
after the job has given up waiting.

`GuestMoves` has the four jobs of `async_ops.py` on guests that exist, keyed by server and vmid. `JobStep` is the next stage of
a job, `RecordFails` a database error that the code swallows, `Refused` what Proxmox refuses because of its lock on the guest,
`TaskEnds` the end of the Proxmox task a job waits for.

### ServerMonitor

`AvailabilityStep` and `VmStatusStep` are the stages of the two jobs that watch one server: what each has read (`avail`, `vmjob`)
may be old when it writes `known`, `alerted` and the row. `TenMinutes` ends the cool-down, `Flip` changes the server.
`told` is what users heard last; `excused` says that the jobs crossed or the memory was lost.

### Accounts, LoginGate, Administration

`Accounts` is one account with concurrent logins, calls of their sessions and handlers that change the password or delete.
`LoginStep`, `SessionStep`, `ResetStep` are stages between loads and commits; the slow check of a password lies between two of
them. `LoginGate` is what a login passes besides: the block of its address, counted from the log, and the second factor with
its set-up and recovery codes. `Administration` is who may change users and roles: a request is authenticated and
authorised in a thread (`Authenticate`), its handler runs later with that user object; handlers of `/admin` run one at a
time, the older `DELETE /api/users` in a thread of its own (`StartRemove`, `RemoveUser`).

### WebSockets, Consoles

Both run on one event loop: an action is what runs between two awaits. In `WebSockets` a broadcast works through a copy of a
set (`SenderStep`) and cleans up at the end; endpoints come and go at each send. In `Consoles` a handler takes a ticket, holds a
connection of the database pool, opens the far side and relays in two tasks, the first of which to end ends the other
(`HandlerStep`); `blocked` is the handler that waits for the pool and holds up the loop until the pool's timeout.

### Backups

`Create`, `Update`, `Toggle`, `Delete`, `RunNow` begin a request; `Register`, `CommitUpdate`, `Reschedule`, `CommitToggle`,
`ReloadToggle`, `ApplyToggle`, `CommitDelete` are its further stages. A run (`Fire` or `RunNow`) loads the job, marks it, waits,
loads it again and writes the outcome. `Restart` empties the scheduler and loads it from the table.

### Connections

`cache[k]` is keyed as in the code by host, user and token name, without the secret. A thread reads the row (`Use`), looks up the
cache, connects, stores. `Update` clears the cache and commits later; `Provision`, `Create`, `Issue`, `Save`, `SaveFails`, `Revoke`
are the token's way from Proxmox to the row or back. `left` and `replaced` are what the panel let go of.

### GuestHardware, Templates

`GuestHardware` is one guest: slots, unused volumes, the boot order and the power cycle that puts it in force. Disk handlers
block the event loop (`loop`) until they are done, image and power handlers run in threads. `Templates` has the jobs that
fetch an image, make a guest of it and a template of that, and register a row; rows and groups refer to each other and to a
VMID without foreign keys. Guests have an identity besides the VMID, so that a clone of the wrong guest is visible.

### Clusters, Firewall, NodeSettings

`Clusters`: every server of the panel is one node; creation, preparation with backups and destruction of guests, joining,
importing, ejecting, with the tasks on Proxmox and `cluster_name`. `Firewall`: rules are named by their position, groups, IP sets and
aliases by name; an administrator reads a list and sends a change, which others may have overtaken. `NodeSettings`: forms
that are written back whole, with a digest where the code passes one; zones, vnets and interfaces that wait to be applied or
reverted; repositories by position; the certificate and the proxy that serves it.

### Startup, Migrations, Schema

`Startup` is what a start does to the roles: all migrations in order, each committed or rolled back on its own, with a
stop at any point and edits of administrators in between. `Migrations` names the tables, columns, values and migrations of
`migrations.py` in their order and the databases a start may find (`init.sql`, older releases, empty); `Schema` runs them
statement by statement in PostgreSQL transactions: a statement that failed makes the rest fail and the commit undo all.

### Promises, Services, Panel

Compositions of components side by side, one INSTANCE each: a behaviour is one of one part, named by `part`, so that one run explores many
components without multiplying their states, and one module holds their theorems (of `Panel` two: `ResourcesProofs` continues `PanelProofs`). The parts share nothing in the model; their
interactions are inside the modules. The sizes of the parts are CONSTANTS of the composition; `MCPromises`, `MCServices` and `MCPanel`
only name elements and symmetries. In `Promises` and `Services` every part has variables of its own (`aReq`, `dTask`, `lLogin` ...),
empty while another part runs; `Panel` has `v1` ... `v12`, which each part takes for its own. Roles are `RoleNames` in `Panel`, because
`Startup` fixes its `Roles`. What the parts assume of the constants is in `ServicesAssumption`, `ConsolesAssumption` and
`PanelAssumption`: bounds are naturals, the threshold of the lock is at least 1 (the range the settings allow), and the
marks that stand for nobody or nothing are not names: no application is called `other`, no server has key 0. `BoundsAssumption` adds
that the administrators' role is one of the roles and that what requests grant is of the permissions `Administration` tells apart.

## Runs

| run | instance | shows |
|---|---|---|
| `promises` | the bulk queue: 2 tasks (2 items, 1 item) of two users, 1 cancelling thread, 2 crashes, 1 database error; one application, 2 workers, 2 operations, 1 event; the two monitoring jobs, 4 flips; 2 consoles over a pool of one connection, 2 pieces of output, 1 event | `ItemsOnceInOrder`, `SingleRunning`, `JournalHonest`, `NeverRequeued`, `KeepsPromise` (the queue implements `BulkQueue`), `DrainsOrWedges`; `OutsideNoticed` (containers that are gone, outages and recoveries are found out); `ConsolesTrue` (output in order, nothing left behind), `ConsolesReleased` |
| `task_queue_wedge` | 2 tasks, 1 database error | counterexample to `QueueDrains`: a row left running blocks the queue until a restart |
| `vm_sync` | a cluster of 2 servers, 1 guest, 1 deployment, 1 change or deletion, 1 outage, 1 crash | `AddressFollowsRow`, `OfflineKept`, `LossHasCause`, `CacheConverges` |
| `vm_sync_second` | a cluster of 2 servers, no outage and no change | counterexample to `AddressKept`: a guest deployed through the second server loses its address |
| `ipam` | 3 addresses, 2 guests with one vmid, 2 threads, 2 allocations ever | `UniqueAddress`, `HistoryAccounts`, `ReleaseComplete` |
| `ipam_two_primaries` | 1 thread | counterexample to `AtMostOnePrimary` by a sequence of legal calls |
| `upid_sync` | a Proxmox task and a VM deletion on 2 servers, threshold 2, 2 failing polls, 1 outage, 1 removed server, 1 crash | `OutcomeHasCause`, `RowsEnd` |
| `guest_addresses` | 2 addresses, 2 threads, 3 events of which 3 may be requests and 2 others, three kinds of guest | `PushSettles`, `HandMadeStays`, `OnlyStaleListsRemove` |
| `guest_addresses_stale` | 2 overlapping requests, no other event | counterexample to `AppliedIsLive`: an address marked applied was never sent to the guest |
| `services` | App Store (1 application, 1 worker, 3 operations, 2 versions, 1 event); deployments (2, over 2 vmids and 2 addresses, quota 1, 1 event); moves (2, over 2 vmids, 2 nodes, 2 servers); a backup job with 2 requests and 2 runs; 2 sockets, 2 users, 2 broadcasts of 3 sends; an account with 2 logins, 2 resets, lock after 2; the two monitoring jobs | `AppsTrue`, `DeploymentsTrue`, `BackupsTrue`, `MembershipTrue`, `AccountsTrue`, `SessionsEnd`, `OwnerMoves`, `AddressesKept` |
| `panel` | connections (2 threads, 1 token name, 3 secrets), users (2, with 2 roles and 3 requests), the gate (2 logins, threshold 2, 4 failures, 2 secrets, 2 codes), hardware (2 requests, 3 volumes, 4 events), roles at start-up (2 events), schema (48 initial databases, 3 events), clusters (3 servers, two with nodes of one name, 1 guest), firewall (2 administrators, 2 names, 2 items, 3 calls), networks (2 networks, 2 pools, 2 addresses, 2 guests), node settings (2 administrators), templates (2 jobs, 2 vmids, 2 rows); 3 events each where not said | `CredentialsTrue`, `AccessHolds`, `GuestsTrue`, `StartsTrue`, `ClusterTrue`, `EditsTrue` |
| `appstore_foreign` | 1 application, 1 foreign deployment | counterexample to `ForeignUntouched`: a container of somebody else is adopted and destroyed |

The properties of `services` and `panel` are conjunctions of the properties of their parts, which the modules state and explain:

| property | parts |
|---|---|
| `AppsTrue` | `VersionTrue`: the container runs the version its row shows. `SnapshotKept`: the snapshot to roll back to exists. `ContainerHasRow`: no container of the engine without a row |
| `AddressesKept` | `AddressHeld`, `AddressStays`, `AddressGoesLast`: an application, a deployed and a moved guest that is there keeps its address |
| `DeploymentsTrue` | `QuotaHeld`, `AutomaticDiffer`: the quota counts, two automatic choices are never alike, unless requests overlapped |
| `OwnerMoves` | a remote migration reported completed left a live, owned row at the target |
| `BackupsTrue` | `ScheduleFollows`, `RunningHasRun`: the scheduler's memory and the table agree across edits, runs and restarts |
| `MembershipTrue` | `ClosedForgotten`, `LiveKeepTheirPlace`: the cleaning after a broadcast removes all of the dead and none of the living |
| `AccountsTrue`, `SessionsEnd` | `ResetEndsSessions`, `CounterTrue`, `EndedStaysEnded`, `LockLifted` |
| `CredentialsTrue` | `CredentialsFresh`, `TokensAccounted`: no cached connection carries an edited credential; no token is forgotten on Proxmox |
| `AccessHolds` | `AdminRemains`, `TriesBounded`, `SecondFactorTrue` |
| `GuestsTrue` | `VolumesKept`, `RestartApplies`, `TemplatesTrue` |
| `StartsTrue` | `ChoicesSurvive`, `SchemaComplete`, `BackfillWithColumn`, `ChoicesStand` |
| `ClusterTrue` | `GuestsKept`, `MembershipTrue` |
| `EditsTrue` | `RightOneReached`, `NetworksApart`, `PoolsApart`, `NothingLeftBehind`, `GuestsKeepAddresses`, `SettingsKept` |

**Bounds.** The constants named `Max...` and `...Events`, `...Ops`, and the numbers of threads, requests, jobs and runs cap events, never
code. Two tasks suffice for the queue because the processor looks at one task and at the existence of another; two items make an
interrupted task, and a task of one item tells a last item from a first. Two servers make the smallest cluster, and a guest's
addresses interact only with its own keys and with those of the same vmid elsewhere. In `Ipam` two threads suffice for every
race on one address, since an interfering request only matters through its commit; two guests of two servers with the same vmid
exercise the fallback by `resource_id`, and two allocations make a guest with several addresses. In `GuestAddresses` three events
hold the longest story a single address needs: an address that could not be sent, a second one whose push fails half way, and the
removal of the first. In `UpidSync` the threshold of 2 instead of 3 keeps what matters: a first failure, one that
reaches the threshold, an answer in between; a crash between the two commits of a VM deletion leaves the same row as a container deletion.
In the App Store an install, an update and a rollback need three operations and two versions; one worker makes them queue, and the
two workers of `promises` let a lifecycle overlap the reconciler. Elsewhere two requests that overlap are the hazard, and a third event is what
comes between. In `Clusters` the third server has a node of the same name as the first, which the join confirms by. In `LoginGate` four
failures are the threshold, one more for each of two logins. A table or list of two elements tells a position from an identity.

**Symmetry** is used where all names in a set are alike and no liveness is checked: threads and guests of `ipam`, threads of
`guest_addresses`, and the two requests, threads, jobs, logins or sockets named `d1`, `d2` of `services` and `panel`.

**Deadlock** is checked for `vm_sync`, whose job runs for ever. The other bounded instances run out of tasks, identifiers or events.

**Fairness.** `promises`: APScheduler keeps firing the processor job, the reconciliation and the two monitoring jobs, the container runtime
restarts the process (`restart: unless-stopped` in `compose.yml`), the pool of the App Store works off its jobs, Proxmox ends the creations
it has accepted, time passes, and the event loop runs a handler that can go on; that a relay task notices that its browser has
gone is part of this. `VmSync!FairSpec`: the sync and availability jobs, the progress of requests once started, and
Proxmox carrying out an accepted destruction. `UpidSync!FairSpec`: the poll and availability jobs, and tasks on Proxmox coming to
an end. Users, the network and Proxmox administrators promise nothing; `CacheConverges` and `RowsEnd` are conditional on servers
that have come back to stay. All of it is weak fairness: a single uvicorn worker holds the one scheduler (`backend/Dockerfile`, `--workers 1`), and
no job competes with itself (APScheduler runs one instance of a job unless told otherwise).

Each property of a passing run has a mutant in its module, named `Mut...` and placed before the definition it distorts: a dropped
guard, a missing reset, an uncounted failure, a wrong key. Under it TLC finds the property violated.

## Findings

* A database error while a task is processed wedges the queue (`task_queue_wedge`).
* The sync job takes "not listed" for "does not exist": guests lose their addresses after a failed request, after a
  deployment that overlaps the job, and always when they were deployed through a server of a cluster other than the one with
  the smallest id. The last needs no fault and no race and is what `vm_sync_second` shows; the other two are the further
  causes `LossHasCause` admits.
* Two overlapping pushes to one container leave an address marked applied that the guest does not have: the lists are read
  before they are sent, and all scripts share one path (`guest_addresses_stale`).
* Moving a primary address to a guest that has one leaves two, where `models/ipam.py` promises exactly one (`ipam_two_primaries`).
* The App Store takes over, and later destroys, a container somebody else created under the vmid it was offered
  (`appstore_foreign`).

## Observations

What the modules contain because the code does it, and what the properties name as a cause; no run is spent on each.

* **Queue**: a cancel may be answered "Task cancelled" and overwritten by the commit of `running` (`tasks.py` 190, 196).
* **Task tracking**: an exit text of more than 100 characters fails the commit for ever and ends each run at that task
  (`monitoring_worker.py` 1073; the hypothesis `ShortTexts` of `RowsEnd`); a container deletion is recorded as failed although it
  succeeded; rows of a removed server stay running (`ServersKept`).
* **Alias addresses**: an address brought up by a script that failed afterwards is in no state file; once removed from
  IPAM no later push takes it down, although IPAM may give it to another guest; and of two overlapping scripts the last to write the
  state file drops what the other has brought up (`lost` in `PushSettles`).
* **Deployment**: concurrent requests exceed the quota; a deployment that fails after it took an address leaves it taken
  (`release_ip` is handed an id where it expects an address, or is not reached); rows of `deploy_tasks` cut off by a crash stay running.
* **Long operations**: nothing excludes two operations on one guest; the synchronisation during a reinstallation releases the address though
  `net0` keeps it; a remote migration takes no address at the target; a clone is registered even when the wait failed; failures
  to record are swallowed and reported completed.
* **Accounts**: a crash between the two commits of a reset leaves the old sessions; `change_password` ends no session; the counter is not
  reset when a lock expires. **Gate**: concurrent logins may spend one recovery code twice or bring one back; a set-up that crosses
  an activation leaves an unconfirmed secret on; an automatic block replaces a permanent one.
* **Administration**: `update_user` with `is_active=false` commits inside `terminate_all_user_sessions`, so that a 403 that follows
  leaves the deactivation; administrators by role can delete administrators by flag through `/api/users`.
* **Connections**: the cache key leaves out the secret, so testing a wrong password against a cached host succeeds; an update clears
  the cache before it commits; `clear_server_cache` takes no lock; provisioning leaves the previous token on Proxmox; after a failed
  commit with the row deleted, the new token cannot be revoked.
* **Consoles**: each console holds a database connection for its whole life; with an empty pool the event loop stands still
  until the pool's timeout.
* **App Store**: errors of the release of an address are swallowed (517-521); a retry leaves `last_snapshot` of the container it replaces
  (`appstore_engine.py` 447-484).
* **Hardware**: the volume to destroy is matched by substring (`mixins/vm.py` 610-614): with volumes of which one name contains another
  (`disk-1`, `disk-10`; constant `Longer`) `VolumesKept` fails; `disk_size` in the cache is set to whichever disk was resized;
  resizing and moving hold the event loop for up to an hour; the row shows the expected power before the task has ended.
* **Templates**: the result of the import is ignored (`async_ops.py` 1226), so that after a failure configuration and conversion reach
  whichever guest has taken the VMID; a cached image is trusted by name, an upload's checksum is not compared with a file
  that is there; with a checksum the file is deleted though another job may be importing from it; a registration that fails is
  swallowed; a row outlives its template, and a deployment clones whatever has the VMID; deletions of groups and
  servers race with new rows.
* **Clusters**: listings of guests that fail read as empty, so that the check before a join fails open; a preparation takes the first node listed; a join is
  confirmed by node name, so a namesake confirms one that failed; a creation records `cluster_name` before its task has ended.
* **Firewall**: deletions take no digest; positions shift under whoever looks at them.
* **Node settings**: a read that fails answers an empty form with status 200, which is written back; DNS, zones, vnets and interfaces carry
  no digest; repositories are toggled by position; applying and reverting act on everybody's staged changes; applying answers before its
  task has ended; the form of an interface leaves out cleared fields; certificate uploads force and restart by default.
* **IPAM administration**: no foreign keys; the uniqueness of default networks, CIDRs and pools is not protected against concurrent
  requests; the clean-up during a deployment takes the address of a guest not yet cached; deleting an SDN subnet leaves the network's pools
  and allocations; deleting a network without force takes addresses allocated meanwhile.
* **Start-up**: the moderator's default contains `setting:view`, migration 42 takes it once and the next start gives it back (against its
  docstring and `CHANGELOG.md` 151); migration 42 takes only the new name (`migrations.py` 1883), so that a role whose conversion failed
  gets the settings back from a later one; a refusal in the old format is lost by the conversion; `dashboard:view` of users and `cluster:manage` of
  administrators are forced at every start; the Default workspace is never created by a start; owner and workspace
  backfills run at every start and refill what was cleared; icons of template groups are overwritten at every start. A statement that is only
  tried aborts its PostgreSQL transaction when it fails: the commit undoes the migration while the log says completed.

## Proofs

Eight modules hold the theorems. They hold for all values of the constants that satisfy the modules' named assumptions (counts and bounds
are naturals, a task has an item and an owner, a guest has a disk, there is a network with a pool, an address and a guest to begin with, sets
are what they are called), and each rests on an inductive invariant, shown for
`Init`, for each action, and for stuttering.

`PromisesProofs`, of the queue: `QueueTypeOK`, `ItemsAreSentOnce`, `OneTaskRuns`, `JournalIsHonest`, `NoTaskIsRequeued`, and `QueueRefines`:
`Spec => KeepsPromise`, the queue implements `BulkQueue`. The properties alone are not inductive: that one row at most is
running depends on the processor being past its look-out only while no row is running; that no item is sent twice depends on
a task in `picked` or `loaded` having no results yet, on the local results extending the stored ones by at most one, and on
the calls of a task never running ahead of them. `IInv` says this for each stage of the processor and each status of a row. For the
refinement every action is mapped to the step of `BulkQueue` it is, or to a stutter; that a crash gives back or ends the job in
work follows from `IInv`.

`UpidSyncProofs`: `TrackerTypeOK`, `OutcomesHaveCause`. That a row about to be given up has failed `Threshold` polls depends on the counts in
memory never exceeding the failures there were (`CountsHonest`), although crashes reset them and failed commits keep them;
that a recorded answer is true depends on what the job holds while the task goes on (`JobInv`), and on the job alone
finishing the rows of Proxmox tasks.

`GuestAddressesProofs`: `GuestTypeOK`, `HandMadeAddressesStay`, `NewerListsKeepAddresses`. Both action properties speak of what a script
takes down: the state file's addresses that are not in its list. The invariant therefore follows every list on its way, held
by a request, by a script or by the shared file, of which requests overwrite and run each other's: it names only
addresses that have been in IPAM, and the addresses of all rows whose identifiers are at most the last one when it was read
(`Known`). The state file names only addresses that have been in IPAM, since only scripts write it (`Accounted`).
`PushesSettle` is about a push that ran alone, from the reading of the rows to its answer. `SettleInv` adds to the invariant that every
address on the interface is configured by hand, in the state file, with a script that will write it there, or lost (`Tracked`), that a
script brings up nothing outside its list, and for a request that is alone, stage by stage, what the list, the interface and the state file
have in common with IPAM (`Settles`, `Progress`); whatever another actor does makes it alone no longer.

`IpamProofs`: `TypeCorrect`, `AddressesUnique`, `HistoryTrue`, `ReleasesComplete`, from `Inductive`. Uniqueness alone is inductive
thanks to the unique index, but the history is not: a thread deletes by identifier what it read by address. The
invariant says that identifiers are unique and bounded by the sequence (`IdsUnique`), that an identifier a thread has read still stands for
the address it read or for no row at all (`Known`), and, for the loop of a release, that all rows it has taken up but the one
it is about are gone (`Gone`); a row, once gone, stays so because identifiers are not given out twice.

`VmSyncProofs`: `AddressesFollowRows`, `OfflineRowsKept`, `LossesHaveCause`. The action properties need what the job holds: the
servers it found online and has still to visit (`OwnServers`), that a server that stopped answering is recorded as flaky
(`OutagesSeen`), that for a steady guest of a server it has visited the collected data has a key under the least server that named the cluster
(`Collected`), and that therefore a key it is about to sweep is either not of a steady guest or has a smaller server of the same installation
(`GoneExplained`). The choice of the least server is where the well-founded order of the naturals comes in (`LeastProperty`).

`ServicesProofs` is about the composition `Services`; a lemma of each part keeps its own invariant, and the theorems follow because a step is
one of one part. `TypesHold` is its type invariant. `AppsHold` (`AppsInv`): an operation that came in turn is the last of its application and has its row and vmid
(`InTurn`), nobody else is at that vmid (`Apart`), the snapshots of a container are named by the updates that took them, the
one of the row by the last, and what each type of operation has brought at each stage is said for one operation, row and container
together (`Fits`, `VersionFits`, which every action keeps), since none of the three properties is inductive without the others.
`DeploymentsHold` (`DeploysInv`): one deployment at most is under way as long as requests do not overlap, and there is room for it (`RoomLeft`);
an uncontested job finds nothing at its vmid until it has asked for the guest, and then no deletion there (`EarlyFree`, `NoDeletion`);
leases are unique and of jobs that have begun. The counting rests on the theorems about finite sets. `OwnerMovesHolds`
(`MovesInv`): one Proxmox task holds a guest, two operations on one guest are both disturbed (`Exclusive`), and the source of one that
moved away stays empty. `BackupsHold` (`BackupsInv`): what the only request on a job knows of the schedule in each of its phases
(`PhaseSound`), and that a row that says running has a run that will overwrite it. `MembershipHolds` (`SocketsInv`): a set holds
sockets that are served, under a user only that user's; a key without a set has a socket whose end will remove it; and what a broadcast still has
to clean up is closed. `AccountsHold`, `SessionsEndHolds`
(`AccountsInv`): a login has no session before it is through, has loaded a lock that was not in force, and a counter that is still
the one in the row unless handlers crossed. `AddressesKeptHolds` is an action property of three parts, from their invariants.

`PromisesProofs`, of the consoles: `ConsolesHold`. Which of the two sides of a console may be open in which stage (`Whole`) is inductive only with
what the handler has been through (`at` within the stages of its kind), and the output shown is what has been received (`Shown`); whoever holds up
the event loop is looking up its user (`Held`), with `ConsolesAssumption` that no window is called as nobody is.

`PanelProofs` is about the composition `Panel`; the variables a part takes get the part's names first. `AdministratorRemains` needs
that a deletion by the older path was allowed to an administrator, by flag or by role, and is never about the one who asks
(`RemovesAllowed`): whoever removes an administrator is one that stays, unless the flag was lost in between (`crossed`)
or never there (`byRole`). `AccessIsHeld` (`GateInv`): the passwords tried
are among the failures counted, and together with the logins already let past the count they are at most the threshold, less one, and the number of
logins (`Guesses`); stored, spent and seen codes are among those drawn, and what a request is about to write was allowed when it
read (`Factors`). `CredentialsHold` (`ConnInv`): what an edit took out of the row is not in it again (`ReplacedApart`), and until an opening and an edit
cross nobody tries what was replaced, and whoever is about to commit an edit has an empty cache (`TriedFresh`, `ClearedFirst`); a
token has a name and a secret that was told, and only additions and provisionings have one issued (`MadeNamed`, `OneCreates`). `ChoicesHold`
(`RolesInv`): a decision stands in a row without old names, so that no later conversion of names can touch it; what each of the migrations
may do to such a row is one relation (`Stays`) that composes. `ClustersHold` (`ClustersInv`): a server that may be shown in a cluster is in it or
is the node of a creation under way (`Comes`), also for requests about to write the row; the guests of a node that a join, as a request
or a task, is about are among those nobody could have seen (`JoinsSeen`). The invariant showed that no excuse for crossing requests is
needed: a row is written only by who knows, or after `ClearRow` when no request about the server is left.

`StartsHold` adds the schema to `ChoicesHold`, for any number of events, starts and stops (`SchemaInv`), over the list of statements as it is.
Every statement of every migration is shown to be of a kind that stops a start at no table of the models (`MigrationsPlain`,
`OrderSound`, by `SoundStatement`), and every column a model has beyond its key is added by one of them (`EveryColumnComes`);
so in a start without failures a column is there or still ahead (`Pending`, `Ahead`), which at the end leaves none. `BackfillWithColumn`
needs that a column whose old rows have no values yet was made by the transaction that is open, just before the statement that fills it
(`ValuesCome`). `AdministrationTypes` is the type invariant of the parts of this module: beyond the invariants above it needs that
the cache makes room before it takes another connection (`CacheBounded`), and that what is remembered of clusters is about guests and servers
there are (`HistoriesTyped`).

`ResourcesProofs` is about the parts of `Panel` that look after what others own. `RulesReachTheirMark`: `RightOneReached` is about the past, so
the invariant says what a request under way sees: an administrator whose list was not put in another order since sees what is there, or
nothing (`SeenStands`), and what was sent points into what was seen; the theorems on sequences give what adding, moving and removing
leave of the list. `RestartsApply` and `VolumesSurvive` (`HardInv`): a volume that a request is about to destroy is in `asked` at every stage
(`VolumesAsked`), and what a request in order holds of the image and of the power of the guest is what it asked for (`InOrder`). Both the theorem
on volumes and `GuestsHold` assume `Longer = {}`, as the run does: `Destroy` looks for a volume by a part of its name, so that one whose name
continues another's may go with it. `SettingsHold` (`SettingsInv`): what a form shows is what the file had, or the file could not be read (`DigestGoes`),
what waits to be put in force was asked for (`TasksAsked`), and the list of repositories a request has read begins the one there is unless the
file was edited (`Begins`). `TemplatesHold` (`TemplatesInv`): which guest and which file a job has at which stage (`GuestsSeen`, `ImagesSeen`), with
numbers of guests and jobs never given twice, and what a request has read of groups and rows, which holds until a request of the kind it
learns of commits (`TablesSeen`). `NetworksHold` (`NetworksInv`) is built the same way: what a request has read of networks, pools and
addresses holds until such a commit (`NetworksRead`, `PoolsRead`, `NetworkStays`, `AddressesRead`), and a guest that runs, or is about to, has the
row of its address until a loss is recorded (`UsersHaveRows`). The least element of a set of numbers, which decides what address is
given out and which row is filled, exists by the well-foundedness of the naturals (`LeastOf`, `LeastNumber`). Two guards of the model were set right by
this proof: a request does not learn of its own commit, and the deletion of a subnet's network waits for the locks on its row.
`EditsHold` and `GuestsHold` put these together. `PanelTypesHold` is the type invariant of the whole composition, from `AdministrationTypes` and
`ResourceTypes`; for the firewall it needs that lists hold only rules that were made (`RulesNumbered`).

**Only model-checked** are, by their nature, the liveness properties (`DrainsOrWedges`, `OutsideNoticed`, `ConsolesReleased`, `CacheConverges`, `RowsEnd`): fairness and ENABLED
are outside what the prover handles, as are induction over data and RECURSIVE operators, of which these modules use none.

## Not modelled

* Metrics collection and history, notifications, logs, localisation: they append records that no other component reads for a decision.
* Panel updates, deployment scripts, script catalogue, Coolify, frontend, noVNC: host scripts, external services or user interface.
* Topology, pools, access, and the methods of the Proxmox client that only pass a call on: the panel keeps no state of its own in them.
* Workspaces, settings, SSH keys, dashboard: sequential changes of single rows. What a workspace means for networks is in `Networks`.
* Of modelled components: the limits of the quota on processors, memory and disk (sums checked at the same place as the
  number of guests), resource alerts and user preferences of the monitor, `cleanup_expired_sessions` (never called), registration, golden
  images of applications, `release_all_by_server`, the transport of alias addresses to a VM, HA and replication, the types of columns,
  indexes and the encryption of passwords in migrations. `PROJECT.json` says for each component what is left out.
