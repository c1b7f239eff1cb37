------------------------------- MODULE VmSync -------------------------------
(***************************************************************************)
(* The guest cache and its addresses: MonitoringWorker.sync_vm_cache,      *)
(* which every ten seconds copies the guests of all online Proxmox servers *)
(* into vm_instances, marks the others deleted and releases their IPAM     *)
(* allocations, running against                                            *)
(*   - deployments, which reserve an address, create the guest and then    *)
(*     save its row under the server the user chose,                       *)
(*   - deletions through the API, which take several commits,              *)
(*   - guests created and destroyed on Proxmox itself,                     *)
(*   - servers that become unreachable and the availability job that       *)
(*     copies this, later, into is_online,                                 *)
(*   - crashes of the backend.                                             *)
(*                                                                         *)
(* A row of vm_instances and the allocations of a guest are both keyed by  *)
(* (server_id, vmid).  A server belongs to one Proxmox installation (a     *)
(* cluster or a single host), and a guest (a vmid) lives in one, so the    *)
(* keys are the pairs of a server and a guest of the same installation.    *)
(* Servers are numbered as in the database: the smallest id names the      *)
(* cluster.                                                                *)
(***************************************************************************)
EXTENDS Naturals, FiniteSets

CONSTANTS
    NServers,      \* number of registered Proxmox servers
    Guests,        \* guests (vmids) that may exist
    Site,          \* Site[s]: the Proxmox installation server s belongs to
    Home,          \* Home[g]: the installation guest g lives in
    Clusters,      \* the installations with more than one node
    MaxChanges,    \* bound: guests appearing, vanishing or deleted by users
    MaxDeploys,    \* bound: deployments
    MaxOutages,    \* bound: times a server becomes unreachable
    MaxCrashes     \* bound: backend crashes

Servers == 1..NServers
Keys == {k \in Servers \X Guests : Site[k[1]] = Home[k[2]]}

ASSUME CountsAssumption ==
    /\ NServers \in Nat /\ MaxChanges \in Nat /\ MaxDeploys \in Nat
    /\ MaxOutages \in Nat /\ MaxCrashes \in Nat
ASSUME SitesAssumption == DOMAIN Site = Servers /\ DOMAIN Home = Guests

VARIABLES
    \* Proxmox
    present,     \* the guests that exist
    doomed,      \* guests whose destruction the API has requested
    reach,       \* the servers whose API answers
    \* the database
    online,      \* the servers with is_online set
    rows,        \* rows[k]: vm_instances row: none, active or soft-deleted
    alloc,       \* the keys that hold IPAM allocations
    \* requests in progress
    deploy,      \* deploy[k]: how far the deployment of k is
    deleting,    \* deleting[k]: how far the deletion of k is
    \* the sync job
    pc,          \* its phase
    servers,     \* the online servers it started with
    todo,        \* the servers left to visit in this phase
    probed,      \* the servers whose node list it got
    data,        \* the keys it collected (all_vms_data, all_seen)
    loaded,      \* loaded[k]: the row it read for k before the upsert
    gone,        \* the rows left to mark deleted
    marked,      \* rows it has marked but not committed yet
    \* bounds and history
    changes, deploys, outages, crashes,
    fresh,       \* history: guests that came into being since the job started
    flaky        \* history: installations with an unreachable server since then

proxmox == <<present, doomed, reach>>
database == <<online, rows, alloc>>
job == <<pc, servers, todo, probed, data, loaded, gone, marked>>
bounds == <<changes, deploys, outages, crashes>>
history == <<fresh, flaky>>
requests == <<deploy, deleting>>
vars == <<proxmox, database, requests, job, bounds, history>>

Unread == "unread"
RowStates == {"none", "active", "deleted"}

Init ==
    /\ present \in SUBSET Guests /\ doomed = {} /\ reach = Servers
    /\ online = Servers
    /\ rows = [k \in Keys |-> "none"] /\ alloc = {}
    /\ deploy = [k \in Keys |-> "no"] /\ deleting = [k \in Keys |-> "no"]
    /\ pc = "idle" /\ servers = {} /\ todo = {} /\ probed = {} /\ data = {}
    /\ loaded = [k \in Keys |-> Unread] /\ gone = {} /\ marked = {}
    /\ changes = 0 /\ deploys = 0 /\ outages = 0 /\ crashes = 0
    /\ fresh = {} /\ flaky = {}

-----------------------------------------------------------------------------
(* The sync job.                                                           *)

Least(S) == CHOOSE x \in S : \A y \in S : x <= y

\* Mutants: the cluster is named by its largest server, or not recognised.
MutStoredUnderLast(s) ==
    IF s \in probed /\ Site[s] \in Clusters
    THEN CHOOSE x \in probed : Site[x] = Site[s] /\ \A y \in probed : Site[y] = Site[s] => y <= x
    ELSE s
MutStoredUnderSelf(s) == s

\* The server id under which the guests of server s are stored: the smallest
\* server whose node list is known and equal to that of s, and s itself when
\* s is a single host or its node list could not be read.
StoredUnder(s) ==
    IF s \in probed /\ Site[s] \in Clusters
    THEN Least({x \in probed : Site[x] = Site[s]})
    ELSE s

JobIdle ==
    /\ pc' = "idle" /\ servers' = {} /\ todo' = {} /\ probed' = {} /\ data' = {}
    /\ loaded' = [k \in Keys |-> Unread] /\ gone' = {} /\ marked' = {}

\* The online servers are read once; without any the job returns.
StartSync ==
    /\ pc = "idle" /\ online # {}
    /\ pc' = "probe" /\ servers' = online /\ todo' = online
    /\ fresh' = {} /\ flaky' = {Site[s] : s \in Servers \ reach}
    /\ UNCHANGED <<proxmox, database, requests, probed, data, loaded, gone, marked, bounds>>

\* Mutant: the second pass visits every server, online or not.
MutProbe(s) ==
    /\ pc = "probe" /\ s \in todo
    /\ probed' = IF s \in reach THEN probed \union {s} ELSE probed
    /\ todo' = IF todo = {s} THEN Servers ELSE todo \ {s}
    /\ pc' = IF todo = {s} THEN "collect" ELSE pc
    /\ UNCHANGED <<proxmox, database, requests, servers, data, loaded, gone, marked, bounds, history>>

\* First pass over the servers: the node lists that tell clusters apart.
Probe(s) ==
    /\ pc = "probe" /\ s \in todo
    /\ probed' = IF s \in reach THEN probed \union {s} ELSE probed
    /\ todo' = IF todo = {s} THEN servers ELSE todo \ {s}
    /\ pc' = IF todo = {s} THEN "collect" ELSE pc
    /\ UNCHANGED <<proxmox, database, requests, servers, data, loaded, gone, marked, bounds, history>>

\* Second pass: the guests.  A server that does not answer contributes none:
\* it is skipped, or get_cluster_resources turns the error into an empty list.
Collect(s) ==
    /\ pc = "collect" /\ s \in todo
    /\ data' = IF s \in reach
               THEN data \union {<<StoredUnder(s), g>> : g \in {h \in present : Home[h] = Site[s]}}
               ELSE data
    /\ todo' = todo \ {s}
    /\ pc' = IF todo = {s} THEN "load" ELSE pc
    /\ UNCHANGED <<proxmox, database, requests, servers, probed, loaded, gone, marked, bounds, history>>

\* The row of each collected guest is read, with the slow address detection
\* of the other guests in between.
LoadRow(k) ==
    /\ pc = "load" /\ k \in data /\ loaded[k] = Unread
    /\ loaded' = [loaded EXCEPT ![k] = rows[k]]
    /\ UNCHANGED <<proxmox, database, requests, pc, servers, todo, probed, data, gone, marked, bounds, history>>

\* One commit for all of them.  A key inserted by someone else since it was
\* read breaks the unique index: everything is rolled back and the job ends.
\* deleted_at is written only where it was read as set.
UpsertCommit ==
    /\ pc = "load" /\ \A k \in data : loaded[k] # Unread
    /\ IF \E k \in data : loaded[k] = "none" /\ rows[k] # "none"
       THEN JobIdle /\ UNCHANGED rows
       ELSE /\ rows' = [k \in Keys |->
                          IF k \in data /\ loaded[k] \in {"none", "deleted"}
                          THEN "active" ELSE rows[k]]
            /\ pc' = "sweep"
            /\ UNCHANGED <<servers, todo, probed, data, loaded, gone, marked>>
    /\ UNCHANGED <<proxmox, online, alloc, requests, bounds, history>>

\* Mutant: the sweep is not restricted to the servers of this job.
MutSweepRead ==
    /\ pc = "sweep"
    /\ gone' = {k \in Keys : rows[k] = "active" /\ k \notin data}
    /\ pc' = "mark"
    /\ UNCHANGED <<proxmox, database, requests, servers, todo, probed, data, loaded, marked, bounds, history>>

\* The active rows of every server the job started with, reached or not,
\* whose key was not collected.
SweepRead ==
    /\ pc = "sweep"
    /\ gone' = {k \in Keys : rows[k] = "active" /\ k[1] \in servers /\ k \notin data}
    /\ pc' = "mark"
    /\ UNCHANGED <<proxmox, database, requests, servers, todo, probed, data, loaded, marked, bounds, history>>

\* Mutant: the release looks at the vmid alone.
MutReleaseAddresses(k) == alloc' = {j \in alloc : j[2] # k[2]}

\* release_ip_by_vmid: every allocation stored under the key.
ReleaseAddresses(k) == alloc' = alloc \ {k}

\* A row is marked in the session.  Releasing an allocation commits, and with
\* it the marks made so far; without one the marks wait for the next commit.
MarkDeleted(k) ==
    /\ pc = "mark" /\ k \in gone
    /\ gone' = gone \ {k}
    /\ ReleaseAddresses(k)
    /\ IF k \in alloc
       THEN /\ rows' = [j \in Keys |-> IF j \in marked \union {k} THEN "deleted" ELSE rows[j]]
            /\ marked' = {}
       ELSE marked' = marked \union {k} /\ UNCHANGED rows
    /\ UNCHANGED <<proxmox, online, requests, pc, servers, todo, probed, data, loaded, bounds, history>>

FinishSync ==
    /\ pc = "mark" /\ gone = {}
    /\ rows' = [j \in Keys |-> IF j \in marked THEN "deleted" ELSE rows[j]]
    /\ JobIdle
    /\ UNCHANGED <<proxmox, online, alloc, requests, bounds, history>>

-----------------------------------------------------------------------------
(* Deployments: create_lxc_background and its siblings.                    *)

\* The address is reserved under the chosen server before the guest exists;
\* a deployment that asks for no IPAM address reserves nothing.
DeployReserve(k) ==
    /\ deploys < MaxDeploys /\ k[1] \in reach
    /\ k[2] \notin present /\ \A s \in Servers : <<s, k[2]>> \in Keys => deploy[<<s, k[2]>>] = "no"
    /\ deploy' = [deploy EXCEPT ![k] = "reserved"]
    /\ alloc' \in {alloc, alloc \union {k}}
    /\ deploys' = deploys + 1
    /\ UNCHANGED <<proxmox, online, rows, deleting, job, changes, outages, crashes, history>>

\* Proxmox creates the guest, or refuses; the reservation stays in both cases.
DeployCreate(k) ==
    /\ deploy[k] = "reserved"
    /\ \/ /\ k[1] \in reach /\ k[2] \notin present
          /\ present' = present \union {k[2]} /\ doomed' = doomed \ {k[2]}
          /\ fresh' = fresh \union {k[2]}
          /\ deploy' = [deploy EXCEPT ![k] = "created"]
       \/ /\ deploy' = [deploy EXCEPT ![k] = "no"]
          /\ UNCHANGED <<present, doomed, fresh>>
    /\ UNCHANGED <<reach, database, deleting, job, bounds, flaky>>

\* save_vm_instance updates, restores or inserts the row.
DeploySave(k) ==
    /\ deploy[k] = "created"
    /\ rows' = [rows EXCEPT ![k] = "active"]
    /\ deploy' = [deploy EXCEPT ![k] = "no"]
    /\ UNCHANGED <<proxmox, online, alloc, deleting, job, bounds, history>>

-----------------------------------------------------------------------------
(* Deletions: delete_vm and delete_container.                              *)

Go(k, where) == deleting' = [deleting EXCEPT ![k] = where]

\* delete_vm saves the guest's configuration first, which makes its row
\* active, unless forced; delete_container does not.
DeleteSave(k) ==
    /\ changes < MaxChanges /\ changes' = changes + 1
    /\ deleting[k] = "no" /\ k[1] \in reach
    /\ rows' \in {rows, [rows EXCEPT ![k] = "active"]}
    /\ Go(k, "saved")
    /\ UNCHANGED <<proxmox, online, alloc, deploy, job, deploys, outages, crashes, history>>

\* Proxmox accepts the destruction, or the request fails.
DeleteAccept(k) ==
    /\ deleting[k] = "saved"
    /\ \/ /\ k[1] \in reach /\ k[2] \in present
          /\ doomed' = doomed \union {k[2]}
          /\ Go(k, "accepted")
       \/ Go(k, "no") /\ UNCHANGED doomed
    /\ UNCHANGED <<present, reach, database, deploy, job, bounds, history>>

\* soft_delete_vm_instance releases the addresses in one commit ...
DeleteUnlink(k) ==
    /\ deleting[k] = "accepted"
    /\ IF rows[k] = "active"
       THEN ReleaseAddresses(k) /\ Go(k, "unlinked")
       ELSE Go(k, "marked") /\ UNCHANGED alloc
    /\ UNCHANGED <<proxmox, online, rows, deploy, job, bounds, history>>

\* ... and marks the row in the next.
DeleteMark(k) ==
    /\ deleting[k] = "unlinked"
    /\ rows' = [rows EXCEPT ![k] = "deleted"]
    /\ Go(k, "marked")
    /\ UNCHANGED <<proxmox, online, alloc, deploy, job, bounds, history>>

\* The handler releases once more, whatever the row.
DeleteRelease(k) ==
    /\ deleting[k] = "marked"
    /\ ReleaseAddresses(k) /\ Go(k, "no")
    /\ UNCHANGED <<proxmox, online, rows, deploy, job, bounds, history>>

-----------------------------------------------------------------------------
(* Users and Proxmox.                                                      *)

Vanish(g) ==
    /\ g \in present
    /\ \/ g \in doomed /\ UNCHANGED changes
       \/ g \notin doomed /\ changes < MaxChanges /\ changes' = changes + 1
    /\ present' = present \ {g} /\ doomed' = doomed \ {g}
    /\ UNCHANGED <<reach, database, requests, job, deploys, outages, crashes, history>>

Appear(g) ==
    /\ g \notin present /\ changes < MaxChanges
    /\ present' = present \union {g} /\ fresh' = fresh \union {g}
    /\ changes' = changes + 1
    /\ UNCHANGED <<doomed, reach, database, requests, job, deploys, outages, crashes, flaky>>

LoseServer(s) ==
    /\ s \in reach /\ outages < MaxOutages
    /\ reach' = reach \ {s} /\ flaky' = flaky \union {Site[s]}
    /\ outages' = outages + 1
    /\ UNCHANGED <<present, doomed, database, requests, job, changes, deploys, crashes, fresh>>

RegainServer(s) ==
    /\ s \in Servers \ reach
    /\ reach' = reach \union {s}
    /\ UNCHANGED <<present, doomed, database, requests, job, bounds, history>>

\* run_server_availability_check
CheckAvailability(s) ==
    /\ (s \in online) # (s \in reach)
    /\ online' = IF s \in reach THEN online \union {s} ELSE online \ {s}
    /\ UNCHANGED <<proxmox, rows, alloc, requests, job, bounds, history>>

\* The job and the request threads are lost; rows and allocations are not.
Crash ==
    /\ crashes < MaxCrashes /\ crashes' = crashes + 1
    /\ JobIdle
    /\ deploy' = [k \in Keys |-> "no"] /\ deleting' = [k \in Keys |-> "no"]
    /\ UNCHANGED <<proxmox, database, changes, deploys, outages, history>>

-----------------------------------------------------------------------------
SyncJob ==
    \/ StartSync \/ UpsertCommit \/ SweepRead \/ FinishSync
    \/ \E s \in Servers : Probe(s) \/ Collect(s)
    \/ \E k \in Keys : LoadRow(k) \/ MarkDeleted(k)

Deployments == \E k \in Keys : DeployReserve(k) \/ DeployCreate(k) \/ DeploySave(k)

Deletion(k) == DeleteAccept(k) \/ DeleteUnlink(k) \/ DeleteMark(k) \/ DeleteRelease(k)
Deletions == \E k \in Keys : DeleteSave(k) \/ Deletion(k)

World ==
    \/ \E g \in Guests : Vanish(g) \/ Appear(g)
    \/ \E s \in Servers : LoseServer(s) \/ RegainServer(s) \/ CheckAvailability(s)

Next == SyncJob \/ Deployments \/ Deletions \/ World \/ Crash

Spec == Init /\ [][Next]_vars

\* APScheduler runs the sync job and the availability job for ever, a
\* deployment thread runs to its end, and Proxmox carries out accepted
\* destructions.  Nothing is assumed of users or of the network.
FairSpec ==
    /\ Spec
    /\ WF_vars(SyncJob)
    /\ \A s \in Servers : WF_vars(CheckAvailability(s))
    /\ \A k \in Keys : WF_vars(DeployCreate(k) \/ DeploySave(k))
    /\ \A k \in Keys : WF_vars(Deletion(k))
    /\ \A g \in Guests : WF_vars(g \in doomed /\ Vanish(g))

-----------------------------------------------------------------------------
(* Properties.                                                             *)

TypeOK ==
    /\ present \subseteq Guests /\ doomed \subseteq Guests
    /\ reach \subseteq Servers /\ online \subseteq Servers
    /\ rows \in [Keys -> RowStates] /\ alloc \subseteq Keys
    /\ deploy \in [Keys -> {"no", "reserved", "created"}]
    /\ deleting \in [Keys -> {"no", "saved", "accepted", "unlinked", "marked"}]
    /\ pc \in {"idle", "probe", "collect", "load", "sweep", "mark"}
    /\ servers \subseteq Servers /\ todo \subseteq servers /\ probed \subseteq servers
    /\ data \subseteq Keys /\ gone \subseteq Keys /\ marked \subseteq Keys \ gone
    /\ loaded \in [Keys -> RowStates \union {Unread}]
    /\ changes \in Nat /\ deploys \in Nat /\ outages \in Nat /\ crashes \in Nat
    /\ fresh \subseteq Guests
    /\ flaky \subseteq {Site[s] : s \in Servers}

Loses(k) == k \in alloc /\ k \notin alloc'

\* Only the deletion of this very guest under this very server takes addresses
\* from a row that stays active: the sync job marks the row in the same commit,
\* and no release takes the addresses of another key, be it the same vmid.
AddressFollowsRow ==
    [][\A k \in Keys : Loses(k) => rows'[k] # "active" \/ deleting[k] # "no"]_vars

\* The guests of a server that was offline when the job started keep their
\* rows, however long the outage: only the API can delete them.
OfflineKept ==
    [][\A k \in Keys :
         rows[k] = "active" /\ rows'[k] = "deleted" =>
             k[1] \in servers \/ deleting[k] = "unlinked"]_vars

\* What costs a living guest its addresses, short of its deletion: that it
\* came into being while the job ran, that a server of its installation did
\* not answer, or that it was stored under a server other than the one that
\* names the cluster.
LossHasCause ==
    [][\A k \in Keys : Loses(k) =>
         \/ k[2] \notin present \/ k[2] \in doomed \/ deleting[k] # "no"
         \/ k[2] \in fresh
         \/ Home[k[2]] \in flaky
         \/ \E s \in Servers : Site[s] = Home[k[2]] /\ s < k[1]]_vars

\* "no longer exists on Proxmox", the reason given for the release, is true.
AddressKept ==
    [][\A k \in Keys : Loses(k) => k[2] \notin present \/ k[2] \in doomed]_vars

Quiet ==
    /\ reach = Servers /\ online = Servers /\ doomed = {}
    /\ \A k \in Keys : deploy[k] = "no" /\ deleting[k] = "no"

NamesSite(s) == \A x \in Servers : Site[x] = Site[s] => s <= x
Mirrored ==
    \A k \in Keys : rows[k] = "active" <=>
        k[2] \in present /\ (Home[k[2]] \in Clusters => NamesSite(k[1]))

\* Once every server answers and nothing is in progress, the cache becomes
\* and stays the exact list of the guests, one row each.
CacheConverges == <>[]Quiet => <>[]Mirrored
=============================================================================
