----------------------------- MODULE Deployment -----------------------------
(***************************************************************************)
(* Deployments of a guest: from a container template, from an ISO image    *)
(* and from a VM template.  A request checks the owner's quota, writes a   *)
(* deploy_tasks row and hands the work to a pool; the job takes a vmid, an *)
(* IPAM address and creates the guest.  Deletions and the cache            *)
(* synchronisation work on the same guests, rows and addresses.            *)
(***************************************************************************)
EXTENDS Naturals, FiniteSets

CONSTANTS
    Deps,         \* deploy_tasks identifiers, each used once
    NVmids,       \* vmids of the server
    NAddrs,       \* addresses of the IPAM network
    MaxInstances, \* the owner's quota
    MaxEvents     \* bound: deletions, losses, crashes, refused calls

Vmids == 1..NVmids
Addrs == 1..NAddrs
None == 0
Old == "old"      \* the deployment of a guest that is there from the start

VARIABLES
    task,         \* task[d]: the deploy_tasks row and the job that serves it
    guest,        \* guest[v] on Proxmox: its state, deployment and address
    cache,        \* cache[v]: the vm_instances row
    alloc,        \* IPAM allocations: address, vmid and deployment
    del,          \* del[v]: how far a deletion request of the panel is
    contested,    \* history: deployments that shared their vmid with others
    overlapped,   \* history: a request was checked while the usage was not yet what it would be
    events

vars == <<task, guest, cache, alloc, del, contested, overlapped, events>>

\* A container or an installation is created with its address; the clone of a
\* template gets one afterwards.
Kinds == {"direct", "template"}
Modes == {"none", "auto", "given"}
NoTask == [pc |-> "none", kind |-> "direct", mode |-> "none", vmid |-> None, ip |-> None]
NoGuest == [st |-> "none", by |-> Old, ip |-> None]
NoRow == [live |-> FALSE, owned |-> FALSE]

\* One guest is there, with an address; it is the owner's or somebody else's.
Init ==
    /\ task = [d \in Deps |-> NoTask]
    /\ guest = [v \in Vmids |-> IF v = 1 THEN [st |-> "there", by |-> Old, ip |-> 1] ELSE NoGuest]
    /\ \E owned \in BOOLEAN :
          cache = [v \in Vmids |-> IF v = 1 THEN [live |-> TRUE, owned |-> owned] ELSE NoRow]
    /\ alloc = {[ip |-> 1, vmid |-> 1, by |-> Old]}
    /\ del = [v \in Vmids |-> "no"]
    /\ contested = {} /\ overlapped = FALSE /\ events = 0

-----------------------------------------------------------------------------
Ended == {"none", "completed", "failed", "lost"}
Active == {d \in Deps : task[d].pc \notin Ended}
Present(v) == guest[v].st = "there"
Event == events < MaxEvents /\ events' = events + 1
Step(d, changes) == task' = [task EXCEPT ![d] = changes]
GoTo(d, pc) == task' = [task EXCEPT ![d].pc = pc]
\* Nothing reads the settings of a job that has ended.
End(d, pc) == Step(d, [NoTask EXCEPT !.pc = pc, !.mode = task[d].mode])
Least(S) == {x \in S : \A y \in S : x <= y}

\* What IPAM holds for a vmid goes, whoever it was taken for.
Released(v) == {l \in alloc : l.vmid # v}

\* get_user_usage: the cached guests of the owner; a guest may not be in the
\* cache yet, or be on its way out and no longer in it.
Uncounted == {v \in Vmids : guest[v].st # "none" /\ ~cache[v].live}
Usage == Cardinality({v \in Vmids : cache[v].live /\ cache[v].owned})

(* The request.                                                            *)
\* Mutant: the instance to come is not counted.
MutWithinQuota == Usage <= MaxInstances
WithinQuota == Usage + 1 <= MaxInstances

Submit(d) ==
    /\ task[d].pc = "none"
    /\ WithinQuota
    /\ \E k \in Kinds, m \in Modes : Step(d, [NoTask EXCEPT !.pc = "queued", !.kind = k, !.mode = m])
    /\ overlapped' = (overlapped \/ Active # {} \/ Uncounted # {})
    /\ UNCHANGED <<guest, cache, alloc, del, contested, events>>

(* The job.                                                                *)

\* Mutant: the address is released though Proxmox may have made the guest.
MutFail(d) ==
    /\ task[d].pc \in {"create", "wait", "start", "save"}
    /\ End(d, "failed")
    /\ alloc' = Released(task[d].vmid)
    /\ UNCHANGED <<guest, cache, del, contested, overlapped, events>>

\* Every early return and every exception ends here.  The failure handler hands
\* the identifier of the allocation to release_ip, which looks for an address:
\* nothing is released.
Fail(d) ==
    /\ task[d].pc \in {"queued", "address", "create", "wait", "start", "save"}
    /\ End(d, "failed")
    /\ UNCHANGED <<guest, cache, alloc, del, contested, overlapped, events>>

\* The vmid is the least that is free on Proxmox; when Proxmox does not answer
\* it is the least without a cached guest, and a request may name any.  Nothing
\* is reserved.
PickVmid(d) ==
    /\ task[d].pc = "queued"
    /\ LET On(v) == Step(d, [task[d] EXCEPT !.vmid = v,
                                            !.pc = IF task[d].kind = "template" THEN "create" ELSE "address"]) IN
       \/ \E v \in Least({u \in Vmids : guest[u].st = "none"}) : On(v) /\ UNCHANGED events
       \/ \E v \in Vmids : On(v) /\ Event
    /\ LET v == task'[d].vmid
           same == {e \in Active : e # d /\ task[e].vmid = v} IN
       contested' = contested \union same
                     \union (IF same # {} \/ del[v] # "no" \/ cache[v].live \/ guest[v].st # "none"
                             THEN {d} ELSE {})
    /\ UNCHANGED <<guest, cache, alloc, del, overlapped>>

AfterAddress(d) == IF task[d].kind = "template" THEN "start" ELSE "create"

\* Mutant: an address counts as free when no guest has it yet.
MutTakeAddress(d) ==
    /\ task[d].pc = "address"
    /\ \E x \in Least(Addrs \ {guest[v].ip : v \in Vmids}) :
          /\ alloc' = alloc \union {[ip |-> x, vmid |-> task[d].vmid, by |-> d]}
          /\ Step(d, [task[d] EXCEPT !.ip = x, !.pc = AfterAddress(d)])
    /\ UNCHANGED <<guest, cache, del, contested, overlapped, events>>

\* A refused allocation stops nobody: without an address the guest gets DHCP,
\* and an address that was asked for is used whether IPAM gave it, refused it
\* or was not asked.
TakeAddress(d) ==
    /\ task[d].pc = "address"
    /\ LET free == Addrs \ {l.ip : l \in alloc}
           Take(x) == alloc' = alloc \union {[ip |-> x, vmid |-> task[d].vmid, by |-> d]}
           On(x) == Step(d, [task[d] EXCEPT !.ip = x, !.pc = AfterAddress(d)]) IN
       \/ task[d].mode = "none" /\ On(None) /\ UNCHANGED alloc
       \/ task[d].mode = "auto" /\ \E x \in Least(free) : Take(x) /\ On(x)
       \/ task[d].mode = "auto" /\ free = {} /\ On(None) /\ UNCHANGED alloc
       \/ task[d].mode = "given" /\ \E x \in Addrs :
             On(x) /\ (UNCHANGED alloc \/ (x \in free /\ Take(x)))
    /\ UNCHANGED <<guest, cache, del, contested, overlapped, events>>

\* Proxmox takes no vmid twice.
Create(d) ==
    /\ task[d].pc = "create"
    /\ LET v == task[d].vmid IN
       \/ /\ guest[v].st = "none"
          /\ guest' = [guest EXCEPT ![v] = [st |-> "creating", by |-> d, ip |-> task[d].ip]]
          /\ GoTo(d, "wait")
       \/ guest[v].st # "none" /\ End(d, "failed") /\ UNCHANGED guest
    /\ UNCHANGED <<cache, alloc, del, contested, overlapped, events>>

\* Five minutes; the Proxmox task goes on after them (Fail).
Wait(d) ==
    /\ task[d].pc = "wait"
    /\ \/ Present(task[d].vmid) /\ GoTo(d, IF task[d].kind = "template" THEN "address" ELSE "start")
       \/ guest[task[d].vmid].st = "none" /\ End(d, "failed")
    /\ UNCHANGED <<guest, cache, alloc, del, contested, overlapped, events>>

\* A VM clone is configured here, a container already was; that the start
\* fails, or was not asked for, stops nothing and is not told apart.
Start(d) ==
    /\ task[d].pc = "start"
    /\ LET v == task[d].vmid IN
       guest' = IF Present(v) /\ guest[v].by = d THEN [guest EXCEPT ![v].ip = task[d].ip] ELSE guest
    /\ GoTo(d, "save")
    /\ UNCHANGED <<cache, alloc, del, contested, overlapped, events>>

\* The live row of the vmid, the deleted one or a new one becomes the owner's.
Save(d) ==
    /\ task[d].pc = "save"
    /\ cache' = [cache EXCEPT ![task[d].vmid] = [live |-> TRUE, owned |-> TRUE]]
    /\ End(d, "completed")
    /\ UNCHANGED <<guest, alloc, del, contested, overlapped, events>>

JobStep(d) ==
    PickVmid(d) \/ TakeAddress(d) \/ Create(d) \/ Wait(d) \/ Start(d) \/ Save(d)

-----------------------------------------------------------------------------
(* Deletions of a guest.                                                   *)
Delete(v) ==
    /\ del[v] = "no" /\ Present(v) /\ Event
    /\ guest' = [guest EXCEPT ![v].st = "destroying"]
    /\ del' = [del EXCEPT ![v] = "cache"]
    /\ UNCHANGED <<task, cache, alloc, contested, overlapped>>

SoftDelete(v) ==
    /\ del[v] = "cache"
    /\ IF cache[v].live
       THEN alloc' = Released(v) /\ cache' = [cache EXCEPT ![v].live = FALSE]
       ELSE UNCHANGED <<alloc, cache>>
    /\ del' = [del EXCEPT ![v] = "release"]
    /\ UNCHANGED <<task, guest, contested, overlapped, events>>

ReleaseAgain(v) ==
    /\ del[v] = "release"
    /\ alloc' = Released(v)
    /\ del' = [del EXCEPT ![v] = "no"]
    /\ UNCHANGED <<task, guest, cache, contested, overlapped, events>>

(* The cache synchronisation, one guest at a time.  A row that comes back  *)
(* to life keeps its owner.                                                *)
Synchronise(v) ==
    /\ \/ /\ guest[v].st # "none" /\ ~cache[v].live
          /\ cache' = [cache EXCEPT ![v].live = TRUE] /\ UNCHANGED alloc
       \/ /\ guest[v].st = "none" /\ cache[v].live
          /\ cache' = [cache EXCEPT ![v].live = FALSE] /\ alloc' = Released(v)
    /\ UNCHANGED <<task, guest, del, contested, overlapped, events>>

(* Proxmox, and the loss of the process.                                   *)
CreationEnds(v) ==
    /\ guest[v].st = "creating"
    /\ guest' \in {[guest EXCEPT ![v].st = "there"], [guest EXCEPT ![v] = NoGuest]}
    /\ UNCHANGED <<task, cache, alloc, del, contested, overlapped, events>>

DestroyEnds(v) ==
    /\ guest[v].st = "destroying"
    /\ guest' = [guest EXCEPT ![v] = NoGuest]
    /\ UNCHANGED <<task, cache, alloc, del, contested, overlapped, events>>

RemovedOutside(v) ==
    /\ Present(v) /\ Event
    /\ guest' = [guest EXCEPT ![v] = NoGuest]
    /\ UNCHANGED <<task, cache, alloc, del, contested, overlapped>>

\* No start-up code looks at deploy_tasks: the rows stay as they are.
Crash ==
    /\ Event
    /\ task' = [d \in Deps |-> IF d \in Active THEN [NoTask EXCEPT !.pc = "lost", !.mode = task[d].mode] ELSE task[d]]
    /\ del' = [v \in Vmids |-> "no"]
    /\ UNCHANGED <<guest, cache, alloc, contested, overlapped>>

Next ==
    \/ \E d \in Deps : Submit(d) \/ JobStep(d) \/ Fail(d)
    \/ \E v \in Vmids : \/ Delete(v) \/ SoftDelete(v) \/ ReleaseAgain(v) \/ Synchronise(v)
                        \/ CreationEnds(v) \/ DestroyEnds(v) \/ RemovedOutside(v)
    \/ Crash

Spec == Init /\ [][Next]_vars

-----------------------------------------------------------------------------
TypeOK ==
    /\ task \in [Deps -> [pc : Ended \union {"queued", "address", "create", "wait", "start", "save"},
                          kind : Kinds, mode : Modes, vmid : Vmids \union {None}, ip : Addrs \union {None}]]
    /\ guest \in [Vmids -> [st : {"none", "creating", "there", "destroying"},
                            by : Deps \union {Old}, ip : Addrs \union {None}]]
    /\ cache \in [Vmids -> [live : BOOLEAN, owned : BOOLEAN]]
    /\ alloc \subseteq [ip : Addrs, vmid : Vmids, by : Deps \union {Old}]
    /\ del \in [Vmids -> {"no", "cache", "release"}]
    /\ contested \subseteq Deps /\ overlapped \in BOOLEAN /\ events \in 0..MaxEvents

\* The cached guests of the owner stay within the quota as long as no request
\* was checked while another deployment was under way or a guest was missing in
\* the cache: one that a failed job left behind, or one being destroyed, comes
\* back with the owner its row had.
QuotaHeld == ~overlapped => Usage <= MaxInstances

\* A guest that was deployed keeps its IPAM address while it is there, when
\* its vmid was its own: a job that fails, or is lost, after Proxmox has been
\* asked for the guest leaves the address taken.
AddressStays ==
    [][\A l \in alloc : l.by \in Deps \ contested /\ l \notin alloc' =>
          /\ task[l.by].pc # "create"
          /\ guest[l.vmid].by = l.by => ~Present(l.vmid)]_vars

\* Two guests that got their addresses from IPAM never have the same one,
\* however the deployments overlap.
Automatic(v) == guest[v].by \in Deps /\ task[guest[v].by].mode = "auto"
AutomaticDiffer ==
    \A v, u \in Vmids :
        /\ v # u /\ Present(v) /\ Present(u) /\ guest[v].ip # None
        /\ {guest[v].by, guest[u].by} \subseteq Deps \ contested /\ Automatic(v) /\ Automatic(u)
        => guest[v].ip # guest[u].ip
=============================================================================
