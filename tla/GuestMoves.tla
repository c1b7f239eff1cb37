----------------------------- MODULE GuestMoves -----------------------------
(***************************************************************************)
(* The long operations on a guest that exists: reinstallation from its     *)
(* template, cloning, migration to another node and to another Proxmox     *)
(* server.  A request writes a deploy_tasks row; a job of the pool calls   *)
(* Proxmox, waits for the Proxmox task and records the result, while the   *)
(* cache synchronisation and deletions work on the same guests.            *)
(***************************************************************************)
EXTENDS Naturals, FiniteSets

CONSTANTS
    Moves,        \* deploy_tasks identifiers, each used once
    NVmids,       \* vmids of each of the two servers
    MaxEvents     \* bound: deletions, refusals, time-outs and crashes

Servers == {1, 2}
Nodes == {1, 2}
Vmids == 1..NVmids
Keys == [srv : Servers, vmid : Vmids]
Home == [srv |-> 1, vmid |-> 1]
Old == "old"

VARIABLES
    task,         \* task[d]: the deploy_tasks row and the job that serves it
    px,           \* px[d]: the Proxmox task the job waits for
    guest,        \* guest[k] on Proxmox: state, node, and who put it there
    row,          \* row[k] of vm_instances
    alloc,        \* keys that have an IPAM address
    disturbed,    \* history: operations on a guest without a row, or that others were at
    events

vars == <<task, px, guest, row, alloc, disturbed, events>>

Kinds == {"reinstall", "clone", "migrate", "remote"}
NoTask == [pc |-> "none", kind |-> "clone", key |-> Home, dest |-> Home, node |-> 1, drop |-> FALSE]
NoGuest == [st |-> "none", node |-> 1, by |-> Old]
NoRow == [live |-> FALSE, owned |-> FALSE, tpl |-> FALSE, node |-> 1]

\* One guest made from a template, with an owner and an address.
Init ==
    /\ task = [d \in Moves |-> NoTask]
    /\ px = [d \in Moves |-> "none"]
    /\ guest = [k \in Keys |-> IF k = Home THEN [NoGuest EXCEPT !.st = "present"] ELSE NoGuest]
    /\ row = [k \in Keys |-> IF k = Home THEN [live |-> TRUE, owned |-> TRUE, tpl |-> TRUE, node |-> 1]
                             ELSE NoRow]
    /\ alloc = {Home}
    /\ disturbed = {} /\ events = 0

-----------------------------------------------------------------------------
Ended == {"none", "completed", "failed", "lost"}
Active == {d \in Moves : task[d].pc \notin Ended}
\* A job may have ended before the Proxmox task it did not wait for any more.
UnderWay == Active \union {d \in Moves : px[d] = "running"}
Touches(d, k) == d \in UnderWay /\ k \in {task[d].key, task[d].dest}
Event == events < MaxEvents /\ events' = events + 1
At(d, kind, pc) == task[d].kind = kind /\ task[d].pc = pc
GoTo(d, pc) == task' = [task EXCEPT ![d].pc = pc]
Present(k) == guest[k].st = "present"
Disturb(k) == disturbed' = disturbed \union {d \in Moves : Touches(d, k)}

(* Requests.  A reinstallation needs a row with a template; the target of a *)
(* migration is another node, or a vmid of another server.                  *)
Submitted(d, changes) ==
    /\ task[d].pc = "none"
    /\ task' = [task EXCEPT ![d] = changes]
    /\ LET others == {e \in Moves : Touches(e, changes.key) \/ Touches(e, changes.dest)} IN
       disturbed' = disturbed \union others
                     \union (IF others # {} \/ ~row[changes.key].live THEN {d} ELSE {})
    /\ UNCHANGED <<px, guest, row, alloc, events>>

Reinstall(d, k) ==
    /\ row[k].live /\ row[k].tpl
    /\ Submitted(d, [NoTask EXCEPT !.pc = "queued", !.kind = "reinstall", !.key = k, !.dest = k,
                                   !.node = row[k].node])

Clone(d, k, n) ==
    /\ Present(k)
    /\ Submitted(d, [NoTask EXCEPT !.pc = "queued", !.kind = "clone", !.key = k, !.dest = k, !.node = n])

Migrate(d, k, n) ==
    /\ Present(k) /\ n # guest[k].node
    /\ Submitted(d, [NoTask EXCEPT !.pc = "queued", !.kind = "migrate", !.key = k, !.dest = k, !.node = n])

RemoteMigrate(d, k, v, drop) ==
    /\ Present(k)
    /\ Submitted(d, [NoTask EXCEPT !.pc = "queued", !.kind = "remote", !.key = k,
                                   !.dest = [srv |-> 3 - k.srv, vmid |-> v], !.drop = drop])

-----------------------------------------------------------------------------
(* Jobs.                                                                   *)

\* No server, no connection, no answer, a call that raises or gives no task.
Refused(d) ==
    /\ task[d].pc \in {"queued", "destroy", "create", "clone", "call"}
    /\ Event
    /\ GoTo(d, "failed")
    /\ UNCHANGED <<px, guest, row, alloc, disturbed>>

First(kind) == CASE kind = "reinstall" -> "destroy" [] kind = "clone" -> "vmid"
                 [] kind \in {"migrate", "remote"} -> "call"

\* The reinstallation reads its row and template again, keeps the settings of
\* the guest, and stops it, whatever comes of that.
Connect(d) ==
    /\ task[d].pc = "queued"
    /\ GoTo(d, IF task[d].kind = "reinstall" /\ ~(row[task[d].key].live /\ row[task[d].key].tpl)
               THEN "failed" ELSE First(task[d].kind))
    /\ UNCHANGED <<px, guest, row, alloc, disturbed, events>>

\* A Proxmox task holds the lock of its guest.
Lock(d, k, next) ==
    \/ /\ Present(k)
       /\ guest' = [guest EXCEPT ![k].st = "locked"]
       /\ px' = [px EXCEPT ![d] = "running"]
       /\ GoTo(d, next)
    \/ ~Present(k) /\ GoTo(d, "failed") /\ UNCHANGED <<px, guest>>

Destroy(d) ==
    /\ At(d, "reinstall", "destroy")
    /\ Lock(d, task[d].key, "create")
    /\ UNCHANGED <<row, alloc, disturbed, events>>

\* The guest is waited for to go, for thirty seconds; its status that cannot be
\* read counts as gone, and after the wait the creation is tried anyway.
Create(d) ==
    /\ At(d, "reinstall", "create")
    /\ px[d] # "running" \/ events < MaxEvents
    /\ events' = IF px[d] = "running" THEN events + 1 ELSE events
    /\ LET k == task[d].key IN
       \/ /\ guest[k].st = "none"
          /\ guest' = [guest EXCEPT ![k] = [st |-> "creating", node |-> task[d].node, by |-> d]]
          /\ px' = [px EXCEPT ![d] = "running"]
          /\ GoTo(d, "built")
       \/ guest[k].st # "none" /\ GoTo(d, "failed") /\ UNCHANGED <<px, guest>>
    /\ UNCHANGED <<row, alloc, disturbed>>

\* A wait ends with the Proxmox task, or when the time is over.
Awaited(d) ==
    \/ px[d] # "running" /\ UNCHANGED events
    \/ px[d] = "running" /\ Event

\* How the creation ended is not asked; settings, disk size and start are
\* tried, and the task is completed.
FinishReinstall(d) ==
    /\ At(d, "reinstall", "built")
    /\ Awaited(d)
    /\ GoTo(d, "completed")
    /\ UNCHANGED <<px, guest, row, alloc, disturbed>>

PickVmid(d) ==
    /\ At(d, "clone", "vmid")
    /\ LET here == {k \in Keys : k.srv = task[d].key.srv}
           free == {k \in here : guest[k].st = "none"}
           uncached == {k \in here : ~row[k].live}
           Least(S) == {k \in S : \A j \in S : k.vmid <= j.vmid} IN
       \/ free = {} /\ GoTo(d, "failed") /\ UNCHANGED <<disturbed, events>>
       \/ \E k \in Least(free) \union Least(uncached) :
             /\ IF k \in Least(free) THEN UNCHANGED events ELSE Event
             /\ task' = [task EXCEPT ![d].dest = k, ![d].pc = "clone"]
             /\ disturbed' = IF \E e \in Moves \ {d} : Touches(e, k)
                             THEN disturbed \union {d} \union {e \in Moves : Touches(e, k)}
                             ELSE disturbed
    /\ UNCHANGED <<px, guest, row, alloc>>

CloneGuest(d) ==
    /\ At(d, "clone", "clone")
    /\ LET k == task[d].dest IN
       \/ /\ Present(task[d].key) /\ guest[k].st = "none"
          /\ guest' = [guest EXCEPT ![k] = [st |-> "creating", node |-> task[d].node, by |-> d]]
          /\ px' = [px EXCEPT ![d] = "running"]
          /\ GoTo(d, "copied")
       \/ ~(Present(task[d].key) /\ guest[k].st = "none") /\ GoTo(d, "failed") /\ UNCHANGED <<px, guest>>
    /\ UNCHANGED <<row, alloc, disturbed, events>>

\* save_vm_instance: the live row, the deleted one or a new one.
Saved(k, owned, tpl, node) == [row EXCEPT ![k] = [live |-> TRUE, owned |-> owned, tpl |-> tpl, node |-> node]]

\* The result of the wait is not looked at either: the row appears in any case.
RegisterClone(d) ==
    /\ At(d, "clone", "copied")
    /\ Awaited(d)
    /\ row' = Saved(task[d].dest, TRUE, FALSE, task[d].node)
    /\ GoTo(d, "completed")
    /\ UNCHANGED <<px, guest, alloc, disturbed>>

CallMigrate(d) ==
    /\ task[d].kind \in {"migrate", "remote"} /\ task[d].pc = "call"
    /\ \/ task[d].kind = "remote" /\ guest[task[d].dest].st # "none"
          /\ GoTo(d, "failed") /\ UNCHANGED <<px, guest>>
       \/ /\ task[d].kind = "remote" => guest[task[d].dest].st = "none"
          /\ Lock(d, task[d].key, "moving")
    /\ UNCHANGED <<row, alloc, disturbed, events>>

\* An hour; a task that failed, or is not known to have ended, fails this one.
AwaitMigrate(d) ==
    /\ task[d].pc = "moving"
    /\ Awaited(d)
    /\ GoTo(d, IF px[d] = "ok" THEN "record" ELSE "failed")
    /\ UNCHANGED <<px, guest, row, alloc, disturbed>>

RecordMigrate(d) ==
    /\ At(d, "migrate", "record")
    /\ row' = IF row[task[d].key].live THEN [row EXCEPT ![task[d].key].node = task[d].node] ELSE row
    /\ GoTo(d, "completed")
    /\ UNCHANGED <<px, guest, alloc, disturbed, events>>

\* Mutant: a row the synchronisation wrote on the target stays as it is.
MutSaveTarget(d) ==
    /\ At(d, "remote", "record")
    /\ LET old == row[task[d].key] IN
       row' = IF old.live /\ ~row[task[d].dest].live
              THEN Saved(task[d].dest, old.owned, old.tpl, task[d].node) ELSE row
    /\ GoTo(d, IF row[task[d].key].live /\ task[d].drop THEN "unlink" ELSE "completed")
    /\ UNCHANGED <<px, guest, alloc, disturbed, events>>

\* The record of the guest goes to the other server with its owner.
SaveTarget(d) ==
    /\ At(d, "remote", "record")
    /\ LET old == row[task[d].key] IN
       IF old.live
       THEN /\ row' = Saved(task[d].dest, old.owned \/ row[task[d].dest].owned, old.tpl, task[d].node)
            /\ GoTo(d, IF task[d].drop THEN "unlink" ELSE "completed")
       ELSE UNCHANGED row /\ GoTo(d, "completed")
    /\ UNCHANGED <<px, guest, alloc, disturbed, events>>

\* soft_delete_vm_instance: the address first, then the row.
SoftDeleted(k) ==
    IF row[k].live
    THEN alloc' = alloc \ {k} /\ row' = [row EXCEPT ![k].live = FALSE]
    ELSE UNCHANGED <<alloc, row>>

UnlinkSource(d) ==
    /\ At(d, "remote", "unlink")
    /\ SoftDeleted(task[d].key)
    /\ GoTo(d, "completed")
    /\ UNCHANGED <<px, guest, disturbed, events>>

\* A record that cannot be written is logged, and the task completed.
RecordFails(d) ==
    /\ task[d].pc = "record" \/ At(d, "remote", "unlink") \/ (At(d, "clone", "copied") /\ px[d] # "running")
    /\ Event
    /\ alloc' \in {alloc} \union (IF task[d].pc = "unlink" THEN {alloc \ {task[d].key}} ELSE {})
    /\ GoTo(d, "completed")
    /\ disturbed' = disturbed \union {d}
    /\ UNCHANGED <<px, guest, row>>

JobStep(d) ==
    \/ Connect(d) \/ Destroy(d) \/ Create(d) \/ FinishReinstall(d)
    \/ PickVmid(d) \/ CloneGuest(d) \/ RegisterClone(d)
    \/ CallMigrate(d) \/ AwaitMigrate(d) \/ RecordMigrate(d) \/ SaveTarget(d) \/ UnlinkSource(d)

-----------------------------------------------------------------------------
(* Proxmox, the cache synchronisation, deletions, the loss of the process. *)

\* The guest a Proxmox task makes, or has locked.
Held(d) == IF task[d].kind = "clone" THEN task[d].dest ELSE task[d].key

\* What the Proxmox task of job d leaves behind when it succeeds.
Effect(d) ==
    LET k == task[d].key
        to == task[d].dest IN
    CASE task[d].kind = "migrate" -> [guest EXCEPT ![k].st = "present", ![k].node = task[d].node]
      [] task[d].kind = "remote" /\ task[d].drop ->
            [guest EXCEPT ![k] = NoGuest, ![to] = [st |-> "present", node |-> task[d].node, by |-> d]]
      [] task[d].kind = "remote" /\ ~task[d].drop ->
            [guest EXCEPT ![k].st = "present", ![to] = [st |-> "present", node |-> task[d].node, by |-> d]]
      [] OTHER -> IF guest[to].st = "creating" THEN [guest EXCEPT ![to].st = "present"]
                                               ELSE [guest EXCEPT ![to] = NoGuest]

\* When it fails, what it was making goes, and its lock is taken off.
TaskEnds(d) ==
    /\ px[d] = "running"
    /\ \/ /\ task[d].kind = "remote" => guest[task[d].dest].st = "none"
          /\ px' = [px EXCEPT ![d] = "ok"] /\ guest' = Effect(d)
       \/ /\ px' = [px EXCEPT ![d] = "failed"]
          /\ guest' = [guest EXCEPT ![Held(d)] = IF @.st = "creating" THEN NoGuest
                                                ELSE [@ EXCEPT !.st = "present"]]
    /\ UNCHANGED <<task, row, alloc, disturbed, events>>

\* One guest of a pass: a row appears or comes back with what it had, follows
\* the node, or goes with its address when Proxmox has no such guest.
Synchronise(k) ==
    /\ \/ /\ guest[k].st # "none" /\ (~row[k].live \/ row[k].node # guest[k].node)
          /\ row' = [row EXCEPT ![k].live = TRUE, ![k].node = guest[k].node]
          /\ UNCHANGED <<alloc, disturbed>>
       \/ /\ guest[k].st = "none" /\ row[k].live
          /\ SoftDeleted(k) /\ Disturb(k)
    /\ UNCHANGED <<task, px, guest, events>>

Delete(k) ==
    /\ Present(k) /\ Event
    /\ guest' = [guest EXCEPT ![k] = NoGuest]
    /\ SoftDeleted(k) /\ Disturb(k)
    /\ UNCHANGED <<task, px>>

\* Nothing takes up a deploy_tasks row again.
Crash ==
    /\ Active # {} /\ Event
    /\ task' = [d \in Moves |-> IF d \in Active THEN [task[d] EXCEPT !.pc = "lost"] ELSE task[d]]
    /\ UNCHANGED <<px, guest, row, alloc, disturbed>>

Next ==
    \/ \E d \in Moves :
          \/ \E k \in Keys : \/ Reinstall(d, k)
                             \/ \E n \in Nodes : Clone(d, k, n) \/ Migrate(d, k, n)
                             \/ \E v \in Vmids, drop \in BOOLEAN : RemoteMigrate(d, k, v, drop)
          \/ JobStep(d) \/ RecordFails(d) \/ Refused(d) \/ TaskEnds(d)
    \/ \E k \in Keys : Synchronise(k) \/ Delete(k)
    \/ Crash

Spec == Init /\ [][Next]_vars

-----------------------------------------------------------------------------
TypeOK ==
    /\ \A d \in Moves : task[d].kind \in Kinds /\ {task[d].key, task[d].dest} \subseteq Keys
    /\ px \in [Moves -> {"none", "running", "ok", "failed"}]
    /\ guest \in [Keys -> [st : {"none", "present", "locked", "creating"}, node : Nodes, by : Moves \union {Old}]]
    /\ row \in [Keys -> [live : BOOLEAN, owned : BOOLEAN, tpl : BOOLEAN, node : Nodes]]
    /\ alloc \subseteq Keys /\ disturbed \subseteq Moves /\ events \in 0..MaxEvents

\* The owner goes with the guest: when a migration to another server that
\* nobody disturbed is reported completed, the row on the target is live and
\* owned, also when the cache synchronisation wrote an ownerless row first.
OwnerMoves ==
    [][\A d \in Moves :
          /\ task[d].kind = "remote" /\ task[d].pc \notin Ended /\ task'[d].pc = "completed"
          /\ d \notin disturbed' /\ row[task[d].key].owned
          => row'[task[d].dest].live /\ row'[task[d].dest].owned]_vars

\* No operation costs a guest that stays its address: an allocation goes only
\* when Proxmox has no such guest (any more), or has one that an operation put
\* there while another was at the same guest.
AddressGoesLast ==
    [][\A k \in alloc \ alloc' : guest'[k].st = "none" \/ guest'[k].by \in disturbed]_vars
=============================================================================
