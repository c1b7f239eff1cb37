---------------------------- MODULE GuestHardware ----------------------------
(***************************************************************************)
(* The hardware and the power of one guest.  Disks are changed by handlers *)
(* on the event loop, which stands still until they are done, also while   *)
(* they wait for a task of Proxmox; images and power are handled in        *)
(* threads.                                                                *)
(***************************************************************************)
EXTENDS Naturals

CONSTANTS
    Requests,
    NVolumes,    \* volumes in all
    Longer,      \* <<v, w>>: the name of w continues that of v
    MaxEvents    \* bound: requests, and what happens on Proxmox

Volumes == 1..NVolumes
Disks == {"scsi0", "scsi1"}
Drive == "ide2"
Slots == Disks \union {Drive}
\* What else a slot may have.
Empty == 0
Physical == NVolumes + 1
Image == NVolumes + 2
NoMedium == NVolumes + 3
NoRequest == [pc |-> "idle", image |-> FALSE, slot |-> Drive, vol |-> 0, keep |-> TRUE]

VARIABLES
    slot,       \* slot[s]: what the configuration has there
    unused,     \* volumes of the guest in no slot
    boot,       \* the boot order
    power,      \* is the guest on, did it start from an image, which tasks are about it
    status,     \* status in the row
    req,        \* req[q]: a request under way
    loop,       \* the request the event loop is at, if any
    made,       \* volumes so far
    lost,       \* history: volumes that were destroyed
    asked,      \* history: volumes that were in a slot to be destroyed with it
    crossed,    \* history: requests overlapped
    events

vars == <<slot, unused, boot, power, status, req, loop, made, lost, asked, crossed, events>>
hardware == <<slot, unused, boot, made, lost, asked>>

Init ==
    /\ slot = [s \in Slots |-> IF s = "scsi0" THEN 1 ELSE IF s = Drive THEN NoMedium ELSE Empty]
    /\ unused = {} /\ made = 1
    /\ boot = <<"scsi0">>
    /\ power = [on |-> TRUE, image |-> FALSE, tasks |-> {}] /\ status = "running"
    /\ req = [q \in Requests |-> NoRequest] /\ loop = {}
    /\ lost = {} /\ asked = {} /\ crossed = FALSE /\ events = 0

-----------------------------------------------------------------------------
At(q, pc) == req[q].pc = pc
Set(q, changes) == req' = [req EXCEPT ![q] = changes]
GoTo(q, pc) == req' = [req EXCEPT ![q].pc = pc]
Answer(q) == Set(q, NoRequest)
Event == events < MaxEvents /\ events' = events + 1
Begins(q) ==
    /\ At(q, "idle") /\ Event
    /\ crossed' = (crossed \/ \E p \in Requests \ {q} : ~At(p, "idle"))
\* A handler on the loop runs to its end before another begins.
BeginsOnLoop(q) == loop = {} /\ Begins(q)

IsVolume(x) == x \in Volumes
\* What is a disk for the boot order: neither an image nor an empty drive.
IsDisk(x) == x \notin {Image, NoMedium, Empty}
\* Proxmox keeps a volume that leaves its slot as an unused one.
Vacated(s) == unused \union {v \in {slot[s]} : IsVolume(v)}
\* The entries the name of a volume is found in.
Matching(v) == {w \in unused : w = v \/ <<v, w>> \in Longer}
FromImage == boot # <<>> /\ slot[boot[1]] = Image

\* Boot orders have a slot once.
Orders == {b \in UNION {[1..n -> Slots] : n \in 0..3} : \A i, j \in DOMAIN b : b[i] = b[j] => i = j}
In(b) == {b[i] : i \in DOMAIN b}
Before(b, s, t) == \E i, j \in DOMAIN b : i < j /\ b[i] = s /\ b[j] = t
\* In b the slots of S are as they stand in the order in force, then the others.
Kept(b, S) == \A s, t \in S : Before(boot, s, t) \/ (s \in In(boot) /\ t \notin In(boot)) => Before(b, s, t)

(* Disks, on the event loop.                                               *)
\* That the slot is free is not looked up.
AddDisk(q) ==
    /\ BeginsOnLoop(q) /\ made < NVolumes
    /\ \E s \in Disks : slot' = [slot EXCEPT ![s] = made + 1] /\ unused' = Vacated(s)
    /\ made' = made + 1
    /\ UNCHANGED <<boot, power, status, req, loop, lost, asked>>

AttachPhysical(q) ==
    /\ BeginsOnLoop(q)
    /\ \E s \in Disks : slot' = [slot EXCEPT ![s] = Physical] /\ unused' = Vacated(s)
    /\ UNCHANGED <<boot, power, status, req, loop, made, lost, asked>>

\* To destroy it, the name of the volume is read before; Proxmox takes an
\* emptied slot out of the boot order.
Detach(q) ==
    /\ BeginsOnLoop(q)
    /\ \E s \in Disks, keep \in BOOLEAN :
          /\ slot[s] # Empty
          /\ slot' = [slot EXCEPT ![s] = Empty] /\ unused' = Vacated(s)
          /\ boot' \in {b \in Orders : In(b) = In(boot) \ {s} /\ Kept(b, In(b))}
          /\ IF keep \/ ~IsVolume(slot[s])
             THEN UNCHANGED <<req, loop, asked>>
             ELSE /\ Set(q, [NoRequest EXCEPT !.pc = "destroy", !.vol = slot[s]])
                  /\ loop' = {q} /\ asked' = asked \union {slot[s]}
    /\ UNCHANGED <<power, status, made, lost>>

\* Mutant: any unused entry will do.
MutDestroy(q) ==
    /\ At(q, "destroy")
    /\ \E v \in unused : unused' = unused \ {v} /\ lost' = lost \union {v}
    /\ Answer(q) /\ loop' = {}
    /\ UNCHANGED <<slot, boot, power, status, made, asked, crossed, events>>

\* The first unused entry the name is found in.
Destroy(q) ==
    /\ At(q, "destroy")
    /\ \/ Matching(req[q].vol) = {} /\ UNCHANGED <<unused, lost>>
       \/ \E v \in Matching(req[q].vol) : unused' = unused \ {v} /\ lost' = lost \union {v}
    /\ Answer(q) /\ loop' = {}
    /\ UNCHANGED <<slot, boot, power, status, made, asked, crossed, events>>

\* The move of a disk is a task that the loop waits for, up to an hour; the
\* copy is a new volume.
StartMove(q) ==
    /\ BeginsOnLoop(q) /\ made < NVolumes
    /\ \E s \in Disks, keep \in BOOLEAN :
          /\ IsVolume(slot[s])
          /\ Set(q, [NoRequest EXCEPT !.pc = "move", !.slot = s, !.vol = slot[s], !.keep = keep])
          /\ asked' = IF keep THEN asked ELSE asked \union {slot[s]}
    /\ loop' = {q} /\ made' = made + 1
    /\ UNCHANGED <<slot, unused, boot, power, status, lost>>

Moved(q) ==
    /\ At(q, "move")
    /\ LET r == req[q] IN
       \/ UNCHANGED <<slot, unused, lost>>
       \/ /\ slot[r.slot] = r.vol /\ slot' = [slot EXCEPT ![r.slot] = made]
          /\ unused' = IF r.keep THEN Vacated(r.slot) ELSE unused
          /\ lost' = IF r.keep THEN lost ELSE lost \union {r.vol}
    /\ Answer(q) /\ loop' = {}
    /\ UNCHANGED <<boot, power, status, made, asked, crossed, events>>

\* When the disk of a container has grown the container is restarted; a
\* machine grows its file system by its agent.
Resize(q) ==
    /\ BeginsOnLoop(q) /\ loop' = {q}
    /\ \E s \in Disks : IsVolume(slot[s]) /\ Set(q, [NoRequest EXCEPT !.pc = "resize", !.slot = s])
    /\ UNCHANGED <<hardware, power, status>>

Resized(q) ==
    /\ At(q, "resize") /\ Answer(q) /\ loop' = {}
    /\ power' \in {power, [power EXCEPT !.tasks = @ \union {"restart"}]}
    /\ UNCHANGED <<hardware, status, crossed, events>>

-----------------------------------------------------------------------------
(* Images and power, in threads.                                           *)
\* Into the drive or out of it, and then perhaps a new boot order.
ChangeImage(q) ==
    /\ q \notin loop /\ Begins(q)
    /\ \E in, order \in BOOLEAN :
          /\ slot' = [slot EXCEPT ![Drive] = IF in THEN Image ELSE NoMedium]
          /\ IF order THEN Set(q, [NoRequest EXCEPT !.pc = "read", !.image = in]) ELSE UNCHANGED req
    /\ UNCHANGED <<unused, boot, power, status, loop, made, lost, asked>>

\* Disks keep the order they have, and those that have none come last.
\* Without any there is no order after an image is taken out, and no restart.
SetBoot(q) ==
    /\ At(q, "read")
    /\ LET disks == {s \in Disks : IsDisk(slot[s])}
           first == IF req[q].image THEN {Drive} ELSE {}
       IN IF disks \union first = {} THEN Answer(q) /\ UNCHANGED boot
          ELSE /\ boot' \in {b \in Orders : In(b) = disks \union first /\ (first # {} => b[1] = Drive) /\ Kept(b, disks)}
               /\ GoTo(q, "look")
    /\ UNCHANGED <<slot, unused, power, status, loop, made, lost, asked, crossed, events>>

\* A new order takes a new process: a guest that runs is restarted, when the
\* request says so.
Look(q) ==
    /\ At(q, "look")
    /\ \/ Answer(q) /\ UNCHANGED power
       \/ power.on /\ GoTo(q, "wait") /\ power' = [power EXCEPT !.tasks = @ \union {"stop"}]
    /\ UNCHANGED <<hardware, status, loop, crossed, events>>

\* Mutant: the guest is started whether or not it has stopped.
MutAwait(q) ==
    /\ At(q, "wait") /\ GoTo(q, "start")
    /\ UNCHANGED <<hardware, power, status, loop, crossed, events>>

\* A guest that does not stop is stopped hard, and left alone when that does
\* not help in time.
Await(q) ==
    /\ \/ At(q, "wait") /\ power.on /\ GoTo(q, "wait again")
          /\ power' = [power EXCEPT !.tasks = @ \union {"stop"}]
       \/ At(q, "wait again") /\ power.on /\ Answer(q) /\ UNCHANGED power
       \/ req[q].pc \in {"wait", "wait again"} /\ ~power.on /\ GoTo(q, "start") /\ UNCHANGED power
    /\ UNCHANGED <<hardware, status, loop, crossed, events>>

\* The request answers that it has restarted the guest when the start is
\* accepted.
StartAgain(q) ==
    /\ At(q, "start")
    /\ \/ Answer(q) /\ UNCHANGED power
       \/ GoTo(q, "restarted") /\ power' = [power EXCEPT !.tasks = @ \union {"start"}]
    /\ UNCHANGED <<hardware, status, loop, crossed, events>>

Restarted(q) ==
    /\ At(q, "restarted") /\ Answer(q)
    /\ UNCHANGED <<hardware, power, status, loop, crossed, events>>

\* Power by hand: the row has the outcome that is expected before the task ends.
Control(q) ==
    /\ q \notin loop /\ Begins(q)
    /\ \E t \in {"start", "stop", "restart"} :
          /\ power' = [power EXCEPT !.tasks = @ \union {t}]
          /\ status' = IF t = "stop" THEN "stopped" ELSE "running"
    /\ UNCHANGED <<hardware, req, loop>>

-----------------------------------------------------------------------------
(* The tasks of Proxmox end in some order, done or failed; the guest itself  *)
(* may stop.                                                               *)
TaskEnds ==
    /\ \E t \in power.tasks :
          LET rest == power.tasks \ {t} IN
          \/ power' = [power EXCEPT !.tasks = rest]
          \/ t = "stop" /\ power' = [on |-> FALSE, image |-> FALSE, tasks |-> rest]
          \/ /\ IF t = "start" THEN ~power.on ELSE t = "restart" /\ power.on
             /\ power' = [on |-> TRUE, image |-> FromImage, tasks |-> rest]
    /\ UNCHANGED <<hardware, status, req, loop, crossed, events>>

GuestStops ==
    /\ Event /\ power.on /\ power' = [power EXCEPT !.on = FALSE, !.image = FALSE]
    /\ UNCHANGED <<hardware, status, req, loop, crossed>>

Synchronise ==
    /\ status' = IF power.on THEN "running" ELSE "stopped"
    /\ UNCHANGED <<hardware, power, req, loop, crossed, events>>

Next ==
    \/ \E q \in Requests :
          \/ AddDisk(q) \/ AttachPhysical(q) \/ Detach(q) \/ Destroy(q) \/ StartMove(q) \/ Moved(q)
          \/ Resize(q) \/ Resized(q) \/ ChangeImage(q) \/ SetBoot(q) \/ Look(q) \/ Await(q)
          \/ StartAgain(q) \/ Restarted(q) \/ Control(q)
    \/ TaskEnds \/ GuestStops \/ Synchronise

Spec == Init /\ [][Next]_vars

-----------------------------------------------------------------------------
TypeOK ==
    /\ slot \in [Slots -> Volumes \union {Physical, Image, NoMedium, Empty}]
    /\ unused \subseteq Volumes /\ lost \subseteq Volumes /\ asked \subseteq Volumes
    /\ boot \in Orders /\ made \in Volumes
    /\ power \in [on : BOOLEAN, image : BOOLEAN, tasks : SUBSET {"start", "stop", "restart"}]
    /\ status \in {"running", "stopped"}
    /\ req \in [Requests -> [pc : {"idle", "destroy", "move", "resize", "read", "look", "wait",
                                   "wait again", "start", "restarted"},
                             image : BOOLEAN, slot : Slots, vol : 0..NVolumes, keep : BOOLEAN]]
    /\ loop = {} \/ \E q \in Requests : loop = {q}
    /\ crossed \in BOOLEAN /\ events \in 0..MaxEvents

\* No data is destroyed but what was in a slot that was to be emptied with
\* its volume, or moved away without a copy left behind.
VolumesKept == lost \subseteq asked

\* A guest the panel says it has restarted does not go on as it was: if it
\* runs, it has started from the image, or from a disk, as it was asked.
RestartApplies ==
    ~crossed => \A q \in Requests :
        At(q, "restarted") /\ power.on => power.image = req[q].image
=============================================================================
