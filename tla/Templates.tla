------------------------------- MODULE Templates -------------------------------
(***************************************************************************)
(* The templates guests are cloned from: rows of os_templates and their    *)
(* groups, the templates on Proxmox VE they name by their VMID, and the    *)
(* jobs that fetch an image and make a template of it.  Rows refer to      *)
(* groups and templates without foreign keys; jobs and requests run in     *)
(* threads side by side.  How a deployment goes on is in Deployment.       *)
(***************************************************************************)
EXTENDS Naturals, FiniteSetsExt

CONSTANTS
    Jobs,                 \* threads
    NVmids, NRows,        \* VMIDs there are; rows of os_templates
    MaxEvents             \* bound: jobs, requests and what happens on Proxmox

Vmids == 1..NVmids
Rows == 1..NRows
Groups == {1, 2}
Volumes == {"import", "iso"}
\* Images that come under one file name.
Images == {1, 2}
None == 0

VARIABLES
    vol,         \* vol[v]: the image the file is, or None
    guest,       \* guest[v]: the guest of a VMID; id tells apart those that had it
    gone,        \* ghost: ids of guests that are no more
    group,       \* groups there are
    row,         \* row[r]: the group, the VMID and, ghost, the guest it was made for
    job,
    crossed,     \* ghost: kinds of requests of which one wrote while another was between
    converted,   \* ghost: a job made a template of another guest: whether its own was gone
    told,        \* ghost: a job with a checksum completed with another image: whether
                 \* the file had been replaced meanwhile
    cloned,      \* ghost: guests whose rows were used to clone what is no template
    events

vars == <<vol, guest, gone, group, row, job, crossed, converted, told, cloned, events>>
proxmox == <<vol, guest, gone>>
tables == <<group, row>>
ghosts == <<converted, told, cloned>>

NoGuest == [kind |-> "none", id |-> None, img |-> None]
NoRow == [there |-> FALSE, group |-> 1, vmid |-> 1, src |-> None]
Idle == [pc |-> "idle", op |-> "none", id |-> None, img |-> 1, sum |-> FALSE, vmid |-> 1,
         src |-> None, row |-> None, group |-> 1, list |-> {}, replaced |-> FALSE, over |-> {}]

\* A panel with a group and a template it has no row for.
Init ==
    /\ vol = [v \in Volumes |-> None]
    /\ guest = [v \in Vmids |-> IF v = 1 THEN [kind |-> "template", id |-> MaxEvents + 1, img |-> None] ELSE NoGuest]
    /\ gone = {}
    /\ group = {1} /\ row = [r \in Rows |-> NoRow]
    /\ job = [q \in Jobs |-> Idle]
    /\ crossed = {} /\ converted = {} /\ told = {} /\ cloned = {} /\ events = 0

-----------------------------------------------------------------------------
Event == events < MaxEvents /\ events' = events + 1
At(q, op, pc) == job[q].op = op /\ job[q].pc = pc
GoTo(q, j) == job' = [job EXCEPT ![q] = j] /\ UNCHANGED <<crossed, events>>
Begin(q, j) ==
    /\ job[q].pc = "idle" /\ Event
    /\ job' = [job EXCEPT ![q] = [j EXCEPT !.id = events + 1]]
    /\ UNCHANGED crossed
Step(q, pc) == GoTo(q, [job[q] EXCEPT !.pc = pc])

\* A commit of q, seen by the requests that have read already.
Kind(op) == IF op \in {"group", "ungroup", "server"} THEN "group" ELSE "row"
Done(q) ==
    /\ job' = [p \in Jobs |-> CASE p = q -> Idle
                                [] job[p].pc = "idle" -> job[p]
                                [] OTHER -> [job[p] EXCEPT !.over = @ \union {Kind(job[q].op)}]]
    /\ crossed' = crossed \union {{Kind(job[q].op), k} : k \in job[q].over}
    /\ UNCHANGED events

Fails(q) == job[q].pc # "idle" /\ GoTo(q, Idle) /\ UNCHANGED <<proxmox, tables, ghosts>>

Tells(q, right) ==
    told' = IF job[q].sum /\ ~right THEN told \union {job[q].replaced} ELSE told

-----------------------------------------------------------------------------
(* Images.                                                                 *)
VolumeOf(op) == IF op = "upload" THEN "iso" ELSE "import"

\* The file is another from here on for everyone who uses it.
FileBecomes(q, v, img, pc) ==
    /\ vol' = [vol EXCEPT ![v] = img]
    /\ job' = [p \in Jobs |-> IF p = q THEN [job[p] EXCEPT !.pc = pc]
                              ELSE [job[p] EXCEPT !.replaced = @ \/ job[p].pc \notin {"idle", "start"}]]
    /\ UNCHANGED <<crossed, events>>

\* The checksum of an upload is compared with no file that is there already:
\* as far as this goes it has none.
FetchImage(q, op, img, sum) ==
    /\ op = "upload" => ~sum
    /\ Begin(q, [Idle EXCEPT !.pc = "start", !.op = op, !.img = img, !.sum = sum])
    /\ UNCHANGED <<proxmox, tables, ghosts>>

\* Mutant: the file that is there will do, checksum or not.
MutTrusts(j) == TRUE
\* A file of that name is taken for the image, unless it can be told from it.
Trusts(j) == ~j.sum

FindFile(q) ==
    LET j == job[q]  v == VolumeOf(j.op) IN
    /\ j.pc = "start"
    /\ \/ vol[v] # None /\ Trusts(j) /\ Step(q, "file") /\ UNCHANGED vol
       \/ vol[v] # None /\ ~Trusts(j) /\ FileBecomes(q, v, None, "fetch")
       \/ vol[v] = None /\ Step(q, "fetch") /\ UNCHANGED vol
       \* The listing failed.
       \/ vol[v] # None /\ Step(q, "fetch") /\ UNCHANGED vol
    /\ UNCHANGED <<guest, gone, tables, ghosts>>

\* Proxmox writes no file over another, and keeps none whose checksum is wrong.
Fetched(q) ==
    LET v == VolumeOf(job[q].op) IN
    /\ job[q].pc = "fetch" /\ vol[v] = None
    /\ FileBecomes(q, v, job[q].img, "file")
    /\ UNCHANGED <<guest, gone, tables, ghosts>>

\* _do_image_download_sync, _do_image_upload_sync end here.
FileThere(q) ==
    /\ job[q].pc = "file" /\ job[q].op \in {"download", "upload"}
    /\ Tells(q, vol[VolumeOf(job[q].op)] = job[q].img)
    /\ GoTo(q, Idle)
    /\ UNCHANGED <<proxmox, tables, converted, cloned>>

-----------------------------------------------------------------------------
(* A template of an image.                                                 *)
Free == {v \in Vmids : guest[v] = NoGuest}

TakeVmid(q) ==
    /\ At(q, "template", "file") /\ Free # {}
    /\ GoTo(q, [job[q] EXCEPT !.pc = "create", !.vmid = Min(Free)])
    /\ UNCHANGED <<proxmox, tables, ghosts>>

\* Mutant: goes on when the creation is refused.
MutCreateVm(q) ==
    LET v == job[q].vmid IN
    /\ At(q, "template", "create")
    /\ guest' = IF guest[v] = NoGuest THEN [guest EXCEPT ![v] = [kind |-> "importing", id |-> job[q].id, img |-> None]]
                ELSE guest
    /\ Step(q, "wait")
    /\ UNCHANGED <<vol, gone, tables, ghosts>>
\* create_vm_with_import: refused at once if somebody has the VMID by now.
CreateVm(q) ==
    LET v == job[q].vmid IN
    /\ At(q, "template", "create") /\ guest[v] = NoGuest
    /\ guest' = [guest EXCEPT ![v] = [kind |-> "importing", id |-> job[q].id, img |-> None]]
    /\ Step(q, "wait")
    /\ UNCHANGED <<vol, gone, tables, ghosts>>

\* Nobody looks at how the import ended; after an hour nobody waits for it.
WaitImport(q) == At(q, "template", "wait") /\ Step(q, "convert") /\ UNCHANGED <<proxmox, tables, ghosts>>

\* configure_vm, whose failure is no matter, and convert_to_template, of
\* whichever guest has the VMID.
Convert(q) ==
    LET j == job[q]  g == guest[j.vmid] IN
    /\ At(q, "template", "convert") /\ g.kind = "vm"
    /\ guest' = [guest EXCEPT ![j.vmid].kind = "template"]
    /\ converted' = IF g.id = j.id THEN converted ELSE converted \union {j.id \in gone}
    /\ GoTo(q, [j EXCEPT !.pc = "register", !.src = g.id])
    /\ UNCHANGED <<vol, gone, tables, told, cloned>>

FreeRows == {r \in Rows : ~row[r].there}
\* The row of the template, in the group its name calls for, made if it is not
\* there; a failure is no matter.
Register(q) ==
    LET j == job[q]  g == Max(Groups) IN
    /\ At(q, "template", "register")
    /\ \/ /\ FreeRows # {}
          /\ row' = [row EXCEPT ![Min(FreeRows)] = [there |-> TRUE, group |-> g, vmid |-> j.vmid, src |-> j.src]]
          /\ group' = group \union {g}
       \/ UNCHANGED tables
    /\ Tells(q, guest[j.vmid].img = j.img \/ j.src # j.id \/ guest[j.vmid].id # j.id)
    /\ Done(q)
    /\ UNCHANGED <<proxmox, converted, cloned>>

-----------------------------------------------------------------------------
(* Groups and rows edited by hand.                                         *)
CreateGroup(g) ==
    /\ g \notin group /\ Event
    /\ group' = group \union {g}
    /\ UNCHANGED <<proxmox, row, job, crossed, ghosts>>

\* Mutant: whether templates are in the group is not asked.
MutEmpty(g) == TRUE
Empty(g) == ~\E r \in Rows : row[r].there /\ row[r].group = g
DeleteGroup(q, g) ==
    /\ g \in group /\ Empty(g)
    /\ Begin(q, [Idle EXCEPT !.pc = "checked", !.op = "ungroup", !.group = g])
    /\ UNCHANGED <<proxmox, tables, ghosts>>
CommitDeleteGroup(q) ==
    /\ At(q, "ungroup", "checked")
    /\ group' = group \ {job[q].group}
    /\ Done(q) /\ UNCHANGED <<proxmox, row, ghosts>>

\* Whatever VMID is given is taken for a template, once.
CreateTemplate(q, g, v) ==
    /\ g \in group /\ ~\E r \in Rows : row[r].there /\ row[r].vmid = v
    /\ Begin(q, [Idle EXCEPT !.pc = "checked", !.op = "row", !.group = g, !.vmid = v])
    /\ UNCHANGED <<proxmox, tables, ghosts>>
\* The new VMID is compared with no other row.
UpdateTemplate(q, r, g, v) ==
    /\ row[r].there /\ g \in group
    /\ Begin(q, [Idle EXCEPT !.pc = "checked", !.op = "row", !.row = r, !.group = g, !.vmid = v])
    /\ UNCHANGED <<proxmox, tables, ghosts>>
CommitTemplate(q) ==
    LET j == job[q]  r == IF j.row = None THEN Min(FreeRows) ELSE j.row IN
    /\ At(q, "row", "checked")
    /\ IF j.row = None THEN FreeRows # {} ELSE row[r].there
    /\ row' = [row EXCEPT ![r] = [there |-> TRUE, group |-> j.group, vmid |-> j.vmid,
                                  src |-> IF row[r].there /\ row[r].vmid = j.vmid THEN row[r].src ELSE None]]
    /\ Done(q) /\ UNCHANGED <<proxmox, group, ghosts>>

DeleteTemplate(r) ==
    /\ row[r].there /\ Event
    /\ row' = [row EXCEPT ![r] = NoRow]
    /\ UNCHANGED <<proxmox, group, job, crossed, ghosts>>

\* delete_proxmox_server: the rows of the server, and the groups that leaves empty.
DeleteServer(q) ==
    /\ Begin(q, [Idle EXCEPT !.pc = "checked", !.op = "server", !.list = {r \in Rows : row[r].there}])
    /\ UNCHANGED <<proxmox, tables, ghosts>>
CommitDeleteServer(q) ==
    /\ At(q, "server", "checked")
    /\ row' = [r \in Rows |-> IF r \in job[q].list THEN NoRow ELSE row[r]]
    /\ group' = {}
    /\ Done(q) /\ UNCHANGED <<proxmox, ghosts>>

-----------------------------------------------------------------------------
(* Templates found on Proxmox.                                             *)
\* Mutant: every guest is one.
MutListed == {v \in Vmids : guest[v].kind # "none"}
\* get_templates
Listed == {v \in Vmids : guest[v].kind = "template"}
\* discover_proxmox_templates marks what has a row.
Added == {v \in Vmids : \E r \in Rows : row[r].there /\ row[r].vmid = v}

AutoImport(q) ==
    /\ Listed \ Added # {}
    /\ Begin(q, [Idle EXCEPT !.pc = "listed", !.op = "import",
                 !.list = {[vmid |-> v, src |-> guest[v].id] : v \in Listed \ Added}])
    /\ UNCHANGED <<proxmox, tables, ghosts>>
\* A row of its own for each.
Places(found) == {f \in [found -> FreeRows] : \A d, e \in found : f[d] = f[e] => d = e}
CommitAutoImport(q) ==
    LET g == Max(Groups)
        found == job[q].list
        at == CHOOSE f \in Places(found) : TRUE
        made == [r \in {at[e] : e \in found} |-> CHOOSE e \in found : at[e] = r]
    IN
    /\ At(q, "import", "listed") /\ Places(found) # {}
    /\ row' = [r \in Rows |-> IF r \in DOMAIN made
                              THEN [there |-> TRUE, group |-> g, vmid |-> made[r].vmid, src |-> made[r].src]
                              ELSE row[r]]
    /\ group' = group \union {g}
    /\ Done(q) /\ UNCHANGED <<proxmox, ghosts>>

\* A deployment clones the guest that has the VMID of the row.
Clone(r) ==
    LET g == guest[row[r].vmid] IN
    /\ row[r].there /\ g.kind \in {"vm", "template"} /\ Event
    /\ cloned' = IF g.kind = "template" THEN cloned ELSE cloned \union {row[r].src}
    /\ UNCHANGED <<proxmox, tables, job, crossed, converted, told>>

-----------------------------------------------------------------------------
(* Guests of Proxmox VE.                                                   *)
ImportEnds(v) ==
    /\ guest[v].kind = "importing"
    /\ \/ vol["import"] # None /\ guest' = [guest EXCEPT ![v].kind = "vm", ![v].img = vol["import"]] /\ UNCHANGED gone
       \/ guest' = [guest EXCEPT ![v] = NoGuest] /\ gone' = gone \union {guest[v].id}
    /\ UNCHANGED <<vol, tables, job, crossed, ghosts, events>>

\* Another user's guest takes the next VMID; a guest or a template is destroyed.
GuestMade(v, kind) ==
    /\ Free # {} /\ v = Min(Free) /\ Event
    /\ guest' = [guest EXCEPT ![v] = [kind |-> kind, id |-> events + 1, img |-> None]]
    /\ UNCHANGED <<vol, gone, tables, job, crossed, ghosts>>
GuestDestroyed(v) ==
    /\ guest[v].kind \in {"vm", "template"} /\ Event
    /\ guest' = [guest EXCEPT ![v] = NoGuest] /\ gone' = gone \union {guest[v].id}
    /\ UNCHANGED <<vol, tables, job, crossed, ghosts>>

-----------------------------------------------------------------------------
Next ==
    \/ \E q \in Jobs :
          \/ \E op \in {"template", "download", "upload"}, img \in Images, sum \in BOOLEAN : FetchImage(q, op, img, sum)
          \/ FindFile(q) \/ Fetched(q) \/ FileThere(q)
          \/ TakeVmid(q) \/ CreateVm(q) \/ WaitImport(q) \/ Convert(q) \/ Register(q)
          \/ \E g \in Groups : DeleteGroup(q, g) \/ \E v \in Vmids :
                CreateTemplate(q, g, v) \/ \E r \in Rows : UpdateTemplate(q, r, g, v)
          \/ CommitAutoImport(q) \/ CommitDeleteGroup(q) \/ CommitTemplate(q)
          \/ DeleteServer(q) \/ CommitDeleteServer(q) \/ AutoImport(q) \/ Fails(q)
    \/ \E g \in Groups : CreateGroup(g)
    \/ \E r \in Rows : DeleteTemplate(r) \/ Clone(r)
    \/ \E v \in Vmids : ImportEnds(v) \/ GuestDestroyed(v) \/ \E kind \in {"vm", "template"} : GuestMade(v, kind)

Spec == Init /\ [][Next]_vars

-----------------------------------------------------------------------------
TypeOK ==
    /\ group \subseteq Groups
    /\ \A v \in Vmids : guest[v].kind \in {"none", "importing", "vm", "template"} /\ guest[v].id \notin gone
    /\ \A r \in Rows : row[r].group \in Groups /\ row[r].vmid \in Vmids
    /\ events \in 0..MaxEvents

\* A job makes a template of a guest that is not its own only if its own is no
\* more: the import it did not look at failed, and the VMID was taken again.
OwnConverted == converted \subseteq {TRUE}

\* A task that was given a checksum and completed has that very image, unless
\* another job replaced the file while it was on its way.
ImageMeant == told \subseteq {TRUE}

\* The group of a row is there, unless a deletion of groups and a change of
\* rows ran at the same time.
GroupsThere == {"group", "row"} \notin crossed => \A r \in Rows : row[r].there => row[r].group \in group

\* A template has two rows only after two requests about rows ran at the same time.
OneRowEach ==
    {"row"} \notin crossed =>
        \A r, s \in Rows : r # s /\ row[r].there /\ row[s].there /\ row[r].src = row[s].src => row[r].src = None

\* What is cloned for a row nobody wrote by hand is a template, as long as the
\* one the row was made for has not been destroyed.
TemplateCloned == cloned \subseteq gone \union {None}

TemplatesTrue == OwnConverted /\ ImageMeant /\ GroupsThere /\ OneRowEach /\ TemplateCloned
===============================================================================
