----------------------------- MODULE NodeSettings -----------------------------
(***************************************************************************)
(* The settings of a node and of the software-defined network, kept by     *)
(* Proxmox VE and edited through the panel: forms that are read, changed   *)
(* and sent back whole, changes of the network that wait to be applied,    *)
(* repositories named by their position, and the certificate of the node.  *)
(* An edit is a number; a setting is the set of edits it shows.            *)
(***************************************************************************)
EXTENDS Naturals, Sequences, FiniteSets, SequencesExt

CONSTANTS
    Requests,    \* administrators
    MaxEvents    \* bound: changes sent and things that happen to the node

Forms == {"hosts", "dns", "time"}
Staged == {"zone", "vnet", "iface"}
Settings == Forms \union Staged
Networks == {"sdn", "iface"}
Of(k) == IF k = "sdn" THEN {"zone", "vnet"} ELSE {"iface"}
None == 0

VARIABLES
    conf,      \* conf[s]: whether s is there, and its edits; of Staged, with what waits
    live,      \* live[s]: the same as the node runs it
    tasks,     \* networks whose application was accepted and has not ended
    repos,     \* the repositories of the node, [id, on]
    cert,      \* the certificate stored and the one the node serves
    req,       \* req[q]: what administrator q looks at
    undone,    \* ghost: edits a form took back: of which setting, with what reading
    due,       \* ghost: edits of Staged that somebody asked to be put in force
    missed,    \* ghost: a toggle reached a repository it was not meant for, and
               \* whether the list had been changed on the node
    quiet,     \* ghost: the last change of the certificate was to go without a restart
    kept,      \* ghost: a certificate was replaced by an upload that was not to
    events

vars == <<conf, live, tasks, repos, cert, req, undone, due, missed, quiet, kept, events>>
network == <<conf, live, tasks, due>>
rest == <<repos, missed, cert, quiet, kept>>

Absent == [there |-> FALSE, edits |-> {}]
Fresh == [there |-> TRUE, edits |-> {}]
NoForm == [of |-> "none", seen |-> {}, list |-> <<>>, digest |-> FALSE, unread |-> FALSE]

Init ==
    /\ conf = [s \in Settings |-> IF s \in Forms \union {"iface"} THEN Fresh ELSE Absent]
    /\ live = [s \in Staged |-> conf[s]]
    /\ tasks = {}
    /\ repos = <<[id |-> 1, on |-> TRUE], [id |-> 2, on |-> FALSE]>>
    /\ cert = [stored |-> None, served |-> None]
    /\ req = [q \in Requests |-> NoForm]
    /\ undone = {} /\ due = {} /\ missed = {} /\ quiet = FALSE /\ kept = FALSE /\ events = 0

-----------------------------------------------------------------------------
Event == events < MaxEvents /\ events' = events + 1
\* The edit of an event has its number.
Edit == events + 1
Look(q, form) == req' = [req EXCEPT ![q] = form] /\ UNCHANGED <<network, rest, undone, events>>

-----------------------------------------------------------------------------
(* Forms.                                                                  *)
\* A setting that cannot be read is answered as an empty one, 200 OK, and its
\* form stays blank; of a list nothing can be picked then.
Read(q, s) ==
    \/ conf[s].there /\ Look(q, [NoForm EXCEPT !.of = s, !.seen = conf[s].edits])
    \/ s \in Forms /\ Look(q, [NoForm EXCEPT !.of = s, !.unread = TRUE])
ReadDns(q) == Read(q, "dns")
ReadTime(q) == Read(q, "time")
ReadZones(q) == Read(q, "zone")
ReadVnets(q) == Read(q, "vnet")
ReadInterfaces(q) == Read(q, "iface")

\* The digest of the hosts file comes with its text.  When the page asks again
\* and gets nothing, the text of the form stays and the digest goes.
ReadHosts(q) ==
    \/ Look(q, [NoForm EXCEPT !.of = "hosts", !.seen = conf["hosts"].edits, !.digest = TRUE])
    \/ Look(q, [NoForm EXCEPT !.of = "hosts", !.unread = TRUE])
    \/ req[q].of = "hosts" /\ Look(q, [req[q] EXCEPT !.digest = FALSE, !.unread = TRUE])

\* The edits of s that a text takes back which shows seen only.
Undoes(q, s) ==
    undone' = undone \union (IF conf[s].edits \subseteq req[q].seen THEN {}
                             ELSE {[of |-> s, unread |-> req[q].unread]})
Sent(q) == req' = [req EXCEPT ![q] = NoForm]
\* What waits when the task of its network runs is put in force by it.
DueNow(s, edits) == due' = IF \E k \in tasks : s \in Of(k) THEN due \union edits ELSE due

\* Mutant: the digest is not handed on.
MutSetNodeHosts(q) ==
    /\ req[q].of = "hosts" /\ Event
    /\ conf' = [conf EXCEPT !["hosts"].edits = req[q].seen \union {Edit}]
    /\ Undoes(q, "hosts") /\ Sent(q)
    /\ UNCHANGED <<live, tasks, due, rest>>
\* set_node_hosts: Proxmox refuses a text with a digest that is no longer the
\* one of the file, and takes any without.
SetNodeHosts(q) ==
    /\ req[q].of = "hosts" /\ Event
    /\ req[q].digest => conf["hosts"].edits = req[q].seen
    /\ conf' = [conf EXCEPT !["hosts"].edits = req[q].seen \union {Edit}]
    /\ Undoes(q, "hosts") /\ Sent(q)
    /\ UNCHANGED <<live, tasks, due, rest>>

\* A form without a digest is written as it is.  What is updated must be there.
Update(q, s) ==
    /\ req[q].of = s /\ conf[s].there /\ Event
    /\ conf' = [conf EXCEPT ![s].edits = req[q].seen \union {Edit}]
    /\ DueNow(s, {Edit} \union req[q].seen)
    /\ Undoes(q, s) /\ Sent(q)
    /\ UNCHANGED <<live, tasks, rest>>
SetNodeDns(q) == Update(q, "dns")
SetNodeTimezone(q) == Update(q, "time")
UpdateZone(q) == Update(q, "zone")
UpdateVnet(q) == Update(q, "vnet")
UpdateInterface(q) == Update(q, "iface")

Refused(q) == req[q] # NoForm /\ Look(q, NoForm)

-----------------------------------------------------------------------------
(* The network: what is staged, and what is in force.                      *)
\* A vnet is of a zone; Proxmox makes nothing twice, and keeps a zone with vnets.
Create(s) ==
    /\ ~conf[s].there /\ Event
    /\ conf' = [conf EXCEPT ![s] = [there |-> TRUE, edits |-> {Edit}]]
    /\ DueNow(s, {Edit})
    /\ UNCHANGED <<live, tasks, undone, req, rest>>
CreateZone == Create("zone")
CreateVnet == conf["zone"].there /\ Create("vnet")
CreateInterface == Create("iface")

Delete(s) ==
    /\ conf[s].there /\ Event
    /\ conf' = [conf EXCEPT ![s] = Absent]
    /\ UNCHANGED <<live, tasks, due, undone, req, rest>>
DeleteZone == ~conf["vnet"].there /\ Delete("zone")
DeleteVnet == Delete("vnet")
DeleteInterface == Delete("iface")

\* Everything that waits is applied, whoever staged it; the answer comes when
\* the task is accepted.
Apply(k) ==
    /\ Event
    /\ tasks' = tasks \union {k}
    /\ due' = due \union UNION {conf[s].edits : s \in Of(k)}
    /\ UNCHANGED <<conf, live, undone, req, rest>>
ApplySdn == Apply("sdn")
ApplyInterfaces == Apply("iface")

TaskEnds(k) ==
    /\ k \in tasks /\ tasks' = tasks \ {k}
    /\ \/ live' = [s \in Staged |-> IF s \in Of(k) THEN conf[s] ELSE live[s]]
       \/ UNCHANGED live
    /\ UNCHANGED <<conf, due, undone, req, rest, events>>

\* Mutant: what waits is put in force.
MutRevert ==
    /\ Event
    /\ live' = [live EXCEPT !["iface"] = conf["iface"]]
    /\ UNCHANGED <<conf, tasks, due, undone, req, rest>>
\* revert_node_network_config: everything that waits, whoever staged it.
Revert ==
    /\ Event
    /\ conf' = [conf EXCEPT !["iface"] = live["iface"]]
    /\ UNCHANGED <<live, tasks, due, undone, req, rest>>

\* node_power_action, and the start that follows: the node has its interfaces
\* as they are staged, and serves the certificate it has.
NodePower ==
    /\ Event
    /\ live' = [live EXCEPT !["iface"] = conf["iface"]]
    /\ due' = due \union conf["iface"].edits
    /\ tasks' = tasks \ {"iface"}
    /\ cert' = [cert EXCEPT !.served = cert.stored]
    /\ UNCHANGED <<conf, undone, req, repos, missed, quiet, kept>>

-----------------------------------------------------------------------------
(* Repositories.                                                           *)
ReadRepositories(q) == Look(q, [NoForm EXCEPT !.of = "repos", !.list = repos])

\* Mutant: positions are counted from one.
MutReached(i) == i + 1
\* The position Proxmox is given.
Reached(i) == i

\* set_apt_repository: the one at a position of a file.
SetRepository(q, i) ==
    /\ req[q].of = "repos" /\ i \in DOMAIN req[q].list /\ Reached(i) \in DOMAIN repos /\ Event
    /\ repos' = [repos EXCEPT ![Reached(i)].on = ~req[q].list[i].on]
    /\ missed' = missed \union (IF repos[Reached(i)].id = req[q].list[i].id THEN {}
                                ELSE {[stale |-> req[q].unread]})
    /\ Sent(q)
    /\ UNCHANGED <<network, undone, cert, quiet, kept>>

\* add_apt_standard_repository: at the end, and only if it is not there.
AddRepository ==
    /\ ~\E i \in DOMAIN repos : repos[i].id = 3
    /\ Event
    /\ repos' = Append(repos, [id |-> 3, on |-> TRUE])
    /\ UNCHANGED <<network, undone, req, missed, cert, quiet, kept>>

\* The file is edited on the node: those who look at the list look at an old one.
EditedOnNode(i) ==
    /\ i \in DOMAIN repos /\ Event
    /\ repos' = RemoveAt(repos, i)
    /\ req' = [q \in Requests |-> IF req[q].of = "repos" THEN [req[q] EXCEPT !.unread = TRUE] ELSE req[q]]
    /\ UNCHANGED <<network, undone, missed, cert, quiet, kept>>

-----------------------------------------------------------------------------
(* The certificate.                                                        *)
Served(stored, restart) ==
    /\ cert' = [stored |-> stored, served |-> IF restart THEN stored ELSE cert.served]
    /\ quiet' = ~restart

\* Mutant: restart is left to its default, which Proxmox has at no.
MutUpload(force, restart) ==
    /\ force \/ cert.stored = None
    /\ Event
    /\ cert' = [cert EXCEPT !.stored = Edit] /\ quiet' = ~restart
    /\ kept' = (kept \/ (cert.stored # None /\ ~force))
    /\ UNCHANGED <<network, undone, req, repos, missed>>
\* upload_node_certificate: Proxmox replaces one only by force, the default.
Upload(force, restart) ==
    /\ force \/ cert.stored = None
    /\ Event /\ Served(Edit, restart)
    /\ kept' = (kept \/ (cert.stored # None /\ ~force))
    /\ UNCHANGED <<network, undone, req, repos, missed>>

\* delete_node_certificate
DeleteCertificate(restart) ==
    /\ cert.stored # None
    /\ Event /\ Served(None, restart)
    /\ UNCHANGED <<network, undone, req, repos, missed, kept>>

\* node_service_action, of the service that serves it.
RestartProxy ==
    /\ Event
    /\ cert' = [cert EXCEPT !.served = cert.stored]
    /\ UNCHANGED <<network, undone, req, repos, missed, quiet, kept>>

-----------------------------------------------------------------------------
Next ==
    \/ \E q \in Requests :
          \/ ReadHosts(q) \/ ReadDns(q) \/ ReadTime(q) \/ ReadZones(q) \/ ReadVnets(q) \/ ReadInterfaces(q)
          \/ SetNodeHosts(q) \/ SetNodeDns(q) \/ SetNodeTimezone(q)
          \/ UpdateZone(q) \/ UpdateVnet(q) \/ UpdateInterface(q)
          \/ Refused(q) \/ ReadRepositories(q)
          \/ \E i \in 1..3 : SetRepository(q, i)
    \/ CreateZone \/ CreateVnet \/ CreateInterface \/ DeleteZone \/ DeleteVnet \/ DeleteInterface
    \/ ApplySdn \/ ApplyInterfaces \/ \E k \in Networks : TaskEnds(k)
    \/ Revert
    \/ NodePower
    \/ AddRepository
    \/ \E i \in 1..3 : EditedOnNode(i)
    \/ \E restart \in BOOLEAN : DeleteCertificate(restart) \/ \E force \in BOOLEAN : Upload(force, restart)
    \/ RestartProxy

Spec == Init /\ [][Next]_vars

-----------------------------------------------------------------------------
TypeOK ==
    /\ DOMAIN conf = Settings /\ DOMAIN live = Staged
    /\ \A s \in Staged : live[s].edits \subseteq 1..MaxEvents
    /\ tasks \subseteq Networks
    /\ \A q \in Requests : req[q].of \in Settings \union {"none", "repos"}
    /\ events \in 0..MaxEvents

\* A text of the hosts file takes back the edit of another administrator only
\* if the file could not be read, when the form was filled or since.
EditsKept == \A u \in undone : u.of = "hosts" => u.unread

\* Every edit the network runs was staged when somebody asked for it to be put
\* in force, or before that was done; taking back what waits puts nothing in force.
InForceAsked == \A s \in Staged : live[s].edits \subseteq due

\* The repository that is switched is the one that was meant, unless the file
\* was edited on the node meanwhile.
RepositoryMeant == \A m \in missed : m.stale

\* The node serves another certificate than the one it has only if it was last
\* told not to restart.
CertificateServed == (cert.stored # cert.served => quiet) /\ ~kept

\* Taken together.
SettingsKept == EditsKept /\ InForceAsked /\ RepositoryMeant /\ CertificateServed
=============================================================================
