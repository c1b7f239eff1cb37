------------------------------ MODULE Clusters ------------------------------
(***************************************************************************)
(* Clusters of Proxmox VE nodes: the panel creates them, empties nodes and *)
(* has them join, ejects them, and takes over clusters made elsewhere.     *)
(* Every server of the panel is one node.  The handlers run on the event   *)
(* loop and give it up at every call of Proxmox; only an ejection runs in  *)
(* a thread.  What Proxmox is asked for is done by a task of its own.      *)
(***************************************************************************)
EXTENDS Naturals, FiniteSets

CONSTANTS
    Servers,
    NodeName,    \* NodeName[s]: the name of the node, which need not be its own alone
    Guests,
    Requests,
    MaxEvents    \* bound: requests, and what happens outside the panel

NoCluster == "none"
Names == {"alpha", "beta"}
Nobody == "nobody"

VARIABLES
    member,      \* member[s]: the cluster the node is in
    shown,       \* shown[s]: cluster_name in the row of the server
    tasks,       \* creations and joins under way on Proxmox
    at,          \* at[g]: the node the guest is on
    req,         \* req[q]: a request under way
    saved,       \* history: saved[q]: guests with a complete backup made for it
    destroyed,   \* history: guests a preparation destroyed unsaved
    overwritten, \* history: guests on a node when it joined
    unseen,      \* history: guests no request could have seen there
    unsure,      \* history: servers about which the panel may be mistaken
    events

vars == <<member, shown, tasks, at, req, saved, destroyed, overwritten, unseen, unsure, events>>
world == <<member, tasks, at, saved, destroyed, overwritten, unseen>>

Idle == [pc |-> "idle", op |-> "create", node |-> 0, via |-> 0, name |-> NoCluster, todo |-> {}]
Ops == {"create", "prepare", "join", "import", "eject"}

Init ==
    /\ member = [s \in Servers |-> NoCluster] /\ shown = [s \in Servers |-> NoCluster]
    /\ tasks = {}
    /\ at \in [Guests -> Servers]
    /\ req = [q \in Requests |-> Idle]
    /\ saved = [q \in Requests |-> {}]
    /\ destroyed = {} /\ overwritten = {} /\ unseen = {} /\ unsure = {} /\ events = 0

-----------------------------------------------------------------------------
Nowhere == 0
On(s) == {g \in Guests : at[g] = s}
Members(s) == IF member[s] = NoCluster THEN {s} ELSE {t \in Servers : member[t] = member[s]}
At(q, op, pc) == req[q].op = op /\ req[q].pc = pc
Set(q, changes) == req' = [req EXCEPT ![q] = changes]
GoTo(q, pc) == req' = [req EXCEPT ![q].pc = pc]
Answer(q) == Set(q, Idle)
Event == events < MaxEvents /\ events' = events + 1
Begin(q, r) == req[q].pc = "idle" /\ Event /\ Set(q, r)

\* The lists of guests leave out what Proxmox does not answer about.
Listed(s, seen) == seen \subseteq On(s)

(* Creating a cluster.                                                     *)
\* The row says the server is in none.
Create(q) ==
    /\ \E s \in Servers, c \in Names :
          /\ shown[s] = NoCluster
          /\ Begin(q, [Idle EXCEPT !.pc = "ask", !.node = s, !.name = c])
    /\ UNCHANGED <<world, shown, unsure>>

\* Nor is it in one on Proxmox; then Proxmox is told, and refuses what it knows better.
PostCreate(q) ==
    /\ At(q, "create", "ask")
    /\ LET s == req[q].node IN
       \/ Answer(q) /\ UNCHANGED tasks
       \/ /\ member[s] = NoCluster /\ \A k \in tasks : k.node # s
          /\ tasks' = tasks \union {[node |-> s, via |-> s, name |-> req[q].name]}
          /\ GoTo(q, "commit")
    /\ UNCHANGED <<member, shown, at, saved, destroyed, overwritten, unseen, unsure, events>>

\* The row has the name before the task has ended.
CommitCreate(q) ==
    /\ At(q, "create", "commit") /\ Answer(q)
    /\ shown' = [shown EXCEPT ![req[q].node] = req[q].name]
    /\ UNCHANGED <<world, unsure, events>>

(* Emptying a node.                                                        *)
\* The first node Proxmox names is taken for the server: of a cluster it may
\* be any.  Guests that are not listed are none.
Prepare(q) ==
    /\ \E s \in Servers : \E n \in Members(s) : \E seen \in SUBSET Guests :
          /\ Listed(n, seen)
          /\ Begin(q, [Idle EXCEPT !.op = "prepare", !.pc = IF seen = {} THEN "idle" ELSE "backup",
                                   !.node = s, !.via = n, !.todo = seen])
          /\ saved' = [saved EXCEPT ![q] = {}]
    /\ UNCHANGED <<member, shown, tasks, at, destroyed, overwritten, unseen, unsure>>

\* Of the backups some are complete in time.
Backups(q) ==
    /\ At(q, "prepare", "backup") /\ GoTo(q, "delete")
    /\ \E done \in SUBSET (req[q].todo \intersect On(req[q].via)) : saved' = [saved EXCEPT ![q] = done]
    /\ UNCHANGED <<member, shown, tasks, at, destroyed, overwritten, unseen, unsure, events>>

Removed(q, g) ==
    /\ at' = [at EXCEPT ![g] = Nowhere]
    /\ destroyed' = destroyed \union ({g} \ saved[q])
    /\ req' = [req EXCEPT ![q].todo = @ \ {g}]

\* Mutant: guests without a backup go as well.
MutDelete(q) ==
    /\ At(q, "prepare", "delete")
    /\ \/ \E g \in req[q].todo : at[g] = req[q].via /\ Removed(q, g)
       \/ Answer(q) /\ UNCHANGED <<at, destroyed>>
    /\ UNCHANGED <<member, shown, tasks, saved, overwritten, unseen, unsure, events>>

\* What has a backup is stopped and deleted; an error passes to the next.
Delete(q) ==
    /\ At(q, "prepare", "delete")
    /\ \/ \E g \in req[q].todo \intersect saved[q] : at[g] = req[q].via /\ Removed(q, g)
       \/ Answer(q) /\ UNCHANGED <<at, destroyed>>
    /\ UNCHANGED <<member, shown, tasks, saved, overwritten, unseen, unsure, events>>

(* Joining.                                                                *)
\* The server to join by must be in a cluster, by its row.
Join(q) ==
    /\ \E s, v \in Servers :
          /\ s # v /\ shown[v] # NoCluster
          /\ Begin(q, [Idle EXCEPT !.op = "join", !.pc = "list", !.node = s, !.via = v, !.name = shown[v]])
    /\ UNCHANGED <<world, shown, unsure>>

\* Nothing may be listed on the node, again the first that is named.  A list
\* that could not be got is empty.
ListGuests(q) ==
    /\ At(q, "join", "list")
    /\ LET s == req[q].node IN
       \E n \in Members(s) :
          \/ On(n) # {} /\ Answer(q) /\ UNCHANGED unseen
          \/ Set(q, [req[q] EXCEPT !.pc = "info", !.todo = {n}]) /\ unseen' = unseen \union On(s)
    /\ UNCHANGED <<member, shown, tasks, at, saved, destroyed, overwritten, unsure, events>>

\* The name Proxmox tells is the one that counts.
JoinInfo(q) ==
    /\ At(q, "join", "info")
    /\ LET c == member[req[q].via] IN
       \/ Answer(q)
       \/ c # NoCluster /\ Set(q, [req[q] EXCEPT !.pc = "post", !.name = c])
    /\ UNCHANGED <<world, shown, unsure, events>>

PostJoin(q) ==
    /\ At(q, "join", "post")
    /\ LET r == req[q] IN
       \/ Answer(q) /\ UNCHANGED tasks
       \/ /\ tasks' = tasks \union {[node |-> r.node, via |-> r.via, name |-> r.name]}
          /\ GoTo(q, "confirm")
    /\ UNCHANGED <<member, shown, at, saved, destroyed, overwritten, unseen, unsure, events>>

\* Mutant: the row is written whether or not the node is there.
MutConfirm(q) ==
    /\ At(q, "join", "confirm") /\ GoTo(q, "commit")
    /\ UNCHANGED <<world, shown, unsure, events>>

\* For forty seconds the cluster is asked for its nodes, by name.
Confirm(q) ==
    /\ At(q, "join", "confirm")
    /\ LET s == req[q].node IN
       \/ Answer(q) /\ UNCHANGED unsure
       \/ \E t \in Members(req[q].via), n \in req[q].todo :
             /\ NodeName[t] = NodeName[n] /\ GoTo(q, "commit")
             /\ unsure' = IF t = s /\ member[s] = req[q].name THEN unsure ELSE unsure \union {s}
    /\ UNCHANGED <<world, shown, events>>

CommitJoin(q) ==
    /\ At(q, "join", "commit") /\ Answer(q)
    /\ shown' = [shown EXCEPT ![req[q].node] = req[q].name]
    /\ UNCHANGED <<world, unsure, events>>

(* Taking over a cluster, and ejecting a node.                             *)
\* The cluster is asked for its nodes; rows that have no cluster get this one.
Import(q) ==
    /\ \E s \in Servers :
          /\ member[s] # NoCluster
          /\ Begin(q, [Idle EXCEPT !.op = "import", !.pc = "link", !.node = s, !.name = member[s],
                                   !.todo = Members(s)])
    /\ UNCHANGED <<world, shown, unsure>>

\* Found by address or by name.
Link(q) ==
    /\ At(q, "import", "link") /\ Answer(q)
    /\ LET r == req[q]
           found == {s \in Servers : s \in r.todo \/ NodeName[s] \in {NodeName[t] : t \in r.todo}} IN
       \E chosen \in SUBSET {s \in found : shown[s] = NoCluster} :
          /\ shown' = [s \in Servers |-> IF s \in chosen THEN r.name ELSE shown[s]]
          /\ unsure' = unsure \union {s \in chosen : member[s] # r.name}
    /\ UNCHANGED <<world, events>>

\* By the name of the node, in a thread; the row of the server that stays is read first.
Eject(q) ==
    /\ \E s, v \in Servers :
          Begin(q, [Idle EXCEPT !.op = "eject", !.pc = "remove", !.node = s, !.via = v, !.name = shown[v]])
    /\ UNCHANGED <<world, shown, unsure>>

\* Proxmox removes the node, over its API or over SSH; a node that is not
\* known is as good as removed.  Or the panel alone is told.
RemoveNode(q) ==
    /\ At(q, "eject", "remove")
    /\ LET r == req[q] IN
       \/ Answer(q) /\ UNCHANGED <<member, unsure>>
       \/ /\ GoTo(q, "clear") /\ UNCHANGED <<member, unsure>>
       \/ /\ member[r.node] # NoCluster /\ member[r.node] = member[r.via] /\ r.node # r.via
          /\ member' = [member EXCEPT ![r.node] = NoCluster]
          \* Without clear_panel_entry, or with another name in its row, it stays shown.
          /\ \/ GoTo(q, "clear") \/ Answer(q)
          /\ unsure' = unsure \union {r.node}
    /\ UNCHANGED <<shown, tasks, at, saved, destroyed, overwritten, unseen, events>>

\* The first row with the name of the node that shows the same cluster.
ClearRow(q) ==
    /\ At(q, "eject", "clear") /\ Answer(q)
    /\ LET r == req[q]
           rows == {s \in Servers : NodeName[s] = NodeName[r.node] /\ shown[s] = r.name} IN
       \/ rows = {} /\ UNCHANGED <<shown, unsure>>
       \/ \E s \in rows :
             /\ shown' = [shown EXCEPT ![s] = NoCluster]
             /\ unsure' = IF \E p \in Requests \ {q} : req[p].pc # "idle" /\ req[p].node = s
                          THEN unsure ELSE unsure \ {s}
    /\ UNCHANGED <<world, events>>

-----------------------------------------------------------------------------
(* Proxmox.                                                                *)
\* A creation or a join succeeds or fails.  A join overwrites what the node
\* has; a name that is taken in the cluster is refused.
TaskEnds ==
    /\ \E k \in tasks :
          /\ tasks' = tasks \ {k}
          /\ \/ /\ member[k.node] = NoCluster
                /\ k.via # k.node => /\ member[k.via] = k.name
                                     /\ \A t \in Members(k.via) : NodeName[t] # NodeName[k.node]
                /\ member' = [member EXCEPT ![k.node] = k.name]
                /\ overwritten' = IF k.via = k.node THEN overwritten ELSE overwritten \union On(k.node)
                /\ at' = [g \in Guests |-> IF k.via # k.node /\ at[g] = k.node THEN Nowhere ELSE at[g]]
                /\ UNCHANGED unsure
             \/ /\ UNCHANGED <<member, overwritten, at>>
                /\ unsure' = IF k.via = k.node THEN unsure \union {k.node} ELSE unsure
    /\ UNCHANGED <<shown, req, saved, destroyed, unseen, events>>

\* A guest is created while a node is being joined.
GuestAppears ==
    /\ Event
    /\ \E g \in Guests, s \in Servers :
          /\ at[g] = Nowhere /\ at' = [at EXCEPT ![g] = s]
          /\ unseen' = IF \/ \E q \in Requests : req[q].op = "join" /\ req[q].node = s
                          \/ \E k \in tasks : k.node = s
                       THEN unseen \union {g} ELSE unseen
          /\ overwritten' = overwritten \ {g} /\ destroyed' = destroyed \ {g}
    /\ UNCHANGED <<member, shown, tasks, req, saved, unsure>>

\* A cluster is made, joined or left without the panel.
Outside ==
    /\ Event
    /\ \E s \in Servers, c \in Names \union {NoCluster} :
          member[s] # c /\ member' = [member EXCEPT ![s] = c] /\ unsure' = unsure \union {s}
    /\ UNCHANGED <<shown, tasks, at, req, saved, destroyed, overwritten, unseen>>

Next ==
    \/ \E q \in Requests :
          \/ Create(q) \/ PostCreate(q) \/ CommitCreate(q) \/ Prepare(q) \/ Backups(q) \/ Delete(q)
          \/ Join(q) \/ ListGuests(q) \/ JoinInfo(q) \/ PostJoin(q) \/ Confirm(q) \/ CommitJoin(q)
          \/ Import(q) \/ Link(q) \/ Eject(q) \/ RemoveNode(q) \/ ClearRow(q)
    \/ TaskEnds \/ GuestAppears \/ Outside

Spec == Init /\ [][Next]_vars

-----------------------------------------------------------------------------
Clustered == Names \union {NoCluster}

TypeOK ==
    /\ member \in [Servers -> Clustered] /\ shown \in [Servers -> Clustered]
    /\ tasks \subseteq [node : Servers, via : Servers, name : Names]
    /\ at \in [Guests -> Servers \union {Nowhere}]
    /\ \A q \in Requests : /\ req[q].op \in Ops /\ req[q].node \in Servers \union {0}
                           /\ req[q].via \in Servers \union {0} /\ req[q].name \in Clustered
    /\ saved \in [Requests -> SUBSET Guests] /\ destroyed \subseteq Guests
    /\ overwritten \subseteq Guests /\ unseen \subseteq Guests /\ unsure \subseteq Servers
    /\ events \in 0..MaxEvents

\* No guest goes without a backup when a node is emptied, and none is on a
\* node that joins, but one Proxmox did not list or that was created since.
GuestsKept == destroyed = {} /\ overwritten \subseteq unseen

\* A server that is shown in a cluster is in it or on its way there, however
\* requests cross, unless that was changed outside the panel, a creation failed,
\* a name was taken for another node's, or its ejection has not come to the row.
MembershipTrue ==
    \A s \in Servers \ unsure : shown[s] # NoCluster =>
        \/ member[s] = shown[s]
        \/ \E k \in tasks : k.node = s /\ k.name = shown[s]
=============================================================================
