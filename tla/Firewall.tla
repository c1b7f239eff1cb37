------------------------------- MODULE Firewall -------------------------------
(***************************************************************************)
(* The firewall of Proxmox VE edited by several administrators at once:    *)
(* lists of rules, whose rules are named by their position, and tables of  *)
(* groups, IP sets and aliases, named by their name.  An administrator     *)
(* reads a list and then sends changes; between the two others may change  *)
(* it, and the panel keeps nothing of it itself.                           *)
(***************************************************************************)
EXTENDS Naturals, Sequences, SequencesExt

CONSTANTS
    Requests,    \* administrators
    NNames,      \* names in use in a table
    MaxItems,    \* bound: rules and names ever made
    MaxCalls     \* bound: changes sent

Lists == {"datacenter", "group", "node", "qemu", "lxc"}
Tables == {"groups", "ipsets", "entries", "aliases"}
Scopes == Lists \union Tables
None == 0
\* The security group the list "group" is of, and the IP set of the entries.
TheOne == 1

VARIABLES
    items,       \* items[s]: of a list its rules in order, of a table what each name stands for
    made,        \* items so far
    req,         \* req[q]: what administrator q looks at and has sent
    hits,        \* history: the item a change was meant for, and the one it reached
    calls

vars == <<items, made, req, hits, calls>>

NoRequest == [pc |-> "idle", scope |-> "node", seen |-> <<>>, op |-> "add", key |-> 1, to |-> 1,
              digest |-> FALSE, overtaken |-> FALSE]

Init ==
    /\ items = [s \in Scopes |-> IF s \in Lists THEN <<>> ELSE [n \in 1..NNames |-> None]]
    /\ made = 0
    /\ req = [q \in Requests |-> NoRequest]
    /\ hits = {} /\ calls = 0

-----------------------------------------------------------------------------
At(q, pc) == req[q].pc = pc
Proxmox == <<items, made, hits>>

\* A list that cannot be read is shown as an empty one.
Read(q, s) ==
    /\ ~At(q, "sent")
    /\ \E seen \in {items[s], <<>>} :
          req' = [req EXCEPT ![q] = [NoRequest EXCEPT !.pc = "viewing", !.scope = s, !.seen = seen]]
    /\ UNCHANGED <<Proxmox, calls>>

\* The handler has its client and hands the call over to a thread.  Only the
\* data of an update can have a digest.
Send(q, s, ops) ==
    /\ At(q, "viewing") /\ req[q].scope = s /\ calls < MaxCalls
    /\ \E op \in ops, key, to \in 1..MaxItems, digest \in BOOLEAN :
          /\ op = "add" /\ s \in Lists => key = 1
          /\ op # "add" => key \in DOMAIN req[q].seen /\ req[q].seen[key] # None
          /\ op # "move" => to = 1
          /\ digest => op \in {"edit", "move"}
          /\ req' = [req EXCEPT ![q].pc = "sent", ![q].op = op, ![q].key = key, ![q].to = to,
                                ![q].digest = digest]
    /\ calls' = calls + 1
    /\ UNCHANGED Proxmox

RuleOps == {"add", "edit", "move", "remove"}
DatacenterRules(q) == Read(q, "datacenter") \/ Send(q, "datacenter", RuleOps)
GroupRules(q) == Read(q, "group") \/ Send(q, "group", RuleOps)
NodeRules(q) == Read(q, "node") \/ Send(q, "node", RuleOps)
GuestRules(q) == \E s \in {"qemu", "lxc"} : Read(q, s) \/ Send(q, s, RuleOps)
Groups(q) == Read(q, "groups") \/ Send(q, "groups", {"add", "remove"})
IpSets(q) == Read(q, "ipsets") \/ Send(q, "ipsets", {"add", "remove"})
Entries(q) == Read(q, "entries") \/ Send(q, "entries", {"add", "remove"})
Aliases(q) == Read(q, "aliases") \/ Send(q, "aliases", RuleOps)

\* No such server, or no connection to it.
Unavailable(q) ==
    /\ At(q, "sent") /\ req' = [req EXCEPT ![q].pc = "viewing"]
    /\ UNCHANGED <<Proxmox, calls>>

-----------------------------------------------------------------------------
(* The call in its thread, and what Proxmox does with it.                  *)

Reached(s, key) == key \in DOMAIN items[s] /\ items[s][key] # None
Reordered(c, from, to) == InsertAt(RemoveAt(c, from), to, c[from])

After(s, r) ==
    LET c == items[s] IN
    CASE r.op = "edit" -> c
      [] r.op = "add" -> IF s \in Lists THEN <<made + 1>> \o c ELSE [c EXCEPT ![r.key] = made + 1]
      [] r.op = "remove" -> IF s \in Lists THEN RemoveAt(c, r.key) ELSE [c EXCEPT ![r.key] = None]
      [] r.op = "move" -> IF s \in Lists THEN Reordered(c, r.key, r.to)
                                         ELSE [c EXCEPT ![r.to] = c[r.key], ![r.key] = None]

Accepts(s, r) ==
    /\ r.digest => items[s] = r.seen
    /\ r.op = "add" => made < MaxItems
    /\ r.op = "add" /\ s \in Tables => r.key \in DOMAIN items[s] /\ ~Reached(s, r.key)
    /\ r.op # "add" => Reached(s, r.key)
    /\ r.op = "move" => r.to \in DOMAIN items[s] /\ (s \in Tables => ~Reached(s, r.to))

\* Everybody who looks at a list that is put in another order holds an old
\* one then, the author too until it is read again.
Change(q, s) ==
    LET r == req[q] IN
    /\ Accepts(s, r)
    /\ items' = [items EXCEPT ![s] = After(s, r)]
    /\ made' = IF r.op = "add" THEN made + 1 ELSE made
    /\ hits' = IF r.op = "add" THEN hits
               ELSE hits \union {[want |-> r.seen[r.key], got |-> items[s][r.key],
                                  overtaken |-> r.overtaken, digest |-> r.digest]}
    /\ req' = [p \in Requests |->
                 [req[p] EXCEPT !.pc = IF p = q THEN "viewing" ELSE @,
                                !.overtaken = @ \/ (r.op # "edit" /\ req[p].scope = r.scope /\ ~At(p, "idle"))]]
    /\ UNCHANGED calls

Calls(q, s) == At(q, "sent") /\ req[q].scope = s

\* Which resource of the node a guest is: "vm" and "qemu" are the same.
Resource(s) == IF s \in {"vm", "qemu"} THEN "qemu" ELSE "lxc"
\* Mutant: every guest is a container.
MutResource(s) == "lxc"

CallDatacenter(q) == Calls(q, "datacenter") /\ Change(q, "datacenter")
CallNode(q) == Calls(q, "node") /\ Change(q, "node")
CallGuest(q) == \E s \in {"qemu", "lxc"} : Calls(q, s) /\ Change(q, Resource(s))
\* The list of a group is there while the group is.
CallGroup(q) == Calls(q, "group") /\ items["groups"][TheOne] # None /\ Change(q, "group")
\* Only an empty group, and an empty set, can be deleted.
CallGroups(q) ==
    /\ Calls(q, "groups")
    /\ req[q].op = "remove" /\ req[q].key = TheOne => items["group"] = <<>>
    /\ Change(q, "groups")
CallIpSets(q) ==
    /\ Calls(q, "ipsets")
    /\ req[q].op = "remove" /\ req[q].key = TheOne => ~\E n \in 1..NNames : Reached("entries", n)
    /\ Change(q, "ipsets")
CallEntries(q) == Calls(q, "entries") /\ items["ipsets"][TheOne] # None /\ Change(q, "entries")
CallAliases(q) == Calls(q, "aliases") /\ Change(q, "aliases")

\* Proxmox refuses or cannot be reached; the handler answers 400.
Fails(q) ==
    /\ At(q, "sent") /\ req' = [req EXCEPT ![q].pc = "viewing"]
    /\ UNCHANGED <<Proxmox, calls>>

-----------------------------------------------------------------------------
Next ==
    \E q \in Requests :
       \/ DatacenterRules(q) \/ GroupRules(q) \/ NodeRules(q) \/ GuestRules(q)
       \/ Groups(q) \/ IpSets(q) \/ Entries(q) \/ Aliases(q)
       \/ CallDatacenter(q) \/ CallGroup(q) \/ CallNode(q) \/ CallGuest(q)
       \/ CallGroups(q) \/ CallIpSets(q) \/ CallEntries(q) \/ CallAliases(q)
       \/ Unavailable(q) \/ Fails(q)

Spec == Init /\ [][Next]_vars

-----------------------------------------------------------------------------
TypeOK ==
    /\ \A s \in Lists : items[s] \in Seq(1..MaxItems)
    /\ \A s \in Tables : items[s] \in [1..NNames -> 0..MaxItems]
    /\ made \in 0..MaxItems /\ calls \in 0..MaxCalls
    /\ \A q \in Requests : req[q].scope \in Scopes /\ req[q].pc \in {"idle", "viewing", "sent"}

\* A change reaches another rule than the one that was pointed at, or another
\* thing of that name, only if the list was put in another order after it was
\* read and the change went without its digest.
RightOneReached == \A h \in hits : h.got # h.want => h.overtaken /\ ~h.digest
=============================================================================
