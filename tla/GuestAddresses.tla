--------------------------- MODULE GuestAddresses ---------------------------
(***************************************************************************)
(* The additional (alias) addresses of one interface of one container.     *)
(* IPAM holds the wanted list; every request that adds, re-applies or      *)
(* removes an address reads that list, uploads sync_aliases.sh with it     *)
(* into the container, runs it there and writes the outcome to every row   *)
(* it read.  Requests overlap, and so do the scripts they run: a request   *)
(* that times out leaves its script running.                               *)
(***************************************************************************)
EXTENDS Naturals, FiniteSets

CONSTANTS
    NAddrs,       \* number of addresses
    Threads,      \* request threads
    Stacks,       \* what may keep addresses over a reboot in the container
    MaxEvents,    \* bound: requests, and whatever else happens
    MaxOthers     \* bound: the latter alone

Addrs == 1..NAddrs

ASSUME SizesAssumption == NAddrs \in Nat /\ MaxEvents \in Nat /\ MaxOthers \in Nat
\* A configuration file of the panel's own, NetworkManager, the systemd unit.
ASSUME StacksAssumption == Stacks \subseteq SUBSET {"file", "nm", "systemd"}

VARIABLES
    rows,         \* alias allocations of the interface
    lastId,       \* their sequence
    thr,          \* thr[t]: the request thread t serves and what it has read
    stack,        \* what keeps addresses over a reboot in this container
    live,         \* addresses on the interface
    state,        \* the script's state file, aliases.$IFACE
    conf,         \* the addresses in the OS configuration
    file,         \* /tmp/pve_script_<vmid>.sh: {} or a set of one push
    proc,         \* proc[t]: the script process that t started last
    hand,         \* addresses the guest's administrator configured
    managed,      \* history: addresses that have been in IPAM
    lost,         \* history: addresses that fell out of the state file
    events, others

guest == <<live, state, conf, file, proc>>
vars == <<rows, lastId, thr, stack, guest, hand, managed, lost, events, others>>

Statuses == {"none", "pending", "applied", "runtime_only", "failed"}
Row == [id : 1..MaxEvents, ip : Addrs, status : Statuses]

\* A push is the address list sent to the guest; asof is the last identifier
\* when it was read.
Push == [ips : SUBSET Addrs, asof : 0..MaxEvents]
NoPush == [ips |-> {}, asof |-> 0]

ThreadPcs == {"idle", "read", "upload", "exec", "wait", "cleanup", "finish"}
Request == [pc : ThreadPcs, seen : SUBSET Row, push : Push, result : Statuses, alone : BOOLEAN]
Idle == [pc |-> "idle", seen |-> {}, push |-> NoPush, result |-> "none", alone |-> FALSE]

RunningPcs == {"clear", "add", "write", "persist"}
Script == [pc : RunningPcs \union {"exit0", "exit1", "killed"}, push : Push,
           prev : SUBSET Addrs, todo : SUBSET Addrs, added : SUBSET Addrs]
NoScript == [pc |-> "exit0", push |-> NoPush, prev |-> {}, todo |-> {}, added |-> {}]

Init ==
    /\ rows = {} /\ lastId = 0 /\ thr = [t \in Threads |-> Idle]
    /\ stack \in Stacks
    /\ live = {} /\ state = {} /\ conf = {} /\ file = {}
    /\ proc = [t \in Threads |-> NoScript]
    /\ hand = {} /\ managed = {} /\ lost = {}
    /\ events = 0 /\ others = 0

-----------------------------------------------------------------------------
Wanted == {r.ip : r \in rows}
Running(t) == proc[t].pc \in RunningPcs
Idles(t) == thr[t].pc = "idle"
\* The script of t is over; nobody learns how when t waits no more.
Ended(t, how) ==
    IF thr[t].pc = "wait" THEN [NoScript EXCEPT !.pc = how, !.push = proc[t].push] ELSE NoScript

GoOn(t, changes) == thr' = [thr EXCEPT ![t] = changes]

\* No request sees another one as long as it is alone.
Disturbed == [u \in Threads |-> [thr[u] EXCEPT !.alone = FALSE]]

-----------------------------------------------------------------------------
(* Requests: what they change in IPAM before they push.                    *)

Count == events < MaxEvents /\ events' = events + 1

Begin(t) ==
    /\ Idles(t) /\ Count
    /\ thr' = [Disturbed EXCEPT ![t] =
                 [Idle EXCEPT !.pc = "read",
                              !.alone = \A u \in Threads : Idles(u) /\ ~Running(u)]]
    /\ UNCHANGED <<stack, guest, hand, lost, others>>

\* Mutant: an identifier is used again.
MutInsert(a, status) ==
    /\ a \notin Wanted /\ UNCHANGED lastId
    /\ rows' = rows \union {[id |-> lastId + 1, ip |-> a, status |-> status]}
    /\ managed' = managed \union {a}

Insert(a, status) ==
    /\ a \notin Wanted /\ lastId' = lastId + 1
    /\ rows' = rows \union {[id |-> lastId + 1, ip |-> a, status |-> status]}
    /\ managed' = managed \union {a}

\* add_guest_address
AddAddress(t, a) == Begin(t) /\ Insert(a, "pending")

\* apply_guest_address
ApplyAddress(t) == Begin(t) /\ rows # {} /\ UNCHANGED <<rows, lastId, managed>>

\* remove_guest_address
RemoveAddress(t, r) == Begin(t) /\ rows' = rows \ {r} /\ UNCHANGED <<lastId, managed>>

-----------------------------------------------------------------------------
(* sync_interface and run_on_lxc.                                          *)

NotIpam == UNCHANGED <<rows, lastId, stack, hand, managed, events, others>>

\* Mutant: the list leaves out addresses that were applied before.
MutReadRows(t) ==
    /\ thr[t].pc = "read"
    /\ LET push == [ips |-> {r.ip : r \in {s \in rows : s.status # "applied"}}, asof |-> lastId]
       IN  GoOn(t, [thr[t] EXCEPT !.pc = "upload", !.seen = rows, !.push = push])
    /\ NotIpam /\ UNCHANGED <<guest, lost>>

\* alias_allocations; nothing is sent to a guest that is not in the cache or
\* whose server or node is unknown, nor an address of a network without prefix.
ReadRows(t) ==
    /\ thr[t].pc = "read"
    /\ \/ GoOn(t, [thr[t] EXCEPT !.pc = "upload", !.seen = rows,
                                 !.push = [ips |-> Wanted, asof |-> lastId]])
       \/ \E result \in {"pending", "failed"} :
             GoOn(t, [thr[t] EXCEPT !.pc = "finish", !.seen = rows, !.result = result])
    /\ NotIpam /\ UNCHANGED <<guest, lost>>

\* pct push writes one path for all requests to the container.  Without a
\* connection to the node nothing is cleaned up either.
Upload(t) ==
    /\ thr[t].pc = "upload"
    /\ \/ GoOn(t, [thr[t] EXCEPT !.pc = "exec", !.push = NoPush]) /\ file' = {thr[t].push}
       \/ \E next \in {"cleanup", "finish"} :
             GoOn(t, [thr[t] EXCEPT !.pc = next, !.push = NoPush, !.result = "pending"]) /\ UNCHANGED file
    /\ NotIpam /\ UNCHANGED <<live, state, conf, proc, lost>>

\* pct exec runs whatever is at that path now; sh reads it at once.
Exec(t) ==
    /\ thr[t].pc = "exec" /\ ~Running(t)
    /\ \/ \E push \in file :
             /\ proc' = [proc EXCEPT ![t] = [NoScript EXCEPT !.pc = "clear", !.push = push]]
             /\ GoOn(t, [thr[t] EXCEPT !.pc = "wait"])
       \/ /\ file = {} /\ UNCHANGED proc
          /\ GoOn(t, [thr[t] EXCEPT !.pc = "cleanup", !.result = "failed"])
       \/ GoOn(t, [thr[t] EXCEPT !.pc = "cleanup", !.result = "pending"]) /\ UNCHANGED proc
    /\ NotIpam /\ UNCHANGED <<live, state, conf, file, lost>>

\* What PVEMANAGER_PERSIST says: the systemd unit is only kept for a list that
\* is not empty.
Persisted(push) ==
    \/ stack \intersect {"file", "nm"} # {}
    \/ "systemd" \in stack /\ push.ips # {}

Outcomes(p) ==
    CASE p.pc = "exit0"  -> {IF Persisted(p.push) THEN "applied" ELSE "runtime_only"}
      [] p.pc = "exit1"  -> {"failed"}
      [] p.pc = "killed" -> {"failed", "pending"}
      [] OTHER           -> {"pending"}   \* the 60 seconds are over

Collect(t) ==
    /\ thr[t].pc = "wait"
    /\ \E result \in Outcomes(proc[t]) :
          GoOn(t, [thr[t] EXCEPT !.pc = "cleanup", !.result = result])
    /\ proc' = [proc EXCEPT ![t] = IF Running(t) THEN @ ELSE NoScript]
    /\ NotIpam /\ UNCHANGED <<live, state, conf, file, lost>>

\* The script is removed, if that works.
Cleanup(t) ==
    /\ thr[t].pc = "cleanup"
    /\ GoOn(t, [thr[t] EXCEPT !.pc = "finish"])
    /\ file' \in {file, {}}
    /\ NotIpam /\ UNCHANGED <<live, state, conf, proc, lost>>

Success(result) == result \in {"applied", "runtime_only"}

\* _finish writes the outcome to the rows read; applied_at makes a success
\* differ always.  A row to be written that is gone fails the commit; so may
\* one whose error text alone differs.
Finish(t) ==
    LET me == thr[t]
        gone == {r \in me.seen : r.id \notin {s.id : s \in rows}}
        written == {r \in me.seen : Success(me.result) \/ r.status # me.result}
    IN  /\ me.pc = "finish"
        /\ \/ /\ gone \intersect written = {}
              /\ rows' = {IF r.id \in {w.id : w \in written}
                          THEN [r EXCEPT !.status = me.result] ELSE r : r \in rows}
           \/ gone # {} /\ UNCHANGED rows
        /\ GoOn(t, Idle)
        /\ UNCHANGED <<lastId, stack, guest, hand, managed, lost, events, others>>

-----------------------------------------------------------------------------
(* sync_aliases.sh, run by the process that t started.                     *)

InScript(t, where) == proc[t].pc = where
ScriptGoes(t, changes) == proc' = [proc EXCEPT ![t] = changes]
NotScript == UNCHANGED <<rows, lastId, thr, stack, file, hand, managed, events, others>>

\* Mutants: what is no longer wanted stays; what is not wanted goes, whoever
\* made it.
MutClearKeeps(t) ==
    /\ InScript(t, "clear")
    /\ ScriptGoes(t, [proc[t] EXCEPT !.pc = "add", !.prev = state, !.todo = proc[t].push.ips])
    /\ NotScript /\ UNCHANGED <<live, state, conf, lost>>
MutClearAll(t) ==
    /\ InScript(t, "clear")
    /\ live' = live \intersect proc[t].push.ips
    /\ ScriptGoes(t, [proc[t] EXCEPT !.pc = "add", !.prev = state, !.todo = proc[t].push.ips])
    /\ NotScript /\ UNCHANGED <<state, conf, lost>>

\* Addresses of the state file that are not in the list are taken down.
Clear(t) ==
    /\ InScript(t, "clear")
    /\ live' = live \ (state \ proc[t].push.ips)
    /\ ScriptGoes(t, [proc[t] EXCEPT !.pc = "add", !.prev = state, !.todo = proc[t].push.ips])
    /\ NotScript /\ UNCHANGED <<state, conf, lost>>

\* The next address of the list is brought up unless it is there.  When that
\* fails the script ends, and the state file does not tell what it has done.
AddNext(t) ==
    LET p == proc[t] IN
    /\ InScript(t, "add")
    /\ \/ /\ p.todo = {} /\ ScriptGoes(t, [p EXCEPT !.pc = "write"])
          /\ UNCHANGED <<live, lost>>
       \/ \E a \in p.todo :
            /\ \A b \in p.todo : a <= b
            /\ \/ /\ a \in live /\ ScriptGoes(t, [p EXCEPT !.todo = @ \ {a}])
                  /\ UNCHANGED <<live, lost>>
               \/ /\ a \notin live /\ live' = live \union {a} /\ UNCHANGED lost
                  /\ ScriptGoes(t, [p EXCEPT !.todo = @ \ {a}, !.added = @ \union {a}])
               \/ /\ a \notin live /\ UNCHANGED live /\ lost' = lost \union (p.added \ state)
                  /\ ScriptGoes(t, Ended(t, "exit1"))
    /\ NotScript /\ UNCHANGED <<state, conf>>

\* The state file is replaced, with what other scripts recorded in it since
\* this one read it, or brought up again after this one took it down.
WriteState(t) ==
    LET p == proc[t]
        again == IF thr[t].alone THEN {} ELSE live \intersect state IN
    /\ InScript(t, "write")
    /\ state' = p.push.ips
    /\ lost' = (lost \union (state \ p.prev) \union again) \ p.push.ips
    /\ ScriptGoes(t, [p EXCEPT !.pc = "persist"])
    /\ NotScript /\ UNCHANGED <<live, conf>>

\* The OS configuration: the panel's file is written anew, and of
\* NetworkManager's addresses those of the former state file are replaced.
Persist(t) ==
    LET p == proc[t] IN
    /\ InScript(t, "persist")
    /\ conf' = CASE "file" \in stack -> p.push.ips
                 [] "nm" \in stack /\ "file" \notin stack -> (conf \ p.prev) \union p.push.ips
                 [] OTHER -> conf
    /\ ScriptGoes(t, Ended(t, "exit0"))
    /\ NotScript /\ UNCHANGED <<live, state, lost>>

-----------------------------------------------------------------------------
(* What happens besides.                                                   *)

Event ==
    /\ Count /\ others < MaxOthers /\ others' = others + 1
    /\ thr' = Disturbed /\ UNCHANGED stack

\* The container restarts, with or without Proxmox rewriting its network
\* configuration; the systemd unit puts the state file's addresses back.
Reboot ==
    /\ Event
    /\ conf' \in {conf, {}} /\ file' \in {file, {}}
    /\ live' = hand \union conf' \union (IF "systemd" \in stack THEN state ELSE {})
    /\ lost' = lost \union (conf' \ state)
    /\ proc' = [t \in Threads |-> IF Running(t) THEN Ended(t, "killed") ELSE proc[t]]
    /\ UNCHANGED <<rows, lastId, state, hand, managed>>

\* The guest's administrator configures an address, or takes one down.
HandAdds(a) ==
    /\ Event /\ a \notin live
    /\ live' = live \union {a} /\ hand' = hand \union {a}
    /\ UNCHANGED <<rows, lastId, state, conf, file, proc, managed, lost>>

HandRemoves(a) ==
    /\ Event /\ a \in live
    /\ live' = live \ {a} /\ hand' = hand \ {a}
    /\ UNCHANGED <<rows, lastId, state, conf, file, proc, managed, lost>>

\* Linking writes an address found in the guest to IPAM as an alias;
\* delete_allocation removes one there.  Neither pushes.
LinkFound(a) ==
    /\ Event /\ a \in live /\ Insert(a, "none")
    /\ UNCHANGED <<guest, hand, lost>>

DeleteAllocation(r) ==
    /\ Event /\ rows' = rows \ {r}
    /\ UNCHANGED <<lastId, guest, hand, managed, lost>>

RequestStep(t) ==
    \/ \E a \in Addrs : AddAddress(t, a)
    \/ ApplyAddress(t)
    \/ \E r \in rows : RemoveAddress(t, r)
    \/ ReadRows(t) \/ Upload(t) \/ Exec(t) \/ Collect(t) \/ Cleanup(t) \/ Finish(t)

ScriptStep(t) == Clear(t) \/ AddNext(t) \/ WriteState(t) \/ Persist(t)

Environment ==
    \/ Reboot
    \/ \E a \in Addrs : HandAdds(a) \/ HandRemoves(a) \/ LinkFound(a)
    \/ \E r \in rows : DeleteAllocation(r)

Next == Environment \/ \E t \in Threads : RequestStep(t) \/ ScriptStep(t)

Spec == Init /\ [][Next]_vars

-----------------------------------------------------------------------------
(* Properties.                                                             *)

TypeOK ==
    /\ rows \subseteq Row /\ lastId \in 0..MaxEvents
    /\ \A r \in rows : r.id <= lastId
    /\ thr \in [Threads -> Request]
    /\ stack \in Stacks
    /\ live \subseteq Addrs /\ state \subseteq Addrs /\ conf \subseteq Addrs
    /\ file \subseteq Push
    /\ proc \in [Threads -> Script]
    /\ hand \subseteq Addrs /\ managed \subseteq Addrs /\ lost \subseteq Addrs
    /\ events \in 0..MaxEvents /\ others \in 0..MaxOthers

\* The promise of a push: one that ran alone and succeeded leaves the list of
\* IPAM on the interface and in the state file, whatever went wrong before,
\* and no other address of the panel's except those that fell out of the
\* state file: brought up by a script that failed later, overwritten there by
\* an overlapping script, or by one that had taken the address down before
\* another brought it up again, or restored from an older OS configuration.
PushSettles ==
    \A t \in Threads :
        thr[t].alone /\ thr[t].pc = "finish" /\ Success(thr[t].result) =>
            /\ state = Wanted /\ Wanted \subseteq live
            /\ live \intersect managed \subseteq Wanted \union hand \union lost

\* "Anything configured inside the guest by hand stays untouched": an address
\* that was never in IPAM only leaves the interface by a reboot or by hand.
HandMadeStays == [][\A a \in live \ live' : a \in managed \/ Environment]_vars

\* A script takes an allocated address down only with a list read before the
\* address was allocated, never with a newer one.
OnlyStaleListsRemove ==
    [][\A t \in Threads, r \in rows :
           Clear(t) /\ r.ip \in live \ live' => r.id > proc[t].push.asof]_vars

\* "applied: up and kept in the configuration": once all requests and scripts
\* are through, every address marked so is on the interface.
AppliedIsLive ==
    (\A t \in Threads : Idles(t) /\ ~Running(t)) =>
        \A r \in rows : r.status = "applied" => r.ip \in live
=============================================================================
