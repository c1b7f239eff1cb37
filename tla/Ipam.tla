-------------------------------- MODULE Ipam --------------------------------
(***************************************************************************)
(* The allocation protocol of IPAMService on one IPAM network: addresses   *)
(* are given to guests, released, moved between guests and marked primary  *)
(* by request threads and background deployments that share the            *)
(* ipam_allocations table.                                                 *)
(*                                                                         *)
(* Every statement of a transaction sees what others committed before it   *)
(* (PostgreSQL, READ COMMITTED), no row is locked before it is written,    *)
(* and rows are written by primary key.  So each SELECT that a decision    *)
(* rests on is an action of its own, and so is each commit.  Whether a     *)
(* guest is in the cache (module VmSync) is a choice at every read of it.  *)
(***************************************************************************)
EXTENDS Naturals, FiniteSets

CONSTANTS
    NAddrs,      \* number of host addresses of the network
    Gateway,     \* the gateway's address
    Pool,        \* the addresses of the active auto-assign pools
    Guests,      \* guests: (proxmox_server_id, proxmox_vmid) pairs
    Vmid,        \* Vmid[g]: the vmid alone, which guests of two servers may share
    Nobody,      \* allocations made for no guest (proxmox fields unset)
    Threads,     \* concurrent requests and background tasks
    MaxRows      \* bound: allocations ever made

Addrs == 1..NAddrs
Ids == 1..MaxRows
Vmids == {Vmid[g] : g \in Guests}
NoVmid == 0
NoGateway == 0

ASSUME SizesAssumption == NAddrs \in Nat \ {0} /\ MaxRows \in Nat
ASSUME NetworkAssumption == Gateway \in Addrs \union {NoGateway} /\ Pool \subseteq Addrs
ASSUME GuestsAssumption == Nobody \notin Guests /\ Vmid \in [Guests -> Nat \ {NoVmid}]

VARIABLES
    rows,        \* the table: a set of allocations
    lastId,      \* its sequence
    thr,         \* thr[t]: what thread t is doing and what it has read
    granted,     \* history: granted[a], "allocated" entries of a in ipam_history
    released     \* history: released[a], its "released" entries

vars == <<rows, lastId, thr, granted, released>>

Kinds == {"primary", "alias"}
Row == [id : Ids, ip : Addrs, guest : Guests \union {Nobody}, rid : Vmids \union {NoVmid},
        primary : BOOLEAN, kind : Kinds]

Flags == {"unset", "yes", "no"}
Idle == [pc |-> "idle", op |-> "none", g |-> Nobody, ip |-> 1, id |-> 0, rid |-> NoVmid,
         kind |-> "primary", flag |-> "unset", seen |-> {}, left |-> {}, expired |-> FALSE]

Init ==
    /\ rows = {} /\ lastId = 0
    /\ thr = [t \in Threads |-> Idle]
    /\ granted = [a \in Addrs |-> 0] /\ released = [a \in Addrs |-> 0]

-----------------------------------------------------------------------------
Occupied == {r.ip : r \in rows}
Holding(a) == {r \in rows : r.ip = a}
RowsOf(g) == {r \in rows : r.guest = g}
WithId(i) == {r \in rows : r.id = i}
HasPrimary(g) == g # Nobody /\ \E r \in RowsOf(g) : r.primary

\* get_next_available_ip: the lowest pool address not in the table and not the
\* gateway.
NextAvailable(a) ==
    LET free == Pool \ (Occupied \union {Gateway})
    IN  a \in free /\ \A b \in free : a <= b

Become(t, changes) == thr' = [thr EXCEPT ![t] = changes]
GoOn(t, where) == Become(t, [thr[t] EXCEPT !.pc = where])

\* The caller gets its answer and the thread is free for another request.
Answer(t) == Become(t, Idle)

TableUnchanged == UNCHANGED <<rows, lastId, granted, released>>

-----------------------------------------------------------------------------
(* allocate_ip and the ways into it.                                       *)

\* auto_allocate_ip picks the address; create_allocation, a deployment with a
\* chosen address and add_guest_address (alias) bring one.
BeginAllocate(t, g, a, kind, rid) ==
    /\ thr[t].pc = "idle"
    /\ kind = "alias" => g # Nobody
    /\ g # Nobody => rid = NoVmid
    /\ Become(t, [Idle EXCEPT !.pc = "check", !.op = "allocate", !.g = g, !.ip = a,
                              !.kind = kind, !.rid = rid])
    /\ TableUnchanged

BeginAuto(t, g, a) ==
    /\ NextAvailable(a)
    /\ BeginAllocate(t, g, a, "primary", NoVmid)

\* The address must be free and not the gateway.
CheckFree(t) ==
    /\ thr[t].pc = "check"
    /\ IF thr[t].ip \in Occupied \union {Gateway}
       THEN Answer(t)
       ELSE GoOn(t, IF thr[t].flag = "unset" THEN "flag" ELSE "insert")
    /\ TableUnchanged

\* The first address of a guest becomes its primary one.
ReadPrimary(t) ==
    LET me == thr[t]
        first == me.kind = "primary" /\ me.g # Nobody /\ ~HasPrimary(me.g)
    IN  /\ me.pc = "flag"
        /\ Become(t, [me EXCEPT !.pc = "insert", !.flag = IF first THEN "yes" ELSE "no"])
        /\ TableUnchanged

\* Mutants: the table without its unique index, and without its sequence.
MutInsertTwice(t) ==
    LET me == thr[t] IN
    /\ me.pc = "insert" /\ lastId < MaxRows
    /\ rows' = rows \union
         {[id |-> lastId + 1, ip |-> me.ip, guest |-> me.g, rid |-> me.rid,
           primary |-> me.flag = "yes", kind |-> me.kind]}
    /\ lastId' = lastId + 1
    /\ granted' = [granted EXCEPT ![me.ip] = @ + 1]
    /\ Answer(t)
    /\ UNCHANGED <<released>>
MutInsertSameId(t) ==
    LET me == thr[t] IN
    /\ me.pc = "insert" /\ lastId < MaxRows /\ me.ip \notin Occupied
    /\ rows' = rows \union
         {[id |-> lastId + 1, ip |-> me.ip, guest |-> me.g, rid |-> me.rid,
           primary |-> me.flag = "yes", kind |-> me.kind]}
    /\ granted' = [granted EXCEPT ![me.ip] = @ + 1]
    /\ Answer(t)
    /\ UNCHANGED <<lastId, released>>

\* INSERT, history entry and commit; the unique index on ip_address fails it
\* when another transaction was first.
Insert(t) ==
    LET me == thr[t] IN
    /\ me.pc = "insert" /\ lastId < MaxRows
    /\ IF me.ip \in Occupied
       THEN TableUnchanged
       ELSE /\ rows' = rows \union
                 {[id |-> lastId + 1, ip |-> me.ip, guest |-> me.g, rid |-> me.rid,
                   primary |-> me.flag = "yes", kind |-> me.kind]}
            /\ lastId' = lastId + 1
            /\ granted' = [granted EXCEPT ![me.ip] = @ + 1]
            /\ UNCHANGED released
    /\ Answer(t)

-----------------------------------------------------------------------------
(* release_ip, alone or for all addresses of a guest.                      *)

\* delete_allocation and cleanup_orphan_allocations: any allocation.
\* remove_guest_address: an alias of a living guest.  Both pass on only the
\* address.
BeginRelease(t, r) ==
    /\ thr[t].pc = "idle" /\ r \in rows
    /\ Become(t, [Idle EXCEPT !.pc = "requery", !.op = "release", !.ip = r.ip])
    /\ TableUnchanged

\* The allocations release_ip_by_vmid finds: those of the guest or, when it
\* has none, those of nobody whose resource_id is its vmid.
FoundFor(g) ==
    IF RowsOf(g) # {} THEN RowsOf(g)
    ELSE {r \in RowsOf(Nobody) : r.rid = Vmid[g]}

\* Mutant: only one of the guest's allocations is released.
MutBeginReleaseGuest(t, g) ==
    /\ thr[t].pc = "idle" /\ FoundFor(g) # {}
    /\ Become(t, [Idle EXCEPT !.pc = "next", !.op = "release_guest", !.g = g,
                              !.seen = FoundFor(g), !.left = {CHOOSE r \in FoundFor(g) : TRUE}])
    /\ TableUnchanged

BeginReleaseGuest(t, g) ==
    /\ thr[t].pc = "idle" /\ FoundFor(g) # {}
    /\ Become(t, [Idle EXCEPT !.pc = "next", !.op = "release_guest", !.g = g,
                              !.seen = FoundFor(g), !.left = FoundFor(g)])
    /\ TableUnchanged

\* The loop of release_ip_by_vmid.  Once a commit has expired the session,
\* the next allocation is read again, and a vanished one ends the loop with
\* an exception.
NextRelease(t) ==
    LET me == thr[t] IN
    /\ me.pc = "next"
    /\ \/ me.left = {} /\ GoOn(t, "released")
       \/ \E r \in me.left :
            IF me.expired /\ WithId(r.id) = {}
            THEN Answer(t)
            ELSE Become(t, [me EXCEPT !.pc = "requery", !.ip = r.ip, !.left = @ \ {r}])
    /\ TableUnchanged

\* release_ip_by_vmid returns to its caller.
ReplyReleased(t) ==
    /\ thr[t].pc = "released"
    /\ Answer(t)
    /\ TableUnchanged

\* release_ip returns: to the loop, or to the API handler.
AfterRelease(me, exp) ==
    IF me.op = "release_guest" THEN [me EXCEPT !.pc = "next", !.ip = 1, !.id = 0, !.expired = exp]
    ELSE Idle

\* release_ip looks the address up again.
Requery(t) ==
    LET me == thr[t] IN
    /\ me.pc = "requery"
    /\ IF Holding(me.ip) = {}
       THEN Become(t, AfterRelease(me, me.expired))
       ELSE \E r \in Holding(me.ip) : Become(t, [me EXCEPT !.pc = "delete", !.id = r.id])
    /\ TableUnchanged

\* Mutant: the release leaves no entry in the history.
MutDelete(t) ==
    LET me == thr[t] IN
    /\ me.pc = "delete"
    /\ rows' = rows \ WithId(me.id)
    /\ Become(t, AfterRelease(me, TRUE))
    /\ UNCHANGED <<lastId, granted, released>>

\* DELETE by primary key with the history entry.  A row that is gone already
\* only causes a warning.
Delete(t) ==
    LET me == thr[t] IN
    /\ me.pc = "delete"
    /\ rows' = rows \ WithId(me.id)
    /\ released' = [released EXCEPT ![me.ip] = @ + 1]
    /\ Become(t, AfterRelease(me, TRUE))
    /\ UNCHANGED <<lastId, granted>>

-----------------------------------------------------------------------------
(* set_primary.                                                            *)

BeginSetPrimary(t, g, r) ==
    /\ thr[t].pc = "idle" /\ r \in RowsOf(g)
    /\ Become(t, [Idle EXCEPT !.pc = "set_primary", !.op = "set_primary", !.g = g,
                              !.id = r.id, !.ip = r.ip, !.seen = RowsOf(g)])
    /\ TableUnchanged

\* Only the flags that differ from what was read are written; a row that is
\* gone fails the whole transaction.
WritePrimary(t) ==
    LET me == thr[t]
        changed == {r \in me.seen : r.primary # (r.id = me.id)}
        lost == \E r \in changed : WithId(r.id) = {}
    IN  /\ me.pc = "set_primary"
        /\ rows' = IF lost THEN rows
                   ELSE {IF \E c \in changed : c.id = r.id
                         THEN [r EXCEPT !.primary = (r.id = me.id)] ELSE r : r \in rows}
        /\ Answer(t)
        /\ UNCHANGED <<lastId, granted, released>>

-----------------------------------------------------------------------------
(* sync_from_proxmox_vm (linking the addresses found inside guests) and    *)
(* update_allocation.                                                      *)

SyncRead(t, g, a) ==
    /\ thr[t].pc = "idle"
    /\ \A r \in Holding(a) : r.guest # g
    /\ Become(t, [Idle EXCEPT !.op = "sync", !.g = g, !.ip = a,
                    !.seen = Holding(a), !.kind = "alias",
                    !.pc = IF Holding(a) = {} THEN "sync_flag"
                           ELSE IF \E r \in Holding(a) : r.guest # Nobody
                           THEN "sync_owner" ELSE "move_read"])
    /\ TableUnchanged

\* A guest without a primary address gets this one as primary; allocate_ip
\* does not look again.
SyncPrimary(t) ==
    LET me == thr[t] IN
    /\ me.pc = "sync_flag"
    /\ Become(t, IF HasPrimary(me.g)
                 THEN [me EXCEPT !.pc = "check", !.flag = "no"]
                 ELSE [me EXCEPT !.pc = "check", !.flag = "yes", !.kind = "primary"])
    /\ TableUnchanged

\* Another guest's address is taken over when that guest is not cached.
SyncOwner(t) ==
    LET me == thr[t] IN
    /\ me.pc = "sync_owner"
    /\ \/ Answer(t)
       \/ Become(t, [me EXCEPT !.pc = "move_read", !.op = "update"])
    /\ TableUnchanged

\* The API's update_allocation may name any guest.
BeginUpdate(t, r, g) ==
    /\ thr[t].pc = "idle" /\ r \in rows
    /\ Become(t, [Idle EXCEPT !.pc = "move_read", !.op = "update", !.g = g, !.ip = r.ip])
    /\ TableUnchanged

\* Nothing is written when the row read already names the guest; after a sync
\* the row is the one loaded before, which names another.
MoveRead(t) ==
    LET me == thr[t] IN
    /\ me.pc = "move_read"
    /\ IF \A r \in Holding(me.ip) : me.seen = {} /\ r.guest = me.g
       THEN Answer(t)
       ELSE \E r \in Holding(me.ip) : Become(t, [me EXCEPT !.pc = "move", !.id = r.id])
    /\ TableUnchanged

\* The allocation changes hands; is_primary is not among the fields written.
Move(t) ==
    LET me == thr[t] IN
    /\ me.pc = "move"
    /\ rows' = {IF r.id = me.id THEN [r EXCEPT !.guest = me.g] ELSE r : r \in rows}
    /\ Answer(t)
    /\ UNCHANGED <<lastId, granted, released>>

-----------------------------------------------------------------------------
Step(t) ==
    \/ CheckFree(t) \/ ReadPrimary(t) \/ Insert(t)
    \/ NextRelease(t) \/ ReplyReleased(t) \/ Requery(t) \/ Delete(t)
    \/ WritePrimary(t)
    \/ SyncPrimary(t) \/ SyncOwner(t) \/ MoveRead(t) \/ Move(t)

Begin(t) ==
    \/ \E g \in Guests \union {Nobody}, a \in Addrs :
          \/ BeginAuto(t, g, a)
          \/ \E kind \in Kinds, rid \in Vmids \union {NoVmid} : BeginAllocate(t, g, a, kind, rid)
    \/ \E r \in rows : BeginRelease(t, r)
    \/ \E r \in rows, g \in Guests : BeginSetPrimary(t, g, r) \/ BeginUpdate(t, r, g)
    \/ \E g \in Guests : BeginReleaseGuest(t, g)
    \/ \E g \in Guests, a \in Addrs : SyncRead(t, g, a)

Next ==
    \E t \in Threads : Begin(t) \/ Step(t)

Spec == Init /\ [][Next]_vars

-----------------------------------------------------------------------------
(* Properties.                                                             *)

TypeOK ==
    /\ rows \subseteq Row /\ lastId \in 0..MaxRows
    /\ \A r \in rows : r.id <= lastId
    /\ \A t \in Threads :
         /\ thr[t].g \in Guests \union {Nobody} /\ thr[t].ip \in Addrs
         /\ thr[t].id \in 0..MaxRows /\ thr[t].kind \in Kinds /\ thr[t].flag \in Flags
         /\ thr[t].seen \subseteq Row /\ thr[t].left \subseteq thr[t].seen
    /\ granted \in [Addrs -> Nat] /\ released \in [Addrs -> Nat]

\* An address belongs to one allocation, however requests overlap.
UniqueAddress == \A r, s \in rows : r.ip = s.ip => r = s

\* ipam_history accounts for the table: no address is granted twice without a
\* release in between, none is held without having been granted, and a grant
\* that was not released is still held.
HistoryAccounts ==
    \A a \in Addrs :
        /\ granted[a] <= released[a] + 1
        /\ a \in Occupied => granted[a] > 0
        /\ granted[a] = released[a] + 1 => a \in Occupied

\* When release_ip_by_vmid returns normally, none of the allocations it found
\* is left: a deleted guest does not keep some of its addresses for ever.
ReleaseComplete ==
    \A t \in Threads : thr[t].pc = "released" =>
        \A r \in thr[t].seen : WithId(r.id) = {}

Primaries(g) == {r \in RowsOf(g) : r.primary}
\* A guest has one primary address at most: set_primary and allocate_ip leave
\* a single flag, and what else moves addresses about should as well.
AtMostOnePrimary == \A g \in Guests : Cardinality(Primaries(g)) <= 1
=============================================================================
