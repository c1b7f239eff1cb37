------------------------------- MODULE Networks -------------------------------
(***************************************************************************)
(* The administration of IPAM: networks and the default network of a       *)
(* workspace, pools, subnets of the software-defined network with a        *)
(* network of their own, the cleanup of orphans and the linking of guests  *)
(* to the addresses they have.  Requests run in threads, each in a         *)
(* transaction that reads first and writes later; no table refers to       *)
(* another by a foreign key.  How one address is given out is in Ipam.     *)
(***************************************************************************)
EXTENDS Naturals, FiniteSets, FiniteSetsExt

CONSTANTS
    Requests,
    NNets, NPools, NAddrs,    \* rows ever made; addresses of the first CIDR
    Guests,
    MaxEvents                 \* bound: requests

Nets == 1..NNets
Pools == 1..NPools
Addrs == 1..NAddrs
\* The second CIDR is one nothing is allocated in.
Cidrs == {1, 2}
None == 0

VARIABLES
    net,        \* net[n]: a row of ipam_networks
    pool,       \* pool[p]: a row of ipam_pools
    alloc,      \* alloc[a]: the row of address a, its network and guest
    guest,      \* guest[g]: on Proxmox, in the cache, and the address it uses
    req,        \* req[q]: a request between its reads and its commit
    crossed,    \* ghost: kinds of requests of which one wrote while another was between
    bySdn,      \* ghost: networks whose rows the deletion of a subnet left
    lost,       \* ghost: what freed an address a guest uses or is about to, and
                \* whether that guest was in the cache
    unforced,   \* ghost: addresses were deleted with their network, and not by force
    events

vars == <<net, pool, alloc, guest, req, crossed, bySdn, lost, unforced, events>>
ghosts == <<bySdn, lost, unforced>>

NoNet == [state |-> "new", cidr |-> 1, ws |-> 0, default |-> FALSE, server |-> FALSE]
NoPool == [net |-> None, lo |-> 1, hi |-> 1]
NoRow == [net |-> None, pool |-> None, guest |-> None]
NoGuest == [real |-> FALSE, row |-> FALSE, addr |-> None]
NoRequest == [pc |-> "idle", op |-> "none", n |-> None, p |-> None, a |-> None, g |-> None,
              new |-> NoNet, range |-> NoPool, sets |-> {}, cleared |-> {}, rows |-> {},
              cached |-> {}, force |-> FALSE, over |-> {}]

\* A panel in use: a network of a server, the default of its workspace, with a
\* pool, and a guest that has an address of it.
Init ==
    /\ net = [n \in Nets |-> IF n = 1 THEN [state |-> "there", cidr |-> 1, ws |-> 1, default |-> TRUE, server |-> TRUE]
                              ELSE NoNet]
    /\ pool = [p \in Pools |-> IF p = 1 THEN [net |-> 1, lo |-> 1, hi |-> NAddrs] ELSE NoPool]
    /\ guest = [g \in Guests |-> IF g = Min(Guests) THEN [real |-> TRUE, row |-> TRUE, addr |-> 1] ELSE NoGuest]
    /\ alloc = [a \in Addrs |-> IF a = 1 THEN [net |-> 1, pool |-> 1, guest |-> Min(Guests)] ELSE NoRow]
    /\ req = [q \in Requests |-> NoRequest]
    /\ crossed = {} /\ bySdn = {} /\ lost = {} /\ unforced = FALSE /\ events = 0

-----------------------------------------------------------------------------
There(n) == n \in Nets /\ net[n].state = "there"
PoolsOf(n) == {p \in Pools : pool[p].net = n}
RowsOf(n) == {a \in Addrs : alloc[a].net = n}
At(q, op, pc) == req[q].op = op /\ req[q].pc = pc

Kind(op) ==
    CASE op \in {"create", "update", "subnet"} -> "network"
      [] op \in {"delete", "drop"}             -> "delete"
      [] op \in {"create pool", "update pool", "delete pool"} -> "pool"
      [] OTHER                                 -> "address"

Begin(q, r) ==
    /\ req' = [req EXCEPT ![q] = r]
    /\ UNCHANGED <<net, pool, alloc, guest, crossed, ghosts>>

GoTo(q, r) == req' = [req EXCEPT ![q] = r] /\ UNCHANGED <<crossed, events>>

\* The commit of q, seen by the other requests that have read already.
Wrote(q) ==
    LET kind == Kind(req[q].op)
    IN  [p \in Requests |-> IF p = q \/ req[p].pc = "idle" THEN req[p] ELSE [req[p] EXCEPT !.over = @ \union {kind}]]
Crossings(q) == crossed' = crossed \union {{Kind(req[q].op), k} : k \in req[q].over}
Done(q) == req' = [Wrote(q) EXCEPT ![q] = NoRequest] /\ Crossings(q) /\ UNCHANGED events

\* Guests that lose the rows of the addresses they use or are about to use.
Losses(by, rows, cached) ==
    {[by |-> by, cached |-> g \in cached] :
        g \in {g \in Guests : \E a \in rows : alloc[a].guest = g /\ guest[g].addr = a
                                            /\ (guest[g].real \/ ~guest[g].row)}}

\* An error, a refusal, a transaction rolled back.
Fails(q) ==
    /\ req[q].pc # "idle" /\ req[q].op # "cleanup"
    /\ GoTo(q, NoRequest)
    /\ UNCHANGED <<net, pool, alloc, guest, ghosts>>

-----------------------------------------------------------------------------
(* Networks.                                                               *)
CreateNetwork(q, c, ws, default) ==
    /\ ~\E n \in Nets : There(n) /\ net[n].cidr = c
    /\ Begin(q, [NoRequest EXCEPT !.pc = "checked", !.op = "create",
                 !.new = [state |-> "there", cidr |-> c, ws |-> ws, default |-> default, server |-> FALSE]])

UpdateNetwork(q, n, ws, default, sets) ==
    /\ There(n)
    /\ Begin(q, [NoRequest EXCEPT !.pc = "checked", !.op = "update", !.n = n, !.sets = sets,
                 !.new = [net[n] EXCEPT !.ws = IF "ws" \in sets THEN ws ELSE @,
                                        !.default = IF "default" \in sets THEN default ELSE @]])

\* Mutant: the flag of the siblings stays.
MutSiblings(r) == {}
\* _enforce_single_default: the siblings of a default network as committed
\* rows have them; their rows are locked from here on.
Siblings(r) ==
    IF r.new.default /\ r.new.ws # None
    THEN {n \in Nets : There(n) /\ n # r.n /\ net[n].ws = r.new.ws /\ net[n].default} ELSE {}

Locked(q) == IF req[q].pc = "flushed" THEN req[q].cleared \union {req[q].n} ELSE {}

EnforceSingleDefault(q) ==
    LET r == req[q]  rows == (Siblings(r) \union {r.n}) \ {None} IN
    /\ r.pc = "checked" /\ r.op \in {"create", "update"}
    /\ r.op = "update" => There(r.n)
    /\ \A p \in Requests \ {q} : rows \intersect Locked(p) = {}
    /\ GoTo(q, [r EXCEPT !.pc = "flushed", !.cleared = Siblings(r)])
    /\ UNCHANGED <<net, pool, alloc, guest, ghosts>>

CommitNetwork(q) ==
    LET r == req[q]
        fresh == {n \in Nets : net[n].state = "new"}
        n == IF r.op = "update" THEN r.n ELSE Min(fresh)
        written == [m \in Nets |-> IF m \in r.cleared THEN [net[m] EXCEPT !.default = FALSE] ELSE net[m]]
    IN
    /\ r.pc = "flushed" /\ (r.op # "update" => fresh # {})
    /\ net' = IF r.op # "update" THEN [written EXCEPT ![n] = r.new]
              ELSE [written EXCEPT ![n].ws = IF "ws" \in r.sets THEN r.new.ws ELSE @,
                                   ![n].default = IF "default" \in r.sets THEN r.new.default ELSE @]
    /\ Done(q)
    /\ UNCHANGED <<pool, alloc, guest, ghosts>>

DeleteNetwork(q, n, force) ==
    /\ There(n) /\ (RowsOf(n) = {} \/ force)
    /\ Begin(q, [NoRequest EXCEPT !.pc = "checked", !.op = "delete", !.n = n, !.force = force])

CommitDelete(q) ==
    LET n == req[q].n IN
    /\ At(q, "delete", "checked") /\ There(n)
    /\ \A p \in Requests : n \notin Locked(p)
    /\ net' = [net EXCEPT ![n] = [NoNet EXCEPT !.state = "gone"]]
    /\ pool' = [p \in Pools |-> IF pool[p].net = n THEN NoPool ELSE pool[p]]
    /\ alloc' = [a \in Addrs |-> IF alloc[a].net = n THEN NoRow ELSE alloc[a]]
    /\ lost' = lost \union Losses("delete", RowsOf(n), {})
    /\ unforced' = (unforced \/ (RowsOf(n) # {} /\ ~req[q].force))
    /\ Done(q)
    /\ UNCHANGED <<guest, bySdn>>

\* create_sdn_subnet: Proxmox is called first; a network of that CIDR serves
\* whichever server it is of.
CreateSubnet(q, c) ==
    Begin(q, [NoRequest EXCEPT !.pc = "called", !.op = "subnet",
              !.new = [NoNet EXCEPT !.state = "there", !.cidr = c, !.server = TRUE]])
SubnetMade(q) ==
    /\ At(q, "subnet", "called")
    /\ IF \E n \in Nets : There(n) /\ net[n].cidr = req[q].new.cidr
       THEN GoTo(q, NoRequest) ELSE GoTo(q, [req[q] EXCEPT !.pc = "flushed"])
    /\ UNCHANGED <<net, pool, alloc, guest, ghosts>>

\* delete_sdn_subnet: the row of the network goes, its pools and addresses stay.
DropSubnet(q, c) == Begin(q, [NoRequest EXCEPT !.pc = "called", !.op = "drop", !.new = [NoNet EXCEPT !.cidr = c]])
SubnetDropped(q) ==
    /\ At(q, "drop", "called")
    /\ \E n \in Nets :
          /\ There(n) /\ net[n].cidr = req[q].new.cidr /\ net[n].server
          /\ \A p \in Requests : n \notin Locked(p)
          /\ net' = [net EXCEPT ![n] = [NoNet EXCEPT !.state = "gone"]]
          /\ bySdn' = bySdn \union {n}
    /\ Done(q)
    /\ UNCHANGED <<pool, alloc, guest, lost, unforced>>

-----------------------------------------------------------------------------
(* Pools.                                                                  *)
\* Mutant: a range is refused only where its start is taken.
MutValid(n, lo, hi, except) ==
    /\ There(n) /\ net[n].cidr = 1 /\ lo <= hi
    /\ \A p \in PoolsOf(n) \ {except} : lo < pool[p].lo \/ lo > pool[p].hi
\* validate_pool_range
Valid(n, lo, hi, except) ==
    /\ There(n) /\ net[n].cidr = 1 /\ lo <= hi
    /\ \A p \in PoolsOf(n) \ {except} : hi < pool[p].lo \/ lo > pool[p].hi

CreatePool(q, n, lo, hi) ==
    /\ Valid(n, lo, hi, None)
    /\ Begin(q, [NoRequest EXCEPT !.pc = "checked", !.op = "create pool", !.range = [net |-> n, lo |-> lo, hi |-> hi]])

UpdatePool(q, p, lo, hi) ==
    /\ pool[p].net # None /\ Valid(pool[p].net, lo, hi, p)
    /\ Begin(q, [NoRequest EXCEPT !.pc = "checked", !.op = "update pool", !.p = p,
                 !.range = [net |-> pool[p].net, lo |-> lo, hi |-> hi]])

CommitPool(q) ==
    LET r == req[q]  free == {p \in Pools : pool[p].net = None} IN
    /\ r.pc = "checked" /\ r.op \in {"create pool", "update pool"}
    /\ IF r.op = "create pool" THEN free # {} /\ pool' = [pool EXCEPT ![Min(free)] = r.range]
       ELSE pool[r.p].net = r.range.net /\ pool' = [pool EXCEPT ![r.p] = r.range]
    /\ Done(q)
    /\ UNCHANGED <<net, alloc, guest, ghosts>>

DeletePool(q, p) ==
    /\ pool[p].net # None
    /\ Begin(q, [NoRequest EXCEPT !.pc = "checked", !.op = "delete pool", !.p = p])
CommitDeletePool(q) ==
    LET p == req[q].p IN
    /\ At(q, "delete pool", "checked") /\ pool[p].net # None
    /\ pool' = [pool EXCEPT ![p] = NoPool]
    /\ alloc' = [a \in Addrs |-> [alloc[a] EXCEPT !.pool = IF @ = p THEN None ELSE @]]
    /\ Done(q)
    /\ UNCHANGED <<net, guest, ghosts>>

-----------------------------------------------------------------------------
(* Addresses and guests.                                                   *)
\* get_next_available_ip: what any row has is taken, in whichever network.
Free(n) == {a \in Addrs : alloc[a] = NoRow /\ \E p \in PoolsOf(n) : a \in pool[p].lo..pool[p].hi}

\* The address of a guest that is being deployed.
Allocate(q, n, g) ==
    /\ There(n) /\ Free(n) # {}
    /\ guest[g] = NoGuest /\ \A a \in Addrs : alloc[a].guest # g
    /\ \E p \in PoolsOf(n) \union {None} :
          /\ p # None => Min(Free(n)) \in pool[p].lo..pool[p].hi
          /\ Begin(q, [NoRequest EXCEPT !.pc = "checked", !.op = "allocate", !.n = n, !.p = p,
                       !.a = Min(Free(n)), !.g = g])
CommitAllocate(q) ==
    LET r == req[q] IN
    /\ At(q, "allocate", "checked") /\ alloc[r.a] = NoRow
    /\ alloc' = [alloc EXCEPT ![r.a] = [net |-> r.n, pool |-> r.p, guest |-> r.g]]
    /\ guest' = [guest EXCEPT ![r.g].addr = r.a]
    /\ Done(q)
    /\ UNCHANGED <<net, pool, ghosts>>

\* The guest is there, the cache sees it; it is gone, the cache sees that,
\* and releases its address unless that fails.
Boots(g) ==
    /\ guest[g].addr # None /\ ~guest[g].real /\ ~guest[g].row
    /\ guest' = [guest EXCEPT ![g].real = TRUE] /\ UNCHANGED alloc
Cached(g) == guest[g].real /\ ~guest[g].row /\ guest' = [guest EXCEPT ![g].row = TRUE] /\ UNCHANGED alloc
Destroyed(g) == guest[g].real /\ guest' = [guest EXCEPT ![g].real = FALSE] /\ UNCHANGED alloc
Swept(g) ==
    /\ guest[g].row /\ ~guest[g].real
    /\ guest' = [guest EXCEPT ![g] = NoGuest]
    /\ \/ alloc' = [a \in Addrs |-> IF alloc[a].guest = g THEN NoRow ELSE alloc[a]]
       \/ UNCHANGED alloc
GuestChanges(g) ==
    /\ Boots(g) \/ Cached(g) \/ Destroyed(g) \/ Swept(g)
    /\ UNCHANGED <<net, pool, req, crossed, ghosts, events>>

\* cleanup_orphans: rows of guests the cache does not have.  Each address is
\* released by a transaction of its own, whoever has it by then.
CachedGuests == {g \in Guests : guest[g].row}
\* Mutant: of any guest.
MutOrphans == {a \in Addrs : alloc[a].guest # None}
Orphans == {a \in Addrs : alloc[a].guest # None /\ alloc[a].guest \notin CachedGuests}

CleanupOrphans(q) ==
    /\ Orphans # {}
    /\ Begin(q, [NoRequest EXCEPT !.pc = "listed", !.op = "cleanup", !.rows = Orphans, !.cached = CachedGuests])
ReleaseOrphan(q, a) ==
    LET left == req[q].rows \ {a} IN
    /\ At(q, "cleanup", "listed") /\ a \in req[q].rows
    /\ alloc' = [alloc EXCEPT ![a] = NoRow]
    /\ lost' = lost \union Losses("cleanup", {a}, req[q].cached)
    /\ IF left = {} THEN Done(q)
       ELSE req' = [Wrote(q) EXCEPT ![q].rows = left] /\ Crossings(q) /\ UNCHANGED events
    /\ UNCHANGED <<net, pool, guest, bySdn, unforced>>

\* link_allocations: the networks are read, then the guest is asked for its
\* address; a row of a guest the cache does not have is taken over.
Link(q, n, g) ==
    /\ There(n) /\ net[n].cidr = 1 /\ guest[g].row
    /\ Begin(q, [NoRequest EXCEPT !.pc = "called", !.op = "link", !.n = n, !.g = g])
CommitLink(q) ==
    LET r == req[q]  a == guest[r.g].addr  owner == alloc[a].guest IN
    /\ At(q, "link", "called") /\ guest[r.g].real
    /\ owner # r.g /\ owner \notin CachedGuests
    /\ alloc' = [alloc EXCEPT ![a] = IF @ = NoRow THEN [net |-> r.n, pool |-> None, guest |-> r.g]
                                                  ELSE [@ EXCEPT !.guest = r.g]]
    /\ lost' = lost \union Losses("link", {a}, CachedGuests)
    /\ Done(q)
    /\ UNCHANGED <<net, pool, guest, bySdn, unforced>>

-----------------------------------------------------------------------------
\* What a request reads and decides on, and what it does then.
Asked(q) ==
    /\ req[q].pc = "idle" /\ events < MaxEvents /\ events' = events + 1
    /\ \/ \E c \in Cidrs : CreateSubnet(q, c) \/ DropSubnet(q, c)
       \/ \E ws \in {0, 1}, default \in BOOLEAN :
             \/ \E c \in Cidrs : CreateNetwork(q, c, ws, default)
             \/ \E n \in Nets, sets \in {{"ws"}, {"default"}} : UpdateNetwork(q, n, ws, default, sets)
       \/ \E n \in Nets, force \in BOOLEAN : DeleteNetwork(q, n, force)
       \/ \E n \in Nets, lo, hi \in Addrs : CreatePool(q, n, lo, hi)
       \/ \E p \in Pools, lo, hi \in Addrs : UpdatePool(q, p, lo, hi)
       \/ \E p \in Pools : DeletePool(q, p)
       \/ \E n \in Nets, g \in Guests : Allocate(q, n, g) \/ Link(q, n, g)
       \/ CleanupOrphans(q)
GoesOn(q) ==
    \/ EnforceSingleDefault(q) \/ CommitNetwork(q) \/ CommitDelete(q) \/ SubnetMade(q) \/ SubnetDropped(q)
    \/ CommitPool(q) \/ CommitDeletePool(q) \/ CommitAllocate(q) \/ CommitLink(q)
    \/ \E a \in Addrs : ReleaseOrphan(q, a)
    \/ Fails(q)

Next ==
    \/ \E q \in Requests : Asked(q) \/ GoesOn(q)
    \/ \E g \in Guests : GuestChanges(g)

Spec == Init /\ [][Next]_vars

-----------------------------------------------------------------------------
TypeOK ==
    /\ \A n \in Nets : net[n].state \in {"new", "there", "gone"}
    /\ \A p \in Pools : pool[p].net \in 0..NNets /\ pool[p].lo \in Addrs /\ pool[p].hi \in Addrs
    /\ \A a \in Addrs : alloc[a] \in [net : 0..NNets, pool : 0..NPools, guest : Guests \union {None}]
    /\ events \in 0..MaxEvents

\* A workspace has two default networks, and a CIDR two networks, only after
\* two requests about networks ran at the same time.
NetworksApart ==
    \A m, n \in Nets :
        m # n /\ There(m) /\ There(n) /\ {"network"} \notin crossed
        => /\ net[m].cidr # net[n].cidr
           /\ net[m].default /\ net[n].default /\ net[m].ws # None => net[m].ws # net[n].ws

\* Two pools of a network overlap only after two requests about pools ran at
\* the same time.
PoolsApart ==
    \A p, r \in Pools :
        p # r /\ pool[p].net # None /\ pool[p].net = pool[r].net /\ {"pool"} \notin crossed
        => pool[p].hi < pool[r].lo \/ pool[r].hi < pool[p].lo

\* A pool or an address is left of a network that is gone only by the deletion
\* of a subnet, or by a request that had read the network before it went; an
\* address goes with its network unasked only if it came while that was deleted.
NothingLeftBehind ==
    /\ {"delete", "pool"} \notin crossed => \A p \in Pools : pool[p].net \in bySdn \union {None} \/ There(pool[p].net)
    /\ {"delete", "address"} \notin crossed
       => /\ \A a \in Addrs : alloc[a].net \in bySdn \union {None} \/ There(alloc[a].net)
          /\ ~unforced

\* The cleanup takes the address of a guest that uses it only if the cache did
\* not have that guest yet, or the address changed hands meanwhile; two guests
\* have one address only after one of them lost its row.
GuestsKeepAddresses ==
    /\ \A l \in lost : l.by = "cleanup" /\ l.cached => {"address"} \in crossed
    /\ lost = {} => \A g, h \in Guests : g # h /\ guest[g].real /\ guest[h].real => guest[g].addr # guest[h].addr
=============================================================================
