---------------------------- MODULE VmSyncProofs ----------------------------
(***************************************************************************)
(* Proofs about the guest cache and its addresses, for any servers,        *)
(* installations and guests, and any number of changes, deployments,       *)
(* outages and crashes.                                                    *)
(***************************************************************************)
EXTENDS VmSync, WellFoundedInduction, TLAPS

JobPhases == {"idle", "probe", "collect", "load", "sweep", "mark"}

\* What the proofs need of the types.
Typed ==
    /\ rows \in [Keys -> RowStates]
    /\ online \in SUBSET Servers /\ reach \in SUBSET Servers
    /\ pc \in JobPhases /\ servers \in SUBSET Servers /\ probed \in SUBSET Servers

\* The rows the job means to mark are of its own servers.
OwnServers ==
    /\ pc # "mark" => gone = {} /\ marked = {}
    /\ \A k \in gone \union marked : k[1] \in servers

\* A server that does not answer has been noticed since the job started.
OutagesSeen == pc # "idle" => \A s \in Servers \ reach : Site[s] \in flaky

\* A guest that was there all the time, of an installation without an outage.
Steady(g) == g \in present /\ g \notin fresh /\ Home[g] \notin flaky

\* The servers visited by the second pass gave their steady guests, each under
\* a server of the same installation that is not larger.
Collected ==
    /\ pc \in {"load", "sweep"} => todo = {}
    /\ pc \in {"collect", "load", "sweep"} =>
         \A s \in servers \ todo, g \in Guests :
            Steady(g) /\ Site[s] = Home[g] =>
                \E x \in Servers : x <= s /\ Site[x] = Site[s] /\ <<x, g>> \in data

SmallerServer(k) == \E s \in Servers : Site[s] = Home[k[2]] /\ s < k[1]

\* A steady guest is only missed under a server that does not name its cluster.
GoneExplained == \A k \in gone : k \in Keys /\ (Steady(k[2]) => SmallerServer(k))

\* The inductive invariant.
IInv == Typed /\ OwnServers /\ OutagesSeen /\ Collected /\ GoneExplained

-----------------------------------------------------------------------------
LEMMA LeastProperty ==
    ASSUME NEW S \in SUBSET Servers, S # {}
    PROVE  Least(S) \in S /\ \A y \in S : Least(S) <= y
<1>1. S \subseteq Nat
  BY CountsAssumption DEF Servers
<1> DEFINE R == {p \in Nat \X Nat : p[1] < p[2]}
<1>2. IsWellFoundedOn(R, Nat)
  BY NatLessThanWellFounded DEF OpToRel
<1>3. \E x \in S : \A y \in S : x <= y
  <2> HIDE DEF R
  <2>1. PICK x \in S : \A y \in S : ~(<<y, x>> \in R)
    BY <1>1, <1>2, WFMin, S # {}
  <2>2. ASSUME NEW y \in S PROVE x <= y
    <3>1. x \in Nat /\ y \in Nat
      BY <1>1, <2>1
    <3>2. y < x => <<y, x>> \in R
      BY <3>1 DEF R
    <3>3. QED
      BY <2>1, <3>1, <3>2
  <2>3. QED
    BY <2>2
<1>4. QED
  BY <1>3 DEF Least

\* A guest is stored under a server of its installation, and under none that
\* is larger than the one it was collected from.
LEMMA StoredUnderProperty ==
    ASSUME Typed, NEW s \in Servers
    PROVE  StoredUnder(s) \in Servers /\ StoredUnder(s) <= s /\ Site[StoredUnder(s)] = Site[s]
<1>1. s \in Nat
  BY CountsAssumption DEF Servers
<1>2. CASE s \in probed /\ Site[s] \in Clusters
  <2> DEFINE same == {x \in probed : Site[x] = Site[s]}
  <2>1. same \in SUBSET Servers /\ s \in same
    BY <1>2 DEF Typed
  <2>2. Least(same) \in same /\ Least(same) <= s
    BY <2>1, LeastProperty
  <2>3. StoredUnder(s) = Least(same)
    BY <1>2 DEF StoredUnder
  <2>4. QED
    BY <2>1, <2>2, <2>3
<1>3. CASE ~(s \in probed /\ Site[s] \in Clusters)
  BY <1>1, <1>3 DEF StoredUnder
<1>4. QED
  BY <1>2, <1>3

\* What holds of no job.
LEMMA IdleJob ==
    ASSUME JobIdle, rows' \in [Keys -> RowStates], online' \in SUBSET Servers, reach' \in SUBSET Servers
    PROVE  IInv'
  BY DEF JobIdle, IInv, Typed, JobPhases, OwnServers, OutagesSeen, Collected, GoneExplained

LEMMA InitIInv == Init => IInv
  BY DEF Init, IInv, Typed, JobPhases, RowStates, OwnServers, OutagesSeen, Collected, GoneExplained

\* The job waits while the world changes: no guest becomes steady.
LEMMA JobWaits ==
    ASSUME IInv, UNCHANGED job, rows' \in [Keys -> RowStates], online' \in SUBSET Servers,
           reach' \in SUBSET Servers,
           \A g \in Guests : Steady(g)' => Steady(g),
           \A s \in Servers \ reach' : s \in Servers \ reach \/ Site[s] \in flaky',
           flaky \subseteq flaky'
    PROVE  IInv'
<1> USE DEF job
<1>1. Typed' /\ OwnServers'
  BY DEF IInv, Typed, OwnServers
<1>2. OutagesSeen'
  BY DEF IInv, OutagesSeen
<1>3. Collected'
  BY DEF IInv, Collected
<1>4. \A k \in Keys : SmallerServer(k)' <=> SmallerServer(k)
  BY DEF SmallerServer
<1>5. GoneExplained'
  BY <1>4 DEF IInv, GoneExplained, Keys
<1>6. QED
  BY <1>1, <1>2, <1>3, <1>5 DEF IInv

-----------------------------------------------------------------------------
(* The sync job.                                                           *)

LEMMA StartSyncIInv == IInv /\ StartSync => IInv'
<1> SUFFICES ASSUME IInv, StartSync PROVE IInv'
  OBVIOUS
<1>1. /\ pc = "idle" /\ pc' = "probe" /\ servers' = online
      /\ flaky' = {Site[s] : s \in Servers \ reach}
      /\ UNCHANGED <<proxmox, database, probed, data, gone, marked>>
  BY DEF StartSync
<1>2. Typed'
  BY <1>1 DEF IInv, Typed, JobPhases, proxmox, database
<1>3. OwnServers' /\ GoneExplained' /\ Collected'
  BY <1>1 DEF IInv, OwnServers, GoneExplained, Collected
<1>4. OutagesSeen'
  BY <1>1 DEF OutagesSeen, proxmox
<1>5. QED
  BY <1>2, <1>3, <1>4 DEF IInv

LEMMA ProbeIInv ==
    ASSUME IInv, NEW s \in Servers, Probe(s)
    PROVE  IInv'
<1>1. /\ pc = "probe" /\ pc' \in {"probe", "collect"} /\ probed' \in SUBSET (probed \union {s})
      /\ pc' = "collect" => todo' = servers
      /\ UNCHANGED <<proxmox, database, servers, data, gone, marked, history>>
  BY DEF Probe
<1>2. Typed'
  BY <1>1 DEF IInv, Typed, JobPhases, proxmox, database
<1>3. OwnServers' /\ GoneExplained'
  BY <1>1 DEF IInv, OwnServers, GoneExplained
<1>4. Collected'
  BY <1>1 DEF Collected
<1>5. OutagesSeen'
  BY <1>1 DEF IInv, OutagesSeen, proxmox, history
<1>6. QED
  BY <1>2, <1>3, <1>4, <1>5 DEF IInv

LEMMA CollectIInv ==
    ASSUME IInv, NEW s \in Servers, Collect(s)
    PROVE  IInv'
<1>1. /\ pc = "collect" /\ pc' = (IF todo = {s} THEN "load" ELSE pc)
      /\ todo' = todo \ {s} /\ data \subseteq data'
      /\ s \in reach => \A g \in present : Home[g] = Site[s] => <<StoredUnder(s), g>> \in data'
      /\ UNCHANGED <<proxmox, database, servers, probed, gone, marked, history>>
  BY DEF Collect
<1>2. Typed'
  BY <1>1 DEF IInv, Typed, JobPhases, proxmox, database
<1>3. OwnServers' /\ GoneExplained'
  BY <1>1 DEF IInv, OwnServers, GoneExplained
<1>4. Collected'
  <2>1. pc' \in {"load", "sweep"} => todo' = {}
    BY <1>1
  <2>2. ASSUME NEW x \in servers' \ todo', NEW g \in Guests, Steady(g), Site[x] = Home[g]
        PROVE  \E y \in Servers : y <= x /\ Site[y] = Site[x] /\ <<y, g>> \in data'
    <3>1. CASE x # s
      <4>1. x \in servers \ todo
        BY <1>1, <2>2, <3>1
      <4>2. PICK y \in Servers : y <= x /\ Site[y] = Site[x] /\ <<y, g>> \in data
        BY <1>1, <2>2, <4>1 DEF IInv, Collected
      <4>3. QED
        BY <1>1, <4>2
    <3>2. CASE x = s
      <4>1. s \in reach
        BY <1>1, <2>2, <3>2 DEF IInv, OutagesSeen, Steady
      <4>2. <<StoredUnder(s), g>> \in data'
        BY <1>1, <2>2, <3>2, <4>1 DEF Steady
      <4>3. QED
        BY <3>2, <4>2, StoredUnderProperty DEF IInv
    <3>3. QED
      BY <3>1, <3>2
  <2>3. \A g \in Guests : Steady(g)' => Steady(g)
    BY <1>1 DEF Steady, proxmox, history
  <2>4. QED
    BY <2>1, <2>2, <2>3 DEF Collected
<1>5. OutagesSeen'
  BY <1>1 DEF IInv, OutagesSeen, proxmox, history
<1>6. QED
  BY <1>2, <1>3, <1>4, <1>5 DEF IInv

LEMMA LoadRowIInv ==
    ASSUME IInv, NEW k \in Keys, LoadRow(k)
    PROVE  IInv'
  BY DEF LoadRow, proxmox, database, history, IInv, Typed, OwnServers, OutagesSeen, Collected, Steady,
         GoneExplained, SmallerServer

LEMMA UpsertCommitIInv == IInv /\ UpsertCommit => IInv'
<1> SUFFICES ASSUME IInv, UpsertCommit PROVE IInv'
  OBVIOUS
<1>1. UNCHANGED <<proxmox, online, history>> /\ pc = "load"
  BY DEF UpsertCommit
<1>2. CASE JobIdle /\ UNCHANGED rows
  BY <1>1, <1>2, IdleJob DEF IInv, Typed, proxmox
<1>3. CASE /\ rows' = [k \in Keys |-> IF k \in data /\ loaded[k] \in {"none", "deleted"}
                                      THEN "active" ELSE rows[k]]
           /\ pc' = "sweep" /\ UNCHANGED <<servers, todo, probed, data, loaded, gone, marked>>
  <2>1. Typed'
    BY <1>1, <1>3 DEF IInv, Typed, JobPhases, RowStates, proxmox
  <2>2. OwnServers' /\ OutagesSeen'
    BY <1>1, <1>3 DEF IInv, OwnServers, OutagesSeen, proxmox, history
  <2>3. Collected'
    BY <1>1, <1>3 DEF IInv, Collected, Steady, proxmox, history
  <2>4. GoneExplained'
    BY <1>1, <1>3 DEF IInv, OwnServers, GoneExplained
  <2>5. QED
    BY <2>1, <2>2, <2>3, <2>4 DEF IInv
<1>4. QED
  BY <1>2, <1>3 DEF UpsertCommit

\* A row of a steady guest that was not collected: the server it is stored
\* under gave the guest, but under a smaller one.
LEMMA SweepReadIInv == IInv /\ SweepRead => IInv'
<1> SUFFICES ASSUME IInv, SweepRead PROVE IInv'
  OBVIOUS
<1>1. /\ pc = "sweep" /\ pc' = "mark"
      /\ gone' = {k \in Keys : rows[k] = "active" /\ k[1] \in servers /\ k \notin data}
      /\ UNCHANGED <<proxmox, database, servers, todo, probed, data, marked, history>>
  BY DEF SweepRead
<1>2. Typed'
  BY <1>1 DEF IInv, Typed, JobPhases, proxmox, database
<1>3. OwnServers' /\ OutagesSeen' /\ Collected'
  BY <1>1 DEF IInv, OwnServers, OutagesSeen, Collected, proxmox, history
<1>4. ASSUME NEW k \in gone', Steady(k[2]) PROVE SmallerServer(k)
  <2>1. /\ k \in Servers \X Guests /\ Site[k[1]] = Home[k[2]] /\ k[1] \in servers /\ k \notin data
        /\ k = <<k[1], k[2]>>
    BY <1>1 DEF Keys
  <2>2. PICK x \in Servers : x <= k[1] /\ Site[x] = Site[k[1]] /\ <<x, k[2]>> \in data
    BY <1>1, <1>4, <2>1 DEF IInv, Collected
  <2>3. x # k[1]
    BY <2>1, <2>2
  <2>4. x \in Nat /\ k[1] \in Nat
    BY <2>1, CountsAssumption DEF Servers
  <2>5. QED
    BY <2>1, <2>2, <2>3, <2>4 DEF SmallerServer
<1>5. GoneExplained'
  <2>1. \A g : Steady(g)' <=> Steady(g)
    BY <1>1 DEF Steady, proxmox, history
  <2>2. QED
    BY <1>1, <1>4, <2>1 DEF GoneExplained, SmallerServer
<1>6. QED
  BY <1>2, <1>3, <1>5 DEF IInv

LEMMA MarkDeletedIInv ==
    ASSUME IInv, NEW k \in Keys, MarkDeleted(k)
    PROVE  IInv'
<1>1. /\ pc = "mark" /\ pc' = "mark" /\ k \in gone /\ gone' = gone \ {k}
      /\ marked' \in {{}, marked \union {k}}
      /\ UNCHANGED <<proxmox, online, servers, todo, probed, data, history>>
  BY DEF MarkDeleted
<1>2. rows' \in [Keys -> RowStates]
  BY DEF MarkDeleted, IInv, Typed, RowStates
<1>3. Typed'
  BY <1>1, <1>2 DEF IInv, Typed, proxmox
<1>4. OwnServers' /\ OutagesSeen' /\ Collected'
  BY <1>1 DEF IInv, OwnServers, OutagesSeen, Collected, proxmox, history
<1>5. GoneExplained'
  BY <1>1 DEF IInv, GoneExplained, Steady, SmallerServer, proxmox, history
<1>6. QED
  BY <1>3, <1>4, <1>5 DEF IInv

LEMMA FinishSyncIInv == IInv /\ FinishSync => IInv'
<1> SUFFICES ASSUME IInv, FinishSync PROVE IInv'
  OBVIOUS
<1>1. JobIdle /\ UNCHANGED <<proxmox, online>>
  BY DEF FinishSync
<1>2. rows' \in [Keys -> RowStates]
  BY DEF FinishSync, IInv, Typed, RowStates
<1>3. QED
  BY <1>1, <1>2, IdleJob DEF IInv, Typed, proxmox

-----------------------------------------------------------------------------
(* Requests, users and Proxmox.                                            *)

LEMMA RequestsIInv == IInv /\ (Deployments \/ Deletions) => IInv'
<1> SUFFICES ASSUME IInv, Deployments \/ Deletions PROVE IInv'
  OBVIOUS
<1>1. UNCHANGED <<job, reach, online, flaky>>
  BY DEF Deployments, Deletions, Deletion, DeployReserve, DeployCreate, DeploySave, DeleteSave,
         DeleteAccept, DeleteUnlink, DeleteMark, DeleteRelease, ReleaseAddresses, proxmox, database, history
<1>2. rows' \in [Keys -> RowStates]
  BY DEF IInv, Typed, RowStates, Deployments, Deletions, Deletion, DeployReserve, DeployCreate,
         DeploySave, DeleteSave, DeleteAccept, DeleteUnlink, DeleteMark, DeleteRelease, database
<1>3. \A g \in Guests : Steady(g)' => Steady(g)
  BY <1>1 DEF Steady, Deployments, Deletions, Deletion, DeployReserve, DeployCreate, DeploySave, DeleteSave,
         DeleteAccept, DeleteUnlink, DeleteMark, DeleteRelease, proxmox, history
<1>4. QED
  BY <1>1, <1>2, <1>3, JobWaits DEF IInv, Typed

LEMMA WorldIInv == IInv /\ World => IInv'
<1> SUFFICES ASSUME IInv, World PROVE IInv'
  OBVIOUS
<1>1. ASSUME NEW g \in Guests, Vanish(g) \/ Appear(g) PROVE IInv'
  <2>1. UNCHANGED <<job, reach, online, rows, flaky>>
    BY <1>1 DEF Vanish, Appear, database, history
  <2>2. \A h \in Guests : Steady(h)' => Steady(h)
    BY <1>1 DEF Vanish, Appear, Steady, history
  <2>3. QED
    BY <2>1, <2>2, JobWaits DEF IInv, Typed
<1>2. ASSUME NEW s \in Servers, LoseServer(s) \/ RegainServer(s) \/ CheckAvailability(s) PROVE IInv'
  <2>1. /\ UNCHANGED <<job, rows, present, fresh>> /\ flaky \subseteq flaky'
        /\ reach' \in SUBSET Servers /\ online' \in SUBSET Servers
        /\ \A x \in Servers \ reach' : x \in Servers \ reach \/ Site[x] \in flaky'
    BY <1>2 DEF LoseServer, RegainServer, CheckAvailability, database, proxmox, history, IInv, Typed
  <2>2. \A h \in Guests : Steady(h)' => Steady(h)
    BY <2>1 DEF Steady
  <2>3. QED
    BY <2>1, <2>2, JobWaits DEF IInv, Typed
<1>3. QED
  BY <1>1, <1>2 DEF World

LEMMA CrashIInv == IInv /\ Crash => IInv'
  BY IdleJob DEF Crash, proxmox, database, IInv, Typed

LEMMA NextIInv == IInv /\ [Next]_vars => IInv'
<1> SUFFICES ASSUME IInv, [Next]_vars PROVE IInv'
  OBVIOUS
<1>1. CASE UNCHANGED vars
  <2>1. UNCHANGED <<job, rows, online, reach, flaky, present, fresh>>
    BY <1>1 DEF vars, proxmox, database, history
  <2>2. QED
    BY <2>1, JobWaits DEF IInv, Typed, Steady
<1>2. CASE SyncJob
  BY <1>2, StartSyncIInv, ProbeIInv, CollectIInv, LoadRowIInv, UpsertCommitIInv, SweepReadIInv,
     MarkDeletedIInv, FinishSyncIInv DEF SyncJob
<1>3. QED
  BY <1>1, <1>2, RequestsIInv, WorldIInv, CrashIInv DEF Next

LEMMA Inductive == Spec => []IInv
  BY InitIInv, NextIInv, PTL DEF Spec

-----------------------------------------------------------------------------
(* The theorems.                                                           *)

\* What may take the addresses of a key.
LEMMA WhoReleases ==
    ASSUME Next, NEW k \in Keys, Loses(k)
    PROVE  MarkDeleted(k) \/ DeleteUnlink(k) \/ DeleteRelease(k)
<1>1. k \in alloc /\ k \notin alloc'
  BY DEF Loses
<1>2. ~(StartSync \/ UpsertCommit \/ SweepRead \/ FinishSync \/ Crash)
  BY <1>1 DEF StartSync, UpsertCommit, SweepRead, FinishSync, Crash, database
<1>3. \A s \in Servers : ~(Probe(s) \/ Collect(s) \/ LoseServer(s) \/ RegainServer(s) \/ CheckAvailability(s))
  BY <1>1 DEF Probe, Collect, LoseServer, RegainServer, CheckAvailability, database
<1>4. \A g \in Guests : ~(Vanish(g) \/ Appear(g))
  BY <1>1 DEF Vanish, Appear, database
<1>5. \A j \in Keys : ~(LoadRow(j) \/ DeployCreate(j) \/ DeploySave(j) \/ DeleteSave(j)
                        \/ DeleteAccept(j) \/ DeleteMark(j))
  BY <1>1 DEF LoadRow, DeployCreate, DeploySave, DeleteSave, DeleteAccept, DeleteMark, database
<1>6. \A j \in Keys : ~DeployReserve(j)
  BY <1>1 DEF DeployReserve
<1>7. \A j \in Keys : MarkDeleted(j) \/ DeleteUnlink(j) \/ DeleteRelease(j) => j = k
  BY <1>1 DEF MarkDeleted, DeleteUnlink, DeleteRelease, ReleaseAddresses
<1>8. QED
  BY <1>2, <1>3, <1>4, <1>5, <1>6, <1>7 DEF Next, SyncJob, Deployments, Deletions, Deletion, World

\* Whatever runs beside it, the sync job marks a row deleted in the very commit
\* that takes its addresses; only a deletion of this guest does it otherwise.
THEOREM AddressesFollowRows == Spec => AddressFollowsRow
<1>1. [Next]_vars => [\A k \in Keys : Loses(k) => rows'[k] # "active" \/ deleting[k] # "no"]_vars
  <2>1. SUFFICES ASSUME Next, NEW k \in Keys, Loses(k)
                 PROVE  rows'[k] # "active" \/ deleting[k] # "no"
    OBVIOUS
  <2>2. CASE MarkDeleted(k)
    <3>1. k \in alloc
      BY <2>1 DEF Loses
    <3>2. rows' = [j \in Keys |-> IF j \in marked \union {k} THEN "deleted" ELSE rows[j]]
      BY <2>2, <3>1 DEF MarkDeleted
    <3>3. QED
      BY <3>2
  <2>3. CASE DeleteUnlink(k) \/ DeleteRelease(k)
    BY <2>3 DEF DeleteUnlink, DeleteRelease
  <2>4. QED
    BY <2>1, <2>2, <2>3, WhoReleases
<1>2. QED
  BY <1>1, PTL DEF Spec, AddressFollowsRow

\* The rows of a server that was offline when a run of the job started are left
\* alone by that run, however the servers come and go meanwhile.
THEOREM OfflineRowsKept == Spec => OfflineKept
<1>1. IInv /\ [Next]_vars =>
        [\A k \in Keys : rows[k] = "active" /\ rows'[k] = "deleted" =>
             k[1] \in servers \/ deleting[k] = "unlinked"]_vars
  <2>1. SUFFICES ASSUME IInv, Next, NEW k \in Keys, rows[k] = "active", rows'[k] = "deleted"
                 PROVE  k[1] \in servers \/ deleting[k] = "unlinked"
    OBVIOUS
  <2>2. rows \in [Keys -> RowStates]
    BY <2>1 DEF IInv, Typed
  <2>3. ~(StartSync \/ SweepRead \/ Crash)
    BY <2>1 DEF StartSync, SweepRead, Crash, database
  <2>4. \A s \in Servers : ~(Probe(s) \/ Collect(s) \/ LoseServer(s) \/ RegainServer(s) \/ CheckAvailability(s))
    BY <2>1 DEF Probe, Collect, LoseServer, RegainServer, CheckAvailability, database
  <2>5. \A g \in Guests : ~(Vanish(g) \/ Appear(g))
    BY <2>1 DEF Vanish, Appear, database
  <2>6. \A j \in Keys : ~(LoadRow(j) \/ DeployReserve(j) \/ DeployCreate(j) \/ DeleteAccept(j)
                          \/ DeleteUnlink(j) \/ DeleteRelease(j))
    BY <2>1 DEF LoadRow, DeployReserve, DeployCreate, DeleteAccept, DeleteUnlink, DeleteRelease, database
  <2>7. ~UpsertCommit
    BY <2>1 DEF UpsertCommit
  <2>8. \A j \in Keys : ~(DeploySave(j) \/ DeleteSave(j))
    BY <2>1, <2>2 DEF DeploySave, DeleteSave
  <2>9. ASSUME NEW j \in Keys, DeleteMark(j) PROVE deleting[k] = "unlinked"
    BY <2>1, <2>2, <2>9 DEF DeleteMark
  <2>10. ASSUME NEW j \in Keys, MarkDeleted(j) PROVE k \in gone \union marked
    BY <2>1, <2>10 DEF MarkDeleted
  <2>11. ASSUME FinishSync PROVE k \in gone \union marked
    BY <2>1, <2>11 DEF FinishSync
  <2>12. k \in gone \union marked => k[1] \in servers
    BY <2>1 DEF IInv, OwnServers
  <2>13. QED
    BY <2>1, <2>3, <2>4, <2>5, <2>6, <2>7, <2>8, <2>9, <2>10, <2>11, <2>12
       DEF Next, SyncJob, Deployments, Deletions, Deletion, World
<1>2. QED
  BY <1>1, Inductive, PTL DEF Spec, OfflineKept

\* A living guest that nobody deletes loses its addresses only for one of the
\* three reasons: it came into being during the run, a server of its
\* installation did not answer, or it was stored under a server that does not
\* name its cluster.
THEOREM LossesHaveCause == Spec => LossHasCause
<1>1. IInv /\ [Next]_vars =>
        [\A k \in Keys : Loses(k) =>
            \/ k[2] \notin present \/ k[2] \in doomed \/ deleting[k] # "no"
            \/ k[2] \in fresh
            \/ Home[k[2]] \in flaky
            \/ \E s \in Servers : Site[s] = Home[k[2]] /\ s < k[1]]_vars
  <2>1. SUFFICES ASSUME IInv, Next, NEW k \in Keys, Loses(k), deleting[k] = "no", Steady(k[2])
                 PROVE  SmallerServer(k)
    BY DEF Steady, SmallerServer
  <2>2. MarkDeleted(k)
    BY <2>1, WhoReleases DEF DeleteUnlink, DeleteRelease
  <2>3. QED
    BY <2>1, <2>2 DEF MarkDeleted, IInv, GoneExplained
<1>2. QED
  BY <1>1, Inductive, PTL DEF Spec, LossHasCause
=============================================================================
