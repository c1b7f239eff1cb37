------------------------------- MODULE Panel -------------------------------
(***************************************************************************)
(* The parts of the panel around its services, side by side: a behaviour   *)
(* is one of one of them, named by part, and v1 to v12 are the variables   *)
(* of that part; those it does not need are None.                          *)
(***************************************************************************)
EXTENDS Naturals, FiniteSets, Sequences

CONSTANTS
    Parts,                                          \* the parts a run is about
    Requests,                                       \* threads, requests, logins, jobs
    TokenNames, CacheSize, MaxSecrets,              \* connections
    Users, RoleNames, Admin, Grants, MaxRequests,       \* users
    Threshold, MaxFails, GateSecrets, MaxCodes,     \* the gate of a login
    NVolumes, Longer,                               \* hardware
    Servers, NodeName, ClusterGuests,               \* clusters
    NNames, MaxItems, MaxCalls,                     \* firewall
    NNets, NPools, NAddrs, Guests,                  \* networks
    NVmids, NRows,                                  \* templates
    MaxEvents, HardwareEvents, StartEvents          \* bounds

ASSUME PanelAssumption ==
    /\ Parts \subseteq {"connections", "users", "gate", "hardware", "startup", "schema",
                        "clusters", "firewall", "networks", "node", "templates"}
    /\ IsFiniteSet(Requests)
    \* ip_block_threshold is at least 1; the bounds are numbers.
    /\ Threshold \in Nat \ {0} /\ {MaxFails, GateSecrets, MaxCodes} \subseteq Nat
    /\ {TokenNames, CacheSize, MaxEvents} \subseteq Nat /\ MaxSecrets \in Nat \ {0}
    /\ NVolumes \in Nat \ {0} /\ HardwareEvents \in Nat     \* a guest has a disk
    /\ NVmids \in Nat \ {0} /\ NRows \in Nat               \* there is a template
    \* There are a network, a pool, an address and a guest; guests have ids.
    /\ {NNets, NPools, NAddrs} \subseteq Nat \ {0} /\ Guests \subseteq Nat \ {0} /\ Guests # {}
    \* Keys of rows start at 1: 0 stands for no server.
    /\ 0 \notin Servers

VARIABLES
    part,
    v1, v2, v3, v4, v5, v6, v7, v8, v9, v10, v11, v12

N == INSTANCE Connections WITH Threads <- Requests, NNames <- TokenNames, accepted <- v1,
        row <- v2, cache <- v3, thr <- v4, replaced <- v5, made <- v6, left <- v7,
        crossed <- v8, issued <- v9, events <- v10
R == INSTANCE Administration WITH Roles <- RoleNames, usr <- v1, role <- v2, req <- v3, crossed <- v4,
        byRole <- v5, count <- v6
L == INSTANCE LoginGate WITH Logins <- Requests, MaxSecrets <- GateSecrets, block <- v1,
        fails <- v2, tried <- v3, tfa <- v4, thr <- v5, confirmed <- v6, spent <- v7,
        crossed <- v8, drawn <- v9
H == INSTANCE GuestHardware WITH MaxEvents <- HardwareEvents, slot <- v1, unused <- v2,
        boot <- v3, power <- v4, status <- v5, req <- v6, loop <- v7, made <- v8,
        lost <- v9, asked <- v10, crossed <- v11, events <- v12
S == INSTANCE Startup WITH MaxEvents <- StartEvents, role <- v1, markers <- v2, step <- v3,
        decided <- v4, events <- v5
M == INSTANCE Schema WITH db <- v1, tx <- v2, at <- v3, failed <- v4, events <- v5
C == INSTANCE Clusters WITH Guests <- ClusterGuests, member <- v1, shown <- v2,
        tasks <- v3, at <- v4, req <- v5, saved <- v6, destroyed <- v7, overwritten <- v8,
        unseen <- v9, unsure <- v10, events <- v11
F == INSTANCE Firewall WITH items <- v1, made <- v2, req <- v3, hits <- v4, calls <- v5
W == INSTANCE Networks WITH net <- v1, pool <- v2, alloc <- v3, guest <- v4, req <- v5,
        crossed <- v6, bySdn <- v7, lost <- v8, unforced <- v9, events <- v10
D == INSTANCE NodeSettings WITH conf <- v1, live <- v2, tasks <- v3, repos <- v4,
        cert <- v5, req <- v6, undone <- v7, due <- v8, missed <- v9, quiet <- v10,
        kept <- v11, events <- v12
T == INSTANCE Templates WITH Jobs <- Requests, vol <- v1, guest <- v2, gone <- v3,
        group <- v4, row <- v5, job <- v6, crossed <- v7, converted <- v8, told <- v9,
        cloned <- v10, events <- v11

\* The administrators' role is one of the roles, and what is granted is of the
\* permissions told apart; the bounds of the firewall and of starts are numbers.
ASSUME BoundsAssumption ==
    /\ Admin \in RoleNames /\ Grants \subseteq SUBSET R!Perms
    /\ {MaxItems, MaxCalls, StartEvents} \subseteq Nat

-----------------------------------------------------------------------------
None == "none"

Init ==
    /\ part \in Parts
    /\ \/ part = "connections" /\ N!Init /\ v11 = None /\ v12 = None
       \/ part = "users" /\ R!Init /\ v7 = None /\ v8 = None /\ v9 = None /\ v10 = None /\ v11 = None /\ v12 = None
       \/ part = "gate" /\ L!Init /\ v10 = None /\ v11 = None /\ v12 = None
       \/ part = "hardware" /\ H!Init
       \/ part = "startup" /\ S!Init /\ v6 = None /\ v7 = None /\ v8 = None /\ v9 = None /\ v10 = None /\ v11 = None /\ v12 = None
       \/ part = "schema" /\ M!Init /\ v6 = None /\ v7 = None /\ v8 = None /\ v9 = None /\ v10 = None /\ v11 = None /\ v12 = None
       \/ part = "clusters" /\ C!Init /\ v12 = None
       \/ part = "firewall" /\ F!Init /\ v6 = None /\ v7 = None /\ v8 = None /\ v9 = None /\ v10 = None /\ v11 = None /\ v12 = None
       \/ part = "networks" /\ W!Init /\ v11 = None /\ v12 = None
       \/ part = "node" /\ D!Init
       \/ part = "templates" /\ T!Init /\ v12 = None

ConnectionStep == part = "connections" /\ N!Next /\ UNCHANGED <<part, v11, v12>>
UserStep == part = "users" /\ R!Next /\ UNCHANGED <<part, v7, v8, v9, v10, v11, v12>>
GateStep == part = "gate" /\ L!Next /\ UNCHANGED <<part, v10, v11, v12>>
HardwareStep == part = "hardware" /\ H!Next /\ UNCHANGED part
StartStep == part = "startup" /\ S!Next /\ UNCHANGED <<part, v6, v7, v8, v9, v10, v11, v12>>
UpgradeStep == part = "schema" /\ M!Next /\ UNCHANGED <<part, v6, v7, v8, v9, v10, v11, v12>>
ClusterStep == part = "clusters" /\ C!Next /\ UNCHANGED <<part, v12>>
RuleStep == part = "firewall" /\ F!Next /\ UNCHANGED <<part, v6, v7, v8, v9, v10, v11, v12>>
NetworkStep == part = "networks" /\ W!Next /\ UNCHANGED <<part, v11, v12>>
SettingStep == part = "node" /\ D!Next /\ UNCHANGED part
ImageStep == part = "templates" /\ T!Next /\ UNCHANGED <<part, v12>>

Next == ConnectionStep \/ UserStep \/ GateStep \/ HardwareStep \/ StartStep \/ UpgradeStep
        \/ ClusterStep \/ RuleStep \/ NetworkStep \/ SettingStep \/ ImageStep

vars == <<part, v1, v2, v3, v4, v5, v6, v7, v8, v9, v10, v11, v12>>
Spec == Init /\ [][Next]_vars

-----------------------------------------------------------------------------
(* The properties of the parts, each for its own.                          *)
TypeOK ==
    /\ part \in Parts
    /\ CASE part = "connections" -> N!TypeOK
         [] part = "users" -> R!TypeOK [] part = "gate" -> L!TypeOK
         [] part = "hardware" -> H!TypeOK [] part = "startup" -> S!TypeOK
         [] part = "schema" -> M!TypeOK [] part = "clusters" -> C!TypeOK
         [] part = "firewall" -> F!TypeOK [] part = "networks" -> W!TypeOK
         [] part = "node" -> D!TypeOK [] part = "templates" -> T!TypeOK

\* What Proxmox is asked with, and what it was had to issue.
CredentialsTrue == part = "connections" => N!CredentialsFresh /\ N!TokensAccounted
\* Who may act: an administrator remains, the gate of the login is bounded and true.
AccessHolds ==
    /\ part = "users" => R!AdminRemains
    /\ part = "gate" => L!TriesBounded /\ L!SecondFactorTrue
\* What guests are made of: their volumes, the boot order in force, and the
\* images and templates they come from.
GuestsTrue ==
    /\ part = "hardware" => H!VolumesKept /\ H!RestartApplies
    /\ part = "templates" => T!TemplatesTrue
\* What a start leaves: the choices of administrators, and a schema with its values.
StartsTrue ==
    /\ part = "startup" => S!ChoicesSurvive
    /\ part = "schema" => M!SchemaComplete /\ M!BackfillWithColumn /\ M!ChoicesStand
\* Clusters: guests outlive the forming of one, and servers are shown where they are.
ClusterTrue == part = "clusters" => C!GuestsKept /\ C!MembershipTrue
\* Changes to shared lists and rows reach what they were meant for, and take
\* nothing away that another request or a guest relies on.
EditsTrue ==
    /\ part = "firewall" => F!RightOneReached
    /\ part = "networks" => W!NetworksApart /\ W!PoolsApart /\ W!NothingLeftBehind /\ W!GuestsKeepAddresses
    /\ part = "node" => D!SettingsKept
=============================================================================
