------------------------------ MODULE Services ------------------------------
(***************************************************************************)
(* The services of the panel that share nothing in the model, side by      *)
(* side: a behaviour is one of one of them, named by part.  Each has its   *)
(* variables under names of its own.                                       *)
(***************************************************************************)
EXTENDS Naturals, FiniteSets, Sequences

CONSTANTS
    Parts,                                              \* the services a run is about
    Apps, AppVmids, AppWorkers, AppOps, AppVersions,    \* applications
    Deps, NVmids, NAddrs, MaxInstances,                 \* deployments
    Moves,                                              \* moves, over the same vmids
    Jobs, Requests, Runs,                               \* backups
    Sockets, Users, Channels, Senders, MaxSends,        \* sockets
    Logins, Resets, MaxAttempts,                        \* accounts
    MaxEvents, AppEvents, AccountEvents, MaxFlips       \* bounds

\* _connections and _channel_subscribers are two dictionaries: a user's key is
\* no channel's.
ASSUME ServicesAssumption ==
    /\ Parts \subseteq {"apps", "deployments", "moves", "backups", "sockets", "accounts", "monitor"}
    /\ Users \intersect Channels = {}
    /\ MaxSends \in Nat /\ MaxAttempts \in Nat /\ AccountEvents \in Nat
    /\ MaxEvents \in Nat
    /\ {NVmids, NAddrs, MaxInstances} \subseteq Nat \ {0}     \* one guest with an address is there
    /\ {AppVmids, AppOps, AppEvents} \subseteq Nat /\ AppVersions \in Nat \ {0}
    /\ MaxFlips \in Nat
    /\ "other" \notin Apps                  \* the owner of what is not an application's
    /\ "old" \notin Moves \union Deps                        \* the mark of what was there before

VARIABLES
    part,
    aReq, aRow, aOps, aCalls, aPass, aCt, aAlloc, aLatest, aMuddled, aCrossed, aEvents,
    dTask, dGuest, dCache, dAlloc, dDel, dContested, dOverlapped, dEvents,
    gTask, gPx, gGuest, gRow, gAlloc, gDisturbed, gEvents,
    bRow, bSched, bReq, bRun, bContested, bStuck, bEvents,
    wSock, wUser, wKeys, wMembers, wSender, wWanted, wSends,
    lPresent, lEnabled, lFailed, lLock, lLogin, lSess, lFresh, lRequest, lReset,
    lOutdated, lCrashed, lWrong, lCrossed, lEvents,
    mUp, mOnline, mKnown, mAlerted, mAvail, mVmjob, mTold, mExcused, mFlips

appsVars == <<aReq, aRow, aOps, aCalls, aPass, aCt, aAlloc, aLatest, aMuddled, aCrossed, aEvents>>
depsVars == <<dTask, dGuest, dCache, dAlloc, dDel, dContested, dOverlapped, dEvents>>
movesVars == <<gTask, gPx, gGuest, gRow, gAlloc, gDisturbed, gEvents>>
backupsVars == <<bRow, bSched, bReq, bRun, bContested, bStuck, bEvents>>
socketsVars == <<wSock, wUser, wKeys, wMembers, wSender, wWanted, wSends>>
accountsVars == <<lPresent, lEnabled, lFailed, lLock, lLogin, lSess, lFresh, lRequest, lReset,
                  lOutdated, lCrashed, lWrong, lCrossed, lEvents>>
monitorVars == <<mUp, mOnline, mKnown, mAlerted, mAvail, mVmjob, mTold, mExcused, mFlips>>

A == INSTANCE AppStore WITH NVmids <- AppVmids, Workers <- AppWorkers, MaxOps <- AppOps,
        MaxVersion <- AppVersions, MaxEvents <- AppEvents,
        req <- aReq, row <- aRow, ops <- aOps, calls <- aCalls, pass <- aPass, ct <- aCt,
        alloc <- aAlloc, latest <- aLatest, muddled <- aMuddled, crossed <- aCrossed, events <- aEvents
D == INSTANCE Deployment WITH task <- dTask, guest <- dGuest, cache <- dCache, alloc <- dAlloc,
        del <- dDel, contested <- dContested, overlapped <- dOverlapped, events <- dEvents
G == INSTANCE GuestMoves WITH task <- gTask, px <- gPx, guest <- gGuest, row <- gRow, alloc <- gAlloc,
        disturbed <- gDisturbed, events <- gEvents
B == INSTANCE Backups WITH row <- bRow, sched <- bSched, req <- bReq, run <- bRun, contested <- bContested,
        stuck <- bStuck, events <- bEvents
W == INSTANCE WebSockets WITH sock <- wSock, user <- wUser, keys <- wKeys,
        members <- wMembers, sender <- wSender, wanted <- wWanted, sends <- wSends
L == INSTANCE Accounts WITH MaxEvents <- AccountEvents, present <- lPresent, enabled <- lEnabled,
        failed <- lFailed, lock <- lLock, login <- lLogin, sess <- lSess, fresh <- lFresh, request <- lRequest, reset <- lReset, outdated <- lOutdated,
        crashed <- lCrashed, wrong <- lWrong, crossed <- lCrossed, events <- lEvents
M == INSTANCE ServerMonitor WITH up <- mUp, online <- mOnline, known <- mKnown, alerted <- mAlerted,
        avail <- mAvail, vmjob <- mVmjob, told <- mTold, excused <- mExcused, flips <- mFlips

\* Of a part that a behaviour is not about one initial state is enough.
Init ==
    /\ part \in Parts
    /\ A!Init /\ D!Init /\ G!Init /\ B!Init /\ W!Init /\ L!Init /\ M!Init
    /\ part # "backups" => bRow = [j \in Jobs |-> B!NoRow]
    /\ part # "accounts" => lFailed = 0
    /\ part # "deployments" => dCache[1].owned

-----------------------------------------------------------------------------
AppStep == part = "apps" /\ A!Next /\ UNCHANGED <<part, depsVars, movesVars, backupsVars, socketsVars, accountsVars, monitorVars>>
DeploymentStep == part = "deployments" /\ D!Next /\ UNCHANGED <<part, appsVars, movesVars, backupsVars, socketsVars, accountsVars, monitorVars>>
MoveStep == part = "moves" /\ G!Next /\ UNCHANGED <<part, appsVars, depsVars, backupsVars, socketsVars, accountsVars, monitorVars>>
BackupJobStep == part = "backups" /\ B!Next /\ UNCHANGED <<part, appsVars, depsVars, movesVars, socketsVars, accountsVars, monitorVars>>
SocketStep == part = "sockets" /\ W!Next /\ UNCHANGED <<part, appsVars, depsVars, movesVars, backupsVars, accountsVars, monitorVars>>
AccountStep == part = "accounts" /\ L!Next /\ UNCHANGED <<part, appsVars, depsVars, movesVars, backupsVars, socketsVars, monitorVars>>
MonitorStep == part = "monitor" /\ M!Next /\ UNCHANGED <<part, appsVars, depsVars, movesVars, backupsVars, socketsVars, accountsVars>>

Next ==
    AppStep \/ DeploymentStep \/ MoveStep \/ BackupJobStep \/ SocketStep \/ AccountStep \/ MonitorStep

vars == <<part, appsVars, depsVars, movesVars, backupsVars, socketsVars, accountsVars, monitorVars>>
Spec == Init /\ [][Next]_vars

-----------------------------------------------------------------------------
(* The properties of the services, each for its part.                      *)
TypeOK ==
    /\ part \in Parts
    /\ CASE part = "apps" -> A!TypeOK [] part = "deployments" -> D!TypeOK [] part = "moves" -> G!TypeOK
         [] part = "backups" -> B!TypeOK [] part = "sockets" -> W!TypeOK [] part = "accounts" -> L!TypeOK
         [] part = "monitor" -> M!TypeOK

\* Applications: the version shown, the snapshot to go back to, the row of a container.
AppsTrue == part = "apps" => A!VersionTrue /\ A!SnapshotKept /\ A!ContainerHasRow
\* Deployments: the quota, and no two automatic choices alike.
DeploymentsTrue == part = "deployments" => D!QuotaHeld /\ D!AutomaticDiffer
\* Backup jobs: the schedule is the row's, and a running job has a run.
BackupsTrue == part = "backups" => B!ScheduleFollows /\ B!RunningHasRun
\* Nobody but the living: both halves of what the connection manager owes.
MembershipTrue == part = "sockets" => W!ClosedForgotten /\ W!LiveKeepTheirPlace
\* Accounts: a reset ends the sessions, and failures are counted.
AccountsTrue == part = "accounts" => L!ResetEndsSessions /\ L!CounterTrue

\* What a step may never do: the parts a behaviour is not about never move.
SessionsEnd == L!EndedStaysEnded /\ L!LockLifted
OwnerMoves == G!OwnerMoves
\* Who is there keeps the address: applications, deployed and moved guests.
AddressesKept == A!AddressHeld /\ D!AddressStays /\ G!AddressGoesLast
=============================================================================
