------------------------------ MODULE Promises ------------------------------
(***************************************************************************)
(* The components that promise something in the end, side by side, under   *)
(* the fairness of their schedulers: a behaviour is one of one of them,    *)
(* named by part.  The bulk queue is extended, the others are instances    *)
(* with variables of their own.                                            *)
(***************************************************************************)
EXTENDS TaskQueue

CONSTANTS
    Apps, AppVmids, AppWorkers, AppOps, AppVersions, AppEvents,   \* applications
    MaxFlips,                                                     \* a server that is watched
    Windows, PoolSize, MaxPrints, ConsoleEvents                   \* consoles

\* The mark of an event loop that nobody holds up.
ASSUME ConsolesAssumption == "nobody" \notin Windows

VARIABLES
    part,
    aReq, aRow, aOps, aCalls, aPass, aCt, aAlloc, aLatest, aMuddled, aCrossed, aEvents,
    mUp, mOnline, mKnown, mAlerted, mAvail, mVmjob, mTold, mExcused, mFlips,
    cCon, cBrowser, cFar, cPrinted, cShown, cJobs, cBlocked, cEvents

appsVars == <<aReq, aRow, aOps, aCalls, aPass, aCt, aAlloc, aLatest, aMuddled, aCrossed, aEvents>>
monitorVars == <<mUp, mOnline, mKnown, mAlerted, mAvail, mVmjob, mTold, mExcused, mFlips>>
consolesVars == <<cCon, cBrowser, cFar, cPrinted, cShown, cJobs, cBlocked, cEvents>>

A == INSTANCE AppStore WITH NVmids <- AppVmids, Workers <- AppWorkers, MaxOps <- AppOps,
        MaxVersion <- AppVersions, MaxEvents <- AppEvents,
        req <- aReq, row <- aRow, ops <- aOps, calls <- aCalls, pass <- aPass, ct <- aCt,
        alloc <- aAlloc, latest <- aLatest, muddled <- aMuddled, crossed <- aCrossed, events <- aEvents
M == INSTANCE ServerMonitor WITH up <- mUp, online <- mOnline, known <- mKnown, alerted <- mAlerted,
        avail <- mAvail, vmjob <- mVmjob, told <- mTold, excused <- mExcused, flips <- mFlips
C == INSTANCE Consoles WITH Consoles <- Windows, MaxEvents <- ConsoleEvents,
        con <- cCon, browser <- cBrowser, far <- cFar, printed <- cPrinted, shown <- cShown,
        jobs <- cJobs, blocked <- cBlocked, events <- cEvents

-----------------------------------------------------------------------------
PartsInit ==
    /\ part \in {"queue", "apps", "monitor", "consoles"}
    /\ Init /\ A!Init /\ M!Init /\ C!Init

BulkTasks == part = "queue" /\ Next /\ UNCHANGED <<part, appsVars, monitorVars, consolesVars>>
AppStep == part = "apps" /\ A!Next /\ UNCHANGED <<part, vars, monitorVars, consolesVars>>
MonitorStep == part = "monitor" /\ M!Next /\ UNCHANGED <<part, vars, appsVars, consolesVars>>
ConsoleStep == part = "consoles" /\ C!Next /\ UNCHANGED <<part, vars, appsVars, monitorVars>>

PartsNext == BulkTasks \/ AppStep \/ MonitorStep \/ ConsoleStep
partsVars == <<part, vars, appsVars, monitorVars, consolesVars>>

PartsSpec ==
    /\ PartsInit /\ [][PartsNext]_partsVars
    /\ WF_vars(part = "queue" /\ Processor) /\ WF_vars(part = "queue" /\ Restart)
    /\ \A o \in 1..AppOps : WF_appsVars(part = "apps" /\ A!JobStep(o))
    /\ WF_appsVars(part = "apps" /\ A!BeginPass)
    /\ WF_appsVars(part = "apps" /\ A!CommitPass)
    /\ \A v \in A!Vmids : WF_appsVars(part = "apps" /\ A!CreationEnds(v))
    /\ WF_monitorVars(part = "monitor" /\ M!AvailabilityStep)
    /\ WF_monitorVars(part = "monitor" /\ M!VmStatusStep)
    /\ WF_monitorVars(part = "monitor" /\ M!TenMinutes)
    /\ \A c \in Windows : WF_consolesVars(part = "consoles" /\ C!HandlerStep(c))

-----------------------------------------------------------------------------
\* What happens on Proxmox is found out in the end: a container of an
\* application that is gone, an outage and a recovery of a server that last.
OutsideNoticed == A!OrphansNoticed /\ M!OutageTold /\ M!RecoveryTold

ConsolesReleased == C!ConsolesReleased
\* What a console shows, and what it leaves behind.
ConsolesTrue == C!OutputInOrder /\ C!BothSidesClosed
=============================================================================
