--------------------------- MODULE UpidSyncProofs ---------------------------
(***************************************************************************)
(* Proofs about the tracking of Proxmox tasks, for any tasks, servers and  *)
(* threshold, and any number of errors, outages, removals and crashes.     *)
(***************************************************************************)
EXTENDS UpidSync, TLAPS

\* A registered deletion was carried out; a registered task of Proxmox is
\* known there; only deletions wait for a second commit.
Registered ==
    \A t \in Tasks :
        /\ row[t] # "none" => pve[t] # "none"
        /\ row[t] # "none" /\ Kind[t] # "upid" => pve[t] = "ok"
        /\ t \in halfway => Kind[t] = "vm_delete" /\ row[t] # "none"

\* The count in memory never exceeds the failures there were.
CountsHonest == \A t \in Tasks : fails[t] <= streak[t] \/ streak[t] >= Threshold

\* What the job has still to look at, and what it holds.
JobInv ==
    /\ \A t \in todo : row[t] # "none" /\ (Kind[t] = "upid" => row[t] = "running")
    /\ pc = "give_up" => streak[cur] >= Threshold /\ got \in {"error", "long"}
    /\ pc = "record" => /\ Kind[cur] = "upid"
                        /\ got \in {"running"} \union Ends
                        /\ got \in Ends => pve[cur] = got

\* The inductive invariant behind the safety theorems.
IInv ==
    /\ TypeOK
    /\ OutcomeHasCause
    /\ Registered
    /\ CountsHonest
    /\ JobInv

LEMMA InitIInv == Init => IInv
<1> SUFFICES ASSUME Init PROVE IInv
  OBVIOUS
<1>1. TypeOK
  BY DEF Init, TypeOK, RowStates, Ends, Nothing
<1>2. OutcomeHasCause /\ Registered /\ JobInv
  BY DEF Init, OutcomeHasCause, Registered, JobInv
<1>3. CountsHonest
  <2> SUFFICES ASSUME NEW t \in Tasks PROVE fails[t] <= streak[t]
    BY DEF CountsHonest
  <2>1. fails[t] = 0 /\ streak[t] = 0
    BY DEF Init
  <2>2. QED
    BY <2>1
<1>4. QED
  BY <1>1, <1>2, <1>3 DEF IInv

LEMMA StutterIInv == IInv /\ UNCHANGED vars => IInv'
  BY DEF vars, IInv, TypeOK, OutcomeHasCause, Registered, CountsHonest, JobInv

LEMMA ApiIInv ==
    ASSUME IInv, Api
    PROVE  IInv'
<1> USE KindAssumption DEF IInv, TypeOK, OutcomeHasCause, Registered, CountsHonest, JobInv,
        proxmox, servers, job, bounds, RowStates, Finished, Ends, Kinds
<1>1. ASSUME NEW t \in Tasks, Register(t) PROVE IInv'
  BY <1>1 DEF Register
<1>2. ASSUME NEW t \in Tasks, CompleteDeletion(t) PROVE IInv'
  BY <1>2 DEF CompleteDeletion
<1>3. CASE ClearCompleted
  BY <1>3 DEF ClearCompleted
<1>4. ASSUME NEW s \in Servers, RemoveServer(s) PROVE IInv'
  BY <1>4 DEF RemoveServer
<1>5. QED
  BY <1>1, <1>2, <1>3, <1>4 DEF Api

LEMMA WorldIInv ==
    ASSUME IInv, World \/ Crash
    PROVE  IInv'
<1> USE BoundsAssumption DEF IInv, TypeOK, OutcomeHasCause, Registered, CountsHonest, JobInv,
        proxmox, servers, job, bounds, Ends, Nothing
<1>1. ASSUME NEW t \in Tasks, TaskEnds(t) PROVE IInv'
  BY <1>1 DEF TaskEnds
<1>2. ASSUME NEW s \in Servers, LoseServer(s) PROVE IInv'
  BY <1>2 DEF LoseServer
<1>3. ASSUME NEW s \in Servers, RegainServer(s) PROVE IInv'
  BY <1>3 DEF RegainServer
<1>4. ASSUME NEW s \in Servers, CheckAvailability(s) PROVE IInv'
  BY <1>4 DEF CheckAvailability
<1>5. CASE Crash
  <2> USE <1>5 DEF Crash, EndRun
  <2>1. TypeOK'
    <3>1. fails' \in [Tasks -> Nat] /\ crashes' \in Nat
      OBVIOUS
    <3>2. pc' = "idle" /\ todo' = {} /\ cur' = NoTask /\ got' = Nothing /\ expired' = FALSE
      OBVIOUS
    <3>3. halfway' = {} /\ UNCHANGED <<pve, reach, known, online, row, streak,
                                      errors, outages, removals>>
      OBVIOUS
    <3>4. QED
      BY <3>1, <3>2, <3>3
  <2>2. OutcomeHasCause' /\ Registered' /\ JobInv'
    OBVIOUS
  <2>3. ASSUME NEW t \in Tasks PROVE fails'[t] <= streak'[t]
    <3>1. fails'[t] = 0 /\ streak'[t] \in Nat
      OBVIOUS
    <3>2. QED
      BY <3>1
  <2>4. CountsHonest'
    BY <2>3, Zenon
  <2>5. QED
    BY <2>1, <2>2, <2>4, Zenon
<1>6. QED
  BY <1>1, <1>2, <1>3, <1>4, <1>5 DEF World

LEMMA PollJobIInv ==
    ASSUME IInv, PollJob
    PROVE  IInv'
<1> USE BoundsAssumption, NoTaskAssumption
    DEF IInv, TypeOK, OutcomeHasCause, Registered, CountsHonest, JobInv, proxmox, servers, job,
        bounds, RowStates, Ends, Nothing, EndRun, RowDone
<1>1. CASE StartPoll
  BY <1>1 DEF StartPoll
<1>2. ASSUME NEW t \in Tasks, FindGone(t) PROVE IInv'
  BY <1>2 DEF FindGone
<1>3. ASSUME NEW t \in Tasks, Skip(t) PROVE IInv'
  BY <1>3 DEF Skip
<1>4. ASSUME NEW t \in Tasks, PollAnswers(t) PROVE IInv'
  BY <1>4 DEF PollAnswers, Poll
<1>5. ASSUME NEW t \in Tasks, PollFails(t) PROVE IInv'
  BY <1>5 DEF PollFails, Poll
<1>6. CASE GiveUp
  <2> USE <1>6 DEF GiveUp, CommitFails
  <2>1. CASE CommitFails
    BY <2>1
  <2>2. CASE ~CommitFails
    <3>1. /\ row' = [row EXCEPT ![cur] = "failed"] /\ fails' = [fails EXCEPT ![cur] = 0]
          /\ pc' = "loop" /\ todo' = todo \ {cur} /\ cur' = NoTask /\ got' = "nothing"
          /\ expired' = TRUE
          /\ UNCHANGED <<pve, reach, known, online, halfway, errors, outages, removals,
                         crashes, streak>>
      BY <2>2
    <3>2. cur \in Tasks /\ streak[cur] >= Threshold /\ row[cur] # "none"
      OBVIOUS
    <3>3. TypeOK'
      BY <3>1, <3>2
    <3>4. OutcomeHasCause' /\ Registered' /\ JobInv'
      BY <3>1, <3>2
    <3>5. CountsHonest'
      BY <3>1, <3>2
    <3>6. QED
      BY <3>3, <3>4, <3>5
  <2>3. QED
    BY <2>1, <2>2
<1>7. CASE Record
  <2> USE <1>7 DEF Record, CommitFails
  <2>1. CASE CommitFails
    BY <2>1
  <2>2. CASE ~CommitFails
    <3>1. got \in {"ok", "error", "running"} /\ row[cur] # "deleted" /\ cur \in Tasks
      BY <2>2
    <3>2. /\ row' \in {[row EXCEPT ![cur] = "completed"], [row EXCEPT ![cur] = "failed"], row}
          /\ row'[cur] # "deleted"
      BY <2>2, <3>1
    <3> QED BY <2>2, <3>1, <3>2
  <2> QED BY <2>1, <2>2
<1>8. CASE FinishPoll
  BY <1>8 DEF FinishPoll
<1>9. QED
  BY <1>1, <1>2, <1>3, <1>4, <1>5, <1>6, <1>7, <1>8 DEF PollJob

\* The inductive invariant holds in every reachable state.
THEOREM TrackingInvariant == Spec => []IInv
<1>1. IInv /\ [Next]_vars => IInv'
  BY StutterIInv, ApiIInv, WorldIInv, PollJobIInv DEF Next
<1>2. QED
  BY InitIInv, <1>1, PTL DEF Spec

\* Type correctness of the tracker.
THEOREM TrackerTypeOK == Spec => []TypeOK
<1>1. IInv => TypeOK
  BY DEF IInv
<1>2. QED
  BY TrackingInvariant, <1>1, PTL

\* No living task is given up before Threshold polls in a row have failed, and
\* 'completed' is never said of a task that did not succeed.
THEOREM OutcomesHaveCause == Spec => []OutcomeHasCause
<1>1. IInv => OutcomeHasCause
  BY DEF IInv
<1>2. QED
  BY TrackingInvariant, <1>1, PTL
=============================================================================
