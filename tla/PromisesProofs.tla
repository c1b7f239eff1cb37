--------------------------- MODULE PromisesProofs ---------------------------
(***************************************************************************)
(* Proofs about components of Promises: the bulk queue, for any number of  *)
(* tasks, items, users, request threads, crashes and database errors, and  *)
(* the consoles, for any number of them, any pool and any number of events.*)
(***************************************************************************)
EXTENDS Promises, SequenceTheorems, TLAPS

-----------------------------------------------------------------------------
(* The bulk queue.                                                         *)

\* Rows that were never started have no results and caused no Proxmox call.
FreshRows ==
    \A t \in Tasks : status[t] \in {"none", "pending"} =>
        results[t] = << >> /\ calls[t] = << >>

\* What the processor's position says about the row it holds.
ProcInv ==
    /\ pc \in {"picked", "loaded"} => \A t \in Tasks : status[t] # "running"
    /\ pc = "loaded" => results[cur] = << >> /\ calls[cur] = << >>
    /\ pc \in {"loop", "done_item"} =>
        /\ status[cur] \notin {"none", "pending"}
        /\ Len(res) <= Total[cur]
        /\ \A i \in DOMAIN calls[cur] : calls[cur][i] <= Len(res)
    /\ pc = "loop" => results[cur] = res
    /\ pc = "done_item" => Len(results[cur]) + 1 = Len(res)

\* The inductive invariant behind the safety theorems.
IInv ==
    /\ TypeOK
    /\ SingleRunning
    /\ ItemsOnceInOrder
    /\ JournalHonest
    /\ FreshRows
    /\ ProcInv

USE DEF Tasks, NoTask

\* What a log of Proxmox calls holds are numbers of items.
LEMMA NumbersOfItems ==
  ASSUME NEW s \in Seq(Nat)
  PROVE  /\ Len(s) \in Nat /\ DOMAIN s = 1..Len(s)
         /\ \A i \in DOMAIN s : s[i] \in Nat
  OBVIOUS

\* What the leaves below need to know of result lists and call logs.
LEMMA EmptyLists == << >> \in Seq(BOOLEAN) /\ Len(<< >>) = 0
  OBVIOUS

LEMMA AppendFacts ==
    ASSUME NEW S, NEW s \in Seq(S), NEW x \in S
    PROVE  /\ Append(s, x) \in Seq(S)
           /\ Len(s) \in Nat /\ Len(Append(s, x)) = Len(s) + 1
           /\ DOMAIN s = 1..Len(s) /\ DOMAIN Append(s, x) = 1..(Len(s) + 1)
           /\ \A i \in 1..Len(s) : Append(s, x)[i] = s[i]
           /\ Append(s, x)[Len(s) + 1] = x
  OBVIOUS

-----------------------------------------------------------------------------
LEMMA InitIInv == Init => IInv
  BY BoundsAssumption DEF Init, IInv, TypeOK, SingleRunning, ItemsOnceInOrder, JournalHonest,
         FreshRows, ProcInv, Status, Done

\* Steps that change no row, no call log and leave the processor idle or
\* where it was.
LEMMA StutterIInv == IInv /\ UNCHANGED vars => IInv'
  BY DEF vars, IInv, TypeOK, SingleRunning, ItemsOnceInOrder, JournalHonest,
         FreshRows, ProcInv

LEMMA ApiIInv ==
    ASSUME IInv, Api
    PROVE  IInv'
<1> USE DEF IInv, TypeOK
<1>1. ASSUME NEW t \in Tasks, CreateTask(t) PROVE IInv'
  BY <1>1 DEF CreateTask, rowVars, procVars, faultVars, Status, Done, SingleRunning,
     ItemsOnceInOrder, JournalHonest, FreshRows, ProcInv
<1>2. ASSUME NEW r \in Requests, NEW u \in Users, NEW t \in Tasks, CancelRead(r, u, t)
      PROVE  IInv'
  BY <1>2 DEF CancelRead, rowVars, procVars, faultVars, SingleRunning,
     ItemsOnceInOrder, JournalHonest, FreshRows, ProcInv
<1>3. ASSUME NEW r \in Requests, CancelCommit(r) PROVE IInv'
  BY <1>3 DEF CancelCommit, rowVars, procVars, faultVars, Status, Done, SingleRunning,
     ItemsOnceInOrder, JournalHonest, FreshRows, ProcInv
<1>4. ASSUME NEW u \in Users, ClearCompleted(u) PROVE IInv'
  BY <1>4 DEF ClearCompleted, rowVars, procVars, faultVars, Status, Done, SingleRunning,
     ItemsOnceInOrder, JournalHonest, FreshRows, ProcInv
<1>5. QED
  BY <1>1, <1>2, <1>3, <1>4 DEF Api

LEMMA FaultIInv ==
    ASSUME IInv, DbError \/ Crash \/ Restart
    PROVE  IInv'
<1> USE DEF IInv, TypeOK
<1>1. CASE DbError
  BY <1>1 DEF DbError, GoIdle, rowVars, procVars, faultVars, SingleRunning,
     ItemsOnceInOrder, JournalHonest, FreshRows, ProcInv
<1>2. CASE Crash
  <2>1. UNCHANGED <<status, completed, failed, results, dbErrors, calls>>
    BY <1>2 DEF Crash, rowVars
  <2>2. up' = FALSE /\ crashes' = crashes + 1 /\ pc' = "idle" /\ cur' = NoTask /\ res' = << >>
    BY <1>2 DEF Crash, GoIdle
  <2>3. req' \in [Requests -> Tasks \union {NoTask}]
    BY <1>2 DEF Crash
  <2>4. TypeOK'
    <3>0. crashes' \in Nat
      BY <2>2
    <3>1. up' \in BOOLEAN /\ crashes' \in Nat /\ res' \in Seq(BOOLEAN)
      BY <2>2, <3>0, EmptyLists, Zenon
    <3>2. /\ status' \in [Tasks -> Status] /\ results' \in [Tasks -> Seq(BOOLEAN)]
          /\ completed' \in [Tasks -> Nat] /\ failed' \in [Tasks -> Nat]
          /\ dbErrors' \in Nat /\ calls' \in [Tasks -> Seq(Nat)]
      BY <2>1, Zenon
    <3>3. /\ pc' \in {"idle", "picked", "loaded", "loop", "done_item"}
          /\ cur' \in Tasks \union {NoTask} /\ (pc' = "idle" <=> cur' = NoTask)
      BY <2>2
    <3>4. QED
      BY <2>3, <3>1, <3>2, <3>3, Zenon
  <2>5. SingleRunning' /\ ItemsOnceInOrder' /\ JournalHonest' /\ FreshRows'
    BY <2>1 DEF SingleRunning, ItemsOnceInOrder, JournalHonest, FreshRows
  <2>6. ProcInv'
    BY <2>2 DEF ProcInv
  <2>7. QED
    BY <2>4, <2>5, <2>6
<1>3. CASE Restart
  <2> USE <1>3 DEF Restart, RecoverInterrupted, rowVars, procVars, faultVars
  <2>1. TypeOK'
    BY EmptyLists DEF Status, Done
  <2>2. SingleRunning'
    BY DEF SingleRunning, ProcInv
  <2>3. ItemsOnceInOrder'
    BY DEF ItemsOnceInOrder
  <2>4. JournalHonest'
    BY DEF JournalHonest, ProcInv
  <2>5. FreshRows'
    BY DEF FreshRows, ProcInv
  <2>6. ProcInv'
    BY DEF ProcInv, FreshRows
  <2>7. QED
    BY <2>1, <2>2, <2>3, <2>4, <2>5, <2>6
<1>4. QED
  BY <1>1, <1>2, <1>3

LEMMA ProcessorIInv ==
    ASSUME IInv, Processor
    PROVE  IInv'
<1> USE DEF IInv, TypeOK
<1>1. CASE PickTask
  BY <1>1 DEF PickTask, OldestPending, rowVars, procVars, faultVars, SingleRunning,
     ItemsOnceInOrder, JournalHonest, FreshRows, ProcInv
<1>2. CASE LoadTask
  <2> USE <1>2 DEF LoadTask, GoIdle, rowVars, procVars, faultVars
  <2>1. TypeOK'
    BY EmptyLists DEF Status, Done
  <2>2. SingleRunning'
    BY DEF SingleRunning, ProcInv
  <2>3. ItemsOnceInOrder'
    BY DEF ItemsOnceInOrder
  <2>4. JournalHonest'
    BY DEF JournalHonest, ProcInv
  <2>5. FreshRows'
    BY DEF FreshRows, ProcInv
  <2>6. ProcInv'
    BY DEF ProcInv, FreshRows
  <2>7. QED
    BY <2>1, <2>2, <2>3, <2>4, <2>5, <2>6
<1>3. CASE MarkRunning
  <2> USE <1>3, TotalAssumption DEF MarkRunning, GoIdle, rowVars, procVars, faultVars
  <2>1. TypeOK'
    BY EmptyLists DEF Status, Done
  <2>2. SingleRunning'
    BY DEF SingleRunning, ProcInv
  <2>3. ItemsOnceInOrder'
    BY DEF ItemsOnceInOrder
  <2>4. JournalHonest'
    BY DEF JournalHonest, ProcInv
  <2>5. FreshRows'
    BY DEF FreshRows, ProcInv
  <2>6. ProcInv'
    <3>1. CASE status[cur] = "deleted"
      BY <3>1 DEF ProcInv
    <3>2. CASE status[cur] # "deleted"
      <4>1. /\ cur \in Tasks /\ cur' = cur /\ pc' = "loop" /\ res' = << >>
            /\ status'[cur] = "running" /\ UNCHANGED <<results, calls>>
        BY <3>2
      <4>2. results[cur] = << >> /\ calls[cur] = << >>
        BY DEF ProcInv
      <4>3. Len(res') = 0 /\ Total[cur] \in Nat /\ DOMAIN calls[cur] = {}
        BY <4>1, <4>2, EmptyLists
      <4>4. QED
        BY <4>1, <4>2, <4>3 DEF ProcInv
    <3>3. QED
      BY <3>1, <3>2
  <2>7. QED
    BY <2>1, <2>2, <2>3, <2>4, <2>5, <2>6
<1>4. CASE ProcessItem
  <2> cur \in Tasks
    BY <1>4 DEF ProcessItem
  <2>1. PICK o \in ItemOutcomes :
           /\ res' = Append(res, o = "ok")
           /\ calls' = IF o = "no_client" THEN calls
                       ELSE [calls EXCEPT ![cur] = Append(calls[cur], Len(res) + 1)]
    BY <1>4 DEF ProcessItem
  <2>2. res' \in Seq(BOOLEAN) /\ Len(res') = Len(res) + 1 /\ Len(res) \in Nat
    BY <2>1
  <2>3. /\ calls' \in [Tasks -> Seq(Nat)]
        /\ \A t \in Tasks : t # cur => calls'[t] = calls[t]
    <3>1. calls[cur] \in Seq(Nat) /\ Len(res) + 1 \in Nat
      BY <2>2
    <3>2. Append(calls[cur], Len(res) + 1) \in Seq(Nat)
      BY <3>1, AppendFacts
    <3>3. QED
      BY <2>1, <3>2
  <2>4. /\ \A i, j \in DOMAIN calls'[cur] : i < j => calls'[cur][i] < calls'[cur][j]
        /\ \A i \in DOMAIN calls'[cur] : calls'[cur][i] <= Len(res')
    <3>1. CASE o = "no_client"
      BY <1>4, <2>1, <2>2, <3>1 DEF ProcessItem, ItemsOnceInOrder, ProcInv
    <3>2. CASE o # "no_client"
      <4>1. calls'[cur] = Append(calls[cur], Len(res) + 1)
        BY <2>1, <3>2
      <4>2. \A i \in DOMAIN calls[cur] : calls[cur][i] <= Len(res)
        BY <1>4 DEF ProcessItem, ProcInv
      <4>3. /\ calls[cur] \in Seq(Nat) /\ Len(calls[cur]) \in Nat
            /\ DOMAIN calls[cur] = 1..Len(calls[cur])
            /\ \A i, j \in DOMAIN calls[cur] : i < j => calls[cur][i] < calls[cur][j]
        BY DEF ItemsOnceInOrder
      <4>4. /\ DOMAIN calls'[cur] = 1..(Len(calls[cur]) + 1)
            /\ \A i \in 1..Len(calls[cur]) : calls'[cur][i] = calls[cur][i]
            /\ calls'[cur][Len(calls[cur]) + 1] = Len(res) + 1
        BY <2>2, <4>1, <4>3
      <4>5. \A i \in 1..Len(calls[cur]) :
                calls[cur][i] \in Nat /\ calls[cur][i] <= Len(res)
        <5>1. calls[cur] \in Seq(Nat)
          BY <4>3
        <5>2. \A i \in DOMAIN calls[cur] : calls[cur][i] \in Nat
          BY ONLY <5>1, NumbersOfItems
        <5>3. QED
          BY <4>2, <4>3, <5>2
      <4>6. ASSUME NEW i \in DOMAIN calls'[cur], NEW j \in DOMAIN calls'[cur], i < j
            PROVE  calls'[cur][i] < calls'[cur][j]
        <5>1. i \in 1..Len(calls[cur])
          BY <4>3, <4>4, <4>6
        <5>2. CASE j = Len(calls[cur]) + 1
          <6>1. calls'[cur][i] = calls[cur][i] /\ calls[cur][i] \in Nat /\ calls[cur][i] <= Len(res)
            BY <4>4, <4>5, <5>1, Zenon
          <6>2. calls'[cur][j] = Len(res) + 1 /\ Len(res) \in Nat
            BY <2>2, <4>4, <5>2
          <6>3. QED
            BY ONLY <6>1, <6>2
        <5>3. CASE j \in 1..Len(calls[cur])
          BY <4>3, <4>4, <4>6, <5>1, <5>3
        <5>4. QED
          BY <4>3, <4>4, <5>2, <5>3
      <4>7. ASSUME NEW i \in DOMAIN calls'[cur] PROVE calls'[cur][i] <= Len(res')
        <5>1. CASE i = Len(calls[cur]) + 1
          BY <2>2, <4>4, <5>1
        <5>2. CASE i \in 1..Len(calls[cur])
          <6>1. calls'[cur][i] = calls[cur][i] /\ calls[cur][i] \in Nat /\ calls[cur][i] <= Len(res)
            BY <4>4, <4>5, <5>2, Zenon
          <6>2. Len(res) \in Nat /\ Len(res') = Len(res) + 1
            BY <2>2
          <6>3. QED
            BY ONLY <6>1, <6>2
        <5>3. QED
          BY <4>3, <4>4, <5>1, <5>2
      <4>8. QED
        BY <4>6, <4>7
    <3>3. QED
      BY <3>1, <3>2
  <2>5. ItemsOnceInOrder'
    BY <2>3, <2>4 DEF ItemsOnceInOrder
  <2>6. JournalHonest'
    BY <1>4, <2>2, <2>3, <2>4 DEF ProcessItem, rowVars, JournalHonest, ProcInv
  <2>7. FreshRows' /\ SingleRunning'
    BY <1>4, <2>3 DEF ProcessItem, rowVars, FreshRows, SingleRunning, ProcInv
  <2>8. ProcInv'
    BY <1>4, <2>2, <2>4, TotalAssumption DEF ProcessItem, rowVars, ProcInv
  <2>9. TypeOK'
    BY <1>4, <2>2, <2>3 DEF ProcessItem, rowVars, faultVars
  <2>10. QED
    BY <2>5, <2>6, <2>7, <2>8, <2>9
<1>5. CASE CommitItem
  <2> cur \in Tasks
    BY <1>5 DEF CommitItem
  <2>1. /\ UNCHANGED <<status, req, up, crashes, dbErrors, calls>>
        /\ Len(results[cur]) + 1 = Len(res) /\ Len(res) <= Total[cur]
        /\ status[cur] \notin {"none", "pending"}
        /\ \A i \in DOMAIN calls[cur] : calls[cur][i] <= Len(res)
    BY <1>5 DEF CommitItem, faultVars, ProcInv
  <2>2. SingleRunning' /\ ItemsOnceInOrder'
    BY <2>1 DEF SingleRunning, ItemsOnceInOrder
  <2>3. CASE status[cur] = "deleted"
    <3>1. /\ UNCHANGED <<completed, failed, results>>
          /\ pc' = "idle" /\ cur' = NoTask /\ res' = << >>
      BY <1>5, <2>3 DEF CommitItem, GoIdle
    <3>2. TypeOK'
      BY <2>1, <3>1, EmptyLists
    <3>3. JournalHonest' /\ FreshRows' /\ ProcInv'
      BY <2>1, <3>1 DEF JournalHonest, FreshRows, ProcInv
    <3>4. QED
      BY <2>2, <3>2, <3>3
  <2>4. CASE status[cur] # "deleted"
    <3>1. /\ results' = [results EXCEPT ![cur] = res]
          /\ pc' = "loop" /\ UNCHANGED <<cur, res>>
      BY <1>5, <2>4 DEF CommitItem
    <3>2. /\ completed' \in [Tasks -> Nat] /\ failed' \in [Tasks -> Nat]
          /\ completed'[cur] + failed'[cur] = completed[cur] + failed[cur] + 1
          /\ \A t \in Tasks : t # cur => completed'[t] = completed[t] /\ failed'[t] = failed[t]
      <4>1. CASE res[Len(res)]
        <5>1. completed' = [completed EXCEPT ![cur] = completed[cur] + 1] /\ failed' = failed
          BY <1>5, <2>4, <4>1, Zenon DEF CommitItem
        <5>2. failed \in [Tasks -> Nat] /\ completed \in [Tasks -> Nat] /\ cur \in Tasks
          BY Zenon
        <5>3. QED
          BY ONLY <5>1, <5>2
      <4>2. CASE ~res[Len(res)]
        <5>1. failed' = [failed EXCEPT ![cur] = failed[cur] + 1] /\ completed' = completed
          BY <1>5, <2>4, <4>2, Zenon DEF CommitItem
        <5>2. failed[cur] \in Nat /\ completed[cur] \in Nat /\ cur \in Tasks
          BY Zenon
        <5>3. /\ failed' \in [Tasks -> Nat] /\ failed'[cur] = failed[cur] + 1
              /\ \A t \in Tasks : t # cur => failed'[t] = failed[t]
          BY <5>1, <5>2
        <5>4. completed'[cur] + failed'[cur] = completed[cur] + failed[cur] + 1
          BY <5>1, <5>2, <5>3
        <5>5. QED
          BY <5>1, <5>3, <5>4, Zenon
      <4>3. QED
        BY <4>1, <4>2
    <3>3. /\ results' \in [Tasks -> Seq(BOOLEAN)] /\ results'[cur] = res
          /\ \A t \in Tasks : t # cur => results'[t] = results[t]
      BY <3>1
    <3>4. TypeOK'
      BY <1>5, <2>1, <3>1, <3>2, <3>3 DEF CommitItem
    <3>5. JournalHonest'
      <4> SUFFICES ASSUME NEW t \in Tasks
                   PROVE  /\ completed'[t] + failed'[t] = Len(results'[t])
                          /\ status[t] = "completed" => Len(results'[t]) = Total[t]
                          /\ \A i \in DOMAIN calls[t] : calls[t][i] <= Len(results'[t]) + 1
        BY <2>1 DEF JournalHonest
      <4>1. CASE t # cur
        BY <3>2, <3>3, <4>1 DEF JournalHonest
      <4>2. CASE t = cur
        <5>1. Len(res) \in Nat /\ Len(results[cur]) \in Nat /\ Total[cur] \in Nat
          BY TotalAssumption
        <5>2. completed'[cur] + failed'[cur] = Len(results'[cur])
          BY <2>1, <3>2, <3>3, <5>1 DEF JournalHonest
        <5>3. status[cur] = "completed" => Len(results'[cur]) = Total[cur]
          BY <2>1, <3>3, <5>1 DEF JournalHonest
        <5>4. \A i \in DOMAIN calls[cur] : calls[cur][i] \in Nat
          <6>1. calls[cur] \in Seq(Nat)
            OBVIOUS
          <6>2. QED
            BY ONLY <6>1, NumbersOfItems
        <5>5. QED
          BY <2>1, <3>3, <4>2, <5>1, <5>2, <5>3, <5>4
      <4>3. QED
        BY <4>1, <4>2
    <3>6. FreshRows'
      BY <2>1, <3>3 DEF FreshRows
    <3>7. ProcInv'
      BY <2>1, <3>1, <3>3 DEF ProcInv
    <3>8. QED
      BY <2>2, <3>4, <3>5, <3>6, <3>7
  <2>5. QED
    BY <2>3, <2>4
<1>6. CASE FinishTask
  <2> USE <1>6 DEF FinishTask, GoIdle, rowVars, procVars, faultVars
  <2>1. TypeOK'
    BY EmptyLists DEF Status, Done
  <2>2. SingleRunning'
    BY DEF SingleRunning, ProcInv
  <2>3. ItemsOnceInOrder'
    BY DEF ItemsOnceInOrder
  <2>4. JournalHonest'
    BY DEF JournalHonest, ProcInv
  <2>5. FreshRows'
    BY DEF FreshRows, ProcInv
  <2>6. ProcInv'
    BY DEF ProcInv, FreshRows
  <2>7. QED
    BY <2>1, <2>2, <2>3, <2>4, <2>5, <2>6
<1>7. QED
  BY <1>1, <1>2, <1>3, <1>4, <1>5, <1>6 DEF Processor

\* The inductive invariant holds in every reachable state.
THEOREM QueueInvariant == Spec => []IInv
<1>1. IInv /\ [Next]_vars => IInv'
  BY StutterIInv, ApiIInv, FaultIInv, ProcessorIInv DEF Next
<1>2. QED
  BY InitIInv, <1>1, PTL DEF Spec

\* Type correctness of the queue's tables and of the processor's locals.
THEOREM QueueTypeOK == Spec => []TypeOK
<1>1. IInv => TypeOK
  BY DEF IInv
<1>2. QED
  BY QueueInvariant, <1>1, PTL

\* process_task sends an item to Proxmox at most once and in order, whatever
\* crashes, database errors and cancels interleave with it.
THEOREM ItemsAreSentOnce == Spec => []ItemsOnceInOrder
<1>1. IInv => ItemsOnceInOrder
  BY DEF IInv
<1>2. QED
  BY QueueInvariant, <1>1, PTL

\* process_pending_tasks lets at most one row be 'running'.
THEOREM OneTaskRuns == Spec => []SingleRunning
<1>1. IInv => SingleRunning
  BY DEF IInv
<1>2. QED
  BY QueueInvariant, <1>1, PTL

\* The progress columns never claim more, and never miss more than one call
\* of, what was done.
THEOREM JournalIsHonest == Spec => []JournalHonest
<1>1. IInv => JournalHonest
  BY DEF IInv
<1>2. QED
  BY QueueInvariant, <1>1, PTL

\* No step puts a row that left 'pending' back into the queue.
THEOREM NoTaskIsRequeued == Spec => NeverRequeued
<1>1. IInv /\ [Next]_vars =>
        [\A t \in Tasks : status[t] \notin {"none", "pending"} => status'[t] # "pending"]_vars
  BY DEF Next, Processor, Api, CreateTask, CancelRead, CancelCommit, ClearCompleted,
     PickTask, LoadTask, MarkRunning, ProcessItem, CommitItem, FinishTask, GoIdle,
     DbError, Crash, Restart, RecoverInterrupted, rowVars, vars, IInv, TypeOK, Done
<1>2. QED
  BY QueueInvariant, <1>1, PTL DEF Spec, NeverRequeued

-----------------------------------------------------------------------------
(* The refinement of BulkQueue.                                            *)

\* A row that a request has read, or that the processor holds, was created.
NoPhantoms ==
    /\ \A r \in Requests : req[r] # NoTask => status[req[r]] # "none"
    /\ cur # NoTask => status[cur] # "none"

LEMMA PhantomsInv == Spec => []NoPhantoms
<1>1. Init => NoPhantoms
  BY DEF Init, NoPhantoms
<1>2. TypeOK /\ ProcInv /\ NoPhantoms /\ [Next]_vars => NoPhantoms'
  <2> SUFFICES ASSUME TypeOK, ProcInv, NoPhantoms, [Next]_vars PROVE NoPhantoms'
    OBVIOUS
  <2> USE DEF TypeOK, NoPhantoms, Done
  <2>1. CASE UNCHANGED vars
    BY <2>1 DEF vars
  <2>2. CASE Api
    <3>1. ASSUME NEW t \in Tasks, CreateTask(t) PROVE NoPhantoms'
      BY <3>1 DEF CreateTask, procVars
    <3>2. ASSUME NEW r \in Requests, NEW u \in Users, NEW t \in Tasks, CancelRead(r, u, t)
          PROVE  NoPhantoms'
      BY <3>2 DEF CancelRead, rowVars, procVars
    <3>3. ASSUME NEW r \in Requests, CancelCommit(r) PROVE NoPhantoms'
      BY <3>3 DEF CancelCommit, procVars
    <3>4. ASSUME NEW u \in Users, ClearCompleted(u) PROVE NoPhantoms'
      BY <3>4 DEF ClearCompleted, procVars
    <3>5. QED
      BY <2>2, <3>1, <3>2, <3>3, <3>4 DEF Api
  <2>3. CASE Processor
    <3>1. req' = req /\ \A t \in Tasks : status[t] # "none" => status'[t] # "none"
      BY <2>3 DEF Processor, PickTask, LoadTask, MarkRunning, ProcessItem,
         CommitItem, FinishTask, rowVars
    <3>2. cur' = cur \/ cur' = NoTask \/ (status[cur'] # "none" /\ cur' \in Tasks)
      BY <2>3 DEF Processor, PickTask, OldestPending, LoadTask, MarkRunning, ProcessItem,
         CommitItem, FinishTask, GoIdle
    <3>3. \A r \in Requests : req'[r] # NoTask => status'[req'[r]] # "none"
      BY <3>1
    <3>4. cur' # NoTask => status'[cur'] # "none"
      BY <3>1, <3>2
    <3>5. QED
      BY <3>3, <3>4
  <2>4. CASE DbError \/ Crash \/ Restart
    BY <2>4 DEF DbError, Crash, Restart, RecoverInterrupted, GoIdle, rowVars, procVars
  <2>5. QED
    BY <2>1, <2>2, <2>3, <2>4 DEF Next
<1>3. IInv => TypeOK /\ ProcInv
  BY DEF IInv
<1>4. QED
  BY QueueInvariant, <1>1, <1>2, <1>3, PTL DEF Spec

\* A step that leaves the call log alone and moves one task as BulkQueue
\* allows.
LEMMA PhaseMoves ==
    ASSUME UNCHANGED calls, NEW t \in Tasks,
           \A s \in Tasks : s # t => Phase'[s] = Phase[s],
           \/ Phase'[t] = Phase[t]
           \/ Phase[t] = "absent" /\ Phase'[t] = "waiting"
           \/ Phase[t] = "waiting" /\ Phase'[t] = "over"
           \/ Phase[t] = "claimed" /\ Phase'[t] = "over"
           \/ Phase[t] = "claimed" /\ Phase'[t] = "waiting" /\ calls[t] = << >>
    PROVE  [Queue!Next]_<<Phase, calls>>
<1>1. Phase' = [Phase EXCEPT ![t] = Phase'[t]]
  BY DEF Phase
<1>2. CASE Phase'[t] = Phase[t]
  <2>1. Phase' = Phase
    BY <1>2 DEF Phase
  <2>2. QED
    BY <2>1
<1>3. CASE Phase[t] = "absent" /\ Phase'[t] = "waiting"
  BY <1>1, <1>3 DEF Queue!Next, Queue!Submit, Queue!Becomes
<1>4. CASE Phase[t] = "waiting" /\ Phase'[t] = "over"
  BY <1>1, <1>4 DEF Queue!Next, Queue!Withdraw, Queue!Becomes
<1>5. CASE Phase[t] = "claimed" /\ Phase'[t] = "over"
  BY <1>1, <1>5 DEF Queue!Next, Queue!End, Queue!Becomes
<1>6. CASE Phase[t] = "claimed" /\ Phase'[t] = "waiting" /\ calls[t] = << >>
  BY <1>1, <1>6 DEF Queue!Next, Queue!GiveBack, Queue!Becomes
<1>7. QED
  BY <1>2, <1>3, <1>4, <1>5, <1>6

\* The processor lets go of a task, whose row stays as it is: the task waits
\* again only if nothing of it was sent.
LEMMA LettingGo ==
    ASSUME IInv, NoPhantoms, UNCHANGED <<status, calls>>, cur' = NoTask
    PROVE  [Queue!Next]_<<Phase, calls>>
<1> USE DEF IInv, TypeOK
<1>1. CASE cur = NoTask
  BY <1>1 DEF Phase
<1>2. CASE cur # NoTask
  <2>1. cur \in Tasks /\ \A s \in Tasks : s # cur => Phase'[s] = Phase[s]
    BY <1>2 DEF Phase
  <2>2. /\ Phase[cur] = "claimed"
        /\ \/ Phase'[cur] = "over"
           \/ Phase'[cur] = "waiting" /\ calls[cur] = << >>
    BY <1>2 DEF Phase, FreshRows, NoPhantoms
  <2>3. QED
    BY <2>1, <2>2, PhaseMoves
<1>3. QED
  BY <1>1, <1>2

LEMMA ApiRefines ==
    ASSUME IInv, NoPhantoms, Api
    PROVE  [Queue!Next]_<<Phase, calls>>
<1> USE DEF IInv
<1>1. ASSUME NEW t \in Tasks, CreateTask(t) PROVE [Queue!Next]_<<Phase, calls>>
  <2>1. /\ UNCHANGED <<calls, cur>> /\ status[t] = "none" /\ status'[t] = "pending"
        /\ \A s \in Tasks : s # t => status'[s] = status[s]
    BY <1>1 DEF CreateTask, procVars, TypeOK
  <2>2. \A s \in Tasks : s # t => Phase'[s] = Phase[s]
    BY <2>1 DEF Phase
  <2>3. Phase'[t] = Phase[t] \/ (Phase[t] = "absent" /\ Phase'[t] = "waiting")
    BY <2>1 DEF Phase
  <2>4. QED
    BY <2>1, <2>2, <2>3, PhaseMoves
<1>2. ASSUME NEW r \in Requests, NEW u \in Users, NEW t \in Tasks, CancelRead(r, u, t)
      PROVE  [Queue!Next]_<<Phase, calls>>
  BY <1>2 DEF CancelRead, rowVars, procVars, Phase
<1>3. ASSUME NEW r \in Requests, CancelCommit(r) PROVE [Queue!Next]_<<Phase, calls>>
  <2> DEFINE t == req[r]
  <2>1. t \in Tasks /\ UNCHANGED <<calls, cur>>
    BY <1>3 DEF CancelCommit, procVars, TypeOK
  <2>2. /\ \A s \in Tasks : s # t => Phase'[s] = Phase[s]
        /\ \/ Phase'[t] = Phase[t]
           \/ Phase[t] = "waiting" /\ Phase'[t] = "over"
    BY <1>3, <2>1 DEF CancelCommit, Phase, TypeOK, NoPhantoms
  <2>3. QED
    BY <2>1, <2>2, PhaseMoves
<1>4. ASSUME NEW u \in Users, ClearCompleted(u) PROVE [Queue!Next]_<<Phase, calls>>
  BY <1>4 DEF ClearCompleted, procVars, Phase, TypeOK, Done
<1>5. QED
  BY <1>1, <1>2, <1>3, <1>4 DEF Api

LEMMA FaultRefines ==
    ASSUME IInv, NoPhantoms, DbError \/ Crash \/ Restart
    PROVE  [Queue!Next]_<<Phase, calls>>
<1> USE DEF IInv, TypeOK
<1>1. CASE Restart
  BY <1>1 DEF Restart, RecoverInterrupted, procVars, Phase
<1>2. CASE DbError \/ Crash
  <2>1. UNCHANGED <<status, calls>> /\ cur' = NoTask
    BY <1>2 DEF DbError, Crash, GoIdle, rowVars
  <2>2. QED
    BY <2>1, LettingGo
<1>3. QED
  BY <1>1, <1>2

LEMMA ProcessorRefines ==
    ASSUME IInv, NoPhantoms, Processor
    PROVE  [Queue!Next]_<<Phase, calls>>
<1> USE DEF IInv, TypeOK
<1>1. CASE PickTask
  <2>1. PICK t \in Tasks : OldestPending(t) /\ cur' = t
    BY <1>1 DEF PickTask
  <2>2. cur = NoTask /\ UNCHANGED <<status, calls>>
    BY <1>1 DEF PickTask, rowVars
  <2>3. /\ \A k \in Tasks : Phase[k] # "claimed"
        /\ \A k \in Tasks : Phase[k] = "waiting" => t <= k
        /\ Phase[t] = "waiting"
    BY <2>1, <2>2 DEF OldestPending, Phase
  <2>4. Phase' = [Phase EXCEPT ![t] = "claimed"]
    <3>1. cur \notin Tasks /\ cur' = t
      BY <2>1, <2>2, BoundsAssumption
    <3>2. \A s \in Tasks : Phase'[s] = IF s = t THEN "claimed" ELSE Phase[s]
      BY <2>2, <3>1 DEF Phase
    <3>3. Phase = [s \in Tasks |-> Phase[s]] /\ Phase' = [s \in Tasks |-> Phase'[s]]
      BY DEF Phase
    <3>4. QED
      BY <3>2, <3>3
  <2>5. QED
    BY <2>2, <2>3, <2>4 DEF Queue!Next, Queue!Claim, Queue!Becomes
<1>2. CASE LoadTask
  <2>1. UNCHANGED <<status, calls>>
    BY <1>2 DEF LoadTask, rowVars
  <2>2. cur' = cur \/ cur' = NoTask
    BY <1>2 DEF LoadTask, GoIdle
  <2>3. CASE cur' = cur
    BY <2>1, <2>3 DEF Phase
  <2>4. QED
    BY <2>1, <2>2, <2>3, LettingGo
<1>3. CASE MarkRunning
  <2>1. CASE status[cur] = "deleted"
    BY <1>3, <2>1, LettingGo DEF MarkRunning, GoIdle
  <2>2. CASE status[cur] # "deleted"
    BY <1>3, <2>2 DEF MarkRunning, Phase
  <2>3. QED
    BY <2>1, <2>2
<1>4. CASE ProcessItem
  <2>1. cur \in Tasks /\ Phase' = Phase /\ Phase[cur] = "claimed"
    BY <1>4 DEF ProcessItem, rowVars, Phase
  <2>2. CASE UNCHANGED calls
    BY <2>1, <2>2
  <2>3. CASE calls' = [calls EXCEPT ![cur] = Append(calls[cur], Len(res) + 1)]
    <3>1. Len(res) + 1 \in 1..Total[cur]
      BY <1>4, <2>1, TotalAssumption DEF ProcessItem
    <3>2. \A i \in DOMAIN calls[cur] : calls[cur][i] < Len(res) + 1
      BY <1>4, <2>1 DEF ProcessItem, ProcInv
    <3>3. Queue!Send(cur, Len(res) + 1)
      BY <2>1, <2>3, <3>2 DEF Queue!Send
    <3>4. QED
      BY <2>1, <3>1, <3>3 DEF Queue!Next
  <2>4. QED
    BY <1>4, <2>2, <2>3 DEF ProcessItem
<1>5. CASE CommitItem
  BY <1>5, LettingGo DEF CommitItem, GoIdle, Phase
<1>6. CASE FinishTask
  <2>1. cur \in Tasks /\ cur' = NoTask /\ UNCHANGED calls /\ status[cur] \notin {"none", "pending"}
    BY <1>6 DEF FinishTask, GoIdle, ProcInv
  <2>a. /\ \A s \in Tasks : s # cur => status'[s] = status[s]
        /\ status'[cur] \notin {"none", "pending"}
    BY <1>6, <2>1 DEF FinishTask
  <2>2. \A s \in Tasks : s # cur => Phase'[s] = Phase[s]
    BY <2>1, <2>a DEF Phase
  <2>3. Phase[cur] = "claimed" /\ Phase'[cur] = "over"
    BY <2>1, <2>a DEF Phase
  <2>4. QED
    BY <2>1, <2>2, <2>3, PhaseMoves
<1>7. QED
  BY <1>1, <1>2, <1>3, <1>4, <1>5, <1>6 DEF Processor

\* The detailed queue implements BulkQueue: one job at a time, oldest first,
\* no call made twice or out of order, and nothing that was begun is queued
\* again, through every crash, database error and recovery.
THEOREM QueueRefines == Spec => KeepsPromise
<1>1. Init => Queue!Init
  BY DEF Init, Queue!Init, Phase
<1>2. IInv /\ NoPhantoms /\ [Next]_vars => [Queue!Next]_<<Phase, calls>>
  <2>1. UNCHANGED vars => UNCHANGED <<Phase, calls>>
    BY DEF vars, Phase
  <2>2. QED
    BY <2>1, ApiRefines, FaultRefines, ProcessorRefines DEF Next
<1>3. QED
  BY QueueInvariant, PhantomsInv, <1>1, <1>2, PTL DEF Spec, KeepsPromise, Queue!Spec

-----------------------------------------------------------------------------
(* The consoles.                                                           *)

HandlerRecords == [st : {"none", "ticket", "on", "closing", "closed", "over"}, kind : DOMAIN C!Stages,
                   at : Nat, up : BOOLEAN, down : BOOLEAN, db : BOOLEAN, got : Nat]
BrowserSides == {"none", "open", "gone"}
FarSides == {"none", "listening", "open", "ended", "dead"}

\* Where a handler has not yet asked Proxmox for anything.
Early(h) == h.st = "on" /\ h.at \in {1, 2}

\* A handler and its two sides.  Proxmox's is open only between the connection
\* and its closing, the browser's and the database connection at most until
\* the end; a handler begins with its first stage and stays within its stages.
Whole(h, b, f) ==
    /\ h.st \in {"none", "ticket", "over"} \/ Early(h) => f \in {"none", "listening"}
    /\ h.st = "closed" => f = "none"
    /\ h.st = "over" => b # "open" /\ ~h.db
    /\ h.st \in {"none", "ticket"} => h.at = 1
    /\ h.st = "on" => h.at \in 1..Len(C!Stages[h.kind])
Sides == \A c \in Windows : Whole(cCon[c], cBrowser[c], cFar[c])
\* Whoever holds up the loop is looking up its user.
Held == cBlocked # C!Nobody => cBlocked \in Windows /\ cCon[cBlocked].st = "on" /\ cCon[cBlocked].at = 1
\* What is shown is what has been received.
Shown == \A c \in Windows : cShown[c] = [i \in 1..cCon[c].got |-> i]

ConsolesInv ==
    /\ cCon \in [Windows -> HandlerRecords] /\ cBrowser \in [Windows -> BrowserSides]
    /\ cFar \in [Windows -> FarSides] /\ cPrinted \in [Windows -> Nat]
    /\ DOMAIN cShown = Windows /\ cShown = [c \in Windows |-> cShown[c]]
    /\ Sides /\ Held /\ Shown

-----------------------------------------------------------------------------
(* The stages.                                                             *)

LEMMA StageFacts ==
    ASSUME NEW k \in DOMAIN C!Stages, NEW i \in 1..Len(C!Stages[k])
    PROVE  /\ C!Stages[k][i] = "authorise" <=> i = 1
           /\ C!Stages[k][i] = "find" <=> i = 2
           /\ C!Stages[k][i] # "relay" => i + 1 \in 1..Len(C!Stages[k])
           /\ 1 \in 1..Len(C!Stages[k])
<1>1. DOMAIN C!Stages = {"vnc", "terminal", "serial", "node"}
  BY DEF C!Stages
<1>2. CASE k = "vnc"
  <2>1. C!Stages[k] = C!VncStages
    BY <1>2 DEF C!Stages
  <2>2. i \in {1, 2, 3, 4}
    BY <2>1 DEF C!VncStages
  <2> QED BY <2>1, <2>2 DEF C!VncStages
<1>3. CASE k = "terminal"
  <2>1. C!Stages[k] = C!TerminalStages
    BY <1>3 DEF C!Stages
  <2>2. i \in {1, 2, 3, 4, 5, 6, 7}
    BY <2>1 DEF C!TerminalStages
  <2> QED BY <2>1, <2>2 DEF C!TerminalStages
<1>4. CASE k = "serial"
  <2>1. C!Stages[k] = C!SerialStages
    BY <1>4 DEF C!Stages
  <2>2. i \in {1, 2, 3, 4, 5, 6, 7}
    BY <2>1 DEF C!SerialStages
  <2> QED BY <2>1, <2>2 DEF C!SerialStages
<1>5. CASE k = "node"
  <2>1. C!Stages[k] = C!NodeShellStages
    BY <1>5 DEF C!Stages
  <2>2. i \in {1, 2, 3, 4, 5, 6, 7, 8}
    BY <2>1 DEF C!NodeShellStages
  <2> QED BY <2>1, <2>2 DEF C!NodeShellStages
<1> QED BY <1>1, <1>2, <1>3, <1>4, <1>5

LEMMA StagesNotEmpty == \A k \in DOMAIN C!Stages : \E i \in 1..Len(C!Stages[k]) : TRUE
  BY SMTT(30) DEF C!Stages, C!VncStages, C!TerminalStages, C!SerialStages, C!NodeShellStages

\* The stage a handler is at.
LEMMA Stage ==
    ASSUME ConsolesInv, NEW c \in Windows, NEW stage, C!At(c, stage)
    PROVE  /\ cBlocked = C!Nobody /\ cCon[c].st = "on"
           /\ cCon[c].at \in Nat /\ cCon[c].at \in 1..Len(C!Stages[cCon[c].kind])
           /\ stage = "authorise" <=> cCon[c].at = 1
           /\ stage = "find" <=> cCon[c].at = 2
           /\ stage # "relay" => cCon[c].at + 1 \in 1..Len(C!Stages[cCon[c].kind])
<1>1. cBlocked = C!Nobody /\ cCon[c].st = "on" /\ C!Stages[cCon[c].kind][cCon[c].at] = stage
  BY DEF C!At
<1>2. cCon[c].kind \in DOMAIN C!Stages /\ cCon[c].at \in Nat
  BY DEF ConsolesInv, HandlerRecords
<1>3. cCon[c].at \in 1..Len(C!Stages[cCon[c].kind])
  BY <1>1 DEF ConsolesInv, Sides, Whole
<1> QED BY <1>1, <1>2, <1>3, StageFacts

-----------------------------------------------------------------------------
LEMMA ConsolesInit == C!Init => ConsolesInv
<1> SUFFICES ASSUME C!Init PROVE ConsolesInv
  OBVIOUS
<1>1. C!NoConsole \in HandlerRecords /\ C!NoConsole.st = "none" /\ C!NoConsole.got = 0
      /\ C!NoConsole.at = 1
  BY DEF C!NoConsole, HandlerRecords, C!Stages
<1>2. Shown
  BY <1>1, EmptySeq DEF C!Init, Shown
<1> QED BY <1>1, <1>2 DEF C!Init, ConsolesInv, Sides, Whole, Held, Early, BrowserSides, FarSides

-----------------------------------------------------------------------------
(* The steps.                                                              *)

\* A step that touches one console.
LEMMA OneConsole ==
    ASSUME ConsolesInv, NEW c \in Windows,
           NEW h \in HandlerRecords, NEW b \in BrowserSides, NEW f \in FarSides, NEW s,
           cCon' = [cCon EXCEPT ![c] = h], cBrowser' = [cBrowser EXCEPT ![c] = b],
           cFar' = [cFar EXCEPT ![c] = f], cShown' = [cShown EXCEPT ![c] = s],
           cPrinted' \in [Windows -> Nat],
           Whole(h, b, f), s = [i \in 1..h.got |-> i], Held'
    PROVE  ConsolesInv'
<1>1. /\ cCon' \in [Windows -> HandlerRecords] /\ cBrowser' \in [Windows -> BrowserSides]
      /\ cFar' \in [Windows -> FarSides]
      /\ DOMAIN cShown' = Windows /\ cShown' = [d \in Windows |-> cShown'[d]]
  BY DEF ConsolesInv
<1>2. /\ cCon'[c] = h /\ cBrowser'[c] = b /\ cFar'[c] = f /\ cShown'[c] = s
      /\ \A d \in Windows \ {c} : /\ cCon'[d] = cCon[d] /\ cBrowser'[d] = cBrowser[d]
                                  /\ cFar'[d] = cFar[d] /\ cShown'[d] = cShown[d]
  BY DEF ConsolesInv
<1>3. Sides'
  <2> SUFFICES ASSUME NEW d \in Windows PROVE Whole(cCon'[d], cBrowser'[d], cFar'[d])
    BY DEF Sides
  <2>1. Whole(cCon[d], cBrowser[d], cFar[d])
    BY DEF ConsolesInv, Sides
  <2> QED BY <1>2, <2>1
<1>4. Shown'
  BY <1>2 DEF ConsolesInv, Shown
<1> QED BY <1>1, <1>3, <1>4 DEF ConsolesInv

\* The same, when all it touches is the handler and the browser's side, or
\* the handler and Proxmox's.
LEMMA HandlerChanges ==
    ASSUME ConsolesInv, NEW c \in Windows, NEW h \in HandlerRecords, NEW b \in BrowserSides,
           cCon' = [cCon EXCEPT ![c] = h],
           (cBrowser' = cBrowser /\ b = cBrowser[c]) \/ cBrowser' = [cBrowser EXCEPT ![c] = b],
           cFar' = cFar, cShown' = cShown, cPrinted' = cPrinted,
           h.got = cCon[c].got, Whole(h, b, cFar[c]), Held'
    PROVE  ConsolesInv'
<1>1. cBrowser' = [cBrowser EXCEPT ![c] = b] /\ cFar' = [cFar EXCEPT ![c] = cFar[c]]
      /\ cShown' = [cShown EXCEPT ![c] = cShown[c]]
  BY DEF ConsolesInv
<1>2. cPrinted' \in [Windows -> Nat] /\ cFar[c] \in FarSides /\ cShown[c] = [i \in 1..h.got |-> i]
  BY DEF ConsolesInv, Shown
<1> QED BY <1>1, <1>2, OneConsole

LEMMA FarChanges ==
    ASSUME ConsolesInv, NEW c \in Windows, NEW h \in HandlerRecords, NEW f \in FarSides,
           (cCon' = cCon /\ h = cCon[c]) \/ cCon' = [cCon EXCEPT ![c] = h],
           cFar' = [cFar EXCEPT ![c] = f],
           cBrowser' = cBrowser, cShown' = cShown, cPrinted' = cPrinted,
           h.got = cCon[c].got, Whole(h, cBrowser[c], f), Held'
    PROVE  ConsolesInv'
<1>1. cBrowser' = [cBrowser EXCEPT ![c] = cBrowser[c]] /\ cCon' = [cCon EXCEPT ![c] = h]
      /\ cShown' = [cShown EXCEPT ![c] = cShown[c]]
  BY DEF ConsolesInv
<1>2. cPrinted' \in [Windows -> Nat] /\ cBrowser[c] \in BrowserSides
      /\ cShown[c] = [i \in 1..h.got |-> i]
  BY DEF ConsolesInv, Shown
<1> QED BY <1>1, <1>2, OneConsole

\* What is left alone is what it was.
LEMMA LeftAlone ==
    ASSUME ConsolesInv, NEW c \in Windows
    PROVE  /\ cCon = [cCon EXCEPT ![c] = cCon[c]] /\ cBrowser = [cBrowser EXCEPT ![c] = cBrowser[c]]
           /\ cFar = [cFar EXCEPT ![c] = cFar[c]] /\ cShown = [cShown EXCEPT ![c] = cShown[c]]
           /\ cCon[c] \in HandlerRecords /\ cBrowser[c] \in BrowserSides /\ cFar[c] \in FarSides
           /\ cPrinted \in [Windows -> Nat] /\ cShown[c] = [i \in 1..cCon[c].got |-> i]
           /\ Whole(cCon[c], cBrowser[c], cFar[c])
  BY DEF ConsolesInv, Sides, Shown


LEMMA NoneChanges ==
    ASSUME ConsolesInv, UNCHANGED <<cCon, cBrowser, cFar, cShown>>,
           cPrinted' \in [Windows -> Nat], Held'
    PROVE  ConsolesInv'
  BY DEF ConsolesInv, Sides, Shown

\* The loop is free before the step and after it, or whoever holds it up is
\* another.
LEMMA StillHeld ==
    ASSUME ConsolesInv, NEW c \in Windows, NEW h,
           cCon' = [cCon EXCEPT ![c] = h], cBlocked' = cBlocked, cBlocked # c
    PROVE  Held'
  BY DEF ConsolesInv, Held, HandlerRecords

LEMMA OpeningKeeps ==
    ASSUME ConsolesInv, NEW c \in Windows, C!Ticket(c) \/ C!Open(c)
    PROVE  ConsolesInv'
<1>1. cBlocked # c
  <2>1. cCon[c].st # "on"
    BY DEF C!Ticket, C!Open
  <2> QED BY <2>1, ConsolesAssumption DEF ConsolesInv, Held, C!Nobody
<1>2. CASE C!Ticket(c)
  <2> DEFINE h == [cCon[c] EXCEPT !.st = "ticket"]
  <2>1. h \in HandlerRecords /\ h.got = cCon[c].got /\ Whole(h, cBrowser[c], "listening")
    BY <1>2, LeftAlone DEF C!Ticket, HandlerRecords, Whole, Early
  <2>2. cCon' = [cCon EXCEPT ![c] = h] /\ cFar' = [cFar EXCEPT ![c] = "listening"]
        /\ cBrowser' = cBrowser /\ cPrinted' = cPrinted /\ cShown' = cShown /\ cBlocked' = cBlocked
    BY <1>2 DEF C!Ticket, C!Set
  <2>3. Held'
    BY <1>1, <2>2, StillHeld
  <2> QED BY <2>1, <2>2, <2>3, FarChanges DEF FarSides
<1>3. CASE C!Open(c)
  <2>1. PICK k \in DOMAIN C!Stages :
          /\ cCon[c].st = IF k = "vnc" THEN "ticket" ELSE "none"
          /\ cCon' = [cCon EXCEPT ![c] = [cCon[c] EXCEPT !.st = "on", !.kind = k]]
    BY <1>3 DEF C!Open, C!Set
  <2> DEFINE h == [cCon[c] EXCEPT !.st = "on", !.kind = k]
  <2>2. 1 \in 1..Len(C!Stages[k])
    <3>1. \A i \in 1..Len(C!Stages[k]) : 1 \in 1..Len(C!Stages[k])
      BY StageFacts
    <3>2. \E i \in 1..Len(C!Stages[k]) : TRUE
      BY StagesNotEmpty
    <3> QED BY <3>1, <3>2
  <2>3. h \in HandlerRecords /\ h.got = cCon[c].got /\ Whole(h, "open", cFar[c])
    BY <2>1, <2>2, LeftAlone DEF HandlerRecords, Whole, Early
  <2>4. cBrowser' = [cBrowser EXCEPT ![c] = "open"]
        /\ cFar' = cFar /\ cPrinted' = cPrinted /\ cShown' = cShown /\ cBlocked' = cBlocked
    BY <1>3 DEF C!Open
  <2>5. Held'
    BY <1>1, <2>1, <2>4, StillHeld
  <2> QED BY <2>1, <2>3, <2>4, <2>5, HandlerChanges DEF BrowserSides
<1> QED BY <1>2, <1>3

\* The handler that ends: what it held is given back.
LEMMA OverKeeps ==
    ASSUME ConsolesInv, NEW c \in Windows, C!Over(c), C!Gone(c),
           cCon[c].st = "closed" \/ Early(cCon[c]),
           UNCHANGED <<cFar, cPrinted, cShown>>, Held'
    PROVE  ConsolesInv'
<1> DEFINE h == [cCon[c] EXCEPT !.st = "over", !.db = FALSE]
<1>1. h \in HandlerRecords /\ h.got = cCon[c].got /\ Whole(h, "gone", cFar[c])
  BY LeftAlone, ZenonT(60) DEF HandlerRecords, Whole, Early
<1>2. cCon' = [cCon EXCEPT ![c] = h] /\ cBrowser' = [cBrowser EXCEPT ![c] = "gone"]
  BY DEF C!Over, C!Set, C!Gone
<1> QED BY <1>1, <1>2, HandlerChanges DEF BrowserSides

LEMMA NextStage ==
    ASSUME NEW h \in HandlerRecords
    PROVE  [h EXCEPT !.at = @ + 1] \in HandlerRecords
  BY DEF HandlerRecords

LEMMA LookUpKeeps ==
    ASSUME ConsolesInv, NEW c \in Windows, C!Authorise(c) \/ C!Unblock(c) \/ C!Find(c)
    PROVE  ConsolesInv'
<1>1. c # C!Nobody
  BY ConsolesAssumption DEF C!Nobody
<1>2. CASE C!Authorise(c)
  <2>1. cBlocked = C!Nobody /\ cCon[c].st = "on" /\ cCon[c].at = 1
        /\ 2 \in 1..Len(C!Stages[cCon[c].kind])
    <3>1. C!At(c, "authorise")
      BY <1>2 DEF C!Authorise
    <3> QED BY <3>1, Stage
  <2>2. UNCHANGED <<cFar, cPrinted, cShown>>
    BY <1>2 DEF C!Authorise
  <2>3. CASE C!Set(c, [C!Next1(c) EXCEPT !.db = TRUE]) /\ UNCHANGED <<cBrowser, cBlocked>>
    <3> DEFINE h == [[cCon[c] EXCEPT !.at = @ + 1] EXCEPT !.db = TRUE]
    <3>1. h \in HandlerRecords /\ h.got = cCon[c].got /\ Whole(h, cBrowser[c], cFar[c])
      <4> HIDE DEF h
      <4>1. cCon[c] \in HandlerRecords
        BY LeftAlone
      <4>2. [cCon[c] EXCEPT !.at = @ + 1] \in HandlerRecords
        BY <4>1, NextStage
      <4>3. h \in HandlerRecords
        BY <4>2 DEF HandlerRecords, h
      <4>4. h.got = cCon[c].got /\ h.st = "on" /\ h.at = 2 /\ h.kind = cCon[c].kind
        BY <2>1, <4>1 DEF HandlerRecords, h
      <4>5. cFar[c] \in {"none", "listening"}
        BY <2>1, LeftAlone DEF Whole, Early
      <4> QED BY <2>1, <4>3, <4>4, <4>5 DEF Whole
    <3>2. cCon' = [cCon EXCEPT ![c] = h]
      BY <2>3 DEF C!Set, C!Next1
    <3>3. Held'
      BY <1>1, <2>1, <2>3, <3>2, StillHeld
    <3> QED BY <2>2, <2>3, <3>1, <3>2, <3>3, LeftAlone, HandlerChanges
  <2>4. CASE C!Over(c) /\ C!Gone(c) /\ UNCHANGED cBlocked
    <3>1. Held'
      BY <1>1, <2>1, <2>4, StillHeld DEF C!Over, C!Set
    <3> QED BY <2>1, <2>2, <2>4, <3>1, OverKeeps DEF Early
  <2>5. CASE cBlocked' = c /\ UNCHANGED <<cCon, cBrowser>>
    <3>1. Held'
      BY <2>1, <2>5 DEF Held
    <3> QED BY <2>2, <2>5, <3>1, LeftAlone, NoneChanges
  <2> QED BY <1>2, <2>3, <2>4, <2>5 DEF C!Authorise
<1>3. CASE C!Unblock(c)
  <2>1. cBlocked = c /\ cBlocked' = C!Nobody /\ UNCHANGED <<cFar, cPrinted, cShown>>
    BY <1>3 DEF C!Unblock
  <2>2. Early(cCon[c]) /\ Held'
    BY <1>1, <2>1 DEF ConsolesInv, Held, Early
  <2>3. CASE UNCHANGED <<cCon, cBrowser>>
    BY <2>1, <2>2, <2>3, LeftAlone, NoneChanges
  <2>4. CASE C!Over(c) /\ C!Gone(c)
    BY <2>1, <2>2, <2>4, OverKeeps
  <2> QED BY <1>3, <2>3, <2>4 DEF C!Unblock
<1>4. CASE C!Find(c)
  <2>1. cBlocked = C!Nobody /\ cCon[c].st = "on" /\ cCon[c].at = 2
        /\ 3 \in 1..Len(C!Stages[cCon[c].kind])
    <3>1. C!At(c, "find")
      BY <1>4 DEF C!Find
    <3> QED BY <3>1, Stage
  <2>2. UNCHANGED <<cFar, cPrinted, cShown, cBlocked>>
    BY <1>4 DEF C!Find
  <2>3. CASE C!Set(c, C!Next1(c)) /\ UNCHANGED cBrowser
    <3> DEFINE h == [cCon[c] EXCEPT !.at = @ + 1]
    <3>1. h \in HandlerRecords /\ h.got = cCon[c].got /\ Whole(h, cBrowser[c], cFar[c])
      <4> HIDE DEF h
      <4>1. cCon[c] \in HandlerRecords
        BY LeftAlone
      <4>3. h \in HandlerRecords
        BY <4>1, NextStage DEF h
      <4>4. h.got = cCon[c].got /\ h.st = "on" /\ h.at = 3 /\ h.kind = cCon[c].kind
        BY <2>1, <4>1 DEF HandlerRecords, h
      <4>5. cFar[c] \in {"none", "listening"}
        BY <2>1, LeftAlone DEF Whole, Early
      <4> QED BY <2>1, <4>3, <4>4, <4>5 DEF Whole
    <3>2. cCon' = [cCon EXCEPT ![c] = h]
      BY <2>3 DEF C!Set, C!Next1
    <3>3. Held'
      BY <1>1, <2>1, <2>2, <3>2, StillHeld
    <3> QED BY <2>2, <2>3, <3>1, <3>2, <3>3, LeftAlone, HandlerChanges
  <2>4. CASE C!Over(c) /\ C!Gone(c)
    <3>1. Held'
      BY <1>1, <2>1, <2>2, <2>4, StillHeld DEF C!Over, C!Set
    <3> QED BY <2>1, <2>2, <2>4, <3>1, OverKeeps DEF Early
  <2> QED BY <1>4, <2>3, <2>4 DEF C!Find
<1> QED BY <1>2, <1>3, <1>4


\* Past the look-ups a handler that goes on may have any side in any state.
LEMMA GoesOn ==
    ASSUME ConsolesInv, NEW c \in Windows, NEW stage \in {"password", "login", "proxy", "connect", "handshake"},
           C!At(c, stage)
    PROVE  LET h == [cCon[c] EXCEPT !.at = @ + 1] IN
           /\ h \in HandlerRecords /\ h.got = cCon[c].got
           /\ h.st = "on" /\ h.at \notin {1, 2} /\ h.at \in 1..Len(C!Stages[h.kind])
           /\ \A b, f : Whole(h, b, f)
<1> DEFINE h == [cCon[c] EXCEPT !.at = @ + 1]
<1>1. cCon[c] \in HandlerRecords
  BY LeftAlone
<1>2. h \in HandlerRecords /\ h.got = cCon[c].got /\ h.st = cCon[c].st /\ h.kind = cCon[c].kind
      /\ h.at = cCon[c].at + 1
  BY <1>1, NextStage DEF HandlerRecords
<1>3. cCon[c].st = "on" /\ cCon[c].at \in Nat /\ cCon[c].at \notin {1, 2}
      /\ cCon[c].at + 1 \in 1..Len(C!Stages[cCon[c].kind])
  BY Stage
<1>4. cCon[c].at \in 1..Len(C!Stages[cCon[c].kind])
  BY Stage
<1> HIDE DEF h
<1>5. h.st = "on" /\ h.at \notin {1, 2} /\ h.at \in 1..Len(C!Stages[h.kind])
  BY <1>2, <1>3, <1>4
<1>6. \A b, f : Whole(h, b, f)
  BY <1>5 DEF Whole, Early
<1> QED BY <1>2, <1>5, <1>6 DEF h

LEMMA AskingKeeps ==
    ASSUME ConsolesInv, NEW c \in Windows,
           C!AskPassword(c) \/ C!LogIn(c) \/ C!OpenProxy(c)
    PROVE  ConsolesInv'
<1> DEFINE h == [cCon[c] EXCEPT !.at = @ + 1]
<1>1. PICK stage \in {"password", "login", "proxy", "connect", "handshake"} : C!At(c, stage)
  BY DEF C!AskPassword, C!LogIn, C!OpenProxy
<1>2. h \in HandlerRecords /\ h.got = cCon[c].got /\ \A b, f : Whole(h, b, f)
  BY <1>1, GoesOn
<1>3. cCon' = [cCon EXCEPT ![c] = h] /\ UNCHANGED <<cBrowser, cPrinted, cShown, cBlocked>>
      /\ (cFar' = cFar \/ cFar' = [cFar EXCEPT ![c] = "listening"])
  BY DEF C!AskPassword, C!LogIn, C!OpenProxy, C!Set, C!Next1
<1>4. Held'
  <2>1. cBlocked # c
    BY <1>1, Stage, ConsolesAssumption DEF C!Nobody
  <2> QED BY <1>3, <2>1, StillHeld
<1> HIDE DEF h
<1>5. CASE cFar' = cFar
  BY <1>2, <1>3, <1>4, <1>5, LeftAlone, HandlerChanges
<1>6. CASE cFar' = [cFar EXCEPT ![c] = "listening"]
  <2>1. "listening" \in FarSides
    BY DEF FarSides
  <2> QED BY <1>2, <1>3, <1>4, <1>6, <2>1, FarChanges
<1> QED BY <1>3, <1>5, <1>6

LEMMA ConnectKeeps ==
    ASSUME ConsolesInv, NEW c \in Windows, C!Connect(c)
    PROVE  ConsolesInv'
<1> DEFINE n == [cCon[c] EXCEPT !.at = @ + 1]
           vnc == cCon[c].kind = "vnc"
           h == [n EXCEPT !.up = vnc, !.down = vnc]
<1>1. C!At(c, "connect")
  BY DEF C!Connect
<1>2. n \in HandlerRecords /\ n.got = cCon[c].got
      /\ n.st = "on" /\ n.at \notin {1, 2} /\ n.at \in 1..Len(C!Stages[n.kind])
  BY <1>1, GoesOn
<1>3. cCon' = [cCon EXCEPT ![c] = h] /\ cFar' = [cFar EXCEPT ![c] = "open"]
      /\ UNCHANGED <<cBrowser, cPrinted, cShown, cBlocked>>
  BY DEF C!Connect, C!Set, C!Next1
<1> HIDE DEF n, vnc
<1>4. h \in HandlerRecords /\ h.got = n.got /\ h.st = n.st /\ h.at = n.at /\ h.kind = n.kind
  <2>1. vnc \in BOOLEAN
    BY DEF vnc
  <2> QED BY <1>2, <2>1 DEF HandlerRecords
<1> HIDE DEF h
<1>5. Whole(h, cBrowser[c], "open")
  BY <1>2, <1>4 DEF Whole, Early
<1>6. Held'
  <2>1. cBlocked # c
    BY <1>1, Stage, ConsolesAssumption DEF C!Nobody
  <2> QED BY <1>3, <2>1, StillHeld
<1>7. "open" \in FarSides
  BY DEF FarSides
<1> QED BY <1>2, <1>3, <1>4, <1>5, <1>6, <1>7, FarChanges

\* The handshake shows the browser what it carried.
LEMMA HandshakeKeeps ==
    ASSUME ConsolesInv, NEW c \in Windows, C!Handshake(c)
    PROVE  ConsolesInv'
<1> DEFINE m == [cCon[c] EXCEPT !.at = @ + 1]
<1>1. C!At(c, "handshake")
  BY DEF C!Handshake
<1>2. m \in HandlerRecords
      /\ m.st = "on" /\ m.at \notin {1, 2} /\ m.at \in 1..Len(C!Stages[m.kind])
  BY <1>1, GoesOn
<1>3. PICK n \in 0..cPrinted[c] :
        /\ cCon' = [cCon EXCEPT ![c] = [m EXCEPT !.up = TRUE, !.down = TRUE, !.got = n]]
        /\ cShown' = [cShown EXCEPT ![c] = [i \in 1..n |-> i]]
  BY DEF C!Handshake, C!Set, C!Next1
<1>4. UNCHANGED <<cBrowser, cFar, cPrinted, cBlocked>>
  BY DEF C!Handshake
<1> DEFINE h == [m EXCEPT !.up = TRUE, !.down = TRUE, !.got = n]
<1>5. n \in Nat
  BY LeftAlone
<1> HIDE DEF m
<1>6. h \in HandlerRecords /\ h.got = n /\ h.st = m.st /\ h.at = m.at /\ h.kind = m.kind
  BY <1>2, <1>5 DEF HandlerRecords
<1> HIDE DEF h
<1>7. Whole(h, cBrowser[c], cFar[c])
  BY <1>2, <1>6 DEF Whole, Early
<1>8. Held'
  <2>1. cBlocked # c
    BY <1>1, Stage, ConsolesAssumption DEF C!Nobody
  <2> QED BY <1>3, <1>4, <2>1, StillHeld
<1>9. cBrowser' = [cBrowser EXCEPT ![c] = cBrowser[c]] /\ cFar' = [cFar EXCEPT ![c] = cFar[c]]
      /\ cBrowser[c] \in BrowserSides /\ cFar[c] \in FarSides /\ cPrinted' \in [Windows -> Nat]
  BY <1>4, LeftAlone
<1>10. cCon' = [cCon EXCEPT ![c] = h]
  BY <1>3 DEF h
<1> QED BY <1>3, <1>6, <1>7, <1>8, <1>9, <1>10, OneConsole

\* A handler that closes may have any side in any state.
LEMMA FailKeeps ==
    ASSUME ConsolesInv, NEW c \in Windows, C!Fail(c)
    PROVE  ConsolesInv'
<1> DEFINE h == [cCon[c] EXCEPT !.st = "closing"]
<1>1. cBlocked # c
  <2>1. PICK stage : C!At(c, stage)
    BY DEF C!Fail
  <2> QED BY <2>1, ConsolesAssumption DEF C!At, C!Nobody
<1>2. cCon' = [cCon EXCEPT ![c] = h] /\ cBrowser' = [cBrowser EXCEPT ![c] = "gone"]
      /\ UNCHANGED <<cFar, cPrinted, cShown, cBlocked>>
  BY DEF C!Fail, C!Set, C!Gone
<1>3. h \in HandlerRecords /\ h.got = cCon[c].got /\ Whole(h, "gone", cFar[c])
  BY LeftAlone DEF HandlerRecords, Whole, Early
<1>4. Held'
  BY <1>1, <1>2, StillHeld
<1> QED BY <1>2, <1>3, <1>4, HandlerChanges DEF BrowserSides

\* At the relay.
LEMMA AtRelay ==
    ASSUME ConsolesInv, NEW c \in Windows, C!At(c, "relay")
    PROVE  /\ cBlocked # c /\ cCon[c] \in HandlerRecords /\ cCon[c].st = "on"
           /\ cCon[c].at \notin {1, 2} /\ cCon[c].at \in 1..Len(C!Stages[cCon[c].kind])
<1>1. cCon[c] \in HandlerRecords
  BY LeftAlone
<1> QED BY <1>1, Stage, ConsolesAssumption DEF C!Nobody

LEMMA RelayKeeps ==
    ASSUME ConsolesInv, NEW c \in Windows, C!UpEnds(c) \/ C!RelayEnds(c)
    PROVE  ConsolesInv'
<1>1. C!At(c, "relay") /\ UNCHANGED <<cBrowser, cFar, cPrinted, cShown, cBlocked>>
  BY DEF C!UpEnds, C!RelayEnds
<1>2. CASE C!UpEnds(c)
  <2> DEFINE h == [cCon[c] EXCEPT !.up = FALSE]
  <2>1. h \in HandlerRecords /\ h.got = cCon[c].got /\ Whole(h, cBrowser[c], cFar[c])
    BY <1>1, AtRelay DEF HandlerRecords, Whole, Early
  <2>2. cCon' = [cCon EXCEPT ![c] = h]
    BY <1>2 DEF C!UpEnds, C!Set
  <2>3. Held'
    BY <1>1, <2>2, AtRelay, StillHeld
  <2> QED BY <1>1, <2>1, <2>2, <2>3, LeftAlone, HandlerChanges
<1>3. CASE C!RelayEnds(c)
  <2> DEFINE h == [cCon[c] EXCEPT !.st = "closing", !.up = FALSE, !.down = FALSE]
  <2>1. h \in HandlerRecords /\ h.got = cCon[c].got /\ Whole(h, cBrowser[c], cFar[c])
    BY <1>1, AtRelay DEF HandlerRecords, Whole, Early
  <2>2. cCon' = [cCon EXCEPT ![c] = h]
    BY <1>3 DEF C!RelayEnds, C!Set
  <2>3. Held'
    BY <1>1, <2>2, AtRelay, StillHeld
  <2> QED BY <1>1, <2>1, <2>2, <2>3, LeftAlone, HandlerChanges
<1> QED BY <1>2, <1>3

\* What arrives is shown next.
LEMMA DownKeeps ==
    ASSUME ConsolesInv, NEW c \in Windows, C!Down(c)
    PROVE  ConsolesInv'
<1>1. C!At(c, "relay") /\ UNCHANGED <<cBrowser, cFar, cPrinted, cBlocked>>
  BY DEF C!Down
<1>2. CASE C!Set(c, [cCon[c] EXCEPT !.got = @ + 1])
           /\ cShown' = [cShown EXCEPT ![c] = Append(@, cCon[c].got + 1)]
  <2> DEFINE h == [cCon[c] EXCEPT !.got = @ + 1]
             s == Append(cShown[c], cCon[c].got + 1)
  <2>1. cCon[c].got \in Nat /\ h \in HandlerRecords /\ h.got = cCon[c].got + 1
    <3>1. cCon[c] \in HandlerRecords
      BY LeftAlone
    <3> QED BY <3>1 DEF HandlerRecords
  <2>2. Whole(h, cBrowser[c], cFar[c])
    BY <1>1, AtRelay DEF HandlerRecords, Whole, Early
  <2>3. s = [i \in 1..h.got |-> i]
    <3>1. cShown[c] = [i \in 1..cCon[c].got |-> i]
      BY LeftAlone
    <3>2. cShown[c] \in Seq(Nat) /\ Len(cShown[c]) = cCon[c].got
      BY <2>1, <3>1
    <3> QED BY <2>1, <3>1, <3>2
  <2>4. cCon' = [cCon EXCEPT ![c] = h] /\ cShown' = [cShown EXCEPT ![c] = s]
    BY <1>2 DEF C!Set
  <2>5. cBrowser' = [cBrowser EXCEPT ![c] = cBrowser[c]] /\ cFar' = [cFar EXCEPT ![c] = cFar[c]]
        /\ cBrowser[c] \in BrowserSides /\ cFar[c] \in FarSides /\ cPrinted' \in [Windows -> Nat]
    BY <1>1, LeftAlone
  <2>6. Held'
    BY <1>1, <2>4, AtRelay, StillHeld
  <2> HIDE DEF h, s
  <2> QED BY <2>1, <2>2, <2>3, <2>4, <2>5, <2>6, OneConsole
<1>3. CASE C!Set(c, [cCon[c] EXCEPT !.down = FALSE]) /\ UNCHANGED cShown
  <2> DEFINE h == [cCon[c] EXCEPT !.down = FALSE]
  <2>1. h \in HandlerRecords /\ h.got = cCon[c].got /\ Whole(h, cBrowser[c], cFar[c])
    BY <1>1, AtRelay DEF HandlerRecords, Whole, Early
  <2>2. cCon' = [cCon EXCEPT ![c] = h]
    BY <1>3 DEF C!Set
  <2>3. Held'
    BY <1>1, <2>2, AtRelay, StillHeld
  <2> QED BY <1>1, <1>3, <2>1, <2>2, <2>3, LeftAlone, HandlerChanges
<1> QED BY <1>2, <1>3 DEF C!Down

LEMMA ClosingKeeps ==
    ASSUME ConsolesInv, NEW c \in Windows, C!CloseFar(c) \/ C!CloseBrowser(c)
    PROVE  ConsolesInv'
<1>1. cBlocked' = cBlocked /\ cBlocked # c /\ UNCHANGED <<cPrinted, cShown>>
  BY ConsolesAssumption DEF C!CloseFar, C!CloseBrowser, C!Nobody
<1>2. CASE C!CloseFar(c)
  <2> DEFINE h == [cCon[c] EXCEPT !.st = "closed"]
  <2>1. h \in HandlerRecords /\ h.got = cCon[c].got /\ Whole(h, cBrowser[c], "none")
    BY LeftAlone DEF HandlerRecords, Whole, Early
  <2>2. cCon' = [cCon EXCEPT ![c] = h] /\ cFar' = [cFar EXCEPT ![c] = "none"] /\ cBrowser' = cBrowser
    BY <1>2 DEF C!CloseFar, C!Set
  <2>3. Held'
    BY <1>1, <2>2, StillHeld
  <2> QED BY <1>1, <2>1, <2>2, <2>3, FarChanges DEF FarSides
<1>3. CASE C!CloseBrowser(c)
  <2>1. Held'
    BY <1>1, <1>3, StillHeld DEF C!CloseBrowser, C!Over, C!Set
  <2> QED BY <1>1, <1>3, <2>1, OverKeeps DEF C!CloseBrowser
<1> QED BY <1>2, <1>3

\* Browsers leave, guests write, Proxmox's side comes to its end.
LEMMA OutsideKeeps ==
    ASSUME ConsolesInv, NEW c \in Windows,
           C!BrowserLeaves(c) \/ C!GuestPrints(c) \/ C!FarChanges(c)
    PROVE  ConsolesInv'
<1>1. UNCHANGED <<cCon, cShown, cBlocked>> /\ Held'
  <2>1. UNCHANGED <<cCon, cShown, cBlocked>>
    BY DEF C!BrowserLeaves, C!GuestPrints, C!FarChanges
  <2> QED BY <2>1 DEF ConsolesInv, Held
<1>2. CASE C!BrowserLeaves(c)
  <2>1. cBrowser' = [cBrowser EXCEPT ![c] = "gone"] /\ UNCHANGED <<cFar, cPrinted>>
    BY <1>2 DEF C!BrowserLeaves, C!Gone
  <2>2. Whole(cCon[c], "gone", cFar[c])
    BY LeftAlone DEF Whole
  <2>3. cCon' = [cCon EXCEPT ![c] = cCon[c]]
    BY <1>1, LeftAlone
  <2> QED BY <1>1, <2>1, <2>2, <2>3, LeftAlone, HandlerChanges DEF BrowserSides
<1>3. CASE C!GuestPrints(c)
  <2>1. cPrinted' \in [Windows -> Nat] /\ UNCHANGED <<cBrowser, cFar>>
    BY <1>3 DEF C!GuestPrints, ConsolesInv
  <2> QED BY <1>1, <2>1, NoneChanges
<1>4. CASE C!FarChanges(c)
  <2>1. PICK f \in {"none", "ended", "dead"} :
          /\ cFar' = [cFar EXCEPT ![c] = f]
          /\ \/ f = "none" \/ cFar[c] = "open"
    BY <1>4 DEF C!FarChanges
  <2>2. Whole(cCon[c], cBrowser[c], f) /\ f \in FarSides
    BY <2>1, LeftAlone DEF Whole, FarSides
  <2>3. UNCHANGED <<cBrowser, cPrinted>>
    BY <1>4 DEF C!FarChanges
  <2> QED BY <1>1, <2>1, <2>2, <2>3, LeftAlone, FarChanges
<1> QED BY <1>2, <1>3, <1>4

LEMMA ConsolesStep == ConsolesInv /\ C!Next => ConsolesInv'
<1> SUFFICES ASSUME ConsolesInv, C!Next PROVE ConsolesInv'
  OBVIOUS
<1>1. ASSUME NEW c \in Windows, C!HandlerStep(c) PROVE ConsolesInv'
  BY <1>1, LookUpKeeps, AskingKeeps, ConnectKeeps, HandshakeKeeps, FailKeeps, RelayKeeps,
     DownKeeps, ClosingKeeps DEF C!HandlerStep
<1>2. CASE C!JobStarts \/ C!JobEnds
  <2>1. UNCHANGED <<cCon, cBrowser, cFar, cPrinted, cShown, cBlocked>>
    BY <1>2 DEF C!JobStarts, C!JobEnds
  <2> QED BY <2>1 DEF ConsolesInv, Sides, Held, Shown
<1> QED BY <1>1, <1>2, OpeningKeeps, OutsideKeeps DEF C!Next

LEMMA ConsolesStay ==
    ASSUME ConsolesInv, UNCHANGED consolesVars
    PROVE  ConsolesInv'
  BY DEF ConsolesInv, Sides, Held, Shown, consolesVars

LEMMA InvTrue == ConsolesInv => ConsolesTrue
<1> SUFFICES ASSUME ConsolesInv PROVE C!OutputInOrder /\ C!BothSidesClosed
  BY DEF ConsolesTrue
<1>1. C!OutputInOrder
  BY LeftAlone DEF C!OutputInOrder
<1>2. C!BothSidesClosed
  BY DEF ConsolesInv, Sides, Whole, C!BothSidesClosed
<1> QED BY <1>1, <1>2

-----------------------------------------------------------------------------
\* A console shows what its guest has written, in order and without a gap,
\* and leaves nothing open behind it when its handler has ended, however that
\* was: for any number of consoles at once, any pool, any number of failures.
THEOREM ConsolesHold == PartsSpec => []ConsolesTrue
<1>1. PartsInit => ConsolesInv
  BY ConsolesInit DEF PartsInit
<1>2. ConsolesInv /\ [PartsNext]_partsVars => ConsolesInv'
  BY ConsolesStep, ConsolesStay DEF PartsNext, partsVars, BulkTasks, AppStep, MonitorStep, ConsoleStep
<1> QED BY <1>1, <1>2, InvTrue, PTL DEF PartsSpec
=============================================================================
