------------------------ MODULE GuestAddressesProofs ------------------------
(***************************************************************************)
(* Proofs about the alias addresses of a container, for any addresses,     *)
(* threads and stacks, and any number of overlapping requests and events.  *)
(***************************************************************************)
EXTENDS GuestAddresses, TLAPS

\* An address list that is on its way holds only addresses of IPAM, and all
\* that were allocated when it was read.
Known(p) ==
    /\ p.ips \subseteq managed /\ p.asof <= lastId
    /\ \A r \in rows : r.id <= p.asof => r.ip \in p.ips

AllKnown ==
    /\ \A t \in Threads : Known(thr[t].push) /\ Known(proc[t].push)
    /\ \A p \in file : Known(p)

\* IPAM and the state file only name addresses that have been in IPAM.
Accounted ==
    /\ lastId <= events
    /\ state \subseteq managed
    /\ \A r \in rows : r.ip \in managed

\* The inductive invariant behind the theorems.
IInv == TypeOK /\ AllKnown /\ Accounted

-----------------------------------------------------------------------------
LEMMA ConstantTypes ==
    /\ NoPush \in Push /\ Idle \in Request /\ NoScript \in Script
    /\ MaxEvents \in Nat /\ NAddrs \in Nat /\ MaxOthers \in Nat
BY SizesAssumption DEF NoPush, Push, Idle, Request, NoScript, Script, ThreadPcs, RunningPcs,
                       Statuses, Addrs, Row

\* A list stays known while rows keep their addresses and new ones get new
\* identifiers.
LEMMA KnownKept ==
    ASSUME IInv, managed \subseteq managed', lastId <= lastId', lastId' \in Nat,
           \A r \in rows' : r.id > lastId \/ \E s \in rows : s.id = r.id /\ s.ip = r.ip,
           rows' \subseteq Row,
           NEW p \in Push, Known(p)
    PROVE  Known(p)'
<1>1. p.asof \in Nat /\ lastId \in Nat
  BY DEF IInv, TypeOK, Push
<1>2. p.asof <= lastId'
  BY <1>1 DEF Known
<1>3. ASSUME NEW r \in rows', r.id <= p.asof PROVE r.ip \in p.ips
  <2>1. r.id \in Nat
    BY DEF Row
  <2>2. ~ (r.id > lastId)
    BY <1>1, <1>3, <2>1 DEF Known
  <2>3. PICK s \in rows : s.id = r.id /\ s.ip = r.ip
    BY <2>2
  <2>4. QED
    BY <1>3, <2>3 DEF Known
<1>4. QED
  BY <1>2, <1>3 DEF Known

\* Every list that is known stays so, whoever holds it.
LEMMA ListsKept ==
    ASSUME IInv, managed \subseteq managed', lastId <= lastId', lastId' \in Nat,
           \A r \in rows' : r.id > lastId \/ \E s \in rows : s.id = r.id /\ s.ip = r.ip,
           rows' \subseteq Row,
           \A t \in Threads : thr'[t].push \in {NoPush} \union {thr[u].push : u \in Threads},
           \A t \in Threads :
              proc'[t].push \in {NoPush} \union {proc[u].push : u \in Threads} \union file,
           file' \subseteq file \union {thr[u].push : u \in Threads}
    PROVE  AllKnown'
<1>1. ASSUME NEW u \in Threads
      PROVE  /\ thr[u].push \in Push /\ proc[u].push \in Push
             /\ Known(thr[u].push) /\ Known(proc[u].push)
  BY DEF IInv, TypeOK, AllKnown, Request, Script
<1>2. \A p \in file : p \in Push /\ Known(p)
  BY DEF IInv, TypeOK, AllKnown
<1>3. NoPush \in Push /\ Known(NoPush)
  BY ConstantTypes, SizesAssumption DEF IInv, TypeOK, Known, NoPush, Row
<1>4. DEFINE Lists == {NoPush} \union {thr[u].push : u \in Threads}
                        \union {proc[u].push : u \in Threads} \union file
<1>5. \A p \in Lists : p \in Push /\ Known(p)
  BY <1>1, <1>2, <1>3
<1>6. ASSUME NEW p \in Lists PROVE Known(p)'
  BY <1>5, KnownKept
<1>7. \A t \in Threads : thr'[t].push \in Lists /\ proc'[t].push \in Lists
  OBVIOUS
<1>8. file' \subseteq Lists
  OBVIOUS
<1>9. HIDE DEF Lists
<1>10. QED
  BY <1>6, <1>7, <1>8 DEF AllKnown

-----------------------------------------------------------------------------
(* Initial states and requests.                                            *)

LEMMA InitIInv == Init => IInv
<1> SUFFICES ASSUME Init PROVE IInv
  OBVIOUS
<1>1. TypeOK
  BY ConstantTypes DEF Init, TypeOK
<1>2. Known(NoPush)
  BY DEF Init, Known, NoPush
<1>3. AllKnown
  BY <1>2 DEF Init, AllKnown, Idle, NoScript
<1>4. Accounted
  BY DEF Init, Accounted
<1>5. QED
  BY <1>1, <1>3, <1>4 DEF IInv

LEMMA StutterIInv == IInv /\ UNCHANGED vars => IInv'
BY DEF vars, guest, IInv, TypeOK, AllKnown, Known, Accounted

\* No thread's list is touched when threads learn that they are not alone.
LEMMA DisturbedType ==
    ASSUME IInv
    PROVE  /\ Disturbed \in [Threads -> Request]
           /\ \A u \in Threads : Disturbed[u].push = thr[u].push
BY DEF IInv, TypeOK, Disturbed, Request

LEMMA BeginType ==
    ASSUME IInv, NEW t \in Threads, Begin(t)
    PROVE  /\ thr' \in [Threads -> Request]
           /\ \A u \in Threads : thr'[u].push \in {NoPush} \union {thr[v].push : v \in Threads}
           /\ events' \in 0..MaxEvents /\ events' = events + 1
           /\ UNCHANGED <<stack, guest, hand, lost, others>>
<1> DEFINE alone == \A u \in Threads : Idles(u) /\ ~Running(u)
           new == [Idle EXCEPT !.pc = "read", !.alone = alone]
<1>1. alone \in BOOLEAN
  OBVIOUS
<1>2. new \in Request /\ new.push = NoPush
  BY <1>1, ConstantTypes DEF Idle, Request, ThreadPcs
<1>3. thr' = [Disturbed EXCEPT ![t] = new]
  BY DEF Begin
<1>4. events' = events + 1 /\ events' \in 0..MaxEvents
  BY SizesAssumption DEF Begin, Count, IInv, TypeOK
<1>5. UNCHANGED <<stack, guest, hand, lost, others>>
  BY DEF Begin
<1>6. QED
  <2> HIDE DEF new
  <2>1. thr' \in [Threads -> Request]
    BY <1>2, <1>3, DisturbedType
  <2>2. \A u \in Threads : thr'[u].push = NoPush \/ thr'[u].push = thr[u].push
    BY <1>2, <1>3, DisturbedType
  <2>3. QED
    BY <1>4, <1>5, <2>1, <2>2

\* A row that is inserted is a row, with an identifier of its own.
LEMMA InsertType ==
    ASSUME IInv, NEW a \in Addrs, NEW status \in Statuses, Insert(a, status),
           events' \in 0..MaxEvents, events' = events + 1
    PROVE  /\ rows' \subseteq Row /\ lastId' \in 0..MaxEvents /\ lastId' <= events'
           /\ \A r \in rows' : r.id <= lastId' /\ r.ip \in managed'
           /\ \A r \in rows' : r.id > lastId \/ \E s \in rows : s.id = r.id /\ s.ip = r.ip
           /\ managed \subseteq managed' /\ managed' \subseteq Addrs
           /\ lastId <= lastId' /\ lastId' \in Nat
<1> DEFINE new == [id |-> lastId + 1, ip |-> a, status |-> status]
<1>1. /\ rows' = rows \union {new} /\ lastId' = lastId + 1
      /\ managed' = managed \union {a}
  BY DEF Insert
<1>2. lastId \in Nat /\ lastId + 1 <= events' /\ MaxEvents \in Nat /\ lastId + 1 <= MaxEvents
  BY SizesAssumption DEF IInv, TypeOK, Accounted
<1>3. new \in Row /\ new.id > lastId /\ new.ip = a
  BY <1>2 DEF Row
<1>4. \A r \in rows : r \in Row /\ r.id <= lastId /\ r.ip \in managed
  BY DEF IInv, TypeOK, Accounted
<1>5. \A r \in rows : r.id <= lastId'
  BY <1>1, <1>2, <1>4 DEF Row
<1>6. managed \subseteq Addrs
  BY DEF IInv, TypeOK
<1>7. QED
  <2>1. rows' \subseteq Row
    BY <1>1, <1>3, <1>4
  <2>2. new.id <= lastId'
    BY <1>1, <1>2
  <2> HIDE DEF new
  <2>3. QED
    BY <1>1, <1>2, <1>3, <1>4, <1>5, <1>6, <2>1, <2>2

LEMMA AddAddressIInv ==
    ASSUME IInv, NEW t \in Threads, NEW a \in Addrs, AddAddress(t, a)
    PROVE  IInv'
<1>1. Begin(t) /\ Insert(a, "pending")
  BY DEF AddAddress
<1>2. "pending" \in Statuses
  BY DEF Statuses
<1>3. TypeOK'
  BY <1>1, <1>2, BeginType, InsertType DEF IInv, TypeOK, guest
<1>4. Accounted'
  BY <1>1, <1>2, BeginType, InsertType DEF IInv, Accounted, guest
<1>5. AllKnown'
  BY <1>1, <1>2, BeginType, InsertType, ListsKept DEF guest
<1>6. QED
  BY <1>3, <1>4, <1>5 DEF IInv

LEMMA ApplyAddressIInv ==
    ASSUME IInv, NEW t \in Threads, ApplyAddress(t)
    PROVE  IInv'
<1>1. Begin(t) /\ UNCHANGED <<rows, lastId, managed>>
  BY DEF ApplyAddress
<1>2. TypeOK'
  BY <1>1, BeginType DEF IInv, TypeOK, guest
<1>3. Accounted'
  BY <1>1, BeginType DEF IInv, TypeOK, Accounted, guest
<1>4. lastId \in Nat /\ rows \subseteq Row
  BY DEF IInv, TypeOK
<1>5. AllKnown'
  BY <1>1, <1>4, BeginType, ListsKept DEF guest
<1>6. QED
  BY <1>2, <1>3, <1>5 DEF IInv

LEMMA RemoveAddressIInv ==
    ASSUME IInv, NEW t \in Threads, NEW r \in rows, RemoveAddress(t, r)
    PROVE  IInv'
<1>1. Begin(t) /\ rows' = rows \ {r} /\ UNCHANGED <<lastId, managed>>
  BY DEF RemoveAddress
<1>2. TypeOK'
  BY <1>1, BeginType DEF IInv, TypeOK, guest
<1>3. Accounted'
  BY <1>1, BeginType DEF IInv, TypeOK, Accounted, guest
<1>4. lastId \in Nat /\ rows' \subseteq Row
  BY <1>1 DEF IInv, TypeOK
<1>5. AllKnown'
  BY <1>1, <1>4, BeginType, ListsKept DEF guest
<1>6. QED
  BY <1>2, <1>3, <1>5 DEF IInv

-----------------------------------------------------------------------------
(* The steps of a push.                                                    *)

LEMMA ReadRowsIInv ==
    ASSUME IInv, NEW t \in Threads, ReadRows(t)
    PROVE  IInv'
<1> DEFINE push == [ips |-> Wanted, asof |-> lastId]
<1>1. UNCHANGED <<rows, lastId, stack, hand, managed, events, others, guest, lost>>
  BY DEF ReadRows, NotIpam
<1>2. push \in Push /\ Known(push)
  <2>1. Wanted \subseteq Addrs /\ Wanted \subseteq managed /\ \A r \in rows : r.ip \in Wanted
    BY DEF IInv, TypeOK, Accounted, Wanted, Row
  <2>2. lastId \in 0..MaxEvents
    BY DEF IInv, TypeOK
  <2>3. QED
    BY <2>1, <2>2 DEF Push, Known
<1>3. PICK next \in Request : /\ next.push \in {push, thr[t].push}
                              /\ thr' = [thr EXCEPT ![t] = next]
  <2>1. CASE GoOn(t, [thr[t] EXCEPT !.pc = "upload", !.seen = rows, !.push = push])
    <3> DEFINE next == [thr[t] EXCEPT !.pc = "upload", !.seen = rows, !.push = push]
    <3>1. next \in Request /\ next.push = push
      BY <1>2 DEF IInv, TypeOK, Request, ThreadPcs
    <3>2. QED
      BY <2>1, <3>1 DEF GoOn
  <2>2. CASE \E result \in {"pending", "failed"} :
               GoOn(t, [thr[t] EXCEPT !.pc = "finish", !.seen = rows, !.result = result])
    <3>1. PICK result \in {"pending", "failed"} :
               GoOn(t, [thr[t] EXCEPT !.pc = "finish", !.seen = rows, !.result = result])
      BY <2>2
    <3> DEFINE next == [thr[t] EXCEPT !.pc = "finish", !.seen = rows, !.result = result]
    <3>2. next \in Request /\ next.push = thr[t].push
      BY DEF IInv, TypeOK, Request, ThreadPcs, Statuses
    <3>3. QED
      BY <3>1, <3>2 DEF GoOn
  <2>3. QED
    BY <2>1, <2>2 DEF ReadRows
<1>4. TypeOK'
  BY <1>1, <1>3 DEF IInv, TypeOK, guest
<1>5. Accounted'
  BY <1>1 DEF IInv, Accounted, guest
<1>6. \A u \in Threads : Known(thr'[u].push)
  <2> HIDE DEF push
  <2>1. \A u \in Threads : thr'[u].push \in {push, thr[u].push}
    BY <1>3 DEF IInv, TypeOK
  <2>2. QED
    BY <1>2, <2>1 DEF IInv, AllKnown
<1>7. AllKnown'
  BY <1>1, <1>6 DEF IInv, AllKnown, Known, guest
<1>8. QED
  BY <1>4, <1>5, <1>7 DEF IInv

\* A step of a push that leaves IPAM, the interface and the state file alone.
LEMMA PushStepIInv ==
    ASSUME IInv, NEW t \in Threads, NEW next \in Request, NEW script \in Script,
           next.push \in {NoPush, thr[t].push},
           script.push \in {NoPush, proc[t].push} \union file,
           thr' = [thr EXCEPT ![t] = next], proc' = [proc EXCEPT ![t] = script],
           file' \subseteq file \union {thr[t].push},
           UNCHANGED <<rows, lastId, stack, live, state, conf, hand, managed, lost, events, others>>
    PROVE  IInv'
<1>1. thr' \in [Threads -> Request] /\ proc' \in [Threads -> Script]
  BY DEF IInv, TypeOK
<1>2. file' \subseteq Push
  BY DEF IInv, TypeOK, Request
<1>3. TypeOK'
  BY <1>1, <1>2 DEF IInv, TypeOK
<1>4. Accounted'
  BY DEF IInv, Accounted
<1>5. \A u \in Threads : thr'[u].push \in {NoPush} \union {thr[v].push : v \in Threads}
  BY DEF IInv, TypeOK
<1>6. \A u \in Threads :
         proc'[u].push \in {NoPush} \union {proc[v].push : v \in Threads} \union file
  BY DEF IInv, TypeOK
<1>7. lastId \in Nat /\ rows \subseteq Row
  BY DEF IInv, TypeOK
<1>8. AllKnown'
  BY <1>5, <1>6, <1>7, ListsKept
<1>9. QED
  BY <1>3, <1>4, <1>8 DEF IInv

\* What the lemma above needs when the script process stays as it is.
LEMMA SameScript ==
    ASSUME IInv, NEW t \in Threads
    PROVE  proc[t] \in Script /\ proc = [proc EXCEPT ![t] = proc[t]] /\ thr[t] \in Request
BY DEF IInv, TypeOK

LEMMA UploadIInv ==
    ASSUME IInv, NEW t \in Threads, Upload(t)
    PROVE  IInv'
<1>1. UNCHANGED <<rows, lastId, stack, live, state, conf, proc, hand, managed, lost, events, others>>
  BY DEF Upload, NotIpam
<1>2. CASE GoOn(t, [thr[t] EXCEPT !.pc = "exec", !.push = NoPush]) /\ file' = {thr[t].push}
  <2> DEFINE next == [thr[t] EXCEPT !.pc = "exec", !.push = NoPush]
  <2>1. next \in Request /\ next.push = NoPush
    BY SameScript, ConstantTypes DEF Request, ThreadPcs
  <2>2. QED
    BY <1>1, <1>2, <2>1, SameScript, PushStepIInv DEF GoOn
<1>3. ASSUME NEW where \in {"cleanup", "finish"},
             GoOn(t, [thr[t] EXCEPT !.pc = where, !.push = NoPush, !.result = "pending"]),
             UNCHANGED file
      PROVE  IInv'
  <2> DEFINE next == [thr[t] EXCEPT !.pc = where, !.push = NoPush, !.result = "pending"]
  <2>1. next \in Request /\ next.push = NoPush
    BY SameScript, ConstantTypes DEF Request, ThreadPcs, Statuses
  <2>2. QED
    BY <1>1, <1>3, <2>1, SameScript, PushStepIInv DEF GoOn
<1>4. QED
  BY <1>2, <1>3 DEF Upload

LEMMA ExecIInv ==
    ASSUME IInv, NEW t \in Threads, Exec(t)
    PROVE  IInv'
<1>1. UNCHANGED <<rows, lastId, stack, live, state, conf, file, hand, managed, lost, events, others>>
  BY DEF Exec, NotIpam
<1>2. ASSUME NEW push \in file,
             proc' = [proc EXCEPT ![t] = [NoScript EXCEPT !.pc = "clear", !.push = push]],
             GoOn(t, [thr[t] EXCEPT !.pc = "wait"])
      PROVE  IInv'
  <2> DEFINE next == [thr[t] EXCEPT !.pc = "wait"]
             script == [NoScript EXCEPT !.pc = "clear", !.push = push]
  <2>1. next \in Request /\ next.push = thr[t].push
    BY SameScript DEF Request, ThreadPcs
  <2>2. push \in Push
    BY DEF IInv, TypeOK
  <2>3. script \in Script /\ script.push = push
    BY <2>2, ConstantTypes DEF NoScript, Script, RunningPcs
  <2>4. QED
    <3> HIDE DEF script
    <3>1. QED
      BY <1>1, <1>2, <2>1, <2>3, PushStepIInv DEF GoOn, script
<1>3. ASSUME NEW result \in {"failed", "pending"}, UNCHANGED proc,
             GoOn(t, [thr[t] EXCEPT !.pc = "cleanup", !.result = result])
      PROVE  IInv'
  <2> DEFINE next == [thr[t] EXCEPT !.pc = "cleanup", !.result = result]
  <2>1. next \in Request /\ next.push = thr[t].push
    BY SameScript DEF Request, ThreadPcs, Statuses
  <2>2. QED
    BY <1>1, <1>3, <2>1, SameScript, PushStepIInv DEF GoOn
<1>4. QED
  BY <1>2, <1>3 DEF Exec

LEMMA CollectIInv ==
    ASSUME IInv, NEW t \in Threads, Collect(t)
    PROVE  IInv'
<1>1. UNCHANGED <<rows, lastId, stack, live, state, conf, file, hand, managed, lost, events, others>>
  BY DEF Collect, NotIpam
<1>2. PICK result \in Outcomes(proc[t]) :
         GoOn(t, [thr[t] EXCEPT !.pc = "cleanup", !.result = result])
  BY DEF Collect
<1>3. result \in Statuses
  BY DEF Outcomes, Statuses
<1> DEFINE next == [thr[t] EXCEPT !.pc = "cleanup", !.result = result]
           script == IF Running(t) THEN proc[t] ELSE NoScript
<1>4. next \in Request /\ next.push = thr[t].push
  BY <1>3, SameScript DEF Request, ThreadPcs
<1>5. script \in Script /\ script.push \in {NoPush, proc[t].push}
  BY SameScript, ConstantTypes DEF NoScript
<1>6. proc' = [proc EXCEPT ![t] = script]
  BY DEF Collect
<1>7. QED
  BY <1>1, <1>2, <1>4, <1>5, <1>6, PushStepIInv DEF GoOn

LEMMA CleanupIInv ==
    ASSUME IInv, NEW t \in Threads, Cleanup(t)
    PROVE  IInv'
<1> DEFINE next == [thr[t] EXCEPT !.pc = "finish"]
<1>1. next \in Request /\ next.push = thr[t].push
  BY SameScript DEF Request, ThreadPcs
<1>2. QED
  BY <1>1, SameScript, PushStepIInv DEF Cleanup, NotIpam, GoOn

LEMMA FinishIInv ==
    ASSUME IInv, NEW t \in Threads, Finish(t)
    PROVE  IInv'
<1>1. UNCHANGED <<lastId, stack, guest, hand, managed, lost, events, others>>
  BY DEF Finish
<1>2. thr' = [thr EXCEPT ![t] = Idle]
  BY DEF Finish, GoOn
<1>3. \A r \in rows' : r \in Row /\ \E s \in rows : s.id = r.id /\ s.ip = r.ip
  <2>1. rows \subseteq Row /\ thr[t].result \in Statuses
    BY DEF IInv, TypeOK, Request
  <2>2. CASE rows' = rows
    BY <2>1, <2>2
  <2>3. ASSUME NEW W, rows' = {IF r.id \in W THEN [r EXCEPT !.status = thr[t].result] ELSE r
                                : r \in rows}
        PROVE  \A r \in rows' : r \in Row /\ \E s \in rows : s.id = r.id /\ s.ip = r.ip
    <3>1. \A r \in rows : LET n == [r EXCEPT !.status = thr[t].result]
                          IN  n \in Row /\ n.id = r.id /\ n.ip = r.ip
      BY <2>1 DEF Row
    <3>2. QED
      BY <2>1, <2>3, <3>1
  <2>4. QED
    BY <2>2, <2>3 DEF Finish
<1>4. thr' \in [Threads -> Request]
  BY <1>2, ConstantTypes DEF IInv, TypeOK
<1>5. \A r \in rows' : r.id <= lastId /\ r.ip \in managed
  BY <1>3 DEF IInv, TypeOK, Accounted
<1>6. TypeOK'
  BY <1>1, <1>3, <1>4, <1>5 DEF IInv, TypeOK, guest
<1>7. Accounted'
  BY <1>1, <1>5 DEF IInv, Accounted, guest
<1>8. \A u \in Threads : thr'[u].push \in {NoPush} \union {thr[v].push : v \in Threads}
  BY <1>2 DEF IInv, TypeOK, Idle
<1>9. lastId \in Nat /\ rows' \subseteq Row
  BY <1>3 DEF IInv, TypeOK
<1>10. AllKnown'
  BY <1>1, <1>3, <1>8, <1>9, ListsKept DEF guest
<1>11. QED
  BY <1>6, <1>7, <1>10 DEF IInv

-----------------------------------------------------------------------------
(* The steps of the script.                                                *)

\* A step of a script that keeps its list.
LEMMA ScriptStepIInv ==
    ASSUME IInv, NEW t \in Threads, NEW script \in Script,
           script.push \in {NoPush, proc[t].push}, proc' = [proc EXCEPT ![t] = script],
           state' \in {state, proc[t].push.ips},
           live' \subseteq Addrs, conf' \subseteq Addrs, lost' \subseteq Addrs, NotScript
    PROVE  IInv'
<1> USE DEF NotScript
<1>1. proc' \in [Threads -> Script]
  BY DEF IInv, TypeOK
<1>2. state' \subseteq managed /\ state' \subseteq Addrs
  BY DEF IInv, TypeOK, AllKnown, Known, Accounted
<1>3. TypeOK'
  BY <1>1, <1>2 DEF IInv, TypeOK
<1>4. Accounted'
  BY <1>2 DEF IInv, Accounted
<1>5. \A u \in Threads :
         proc'[u].push \in {NoPush} \union {proc[v].push : v \in Threads} \union file
  BY DEF IInv, TypeOK
<1>6. lastId \in Nat /\ rows \subseteq Row
  BY DEF IInv, TypeOK
<1>7. AllKnown'
  BY <1>5, <1>6, ListsKept
<1>8. QED
  BY <1>3, <1>4, <1>7 DEF IInv

LEMMA EndedType ==
    ASSUME IInv, NEW t \in Threads, NEW how \in {"exit0", "exit1", "killed"}
    PROVE  Ended(t, how) \in Script /\ Ended(t, how).push \in {NoPush, proc[t].push}
<1>1. proc[t].push \in Push
  BY SameScript DEF Script
<1>2. QED
  BY <1>1, ConstantTypes DEF Ended, NoScript, Script

LEMMA GuestSets == IInv => /\ live \subseteq Addrs /\ state \subseteq Addrs /\ conf \subseteq Addrs
                           /\ lost \subseteq Addrs /\ hand \subseteq Addrs
BY DEF IInv, TypeOK

LEMMA ClearIInv ==
    ASSUME IInv, NEW t \in Threads, Clear(t)
    PROVE  IInv'
<1> DEFINE p == proc[t]
           script == [p EXCEPT !.pc = "add", !.prev = state, !.todo = p.push.ips]
<1>1. script \in Script /\ script.push = p.push
  BY SameScript, GuestSets DEF Script, Push, RunningPcs
<1>2. QED
  BY <1>1, GuestSets, ScriptStepIInv DEF Clear, ScriptGoes

LEMMA AddNextIInv ==
    ASSUME IInv, NEW t \in Threads, AddNext(t)
    PROVE  IInv'
<1> DEFINE p == proc[t]
<1>1. NotScript /\ UNCHANGED <<state, conf>>
  BY DEF AddNext
<1>2. p \in Script
  BY SameScript
<1>3. CASE p.todo = {} /\ ScriptGoes(t, [p EXCEPT !.pc = "write"]) /\ UNCHANGED <<live, lost>>
  <2> DEFINE script == [p EXCEPT !.pc = "write"]
  <2>1. script \in Script /\ script.push = p.push
    BY <1>2 DEF Script, RunningPcs
  <2>2. QED
    BY <1>1, <1>3, <2>1, GuestSets, ScriptStepIInv DEF ScriptGoes
<1>4. ASSUME NEW a \in p.todo, ScriptGoes(t, [p EXCEPT !.todo = @ \ {a}]), UNCHANGED <<live, lost>>
      PROVE  IInv'
  <2> DEFINE script == [p EXCEPT !.todo = @ \ {a}]
  <2>1. script \in Script /\ script.push = p.push
    BY <1>2 DEF Script
  <2>2. QED
    BY <1>1, <1>4, <2>1, GuestSets, ScriptStepIInv DEF ScriptGoes
<1>5. ASSUME NEW a \in p.todo, live' = live \union {a}, UNCHANGED lost,
             ScriptGoes(t, [p EXCEPT !.todo = @ \ {a}, !.added = @ \union {a}])
      PROVE  IInv'
  <2> DEFINE script == [p EXCEPT !.todo = @ \ {a}, !.added = @ \union {a}]
  <2>1. a \in Addrs
    BY <1>2 DEF Script
  <2>2. script \in Script /\ script.push = p.push
    BY <1>2, <2>1 DEF Script
  <2>3. QED
    BY <1>1, <1>5, <2>1, <2>2, GuestSets, ScriptStepIInv DEF ScriptGoes
<1>6. ASSUME UNCHANGED live, lost' = lost \union (p.added \ state), ScriptGoes(t, Ended(t, "exit1"))
      PROVE  IInv'
  <2>1. p.added \subseteq Addrs
    BY <1>2 DEF Script
  <2>2. QED
    BY <1>1, <1>6, <2>1, EndedType, GuestSets, ScriptStepIInv DEF ScriptGoes
<1>7. QED
  BY <1>3, <1>4, <1>5, <1>6 DEF AddNext

LEMMA WriteStateIInv ==
    ASSUME IInv, NEW t \in Threads, WriteState(t)
    PROVE  IInv'
<1> DEFINE p == proc[t]
           script == [p EXCEPT !.pc = "persist"]
<1>1. script \in Script /\ script.push = p.push
  BY SameScript DEF Script, RunningPcs
<1>2. QED
  BY <1>1, GuestSets, ScriptStepIInv DEF WriteState, ScriptGoes

LEMMA PersistIInv ==
    ASSUME IInv, NEW t \in Threads, Persist(t)
    PROVE  IInv'
<1>1. proc[t].push.ips \subseteq Addrs
  BY SameScript DEF Script, Push
<1>2. conf' \subseteq Addrs
  BY <1>1, GuestSets DEF Persist
<1>3. QED
  BY <1>2, EndedType, GuestSets, ScriptStepIInv DEF Persist, ScriptGoes

-----------------------------------------------------------------------------
(* Everything else.                                                        *)

LEMMA EventType ==
    ASSUME IInv, Event
    PROVE  /\ thr' \in [Threads -> Request]
           /\ \A u \in Threads : thr'[u].push = thr[u].push
           /\ events' = events + 1 /\ events' \in 0..MaxEvents
           /\ others' \in 0..MaxOthers /\ stack' = stack
BY DisturbedType, SizesAssumption DEF Event, Count, IInv, TypeOK

\* An event that changes the guest or takes rows away.
LEMMA EventIInv ==
    ASSUME IInv, Event, rows' \subseteq rows, UNCHANGED <<lastId, state, managed>>,
           live' \subseteq Addrs, conf' \subseteq Addrs, hand' \subseteq Addrs, lost' \subseteq Addrs,
           file' \subseteq file, proc' \in [Threads -> Script],
           \A u \in Threads : proc'[u].push \in {NoPush, proc[u].push}
    PROVE  IInv'
<1>1. TypeOK'
  BY EventType DEF IInv, TypeOK
<1>2. Accounted'
  BY EventType DEF IInv, TypeOK, Accounted
<1>3. lastId \in Nat /\ rows \subseteq Row
  BY DEF IInv, TypeOK
<1>4. AllKnown'
  BY <1>3, EventType, ListsKept
<1>5. QED
  BY <1>1, <1>2, <1>4 DEF IInv

LEMMA RebootIInv ==
    ASSUME IInv, Reboot
    PROVE  IInv'
<1>1. proc' = [u \in Threads |-> IF Running(u) THEN Ended(u, "killed") ELSE proc[u]]
  BY DEF Reboot
<1>2. /\ proc' \in [Threads -> Script]
      /\ \A u \in Threads : proc'[u].push \in {NoPush, proc[u].push}
  BY <1>1, EndedType, SameScript
<1>3. conf' \subseteq Addrs /\ file' \subseteq file
  BY GuestSets DEF Reboot
<1>4. live' \subseteq Addrs /\ lost' \subseteq Addrs
  BY <1>3, GuestSets DEF Reboot
<1>5. QED
  BY <1>2, <1>3, <1>4, GuestSets, EventIInv DEF Reboot

LEMMA HandIInv ==
    ASSUME IInv, NEW a \in Addrs, HandAdds(a) \/ HandRemoves(a)
    PROVE  IInv'
<1>1. proc \in [Threads -> Script]
  BY DEF IInv, TypeOK
<1>2. QED
  BY <1>1, GuestSets, EventIInv DEF HandAdds, HandRemoves

LEMMA DeleteAllocationIInv ==
    ASSUME IInv, NEW r \in rows, DeleteAllocation(r)
    PROVE  IInv'
<1>1. proc \in [Threads -> Script]
  BY DEF IInv, TypeOK
<1>2. QED
  BY <1>1, GuestSets, EventIInv DEF DeleteAllocation, guest

LEMMA LinkFoundIInv ==
    ASSUME IInv, NEW a \in Addrs, LinkFound(a)
    PROVE  IInv'
<1>1. Event /\ Insert(a, "none") /\ UNCHANGED <<guest, hand, lost>>
  BY DEF LinkFound
<1>2. "none" \in Statuses
  BY DEF Statuses
<1>3. TypeOK'
  BY <1>1, <1>2, EventType, InsertType DEF IInv, TypeOK, guest
<1>4. Accounted'
  BY <1>1, <1>2, EventType, InsertType DEF IInv, Accounted, guest
<1>5. AllKnown'
  BY <1>1, <1>2, EventType, InsertType, ListsKept DEF guest
<1>6. QED
  BY <1>3, <1>4, <1>5 DEF IInv

LEMMA InductiveStep == IInv /\ [Next]_vars => IInv'
<1> SUFFICES ASSUME IInv, [Next]_vars PROVE IInv'
  OBVIOUS
<1>1. CASE Environment
  BY <1>1, RebootIInv, HandIInv, LinkFoundIInv, DeleteAllocationIInv DEF Environment
<1>2. ASSUME NEW t \in Threads, RequestStep(t) PROVE IInv'
  BY <1>2, AddAddressIInv, ApplyAddressIInv, RemoveAddressIInv, ReadRowsIInv, UploadIInv,
     ExecIInv, CollectIInv, CleanupIInv, FinishIInv DEF RequestStep
<1>3. ASSUME NEW t \in Threads, ScriptStep(t) PROVE IInv'
  BY <1>3, ClearIInv, AddNextIInv, WriteStateIInv, PersistIInv DEF ScriptStep
<1>4. CASE UNCHANGED vars
  BY <1>4, StutterIInv
<1>5. QED
  BY <1>1, <1>2, <1>3, <1>4 DEF Next

LEMMA GuestInvariant == Spec => []IInv
BY InitIInv, InductiveStep, PTL DEF Spec

-----------------------------------------------------------------------------
(* The theorems.                                                           *)

\* Type correctness of the rows, the requests, the scripts and the guest.
THEOREM GuestTypeOK == Spec => []TypeOK
<1>1. IInv => TypeOK
  BY DEF IInv
<1>2. QED
  BY GuestInvariant, <1>1, PTL

\* sync_aliases.sh takes down no address that was never in IPAM, however
\* requests, time-outs and scripts overlap.
THEOREM HandMadeAddressesStay == Spec => HandMadeStays
<1>1. IInv /\ [Next]_vars => [\A a \in live \ live' : a \in managed \/ Environment]_vars
  <2> SUFFICES ASSUME IInv, Next, NEW a \in live \ live' PROVE a \in managed \/ Environment
    BY DEF vars
  <2>1. ASSUME NEW t \in Threads, RequestStep(t) PROVE FALSE
    <3>1. live' = live
      BY <2>1 DEF RequestStep, AddAddress, ApplyAddress, RemoveAddress, Begin, ReadRows, Upload,
         Exec, Collect, Cleanup, Finish, NotIpam, guest
    <3>2. QED
      BY <3>1
  <2>2. ASSUME NEW t \in Threads, ScriptStep(t) PROVE a \in managed
    <3>1. CASE Clear(t)
      BY <3>1 DEF Clear, IInv, Accounted
    <3>2. CASE AddNext(t) \/ WriteState(t) \/ Persist(t)
      <4>1. live \subseteq live'
        BY <3>2 DEF AddNext, WriteState, Persist
      <4>2. QED
        BY <4>1
    <3>3. QED
      BY <2>2, <3>1, <3>2 DEF ScriptStep
  <2>3. QED
    BY <2>1, <2>2 DEF Next
<1>2. QED
  BY GuestInvariant, <1>1, PTL DEF Spec, HandMadeStays

\* A script takes an allocated address down only with a list that was read
\* before the address was allocated.
THEOREM NewerListsKeepAddresses == Spec => OnlyStaleListsRemove
<1>1. IInv => \A t \in Threads, r \in rows :
                 Clear(t) /\ r.ip \in live \ live' => r.id > proc[t].push.asof
  <2> SUFFICES ASSUME IInv, NEW t \in Threads, NEW r \in rows, Clear(t), r.ip \in live \ live'
               PROVE  r.id > proc[t].push.asof
    OBVIOUS
  <2>1. r.ip \notin proc[t].push.ips
    BY DEF Clear
  <2>2. ~(r.id <= proc[t].push.asof)
    BY <2>1 DEF IInv, AllKnown, Known
  <2>3. r.id \in Nat /\ proc[t].push.asof \in Nat
    BY SameScript DEF IInv, TypeOK, Row, Script, Push
  <2>4. QED
    BY <2>2, <2>3
<1>2. QED
  BY GuestInvariant, <1>1, PTL DEF OnlyStaleListsRemove

-----------------------------------------------------------------------------
(* What a push that nothing disturbed leaves behind.                       *)

\* The stages in which what a script has brought up is only known to itself.
Unrecorded == {"clear", "add", "write"}

\* Every address on the interface is the administrator's, or accounted for: in
\* the state file, with a script that will write it there, or lost.
Tracked ==
    \A a \in live : \/ a \in state \union hand \union lost
                    \/ \E t \in Threads : proc[t].pc \in Unrecorded /\ a \in proc[t].added

\* A script brings up nothing that is not in its list.
WithinList ==
    \A t \in Threads :
        /\ proc[t].pc = "clear" => proc[t].added = {}
        /\ Running(t) => proc[t].added \subseteq proc[t].push.ips /\ proc[t].todo \subseteq proc[t].push.ips

\* How far the script of an undisturbed request has got.
Progress(t) ==
    LET p == proc[t] IN
    /\ p.push.ips = Wanted
    /\ p.pc = "add" => Wanted \ p.todo \subseteq live
    /\ p.pc \in {"write", "persist", "exit0"} => Wanted \subseteq live
    /\ p.pc \in {"persist", "exit0"} => state = Wanted

\* What a script has taken down is down until it has written the state file.
DownStays(p) == p.pc \in {"add", "write"} => live \intersect (p.prev \ p.push.ips) = {}

\* What holds of a request that is alone, at each of its stages.
Settles(t) ==
    /\ ~Idles(t) /\ \A u \in Threads \ {t} : Idles(u) /\ ~Running(u)
    /\ thr[t].pc \in {"read", "upload", "exec"} => ~Running(t)
    /\ DownStays(proc[t])
    /\ thr[t].pc = "upload" => thr[t].push.ips = Wanted
    /\ thr[t].pc = "exec" => \A p \in file : p.ips = Wanted
    /\ thr[t].pc = "wait" => Progress(t)
    /\ thr[t].pc \in {"cleanup", "finish"} /\ Success(thr[t].result) =>
          ~Running(t) /\ state = Wanted /\ Wanted \subseteq live

Settling == \A t \in Threads : thr[t].alone => Settles(t)

SettleInv == IInv /\ Tracked /\ WithinList /\ Settling

LEMMA SettleInit == Init => SettleInv
BY InitIInv DEF Init, SettleInv, Tracked, WithinList, Settling, Idle, NoScript, Running, RunningPcs

\* A step of a thread that is at work disturbs no request that is alone but
\* its own.
LEMMA OwnStep ==
    ASSUME IInv, Settling, NEW t \in Threads, ~Idles(t) \/ Running(t),
           \A u \in Threads \ {t} : thr'[u] = thr[u],
           thr'[t].alone => Settles(t)'
    PROVE  Settling'
<1>1. ASSUME NEW u \in Threads \ {t} PROVE ~thr'[u].alone
  BY <1>1 DEF Settling, Settles
<1> QED BY <1>1 DEF Settling

\* A step that takes every thread its being alone.
LEMMA Disturbs ==
    ASSUME \A u \in Threads : ~thr'[u].alone
    PROVE  Settling'
BY DEF Settling

\* A step of a request that leaves the interface and the state file alone, and
\* of the scripts at most starts one or puts one away that is over.
LEMMA RequestTracked ==
    ASSUME IInv, Tracked, WithinList, NEW t \in Threads, NEW script \in Script,
           UNCHANGED <<live, state, hand, lost>>,
           proc' = [proc EXCEPT ![t] = script],
           \/ script = proc[t]
           \/ ~Running(t) /\ script.added = {} /\ (script.pc \in RunningPcs => script.todo = {})
    PROVE  Tracked' /\ WithinList'
<1>1. proc \in [Threads -> Script] /\ proc'[t] = script /\ \A u \in Threads \ {t} : proc'[u] = proc[u]
  BY DEF IInv, TypeOK
<1>2. Tracked'
  BY <1>1 DEF Tracked, Unrecorded, Running, RunningPcs
<1>3. WithinList'
  BY <1>1 DEF WithinList, Running
<1> QED BY <1>2, <1>3

\* A request that begins.
LEMMA BeginSettles ==
    ASSUME SettleInv, NEW t \in Threads, Begin(t)
    PROVE  Tracked' /\ WithinList' /\ Settling'
<1> DEFINE alone == \A u \in Threads : Idles(u) /\ ~Running(u)
           new == [Idle EXCEPT !.pc = "read", !.alone = alone]
<1>1. /\ UNCHANGED <<live, state, conf, file, proc, hand, lost>>
      /\ thr' = [Disturbed EXCEPT ![t] = new]
  BY DEF Begin, guest
<1>2. new.pc = "read" /\ new.alone = alone
  BY DEF Idle
<1>3. /\ thr'[t] = new
      /\ \A u \in Threads \ {t} : ~thr'[u].alone /\ thr'[u].pc = thr[u].pc
  <2>1. \A u \in Threads : thr[u] \in Request
    BY DEF SettleInv, IInv, TypeOK
  <2>2. \A u \in Threads : Disturbed[u] = [thr[u] EXCEPT !.alone = FALSE]
    BY DEF Disturbed
  <2>3. \A u \in Threads : ~Disturbed[u].alone /\ Disturbed[u].pc = thr[u].pc
    BY <2>1, <2>2 DEF Request
  <2>4. thr'[t] = new /\ \A u \in Threads \ {t} : thr'[u] = Disturbed[u]
    BY <1>1 DEF Disturbed
  <2> QED BY <2>3, <2>4
<1>4. Tracked' /\ WithinList'
  BY <1>1 DEF SettleInv, Tracked, WithinList, Running
<1>5. alone => Settles(t)'
  <2> SUFFICES ASSUME alone PROVE Settles(t)'
    OBVIOUS
  <2>1. \A u \in Threads \ {t} : (Idles(u) /\ ~Running(u))'
    BY <1>1, <1>3 DEF Idles, Running
  <2>2. thr'[t].pc = "read" /\ ~Running(t)'
    BY <1>1, <1>2, <1>3 DEF Running
  <2> QED BY <2>1, <2>2 DEF Settles, Idles, DownStays, Running, RunningPcs
<1> QED BY <1>2, <1>3, <1>4, <1>5 DEF Settling

\* An event: nobody is alone any more.
LEMMA EventSettles ==
    ASSUME IInv, Event
    PROVE  Settling'
<1>1. \A u \in Threads : thr[u] \in Request
  BY DEF IInv, TypeOK
<1>2. \A u \in Threads : thr'[u] = [thr[u] EXCEPT !.alone = FALSE]
  BY DEF Event, Disturbed
<1>3. \A u \in Threads : ~thr'[u].alone
  BY <1>1, <1>2 DEF Request
<1> QED BY <1>3, Disturbs

\* Whether a thread is alone, and what is wanted, is the same as long as its
\* request goes on and the rows stay.
LEMMA ReadRowsSettles ==
    ASSUME SettleInv, NEW t \in Threads, ReadRows(t)
    PROVE  Tracked' /\ WithinList' /\ Settling'
<1>1. /\ UNCHANGED <<rows, live, state, conf, file, proc, hand, lost>> /\ thr[t].pc = "read"
      /\ thr \in [Threads -> Request] /\ thr[t] \in Request
  BY DEF ReadRows, NotIpam, guest, SettleInv, IInv, TypeOK
<1>2. Tracked' /\ WithinList'
  BY <1>1 DEF SettleInv, Tracked, WithinList, Running
<1>3. /\ \A u \in Threads \ {t} : thr'[u] = thr[u]
      /\ thr'[t].alone = thr[t].alone
      /\ \/ thr'[t].pc = "upload" /\ thr'[t].push.ips = Wanted
         \/ thr'[t].pc = "finish" /\ thr'[t].result \in {"pending", "failed"}
  <2>1. CASE GoOn(t, [thr[t] EXCEPT !.pc = "upload", !.seen = rows, !.push = [ips |-> Wanted, asof |-> lastId]])
    BY <1>1, <2>1 DEF GoOn, Request
  <2>2. ASSUME NEW result \in {"pending", "failed"},
               GoOn(t, [thr[t] EXCEPT !.pc = "finish", !.seen = rows, !.result = result])
        PROVE  <1>3!1 /\ thr'[t].alone = thr[t].alone /\ thr'[t].pc = "finish" /\ thr'[t].result = result
    BY <1>1, <2>2 DEF GoOn, Request
  <2> QED BY <2>1, <2>2 DEF ReadRows
<1>4. ASSUME thr'[t].alone PROVE Settles(t)'
  BY <1>1, <1>3, <1>4 DEF SettleInv, Settling, Settles, Idles, Running, Wanted, Success, DownStays
<1> QED BY <1>1, <1>2, <1>3, <1>4, OwnStep DEF SettleInv, Idles

\* A step of a push after that: the thread goes on, its script starts, or goes
\* when it is over.
LEMMA PushSteps ==
    ASSUME SettleInv, NEW t \in Threads, Upload(t) \/ Exec(t) \/ Collect(t) \/ Cleanup(t)
    PROVE  /\ UNCHANGED <<rows, live, state, conf, hand, lost>> /\ ~Idles(t)
           /\ \A u \in Threads \ {t} : thr'[u] = thr[u] /\ proc'[u] = proc[u]
           /\ thr'[t].alone = thr[t].alone
<1>1. thr \in [Threads -> Request] /\ thr[t] \in Request /\ proc \in [Threads -> Script]
  BY DEF SettleInv, IInv, TypeOK
<1>2. PICK next : GoOn(t, next) /\ next.alone = thr[t].alone
  <2>1. CASE Upload(t)
    <3>1. [thr[t] EXCEPT !.pc = "exec", !.push = NoPush].alone = thr[t].alone
      BY <1>1 DEF Request
    <3>2. \A where : [thr[t] EXCEPT !.pc = where, !.push = NoPush, !.result = "pending"].alone = thr[t].alone
      BY <1>1 DEF Request
    <3> QED BY <2>1, <3>1, <3>2 DEF Upload
  <2>2. CASE Exec(t) \/ Collect(t) \/ Cleanup(t)
    <3>1. \A pc, result : /\ [thr[t] EXCEPT !.pc = pc, !.result = result].alone = thr[t].alone
                          /\ [thr[t] EXCEPT !.pc = pc].alone = thr[t].alone
      BY <1>1 DEF Request
    <3>2. \/ \E pc, result : GoOn(t, [thr[t] EXCEPT !.pc = pc, !.result = result])
          \/ \E pc : GoOn(t, [thr[t] EXCEPT !.pc = pc])
      BY <2>2 DEF Exec, Collect, Cleanup
    <3> QED BY <3>1, <3>2
  <2> QED BY <2>1, <2>2
<1>3. thr' = [thr EXCEPT ![t] = next]
  BY <1>2 DEF GoOn
<1>4. UNCHANGED <<rows, live, state, conf, hand, lost>> /\ ~Idles(t)
  BY DEF Upload, Exec, Collect, Cleanup, NotIpam, Idles
<1>5. \A u \in Threads \ {t} : proc'[u] = proc[u]
  BY <1>1 DEF Upload, Exec, Collect, Cleanup
<1> QED BY <1>1, <1>2, <1>3, <1>4, <1>5

LEMMA UploadSettles ==
    ASSUME SettleInv, NEW t \in Threads, Upload(t)
    PROVE  Tracked' /\ WithinList' /\ Settling'
<1>1. /\ thr \in [Threads -> Request] /\ thr[t] \in Request /\ proc' = proc /\ thr[t].pc = "upload"
  BY DEF SettleInv, IInv, TypeOK, Upload
<1>2. Tracked' /\ WithinList'
  BY <1>1, PushSteps DEF SettleInv, Tracked, WithinList, Running
<1>3. \/ thr'[t].pc = "exec" /\ file' = {thr[t].push}
      \/ thr'[t].pc \in {"cleanup", "finish"} /\ thr'[t].result = "pending"
  <2>1. ASSUME GoOn(t, [thr[t] EXCEPT !.pc = "exec", !.push = NoPush]) PROVE thr'[t].pc = "exec"
    BY <1>1, <2>1 DEF GoOn, Request
  <2>2. ASSUME NEW next \in {"cleanup", "finish"},
               GoOn(t, [thr[t] EXCEPT !.pc = next, !.push = NoPush, !.result = "pending"])
        PROVE  thr'[t].pc = next /\ thr'[t].result = "pending"
    BY <1>1, <2>2 DEF GoOn, Request
  <2> QED BY <2>1, <2>2 DEF Upload
<1>4. ASSUME thr'[t].alone PROVE Settles(t)'
  BY <1>1, <1>3, <1>4, PushSteps DEF SettleInv, Settling, Settles, Idles, Running, Wanted, Success, DownStays
<1> QED BY <1>2, <1>4, PushSteps, OwnStep DEF SettleInv

LEMMA ExecSettles ==
    ASSUME SettleInv, NEW t \in Threads, Exec(t)
    PROVE  Tracked' /\ WithinList' /\ Settling'
<1>1. /\ thr \in [Threads -> Request] /\ thr[t] \in Request /\ proc \in [Threads -> Script] /\ ~Running(t)
      /\ thr[t].pc = "exec" /\ file' = file
  BY DEF SettleInv, IInv, TypeOK, Exec
<1>2. \/ \E push \in file : /\ proc' = [proc EXCEPT ![t] = [NoScript EXCEPT !.pc = "clear", !.push = push]]
                            /\ thr'[t].pc = "wait"
      \/ proc' = proc /\ thr'[t].pc = "cleanup" /\ thr'[t].result \in {"failed", "pending"}
  <2>1. ASSUME GoOn(t, [thr[t] EXCEPT !.pc = "wait"]) PROVE thr'[t].pc = "wait"
    BY <1>1, <2>1 DEF GoOn, Request
  <2>2. ASSUME NEW result, GoOn(t, [thr[t] EXCEPT !.pc = "cleanup", !.result = result])
        PROVE  thr'[t].pc = "cleanup" /\ thr'[t].result = result
    BY <1>1, <2>2 DEF GoOn, Request
  <2> QED BY <2>1, <2>2 DEF Exec
<1>3. ASSUME NEW push \in file, proc' = [proc EXCEPT ![t] = [NoScript EXCEPT !.pc = "clear", !.push = push]],
             thr'[t].pc = "wait"
      PROVE  Tracked' /\ WithinList' /\ (thr'[t].alone => Settles(t)')
  <2> DEFINE script == [NoScript EXCEPT !.pc = "clear", !.push = push]
  <2>1. push \in Push
    BY DEF SettleInv, IInv, TypeOK
  <2>2. script \in Script /\ script.pc = "clear" /\ script.push = push /\ script.added = {} /\ script.todo = {}
    BY <2>1 DEF NoScript, Script, RunningPcs, NoPush
  <2>3. proc'[t] = script
    BY <1>1, <1>3
  <2> HIDE DEF script
  <2>4. Tracked' /\ WithinList'
    BY <1>1, <1>3, <2>2, PushSteps, RequestTracked DEF SettleInv, script
  <2>5. ASSUME thr'[t].alone PROVE Settles(t)'
    <3>1. push.ips = Wanted /\ Wanted' = Wanted
      BY <1>1, <2>5, PushSteps DEF SettleInv, Settling, Settles, Wanted
    <3>2. Progress(t)'
      BY <2>2, <2>3, <3>1 DEF Progress
    <3>3. DownStays(proc[t])'
      BY <2>2, <2>3 DEF DownStays
    <3> QED BY <1>3, <2>5, <3>2, <3>3, PushSteps DEF SettleInv, Settling, Settles, Idles, Running
  <2> QED BY <2>4, <2>5
<1>4. ASSUME proc' = proc, thr'[t].pc = "cleanup", thr'[t].result \in {"failed", "pending"}
      PROVE  Tracked' /\ WithinList' /\ (thr'[t].alone => Settles(t)')
  <2>1. Tracked' /\ WithinList'
    BY <1>4, PushSteps DEF SettleInv, Tracked, WithinList, Running
  <2>2. ASSUME thr'[t].alone PROVE Settles(t)'
    BY <1>4, <2>2, PushSteps DEF SettleInv, Settling, Settles, Idles, Running, Success, DownStays
  <2> QED BY <2>1, <2>2
<1> QED BY <1>2, <1>3, <1>4, PushSteps, OwnStep DEF SettleInv

LEMMA CollectSettles ==
    ASSUME SettleInv, NEW t \in Threads, Collect(t)
    PROVE  Tracked' /\ WithinList' /\ Settling'
<1> DEFINE script == IF Running(t) THEN proc[t] ELSE NoScript
<1>1. /\ thr \in [Threads -> Request] /\ thr[t] \in Request /\ proc \in [Threads -> Script]
      /\ proc[t] \in Script /\ thr[t].pc = "wait" /\ proc' = [proc EXCEPT ![t] = script] /\ proc'[t] = script
  BY DEF SettleInv, IInv, TypeOK, Collect
<1>2. script \in Script /\ (script = proc[t] \/ (~Running(t) /\ script = NoScript))
  BY <1>1, ConstantTypes
<1>3. NoScript.added = {} /\ NoScript.pc \notin RunningPcs
  BY DEF NoScript, RunningPcs
<1>4. thr'[t].pc = "cleanup" /\ thr'[t].result \in Outcomes(proc[t])
  <2>1. PICK result \in Outcomes(proc[t]) : GoOn(t, [thr[t] EXCEPT !.pc = "cleanup", !.result = result])
    BY DEF Collect
  <2> QED BY <1>1, <2>1 DEF GoOn, Request
<1> HIDE DEF script
<1>5. Tracked' /\ WithinList'
  BY <1>1, <1>2, <1>3, PushSteps, RequestTracked DEF SettleInv
<1>6. ASSUME thr'[t].alone PROVE Settles(t)'
  <2>1. /\ \A u \in Threads \ {t} : Idles(u) /\ ~Running(u)
        /\ Progress(t) /\ DownStays(proc[t])
    BY <1>1, <1>6, PushSteps DEF SettleInv, Settling, Settles
  <2>2. Success(thr'[t].result) => proc[t].pc = "exit0"
    BY <1>4 DEF Outcomes, Success
  <2>3. proc[t].pc = "exit0" => ~Running(t)'
    BY <1>1, <1>2, <1>3 DEF Running, RunningPcs
  <2>4. Wanted' = Wanted /\ state' = state /\ live' = live
    BY PushSteps DEF Wanted
  <2>5. \A u \in Threads \ {t} : (Idles(u) /\ ~Running(u))'
    BY <2>1, PushSteps DEF Idles, Running
  <2>6. DownStays(proc[t])'
    BY <1>1, <1>2, <1>3, <2>1, <2>4 DEF DownStays, RunningPcs
  <2> QED BY <1>4, <2>1, <2>2, <2>3, <2>4, <2>5, <2>6 DEF Settles, Progress, Idles
<1> QED BY <1>5, <1>6, PushSteps, OwnStep DEF SettleInv

LEMMA CleanupSettles ==
    ASSUME SettleInv, NEW t \in Threads, Cleanup(t)
    PROVE  Tracked' /\ WithinList' /\ Settling'
<1>1. /\ thr \in [Threads -> Request] /\ thr[t] \in Request /\ proc' = proc /\ thr[t].pc = "cleanup"
  BY DEF SettleInv, IInv, TypeOK, Cleanup
<1>2. Tracked' /\ WithinList'
  BY <1>1, PushSteps DEF SettleInv, Tracked, WithinList, Running
<1>3. thr'[t].pc = "finish" /\ thr'[t].result = thr[t].result
  BY <1>1 DEF Cleanup, GoOn, Request
<1>4. ASSUME thr'[t].alone PROVE Settles(t)'
  BY <1>1, <1>3, <1>4, PushSteps DEF SettleInv, Settling, Settles, Idles, Running, Wanted, DownStays
<1> QED BY <1>2, <1>4, PushSteps, OwnStep DEF SettleInv

\* The request is over: its thread is not alone any more, it is idle.
LEMMA FinishSettles ==
    ASSUME SettleInv, NEW t \in Threads, Finish(t)
    PROVE  Tracked' /\ WithinList' /\ Settling'
<1>1. /\ UNCHANGED <<live, state, conf, file, proc, hand, lost>> /\ thr' = [thr EXCEPT ![t] = Idle]
      /\ thr \in [Threads -> Request] /\ thr[t].pc = "finish"
  BY DEF SettleInv, IInv, TypeOK, Finish, GoOn, guest
<1>2. Tracked' /\ WithinList'
  BY <1>1 DEF SettleInv, Tracked, WithinList, Running
<1>3. ~thr'[t].alone /\ \A u \in Threads \ {t} : thr'[u] = thr[u]
  BY <1>1 DEF Idle
<1> QED BY <1>1, <1>2, <1>3, OwnStep DEF SettleInv, Idles

-----------------------------------------------------------------------------
(* The script, and everything else.                                        *)

LEMMA ClearSettles ==
    ASSUME SettleInv, NEW t \in Threads, Clear(t)
    PROVE  Tracked' /\ WithinList' /\ Settling'
<1> DEFINE p == proc[t]
           script == [p EXCEPT !.pc = "add", !.prev = state, !.todo = p.push.ips]
<1>1. /\ proc \in [Threads -> Script] /\ p \in Script /\ p.pc = "clear" /\ proc' = [proc EXCEPT ![t] = script]
      /\ live' = live \ (state \ p.push.ips) /\ UNCHANGED <<rows, thr, state, hand, lost>>
  BY DEF SettleInv, IInv, TypeOK, Clear, InScript, ScriptGoes, NotScript
<1>2. /\ script.pc = "add" /\ script.prev = state /\ script.todo = p.push.ips /\ script.added = p.added
      /\ script.push = p.push
  BY <1>1 DEF Script
<1>3. proc'[t] = script /\ \A u \in Threads \ {t} : proc'[u] = proc[u]
  BY <1>1
<1> HIDE DEF script
<1>4. Running(t)
  BY <1>1 DEF Running, RunningPcs
<1>5. Tracked'
  BY <1>1, <1>2, <1>3 DEF SettleInv, Tracked, Unrecorded
<1>6. WithinList'
  BY <1>1, <1>2, <1>3, <1>4 DEF SettleInv, WithinList, Running
<1>7. ASSUME thr'[t].alone PROVE Settles(t)'
  <2>1. Settles(t) /\ Wanted' = Wanted
    BY <1>1, <1>7 DEF SettleInv, Settling, Wanted
  <2>2. thr[t].pc = "wait" => Progress(t)'
    BY <1>1, <1>2, <1>3, <2>1 DEF Settles, Progress
  <2>3. thr[t].pc \notin {"read", "upload", "exec"} /\ ~(thr[t].pc \in {"cleanup", "finish"} /\ Success(thr[t].result))
    BY <1>4, <2>1 DEF Settles
  <2>4. \A u \in Threads \ {t} : (Idles(u) /\ ~Running(u))'
    BY <1>1, <1>3, <2>1 DEF Settles, Idles, Running
  <2>5. DownStays(proc[t])'
    BY <1>1, <1>2, <1>3 DEF DownStays
  <2> QED BY <1>1, <2>1, <2>2, <2>3, <2>4, <2>5 DEF Settles, Idles
<1> QED BY <1>1, <1>4, <1>5, <1>6, <1>7, OwnStep DEF SettleInv

\* Of a request that is alone and whose script runs.
LEMMA AloneRunning ==
    ASSUME SettleInv, NEW t \in Threads, Running(t), thr[t].alone
    PROVE  /\ Settles(t) /\ DownStays(proc[t])
           /\ thr[t].pc = "wait" => Progress(t)
           /\ thr[t].pc \notin {"read", "upload", "exec"}
           /\ ~(thr[t].pc \in {"cleanup", "finish"} /\ Success(thr[t].result))
BY DEF SettleInv, Settling, Settles

\* After a step of a running script only its progress is in question.
LEMMA ScriptSettles ==
    ASSUME SettleInv, NEW t \in Threads, Running(t), UNCHANGED <<rows, thr>>,
           \A u \in Threads \ {t} : proc'[u] = proc[u],
           thr[t].alone /\ thr[t].pc = "wait" => Progress(t)',
           thr[t].alone => DownStays(proc[t])'
    PROVE  Settling'
<1>1. ASSUME thr'[t].alone PROVE Settles(t)'
  <2>1. thr[t].alone
    BY <1>1
  <2>2. \A u \in Threads \ {t} : (Idles(u) /\ ~Running(u))'
    BY <2>1, AloneRunning DEF Settles, Idles, Running
  <2> QED BY <2>1, <2>2, AloneRunning DEF Settles, Idles
<1> QED BY <1>1, OwnStep DEF SettleInv

LEMMA AddNextSettles ==
    ASSUME SettleInv, NEW t \in Threads, AddNext(t)
    PROVE  Tracked' /\ WithinList' /\ Settling'
<1> DEFINE p == proc[t]
<1>1. /\ proc \in [Threads -> Script] /\ p \in Script /\ p.pc = "add" /\ Running(t)
      /\ UNCHANGED <<rows, thr, state, hand>>
      /\ p.added \subseteq p.push.ips /\ p.todo \subseteq p.push.ips
  BY DEF SettleInv, IInv, TypeOK, AddNext, InScript, NotScript, WithinList, Running, RunningPcs
<1>2. CASE p.todo = {} /\ ScriptGoes(t, [p EXCEPT !.pc = "write"]) /\ UNCHANGED <<live, lost>>
  <2> DEFINE script == [p EXCEPT !.pc = "write"]
  <2>1. script.pc = "write" /\ script.prev = p.prev /\ script.todo = {} /\ script.added = p.added /\ script.push = p.push
    BY <1>1, <1>2 DEF Script
  <2>2. proc'[t] = script /\ \A u \in Threads \ {t} : proc'[u] = proc[u]
    BY <1>1, <1>2 DEF ScriptGoes
  <2> HIDE DEF script
  <2>3. Tracked'
    BY <1>1, <1>2, <2>1, <2>2 DEF SettleInv, Tracked, Unrecorded
  <2>4. WithinList'
    BY <1>1, <2>1, <2>2 DEF SettleInv, WithinList, Running
  <2>5. ASSUME thr[t].alone, thr[t].pc = "wait" PROVE Progress(t)'
    BY <1>1, <1>2, <2>1, <2>2, <2>5, AloneRunning DEF Progress, Wanted
  <2>6. thr[t].alone => DownStays(proc[t])'
    BY <1>1, <1>2, <2>1, <2>2, AloneRunning DEF DownStays
  <2> QED BY <1>1, <2>2, <2>3, <2>4, <2>5, <2>6, ScriptSettles
<1>3. ASSUME NEW a \in p.todo, a \in live, ScriptGoes(t, [p EXCEPT !.todo = @ \ {a}]), UNCHANGED <<live, lost>>
      PROVE  Tracked' /\ WithinList' /\ Settling'
  <2> DEFINE script == [p EXCEPT !.todo = @ \ {a}]
  <2>1. script.pc = "add" /\ script.prev = p.prev /\ script.todo = p.todo \ {a} /\ script.added = p.added /\ script.push = p.push
    BY <1>1 DEF Script
  <2>2. proc'[t] = script /\ \A u \in Threads \ {t} : proc'[u] = proc[u]
    BY <1>1, <1>3 DEF ScriptGoes
  <2> HIDE DEF script
  <2>3. Tracked'
    BY <1>1, <1>3, <2>1, <2>2 DEF SettleInv, Tracked, Unrecorded
  <2>4. WithinList'
    BY <1>1, <2>1, <2>2 DEF SettleInv, WithinList, Running
  <2>5. ASSUME thr[t].alone, thr[t].pc = "wait" PROVE Progress(t)'
    BY <1>1, <1>3, <2>1, <2>2, <2>5, AloneRunning DEF Progress, Wanted
  <2>6. thr[t].alone => DownStays(proc[t])'
    BY <1>1, <1>3, <2>1, <2>2, AloneRunning DEF DownStays
  <2> QED BY <1>1, <2>2, <2>3, <2>4, <2>5, <2>6, ScriptSettles
<1>4. ASSUME NEW a \in p.todo, a \notin live, live' = live \union {a}, UNCHANGED lost,
             ScriptGoes(t, [p EXCEPT !.todo = @ \ {a}, !.added = @ \union {a}])
      PROVE  Tracked' /\ WithinList' /\ Settling'
  <2> DEFINE script == [p EXCEPT !.todo = @ \ {a}, !.added = @ \union {a}]
  <2>1. /\ script.pc = "add" /\ script.prev = p.prev /\ script.todo = p.todo \ {a}
        /\ script.added = p.added \union {a} /\ script.push = p.push
    BY <1>1 DEF Script
  <2>2. proc'[t] = script /\ \A u \in Threads \ {t} : proc'[u] = proc[u]
    BY <1>1, <1>4 DEF ScriptGoes
  <2> HIDE DEF script
  <2>3. Tracked'
    BY <1>1, <1>4, <2>1, <2>2 DEF SettleInv, Tracked, Unrecorded
  <2>4. WithinList'
    BY <1>1, <2>1, <2>2 DEF SettleInv, WithinList, Running
  <2>5. ASSUME thr[t].alone, thr[t].pc = "wait" PROVE Progress(t)'
    BY <1>1, <1>4, <2>1, <2>2, <2>5, AloneRunning DEF Progress, Wanted
  <2>6. thr[t].alone => DownStays(proc[t])'
    BY <1>1, <1>4, <2>1, <2>2, AloneRunning DEF DownStays
  <2> QED BY <1>1, <2>2, <2>3, <2>4, <2>5, <2>6, ScriptSettles
<1>5. ASSUME UNCHANGED live, lost' = lost \union (p.added \ state), ScriptGoes(t, Ended(t, "exit1"))
      PROVE  Tracked' /\ WithinList' /\ Settling'
  <2> DEFINE script == Ended(t, "exit1")
  <2>1. thr[t].pc = "wait" => script.pc = "exit1" /\ script.push = p.push
    BY <1>1 DEF Ended, NoScript, Script
  <2>2. proc'[t] = script /\ \A u \in Threads \ {t} : proc'[u] = proc[u]
    BY <1>1, <1>5 DEF ScriptGoes
  <2>3. script.pc \notin RunningPcs
    BY <1>1 DEF Ended, NoScript, Script, RunningPcs
  <2> HIDE DEF script
  <2>4. Tracked'
    BY <1>1, <1>5, <2>2, <2>3 DEF SettleInv, Tracked, Unrecorded
  <2>5. WithinList'
    BY <1>1, <2>2, <2>3 DEF SettleInv, WithinList, Running, RunningPcs
  <2>6. ASSUME thr[t].alone, thr[t].pc = "wait" PROVE Progress(t)'
    BY <1>1, <2>1, <2>2, <2>6, AloneRunning DEF Progress, Wanted
  <2>7. DownStays(proc[t])'
    BY <2>2, <2>3 DEF DownStays, RunningPcs
  <2> QED BY <1>1, <2>2, <2>4, <2>5, <2>6, <2>7, ScriptSettles
<1> QED BY <1>2, <1>3, <1>4, <1>5 DEF AddNext

LEMMA WriteStateSettles ==
    ASSUME SettleInv, NEW t \in Threads, WriteState(t)
    PROVE  Tracked' /\ WithinList' /\ Settling'
<1> DEFINE p == proc[t]
           script == [p EXCEPT !.pc = "persist"]
<1>1. /\ proc \in [Threads -> Script] /\ p \in Script /\ p.pc = "write" /\ Running(t)
      /\ UNCHANGED <<rows, thr, live, hand>> /\ state' = p.push.ips
      /\ lost' = (lost \union (state \ p.prev) \union (IF thr[t].alone THEN {} ELSE live \intersect state)) \ p.push.ips
      /\ p.added \subseteq p.push.ips /\ p.todo \subseteq p.push.ips
  BY DEF SettleInv, IInv, TypeOK, WriteState, InScript, NotScript, WithinList, Running, RunningPcs
<1>2. script.pc = "persist" /\ script.prev = p.prev /\ script.todo = p.todo /\ script.added = p.added /\ script.push = p.push
  BY <1>1 DEF Script
<1>3. proc'[t] = script /\ \A u \in Threads \ {t} : proc'[u] = proc[u]
  BY <1>1 DEF WriteState, ScriptGoes
<1> HIDE DEF script
<1>4. /\ thr[t].alone => live \intersect (p.prev \ p.push.ips) = {}
      /\ thr[t].alone /\ thr[t].pc = "wait" => p.push.ips = Wanted /\ Wanted \subseteq live
  BY <1>1, AloneRunning DEF Progress, DownStays
<1>5. Tracked'
  <2> SUFFICES ASSUME NEW a \in live, a \notin p.push.ips
               PROVE  a \in (hand \union lost)' \/ \E u \in Threads : (proc[u].pc \in Unrecorded /\ a \in proc[u].added)'
    BY <1>1 DEF Tracked
  <2>1. CASE a \in hand \union lost
    BY <1>1, <2>1
  <2>2. CASE a \in state
    <3>1. CASE a \notin p.prev \/ ~thr[t].alone
      BY <1>1, <2>2, <3>1
    <3>2. CASE a \in p.prev /\ thr[t].alone
      BY <1>4, <3>2
    <3> QED BY <3>1, <3>2
  <2>3. ASSUME NEW u \in Threads, proc[u].pc \in Unrecorded, a \in proc[u].added
        PROVE  (proc[u].pc \in Unrecorded /\ a \in proc[u].added)'
    BY <1>1, <1>3, <2>3
  <2> QED BY <2>1, <2>2, <2>3 DEF SettleInv, Tracked
<1>6. WithinList'
  BY <1>1, <1>2, <1>3 DEF SettleInv, WithinList, Running
<1>7. ASSUME thr[t].alone, thr[t].pc = "wait" PROVE Progress(t)'
  BY <1>1, <1>2, <1>3, <1>4, <1>7 DEF Progress, Wanted
<1>8. DownStays(proc[t])'
  BY <1>2, <1>3 DEF DownStays
<1> QED BY <1>1, <1>3, <1>5, <1>6, <1>7, <1>8, ScriptSettles

LEMMA PersistSettles ==
    ASSUME SettleInv, NEW t \in Threads, Persist(t)
    PROVE  Tracked' /\ WithinList' /\ Settling'
<1> DEFINE p == proc[t]
           script == Ended(t, "exit0")
<1>1. /\ proc \in [Threads -> Script] /\ p \in Script /\ p.pc = "persist" /\ Running(t)
      /\ UNCHANGED <<rows, thr, live, state, hand, lost>>
  BY DEF SettleInv, IInv, TypeOK, Persist, InScript, NotScript, Running, RunningPcs
<1>2. script.pc = "exit0" /\ (thr[t].pc = "wait" => script.push = p.push)
  BY <1>1 DEF Ended, NoScript, Script
<1>3. proc'[t] = script /\ \A u \in Threads \ {t} : proc'[u] = proc[u]
  BY <1>1 DEF Persist, ScriptGoes
<1> HIDE DEF script
<1>4. Tracked'
  BY <1>1, <1>2, <1>3 DEF SettleInv, Tracked, Unrecorded
<1>5. WithinList'
  BY <1>1, <1>2, <1>3 DEF SettleInv, WithinList, Running, RunningPcs
<1>6. ASSUME thr[t].alone, thr[t].pc = "wait" PROVE Progress(t)'
  BY <1>1, <1>2, <1>3, <1>6, AloneRunning DEF Progress, Wanted
<1>7. DownStays(proc[t])'
  BY <1>2, <1>3 DEF DownStays
<1> QED BY <1>1, <1>3, <1>4, <1>5, <1>6, <1>7, ScriptSettles

LEMMA RebootSettles ==
    ASSUME SettleInv, Reboot
    PROVE  Tracked' /\ WithinList' /\ Settling'
<1>1. /\ UNCHANGED <<state, hand>> /\ lost' = lost \union (conf' \ state)
      /\ live' = hand \union conf' \union (IF "systemd" \in stack THEN state ELSE {})
  BY DEF Reboot
<1>2. Tracked'
  BY <1>1 DEF Tracked
<1>3. \A u \in Threads : ~Running(u)' /\ proc'[u].pc # "clear"
  <2> SUFFICES ASSUME NEW u \in Threads PROVE proc'[u].pc \notin RunningPcs
    BY DEF Running, RunningPcs
  <2>1. proc'[u] = IF Running(u) THEN Ended(u, "killed") ELSE proc[u]
    BY DEF Reboot
  <2>2. Ended(u, "killed").pc \notin RunningPcs
    BY DEF Ended, NoScript, RunningPcs
  <2> QED BY <2>1, <2>2 DEF Running
<1>4. WithinList'
  BY <1>3 DEF WithinList
<1> QED BY <1>2, <1>4, EventSettles DEF Reboot, SettleInv

LEMMA EnvironmentSettles ==
    ASSUME SettleInv, Environment
    PROVE  Tracked' /\ WithinList' /\ Settling'
<1>1. Reboot \/ Event
  BY DEF Environment, HandAdds, HandRemoves, LinkFound, DeleteAllocation
<1>2. ASSUME NEW a \in Addrs, HandAdds(a) \/ HandRemoves(a) \/ LinkFound(a)
      PROVE  Tracked' /\ WithinList'
  BY <1>2 DEF HandAdds, HandRemoves, LinkFound, guest, SettleInv, Tracked, WithinList, Running
<1>3. ASSUME NEW r \in rows, DeleteAllocation(r)
      PROVE  Tracked' /\ WithinList'
  BY <1>3 DEF DeleteAllocation, guest, SettleInv, Tracked, WithinList, Running
<1> QED BY <1>1, <1>2, <1>3, RebootSettles, EventSettles DEF Environment, SettleInv

LEMMA SettleStep == SettleInv /\ [Next]_vars => SettleInv'
<1> SUFFICES ASSUME SettleInv, [Next]_vars PROVE SettleInv'
  OBVIOUS
<1>1. IInv'
  BY InductiveStep DEF SettleInv
<1>2. CASE Environment
  BY <1>1, <1>2, EnvironmentSettles DEF SettleInv
<1>3. ASSUME NEW t \in Threads, RequestStep(t) PROVE SettleInv'
  <2>1. CASE Begin(t)
    BY <1>1, <2>1, BeginSettles DEF SettleInv
  <2> QED BY <1>1, <1>3, <2>1, ReadRowsSettles, UploadSettles, ExecSettles, CollectSettles, CleanupSettles, FinishSettles
          DEF RequestStep, AddAddress, ApplyAddress, RemoveAddress, SettleInv
<1>4. ASSUME NEW t \in Threads, ScriptStep(t) PROVE SettleInv'
  BY <1>1, <1>4, ClearSettles, AddNextSettles, WriteStateSettles, PersistSettles DEF ScriptStep, SettleInv
<1>5. CASE UNCHANGED vars
  BY <1>1, <1>5 DEF vars, guest, SettleInv, Tracked, WithinList, Settling, Settles, Progress, DownStays, Idles, Running, Wanted
<1> QED BY <1>2, <1>3, <1>4, <1>5 DEF Next

\* A push that ran alone and succeeded leaves IPAM's list on the interface and
\* in the state file, and no other address of the panel's but those that fell
\* out of the state file: for any addresses, requests, failures and stacks.
THEOREM PushesSettle == Spec => []PushSettles
<1>1. SettleInv => PushSettles
  <2> SUFFICES ASSUME SettleInv, NEW t \in Threads, thr[t].alone, thr[t].pc = "finish", Success(thr[t].result)
               PROVE  /\ state = Wanted /\ Wanted \subseteq live
                      /\ live \intersect managed \subseteq Wanted \union hand \union lost
    BY DEF PushSettles
  <2>1. Settles(t)
    BY DEF SettleInv, Settling
  <2>2. state = Wanted /\ Wanted \subseteq live /\ \A u \in Threads : ~Running(u)
    BY <2>1 DEF Settles
  <2>3. \A u \in Threads : proc[u].pc \notin Unrecorded
    BY <2>2 DEF Running, RunningPcs, Unrecorded
  <2> QED BY <2>2, <2>3 DEF SettleInv, Tracked
<1> QED BY <1>1, SettleInit, SettleStep, PTL DEF Spec
=============================================================================
