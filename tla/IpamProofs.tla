----------------------------- MODULE IpamProofs -----------------------------
(***************************************************************************)
(* Proofs about the address allocation service, for any addresses, guests, *)
(* pools and number of concurrent requests: an address has one holder, the *)
(* history accounts for the table, and a guest's release is complete.      *)
(***************************************************************************)
EXTENDS Ipam, TLAPS

PCs == {"idle", "check", "flag", "insert", "requery", "next", "released", "delete", "set_primary",
        "sync_flag", "sync_owner", "move_read", "move"}
AllOps == {"none", "allocate", "release", "release_guest", "set_primary", "sync", "update"}
Thread == [pc : PCs, op : AllOps, g : Guests \union {Nobody}, ip : Addrs, id : 0..MaxRows,
           rid : Vmids \union {NoVmid}, kind : Kinds, flag : Flags,
           seen : SUBSET Row, left : SUBSET Row, expired : BOOLEAN]

Typed ==
    /\ rows \in SUBSET Row /\ lastId \in 0..MaxRows
    /\ thr \in [Threads -> Thread]
    /\ granted \in [Addrs -> Nat] /\ released \in [Addrs -> Nat]

\* The sequence of the table.
IdsUnique ==
    /\ \A r \in rows : r.id <= lastId
    /\ \A r, s \in rows : r.id = s.id => r = s

\* Of a table R that has given out the ids up to n: the row of an id, as long
\* as there is one, holds address a; no row of that id is left.
Known(R, n, i, a) == i <= n /\ \A s \in R : s.id = i => s.ip = a
Gone(R, i) == \A s \in R : s.id # i

\* What a thread has read still says which address an id has.  Of the rows a
\* release has taken up, all but the one it is about are gone.
Sound(R, n, me) ==
    /\ me.left \subseteq me.seen
    /\ \A r \in me.seen : Known(R, n, r.id, r.ip)
    /\ me.pc = "delete" => Known(R, n, me.id, me.ip)
    /\ me.pc \in {"next", "released"} => \A r \in me.seen \ me.left : Gone(R, r.id)
    /\ me.pc = "released" => me.left = {}
    /\ me.pc = "requery" => \A r \in me.seen \ me.left : Gone(R, r.id) \/ r.ip = me.ip
    /\ me.pc = "delete" => \A r \in me.seen \ me.left : Gone(R, r.id) \/ r.id = me.id

ThreadsSound == \A t \in Threads : Sound(rows, lastId, thr[t])

\* The inductive invariant.
IInv == Typed /\ IdsUnique /\ UniqueAddress /\ HistoryAccounts /\ ThreadsSound

-----------------------------------------------------------------------------
(* The idle thread, and what stays sound.                                  *)

LEMMA IdleThread ==
    /\ Idle \in Thread
    /\ \A R, n : Sound(R, n, Idle)
<1>1. 1 \in Addrs /\ 0 \in 0..MaxRows
  BY SizesAssumption DEF Addrs
<1>2. Idle \in Thread
  BY <1>1 DEF Idle, Thread, PCs, AllOps, Kinds, Flags
<1>3. \A R, n : Sound(R, n, Idle)
  BY DEF Sound, Idle
<1>4. QED
  BY <1>2, <1>3

\* A table that keeps the addresses of its ids, loses rows or gains rows of
\* new ids leaves what a thread has read as sound as it was.
LEMMA SoundStays ==
    ASSUME NEW R \in SUBSET Row, NEW S \in SUBSET Row, NEW n \in Nat, NEW m \in Nat, n <= m,
           \A s \in S : s.id > n \/ \E r \in R : r.id = s.id /\ r.ip = s.ip,
           NEW me \in Thread, Sound(R, n, me)
    PROVE  Sound(S, m, me)
<1>1. \A s \in S : s.id \in Nat
  BY DEF Row, Ids
<1>2. ASSUME NEW i \in Nat, NEW a, Known(R, n, i, a) PROVE Known(S, m, i, a)
  BY <1>1, <1>2 DEF Known
<1>3. ASSUME NEW i \in Nat, i <= n, Gone(R, i) PROVE Gone(S, i)
  BY <1>1, <1>3 DEF Gone
<1>4. me.id \in Nat /\ me.seen \in SUBSET Row
  BY DEF Thread
<1>5. \A r \in me.seen : r.id \in Nat /\ r.id <= n
  BY <1>4 DEF Row, Ids, Sound, Known
<1>6. \A r \in me.seen : Known(S, m, r.id, r.ip)
  BY <1>2, <1>5 DEF Sound
<1>7. me.pc = "delete" => Known(S, m, me.id, me.ip)
  BY <1>2, <1>4 DEF Sound
<1>8. \A r \in me.seen : Gone(R, r.id) => Gone(S, r.id)
  BY <1>3, <1>5
<1>9. QED
  BY <1>6, <1>7, <1>8 DEF Sound

\* A step of one thread that changes the table at most so.
LEMMA TableStep ==
    ASSUME IInv, NEW t \in Threads, NEW me \in Thread, Become(t, me),
           rows' \in SUBSET Row, lastId' \in 0..MaxRows, lastId <= lastId',
           \A s \in rows' : s.id > lastId \/ \E r \in rows : r.id = s.id /\ r.ip = s.ip,
           granted' \in [Addrs -> Nat], released' \in [Addrs -> Nat],
           IdsUnique', UniqueAddress', HistoryAccounts',
           Sound(rows, lastId, me)
    PROVE  IInv'
<1>1. thr' = [thr EXCEPT ![t] = me]
  BY DEF Become
<1>2. Typed'
  BY <1>1 DEF IInv, Typed
<1>3. \A u \in Threads : thr'[u] = IF u = t THEN me ELSE thr[u]
  BY <1>1 DEF IInv, Typed
<1>4. \A u \in Threads : thr'[u] \in Thread /\ Sound(rows, lastId, thr'[u])
  BY <1>3 DEF IInv, Typed, ThreadsSound
<1>5. lastId \in Nat /\ lastId' \in Nat /\ rows \in SUBSET Row
  BY SizesAssumption DEF IInv, Typed
<1>6. \A u \in Threads : Sound(rows', lastId', thr'[u])
  BY <1>4, <1>5, SoundStays
<1>7. QED
  BY <1>2, <1>6 DEF IInv, ThreadsSound

\* A step of one thread that only reads.
LEMMA ReadStep ==
    ASSUME IInv, NEW t \in Threads, NEW me \in Thread, Become(t, me), TableUnchanged,
           Sound(rows, lastId, me)
    PROVE  IInv'
<1>1. UNCHANGED <<rows, lastId, granted, released>>
  BY DEF TableUnchanged
<1>2. thr' = [thr EXCEPT ![t] = me]
  BY DEF Become
<1>3. Typed'
  BY <1>1, <1>2 DEF IInv, Typed
<1>4. \A u \in Threads : thr'[u] = IF u = t THEN me ELSE thr[u]
  BY <1>2 DEF IInv, Typed
<1>5. ThreadsSound'
  BY <1>1, <1>4 DEF IInv, ThreadsSound
<1>6. QED
  BY <1>1, <1>3, <1>5 DEF IInv, IdsUnique, UniqueAddress, HistoryAccounts, Occupied

LEMMA AnswerStep ==
    ASSUME IInv, NEW t \in Threads, Answer(t), TableUnchanged
    PROVE  IInv'
  BY IdleThread, ReadStep DEF Answer

LEMMA InitIInv == Init => IInv
<1> SUFFICES ASSUME Init PROVE IInv
  OBVIOUS
<1>1. Typed
  BY IdleThread, SizesAssumption DEF Init, Typed
<1>2. IdsUnique /\ UniqueAddress /\ HistoryAccounts
  BY DEF Init, IdsUnique, UniqueAddress, HistoryAccounts, Occupied
<1>3. ThreadsSound
  BY IdleThread DEF Init, ThreadsSound
<1>4. QED
  BY <1>1, <1>2, <1>3 DEF IInv

\* An id the table has says which address it holds.
LEMMA RowKnown ==
    ASSUME IInv, NEW r \in rows
    PROVE  Known(rows, lastId, r.id, r.ip) /\ r \in Row /\ r.ip \in Addrs /\ r.id \in 0..MaxRows
  BY DEF IInv, Typed, IdsUnique, Known, Row, Ids

-----------------------------------------------------------------------------
(* Requests begin.                                                         *)

LEMMA BeginAllocateIInv ==
    ASSUME IInv, NEW t \in Threads, NEW g \in Guests \union {Nobody}, NEW a \in Addrs,
           NEW kind \in Kinds, NEW rid \in Vmids \union {NoVmid}, BeginAllocate(t, g, a, kind, rid)
    PROVE  IInv'
<1> DEFINE me == [Idle EXCEPT !.pc = "check", !.op = "allocate", !.g = g, !.ip = a,
                              !.kind = kind, !.rid = rid]
<1>1. me \in Thread
  BY IdleThread DEF Thread, PCs, AllOps
<1>2. Sound(rows, lastId, me)
  BY DEF Sound, Idle
<1>3. Become(t, me) /\ TableUnchanged
  BY DEF BeginAllocate
<1>4. QED
  BY <1>1, <1>2, <1>3, ReadStep

LEMMA BeginReleaseIInv ==
    ASSUME IInv, NEW t \in Threads, NEW r \in rows, BeginRelease(t, r)
    PROVE  IInv'
<1> DEFINE me == [Idle EXCEPT !.pc = "requery", !.op = "release", !.ip = r.ip]
<1>1. me \in Thread
  BY IdleThread, RowKnown DEF Thread, PCs, AllOps
<1>2. Sound(rows, lastId, me)
  BY DEF Sound, Idle
<1>3. Become(t, me) /\ TableUnchanged
  BY DEF BeginRelease
<1>4. QED
  BY <1>1, <1>2, <1>3, ReadStep

LEMMA BeginReleaseGuestIInv ==
    ASSUME IInv, NEW t \in Threads, NEW g \in Guests, BeginReleaseGuest(t, g)
    PROVE  IInv'
<1> DEFINE me == [Idle EXCEPT !.pc = "next", !.op = "release_guest", !.g = g,
                              !.seen = FoundFor(g), !.left = FoundFor(g)]
<1>1. FoundFor(g) \subseteq rows
  BY DEF FoundFor, RowsOf
<1>2. me \in Thread
  BY <1>1, IdleThread DEF Thread, PCs, AllOps, IInv, Typed
<1>3. Sound(rows, lastId, me)
  BY <1>1, RowKnown DEF Sound, Idle
<1>4. Become(t, me) /\ TableUnchanged
  BY DEF BeginReleaseGuest
<1>5. QED
  BY <1>2, <1>3, <1>4, ReadStep

LEMMA BeginSetPrimaryIInv ==
    ASSUME IInv, NEW t \in Threads, NEW r \in rows, NEW g \in Guests, BeginSetPrimary(t, g, r)
    PROVE  IInv'
<1> DEFINE me == [Idle EXCEPT !.pc = "set_primary", !.op = "set_primary", !.g = g,
                              !.id = r.id, !.ip = r.ip, !.seen = RowsOf(g)]
<1>1. RowsOf(g) \subseteq rows
  BY DEF RowsOf
<1>2. me \in Thread
  BY <1>1, IdleThread, RowKnown DEF Thread, PCs, AllOps, IInv, Typed
<1>3. Sound(rows, lastId, me)
  BY <1>1, RowKnown DEF Sound, Idle
<1>4. Become(t, me) /\ TableUnchanged
  BY DEF BeginSetPrimary
<1>5. QED
  BY <1>2, <1>3, <1>4, ReadStep

LEMMA BeginUpdateIInv ==
    ASSUME IInv, NEW t \in Threads, NEW r \in rows, NEW g \in Guests, BeginUpdate(t, r, g)
    PROVE  IInv'
<1> DEFINE me == [Idle EXCEPT !.pc = "move_read", !.op = "update", !.g = g, !.ip = r.ip]
<1>1. me \in Thread
  BY IdleThread, RowKnown DEF Thread, PCs, AllOps
<1>2. Sound(rows, lastId, me)
  BY DEF Sound, Idle
<1>3. Become(t, me) /\ TableUnchanged
  BY DEF BeginUpdate
<1>4. QED
  BY <1>1, <1>2, <1>3, ReadStep

LEMMA SyncReadIInv ==
    ASSUME IInv, NEW t \in Threads, NEW g \in Guests, NEW a \in Addrs, SyncRead(t, g, a)
    PROVE  IInv'
<1> DEFINE pc == IF Holding(a) = {} THEN "sync_flag"
                 ELSE IF \E r \in Holding(a) : r.guest # Nobody THEN "sync_owner" ELSE "move_read"
           me == [Idle EXCEPT !.op = "sync", !.g = g, !.ip = a, !.seen = Holding(a), !.kind = "alias",
                              !.pc = pc]
<1>1. Holding(a) \subseteq rows
  BY DEF Holding
<1>2. pc \in {"sync_flag", "sync_owner", "move_read"}
  OBVIOUS
<1>3. Become(t, me) /\ TableUnchanged
  BY DEF SyncRead
<1> HIDE DEF pc
<1>4. me \in Thread
  BY <1>1, <1>2, IdleThread DEF Thread, PCs, AllOps, Kinds, IInv, Typed
<1>5. Sound(rows, lastId, me)
  BY <1>1, <1>2, RowKnown DEF Sound, Idle
<1>6. QED
  BY <1>3, <1>4, <1>5, ReadStep

-----------------------------------------------------------------------------
(* Allocation.                                                             *)

LEMMA CheckFreeIInv ==
    ASSUME IInv, NEW t \in Threads, CheckFree(t)
    PROVE  IInv'
<1>1. thr[t] \in Thread /\ Sound(rows, lastId, thr[t]) /\ thr[t].pc = "check" /\ TableUnchanged
  BY DEF IInv, Typed, ThreadsSound, CheckFree
<1>2. ASSUME NEW where \in {"flag", "insert"}, GoOn(t, where) PROVE IInv'
  <2> DEFINE me == [thr[t] EXCEPT !.pc = where]
  <2>1. me \in Thread
    BY <1>1 DEF Thread, PCs
  <2>2. Sound(rows, lastId, me)
    BY <1>1 DEF Sound, Thread
  <2>3. QED
    BY <1>1, <1>2, <2>1, <2>2, ReadStep DEF GoOn
<1>3. QED
  BY <1>1, <1>2, AnswerStep DEF CheckFree

LEMMA ReadPrimaryIInv ==
    ASSUME IInv, NEW t \in Threads, ReadPrimary(t)
    PROVE  IInv'
<1>1. thr[t] \in Thread /\ Sound(rows, lastId, thr[t]) /\ thr[t].pc = "flag" /\ TableUnchanged
  BY DEF IInv, Typed, ThreadsSound, ReadPrimary
<1>2. PICK flag \in {"yes", "no"} : Become(t, [thr[t] EXCEPT !.pc = "insert", !.flag = flag])
  BY DEF ReadPrimary
<1>3. [thr[t] EXCEPT !.pc = "insert", !.flag = flag] \in Thread
  BY <1>1 DEF Thread, PCs, Flags
<1>4. Sound(rows, lastId, [thr[t] EXCEPT !.pc = "insert", !.flag = flag])
  BY <1>1 DEF Sound, Thread
<1>5. QED
  BY <1>1, <1>2, <1>3, <1>4, ReadStep

\* The new row has a new id and an address nobody holds.
LEMMA InsertIInv ==
    ASSUME IInv, NEW t \in Threads, Insert(t)
    PROVE  IInv'
<1> DEFINE me == thr[t]
           new == [id |-> lastId + 1, ip |-> me.ip, guest |-> me.g, rid |-> me.rid,
                   primary |-> me.flag = "yes", kind |-> me.kind]
<1>1. Answer(t) /\ lastId < MaxRows /\ me \in Thread
  BY DEF IInv, Typed, Insert
<1>2. CASE TableUnchanged
  BY <1>1, <1>2, AnswerStep
<1>3. CASE /\ me.ip \notin Occupied /\ rows' = rows \union {new} /\ lastId' = lastId + 1
           /\ granted' = [granted EXCEPT ![me.ip] = @ + 1] /\ released' = released
  <2>1. lastId \in Nat /\ MaxRows \in Nat /\ rows \in SUBSET Row
    BY SizesAssumption DEF IInv, Typed
  <2>2. new \in Row
    <3>1. lastId + 1 \in Ids
      BY <1>1, <2>1 DEF Ids
    <3>2. (me.flag = "yes") \in BOOLEAN
      OBVIOUS
    <3>3. QED
      BY <1>1, <3>1, <3>2 DEF Row, Thread
  <2>3. new.id = lastId + 1 /\ new.ip = me.ip /\ me.ip \in Addrs
    BY <1>1 DEF Thread
  <2> HIDE DEF new
  <2>4. rows' \in SUBSET Row /\ lastId' \in 0..MaxRows /\ lastId <= lastId'
    BY <1>1, <1>3, <2>1, <2>2
  <2>5. \A s \in rows : s.id \in Nat /\ s.id <= lastId /\ s.ip # me.ip
    BY <1>3, <2>1 DEF IInv, IdsUnique, Row, Ids, Occupied
  <2>6. \A s \in rows' : s.id > lastId \/ \E r \in rows : r.id = s.id /\ r.ip = s.ip
    BY <1>3, <2>1, <2>3
  <2>7. IdsUnique'
    BY <1>3, <2>1, <2>3, <2>5 DEF IInv, IdsUnique
  <2>8. UniqueAddress'
    BY <1>3, <2>3, <2>5 DEF IInv, UniqueAddress
  <2>9. granted' \in [Addrs -> Nat] /\ released' \in [Addrs -> Nat]
    BY <1>3, <2>3 DEF IInv, Typed
  <2>10. HistoryAccounts'
    <3>1. Occupied' = Occupied \union {me.ip}
      BY <1>3, <2>3 DEF Occupied
    <3>2. SUFFICES ASSUME NEW a \in Addrs
                   PROVE  /\ granted'[a] <= released'[a] + 1
                          /\ a \in Occupied' => granted'[a] > 0
                          /\ granted'[a] = released'[a] + 1 => a \in Occupied'
      BY DEF HistoryAccounts
    <3>3. granted[a] \in Nat /\ released[a] \in Nat /\ granted'[a] \in Nat
      BY <2>9 DEF IInv, Typed
    <3>4. /\ granted[a] <= released[a] + 1
          /\ a \in Occupied => granted[a] > 0
          /\ granted[a] = released[a] + 1 => a \in Occupied
      BY DEF IInv, HistoryAccounts
    <3>5. granted'[a] = (IF a = me.ip THEN granted[a] + 1 ELSE granted[a]) /\ released'[a] = released[a]
      BY <1>3 DEF IInv, Typed
    <3>6. QED
      BY <1>3, <3>1, <3>3, <3>4, <3>5
  <2>11. QED
    BY <1>1, <2>4, <2>6, <2>7, <2>8, <2>9, <2>10, IdleThread, TableStep DEF Answer
<1>4. QED
  BY <1>2, <1>3 DEF Insert

-----------------------------------------------------------------------------
(* Release.                                                                *)

LEMMA NextReleaseIInv ==
    ASSUME IInv, NEW t \in Threads, NextRelease(t)
    PROVE  IInv'
<1> DEFINE me == thr[t]
<1>1. me \in Thread /\ Sound(rows, lastId, me) /\ me.pc = "next" /\ TableUnchanged
  BY DEF IInv, Typed, ThreadsSound, NextRelease
<1>2. CASE me.left = {} /\ GoOn(t, "released")
  <2>1. [me EXCEPT !.pc = "released"] \in Thread
    BY <1>1 DEF Thread, PCs
  <2>2. Sound(rows, lastId, [me EXCEPT !.pc = "released"])
    BY <1>1, <1>2 DEF Sound, Thread
  <2>3. QED
    BY <1>1, <1>2, <2>1, <2>2, ReadStep DEF GoOn
<1>3. CASE Answer(t)
  BY <1>1, <1>3, AnswerStep
<1>4. ASSUME NEW r \in me.left,
             Become(t, [me EXCEPT !.pc = "requery", !.ip = r.ip, !.left = @ \ {r}])
      PROVE  IInv'
  <2> DEFINE you == [me EXCEPT !.pc = "requery", !.ip = r.ip, !.left = @ \ {r}]
  <2>1. r.ip \in Addrs
    BY <1>1 DEF Thread, Row
  <2>2. you \in Thread
    BY <1>1, <2>1 DEF Thread, PCs
  <2>3. /\ you.pc = "requery" /\ you.ip = r.ip /\ you.left = me.left \ {r} /\ you.seen = me.seen
    BY <1>1 DEF Thread
  <2>4. Sound(rows, lastId, you)
    BY <1>1, <2>3 DEF Sound
  <2>5. QED
    BY <1>1, <1>4, <2>2, <2>4, ReadStep
<1>5. QED
  BY <1>2, <1>3, <1>4 DEF NextRelease

LEMMA ReplyReleasedIInv ==
    ASSUME IInv, NEW t \in Threads, ReplyReleased(t)
    PROVE  IInv'
  BY AnswerStep DEF ReplyReleased

\* A release returns to its loop when the row it was about is gone.
LEMMA AfterReleaseSound ==
    ASSUME NEW R, NEW n, NEW me \in Thread, NEW exp \in BOOLEAN,
           me.left \subseteq me.seen, \A r \in me.seen : Known(R, n, r.id, r.ip),
           \A r \in me.seen \ me.left : Gone(R, r.id)
    PROVE  AfterRelease(me, exp) \in Thread /\ Sound(R, n, AfterRelease(me, exp))
<1> DEFINE back == [me EXCEPT !.pc = "next", !.ip = 1, !.id = 0, !.expired = exp]
<1>1. 1 \in Addrs /\ 0 \in 0..MaxRows
  BY SizesAssumption DEF Addrs
<1>2. back \in Thread
  BY <1>1 DEF Thread, PCs
<1>3. back.pc = "next" /\ back.seen = me.seen /\ back.left = me.left
  BY DEF Thread
<1>4. Sound(R, n, back)
  BY <1>3 DEF Sound
<1>5. QED
  BY <1>2, <1>4, IdleThread DEF AfterRelease

\* The address names the row that release_ip is about: no other row holds it,
\* and what was read before still says so.
LEMMA RequeryIInv ==
    ASSUME IInv, NEW t \in Threads, Requery(t)
    PROVE  IInv'
<1> DEFINE me == thr[t]
<1>1. me \in Thread /\ Sound(rows, lastId, me) /\ me.pc = "requery" /\ TableUnchanged
  BY DEF IInv, Typed, ThreadsSound, Requery
<1>2. CASE Holding(me.ip) = {} /\ Become(t, AfterRelease(me, me.expired))
  <2>1. \A r \in me.seen \ me.left : Gone(rows, r.id)
    BY <1>1, <1>2 DEF Sound, Gone, Known, Holding
  <2>2. me.expired \in BOOLEAN
    BY <1>1 DEF Thread
  <2>3. AfterRelease(me, me.expired) \in Thread /\ Sound(rows, lastId, AfterRelease(me, me.expired))
    <3>1. me.left \subseteq me.seen /\ \A r \in me.seen : Known(rows, lastId, r.id, r.ip)
      BY <1>1 DEF Sound
    <3>2. QED
      BY <1>1, <2>1, <2>2, <3>1, AfterReleaseSound
  <2>4. QED
    BY <1>1, <1>2, <2>3, ReadStep
<1>3. ASSUME NEW r \in Holding(me.ip), Become(t, [me EXCEPT !.pc = "delete", !.id = r.id])
      PROVE  IInv'
  <2> DEFINE you == [me EXCEPT !.pc = "delete", !.id = r.id]
  <2>1. r \in rows /\ r.ip = me.ip
    BY DEF Holding
  <2>2. Known(rows, lastId, r.id, r.ip) /\ r.id \in 0..MaxRows
    BY <2>1, RowKnown
  <2>3. you \in Thread
    BY <1>1, <2>2 DEF Thread, PCs
  <2>4. /\ you.pc = "delete" /\ you.id = r.id /\ you.ip = me.ip
        /\ you.seen = me.seen /\ you.left = me.left
    BY <1>1 DEF Thread
  <2>5. ASSUME NEW s \in me.seen \ me.left PROVE Gone(rows, s.id) \/ s.id = r.id
    <3>1. SUFFICES ASSUME NEW x \in rows, x.id = s.id PROVE s.id = r.id
      BY DEF Gone
    <3>2. s.ip = me.ip
      BY <1>1, <3>1 DEF Sound, Gone
    <3>3. x.ip = s.ip
      BY <1>1, <3>1 DEF Sound, Known
    <3>4. x = r
      BY <2>1, <3>2, <3>3 DEF IInv, UniqueAddress
    <3>5. QED
      BY <3>1, <3>4
  <2>6. Sound(rows, lastId, you)
    BY <1>1, <2>1, <2>2, <2>4, <2>5 DEF Sound
  <2>7. QED
    BY <1>1, <1>3, <2>3, <2>6, ReadStep
<1>4. QED
  BY <1>2, <1>3 DEF Requery

\* The history gains a release of the address; if another holds it by now,
\* the row of this id is gone already and the address was granted once more.
LEMMA DeleteIInv ==
    ASSUME IInv, NEW t \in Threads, Delete(t)
    PROVE  IInv'
<1> DEFINE me == thr[t]
           you == AfterRelease(me, TRUE)
<1>1. me \in Thread /\ Sound(rows, lastId, me) /\ me.pc = "delete"
  BY DEF IInv, Typed, ThreadsSound, Delete
<1>2. /\ rows' = rows \ WithId(me.id) /\ lastId' = lastId /\ granted' = granted
      /\ released' = [released EXCEPT ![me.ip] = @ + 1]
      /\ Become(t, you)
  BY DEF Delete
<1>3. rows' \subseteq rows /\ \A s \in rows : s \in rows' <=> s.id # me.id
  BY <1>2 DEF WithId
<1>4. me.ip \in Addrs /\ lastId \in Nat /\ rows \in SUBSET Row /\ rows' \in SUBSET Row
  BY <1>1, <1>3, SizesAssumption DEF Thread, IInv, Typed
<1>5. you \in Thread /\ Sound(rows', lastId', you)
  <2>1. \A s \in rows' : s.id > lastId \/ \E r \in rows : r.id = s.id /\ r.ip = s.ip
    BY <1>3
  <2>2. Sound(rows', lastId', me)
    BY <1>1, <1>2, <1>4, <2>1, SoundStays
  <2>3. Gone(rows', me.id)
    BY <1>2 DEF Gone, WithId
  <2>4. /\ me.left \subseteq me.seen /\ \A r \in me.seen : Known(rows', lastId', r.id, r.ip)
        /\ \A r \in me.seen \ me.left : Gone(rows', r.id)
    BY <1>1, <2>2, <2>3 DEF Sound
  <2>5. QED
    BY <1>1, <2>4, AfterReleaseSound
<1>6. IdsUnique' /\ UniqueAddress'
  BY <1>2, <1>3 DEF IInv, IdsUnique, UniqueAddress
<1>7. HistoryAccounts'
  <2>1. SUFFICES ASSUME NEW a \in Addrs
                 PROVE  /\ granted'[a] <= released'[a] + 1
                        /\ a \in Occupied' => granted'[a] > 0
                        /\ granted'[a] = released'[a] + 1 => a \in Occupied'
    BY DEF HistoryAccounts
  <2>2. granted[a] \in Nat /\ released[a] \in Nat
    BY DEF IInv, Typed
  <2>3. /\ granted[a] <= released[a] + 1
        /\ a \in Occupied => granted[a] > 0
        /\ granted[a] = released[a] + 1 => a \in Occupied
    BY DEF IInv, HistoryAccounts
  <2>4. granted'[a] = granted[a] /\ released'[a] = IF a = me.ip THEN released[a] + 1 ELSE released[a]
    BY <1>2, <1>4 DEF IInv, Typed
  <2>5. a \in Occupied' => a \in Occupied
    BY <1>3 DEF Occupied
  <2>6. a # me.ip /\ a \in Occupied => a \in Occupied'
    <3>1. ASSUME NEW s \in rows, s.ip # me.ip PROVE s \in rows'
      <4>1. s.id # me.id
        BY <1>1, <3>1 DEF Sound, Known
      <4>2. QED
        BY <1>3, <4>1
    <3>2. QED
      BY <3>1 DEF Occupied
  <2>7. QED
    BY <2>2, <2>3, <2>4, <2>5, <2>6
<1>8. ThreadsSound'
  <2>1. \A u \in Threads : thr'[u] = IF u = t THEN you ELSE thr[u]
    BY <1>2 DEF Become, IInv, Typed
  <2>2. \A s \in rows' : s.id > lastId \/ \E r \in rows : r.id = s.id /\ r.ip = s.ip
    BY <1>3
  <2>3. \A u \in Threads : thr[u] \in Thread /\ Sound(rows, lastId, thr[u])
    BY DEF IInv, Typed, ThreadsSound
  <2>4. \A u \in Threads : Sound(rows', lastId', thr[u])
    BY <1>2, <1>4, <2>2, <2>3, SoundStays
  <2>5. QED
    BY <1>5, <2>1, <2>4 DEF ThreadsSound
<1>9. Typed'
  <2>1. thr' \in [Threads -> Thread]
    BY <1>2, <1>5 DEF Become, IInv, Typed
  <2>2. released' \in [Addrs -> Nat] /\ granted' \in [Addrs -> Nat] /\ lastId' \in 0..MaxRows
    BY <1>2, <1>4 DEF IInv, Typed
  <2>3. QED
    BY <1>4, <2>1, <2>2 DEF Typed
<1>10. QED
  BY <1>6, <1>7, <1>8, <1>9 DEF IInv

-----------------------------------------------------------------------------
(* Rows that change their flag or their guest.                             *)

\* Every row is written anew with the id and the address it had.
LEMMA RewriteIInv ==
    ASSUME IInv, NEW t \in Threads, Answer(t), UNCHANGED <<lastId, granted, released>>,
           rows' \in SUBSET Row,
           \A s \in rows' : \E r \in rows : r.id = s.id /\ r.ip = s.ip,
           \A r \in rows : \E s \in rows' : s.id = r.id /\ s.ip = r.ip,
           \A r, s \in rows' : r.id = s.id => r = s
    PROVE  IInv'
<1>1. IdsUnique'
  BY DEF IInv, IdsUnique
<1>2. UniqueAddress'
  BY DEF IInv, UniqueAddress
<1>3. HistoryAccounts'
  <2>1. Occupied' = Occupied
    BY DEF Occupied
  <2>2. QED
    BY <2>1 DEF IInv, HistoryAccounts
<1>4. lastId' \in 0..MaxRows /\ lastId <= lastId' /\ granted' \in [Addrs -> Nat] /\ released' \in [Addrs -> Nat]
  BY SizesAssumption DEF IInv, Typed
<1>5. QED
  BY <1>1, <1>2, <1>3, <1>4, IdleThread, TableStep DEF Answer

LEMMA WritePrimaryIInv ==
    ASSUME IInv, NEW t \in Threads, WritePrimary(t)
    PROVE  IInv'
<1> DEFINE me == thr[t]
           changed == {r \in me.seen : r.primary # (r.id = me.id)}
           W(r) == IF \E c \in changed : c.id = r.id THEN [r EXCEPT !.primary = (r.id = me.id)] ELSE r
<1>1. Answer(t) /\ UNCHANGED <<lastId, granted, released>>
  BY DEF WritePrimary
<1>2. CASE rows' = rows
  BY <1>1, <1>2, AnswerStep DEF TableUnchanged
<1>3. CASE rows' = {W(r) : r \in rows}
  <2>1. rows \in SUBSET Row
    BY DEF IInv, Typed
  <2>2. ASSUME NEW r \in rows PROVE W(r) \in Row /\ W(r).id = r.id /\ W(r).ip = r.ip
    <3>1. r \in Row /\ (r.id = me.id) \in BOOLEAN
      BY <2>1
    <3>2. /\ [r EXCEPT !.primary = (r.id = me.id)] \in Row
          /\ [r EXCEPT !.primary = (r.id = me.id)].id = r.id
          /\ [r EXCEPT !.primary = (r.id = me.id)].ip = r.ip
      BY <3>1 DEF Row
    <3>3. QED
      BY <3>1, <3>2
  <2> HIDE DEF W
  <2>3. /\ rows' \in SUBSET Row
        /\ \A s \in rows' : \E r \in rows : r.id = s.id /\ r.ip = s.ip
        /\ \A r \in rows : \E s \in rows' : s.id = r.id /\ s.ip = r.ip
        /\ \A r, s \in rows' : r.id = s.id => r = s
    BY <1>3, <2>2 DEF IInv, IdsUnique
  <2>4. QED
    BY <1>1, <2>3, RewriteIInv
<1>4. QED
  BY <1>2, <1>3 DEF WritePrimary

LEMMA MoveIInv ==
    ASSUME IInv, NEW t \in Threads, Move(t)
    PROVE  IInv'
<1> DEFINE me == thr[t]
           W(r) == IF r.id = me.id THEN [r EXCEPT !.guest = me.g] ELSE r
<1>1. Answer(t) /\ UNCHANGED <<lastId, granted, released>> /\ rows' = {W(r) : r \in rows}
  BY DEF Move
<1>2. rows \in SUBSET Row /\ me.g \in Guests \union {Nobody}
  BY DEF IInv, Typed, Thread
<1>3. \A r \in rows : W(r) \in Row /\ W(r).id = r.id /\ W(r).ip = r.ip
  BY <1>2 DEF Row
<1> HIDE DEF W
<1>4. /\ rows' \in SUBSET Row
      /\ \A s \in rows' : \E r \in rows : r.id = s.id /\ r.ip = s.ip
      /\ \A r \in rows : \E s \in rows' : s.id = r.id /\ s.ip = r.ip
      /\ \A r, s \in rows' : r.id = s.id => r = s
  BY <1>1, <1>3 DEF IInv, IdsUnique
<1>5. QED
  BY <1>1, <1>4, RewriteIInv

-----------------------------------------------------------------------------
(* The steps of a synchronisation and of an update that only read.         *)

LEMMA SyncPrimaryIInv ==
    ASSUME IInv, NEW t \in Threads, SyncPrimary(t)
    PROVE  IInv'
<1> DEFINE me == thr[t]
<1>1. me \in Thread /\ Sound(rows, lastId, me) /\ TableUnchanged
  BY DEF IInv, Typed, ThreadsSound, SyncPrimary
<1>2. CASE Become(t, [me EXCEPT !.pc = "check", !.flag = "no"])
  <2>1. [me EXCEPT !.pc = "check", !.flag = "no"] \in Thread
    BY <1>1 DEF Thread, PCs, Flags
  <2>2. Sound(rows, lastId, [me EXCEPT !.pc = "check", !.flag = "no"])
    BY <1>1 DEF Sound, Thread
  <2>3. QED
    BY <1>1, <1>2, <2>1, <2>2, ReadStep
<1>3. CASE Become(t, [me EXCEPT !.pc = "check", !.flag = "yes", !.kind = "primary"])
  <2>1. [me EXCEPT !.pc = "check", !.flag = "yes", !.kind = "primary"] \in Thread
    BY <1>1 DEF Thread, PCs, Flags, Kinds
  <2>2. Sound(rows, lastId, [me EXCEPT !.pc = "check", !.flag = "yes", !.kind = "primary"])
    BY <1>1 DEF Sound, Thread
  <2>3. QED
    BY <1>1, <1>3, <2>1, <2>2, ReadStep
<1>4. QED
  BY <1>2, <1>3 DEF SyncPrimary

LEMMA SyncOwnerIInv ==
    ASSUME IInv, NEW t \in Threads, SyncOwner(t)
    PROVE  IInv'
<1> DEFINE me == thr[t]
<1>1. me \in Thread /\ Sound(rows, lastId, me) /\ TableUnchanged
  BY DEF IInv, Typed, ThreadsSound, SyncOwner
<1>2. CASE Answer(t)
  BY <1>1, <1>2, AnswerStep
<1>3. CASE Become(t, [me EXCEPT !.pc = "move_read", !.op = "update"])
  <2>1. [me EXCEPT !.pc = "move_read", !.op = "update"] \in Thread
    BY <1>1 DEF Thread, PCs, AllOps
  <2>2. Sound(rows, lastId, [me EXCEPT !.pc = "move_read", !.op = "update"])
    BY <1>1 DEF Sound, Thread
  <2>3. QED
    BY <1>1, <1>3, <2>1, <2>2, ReadStep
<1>4. QED
  BY <1>2, <1>3 DEF SyncOwner

LEMMA MoveReadIInv ==
    ASSUME IInv, NEW t \in Threads, MoveRead(t)
    PROVE  IInv'
<1> DEFINE me == thr[t]
<1>1. me \in Thread /\ Sound(rows, lastId, me) /\ TableUnchanged
  BY DEF IInv, Typed, ThreadsSound, MoveRead
<1>2. CASE Answer(t)
  BY <1>1, <1>2, AnswerStep
<1>3. ASSUME NEW r \in Holding(me.ip), Become(t, [me EXCEPT !.pc = "move", !.id = r.id]) PROVE IInv'
  <2>1. r.id \in 0..MaxRows
    BY RowKnown DEF Holding
  <2>2. [me EXCEPT !.pc = "move", !.id = r.id] \in Thread
    BY <1>1, <2>1 DEF Thread, PCs
  <2>3. Sound(rows, lastId, [me EXCEPT !.pc = "move", !.id = r.id])
    BY <1>1 DEF Sound, Thread
  <2>4. QED
    BY <1>1, <1>3, <2>2, <2>3, ReadStep
<1>4. QED
  BY <1>2, <1>3 DEF MoveRead

-----------------------------------------------------------------------------
LEMMA NextIInv == IInv /\ [Next]_vars => IInv'
<1> SUFFICES ASSUME IInv, [Next]_vars PROVE IInv'
  OBVIOUS
<1>1. CASE UNCHANGED vars
  BY <1>1 DEF IInv, vars, Typed, IdsUnique, UniqueAddress, HistoryAccounts, Occupied, ThreadsSound
<1>2. ASSUME NEW t \in Threads, Begin(t) PROVE IInv'
  <2>1. ASSUME NEW g \in Guests \union {Nobody}, NEW a \in Addrs, BeginAuto(t, g, a) PROVE IInv'
    BY <2>1, BeginAllocateIInv DEF BeginAuto, Kinds
  <2>2. QED
    BY <1>2, <2>1, BeginAllocateIInv, BeginReleaseIInv, BeginSetPrimaryIInv, BeginUpdateIInv,
       BeginReleaseGuestIInv, SyncReadIInv DEF Begin
<1>3. ASSUME NEW t \in Threads, Step(t) PROVE IInv'
  BY <1>3, CheckFreeIInv, ReadPrimaryIInv, InsertIInv, NextReleaseIInv, ReplyReleasedIInv,
     RequeryIInv, DeleteIInv, WritePrimaryIInv, SyncPrimaryIInv, SyncOwnerIInv, MoveReadIInv,
     MoveIInv DEF Step
<1>4. QED
  BY <1>1, <1>2, <1>3 DEF Next

\* Every reachable state satisfies the inductive invariant: the theorems below
\* are its consequences.
THEOREM Inductive == Spec => []IInv
  BY InitIInv, NextIInv, PTL DEF Spec

\* The table, its sequence, the requests and the history stay well-formed.
THEOREM TypeCorrect == Spec => []TypeOK
<1>1. IInv => TypeOK
  BY DEF IInv, Typed, IdsUnique, ThreadsSound, Sound, Thread, TypeOK
<1>2. QED
  BY <1>1, Inductive, PTL

\* However the statements of requests and deployments interleave, an address
\* has at most one allocation.
THEOREM AddressesUnique == Spec => []UniqueAddress
<1>1. IInv => UniqueAddress
  BY DEF IInv
<1>2. QED
  BY <1>1, Inductive, PTL

\* The history accounts for the table, also when two releases of one address
\* overlap and only one of them finds the row.
THEOREM HistoryTrue == Spec => []HistoryAccounts
<1>1. IInv => HistoryAccounts
  BY DEF IInv
<1>2. QED
  BY <1>1, Inductive, PTL

\* release_ip_by_vmid that returns has released all it found, though each
\* address is looked up again and others may release, move and take addresses
\* between its commits.
THEOREM ReleasesComplete == Spec => []ReleaseComplete
<1>1. IInv => ReleaseComplete
  BY DEF IInv, ThreadsSound, Sound, Gone, ReleaseComplete, WithId
<1>2. QED
  BY <1>1, Inductive, PTL
=============================================================================
