--------------------------- MODULE ServicesProofs ---------------------------
(***************************************************************************)
(* Proofs about the services of the panel, for every value of the          *)
(* constants: the invariants and action properties of Services, each from  *)
(* an inductive invariant of its part.                                     *)
(***************************************************************************)
EXTENDS Services, FiniteSetTheorems, TLAPS

-----------------------------------------------------------------------------
(* Sockets.                                                                *)

\* Whose endpoint is running.
Served(w) == wSock[w] \in {"open", "broken"}

SenderRecords ==
    [pc : {"idle", "fetch", "send", "users"}, topic : W!Topics \union {W!Nobody},
     todo : SUBSET Users, left : SUBSET Sockets, dead : SUBSET Sockets]

\* A broadcast sends to sockets that have connected, and takes those for dead
\* whose peer was gone.
SenderSound(r) ==
    /\ \A w \in r.left : wSock[w] # "new"
    /\ \A w \in r.dead : wSock[w] \in {"broken", "closed"}
    /\ r.pc \in {"send", "fetch"} => r.topic \in W!Topics

SocketTypes ==
    /\ wSock \in [Sockets -> {"new", "open", "broken", "closed"}]
    /\ wMembers \in [W!Topics -> SUBSET Sockets]
    /\ wWanted \in [Sockets -> SUBSET Channels]
    /\ wKeys \subseteq W!Topics
    /\ \A w \in Sockets : wSock[w] # "new" => wUser[w] \in Users
    /\ \A w \in Sockets : wSock[w] = "new" => wWanted[w] = {}
    /\ wSends \in 0..MaxSends
    /\ wUser \in [Sockets -> Users \union {W!Nobody}]
    /\ wSender \in [Senders -> SenderRecords]

\* A set holds sockets that are served, and under a user those of that user;
\* a key without a set has a socket whose end will remove it.
SetsSound ==
    /\ \A t \in W!Topics : \A w \in wMembers[t] :
          t \in wKeys /\ Served(w) /\ (t \in Channels \/ wUser[w] = t)
    /\ \A t \in wKeys : wMembers[t] # {} \/ \E w \in Sockets : Served(w) /\ wUser[w] = t

SendersSound == \A b \in Senders : SenderSound(wSender[b])

SocketsInv == SocketTypes /\ SetsSound /\ SendersSound /\ W!LiveKeepTheirPlace

LEMMA IdleSound == W!Idle \in SenderRecords /\ SenderSound(W!Idle)
  BY DEF W!Idle, W!Working, SenderRecords, SenderSound

LEMMA SocketsInit == W!Init => SocketsInv
  BY ServicesAssumption, IdleSound
  DEF W!Init, SocketsInv, SocketTypes, SetsSound, SendersSound, W!LiveKeepTheirPlace, Served

LEMMA ConnectInv ==
    ASSUME SocketsInv, NEW w \in Sockets, NEW u \in Users, W!Connect(w, u)
    PROVE  SocketsInv'
  BY DEF W!Connect, SocketsInv, SocketTypes, SetsSound, SendersSound, SenderSound, W!LiveKeepTheirPlace, W!Topics,
         Served

LEMMA SubscribeInv ==
    ASSUME SocketsInv, NEW w \in Sockets, NEW c \in Channels, W!Subscribe(w, c)
    PROVE  SocketsInv'
  BY DEF W!Subscribe, SocketsInv, SocketTypes, SetsSound, SendersSound, SenderSound, W!LiveKeepTheirPlace, W!Topics,
         Served

\* Users struck off what broadcasts have left to do, and sockets that close.
LEMMA ShortenedKeeps ==
    ASSUME SocketTypes, SendersSound, DOMAIN wSender' = Senders, wSender' = [b \in Senders |-> wSender'[b]],
           \A b \in Senders : \E S : wSender'[b] = [wSender[b] EXCEPT !.todo = @ \ S],
           \A v \in Sockets : wSock'[v] = wSock[v] \/ (wSock'[v] = "closed" /\ wSock[v] # "new")
    PROVE  wSender' \in [Senders -> SenderRecords] /\ SendersSound'
<1>1. \A b \in Senders : /\ wSender'[b] \in SenderRecords /\ wSender[b] \in SenderRecords
                         /\ wSender'[b].left = wSender[b].left /\ wSender'[b].dead = wSender[b].dead
                         /\ wSender'[b].pc = wSender[b].pc /\ wSender'[b].topic = wSender[b].topic
  BY DEF SocketTypes, SenderRecords
<1>2. SendersSound'
  <2> SUFFICES ASSUME NEW b \in Senders PROVE SenderSound(wSender[b])'
    BY DEF SendersSound
  <2>1. wSender[b].left \subseteq Sockets /\ wSender[b].dead \subseteq Sockets
    BY <1>1 DEF SenderRecords
  <2> QED BY <1>1, <2>1 DEF SendersSound, SenderSound
<1> QED BY <1>1, <1>2

LEMMA UnsubscribeInv ==
    ASSUME SocketsInv, NEW w \in Sockets, NEW c \in Channels, W!Unsubscribe(w, c)
    PROVE  SocketsInv'
<1>1. /\ UNCHANGED <<wSock, wUser, wSends>> /\ c \notin Users /\ c \in W!Topics
      /\ wWanted' = [wWanted EXCEPT ![w] = @ \ {c}]
      /\ wMembers' = [wMembers EXCEPT ![c] = @ \ {w}]
      /\ wKeys' \subseteq wKeys
      /\ \A t \in W!Topics : t \in wKeys' <=> t \in wKeys /\ (t = c => wMembers'[t] # {})
  BY ServicesAssumption DEF W!Unsubscribe, W!SetMembers, W!Topics
<1>2. \A b \in Senders : \E S : wSender'[b] = [wSender[b] EXCEPT !.todo = @ \ S]
  BY DEF W!Unsubscribe, W!SetMembers
<1>3. wSender' \in [Senders -> SenderRecords] /\ SendersSound'
  BY <1>1, <1>2, ShortenedKeeps DEF W!Unsubscribe, W!SetMembers, SocketsInv
<1>4. SocketTypes'
  BY <1>1, <1>3 DEF SocketsInv, SocketTypes
<1>5. SetsSound'
  BY <1>1 DEF SocketsInv, SetsSound, SocketTypes, Served
<1>6. W!LiveKeepTheirPlace'
  BY <1>1 DEF SocketsInv, W!LiveKeepTheirPlace, SocketTypes, W!Topics
<1> QED BY <1>3, <1>4, <1>5, <1>6 DEF SocketsInv

LEMMA PeerGoneInv ==
    ASSUME SocketsInv, NEW w \in Sockets, W!PeerGone(w)
    PROVE  SocketsInv'
  BY DEF W!PeerGone, SocketsInv, SocketTypes, SetsSound, SendersSound, SenderSound, W!LiveKeepTheirPlace, W!Topics,
         Served

LEMMA DisconnectInv ==
    ASSUME SocketsInv, NEW w \in Sockets, W!Disconnect(w)
    PROVE  SocketsInv'
<1> USE DEF W!Disconnect, W!SetMembers, SocketsInv
<1>1. wSender' \in [Senders -> SenderRecords] /\ SendersSound'
  BY ShortenedKeeps DEF SocketTypes
<1>0. SocketTypes'
  BY <1>1 DEF W!Left, SocketTypes, W!Topics
<1>2. SetsSound'
  <2>1. /\ wUser' = wUser /\ wSock' = [wSock EXCEPT ![w] = "closed"]
        /\ wMembers' = W!Left(w) /\ wUser[w] \in Users /\ wSock[w] \in {"open", "broken"}
    BY DEF SocketTypes
  <2>2. \A t \in W!Topics : wMembers'[t] \subseteq wMembers[t] /\ w \notin wMembers'[t]
    BY <2>1 DEF W!Left, SetsSound, SocketTypes
  <2>3. \A t \in W!Topics : t \in wKeys' <=> t \in wKeys /\ ((t = wUser[w] \/ t \in Channels) => wMembers'[t] # {})
    BY <2>1
  <2>4. \A t \in W!Topics : t = wUser[w] \/ t \in Channels \/ wMembers'[t] = wMembers[t]
    BY <2>1 DEF W!Left
  <2> QED BY <2>1, <2>2, <2>3, <2>4 DEF SetsSound, SocketTypes, Served
<1>4. W!LiveKeepTheirPlace'
  BY DEF W!Left, W!LiveKeepTheirPlace, SocketTypes, W!Topics
<1> QED BY <1>0, <1>1, <1>2, <1>4

\* A step of a broadcast that leaves the sockets and the sets.
LEMMA CopyKeeps ==
    ASSUME SocketsInv, UNCHANGED <<wSock, wUser, wKeys, wMembers, wWanted>>,
           wSends' \in 0..MaxSends, NEW b \in Senders, NEW r \in SenderRecords,
           wSender' = [wSender EXCEPT ![b] = r], SenderSound(r)
    PROVE  SocketsInv'
<1>1. SocketTypes' /\ SetsSound' /\ W!LiveKeepTheirPlace'
  BY DEF SocketsInv, SocketTypes, SetsSound, Served, W!LiveKeepTheirPlace
<1>2. SendersSound'
  BY DEF SocketsInv, SocketTypes, SendersSound, SenderSound
<1> QED BY <1>1, <1>2 DEF SocketsInv

\* The copy of a set has sockets that have connected.
LEMMA CopySound == SocketsInv => \A t \in W!Topics : \A w \in wMembers[t] : w \in Sockets /\ wSock[w] # "new"
  BY DEF SocketsInv, SocketTypes, SetsSound, Served

LEMMA StartInv ==
    ASSUME SocketsInv, NEW b \in Senders,
           \/ \E c \in Channels : W!PollMetrics(b, c)
           \/ \E u \in Users : W!SendToUser(b, u)
           \/ W!Broadcast(b)
    PROVE  SocketsInv'
<1>1. ASSUME NEW r, W!Start(b, r)
      PROVE  /\ UNCHANGED <<wSock, wUser, wKeys, wMembers, wWanted>>
             /\ wSends' \in 0..MaxSends /\ wSender' = [wSender EXCEPT ![b] = r]
  BY <1>1, ServicesAssumption DEF W!Start, SocketsInv, SocketTypes
<1>2. PICK r : W!Start(b, r) /\ r \in SenderRecords /\ SenderSound(r)
  <2>1. ASSUME NEW c \in Channels, W!PollMetrics(b, c)
        PROVE  \E r \in SenderRecords : W!Start(b, r) /\ SenderSound(r)
    <3>1. W!Working("fetch", c, {}, {}) \in SenderRecords /\ SenderSound(W!Working("fetch", c, {}, {}))
      BY DEF W!Working, SenderRecords, SenderSound, W!Topics
    <3> QED BY <2>1, <3>1 DEF W!PollMetrics
  <2>2. ASSUME NEW u \in Users, W!SendToUser(b, u)
        PROVE  \E r \in SenderRecords : W!Start(b, r) /\ SenderSound(r)
    <3> DEFINE r == W!Working("send", u, {}, wMembers[u])
    <3>1. r \in SenderRecords /\ SenderSound(r)
      BY CopySound DEF W!Working, SenderRecords, SenderSound, W!Topics
    <3> QED BY <2>2, <3>1 DEF W!SendToUser
  <2>3. ASSUME W!Broadcast(b)
        PROVE  \E r \in SenderRecords : W!Start(b, r) /\ SenderSound(r)
    <3> DEFINE r == W!Working("users", W!Nobody, wKeys \intersect Users, {})
    <3>1. r \in SenderRecords /\ SenderSound(r)
      BY DEF W!Working, SenderRecords, SenderSound
    <3> QED BY <2>3, <3>1 DEF W!Broadcast
  <2> QED BY <2>1, <2>2, <2>3
<1> QED BY <1>1, <1>2, CopyKeeps

LEMMA CopyInv ==
    ASSUME SocketsInv, NEW b \in Senders,
           \/ W!BroadcastToChannel(b)
           \/ \E u \in Users : W!NextUser(b, u)
           \/ \E w \in Sockets : W!SendOne(b, w)
    PROVE  SocketsInv'
<1>1. wSender[b] \in SenderRecords /\ SenderSound(wSender[b]) /\ wSends \in 0..MaxSends
  BY DEF SocketsInv, SocketTypes, SendersSound
<1>2. CASE W!BroadcastToChannel(b)
  <2> DEFINE c == wSender[b].topic
             r == W!Working("send", c, {}, wMembers[c])
  <2>1. c \in W!Topics
    BY <1>1, <1>2 DEF W!BroadcastToChannel, SenderSound
  <2>2. r \in SenderRecords /\ SenderSound(r)
    BY <2>1, CopySound DEF SenderRecords, SenderSound, W!Working
  <2>3. wSender' = [wSender EXCEPT ![b] = r] \/ wSender' = [wSender EXCEPT ![b] = W!Idle]
    BY <1>2 DEF W!BroadcastToChannel
  <2> QED BY <1>1, <1>2, <2>2, <2>3, CopyKeeps, IdleSound DEF W!BroadcastToChannel
<1>3. ASSUME NEW u \in Users, W!NextUser(b, u) PROVE SocketsInv'
  <2> DEFINE r == [wSender[b] EXCEPT !.todo = @ \ {u}, !.left = wMembers[u]]
  <2>1. r \in SenderRecords /\ SenderSound(r)
    BY <1>1, CopySound DEF SenderRecords, SenderSound, W!Topics, SocketsInv, SocketTypes
  <2>2. wSender' = [wSender EXCEPT ![b] = r]
    BY <1>3 DEF W!NextUser
  <2> QED BY <1>1, <1>3, <2>1, <2>2, CopyKeeps DEF W!NextUser
<1>4. ASSUME NEW w \in Sockets, W!SendOne(b, w) PROVE SocketsInv'
  <2> DEFINE r == [wSender[b] EXCEPT !.left = @ \ {w},
                                     !.dead = IF wSock[w] = "open" THEN @ ELSE @ \union {w}]
  <2>1. r \in SenderRecords /\ wSock[w] # "new"
    BY <1>1, <1>4 DEF W!SendOne, SenderRecords, SenderSound
  <2>3. wSock[w] = "open" \/ wSock[w] \in {"broken", "closed"}
    BY <2>1 DEF SocketsInv, SocketTypes
  <2>4. /\ r.pc = wSender[b].pc /\ r.topic = wSender[b].topic /\ r.left \subseteq wSender[b].left
        /\ \A v \in r.dead : v \in wSender[b].dead \/ (v = w /\ wSock[w] # "open")
    BY <1>1 DEF SenderRecords
  <2>5. SenderSound(r)
    BY <1>1, <2>3, <2>4 DEF SenderSound
  <2>2. wSender' = [wSender EXCEPT ![b] = r]
    BY <1>4 DEF W!SendOne
  <2> QED BY <1>1, <1>4, <2>1, <2>2, <2>5, CopyKeeps DEF W!SendOne
<1> QED BY <1>2, <1>3, <1>4

LEMMA CleanTopicInv ==
    ASSUME SocketsInv, NEW b \in Senders, W!CleanTopic(b)
    PROVE  SocketsInv'
<1> DEFINE t == wSender[b].topic
<1>1. /\ t \in W!Topics /\ UNCHANGED <<wSock, wUser, wWanted, wSends>>
      /\ \A w \in wSender[b].dead : w \in Sockets /\ wSock[w] \in {"broken", "closed"}
  BY DEF W!CleanTopic, SocketsInv, SendersSound, SenderSound, SocketTypes, SenderRecords
<1>2. CASE wSender[b].dead # {} /\ t \notin wKeys
  BY <1>1, <1>2, CopyKeeps, IdleSound DEF W!CleanTopic, SocketsInv, SocketTypes
<1>3. CASE ~(wSender[b].dead # {} /\ t \notin wKeys)
  <2>1. /\ wMembers' = [wMembers EXCEPT ![t] = @ \ wSender[b].dead]
        /\ \A s \in W!Topics : s \in wKeys' <=> s \in wKeys /\ ~(s = t /\ wMembers'[t] = {})
        /\ wKeys' \subseteq wKeys
    BY <1>1, <1>3 DEF W!CleanTopic, SocketsInv, SocketTypes
  <2>2. wSender' \in [Senders -> SenderRecords] /\ SendersSound'
    <3> DEFINE gone == IF [wMembers EXCEPT ![t] = @ \ wSender[b].dead][t] = {} THEN {t} ELSE {}
               S(a) == IF a = b THEN W!Idle ELSE [wSender[a] EXCEPT !.todo = @ \ gone]
    <3>1. wSender' = [a \in Senders |-> S(a)]
      BY <1>3 DEF W!CleanTopic
    <3>2. ASSUME NEW a \in Senders PROVE S(a) \in SenderRecords /\ SenderSound(S(a))
      <4>1. wSender[a] \in SenderRecords /\ SenderSound(wSender[a])
        BY DEF SocketsInv, SocketTypes, SendersSound
      <4> HIDE DEF gone
      <4>2. [wSender[a] EXCEPT !.todo = @ \ gone] \in SenderRecords
        BY <4>1 DEF SenderRecords
      <4>3. SenderSound([wSender[a] EXCEPT !.todo = @ \ gone])
        BY <4>1 DEF SenderRecords, SenderSound
      <4> QED BY <4>2, <4>3, IdleSound
    <3> HIDE DEF S
    <3> QED BY <1>1, <3>1, <3>2 DEF SendersSound, SenderSound
  <2>3. SocketTypes'
    BY <1>1, <2>1, <2>2 DEF SocketsInv, SocketTypes
  <2>4. SetsSound'
    BY <1>1, <2>1 DEF SocketsInv, SetsSound, SocketTypes, Served
  <2>5. W!LiveKeepTheirPlace'
    BY <1>1, <2>1 DEF SocketsInv, W!LiveKeepTheirPlace, SocketTypes, W!Topics
  <2> QED BY <2>2, <2>3, <2>4, <2>5 DEF SocketsInv
<1> QED BY <1>2, <1>3

LEMMA CleanUsersInv ==
    ASSUME SocketsInv, NEW b \in Senders, W!CleanUsers(b)
    PROVE  SocketsInv'
<1>1. /\ UNCHANGED <<wSock, wUser, wWanted, wKeys, wSends>>
      /\ \A w \in wSender[b].dead : w \in Sockets /\ wSock[w] \in {"broken", "closed"}
      /\ wSender' = [wSender EXCEPT ![b] = W!Idle]
  BY DEF W!CleanUsers, SocketsInv, SocketTypes, SenderRecords, SendersSound, SenderSound
<1>2. /\ wMembers' \in [W!Topics -> SUBSET Sockets]
      /\ \A t \in W!Topics : /\ wMembers'[t] \subseteq wMembers[t]
                             /\ \A w \in wMembers[t] : wSock[w] = "open" => w \in wMembers'[t]
                             /\ wMembers'[t] # wMembers[t] => \E w \in wMembers[t] : wUser[w] = t
  BY <1>1 DEF W!CleanUsers, SocketsInv, SocketTypes
<1>3. SocketTypes'
  BY <1>1, <1>2, IdleSound DEF SocketsInv, SocketTypes
<1>4. SetsSound'
  BY <1>1, <1>2 DEF SocketsInv, SetsSound, SocketTypes, Served
<1>5. SendersSound'
  BY <1>1, IdleSound DEF SocketsInv, SendersSound, SenderSound, SocketTypes
<1>6. W!LiveKeepTheirPlace'
  BY <1>1, <1>2 DEF SocketsInv, W!LiveKeepTheirPlace, SocketTypes, W!Topics
<1> QED BY <1>3, <1>4, <1>5, <1>6 DEF SocketsInv

LEMMA SocketsStep ==
    ASSUME SocketsInv, [Next]_vars
    PROVE  SocketsInv'
<1>1. CASE UNCHANGED socketsVars
  BY <1>1 DEF socketsVars, SocketsInv, SocketTypes, SetsSound, SendersSound, SenderSound, Served,
              W!LiveKeepTheirPlace
<1>2. CASE W!Next
  BY <1>2, ConnectInv, SubscribeInv, UnsubscribeInv, PeerGoneInv, DisconnectInv, StartInv, CopyInv,
     CleanTopicInv, CleanUsersInv
  DEF W!Next, W!SenderStep
<1> QED BY <1>1, <1>2 DEF Next, vars, AppStep, DeploymentStep, MoveStep, BackupJobStep, SocketStep,
                          AccountStep, MonitorStep

\* The connection manager forgets every socket whose endpoint has ended, and
\* keeps no key for it, while a socket that can be written to keeps its place
\* with its user and the channels it subscribed to, however many broadcasts
\* (send_to_user, broadcast, broadcast_to_channel) wait for their sends.
THEOREM MembershipHolds == Spec => []MembershipTrue
<1>1. Init => SocketsInv
  BY SocketsInit DEF Init
<1>2. SocketsInv /\ [Next]_vars => SocketsInv'
  BY SocketsStep
<1>3. SocketsInv => MembershipTrue
  BY DEF MembershipTrue, SocketsInv, SocketTypes, SetsSound, Served, W!ClosedForgotten, W!Topics
<1> QED BY <1>1, <1>2, <1>3, PTL DEF Spec

-----------------------------------------------------------------------------
(* Accounts.                                                               *)
Locks == {"none", "locked", "expired"}
UserRows == [failed : Nat, lock : Locks, enabled : BOOLEAN]
LoginPcs == {"new", "loaded", "wrong", "counting", "session", "done", "impersonated"}
ResetPcs == {"idle", "save", "terminate", "erase", "delete"}

AccountTypes ==
    /\ lPresent \in BOOLEAN /\ lEnabled \in BOOLEAN /\ lFailed \in Nat /\ lLock \in Locks
    /\ lLogin \in [Logins -> [pc : LoginPcs, row : UserRows]]
    /\ lSess \in [Logins -> {"none", "active", "ended", "gone"}]
    /\ lFresh \in [Logins -> BOOLEAN]
    /\ lRequest \in [Logins -> {"none", "valid", "logout"}]
    /\ lReset \in [Resets -> [pc : ResetPcs, row : UserRows]]
    /\ lOutdated \subseteq Logins /\ lCrashed \in BOOLEAN
    /\ lWrong \in Nat /\ lCrossed \in BOOLEAN /\ lEvents \in 0..AccountEvents

\* What a login has loaded: no session before it is through, a lock that was
\* not in force, and a counter nobody else has written since.
LoginsSound ==
    \A r \in Logins :
        /\ lLogin[r].pc \in {"new", "loaded", "wrong", "counting", "session"} => lSess[r] = "none"
        /\ lLogin[r].pc = "loaded" => lLogin[r].row.lock # "locked"
        /\ lLogin[r].pc = "counting" => lCrossed \/ lLogin[r].row.failed = lFailed

OutdatedOpened == \A r \in lOutdated : lSess[r] # "none"

AccountsInv ==
    AccountTypes /\ LoginsSound /\ OutdatedOpened /\ L!ResetEndsSessions /\ L!CounterTrue

LEMMA AccountsInit == L!Init => AccountsInv
<1> SUFFICES ASSUME L!Init PROVE AccountsInv
  OBVIOUS
<1>1. L!NoRow \in UserRows /\ lFailed \in Nat
  BY ServicesAssumption DEF L!Init, L!NoRow, UserRows, Locks
<1>2. /\ lLogin \in [Logins -> [pc : LoginPcs, row : UserRows]]
      /\ lReset \in [Resets -> [pc : ResetPcs, row : UserRows]]
  BY <1>1 DEF L!Init, LoginPcs, ResetPcs
<1>3. AccountTypes
  <2>1. lEvents \in 0..AccountEvents
    BY ServicesAssumption DEF L!Init
  <2>2. lFresh \in [Logins -> BOOLEAN] /\ lPresent \in BOOLEAN /\ lEnabled \in BOOLEAN
        /\ lCrashed \in BOOLEAN /\ lCrossed \in BOOLEAN
    BY DEF L!Init
  <2>3. /\ lSess \in [Logins -> {"none", "active", "ended", "gone"}]
        /\ lRequest \in [Logins -> {"none", "valid", "logout"}]
        /\ lOutdated \subseteq Logins /\ lLock \in Locks /\ lWrong \in Nat
    BY <1>1 DEF L!Init, Locks
  <2> QED BY <1>1, <1>2, <2>1, <2>2, <2>3 DEF AccountTypes
<1>4. LoginsSound /\ OutdatedOpened /\ L!ResetEndsSessions /\ L!CounterTrue
  BY DEF L!Init, LoginsSound, OutdatedOpened, L!ResetEndsSessions, L!CounterTrue
<1> QED BY <1>3, <1>4 DEF AccountsInv

\* A login, or a handler, that only goes on.
LEMMA LoginMoves ==
    ASSUME AccountTypes, NEW r \in Logins, NEW p \in LoginPcs, lLogin' = [lLogin EXCEPT ![r].pc = p]
    PROVE  /\ lLogin' \in [Logins -> [pc : LoginPcs, row : UserRows]]
           /\ lLogin'[r].pc = p
           /\ \A q \in Logins : lLogin'[q].row = lLogin[q].row /\ (q # r => lLogin'[q] = lLogin[q])
<1>1. lLogin \in [Logins -> [pc : LoginPcs, row : UserRows]]
  BY DEF AccountTypes
<1> QED BY <1>1

LEMMA ResetMoves ==
    ASSUME AccountTypes, NEW h \in Resets, NEW p \in ResetPcs, L!ResetGoes(h, p)
    PROVE  /\ lReset' \in [Resets -> [pc : ResetPcs, row : UserRows]]
           /\ lReset'[h].pc = p
           /\ \A g \in Resets : g # h => lReset'[g] = lReset[g]
<1>1. lReset \in [Resets -> [pc : ResetPcs, row : UserRows]]
  BY DEF AccountTypes
<1> QED BY <1>1 DEF L!ResetGoes

LEMMA LoginGoesInv ==
    ASSUME AccountsInv, NEW r \in Logins,
           L!RefuseAddress(r) \/ L!WrongPassword(r) \/ L!RefuseCorrect(r)
    PROVE  AccountsInv'
<1>1. PICK p \in {"wrong", "done"} : L!LoginGoes(r, p) /\ (p = "done" \/ lLogin[r].pc = "loaded")
  BY DEF L!RefuseAddress, L!WrongPassword, L!RefuseCorrect
<1>2. /\ lLogin' \in [Logins -> [pc : LoginPcs, row : UserRows]] /\ lLogin'[r].pc = p
      /\ \A q \in Logins : lLogin'[q].row = lLogin[q].row /\ (q # r => lLogin'[q] = lLogin[q])
  BY <1>1, LoginMoves DEF AccountsInv, L!LoginGoes, LoginPcs
<1>3. UNCHANGED <<lPresent, lEnabled, lFailed, lLock, lSess, lFresh, lRequest, lReset, lOutdated, lCrashed,
                  lWrong, lCrossed, lEvents>>
  BY DEF L!RefuseAddress, L!WrongPassword, L!RefuseCorrect, L!accountVars, L!history
<1> QED BY <1>1, <1>2, <1>3 DEF AccountsInv, AccountTypes, LoginsSound, OutdatedOpened,
                                L!ResetEndsSessions, L!CounterTrue

LEMMA LoadInv ==
    ASSUME AccountsInv, NEW r \in Logins, L!LoadUser(r) \/ L!ReadCounter(r)
    PROVE  AccountsInv'
<1>1. L!Row \in UserRows /\ L!NoRow \in UserRows /\ L!Row.lock = lLock /\ L!Row.failed = lFailed
  BY DEF L!Row, L!NoRow, UserRows, Locks, AccountsInv, AccountTypes
<1>2. \/ lLogin' = [lLogin EXCEPT ![r] = [pc |-> "done", row |-> L!NoRow]]
      \/ lLogin' = [lLogin EXCEPT ![r] = [pc |-> "loaded", row |-> L!Row]] /\ lLogin[r].pc = "new" /\ lLock # "locked"
      \/ lLogin' = [lLogin EXCEPT ![r] = [pc |-> "counting", row |-> L!Row]] /\ lLogin[r].pc = "wrong"
  BY DEF L!LoadUser, L!ReadCounter
<1>3. UNCHANGED <<lPresent, lEnabled, lFailed, lLock, lSess, lFresh, lRequest, lReset, lOutdated, lCrashed,
                  lWrong, lCrossed, lEvents>>
  BY DEF L!LoadUser, L!ReadCounter, L!accountVars, L!history
<1>4. AccountTypes'
  <2>1. lLogin' \in [Logins -> [pc : LoginPcs, row : UserRows]]
    BY <1>1, <1>2 DEF AccountsInv, AccountTypes, LoginPcs
  <2> QED BY <1>3, <2>1 DEF AccountsInv, AccountTypes
<1>5. LoginsSound'
  BY <1>1, <1>2, <1>3 DEF AccountsInv, AccountTypes, LoginsSound
<1> QED BY <1>3, <1>4, <1>5 DEF AccountsInv, OutdatedOpened, L!ResetEndsSessions, L!CounterTrue

LEMMA IncrementInv ==
    ASSUME AccountsInv, NEW r \in Logins, L!IncrementFailed(r)
    PROVE  AccountsInv'
<1> DEFINE n == lLogin[r].row.failed + 1
<1>1. lLogin[r] \in [pc : LoginPcs, row : UserRows] /\ n \in Nat /\ lLogin[r].pc = "counting"
  BY DEF AccountsInv, AccountTypes, UserRows, L!IncrementFailed, L!Counting
<1>2. /\ lLogin' \in [Logins -> [pc : LoginPcs, row : UserRows]] /\ lLogin'[r].pc = "done"
      /\ \A q \in Logins : lLogin'[q].row = lLogin[q].row /\ (q # r => lLogin'[q] = lLogin[q])
  BY LoginMoves DEF L!IncrementFailed, L!LoginGoes, AccountsInv, LoginPcs
<1>3. UNCHANGED <<lPresent, lEnabled, lSess, lFresh, lRequest, lReset, lOutdated, lCrashed, lEvents>>
  BY DEF L!IncrementFailed
<1>4. CASE lPresent
  <2>1. /\ lFailed' = n /\ lWrong' = lWrong + 1 /\ lLock' \in {lLock, "locked"}
        /\ lCrossed' = (lCrossed \/ \E q \in Logins \ {r} : lLogin[q].pc = "counting")
    BY <1>4 DEF L!IncrementFailed, L!CounterWritten, L!Counting
  <2> HIDE DEF n
  <2>2. lCrossed \/ n = lWrong + 1
    BY <1>1 DEF AccountsInv, LoginsSound, L!CounterTrue, n
  <2>3. AccountTypes'
    BY <1>1, <1>2, <1>3, <2>1 DEF AccountsInv, AccountTypes, Locks
  <2>4. LoginsSound'
    BY <1>2, <1>3, <2>1 DEF AccountsInv, LoginsSound
  <2>5. L!CounterTrue'
    BY <2>1, <2>2 DEF L!CounterTrue
  <2> QED BY <1>3, <2>3, <2>4, <2>5 DEF AccountsInv, OutdatedOpened, L!ResetEndsSessions
<1>5. CASE ~lPresent
  <2>1. UNCHANGED <<lFailed, lLock, lWrong, lCrossed>>
    BY <1>5 DEF L!IncrementFailed
  <2> QED BY <1>1, <1>2, <1>3, <2>1
          DEF AccountsInv, AccountTypes, LoginsSound, OutdatedOpened, L!ResetEndsSessions, L!CounterTrue
<1> QED BY <1>4, <1>5

\* What clearing the counter does, by a handler that had loaded the row.
LEMMA ClearFacts ==
    ASSUME AccountsInv, NEW row \in UserRows, NEW others \in SUBSET Logins, L!Clear(row, others)
    PROVE  /\ lFailed' \in Nat /\ lLock' \in Locks /\ lWrong' \in Nat /\ lCrossed' \in BOOLEAN
           /\ lCrossed => lCrossed'
           /\ lCrossed' \/ lFailed' = lWrong'
           /\ \A q \in others : lLogin[q].pc = "counting" => lCrossed' \/ lLogin[q].row.failed = lFailed'
<1>1. /\ row.failed \in Nat /\ lFailed \in Nat /\ lLock \in Locks /\ lWrong \in Nat /\ lCrossed \in BOOLEAN
      /\ "none" \in Locks
  BY DEF UserRows, Locks, AccountsInv, AccountTypes
<1>2. lLock' \in Locks
  BY <1>1 DEF L!Clear
<1>3. CASE row.failed = 0
  BY <1>1, <1>2, <1>3 DEF L!Clear, AccountsInv, LoginsSound, L!CounterTrue
<1>4. CASE row.failed # 0
  <2>1. /\ lFailed' = 0 /\ lWrong' = 0
        /\ lCrossed' = (lCrossed \/ \E r \in others : lLogin[r].pc = "counting")
    BY <1>4 DEF L!Clear, L!CounterWritten, L!Counting
  <2> QED BY <1>1, <1>2, <2>1
<1> QED BY <1>3, <1>4

LEMMA ResetFailedInv ==
    ASSUME AccountsInv, NEW r \in Logins, L!ResetFailed(r)
    PROVE  AccountsInv'
<1>1. lLogin[r] \in [pc : LoginPcs, row : UserRows] /\ lLogin[r].pc = "loaded"
  BY DEF AccountsInv, AccountTypes, L!ResetFailed
<1>2. PICK p \in {"session", "done"} : lLogin' = [lLogin EXCEPT ![r].pc = p]
  BY DEF L!ResetFailed, L!LoginGoes
<1>3. /\ lLogin' \in [Logins -> [pc : LoginPcs, row : UserRows]] /\ lLogin'[r].pc \in {"session", "done"}
      /\ \A q \in Logins : lLogin'[q].row = lLogin[q].row /\ (q # r => lLogin'[q] = lLogin[q])
  BY <1>2, LoginMoves DEF AccountsInv, LoginPcs
<1>4. UNCHANGED <<lPresent, lEnabled, lSess, lFresh, lRequest, lReset, lOutdated, lCrashed, lEvents>>
  BY DEF L!ResetFailed
<1>5. L!Clear(lLogin[r].row, Logins \ {r}) \/ UNCHANGED <<lFailed, lLock, lWrong, lCrossed>>
  BY DEF L!ResetFailed
<1>6. /\ lFailed' \in Nat /\ lLock' \in Locks /\ lWrong' \in Nat /\ lCrossed' \in BOOLEAN
      /\ lCrossed' \/ lFailed' = lWrong'
      /\ \A q \in Logins \ {r} : lLogin[q].pc = "counting" => lCrossed' \/ lLogin[q].row.failed = lFailed'
  <2>1. CASE L!Clear(lLogin[r].row, Logins \ {r})
    BY <1>1, <2>1, ClearFacts
  <2>2. CASE UNCHANGED <<lFailed, lLock, lWrong, lCrossed>>
    BY <2>2 DEF AccountsInv, AccountTypes, LoginsSound, L!CounterTrue
  <2> QED BY <1>5, <2>1, <2>2
<1> QED BY <1>1, <1>3, <1>4, <1>6
        DEF AccountsInv, AccountTypes, LoginsSound, OutdatedOpened, L!ResetEndsSessions, L!CounterTrue

LEMMA OpenInv ==
    ASSUME AccountsInv, NEW r \in Logins, L!CreateSession(r) \/ L!Impersonate(r)
    PROVE  AccountsInv'
<1>1. lLogin[r].pc \in {"new", "session"} /\ \E p \in {"done", "impersonated"} : lLogin' = [lLogin EXCEPT ![r].pc = p]
  BY DEF L!CreateSession, L!Impersonate, L!Open, L!LoginGoes
<1>2. /\ lLogin' \in [Logins -> [pc : LoginPcs, row : UserRows]] /\ lLogin'[r].pc \in {"done", "impersonated"}
      /\ \A q \in Logins : lLogin'[q].row = lLogin[q].row /\ (q # r => lLogin'[q] = lLogin[q])
  BY <1>1, LoginMoves DEF AccountsInv, LoginPcs
<1>3. /\ \/ lSess' = [lSess EXCEPT ![r] = "active"] /\ lFresh' = [lFresh EXCEPT ![r] = TRUE]
         \/ UNCHANGED <<lSess, lFresh>>
      /\ UNCHANGED <<lPresent, lEnabled, lFailed, lLock, lRequest, lReset, lOutdated, lCrashed, lWrong, lCrossed>>
      /\ lEvents' \in 0..AccountEvents
  BY ServicesAssumption
  DEF L!CreateSession, L!Impersonate, L!Open, L!Counted, L!accountVars, L!history, AccountsInv, AccountTypes
<1>4. lSess[r] = "none" /\ r \notin lOutdated
  BY <1>1 DEF AccountsInv, LoginsSound, OutdatedOpened
<1>5. /\ lSess' \in [Logins -> {"none", "active", "ended", "gone"}] /\ lFresh' \in [Logins -> BOOLEAN]
      /\ \A q \in Logins \ {r} : lSess'[q] = lSess[q]
  BY <1>3 DEF AccountsInv, AccountTypes
<1>6. AccountTypes'
  BY <1>2, <1>3, <1>5 DEF AccountsInv, AccountTypes
<1>7. LoginsSound'
  BY <1>2, <1>3, <1>5 DEF AccountsInv, LoginsSound
<1>8. OutdatedOpened' /\ L!ResetEndsSessions'
  BY <1>3, <1>4, <1>5 DEF AccountsInv, AccountTypes, OutdatedOpened, L!ResetEndsSessions
<1>9. L!CounterTrue'
  BY <1>3 DEF AccountsInv, L!CounterTrue
<1> QED BY <1>6, <1>7, <1>8, <1>9 DEF AccountsInv

\* Sessions that end, or lose their rows.
LEMMA EndingKeeps ==
    ASSUME AccountsInv, UNCHANGED <<lLogin, lFailed, lWrong, lCrossed, lOutdated>>,
           lSess' \in [Logins -> {"none", "active", "ended", "gone"}],
           \A r \in Logins : /\ lSess[r] = "none" <=> lSess'[r] = "none"
                             /\ lSess'[r] = "active" => lSess[r] = "active"
    PROVE  LoginsSound' /\ OutdatedOpened' /\ L!CounterTrue'
  BY DEF AccountsInv, AccountTypes, LoginsSound, OutdatedOpened, L!CounterTrue

LEMMA SessionInv ==
    ASSUME AccountsInv, NEW r \in Logins, L!SessionStep(r)
    PROVE  AccountsInv'
<1>1. /\ UNCHANGED <<lPresent, lEnabled, lFailed, lLock, lLogin, lReset, lOutdated, lCrashed, lWrong, lCrossed, lEvents>>
      /\ lSess' = lSess \/ L!EndSessions({r})
  BY DEF L!SessionStep, L!ValidateLoad, L!ValidateExtend, L!TerminateSession, L!SessionExpires,
         L!accountVars, L!history
<1>2. lFresh' \in [Logins -> BOOLEAN] /\ lRequest' \in [Logins -> {"none", "valid", "logout"}]
  BY DEF L!SessionStep, L!ValidateLoad, L!ValidateExtend, L!TerminateSession, L!SessionExpires,
         AccountsInv, AccountTypes
<1>3. /\ lSess' \in [Logins -> {"none", "active", "ended", "gone"}]
      /\ \A q \in Logins : /\ lSess[q] = "none" <=> lSess'[q] = "none"
                           /\ lSess'[q] = "active" => lSess[q] = "active"
  BY <1>1 DEF L!EndSessions, AccountsInv, AccountTypes
<1>4. LoginsSound' /\ OutdatedOpened' /\ L!CounterTrue'
  BY <1>1, <1>3, EndingKeeps
<1> QED BY <1>1, <1>2, <1>3, <1>4 DEF AccountsInv, AccountTypes, L!ResetEndsSessions

LEMMA ResetInv ==
    ASSUME AccountsInv, NEW h \in Resets, L!ResetStep(h)
    PROVE  AccountsInv'
<1>0. AccountTypes /\ lReset[h] \in [pc : ResetPcs, row : UserRows]
  BY DEF AccountsInv, AccountTypes
<1>1. CASE L!StartReset(h) \/ L!StartDelete(h)
  <2>1. L!Row \in UserRows /\ L!NoRow \in UserRows
    BY <1>0 DEF L!Row, L!NoRow, UserRows, Locks, AccountTypes
  <2>2. /\ lReset[h].pc = "idle"
        /\ \/ lReset' = [lReset EXCEPT ![h] = [pc |-> "save", row |-> L!Row]]
           \/ lReset' = [lReset EXCEPT ![h] = [pc |-> "erase", row |-> L!NoRow]]
        /\ UNCHANGED <<lPresent, lEnabled, lFailed, lLock, lLogin, lSess, lFresh, lRequest, lOutdated, lCrashed,
                       lWrong, lCrossed>>
        /\ lEvents' \in 0..AccountEvents
    BY <1>0, <1>1, ServicesAssumption
    DEF L!StartReset, L!StartDelete, L!Counted, L!accountVars, L!history, AccountTypes
  <2> QED BY <1>0, <2>1, <2>2 DEF AccountsInv, AccountTypes, ResetPcs, LoginsSound, OutdatedOpened,
                            L!ResetEndsSessions, L!CounterTrue
<1>2. CASE L!SavePassword(h)
  <2>1. /\ lReset[h].pc = "save" /\ L!ResetGoes(h, IF lPresent THEN "terminate" ELSE "idle")
        /\ UNCHANGED <<lPresent, lEnabled, lLogin, lSess, lFresh, lRequest, lCrashed, lEvents>>
    BY <1>2 DEF L!SavePassword
  <2>2. /\ lReset' \in [Resets -> [pc : ResetPcs, row : UserRows]]
        /\ lPresent => lReset'[h].pc = "terminate"
        /\ \A g \in Resets : g # h => lReset'[g] = lReset[g]
    BY <1>0, <2>1, ResetMoves DEF ResetPcs
  <2>3. CASE lPresent
    <3>1. /\ L!Clear(lReset[h].row, Logins)
          /\ lOutdated' = lOutdated \union {r \in Logins : lSess[r] = "active"}
      BY <1>2, <2>3 DEF L!SavePassword
    <3>2. /\ lFailed' \in Nat /\ lLock' \in Locks /\ lWrong' \in Nat /\ lCrossed' \in BOOLEAN
          /\ lCrossed' \/ lFailed' = lWrong'
          /\ \A q \in Logins : lLogin[q].pc = "counting" => lCrossed' \/ lLogin[q].row.failed = lFailed'
      BY <1>0, <3>1, ClearFacts
    <3> QED BY <2>1, <2>2, <2>3, <3>1, <3>2
            DEF AccountsInv, AccountTypes, LoginsSound, OutdatedOpened, L!ResetEndsSessions, L!CounterTrue
  <2>4. CASE ~lPresent
    <3>1. UNCHANGED <<lFailed, lLock, lWrong, lCrossed, lOutdated>>
      BY <1>2, <2>4 DEF L!SavePassword
    <3> QED BY <2>1, <2>2, <3>1
            DEF AccountsInv, AccountTypes, LoginsSound, OutdatedOpened, L!ResetEndsSessions, L!CounterTrue
  <2> QED BY <2>3, <2>4
<1>3. CASE L!TerminateAll(h)
  <2>1. /\ L!ResetGoes(h, IF lReset[h].pc = "erase" THEN "delete" ELSE "idle")
        /\ UNCHANGED <<lPresent, lEnabled, lFailed, lLock, lLogin, lFresh, lRequest, lOutdated, lCrashed, lWrong,
                       lCrossed, lEvents>>
        /\ lSess' = [r \in Logins |-> IF lSess[r] = "active" THEN "ended" ELSE lSess[r]]
    BY <1>3 DEF L!TerminateAll, L!EndSessions, L!accountVars, L!history
  <2>2. lReset' \in [Resets -> [pc : ResetPcs, row : UserRows]]
    BY <1>0, <2>1, ResetMoves DEF ResetPcs
  <2>3. /\ lSess' \in [Logins -> {"none", "active", "ended", "gone"}]
        /\ \A q \in Logins : (lSess[q] = "none" <=> lSess'[q] = "none") /\ lSess'[q] # "active"
    BY <1>0, <2>1 DEF AccountTypes
  <2>4. LoginsSound' /\ OutdatedOpened' /\ L!CounterTrue'
    BY <2>1, <2>3, EndingKeeps
  <2> QED BY <1>0, <2>1, <2>2, <2>3, <2>4 DEF AccountsInv, AccountTypes, L!ResetEndsSessions
<1>4. CASE L!DeleteUser(h)
  <2>1. /\ L!ResetGoes(h, "idle") /\ lPresent' = FALSE
        /\ UNCHANGED <<lEnabled, lFailed, lLock, lLogin, lFresh, lRequest, lOutdated, lCrashed, lWrong,
                       lCrossed, lEvents>>
        /\ lSess' = [r \in Logins |-> IF lSess[r] = "none" THEN "none" ELSE "gone"]
    BY <1>4 DEF L!DeleteUser, L!history
  <2>2. lReset' \in [Resets -> [pc : ResetPcs, row : UserRows]]
    BY <1>0, <2>1, ResetMoves DEF ResetPcs
  <2>3. /\ lSess' \in [Logins -> {"none", "active", "ended", "gone"}]
        /\ \A q \in Logins : (lSess[q] = "none" <=> lSess'[q] = "none") /\ lSess'[q] # "active"
    BY <1>0, <2>1 DEF AccountTypes
  <2>4. LoginsSound' /\ OutdatedOpened' /\ L!CounterTrue'
    BY <2>1, <2>3, EndingKeeps
  <2> QED BY <1>0, <2>1, <2>2, <2>3, <2>4 DEF AccountsInv, AccountTypes, L!ResetEndsSessions
<1> QED BY <1>1, <1>2, <1>3, <1>4 DEF L!ResetStep

LEMMA AdministratorInv ==
    ASSUME AccountsInv,
           \/ \E on \in BOOLEAN : L!SetEnabled(on)
           \/ \E S \in {Logins} \union {{r} : r \in Logins} : L!AdminTerminates(S, S # Logins)
           \/ L!UnlockUser \/ L!LockExpires \/ L!Crash
    PROVE  AccountsInv'
<1>0. AccountTypes
  BY DEF AccountsInv
<1>1. CASE \/ \E on \in BOOLEAN : L!SetEnabled(on)
           \/ \E S \in {Logins} \union {{r} : r \in Logins} : L!AdminTerminates(S, S # Logins)
  <2>1. /\ UNCHANGED <<lPresent, lFailed, lLock, lLogin, lFresh, lRequest, lReset, lOutdated, lCrashed, lWrong,
                       lCrossed>>
        /\ lEvents' \in 0..AccountEvents /\ lEnabled' \in BOOLEAN
        /\ \/ lSess' = lSess \/ \E S : L!EndSessions(S)
           \/ \E S : lSess' = [r \in Logins |-> IF r \in S /\ lSess[r] # "none" THEN "gone" ELSE lSess[r]]
    <3>1. CASE \E on \in BOOLEAN : L!SetEnabled(on)
      BY <1>0, <3>1, ServicesAssumption DEF L!SetEnabled, L!Counted, L!accountVars, L!history, AccountTypes
    <3>2. ASSUME NEW S, L!AdminTerminates(S, S # Logins)
          PROVE  /\ UNCHANGED <<lPresent, lEnabled, lFailed, lLock, lLogin, lFresh, lRequest, lReset, lOutdated,
                                 lCrashed, lWrong, lCrossed>>
                 /\ lEvents' \in 0..AccountEvents
                 /\ \/ L!EndSessions(S)
                    \/ lSess' = [r \in Logins |-> IF r \in S /\ lSess[r] # "none" THEN "gone" ELSE lSess[r]]
      BY <1>0, <3>2, ServicesAssumption DEF L!AdminTerminates, L!Counted, L!accountVars, L!history, AccountTypes
    <3>3. lEnabled \in BOOLEAN
      BY <1>0 DEF AccountTypes
    <3> QED BY <1>1, <3>1, <3>2, <3>3
  <2>2. /\ lSess' \in [Logins -> {"none", "active", "ended", "gone"}]
        /\ \A q \in Logins : /\ lSess[q] = "none" <=> lSess'[q] = "none"
                             /\ lSess'[q] = "active" => lSess[q] = "active"
    BY <1>0, <2>1 DEF L!EndSessions, AccountTypes
  <2>3. LoginsSound' /\ OutdatedOpened' /\ L!CounterTrue'
    BY <2>1, <2>2, EndingKeeps
  <2> QED BY <2>1, <2>2, <2>3 DEF AccountsInv, AccountTypes, L!ResetEndsSessions
<1>3. CASE L!UnlockUser
  <2>1. L!Row \in UserRows
    BY <1>0 DEF L!Row, UserRows, AccountTypes
  <2>2. /\ lFailed' \in Nat /\ lLock' \in Locks /\ lWrong' \in Nat /\ lCrossed' \in BOOLEAN
        /\ lCrossed' \/ lFailed' = lWrong'
        /\ \A q \in Logins : lLogin[q].pc = "counting" => lCrossed' \/ lLogin[q].row.failed = lFailed'
    BY <1>3, <2>1, ClearFacts DEF L!UnlockUser
  <2> QED BY <1>3, <2>2, ServicesAssumption
          DEF L!UnlockUser, L!Counted, AccountsInv, AccountTypes, LoginsSound, OutdatedOpened,
              L!ResetEndsSessions, L!CounterTrue
<1>4. CASE L!LockExpires
  BY <1>4 DEF L!LockExpires, L!history, AccountsInv, AccountTypes, Locks, LoginsSound, OutdatedOpened,
              L!ResetEndsSessions, L!CounterTrue
<1>5. CASE L!Crash
  <2>1. /\ UNCHANGED <<lPresent, lEnabled, lFailed, lLock, lSess, lFresh, lOutdated, lWrong, lCrossed>>
        /\ lEvents' \in 0..AccountEvents /\ lRequest' = [r \in Logins |-> "none"]
        /\ lCrashed' = (lCrashed \/ \E h \in Resets : lReset[h].pc = "terminate")
    BY <1>0, <1>5, ServicesAssumption DEF L!Crash, L!Counted, L!accountVars, AccountTypes
  <2>2. lReset' \in [Resets -> [pc : ResetPcs, row : UserRows]]
    <3>1. L!NoRow \in UserRows
      BY DEF L!NoRow, UserRows, Locks
    <3> QED BY <1>5, <3>1 DEF L!Crash, ResetPcs
  <2>3. \A r \in Logins : lLogin'[r] = lLogin[r] \/ lLogin'[r].pc = "done"
    BY <1>0, <1>5 DEF L!Crash, AccountTypes
  <2>4. lLogin' \in [Logins -> [pc : LoginPcs, row : UserRows]]
    BY <1>0, <1>5 DEF L!Crash, AccountTypes, LoginPcs
  <2> QED BY <2>1, <2>2, <2>3, <2>4 DEF AccountsInv, AccountTypes, LoginsSound, OutdatedOpened,
                                        L!ResetEndsSessions, L!CounterTrue
<1> QED BY <1>1, <1>3, <1>4, <1>5

LEMMA AccountsStep ==
    ASSUME AccountsInv, [Next]_vars
    PROVE  AccountsInv'
<1>1. CASE UNCHANGED accountsVars
  BY <1>1 DEF accountsVars, AccountsInv, AccountTypes, LoginsSound, OutdatedOpened, L!ResetEndsSessions,
              L!CounterTrue
<1>2. CASE L!Next
  BY <1>2, LoginGoesInv, LoadInv, IncrementInv, ResetFailedInv, OpenInv, SessionInv, ResetInv, AdministratorInv
  DEF L!Next, L!LoginStep
<1> QED BY <1>1, <1>2 DEF Next, vars, AppStep, DeploymentStep, MoveStep, BackupJobStep, SocketStep,
                          AccountStep, MonitorStep

\* Once reset_password or reset_user_password is through, no session from
\* before it is active, unless a crash came between its two commits; and
\* failed_login_attempts is the number of wrong answers since it was cleared,
\* unless two handlers wrote it at once.
THEOREM AccountsHold == Spec => []AccountsTrue
<1>1. Init => AccountsInv
  BY AccountsInit DEF Init
<1>2. AccountsInv /\ [Next]_vars => AccountsInv'
  BY AccountsStep
<1>3. AccountsInv => AccountsTrue
  BY DEF AccountsInv, AccountsTrue
<1> QED BY <1>1, <1>2, <1>3, PTL DEF Spec

\* A session whose row says ended, or whose row is gone, is not active again
\* by any write of a request that found it valid (validate_session, logout);
\* and a lock in force is taken away only by an administrator, a password
\* reset, or a login that had loaded an earlier lock that was over.
THEOREM SessionsEndHolds == Spec => SessionsEnd
<1> DEFINE Ended == \A r \in Logins : lSess[r] \in {"ended", "gone"} => lSess'[r] \in {"ended", "gone"}
           Lifted == lLock = "locked" /\ lLock' = "none" =>
                        \A r \in Logins : lLogin'[r] = lLogin[r] \/ lLogin[r].row.lock = "expired"
<1>1. Init => AccountsInv
  BY AccountsInit DEF Init
<1>2. AccountsInv /\ [Next]_vars => AccountsInv'
  BY AccountsStep
<1>3. AccountsInv /\ [Next]_vars => [Ended]_(L!vars) /\ [Lifted]_(L!vars)
  <2> SUFFICES ASSUME AccountsInv, L!Next PROVE Ended /\ Lifted
    BY DEF Next, vars, AppStep, DeploymentStep, MoveStep, BackupJobStep, SocketStep, AccountStep,
           MonitorStep, accountsVars, L!vars, L!history
  <2>1. ASSUME NEW r \in Logins, L!LoginStep(r) PROVE Ended /\ Lifted
    <3>1. AccountTypes
      BY DEF AccountsInv
    <3>2. Ended
      <4>1. lSess' = lSess \/ (lSess[r] = "none" /\ lSess' = [lSess EXCEPT ![r] = "active"])
        BY <2>1 DEF L!LoginStep, L!RefuseAddress, L!LoadUser, L!WrongPassword, L!ReadCounter,
             L!IncrementFailed, L!RefuseCorrect, L!ResetFailed, L!CreateSession, L!Impersonate, L!Open,
             AccountsInv, LoginsSound
      <4> QED BY <3>1, <4>1 DEF AccountTypes
    <3>3. Lifted
      <4>1. CASE L!ResetFailed(r)
        <5>1. /\ \A q \in Logins : q # r => lLogin'[q] = lLogin[q]
              /\ lLogin[r].pc = "loaded" /\ lLogin[r].row.lock \in Locks
              /\ lLock = "locked" /\ lLock' = "none" => lLogin[r].row.lock # "none"
          BY <3>1, <4>1 DEF L!ResetFailed, L!LoginGoes, L!Clear, AccountTypes, UserRows
        <5> QED BY <5>1 DEF AccountsInv, LoginsSound, Locks
      <4>2. CASE lLock' \in {lLock, "locked"}
        BY <4>2
      <4> QED BY <2>1, <4>1, <4>2 DEF L!LoginStep, L!RefuseAddress, L!LoadUser, L!WrongPassword, L!ReadCounter,
             L!IncrementFailed, L!RefuseCorrect, L!CreateSession, L!Impersonate, L!accountVars
    <3> QED BY <3>2, <3>3
  <2>2. ASSUME NEW r \in Logins, L!SessionStep(r) PROVE Ended /\ Lifted
    BY <2>2 DEF L!SessionStep, L!ValidateLoad, L!ValidateExtend, L!TerminateSession, L!SessionExpires,
                L!EndSessions, L!accountVars
  <2>3. ASSUME NEW h \in Resets, L!ResetStep(h) PROVE Ended /\ Lifted
    BY <2>3 DEF L!ResetStep, L!StartReset, L!SavePassword, L!TerminateAll, L!StartDelete, L!DeleteUser,
                L!EndSessions, L!accountVars
  <2>4. CASE \/ \E on \in BOOLEAN : L!SetEnabled(on)
             \/ \E S \in {Logins} \union {{r} : r \in Logins} : L!AdminTerminates(S, S # Logins)
             \/ L!UnlockUser \/ L!LockExpires \/ L!Crash
    BY <2>4 DEF L!SetEnabled, L!AdminTerminates, L!UnlockUser, L!LockExpires, L!Crash, L!EndSessions,
                L!accountVars
  <2> QED BY <2>1, <2>2, <2>3, <2>4 DEF L!Next
<1> QED BY <1>1, <1>2, <1>3, PTL DEF Spec, SessionsEnd, L!EndedStaysEnded, L!LockLifted

-----------------------------------------------------------------------------
(* Backup jobs.                                                            *)
JobRows == [there : BOOLEAN, enabled : BOOLEAN, valid : BOOLEAN, status : B!Statuses]
RequestRecords ==
    [pc : {"new", "register", "body", "reschedule", "flip", "reload", "apply", "erase", "done"},
     job : Jobs \union {"-"}, read : BOOLEAN]
RunRecords ==
    [pc : {"idle", "load", "mark", "reload", "end"}, job : Jobs \union {"-"}, cron : BOOLEAN,
     loaded : B!Statuses]

BackupTypes ==
    /\ bRow \in [Jobs -> JobRows] /\ bSched \subseteq Jobs
    /\ \A j \in Jobs : bRow[j].there \/ bRow[j].status = "none"
    /\ bReq \in [Requests -> RequestRecords] /\ bRun \in [Runs -> RunRecords]
    /\ \A r \in Requests : bReq[r].pc \notin {"new", "done"} => bReq[r].job \in Jobs
    /\ \A n \in Runs : bRun[n].pc # "idle" => bRun[n].job \in Jobs
    /\ bContested \subseteq Jobs /\ bStuck \subseteq Jobs /\ bEvents \in 0..MaxEvents

Open(q) == q.pc \notin {"new", "done"}
Follows(row, j, known) == j \in known <=> row.there /\ row.enabled /\ row.valid

\* What holds of a job while the only request on it is under way.
PhaseSound(q, row, known) ==
    /\ row.there
    /\ q.pc \in {"register", "erase"} => q.job \notin known
    /\ q.pc \in {"body", "flip"} => Follows(row, q.job, known)
    /\ q.pc \in {"body", "flip", "reschedule", "apply"} => q.read = row.enabled
    /\ q.pc \in {"reload", "apply"} => (q.job \in known => row.valid)

RequestsSound ==
    \A r \in Requests : Open(bReq[r]) /\ bReq[r].job \notin bContested =>
        PhaseSound(bReq[r], bRow[bReq[r].job], bSched)

\* Requests on a job that is not contested come one after the other.
Alone ==
    \A r, s \in Requests :
        Open(bReq[r]) /\ Open(bReq[s]) /\ bReq[r].job = bReq[s].job /\ bReq[r].job \notin bContested => r = s

\* A status that says running is one that a run will overwrite.
RunsSound ==
    \A j \in Jobs \ bStuck : bRow[j].status = "running" =>
        \E n \in Runs : /\ bRun[n].job = j
                        /\ bRun[n].pc = "reload" \/ (bRun[n].pc = "end" /\ bRun[n].loaded = "running")

BackupsInv == BackupTypes /\ RequestsSound /\ Alone /\ B!ScheduleFollows /\ RunsSound

LEMMA BackupsInit == B!Init => BackupsInv
<1> SUFFICES ASSUME B!Init PROVE BackupsInv
  OBVIOUS
<1>1. B!NoRow \in JobRows /\ B!NoReq \in RequestRecords /\ B!NoRun \in RunRecords
      /\ ~Open(B!NoReq) /\ B!NoRun.pc = "idle" /\ B!NoRow.status = "none"
  BY DEF B!NoRow, B!NoReq, B!NoRun, JobRows, RequestRecords, RunRecords, B!Statuses, Open
<1>2. bRow \in [Jobs -> JobRows] /\ \A j \in Jobs : bRow[j].status \in {"none", "success"}
  BY <1>1 DEF B!Init, JobRows, B!Statuses
<1>6. \A j \in Jobs : bRow[j].there \/ bRow[j].status = "none"
  BY <1>1 DEF B!Init
<1>3. BackupTypes
  BY <1>1, <1>2, <1>6, ServicesAssumption DEF B!Init, BackupTypes, Open
<1>4. RequestsSound /\ Alone /\ B!ScheduleFollows
  BY <1>1 DEF B!Init, RequestsSound, Alone, B!ScheduleFollows
<1>5. RunsSound
  BY <1>2 DEF RunsSound
<1> QED BY <1>3, <1>4, <1>5 DEF BackupsInv

\* A step of request r on job j, after which the request is q.
LEMMA RequestKeeps ==
    ASSUME BackupsInv, NEW r \in Requests, NEW j \in Jobs, NEW q \in RequestRecords,
           q.job = j, bReq' = [bReq EXCEPT ![r] = q],
           bReq[r].pc # "done", bReq[r].pc = "new" \/ bReq[r].job = j,
           bReq[r].pc = "new" => j \in bContested' \/ B!Open(j) = {},
           bRow' \in [Jobs -> JobRows], bSched' \subseteq Jobs,
           bContested \subseteq bContested', bContested' \subseteq Jobs,
           UNCHANGED <<bRun, bStuck>>, bEvents' \in 0..MaxEvents,
           \A k \in Jobs : k # j => bRow'[k] = bRow[k] /\ (k \in bSched' <=> k \in bSched),
           bRow'[j].status = "running" => bRow[j].status = "running",
           bRow'[j].there \/ bRow'[j].status = "none",
           j \notin bContested' => IF Open(q) THEN PhaseSound(q, bRow'[j], bSched')
                                   ELSE Follows(bRow'[j], j, bSched')
    PROVE  BackupsInv'
<1>1. bReq' \in [Requests -> RequestRecords] /\ bReq'[r] = q /\ \A s \in Requests : s # r => bReq'[s] = bReq[s]
  BY DEF BackupsInv, BackupTypes
<1>2. BackupTypes'
  BY <1>1 DEF BackupsInv, BackupTypes
\* Of a job that is still not contested no other request is under way.
<1>3. \A s \in Requests : s # r /\ Open(bReq[s]) /\ bReq[s].job = j => j \in bContested'
  <2> SUFFICES ASSUME NEW s \in Requests, s # r, Open(bReq[s]), bReq[s].job = j, j \notin bContested'
               PROVE  FALSE
    OBVIOUS
  <2>1. s \in B!Open(j)
    BY DEF B!Open, Open
  <2>2. bReq[r].pc # "new" /\ bReq[r].job = j
    BY <2>1
  <2> QED BY <2>2 DEF BackupsInv, Alone, Open
<1>4. RequestsSound'
  <2> SUFFICES ASSUME NEW s \in Requests, Open(bReq'[s]), bReq'[s].job \notin bContested'
               PROVE  PhaseSound(bReq'[s], bRow'[bReq'[s].job], bSched')
    BY DEF RequestsSound
  <2>1. CASE s = r
    BY <1>1, <2>1
  <2>2. CASE s # r
    <3>1. bReq'[s] = bReq[s] /\ bReq[s].job # j /\ bReq[s].job \in Jobs
      BY <1>1, <1>3, <2>2 DEF BackupsInv, BackupTypes, Open
    <3>2. PhaseSound(bReq[s], bRow[bReq[s].job], bSched)
      BY <3>1 DEF BackupsInv, RequestsSound
    <3> QED BY <3>1, <3>2 DEF PhaseSound, Follows
  <2> QED BY <2>1, <2>2
<1>5. Alone'
  BY <1>1, <1>3 DEF BackupsInv, Alone
<1>6. B!ScheduleFollows'
  <2> SUFFICES ASSUME NEW k \in Jobs, k \notin bContested', B!Open(k)' = {}
               PROVE  k \in bSched' <=> bRow'[k].there /\ bRow'[k].enabled /\ bRow'[k].valid
    BY DEF B!ScheduleFollows
  <2>1. CASE k = j
    <3>1. ~Open(q)
      BY <1>1, <2>1 DEF B!Open, Open
    <3> QED BY <2>1, <3>1 DEF Follows
  <2>2. CASE k # j
    <3>1. B!Open(k) = {}
      BY <1>1, <2>2 DEF B!Open
    <3> QED BY <2>2, <3>1 DEF BackupsInv, B!ScheduleFollows
  <2> QED BY <2>1, <2>2
<1>7. RunsSound'
  BY DEF BackupsInv, RunsSound
<1> QED BY <1>2, <1>4, <1>5, <1>6, <1>7 DEF BackupsInv

\* A step of a run: of the rows it touches no more than a status.
LEMMA RunKeeps ==
    ASSUME BackupsInv, UNCHANGED <<bSched, bContested>>,
           bReq' \in [Requests -> RequestRecords],
           \A r \in Requests : bReq'[r] = bReq[r] \/ ~(Open(bReq[r]) \/ Open(bReq'[r])),
           bRow' \in [Jobs -> JobRows],
           \A j \in Jobs : /\ bRow'[j].there = bRow[j].there /\ bRow'[j].enabled = bRow[j].enabled
                           /\ bRow'[j].valid = bRow[j].valid
                           /\ bRow'[j].there \/ bRow'[j].status = "none",
           bRun' \in [Runs -> RunRecords], \A n \in Runs : bRun'[n].pc # "idle" => bRun'[n].job \in Jobs,
           bStuck' \subseteq Jobs, bEvents' \in 0..MaxEvents, RunsSound'
    PROVE  BackupsInv'
<1>1. BackupTypes'
  BY DEF BackupsInv, BackupTypes, Open
<1>2. RequestsSound'
  BY DEF BackupsInv, BackupTypes, RequestsSound, PhaseSound, Follows, Open
<1>3. Alone'
  BY DEF BackupsInv, Alone
<1>4. B!ScheduleFollows'
  <2>1. \A j \in Jobs : B!Open(j)' = {} => B!Open(j) = {}
    BY DEF B!Open, Open
  <2> QED BY <2>1 DEF BackupsInv, B!ScheduleFollows
<1> QED BY <1>1, <1>2, <1>3, <1>4 DEF BackupsInv

\* The begin of a request on a job whose row may be there.
LEMMA BeginFacts ==
    ASSUME BackupsInv, NEW r \in Requests, NEW j \in Jobs, NEW pc, B!Begin(r, j, pc)
    PROVE  /\ bReq[r].pc = "new"
           /\ bReq' = [bReq EXCEPT ![r] = [pc |-> pc, job |-> j, read |-> bRow[j].enabled]]
           /\ j \in bContested' \/ B!Open(j) = {}
           /\ bContested \subseteq bContested' /\ bContested' \subseteq Jobs
           /\ j \notin bContested' => Follows(bRow[j], j, bSched)
  BY DEF B!Begin, BackupsInv, BackupTypes, B!ScheduleFollows, Follows

LEMMA BeginInv ==
    ASSUME BackupsInv, NEW r \in Requests, NEW j \in Jobs,
           B!Create(r, j) \/ B!Update(r, j) \/ B!Toggle(r, j) \/ B!Delete(r, j)
    PROVE  BackupsInv'
<1> DEFINE Q(pc) == [pc |-> pc, job |-> j, read |-> bRow[j].enabled]
<1>0. bRow[j] \in JobRows /\ bRow \in [Jobs -> JobRows] /\ bSched \subseteq Jobs /\ bEvents \in 0..MaxEvents
      /\ (bRow[j].there \/ bRow[j].status = "none")
  BY DEF BackupsInv, BackupTypes
<1>1. \A pc \in {"register", "body", "flip", "erase"} :
          /\ Q(pc) \in RequestRecords /\ Open(Q(pc)) /\ Q(pc).pc = pc /\ Q(pc).job = j
          /\ Q(pc).read = bRow[j].enabled
  BY <1>0 DEF RequestRecords, JobRows, Open
<1> HIDE DEF Q
<1>2. CASE B!Create(r, j)
  <2>1. PICK on \in BOOLEAN, valid \in BOOLEAN :
            bRow' = [bRow EXCEPT ![j] = [there |-> TRUE, enabled |-> on, valid |-> valid, status |-> "none"]]
    BY <1>2 DEF B!Create
  <2>2. B!Begin(r, j, "register") /\ ~bRow[j].there /\ UNCHANGED <<bSched, bRun, bStuck, bEvents>>
    BY <1>2 DEF B!Create
  <2>3. bRow' \in [Jobs -> JobRows] /\ bRow'[j].there /\ bRow'[j].status = "none"
        /\ \A k \in Jobs : k # j => bRow'[k] = bRow[k]
    BY <1>0, <2>1 DEF JobRows, B!Statuses
  <2>4. j \notin bContested' => PhaseSound(Q("register"), bRow'[j], bSched')
    BY <1>1, <2>2, <2>3, BeginFacts DEF PhaseSound, Follows
  <2>5. bReq' = [bReq EXCEPT ![r] = Q("register")]
    BY <2>2, BeginFacts DEF Q
  <2>6. /\ bReq[r].pc = "new" /\ (j \in bContested' \/ B!Open(j) = {})
        /\ bContested \subseteq bContested' /\ bContested' \subseteq Jobs
    BY <2>2, BeginFacts
  <2> QED BY <1>0, <1>1, <2>2, <2>3, <2>4, <2>5, <2>6, RequestKeeps
<1>3. ASSUME NEW pc \in {"body", "flip"}, bRow[j].there, B!Begin(r, j, pc),
             UNCHANGED <<bRow, bSched, bRun, bStuck, bEvents>>
      PROVE  BackupsInv'
  <2>1. j \notin bContested' => PhaseSound(Q(pc), bRow'[j], bSched')
    BY <1>1, <1>3, BeginFacts DEF PhaseSound, Follows
  <2>2. bReq' = [bReq EXCEPT ![r] = Q(pc)]
    BY <1>3, BeginFacts DEF Q
  <2>3. /\ bReq[r].pc = "new" /\ (j \in bContested' \/ B!Open(j) = {})
        /\ bContested \subseteq bContested' /\ bContested' \subseteq Jobs
    BY <1>3, BeginFacts
  <2> QED BY <1>0, <1>1, <1>3, <2>1, <2>2, <2>3, RequestKeeps
<1>4. CASE B!Delete(r, j)
  <2>1. B!Begin(r, j, "erase") /\ bRow[j].there /\ bSched' = bSched \ {j} /\ UNCHANGED <<bRow, bRun, bStuck, bEvents>>
    BY <1>4 DEF B!Delete
  <2>2. PhaseSound(Q("erase"), bRow'[j], bSched')
    BY <1>1, <2>1 DEF PhaseSound
  <2>3. bReq' = [bReq EXCEPT ![r] = Q("erase")]
    BY <2>1, BeginFacts DEF Q
  <2>4. /\ bReq[r].pc = "new" /\ (j \in bContested' \/ B!Open(j) = {})
        /\ bContested \subseteq bContested' /\ bContested' \subseteq Jobs
    BY <2>1, BeginFacts
  <2> QED BY <1>0, <1>1, <2>1, <2>2, <2>3, <2>4, RequestKeeps
<1> QED BY <1>2, <1>3, <1>4 DEF B!Update, B!Toggle

\* The request of j in phase pc, which goes on to another or is done.
LEMMA UnderWay ==
    ASSUME BackupsInv, NEW r \in Requests, Open(bReq[r])
    PROVE  /\ bReq[r] \in RequestRecords /\ bReq[r].job \in Jobs /\ bReq[r].pc \notin {"new", "done"}
           /\ bRow[bReq[r].job] \in JobRows /\ bRow \in [Jobs -> JobRows] /\ bSched \subseteq Jobs
           /\ bContested \subseteq Jobs /\ bEvents \in 0..MaxEvents
           /\ bRow[bReq[r].job].there \/ bRow[bReq[r].job].status = "none"
           /\ bReq[r].job \notin bContested => PhaseSound(bReq[r], bRow[bReq[r].job], bSched)
  BY DEF BackupsInv, BackupTypes, RequestsSound, Open

\* Register, and an update or a toggle that reaches the scheduler.
LEMMA ScheduleInv ==
    ASSUME BackupsInv, NEW r \in Requests, B!Register(r) \/ B!Reschedule(r) \/ B!ApplyToggle(r)
    PROVE  BackupsInv'
<1> DEFINE j == bReq[r].job
           q == [bReq[r] EXCEPT !.pc = "done"]
<1>1. Open(bReq[r]) /\ bReq[r].pc \in {"register", "reschedule", "apply"}
  BY DEF B!Register, B!Reschedule, B!ApplyToggle, B!At, Open
<1>2. q \in RequestRecords /\ q.job = j /\ q.pc = "done" /\ ~Open(q)
  BY <1>1, UnderWay DEF RequestRecords, Open
<1>3. bReq' = [bReq EXCEPT ![r] = q]
  BY DEF B!Register, B!Reschedule, B!ApplyToggle, B!GoTo
<1>4. UNCHANGED <<bRow, bRun, bContested, bStuck, bEvents>>
  BY DEF B!Register, B!Reschedule, B!ApplyToggle
<1>5. /\ bSched' \subseteq Jobs /\ j \in Jobs
      /\ \A k \in Jobs : k # j => (k \in bSched' <=> k \in bSched)
  BY <1>1, UnderWay DEF B!Register, B!Reschedule, B!ApplyToggle, B!AddJob
<1>6. ASSUME j \notin bContested PROVE Follows(bRow[j], j, bSched')
  <2>1. PhaseSound(bReq[r], bRow[j], bSched)
    BY <1>1, <1>6, UnderWay
  <2>2. bRow[j] \in JobRows /\ bReq[r] \in RequestRecords
    BY <1>1, UnderWay
  <2>3. CASE B!Register(r)
    BY <2>1, <2>2, <2>3 DEF B!Register, B!At, B!AddJob, PhaseSound, Follows
  <2>4. CASE B!Reschedule(r)
    BY <2>1, <2>2, <2>4 DEF B!Reschedule, B!At, PhaseSound, Follows
  <2>5. CASE B!ApplyToggle(r)
    BY <2>1, <2>2, <2>5 DEF B!ApplyToggle, B!At, B!AddJob, PhaseSound, Follows
  <2> QED BY <2>3, <2>4, <2>5
<1> HIDE DEF j, q
<1>7. /\ bReq[r].pc \notin {"new", "done"} /\ bReq[r].job = j /\ bRow \in [Jobs -> JobRows]
      /\ bContested \subseteq Jobs /\ bEvents \in 0..MaxEvents /\ (bRow[j].there \/ bRow[j].status = "none")
  BY <1>1, UnderWay DEF j
<1> QED BY <1>2, <1>3, <1>4, <1>5, <1>6, <1>7, RequestKeeps

\* The commits: the body of an update, a toggle, a delete.
LEMMA CommitUpdateInv ==
    ASSUME BackupsInv, NEW r \in Requests, B!CommitUpdate(r)
    PROVE  BackupsInv'
<1> DEFINE j == bReq[r].job
           q(pc, on) == [bReq[r] EXCEPT !.pc = pc, !.read = on]
           d == [bReq[r] EXCEPT !.pc = "done"]
<1>1. Open(bReq[r]) /\ bReq[r].pc = "body" /\ UNCHANGED <<bSched, bRun, bContested, bStuck, bEvents>>
  BY DEF B!CommitUpdate, B!At, Open
<1>2. /\ bReq[r] \in RequestRecords /\ j \in Jobs /\ bRow \in [Jobs -> JobRows] /\ bRow[j] \in JobRows
      /\ bSched \subseteq Jobs /\ bContested \subseteq Jobs /\ bEvents \in 0..MaxEvents
      /\ bRow[j].there \/ bRow[j].status = "none"
      /\ j \notin bContested => PhaseSound(bReq[r], bRow[j], bSched)
  BY <1>1, UnderWay
<1>3. CASE ~bRow[j].there
  <2>1. d \in RequestRecords /\ d.job = j /\ ~Open(d)
    BY <1>2 DEF RequestRecords, Open
  <2>2. bReq' = [bReq EXCEPT ![r] = d] /\ UNCHANGED bRow
    BY <1>3 DEF B!CommitUpdate, B!GoTo
  <2>3. j \in bContested
    BY <1>2, <1>3 DEF PhaseSound
  <2> HIDE DEF j, d
  <2>4. bReq[r].pc \notin {"new", "done"} /\ bReq[r].job = j
    BY <1>1 DEF j
  <2> QED BY <1>1, <1>2, <2>1, <2>2, <2>3, <2>4, RequestKeeps
<1>4. CASE bRow[j].there
  <2>1. PICK now \in BOOLEAN, valid \in BOOLEAN :
            /\ bRow' = [bRow EXCEPT ![j].enabled = now, ![j].valid = valid]
            /\ bReq' = [bReq EXCEPT ![r].pc = "reschedule", ![r].read = now]
    BY <1>2, <1>4 DEF B!CommitUpdate, JobRows
  <2>2. /\ bRow' \in [Jobs -> JobRows] /\ \A k \in Jobs : k # j => bRow'[k] = bRow[k]
        /\ bRow'[j].there /\ bRow'[j].enabled = now /\ bRow'[j].status = bRow[j].status
    BY <1>2, <1>4, <2>1 DEF JobRows
  <2>3. /\ q("reschedule", now) \in RequestRecords /\ q("reschedule", now).job = j
        /\ q("reschedule", now).pc = "reschedule" /\ q("reschedule", now).read = now
    BY <1>2 DEF RequestRecords
  <2>4. bReq' = [bReq EXCEPT ![r] = q("reschedule", now)]
    BY <2>1
  <2> HIDE DEF j, q
  <2>5. PhaseSound(q("reschedule", now), bRow'[j], bSched') /\ Open(q("reschedule", now))
    BY <2>2, <2>3 DEF PhaseSound, Open
  <2>6. bReq[r].pc \notin {"new", "done"} /\ bReq[r].job = j
    BY <1>1 DEF j
  <2> QED BY <1>1, <1>2, <2>2, <2>3, <2>4, <2>5, <2>6, RequestKeeps
<1> QED BY <1>3, <1>4

LEMMA CommitToggleInv ==
    ASSUME BackupsInv, NEW r \in Requests, B!CommitToggle(r) \/ B!ReloadToggle(r)
    PROVE  BackupsInv'
<1> DEFINE j == bReq[r].job
           d == [bReq[r] EXCEPT !.pc = "done"]
           l == [bReq[r] EXCEPT !.pc = "reload"]
           a == [bReq[r] EXCEPT !.pc = IF bRow[j].there THEN "apply" ELSE "done", !.read = bRow[j].enabled]
<1>1. Open(bReq[r]) /\ bReq[r].pc \in {"flip", "reload"} /\ UNCHANGED <<bSched, bRun, bContested, bStuck, bEvents>>
  BY DEF B!CommitToggle, B!ReloadToggle, B!At, Open
<1>2. /\ bReq[r] \in RequestRecords /\ j \in Jobs /\ bRow \in [Jobs -> JobRows] /\ bRow[j] \in JobRows
      /\ bSched \subseteq Jobs /\ bContested \subseteq Jobs /\ bEvents \in 0..MaxEvents
      /\ bRow[j].there \/ bRow[j].status = "none"
      /\ j \notin bContested => PhaseSound(bReq[r], bRow[j], bSched)
  BY <1>1, UnderWay
<1>3. /\ d \in RequestRecords /\ d.job = j /\ ~Open(d)
      /\ l \in RequestRecords /\ l.job = j /\ l.pc = "reload" /\ Open(l)
      /\ a \in RequestRecords /\ a.job = j /\ (bRow[j].there => a.pc = "apply" /\ a.read = bRow[j].enabled)
      /\ Open(a) <=> bRow[j].there
  BY <1>2 DEF RequestRecords, JobRows, Open
<1>4. bReq[r].pc \notin {"new", "done"} /\ bReq[r].job = j
  BY <1>1
<1>5. CASE B!CommitToggle(r)
  <2>1. CASE ~bRow[j].there
    <3>1. bReq' = [bReq EXCEPT ![r] = d] /\ UNCHANGED bRow
      BY <1>5, <2>1 DEF B!CommitToggle, B!GoTo
    <3>2. j \in bContested
      BY <1>2, <2>1 DEF PhaseSound
    <3> HIDE DEF j, d, l, a
    <3> QED BY <1>1, <1>2, <1>3, <1>4, <3>1, <3>2, RequestKeeps
  <2>2. CASE bRow[j].there
    <3>1. bReq' = [bReq EXCEPT ![r] = l] /\ bReq[r].pc = "flip"
      BY <1>5, <2>2 DEF B!CommitToggle, B!GoTo, B!At
    <3>5. bRow' = [bRow EXCEPT ![j].enabled = ~bReq[r].read]
      BY <1>5, <2>2 DEF B!CommitToggle
    <3>2. /\ bRow' \in [Jobs -> JobRows] /\ \A k \in Jobs : k # j => bRow'[k] = bRow[k]
          /\ bRow'[j].there /\ bRow'[j].valid = bRow[j].valid /\ bRow'[j].status = bRow[j].status
      BY <1>2, <2>2, <3>5 DEF JobRows, RequestRecords
    <3>3. j \notin bContested => (j \in bSched => bRow[j].valid)
      BY <1>2, <3>1 DEF PhaseSound, Follows
    <3> HIDE DEF j, d, l, a
    <3>4. j \notin bContested => PhaseSound(l, bRow'[j], bSched')
      BY <1>1, <1>3, <3>2, <3>3 DEF PhaseSound
    <3> QED BY <1>1, <1>2, <1>3, <1>4, <3>1, <3>2, <3>4, RequestKeeps, ZenonT(60)
  <2> QED BY <2>1, <2>2
<1>6. CASE B!ReloadToggle(r)
  <2>1. bReq' = [bReq EXCEPT ![r] = a] /\ UNCHANGED bRow /\ bReq[r].pc = "reload"
    BY <1>6 DEF B!ReloadToggle, B!At
  <2>2. j \notin bContested => bRow[j].there /\ (j \in bSched => bRow[j].valid)
    BY <1>2, <2>1 DEF PhaseSound
  <2> HIDE DEF j, d, l, a
  <2>3. j \notin bContested => Open(a) /\ PhaseSound(a, bRow'[j], bSched')
    BY <1>1, <1>3, <2>1, <2>2 DEF PhaseSound
  <2> QED BY <1>1, <1>2, <1>3, <1>4, <2>1, <2>3, RequestKeeps
<1> QED BY <1>5, <1>6

LEMMA CommitDeleteInv ==
    ASSUME BackupsInv, NEW r \in Requests, B!CommitDelete(r)
    PROVE  BackupsInv'
<1> DEFINE j == bReq[r].job
           d == [bReq[r] EXCEPT !.pc = "done"]
<1>1. Open(bReq[r]) /\ bReq[r].pc = "erase" /\ UNCHANGED <<bSched, bRun, bStuck>>
  BY DEF B!CommitDelete, B!At, Open
<1>2. /\ bReq[r] \in RequestRecords /\ j \in Jobs /\ bRow \in [Jobs -> JobRows] /\ bRow[j] \in JobRows
      /\ bSched \subseteq Jobs /\ bContested \subseteq Jobs /\ bEvents \in 0..MaxEvents
      /\ bRow[j].there \/ bRow[j].status = "none"
      /\ j \notin bContested => PhaseSound(bReq[r], bRow[j], bSched)
  BY <1>1, UnderWay
<1>3. d \in RequestRecords /\ d.job = j /\ ~Open(d) /\ bReq' = [bReq EXCEPT ![r] = d]
  BY <1>2 DEF RequestRecords, Open, B!CommitDelete, B!GoTo
<1>4. /\ \/ bRow' = [bRow EXCEPT ![j] = B!NoRow] /\ UNCHANGED bContested
         \/ UNCHANGED bRow /\ bContested' = bContested \union {j}
      /\ bEvents' \in 0..MaxEvents
  BY <1>2, ServicesAssumption DEF B!CommitDelete, B!Event
<1>5. B!NoRow \in JobRows /\ ~B!NoRow.there /\ B!NoRow.status = "none"
  BY DEF B!NoRow, JobRows, B!Statuses
<1>6. /\ bRow' \in [Jobs -> JobRows] /\ \A k \in Jobs : k # j => bRow'[k] = bRow[k]
      /\ bRow'[j].status = "running" => bRow[j].status = "running"
      /\ bRow'[j].there \/ bRow'[j].status = "none"
  BY <1>2, <1>4, <1>5
<1>7. j \notin bContested' => Follows(bRow'[j], j, bSched')
  <2>1. j \notin bContested' => bRow'[j] = B!NoRow /\ j \notin bContested
    BY <1>2, <1>4
  <2>2. j \notin bContested => j \notin bSched
    BY <1>1, <1>2 DEF PhaseSound
  <2> QED BY <1>1, <1>5, <2>1, <2>2 DEF Follows
<1>8. bReq[r].pc \notin {"new", "done"} /\ bReq[r].job = j /\ bContested \subseteq bContested' /\ bContested' \subseteq Jobs
  BY <1>1, <1>2, <1>4
<1> HIDE DEF j, d
<1> QED BY <1>1, <1>2, <1>3, <1>4, <1>6, <1>7, <1>8, RequestKeeps

\* Runs: what a run writes, and that only its own end takes the word "running"
\* away from the run that answers for it.
LEMMA RunTypes ==
    ASSUME BackupsInv, NEW n \in Runs
    PROVE  /\ bRun[n] \in RunRecords /\ bRun \in [Runs -> RunRecords] /\ bRow \in [Jobs -> JobRows]
           /\ bRun[n].pc # "idle" => bRun[n].job \in Jobs
           /\ bReq \in [Requests -> RequestRecords] /\ bStuck \subseteq Jobs /\ bEvents \in 0..MaxEvents
           /\ B!NoRun \in RunRecords /\ B!NoRun.pc = "idle"
           /\ \A m \in Runs : bRun[m].pc # "idle" => bRun[m].job \in Jobs
  BY DEF BackupsInv, BackupTypes, B!NoRun, RunRecords, B!Statuses

LEMMA WrittenFacts ==
    ASSUME BackupsInv, NEW n \in Runs, bRun[n].pc # "idle", NEW st \in B!Statuses, bRow' = B!Written(n, st)
    PROVE  /\ bRow' \in [Jobs -> JobRows]
           /\ \A j \in Jobs : /\ bRow'[j].there = bRow[j].there /\ bRow'[j].enabled = bRow[j].enabled
                              /\ bRow'[j].valid = bRow[j].valid
                              /\ j # bRun[n].job => bRow'[j].status = bRow[j].status
                              /\ bRow'[j].there \/ bRow'[j].status = "none"
           /\ bRow'[bRun[n].job].status \in {st, bRow[bRun[n].job].status}
           /\ bRow[bRun[n].job].there /\ st # bRun[n].loaded => bRow'[bRun[n].job].status = st
<1> DEFINE j == bRun[n].job
<1>1. j \in Jobs /\ bRow \in [Jobs -> JobRows] /\ bRow[j] \in JobRows
  BY RunTypes
<1>0. \A k \in Jobs : bRow[k].there \/ bRow[k].status = "none"
  BY DEF BackupsInv, BackupTypes
<1>2. CASE bRow[j].there /\ st # bRun[n].loaded
  <2>1. bRow' = [bRow EXCEPT ![j].status = st]
    BY <1>2 DEF B!Written
  <2> QED BY <1>0, <1>1, <1>2, <2>1 DEF JobRows
<1>3. CASE ~(bRow[j].there /\ st # bRun[n].loaded)
  BY <1>0, <1>1, <1>3 DEF B!Written
<1> QED BY <1>2, <1>3

LEMMA LoadRunInv ==
    ASSUME BackupsInv, NEW n \in Runs, B!LoadJob(n) \/ B!ReloadJob(n)
    PROVE  BackupsInv'
<1> DEFINE j == bRun[n].job
<1>1. bRun[n].pc \in {"load", "reload"} /\ UNCHANGED <<bRow, bSched, bReq, bContested, bStuck, bEvents>>
  BY DEF B!LoadJob, B!ReloadJob
<1>2. /\ j \in Jobs /\ bRow[j] \in JobRows /\ bRun[n] \in RunRecords /\ bRun \in [Runs -> RunRecords]
      /\ B!NoRun \in RunRecords /\ B!NoRun.pc = "idle"
  BY <1>1, RunTypes
<1>3. PICK pc \in {"mark", "end"} : /\ bRun[n].pc = IF pc = "mark" THEN "load" ELSE "reload"
                                    /\ IF bRow[j].there
                                       THEN bRun' = [bRun EXCEPT ![n].pc = pc, ![n].loaded = bRow[j].status]
                                       ELSE bRun' = [bRun EXCEPT ![n] = B!NoRun]
  BY DEF B!LoadJob, B!ReloadJob
<1>4. /\ bRun' \in [Runs -> RunRecords] /\ \A m \in Runs : m # n => bRun'[m] = bRun[m]
      /\ bRow[j].there => bRun'[n].pc = pc /\ bRun'[n].loaded = bRow[j].status /\ bRun'[n].job = j
      /\ ~bRow[j].there => bRun'[n].pc = "idle"
  BY <1>2, <1>3 DEF RunRecords, JobRows
<1>5. \A m \in Runs : bRun'[m].pc # "idle" => bRun'[m].job \in Jobs
  BY <1>2, <1>4, RunTypes
<1> HIDE DEF j
<1>6. RunsSound'
  BY <1>1, <1>2, <1>3, <1>4 DEF BackupsInv, BackupTypes, RunsSound, j
<1>7. /\ bRow \in [Jobs -> JobRows] /\ bReq \in [Requests -> RequestRecords] /\ bStuck \subseteq Jobs
      /\ bEvents \in 0..MaxEvents /\ \A k \in Jobs : bRow[k].there \/ bRow[k].status = "none"
  BY DEF BackupsInv, BackupTypes
<1> QED BY <1>1, <1>4, <1>5, <1>6, <1>7, RunKeeps

LEMMA StartRunInv ==
    ASSUME BackupsInv, NEW n \in Runs, NEW j \in Jobs,
           B!Fire(n, j) \/ \E r \in Requests : B!RunNow(r, n, j)
    PROVE  BackupsInv'
<1>1. PICK cron \in BOOLEAN : bRun' = [bRun EXCEPT ![n] = [pc |-> "load", job |-> j, cron |-> cron, loaded |-> "none"]]
  BY DEF B!Fire, B!RunNow, B!StartRun
<1>2. bRun[n].pc = "idle" /\ UNCHANGED <<bRow, bSched, bContested, bStuck, bEvents>>
  BY DEF B!Fire, B!RunNow, B!Idle
<1>3. /\ bReq' \in [Requests -> RequestRecords]
      /\ \A r \in Requests : bReq'[r] = bReq[r] \/ ~(Open(bReq[r]) \/ Open(bReq'[r]))
  <2>1. bReq \in [Requests -> RequestRecords]
    BY DEF BackupsInv, BackupTypes
  <2>2. CASE UNCHANGED bReq
    BY <2>1, <2>2
  <2>3. ASSUME NEW r \in Requests, B!RunNow(r, n, j)
        PROVE  /\ bReq' \in [Requests -> RequestRecords]
               /\ \A s \in Requests : bReq'[s] = bReq[s] \/ ~(Open(bReq[s]) \/ Open(bReq'[s]))
    <3>1. bReq[r].pc = "new" /\ bReq' = [bReq EXCEPT ![r].pc = "done"]
      BY <2>3 DEF B!RunNow, B!At, B!GoTo
    <3> QED BY <2>1, <3>1 DEF RequestRecords, Open
  <2> QED BY <2>2, <2>3 DEF B!Fire
<1>4. /\ bRun' \in [Runs -> RunRecords] /\ \A m \in Runs : m # n => bRun'[m] = bRun[m]
      /\ bRun'[n].pc = "load" /\ bRun'[n].job = j
  BY <1>1, RunTypes DEF RunRecords, B!Statuses
<1>5. \A m \in Runs : bRun'[m].pc # "idle" => bRun'[m].job \in Jobs
  BY <1>4, RunTypes
<1>6. RunsSound'
  BY <1>2, <1>4 DEF BackupsInv, RunsSound
<1>7. /\ bRow \in [Jobs -> JobRows] /\ bStuck \subseteq Jobs
      /\ bEvents \in 0..MaxEvents /\ \A k \in Jobs : bRow[k].there \/ bRow[k].status = "none"
  BY DEF BackupsInv, BackupTypes
<1> QED BY <1>2, <1>3, <1>4, <1>5, <1>6, <1>7, RunKeeps

LEMMA MarkRunningInv ==
    ASSUME BackupsInv, NEW n \in Runs, B!MarkRunning(n)
    PROVE  BackupsInv'
<1> DEFINE j == bRun[n].job
<1>1. bRun[n].pc = "mark" /\ UNCHANGED <<bSched, bReq, bContested, bStuck, bEvents>>
  BY DEF B!MarkRunning
<1>2. \/ bRow' = B!Written(n, "running") /\ bRun' = [bRun EXCEPT ![n].pc = "reload"]
      \/ bRow' = B!Written(n, "failed") /\ bRun' = [bRun EXCEPT ![n] = B!NoRun]
  BY DEF B!MarkRunning, B!RunTo
<1>3. /\ bRun' \in [Runs -> RunRecords] /\ \A m \in Runs : m # n => bRun'[m] = bRun[m]
      /\ bRun'[n].pc = "idle" \/ (bRun'[n].pc = "reload" /\ bRun'[n].job = j)
  BY <1>2, RunTypes DEF RunRecords
<1>4. \A m \in Runs : bRun'[m].pc # "idle" => bRun'[m].job \in Jobs
  BY <1>1, <1>3, RunTypes
<1>5. /\ bRow' \in [Jobs -> JobRows]
      /\ \A k \in Jobs : /\ bRow'[k].there = bRow[k].there /\ bRow'[k].enabled = bRow[k].enabled
                         /\ bRow'[k].valid = bRow[k].valid
                         /\ k # j => bRow'[k].status = bRow[k].status
                         /\ bRow'[k].there \/ bRow'[k].status = "none"
      /\ bRow'[j].status = "running" => bRow[j].status = "running" \/ bRun'[n].pc = "reload"
  <2>1. PICK st \in {"running", "failed"} :
            /\ bRow' = B!Written(n, st)
            /\ st = "running" => bRun' = [bRun EXCEPT ![n].pc = "reload"]
    BY <1>2
  <2>2. /\ bRow' \in [Jobs -> JobRows]
        /\ \A k \in Jobs : /\ bRow'[k].there = bRow[k].there /\ bRow'[k].enabled = bRow[k].enabled
                           /\ bRow'[k].valid = bRow[k].valid
                           /\ k # j => bRow'[k].status = bRow[k].status
                           /\ bRow'[k].there \/ bRow'[k].status = "none"
        /\ bRow'[j].status \in {st, bRow[j].status}
    BY <1>1, <2>1, WrittenFacts DEF B!Statuses
  <2>3. st = "running" => bRun'[n].pc = "reload"
    BY <2>1, RunTypes DEF RunRecords
  <2> QED BY <2>1, <2>2, <2>3
<1> HIDE DEF j
<1>6. RunsSound'
  BY <1>1, <1>3, <1>5 DEF BackupsInv, RunsSound
<1>7. bReq \in [Requests -> RequestRecords] /\ bStuck \subseteq Jobs /\ bEvents \in 0..MaxEvents
  BY RunTypes
<1> QED BY <1>1, <1>3, <1>4, <1>5, <1>6, <1>7, RunKeeps

LEMMA EndRunInv ==
    ASSUME BackupsInv, NEW n \in Runs, B!EndRun(n)
    PROVE  BackupsInv'
<1> DEFINE j == bRun[n].job
<1>1. /\ bRun[n].pc = "end" /\ UNCHANGED <<bSched, bReq, bContested>>
      /\ bRun' = [bRun EXCEPT ![n] = B!NoRun] /\ j \in Jobs
  BY RunTypes DEF B!EndRun
<1>2. /\ bRun' \in [Runs -> RunRecords] /\ \A m \in Runs : m # n => bRun'[m] = bRun[m]
      /\ bRun'[n].pc = "idle"
  BY <1>1, RunTypes
<1>3. \A m \in Runs : bRun'[m].pc # "idle" => bRun'[m].job \in Jobs
  BY <1>1, <1>2, RunTypes
<1>4. bReq \in [Requests -> RequestRecords] /\ bStuck \subseteq Jobs /\ bEvents \in 0..MaxEvents
  BY RunTypes
<1>5. CASE \E out \in {"success", "failed"} : bRow' = B!Written(n, out) /\ UNCHANGED <<bStuck, bEvents>>
  <2>1. PICK out \in {"success", "failed"} : bRow' = B!Written(n, out) /\ UNCHANGED <<bStuck, bEvents>>
    BY <1>5
  <2>2. /\ bRow' \in [Jobs -> JobRows]
        /\ \A k \in Jobs : /\ bRow'[k].there = bRow[k].there /\ bRow'[k].enabled = bRow[k].enabled
                           /\ bRow'[k].valid = bRow[k].valid
                           /\ k # j => bRow'[k].status = bRow[k].status
                           /\ bRow'[k].there \/ bRow'[k].status = "none"
        /\ bRow'[j].status \in {out, bRow[j].status}
        /\ bRow[j].there /\ out # bRun[n].loaded => bRow'[j].status = out
    BY <1>1, <2>1, WrittenFacts DEF B!Statuses
  <2>3. bRow[j].there \/ bRow[j].status = "none"
    BY <1>1 DEF BackupsInv, BackupTypes
  <2>4. bRow'[j].status = "running" => bRow[j].status = "running" /\ bRun[n].loaded # "running"
    BY <2>2, <2>3
  <2>5. RunsSound'
    <3> HIDE DEF j
    <3>1. bRun[n].job = j
      BY DEF j
    <3> QED BY <1>1, <1>2, <2>1, <2>2, <2>4, <3>1 DEF BackupsInv, RunsSound
  <2> HIDE DEF j
  <2> QED BY <1>1, <1>2, <1>3, <1>4, <2>1, <2>2, <2>5, RunKeeps
<1>6. CASE UNCHANGED bRow /\ bStuck' = bStuck \union {j} /\ B!Event
  <2>1. bStuck' \subseteq Jobs /\ bEvents' \in 0..MaxEvents
    BY <1>1, <1>4, <1>6, ServicesAssumption DEF B!Event
  <2>2. RunsSound'
    BY <1>1, <1>2, <1>6 DEF BackupsInv, RunsSound
  <2>3. bRow \in [Jobs -> JobRows] /\ \A k \in Jobs : bRow[k].there \/ bRow[k].status = "none"
    BY DEF BackupsInv, BackupTypes
  <2> QED BY <1>1, <1>2, <1>3, <1>4, <1>6, <2>1, <2>2, <2>3, RunKeeps
<1> QED BY <1>5, <1>6 DEF B!EndRun

LEMMA RestartInv ==
    ASSUME BackupsInv, B!Restart
    PROVE  BackupsInv'
<1> DEFINE Lost == {bRun[n].job : n \in {m \in Runs : bRun[m].pc \in {"reload", "end"}}}
<1>1. /\ bEvents' \in 0..MaxEvents /\ bStuck' = bStuck \union Lost /\ bRun' = [n \in Runs |-> B!NoRun]
      /\ UNCHANGED <<bRow, bContested>>
  BY ServicesAssumption DEF B!Restart, B!Event, BackupsInv, BackupTypes
<1>2. B!NoReq \in RequestRecords /\ B!NoReq.pc = "new" /\ B!NoRun \in RunRecords /\ B!NoRun.pc = "idle"
  BY DEF B!NoReq, RequestRecords, B!NoRun, RunRecords, B!Statuses
<1>3. bReq' \in [Requests -> RequestRecords] /\ \A r \in Requests : ~Open(bReq'[r])
  <2>1. ASSUME NEW r \in Requests
        PROVE  LET q == IF bReq[r].pc = "new" THEN B!NoReq ELSE [bReq[r] EXCEPT !.pc = "done"] IN
               q \in RequestRecords /\ ~Open(q)
    <3>1. bReq[r] \in RequestRecords
      BY DEF BackupsInv, BackupTypes
    <3>2. [bReq[r] EXCEPT !.pc = "done"] \in RequestRecords /\ ~Open([bReq[r] EXCEPT !.pc = "done"])
      BY <3>1 DEF RequestRecords, Open
    <3> QED BY <1>2, <3>2 DEF Open
  <2> QED BY <2>1 DEF B!Restart
<1>4. Lost \subseteq Jobs
  BY RunTypes
<1>5. BackupTypes'
  BY <1>1, <1>2, <1>3, <1>4 DEF B!Restart, BackupsInv, BackupTypes, Open
<1>6. RequestsSound' /\ Alone'
  BY <1>3 DEF RequestsSound, Alone
<1>7. B!ScheduleFollows'
  BY <1>1 DEF B!ScheduleFollows, B!Restart
<1>8. RunsSound'
  BY <1>1 DEF BackupsInv, RunsSound
<1> QED BY <1>5, <1>6, <1>7, <1>8 DEF BackupsInv

LEMMA BackupsStep ==
    ASSUME BackupsInv, [Next]_vars
    PROVE  BackupsInv'
<1>1. CASE UNCHANGED backupsVars
  BY <1>1 DEF backupsVars, BackupsInv, BackupTypes, RequestsSound, Alone, B!ScheduleFollows, B!Open, RunsSound
<1>2. CASE B!Next
  BY <1>2, BeginInv, ScheduleInv, CommitUpdateInv, CommitToggleInv, CommitDeleteInv, StartRunInv, LoadRunInv,
     MarkRunningInv, EndRunInv, RestartInv
  DEF B!Next
<1> QED BY <1>1, <1>2 DEF Next, vars, AppStep, DeploymentStep, MoveStep, BackupJobStep, SocketStep,
                          AccountStep, MonitorStep

\* The scheduler knows a backup job exactly when its row is there, enabled and
\* has a cron expression, once the requests on it, made one after the other,
\* are through; and a row says "running" only while a run of it is under way,
\* unless a run was lost with the process or could not write how it ended.
THEOREM BackupsHold == Spec => []BackupsTrue
<1>1. Init => BackupsInv
  BY BackupsInit DEF Init
<1>2. BackupsInv /\ [Next]_vars => BackupsInv'
  BY BackupsStep
<1>3. BackupsInv => BackupsTrue
  BY DEF BackupsInv, BackupsTrue, RunsSound, B!RunningHasRun
<1> QED BY <1>1, <1>2, <1>3, PTL DEF Spec

-----------------------------------------------------------------------------
(* Moves.                                                                  *)
MovePcs == {"none", "queued", "destroy", "create", "built", "vmid", "clone", "copied", "call", "moving",
            "record", "unlink", "completed", "failed", "lost"}
MoveRecords ==
    [pc : MovePcs, kind : G!Kinds, key : G!Keys, dest : G!Keys, node : G!Nodes, drop : BOOLEAN]
GuestRecords ==
    [st : {"none", "present", "locked", "creating"}, node : G!Nodes, by : Moves \union {G!Old}]
GuestRows == [live : BOOLEAN, owned : BOOLEAN, tpl : BOOLEAN, node : G!Nodes]

MoveTypes ==
    /\ gTask \in [Moves -> MoveRecords] /\ gPx \in [Moves -> {"none", "running", "ok", "failed"}]
    /\ gGuest \in [G!Keys -> GuestRecords] /\ gRow \in [G!Keys -> GuestRows]
    /\ gAlloc \subseteq G!Keys /\ gDisturbed \subseteq Moves /\ gEvents \in 0..MaxEvents

\* Which phase belongs to which kind, and when a Proxmox task has been asked for.
PhaseOf(t, px) ==
    /\ t.pc \in {"none", "queued", "destroy", "vmid", "clone", "call"} => px = "none"
    /\ t.pc \in {"destroy", "create", "built"} => t.kind = "reinstall"
    /\ t.pc \in {"vmid", "clone", "copied"} => t.kind = "clone"
    /\ t.pc \in {"call", "moving", "record"} => t.kind \in {"migrate", "remote"}
    /\ t.pc = "unlink" => t.kind = "remote" /\ t.drop
    /\ t.pc \in {"record", "unlink"} => px = "ok"
    /\ t.kind = "remote" => t.key # t.dest
    /\ t.kind = "reinstall" => t.key = t.dest
Phases == \A d \in Moves : PhaseOf(gTask[d], gPx[d])

\* A guest is held by one Proxmox task at a time.
HeldBy(t) == IF t.kind = "clone" THEN t.dest ELSE t.key
HeldOnce ==
    /\ \A d \in Moves : gPx[d] = "running" => gGuest[HeldBy(gTask[d])].st \in {"locked", "creating"}
    /\ \A d, e \in Moves : gPx[d] = "running" /\ gPx[e] = "running" /\ HeldBy(gTask[d]) = HeldBy(gTask[e]) => d = e

\* Two operations on one guest are both disturbed.
Working(d) == gTask[d].pc \notin G!Ended \/ gPx[d] = "running"
Meet(t, u) == {t.key, t.dest} \intersect {u.key, u.dest} # {}
Exclusive ==
    \A d, e \in Moves : d # e /\ Working(d) /\ Working(e) /\ Meet(gTask[d], gTask[e]) => d \in gDisturbed

\* The source of a guest that has moved away stays empty, as far as nobody disturbed it.
Emptied(d) ==
    /\ gTask[d].kind = "remote" /\ gTask[d].drop /\ gPx[d] = "ok"
    /\ gTask[d].pc \in {"moving", "record", "unlink"}
SourceEmpty ==
    \A d \in Moves : Emptied(d) =>
        gGuest[gTask[d].key].st = "none" \/ gGuest[gTask[d].key].by \in gDisturbed

\* What an undisturbed move to another server finds in the rows.
RowsFollow ==
    \A d \in Moves \ gDisturbed : gTask[d].kind = "remote" /\ gTask[d].pc \notin G!Ended =>
        /\ gRow[gTask[d].key].live
        /\ gTask[d].pc = "unlink" => /\ gRow[gTask[d].dest].live
                                     /\ gRow[gTask[d].key].owned => gRow[gTask[d].dest].owned

MovesInv == MoveTypes /\ Phases /\ HeldOnce /\ Exclusive /\ SourceEmpty /\ RowsFollow

LEMMA MovesInit == G!Init => MovesInv
  BY ServicesAssumption
  DEF G!Init, G!NoTask, G!NoGuest, G!NoRow, G!Home, G!Keys, G!Servers, G!Vmids, G!Nodes, G!Kinds, G!Old, G!Ended,
      MovesInv, MoveTypes, MoveRecords, MovePcs, GuestRecords, GuestRows, Phases, PhaseOf, HeldOnce, HeldBy,
      Exclusive, Working, SourceEmpty, Emptied, RowsFollow

\* What the types say of one operation.
LEMMA MoveTyped ==
    ASSUME MovesInv, NEW d \in Moves
    PROVE  /\ gTask[d] \in MoveRecords /\ PhaseOf(gTask[d], gPx[d])
           /\ gTask[d].key \in G!Keys /\ gTask[d].dest \in G!Keys /\ HeldBy(gTask[d]) \in G!Keys
           /\ gGuest[gTask[d].key] \in GuestRecords /\ gGuest[gTask[d].dest] \in GuestRecords
           /\ gRow[gTask[d].key] \in GuestRows /\ gRow[gTask[d].dest] \in GuestRows
  BY DEF MovesInv, MoveTypes, MoveRecords, Phases, HeldBy

\* A job that goes on without touching Proxmox.
LEMMA GoesOn ==
    ASSUME MovesInv, NEW d \in Moves, NEW pc \in MovePcs \ {"none", "moving"}, G!GoTo(d, pc),
           gTask[d].pc \notin G!Ended, UNCHANGED <<gPx, gGuest>>,
           gRow' \in [G!Keys -> GuestRows], gAlloc' \subseteq G!Keys, gEvents' \in 0..MaxEvents,
           gDisturbed' \subseteq Moves, gDisturbed \subseteq gDisturbed',
           PhaseOf([gTask[d] EXCEPT !.pc = pc], gPx[d]),
           pc \in {"record", "unlink"} => gTask[d].pc \in {"moving", "record"},
           RowsFollow'
    PROVE  MovesInv'
<1>1. /\ gTask \in [Moves -> MoveRecords] /\ gTask[d] \in MoveRecords
      /\ gTask' = [gTask EXCEPT ![d] = [gTask[d] EXCEPT !.pc = pc]]
  BY MoveTyped DEF MovesInv, MoveTypes, G!GoTo
<1>2. [gTask[d] EXCEPT !.pc = pc] \in MoveRecords
  BY <1>1 DEF MoveRecords
<1>3. /\ gTask' \in [Moves -> MoveRecords] /\ \A e \in Moves \ {d} : gTask'[e] = gTask[e]
      /\ gTask'[d].pc = pc /\ gTask'[d] = [gTask[d] EXCEPT !.pc = pc]
      /\ \A e \in Moves : /\ gTask'[e].key = gTask[e].key /\ gTask'[e].dest = gTask[e].dest
                           /\ gTask'[e].kind = gTask[e].kind /\ gTask'[e].drop = gTask[e].drop
  BY <1>1, <1>2 DEF MoveRecords
<1>4. MoveTypes'
  BY <1>3 DEF MovesInv, MoveTypes
<1>5. Phases'
  BY <1>3 DEF MovesInv, Phases
<1>6. HeldOnce'
  BY <1>3 DEF MovesInv, HeldOnce, HeldBy
<1>7. Exclusive'
  BY <1>3 DEF MovesInv, Exclusive, Working, Meet
<1>8. SourceEmpty'
  <2> SUFFICES ASSUME NEW e \in Moves, Emptied(e)'
               PROVE  gGuest[gTask[e].key].st = "none" \/ gGuest[gTask[e].key].by \in gDisturbed
    BY <1>3 DEF SourceEmpty
  <2>1. gTask'[e].pc \in {"moving", "record", "unlink"} => gTask[e].pc \in {"moving", "record", "unlink"}
    BY <1>3
  <2>2. Emptied(e)
    BY <1>3, <2>1 DEF Emptied
  <2> QED BY <2>2 DEF MovesInv, SourceEmpty
<1> QED BY <1>4, <1>5, <1>6, <1>7, <1>8 DEF MovesInv

\* A job that takes a guest nobody holds, or makes one, by a Proxmox task.
LEMMA TakesUp ==
    ASSUME MovesInv, NEW d \in Moves, NEW pc \in MovePcs \ {"none"}, G!GoTo(d, pc),
           gTask[d].pc \notin G!Ended, UNCHANGED <<gRow, gAlloc, gDisturbed>>,
           gEvents' \in 0..MaxEvents, gPx' = [gPx EXCEPT ![d] = "running"],
           NEW k \in G!Keys, k = HeldBy(gTask[d]), gGuest[k].st \in {"none", "present"},
           NEW g \in GuestRecords, gGuest' = [gGuest EXCEPT ![k] = g], g.st \in {"locked", "creating"},
           g.by = d \/ (g.by = gGuest[k].by /\ gGuest[k].st = "present"),
           PhaseOf([gTask[d] EXCEPT !.pc = pc], "running")
    PROVE  MovesInv'
<1>1. /\ gTask \in [Moves -> MoveRecords] /\ gTask[d] \in MoveRecords
      /\ gTask' = [gTask EXCEPT ![d] = [gTask[d] EXCEPT !.pc = pc]]
  BY MoveTyped DEF MovesInv, MoveTypes, G!GoTo
<1>2. [gTask[d] EXCEPT !.pc = pc] \in MoveRecords
  BY <1>1 DEF MoveRecords
<1>3. /\ gTask' \in [Moves -> MoveRecords] /\ \A e \in Moves \ {d} : gTask'[e] = gTask[e]
      /\ gTask'[d].pc = pc /\ gTask'[d] = [gTask[d] EXCEPT !.pc = pc]
      /\ \A e \in Moves : /\ gTask'[e].key = gTask[e].key /\ gTask'[e].dest = gTask[e].dest
                           /\ gTask'[e].kind = gTask[e].kind /\ gTask'[e].drop = gTask[e].drop
  BY <1>1, <1>2 DEF MoveRecords
<1>4. /\ gPx' \in [Moves -> {"none", "running", "ok", "failed"}] /\ gPx'[d] = "running"
      /\ \A e \in Moves \ {d} : gPx'[e] = gPx[e]
      /\ gGuest' \in [G!Keys -> GuestRecords] /\ gGuest'[k] = g /\ \A j \in G!Keys \ {k} : gGuest'[j] = gGuest[j]
      /\ k \in {gTask[d].key, gTask[d].dest}
  BY DEF MovesInv, MoveTypes, HeldBy
<1>5. MoveTypes'
  BY <1>3, <1>4 DEF MovesInv, MoveTypes
<1>6. Phases'
  BY <1>3, <1>4 DEF MovesInv, Phases
<1>7. \A e \in Moves : HeldBy(gTask[e])' = HeldBy(gTask[e]) /\ HeldBy(gTask[e]) \in G!Keys
  BY <1>3, MoveTyped DEF HeldBy
<1>8. HeldOnce'
  BY <1>4, <1>7 DEF MovesInv, HeldOnce
<1>9. Exclusive'
  BY <1>3, <1>4 DEF MovesInv, Exclusive, Working, Meet
<1>10. SourceEmpty'
  <2> SUFFICES ASSUME NEW e \in Moves, Emptied(e)'
               PROVE  gGuest'[gTask[e].key].st = "none" \/ gGuest'[gTask[e].key].by \in gDisturbed
    BY <1>3 DEF SourceEmpty
  <2>1. e # d /\ Emptied(e) /\ Working(e) /\ Working(d)
    BY <1>3, <1>4 DEF Emptied, Working, G!Ended
  <2>2. gGuest[gTask[e].key].st = "none" \/ gGuest[gTask[e].key].by \in gDisturbed
    BY <2>1 DEF MovesInv, SourceEmpty
  <2>3. CASE gTask[e].key # k
    BY <1>4, <2>2, <2>3, MoveTyped
  <2>4. CASE gTask[e].key = k
    <3>1. d \in gDisturbed
      BY <1>4, <2>1, <2>4 DEF MovesInv, Exclusive, Meet
    <3> QED BY <1>4, <2>2, <2>4, <3>1
  <2> QED BY <2>3, <2>4
<1>11. RowsFollow'
  <2>1. pc # "unlink"
    BY <1>1, <1>2 DEF PhaseOf, MoveRecords
  <2>2. \A e \in Moves : gTask'[e].pc = "unlink" => gTask[e].pc = "unlink"
    BY <1>3, <2>1
  <2>3. \A e \in Moves : gTask'[e].pc \notin G!Ended => gTask[e].pc \notin G!Ended
    BY <1>3
  <2> QED BY <1>3, <2>2, <2>3 DEF MovesInv, RowsFollow
<1> QED BY <1>5, <1>6, <1>8, <1>9, <1>10, <1>11 DEF MovesInv

\* Steps of a job that end it, or lead on, with the rows as they are.
LEMMA RowsLeft ==
    ASSUME MovesInv, NEW d \in Moves, NEW pc, gTask[d].pc \notin G!Ended, G!GoTo(d, pc), pc # "unlink",
           UNCHANGED gRow, gDisturbed \subseteq gDisturbed'
    PROVE  RowsFollow'
<1>1. /\ gTask \in [Moves -> MoveRecords] /\ gTask[d] \in MoveRecords
      /\ gTask' = [gTask EXCEPT ![d] = [gTask[d] EXCEPT !.pc = pc]]
  BY MoveTyped DEF MovesInv, MoveTypes, G!GoTo
<1>2. /\ \A e \in Moves \ {d} : gTask'[e] = gTask[e]
      /\ gTask'[d].pc = pc
      /\ \A e \in Moves : /\ gTask'[e].key = gTask[e].key /\ gTask'[e].dest = gTask[e].dest
                           /\ gTask'[e].kind = gTask[e].kind
  BY <1>1 DEF MoveRecords
<1>3. \A e \in Moves : /\ gTask'[e].pc = "unlink" => gTask[e].pc = "unlink"
                       /\ gTask'[e].pc \notin G!Ended => gTask[e].pc \notin G!Ended
  BY <1>2
<1> QED BY <1>2, <1>3 DEF MovesInv, RowsFollow

LEMMA EventsBound == MovesInv => gEvents \in 0..MaxEvents /\ (G!Event => gEvents' \in 0..MaxEvents)
  BY ServicesAssumption DEF MovesInv, MoveTypes, G!Event

\* What stays as it is has the type it had.
LEMMA MoveRest ==
    MovesInv => /\ gRow \in [G!Keys -> GuestRows] /\ gAlloc \subseteq G!Keys /\ gDisturbed \subseteq Moves
                /\ gGuest \in [G!Keys -> GuestRecords] /\ gTask \in [Moves -> MoveRecords]
                /\ gPx \in [Moves -> {"none", "running", "ok", "failed"}]
  BY DEF MovesInv, MoveTypes

LEMMA RefusedInv ==
    ASSUME MovesInv, NEW d \in Moves, G!Refused(d)
    PROVE  MovesInv'
<1>1. PhaseOf([gTask[d] EXCEPT !.pc = "failed"], gPx[d])
  BY MoveTyped DEF PhaseOf, MoveRecords
<1>2. gTask[d].pc \notin G!Ended /\ G!GoTo(d, "failed") /\ gEvents' \in 0..MaxEvents
      /\ UNCHANGED <<gPx, gGuest, gRow, gAlloc, gDisturbed>>
  BY EventsBound DEF G!Refused, G!Ended
<1>3. RowsFollow'
  BY <1>2, RowsLeft
<1> QED BY <1>1, <1>2, <1>3, GoesOn, MoveRest DEF MovePcs

LEMMA MoveConnectInv ==
    ASSUME MovesInv, NEW d \in Moves, G!Connect(d)
    PROVE  MovesInv'
<1>1. PICK pc \in {"failed", G!First(gTask[d].kind)} : G!GoTo(d, pc)
  BY DEF G!Connect
<1>2. gTask[d].pc = "queued" /\ UNCHANGED <<gPx, gGuest, gRow, gAlloc, gDisturbed, gEvents>>
  BY DEF G!Connect
<1>3. gTask[d].kind \in G!Kinds /\ gPx[d] = "none" /\ gTask[d] \in MoveRecords /\ PhaseOf(gTask[d], gPx[d])
  BY <1>2, MoveTyped DEF PhaseOf, MoveRecords
<1>4. \/ pc = "failed"
      \/ pc = "destroy" /\ gTask[d].kind = "reinstall"
      \/ pc = "vmid" /\ gTask[d].kind = "clone"
      \/ pc = "call" /\ gTask[d].kind \in {"migrate", "remote"}
  BY <1>1, <1>3 DEF G!First, G!Kinds
<1>5. PhaseOf([gTask[d] EXCEPT !.pc = pc], gPx[d])
  BY <1>3, <1>4 DEF PhaseOf, MoveRecords
<1>6. pc \in MovePcs \ {"none", "moving"} /\ pc # "unlink" /\ pc # "record" /\ gTask[d].pc \notin G!Ended
  BY <1>2, <1>4 DEF MovePcs, G!Ended
<1>7. RowsFollow'
  BY <1>1, <1>2, <1>6, RowsLeft
<1> QED BY <1>1, <1>2, <1>5, <1>6, <1>7, GoesOn, MoveRest, EventsBound

\* A lock that is taken, or a guest that is not there to be locked.
LEMMA LockInv ==
    ASSUME MovesInv, NEW d \in Moves, NEW pc \in MovePcs \ {"none"}, gTask[d].pc \notin G!Ended,
           G!Lock(d, gTask[d].key, pc), gTask[d].kind # "clone",
           PhaseOf([gTask[d] EXCEPT !.pc = pc], "running"), PhaseOf([gTask[d] EXCEPT !.pc = "failed"], gPx[d]),
           UNCHANGED <<gRow, gAlloc, gDisturbed, gEvents>>
    PROVE  MovesInv'
<1> DEFINE k == gTask[d].key
           g == [gGuest[k] EXCEPT !.st = "locked"]
<1>1. CASE G!GoTo(d, "failed") /\ UNCHANGED <<gPx, gGuest>>
  <2>1. RowsFollow'
    BY <1>1, RowsLeft
  <2> QED BY <1>1, <2>1, GoesOn, MoveRest, EventsBound DEF MovePcs
<1>2. CASE G!Present(k) /\ gGuest' = [gGuest EXCEPT ![k].st = "locked"] /\ gPx' = [gPx EXCEPT ![d] = "running"]
           /\ G!GoTo(d, pc)
  <2>1. gGuest[k] \in GuestRecords /\ k \in G!Keys /\ k = HeldBy(gTask[d]) /\ gGuest[k].st = "present"
    BY <1>2, MoveTyped DEF HeldBy, G!Present
  <2>2. gGuest' = [gGuest EXCEPT ![k] = g] /\ g \in GuestRecords /\ g.st = "locked" /\ g.by = gGuest[k].by
    BY <1>2, <2>1 DEF GuestRecords
  <2> HIDE DEF k, g
  <2> QED BY <1>2, <2>1, <2>2, TakesUp, EventsBound
<1> QED BY <1>1, <1>2 DEF G!Lock

LEMMA DestroyInv ==
    ASSUME MovesInv, NEW d \in Moves, G!Destroy(d)
    PROVE  MovesInv'
<1>1. /\ gTask[d].pc = "destroy" /\ gTask[d].kind = "reinstall" /\ gTask[d] \in MoveRecords
      /\ PhaseOf(gTask[d], gPx[d]) /\ G!Lock(d, gTask[d].key, "create")
      /\ UNCHANGED <<gRow, gAlloc, gDisturbed, gEvents>>
  BY MoveTyped DEF G!Destroy, G!At
<1>2. PhaseOf([gTask[d] EXCEPT !.pc = "create"], "running") /\ PhaseOf([gTask[d] EXCEPT !.pc = "failed"], gPx[d])
  BY <1>1 DEF PhaseOf, MoveRecords
<1> QED BY <1>1, <1>2, LockInv DEF MovePcs, G!Ended

LEMMA CallMigrateInv ==
    ASSUME MovesInv, NEW d \in Moves, G!CallMigrate(d)
    PROVE  MovesInv'
<1>1. /\ gTask[d].pc = "call" /\ gTask[d].kind \in {"migrate", "remote"} /\ gTask[d] \in MoveRecords
      /\ PhaseOf(gTask[d], gPx[d]) /\ gTask[d].pc \notin G!Ended
      /\ UNCHANGED <<gRow, gAlloc, gDisturbed, gEvents>>
  BY MoveTyped DEF G!CallMigrate, G!Ended
<1>2. PhaseOf([gTask[d] EXCEPT !.pc = "moving"], "running") /\ PhaseOf([gTask[d] EXCEPT !.pc = "failed"], gPx[d])
  BY <1>1 DEF PhaseOf, MoveRecords
<1>3. CASE G!Lock(d, gTask[d].key, "moving")
  BY <1>1, <1>2, <1>3, LockInv DEF MovePcs
<1>4. CASE G!GoTo(d, "failed") /\ UNCHANGED <<gPx, gGuest>>
  <2>1. RowsFollow'
    BY <1>1, <1>4, RowsLeft
  <2> QED BY <1>1, <1>2, <1>4, <2>1, GoesOn, MoveRest, EventsBound DEF MovePcs
<1> QED BY <1>3, <1>4 DEF G!CallMigrate

\* A new guest, made by a Proxmox task where there was none.
LEMMA MakesInv ==
    ASSUME MovesInv, NEW d \in Moves, NEW pc \in MovePcs \ {"none"}, gTask[d].pc \notin G!Ended, G!GoTo(d, pc),
           NEW k \in G!Keys, k = HeldBy(gTask[d]), gGuest[k].st = "none", gPx' = [gPx EXCEPT ![d] = "running"],
           gGuest' = [gGuest EXCEPT ![k] = [st |-> "creating", node |-> gTask[d].node, by |-> d]],
           gEvents' \in 0..MaxEvents, PhaseOf([gTask[d] EXCEPT !.pc = pc], "running"),
           UNCHANGED <<gRow, gAlloc, gDisturbed>>
    PROVE  MovesInv'
<1> DEFINE g == [st |-> "creating", node |-> gTask[d].node, by |-> d]
<1>1. g \in GuestRecords /\ g.st = "creating" /\ g.by = d
  BY MoveTyped DEF GuestRecords, MoveRecords
<1>2. gGuest' = [gGuest EXCEPT ![k] = g]
  OBVIOUS
<1> HIDE DEF g
<1> QED BY <1>1, <1>2, TakesUp

LEMMA CreateInv ==
    ASSUME MovesInv, NEW d \in Moves, G!Create(d)
    PROVE  MovesInv'
<1>1. /\ gTask[d].pc = "create" /\ gTask[d].kind = "reinstall" /\ gTask[d] \in MoveRecords
      /\ PhaseOf(gTask[d], gPx[d]) /\ gTask[d].pc \notin G!Ended /\ gTask[d].key \in G!Keys
      /\ UNCHANGED <<gRow, gAlloc, gDisturbed>>
  BY MoveTyped DEF G!Create, G!At, G!Ended
<1>2. gEvents' \in 0..MaxEvents
  BY EventsBound, ServicesAssumption DEF G!Create
<1>3. PhaseOf([gTask[d] EXCEPT !.pc = "built"], "running") /\ PhaseOf([gTask[d] EXCEPT !.pc = "failed"], gPx[d])
  BY <1>1 DEF PhaseOf, MoveRecords
<1>4. CASE /\ gGuest[gTask[d].key].st = "none" /\ gPx' = [gPx EXCEPT ![d] = "running"] /\ G!GoTo(d, "built")
           /\ gGuest' = [gGuest EXCEPT ![gTask[d].key] = [st |-> "creating", node |-> gTask[d].node, by |-> d]]
  BY <1>1, <1>2, <1>3, <1>4, MakesInv DEF MovePcs, HeldBy
<1>5. CASE G!GoTo(d, "failed") /\ UNCHANGED <<gPx, gGuest>>
  <2>1. RowsFollow'
    BY <1>1, <1>5, RowsLeft
  <2> QED BY <1>1, <1>2, <1>3, <1>5, <2>1, GoesOn, MoveRest DEF MovePcs
<1> QED BY <1>4, <1>5 DEF G!Create

LEMMA CloneGuestInv ==
    ASSUME MovesInv, NEW d \in Moves, G!CloneGuest(d)
    PROVE  MovesInv'
<1>1. /\ gTask[d].pc = "clone" /\ gTask[d].kind = "clone" /\ gTask[d] \in MoveRecords
      /\ PhaseOf(gTask[d], gPx[d]) /\ gTask[d].pc \notin G!Ended /\ gTask[d].dest \in G!Keys
      /\ UNCHANGED <<gRow, gAlloc, gDisturbed, gEvents>>
  BY MoveTyped DEF G!CloneGuest, G!At, G!Ended
<1>3. PhaseOf([gTask[d] EXCEPT !.pc = "copied"], "running") /\ PhaseOf([gTask[d] EXCEPT !.pc = "failed"], gPx[d])
  BY <1>1 DEF PhaseOf, MoveRecords
<1>4. CASE /\ gGuest[gTask[d].dest].st = "none" /\ gPx' = [gPx EXCEPT ![d] = "running"] /\ G!GoTo(d, "copied")
           /\ gGuest' = [gGuest EXCEPT ![gTask[d].dest] = [st |-> "creating", node |-> gTask[d].node, by |-> d]]
  BY <1>1, <1>3, <1>4, MakesInv, EventsBound DEF MovePcs, HeldBy
<1>5. CASE G!GoTo(d, "failed") /\ UNCHANGED <<gPx, gGuest>>
  <2>1. RowsFollow'
    BY <1>1, <1>5, RowsLeft
  <2> QED BY <1>1, <1>3, <1>5, <2>1, GoesOn, MoveRest, EventsBound DEF MovePcs
<1> QED BY <1>4, <1>5 DEF G!CloneGuest

LEMMA AwaitedEvents == ASSUME MovesInv, NEW d \in Moves, G!Awaited(d) PROVE gEvents' \in 0..MaxEvents
  BY EventsBound DEF G!Awaited

LEMMA WaitsInv ==
    ASSUME MovesInv, NEW d \in Moves, G!FinishReinstall(d) \/ G!AwaitMigrate(d)
    PROVE  MovesInv'
<1>1. /\ gTask[d].pc \in {"built", "moving"} /\ gTask[d] \in MoveRecords
      /\ PhaseOf(gTask[d], gPx[d]) /\ gTask[d].pc \notin G!Ended
      /\ UNCHANGED <<gPx, gGuest, gRow, gAlloc, gDisturbed>> /\ gEvents' \in 0..MaxEvents
  BY MoveTyped, AwaitedEvents DEF G!FinishReinstall, G!AwaitMigrate, G!At, G!Ended
<1>2. PICK pc \in {"completed", "failed", "record"} :
          G!GoTo(d, pc) /\ (pc = "record" => gTask[d].pc = "moving" /\ gPx[d] = "ok")
  BY DEF G!FinishReinstall, G!AwaitMigrate
<1>3. PhaseOf([gTask[d] EXCEPT !.pc = pc], gPx[d])
  BY <1>1, <1>2 DEF PhaseOf, MoveRecords
<1>4. RowsFollow'
  BY <1>1, <1>2, RowsLeft
<1> QED BY <1>1, <1>2, <1>3, <1>4, GoesOn, MoveRest DEF MovePcs

\* A job that writes rows of its own guests does so for no other undisturbed one.
LEMMA RowsOwn ==
    ASSUME MovesInv, NEW d \in Moves, NEW pc, gTask[d].pc \notin G!Ended, G!GoTo(d, pc),
           \A j \in G!Keys \ {gTask[d].key, gTask[d].dest} : gRow'[j] = gRow[j],
           gDisturbed \subseteq gDisturbed',
           d \notin gDisturbed' /\ pc \notin G!Ended /\ gTask[d].kind = "remote" =>
               /\ gRow'[gTask[d].key].live
               /\ pc = "unlink" => /\ gRow'[gTask[d].dest].live
                                   /\ gRow'[gTask[d].key].owned => gRow'[gTask[d].dest].owned
    PROVE  RowsFollow'
<1>1. /\ gTask \in [Moves -> MoveRecords] /\ gTask[d] \in MoveRecords
      /\ gTask' = [gTask EXCEPT ![d] = [gTask[d] EXCEPT !.pc = pc]]
  BY MoveTyped DEF MovesInv, MoveTypes, G!GoTo
<1>2. /\ \A e \in Moves \ {d} : gTask'[e] = gTask[e]
      /\ gTask'[d].pc = pc
      /\ \A e \in Moves : /\ gTask'[e].key = gTask[e].key /\ gTask'[e].dest = gTask[e].dest
                           /\ gTask'[e].kind = gTask[e].kind
  BY <1>1 DEF MoveRecords
<1> SUFFICES ASSUME NEW e \in Moves \ gDisturbed', gTask'[e].kind = "remote", gTask'[e].pc \notin G!Ended
             PROVE  /\ gRow'[gTask'[e].key].live
                    /\ gTask'[e].pc = "unlink" => /\ gRow'[gTask'[e].dest].live
                                                  /\ gRow'[gTask'[e].key].owned => gRow'[gTask'[e].dest].owned
  BY DEF RowsFollow
<1>3. CASE e = d
  BY <1>2, <1>3
<1>4. CASE e # d
  <2>1. gTask[e].pc \notin G!Ended /\ gTask'[e].pc = gTask[e].pc
    BY <1>2, <1>4
  <2>2. ~Meet(gTask[e], gTask[d])
    BY <1>4, <2>1 DEF MovesInv, Exclusive, Working
  <2>3. gRow'[gTask[e].key] = gRow[gTask[e].key] /\ gRow'[gTask[e].dest] = gRow[gTask[e].dest]
    BY <2>2, MoveTyped DEF Meet
  <2> QED BY <1>2, <1>4, <2>1, <2>3 DEF MovesInv, RowsFollow
<1> QED BY <1>3, <1>4

LEMMA SavedRow ==
    ASSUME MovesInv, NEW k \in G!Keys, NEW owned \in BOOLEAN, NEW tpl \in BOOLEAN, NEW n \in G!Nodes,
           gRow' = G!Saved(k, owned, tpl, n)
    PROVE  /\ gRow' \in [G!Keys -> GuestRows] /\ \A j \in G!Keys \ {k} : gRow'[j] = gRow[j]
           /\ gRow'[k].live /\ gRow'[k].owned = owned
  BY MoveRest DEF G!Saved, GuestRows

LEMMA RegisterCloneInv ==
    ASSUME MovesInv, NEW d \in Moves, G!RegisterClone(d)
    PROVE  MovesInv'
<1>1. /\ gTask[d].pc = "copied" /\ gTask[d].kind = "clone" /\ gTask[d] \in MoveRecords
      /\ PhaseOf(gTask[d], gPx[d]) /\ gTask[d].pc \notin G!Ended /\ gTask[d].dest \in G!Keys
      /\ UNCHANGED <<gPx, gGuest, gAlloc, gDisturbed>> /\ gEvents' \in 0..MaxEvents
      /\ gRow' = G!Saved(gTask[d].dest, TRUE, FALSE, gTask[d].node) /\ G!GoTo(d, "completed")
  BY MoveTyped, AwaitedEvents DEF G!RegisterClone, G!At, G!Ended
<1>2. PhaseOf([gTask[d] EXCEPT !.pc = "completed"], gPx[d]) /\ gTask[d].node \in G!Nodes
  BY <1>1 DEF PhaseOf, MoveRecords
<1>3. /\ gRow' \in [G!Keys -> GuestRows] /\ \A j \in G!Keys \ {gTask[d].dest} : gRow'[j] = gRow[j]
  BY <1>1, <1>2, SavedRow
<1>4. RowsFollow'
  BY <1>1, <1>3, RowsOwn DEF G!Ended
<1> QED BY <1>1, <1>2, <1>3, <1>4, GoesOn, MoveRest DEF MovePcs

LEMMA RecordMigrateInv ==
    ASSUME MovesInv, NEW d \in Moves, G!RecordMigrate(d)
    PROVE  MovesInv'
<1>1. /\ gTask[d].pc = "record" /\ gTask[d].kind = "migrate" /\ gTask[d] \in MoveRecords
      /\ PhaseOf(gTask[d], gPx[d]) /\ gTask[d].pc \notin G!Ended /\ gTask[d].key \in G!Keys
      /\ UNCHANGED <<gPx, gGuest, gAlloc, gDisturbed, gEvents>> /\ G!GoTo(d, "completed")
      /\ gRow' = IF gRow[gTask[d].key].live THEN [gRow EXCEPT ![gTask[d].key].node = gTask[d].node] ELSE gRow
      /\ gTask[d].node \in G!Nodes
  BY MoveTyped DEF G!RecordMigrate, G!At, G!Ended, MoveRecords
<1>2. PhaseOf([gTask[d] EXCEPT !.pc = "completed"], gPx[d])
  BY <1>1 DEF PhaseOf, MoveRecords
<1>3. /\ gRow' \in [G!Keys -> GuestRows] /\ \A j \in G!Keys \ {gTask[d].key} : gRow'[j] = gRow[j]
  BY <1>1, MoveRest DEF GuestRows
<1>4. RowsFollow'
  BY <1>1, <1>3, RowsOwn DEF G!Ended
<1> QED BY <1>1, <1>2, <1>3, <1>4, GoesOn, MoveRest, EventsBound DEF MovePcs

LEMMA SaveTargetInv ==
    ASSUME MovesInv, NEW d \in Moves, G!SaveTarget(d)
    PROVE  MovesInv'
<1> DEFINE k == gTask[d].key
           to == gTask[d].dest
<1>1. /\ gTask[d].pc = "record" /\ gTask[d].kind = "remote" /\ gTask[d] \in MoveRecords
      /\ PhaseOf(gTask[d], gPx[d]) /\ gTask[d].pc \notin G!Ended
      /\ UNCHANGED <<gPx, gGuest, gAlloc, gDisturbed, gEvents>>
  BY MoveTyped DEF G!SaveTarget, G!At, G!Ended
<1>2. /\ k \in G!Keys /\ to \in G!Keys /\ k # to /\ gTask[d].node \in G!Nodes
      /\ gRow[k] \in GuestRows /\ gRow[to] \in GuestRows
  BY <1>1, MoveTyped DEF PhaseOf, MoveRecords
<1>3. CASE gRow[k].live
  <2>1. PICK pc \in {"unlink", "completed"} : G!GoTo(d, pc) /\ (pc = "unlink" => gTask[d].drop)
    BY <1>3 DEF G!SaveTarget
  <2>2. gRow' = G!Saved(to, gRow[k].owned \/ gRow[to].owned, gRow[k].tpl, gTask[d].node)
    BY <1>3 DEF G!SaveTarget
  <2>3. /\ gRow' \in [G!Keys -> GuestRows] /\ \A j \in G!Keys \ {to} : gRow'[j] = gRow[j]
        /\ gRow'[to].live /\ gRow'[to].owned = (gRow[k].owned \/ gRow[to].owned)
    <3>1. (gRow[k].owned \/ gRow[to].owned) \in BOOLEAN /\ gRow[k].tpl \in BOOLEAN
      BY <1>2 DEF GuestRows
    <3> HIDE DEF k, to
    <3> QED BY <1>2, <2>2, <3>1, SavedRow
  <2>4. PhaseOf([gTask[d] EXCEPT !.pc = pc], gPx[d])
    BY <1>1, <2>1 DEF PhaseOf, MoveRecords
  <2>5. gRow'[k] = gRow[k]
    BY <1>2, <2>3
  <2>6. RowsFollow'
    BY <1>1, <1>3, <2>1, <2>3, <2>5, RowsOwn
  <2> QED BY <1>1, <2>1, <2>3, <2>4, <2>6, GoesOn, MoveRest, EventsBound DEF MovePcs
<1>4. CASE ~gRow[k].live
  <2>1. UNCHANGED gRow /\ G!GoTo(d, "completed")
    BY <1>4 DEF G!SaveTarget
  <2>2. PhaseOf([gTask[d] EXCEPT !.pc = "completed"], gPx[d])
    BY <1>1 DEF PhaseOf, MoveRecords
  <2>3. RowsFollow'
    BY <1>1, <2>1, RowsLeft
  <2> QED BY <1>1, <2>1, <2>2, <2>3, GoesOn, MoveRest, EventsBound DEF MovePcs
<1> QED BY <1>3, <1>4

LEMMA SoftDeletedRow ==
    ASSUME MovesInv, NEW k \in G!Keys, G!SoftDeleted(k)
    PROVE  /\ gRow' \in [G!Keys -> GuestRows] /\ gAlloc' \subseteq G!Keys
           /\ \A j \in G!Keys \ {k} : gRow'[j] = gRow[j] /\ (j \in gAlloc => j \in gAlloc')
           /\ gRow'[k].owned = gRow[k].owned
<1>1. gRow \in [G!Keys -> GuestRows] /\ gRow[k] \in GuestRows /\ gAlloc \subseteq G!Keys
  BY MoveRest
<1>2. CASE gRow[k].live
  BY <1>1, <1>2 DEF G!SoftDeleted, GuestRows
<1>3. CASE ~gRow[k].live
  BY <1>1, <1>3 DEF G!SoftDeleted
<1> QED BY <1>2, <1>3

LEMMA UnlinkSourceInv ==
    ASSUME MovesInv, NEW d \in Moves, G!UnlinkSource(d)
    PROVE  MovesInv'
<1>1. /\ gTask[d].pc = "unlink" /\ gTask[d].kind = "remote" /\ gTask[d] \in MoveRecords
      /\ PhaseOf(gTask[d], gPx[d]) /\ gTask[d].pc \notin G!Ended /\ gTask[d].key \in G!Keys
      /\ UNCHANGED <<gPx, gGuest, gDisturbed, gEvents>> /\ G!GoTo(d, "completed")
      /\ G!SoftDeleted(gTask[d].key)
  BY MoveTyped DEF G!UnlinkSource, G!At, G!Ended
<1>2. PhaseOf([gTask[d] EXCEPT !.pc = "completed"], gPx[d])
  BY <1>1 DEF PhaseOf, MoveRecords
<1>3. /\ gRow' \in [G!Keys -> GuestRows] /\ \A j \in G!Keys \ {gTask[d].key} : gRow'[j] = gRow[j]
      /\ gAlloc' \subseteq G!Keys
  BY <1>1, SoftDeletedRow
<1>4. RowsFollow'
  BY <1>1, <1>3, RowsOwn DEF G!Ended
<1> QED BY <1>1, <1>2, <1>3, <1>4, GoesOn, MoveRest, EventsBound DEF MovePcs

LEMMA RecordFailsInv ==
    ASSUME MovesInv, NEW d \in Moves, G!RecordFails(d)
    PROVE  MovesInv'
<1>1. /\ gTask[d].pc \in {"record", "unlink", "copied"} /\ gTask[d] \in MoveRecords
      /\ PhaseOf(gTask[d], gPx[d]) /\ gTask[d].pc \notin G!Ended
      /\ UNCHANGED <<gPx, gGuest, gRow>> /\ G!GoTo(d, "completed") /\ gEvents' \in 0..MaxEvents
      /\ gDisturbed' = gDisturbed \union {d}
  BY MoveTyped, EventsBound DEF G!RecordFails, G!At, G!Ended
<1>2. PhaseOf([gTask[d] EXCEPT !.pc = "completed"], gPx[d])
  BY <1>1 DEF PhaseOf, MoveRecords
<1>3. gAlloc' \subseteq G!Keys
  BY MoveRest DEF G!RecordFails
<1>4. RowsFollow'
  BY <1>1, RowsLeft
<1> QED BY <1>1, <1>2, <1>3, <1>4, GoesOn, MoveRest DEF MovePcs

\* Where a move touches is where it meets another one.
LEMMA TouchesIs ==
    ASSUME NEW e \in Moves, NEW k
    PROVE  G!Touches(e, k) <=> Working(e) /\ k \in {gTask[e].key, gTask[e].dest}
  BY DEF G!Touches, G!UnderWay, G!Active, Working

\* A job that gets another record without a Proxmox task under way, every
\* operation at its guests disturbed, and it with them.
LEMMA Rerouted ==
    ASSUME MovesInv, NEW d \in Moves, NEW r \in MoveRecords, gTask' = [gTask EXCEPT ![d] = r],
           r.pc \notin {"moving", "record", "unlink"}, gPx[d] = "none", PhaseOf(r, "none"),
           UNCHANGED <<gPx, gGuest, gRow, gAlloc>>, gEvents' \in 0..MaxEvents,
           gDisturbed \subseteq gDisturbed', gDisturbed' \subseteq Moves,
           \A e \in Moves \ {d} : Working(e) /\ Meet(r, gTask[e]) => {d, e} \subseteq gDisturbed',
           d \notin gDisturbed' /\ r.kind = "remote" => gRow[r.key].live
    PROVE  MovesInv'
<1>1. /\ gTask' \in [Moves -> MoveRecords] /\ gTask'[d] = r /\ \A e \in Moves \ {d} : gTask'[e] = gTask[e]
  BY MoveRest
<1>2. MoveTypes'
  BY <1>1 DEF MovesInv, MoveTypes
<1>3. Phases'
  BY <1>1 DEF MovesInv, Phases
<1>4. HeldOnce'
  BY <1>1 DEF MovesInv, HeldOnce
<1>5. Exclusive'
  <2> SUFFICES ASSUME NEW e \in Moves, NEW f \in Moves, e # f, Working(e)', Working(f)', Meet(gTask'[e], gTask'[f])
               PROVE  e \in gDisturbed'
    BY DEF Exclusive, Meet
  <2>1. \A x \in Moves \ {d} : Working(x)' <=> Working(x)
    BY <1>1 DEF Working
  <2>2. CASE e = d
    BY <1>1, <2>1, <2>2
  <2>3. CASE f = d
    <3>1. Meet(r, gTask[e])
      BY <1>1, <2>3 DEF Meet
    <3> QED BY <2>1, <2>3, <3>1
  <2>4. CASE e # d /\ f # d
    BY <1>1, <2>1, <2>4 DEF MovesInv, Exclusive
  <2> QED BY <2>2, <2>3, <2>4
<1>6. SourceEmpty'
  BY <1>1 DEF MovesInv, SourceEmpty, Emptied
<1>7. RowsFollow'
  BY <1>1 DEF MovesInv, RowsFollow
<1> QED BY <1>2, <1>3, <1>4, <1>5, <1>6, <1>7 DEF MovesInv

LEMMA SubmittedInv ==
    ASSUME MovesInv, NEW d \in Moves, NEW r \in MoveRecords, G!Submitted(d, r), r.pc = "queued",
           r.kind = "remote" => r.key # r.dest, r.kind = "reinstall" => r.key = r.dest
    PROVE  MovesInv'
<1> DEFINE others == {e \in Moves : G!Touches(e, r.key) \/ G!Touches(e, r.dest)}
<1>1. /\ gTask[d].pc = "none" /\ gTask' = [gTask EXCEPT ![d] = r] /\ UNCHANGED <<gPx, gGuest, gRow, gAlloc, gEvents>>
      /\ gDisturbed' = gDisturbed \union others \union (IF others # {} \/ ~gRow[r.key].live THEN {d} ELSE {})
  BY DEF G!Submitted
<1>2. gPx[d] = "none" /\ PhaseOf(r, "none")
  BY <1>1, MoveTyped DEF PhaseOf
<1>3. \A e \in Moves \ {d} : Working(e) /\ Meet(r, gTask[e]) => e \in others
  BY TouchesIs DEF Meet
<1>4. gDisturbed \subseteq gDisturbed' /\ gDisturbed' \subseteq Moves
  BY <1>1, MoveRest
<1>5. \A e \in Moves \ {d} : Working(e) /\ Meet(r, gTask[e]) => {d, e} \subseteq gDisturbed'
  BY <1>1, <1>3
<1>6. d \notin gDisturbed' => gRow[r.key].live
  BY <1>1
<1> QED BY <1>1, <1>2, <1>4, <1>5, <1>6, Rerouted, EventsBound

LEMMA RequestInv ==
    ASSUME MovesInv, NEW d \in Moves, NEW k \in G!Keys,
           \/ G!Reinstall(d, k)
           \/ \E n \in G!Nodes : G!Clone(d, k, n) \/ G!Migrate(d, k, n)
           \/ \E v \in G!Vmids, drop \in BOOLEAN : G!RemoteMigrate(d, k, v, drop)
    PROVE  MovesInv'
<1>1. G!NoTask \in MoveRecords /\ G!NoTask = [pc |-> "none", kind |-> "clone", key |-> G!Home, dest |-> G!Home,
                                              node |-> 1, drop |-> FALSE]
  BY ServicesAssumption
  DEF G!NoTask, MoveRecords, MovePcs, G!Kinds, G!Home, G!Keys, G!Servers, G!Vmids, G!Nodes
<1>2. CASE G!Reinstall(d, k)
  <2> DEFINE r == [G!NoTask EXCEPT !.pc = "queued", !.kind = "reinstall", !.key = k, !.dest = k, !.node = gRow[k].node]
  <2>1. gRow[k].node \in G!Nodes
    BY MoveRest DEF GuestRows
  <2>2. r \in MoveRecords /\ r.pc = "queued" /\ r.kind = "reinstall" /\ r.key = r.dest
    BY <1>1, <2>1 DEF MoveRecords, MovePcs, G!Kinds
  <2>3. G!Submitted(d, r)
    BY <1>2 DEF G!Reinstall
  <2> HIDE DEF r
  <2> QED BY <2>2, <2>3, SubmittedInv
<1>3. ASSUME NEW n \in G!Nodes, NEW kind \in {"clone", "migrate"},
             G!Submitted(d, [G!NoTask EXCEPT !.pc = "queued", !.kind = kind, !.key = k, !.dest = k, !.node = n])
      PROVE  MovesInv'
  <2> DEFINE r == [G!NoTask EXCEPT !.pc = "queued", !.kind = kind, !.key = k, !.dest = k, !.node = n]
  <2>1. r \in MoveRecords /\ r.pc = "queued" /\ r.kind = kind
    BY <1>1 DEF MoveRecords, MovePcs, G!Kinds
  <2>2. G!Submitted(d, r)
    BY <1>3
  <2> HIDE DEF r
  <2> QED BY <2>1, <2>2, SubmittedInv
<1>4. ASSUME NEW v \in G!Vmids, NEW drop \in BOOLEAN, G!RemoteMigrate(d, k, v, drop)
      PROVE  MovesInv'
  <2> DEFINE to == [srv |-> 3 - k.srv, vmid |-> v]
             r == [G!NoTask EXCEPT !.pc = "queued", !.kind = "remote", !.key = k, !.dest = to, !.drop = drop]
  <2>1. to \in G!Keys /\ to # k
    BY DEF G!Keys, G!Servers
  <2>2. G!Submitted(d, r)
    BY <1>4 DEF G!RemoteMigrate
  <2> HIDE DEF to
  <2>3. r \in MoveRecords /\ r.pc = "queued" /\ r.kind = "remote" /\ r.key = k /\ r.dest = to
    BY <1>1, <2>1 DEF MoveRecords, MovePcs, G!Kinds
  <2> HIDE DEF r
  <2> QED BY <2>1, <2>2, <2>3, SubmittedInv
<1> QED BY <1>2, <1>3, <1>4 DEF G!Clone, G!Migrate

LEMMA PickVmidInv ==
    ASSUME MovesInv, NEW d \in Moves, G!PickVmid(d)
    PROVE  MovesInv'
<1>1. /\ gTask[d].pc = "vmid" /\ gTask[d].kind = "clone" /\ gTask[d] \in MoveRecords
      /\ PhaseOf(gTask[d], gPx[d]) /\ gTask[d].pc \notin G!Ended /\ gPx[d] = "none"
      /\ UNCHANGED <<gPx, gGuest, gRow, gAlloc>>
  BY MoveTyped DEF G!PickVmid, G!At, G!Ended, PhaseOf
<1>2. CASE G!GoTo(d, "failed") /\ UNCHANGED <<gDisturbed, gEvents>>
  <2>1. PhaseOf([gTask[d] EXCEPT !.pc = "failed"], gPx[d])
    BY <1>1 DEF PhaseOf, MoveRecords
  <2>2. RowsFollow'
    BY <1>1, <1>2, RowsLeft
  <2> QED BY <1>1, <1>2, <2>1, <2>2, GoesOn, MoveRest, EventsBound DEF MovePcs
<1>3. ASSUME NEW k \in G!Keys, gTask' = [gTask EXCEPT ![d].dest = k, ![d].pc = "clone"],
             gDisturbed' = IF \E e \in Moves \ {d} : G!Touches(e, k)
                           THEN gDisturbed \union {d} \union {e \in Moves : G!Touches(e, k)} ELSE gDisturbed,
             G!Event \/ UNCHANGED gEvents
      PROVE  MovesInv'
  <2> DEFINE r == [gTask[d] EXCEPT !.dest = k, !.pc = "clone"]
  <2>1. gTask' = [gTask EXCEPT ![d] = r]
    BY <1>1, <1>3, MoveRest DEF MoveRecords
  <2>2. r \in MoveRecords /\ r.pc = "clone" /\ r.kind = "clone" /\ r.key = gTask[d].key /\ r.dest = k
    BY <1>1 DEF MoveRecords, MovePcs
  <2> HIDE DEF r
  <2>3. PhaseOf(r, "none")
    BY <2>2 DEF PhaseOf
  <2>4. gDisturbed \subseteq gDisturbed' /\ gDisturbed' \subseteq Moves /\ gEvents' \in 0..MaxEvents
    BY <1>3, MoveRest, EventsBound
  <2>5. ASSUME NEW e \in Moves \ {d}, Working(e), Meet(r, gTask[e])
        PROVE  {d, e} \subseteq gDisturbed'
    <3>1. CASE Meet(gTask[d], gTask[e])
      <4>1. Working(d) /\ Meet(gTask[e], gTask[d])
        BY <1>1, <3>1 DEF Working, Meet
      <4> QED BY <2>4, <2>5, <3>1, <4>1 DEF MovesInv, Exclusive
    <3>2. CASE k \in {gTask[e].key, gTask[e].dest}
      <4>1. G!Touches(e, k)
        BY <2>5, <3>2, TouchesIs
      <4> QED BY <1>3, <4>1
    <3> QED BY <2>2, <2>5, <3>1, <3>2 DEF Meet
  <2> QED BY <1>1, <2>1, <2>2, <2>3, <2>4, <2>5, Rerouted
<1>4. \/ G!GoTo(d, "failed") /\ UNCHANGED <<gDisturbed, gEvents>>
      \/ \E k \in G!Keys : /\ gTask' = [gTask EXCEPT ![d].dest = k, ![d].pc = "clone"]
                           /\ gDisturbed' = IF \E e \in Moves \ {d} : G!Touches(e, k)
                                            THEN gDisturbed \union {d} \union {e \in Moves : G!Touches(e, k)}
                                            ELSE gDisturbed
                           /\ G!Event \/ UNCHANGED gEvents
  BY DEF G!PickVmid
<1> QED BY <1>2, <1>3, <1>4

\* What a Proxmox task does at its end to the guests: it changes those of its
\* operation only, keeps or clears who made them, and frees the one it held.
LEMMA EndsAtItsOwn ==
    ASSUME MovesInv, NEW d \in Moves, G!TaskEnds(d)
    PROVE  /\ gGuest' \in [G!Keys -> GuestRecords]
           /\ \A j \in G!Keys \ {gTask[d].key, gTask[d].dest} : gGuest'[j] = gGuest[j]
           /\ \A j \in G!Keys : \/ gGuest'[j].st = "none" \/ gGuest'[j].by = d
                                \/ gGuest'[j].by = gGuest[j].by /\ gGuest[j].st # "none"
           /\ \A j \in G!Keys \ {HeldBy(gTask[d])} : gGuest[j].st # "none" => gGuest'[j] = gGuest[j]
           /\ gTask[d].kind = "remote" /\ gTask[d].drop /\ gPx'[d] = "ok" => gGuest'[gTask[d].key].st = "none"
<1> DEFINE k == gTask[d].key
           to == gTask[d].dest
           h == HeldBy(gTask[d])
           n == gTask[d].node
           made == [st |-> "present", node |-> n, by |-> d]
<1>1. /\ k \in G!Keys /\ to \in G!Keys /\ h \in G!Keys /\ n \in G!Nodes /\ gTask[d].kind \in G!Kinds
      /\ gGuest \in [G!Keys -> GuestRecords] /\ \A j \in G!Keys : gGuest[j] \in GuestRecords
      /\ gGuest[h].st \in {"locked", "creating"} /\ gPx[d] = "running"
      /\ gPx \in [Moves -> {"none", "running", "ok", "failed"}]
      /\ gTask[d].kind = "remote" => k # to /\ h = k
      /\ gTask[d].kind = "migrate" => h = k
      /\ gTask[d].kind \in {"clone", "reinstall"} => h = to
      /\ h = k \/ h = to
  BY MoveTyped, MoveRest DEF G!TaskEnds, MovesInv, HeldOnce, PhaseOf, HeldBy, MoveRecords
<1>2. /\ G!NoGuest \in GuestRecords /\ G!NoGuest.st = "none"
      /\ made \in GuestRecords /\ made.by = d
      /\ \A j \in G!Keys, st \in {"present"} : /\ [gGuest[j] EXCEPT !.st = st] \in GuestRecords
                                               /\ [gGuest[j] EXCEPT !.st = st].by = gGuest[j].by
      /\ \A j \in G!Keys : /\ [gGuest[j] EXCEPT !.st = "present", !.node = n] \in GuestRecords
                           /\ [gGuest[j] EXCEPT !.st = "present", !.node = n].by = gGuest[j].by
  BY <1>1 DEF GuestRecords, G!NoGuest, G!Nodes, G!Old
<1>3. CASE gPx' = [gPx EXCEPT ![d] = "failed"]
            /\ gGuest' = [gGuest EXCEPT ![G!Held(d)] = IF @.st = "creating" THEN G!NoGuest
                                                       ELSE [@ EXCEPT !.st = "present"]]
  <2>1. PICK g : /\ gGuest' = [gGuest EXCEPT ![h] = g]
                 /\ g = IF gGuest[h].st = "creating" THEN G!NoGuest ELSE [gGuest[h] EXCEPT !.st = "present"]
    BY <1>1, <1>3 DEF G!Held, HeldBy
  <2>2. gPx'[d] = "failed"
    BY <1>1, <1>3
  <2> HIDE DEF k, to, h, made, n
  <2>3. g \in GuestRecords /\ (g.st = "none" \/ g.by = gGuest[h].by)
    BY <1>1, <1>2, <2>1
  <2> QED BY <1>1, <2>1, <2>2, <2>3 DEF k, to, h
<1>4. CASE /\ gTask[d].kind = "remote" => gGuest[to].st = "none"
           /\ gGuest' = G!Effect(d)
  <2>1. CASE gTask[d].kind = "migrate"
    <3>1. gGuest' = [gGuest EXCEPT ![k] = [gGuest[k] EXCEPT !.st = "present", !.node = n]]
      BY <1>1, <1>4, <2>1 DEF G!Effect
    <3> HIDE DEF k, to, h, made, n
    <3> QED BY <1>1, <1>2, <2>1, <3>1, ZenonT(60) DEF k, to, h
  <2>2. CASE gTask[d].kind = "remote" /\ gTask[d].drop
    <3>1. gGuest' = [gGuest EXCEPT ![k] = G!NoGuest, ![to] = made]
      BY <1>4, <2>2 DEF G!Effect
    <3> HIDE DEF k, to, h, made, n
    <3> QED BY <1>1, <1>2, <1>4, <2>2, <3>1, ZenonT(60) DEF k, to, h
  <2>3. CASE gTask[d].kind = "remote" /\ ~gTask[d].drop
    <3>1. gGuest' = [gGuest EXCEPT ![k] = [gGuest[k] EXCEPT !.st = "present"], ![to] = made]
      BY <1>1, <1>4, <2>3 DEF G!Effect
    <3> HIDE DEF k, to, h, made, n
    <3>2. /\ gGuest'[to] = made /\ gGuest'[k] = [gGuest[k] EXCEPT !.st = "present"]
          /\ \A j \in G!Keys \ {k, to} : gGuest'[j] = gGuest[j]
      BY <1>1, <2>3, <3>1
    <3>3. gGuest' \in [G!Keys -> GuestRecords]
      BY <1>1, <1>2, <3>1
    <3>4. gGuest'[k].by = gGuest[k].by /\ gGuest[k].st # "none" /\ gGuest[to].st = "none"
      BY <1>1, <1>2, <1>4, <2>3, <3>2
    <3> QED BY <1>1, <1>2, <2>3, <3>2, <3>3, <3>4, ZenonT(60) DEF k, to, h
  <2>4. CASE gTask[d].kind \in {"clone", "reinstall"}
    <3>1. gGuest' = [gGuest EXCEPT ![to] = IF gGuest[to].st = "creating" THEN [gGuest[to] EXCEPT !.st = "present"]
                                           ELSE G!NoGuest]
      BY <1>1, <1>4, <2>4 DEF G!Effect
    <3> HIDE DEF k, to, h, made, n
    <3> QED BY <1>1, <1>2, <2>4, <3>1, ZenonT(60) DEF k, to, h
  <2> QED BY <1>1, <2>1, <2>2, <2>3, <2>4 DEF G!Kinds
<1> QED BY <1>3, <1>4 DEF G!TaskEnds

LEMMA TaskEndsInv ==
    ASSUME MovesInv, NEW d \in Moves, G!TaskEnds(d)
    PROVE  MovesInv'
<1>1. /\ gPx[d] = "running" /\ UNCHANGED <<gTask, gRow, gAlloc, gDisturbed, gEvents>>
      /\ gPx' \in [Moves -> {"none", "running", "ok", "failed"}] /\ gPx'[d] \in {"ok", "failed"}
      /\ \A e \in Moves \ {d} : gPx'[e] = gPx[e]
  BY MoveRest DEF G!TaskEnds
<1>2. MoveTypes'
  BY <1>1, EndsAtItsOwn DEF MovesInv, MoveTypes
<1>3. Phases'
  <2>1. PhaseOf(gTask[d], gPx'[d])
    BY <1>1, MoveTyped DEF PhaseOf
  <2> QED BY <1>1, <2>1 DEF MovesInv, Phases
<1>4. HeldOnce'
  <2>1. ASSUME NEW e \in Moves, gPx'[e] = "running"
        PROVE  gGuest'[HeldBy(gTask[e])].st \in {"locked", "creating"}
    <3>1. /\ e # d /\ gPx[e] = "running" /\ HeldBy(gTask[e]) # HeldBy(gTask[d])
          /\ gGuest[HeldBy(gTask[e])].st \in {"locked", "creating"}
      BY <1>1, <2>1 DEF MovesInv, HeldOnce
    <3> QED BY <3>1, EndsAtItsOwn, MoveTyped
  <2> QED BY <1>1, <2>1 DEF MovesInv, HeldOnce
<1>5. Exclusive'
  BY <1>1 DEF MovesInv, Exclusive, Working
<1>6. SourceEmpty'
  <2> SUFFICES ASSUME NEW e \in Moves, Emptied(e)'
               PROVE  gGuest'[gTask[e].key].st = "none" \/ gGuest'[gTask[e].key].by \in gDisturbed
    BY <1>1 DEF SourceEmpty
  <2>1. CASE e = d
    BY <1>1, <2>1, EndsAtItsOwn DEF Emptied
  <2>2. CASE e # d
    <3>1. Emptied(e) /\ Working(e) /\ Working(d)
      BY <1>1, <2>2 DEF Emptied, Working, G!Ended
    <3>2. gGuest[gTask[e].key].st = "none" \/ gGuest[gTask[e].key].by \in gDisturbed
      BY <3>1 DEF MovesInv, SourceEmpty
    <3>3. CASE gTask[e].key \in {gTask[d].key, gTask[d].dest}
      <4>1. d \in gDisturbed
        BY <2>2, <3>1, <3>3 DEF MovesInv, Exclusive, Meet
      <4> QED BY <3>2, <4>1, EndsAtItsOwn, MoveTyped
    <3>4. CASE gTask[e].key \notin {gTask[d].key, gTask[d].dest}
      BY <3>2, <3>4, EndsAtItsOwn, MoveTyped
    <3> QED BY <3>3, <3>4
  <2> QED BY <2>1, <2>2
<1>7. RowsFollow'
  BY <1>1 DEF MovesInv, RowsFollow
<1> QED BY <1>2, <1>3, <1>4, <1>5, <1>6, <1>7 DEF MovesInv

\* A pass or a deletion at a guest disturbs the operations there.
LEMMA DisturbedRows ==
    ASSUME MovesInv, NEW k \in G!Keys, UNCHANGED gTask, G!SoftDeleted(k), G!Disturb(k)
    PROVE  /\ gDisturbed \subseteq gDisturbed' /\ gDisturbed' \subseteq Moves /\ RowsFollow'
<1>1. gDisturbed \subseteq gDisturbed' /\ gDisturbed' \subseteq Moves
  BY MoveRest DEF G!Disturb
<1>2. \A d \in Moves \ gDisturbed' : gTask[d].pc \notin G!Ended => k \notin {gTask[d].key, gTask[d].dest}
  BY TouchesIs DEF G!Disturb, Working
<1>3. \A j \in G!Keys \ {k} : gRow'[j] = gRow[j]
  BY SoftDeletedRow
<1> QED BY <1>1, <1>2, <1>3, MoveTyped DEF MovesInv, RowsFollow

LEMMA MoveSyncInv ==
    ASSUME MovesInv, NEW k \in G!Keys, G!Synchronise(k)
    PROVE  MovesInv'
<1>1. UNCHANGED <<gTask, gPx, gGuest, gEvents>>
  BY DEF G!Synchronise
<1>2. /\ gRow' \in [G!Keys -> GuestRows] /\ gAlloc' \subseteq G!Keys
      /\ gDisturbed \subseteq gDisturbed' /\ gDisturbed' \subseteq Moves /\ RowsFollow'
  <2>1. CASE gRow' = [gRow EXCEPT ![k].live = TRUE, ![k].node = gGuest[k].node] /\ UNCHANGED <<gAlloc, gDisturbed>>
    <3>1. /\ gRow \in [G!Keys -> GuestRows] /\ gRow[k] \in GuestRows /\ gGuest[k].node \in G!Nodes
      BY MoveRest DEF GuestRecords
    <3>2. /\ gRow' \in [G!Keys -> GuestRows] /\ gRow'[k].live
          /\ \A j \in G!Keys : gRow'[j].owned = gRow[j].owned /\ (gRow[j].live => gRow'[j].live)
      BY <2>1, <3>1 DEF GuestRows
    <3>3. RowsFollow'
      BY <1>1, <2>1, <3>2, MoveTyped DEF MovesInv, RowsFollow
    <3> QED BY <2>1, <3>2, <3>3, MoveRest
  <2>2. CASE G!SoftDeleted(k) /\ G!Disturb(k)
    BY <1>1, <2>2, SoftDeletedRow, DisturbedRows
  <2> QED BY <2>1, <2>2 DEF G!Synchronise
<1>3. MoveTypes'
  BY <1>1, <1>2 DEF MovesInv, MoveTypes
<1>4. Phases' /\ HeldOnce'
  BY <1>1 DEF MovesInv, Phases, HeldOnce
<1>5. Exclusive' /\ SourceEmpty'
  BY <1>1, <1>2 DEF MovesInv, Exclusive, Working, SourceEmpty, Emptied
<1> QED BY <1>2, <1>3, <1>4, <1>5 DEF MovesInv

LEMMA MoveDeleteInv ==
    ASSUME MovesInv, NEW k \in G!Keys, G!Delete(k)
    PROVE  MovesInv'
<1>1. /\ gGuest[k].st = "present" /\ gEvents' \in 0..MaxEvents /\ gGuest' = [gGuest EXCEPT ![k] = G!NoGuest]
      /\ G!SoftDeleted(k) /\ G!Disturb(k) /\ UNCHANGED <<gTask, gPx>>
  BY EventsBound DEF G!Delete, G!Present
<1>2. G!NoGuest \in GuestRecords /\ G!NoGuest.st = "none"
  BY DEF GuestRecords, G!NoGuest, G!Nodes, G!Old
<1>3. /\ gGuest' \in [G!Keys -> GuestRecords] /\ gGuest'[k].st = "none"
      /\ \A j \in G!Keys \ {k} : gGuest'[j] = gGuest[j]
  BY <1>1, <1>2, MoveRest
<1>4. /\ gDisturbed \subseteq gDisturbed' /\ gDisturbed' \subseteq Moves /\ RowsFollow'
      /\ gRow' \in [G!Keys -> GuestRows] /\ gAlloc' \subseteq G!Keys
  BY <1>1, DisturbedRows, SoftDeletedRow
<1>5. MoveTypes'
  BY <1>1, <1>3, <1>4 DEF MovesInv, MoveTypes
<1>6. Phases'
  BY <1>1 DEF MovesInv, Phases
<1>7. HeldOnce'
  BY <1>1, <1>3, MoveTyped DEF MovesInv, HeldOnce
<1>8. Exclusive'
  BY <1>1, <1>4 DEF MovesInv, Exclusive, Working
<1>9. SourceEmpty'
  BY <1>1, <1>3, <1>4, MoveTyped DEF MovesInv, SourceEmpty, Emptied
<1> QED BY <1>4, <1>5, <1>6, <1>7, <1>8, <1>9 DEF MovesInv

LEMMA MoveCrashInv ==
    ASSUME MovesInv, G!Crash
    PROVE  MovesInv'
<1>1. /\ UNCHANGED <<gPx, gGuest, gRow, gAlloc, gDisturbed>> /\ gEvents' \in 0..MaxEvents
      /\ gTask' = [d \in Moves |-> IF d \in G!Active THEN [gTask[d] EXCEPT !.pc = "lost"] ELSE gTask[d]]
  BY EventsBound DEF G!Crash
<1>2. \A d \in Moves : /\ gTask'[d] \in MoveRecords
                       /\ gTask'[d].key = gTask[d].key /\ gTask'[d].dest = gTask[d].dest
                       /\ gTask'[d].kind = gTask[d].kind /\ gTask'[d].drop = gTask[d].drop
                       /\ gTask'[d].pc \in G!Ended
                       /\ gTask'[d].pc = gTask[d].pc \/ gTask'[d].pc = "lost"
  BY <1>1, MoveTyped DEF MoveRecords, MovePcs, G!Active, G!Ended
<1>3. MoveTypes'
  BY <1>1, <1>2 DEF MovesInv, MoveTypes
<1>4. Phases'
  BY <1>1, <1>2 DEF MovesInv, Phases, PhaseOf
<1>5. HeldOnce'
  BY <1>1, <1>2 DEF MovesInv, HeldOnce, HeldBy
<1>6. Exclusive'
  BY <1>1, <1>2 DEF MovesInv, Exclusive, Working, Meet
<1>7. SourceEmpty' /\ RowsFollow'
  BY <1>1, <1>2 DEF SourceEmpty, Emptied, RowsFollow, G!Ended
<1> QED BY <1>3, <1>4, <1>5, <1>6, <1>7 DEF MovesInv

LEMMA MovesStep ==
    ASSUME MovesInv, [Next]_vars
    PROVE  MovesInv'
<1>1. CASE UNCHANGED movesVars
  BY <1>1 DEF movesVars, MovesInv, MoveTypes, Phases, HeldOnce, Exclusive, Working, SourceEmpty, Emptied, RowsFollow
<1>2. CASE G!Next
  <2>1. ASSUME NEW d \in Moves, G!JobStep(d) PROVE MovesInv'
    BY <2>1, MoveConnectInv, DestroyInv, CreateInv, WaitsInv, PickVmidInv, CloneGuestInv, RegisterCloneInv,
       CallMigrateInv, RecordMigrateInv, SaveTargetInv, UnlinkSourceInv
    DEF G!JobStep
  <2> QED BY <1>2, <2>1, RequestInv, RecordFailsInv, RefusedInv, TaskEndsInv, MoveSyncInv, MoveDeleteInv, MoveCrashInv
          DEF G!Next
<1> QED BY <1>1, <1>2 DEF Next, vars, AppStep, DeploymentStep, MoveStep, BackupJobStep, SocketStep,
                          AccountStep, MonitorStep

\* Which steps report a migration to another server completed.
LEMMA Completes ==
    ASSUME MovesInv, G!Next, NEW d \in Moves, gTask[d].kind = "remote", gTask[d].pc \notin G!Ended,
           gTask'[d].pc = "completed", d \notin gDisturbed'
    PROVE  G!SaveTarget(d) \/ G!UnlinkSource(d)
<1> DEFINE Other == gTask'[d] = gTask[d]
<1>1. gTask \in [Moves -> MoveRecords] /\ gTask[d].pc # "completed" /\ gTask[d].pc # "none"
  BY MoveRest DEF G!Ended
<1>2. \A e \in Moves : \A r : e # d /\ gTask' = [gTask EXCEPT ![e] = r] => Other
  BY <1>1
<1>3. \A e \in Moves : \A pc : e # d /\ G!GoTo(e, pc) => Other
  BY <1>1 DEF G!GoTo
<1>4. ~Other
  BY <1>1
<1> HIDE DEF Other
<1>5. ASSUME NEW pc, G!GoTo(d, pc) PROVE pc = "completed"
  BY <1>1, <1>5 DEF G!GoTo, MoveRecords
<1>6. ASSUME NEW e \in Moves, NEW r, G!Submitted(e, r) PROVE FALSE
  BY <1>1, <1>2, <1>4, <1>6 DEF G!Submitted
<1>7. ASSUME NEW e \in Moves, G!JobStep(e) PROVE G!SaveTarget(d) \/ G!UnlinkSource(d)
  <2>1. CASE G!PickVmid(e)
    <3>1. CASE e = d
      BY <1>1, <2>1, <3>1 DEF G!PickVmid, G!At
    <3>2. CASE e # d
      <4>1. gTask'[d] = gTask[d]
        BY <1>1, <2>1, <3>2 DEF G!PickVmid, G!GoTo
      <4> QED BY <1>1, <4>1
    <3> QED BY <3>1, <3>2
  <2>2. ASSUME e # d, ~G!PickVmid(e) PROVE FALSE
    <3>1. PICK pc : G!GoTo(e, pc)
      BY <1>7, <2>2 DEF G!JobStep, G!Connect, G!Destroy, G!Create, G!FinishReinstall, G!CloneGuest, G!RegisterClone,
         G!CallMigrate, G!AwaitMigrate, G!RecordMigrate, G!SaveTarget, G!UnlinkSource, G!Lock
    <3> QED BY <1>3, <1>4, <2>2, <3>1
  <2>3. CASE e = d /\ ~G!PickVmid(e)
    <3>1. ~G!FinishReinstall(d) /\ ~G!RegisterClone(d) /\ ~G!RecordMigrate(d) /\ ~G!CloneGuest(d)
          /\ ~G!Destroy(d) /\ ~G!Create(d)
      BY DEF G!FinishReinstall, G!RegisterClone, G!RecordMigrate, G!CloneGuest, G!Destroy, G!Create, G!At
    <3>2. ~G!Connect(d)
      BY <1>5 DEF G!Connect, G!First
    <3>3. ~G!CallMigrate(d) /\ ~G!AwaitMigrate(d)
      BY <1>5 DEF G!CallMigrate, G!AwaitMigrate, G!Lock
    <3> QED BY <1>7, <2>3, <3>1, <3>2, <3>3 DEF G!JobStep
  <2> QED BY <2>1, <2>2, <2>3
<1>8. ASSUME NEW e \in Moves, G!RecordFails(e) PROVE FALSE
  BY <1>3, <1>4, <1>8 DEF G!RecordFails
<1>9. ASSUME NEW e \in Moves, G!Refused(e) PROVE FALSE
  BY <1>3, <1>4, <1>5, <1>9 DEF G!Refused
<1>10. ~G!Crash
  BY <1>1 DEF G!Crash, G!Active, MoveRecords
<1>11. UNCHANGED gTask => FALSE
  BY <1>1
<1> QED BY <1>6, <1>7, <1>8, <1>9, <1>10, <1>11
        DEF G!Next, G!Reinstall, G!Clone, G!Migrate, G!RemoteMigrate, G!TaskEnds, G!Synchronise, G!Delete

LEMMA CompletedWithOwner ==
    ASSUME MovesInv, NEW d \in Moves, G!SaveTarget(d) \/ G!UnlinkSource(d), gTask'[d].pc = "completed",
           d \notin gDisturbed', gRow[gTask[d].key].owned
    PROVE  gRow'[gTask[d].dest].live /\ gRow'[gTask[d].dest].owned
<1> DEFINE k == gTask[d].key
           to == gTask[d].dest
<1>1. /\ k \in G!Keys /\ to \in G!Keys /\ k # to /\ gTask[d].node \in G!Nodes /\ gTask[d].kind = "remote"
      /\ gRow[k] \in GuestRows /\ gRow[to] \in GuestRows /\ d \notin gDisturbed /\ gTask[d].pc \notin G!Ended
  BY MoveTyped DEF PhaseOf, MoveRecords, G!SaveTarget, G!UnlinkSource, G!At, G!Ended
<1>2. gRow[k].live /\ (gTask[d].pc = "unlink" => gRow[to].live /\ gRow[to].owned)
  BY <1>1 DEF MovesInv, RowsFollow
<1>3. CASE G!SaveTarget(d)
  <2>1. gRow' = G!Saved(to, gRow[k].owned \/ gRow[to].owned, gRow[k].tpl, gTask[d].node)
    BY <1>2, <1>3 DEF G!SaveTarget
  <2>2. (gRow[k].owned \/ gRow[to].owned) \in BOOLEAN /\ gRow[k].tpl \in BOOLEAN
    BY <1>1 DEF GuestRows
  <2> HIDE DEF k, to
  <2>3. gRow'[to].live /\ gRow'[to].owned = (gRow[k].owned \/ gRow[to].owned)
    BY <1>1, <2>1, <2>2, SavedRow
  <2> QED BY <2>3 DEF k, to
<1>4. CASE G!UnlinkSource(d)
  <2>1. gTask[d].pc = "unlink" /\ G!SoftDeleted(k)
    BY <1>4 DEF G!UnlinkSource, G!At
  <2>2. gRow'[to] = gRow[to]
    BY <1>1, <2>1, SoftDeletedRow
  <2> QED BY <1>2, <2>1, <2>2
<1> QED BY <1>3, <1>4

\* When a migration to another server that nobody disturbed is reported
\* completed, its owner's row is live on the target, also when the cache
\* synchronisation wrote an ownerless one first.
THEOREM OwnerMovesHolds == Spec => OwnerMoves
<1> DEFINE Moved ==
        \A d \in Moves :
            /\ gTask[d].kind = "remote" /\ gTask[d].pc \notin G!Ended /\ gTask'[d].pc = "completed"
            /\ d \notin gDisturbed' /\ gRow[gTask[d].key].owned
            => gRow'[gTask[d].dest].live /\ gRow'[gTask[d].dest].owned
<1>1. Init => MovesInv
  BY MovesInit DEF Init
<1>2. MovesInv /\ [Next]_vars => MovesInv'
  BY MovesStep
<1>3. MovesInv /\ [Next]_vars => [Moved]_(G!vars)
  <2> SUFFICES ASSUME MovesInv, G!Next PROVE Moved
    BY DEF Next, vars, AppStep, DeploymentStep, MoveStep, BackupJobStep, SocketStep, AccountStep,
           MonitorStep, movesVars, G!vars
  <2> QED BY Completes, CompletedWithOwner
<1> QED BY <1>1, <1>2, <1>3, PTL DEF Spec, OwnerMoves, G!OwnerMoves

\* An address goes only after its guest.
LEMMA AddressAfterGuest ==
    ASSUME MovesInv, G!Next, NEW k \in gAlloc \ gAlloc'
    PROVE  gGuest'[k].st = "none" \/ gGuest'[k].by \in gDisturbed
<1>1. k \in G!Keys
  BY MoveRest
<1>2. ASSUME NEW j \in G!Keys, G!SoftDeleted(j) PROVE k = j
  BY <1>1, <1>2, SoftDeletedRow
<1>3. ASSUME NEW d \in Moves, G!UnlinkSource(d) \/ G!RecordFails(d)
      PROVE  gGuest'[k].st = "none" \/ gGuest'[k].by \in gDisturbed
  <2>1. gTask[d].pc = "unlink" /\ k = gTask[d].key /\ gGuest' = gGuest
    <3>1. CASE G!UnlinkSource(d)
      BY <1>2, <3>1, MoveTyped DEF G!UnlinkSource, G!At
    <3>2. CASE G!RecordFails(d)
      BY <3>2 DEF G!RecordFails
    <3> QED BY <1>3, <3>1, <3>2
  <2>2. Emptied(d)
    BY <2>1, MoveTyped DEF Emptied, PhaseOf
  <2> QED BY <2>1, <2>2 DEF MovesInv, SourceEmpty
<1>4. ASSUME NEW j \in G!Keys, G!Synchronise(j) \/ G!Delete(j) PROVE gGuest'[k].st = "none"
  <2>1. G!SoftDeleted(j) /\ k = j
    BY <1>2, <1>4 DEF G!Synchronise, G!Delete
  <2> QED BY <1>1, <1>4, <2>1, MoveRest DEF G!Synchronise, G!Delete, G!NoGuest
<1>5. gAlloc' # gAlloc
  OBVIOUS
<1>6. ASSUME NEW d \in Moves, G!JobStep(d) PROVE G!UnlinkSource(d)
  BY <1>5, <1>6
  DEF G!JobStep, G!Connect, G!Destroy, G!Create, G!FinishReinstall, G!PickVmid, G!CloneGuest, G!RegisterClone,
      G!CallMigrate, G!AwaitMigrate, G!RecordMigrate, G!SaveTarget
<1>7. \A d \in Moves : \A r : ~G!Submitted(d, r)
  BY <1>5 DEF G!Submitted
<1>8. \A d \in Moves : ~G!Refused(d) /\ ~G!TaskEnds(d)
  BY <1>5 DEF G!Refused, G!TaskEnds
<1> QED BY <1>3, <1>4, <1>5, <1>6, <1>7, <1>8
        DEF G!Next, G!Reinstall, G!Clone, G!Migrate, G!RemoteMigrate, G!Crash

-----------------------------------------------------------------------------
(* Deployments.                                                            *)
DeployPcs == D!Ended \union {"queued", "address", "create", "wait", "start", "save"}
DeployRecords ==
    [pc : DeployPcs, kind : D!Kinds, mode : D!Modes, vmid : D!Vmids \union {D!None}, ip : D!Addrs \union {D!None}]
InstanceRecords ==
    [st : {"none", "creating", "there", "destroying"}, by : Deps \union {D!Old}, ip : D!Addrs \union {D!None}]
CacheRows == [live : BOOLEAN, owned : BOOLEAN]
Leases == [ip : D!Addrs, vmid : D!Vmids, by : Deps \union {D!Old}]

DeployTypes ==
    /\ dTask \in [Deps -> DeployRecords] /\ dGuest \in [D!Vmids -> InstanceRecords]
    /\ dCache \in [D!Vmids -> CacheRows] /\ dAlloc \subseteq Leases
    /\ dDel \in [D!Vmids -> {"no", "cache", "release"}]
    /\ dContested \subseteq Deps /\ dOverlapped \in BOOLEAN /\ dEvents \in 0..MaxEvents

\* A job past the choice of its vmid has one; one before it has no address.
Chosen(t) == t.pc \notin D!Ended \union {"queued"}
Begun ==
    /\ \A d \in Deps : /\ Chosen(dTask[d]) => dTask[d].vmid \in D!Vmids
                       /\ dTask[d].pc \in {"none", "queued"} => dTask[d].ip = D!None /\ dTask[d].vmid = D!None
    /\ \A v \in D!Vmids : dGuest[v].by \in Deps => dTask[dGuest[v].by].pc # "none"

\* Two jobs with one vmid are both contested.
OneVmid ==
    \A d, e \in Deps : d # e /\ Chosen(dTask[d]) /\ Chosen(dTask[e]) /\ dTask[d].vmid = dTask[e].vmid => d \in dContested

\* What an uncontested job finds at its vmid until it has asked for the guest.
Early(t) == t.pc = "create" \/ (t.pc = "address" /\ t.kind = "direct")
EarlyFree ==
    \A d \in Deps \ dContested : Early(dTask[d]) =>
        /\ dGuest[dTask[d].vmid].st = "none" /\ ~dCache[dTask[d].vmid].live /\ dDel[dTask[d].vmid] = "no"

\* An uncontested deployment's guest, made or being made, is nowhere in deletion.
Standing(v, d) == dGuest[v].st \in {"creating", "there"} /\ dGuest[v].by = d
NoDeletion == \A v \in D!Vmids : \A d \in Deps \ dContested : Standing(v, d) => dDel[v] = "no"

\* Allocations: whose they are, one to an address.
Lease(x, v, d) == [ip |-> x, vmid |-> v, by |-> d]
LeasesSound ==
    /\ \A l \in dAlloc : l.by \in Deps =>
          /\ dTask[l.by].pc \notin {"none", "queued"}
          /\ Chosen(dTask[l.by]) => l.vmid = dTask[l.by].vmid
    /\ \A l, m \in dAlloc : l.ip = m.ip => l = m

\* An automatic address is allocated as long as its guest stands, or is to be made.
Leased ==
    \A d \in Deps \ dContested : dTask[d].mode = "auto" =>
        /\ \A v \in D!Vmids : Standing(v, d) /\ dGuest[v].ip # D!None => Lease(dGuest[v].ip, v, d) \in dAlloc
        /\ LET v == dTask[d].vmid IN
           /\ dTask[d].ip # D!None
           /\ dTask[d].pc = "create" \/ (dTask[d].pc \in {"wait", "start"} /\ Standing(v, d))
           => Lease(dTask[d].ip, v, d) \in dAlloc

\* The guests that count, or would if the synchronisation brought them back;
\* there is room for the deployment under way.
Counted == {v \in D!Vmids : dCache[v].owned /\ (dCache[v].live \/ dGuest[v].st # "none")}
RoomLeft ==
    ~dOverlapped =>
        /\ Cardinality(Counted) <= MaxInstances
        /\ \A d, e \in Deps : dTask[d].pc \notin D!Ended /\ dTask[e].pc \notin D!Ended => d = e
        /\ \A d \in Deps : dTask[d].pc \notin D!Ended /\ dTask[d].vmid \notin Counted =>
              Cardinality(Counted) + 1 <= MaxInstances

DeploysInv ==
    DeployTypes /\ Begun /\ OneVmid /\ EarlyFree /\ NoDeletion /\ LeasesSound /\ Leased /\ RoomLeft

LEMMA DeployTyped ==
    ASSUME DeploysInv, NEW d \in Deps
    PROVE  /\ dTask[d] \in DeployRecords /\ dTask \in [Deps -> DeployRecords]
           /\ dTask[d].pc \in DeployPcs /\ dTask[d].vmid \in D!Vmids \union {D!None}
           /\ dTask[d].ip \in D!Addrs \union {D!None} /\ dTask[d].mode \in D!Modes /\ dTask[d].kind \in D!Kinds
  BY DEF DeploysInv, DeployTypes, DeployRecords

LEMMA DeployRest ==
    DeploysInv => /\ dGuest \in [D!Vmids -> InstanceRecords] /\ dCache \in [D!Vmids -> CacheRows]
                  /\ dAlloc \subseteq Leases /\ dDel \in [D!Vmids -> {"no", "cache", "release"}]
                  /\ dContested \subseteq Deps /\ dOverlapped \in BOOLEAN /\ dEvents \in 0..MaxEvents
                  /\ (D!Event => dEvents' \in 0..MaxEvents)
  BY ServicesAssumption DEF DeploysInv, DeployTypes, D!Event

\* No vmid is None; sets of vmids are finite.
LEMMA VmidsFinite ==
    /\ D!None \notin D!Vmids
    /\ \A S \in SUBSET D!Vmids : /\ IsFiniteSet(S) /\ Cardinality(S) \in Nat
                                 /\ \A T \in SUBSET S : Cardinality(T) <= Cardinality(S)
                                 /\ \A v \in D!Vmids \ S : Cardinality(S \union {v}) = Cardinality(S) + 1
<1>1. IsFiniteSet(D!Vmids)
  BY ServicesAssumption, FS_Interval DEF D!Vmids
<1>2. ASSUME NEW S \in SUBSET D!Vmids
      PROVE  /\ IsFiniteSet(S) /\ Cardinality(S) \in Nat
             /\ \A T \in SUBSET S : Cardinality(T) <= Cardinality(S)
             /\ \A v \in D!Vmids \ S : Cardinality(S \union {v}) = Cardinality(S) + 1
  BY <1>1, FS_Subset, FS_CardinalityType, FS_AddElement
<1>3. D!None \notin D!Vmids
  BY DEF D!None, D!Vmids
<1> QED BY <1>2, <1>3

LEMMA CountedType == Counted \in SUBSET D!Vmids /\ Counted' \in SUBSET D!Vmids
  BY DEF Counted

\* Usage is no more than what counts.
LEMMA RoomForUsage == DeploysInv => D!QuotaHeld
<1> SUFFICES ASSUME DeploysInv, ~dOverlapped PROVE D!Usage <= MaxInstances
  BY DEF D!QuotaHeld
<1> DEFINE used == {v \in D!Vmids : dCache[v].live /\ dCache[v].owned}
<1>1. used \in SUBSET Counted /\ Cardinality(Counted) <= MaxInstances
  BY DEF Counted, DeploysInv, RoomLeft
<1>2. Cardinality(used) \in Nat /\ Cardinality(Counted) \in Nat /\ Cardinality(used) <= Cardinality(Counted)
  BY <1>1, CountedType, VmidsFinite
<1>3. D!Usage = Cardinality(used)
  BY DEF D!Usage, D!Cardinality, Cardinality
<1> HIDE DEF used
<1> QED BY <1>1, <1>2, <1>3, ServicesAssumption

\* Room stays when nothing more counts; a job may get the vmid it had not.
LEMMA RoomKept ==
    ASSUME DeploysInv, Counted' \subseteq Counted, dOverlapped' = dOverlapped,
           \A d \in Deps : dTask'[d].pc \notin D!Ended =>
              /\ dTask[d].pc \notin D!Ended
              /\ dTask'[d].vmid = dTask[d].vmid \/ dTask[d].vmid \notin Counted
    PROVE  RoomLeft'
<1> SUFFICES ASSUME ~dOverlapped
             PROVE  /\ Cardinality(Counted') <= MaxInstances
                    /\ \A d, e \in Deps : dTask'[d].pc \notin D!Ended /\ dTask'[e].pc \notin D!Ended => d = e
                    /\ \A d \in Deps : dTask'[d].pc \notin D!Ended /\ dTask'[d].vmid \notin Counted' =>
                          Cardinality(Counted') + 1 <= MaxInstances
  BY DEF RoomLeft
<1>1. /\ Cardinality(Counted) \in Nat /\ Cardinality(Counted') \in Nat /\ MaxInstances \in Nat
      /\ Cardinality(Counted') <= Cardinality(Counted)
  BY CountedType, VmidsFinite, ServicesAssumption
<1>2. /\ Cardinality(Counted) <= MaxInstances
      /\ \A d, e \in Deps : dTask[d].pc \notin D!Ended /\ dTask[e].pc \notin D!Ended => d = e
      /\ \A d \in Deps : dTask[d].pc \notin D!Ended /\ dTask[d].vmid \notin Counted =>
            Cardinality(Counted) + 1 <= MaxInstances
  BY DEF DeploysInv, RoomLeft
<1>3. ASSUME NEW d \in Deps, dTask'[d].pc \notin D!Ended, dTask'[d].vmid \notin Counted'
      PROVE  Cardinality(Counted') + 1 <= MaxInstances
  <2>1. CASE dTask[d].vmid \notin Counted
    BY <1>1, <1>2, <1>3, <2>1
  <2>2. CASE dTask[d].vmid \in Counted
    <3> DEFINE v == dTask[d].vmid
    <3>1. v \in Counted /\ v \notin Counted' /\ v \in D!Vmids
      BY <1>3, <2>2, CountedType
    <3>2. Cardinality(Counted' \union {v}) = Cardinality(Counted') + 1
      BY <3>1, CountedType, VmidsFinite
    <3>3. Cardinality(Counted' \union {v}) <= Cardinality(Counted)
      BY <3>1, CountedType, VmidsFinite
    <3> QED BY <1>1, <1>2, <3>2, <3>3
  <2> QED BY <2>1, <2>2
<1> QED BY <1>1, <1>2, <1>3

\* The one deployment under way takes the room that is left.
LEMMA RoomTaken ==
    ASSUME DeploysInv, NEW d \in Deps, dTask[d].pc \notin D!Ended, dTask[d].vmid \in D!Vmids,
           Counted' = Counted \union {dTask[d].vmid}, dOverlapped' = dOverlapped,
           \A e \in Deps : dTask'[e].pc \notin D!Ended =>
              dTask[e].pc \notin D!Ended /\ dTask'[e].vmid = dTask[e].vmid
    PROVE  RoomLeft'
<1> DEFINE v == dTask[d].vmid
<1>1. CASE v \in Counted
  <2>1. Counted' \subseteq Counted
    BY <1>1
  <2> QED BY <2>1, RoomKept
<1>2. CASE v \notin Counted
  <2> SUFFICES ASSUME ~dOverlapped
               PROVE  /\ Cardinality(Counted') <= MaxInstances
                      /\ \A e, f \in Deps : dTask'[e].pc \notin D!Ended /\ dTask'[f].pc \notin D!Ended => e = f
                      /\ \A e \in Deps : dTask'[e].pc \notin D!Ended => dTask'[e].vmid \in Counted'
    BY DEF RoomLeft
  <2>1. /\ \A e, f \in Deps : dTask[e].pc \notin D!Ended /\ dTask[f].pc \notin D!Ended => e = f
        /\ Cardinality(Counted) + 1 <= MaxInstances
    BY <1>2 DEF DeploysInv, RoomLeft
  <2>2. Cardinality(Counted') = Cardinality(Counted) + 1
    BY <1>2, CountedType, VmidsFinite
  <2> QED BY <2>1, <2>2
<1> QED BY <1>1, <1>2

\* A lease that is given up is one of a guest, and a job, that do not stand there.
ReleasedFor(v) == dDel[v] # "no" \/ (dGuest[v].st = "none" /\ dCache[v].live)

LEMMA StandsApart ==
    ASSUME DeploysInv, NEW v \in D!Vmids, ReleasedFor(v), NEW d \in Deps \ dContested
    PROVE  ~Standing(v, d) /\ (Early(dTask[d]) => dTask[d].vmid # v)
  BY DEF ReleasedFor, DeploysInv, NoDeletion, EarlyFree, Standing

\* A step of the job of d, with another record for its task: what has to hold
\* of the new record for everything to stay as it should.
LEMMA JobGoesOn ==
    ASSUME DeploysInv, NEW d \in Deps, NEW r \in DeployRecords, dTask' = [dTask EXCEPT ![d] = r],
           UNCHANGED <<dGuest, dCache, dDel>>, dAlloc \subseteq dAlloc', dAlloc' \subseteq Leases,
           dContested \subseteq dContested', dContested' \subseteq Deps, dEvents' \in 0..MaxEvents,
           dOverlapped' \in BOOLEAN, RoomLeft', LeasesSound',
           r.mode = dTask[d].mode \/ dTask[d].pc = "none", r.pc # "none",
           Chosen(r) => r.vmid \in D!Vmids, r.pc = "queued" => r.ip = D!None /\ r.vmid = D!None,
           Chosen(r) => \/ Chosen(dTask[d]) /\ r.vmid = dTask[d].vmid
                        \/ \A e \in Deps \ {d} : Chosen(dTask[e]) /\ dTask[e].vmid = r.vmid =>
                              {d, e} \subseteq dContested',
           d \notin dContested' /\ Early(r) =>
              dGuest[r.vmid].st = "none" /\ ~dCache[r.vmid].live /\ dDel[r.vmid] = "no",
           d \notin dContested' /\ r.mode = "auto" /\ r.ip # D!None
              /\ (r.pc = "create" \/ (r.pc \in {"wait", "start"} /\ Standing(r.vmid, d)))
              => Lease(r.ip, r.vmid, d) \in dAlloc'
    PROVE  DeploysInv'
<1>1. /\ dTask' \in [Deps -> DeployRecords] /\ dTask'[d] = r /\ \A e \in Deps \ {d} : dTask'[e] = dTask[e]
  BY DeployTyped
<1>2. DeployTypes'
  BY <1>1 DEF DeploysInv, DeployTypes
<1>3. Begun'
  BY <1>1 DEF DeploysInv, Begun
<1>4. OneVmid'
  <2> SUFFICES ASSUME NEW e \in Deps, NEW f \in Deps, e # f, Chosen(dTask'[e]), Chosen(dTask'[f]),
                      dTask'[e].vmid = dTask'[f].vmid
               PROVE  e \in dContested'
    BY DEF OneVmid, Chosen, D!Ended
  <2>1. CASE e # d /\ f # d
    BY <1>1, <2>1 DEF DeploysInv, OneVmid
  <2>2. CASE Chosen(dTask[d]) /\ r.vmid = dTask[d].vmid
    BY <1>1, <2>2 DEF DeploysInv, OneVmid
  <2>3. CASE ~(e # d /\ f # d) /\ ~(Chosen(dTask[d]) /\ r.vmid = dTask[d].vmid)
    BY <1>1, <2>3
  <2> QED BY <2>1, <2>2, <2>3
<1>5. EarlyFree'
  BY <1>1 DEF DeploysInv, EarlyFree, Early
<1>6. NoDeletion'
  BY <1>1 DEF DeploysInv, NoDeletion, Standing
<1>7. Leased'
  <2> SUFFICES ASSUME NEW e \in Deps \ dContested', dTask'[e].mode = "auto"
               PROVE  /\ \A v \in D!Vmids : Standing(v, e) /\ dGuest[v].ip # D!None => Lease(dGuest[v].ip, v, e) \in dAlloc'
                      /\ dTask'[e].ip # D!None /\ (\/ dTask'[e].pc = "create"
                                                   \/ dTask'[e].pc \in {"wait", "start"} /\ Standing(dTask'[e].vmid, e))
                         => Lease(dTask'[e].ip, dTask'[e].vmid, e) \in dAlloc'
    BY DEF Leased, Standing, Lease
  <2>1. \A v \in D!Vmids : Standing(v, e) /\ dGuest[v].ip # D!None => Lease(dGuest[v].ip, v, e) \in dAlloc'
    <3>1. CASE dTask[e].mode = "auto"
      BY <3>1 DEF DeploysInv, Leased
    <3>2. CASE dTask[e].mode # "auto"
      <4>1. e = d /\ dTask[d].pc = "none"
        BY <1>1, <3>2
      <4> QED BY <4>1 DEF DeploysInv, Begun, Standing
    <3> QED BY <3>1, <3>2
  <2>2. CASE e = d
    BY <1>1, <2>1, <2>2
  <2>3. CASE e # d
    <3>1. dTask'[e] = dTask[e]
      BY <1>1, <2>3
    <3> QED BY <2>1, <3>1 DEF DeploysInv, Leased
  <2> QED BY <2>2, <2>3
<1> QED BY <1>2, <1>3, <1>4, <1>5, <1>6, <1>7 DEF DeploysInv

\* A step of a deletion, the synchronisation or Proxmox at one guest.
LEMMA AtVmid ==
    ASSUME DeploysInv, NEW v \in D!Vmids, UNCHANGED <<dTask, dContested, dOverlapped>>,
           dGuest' \in [D!Vmids -> InstanceRecords], dCache' \in [D!Vmids -> CacheRows],
           dDel' \in [D!Vmids -> {"no", "cache", "release"}], dEvents' \in 0..MaxEvents,
           \A u \in D!Vmids \ {v} : dGuest'[u] = dGuest[u] /\ dCache'[u] = dCache[u] /\ dDel'[u] = dDel[u],
           dAlloc' = dAlloc \/ (dAlloc' = D!Released(v) /\ ReleasedFor(v)),
           dGuest'[v].by \in {dGuest[v].by, D!Old},
           dGuest'[v].st \in {"creating", "there"} => /\ dGuest[v].st \in {"creating", "there"}
                                                     /\ dGuest'[v].by = dGuest[v].by /\ dGuest'[v].ip = dGuest[v].ip
                                                     /\ (dDel[v] = "no" => dDel'[v] = "no"),
           dGuest[v].st = "none" /\ ~dCache[v].live /\ dDel[v] = "no" =>
              dGuest'[v].st = "none" /\ ~dCache'[v].live /\ dDel'[v] = "no",
           Counted' \subseteq Counted
    PROVE  DeploysInv'
<1>1. \A u \in D!Vmids : \A d \in Deps : Standing(u, d)' => /\ Standing(u, d) /\ dGuest'[u].ip = dGuest[u].ip
                                                           /\ (dDel[u] = "no" => dDel'[u] = "no")
  BY DEF Standing
<1>2. dAlloc' \subseteq dAlloc /\ \A l \in dAlloc : l \in dAlloc' \/ (l.vmid = v /\ ReleasedFor(v))
  BY DEF D!Released
<1>3. DeployTypes'
  BY <1>2 DEF DeploysInv, DeployTypes
<1>4. Begun'
  BY ServicesAssumption DEF DeploysInv, Begun, D!Old
<1>5. OneVmid'
  BY DEF DeploysInv, OneVmid
<1>6. EarlyFree'
  <2> SUFFICES ASSUME NEW d \in Deps \ dContested, Early(dTask[d])
               PROVE  /\ dGuest'[dTask[d].vmid].st = "none" /\ ~dCache'[dTask[d].vmid].live
                      /\ dDel'[dTask[d].vmid] = "no"
    BY DEF EarlyFree, Early
  <2>1. /\ dGuest[dTask[d].vmid].st = "none" /\ ~dCache[dTask[d].vmid].live /\ dDel[dTask[d].vmid] = "no"
    BY DEF DeploysInv, EarlyFree
  <2>2. dTask[d].vmid \in D!Vmids
    BY DEF DeploysInv, Begun, Early, Chosen, D!Ended
  <2>3. CASE dTask[d].vmid = v
    BY <2>1, <2>3
  <2>4. CASE dTask[d].vmid # v
    BY <2>1, <2>2, <2>4
  <2> QED BY <2>3, <2>4
<1>7. NoDeletion'
  <2> SUFFICES ASSUME NEW u \in D!Vmids, NEW d \in Deps \ dContested, Standing(u, d)'
               PROVE  dDel'[u] = "no"
    BY DEF NoDeletion
  <2>1. Standing(u, d) /\ (dDel[u] = "no" => dDel'[u] = "no")
    BY <1>1
  <2> QED BY <2>1 DEF DeploysInv, NoDeletion
<1>8. LeasesSound'
  BY <1>2 DEF DeploysInv, LeasesSound
<1>9. Leased'
  <2> SUFFICES ASSUME NEW d \in Deps \ dContested, dTask[d].mode = "auto"
               PROVE  /\ \A u \in D!Vmids : Standing(u, d)' /\ dGuest'[u].ip # D!None => Lease(dGuest'[u].ip, u, d) \in dAlloc'
                      /\ dTask[d].ip # D!None /\ (\/ dTask[d].pc = "create"
                                                  \/ dTask[d].pc \in {"wait", "start"} /\ Standing(dTask[d].vmid, d)')
                         => Lease(dTask[d].ip, dTask[d].vmid, d) \in dAlloc'
    BY DEF Leased, Standing, Lease
  <2>1. ReleasedFor(v) => ~Standing(v, d) /\ (Early(dTask[d]) => dTask[d].vmid # v)
    BY StandsApart
  <2>2. \A x, u : Lease(x, u, d).vmid = u
    BY DEF Lease
  <2>3. \A u \in D!Vmids : Standing(u, d)' /\ dGuest'[u].ip # D!None => Lease(dGuest'[u].ip, u, d) \in dAlloc'
    <3> SUFFICES ASSUME NEW u \in D!Vmids, Standing(u, d)', dGuest'[u].ip # D!None
                 PROVE  Lease(dGuest'[u].ip, u, d) \in dAlloc'
      OBVIOUS
    <3>1. Standing(u, d) /\ dGuest'[u].ip = dGuest[u].ip
      BY <1>1
    <3>2. Lease(dGuest[u].ip, u, d) \in dAlloc
      BY <3>1 DEF DeploysInv, Leased
    <3> QED BY <1>2, <2>1, <2>2, <3>1, <3>2
  <2>4. ASSUME dTask[d].ip # D!None, \/ dTask[d].pc = "create"
                                     \/ dTask[d].pc \in {"wait", "start"} /\ Standing(dTask[d].vmid, d)'
        PROVE  Lease(dTask[d].ip, dTask[d].vmid, d) \in dAlloc'
    <3>1. dTask[d].vmid \in D!Vmids
      BY <2>4 DEF DeploysInv, Begun, Chosen, D!Ended
    <3>2. dTask[d].pc = "create" \/ (dTask[d].pc \in {"wait", "start"} /\ Standing(dTask[d].vmid, d))
      BY <1>1, <2>4, <3>1
    <3>3. Lease(dTask[d].ip, dTask[d].vmid, d) \in dAlloc
      BY <2>4, <3>2 DEF DeploysInv, Leased
    <3>4. ReleasedFor(v) => dTask[d].vmid # v
      BY <2>1, <3>2 DEF Early
    <3> QED BY <1>2, <2>2, <3>3, <3>4
  <2> QED BY <2>3, <2>4
<1>10. RoomLeft'
  BY RoomKept
<1> QED BY <1>3, <1>4, <1>5, <1>6, <1>7, <1>8, <1>9, <1>10 DEF DeploysInv

\* The allocations as they were: none are of a job that has just chosen.
LEMMA LeasesLeft ==
    ASSUME DeploysInv, NEW d \in Deps, NEW r \in DeployRecords, dTask' = [dTask EXCEPT ![d] = r], UNCHANGED dAlloc,
           r.pc \notin {"none", "queued"} \/ dTask[d].pc = "none",
           Chosen(r) => dTask[d].pc = "queued" \/ (Chosen(dTask[d]) /\ r.vmid = dTask[d].vmid)
    PROVE  LeasesSound'
<1>1. /\ dTask'[d] = r /\ \A e \in Deps \ {d} : dTask'[e] = dTask[e]
  BY DeployTyped
<1>2. \A l \in dAlloc : l.by \in Deps => /\ dTask'[l.by].pc \notin {"none", "queued"}
                                         /\ Chosen(dTask'[l.by]) => l.vmid = dTask'[l.by].vmid
  BY <1>1 DEF DeploysInv, LeasesSound
<1> QED BY <1>2 DEF DeploysInv, LeasesSound, Chosen, D!Ended

\* What a task is when its job has ended.
LEMMA EndRecord ==
    ASSUME DeploysInv, NEW d \in Deps, NEW pc \in {"completed", "failed", "lost"}
    PROVE  LET r == [D!NoTask EXCEPT !.pc = pc, !.mode = dTask[d].mode] IN
           /\ r \in DeployRecords /\ r.pc = pc /\ r.mode = dTask[d].mode /\ r.vmid = D!None /\ r.ip = D!None
           /\ ~Chosen(r) /\ ~Early(r) /\ r.pc \in D!Ended
  BY DeployTyped DEF D!NoTask, DeployRecords, DeployPcs, D!Ended, D!Kinds, D!Modes, Chosen, Early

\* A job that ends leaves everything else as it is.
LEMMA JobEnds ==
    ASSUME DeploysInv, NEW d \in Deps, NEW pc \in {"completed", "failed", "lost"}, D!End(d, pc),
           UNCHANGED <<dGuest, dCache, dAlloc, dDel, dContested, dOverlapped, dEvents>>
    PROVE  DeploysInv'
<1> DEFINE r == [D!NoTask EXCEPT !.pc = pc, !.mode = dTask[d].mode]
<1>1. /\ r \in DeployRecords /\ r.pc = pc /\ r.mode = dTask[d].mode /\ r.vmid = D!None /\ r.ip = D!None
      /\ ~Chosen(r) /\ ~Early(r) /\ r.pc \in D!Ended
  BY EndRecord
<1>2. dTask' = [dTask EXCEPT ![d] = r]
  BY DEF D!End, D!Step
<1> HIDE DEF r
<1>3. LeasesSound'
  BY <1>1, <1>2, LeasesLeft
<1>4. RoomLeft'
  <2>1. Counted' \subseteq Counted
    BY DEF Counted
  <2>2. dTask'[d] = r /\ \A e \in Deps \ {d} : dTask'[e] = dTask[e]
    BY <1>2, DeployTyped
  <2> QED BY <1>1, <2>1, <2>2, RoomKept
<1> QED BY <1>1, <1>2, <1>3, <1>4, JobGoesOn, DeployRest

LEMMA SubmitInv ==
    ASSUME DeploysInv, NEW d \in Deps, D!Submit(d)
    PROVE  DeploysInv'
<1>1. PICK k \in D!Kinds, m \in D!Modes :
          dTask' = [dTask EXCEPT ![d] = [D!NoTask EXCEPT !.pc = "queued", !.kind = k, !.mode = m]]
  BY DEF D!Submit, D!Step
<1> DEFINE r == [D!NoTask EXCEPT !.pc = "queued", !.kind = k, !.mode = m]
<1>2. /\ r \in DeployRecords /\ r.pc = "queued" /\ r.vmid = D!None /\ r.ip = D!None /\ r.mode = m
      /\ ~Chosen(r) /\ ~Early(r)
  BY DEF D!NoTask, DeployRecords, DeployPcs, Chosen, Early
<1>3. /\ dTask[d].pc = "none" /\ dTask' = [dTask EXCEPT ![d] = r]
      /\ UNCHANGED <<dGuest, dCache, dAlloc, dDel, dContested, dEvents>>
      /\ dOverlapped' = (dOverlapped \/ D!Active # {} \/ D!Uncounted # {}) /\ D!WithinQuota
  BY <1>1 DEF D!Submit
<1> HIDE DEF r
<1>4. LeasesSound'
  BY <1>2, <1>3, LeasesLeft
<1>5. RoomLeft'
  <2> SUFFICES ASSUME ~dOverlapped'
               PROVE  /\ Cardinality(Counted') <= MaxInstances
                      /\ \A e, f \in Deps : dTask'[e].pc \notin D!Ended /\ dTask'[f].pc \notin D!Ended => e = f
                      /\ Cardinality(Counted') + 1 <= MaxInstances
    BY DEF RoomLeft
  <2>1. D!Active = {} /\ D!Uncounted = {}
    BY <1>3
  <2>2. \A e \in Deps \ {d} : dTask'[e].pc \in D!Ended
    BY <1>3, <2>1, DeployTyped DEF D!Active
  <2>3. Counted' = {v \in D!Vmids : dCache[v].live /\ dCache[v].owned}
    BY <1>3, <2>1 DEF Counted, D!Uncounted
  <2>4. Cardinality(Counted') = D!Usage
    BY <2>3 DEF D!Usage, D!Cardinality, Cardinality
  <2>5. Cardinality(Counted') \in Nat
    BY CountedType, VmidsFinite
  <2>6. Cardinality(Counted') + 1 <= MaxInstances
    BY <1>3, <2>4 DEF D!WithinQuota
  <2> QED BY <2>2, <2>5, <2>6, ServicesAssumption
<1>6. dOverlapped' \in BOOLEAN
  BY <1>3, DeployRest
<1> QED BY <1>2, <1>3, <1>4, <1>5, <1>6, JobGoesOn, DeployRest

LEMMA DeployPickInv ==
    ASSUME DeploysInv, NEW d \in Deps, D!PickVmid(d)
    PROVE  DeploysInv'
<1>1. PICK v \in D!Vmids :
          /\ D!Step(d, [dTask[d] EXCEPT !.vmid = v, !.pc = IF dTask[d].kind = "template" THEN "create" ELSE "address"])
          /\ D!Event \/ UNCHANGED dEvents
  BY DEF D!PickVmid, D!Least
<1> DEFINE r == [dTask[d] EXCEPT !.vmid = v, !.pc = IF dTask[d].kind = "template" THEN "create" ELSE "address"]
<1>2. /\ dTask[d].pc = "queued" /\ dTask[d] \in DeployRecords /\ dTask[d].ip = D!None /\ dTask[d].vmid = D!None
  BY DeployTyped DEF D!PickVmid, DeploysInv, Begun
<1>3. /\ r \in DeployRecords /\ r.pc \in {"create", "address"} /\ r.vmid = v /\ r.ip = D!None
      /\ r.mode = dTask[d].mode /\ dTask' = [dTask EXCEPT ![d] = r] /\ dTask'[d] = r
  BY <1>1, <1>2, DeployTyped DEF DeployRecords, DeployPcs, D!Step
<1> HIDE DEF r
<1> DEFINE same == {e \in D!Active : e # d /\ dTask[e].vmid = v}
<1>4. /\ UNCHANGED <<dGuest, dCache, dAlloc, dDel, dOverlapped>>
      /\ dContested' = dContested \union same
                        \union (IF same # {} \/ dDel[v] # "no" \/ dCache[v].live \/ dGuest[v].st # "none"
                                THEN {d} ELSE {})
  BY <1>3 DEF D!PickVmid
<1>5. \A e \in Deps \ {d} : Chosen(dTask[e]) /\ dTask[e].vmid = r.vmid => {d, e} \subseteq dContested'
  BY <1>3, <1>4 DEF Chosen, D!Active
<1>6. dContested \subseteq dContested' /\ dContested' \subseteq Deps
  BY <1>4, DeployRest DEF D!Active
<1>7. d \notin dContested' => dGuest[v].st = "none" /\ ~dCache[v].live /\ dDel[v] = "no"
  BY <1>4
<1>8. LeasesSound'
  BY <1>2, <1>3, <1>4, LeasesLeft
<1>9. RoomLeft'
  <2>1. Counted' \subseteq Counted
    BY <1>4 DEF Counted
  <2>2. \A e \in Deps \ {d} : dTask'[e] = dTask[e]
    BY <1>3, DeployTyped
  <2>3. dTask[d].vmid \notin Counted /\ dTask[d].pc \notin D!Ended
    BY <1>2, VmidsFinite DEF Counted, D!Ended
  <2> QED BY <1>4, <2>1, <2>2, <2>3, RoomKept
<1>10. dEvents' \in 0..MaxEvents
  BY <1>1, DeployRest
<1> HIDE DEF same
<1> QED BY <1>2, <1>3, <1>4, <1>5, <1>6, <1>7, <1>8, <1>9, <1>10, JobGoesOn, DeployRest

LEMMA TakeAddressInv ==
    ASSUME DeploysInv, NEW d \in Deps, D!TakeAddress(d)
    PROVE  DeploysInv'
<1> DEFINE v == dTask[d].vmid
<1>1. /\ dTask[d].pc = "address" /\ dTask[d] \in DeployRecords /\ Chosen(dTask[d]) /\ v \in D!Vmids
      /\ UNCHANGED <<dGuest, dCache, dDel, dContested, dOverlapped, dEvents>>
  BY DeployTyped DEF D!TakeAddress, DeploysInv, Begun, Chosen, D!Ended
<1>2. PICK x \in D!Addrs \union {D!None} :
          /\ dTask' = [dTask EXCEPT ![d] = [dTask[d] EXCEPT !.ip = x, !.pc = D!AfterAddress(d)]]
          /\ \/ dAlloc' = dAlloc /\ (x # D!None => dTask[d].mode = "given")
             \/ /\ x \in D!Addrs \ {l.ip : l \in dAlloc}
                /\ dAlloc' = dAlloc \union {Lease(x, v, d)}
  <2>1. PICK x \in D!Addrs \union {D!None} :
          /\ D!Step(d, [dTask[d] EXCEPT !.ip = x, !.pc = D!AfterAddress(d)])
          /\ \/ dAlloc' = dAlloc /\ (x # D!None => dTask[d].mode = "given")
             \/ /\ x \in D!Addrs \ {l.ip : l \in dAlloc}
                /\ dAlloc' = dAlloc \union {[ip |-> x, vmid |-> v, by |-> d]}
    BY DEF D!TakeAddress, D!Least
  <2> QED BY <2>1 DEF D!Step, Lease
<1> DEFINE r == [dTask[d] EXCEPT !.ip = x, !.pc = D!AfterAddress(d)]
<1>3. /\ r \in DeployRecords /\ r.vmid = v /\ r.ip = x /\ r.mode = dTask[d].mode
      /\ r.pc \in {"create", "start"} /\ (r.pc = "create" => dTask[d].kind # "template") /\ Chosen(r)
      /\ dTask' = [dTask EXCEPT ![d] = r] /\ dTask'[d] = r /\ \A e \in Deps \ {d} : dTask'[e] = dTask[e]
  BY <1>1, <1>2, DeployTyped DEF DeployRecords, DeployPcs, D!AfterAddress, Chosen, D!Ended
<1> HIDE DEF r
<1>4. dAlloc \subseteq dAlloc' /\ dAlloc' \subseteq Leases
  BY <1>1, <1>2, DeployRest DEF Leases, Lease
<1>5. LeasesSound'
  <2>1. CASE dAlloc' = dAlloc
    BY <1>1, <1>3, <2>1, LeasesLeft
  <2>2. CASE x \in D!Addrs \ {l.ip : l \in dAlloc} /\ dAlloc' = dAlloc \union {Lease(x, v, d)}
    <3>1. Lease(x, v, d).ip = x /\ Lease(x, v, d).vmid = v /\ Lease(x, v, d).by = d
      BY DEF Lease
    <3>2. \A l \in dAlloc' : l.by \in Deps => /\ dTask'[l.by].pc \notin {"none", "queued"}
                                              /\ Chosen(dTask'[l.by]) => l.vmid = dTask'[l.by].vmid
      BY <1>1, <1>3, <2>2, <3>1 DEF DeploysInv, LeasesSound
    <3>3. \A l, m \in dAlloc' : l.ip = m.ip => l = m
      BY <2>2, <3>1 DEF DeploysInv, LeasesSound
    <3> QED BY <3>2, <3>3 DEF LeasesSound, Chosen, D!Ended
  <2> QED BY <1>2, <2>1, <2>2
<1>6. d \notin dContested' /\ Early(r) => dGuest[r.vmid].st = "none" /\ ~dCache[r.vmid].live /\ dDel[r.vmid] = "no"
  <2>1. Early(r) => Early(dTask[d])
    BY <1>1, <1>3, DeployTyped DEF Early, D!Kinds
  <2> QED BY <1>1, <1>3, <2>1 DEF DeploysInv, EarlyFree
<1>7. r.mode = "auto" /\ r.ip # D!None => Lease(r.ip, r.vmid, d) \in dAlloc'
  BY <1>2, <1>3
<1>8. RoomLeft'
  <2>1. Counted' \subseteq Counted
    BY <1>1 DEF Counted
  <2> QED BY <1>1, <1>3, <2>1, RoomKept DEF Chosen
<1> HIDE DEF v
<1> QED BY <1>1, <1>3, <1>4, <1>5, <1>6, <1>7, <1>8, JobGoesOn, DeployRest DEF v

LEMMA WaitInv ==
    ASSUME DeploysInv, NEW d \in Deps, D!Wait(d)
    PROVE  DeploysInv'
<1>1. CASE D!End(d, "failed")
  BY <1>1, JobEnds DEF D!Wait
<1>2. CASE D!Present(dTask[d].vmid) /\ D!GoTo(d, IF dTask[d].kind = "template" THEN "address" ELSE "start")
  <2> DEFINE r == [dTask[d] EXCEPT !.pc = IF dTask[d].kind = "template" THEN "address" ELSE "start"]
  <2>1. /\ dTask[d].pc = "wait" /\ dTask[d] \in DeployRecords /\ Chosen(dTask[d])
        /\ UNCHANGED <<dGuest, dCache, dAlloc, dDel, dContested, dOverlapped, dEvents>>
    BY DeployTyped DEF D!Wait, Chosen, D!Ended
  <2>2. /\ r \in DeployRecords /\ r.vmid = dTask[d].vmid /\ r.ip = dTask[d].ip /\ r.mode = dTask[d].mode
        /\ r.pc \in {"address", "start"} /\ ~Early(r) /\ Chosen(r) /\ r.vmid \in D!Vmids
        /\ dTask' = [dTask EXCEPT ![d] = r] /\ dTask'[d] = r /\ \A e \in Deps \ {d} : dTask'[e] = dTask[e]
    <3>1. r \in DeployRecords /\ r.vmid = dTask[d].vmid /\ r.ip = dTask[d].ip /\ r.mode = dTask[d].mode
          /\ r.pc \in {"address", "start"} /\ r.kind = dTask[d].kind /\ (r.pc = "address" => r.kind = "template")
      BY <2>1 DEF DeployRecords, DeployPcs
    <3>2. dTask' = [dTask EXCEPT ![d] = r]
      BY <1>2, DeployTyped DEF D!GoTo
    <3>3. dTask[d].vmid \in D!Vmids
      BY <2>1 DEF DeploysInv, Begun
    <3> HIDE DEF r
    <3> QED BY <3>1, <3>2, <3>3, DeployTyped DEF Early, Chosen, D!Ended
  <2> HIDE DEF r
  <2>3. LeasesSound'
    BY <2>1, <2>2, LeasesLeft
  <2>4. RoomLeft'
    <3>1. Counted' \subseteq Counted
      BY <2>1 DEF Counted
    <3> QED BY <2>1, <2>2, <3>1, RoomKept DEF Chosen
  <2>5. d \notin dContested /\ r.mode = "auto" /\ r.ip # D!None /\ r.pc = "start" /\ Standing(r.vmid, d)
        => Lease(r.ip, r.vmid, d) \in dAlloc
    BY <2>1, <2>2 DEF DeploysInv, Leased
  <2> QED BY <2>1, <2>2, <2>3, <2>4, <2>5, JobGoesOn, DeployRest
<1> QED BY <1>1, <1>2 DEF D!Wait

LEMMA DeployCreateInv ==
    ASSUME DeploysInv, NEW d \in Deps, D!Create(d)
    PROVE  DeploysInv'
<1> DEFINE v == dTask[d].vmid
           g == [st |-> "creating", by |-> d, ip |-> dTask[d].ip]
           r == [dTask[d] EXCEPT !.pc = "wait"]
<1>1. /\ dTask[d].pc = "create" /\ dTask[d] \in DeployRecords /\ Chosen(dTask[d]) /\ v \in D!Vmids /\ Early(dTask[d])
      /\ UNCHANGED <<dCache, dAlloc, dDel, dContested, dOverlapped, dEvents>>
  BY DeployTyped DEF D!Create, DeploysInv, Begun, Chosen, D!Ended, Early
<1>2. CASE D!End(d, "failed") /\ UNCHANGED dGuest
  BY <1>1, <1>2, JobEnds
<1>3. CASE dGuest[v].st = "none" /\ dGuest' = [dGuest EXCEPT ![v] = g] /\ D!GoTo(d, "wait")
  <2>1. /\ r \in DeployRecords /\ r.pc = "wait" /\ r.vmid = v /\ r.ip = dTask[d].ip /\ r.mode = dTask[d].mode
        /\ dTask' = [dTask EXCEPT ![d] = r] /\ dTask'[d] = r /\ \A e \in Deps \ {d} : dTask'[e] = dTask[e]
        /\ dTask' \in [Deps -> DeployRecords]
    BY <1>1, <1>3, DeployTyped DEF DeployRecords, DeployPcs, D!GoTo
  <2>2. /\ g \in InstanceRecords /\ g.st = "creating" /\ g.by = d /\ g.ip = dTask[d].ip
    BY <1>1 DEF DeployRecords, InstanceRecords
  <2>3. /\ dGuest' \in [D!Vmids -> InstanceRecords] /\ dGuest'[v] = g
        /\ \A u \in D!Vmids \ {v} : dGuest'[u] = dGuest[u]
    BY <1>1, <1>3, <2>2, DeployRest
  <2> HIDE DEF r, g
  <2>4. DeployTypes'
    BY <1>1, <2>1, <2>3 DEF DeploysInv, DeployTypes
  <2>5. Begun'
    BY <1>1, <2>1, <2>2, <2>3 DEF DeploysInv, Begun, Chosen, D!Ended
  <2>6. \A e \in Deps : Chosen(dTask[e])' <=> Chosen(dTask[e])
    BY <1>1, <2>1 DEF Chosen, D!Ended
  <2>7. \A e \in Deps : dTask'[e].vmid = dTask[e].vmid /\ dTask'[e].mode = dTask[e].mode /\ dTask'[e].ip = dTask[e].ip
    BY <2>1
  <2>8. OneVmid'
    BY <1>1, <2>6, <2>7 DEF DeploysInv, OneVmid
  <2>9. EarlyFree'
    <3> SUFFICES ASSUME NEW e \in Deps \ dContested, Early(dTask'[e])
                 PROVE  /\ dGuest'[dTask'[e].vmid].st = "none" /\ ~dCache[dTask'[e].vmid].live
                        /\ dDel[dTask'[e].vmid] = "no"
      BY <1>1 DEF EarlyFree, Early
    <3>1. e # d /\ dTask'[e] = dTask[e]
      BY <2>1 DEF Early
    <3>2. Chosen(dTask[e]) /\ dTask[e].vmid \in D!Vmids
      BY <3>1 DEF Early, Chosen, D!Ended, DeploysInv, Begun
    <3>3. dTask[e].vmid # v
      BY <1>1, <3>1, <3>2 DEF DeploysInv, OneVmid
    <3> QED BY <2>3, <3>1, <3>2, <3>3 DEF DeploysInv, EarlyFree
  <2>10. \A u \in D!Vmids, e \in Deps : Standing(u, e)' <=> (u = v /\ e = d) \/ (u # v /\ Standing(u, e))
    BY <2>2, <2>3 DEF Standing
  <2>11. NoDeletion'
    BY <1>1, <2>10 DEF DeploysInv, NoDeletion, EarlyFree
  <2>12. LeasesSound'
    BY <1>1, <2>1, <2>6, <2>7, LeasesLeft
  <2>13. Leased'
    <3> SUFFICES ASSUME NEW e \in Deps \ dContested, dTask[e].mode = "auto"
                 PROVE  /\ \A u \in D!Vmids : Standing(u, e)' /\ dGuest'[u].ip # D!None => Lease(dGuest'[u].ip, u, e) \in dAlloc
                        /\ dTask[e].ip # D!None
                           /\ (dTask'[e].pc = "create" \/ (dTask'[e].pc \in {"wait", "start"} /\ Standing(dTask[e].vmid, e)'))
                           => Lease(dTask[e].ip, dTask[e].vmid, e) \in dAlloc
      BY <1>1, <2>7 DEF Leased, Standing, Lease
    <3>1. CASE e = d
      <4>1. dTask[d].ip # D!None => Lease(dTask[d].ip, v, d) \in dAlloc
        BY <1>1, <3>1 DEF DeploysInv, Leased
      <4> QED BY <2>2, <2>3, <2>10, <3>1, <4>1 DEF DeploysInv, Leased
    <3>2. CASE e # d
      <4>1. dTask'[e] = dTask[e]
        BY <2>1, <3>2
      <4>2. \A u \in D!Vmids : Standing(u, e)' => Standing(u, e) /\ dGuest'[u] = dGuest[u]
        BY <2>3, <2>10, <3>2
      <4>3. dTask[e].pc \in {"wait", "start"} => dTask[e].vmid \in D!Vmids
        BY DEF DeploysInv, Begun, Chosen, D!Ended
      <4> QED BY <4>1, <4>2, <4>3 DEF DeploysInv, Leased
    <3> QED BY <3>1, <3>2
  <2>14. RoomLeft'
    <3>1. \A e \in Deps : dTask'[e].pc \notin D!Ended => dTask[e].pc \notin D!Ended
      BY <1>1, <2>1 DEF Chosen
    <3>2. dTask[d].pc \notin D!Ended
      BY <1>1 DEF Chosen
    <3>3. CASE dCache[v].owned
      <4>1. Counted' = Counted \union {v}
        BY <1>1, <2>2, <2>3, <3>3 DEF Counted
      <4> QED BY <1>1, <2>7, <3>1, <3>2, <4>1, RoomTaken
    <3>4. CASE ~dCache[v].owned
      <4>1. Counted' \subseteq Counted
        BY <1>1, <2>3, <3>4 DEF Counted
      <4> QED BY <1>1, <2>7, <3>1, <4>1, RoomKept
    <3> QED BY <3>3, <3>4
  <2> QED BY <2>4, <2>5, <2>8, <2>9, <2>11, <2>12, <2>13, <2>14 DEF DeploysInv
<1> QED BY <1>2, <1>3 DEF D!Create

LEMMA StartSettingsInv ==
    ASSUME DeploysInv, NEW d \in Deps, D!Start(d)
    PROVE  DeploysInv'
<1> DEFINE v == dTask[d].vmid
           r == [dTask[d] EXCEPT !.pc = "save"]
<1>1. /\ dTask[d].pc = "start" /\ dTask[d] \in DeployRecords /\ Chosen(dTask[d]) /\ v \in D!Vmids
      /\ UNCHANGED <<dCache, dAlloc, dDel, dContested, dOverlapped, dEvents>> /\ D!GoTo(d, "save")
      /\ dGuest' = IF D!Present(v) /\ dGuest[v].by = d THEN [dGuest EXCEPT ![v].ip = dTask[d].ip] ELSE dGuest
  BY DeployTyped DEF D!Start, DeploysInv, Begun, Chosen, D!Ended
<1>2. /\ r \in DeployRecords /\ r.pc = "save" /\ r.vmid = v /\ r.ip = dTask[d].ip /\ r.mode = dTask[d].mode
      /\ dTask' = [dTask EXCEPT ![d] = r] /\ dTask'[d] = r /\ \A e \in Deps \ {d} : dTask'[e] = dTask[e]
      /\ dTask' \in [Deps -> DeployRecords]
  BY <1>1, DeployTyped DEF DeployRecords, DeployPcs, D!GoTo
<1>3. /\ dGuest' \in [D!Vmids -> InstanceRecords]
      /\ \A u \in D!Vmids : /\ dGuest'[u].st = dGuest[u].st /\ dGuest'[u].by = dGuest[u].by
                            /\ dGuest'[u].ip = dGuest[u].ip \/ (u = v /\ Standing(v, d) /\ dGuest'[u].ip = dTask[d].ip)
  <2>1. dGuest \in [D!Vmids -> InstanceRecords] /\ dGuest[v] \in InstanceRecords
        /\ dTask[d].ip \in D!Addrs \union {D!None}
    BY <1>1, DeployRest, DeployTyped
  <2>2. CASE D!Present(v) /\ dGuest[v].by = d
    <3>1. dGuest' = [dGuest EXCEPT ![v] = [dGuest[v] EXCEPT !.ip = dTask[d].ip]] /\ Standing(v, d)
      BY <1>1, <2>1, <2>2 DEF D!Present, Standing
    <3>2. /\ [dGuest[v] EXCEPT !.ip = dTask[d].ip] \in InstanceRecords
          /\ [dGuest[v] EXCEPT !.ip = dTask[d].ip].st = dGuest[v].st
          /\ [dGuest[v] EXCEPT !.ip = dTask[d].ip].by = dGuest[v].by
          /\ [dGuest[v] EXCEPT !.ip = dTask[d].ip].ip = dTask[d].ip
      BY <2>1 DEF InstanceRecords
    <3> QED BY <1>1, <2>1, <3>1, <3>2
  <2>3. CASE ~(D!Present(v) /\ dGuest[v].by = d)
    BY <1>1, <2>1, <2>3
  <2> QED BY <2>2, <2>3
<1> HIDE DEF r
<1>4. DeployTypes'
  BY <1>1, <1>2, <1>3 DEF DeploysInv, DeployTypes
<1>5. \A e \in Deps : /\ dTask'[e].vmid = dTask[e].vmid /\ dTask'[e].mode = dTask[e].mode /\ dTask'[e].ip = dTask[e].ip
                      /\ Chosen(dTask[e])' <=> Chosen(dTask[e])
                      /\ Early(dTask'[e]) => Early(dTask[e])
                      /\ dTask'[e].pc \in {"none", "queued"} <=> dTask[e].pc \in {"none", "queued"}
                      /\ dTask'[e].pc = "none" <=> dTask[e].pc = "none"
  BY <1>1, <1>2 DEF Chosen, Early, D!Ended
<1>6. Begun'
  BY <1>3, <1>5 DEF DeploysInv, Begun
<1>7. OneVmid'
  BY <1>1, <1>5 DEF DeploysInv, OneVmid
<1>8. EarlyFree'
  <2> SUFFICES ASSUME NEW e \in Deps \ dContested, Early(dTask'[e])
               PROVE  /\ dGuest'[dTask[e].vmid].st = "none" /\ ~dCache[dTask[e].vmid].live
                      /\ dDel[dTask[e].vmid] = "no"
    BY <1>1, <1>5 DEF EarlyFree, Early
  <2>1. Early(dTask[e]) /\ dTask[e].vmid \in D!Vmids
    BY <1>5 DEF DeploysInv, Begun, Early, Chosen, D!Ended
  <2> QED BY <1>3, <2>1 DEF DeploysInv, EarlyFree
<1>9. \A u \in D!Vmids, e \in Deps : Standing(u, e)' <=> Standing(u, e)
  BY <1>3 DEF Standing
<1>10. NoDeletion'
  BY <1>1, <1>9 DEF DeploysInv, NoDeletion
<1>11. LeasesSound'
  BY <1>1, <1>2, LeasesLeft
<1>12. Leased'
  <2> SUFFICES ASSUME NEW e \in Deps \ dContested, dTask[e].mode = "auto"
               PROVE  /\ \A u \in D!Vmids : Standing(u, e)' /\ dGuest'[u].ip # D!None => Lease(dGuest'[u].ip, u, e) \in dAlloc
                      /\ dTask[e].ip # D!None
                         /\ (dTask'[e].pc = "create" \/ (dTask'[e].pc \in {"wait", "start"} /\ Standing(dTask[e].vmid, e)'))
                         => Lease(dTask[e].ip, dTask[e].vmid, e) \in dAlloc
    BY <1>1, <1>5 DEF Leased, Standing, Lease
  <2>1. ASSUME NEW u \in D!Vmids, Standing(u, e)', dGuest'[u].ip # D!None
        PROVE  Lease(dGuest'[u].ip, u, e) \in dAlloc
    <3>1. Standing(u, e)
      BY <1>9, <2>1
    <3>2. CASE dGuest'[u].ip = dGuest[u].ip
      BY <2>1, <3>1, <3>2 DEF DeploysInv, Leased
    <3>3. CASE u = v /\ Standing(v, d) /\ dGuest'[u].ip = dTask[d].ip
      <4>1. e = d
        BY <3>1, <3>3 DEF Standing
      <4> QED BY <1>1, <2>1, <3>3, <4>1 DEF DeploysInv, Leased
    <3> QED BY <1>3, <3>2, <3>3
  <2>2. ASSUME dTask[e].ip # D!None,
               dTask'[e].pc = "create" \/ (dTask'[e].pc \in {"wait", "start"} /\ Standing(dTask[e].vmid, e)')
        PROVE  Lease(dTask[e].ip, dTask[e].vmid, e) \in dAlloc
    <3>1. e # d /\ dTask'[e] = dTask[e]
      BY <1>2, <2>2
    <3>2. dTask[e].pc \in {"wait", "start"} => dTask[e].vmid \in D!Vmids
      BY DEF DeploysInv, Begun, Chosen, D!Ended
    <3> QED BY <1>9, <2>2, <3>1, <3>2 DEF DeploysInv, Leased
  <2> QED BY <2>1, <2>2
<1>13. RoomLeft'
  <2>1. Counted' \subseteq Counted
    BY <1>1, <1>3 DEF Counted
  <2> QED BY <1>1, <1>2, <1>5, <2>1, RoomKept DEF Chosen
<1> QED BY <1>4, <1>6, <1>7, <1>8, <1>10, <1>11, <1>12, <1>13 DEF DeploysInv

LEMMA SaveInv ==
    ASSUME DeploysInv, NEW d \in Deps, D!Save(d)
    PROVE  DeploysInv'
<1> DEFINE v == dTask[d].vmid
           r == [D!NoTask EXCEPT !.pc = "completed", !.mode = dTask[d].mode]
<1>1. /\ dTask[d].pc = "save" /\ Chosen(dTask[d]) /\ v \in D!Vmids
      /\ UNCHANGED <<dGuest, dAlloc, dDel, dContested, dOverlapped, dEvents>>
      /\ dCache' = [dCache EXCEPT ![v] = [live |-> TRUE, owned |-> TRUE]] /\ dTask' = [dTask EXCEPT ![d] = r]
  BY DEF D!Save, DeploysInv, Begun, Chosen, D!Ended, D!End, D!Step
<1>2. /\ r \in DeployRecords /\ r.pc = "completed" /\ r.mode = dTask[d].mode /\ r.vmid = D!None /\ r.ip = D!None
      /\ ~Chosen(r) /\ ~Early(r) /\ r.pc \in D!Ended
  BY EndRecord
<1> HIDE DEF r
<1>3. /\ dTask'[d] = r /\ \A e \in Deps \ {d} : dTask'[e] = dTask[e]
      /\ dTask' \in [Deps -> DeployRecords]
  BY <1>1, <1>2, DeployTyped
<1>4. /\ dCache' \in [D!Vmids -> CacheRows] /\ dCache'[v].live /\ dCache'[v].owned
      /\ \A u \in D!Vmids \ {v} : dCache'[u] = dCache[u]
  BY <1>1, DeployRest DEF CacheRows
<1>5. DeployTypes'
  BY <1>1, <1>3, <1>4 DEF DeploysInv, DeployTypes
<1>6. Begun'
  BY <1>1, <1>2, <1>3 DEF DeploysInv, Begun
<1>7. OneVmid'
  <2>1. \A e \in Deps : Chosen(dTask[e])' => Chosen(dTask[e]) /\ dTask'[e] = dTask[e]
    BY <1>2, <1>3 DEF Chosen, D!Ended
  <2> QED BY <1>1, <2>1 DEF DeploysInv, OneVmid
<1>8. EarlyFree'
  <2> SUFFICES ASSUME NEW e \in Deps \ dContested, Early(dTask'[e])
               PROVE  /\ dGuest[dTask'[e].vmid].st = "none" /\ ~dCache'[dTask'[e].vmid].live
                      /\ dDel[dTask'[e].vmid] = "no"
    BY <1>1 DEF EarlyFree, Early
  <2>1. e # d /\ dTask'[e] = dTask[e]
    BY <1>2, <1>3
  <2>2. Chosen(dTask[e]) /\ dTask[e].vmid \in D!Vmids
    BY <2>1 DEF Early, Chosen, D!Ended, DeploysInv, Begun
  <2>3. dTask[e].vmid # v
    BY <1>1, <2>1, <2>2 DEF DeploysInv, OneVmid
  <2> QED BY <1>4, <2>1, <2>2, <2>3 DEF DeploysInv, EarlyFree
<1>9. NoDeletion'
  BY <1>1 DEF DeploysInv, NoDeletion, Standing
<1>10. LeasesSound'
  BY <1>1, <1>2, LeasesLeft
<1>11. Leased'
  <2>1. \A e \in Deps : dTask'[e].mode = dTask[e].mode /\ (dTask'[e] = dTask[e] \/ dTask'[e].pc = "completed")
    BY <1>2, <1>3
  <2> SUFFICES ASSUME NEW e \in Deps \ dContested, dTask[e].mode = "auto"
               PROVE  /\ \A u \in D!Vmids : Standing(u, e) /\ dGuest[u].ip # D!None => Lease(dGuest[u].ip, u, e) \in dAlloc
                      /\ dTask'[e].ip # D!None
                         /\ (dTask'[e].pc = "create" \/ (dTask'[e].pc \in {"wait", "start"} /\ Standing(dTask'[e].vmid, e)))
                         => Lease(dTask'[e].ip, dTask'[e].vmid, e) \in dAlloc
    BY <1>1, <2>1 DEF Leased, Standing, Lease
  <2>2. \A u \in D!Vmids : Standing(u, e) /\ dGuest[u].ip # D!None => Lease(dGuest[u].ip, u, e) \in dAlloc
    BY DEF DeploysInv, Leased
  <2>3. CASE dTask'[e] = dTask[e]
    BY <2>2, <2>3 DEF DeploysInv, Leased
  <2>4. CASE dTask'[e].pc = "completed"
    BY <2>2, <2>4
  <2> QED BY <2>1, <2>3, <2>4
<1>12. RoomLeft'
  <2>1. Counted' = Counted \union {v}
    BY <1>1, <1>4 DEF Counted
  <2> QED BY <1>1, <1>2, <1>3, <2>1, RoomTaken DEF Chosen
<1> QED BY <1>5, <1>6, <1>7, <1>8, <1>9, <1>10, <1>11, <1>12 DEF DeploysInv

\* A guest's record with another state.
LEMMA Restated ==
    ASSUME DeploysInv, NEW v \in D!Vmids, NEW st \in {"there", "destroying"}, dGuest' = [dGuest EXCEPT ![v].st = st]
    PROVE  /\ dGuest' \in [D!Vmids -> InstanceRecords] /\ dGuest'[v].st = st
           /\ dGuest'[v].by = dGuest[v].by /\ dGuest'[v].ip = dGuest[v].ip
           /\ \A u \in D!Vmids \ {v} : dGuest'[u] = dGuest[u]
<1>1. dGuest \in [D!Vmids -> InstanceRecords] /\ dGuest[v] \in InstanceRecords
  BY DeployRest
<1> QED BY <1>1 DEF InstanceRecords

LEMMA Vanished ==
    ASSUME DeploysInv, NEW v \in D!Vmids, dGuest' = [dGuest EXCEPT ![v] = D!NoGuest]
    PROVE  /\ dGuest' \in [D!Vmids -> InstanceRecords] /\ dGuest'[v].st = "none" /\ dGuest'[v].by = D!Old
           /\ \A u \in D!Vmids \ {v} : dGuest'[u] = dGuest[u]
<1>1. D!NoGuest \in InstanceRecords /\ D!NoGuest.st = "none" /\ D!NoGuest.by = D!Old
  BY DEF D!NoGuest, InstanceRecords
<1> QED BY <1>1, DeployRest

LEMMA ReviveOrBury ==
    ASSUME DeploysInv, NEW v \in D!Vmids, NEW b \in BOOLEAN, dCache' = [dCache EXCEPT ![v].live = b]
    PROVE  /\ dCache' \in [D!Vmids -> CacheRows] /\ dCache'[v].live = b /\ dCache'[v].owned = dCache[v].owned
           /\ \A u \in D!Vmids \ {v} : dCache'[u] = dCache[u]
<1>1. dCache \in [D!Vmids -> CacheRows] /\ dCache[v] \in CacheRows
  BY DeployRest
<1> QED BY <1>1 DEF CacheRows

LEMMA DeployDeleteInv ==
    ASSUME DeploysInv, NEW v \in D!Vmids, D!Delete(v)
    PROVE  DeploysInv'
<1>1. /\ dGuest[v].st = "there" /\ dGuest' = [dGuest EXCEPT ![v].st = "destroying"]
      /\ dDel' = [dDel EXCEPT ![v] = "cache"] /\ dEvents' \in 0..MaxEvents
      /\ UNCHANGED <<dTask, dCache, dAlloc, dContested, dOverlapped>>
  BY DeployRest DEF D!Delete, D!Present
<1>2. Counted' \subseteq Counted
  BY <1>1, Restated DEF Counted
<1>3. dDel' \in [D!Vmids -> {"no", "cache", "release"}] /\ \A u \in D!Vmids \ {v} : dDel'[u] = dDel[u]
  BY <1>1, DeployRest
<1> QED BY <1>1, <1>2, <1>3, Restated, AtVmid, DeployRest

LEMMA SoftDeleteInv ==
    ASSUME DeploysInv, NEW v \in D!Vmids, D!SoftDelete(v)
    PROVE  DeploysInv'
<1>1. /\ dDel[v] = "cache" /\ dDel' = [dDel EXCEPT ![v] = "release"]
      /\ UNCHANGED <<dTask, dGuest, dContested, dOverlapped, dEvents>> /\ ReleasedFor(v)
  BY DEF D!SoftDelete, ReleasedFor
<1>2. dDel' \in [D!Vmids -> {"no", "cache", "release"}] /\ \A u \in D!Vmids \ {v} : dDel'[u] = dDel[u]
  BY <1>1, DeployRest
<1>3. \A e \in Deps \ dContested : ~Standing(v, e)
  BY <1>1, StandsApart
<1>4. /\ dCache' \in [D!Vmids -> CacheRows] /\ \A u \in D!Vmids \ {v} : dCache'[u] = dCache[u]
      /\ dCache'[v].owned = dCache[v].owned /\ (dCache'[v].live => dCache[v].live)
      /\ dAlloc' = dAlloc \/ dAlloc' = D!Released(v)
  <2>1. CASE dCache[v].live
    BY <2>1, ReviveOrBury DEF D!SoftDelete
  <2>2. CASE ~dCache[v].live
    BY <2>2, DeployRest DEF D!SoftDelete
  <2> QED BY <2>1, <2>2
<1>5. Counted' \subseteq Counted
  BY <1>1, <1>4 DEF Counted
<1> QED BY <1>1, <1>2, <1>4, <1>5, AtVmid, DeployRest

LEMMA ReleaseAgainInv ==
    ASSUME DeploysInv, NEW v \in D!Vmids, D!ReleaseAgain(v)
    PROVE  DeploysInv'
<1>1. /\ dDel[v] = "release" /\ dDel' = [dDel EXCEPT ![v] = "no"] /\ dAlloc' = D!Released(v) /\ ReleasedFor(v)
      /\ UNCHANGED <<dTask, dGuest, dCache, dContested, dOverlapped, dEvents>>
  BY DEF D!ReleaseAgain, ReleasedFor
<1>2. dDel' \in [D!Vmids -> {"no", "cache", "release"}] /\ \A u \in D!Vmids \ {v} : dDel'[u] = dDel[u]
  BY <1>1, DeployRest
<1>3. Counted' \subseteq Counted
  BY <1>1 DEF Counted
<1> QED BY <1>1, <1>2, <1>3, AtVmid, DeployRest

LEMMA DeploySyncInv ==
    ASSUME DeploysInv, NEW v \in D!Vmids, D!Synchronise(v)
    PROVE  DeploysInv'
<1>1. UNCHANGED <<dTask, dGuest, dDel, dContested, dOverlapped, dEvents>>
  BY DEF D!Synchronise
<1>2. CASE dGuest[v].st # "none" /\ dCache' = [dCache EXCEPT ![v].live = TRUE] /\ UNCHANGED dAlloc
  <2>1. Counted' \subseteq Counted
    BY <1>1, <1>2, ReviveOrBury DEF Counted
  <2> QED BY <1>1, <1>2, <2>1, ReviveOrBury, AtVmid, DeployRest
<1>3. CASE /\ dGuest[v].st = "none" /\ dCache[v].live
           /\ dCache' = [dCache EXCEPT ![v].live = FALSE] /\ dAlloc' = D!Released(v)
  <2>1. Counted' \subseteq Counted
    BY <1>1, <1>3, ReviveOrBury DEF Counted
  <2>2. ReleasedFor(v)
    BY <1>3 DEF ReleasedFor
  <2> QED BY <1>1, <1>3, <2>1, <2>2, ReviveOrBury, AtVmid, DeployRest
<1> QED BY <1>2, <1>3 DEF D!Synchronise

LEMMA ProxmoxInv ==
    ASSUME DeploysInv, NEW v \in D!Vmids, D!CreationEnds(v) \/ D!DestroyEnds(v) \/ D!RemovedOutside(v)
    PROVE  DeploysInv'
<1>1. /\ UNCHANGED <<dTask, dCache, dAlloc, dDel, dContested, dOverlapped>> /\ dEvents' \in 0..MaxEvents
      /\ dGuest[v].st # "none"
  BY DeployRest DEF D!CreationEnds, D!DestroyEnds, D!RemovedOutside, D!Present
<1>2. CASE dGuest' = [dGuest EXCEPT ![v] = D!NoGuest]
  <2>1. Counted' \subseteq Counted
    BY <1>1, <1>2, Vanished DEF Counted
  <2> QED BY <1>1, <1>2, <2>1, Vanished, AtVmid, DeployRest
<1>3. CASE dGuest[v].st = "creating" /\ dGuest' = [dGuest EXCEPT ![v].st = "there"]
  <2>1. Counted' \subseteq Counted
    BY <1>1, <1>3, Restated DEF Counted
  <2> QED BY <1>1, <1>3, <2>1, Restated, AtVmid, DeployRest
<1> QED BY <1>2, <1>3 DEF D!CreationEnds, D!DestroyEnds, D!RemovedOutside

LEMMA DeployCrashInv ==
    ASSUME DeploysInv, D!Crash
    PROVE  DeploysInv'
<1>1. /\ UNCHANGED <<dGuest, dCache, dAlloc, dContested, dOverlapped>> /\ dEvents' \in 0..MaxEvents
      /\ dDel' = [v \in D!Vmids |-> "no"]
      /\ dTask' = [d \in Deps |-> IF d \in D!Active THEN [D!NoTask EXCEPT !.pc = "lost", !.mode = dTask[d].mode]
                                  ELSE dTask[d]]
  BY DeployRest DEF D!Crash
<1>2. \A d \in Deps : /\ dTask'[d] \in DeployRecords /\ dTask'[d].pc \in D!Ended /\ dTask'[d].mode = dTask[d].mode
                      /\ ~Chosen(dTask'[d]) /\ ~Early(dTask'[d])
                      /\ dTask'[d].pc = "none" => dTask[d].pc = "none" /\ dTask'[d] = dTask[d]
  <2> SUFFICES ASSUME NEW d \in Deps
               PROVE  /\ dTask'[d] \in DeployRecords /\ dTask'[d].pc \in D!Ended /\ dTask'[d].mode = dTask[d].mode
                      /\ ~Chosen(dTask'[d]) /\ ~Early(dTask'[d])
                      /\ dTask'[d].pc = "none" => dTask[d].pc = "none" /\ dTask'[d] = dTask[d]
    OBVIOUS
  <2>1. CASE d \in D!Active
    <3> DEFINE r == [D!NoTask EXCEPT !.pc = "lost", !.mode = dTask[d].mode]
    <3>1. /\ r \in DeployRecords /\ r.pc = "lost" /\ r.mode = dTask[d].mode /\ ~Chosen(r) /\ ~Early(r)
          /\ r.pc \in D!Ended
      BY EndRecord
    <3>2. dTask'[d] = r
      BY <1>1, <2>1
    <3> HIDE DEF r
    <3> QED BY <3>1, <3>2
  <2>2. CASE d \notin D!Active
    BY <1>1, <2>2, DeployTyped DEF D!Active, Chosen, Early, D!Ended
  <2> QED BY <2>1, <2>2
<1>3. DeployTypes'
  <2>1. dTask' \in [Deps -> DeployRecords] /\ dDel' \in [D!Vmids -> {"no", "cache", "release"}]
    BY <1>1, <1>2
  <2> QED BY <1>1, <2>1 DEF DeploysInv, DeployTypes
<1>4. Begun'
  BY <1>1, <1>2 DEF DeploysInv, Begun, D!Ended
<1>5. OneVmid' /\ EarlyFree' /\ NoDeletion'
  BY <1>1, <1>2 DEF OneVmid, EarlyFree, NoDeletion, Standing, Chosen, Early, D!Ended
<1>6. LeasesSound'
  BY <1>1, <1>2 DEF DeploysInv, LeasesSound, D!Ended, Chosen
<1>7. Leased'
  <2> SUFFICES ASSUME NEW e \in Deps \ dContested, dTask[e].mode = "auto"
               PROVE  /\ \A u \in D!Vmids : Standing(u, e) /\ dGuest[u].ip # D!None => Lease(dGuest[u].ip, u, e) \in dAlloc
                      /\ dTask'[e].pc \notin {"create", "wait", "start"}
    <3>1. \A e \in Deps : dTask'[e].mode = dTask[e].mode
      BY <1>2
    <3> QED BY <1>1, <3>1, ZenonT(60) DEF Leased, Standing, Lease
  <2>1. dTask'[e].pc \notin {"create", "wait", "start"}
    BY <1>2 DEF D!Ended
  <2> QED BY <2>1 DEF DeploysInv, Leased
<1>8. RoomLeft'
  <2>1. Counted' \subseteq Counted
    BY <1>1 DEF Counted
  <2> QED BY <1>1, <1>2, <2>1, RoomKept
<1> QED BY <1>3, <1>4, <1>5, <1>6, <1>7, <1>8 DEF DeploysInv

LEMMA DeploysInit == D!Init => DeploysInv
<1> SUFFICES ASSUME D!Init PROVE DeploysInv
  OBVIOUS
<1>1. 1 \in D!Vmids /\ 1 \in D!Addrs /\ MaxInstances \in Nat /\ MaxInstances >= 1
  BY ServicesAssumption DEF D!Vmids, D!Addrs
<1>2. /\ dTask = [d \in Deps |-> D!NoTask] /\ dContested = {} /\ dOverlapped = FALSE /\ dEvents = 0
      /\ dGuest = [v \in D!Vmids |-> IF v = 1 THEN [st |-> "there", by |-> D!Old, ip |-> 1] ELSE D!NoGuest]
      /\ \E owned \in BOOLEAN :
            dCache = [v \in D!Vmids |-> IF v = 1 THEN [live |-> TRUE, owned |-> owned] ELSE D!NoRow]
      /\ dAlloc = {[ip |-> 1, vmid |-> 1, by |-> D!Old]} /\ dDel = [v \in D!Vmids |-> "no"]
  BY DEF D!Init
<1>3. D!NoTask \in DeployRecords /\ D!NoTask.pc = "none" /\ D!NoTask.ip = D!None /\ D!NoTask.vmid = D!None
  BY DEF D!NoTask, DeployRecords, DeployPcs, D!Ended, D!Kinds, D!Modes
<1>4. \A v \in D!Vmids : dGuest[v] \in InstanceRecords /\ dGuest[v].by = D!Old
  BY <1>1, <1>2 DEF InstanceRecords, D!NoGuest
<1>5. dCache \in [D!Vmids -> CacheRows]
  BY <1>2 DEF CacheRows, D!NoRow
<1>6. DeployTypes
  <2>1. dTask \in [Deps -> DeployRecords] /\ dGuest \in [D!Vmids -> InstanceRecords]
    BY <1>2, <1>3, <1>4
  <2>2. [ip |-> 1, vmid |-> 1, by |-> D!Old] \in Leases
    BY <1>1 DEF Leases
  <2>3. dDel \in [D!Vmids -> {"no", "cache", "release"}] /\ dEvents \in 0..MaxEvents
    BY <1>2, ServicesAssumption
  <2> QED BY <1>2, <1>5, <2>1, <2>2, <2>3 DEF DeployTypes
<1>7. D!Old \notin Deps
  BY ServicesAssumption DEF D!Old
<1>8. Begun /\ OneVmid /\ EarlyFree /\ NoDeletion /\ Leased
  BY <1>2, <1>3, <1>4, <1>7 DEF Begun, OneVmid, EarlyFree, NoDeletion, Leased, Chosen, Early, Standing, D!Ended
<1>9. LeasesSound
  BY <1>2, <1>7 DEF LeasesSound
<1>10. RoomLeft
  <2>1. Counted \subseteq {1}
    BY <1>2 DEF Counted, D!NoGuest, D!NoRow
  <2>2. Cardinality({1}) = 1
    BY FS_Singleton
  <2>3. Cardinality(Counted) <= 1 /\ Cardinality(Counted) \in Nat
    BY <1>1, <2>1, <2>2, CountedType, VmidsFinite
  <2>4. \A d \in Deps : dTask[d].pc \in D!Ended
    BY <1>2, <1>3 DEF D!Ended
  <2> QED BY <1>1, <2>3, <2>4 DEF RoomLeft
<1> QED BY <1>6, <1>8, <1>9, <1>10 DEF DeploysInv

LEMMA DeploysStep ==
    ASSUME DeploysInv, [Next]_vars
    PROVE  DeploysInv'
<1>1. CASE UNCHANGED depsVars
  BY <1>1 DEF depsVars, DeploysInv, DeployTypes, Begun, OneVmid, EarlyFree, NoDeletion, Standing, LeasesSound, Leased,
              RoomLeft, Counted
<1>2. CASE D!Next
  <2>1. \A d \in Deps : D!Fail(d) => DeploysInv'
    BY JobEnds DEF D!Fail
  <2> QED BY <1>2, <2>1, SubmitInv, DeployPickInv, TakeAddressInv, DeployCreateInv, WaitInv, StartSettingsInv, SaveInv,
             DeployDeleteInv, SoftDeleteInv, ReleaseAgainInv, DeploySyncInv, ProxmoxInv, DeployCrashInv
          DEF D!Next, D!JobStep
<1> QED BY <1>1, <1>2 DEF Next, vars, AppStep, DeploymentStep, MoveStep, BackupJobStep, SocketStep,
                          AccountStep, MonitorStep

\* Two addresses from one network that were given out are different.
LEMMA DifferentAddresses == DeploysInv => D!AutomaticDiffer
<1> SUFFICES ASSUME DeploysInv, NEW v \in D!Vmids, NEW u \in D!Vmids, v # u, D!Present(v), D!Present(u),
                    dGuest[v].ip # D!None, {dGuest[v].by, dGuest[u].by} \subseteq Deps \ dContested,
                    D!Automatic(v), D!Automatic(u), dGuest[v].ip = dGuest[u].ip
             PROVE  FALSE
  BY DEF D!AutomaticDiffer
<1>1. Standing(v, dGuest[v].by) /\ Standing(u, dGuest[u].by)
  BY DEF Standing, D!Present
<1>2. Lease(dGuest[v].ip, v, dGuest[v].by) \in dAlloc /\ Lease(dGuest[u].ip, u, dGuest[u].by) \in dAlloc
  BY <1>1 DEF DeploysInv, Leased, D!Automatic
<1>3. Lease(dGuest[v].ip, v, dGuest[v].by) = Lease(dGuest[u].ip, u, dGuest[u].by)
  <2>1. \A x, w, e : Lease(x, w, e).ip = x
    BY DEF Lease
  <2> QED BY <1>2, <2>1 DEF DeploysInv, LeasesSound
<1>4. \A x, w, e : Lease(x, w, e).vmid = w
  BY DEF Lease
<1> QED BY <1>3, <1>4

\* The owner's cached guests stay within the quota as long as no request was
\* checked while the usage was not yet what it would be; and two guests of
\* uncontested deployments that got their addresses from IPAM never have the
\* same one.
THEOREM DeploymentsHold == Spec => []DeploymentsTrue
<1>1. Init => DeploysInv
  BY DeploysInit DEF Init
<1>2. DeploysInv /\ [Next]_vars => DeploysInv'
  BY DeploysStep
<1>3. DeploysInv => DeploymentsTrue
  BY RoomForUsage, DifferentAddresses DEF DeploymentsTrue
<1> QED BY <1>1, <1>2, <1>3, PTL DEF Spec

\* An address of a deployed guest goes only when the guest is not there.
LEMMA LeaseAfterGuest ==
    ASSUME DeploysInv, D!Next, NEW l \in dAlloc, l.by \in Deps \ dContested, l \notin dAlloc'
    PROVE  dTask[l.by].pc # "create" /\ (dGuest[l.vmid].by = l.by => ~D!Present(l.vmid))
<1>1. PICK v \in D!Vmids : ReleasedFor(v) /\ l.vmid = v
  <2>1. ASSUME NEW d \in Deps, D!Submit(d) \/ D!JobStep(d) \/ D!Fail(d) PROVE FALSE
    BY <2>1 DEF D!Submit, D!JobStep, D!Fail, D!PickVmid, D!TakeAddress, D!Create, D!Wait, D!Start, D!Save
  <2>2. ~D!Crash
    BY DEF D!Crash
  <2>3. PICK v \in D!Vmids : D!SoftDelete(v) \/ D!ReleaseAgain(v) \/ D!Synchronise(v)
    BY <2>1, <2>2 DEF D!Next, D!Delete, D!CreationEnds, D!DestroyEnds, D!RemovedOutside
  <2>4. ReleasedFor(v) /\ dAlloc' = D!Released(v)
    BY <2>3 DEF D!SoftDelete, D!ReleaseAgain, D!Synchronise, ReleasedFor
  <2> QED BY <2>4 DEF D!Released
<1>2. ~Standing(v, l.by) /\ (Early(dTask[l.by]) => dTask[l.by].vmid # v)
  BY <1>1, StandsApart
<1>3. dTask[l.by].pc = "create" => dTask[l.by].vmid = v
  BY <1>1 DEF DeploysInv, LeasesSound, Chosen, D!Ended
<1> QED BY <1>1, <1>2, <1>3 DEF Standing, Early, D!Present

-----------------------------------------------------------------------------
(* Applications.                                                           *)
OpPcs == {"queued", "probe", "create", "await", "deploy", "snapshot", "compose", "prune", "restore",
          "teardown", "release", "erase", "record", "finish", "done", "lost"}
OpRecords ==
    [app : Apps, type : {"install", "update", "rollback", "delete"}, vmid : A!Vmids, pc : OpPcs,
     ver : A!Versions \union {A!None}, out : A!Statuses \union {"none"}]
AppRows ==
    [status : A!Statuses \union {"none"}, vmid : A!Vmids \union {A!None}, ip : BOOLEAN,
     ver : A!Versions \union {A!None}, snap : 0..AppOps, snapVer : 0..AppVersions]
AppRequests == [pc : {"idle", "address", "insert"}, vmid : A!Vmids \union {A!None}, ip : BOOLEAN]
Snapshots == [id : 1..AppOps, ver : A!Versions \union {A!None}]
Containers ==
    [st : A!CtStates, owner : Apps \union {A!Other}, made : 0..AppOps, app : Apps \union {A!Other},
     ver : A!Versions \union {A!None}, snaps : SUBSET Snapshots]

AppTypes ==
    /\ aReq \in [Apps -> AppRequests] /\ aRow \in [Apps -> AppRows]
    /\ aOps \in Seq(OpRecords) /\ Len(aOps) <= AppOps
    /\ aCalls \subseteq [app : Apps, seen : A!Statuses, new : {"running", "stopped"}]
    /\ aPass \subseteq [app : Apps, new : A!Statuses]
    /\ aCt \in [A!Vmids -> Containers]
    /\ aAlloc \subseteq [vmid : A!Vmids, owner : Apps \union {A!Other}]
    /\ aLatest \in A!Versions /\ aMuddled \subseteq Apps /\ aCrossed \subseteq Apps /\ aEvents \in 0..AppEvents

\* A row has a vmid; a request has one, and neither row nor operation yet; an
\* operation whose end is to be recorded has one.
Recordable(r) == r.out # "none" /\ (r.type = "delete" => r.out # "running")
Placed ==
    /\ \A o \in DOMAIN aOps : aOps[o].pc = "record" => Recordable(aOps[o])
    /\ \A a \in Apps : A!Exists(a) => aRow[a].vmid \in A!Vmids
    /\ \A a \in Apps : aReq[a].pc # "idle" =>
          /\ aReq[a].vmid \in A!Vmids /\ ~A!Exists(a)
          /\ \A o \in DOMAIN aOps : aOps[o].app # a

\* The operations of an application that came one after the other.
OpOf(a, o) == o \in DOMAIN aOps /\ aOps[o].app = a
InTurn ==
    \A a \in Apps \ aCrossed : \A o \in DOMAIN aOps : OpOf(a, o) /\ A!Live(o) =>
        /\ \A p \in DOMAIN aOps : aOps[p].app = a => p <= o
        /\ A!Exists(a) /\ aRow[a].vmid = aOps[o].vmid

\* Nobody else is at its vmid.
Apart == \A a \in Apps \ aCrossed : A!Exists(a) => A!Beside(a, aRow[a].vmid) = {}

\* A deletion that gives up the address has removed the container.
TornDown ==
    \A a \in Apps \ aCrossed : \A o \in DOMAIN aOps :
        OpOf(a, o) /\ aOps[o].type = "delete" /\ aOps[o].pc \in {"release", "erase"} => aCt[aOps[o].vmid].owner # a

\* Snapshots are named by the updates that took them.
SnapshotsNamed ==
    /\ \A v \in A!Vmids : \A s \in aCt[v].snaps :
          s.id \in DOMAIN aOps /\ aOps[s.id].type = "update" /\ aOps[s.id].pc \notin {"queued", "snapshot"}
    /\ \A a \in Apps : aRow[a].snap # A!None =>
          A!Exists(a) /\ OpOf(a, aRow[a].snap) /\ aOps[aRow[a].snap].type = "update"
    /\ \A v \in A!Vmids : aCt[v].st \in {"none", "creating"} => aCt[v].app = A!Other

\* The snapshot of the update under way; the one the row names.
Succeeds(o) == aOps[o].pc = "record" /\ aOps[o].out = "running"
SnapshotsThere ==
    /\ \A a \in Apps \ aCrossed : \A o \in DOMAIN aOps :
          OpOf(a, o) /\ aOps[o].type = "update" /\ (aOps[o].pc \in {"compose", "prune"} \/ Succeeds(o)) => aRow[a].snap = o
    /\ \A a \in Apps \ aCrossed :
          A!Exists(a) /\ aCt[aRow[a].vmid].owner = a /\ aRow[a].snap > aCt[aRow[a].vmid].made =>
              \E s \in aCt[aRow[a].vmid].snaps : s.id = aRow[a].snap

\* Which version an operation brings, has brought, or will come back to.
Clean == Apps \ (aCrossed \union aMuddled)
Brings(a, o) ==
    LET ver == aCt[aRow[a].vmid].ver IN
    /\ aOps[o].pc \in {"prune", "finish", "done"} /\ aOps[o].out = "running" => ver = aRow[a].ver
    /\ aOps[o].type = "install" /\ Succeeds(o) => ver = aRow[a].ver
    /\ aOps[o].type = "update" /\ Succeeds(o) => ver = aOps[o].ver
    /\ aOps[o].type = "rollback" /\ aOps[o].pc = "record" /\ aOps[o].out # "update_failed" => ver = aRow[a].snapVer
VersionsSound ==
    /\ \A a \in Clean : \A o \in DOMAIN aOps :
          OpOf(a, o) /\ aOps[o].type = "install" /\ A!Live(o) => aOps[o].ver = aRow[a].ver
    /\ \A a \in Clean : A!Exists(a) =>
          \A s \in aCt[aRow[a].vmid].snaps : s.id = aRow[a].snap => s.ver = aRow[a].snapVer
    /\ \A a \in Clean : A!Exists(a) /\ A!Own(a) => \A o \in A!LastOf(a) : Brings(a, o)

AppsInv ==
    /\ AppTypes /\ Placed /\ InTurn /\ Apart /\ A!ContainerHasRow /\ TornDown
    /\ SnapshotsNamed /\ SnapshotsThere /\ VersionsSound

LEMMA AppTyped ==
    AppsInv => /\ aReq \in [Apps -> AppRequests] /\ aRow \in [Apps -> AppRows]
               /\ aOps \in Seq(OpRecords) /\ Len(aOps) \in 0..AppOps /\ DOMAIN aOps = 1..Len(aOps)
               /\ \A o \in DOMAIN aOps : aOps[o] \in OpRecords /\ o \in 1..AppOps
               /\ aCt \in [A!Vmids -> Containers]
               /\ aCrossed \subseteq Apps /\ aMuddled \subseteq Apps /\ aEvents \in 0..AppEvents
  BY ServicesAssumption DEF AppsInv, AppTypes

\* The operation, the row and the container of an application that fit one
\* another: for one whose operations came in turn, and for what is said of its
\* version besides.
Fits(a, o, r, w, c) ==
    /\ w.vmid = r.vmid /\ w.status # "none"
    /\ r.type = "delete" /\ r.pc \in {"release", "erase"} => c.owner # a
    /\ r.type = "update" /\ (r.pc \in {"compose", "prune"} \/ (r.pc = "record" /\ r.out = "running")) => w.snap = o
    /\ c.owner = a /\ w.snap > c.made => \E s \in c.snaps : s.id = w.snap
VersionFits(a, r, w, c) ==
    /\ r.type = "install" /\ r.pc \notin {"done", "lost"} => r.ver = w.ver
    /\ \A s \in c.snaps : s.id = w.snap => s.ver = w.snapVer
    /\ c.st \in {"stopped", "running"} /\ c.owner = a /\ c.app = a =>
          /\ r.pc \in {"prune", "finish", "done"} /\ r.out = "running" => c.ver = w.ver
          /\ r.type = "install" /\ r.pc = "record" /\ r.out = "running" => c.ver = w.ver
          /\ r.type = "update" /\ r.pc = "record" /\ r.out = "running" => c.ver = r.ver
          /\ r.type = "rollback" /\ r.pc = "record" /\ r.out # "update_failed" => c.ver = w.snapVer

LEMMA OpFits ==
    ASSUME AppsInv, NEW a \in Apps \ aCrossed, NEW o \in DOMAIN aOps, OpOf(a, o), A!Live(o)
    PROVE  /\ Fits(a, o, aOps[o], aRow[a], aCt[aOps[o].vmid])
           /\ a \in Clean => VersionFits(a, aOps[o], aRow[a], aCt[aOps[o].vmid])
<1>1. /\ \A p \in DOMAIN aOps : aOps[p].app = a => p <= o
      /\ A!Exists(a) /\ aRow[a].vmid = aOps[o].vmid
  BY DEF AppsInv, InTurn
<1>2. Fits(a, o, aOps[o], aRow[a], aCt[aOps[o].vmid])
  BY <1>1 DEF AppsInv, TornDown, SnapshotsThere, Fits, A!Exists, Succeeds
<1>3. ASSUME a \in Clean PROVE VersionFits(a, aOps[o], aRow[a], aCt[aOps[o].vmid])
  <2>1. o \in A!LastOf(a)
    BY <1>1 DEF A!LastOf, OpOf
  <2>2. A!Own(a) => Brings(a, o)
    BY <1>1, <1>3, <2>1 DEF AppsInv, VersionsSound
  <2> QED BY <1>1, <1>3, <2>2 DEF AppsInv, VersionsSound, VersionFits, Brings, Succeeds, A!Own, A!Ready, A!Live
<1> QED BY <1>2, <1>3

\* A step of operation o of application a at its vmid, after which it is r, the
\* row w and the container c.
OpStep(a, o, r, w, c) ==
    /\ OpOf(a, o) /\ A!Live(o)
    /\ r \in OpRecords /\ w \in AppRows /\ c \in Containers
    /\ r.app = a /\ r.type = aOps[o].type /\ r.vmid = aOps[o].vmid
    /\ r.pc = "record" => Recordable(r)
    /\ r.pc \in {"queued", "snapshot"} => aOps[o].pc \in {"queued", "snapshot"}
    /\ w.status = "none" <=> aRow[a].status = "none"
    /\ w.vmid \in {aRow[a].vmid, aOps[o].vmid}
    /\ w.snap = aRow[a].snap \/ (w.snap = o /\ r.type = "update" /\ A!Exists(a))
    /\ c.owner \in {aCt[aOps[o].vmid].owner, a, A!Other}
    /\ \A s \in c.snaps : \/ s \in aCt[aOps[o].vmid].snaps
                          \/ s.id = o /\ r.type = "update" /\ r.pc \notin {"queued", "snapshot"}
    /\ c.st \in {"none", "creating"} => c.app = A!Other
    /\ aOps' = [aOps EXCEPT ![o] = r] /\ aRow' = [aRow EXCEPT ![a] = w]
    /\ aCt' = [aCt EXCEPT ![aOps[o].vmid] = c]
    /\ UNCHANGED <<aReq, aCalls, aPass, aLatest, aCrossed, aEvents>>
    /\ aAlloc' \subseteq aAlloc /\ aMuddled \subseteq aMuddled' /\ aMuddled' \subseteq Apps
    /\ a \notin aCrossed => Fits(a, o, r, w, c)
    /\ a \in Clean' => VersionFits(a, r, w, c)

LEMMA OpKeeps ==
    ASSUME AppsInv, NEW a \in Apps, NEW o \in DOMAIN aOps, NEW r, NEW w, NEW c, OpStep(a, o, r, w, c)
    PROVE  AppsInv'
<1> USE DEF OpStep
<1> DEFINE v == aOps[o].vmid
<1>1. /\ v \in A!Vmids /\ aOps'[o] = r /\ \A p \in DOMAIN aOps : p # o => aOps'[p] = aOps[p]
      /\ DOMAIN aOps' = DOMAIN aOps /\ aOps' \in Seq(OpRecords) /\ Len(aOps') = Len(aOps)
  BY AppTyped DEF OpRecords
<1>2. /\ aRow'[a] = w /\ \A b \in Apps : b # a => aRow'[b] = aRow[b]
      /\ aRow' \in [Apps -> AppRows]
  BY AppTyped
<1>3. /\ aCt'[v] = c /\ \A u \in A!Vmids : u # v => aCt'[u] = aCt[u]
      /\ aCt' \in [A!Vmids -> Containers]
  BY <1>1, AppTyped
<1>4. \A b \in Apps : A!Exists(b)' <=> A!Exists(b)
  BY <1>2 DEF A!Exists
<1>5. \A b \in Apps \ aCrossed : b # a /\ A!Exists(b) => aRow[b].vmid # v
  BY DEF AppsInv, Apart, A!Beside, OpOf
<1>6. a \notin aCrossed => A!Exists(a) /\ aRow[a].vmid = v /\ w.vmid = v /\ \A p \in DOMAIN aOps : aOps[p].app = a => p <= o
  BY DEF AppsInv, InTurn, Fits
<1>7. \A p \in DOMAIN aOps : p # o /\ OpOf(a, p) /\ a \notin aCrossed => ~A!Live(p)
  <2> SUFFICES ASSUME NEW p \in DOMAIN aOps, p # o, OpOf(a, p), a \notin aCrossed, A!Live(p) PROVE FALSE
    OBVIOUS
  <2>1. o <= p /\ p <= o
    BY DEF AppsInv, InTurn, OpOf
  <2> QED BY <2>1, AppTyped
<1> HIDE DEF v
<1>8. AppTypes'
  BY <1>1, <1>2, <1>3 DEF AppsInv, AppTypes
<1>9. Placed'
  <2>1. \A b \in Apps : A!Exists(b)' => aRow'[b].vmid \in A!Vmids
    BY <1>1, <1>2, <1>4 DEF AppsInv, Placed, v
  <2>2. \A b \in Apps : aReq[b].pc # "idle" => \A p \in DOMAIN aOps : aOps'[p].app # b
    BY <1>1 DEF AppsInv, Placed, OpOf
  <2>3. \A p \in DOMAIN aOps : aOps'[p].pc = "record" => Recordable(aOps'[p])
    BY <1>1 DEF AppsInv, Placed
  <2> QED BY <1>1, <1>4, <2>1, <2>2, <2>3 DEF AppsInv, Placed
<1>10. InTurn'
  <2> SUFFICES ASSUME NEW b \in Apps \ aCrossed, NEW p \in DOMAIN aOps, aOps'[p].app = b, aOps'[p].pc \notin {"done", "lost"}
               PROVE  /\ \A q \in DOMAIN aOps : aOps'[q].app = b => q <= p
                      /\ A!Exists(b) /\ aRow'[b].vmid = aOps'[p].vmid
    BY <1>1, <1>4 DEF InTurn, OpOf, A!Live
  <2>1. \A q \in DOMAIN aOps : aOps'[q].app = aOps[q].app /\ aOps'[q].vmid = aOps[q].vmid
    BY <1>1 DEF OpOf
  <2>2. CASE p = o
    BY <1>1, <1>2, <1>6, <2>1, <2>2 DEF v, OpOf
  <2>3. CASE p # o
    BY <1>1, <1>2, <1>7, <2>1, <2>3 DEF AppsInv, InTurn, OpOf, A!Live
  <2> QED BY <2>2, <2>3
<1>11. Apart'
  <2> SUFFICES ASSUME NEW b \in Apps \ aCrossed, A!Exists(b), NEW e \in Apps \ {b},
                      \/ A!Exists(e) /\ aRow'[e].vmid = aRow'[b].vmid
                      \/ \E p \in DOMAIN aOps : aOps'[p].app = e /\ aOps'[p].pc \notin {"done", "lost"} /\ aOps'[p].vmid = aRow'[b].vmid
               PROVE  FALSE
    BY <1>1, <1>4 DEF Apart, A!Beside, A!Live
  <2>1. aRow'[b].vmid = aRow[b].vmid
    BY <1>2, <1>6
  <2>2. /\ A!Exists(e) => aRow[e].vmid # aRow[b].vmid
        /\ \A p \in DOMAIN aOps : aOps[p].app = e /\ A!Live(p) => aOps[p].vmid # aRow[b].vmid
    BY DEF AppsInv, Apart, A!Beside
  <2>3. ~(A!Exists(e) /\ aRow'[e].vmid = aRow'[b].vmid)
    BY <1>2, <2>1, <2>2 DEF OpOf
  <2>4. \A p \in DOMAIN aOps : aOps'[p].app = e /\ aOps'[p].pc \notin {"done", "lost"} => aOps'[p].vmid # aRow'[b].vmid
    BY <1>1, <2>1, <2>2 DEF OpOf, A!Live
  <2> QED BY <2>3, <2>4
<1>12. (A!ContainerHasRow)'
  <2> SUFFICES ASSUME NEW u \in A!Vmids, aCt'[u].owner # A!Other, aCt'[u].owner \notin aCrossed
               PROVE  aRow'[aCt'[u].owner].status # "none" /\ aRow'[aCt'[u].owner].vmid = u
    BY DEF A!ContainerHasRow, A!Exists
  <2>1. aCt'[u].owner \in Apps
    BY <1>3 DEF Containers
  <2>2. CASE u = v /\ aCt'[u].owner = a
    BY <1>2, <1>6, <2>2 DEF A!Exists
  <2>3. CASE aCt'[u].owner = aCt[u].owner
    <3>1. A!Exists(aCt[u].owner) /\ aRow[aCt[u].owner].vmid = u
      BY <2>3 DEF AppsInv, A!ContainerHasRow
    <3> QED BY <1>2, <1>6, <2>1, <2>3, <3>1 DEF A!Exists
  <2> QED BY <1>3, <2>2, <2>3 DEF v
<1>13. TornDown'
  <2> SUFFICES ASSUME NEW b \in Apps \ aCrossed, NEW p \in DOMAIN aOps, aOps'[p].app = b, aOps'[p].type = "delete",
                      aOps'[p].pc \in {"release", "erase"}
               PROVE  aCt'[aOps'[p].vmid].owner # b
    BY <1>1 DEF TornDown, OpOf
  <2>1. CASE p = o
    BY <1>1, <1>3, <2>1 DEF Fits, v
  <2>2. CASE p # o
    <3>1. b # a
      BY <1>1, <1>7, <2>2 DEF OpOf, A!Live
    <3>2. aCt[aOps[p].vmid].owner # b /\ aOps'[p] = aOps[p]
      BY <1>1, <2>2 DEF AppsInv, TornDown, OpOf
    <3>3. aOps[p].vmid \in A!Vmids /\ A!Other # b
      BY AppTyped, ServicesAssumption DEF OpRecords, A!Other
    <3> QED BY <1>3, <3>1, <3>2, <3>3 DEF v
  <2> QED BY <2>1, <2>2
<1>14. SnapshotsNamed'
  <2>1. \A u \in A!Vmids : \A s \in aCt'[u].snaps :
           s.id \in DOMAIN aOps /\ aOps'[s.id].type = "update" /\ aOps'[s.id].pc \notin {"queued", "snapshot"}
    <3> SUFFICES ASSUME NEW u \in A!Vmids, NEW s \in aCt'[u].snaps
                 PROVE  s.id \in DOMAIN aOps /\ aOps'[s.id].type = "update" /\ aOps'[s.id].pc \notin {"queued", "snapshot"}
      OBVIOUS
    <3>1. s \in aCt[u].snaps \/ (s.id = o /\ r.type = "update" /\ r.pc \notin {"queued", "snapshot"})
      BY <1>3 DEF v
    <3>2. CASE s \in aCt[u].snaps
      <4>1. s.id \in DOMAIN aOps /\ aOps[s.id].type = "update" /\ aOps[s.id].pc \notin {"queued", "snapshot"}
        BY <3>2 DEF AppsInv, SnapshotsNamed
      <4> QED BY <1>1, <4>1
    <3> QED BY <1>1, <3>1, <3>2
  <2>2. \A b \in Apps : aRow'[b].snap # A!None =>
           A!Exists(b) /\ aRow'[b].snap \in DOMAIN aOps /\ aOps'[aRow'[b].snap].app = b /\ aOps'[aRow'[b].snap].type = "update"
    <3> SUFFICES ASSUME NEW b \in Apps, aRow'[b].snap # A!None
                 PROVE  A!Exists(b) /\ aRow'[b].snap \in DOMAIN aOps /\ aOps'[aRow'[b].snap].app = b /\ aOps'[aRow'[b].snap].type = "update"
      OBVIOUS
    <3>1. CASE aRow'[b].snap = aRow[b].snap
      BY <1>1, <3>1 DEF AppsInv, SnapshotsNamed, OpOf
    <3>2. CASE aRow'[b].snap # aRow[b].snap
      BY <1>1, <1>2, <3>2
    <3> QED BY <3>1, <3>2
  <2>3. \A u \in A!Vmids : aCt'[u].st \in {"none", "creating"} => aCt'[u].app = A!Other
    BY <1>3 DEF AppsInv, SnapshotsNamed, v
  <2> QED BY <1>1, <1>4, <2>1, <2>2, <2>3 DEF SnapshotsNamed, OpOf
<1>15. SnapshotsThere'
  <2>1. ASSUME NEW b \in Apps \ aCrossed, NEW p \in DOMAIN aOps, aOps'[p].app = b, aOps'[p].type = "update",
               aOps'[p].pc \in {"compose", "prune"} \/ (aOps'[p].pc = "record" /\ aOps'[p].out = "running")
        PROVE  aRow'[b].snap = p
    <3>1. CASE p = o
      BY <1>1, <1>2, <2>1, <3>1 DEF Fits
    <3>2. CASE p # o
      <4>1. b # a
        BY <1>1, <1>7, <2>1, <3>2 DEF OpOf, A!Live
      <4> QED BY <1>1, <1>2, <2>1, <3>2, <4>1 DEF AppsInv, SnapshotsThere, OpOf, Succeeds
    <3> QED BY <3>1, <3>2
  <2>2. ASSUME NEW b \in Apps \ aCrossed, A!Exists(b), aCt'[aRow'[b].vmid].owner = b,
               aRow'[b].snap > aCt'[aRow'[b].vmid].made
        PROVE  \E s \in aCt'[aRow'[b].vmid].snaps : s.id = aRow'[b].snap
    <3>1. CASE b = a
      BY <1>2, <1>3, <1>6, <2>2, <3>1 DEF Fits
    <3>2. CASE b # a
      <4>1. aRow'[b] = aRow[b] /\ aCt'[aRow[b].vmid] = aCt[aRow[b].vmid]
        BY <1>2, <1>3, <1>5, <2>2, <3>2 DEF AppsInv, Placed
      <4> QED BY <2>2, <3>2, <4>1 DEF AppsInv, SnapshotsThere
    <3> QED BY <3>1, <3>2
  <2> QED BY <1>1, <1>4, <2>1, <2>2 DEF SnapshotsThere, OpOf, Succeeds
<1>16. VersionsSound'
  <2>1. \A b \in Clean' : b \in Clean
    BY DEF Clean
  <2>2. ASSUME NEW b \in Clean', NEW p \in DOMAIN aOps, aOps'[p].app = b, aOps'[p].type = "install",
               aOps'[p].pc \notin {"done", "lost"}
        PROVE  aOps'[p].ver = aRow'[b].ver
    <3>1. CASE p = o
      BY <1>1, <1>2, <2>2, <3>1 DEF VersionFits
    <3>2. CASE p # o
      <4>1. b # a
        BY <1>1, <1>7, <2>1, <2>2, <3>2 DEF OpOf, A!Live, Clean
      <4> QED BY <1>1, <1>2, <2>1, <2>2, <3>2, <4>1 DEF AppsInv, VersionsSound, OpOf, A!Live
    <3> QED BY <3>1, <3>2
  <2>3. ASSUME NEW b \in Clean', A!Exists(b)
        PROVE  /\ \A s \in aCt'[aRow'[b].vmid].snaps : s.id = aRow'[b].snap => s.ver = aRow'[b].snapVer
               /\ A!Own(b)' => \A p \in A!LastOf(b)' : Brings(b, p)'
    <3>1. CASE b = a
      <4>1. a \notin aCrossed /\ aRow'[a] = w /\ w.vmid = v /\ aCt'[w.vmid] = c
        BY <1>2, <1>3, <1>6, <2>1, <2>3, <3>1 DEF Clean
      <4>2. VersionFits(a, r, w, c)
        BY <2>3, <3>1
      <4>3. \A p \in A!LastOf(b)' : p = o
        <5> SUFFICES ASSUME NEW p \in A!LastOf(b)' PROVE p = o
          OBVIOUS
        <5>1. p \in DOMAIN aOps /\ aOps'[p].app = a /\ o <= p
          BY <1>1, <3>1 DEF A!LastOf
        <5>2. p <= o
          BY <1>1, <1>6, <4>1, <5>1
        <5> QED BY <5>1, <5>2, AppTyped
      <4>4. A!Own(b)' => c.st \in {"stopped", "running"} /\ c.owner = a /\ c.app = a
        BY <3>1, <4>1 DEF A!Own, A!Ready
      <4>5. A!Own(b)' => Brings(a, o)'
        BY <1>1, <4>1, <4>2, <4>4 DEF VersionFits, Brings, Succeeds
      <4> QED BY <3>1, <4>1, <4>2, <4>3, <4>5 DEF VersionFits
    <3>2. CASE b # a
      <4>1. aRow'[b] = aRow[b] /\ aCt'[aRow[b].vmid] = aCt[aRow[b].vmid]
        BY <1>2, <1>3, <1>5, <2>1, <2>3, <3>2 DEF AppsInv, Placed, Clean
      <4>2. \A p \in A!LastOf(b)' : p \in A!LastOf(b) /\ aOps'[p] = aOps[p]
        BY <1>1, <3>2 DEF A!LastOf, OpOf
      <4>3. A!Own(b)' <=> A!Own(b)
        BY <4>1 DEF A!Own, A!Ready
      <4>4. \A p \in A!LastOf(b)' : Brings(b, p) => Brings(b, p)'
        BY <4>1, <4>2 DEF Brings, Succeeds
      <4> QED BY <2>1, <2>3, <4>1, <4>2, <4>3, <4>4 DEF AppsInv, VersionsSound
    <3> QED BY <3>1, <3>2
  <2>4. \A b \in Clean' : A!Exists(b)' => A!Exists(b)
    BY <1>4, <2>1 DEF Clean
  <2>5. \A b \in Clean' : \A p \in (DOMAIN aOps)' :
           OpOf(b, p)' /\ aOps'[p].type = "install" /\ A!Live(p)' => aOps'[p].ver = aRow'[b].ver
    BY <1>1, <2>2 DEF OpOf, A!Live
  <2> QED BY <2>3, <2>4, <2>5 DEF VersionsSound
<1> QED BY <1>8, <1>9, <1>10, <1>11, <1>12, <1>13, <1>14, <1>15, <1>16 DEF AppsInv

\* The operation after a move, after its outcome, and after its end.
Moved(o, pc) == [aOps[o] EXCEPT !.pc = pc]
Outcome(o, out) == [aOps[o] EXCEPT !.pc = "record", !.out = out]

LEMMA MovedIs ==
    ASSUME AppsInv, NEW o \in DOMAIN aOps, NEW pc \in OpPcs
    PROVE  /\ Moved(o, pc) \in OpRecords /\ Moved(o, pc).pc = pc
           /\ Moved(o, pc).app = aOps[o].app /\ Moved(o, pc).type = aOps[o].type /\ Moved(o, pc).vmid = aOps[o].vmid
           /\ Moved(o, pc).ver = aOps[o].ver /\ Moved(o, pc).out = aOps[o].out
           /\ A!GoTo(o, pc) => aOps' = [aOps EXCEPT ![o] = Moved(o, pc)]
  BY AppTyped DEF Moved, OpRecords, A!GoTo

LEMMA OutcomeIs ==
    ASSUME AppsInv, NEW o \in DOMAIN aOps, NEW out \in A!Statuses
    PROVE  /\ Outcome(o, out) \in OpRecords /\ Outcome(o, out).pc = "record" /\ Outcome(o, out).out = out
           /\ Outcome(o, out).app = aOps[o].app /\ Outcome(o, out).type = aOps[o].type
           /\ Outcome(o, out).vmid = aOps[o].vmid /\ Outcome(o, out).ver = aOps[o].ver
           /\ A!Record(o, out) => aOps' = [aOps EXCEPT ![o] = Outcome(o, out)]
<1>1. aOps[o] \in OpRecords
  BY AppTyped
<1>2. "record" \in OpPcs
  BY DEF OpPcs
<1>3. /\ Outcome(o, out) \in OpRecords /\ Outcome(o, out).pc = "record" /\ Outcome(o, out).out = out
      /\ Outcome(o, out).app = aOps[o].app /\ Outcome(o, out).type = aOps[o].type
      /\ Outcome(o, out).vmid = aOps[o].vmid /\ Outcome(o, out).ver = aOps[o].ver
  BY <1>1, <1>2 DEF Outcome, OpRecords
<1>4. ASSUME A!Record(o, out) PROVE aOps' = [aOps EXCEPT ![o] = Outcome(o, out)]
  BY <1>4, AppTyped DEF A!Record, Outcome
<1> QED BY <1>3, <1>4

LEMMA OpIs ==
    ASSUME AppsInv, NEW o \in DOMAIN aOps
    PROVE  /\ aOps[o] \in OpRecords /\ aOps[o].app \in Apps /\ OpOf(aOps[o].app, o) /\ aOps[o].vmid \in A!Vmids
           /\ aRow[aOps[o].app] \in AppRows /\ aCt[aOps[o].vmid] \in Containers
           /\ aRow = [aRow EXCEPT ![aOps[o].app] = aRow[aOps[o].app]]
           /\ aCt = [aCt EXCEPT ![aOps[o].vmid] = aCt[aOps[o].vmid]]
           /\ aCt[aOps[o].vmid].st \in {"none", "creating"} => aCt[aOps[o].vmid].app = A!Other
<1>1. aOps[o] \in OpRecords
  BY AppTyped
<1>2. aOps[o].app \in Apps /\ aOps[o].vmid \in A!Vmids
  BY <1>1 DEF OpRecords
<1> QED BY <1>1, <1>2, AppTyped DEF OpOf, AppsInv, SnapshotsNamed

\* An operation moves on, or fails, and nothing else does.
LEMMA OpMoves ==
    ASSUME AppsInv, NEW o \in DOMAIN aOps, A!Live(o), NEW r \in OpRecords,
           r.app = aOps[o].app, r.type = aOps[o].type, r.vmid = aOps[o].vmid,
           r.ver = aOps[o].ver \/ r.pc = "done",
           aOps' = [aOps EXCEPT ![o] = r],
           UNCHANGED <<aReq, aRow, aCt, aCalls, aPass, aLatest, aMuddled, aCrossed, aEvents>>,
           aAlloc' \subseteq aAlloc,
           r.pc \notin {"queued", "compose", "prune"},
           r.pc = "snapshot" => aOps[o].pc = "queued",
           r.pc = "release" => FALSE,
           r.pc = "erase" => aOps[o].pc = "release",
           r.pc = "record" => IF r.type = "rollback" THEN r.out = "update_failed" ELSE r.out \in {"error", "update_failed"},
           r.pc \in {"finish", "done"} /\ r.out = "running" => aOps[o].pc = "finish" /\ aOps[o].out = "running"
    PROVE  AppsInv'
<1> DEFINE a == aOps[o].app
           v == aOps[o].vmid
<1>1. a \notin aCrossed => Fits(a, o, r, aRow[a], aCt[v])
  <2>1. a \notin aCrossed => Fits(a, o, aOps[o], aRow[a], aCt[v])
    BY OpIs, OpFits
  <2> HIDE DEF a, v
  <2> QED BY <2>1 DEF Fits
<1>2. a \in Clean' => VersionFits(a, r, aRow[a], aCt[v])
  <2>1. a \in Clean' => VersionFits(a, aOps[o], aRow[a], aCt[v])
    BY OpIs, OpFits DEF Clean
  <2> HIDE DEF a, v
  <2> QED BY <2>1 DEF VersionFits, A!Live
<1>3. /\ a \in Apps /\ OpOf(a, o) /\ aRow[a] \in AppRows /\ aCt[v] \in Containers
      /\ aRow' = [aRow EXCEPT ![a] = aRow[a]] /\ aCt' = [aCt EXCEPT ![v] = aCt[v]]
      /\ aCt[v].st \in {"none", "creating"} => aCt[v].app = A!Other
  BY OpIs
<1>4. aMuddled' \subseteq Apps
  BY AppTyped
<1>5. v = aOps[o].vmid /\ a = aOps[o].app
  OBVIOUS
<1> HIDE DEF a, v
<1>6. r.app = a /\ r.type = aOps[o].type /\ r.vmid = aOps[o].vmid /\ OpOf(a, o) /\ A!Live(o)
  BY <1>3, <1>5
<1>7. /\ r.pc = "record" => Recordable(r)
      /\ r.pc \in {"queued", "snapshot"} => aOps[o].pc \in {"queued", "snapshot"}
  BY DEF Recordable
<1>8. OpStep(a, o, r, aRow[a], aCt[v])
  BY <1>1, <1>2, <1>3, <1>4, <1>5, <1>6, <1>7 DEF OpStep
<1> QED BY <1>3, <1>8, OpKeeps

LEMMA StartJobInv == ASSUME AppsInv, NEW o, A!StartJob(o) PROVE AppsInv'
<1>1. o \in DOMAIN aOps /\ aOps[o].pc = "queued" /\ A!Live(o) /\ aOps[o] \in OpRecords
  BY AppTyped DEF A!StartJob, A!Live
<1>2. A!First(aOps[o].type) \in {"probe", "snapshot", "restore", "teardown"}
  BY <1>1 DEF A!First, OpRecords
<1>3. A!First(aOps[o].type) \in OpPcs
  BY <1>2 DEF OpPcs
<1> QED BY <1>1, <1>2, <1>3, MovedIs, OpMoves DEF A!StartJob

LEMMA ProbeInv == ASSUME AppsInv, NEW o, A!Probe(o) PROVE AppsInv'
<1>1. o \in DOMAIN aOps /\ A!Live(o)
  BY DEF A!Probe, A!Job, A!Live
<1>2. PICK pc \in {"create", "deploy"} : A!GoTo(o, pc)
  BY DEF A!Probe
<1>3. pc \in OpPcs
  BY DEF OpPcs
<1> QED BY <1>1, <1>2, <1>3, MovedIs, OpMoves DEF A!Probe

\* An operation fails and leaves everything as it is.
LEMMA OpFails ==
    ASSUME AppsInv, NEW o \in DOMAIN aOps, A!Live(o), NEW out \in {"error", "update_failed"}, A!Record(o, out),
           aOps[o].type = "rollback" => out = "update_failed",
           UNCHANGED <<aReq, aRow, aCt, aCalls, aPass, aAlloc, aLatest, aMuddled, aCrossed, aEvents>>
    PROVE  AppsInv'
<1>1. out \in A!Statuses
  BY DEF A!Statuses
<1> QED BY <1>1, OutcomeIs, OpMoves

LEMMA AwaitInv == ASSUME AppsInv, NEW o, A!Await(o) PROVE AppsInv'
<1>1. o \in DOMAIN aOps /\ A!Live(o) /\ aOps[o].type = "install"
  BY DEF A!Await, A!Job, A!Live
<1>2. CASE A!GoTo(o, "deploy")
  BY <1>1, <1>2, MovedIs, OpMoves DEF A!Await, OpPcs
<1>3. CASE A!Record(o, "error")
  BY <1>1, <1>3, OpFails DEF A!Await
<1> QED BY <1>2, <1>3 DEF A!Await

LEMMA ReleaseInv == ASSUME AppsInv, NEW o, A!Release(o) PROVE AppsInv'
<1>1. o \in DOMAIN aOps /\ A!Live(o) /\ aOps[o].pc = "release"
  BY DEF A!Release, A!Job, A!Live
<1> QED BY <1>1, MovedIs, OpMoves DEF A!Release, OpPcs

LEMMA FinishOpInv == ASSUME AppsInv, NEW o, A!FinishOp(o) PROVE AppsInv'
<1> DEFINE r == [aOps[o] EXCEPT !.pc = "done", !.ver = A!None]
<1>1. o \in DOMAIN aOps /\ A!Live(o) /\ aOps[o].pc = "finish" /\ aOps[o] \in OpRecords
  BY AppTyped DEF A!FinishOp, A!Live
<1>2. /\ r \in OpRecords /\ r.pc = "done" /\ r.out = aOps[o].out
      /\ r.app = aOps[o].app /\ r.type = aOps[o].type /\ r.vmid = aOps[o].vmid
  BY <1>1 DEF OpRecords, OpPcs, A!None
<1>3. aOps' = [aOps EXCEPT ![o] = r]
  BY <1>1, AppTyped DEF A!FinishOp
<1> HIDE DEF r
<1>4. UNCHANGED <<aReq, aRow, aCt, aCalls, aPass, aAlloc, aLatest, aMuddled, aCrossed, aEvents>>
  BY DEF A!FinishOp
<1> QED BY <1>1, <1>2, <1>3, <1>4, OpMoves

\* What is so of an operation under way.
LEMMA LiveFacts ==
    ASSUME AppsInv, NEW o \in DOMAIN aOps, A!Live(o)
    PROVE  /\ aOps[o].app \notin aCrossed =>
                 /\ A!Exists(aOps[o].app) /\ aRow[aOps[o].app].snap <= o
                 /\ Fits(aOps[o].app, o, aOps[o], aRow[aOps[o].app], aCt[aOps[o].vmid])
           /\ aOps[o].app \in Clean =>
                 VersionFits(aOps[o].app, aOps[o], aRow[aOps[o].app], aCt[aOps[o].vmid])
           /\ aOps[o].pc = "record" => Recordable(aOps[o])
<1>1. aOps[o].app \in Apps /\ OpOf(aOps[o].app, o) /\ o \in 1..AppOps
  BY OpIs, AppTyped
<1>2. ASSUME aOps[o].app \notin aCrossed
      PROVE  A!Exists(aOps[o].app) /\ aRow[aOps[o].app].snap <= o
  <2>1. A!Exists(aOps[o].app) /\ \A p \in DOMAIN aOps : aOps[p].app = aOps[o].app => p <= o
    BY <1>1, <1>2 DEF AppsInv, InTurn
  <2>2. aRow[aOps[o].app].snap # 0 => OpOf(aOps[o].app, aRow[aOps[o].app].snap)
    BY <1>1 DEF AppsInv, SnapshotsNamed, A!None
  <2> QED BY <1>1, <2>1, <2>2 DEF OpOf
<1>3. aOps[o].pc = "record" => Recordable(aOps[o])
  BY DEF AppsInv, Placed
<1> QED BY <1>1, <1>2, <1>3, OpFits DEF Clean

LEMMA NoCtIs ==
    /\ A!NoCt \in Containers /\ A!NoCt.st = "none" /\ A!NoCt.owner = A!Other /\ A!NoCt.app = A!Other
    /\ A!NoCt.snaps = {} /\ A!NoCt.made = 0 /\ \A a \in Apps : a # A!Other
  BY ServicesAssumption DEF A!NoCt, Containers, A!CtStates, A!None, A!Other

LEMMA CreateCtInv == ASSUME AppsInv, NEW o, A!CreateCt(o) PROVE AppsInv'
<1> DEFINE a == aOps[o].app
           v == aOps[o].vmid
           c == [A!NoCt EXCEPT !.st = "creating", !.owner = a, !.made = o]
<1>1. o \in DOMAIN aOps /\ A!Live(o) /\ aOps[o].type = "install" /\ aOps[o].pc = "create" /\ o \in 1..AppOps
  BY AppTyped DEF A!CreateCt, A!Job, A!Live
<1>2. CASE A!Record(o, "error") /\ UNCHANGED aCt
  BY <1>1, <1>2, OpFails DEF A!CreateCt
<1>3. CASE aCt' = [aCt EXCEPT ![v] = c] /\ A!GoTo(o, "await")
  <2>1. /\ c \in Containers /\ c.st = "creating" /\ c.owner = a /\ c.made = o /\ c.app = A!Other /\ c.snaps = {}
    <3>1. o \in 0..AppOps /\ a \in Apps /\ "creating" \in A!CtStates
      BY <1>1, OpIs DEF A!CtStates
    <3> HIDE DEF a
    <3> QED BY <3>1, NoCtIs DEF Containers
  <2>2. "await" \in OpPcs
    BY DEF OpPcs
  <2> DEFINE r == Moved(o, "await")
  <2>3. /\ r \in OpRecords /\ r.pc = "await" /\ r.app = a /\ r.type = "install" /\ r.vmid = v /\ r.ver = aOps[o].ver
        /\ aOps' = [aOps EXCEPT ![o] = r]
    BY <1>1, <1>3, <2>2, MovedIs
  <2> HIDE DEF c, r
  <2>4. a \notin aCrossed => Fits(a, o, r, aRow[a], c)
    <3>1. a \notin aCrossed => aRow[a].vmid = v /\ aRow[a].status # "none" /\ aRow[a].snap <= o
      BY <1>1, LiveFacts DEF Fits
    <3>2. aRow[a].snap \in 0..AppOps
      BY <1>1, OpIs DEF AppRows
    <3> QED BY <1>1, <2>1, <2>3, <3>1, <3>2 DEF Fits
  <2>5. a \in Clean => VersionFits(a, r, aRow[a], c)
    BY <1>1, <2>1, <2>3, LiveFacts DEF VersionFits
  <2>6. /\ a \in Apps /\ OpOf(a, o) /\ aRow[a] \in AppRows /\ aRow' = [aRow EXCEPT ![a] = aRow[a]]
        /\ aMuddled' \subseteq Apps
    BY <1>1, OpIs, AppTyped DEF A!CreateCt
  <2>7. OpStep(a, o, r, aRow[a], c)
    BY <1>1, <1>3, <2>1, <2>3, <2>4, <2>5, <2>6 DEF OpStep, A!CreateCt, Clean
  <2> QED BY <1>1, <2>6, <2>7, OpKeeps
<1> QED BY <1>2, <1>3 DEF A!CreateCt

\* The steps on a container that is there.
LEMMA DeployInv == ASSUME AppsInv, NEW o, A!Deploy(o) PROVE AppsInv'
<1> DEFINE a == aOps[o].app
           v == aOps[o].vmid
<1>1. o \in DOMAIN aOps /\ A!Live(o) /\ aOps[o].type = "install" /\ aOps[o].pc = "deploy"
  BY DEF A!Deploy, A!Job, A!Live
<1>2. /\ a \in Apps /\ v \in A!Vmids /\ OpOf(a, o) /\ aRow[a] \in AppRows /\ aRow' = [aRow EXCEPT ![a] = aRow[a]]
      /\ aCt[v] \in Containers /\ aOps[o].ver \in A!Versions \union {A!None}
      /\ aMuddled' \subseteq Apps /\ aCt \in [A!Vmids -> Containers]
      /\ aCt[v].st \in {"none", "creating"} => aCt[v].app = A!Other
  BY <1>1, OpIs, AppTyped DEF A!Deploy, OpRecords
<1>3. ASSUME NEW c \in Containers, NEW out \in {"running", "error"},
             aCt' = [aCt EXCEPT ![v] = c], A!Record(o, out),
             c.owner = aCt[v].owner, c.made = aCt[v].made, c.snaps = aCt[v].snaps,
             c.st \in {"none", "creating"} => c.app = A!Other,
             out = "running" => c.ver = aOps[o].ver
      PROVE  AppsInv'
  <2> DEFINE r == Outcome(o, out)
  <2>1. out \in A!Statuses
    BY DEF A!Statuses
  <2>2. /\ r \in OpRecords /\ r.pc = "record" /\ r.app = a /\ r.type = "install" /\ r.vmid = v /\ r.out = out
        /\ r.ver = aOps[o].ver /\ aOps' = [aOps EXCEPT ![o] = r]
    BY <1>1, <1>3, <2>1, OutcomeIs
  <2> HIDE DEF r
  <2>3. a \notin aCrossed => Fits(a, o, r, aRow[a], c)
    BY <1>1, <1>3, <2>2, LiveFacts DEF Fits
  <2>4. a \in Clean => VersionFits(a, r, aRow[a], c)
    <3>1. a \in Clean => VersionFits(a, aOps[o], aRow[a], aCt[v])
      BY <1>1, LiveFacts
    <3> QED BY <1>1, <1>3, <2>2, <3>1 DEF VersionFits
  <2>5. OpStep(a, o, r, aRow[a], c)
    BY <1>1, <1>2, <1>3, <2>2, <2>3, <2>4 DEF OpStep, A!Deploy, Clean, Recordable
  <2> QED BY <1>1, <1>2, <2>5, OpKeeps
<1>4. CASE /\ A!Ready(v)
           /\ aCt' = [aCt EXCEPT ![v].st = "running", ![v].app = a, ![v].ver = aOps[o].ver]
           /\ \E out \in {"running", "error"} : A!Record(o, out)
  <2> DEFINE c == [aCt[v] EXCEPT !.st = "running", !.app = a, !.ver = aOps[o].ver]
  <2>1. aCt' = [aCt EXCEPT ![v] = c]
    BY <1>2, <1>4
  <2>2. /\ c \in Containers /\ c.owner = aCt[v].owner /\ c.made = aCt[v].made /\ c.snaps = aCt[v].snaps
        /\ c.st = "running" /\ c.ver = aOps[o].ver
    BY <1>2 DEF Containers, A!CtStates
  <2> HIDE DEF c
  <2> QED BY <1>3, <1>4, <2>1, <2>2
<1>5. CASE aCt' = A!Switched(v, "running") /\ A!Record(o, "error")
  <2> DEFINE c == [aCt[v] EXCEPT !.st = "running"]
  <2>1. /\ c \in Containers /\ c.owner = aCt[v].owner /\ c.made = aCt[v].made /\ c.snaps = aCt[v].snaps
        /\ c.st = "running"
    BY <1>2 DEF Containers, A!CtStates
  <2>2. CASE aCt' = [aCt EXCEPT ![v] = c]
    <3> HIDE DEF c
    <3> QED BY <1>3, <1>5, <2>1, <2>2
  <2>3. CASE aCt' = aCt
    <3>1. aCt' = [aCt EXCEPT ![v] = aCt[v]]
      BY <1>2, <2>3
    <3> QED BY <1>2, <1>3, <1>5, <3>1
  <2> QED BY <1>5, <2>2, <2>3 DEF A!Switched
<1> QED BY <1>4, <1>5 DEF A!Deploy

\* An operation acts on its container and leaves the row.
LEMMA OpActs ==
    ASSUME AppsInv, NEW o \in DOMAIN aOps, A!Live(o), NEW r \in OpRecords, NEW c \in Containers,
           r.app = aOps[o].app, r.type = aOps[o].type, r.vmid = aOps[o].vmid,
           r.pc = "record" => Recordable(r), r.pc \notin {"queued", "snapshot"},
           c.owner \in {aCt[aOps[o].vmid].owner, A!Other},
           \A s \in c.snaps : s \in aCt[aOps[o].vmid].snaps \/ (s.id = o /\ r.type = "update"),
           c.st \in {"none", "creating"} => c.app = A!Other,
           aOps' = [aOps EXCEPT ![o] = r], aCt' = [aCt EXCEPT ![aOps[o].vmid] = c],
           UNCHANGED <<aReq, aRow, aCalls, aPass, aAlloc, aLatest, aCrossed, aEvents>>,
           aMuddled' \in {aMuddled, aMuddled \union {aOps[o].app}},
           aOps[o].app \notin aCrossed => Fits(aOps[o].app, o, r, aRow[aOps[o].app], c),
           aOps[o].app \in Clean' => VersionFits(aOps[o].app, r, aRow[aOps[o].app], c)
    PROVE  AppsInv'
<1> DEFINE a == aOps[o].app
           v == aOps[o].vmid
<1>1. /\ a \in Apps /\ v \in A!Vmids /\ OpOf(a, o) /\ aRow[a] \in AppRows /\ aRow' = [aRow EXCEPT ![a] = aRow[a]]
      /\ aMuddled \subseteq aMuddled' /\ aMuddled' \subseteq Apps
  BY OpIs, AppTyped
<1>2. \A s \in c.snaps : \/ s \in aCt[v].snaps
                         \/ s.id = o /\ r.type = "update" /\ r.pc \notin {"queued", "snapshot"}
  OBVIOUS
<1>3. OpStep(a, o, r, aRow[a], c)
  BY <1>1, <1>2 DEF OpStep
<1> QED BY <1>1, <1>3, OpKeeps

LEMMA ComposeInv == ASSUME AppsInv, NEW o, A!Compose(o) PROVE AppsInv'
<1> DEFINE a == aOps[o].app
           v == aOps[o].vmid
<1>1. o \in DOMAIN aOps /\ A!Live(o) /\ aOps[o].type = "update" /\ aOps[o].pc = "compose"
  BY DEF A!Compose, A!Job, A!Live
<1>2. CASE A!Record(o, "update_failed") /\ UNCHANGED aCt
  BY <1>1, <1>2, OpFails DEF A!Compose
<1>3. CASE /\ aCt[v].st = "running"
           /\ aCt' = [aCt EXCEPT ![v].app = a, ![v].ver = aOps[o].ver]
           /\ \E out \in {"running", "update_failed"} : A!Record(o, out)
  <2> DEFINE c == [aCt[v] EXCEPT !.app = a, !.ver = aOps[o].ver]
  <2>1. /\ c \in Containers /\ c.owner = aCt[v].owner /\ c.made = aCt[v].made /\ c.snaps = aCt[v].snaps
        /\ c.st = "running" /\ c.ver = aOps[o].ver
    BY <1>1, <1>3, OpIs DEF Containers, OpRecords
  <2>2. aCt' = [aCt EXCEPT ![v] = c]
    BY <1>1, <1>3, OpIs, AppTyped
  <2> HIDE DEF c
  <2>3. PICK out \in {"running", "update_failed"} : A!Record(o, out)
    BY <1>3
  <2> DEFINE r == Outcome(o, out)
  <2>4. out \in A!Statuses
    BY DEF A!Statuses
  <2>5. /\ r \in OpRecords /\ r.pc = "record" /\ r.app = a /\ r.type = "update" /\ r.vmid = v /\ r.out = out
        /\ r.ver = aOps[o].ver /\ aOps' = [aOps EXCEPT ![o] = r]
    BY <1>1, <2>3, <2>4, OutcomeIs
  <2> HIDE DEF r
  <2>6. a \notin aCrossed => Fits(a, o, r, aRow[a], c)
    BY <1>1, <2>1, <2>5, LiveFacts DEF Fits
  <2>7. a \in Clean => VersionFits(a, r, aRow[a], c)
    <3>1. a \in Clean => VersionFits(a, aOps[o], aRow[a], aCt[v])
      BY <1>1, LiveFacts
    <3> QED BY <1>1, <2>1, <2>5, <3>1 DEF VersionFits
  <2> QED BY <1>1, <2>1, <2>2, <2>3, <2>5, <2>6, <2>7, OpActs DEF A!Compose, Clean, Recordable
<1> QED BY <1>2, <1>3 DEF A!Compose

LEMMA PruneInv == ASSUME AppsInv, NEW o, A!Prune(o) PROVE AppsInv'
<1> DEFINE a == aOps[o].app
           v == aOps[o].vmid
<1>1. o \in DOMAIN aOps /\ A!Live(o) /\ aOps[o].type = "update" /\ aOps[o].pc = "prune"
  BY DEF A!Prune, A!Job, A!Live
<1>2. PICK kept \in SUBSET {s \in aCt[v].snaps : s.id # o} :
         aCt' = [aCt EXCEPT ![v].snaps = kept \union {s \in @ : s.id = o}]
  BY DEF A!Prune
<1> DEFINE c == [aCt[v] EXCEPT !.snaps = kept \union {s \in aCt[v].snaps : s.id = o}]
           r == Moved(o, "finish")
<1>3. /\ c \in Containers /\ c.owner = aCt[v].owner /\ c.made = aCt[v].made /\ c.st = aCt[v].st
      /\ c.app = aCt[v].app /\ c.ver = aCt[v].ver
      /\ c.snaps = kept \union {s \in aCt[v].snaps : s.id = o}
  BY <1>1, OpIs DEF Containers
<1>4. aCt' = [aCt EXCEPT ![v] = c]
  BY <1>1, <1>2, OpIs, AppTyped
<1>5. "finish" \in OpPcs
  BY DEF OpPcs
<1>6. /\ r \in OpRecords /\ r.pc = "finish" /\ r.app = a /\ r.type = "update" /\ r.vmid = v /\ r.out = aOps[o].out
      /\ r.ver = aOps[o].ver /\ aOps' = [aOps EXCEPT ![o] = r]
  BY <1>1, <1>5, MovedIs DEF A!Prune
<1> HIDE DEF c, r
<1>7. (\A s \in c.snaps : s \in aCt[v].snaps) /\ (\A s \in aCt[v].snaps : s.id = o => s \in c.snaps)
  BY <1>3
<1>8. a \notin aCrossed => Fits(a, o, r, aRow[a], c)
  <2>1. a \notin aCrossed => Fits(a, o, aOps[o], aRow[a], aCt[v])
    BY <1>1, LiveFacts
  <2> QED BY <1>1, <1>3, <1>6, <1>7, <2>1 DEF Fits
<1>9. a \in Clean => VersionFits(a, r, aRow[a], c)
  <2>1. a \in Clean => VersionFits(a, aOps[o], aRow[a], aCt[v])
    BY <1>1, LiveFacts
  <2> QED BY <1>1, <1>3, <1>6, <1>7, <2>1 DEF VersionFits
<1>10. c.st \in {"none", "creating"} => c.app = A!Other
  BY <1>1, <1>3, OpIs
<1> QED BY <1>1, <1>3, <1>4, <1>6, <1>7, <1>8, <1>9, <1>10, OpActs DEF A!Prune, Clean

LEMMA RestoreInv == ASSUME AppsInv, NEW o, A!Restore(o) PROVE AppsInv'
<1> DEFINE a == aOps[o].app
           v == aOps[o].vmid
<1>1. o \in DOMAIN aOps /\ A!Live(o) /\ aOps[o].type = "rollback" /\ aOps[o].pc = "restore"
  BY DEF A!Restore, A!Job, A!Live
<1>2. CASE A!Record(o, "update_failed") /\ UNCHANGED <<aCt, aMuddled>>
  BY <1>1, <1>2, OpFails DEF A!Restore
<1>3. ASSUME NEW n \in A!Versions \union {A!None}, NEW out \in {"running", "stopped"}, A!Record(o, out), A!Ready(v),
             aCt' = [aCt EXCEPT ![v] = [aCt[v] EXCEPT !.st = "running", !.ver = n]],
             aMuddled' \in {aMuddled, aMuddled \union {a}},
             a \in Clean' => \E s \in aCt[v].snaps : s.id = aRow[a].snap /\ s.ver = n
      PROVE  AppsInv'
  <2> DEFINE c == [aCt[v] EXCEPT !.st = "running", !.ver = n]
             r == Outcome(o, out)
  <2>1. /\ c \in Containers /\ c.owner = aCt[v].owner /\ c.made = aCt[v].made /\ c.snaps = aCt[v].snaps
        /\ c.st = "running" /\ c.ver = n /\ c.app = aCt[v].app
    BY <1>1, OpIs DEF Containers, A!CtStates
  <2>2. out \in A!Statuses
    BY DEF A!Statuses
  <2>3. /\ r \in OpRecords /\ r.pc = "record" /\ r.app = a /\ r.type = "rollback" /\ r.vmid = v /\ r.out = out
        /\ r.ver = aOps[o].ver /\ aOps' = [aOps EXCEPT ![o] = r]
    BY <1>1, <1>3, <2>2, OutcomeIs
  <2>4. aCt' = [aCt EXCEPT ![v] = c]
    BY <1>3
  <2> HIDE DEF c, r
  <2>5. a \notin aCrossed => Fits(a, o, r, aRow[a], c)
    <3>1. a \notin aCrossed => Fits(a, o, aOps[o], aRow[a], aCt[v])
      BY <1>1, LiveFacts
    <3> QED BY <1>1, <2>1, <2>3, <3>1 DEF Fits
  <2>6. a \in Clean' => VersionFits(a, r, aRow[a], c)
    <3>1. a \in Clean' => VersionFits(a, aOps[o], aRow[a], aCt[v])
      BY <1>1, <1>3, LiveFacts DEF Clean, A!Restore
    <3>2. a \in Clean' => aRow[a].snapVer = n
      BY <1>3, <3>1 DEF VersionFits
    <3> QED BY <1>1, <2>1, <2>3, <3>1, <3>2 DEF VersionFits
  <2> QED BY <1>1, <1>3, <2>1, <2>3, <2>4, <2>5, <2>6, OpActs DEF A!Restore, Recordable
<1>4. CASE /\ A!Ready(v)
           /\ \E s \in {t \in aCt[v].snaps : t.id = aRow[a].snap} :
                 aCt' = [aCt EXCEPT ![v].st = "running", ![v].ver = s.ver]
           /\ \E out \in {"running", "stopped"} : A!Record(o, out)
           /\ UNCHANGED aMuddled
  <2>1. PICK s \in aCt[v].snaps : s.id = aRow[a].snap /\ aCt' = [aCt EXCEPT ![v].st = "running", ![v].ver = s.ver]
    BY <1>4
  <2>2. s.ver \in A!Versions \union {A!None}
    BY <1>1, OpIs DEF Containers, Snapshots
  <2>3. aCt' = [aCt EXCEPT ![v] = [aCt[v] EXCEPT !.st = "running", !.ver = s.ver]]
    BY <1>1, <2>1, OpIs, AppTyped
  <2> QED BY <1>3, <1>4, <2>1, <2>2, <2>3
<1>5. CASE /\ A!Ready(v)
           /\ aCt' = [aCt EXCEPT ![v].st = "running"]
           /\ \E out \in {"running", "stopped"} : A!Record(o, out)
           /\ aMuddled' = aMuddled \union {a}
  <2>1. /\ aCt[v].ver \in A!Versions \union {A!None}
        /\ aCt' = [aCt EXCEPT ![v] = [aCt[v] EXCEPT !.st = "running", !.ver = aCt[v].ver]]
    BY <1>1, <1>5, OpIs, AppTyped DEF Containers
  <2>2. a \notin Clean'
    BY <1>5 DEF Clean
  <2> QED BY <1>3, <1>5, <2>1, <2>2
<1> QED BY <1>2, <1>4, <1>5 DEF A!Restore

LEMMA TeardownInv == ASSUME AppsInv, NEW o, A!Teardown(o) PROVE AppsInv'
<1> DEFINE a == aOps[o].app
           v == aOps[o].vmid
<1>1. o \in DOMAIN aOps /\ A!Live(o) /\ aOps[o].type = "delete" /\ aOps[o].pc = "teardown"
  BY DEF A!Teardown, A!Job, A!Live
<1>2. CASE aCt' = aCt /\ A!Record(o, "error")
  BY <1>1, <1>2, OpFails DEF A!Teardown
<1>3. ASSUME NEW r \in OpRecords, r.app = a, r.type = "delete", r.vmid = v, r.pc \in {"release", "record"},
             r.pc = "record" => Recordable(r), aOps' = [aOps EXCEPT ![o] = r], aCt' = [aCt EXCEPT ![v] = A!NoCt]
      PROVE  AppsInv'
  <2>1. a \notin aCrossed => Fits(a, o, r, aRow[a], A!NoCt)
    <3>1. a \notin aCrossed => aRow[a].vmid = v /\ aRow[a].status # "none"
      BY <1>1, LiveFacts DEF Fits
    <3> QED BY <1>1, <1>3, <3>1, NoCtIs, OpIs DEF Fits
  <2>2. VersionFits(a, r, aRow[a], A!NoCt)
    BY <1>1, <1>3, NoCtIs DEF VersionFits
  <2> QED BY <1>1, <1>3, <2>1, <2>2, NoCtIs, OpActs DEF A!Teardown
<1>4. CASE aCt' = [aCt EXCEPT ![v] = A!NoCt] /\ A!GoTo(o, "release")
  <2>1. "release" \in OpPcs
    BY DEF OpPcs
  <2> QED BY <1>1, <1>3, <1>4, <2>1, MovedIs
<1>5. CASE aCt' = [aCt EXCEPT ![v] = A!NoCt] /\ A!Record(o, "error")
  <2>1. "error" \in A!Statuses
    BY DEF A!Statuses
  <2> QED BY <1>1, <1>3, <1>5, <2>1, OutcomeIs DEF Recordable
<1> QED BY <1>2, <1>4, <1>5 DEF A!Teardown

LEMMA SnapshotInv == ASSUME AppsInv, NEW o, A!Snapshot(o) PROVE AppsInv'
<1> DEFINE a == aOps[o].app
           v == aOps[o].vmid
           new == [id |-> o, ver |-> aCt[v].ver]
           c == [aCt[v] EXCEPT !.snaps = aCt[v].snaps \union {new}]
<1>1. o \in DOMAIN aOps /\ A!Live(o) /\ aOps[o].type = "update" /\ aOps[o].pc = "snapshot" /\ o \in 1..AppOps
  BY AppTyped DEF A!Snapshot, A!Job, A!Live
<1>2. CASE A!Record(o, "update_failed") /\ UNCHANGED <<aRow, aCt, aMuddled>>
  BY <1>1, <1>2, OpFails DEF A!Snapshot
<1>3. ASSUME aCt' = [aCt EXCEPT ![v] = c]
      PROVE  /\ c \in Containers /\ c.owner = aCt[v].owner /\ c.made = aCt[v].made /\ c.st = aCt[v].st
             /\ c.app = aCt[v].app /\ c.ver = aCt[v].ver /\ c.snaps = aCt[v].snaps \union {new}
             /\ new.id = o /\ new.ver = aCt[v].ver
             /\ \A s \in aCt[v].snaps : s.id # o
             /\ c.st \in {"none", "creating"} => c.app = A!Other
  <2>1. aCt[v] \in Containers /\ v \in A!Vmids
    BY <1>1, OpIs
  <2>2. new \in Snapshots
    BY <1>1, <2>1 DEF Snapshots, Containers
  <2> HIDE DEF new
  <2>3. /\ c \in Containers /\ c.owner = aCt[v].owner /\ c.made = aCt[v].made /\ c.st = aCt[v].st
        /\ c.app = aCt[v].app /\ c.ver = aCt[v].ver /\ c.snaps = aCt[v].snaps \union {new}
    BY <2>1, <2>2 DEF Containers
  <2>4. \A s \in aCt[v].snaps : s.id # o
    BY <1>1, <2>1 DEF AppsInv, SnapshotsNamed
  <2>5. new.id = o /\ new.ver = aCt[v].ver
    BY DEF new
  <2> HIDE DEF c
  <2> QED BY <1>1, <2>3, <2>4, <2>5, OpIs
<1>4. CASE /\ aCt' = [aCt EXCEPT ![v] = c]
           /\ aMuddled' = IF aCt[v].ver = aRow[a].ver THEN aMuddled ELSE aMuddled \union {a}
           /\ A!Exists(a)
           /\ aRow' = [aRow EXCEPT ![a].status = "updating", ![a].snap = o, ![a].snapVer = aRow[a].ver]
           /\ A!GoTo(o, "compose")
  <2> DEFINE w == [aRow[a] EXCEPT !.status = "updating", !.snap = o, !.snapVer = aRow[a].ver]
             r == Moved(o, "compose")
  <2>1. a \in Apps /\ v \in A!Vmids /\ OpOf(a, o) /\ aRow[a] \in AppRows /\ aRow \in [Apps -> AppRows]
    BY <1>1, OpIs, AppTyped
  <2>2. aRow[a].ver \in 0..AppVersions
    BY <2>1, ServicesAssumption DEF AppRows, A!Versions, A!None
  <2>3. /\ w \in AppRows /\ w.status = "updating" /\ w.snap = o /\ w.snapVer = aRow[a].ver /\ w.vmid = aRow[a].vmid
        /\ w.ver = aRow[a].ver
    <3>1. o \in 0..AppOps /\ "updating" \in A!Statuses
      BY <1>1 DEF A!Statuses
    <3> QED BY <2>1, <2>2, <3>1 DEF AppRows
  <2>4. aRow' = [aRow EXCEPT ![a] = w]
    BY <1>4, <2>1
  <2>5. "compose" \in OpPcs
    BY DEF OpPcs
  <2>6. /\ r \in OpRecords /\ r.pc = "compose" /\ r.app = a /\ r.type = "update" /\ r.vmid = v
        /\ r.ver = aOps[o].ver /\ aOps' = [aOps EXCEPT ![o] = r]
    BY <1>1, <1>4, <2>5, MovedIs
  <2> HIDE DEF w, r, c, new
  <2>7. a \notin aCrossed => Fits(a, o, r, w, c)
    <3>1. a \notin aCrossed => Fits(a, o, aOps[o], aRow[a], aCt[v])
      BY <1>1, LiveFacts
    <3> QED BY <1>1, <1>3, <1>4, <2>3, <2>6, <3>1 DEF Fits
  <2>8. a \in Clean' => VersionFits(a, r, w, c)
    <3>1. a \in Clean' => aCt[v].ver = aRow[a].ver
      BY <1>4 DEF Clean
    <3> QED BY <1>3, <1>4, <2>3, <2>6, <3>1 DEF VersionFits
  <2>9. /\ aMuddled \subseteq aMuddled' /\ aMuddled' \subseteq Apps
        /\ w.status = "none" <=> aRow[a].status = "none"
    BY <1>4, <2>1, <2>3, AppTyped DEF A!Exists
  <2>10. OpStep(a, o, r, w, c)
    BY <1>1, <1>3, <1>4, <2>1, <2>3, <2>4, <2>6, <2>7, <2>8, <2>9 DEF OpStep, A!Snapshot
  <2> QED BY <1>1, <2>1, <2>10, OpKeeps
<1>5. CASE /\ aCt' = [aCt EXCEPT ![v] = c]
           /\ aMuddled' = IF aCt[v].ver = aRow[a].ver THEN aMuddled ELSE aMuddled \union {a}
           /\ ~A!Exists(a) /\ UNCHANGED aRow /\ A!Record(o, "update_failed")
  <2> DEFINE r == Outcome(o, "update_failed")
  <2>1. "update_failed" \in A!Statuses
    BY DEF A!Statuses
  <2>2. /\ r \in OpRecords /\ r.pc = "record" /\ r.app = a /\ r.type = "update" /\ r.vmid = v /\ Recordable(r)
        /\ aOps' = [aOps EXCEPT ![o] = r]
    BY <1>1, <1>5, <2>1, OutcomeIs DEF Recordable
  <2>3. a \in aCrossed
    BY <1>1, <1>5, LiveFacts, OpIs
  <2> HIDE DEF r, c, new
  <2>4. a \notin Clean'
    BY <2>3 DEF Clean, A!Snapshot
  <2> QED BY <1>1, <1>3, <1>5, <2>2, <2>3, <2>4, OpActs DEF A!Snapshot
<1>6. CASE aCt' = [aCt EXCEPT ![v].snaps = @ \union {[id |-> o, ver |-> aCt[v].ver]}]
  <2>1. aCt' = [aCt EXCEPT ![v] = c]
    BY <1>1, <1>6, OpIs, AppTyped
  <2> HIDE DEF c, new
  <2> QED BY <1>2, <1>4, <1>5, <2>1 DEF A!Snapshot
<1> QED BY <1>2, <1>6 DEF A!Snapshot

\* An operation writes its row and leaves its container.
LEMMA OpWrites ==
    ASSUME AppsInv, NEW o \in DOMAIN aOps, A!Live(o), NEW r \in OpRecords, NEW w \in AppRows,
           r.app = aOps[o].app, r.type = aOps[o].type, r.vmid = aOps[o].vmid, r.ver = aOps[o].ver,
           r.pc \in {"finish", "prune"}, r.pc = "prune" => r.out = "running" /\ r.type = "update",
           w.status = "none" <=> aRow[aOps[o].app].status = "none",
           w.vmid \in {aRow[aOps[o].app].vmid, aOps[o].vmid}, w.snap = aRow[aOps[o].app].snap,
           w.snapVer = aRow[aOps[o].app].snapVer,
           aOps[o].pc = "record", r.out = aOps[o].out,
           aOps' = [aOps EXCEPT ![o] = r], aRow' = [aRow EXCEPT ![aOps[o].app] = w],
           UNCHANGED <<aReq, aCt, aCalls, aPass, aAlloc, aLatest, aMuddled, aCrossed, aEvents>>,
           r.type = "install" => w.ver = aRow[aOps[o].app].ver,
           r.type = "update" /\ r.out = "running" /\ A!Exists(aOps[o].app) => w.ver = aOps[o].ver,
           r.type = "rollback" /\ r.out # "update_failed" /\ A!Exists(aOps[o].app) => w.ver = aRow[aOps[o].app].snapVer
    PROVE  AppsInv'
<1> DEFINE a == aOps[o].app
           v == aOps[o].vmid
<1>1. /\ a \in Apps /\ v \in A!Vmids /\ OpOf(a, o) /\ aRow[a] \in AppRows /\ aCt[v] \in Containers
      /\ aCt' = [aCt EXCEPT ![v] = aCt[v]]
      /\ aCt[v].st \in {"none", "creating"} => aCt[v].app = A!Other
      /\ aMuddled' \subseteq Apps
  BY OpIs, AppTyped
<1>2. a \notin aCrossed => A!Exists(a) /\ Fits(a, o, aOps[o], aRow[a], aCt[v])
  BY LiveFacts
<1>3. a \in Clean' => A!Exists(a) /\ VersionFits(a, aOps[o], aRow[a], aCt[v])
  BY <1>2, LiveFacts DEF Clean
<1>4. aOps[o].type \in {"install", "update", "rollback", "delete"} /\ Recordable(aOps[o])
  BY LiveFacts, OpIs DEF OpRecords
<1>5. a \notin aCrossed => Fits(a, o, r, w, aCt[v])
  BY <1>2 DEF Fits, A!Exists
<1>6. a \in Clean' => VersionFits(a, r, w, aCt[v])
  BY <1>3, <1>4 DEF VersionFits, Recordable, A!Live
<1>7. OpStep(a, o, r, w, aCt[v])
  BY <1>1, <1>5, <1>6 DEF OpStep
<1> QED BY <1>1, <1>7, OpKeeps

LEMMA RecordsInv ==
    ASSUME AppsInv, NEW o, A!RecordInstall(o) \/ A!RecordUpdate(o) \/ A!RecordRollback(o) \/ A!RecordDelete(o)
    PROVE  AppsInv'
<1> DEFINE a == aOps[o].app
           ok == aOps[o].type = "update" /\ aOps[o].out = "running" /\ A!Exists(a)
           r == Moved(o, IF ok THEN "prune" ELSE "finish")
<1>1. o \in DOMAIN aOps /\ A!Live(o) /\ aOps[o].pc = "record"
  BY DEF A!RecordInstall, A!RecordUpdate, A!RecordRollback, A!RecordDelete, A!Job, A!Live
<1>2. /\ a \in Apps /\ aRow[a] \in AppRows /\ aOps[o].vmid \in A!Vmids /\ aOps[o].out \in A!Statuses
      /\ aOps[o].ver \in A!Versions \union {A!None} /\ aRow = [aRow EXCEPT ![a] = aRow[a]]
      /\ aRow[a].snapVer \in A!Versions \union {A!None} /\ aRow \in [Apps -> AppRows]
  <2>1. aOps[o] \in OpRecords /\ aOps[o].out # "none" /\ aRow[a] \in AppRows
    BY <1>1, LiveFacts, OpIs DEF Recordable
  <2>2. aRow[a].snapVer \in A!Versions \union {A!None}
    BY <2>1, ServicesAssumption DEF AppRows, A!Versions, A!None
  <2> QED BY <1>1, <2>1, <2>2, OpIs, AppTyped DEF OpRecords
<1>3. "prune" \in OpPcs /\ "finish" \in OpPcs /\ "none" \notin A!Statuses /\ "error" \in A!Statuses
  BY DEF OpPcs, A!Statuses
<1>4. A!GoTo(o, IF ok THEN "prune" ELSE "finish")
  BY DEF A!RecordInstall, A!RecordUpdate, A!RecordRollback, A!RecordDelete, A!Job
<1>5. /\ r \in OpRecords /\ r.pc = (IF ok THEN "prune" ELSE "finish") /\ r.app = a /\ r.type = aOps[o].type
      /\ r.vmid = aOps[o].vmid /\ r.ver = aOps[o].ver /\ r.out = aOps[o].out /\ aOps' = [aOps EXCEPT ![o] = r]
  BY <1>1, <1>3, <1>4, MovedIs
<1>6. UNCHANGED <<aReq, aCt, aCalls, aPass, aAlloc, aLatest, aMuddled, aCrossed, aEvents>>
  BY DEF A!RecordInstall, A!RecordUpdate, A!RecordRollback, A!RecordDelete
<1> HIDE DEF r
<1>7. ASSUME NEW st \in A!Statuses, NEW u \in {aRow[a].vmid, aOps[o].vmid}, NEW n \in A!Versions \union {A!None},
             A!Exists(a), aRow' = [aRow EXCEPT ![a] = [aRow[a] EXCEPT !.status = st, !.vmid = u, !.ver = n]],
             aOps[o].type = "install" => n = aRow[a].ver,
             aOps[o].type = "update" /\ aOps[o].out = "running" => n = aOps[o].ver,
             aOps[o].type = "rollback" /\ aOps[o].out # "update_failed" => n = aRow[a].snapVer
      PROVE  AppsInv'
  <2> DEFINE w == [aRow[a] EXCEPT !.status = st, !.vmid = u, !.ver = n]
  <2>1. /\ w \in AppRows /\ w.status = st /\ w.vmid = u /\ w.ver = n
        /\ w.snap = aRow[a].snap /\ w.snapVer = aRow[a].snapVer
    BY <1>2 DEF AppRows
  <2>2. aRow' = [aRow EXCEPT ![a] = w] /\ st # "none" /\ aRow[a].status # "none"
    BY <1>3, <1>7 DEF A!Exists
  <2>3. /\ r.pc \in {"finish", "prune"} /\ (r.pc = "prune" => r.out = "running" /\ r.type = "update")
        /\ w.status = "none" <=> aRow[a].status = "none"
    BY <1>3, <1>5, <2>1, <2>2
  <2> HIDE DEF w
  <2>4. /\ r.type = "install" => w.ver = aRow[a].ver
        /\ r.type = "update" /\ r.out = "running" => w.ver = aOps[o].ver
        /\ r.type = "rollback" /\ r.out # "update_failed" => w.ver = aRow[a].snapVer
    BY <1>5, <1>7, <2>1
  <2> QED BY <1>1, <1>5, <1>6, <2>1, <2>2, <2>3, <2>4, OpWrites
<1>8. CASE ~A!Exists(a)
  <2>1. aRow' = aRow
    BY <1>8 DEF A!RecordInstall, A!RecordUpdate, A!RecordRollback, A!RecordDelete
  <2>2. aRow' = [aRow EXCEPT ![a] = aRow[a]]
    BY <1>2, <2>1
  <2>3. r.type = "install" => aRow[a].ver = aRow[a].ver
    OBVIOUS
  <2> QED BY <1>1, <1>2, <1>5, <1>6, <1>8, <2>2, <2>3, OpWrites
<1>9. CASE A!Exists(a)
  <2>1. ASSUME NEW st \in A!Statuses, NEW u \in {aRow[a].vmid, aOps[o].vmid}, NEW n \in A!Versions \union {A!None}
        PROVE  /\ [aRow EXCEPT ![a].status = st, ![a].vmid = u]
                    = [aRow EXCEPT ![a] = [aRow[a] EXCEPT !.status = st, !.vmid = u, !.ver = aRow[a].ver]]
               /\ [aRow EXCEPT ![a].status = st, ![a].ver = n]
                    = [aRow EXCEPT ![a] = [aRow[a] EXCEPT !.status = st, !.vmid = aRow[a].vmid, !.ver = n]]
               /\ [aRow EXCEPT ![a].status = st]
                    = [aRow EXCEPT ![a] = [aRow[a] EXCEPT !.status = st, !.vmid = aRow[a].vmid, !.ver = aRow[a].ver]]
    BY <1>2, ZenonT(60) DEF AppRows
  <2>2. aRow[a].ver \in A!Versions \union {A!None}
    BY <1>2 DEF AppRows
  <2>3. CASE A!RecordInstall(o)
    <3>1. aRow' = [aRow EXCEPT ![a].status = aOps[o].out, ![a].vmid = aOps[o].vmid] /\ aOps[o].type = "install"
      BY <1>9, <2>3 DEF A!RecordInstall, A!Job
    <3> QED BY <1>2, <1>7, <1>9, <2>1, <2>2, <3>1
  <2>4. CASE A!RecordUpdate(o)
    <3> DEFINE n == IF aOps[o].out = "running" THEN aOps[o].ver ELSE aRow[a].ver
    <3>1. aRow' = [aRow EXCEPT ![a].status = aOps[o].out, ![a].ver = n] /\ aOps[o].type = "update"
      BY <1>2, <1>9, <2>4 DEF A!RecordUpdate, A!Job, AppRows
    <3>2. n \in A!Versions \union {A!None} /\ (aOps[o].out = "running" => n = aOps[o].ver)
      BY <1>2, <2>2
    <3> HIDE DEF n
    <3>3. aRow' = [aRow EXCEPT ![a] = [aRow[a] EXCEPT !.status = aOps[o].out, !.vmid = aRow[a].vmid, !.ver = n]]
      BY <1>2, <2>1, <3>1, <3>2
    <3> QED BY <1>2, <1>7, <1>9, <3>1, <3>2, <3>3
  <2>5. CASE A!RecordRollback(o)
    <3> DEFINE n == IF aOps[o].out = "update_failed" THEN aRow[a].ver ELSE aRow[a].snapVer
    <3>1. aRow' = [aRow EXCEPT ![a].status = aOps[o].out, ![a].ver = n] /\ aOps[o].type = "rollback"
      BY <1>2, <1>9, <2>5 DEF A!RecordRollback, A!Job, AppRows
    <3>2. n \in A!Versions \union {A!None} /\ (aOps[o].out # "update_failed" => n = aRow[a].snapVer)
      BY <1>2, <2>2
    <3> HIDE DEF n
    <3>3. aRow' = [aRow EXCEPT ![a] = [aRow[a] EXCEPT !.status = aOps[o].out, !.vmid = aRow[a].vmid, !.ver = n]]
      BY <1>2, <2>1, <3>1, <3>2
    <3> QED BY <1>2, <1>7, <1>9, <3>1, <3>2, <3>3
  <2>6. CASE A!RecordDelete(o)
    <3>1. aRow' = [aRow EXCEPT ![a].status = "error"] /\ aOps[o].type = "delete"
      BY <1>9, <2>6 DEF A!RecordDelete, A!Job
    <3> QED BY <1>2, <1>3, <1>7, <1>9, <2>1, <2>2, <3>1
  <2> QED BY <2>3, <2>4, <2>5, <2>6
<1> QED BY <1>8, <1>9

\* Rows that change their status at most, and containers that change theirs, or
\* become nobody's.
SameRow(w, x) ==
    /\ w.status = "none" <=> x.status = "none"
    /\ w.vmid = x.vmid /\ w.ver = x.ver /\ w.snap = x.snap /\ w.snapVer = x.snapVer
Gone(c) == c.owner = A!Other /\ c.app = A!Other /\ c.snaps = {}
SameCt(c, x) ==
    /\ c.owner = x.owner /\ c.made = x.made /\ c.app = x.app /\ c.ver = x.ver /\ c.snaps = x.snaps
    /\ c.st \in {"stopped", "running"} => x.st \in {"stopped", "running"} \/ x.app = A!Other
    /\ c.st \in {"none", "creating"} => c.app = A!Other

LEMMA AppRest ==
    ASSUME AppsInv, AppTypes', UNCHANGED <<aOps, aCrossed, aMuddled>>,
           \A a \in Apps : SameRow(aRow'[a], aRow[a]),
           \A v \in A!Vmids : Gone(aCt'[v]) \/ SameCt(aCt'[v], aCt[v]),
           \A a \in Apps : aReq'[a].pc # "idle" =>
              /\ aReq'[a].vmid \in A!Vmids /\ ~A!Exists(a)
              /\ \A o \in DOMAIN aOps : aOps[o].app # a
    PROVE  AppsInv'
<1>1. \A a \in Apps : /\ A!Exists(a)' <=> A!Exists(a)
                      /\ aRow'[a].vmid = aRow[a].vmid /\ aRow'[a].ver = aRow[a].ver
                      /\ aRow'[a].snap = aRow[a].snap /\ aRow'[a].snapVer = aRow[a].snapVer
  BY DEF SameRow, A!Exists
<1>2. \A v \in A!Vmids : /\ aCt'[v].owner = aCt[v].owner \/ aCt'[v].owner = A!Other
                         /\ aCt'[v].snaps \subseteq aCt[v].snaps
                         /\ aCt'[v].st \in {"none", "creating"} => aCt'[v].app = A!Other
  BY DEF SameCt, Gone
<1>3. \A v \in A!Vmids : aCt'[v].owner # A!Other => SameCt(aCt'[v], aCt[v])
  BY DEF Gone
<1>4. \A a \in Apps : a # A!Other
  BY NoCtIs
<1>5. Placed'
  BY <1>1 DEF AppsInv, Placed
<1>6. InTurn'
  BY <1>1 DEF AppsInv, InTurn, OpOf, A!Live
<1>7. Apart'
  <2>1. \A a \in Apps : A!Beside(a, aRow[a].vmid)' = A!Beside(a, aRow[a].vmid)
    BY <1>1 DEF A!Beside, A!Live
  <2> QED BY <1>1, <2>1 DEF AppsInv, Apart
<1>8. (A!ContainerHasRow)'
  <2> SUFFICES ASSUME NEW u \in A!Vmids, aCt'[u].owner # A!Other, aCt'[u].owner \notin aCrossed
               PROVE  aRow'[aCt'[u].owner].status # "none" /\ aRow'[aCt'[u].owner].vmid = u
    BY DEF A!ContainerHasRow, A!Exists
  <2>1. aCt'[u].owner = aCt[u].owner /\ aCt[u].owner \in Apps
    BY <1>2, AppTyped DEF Containers
  <2>2. A!Exists(aCt[u].owner) /\ aRow[aCt[u].owner].vmid = u
    BY <2>1 DEF AppsInv, A!ContainerHasRow
  <2> QED BY <1>1, <2>1, <2>2 DEF A!Exists
<1>9. TornDown'
  <2>1. \A o \in DOMAIN aOps : aOps[o].vmid \in A!Vmids
    BY OpIs
  <2> QED BY <1>2, <1>4, <2>1 DEF AppsInv, TornDown, OpOf
<1>10. SnapshotsNamed'
  BY <1>1, <1>2 DEF AppsInv, SnapshotsNamed, OpOf
<1>11. SnapshotsThere'
  <2>1. ASSUME NEW a \in Apps \ aCrossed, A!Exists(a), aCt'[aRow[a].vmid].owner = a,
               aRow[a].snap > aCt'[aRow[a].vmid].made
        PROVE  \E s \in aCt'[aRow[a].vmid].snaps : s.id = aRow[a].snap
    <3>1. aRow[a].vmid \in A!Vmids
      BY <2>1 DEF AppsInv, Placed
    <3>2. SameCt(aCt'[aRow[a].vmid], aCt[aRow[a].vmid])
      BY <1>3, <1>4, <2>1, <3>1
    <3> QED BY <2>1, <3>2 DEF AppsInv, SnapshotsThere, SameCt
  <2> QED BY <1>1, <2>1 DEF AppsInv, SnapshotsThere, OpOf, Succeeds
<1>12. VersionsSound'
  <2>1. ASSUME NEW a \in Clean, A!Exists(a)
        PROVE  /\ \A s \in aCt'[aRow[a].vmid].snaps : s.id = aRow[a].snap => s.ver = aRow[a].snapVer
               /\ A!Own(a)' => A!Own(a) /\ aCt'[aRow[a].vmid].ver = aCt[aRow[a].vmid].ver
    <3>1. aRow[a].vmid \in A!Vmids
      BY <2>1 DEF AppsInv, Placed, Clean
    <3>2. A!Own(a)' => SameCt(aCt'[aRow[a].vmid], aCt[aRow[a].vmid])
      BY <1>1, <1>3, <1>4, <2>1, <3>1 DEF A!Own, Clean
    <3>3. A!Own(a)' => A!Own(a) /\ aCt'[aRow[a].vmid].ver = aCt[aRow[a].vmid].ver
      BY <1>1, <1>4, <2>1, <3>2 DEF A!Own, A!Ready, SameCt, Clean
    <3> QED BY <1>2, <2>1, <3>1, <3>3 DEF AppsInv, VersionsSound
  <2>2. \A a \in Apps : A!LastOf(a)' = A!LastOf(a)
    BY DEF A!LastOf
  <2>3. ASSUME NEW a \in Clean, A!Exists(a), A!Own(a)', NEW o \in A!LastOf(a)
        PROVE  Brings(a, o)'
    <3>1. Brings(a, o)
      BY <2>1, <2>3 DEF AppsInv, VersionsSound
    <3> QED BY <1>1, <2>1, <2>3, <3>1 DEF Brings, Succeeds, Clean
  <2>4. Clean' = Clean
    BY DEF Clean
  <2>5. \A a \in Clean : a \in Apps
    BY DEF Clean
  <2>6. \A a \in Clean : \A o \in DOMAIN aOps' :
           OpOf(a, o)' /\ aOps'[o].type = "install" /\ A!Live(o)' => aOps'[o].ver = aRow'[a].ver
    BY <1>1, <2>5 DEF AppsInv, VersionsSound, OpOf, A!Live
  <2>7. \A a \in Clean : A!Exists(a)' =>
           \A s \in aCt'[aRow'[a].vmid].snaps : s.id = aRow'[a].snap => s.ver = aRow'[a].snapVer
    BY <1>1, <2>1, <2>5
  <2>8. \A a \in Clean : A!Exists(a)' /\ A!Own(a)' => \A o \in A!LastOf(a)' : Brings(a, o)'
    BY <1>1, <2>2, <2>3, <2>5
  <2> QED BY <2>4, <2>6, <2>7, <2>8 DEF VersionsSound
<1> QED BY <1>5, <1>6, <1>7, <1>8, <1>9, <1>10, <1>11, <1>12 DEF AppsInv

LEMMA CrashInv == ASSUME AppsInv, A!Crash PROVE AppsInv'
<1>1. /\ UNCHANGED <<aRow, aCt, aAlloc, aLatest, aMuddled, aCrossed>> /\ aCalls' = {} /\ aPass' = {}
      /\ aReq' = [a \in Apps |-> A!NoRequest] /\ aEvents' \in 0..AppEvents
      /\ DOMAIN aOps' = DOMAIN aOps
  <2>1. DOMAIN aOps' = DOMAIN aOps
    BY DEF A!Crash
  <2>2. aEvents' \in 0..AppEvents
    <3>1. aEvents < AppEvents /\ aEvents' = aEvents + 1
      BY DEF A!Crash
    <3> QED BY <3>1, AppTyped, ServicesAssumption
  <2> QED BY <2>1, <2>2 DEF A!Crash
<1>2. \A o \in DOMAIN aOps :
         /\ aOps'[o] \in OpRecords
         /\ A!Live(o) => aOps'[o].pc = "lost"
         /\ ~A!Live(o) => aOps'[o] = aOps[o]
         /\ aOps'[o].app = aOps[o].app /\ aOps'[o].type = aOps[o].type /\ aOps'[o].vmid = aOps[o].vmid
  <2> SUFFICES ASSUME NEW o \in DOMAIN aOps
               PROVE  /\ aOps'[o] \in OpRecords
                      /\ A!Live(o) => aOps'[o].pc = "lost"
                      /\ ~A!Live(o) => aOps'[o] = aOps[o]
                      /\ aOps'[o].app = aOps[o].app /\ aOps'[o].type = aOps[o].type /\ aOps'[o].vmid = aOps[o].vmid
    OBVIOUS
  <2>1. aOps[o] \in OpRecords
    BY AppTyped
  <2>2. aOps'[o] = IF A!Live(o) THEN [aOps[o] EXCEPT !.pc = "lost", !.ver = A!None] ELSE aOps[o]
    BY DEF A!Crash
  <2> QED BY <2>1, <2>2 DEF OpRecords, OpPcs, A!None
<1>3. aOps' \in Seq(OpRecords) /\ Len(aOps') = Len(aOps)
  <2>1. aOps' = [o \in 1..Len(aOps) |-> aOps'[o]]
    BY AppTyped DEF A!Crash
  <2> QED BY <1>1, <1>2, <2>1, AppTyped
<1>4. AppTypes'
  <2>1. A!NoRequest \in AppRequests
    BY DEF A!NoRequest, AppRequests, A!None
  <2> QED BY <1>1, <1>3, <2>1 DEF AppsInv, AppTypes
<1>5. \A o \in DOMAIN aOps : ~A!Live(o)' /\ aOps'[o].pc \notin {"queued", "snapshot", "record", "release", "erase", "compose", "prune"}
  BY <1>2 DEF A!Live
<1>6. Placed' /\ InTurn' /\ TornDown'
  BY <1>1, <1>2, <1>5 DEF AppsInv, Placed, InTurn, TornDown, OpOf, A!Exists, A!NoRequest
<1>7. Apart'
  BY <1>1, <1>5 DEF AppsInv, Apart, A!Beside, A!Exists
<1>8. (A!ContainerHasRow)'
  BY <1>1 DEF AppsInv, A!ContainerHasRow, A!Exists
<1>9. SnapshotsNamed'
  <2>1. \A v \in A!Vmids : \A s \in aCt[v].snaps : s.id \in DOMAIN aOps /\ aOps[s.id].type = "update"
    BY DEF AppsInv, SnapshotsNamed
  <2> QED BY <1>1, <1>2, <1>5, <2>1 DEF AppsInv, SnapshotsNamed, OpOf, A!Exists
<1>10. SnapshotsThere'
  BY <1>1, <1>2, <1>5 DEF AppsInv, SnapshotsThere, OpOf, A!Exists, Succeeds
<1>11. VersionsSound'
  <2>1. \A a \in Apps : A!LastOf(a)' = A!LastOf(a)
    BY <1>1, <1>2 DEF A!LastOf
  <2>2. ASSUME NEW a \in Clean, A!Exists(a), A!Own(a), NEW o \in A!LastOf(a) PROVE Brings(a, o)'
    <3>1. Brings(a, o) /\ o \in DOMAIN aOps
      BY <2>2 DEF AppsInv, VersionsSound, A!LastOf
    <3> QED BY <1>1, <1>2, <1>5, <3>1 DEF Brings, Succeeds
  <2>3. \A a \in Apps : (A!Own(a)' <=> A!Own(a)) /\ (A!Exists(a)' <=> A!Exists(a))
    BY <1>1 DEF A!Own, A!Ready, A!Exists
  <2>4. Clean' = Clean /\ \A a \in Clean : a \in Apps
    BY <1>1 DEF Clean
  <2>5. \A a \in Clean : A!Exists(a)' =>
           \A s \in aCt'[aRow'[a].vmid].snaps : s.id = aRow'[a].snap => s.ver = aRow'[a].snapVer
    BY <1>1, <2>3, <2>4 DEF AppsInv, VersionsSound
  <2>6. \A a \in Clean : A!Exists(a)' /\ A!Own(a)' => \A o \in A!LastOf(a)' : Brings(a, o)'
    BY <2>1, <2>2, <2>3, <2>4
  <2> QED BY <1>1, <1>5, <2>4, <2>5, <2>6 DEF VersionsSound
<1> QED BY <1>4, <1>6, <1>7, <1>8, <1>9, <1>10, <1>11 DEF AppsInv

\* A request writes its operation: w is the row by then.
LEMMA SubmitKeeps ==
    ASSUME AppsInv, NEW a \in Apps, NEW w \in AppRows, NEW type \in {"install", "update", "rollback", "delete"},
           w.status # "none", w.vmid \in A!Vmids, aRow' = [aRow EXCEPT ![a] = w], A!Submit(a, type),
           IF A!Exists(a)
           THEN w.vmid = aRow[a].vmid /\ w.ver = aRow[a].ver /\ w.snap = aRow[a].snap /\ w.snapVer = aRow[a].snapVer
           ELSE w.snap = 0 /\ \A o \in DOMAIN aOps : aOps[o].app # a,
           type = "install" /\ a \notin aMuddled' => w.ver = aLatest,
           aReq' \in [Apps -> AppRequests], \A b \in Apps : aReq'[b].pc # "idle" => b # a /\ aReq'[b] = aReq[b],
           aMuddled \subseteq aMuddled', aMuddled' \subseteq Apps,
           UNCHANGED <<aCalls, aPass, aCt, aAlloc, aLatest, aEvents>>
    PROVE  AppsInv'
<1> DEFINE n == Len(aOps) + 1
           q == [app |-> a, type |-> type, vmid |-> w.vmid, pc |-> "queued", ver |-> aLatest, out |-> "none"]
           with == A!Beside(a, w.vmid)
<1>1. /\ aRow'[a] = w /\ \A b \in Apps : b # a => aRow'[b] = aRow[b]
      /\ aRow' \in [Apps -> AppRows]
  BY AppTyped
<1>2. /\ q \in OpRecords /\ q.app = a /\ q.type = type /\ q.vmid = w.vmid /\ q.pc = "queued" /\ q.ver = aLatest
  BY DEF OpRecords, OpPcs, AppsInv, AppTypes
<1>3. /\ Len(aOps) < AppOps /\ aOps' = Append(aOps, q)
      /\ aCrossed' = aCrossed \union with \union (IF A!Busy(a) \/ with # {} THEN {a} ELSE {})
  BY <1>1 DEF A!Submit
<1> HIDE DEF q
<1>4. /\ aOps' \in Seq(OpRecords) /\ Len(aOps') = n /\ DOMAIN aOps' = 1..n /\ aOps'[n] = q
      /\ n \in 1..AppOps /\ n \notin DOMAIN aOps /\ DOMAIN aOps = 1..Len(aOps)
      /\ \A o \in DOMAIN aOps : o \in DOMAIN aOps' /\ aOps'[o] = aOps[o] /\ o < n
      /\ \A o \in DOMAIN aOps' : o = n \/ o \in DOMAIN aOps
  <2>1. aOps \in Seq(OpRecords) /\ Len(aOps) \in Nat /\ DOMAIN aOps = 1..Len(aOps) /\ AppOps \in Nat
    BY AppTyped, ServicesAssumption
  <2>2. /\ aOps' \in Seq(OpRecords) /\ Len(aOps') = n /\ aOps'[n] = q
        /\ \A o \in 1..Len(aOps) : aOps'[o] = aOps[o]
    BY <1>2, <1>3, <2>1
  <2>3. DOMAIN aOps' = 1..n
    BY <2>2
  <2>4. n \in 1..AppOps
    BY <1>3, <2>1
  <2> QED BY <2>1, <2>2, <2>3, <2>4
<1>5. aCrossed' \subseteq Apps /\ aCrossed \subseteq aCrossed'
  BY <1>3, AppTyped DEF A!Beside
<1>6. a \notin aCrossed' => ~A!Busy(a) /\ with = {}
  BY <1>3
<1>7. \A b \in Apps \ aCrossed' : b # a =>
         /\ A!Exists(b) => aRow[b].vmid # w.vmid
         /\ \A o \in DOMAIN aOps : aOps[o].app = b /\ A!Live(o) => aOps[o].vmid # w.vmid
  BY <1>3 DEF A!Beside
<1> HIDE DEF n, with
<1>8. \A b \in Apps : A!Exists(b)' <=> b = a \/ A!Exists(b)
  BY <1>1 DEF A!Exists
<1>9. \A o \in DOMAIN aOps : (A!Live(o)' <=> A!Live(o)) /\ o # n
  BY <1>4 DEF A!Live
<1>10. AppTypes'
  BY <1>1, <1>3, <1>4, <1>5, AppTyped DEF AppsInv, AppTypes
<1>11. Placed'
  <2>1. \A b \in Apps : A!Exists(b)' => aRow'[b].vmid \in A!Vmids
    BY <1>1, <1>8 DEF AppsInv, Placed
  <2>2. \A b \in Apps : aReq'[b].pc # "idle" =>
           /\ aReq'[b].vmid \in A!Vmids /\ ~A!Exists(b)'
           /\ \A o \in DOMAIN aOps' : aOps'[o].app # b
    BY <1>2, <1>4, <1>8 DEF AppsInv, Placed
  <2>3. \A o \in DOMAIN aOps' : aOps'[o].pc = "record" => Recordable(aOps'[o])
    BY <1>2, <1>4 DEF AppsInv, Placed
  <2> QED BY <2>1, <2>2, <2>3 DEF Placed
<1>12. InTurn'
  <2> SUFFICES ASSUME NEW b \in Apps \ aCrossed', NEW o \in DOMAIN aOps', aOps'[o].app = b, A!Live(o)'
               PROVE  /\ \A p \in DOMAIN aOps' : aOps'[p].app = b => p <= o
                      /\ A!Exists(b)' /\ aRow'[b].vmid = aOps'[o].vmid
    BY DEF InTurn, OpOf
  <2>1. CASE o = n
    BY <1>1, <1>2, <1>4, <1>8, <2>1
  <2>2. CASE o # n
    <3>1. o \in DOMAIN aOps /\ aOps[o].app = b /\ A!Live(o)
      BY <1>4, <1>9, <2>2
    <3>2. b # a
      BY <1>6, <3>1 DEF A!Busy
    <3>3. /\ \A p \in DOMAIN aOps : aOps[p].app = b => p <= o
          /\ A!Exists(b) /\ aRow[b].vmid = aOps[o].vmid
      BY <1>5, <3>1 DEF AppsInv, InTurn, OpOf
    <3> QED BY <1>1, <1>2, <1>4, <1>8, <3>1, <3>2, <3>3
  <2> QED BY <2>1, <2>2
<1>13. Apart'
  <2> SUFFICES ASSUME NEW b \in Apps \ aCrossed', A!Exists(b)', NEW e \in Apps \ {b},
                      \/ A!Exists(e)' /\ aRow'[e].vmid = aRow'[b].vmid
                      \/ \E o \in DOMAIN aOps' : aOps'[o].app = e /\ A!Live(o)' /\ aOps'[o].vmid = aRow'[b].vmid
               PROVE  FALSE
    BY DEF Apart, A!Beside
  <2>1. CASE b = a
    <3>1. /\ A!Exists(e) => aRow[e].vmid # w.vmid
          /\ \A o \in DOMAIN aOps : aOps[o].app = e /\ A!Live(o) => aOps[o].vmid # w.vmid
      BY <1>6, <2>1 DEF with, A!Beside
    <3> QED BY <1>1, <1>2, <1>4, <1>8, <1>9, <2>1, <3>1
  <2>2. CASE b # a
    <3>1. A!Exists(b) /\ aRow'[b] = aRow[b] /\ aRow[b].vmid # w.vmid
      BY <1>1, <1>7, <1>8, <2>2
    <3>2. /\ A!Exists(e) => aRow[e].vmid # aRow[b].vmid
          /\ \A o \in DOMAIN aOps : aOps[o].app = e /\ A!Live(o) => aOps[o].vmid # aRow[b].vmid
      BY <1>5, <3>1 DEF AppsInv, Apart, A!Beside
    <3> QED BY <1>1, <1>2, <1>4, <1>8, <1>9, <3>1, <3>2
  <2> QED BY <2>1, <2>2
<1>14. (A!ContainerHasRow)'
  <2> SUFFICES ASSUME NEW u \in A!Vmids, aCt[u].owner # A!Other, aCt[u].owner \notin aCrossed'
               PROVE  aRow'[aCt[u].owner].status # "none" /\ aRow'[aCt[u].owner].vmid = u
    BY DEF A!ContainerHasRow, A!Exists
  <2>1. aCt[u].owner \in Apps
    BY AppTyped DEF Containers
  <2>2. A!Exists(aCt[u].owner) /\ aRow[aCt[u].owner].vmid = u
    BY <1>5 DEF AppsInv, A!ContainerHasRow
  <2> QED BY <1>1, <2>1, <2>2 DEF A!Exists
<1>15. TornDown'
  BY <1>2, <1>4, <1>5 DEF AppsInv, TornDown, OpOf
<1>16. SnapshotsNamed'
  <2>1. \A b \in Apps : aRow'[b].snap # A!None => A!Exists(b) /\ aRow'[b].snap = aRow[b].snap
    BY <1>1 DEF A!None, AppsInv, SnapshotsNamed
  <2>2. \A b \in Apps : aRow'[b].snap # A!None =>
           /\ A!Exists(b)' /\ aRow'[b].snap \in DOMAIN aOps'
           /\ aOps'[aRow'[b].snap].app = b /\ aOps'[aRow'[b].snap].type = "update"
    <3>1. \A b \in Apps : aRow[b].snap # A!None =>
             aRow[b].snap \in DOMAIN aOps /\ aOps[aRow[b].snap].app = b /\ aOps[aRow[b].snap].type = "update"
      BY DEF AppsInv, SnapshotsNamed, OpOf
    <3> QED BY <1>4, <1>8, <2>1, <3>1
  <2>3. \A v \in A!Vmids : \A s \in aCt[v].snaps :
           s.id \in DOMAIN aOps' /\ aOps'[s.id].type = "update" /\ aOps'[s.id].pc \notin {"queued", "snapshot"}
    BY <1>4 DEF AppsInv, SnapshotsNamed
  <2> QED BY <2>2, <2>3 DEF AppsInv, SnapshotsNamed, OpOf
<1>17. SnapshotsThere'
  <2>1. \A b \in Apps \ aCrossed' : \A o \in DOMAIN aOps' :
           OpOf(b, o)' /\ aOps'[o].type = "update" /\ (aOps'[o].pc \in {"compose", "prune"} \/ Succeeds(o)') => aRow'[b].snap = o
    <3> SUFFICES ASSUME NEW b \in Apps \ aCrossed', NEW o \in DOMAIN aOps', aOps'[o].app = b, aOps'[o].type = "update",
                        aOps'[o].pc \in {"compose", "prune"} \/ (aOps'[o].pc = "record" /\ aOps'[o].out = "running")
                 PROVE  aRow'[b].snap = o
      BY DEF OpOf, Succeeds
    <3>1. o \in DOMAIN aOps /\ aOps'[o] = aOps[o]
      BY <1>2, <1>4
    <3>2. aRow[b].snap = o
      BY <1>5, <3>1 DEF AppsInv, SnapshotsThere, OpOf, Succeeds
    <3> QED BY <1>1, <3>1, <3>2
  <2>2. ASSUME NEW b \in Apps \ aCrossed', A!Exists(b)', aCt[aRow'[b].vmid].owner = b,
               aRow'[b].snap > aCt[aRow'[b].vmid].made
        PROVE  \E s \in aCt[aRow'[b].vmid].snaps : s.id = aRow'[b].snap
    <3>1. A!Exists(b)
      <4>1. aCt[aRow'[b].vmid].made \in 0..AppOps
        BY <1>11, <2>2, AppTyped DEF Placed, Containers
      <4>2. aRow'[b].snap # 0
        BY <2>2, <4>1
      <4> QED BY <1>1, <4>2 DEF A!None, AppsInv, SnapshotsNamed
    <3>2. aRow'[b].vmid = aRow[b].vmid /\ aRow'[b].snap = aRow[b].snap
      BY <1>1, <3>1
    <3> QED BY <1>5, <2>2, <3>1, <3>2 DEF AppsInv, SnapshotsThere
  <2> QED BY <2>1, <2>2 DEF SnapshotsThere
<1>18. VersionsSound'
  <2>1. Clean' \subseteq Clean /\ Clean' \subseteq Apps \ aCrossed' /\ \A b \in Clean' : b \in Apps /\ b \notin aMuddled'
    BY <1>5 DEF Clean
  <2>2. ASSUME NEW b \in Clean', NEW o \in DOMAIN aOps', aOps'[o].app = b, aOps'[o].type = "install", A!Live(o)'
        PROVE  aOps'[o].ver = aRow'[b].ver
    <3>1. CASE o = n
      BY <1>1, <1>2, <1>4, <2>1, <2>2, <3>1
    <3>2. CASE o # n
      <4>1. o \in DOMAIN aOps /\ aOps'[o] = aOps[o] /\ A!Live(o)
        BY <1>4, <1>9, <2>2, <3>2
      <4>2. b # a
        BY <1>6, <2>1, <2>2, <4>1 DEF A!Busy
      <4> QED BY <1>1, <2>1, <2>2, <4>1, <4>2 DEF AppsInv, VersionsSound, OpOf
    <3> QED BY <3>1, <3>2
  <2>3. ASSUME NEW b \in Clean', A!Exists(b)'
        PROVE  \A s \in aCt[aRow'[b].vmid].snaps : s.id = aRow'[b].snap => s.ver = aRow'[b].snapVer
    <3>1. CASE A!Exists(b)
      <4>1. aRow'[b].vmid = aRow[b].vmid /\ aRow'[b].snap = aRow[b].snap /\ aRow'[b].snapVer = aRow[b].snapVer
        BY <1>1, <2>1, <3>1
      <4> QED BY <2>1, <3>1, <4>1 DEF AppsInv, VersionsSound
    <3>2. CASE ~A!Exists(b)
      <4>1. b = a /\ aRow'[b].snap = 0 /\ aRow'[b].vmid \in A!Vmids
        BY <1>1, <1>8, <2>1, <2>3, <3>2
      <4> QED BY <4>1, AppTyped DEF AppsInv, SnapshotsNamed
    <3> QED BY <3>1, <3>2
  <2>4. ASSUME NEW b \in Clean', A!Exists(b)', A!Own(b)', NEW o \in A!LastOf(b)'
        PROVE  Brings(b, o)'
    <3>1. CASE b = a
      <4>1. o = n
        BY <1>2, <1>4, <2>4, <3>1, AppTyped DEF A!LastOf
      <4> QED BY <1>2, <1>4, <4>1 DEF Brings, Succeeds
    <3>2. CASE b # a
      <4>1. A!Exists(b) /\ A!Own(b) /\ aRow'[b] = aRow[b]
        BY <1>1, <1>8, <2>1, <2>4, <3>2 DEF A!Own, A!Ready
      <4>2. o \in A!LastOf(b) /\ aOps'[o] = aOps[o]
        BY <1>2, <1>4, <2>4, <3>2 DEF A!LastOf
      <4>3. Brings(b, o)
        BY <2>1, <4>1, <4>2 DEF AppsInv, VersionsSound
      <4> QED BY <4>1, <4>2, <4>3 DEF Brings, Succeeds
    <3> QED BY <3>1, <3>2
  <2>5. \A b \in Clean' : \A o \in DOMAIN aOps' :
           OpOf(b, o)' /\ aOps'[o].type = "install" /\ A!Live(o)' => aOps'[o].ver = aRow'[b].ver
    BY <2>2 DEF OpOf
  <2> QED BY <2>3, <2>4, <2>5 DEF VersionsSound
<1> QED BY <1>10, <1>11, <1>12, <1>13, <1>14, <1>15, <1>16, <1>17, <1>18 DEF AppsInv

\* The last operation of an application: its row goes.
LEMMA EraseInv == ASSUME AppsInv, NEW o, A!Erase(o) PROVE AppsInv'
<1> DEFINE a == aOps[o].app
           r == [aOps[o] EXCEPT !.pc = "done", !.out = "running", !.ver = A!None]
<1>1. o \in DOMAIN aOps /\ A!Live(o) /\ aOps[o].type = "delete" /\ aOps[o].pc = "erase"
  BY DEF A!Erase, A!Job, A!Live
<1>2. a \in Apps /\ OpOf(a, o) /\ aOps[o] \in OpRecords
  BY <1>1, OpIs
<1>3. r \in OpRecords /\ r.pc = "done" /\ r.app = a /\ r.type = "delete" /\ r.vmid = aOps[o].vmid
  BY <1>1, <1>2 DEF OpRecords, OpPcs, A!Statuses, A!None
<1>4. aOps' = [aOps EXCEPT ![o] = r] /\ aRow' = [aRow EXCEPT ![a] = A!NoRow]
      /\ UNCHANGED <<aReq, aCalls, aPass, aCt, aAlloc, aLatest, aMuddled, aCrossed, aEvents>>
  BY <1>1, AppTyped DEF A!Erase
<1>5. A!NoRow \in AppRows /\ A!NoRow.status = "none" /\ A!NoRow.snap = 0
  BY ServicesAssumption DEF A!NoRow, AppRows, A!None
<1> HIDE DEF r
<1>6. /\ aOps'[o] = r /\ \A p \in DOMAIN aOps : p # o => aOps'[p] = aOps[p]
      /\ DOMAIN aOps' = DOMAIN aOps /\ aOps' \in Seq(OpRecords) /\ Len(aOps') = Len(aOps)
  BY <1>1, <1>3, <1>4, AppTyped
<1>7. /\ aRow'[a] = A!NoRow /\ \A b \in Apps : b # a => aRow'[b] = aRow[b]
      /\ aRow' \in [Apps -> AppRows]
  BY <1>2, <1>4, <1>5, AppTyped
<1>8. \A b \in Apps : A!Exists(b)' <=> b # a /\ A!Exists(b)
  BY <1>5, <1>7 DEF A!Exists
<1>9. \A p \in DOMAIN aOps : /\ A!Live(p)' <=> p # o /\ A!Live(p)
                             /\ aOps'[p].app = aOps[p].app /\ aOps'[p].type = aOps[p].type /\ aOps'[p].vmid = aOps[p].vmid
  BY <1>1, <1>3, <1>6 DEF A!Live
<1>10. a \notin aCrossed => \A p \in DOMAIN aOps : ~(aOps[p].app = a /\ A!Live(p)')
  <2> SUFFICES ASSUME a \notin aCrossed, NEW p \in DOMAIN aOps, aOps[p].app = a, A!Live(p), p # o PROVE FALSE
    BY <1>9
  <2>1. o <= p /\ p <= o
    BY <1>1, <1>2 DEF AppsInv, InTurn, OpOf
  <2> QED BY <1>1, <2>1, AppTyped
<1> HIDE DEF a
<1>11. AppTypes'
  BY <1>4, <1>6, <1>7 DEF AppsInv, AppTypes
<1>12. Placed'
  <2>1. \A p \in DOMAIN aOps : aOps'[p].pc = "record" => Recordable(aOps'[p])
    BY <1>3, <1>6 DEF AppsInv, Placed
  <2>2. \A b \in Apps : A!Exists(b)' => aRow'[b].vmid \in A!Vmids
    BY <1>7, <1>8 DEF AppsInv, Placed
  <2> QED BY <1>4, <1>6, <1>8, <1>9, <2>1, <2>2 DEF AppsInv, Placed
<1>13. InTurn'
  <2> SUFFICES ASSUME NEW b \in Apps \ aCrossed, NEW p \in DOMAIN aOps, aOps[p].app = b, A!Live(p)'
               PROVE  /\ \A q \in DOMAIN aOps : aOps[q].app = b => q <= p
                      /\ A!Exists(b)' /\ aRow'[b].vmid = aOps[p].vmid
    BY <1>4, <1>6, <1>9 DEF InTurn, OpOf
  <2>1. b # a
    BY <1>10
  <2>2. /\ \A q \in DOMAIN aOps : aOps[q].app = b => q <= p
        /\ A!Exists(b) /\ aRow[b].vmid = aOps[p].vmid
    BY <1>9 DEF AppsInv, InTurn, OpOf
  <2> QED BY <1>7, <1>8, <2>1, <2>2
<1>14. Apart'
  <2> SUFFICES ASSUME NEW b \in Apps \ aCrossed, A!Exists(b)', NEW e \in Apps \ {b},
                      \/ A!Exists(e)' /\ aRow'[e].vmid = aRow'[b].vmid
                      \/ \E p \in DOMAIN aOps : aOps'[p].app = e /\ A!Live(p)' /\ aOps'[p].vmid = aRow'[b].vmid
               PROVE  FALSE
    BY <1>4, <1>6 DEF Apart, A!Beside
  <2>1. b # a /\ A!Exists(b) /\ aRow'[b] = aRow[b]
    BY <1>7, <1>8
  <2>2. /\ A!Exists(e) => aRow[e].vmid # aRow[b].vmid
        /\ \A p \in DOMAIN aOps : aOps[p].app = e /\ A!Live(p) => aOps[p].vmid # aRow[b].vmid
    BY <2>1 DEF AppsInv, Apart, A!Beside
  <2> QED BY <1>7, <1>8, <1>9, <2>1, <2>2
<1>15. (A!ContainerHasRow)'
  <2> SUFFICES ASSUME NEW u \in A!Vmids, aCt[u].owner # A!Other, aCt[u].owner \notin aCrossed
               PROVE  aRow'[aCt[u].owner].status # "none" /\ aRow'[aCt[u].owner].vmid = u
    BY <1>4 DEF A!ContainerHasRow, A!Exists
  <2>1. aCt[u].owner \in Apps
    BY AppTyped DEF Containers
  <2>2. A!Exists(aCt[u].owner) /\ aRow[aCt[u].owner].vmid = u
    BY DEF AppsInv, A!ContainerHasRow
  <2>3. aCt[u].owner # a
    <3> SUFFICES ASSUME aCt[u].owner = a PROVE FALSE
      OBVIOUS
    <3>1. aRow[a].vmid = aOps[o].vmid
      BY <1>1, <1>2 DEF AppsInv, InTurn
    <3>2. aCt[aOps[o].vmid].owner # a
      BY <1>1, <1>2 DEF AppsInv, TornDown
    <3> QED BY <2>2, <3>1, <3>2
  <2> QED BY <1>7, <2>1, <2>2, <2>3 DEF A!Exists
<1>16. TornDown'
  <2> SUFFICES ASSUME NEW b \in Apps \ aCrossed, NEW p \in DOMAIN aOps, aOps'[p].app = b, aOps'[p].type = "delete",
                      aOps'[p].pc \in {"release", "erase"}
               PROVE  aCt[aOps'[p].vmid].owner # b
    BY <1>4, <1>6 DEF TornDown, OpOf
  <2>1. p # o /\ aOps'[p] = aOps[p]
    BY <1>3, <1>6
  <2> QED BY <2>1 DEF AppsInv, TornDown, OpOf
<1>17. SnapshotsNamed'
  <2>1. \A b \in Apps : aRow'[b].snap # A!None => A!Exists(b)' /\ aRow'[b].snap = aRow[b].snap
    BY <1>5, <1>7, <1>8 DEF A!None, AppsInv, SnapshotsNamed
  <2>2. \A b \in Apps : aRow'[b].snap # A!None =>
           /\ A!Exists(b)' /\ aRow'[b].snap \in DOMAIN aOps
           /\ aOps'[aRow'[b].snap].app = b /\ aOps'[aRow'[b].snap].type = "update"
    BY <1>9, <2>1 DEF AppsInv, SnapshotsNamed, OpOf
  <2>3. \A v \in A!Vmids : \A s \in aCt[v].snaps :
           s.id \in DOMAIN aOps /\ aOps'[s.id].type = "update" /\ aOps'[s.id].pc \notin {"queued", "snapshot"}
    BY <1>3, <1>6, <1>9 DEF AppsInv, SnapshotsNamed
  <2> QED BY <1>4, <1>6, <2>2, <2>3 DEF AppsInv, SnapshotsNamed, OpOf
<1>18. SnapshotsThere'
  <2>1. ASSUME NEW b \in Apps \ aCrossed, NEW p \in DOMAIN aOps, aOps'[p].app = b, aOps'[p].type = "update",
               aOps'[p].pc \in {"compose", "prune"} \/ (aOps'[p].pc = "record" /\ aOps'[p].out = "running")
        PROVE  aRow'[b].snap = p
    <3>1. p # o /\ aOps'[p] = aOps[p]
      BY <1>3, <1>6, <2>1
    <3>2. A!Live(p)'
      BY <2>1 DEF A!Live
    <3>3. b # a
      BY <1>10, <2>1, <3>1, <3>2
    <3> QED BY <1>7, <2>1, <3>1, <3>3 DEF AppsInv, SnapshotsThere, OpOf, Succeeds
  <2>2. ASSUME NEW b \in Apps \ aCrossed, A!Exists(b)', aCt[aRow'[b].vmid].owner = b,
               aRow'[b].snap > aCt[aRow'[b].vmid].made
        PROVE  \E s \in aCt[aRow'[b].vmid].snaps : s.id = aRow'[b].snap
    <3>1. A!Exists(b) /\ aRow'[b] = aRow[b]
      BY <1>7, <1>8, <2>2
    <3> QED BY <2>2, <3>1 DEF AppsInv, SnapshotsThere
  <2> QED BY <1>4, <1>6, <2>1, <2>2 DEF SnapshotsThere, OpOf, Succeeds
<1>19. VersionsSound'
  <2>1. Clean' = Clean /\ \A b \in Clean : b \in Apps /\ b \notin aCrossed
    BY <1>4 DEF Clean
  <2>2. ASSUME NEW b \in Clean, NEW p \in DOMAIN aOps, aOps'[p].app = b, aOps'[p].type = "install", A!Live(p)'
        PROVE  aOps'[p].ver = aRow'[b].ver
    <3>1. b # a /\ p # o /\ A!Live(p)
      BY <1>9, <1>10, <2>1, <2>2
    <3> QED BY <1>6, <1>7, <2>1, <2>2, <3>1 DEF AppsInv, VersionsSound, OpOf
  <2>3. ASSUME NEW b \in Clean, A!Exists(b)'
        PROVE  /\ \A s \in aCt[aRow'[b].vmid].snaps : s.id = aRow'[b].snap => s.ver = aRow'[b].snapVer
               /\ A!Own(b)' => \A p \in A!LastOf(b)' : Brings(b, p)'
    <3>1. b # a /\ A!Exists(b) /\ aRow'[b] = aRow[b]
      BY <1>7, <1>8, <2>1, <2>3
    <3>2. A!Own(b)' => A!Own(b)
      BY <1>4, <3>1 DEF A!Own, A!Ready
    <3>3. \A p \in A!LastOf(b)' : p \in A!LastOf(b) /\ aOps'[p] = aOps[p]
      BY <1>6, <1>9, <1>2, <3>1 DEF A!LastOf, OpOf
    <3>4. \A p \in A!LastOf(b)' : Brings(b, p) => Brings(b, p)'
      BY <1>4, <3>1, <3>3 DEF Brings, Succeeds
    <3> QED BY <3>1, <3>2, <3>3, <3>4 DEF AppsInv, VersionsSound
  <2>4. \A b \in Clean : \A p \in DOMAIN aOps' :
           OpOf(b, p)' /\ aOps'[p].type = "install" /\ A!Live(p)' => aOps'[p].ver = aRow'[b].ver
    BY <1>6, <2>2 DEF OpOf
  <2> QED BY <1>4, <2>1, <2>3, <2>4 DEF VersionsSound
<1> QED BY <1>11, <1>12, <1>13, <1>14, <1>15, <1>16, <1>17, <1>18, <1>19 DEF AppsInv

LEMMA InsertInv == ASSUME AppsInv, NEW a \in Apps, A!Insert(a) PROVE AppsInv'
<1> DEFINE w == [A!NoRow EXCEPT !.status = "installing", !.vmid = aReq[a].vmid, !.ip = aReq[a].ip, !.ver = aLatest]
<1>1. /\ aReq[a].pc # "idle" /\ aReq[a].vmid \in A!Vmids /\ ~A!Exists(a) /\ aReq[a] \in AppRequests
      /\ \A o \in DOMAIN aOps : aOps[o].app # a
  BY AppTyped DEF A!Insert, AppsInv, Placed
<1>2. aLatest \in A!Versions
  BY DEF AppsInv, AppTypes
<1>3. A!NoRow \in AppRows /\ A!NoRow.snap = 0
  BY ServicesAssumption DEF A!NoRow, AppRows, A!None
<1>4. w \in AppRows /\ w.status = "installing" /\ w.vmid = aReq[a].vmid /\ w.ver = aLatest /\ w.snap = 0
  BY <1>1, <1>2, <1>3 DEF AppRows, A!Statuses, AppRequests
<1>5. aRow' = [aRow EXCEPT ![a] = w] /\ A!Submit(a, "install") /\ aReq' = [aReq EXCEPT ![a] = A!NoRequest]
  BY DEF A!Insert
<1> HIDE DEF w
<1>6. A!NoRequest \in AppRequests /\ A!NoRequest.pc = "idle"
  BY DEF A!NoRequest, AppRequests, A!None
<1>7. aReq' \in [Apps -> AppRequests] /\ \A b \in Apps : aReq'[b].pc # "idle" => b # a /\ aReq'[b] = aReq[b]
  BY <1>5, <1>6, AppTyped
<1> QED BY <1>1, <1>4, <1>5, <1>7, SubmitKeeps, AppTyped DEF A!Insert

\* Requests on an application that is there.
LEMMA RowRequests ==
    ASSUME AppsInv, NEW a \in Apps, A!Retry(a) \/ A!Update(a) \/ A!Rollback(a) \/ A!DeleteApp(a) PROVE AppsInv'
<1>1. /\ A!Exists(a) /\ aRow[a] \in AppRows /\ aRow[a].vmid \in A!Vmids /\ aRow \in [Apps -> AppRows]
      /\ aReq' \in [Apps -> AppRequests] /\ aMuddled \subseteq Apps
  BY AppTyped DEF AppsInv, Placed, A!Retry, A!Update, A!Rollback, A!DeleteApp, A!Exists
<1>2. \A b \in Apps : aReq'[b].pc # "idle" => b # a /\ aReq'[b] = aReq[b]
  BY <1>1 DEF AppsInv, Placed, A!Retry, A!Update, A!Rollback, A!DeleteApp
<1>3. UNCHANGED <<aCalls, aPass, aCt, aAlloc, aLatest, aEvents>>
  BY DEF A!Retry, A!Update, A!Rollback, A!DeleteApp
<1>4. ASSUME NEW st \in A!Statuses
      PROVE  LET w == [aRow[a] EXCEPT !.status = st]
             IN  /\ w \in AppRows /\ w.status = st /\ w.vmid = aRow[a].vmid /\ w.ver = aRow[a].ver
                 /\ w.snap = aRow[a].snap /\ w.snapVer = aRow[a].snapVer /\ w.status # "none"
  BY <1>1 DEF AppRows, A!Statuses
<1>5. CASE A!Retry(a)
  <2> DEFINE w == [aRow[a] EXCEPT !.status = "installing"]
  <2>1. "installing" \in A!Statuses
    BY DEF A!Statuses
  <2>2. /\ w \in AppRows /\ w.status # "none" /\ w.vmid = aRow[a].vmid /\ w.ver = aRow[a].ver
        /\ w.snap = aRow[a].snap /\ w.snapVer = aRow[a].snapVer
    BY <1>4, <2>1
  <2>3. aRow' = [aRow EXCEPT ![a] = w] /\ A!Submit(a, "install")
        /\ aMuddled' = IF aLatest = aRow[a].ver THEN aMuddled ELSE aMuddled \union {a}
    BY <1>5 DEF A!Retry
  <2> HIDE DEF w
  <2>4. aMuddled \subseteq aMuddled' /\ aMuddled' \subseteq Apps /\ (a \notin aMuddled' => w.ver = aLatest)
    BY <1>1, <2>2, <2>3
  <2> QED BY <1>1, <1>2, <1>3, <2>2, <2>3, <2>4, SubmitKeeps
<1>6. CASE A!DeleteApp(a)
  <2> DEFINE w == [aRow[a] EXCEPT !.status = "deleting"]
  <2>1. "deleting" \in A!Statuses
    BY DEF A!Statuses
  <2>2. /\ w \in AppRows /\ w.status # "none" /\ w.vmid = aRow[a].vmid /\ w.ver = aRow[a].ver
        /\ w.snap = aRow[a].snap /\ w.snapVer = aRow[a].snapVer
    BY <1>4, <2>1
  <2>3. aRow' = [aRow EXCEPT ![a] = w] /\ A!Submit(a, "delete") /\ aMuddled' = aMuddled
    BY <1>6 DEF A!DeleteApp
  <2> HIDE DEF w
  <2> QED BY <1>1, <1>2, <1>3, <2>2, <2>3, SubmitKeeps
<1>7. ASSUME NEW type \in {"update", "rollback"}, A!Submit(a, type), aRow' = aRow, aMuddled' = aMuddled
      PROVE  AppsInv'
  <2>1. aRow' = [aRow EXCEPT ![a] = aRow[a]] /\ aRow[a].status # "none"
    BY <1>1, <1>7 DEF A!Exists
  <2>2. type \in {"install", "update", "rollback", "delete"} /\ type # "install"
    OBVIOUS
  <2> QED BY <1>1, <1>2, <1>3, <1>7, <2>1, <2>2, SubmitKeeps
<1>8. CASE A!Update(a)
  BY <1>7, <1>8 DEF A!Update
<1>9. CASE A!Rollback(a)
  BY <1>7, <1>9 DEF A!Rollback
<1> QED BY <1>5, <1>6, <1>8, <1>9

LEMMA SameAlready ==
    AppsInv => /\ \A a \in Apps : SameRow(aRow[a], aRow[a])
               /\ \A v \in A!Vmids : SameCt(aCt[v], aCt[v])
               /\ \A a \in Apps : aReq[a].pc # "idle" =>
                     /\ aReq[a].vmid \in A!Vmids /\ ~A!Exists(a)
                     /\ \A o \in DOMAIN aOps : aOps[o].app # a
  BY DEF SameRow, SameCt, AppsInv, Placed, SnapshotsNamed

\* A request before its row, and what touches neither rows nor containers.
LEMMA AppRequestInv ==
    ASSUME AppsInv, NEW a \in Apps, A!PickVmid(a) \/ A!Allocate(a)
    PROVE  AppsInv'
<1> DEFINE Fit(q) == q.pc # "idle" => /\ q.vmid \in A!Vmids /\ ~A!Exists(a)
                                      /\ \A o \in DOMAIN aOps : aOps[o].app # a
<1>1. UNCHANGED <<aRow, aOps, aCalls, aPass, aCt, aLatest, aMuddled, aCrossed, aEvents>>
  BY DEF A!PickVmid, A!Allocate
<1>2. \E q \in AppRequests : Fit(q) /\ aReq' = [aReq EXCEPT ![a] = q]
  <2>1. CASE A!PickVmid(a)
    <3>1. PICK v \in A!Vmids, ip \in BOOLEAN :
             aReq' = [aReq EXCEPT ![a] = [pc |-> IF ip THEN "address" ELSE "insert", vmid |-> v, ip |-> ip]]
      BY <2>1 DEF A!PickVmid, A!Shifted
    <3> DEFINE q == [pc |-> IF ip THEN "address" ELSE "insert", vmid |-> v, ip |-> ip]
    <3>2. q \in AppRequests /\ Fit(q)
      BY <2>1 DEF AppRequests, A!PickVmid
    <3> QED BY <3>1, <3>2
  <2>2. CASE A!Allocate(a)
    <3>1. aReq[a] \in AppRequests /\ Fit(aReq[a]) /\ aReq[a].pc # "idle"
      BY <2>2, AppTyped DEF A!Allocate, AppsInv, Placed
    <3>2. CASE aReq' = [aReq EXCEPT ![a].pc = "insert"]
      <4> DEFINE q == [aReq[a] EXCEPT !.pc = "insert"]
      <4>1. q \in AppRequests /\ Fit(q)
        BY <3>1 DEF AppRequests
      <4>2. aReq' = [aReq EXCEPT ![a] = q]
        BY <3>2
      <4> HIDE DEF q, Fit
      <4> QED BY <4>1, <4>2
    <3>3. CASE aReq' = [aReq EXCEPT ![a] = A!NoRequest]
      <4>1. A!NoRequest \in AppRequests /\ Fit(A!NoRequest)
        BY DEF A!NoRequest, AppRequests, A!None
      <4> HIDE DEF Fit
      <4> QED BY <3>3, <4>1
    <3> QED BY <2>2, <3>2, <3>3 DEF A!Allocate
  <2> QED BY <2>1, <2>2
<1>3. PICK q \in AppRequests : Fit(q) /\ aReq' = [aReq EXCEPT ![a] = q]
  BY <1>2
<1>4. aAlloc' \subseteq [vmid : A!Vmids, owner : Apps \union {A!Other}]
  <2>1. CASE A!PickVmid(a)
    BY <2>1 DEF A!PickVmid, AppsInv, AppTypes
  <2>2. CASE A!Allocate(a)
    <3>1. aReq[a].vmid \in A!Vmids
      BY <2>2 DEF A!Allocate, AppsInv, Placed
    <3> QED BY <2>2, <3>1 DEF A!Allocate, AppsInv, AppTypes
  <2> QED BY <2>1, <2>2
<1>5. AppTypes'
  BY <1>1, <1>3, <1>4 DEF AppsInv, AppTypes
<1>6. \A b \in Apps : aReq'[b].pc # "idle" =>
         /\ aReq'[b].vmid \in A!Vmids /\ ~A!Exists(b)
         /\ \A o \in DOMAIN aOps : aOps[o].app # b
  BY <1>3, SameAlready, AppTyped
<1> QED BY <1>1, <1>5, <1>6, SameAlready, AppRest

LEMMA AppQuietInv ==
    ASSUME AppsInv, A!BeginPass \/ A!SyncCatalogue
    PROVE  AppsInv'
<1>1. UNCHANGED <<aReq, aRow, aOps, aCalls, aCt, aAlloc, aMuddled, aCrossed>>
  BY DEF A!BeginPass, A!SyncCatalogue
<1>2. aPass' \subseteq [app : Apps, new : A!Statuses]
  <2>1. CASE A!BeginPass
    <3>1. \A v : A!Seen(v) \in A!Statuses
      BY DEF A!Seen, A!Statuses, A!Ready
    <3> QED BY <2>1, <3>1 DEF A!BeginPass, A!Statuses
  <2>2. CASE A!SyncCatalogue
    BY <2>2 DEF A!SyncCatalogue, AppsInv, AppTypes
  <2> QED BY <2>1, <2>2
<1>3. aLatest' \in A!Versions
  BY ServicesAssumption DEF A!BeginPass, A!SyncCatalogue, AppsInv, AppTypes, A!Versions
<1>4. aEvents' \in 0..AppEvents
  <2>1. aEvents' = aEvents \/ (aEvents < AppEvents /\ aEvents' = aEvents + 1)
    BY DEF A!BeginPass, A!SyncCatalogue
  <2> QED BY <2>1, AppTyped, ServicesAssumption
<1>5. AppTypes'
  BY <1>1, <1>2, <1>3, <1>4 DEF AppsInv, AppTypes
<1> QED BY <1>1, <1>5, SameAlready, AppRest

\* A status that an application's row is given.
LEMMA Restatused ==
    ASSUME AppsInv, NEW a \in Apps, A!Exists(a), NEW st \in A!Statuses
    PROVE  /\ [aRow[a] EXCEPT !.status = st] \in AppRows
           /\ SameRow([aRow[a] EXCEPT !.status = st], aRow[a])
  BY AppTyped DEF AppRows, SameRow, A!Statuses, A!Exists

LEMMA EndLifecycleInv == ASSUME AppsInv, NEW c \in aCalls, A!EndLifecycle(c) PROVE AppsInv'
<1>1. /\ UNCHANGED <<aReq, aOps, aPass, aCt, aAlloc, aLatest, aMuddled, aCrossed, aEvents>> /\ aCalls' \subseteq aCalls
      /\ aRow' = IF A!Exists(c.app) /\ c.seen # c.new THEN [aRow EXCEPT ![c.app].status = c.new] ELSE aRow
  BY DEF A!EndLifecycle
<1>2. c.app \in Apps /\ c.new \in A!Statuses
  <2>1. c \in [app : Apps, seen : A!Statuses, new : {"running", "stopped"}]
    BY DEF AppsInv, AppTypes
  <2> QED BY <2>1 DEF A!Statuses
<1>3. aRow' \in [Apps -> AppRows] /\ \A b \in Apps : SameRow(aRow'[b], aRow[b])
  <2>1. CASE A!Exists(c.app) /\ c.seen # c.new
    <3> DEFINE w == [aRow[c.app] EXCEPT !.status = c.new]
    <3>1. w \in AppRows /\ SameRow(w, aRow[c.app])
      BY <1>2, <2>1, Restatused
    <3>2. aRow' = [aRow EXCEPT ![c.app] = w]
      BY <1>1, <2>1
    <3> HIDE DEF w
    <3> QED BY <1>2, <3>1, <3>2, SameAlready, AppTyped
  <2>2. CASE ~(A!Exists(c.app) /\ c.seen # c.new)
    BY <1>1, <2>2, SameAlready, AppTyped
  <2> QED BY <2>1, <2>2
<1>4. AppTypes'
  BY <1>1, <1>3 DEF AppsInv, AppTypes
<1> QED BY <1>1, <1>3, <1>4, SameAlready, AppRest

LEMMA CommitPassInv == ASSUME AppsInv, A!CommitPass PROVE AppsInv'
<1>1. UNCHANGED <<aReq, aOps, aCalls, aCt, aAlloc, aLatest, aMuddled, aCrossed, aEvents>> /\ aPass' = {}
  BY DEF A!CommitPass
<1> DEFINE new(a) == (CHOOSE p \in aPass : p.app = a).new
<1>2. aRow' \in [Apps -> AppRows] /\ \A b \in Apps : SameRow(aRow'[b], aRow[b])
  <2>1. CASE \A p \in aPass : A!Exists(p.app)
    <3>1. aRow' = [a \in Apps |-> IF \E p \in aPass : p.app = a THEN [aRow[a] EXCEPT !.status = new(a)] ELSE aRow[a]]
      BY <2>1 DEF A!CommitPass
    <3>2. ASSUME NEW a \in Apps, \E p \in aPass : p.app = a
          PROVE  A!Exists(a) /\ new(a) \in A!Statuses
      <4>1. (CHOOSE p \in aPass : p.app = a) \in aPass
        BY <3>2
      <4> QED BY <2>1, <3>2, <4>1 DEF AppsInv, AppTypes
    <3> HIDE DEF new
    <3>3. \A a \in Apps : aRow'[a] \in AppRows /\ SameRow(aRow'[a], aRow[a])
      <4> SUFFICES ASSUME NEW a \in Apps PROVE aRow'[a] \in AppRows /\ SameRow(aRow'[a], aRow[a])
        OBVIOUS
      <4>1. CASE \E p \in aPass : p.app = a
        <5>1. aRow'[a] = [aRow[a] EXCEPT !.status = new(a)]
          BY <3>1, <4>1
        <5> QED BY <3>2, <4>1, <5>1, Restatused
      <4>2. CASE ~\E p \in aPass : p.app = a
        BY <3>1, <4>2, SameAlready, AppTyped
      <4> QED BY <4>1, <4>2
    <3> QED BY <3>1, <3>3
  <2>2. CASE ~\A p \in aPass : A!Exists(p.app)
    <3>1. aRow' = aRow
      BY <2>2 DEF A!CommitPass
    <3> QED BY <3>1, SameAlready, AppTyped
  <2> QED BY <2>1, <2>2
<1>3. AppTypes'
  BY <1>1, <1>2 DEF AppsInv, AppTypes
<1> QED BY <1>1, <1>2, <1>3, SameAlready, AppRest

\* One container changes, its state only or altogether.
LEMMA CtInv ==
    ASSUME AppsInv, NEW v \in A!Vmids, NEW c \in Containers, Gone(c) \/ SameCt(c, aCt[v]),
           aCt' = [aCt EXCEPT ![v] = c],
           aCalls' \subseteq [app : Apps, seen : A!Statuses, new : {"running", "stopped"}],
           aAlloc' \subseteq [vmid : A!Vmids, owner : Apps \union {A!Other}],
           aEvents' = aEvents \/ (aEvents < AppEvents /\ aEvents' = aEvents + 1),
           UNCHANGED <<aReq, aRow, aOps, aPass, aLatest, aMuddled, aCrossed>>
    PROVE  AppsInv'
<1>1. aEvents' \in 0..AppEvents
  BY AppTyped, ServicesAssumption
<1>2. aCt' \in [A!Vmids -> Containers] /\ \A u \in A!Vmids : Gone(aCt'[u]) \/ SameCt(aCt'[u], aCt[u])
  BY SameAlready, AppTyped
<1>3. AppTypes'
  BY <1>1, <1>2 DEF AppsInv, AppTypes
<1> QED BY <1>2, <1>3, SameAlready, AppRest

LEMMA CtRestated ==
    ASSUME AppsInv, NEW v \in A!Vmids, NEW st \in {"stopped", "running"},
           aCt[v].st \in {"stopped", "running"} \/ aCt[v].app = A!Other
    PROVE  [aCt[v] EXCEPT !.st = st] \in Containers /\ SameCt([aCt[v] EXCEPT !.st = st], aCt[v])
<1>1. aCt[v] \in Containers
  BY AppTyped
<1> QED BY <1>1 DEF Containers, A!CtStates, SameCt

LEMMA BeginLifecycleInv ==
    ASSUME AppsInv, NEW a \in Apps, NEW new \in {"running", "stopped"}, A!BeginLifecycle(a, new) PROVE AppsInv'
<1> DEFINE v == aRow[a].vmid
<1>1. v \in A!Vmids /\ aRow[a].status \in A!Statuses
  BY AppTyped DEF AppsInv, Placed, A!BeginLifecycle, A!Exists, AppRows
<1>2. /\ aCalls' = aCalls \union {[app |-> a, seen |-> aRow[a].status, new |-> new]}
      /\ aEvents < AppEvents /\ aEvents' = aEvents + 1
      /\ UNCHANGED <<aReq, aRow, aOps, aPass, aAlloc, aLatest, aMuddled, aCrossed>>
  BY DEF A!BeginLifecycle
<1>3. aCalls' \subseteq [app : Apps, seen : A!Statuses, new : {"running", "stopped"}]
  BY <1>1, <1>2 DEF AppsInv, AppTypes
<1>4. aAlloc' \subseteq [vmid : A!Vmids, owner : Apps \union {A!Other}]
  BY <1>2 DEF AppsInv, AppTypes
<1>5. PICK c \in Containers : SameCt(c, aCt[v]) /\ aCt' = [aCt EXCEPT ![v] = c]
  <2>1. CASE aCt' = aCt
    BY <1>1, <2>1, SameAlready, AppTyped
  <2>2. CASE A!Ready(v) /\ aCt' = [aCt EXCEPT ![v].st = new]
    <3> DEFINE c == [aCt[v] EXCEPT !.st = new]
    <3>1. c \in Containers /\ SameCt(c, aCt[v])
      BY <1>1, <2>2, CtRestated DEF A!Ready
    <3>2. aCt' = [aCt EXCEPT ![v] = c]
      BY <2>2
    <3> HIDE DEF c
    <3> QED BY <3>1, <3>2
  <2> QED BY <2>1, <2>2 DEF A!BeginLifecycle, A!Switched
<1> HIDE DEF v
<1> QED BY <1>1, <1>2, <1>3, <1>4, <1>5, CtInv

LEMMA AppOutsideInv ==
    ASSUME AppsInv, NEW v \in A!Vmids, A!CreationEnds(v) \/ A!OtherDeploys(v) \/ A!RemovedOutside(v) PROVE AppsInv'
<1>1. /\ UNCHANGED <<aReq, aRow, aOps, aCalls, aPass, aLatest, aMuddled, aCrossed>>
      /\ aEvents' = aEvents \/ (aEvents < AppEvents /\ aEvents' = aEvents + 1)
  BY DEF A!CreationEnds, A!OtherDeploys, A!RemovedOutside
<1>2. aAlloc' \subseteq [vmid : A!Vmids, owner : Apps \union {A!Other}]
  BY DEF A!CreationEnds, A!OtherDeploys, A!RemovedOutside, AppsInv, AppTypes
<1>3. aCalls' \subseteq [app : Apps, seen : A!Statuses, new : {"running", "stopped"}]
  BY <1>1 DEF AppsInv, AppTypes
<1>4. PICK c \in Containers : (Gone(c) \/ SameCt(c, aCt[v])) /\ aCt' = [aCt EXCEPT ![v] = c]
  <2>1. CASE aCt' = [aCt EXCEPT ![v] = A!NoCt]
    BY <2>1, NoCtIs DEF Gone
  <2>2. CASE aCt[v].st = "creating" /\ aCt' = [aCt EXCEPT ![v].st = "stopped"]
    <3> DEFINE c == [aCt[v] EXCEPT !.st = "stopped"]
    <3>1. c \in Containers /\ SameCt(c, aCt[v])
      BY <2>2, CtRestated DEF AppsInv, SnapshotsNamed
    <3>2. aCt' = [aCt EXCEPT ![v] = c]
      BY <2>2
    <3> HIDE DEF c
    <3> QED BY <3>1, <3>2
  <2>3. CASE aCt' = [aCt EXCEPT ![v] = [A!NoCt EXCEPT !.st = "running"]]
    <3> DEFINE c == [A!NoCt EXCEPT !.st = "running"]
    <3>1. c \in Containers /\ Gone(c)
      BY NoCtIs DEF Containers, A!CtStates, Gone
    <3> HIDE DEF c
    <3> QED BY <2>3, <3>1 DEF c
  <2> QED BY <2>1, <2>2, <2>3 DEF A!CreationEnds, A!OtherDeploys, A!RemovedOutside
<1> QED BY <1>1, <1>2, <1>3, <1>4, CtInv

LEMMA AppsInit == A!Init => AppsInv
<1> SUFFICES ASSUME A!Init PROVE AppsInv
  OBVIOUS
<1>1. /\ aReq = [a \in Apps |-> A!NoRequest] /\ aRow = [a \in Apps |-> A!NoRow] /\ aOps = <<>>
      /\ aCalls = {} /\ aPass = {} /\ aCt = [v \in A!Vmids |-> A!NoCt] /\ aAlloc = {} /\ aLatest = 1
      /\ aMuddled = {} /\ aCrossed = {} /\ aEvents = 0 /\ DOMAIN aOps = {}
  BY DEF A!Init
<1>2. /\ A!NoRow \in AppRows /\ A!NoRow.status = "none" /\ A!NoRow.snap = 0
      /\ A!NoRequest \in AppRequests /\ A!NoRequest.pc = "idle"
  BY ServicesAssumption DEF A!NoRow, AppRows, A!None, A!NoRequest, AppRequests
<1>3. AppTypes
  <2>1. aOps \in Seq(OpRecords) /\ Len(aOps) <= AppOps
    BY <1>1, ServicesAssumption
  <2>2. aLatest \in A!Versions /\ aEvents \in 0..AppEvents
    BY <1>1, ServicesAssumption DEF A!Versions
  <2> QED BY <1>1, <1>2, <2>1, <2>2, NoCtIs DEF AppTypes
<1>4. \A a \in Apps : ~A!Exists(a)
  BY <1>1, <1>2 DEF A!Exists
<1>5. Placed /\ InTurn /\ TornDown
  BY <1>1, <1>2, <1>4 DEF Placed, InTurn, TornDown
<1>6. Apart /\ A!ContainerHasRow /\ SnapshotsNamed
  BY <1>1, <1>2, <1>4, NoCtIs DEF Apart, A!ContainerHasRow, SnapshotsNamed, A!None
<1>7. SnapshotsThere /\ VersionsSound
  BY <1>1, <1>4 DEF SnapshotsThere, VersionsSound, Clean
<1> QED BY <1>3, <1>5, <1>6, <1>7 DEF AppsInv

LEMMA AppsStep ==
    ASSUME AppsInv, [Next]_vars
    PROVE  AppsInv'
<1>1. CASE UNCHANGED appsVars
  BY <1>1 DEF appsVars, AppsInv, AppTypes, Placed, InTurn, OpOf, Apart, TornDown, SnapshotsNamed, SnapshotsThere,
              Succeeds, VersionsSound, Clean, Brings, A!Exists, A!Live, A!Beside, A!ContainerHasRow, A!Own, A!Ready,
              A!LastOf
<1>2. CASE A!Next
  <2>1. ASSUME NEW o, A!JobStep(o) PROVE AppsInv'
    BY <2>1, StartJobInv, ProbeInv, CreateCtInv, AwaitInv, DeployInv, RecordsInv, SnapshotInv, ComposeInv, PruneInv,
       RestoreInv, TeardownInv, ReleaseInv, EraseInv, FinishOpInv
    DEF A!JobStep
  <2>2. ASSUME NEW a \in Apps, \/ A!PickVmid(a) \/ A!Allocate(a) \/ A!Insert(a) \/ A!Retry(a) \/ A!Update(a)
                               \/ A!Rollback(a) \/ A!DeleteApp(a)
        PROVE  AppsInv'
    BY <2>2, AppRequestInv, InsertInv, RowRequests
  <2> QED BY <1>2, <2>1, <2>2, BeginLifecycleInv, EndLifecycleInv, AppQuietInv, CommitPassInv, AppOutsideInv, CrashInv
          DEF A!Next
<1> QED BY <1>1, <1>2 DEF Next, vars, AppStep, DeploymentStep, MoveStep, BackupJobStep, SocketStep,
                          AccountStep, MonitorStep

\* What the row says of the version is so after an operation that succeeded, the
\* snapshot it names is on the container it was taken in, and no container that
\* the engine made is without the row that names it: for an application whose
\* operations came in turn and at a vmid nobody else had.
THEOREM AppsHold == Spec => []AppsTrue
<1>1. Init => AppsInv
  BY AppsInit DEF Init
<1>2. AppsInv /\ [Next]_vars => AppsInv'
  BY AppsStep
<1>3. AppsInv => AppsTrue
  <2> SUFFICES ASSUME AppsInv PROVE A!VersionTrue /\ A!SnapshotKept /\ A!ContainerHasRow
    BY DEF AppsTrue
  <2>1. \A a \in Apps : A!Undisturbed(a) => a \in Clean /\ a \notin aCrossed /\ A!Exists(a) /\ A!Own(a)
    BY DEF A!Undisturbed, Clean
  <2>2. A!VersionTrue
    <3>1. \A a \in Clean : A!Exists(a) /\ A!Own(a) => \A o \in A!LastOf(a) : Brings(a, o)
      BY DEF AppsInv, VersionsSound
    <3> QED BY <2>1, <3>1 DEF A!VersionTrue, Brings
  <2>3. A!SnapshotKept
    BY <2>1 DEF A!SnapshotKept, A!Own, AppsInv, SnapshotsThere
  <2> QED BY <2>2, <2>3 DEF AppsInv
<1> QED BY <1>1, <1>2, <1>3, PTL DEF Spec

\* An application's address goes only when its container is not there.
LEMMA ReleasedAfterCt ==
    ASSUME AppsInv, A!Next, NEW l \in aAlloc, l.owner # A!Other, l.owner \notin aCrossed, l \notin aAlloc'
    PROVE  aCt[l.vmid].owner # l.owner
<1>1. PICK o \in DOMAIN aOps : /\ aOps[o].type = "delete" /\ aOps[o].pc = "release" /\ l.vmid = aOps[o].vmid
  <2>1. ASSUME NEW o, A!JobStep(o) PROVE A!Release(o)
    BY <2>1 DEF A!JobStep, A!StartJob, A!Probe, A!CreateCt, A!Await, A!Deploy, A!RecordInstall, A!Snapshot, A!Compose,
                A!RecordUpdate, A!Prune, A!Restore, A!RecordRollback, A!Teardown, A!Erase, A!RecordDelete, A!FinishOp
  <2>2. PICK o : A!Release(o)
    BY <2>1 DEF A!Next, A!PickVmid, A!Allocate, A!Insert, A!Retry, A!Update, A!Rollback, A!DeleteApp, A!BeginLifecycle,
                A!EndLifecycle, A!BeginPass, A!CommitPass, A!SyncCatalogue, A!CreationEnds, A!OtherDeploys,
                A!RemovedOutside, A!Crash
  <2> QED BY <2>2 DEF A!Release, A!Job
<1>2. l.vmid \in A!Vmids /\ l.owner \in Apps
  BY DEF AppsInv, AppTypes
<1> SUFFICES ASSUME aCt[l.vmid].owner = l.owner PROVE FALSE
  OBVIOUS
<1>3. A!Exists(l.owner) /\ aRow[l.owner].vmid = l.vmid
  BY <1>2 DEF AppsInv, A!ContainerHasRow
<1>4. CASE aOps[o].app = l.owner
  BY <1>1, <1>2, <1>4 DEF AppsInv, TornDown, OpOf
<1>5. CASE aOps[o].app # l.owner
  <2>1. aOps[o].app \in A!Beside(l.owner, aRow[l.owner].vmid)
    BY <1>1, <1>3, <1>5, OpIs DEF A!Beside, A!Live
  <2> QED BY <1>2, <1>3, <2>1 DEF AppsInv, Apart
<1> QED BY <1>4, <1>5

\* Who is there keeps the address: an application's container, a deployed guest
\* that nobody contested, and a guest that moves lose theirs only when they are
\* gone themselves.
THEOREM AddressesKeptHolds == Spec => AddressesKept
<1> DEFINE AppsKeep ==
              \A l \in aAlloc : l.owner # A!Other /\ l.owner \notin aCrossed /\ l \notin aAlloc' =>
                 aCt[l.vmid].owner # l.owner
           DeployedKeep ==
              \A l \in dAlloc : l.by \in Deps \ dContested /\ l \notin dAlloc' =>
                 /\ dTask[l.by].pc # "create"
                 /\ dGuest[l.vmid].by = l.by => ~D!Present(l.vmid)
           MovedKeep == \A k \in gAlloc \ gAlloc' : gGuest'[k].st = "none" \/ gGuest'[k].by \in gDisturbed
<1>1. Init => AppsInv /\ DeploysInv /\ MovesInv
  BY AppsInit, DeploysInit, MovesInit DEF Init
<1>2. AppsInv /\ DeploysInv /\ MovesInv /\ [Next]_vars => AppsInv' /\ DeploysInv' /\ MovesInv'
  BY AppsStep, DeploysStep, MovesStep
<1>3. AppsInv /\ [Next]_vars => [AppsKeep]_(A!vars)
  <2> SUFFICES ASSUME AppsInv, A!Next PROVE AppsKeep
    BY DEF Next, vars, AppStep, DeploymentStep, MoveStep, BackupJobStep, SocketStep, AccountStep,
           MonitorStep, appsVars, A!vars
  <2> QED BY ReleasedAfterCt
<1>4. DeploysInv /\ [Next]_vars => [DeployedKeep]_(D!vars)
  <2> SUFFICES ASSUME DeploysInv, D!Next PROVE DeployedKeep
    BY DEF Next, vars, AppStep, DeploymentStep, MoveStep, BackupJobStep, SocketStep, AccountStep,
           MonitorStep, depsVars, D!vars
  <2> QED BY LeaseAfterGuest
<1>5. MovesInv /\ [Next]_vars => [MovedKeep]_(G!vars)
  <2> SUFFICES ASSUME MovesInv, G!Next PROVE MovedKeep
    BY DEF Next, vars, AppStep, DeploymentStep, MoveStep, BackupJobStep, SocketStep, AccountStep,
           MonitorStep, movesVars, G!vars
  <2> QED BY AddressAfterGuest
<1> QED BY <1>1, <1>2, <1>3, <1>4, <1>5, PTL DEF Spec, AddressesKept, A!AddressHeld, D!AddressStays, G!AddressGoesLast

-----------------------------------------------------------------------------
(* The monitor, and the types of all.                                      *)
Checks == [pc : M!Pcs, ok : BOOLEAN, was : BOOLEAN, row : BOOLEAN]
MonitorInv == M!TypeOK /\ mAvail \in Checks /\ mVmjob \in Checks

LEMMA MonitorInit == M!Init => MonitorInv
<1> SUFFICES ASSUME M!Init PROVE MonitorInv
  OBVIOUS
<1>1. M!Idle \in Checks
  BY DEF M!Idle, Checks, M!Pcs
<1>2. mFlips \in 0..MaxFlips
  BY ServicesAssumption DEF M!Init
<1> QED BY <1>1, <1>2 DEF M!Init, MonitorInv, M!TypeOK, Checks

LEMMA MonitorSteps ==
    ASSUME MonitorInv, [Next]_vars
    PROVE  MonitorInv'
<1>1. CASE UNCHANGED monitorVars
  BY <1>1 DEF monitorVars, MonitorInv, M!TypeOK
<1>2. CASE M!Next
  <2>1. /\ M!Idle \in Checks
        /\ \A pc \in M!Pcs, ok, row \in BOOLEAN : [M!Idle EXCEPT !.pc = pc, !.ok = ok, !.row = row] \in Checks
        /\ \A pc \in M!Pcs, ok \in BOOLEAN : [M!Idle EXCEPT !.pc = pc, !.ok = ok] \in Checks
    BY DEF M!Idle, Checks, M!Pcs
  <2>2. \A c \in Checks, pc \in M!Pcs, b \in BOOLEAN :
           /\ [c EXCEPT !.pc = pc] \in Checks
           /\ [c EXCEPT !.pc = pc, !.was = b] \in Checks
           /\ [c EXCEPT !.pc = pc, !.ok = b] \in Checks
    BY DEF Checks
  <2>3. {"idle", "asked", "recovered", "alert", "know", "online", "offline"} \subseteq M!Pcs
    BY DEF M!Pcs
  <2>4. /\ mUp \in BOOLEAN /\ mOnline \in BOOLEAN /\ mExcused \in BOOLEAN /\ mFlips \in 0..MaxFlips
        /\ mKnown \in {"up", "down", "unknown"} /\ mAlerted \in {"none", "recent", "old"}
        /\ mTold \in {"nothing", "up", "down"} /\ mAvail \in Checks /\ mVmjob \in Checks
    BY DEF MonitorInv, M!TypeOK
  <2>5. mAvail' \in Checks /\ mVmjob' \in Checks
    <3>1. CASE M!AskAvailable
      BY <3>1, <2>1, <2>3, <2>4 DEF M!AskAvailable
    <3>2. CASE M!FoundUp
      BY <3>2, <2>2, <2>3, <2>4 DEF M!FoundUp
    <3>3. CASE M!TellRecovered
      BY <3>3, <2>2, <2>3, <2>4 DEF M!TellRecovered
    <3>4. CASE M!FoundDown
      BY <3>4, <2>2, <2>3, <2>4 DEF M!FoundDown
    <3>5. CASE M!TellDown
      BY <3>5, <2>2, <2>3, <2>4 DEF M!TellDown
    <3>6. CASE M!Know
      BY <3>6, <2>1, <2>4 DEF M!Know
    <3>7. CASE M!AskVms
      BY <3>7, <2>1, <2>3, <2>4 DEF M!AskVms
    <3>8. CASE M!NotifyOnline
      BY <3>8, <2>2, <2>3, <2>4 DEF M!NotifyOnline
    <3>9. CASE M!TellOnline
      BY <3>9, <2>1, <2>2, <2>3, <2>4 DEF M!TellOnline
    <3>10. CASE M!NotifyOffline
      BY <3>10, <2>1, <2>2, <2>3, <2>4 DEF M!NotifyOffline
    <3>11. CASE M!TellOffline
      BY <3>11, <2>1, <2>4 DEF M!TellOffline
    <3>12. CASE M!TenMinutes \/ M!Flip \/ M!Restart
      BY <3>12, <2>1, <2>4 DEF M!TenMinutes, M!Flip, M!Restart
    <3> QED BY <1>2, <3>1, <3>2, <3>3, <3>4, <3>5, <3>6, <3>7, <3>8, <3>9, <3>10, <3>11, <3>12
            DEF M!Next, M!AvailabilityStep, M!VmStatusStep
  <2>6. mFlips' = mFlips \/ (mFlips < MaxFlips /\ mFlips' = mFlips + 1)
    BY <1>2
    DEF M!Next, M!AvailabilityStep, M!VmStatusStep, M!AskAvailable, M!FoundUp, M!TellRecovered, M!FoundDown,
        M!TellDown, M!Know, M!AskVms, M!NotifyOnline, M!TellOnline, M!NotifyOffline, M!TellOffline, M!TenMinutes,
        M!Flip, M!Restart
  <2>7. mFlips' \in 0..MaxFlips
    BY <2>4, <2>6, ServicesAssumption
  <2>8. /\ mUp' \in BOOLEAN /\ mOnline' \in BOOLEAN /\ mExcused' \in BOOLEAN
        /\ mKnown' \in {"up", "down", "unknown"} /\ mAlerted' \in {"none", "recent", "old"}
        /\ mTold' \in {"nothing", "up", "down"}
    BY <1>2, <2>4
    DEF M!Next, M!AvailabilityStep, M!VmStatusStep, M!AskAvailable, M!FoundUp, M!TellRecovered, M!FoundDown,
        M!TellDown, M!Know, M!AskVms, M!NotifyOnline, M!TellOnline, M!NotifyOffline, M!TellOffline, M!TenMinutes,
        M!Flip, M!Restart, M!Crossing
  <2>9. \A c \in Checks : c.pc \in M!Pcs /\ c.ok \in BOOLEAN /\ c.was \in BOOLEAN /\ c.row \in BOOLEAN
    BY DEF Checks
  <2> QED BY <2>5, <2>7, <2>8, <2>9 DEF MonitorInv, M!TypeOK
<1> QED BY <1>1, <1>2 DEF Next, vars, AppStep, DeploymentStep, MoveStep, BackupJobStep, SocketStep,
                          AccountStep, MonitorStep

\* Every part of the composition keeps to its types.
LEMMA AppsTyped == AppsInv => A!TypeOK
<1> SUFFICES ASSUME AppsInv PROVE A!TypeOK
  OBVIOUS
<1>1. \A v \in A!Vmids : aCt[v].st \in A!CtStates /\ aCt[v].owner \in Apps \union {A!Other}
  BY AppTyped DEF Containers
<1> QED BY <1>1 DEF AppsInv, AppTypes, A!TypeOK, AppRequests, AppRows

LEMMA DeploysTyped == DeploysInv => D!TypeOK
  BY DEF DeploysInv, DeployTypes, D!TypeOK, DeployRecords, DeployPcs, InstanceRecords, CacheRows, Leases

LEMMA MovesTyped == MovesInv => G!TypeOK
  BY DEF MovesInv, MoveTypes, G!TypeOK, MoveRecords, GuestRecords, GuestRows

LEMMA BackupsTyped == BackupsInv => B!TypeOK
  BY DEF BackupsInv, BackupTypes, B!TypeOK, JobRows, RequestRecords, RunRecords

LEMMA SocketsTyped == SocketsInv => W!TypeOK
  BY DEF SocketsInv, SocketTypes, W!TypeOK, SenderRecords

LEMMA AccountsTyped == AccountsInv => L!TypeOK
  BY DEF AccountsInv, AccountTypes, L!TypeOK, LoginPcs, ResetPcs, UserRows, Locks

\* The type invariant of the composition.
THEOREM TypesHold == Spec => []TypeOK
<1> DEFINE All == /\ part \in Parts
                  /\ AppsInv /\ DeploysInv /\ MovesInv /\ BackupsInv /\ SocketsInv /\ AccountsInv /\ MonitorInv
<1>1. Init => All
  BY AppsInit, DeploysInit, MovesInit, BackupsInit, SocketsInit, AccountsInit, MonitorInit DEF Init
<1>2. All /\ [Next]_vars => All'
  <2>1. [Next]_vars => part' = part
    BY DEF Next, vars, AppStep, DeploymentStep, MoveStep, BackupJobStep, SocketStep, AccountStep, MonitorStep
  <2> QED BY <2>1, AppsStep, DeploysStep, MovesStep, BackupsStep, SocketsStep, AccountsStep, MonitorSteps
<1>3. All => TypeOK
  <2> SUFFICES ASSUME All PROVE TypeOK
    OBVIOUS
  <2>1. part \in {"apps", "deployments", "moves", "backups", "sockets", "accounts", "monitor"}
    BY ServicesAssumption
  <2>2. A!TypeOK /\ D!TypeOK /\ G!TypeOK /\ B!TypeOK /\ W!TypeOK /\ L!TypeOK /\ M!TypeOK
    BY AppsTyped, DeploysTyped, MovesTyped, BackupsTyped, SocketsTyped, AccountsTyped DEF MonitorInv
  <2> QED BY <2>1, <2>2 DEF TypeOK
<1> QED BY <1>1, <1>2, <1>3, PTL DEF Spec

=============================================================================
