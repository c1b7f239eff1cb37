-------------------------- MODULE ResourcesProofs --------------------------
(***************************************************************************)
(* Proofs about what the panel looks after for others: firewall rules, the *)
(* hardware of guests, the settings of nodes, templates, and networks.  As *)
(* in PanelProofs, each for any number of requests at once, with the       *)
(* variables named as in the part; and, of every part, its type invariant. *)
(***************************************************************************)
EXTENDS PanelProofs, WellFoundedInduction

-----------------------------------------------------------------------------
\* A step is one of the part the behaviour is about.
LEMMA EachOfItsOwn ==
    ASSUME [Next]_vars
    PROVE  /\ part' = part
           /\ part = "firewall" => [F!Next]_(F!vars)
           /\ part = "hardware" => [H!Next]_(H!vars)
           /\ part = "templates" => [T!Next]_(T!vars)
           /\ part = "node" => [D!Next]_(D!vars)
           /\ part = "networks" => [W!Next]_(W!vars)
<1>1. CASE UNCHANGED vars
  BY <1>1 DEF vars, F!vars, H!vars, T!vars, D!vars, W!vars
<1>2. CASE Next
  BY <1>2 DEF Next, ConnectionStep, UserStep, GateStep, HardwareStep, StartStep, UpgradeStep,
              ClusterStep, RuleStep, NetworkStep, SettingStep, ImageStep
<1>3. QED
  BY <1>1, <1>2

-----------------------------------------------------------------------------
(* The lists of the firewall.                                              *)
fItems == v1
fMade == v2
fReq == v3
fHits == v4
fCalls == v5
USE DEF fItems, fMade, fReq, fHits, fCalls

RuleContents == Seq(Nat) \union [1..NNames -> Nat]
RuleRequests == [pc : {"idle", "viewing", "sent"}, scope : F!Scopes, seen : RuleContents, op : F!RuleOps,
            key : Nat, to : Nat, digest : BOOLEAN, overtaken : BOOLEAN]

\* Lists are sequences, tables functions of the names.
RulesTyped ==
    /\ fItems \in [F!Scopes -> RuleContents] /\ fMade \in Nat
    /\ \A s \in F!Lists : fItems[s] \in Seq(Nat)
    /\ \A s \in F!Tables : fItems[s] \in [1..NNames -> Nat]
    /\ fReq \in [Requests -> RuleRequests]

\* Who looks at a list that was not put in another order since sees what is
\* there, or nothing; what was sent points into what was seen.
SeenStands ==
    \A q \in Requests :
        /\ fReq[q].pc # "idle" /\ ~fReq[q].overtaken => fReq[q].seen \in {fItems[fReq[q].scope], <<>>}
        /\ fReq[q].pc = "sent" /\ fReq[q].op # "add" => fReq[q].key \in DOMAIN fReq[q].seen

\* The inductive invariant.
RulesInv == RulesTyped /\ SeenStands /\ F!RightOneReached

LEMMA RulesInit == F!Init => RulesInv
<1> SUFFICES ASSUME F!Init PROVE RulesInv
  OBVIOUS
<1>1. <<>> \in Seq(Nat)
  BY EmptySeq
<1>2. RulesTyped
  BY <1>1 DEF F!Init, RulesTyped, RuleRequests, RuleContents, F!RuleOps, F!NoRequest, F!Scopes, F!Lists, F!Tables, F!None
<1>3. SeenStands /\ F!RightOneReached
  BY DEF F!Init, SeenStands, F!RightOneReached, F!NoRequest
<1>4. QED
  BY <1>2, <1>3 DEF RulesInv

LEMMA RulesStay == RulesInv /\ UNCHANGED F!vars => RulesInv'
  BY DEF RulesInv, F!vars, RulesTyped, SeenStands, F!RightOneReached

LEMMA ReadKeeps ==
    ASSUME RulesInv, NEW q \in Requests, NEW s \in F!Scopes, F!Read(q, s)
    PROVE  RulesInv'
<1>1. PICK seen \in {fItems[s], <<>>} :
        fReq' = [fReq EXCEPT ![q] = [F!NoRequest EXCEPT !.pc = "viewing", !.scope = s, !.seen = seen]]
  BY DEF F!Read
<1>2. fItems' = fItems /\ fHits' = fHits /\ fMade' = fMade
  BY DEF F!Read, F!Proxmox
<1>3. RulesTyped'
  <2>1. <<>> \in RuleContents
    BY EmptySeq DEF RuleContents
  <2>2. [F!NoRequest EXCEPT !.pc = "viewing", !.scope = s, !.seen = seen] \in RuleRequests
    BY <2>1 DEF RulesInv, RulesTyped, F!NoRequest, RuleRequests, F!RuleOps
  <2>3. QED
    BY <1>1, <1>2, <2>2 DEF RulesInv, RulesTyped
<1>4. SeenStands'
  <2>1. fReq'[q] = [F!NoRequest EXCEPT !.pc = "viewing", !.scope = s, !.seen = seen]
    BY <1>1 DEF RulesInv, RulesTyped
  <2>2. \A p \in Requests \ {q} : fReq'[p] = fReq[p]
    BY <1>1 DEF RulesInv, RulesTyped
  <2>3. fReq'[q].pc = "viewing" /\ fReq'[q].scope = s /\ fReq'[q].seen = seen
    BY <2>1 DEF F!NoRequest
  <2>4. fItems'[s] = fItems[s]
    BY <1>2
  <2>5. QED
    BY <2>2, <2>3, <2>4, <1>2 DEF RulesInv, SeenStands
<1>5. QED
  BY <1>2, <1>3, <1>4 DEF RulesInv, F!RightOneReached

LEMMA SendKeeps ==
    ASSUME RulesInv, NEW q \in Requests, NEW s, NEW ops \in SUBSET F!RuleOps, F!Send(q, s, ops)
    PROVE  RulesInv'
<1>1. PICK op \in ops, key \in 1..MaxItems, to \in 1..MaxItems, digest \in BOOLEAN :
        /\ op = "add" /\ s \in F!Lists => key = 1
        /\ op # "add" => key \in DOMAIN fReq[q].seen /\ fReq[q].seen[key] # F!None
        /\ op # "move" => to = 1
        /\ digest => op \in {"edit", "move"}
        /\ fReq' = [fReq EXCEPT ![q].pc = "sent", ![q].op = op, ![q].key = key, ![q].to = to,
                              ![q].digest = digest]
  BY DEF F!Send
<1>2. fItems' = fItems /\ fHits' = fHits /\ fMade' = fMade /\ fReq[q].pc = "viewing"
  BY DEF F!Send, F!Proxmox, F!At
<1>3. fReq'[q] = [fReq[q] EXCEPT !.pc = "sent", !.op = op, !.key = key, !.to = to, !.digest = digest]
  BY <1>1 DEF RulesInv, RulesTyped
<1>4. \A p \in Requests \ {q} : fReq'[p] = fReq[p]
  BY <1>1 DEF RulesInv, RulesTyped
<1>5. RulesTyped'
  <2>1. key \in Nat /\ to \in Nat /\ op \in F!RuleOps /\ fReq[q] \in RuleRequests
    BY DEF RulesInv, RulesTyped
  <2>2. fReq'[q] \in RuleRequests
    BY <1>3, <2>1 DEF RuleRequests
  <2>3. fReq' \in [Requests -> RuleRequests]
    BY <1>1, <1>3, <1>4, <2>2 DEF RulesInv, RulesTyped
  <2>4. QED
    BY <1>2, <2>3 DEF RulesInv, RulesTyped
<1>6. SeenStands'
  BY <1>1, <1>2, <1>3, <1>4 DEF RulesInv, RulesTyped, RuleRequests, SeenStands
<1>7. QED
  BY <1>2, <1>5, <1>6 DEF RulesInv, F!RightOneReached

LEMMA GiveUpKeeps ==
    ASSUME RulesInv, NEW q \in Requests, F!Unavailable(q) \/ F!Fails(q)
    PROVE  RulesInv'
<1>1. /\ fReq' = [fReq EXCEPT ![q].pc = "viewing"] /\ fReq[q].pc = "sent"
      /\ fItems' = fItems /\ fHits' = fHits /\ fMade' = fMade
  BY DEF F!Unavailable, F!Fails, F!Proxmox, F!At
<1>2. fReq'[q] = [fReq[q] EXCEPT !.pc = "viewing"] /\ \A p \in Requests \ {q} : fReq'[p] = fReq[p]
  BY <1>1 DEF RulesInv, RulesTyped
<1>3. RulesTyped'
  <2>1. fReq[q] \in RuleRequests
    BY DEF RulesInv, RulesTyped
  <2>2. fReq'[q] \in RuleRequests
    BY <1>2, <2>1 DEF RuleRequests
  <2>3. fReq' \in [Requests -> RuleRequests]
    BY <1>1, <1>2, <2>2 DEF RulesInv, RulesTyped
  <2>4. QED
    BY <1>1, <2>3 DEF RulesInv, RulesTyped
<1>4. SeenStands'
  BY <1>1, <1>2 DEF RulesInv, RulesTyped, RuleRequests, SeenStands
<1>5. QED
  BY <1>1, <1>3, <1>4 DEF RulesInv, F!RightOneReached

\* What is left of a list of rules is a list of rules, of those there were and
\* the one that is made.
LEMMA AfterTyped ==
    ASSUME NEW s \in F!Scopes, NEW r \in RuleRequests, F!Accepts(s, r),
           NEW Rules, r.op = "add" => fMade + 1 \in Rules
    PROVE  /\ s \in F!Lists /\ fItems[s] \in Seq(Rules) => F!After(s, r) \in Seq(Rules)
           /\ s \in F!Tables /\ 0 \in Rules /\ fItems[s] \in [1..NNames -> Rules]
              => F!After(s, r) \in [1..NNames -> Rules]
<1> DEFINE c == fItems[s]
<1>1. CASE s \in F!Tables /\ 0 \in Rules /\ c \in [1..NNames -> Rules]
  <2>1. c \in [1..NNames -> Rules] /\ s \notin F!Lists
    BY <1>1 DEF F!Tables, F!Lists
  <2>2. r.op # "edit" /\ r.op # "add" /\ r.op # "remove" => r.op = "move" /\ r.key \in DOMAIN c
    BY DEF F!Accepts, F!Reached, RuleRequests, F!RuleOps
  <2>3. QED
    BY <1>1, <2>1, <2>2 DEF F!After, F!None, RuleRequests, F!RuleOps
<1>2. CASE s \in F!Lists /\ c \in Seq(Rules)
  <2>1. c \in Seq(Rules) /\ s \notin F!Tables
    BY <1>2 DEF F!Tables, F!Lists
  <2>2. \A x \in Rules : <<x>> \in Seq(Rules)
    OBVIOUS
  <2>3. Len(c) \in Nat /\ DOMAIN c = 1..Len(c) /\ \A i \in 1..Len(c) : c[i] \in Rules
    BY <2>1, LenProperties, ElementOfSeq
  <2>4. ASSUME NEW i \in 1..Len(c)
        PROVE  F!RemoveAt(c, i) \in Seq(Rules)
    <3>1. SubSeq(c, 1, i - 1) \in Seq(Rules) /\ SubSeq(c, i + 1, Len(c)) \in Seq(Rules)
      BY <2>3, SubSeqProperties
    <3>2. QED
      BY <3>1, ConcatProperties DEF F!RemoveAt
  <2>5. ASSUME NEW i \in 1..Len(c), NEW j \in 1..Len(c)
        PROVE  F!Reordered(c, i, j) \in Seq(Rules)
    <3> DEFINE d == F!RemoveAt(c, i)
           a == SubSeq(c, 1, i - 1)
           b == SubSeq(c, i + 1, Len(c))
    <3>1. Len(d) = Len(c) - 1 /\ d \in Seq(Rules)
      <4>1. a \in Seq(Rules) /\ Len(a) = i - 1 /\ b \in Seq(Rules) /\ Len(b) = Len(c) - i
        BY <2>3, SubSeqProperties
      <4>2. d = a \o b
        BY DEF F!RemoveAt
      <4> HIDE DEF a, b, d
      <4>3. a \o b \in Seq(Rules) /\ Len(a \o b) = Len(a) + Len(b)
        BY <4>1, ConcatProperties
      <4>4. QED
        BY <4>1, <4>2, <4>3, <2>3
    <3>2. \A k \in 1..Len(d) : d[k] \in Rules
      BY <3>1, ElementOfSeq
    <3> HIDE DEF d
    <3>3. SubSeq(d, 1, j - 1) \in Seq(Rules)
      <4>1. \A k \in 1..(j - 1) : d[k] \in Rules
        BY <2>3, <3>1, <3>2
      <4>2. QED
        BY <2>3, <4>1, SubSeqProperties
    <3>4. SubSeq(d, j, Len(d)) \in Seq(Rules)
      <4>1. \A k \in j..Len(d) : d[k] \in Rules
        BY <2>3, <3>1, <3>2
      <4>2. QED
        BY <2>3, <3>1, <4>1, SubSeqProperties
    <3>5. <<c[i]>> \in Seq(Rules)
      BY <2>2, <2>3
    <3>6. (SubSeq(d, 1, j - 1) \o <<c[i]>>) \o SubSeq(d, j, Len(d)) \in Seq(Rules)
      BY <3>3, <3>4, <3>5, ConcatProperties
    <3>7. QED
      BY <3>6 DEF F!Reordered, F!InsertAt, d
  <2>6. CASE r.op = "edit"
    BY <2>1, <2>6 DEF F!After
  <2>7. CASE r.op = "add"
    <3>1. <<fMade + 1>> \o c \in Seq(Rules)
      BY <2>1, <2>2, <2>7, ConcatProperties
    <3>2. QED
      BY <1>2, <2>1, <2>7, <3>1 DEF F!After
  <2>8. CASE r.op = "remove"
    BY <1>2, <2>1, <2>3, <2>4, <2>8 DEF F!After, F!Accepts, F!Reached
  <2>9. CASE r.op = "move"
    BY <1>2, <2>1, <2>3, <2>5, <2>9 DEF F!After, F!Accepts, F!Reached
  <2>10. QED
    BY <2>1, <2>6, <2>7, <2>8, <2>9 DEF RuleRequests, F!RuleOps
<1>3. QED
  BY <1>1, <1>2

\* Proxmox carries out a call about the list the request is of.
LEMMA ChangeKeeps ==
    ASSUME RulesInv, NEW q \in Requests, NEW s \in F!Scopes, fReq[q].pc = "sent", fReq[q].scope = s, F!Change(q, s)
    PROVE  RulesInv'
<1> DEFINE r == fReq[q]
           Old(p) == r.op # "edit" /\ fReq[p].scope = r.scope /\ fReq[p].pc # "idle"
<1>1. fReq' = [p \in Requests |->
                [fReq[p] EXCEPT !.pc = IF p = q THEN "viewing" ELSE @, !.overtaken = @ \/ Old(p)]]
  BY DEF F!Change, F!At
<1>2. fItems' = [fItems EXCEPT ![s] = F!After(s, r)]
  BY DEF F!Change
<1>3. ASSUME NEW p \in Requests
      PROVE  /\ fReq'[p] \in RuleRequests
             /\ fReq'[p].pc = IF p = q THEN "viewing" ELSE fReq[p].pc
             /\ fReq'[p].overtaken = (fReq[p].overtaken \/ Old(p))
             /\ fReq'[p].scope = fReq[p].scope /\ fReq'[p].seen = fReq[p].seen
             /\ fReq'[p].op = fReq[p].op /\ fReq'[p].key = fReq[p].key
  <2> DEFINE pc == IF p = q THEN "viewing" ELSE fReq[p].pc
             old == fReq[p].overtaken \/ Old(p)
  <2>1. fReq[p] \in RuleRequests
    BY DEF RulesInv, RulesTyped
  <2>2. old \in BOOLEAN /\ pc \in {"idle", "viewing", "sent"}
    BY <2>1 DEF RuleRequests
  <2>3. fReq'[p] = [fReq[p] EXCEPT !.pc = pc, !.overtaken = old]
    BY <1>1, <2>1 DEF RuleRequests
  <2> HIDE DEF pc, old
  <2>4. /\ fReq'[p] \in RuleRequests
        /\ fReq'[p].pc = pc /\ fReq'[p].overtaken = old
        /\ fReq'[p].scope = fReq[p].scope /\ fReq'[p].seen = fReq[p].seen
        /\ fReq'[p].op = fReq[p].op /\ fReq'[p].key = fReq[p].key
    BY <2>1, <2>2, <2>3 DEF RuleRequests
  <2>5. QED
    BY <2>4 DEF pc, old
<1> HIDE DEF Old
<1>4. RulesTyped'
  <2>1. r \in RuleRequests /\ fMade' \in Nat
    <3>1. fMade' = IF r.op = "add" THEN fMade + 1 ELSE fMade
      BY DEF F!Change
    <3>2. QED
      BY <3>1 DEF RulesInv, RulesTyped
  <2>2. F!After(s, r) \in RuleContents
    <3>1. RulesTyped /\ F!Accepts(s, r)
      BY DEF RulesInv, F!Change
    <3>2. s \in F!Lists => fItems[s] \in Seq(Nat)
      BY <3>1 DEF RulesTyped
    <3>3. s \in F!Tables => fItems[s] \in [1..NNames -> Nat]
      BY <3>1 DEF RulesTyped
    <3> QED
      BY <2>1, <3>1, <3>2, <3>3, AfterTyped DEF RulesTyped, RuleContents, F!Scopes
  <2>3. fItems' \in [F!Scopes -> RuleContents]
    BY <1>2, <2>2 DEF RulesInv, RulesTyped
  <2>4. \A x \in F!Scopes : fItems'[x] = IF x = s THEN F!After(s, r) ELSE fItems[x]
    BY <1>2 DEF RulesInv, RulesTyped
  <2>5. /\ \A x \in F!Lists : fItems'[x] \in Seq(Nat)
        /\ \A x \in F!Tables : fItems'[x] \in [1..NNames -> Nat]
    <3>1. RulesTyped /\ F!Accepts(s, r)
      BY DEF RulesInv, F!Change
    <3>2. /\ s \in F!Lists => F!After(s, r) \in Seq(Nat)
          /\ s \in F!Tables => F!After(s, r) \in [1..NNames -> Nat]
      BY <2>1, <3>1, AfterTyped DEF RulesTyped
    <3>3. QED
      BY <2>4, <3>1, <3>2 DEF RulesTyped, F!Scopes
  <2>6. \A p \in Requests : fReq'[p] \in RuleRequests
    BY <1>3
  <2>7. fReq' \in [Requests -> RuleRequests]
    BY <1>1, <2>6
  <2>8. QED
    BY <2>1, <2>3, <2>5, <2>7 DEF RulesTyped
<1>5. SeenStands'
  <2>1. SUFFICES ASSUME NEW p \in Requests
                 PROVE  /\ fReq'[p].pc # "idle" /\ ~fReq'[p].overtaken
                              => fReq'[p].seen \in {fItems'[fReq'[p].scope], <<>>}
                        /\ fReq'[p].pc = "sent" /\ fReq'[p].op # "add" => fReq'[p].key \in DOMAIN fReq'[p].seen
    BY DEF SeenStands
  <2>2. fReq'[p].pc = "sent" /\ fReq'[p].op # "add" => fReq'[p].key \in DOMAIN fReq'[p].seen
    <3>1. /\ fReq'[p].pc = "sent" => fReq[p].pc = "sent"
          /\ fReq'[p].op = fReq[p].op /\ fReq'[p].key = fReq[p].key /\ fReq'[p].seen = fReq[p].seen
      BY <1>3
    <3>2. QED
      BY <3>1 DEF RulesInv, SeenStands
  <2>3. ASSUME fReq'[p].pc # "idle", ~fReq'[p].overtaken
        PROVE  fReq'[p].seen \in {fItems'[fReq'[p].scope], <<>>}
    <3>1. fReq[p].pc # "idle" /\ ~fReq[p].overtaken /\ ~Old(p)
      <4>1. /\ fReq'[p].pc = IF p = q THEN "viewing" ELSE fReq[p].pc
            /\ fReq'[p].overtaken = (fReq[p].overtaken \/ Old(p))
        BY <1>3
      <4>2. fReq[p].overtaken \in BOOLEAN
        BY DEF RulesInv, RulesTyped, RuleRequests
      <4>3. QED
        BY <2>3, <4>1, <4>2, <1>3
    <3>2. fReq[p].seen \in {fItems[fReq[p].scope], <<>>}
      BY <3>1 DEF RulesInv, SeenStands
    <3>3. CASE fReq[p].scope # s
      <4>1. fReq[p].scope \in F!Scopes
        BY DEF RulesInv, RulesTyped, RuleRequests
      <4>2. fItems'[fReq[p].scope] = fItems[fReq[p].scope]
        BY <1>2, <3>3, <4>1 DEF RulesInv, RulesTyped
      <4>3. QED
        BY <1>3, <3>2, <4>2
    <3>4. CASE fReq[p].scope = s
      <4>1. r.op = "edit"
        BY <3>1, <3>4 DEF Old
      <4>2. F!After(s, r) = fItems[s]
        BY <4>1 DEF F!After
      <4>3. fItems' = fItems
        BY <1>2, <4>2 DEF RulesInv, RulesTyped
      <4>4. QED
        BY <1>3, <3>2, <4>3
    <3>5. QED
      BY <3>3, <3>4
  <2>4. QED
    BY <2>2, <2>3
<1>6. F!RightOneReached'
  <2>1. SUFFICES ASSUME NEW h \in fHits', h.got # h.want
                 PROVE  h.overtaken /\ ~h.digest
    BY DEF F!RightOneReached
  <2>2. CASE h \in fHits
    BY <2>1, <2>2 DEF RulesInv, F!RightOneReached
  <2>3. CASE h \notin fHits
    <3>1. /\ r.op # "add"
          /\ h = [want |-> r.seen[r.key], got |-> fItems[s][r.key], overtaken |-> r.overtaken,
                  digest |-> r.digest]
      BY <2>3 DEF F!Change
    <3>2. r.seen # fItems[s]
      BY <2>1, <3>1
    <3>3. ~r.digest
      BY <3>2 DEF F!Change, F!Accepts
    <3>4. r.seen # <<>>
      BY <3>1 DEF RulesInv, SeenStands
    <3>5. r.overtaken
      BY <3>2, <3>4 DEF RulesInv, SeenStands
    <3>6. QED
      BY <3>1, <3>3, <3>5
  <2>4. QED
    BY <2>2, <2>3
<1>7. QED
  BY <1>4, <1>5, <1>6 DEF RulesInv

LEMMA RulesKept == RulesInv /\ [F!Next]_(F!vars) => RulesInv'
<1> SUFFICES ASSUME RulesInv, [F!Next]_(F!vars) PROVE RulesInv'
  OBVIOUS
<1>1. CASE UNCHANGED F!vars
  BY <1>1, RulesStay
<1>2. ASSUME NEW q \in Requests,
             \/ F!DatacenterRules(q) \/ F!GroupRules(q) \/ F!NodeRules(q) \/ F!GuestRules(q)
             \/ F!Groups(q) \/ F!IpSets(q) \/ F!Entries(q) \/ F!Aliases(q)
      PROVE  RulesInv'
  <2>1. ASSUME NEW s \in F!Scopes, F!Read(q, s) PROVE RulesInv'
    BY <2>1, ReadKeeps
  <2>2. ASSUME NEW s, NEW ops \in SUBSET F!RuleOps, F!Send(q, s, ops) PROVE RulesInv'
    BY <2>2, SendKeeps
  <2>3. QED
    <3>1. /\ F!RuleOps \in SUBSET F!RuleOps /\ {"add", "remove"} \in SUBSET F!RuleOps
          /\ {"datacenter", "group", "node", "qemu", "lxc", "groups", "ipsets", "entries", "aliases"} \subseteq F!Scopes
      BY DEF F!RuleOps, F!Scopes, F!Lists, F!Tables
    <3>2. QED
      BY <1>2, <2>1, <2>2, <3>1
         DEF F!DatacenterRules, F!GroupRules, F!NodeRules, F!GuestRules, F!Groups, F!IpSets, F!Entries, F!Aliases
<1>3. ASSUME NEW q \in Requests,
             \/ F!CallDatacenter(q) \/ F!CallGroup(q) \/ F!CallNode(q) \/ F!CallGuest(q)
             \/ F!CallGroups(q) \/ F!CallIpSets(q) \/ F!CallEntries(q) \/ F!CallAliases(q)
      PROVE  RulesInv'
  <2>1. PICK s \in F!Scopes : fReq[q].pc = "sent" /\ fReq[q].scope = s /\ F!Change(q, s)
    BY <1>3 DEF F!CallDatacenter, F!CallGroup, F!CallNode, F!CallGuest, F!CallGroups, F!CallIpSets, F!CallEntries,
                F!CallAliases, F!Calls, F!At, F!Resource, F!Scopes, F!Lists, F!Tables
  <2>2. QED
    BY <2>1, ChangeKeeps
<1>4. ASSUME NEW q \in Requests, F!Unavailable(q) \/ F!Fails(q) PROVE RulesInv'
  BY <1>4, GiveUpKeeps
<1>5. QED
  BY <1>1, <1>2, <1>3, <1>4 DEF F!Next

\* Rules and names are numbered as they are made, up to the bound.
RulesNumbered ==
    /\ \A s \in F!Lists : fItems[s] \in Seq(1..MaxItems)
    /\ \A s \in F!Tables : fItems[s] \in [1..NNames -> 0..MaxItems]
    /\ fMade \in 0..MaxItems /\ fCalls \in 0..MaxCalls

LEMMA RulesNumberedKept == RulesInv /\ RulesNumbered /\ [F!Next]_(F!vars) => RulesNumbered'
<1> SUFFICES ASSUME RulesInv, RulesNumbered, [F!Next]_(F!vars) PROVE RulesNumbered'
  OBVIOUS
<1>1. MaxItems \in Nat /\ MaxCalls \in Nat
  BY BoundsAssumption
<1>2. CASE UNCHANGED <<fItems, fMade>> /\ fCalls' \in 0..MaxCalls
  BY <1>2 DEF RulesNumbered
<1>3. ASSUME NEW q \in Requests, NEW s, F!Read(q, s) PROVE RulesNumbered'
  BY <1>2, <1>3 DEF F!Read, F!Proxmox, RulesNumbered
<1>4. ASSUME NEW q \in Requests, NEW s, NEW ops, F!Send(q, s, ops) PROVE RulesNumbered'
  BY <1>1, <1>2, <1>4 DEF F!Send, F!Proxmox, RulesNumbered
<1>5. ASSUME NEW q \in Requests, NEW s \in F!Scopes, F!Change(q, s) PROVE RulesNumbered'
  <2> DEFINE r == fReq[q]
  <2>1. r \in RuleRequests /\ F!Accepts(s, r) /\ fItems' = [fItems EXCEPT ![s] = F!After(s, r)]
    BY <1>5 DEF F!Change, RulesInv, RulesTyped
  <2>2. r.op = "add" => fMade + 1 \in 1..MaxItems /\ fMade + 1 \in 0..MaxItems
    BY <1>1, <2>1 DEF F!Accepts, RulesNumbered
  <2>3. s \in F!Lists => F!After(s, r) \in Seq(1..MaxItems)
    BY <2>1, <2>2, AfterTyped DEF RulesNumbered
  <2>4. s \in F!Tables => F!After(s, r) \in [1..NNames -> 0..MaxItems]
    <3> DEFINE Rules == 0..MaxItems
    <3>1. 0 \in Rules /\ (r.op = "add" => fMade + 1 \in Rules) /\ (s \in F!Tables => fItems[s] \in [1..NNames -> Rules])
      BY <1>1, <2>2 DEF RulesNumbered
    <3> HIDE DEF r, Rules
    <3>2. s \in F!Tables => F!After(s, r) \in [1..NNames -> Rules]
      BY <2>1, <3>1, AfterTyped
    <3> QED BY <3>2 DEF Rules
  <2>5. \A x \in F!Scopes : fItems'[x] = IF x = s THEN F!After(s, r) ELSE fItems[x]
    BY <2>1 DEF RulesInv, RulesTyped
  <2>6. fMade' \in 0..MaxItems /\ fCalls' = fCalls
    BY <1>5, <2>2 DEF F!Change, RulesNumbered
  <2> HIDE DEF r
  <2> QED BY <2>3, <2>4, <2>5, <2>6 DEF RulesNumbered, F!Scopes
<1>6. ASSUME NEW q \in Requests, F!Unavailable(q) \/ F!Fails(q) PROVE RulesNumbered'
  BY <1>2, <1>6 DEF F!Unavailable, F!Fails, F!Proxmox, RulesNumbered
<1>7. CASE UNCHANGED F!vars
  BY <1>2, <1>7 DEF F!vars, RulesNumbered
<1>8. {"datacenter", "group", "node", "qemu", "lxc", "groups", "ipsets", "entries", "aliases"} \subseteq F!Scopes
  BY DEF F!Scopes, F!Lists, F!Tables
<1>9. ASSUME NEW q \in Requests,
             \/ F!CallDatacenter(q) \/ F!CallGroup(q) \/ F!CallNode(q) \/ F!CallGuest(q)
             \/ F!CallGroups(q) \/ F!CallIpSets(q) \/ F!CallEntries(q) \/ F!CallAliases(q)
      PROVE  RulesNumbered'
  <2>1. \E s \in F!Scopes : F!Change(q, s)
    BY <1>8, <1>9 DEF F!CallDatacenter, F!CallGroup, F!CallNode, F!CallGuest, F!CallGroups, F!CallIpSets, F!CallEntries,
                     F!CallAliases, F!Resource
  <2> QED BY <1>5, <2>1
<1>10. ASSUME NEW q \in Requests,
             \/ F!DatacenterRules(q) \/ F!GroupRules(q) \/ F!NodeRules(q) \/ F!GuestRules(q)
             \/ F!Groups(q) \/ F!IpSets(q) \/ F!Entries(q) \/ F!Aliases(q)
      PROVE  RulesNumbered'
  BY <1>3, <1>4, <1>10
     DEF F!DatacenterRules, F!GroupRules, F!NodeRules, F!GuestRules, F!Groups, F!IpSets, F!Entries, F!Aliases
<1> QED BY <1>6, <1>7, <1>9, <1>10 DEF F!Next

\* However many administrators edit the lists of the firewall at once, a change
\* reaches another rule, or another thing of a name, than the one it was meant
\* for only when the list was put in another order after it was read and the
\* call carried no digest.
THEOREM RulesReachTheirMark == Spec => [](part = "firewall" => F!RightOneReached)
<1> DEFINE Inv == part = "firewall" => RulesInv
<1>1. Init => Inv
  BY RulesInit DEF Init
<1>2. Inv /\ [Next]_vars => Inv'
  BY EachOfItsOwn, RulesKept
<1>3. Inv => (part = "firewall" => F!RightOneReached)
  BY DEF RulesInv
<1>4. QED
  BY <1>1, <1>2, <1>3, PTL DEF Spec

-----------------------------------------------------------------------------
(* The hardware and the power of a guest.                                  *)
hSlot == v1
hUnused == v2
hBoot == v3
hPower == v4
hStatus == v5
hReq == v6
hLoop == v7
hMade == v8
hLost == v9
hAsked == v10
hCrossed == v11
hEvents == v12

USE DEF hSlot, hUnused, hBoot, hPower, hStatus, hReq, hLoop, hMade, hLost, hAsked, hCrossed, hEvents

Contents == H!Volumes \union {H!Physical, H!Image, H!NoMedium, H!Empty}
Powers == [on : BOOLEAN, image : BOOLEAN, tasks : SUBSET {"start", "stop", "restart"}]
HardRequests ==
    [pc : {"idle", "destroy", "move", "resize", "read", "look", "wait", "wait again", "start", "restarted"},
     image : BOOLEAN, slot : H!Slots, vol : 0..NVolumes, keep : BOOLEAN]

\* What a request is about to destroy was in a slot that is to go with it.
Doomed(r) == r.pc = "destroy" \/ (r.pc = "move" /\ ~r.keep)
VolumesAsked ==
    /\ \A q \in Requests : Doomed(hReq[q]) => hReq[q].vol \in hAsked
    /\ Longer = {} => hLost \subseteq hAsked

\* Images are in the drive only.
ImageInDrive == \A s \in H!Disks : hSlot[s] # H!Image

\* What a request to change the image has brought about so far.
Ordered(r) == r.pc \in {"look", "wait", "wait again", "start", "restarted"}
Sound(r) ==
    /\ r.pc = "read" /\ r.image => hSlot[H!Drive] = H!Image
    /\ Ordered(r) => H!FromImage = r.image
    /\ r.pc \in {"start", "restarted"} /\ hPower.on => hPower.image = r.image
InOrder ==
    ~hCrossed => \A q \in Requests : hReq[q].pc # "idle" =>
                    Sound(hReq[q]) /\ \A p \in Requests \ {q} : hReq[p].pc = "idle"

\* The inductive invariant.
HardInv == H!TypeOK /\ VolumesAsked /\ ImageInDrive /\ InOrder

LEMMA HardConstants ==
    /\ NVolumes \in Nat /\ NVolumes >= 1 /\ HardwareEvents \in Nat
    /\ H!NoRequest \in HardRequests /\ H!NoRequest.pc = "idle" /\ ~Doomed(H!NoRequest)
    /\ \A x \in H!Volumes : x # H!Image /\ x \in Contents /\ x \in Nat
    /\ H!Physical # H!Image /\ H!Empty # H!Image /\ H!Physical \in Contents
    /\ H!Drive \notin H!Disks /\ H!Slots = H!Disks \union {H!Drive}
  BY PanelAssumption DEF H!NoRequest, HardRequests, H!Slots, H!Drive, H!Disks, Doomed, H!Volumes, Contents,
     H!Physical, H!Image, H!NoMedium, H!Empty

LEMMA HardTyped ==
    ASSUME H!TypeOK
    PROVE  /\ hSlot \in [H!Slots -> Contents] /\ hUnused \subseteq H!Volumes /\ hLost \subseteq H!Volumes
           /\ hAsked \subseteq H!Volumes /\ hBoot \in H!Orders /\ hMade \in H!Volumes /\ hPower \in Powers
           /\ hStatus \in {"running", "stopped"} /\ hReq \in [Requests -> HardRequests]
           /\ hCrossed \in BOOLEAN /\ hEvents \in 0..HardwareEvents
  BY DEF H!TypeOK, Contents, Powers, HardRequests

\* The types after a step, from those of what it changes.
LEMMA HardTypesKept ==
    ASSUME hSlot' \in [H!Slots -> Contents], hUnused' \subseteq H!Volumes, hLost' \subseteq H!Volumes,
           hAsked' \subseteq H!Volumes, hBoot' \in H!Orders, hMade' \in H!Volumes, hPower' \in Powers,
           hStatus' \in {"running", "stopped"}, hReq' \in [Requests -> HardRequests],
           hLoop' = {} \/ \E q \in Requests : hLoop' = {q}, hCrossed' \in BOOLEAN, hEvents' \in 0..HardwareEvents
    PROVE  H!TypeOK'
  BY DEF H!TypeOK, Contents, Powers, HardRequests

LEMMA HardInit == H!Init => HardInv
<1> SUFFICES ASSUME H!Init PROVE HardInv
  OBVIOUS
<1>1. H!TypeOK
  <2>1. hSlot \in [H!Slots -> Contents] /\ hMade \in H!Volumes
    BY HardConstants DEF H!Init, Contents, H!Volumes
  <2>2. hReq \in [Requests -> HardRequests] /\ hPower \in Powers /\ hEvents \in 0..HardwareEvents
    BY HardConstants DEF H!Init, Powers
  <2>3. hBoot \in H!Orders
    <3>1. hBoot \in [1..1 -> H!Slots]
      BY DEF H!Init, H!Slots, H!Disks
    <3> QED BY <3>1 DEF H!Orders
  <2> QED BY <2>1, <2>2, <2>3 DEF H!Init, H!TypeOK, Contents, Powers, HardRequests
<1>2. VolumesAsked /\ InOrder
  BY HardConstants DEF H!Init, VolumesAsked, InOrder
<1>3. ImageInDrive
  BY HardConstants DEF H!Init, ImageInDrive, H!Volumes, H!Slots, H!Disks, H!Drive, H!NoMedium, H!Image, H!Empty
<1> QED BY <1>1, <1>2, <1>3 DEF HardInv

\* A request begins, or is done at once.
LEMMA HardBegins ==
    ASSUME HardInv, NEW q \in Requests, H!Begins(q), NEW r \in HardRequests, hReq' = [hReq EXCEPT ![q] = r],
           r.pc \in {"idle", "destroy", "move", "resize", "read"},
           hSlot' \in [H!Slots -> Contents], hUnused' \subseteq H!Volumes, hBoot' \in H!Orders,
           hMade' \in H!Volumes, hPower' \in Powers, hStatus' \in {"running", "stopped"},
           hLoop' = hLoop \/ hLoop' = {q}, hLost' = hLost, hAsked \subseteq hAsked', hAsked' \subseteq H!Volumes,
           Doomed(r) => r.vol \in hAsked', \A s \in H!Disks : hSlot'[s] # H!Image,
           r.pc = "read" /\ r.image => hSlot'[H!Drive] = H!Image
    PROVE  HardInv'
<1>1. hReq'[q] = r /\ \A p \in Requests \ {q} : hReq'[p] = hReq[p]
  BY HardTyped DEF HardInv
<1>2. hEvents' \in 0..HardwareEvents /\ hCrossed' \in BOOLEAN
      /\ (~hCrossed' => \A p \in Requests \ {q} : hReq[p].pc = "idle")
  <2>1. hCrossed' = (hCrossed \/ \E p \in Requests \ {q} : hReq[p].pc # "idle")
    BY DEF H!Begins, H!At
  <2>2. hEvents' = hEvents + 1 /\ hEvents < HardwareEvents /\ hEvents \in 0..HardwareEvents
    BY HardTyped DEF HardInv, H!Begins, H!Event
  <2>3. hEvents' \in 0..HardwareEvents
    BY <2>2, HardConstants
  <2> QED BY <2>1, <2>3, Zenon
<1>3. H!TypeOK'
  <2>1. hReq' \in [Requests -> HardRequests] /\ hLost' \subseteq H!Volumes
    BY HardTyped DEF HardInv
  <2>2. hLoop' = {} \/ \E p \in Requests : hLoop' = {p}
    BY DEF HardInv, H!TypeOK
  <2> QED BY <1>2, <2>1, <2>2 DEF H!TypeOK, Contents, Powers, HardRequests
<1>4. VolumesAsked'
  BY <1>1 DEF HardInv, VolumesAsked
<1>5. ImageInDrive'
  BY DEF ImageInDrive
<1>6. InOrder'
  <2> SUFFICES ASSUME ~hCrossed', NEW p \in Requests, hReq'[p].pc # "idle"
               PROVE  Sound(hReq[p])' /\ \A o \in Requests \ {p} : hReq'[o].pc = "idle"
    BY DEF InOrder
  <2>1. p = q
    BY <1>1, <1>2
  <2>2. \A o \in Requests \ {q} : hReq'[o].pc = "idle"
    BY <1>1, <1>2
  <2>3. ~Ordered(r) /\ r.pc \notin {"start", "restarted"}
    BY DEF Ordered
  <2> QED BY <1>1, <2>1, <2>2, <2>3 DEF Sound, Ordered
<1> QED BY <1>3, <1>4, <1>5, <1>6 DEF HardInv

\* A request goes on.
LEMMA HardGoes ==
    ASSUME HardInv, NEW q \in Requests, hReq[q].pc # "idle", NEW r \in HardRequests,
           hReq' = [hReq EXCEPT ![q] = r], ~Doomed(r), UNCHANGED <<hStatus, hMade, hAsked, hCrossed, hEvents>>,
           hSlot' \in [H!Slots -> Contents], hUnused' \subseteq H!Volumes, hBoot' \in H!Orders, hPower' \in Powers,
           hLoop' = hLoop \/ hLoop' = {}, hLost' \subseteq H!Volumes, Longer = {} => hLost' \subseteq hAsked,
           \A s \in H!Disks : hSlot'[s] # H!Image,
           ~hCrossed /\ r.pc # "idle" => Sound(r)'
    PROVE  HardInv'
<1>1. hReq'[q] = r /\ \A p \in Requests \ {q} : hReq'[p] = hReq[p]
  BY HardTyped DEF HardInv
<1>2. H!TypeOK'
  <2>1. hReq' \in [Requests -> HardRequests] /\ hMade' \in H!Volumes /\ hStatus' \in {"running", "stopped"}
    BY HardTyped DEF HardInv
  <2>2. hLoop' = {} \/ \E p \in Requests : hLoop' = {p}
    BY DEF HardInv, H!TypeOK
  <2> QED BY <2>1, <2>2 DEF HardInv, H!TypeOK, Contents, Powers, HardRequests
<1>3. VolumesAsked'
  BY <1>1 DEF HardInv, VolumesAsked
<1>4. ImageInDrive'
  BY DEF ImageInDrive
<1>5. InOrder'
  <2> SUFFICES ASSUME ~hCrossed', NEW p \in Requests, hReq'[p].pc # "idle"
               PROVE  Sound(hReq[p])' /\ \A o \in Requests \ {p} : hReq'[o].pc = "idle"
    BY DEF InOrder
  <2>1. \A o \in Requests \ {q} : hReq'[o].pc = "idle"
    BY <1>1 DEF HardInv, InOrder
  <2>2. p = q
    BY <2>1
  <2> QED BY <1>1, <2>1, <2>2 DEF Sound, Ordered
<1> QED BY <1>2, <1>3, <1>4, <1>5 DEF HardInv

\* Nothing but the power of the guest changes.
LEMMA PowerChanges ==
    ASSUME HardInv, UNCHANGED <<hSlot, hUnused, hBoot, hReq, hLoop, hMade, hLost, hAsked, hCrossed>>,
           hPower' \in Powers, hStatus' \in {"running", "stopped"}, hEvents' \in 0..HardwareEvents,
           hPower'.on => (hPower.on /\ hPower'.image = hPower.image) \/ hPower'.image = H!FromImage
    PROVE  HardInv'
<1>1. H!TypeOK'
  BY DEF HardInv, H!TypeOK, Powers
<1>2. VolumesAsked' /\ ImageInDrive'
  BY DEF HardInv, VolumesAsked, ImageInDrive
<1>3. InOrder'
  <2> SUFFICES ASSUME ~hCrossed', NEW p \in Requests, hReq'[p].pc # "idle"
               PROVE  Sound(hReq[p])' /\ \A o \in Requests \ {p} : hReq'[o].pc = "idle"
    BY DEF InOrder
  <2>1. Sound(hReq[p]) /\ \A o \in Requests \ {p} : hReq[o].pc = "idle"
    BY DEF HardInv, InOrder
  <2>2. H!FromImage' = H!FromImage
    BY DEF H!FromImage
  <2>3. Sound(hReq[p])'
    BY <2>1, <2>2 DEF Sound, Ordered
  <2> QED BY <2>1, <2>3
<1> QED BY <1>1, <1>2, <1>3 DEF HardInv

LEMMA HardRecord ==
    ASSUME HardInv, NEW q \in Requests
    PROVE  /\ hReq[q] \in HardRequests /\ hReq[q].pc \in {"idle", "destroy", "move", "resize", "read", "look", "wait",
                                                         "wait again", "start", "restarted"}
           /\ hReq[q].image \in BOOLEAN /\ hReq[q].slot \in H!Slots /\ hReq[q].keep \in BOOLEAN
           /\ \A pc \in {"look", "wait", "wait again", "start", "restarted"} :
                 LET r == [hReq[q] EXCEPT !.pc = pc] IN
                 r \in HardRequests /\ ~Doomed(r) /\ r.pc = pc /\ r.image = hReq[q].image
<1>1. hReq[q] \in HardRequests
  BY HardTyped DEF HardInv
<1> QED BY <1>1 DEF HardRequests, Doomed

\* A volume that leaves its slot, and what is in the slot then.
LEMMA SlotChanges ==
    ASSUME HardInv, NEW s \in H!Slots, NEW x \in Contents, x # H!Image
    PROVE  /\ [hSlot EXCEPT ![s] = x] \in [H!Slots -> Contents]
           /\ \A d \in H!Disks : [hSlot EXCEPT ![s] = x][d] # H!Image
           /\ H!Vacated(s) \subseteq H!Volumes
  BY HardTyped, HardConstants DEF HardInv, ImageInDrive, H!Vacated, H!IsVolume

LEMMA DisksKept ==
    ASSUME HardInv, NEW q \in Requests,
           H!AddDisk(q) \/ H!AttachPhysical(q) \/ H!Detach(q) \/ H!StartMove(q) \/ H!Resize(q)
    PROVE  HardInv'
<1>0. H!TypeOK /\ hReq[q] \in HardRequests /\ \A s \in H!Disks : hSlot[s] # H!Image
  BY HardRecord DEF HardInv, ImageInDrive
<1>2. H!Begins(q) => hReq[q].pc = "idle" /\ ~Doomed(hReq[q])
  BY DEF H!Begins, H!At, Doomed
<1>3. CASE H!AddDisk(q)
  <2>1. PICK s \in H!Disks : hSlot' = [hSlot EXCEPT ![s] = hMade + 1] /\ hUnused' = H!Vacated(s)
    BY <1>3 DEF H!AddDisk
  <2>2. /\ H!Begins(q) /\ hMade' = hMade + 1 /\ hMade < NVolumes
        /\ UNCHANGED <<hBoot, hPower, hStatus, hReq, hLoop, hLost, hAsked>>
    BY <1>3 DEF H!AddDisk, H!BeginsOnLoop
  <2>3. hMade + 1 \in H!Volumes
    BY <1>0, <2>2, HardTyped, HardConstants DEF H!Volumes
  <2>4. /\ hSlot' \in [H!Slots -> Contents] /\ hUnused' \subseteq H!Volumes
        /\ \A d \in H!Disks : hSlot'[d] # H!Image
    BY <2>1, <2>3, SlotChanges, HardConstants
  <2> QED BY <1>0, <1>2, <2>2, <2>3, <2>4, HardBegins, HardTyped
<1>4. CASE H!AttachPhysical(q)
  <2>1. PICK s \in H!Disks : hSlot' = [hSlot EXCEPT ![s] = H!Physical] /\ hUnused' = H!Vacated(s)
    BY <1>4 DEF H!AttachPhysical
  <2>2. H!Begins(q) /\ UNCHANGED <<hBoot, hPower, hStatus, hReq, hLoop, hMade, hLost, hAsked>>
    BY <1>4 DEF H!AttachPhysical, H!BeginsOnLoop
  <2>3. /\ hSlot' \in [H!Slots -> Contents] /\ hUnused' \subseteq H!Volumes
        /\ \A d \in H!Disks : hSlot'[d] # H!Image
    BY <2>1, SlotChanges, HardConstants
  <2> QED BY <1>0, <1>2, <2>2, <2>3, HardBegins, HardTyped
<1>5. CASE H!Detach(q)
  <2>1. PICK s \in H!Disks, keep \in BOOLEAN :
          /\ hSlot' = [hSlot EXCEPT ![s] = H!Empty] /\ hUnused' = H!Vacated(s)
          /\ hBoot' \in H!Orders
          /\ IF keep \/ ~H!IsVolume(hSlot[s])
             THEN UNCHANGED <<hReq, hLoop, hAsked>>
             ELSE /\ hReq' = [hReq EXCEPT ![q] = [H!NoRequest EXCEPT !.pc = "destroy", !.vol = hSlot[s]]]
                  /\ hLoop' = {q} /\ hAsked' = hAsked \union {hSlot[s]}
    BY <1>5 DEF H!Detach, H!Set
  <2>2. H!Begins(q) /\ UNCHANGED <<hPower, hStatus, hMade, hLost>>
    BY <1>5 DEF H!Detach, H!BeginsOnLoop
  <2>3. /\ hSlot' \in [H!Slots -> Contents] /\ hUnused' \subseteq H!Volumes
        /\ \A d \in H!Disks : hSlot'[d] # H!Image
    <3>1. H!Empty \in Contents
      BY DEF Contents
    <3> QED BY <2>1, <3>1, SlotChanges, HardConstants
  <2>4. CASE UNCHANGED <<hReq, hLoop, hAsked>>
    BY <1>0, <1>2, <2>1, <2>2, <2>3, <2>4, HardBegins, HardTyped
  <2>5. CASE /\ hReq' = [hReq EXCEPT ![q] = [H!NoRequest EXCEPT !.pc = "destroy", !.vol = hSlot[s]]]
             /\ hLoop' = {q} /\ hAsked' = hAsked \union {hSlot[s]} /\ H!IsVolume(hSlot[s])
    <3>1. PICK r : r = [H!NoRequest EXCEPT !.pc = "destroy", !.vol = hSlot[s]]
      OBVIOUS
    <3>2. hSlot[s] \in H!Volumes /\ hSlot[s] \in 0..NVolumes
      BY <2>5, HardConstants DEF H!IsVolume, H!Volumes
    <3>3. r \in HardRequests /\ r.pc = "destroy" /\ r.vol = hSlot[s]
      BY <3>1, <3>2, HardConstants DEF HardRequests
    <3>4. hAsked' \subseteq H!Volumes /\ hAsked \subseteq hAsked' /\ r.vol \in hAsked'
      BY <1>0, <2>5, <3>2, <3>3, HardTyped
    <3>5. hReq' = [hReq EXCEPT ![q] = r]
      BY <2>5, <3>1
    <3> QED BY <1>0, <2>1, <2>2, <2>3, <2>5, <3>3, <3>4, <3>5, HardBegins, HardTyped
  <2> QED BY <2>1, <2>4, <2>5
<1>6. CASE H!StartMove(q)
  <2>1. PICK s \in H!Disks, keep \in BOOLEAN :
          /\ H!IsVolume(hSlot[s])
          /\ hReq' = [hReq EXCEPT ![q] = [H!NoRequest EXCEPT !.pc = "move", !.slot = s, !.vol = hSlot[s], !.keep = keep]]
          /\ hAsked' = IF keep THEN hAsked ELSE hAsked \union {hSlot[s]}
    BY <1>6 DEF H!StartMove, H!Set
  <2>2. /\ H!Begins(q) /\ hLoop' = {q} /\ hMade' = hMade + 1 /\ hMade < NVolumes
        /\ UNCHANGED <<hSlot, hUnused, hBoot, hPower, hStatus, hLost>>
    BY <1>6 DEF H!StartMove, H!BeginsOnLoop
  <2>3. PICK r : r = [H!NoRequest EXCEPT !.pc = "move", !.slot = s, !.vol = hSlot[s], !.keep = keep]
    OBVIOUS
  <2>4. hSlot[s] \in H!Volumes /\ hSlot[s] \in 0..NVolumes
    BY <2>1, HardConstants DEF H!IsVolume, H!Volumes
  <2>5. r \in HardRequests /\ r.pc = "move" /\ r.vol = hSlot[s] /\ r.keep = keep
    BY <2>3, <2>4, HardConstants DEF HardRequests
  <2>6. hAsked' \subseteq H!Volumes /\ hAsked \subseteq hAsked' /\ (~keep => r.vol \in hAsked')
    BY <1>0, <2>1, <2>4, <2>5, HardTyped
  <2>7. hReq' = [hReq EXCEPT ![q] = r] /\ hMade' \in H!Volumes
    BY <1>0, <2>1, <2>2, <2>3, HardTyped, HardConstants DEF H!Volumes
  <2>8. Doomed(r) => r.vol \in hAsked'
    BY <2>5, <2>6 DEF Doomed
  <2> QED BY <1>0, <2>2, <2>5, <2>6, <2>7, <2>8, HardBegins, HardTyped
<1>7. CASE H!Resize(q)
  <2>1. PICK s \in H!Disks : hReq' = [hReq EXCEPT ![q] = [H!NoRequest EXCEPT !.pc = "resize", !.slot = s]]
    BY <1>7 DEF H!Resize, H!Set
  <2>2. /\ H!Begins(q) /\ hLoop' = {q}
        /\ UNCHANGED <<hSlot, hUnused, hBoot, hMade, hLost, hAsked, hPower, hStatus>>
    BY <1>7 DEF H!Resize, H!BeginsOnLoop, H!hardware
  <2>3. PICK r : r = [H!NoRequest EXCEPT !.pc = "resize", !.slot = s]
    OBVIOUS
  <2>4. r \in HardRequests /\ r.pc = "resize" /\ ~Doomed(r)
    BY <2>3, HardConstants DEF HardRequests, Doomed
  <2>5. hReq' = [hReq EXCEPT ![q] = r]
    BY <2>1, <2>3
  <2> QED BY <1>0, <2>2, <2>4, <2>5, HardBegins, HardTyped
<1> QED BY <1>3, <1>4, <1>5, <1>6, <1>7

LEMMA DisksDone ==
    ASSUME HardInv, NEW q \in Requests, H!Destroy(q) \/ H!Moved(q) \/ H!Resized(q)
    PROVE  HardInv'
<1>0. H!TypeOK /\ hReq[q] \in HardRequests /\ VolumesAsked /\ \A s \in H!Disks : hSlot[s] # H!Image
  BY HardRecord DEF HardInv, ImageInDrive
<1>1. CASE H!Destroy(q)
  <2>1. /\ hReq[q].pc = "destroy" /\ hReq' = [hReq EXCEPT ![q] = H!NoRequest] /\ hLoop' = {}
        /\ UNCHANGED <<hSlot, hBoot, hPower, hStatus, hMade, hAsked, hCrossed, hEvents>>
    BY <1>1 DEF H!Destroy, H!At, H!Answer, H!Set
  <2>2. hUnused' \subseteq hUnused /\ \A v \in hLost' : v \in hLost \/ v \in H!Matching(hReq[q].vol)
    BY <1>1 DEF H!Destroy
  <2>3. Longer = {} => \A v \in H!Matching(hReq[q].vol) : v \in hAsked
    BY <1>0, <2>1 DEF H!Matching, VolumesAsked, Doomed
  <2>4. hLost' \subseteq H!Volumes /\ (Longer = {} => hLost' \subseteq hAsked)
    BY <1>0, <2>2, <2>3, HardTyped DEF VolumesAsked, H!Matching
  <2> QED BY <1>0, <2>1, <2>2, <2>4, HardGoes, HardTyped, HardConstants
<1>2. CASE H!Moved(q)
  <2>1. /\ hReq[q].pc = "move" /\ hReq' = [hReq EXCEPT ![q] = H!NoRequest] /\ hLoop' = {}
        /\ UNCHANGED <<hBoot, hPower, hStatus, hMade, hAsked, hCrossed, hEvents>>
    BY <1>2 DEF H!Moved, H!At, H!Answer, H!Set
  <2>2. CASE UNCHANGED <<hSlot, hUnused, hLost>>
    BY <1>0, <2>1, <2>2, HardGoes, HardTyped, HardConstants DEF VolumesAsked
  <2>3. CASE LET r == hReq[q] IN
             /\ hSlot[r.slot] = r.vol /\ hSlot' = [hSlot EXCEPT ![r.slot] = hMade]
             /\ hUnused' = IF r.keep THEN H!Vacated(r.slot) ELSE hUnused
             /\ hLost' = IF r.keep THEN hLost ELSE hLost \union {r.vol}
    <3>1. hReq[q].slot \in H!Slots /\ hMade \in H!Volumes
      BY <1>0, HardRecord, HardTyped
    <3>2. /\ hSlot' \in [H!Slots -> Contents] /\ hUnused' \subseteq H!Volumes
          /\ \A d \in H!Disks : hSlot'[d] # H!Image
      BY <1>0, <2>3, <3>1, SlotChanges, HardConstants, HardTyped
    <3>3. ~hReq[q].keep => hReq[q].vol \in hAsked
      BY <1>0, <2>1 DEF VolumesAsked, Doomed
    <3>4. hLost' \subseteq H!Volumes /\ (Longer = {} => hLost' \subseteq hAsked)
      BY <1>0, <2>3, <3>3, HardTyped DEF VolumesAsked
    <3> QED BY <1>0, <2>1, <3>2, <3>4, HardGoes, HardTyped, HardConstants
  <2> QED BY <1>2, <2>2, <2>3 DEF H!Moved
<1>3. CASE H!Resized(q)
  <2>1. /\ hReq[q].pc = "resize" /\ hReq' = [hReq EXCEPT ![q] = H!NoRequest] /\ hLoop' = {}
        /\ UNCHANGED <<hSlot, hUnused, hBoot, hMade, hLost, hAsked, hStatus, hCrossed, hEvents>>
    BY <1>3 DEF H!Resized, H!At, H!Answer, H!Set, H!hardware
  <2>2. hPower' \in Powers
    BY <1>0, <1>3, HardTyped DEF H!Resized, Powers
  <2> QED BY <1>0, <2>1, <2>2, HardGoes, HardTyped, HardConstants DEF VolumesAsked
<1> QED BY <1>1, <1>2, <1>3

LEMMA ImagesKept ==
    ASSUME HardInv, NEW q \in Requests, H!ChangeImage(q) \/ H!SetBoot(q) \/ H!Control(q)
    PROVE  HardInv'
<1>0. H!TypeOK /\ hReq[q] \in HardRequests /\ VolumesAsked /\ \A s \in H!Disks : hSlot[s] # H!Image
  BY HardRecord DEF HardInv, ImageInDrive
<1>1. CASE H!ChangeImage(q)
  <2>1. PICK in \in BOOLEAN, order \in BOOLEAN :
          /\ hSlot' = [hSlot EXCEPT ![H!Drive] = IF in THEN H!Image ELSE H!NoMedium]
          /\ IF order THEN hReq' = [hReq EXCEPT ![q] = [H!NoRequest EXCEPT !.pc = "read", !.image = in]] ELSE hReq' = hReq
    BY <1>1 DEF H!ChangeImage, H!Set
  <2>2. H!Begins(q) /\ UNCHANGED <<hUnused, hBoot, hPower, hStatus, hLoop, hMade, hLost, hAsked>>
    BY <1>1 DEF H!ChangeImage
  <2>3. /\ hSlot' \in [H!Slots -> Contents] /\ (in => hSlot'[H!Drive] = H!Image)
        /\ \A d \in H!Disks : hSlot'[d] # H!Image
    BY <1>0, <2>1, HardTyped, HardConstants DEF Contents
  <2>4. CASE hReq' = hReq
    <3>1. hReq[q].pc = "idle" /\ hReq' = [hReq EXCEPT ![q] = hReq[q]]
      BY <1>0, <2>2, <2>4, HardTyped DEF H!Begins, H!At
    <3> QED BY <1>0, <2>2, <2>3, <3>1, HardBegins, HardTyped DEF Doomed
  <2>5. CASE hReq' = [hReq EXCEPT ![q] = [H!NoRequest EXCEPT !.pc = "read", !.image = in]]
    <3>1. PICK r : r = [H!NoRequest EXCEPT !.pc = "read", !.image = in]
      OBVIOUS
    <3>2. r \in HardRequests /\ r.pc = "read" /\ ~Doomed(r) /\ r.image = in
      BY <2>1, <3>1, HardConstants DEF HardRequests, Doomed
    <3>3. hReq' = [hReq EXCEPT ![q] = r] /\ (r.image => hSlot'[H!Drive] = H!Image)
      BY <2>3, <2>5, <3>1, <3>2
    <3> QED BY <1>0, <2>2, <2>3, <3>2, <3>3, HardBegins, HardTyped
  <2> QED BY <2>1, <2>4, <2>5
<1>2. CASE H!SetBoot(q)
  <2>1. /\ hReq[q].pc = "read"
        /\ UNCHANGED <<hSlot, hUnused, hPower, hStatus, hLoop, hMade, hLost, hAsked, hCrossed, hEvents>>
    BY <1>2 DEF H!SetBoot, H!At
  <2>2. CASE hReq' = [hReq EXCEPT ![q] = H!NoRequest] /\ UNCHANGED hBoot
    BY <1>0, <2>1, <2>2, HardGoes, HardTyped, HardConstants DEF VolumesAsked
  <2>3. ASSUME NEW b \in H!Orders, hBoot' = b, NEW first,
               first = (IF hReq[q].image THEN {H!Drive} ELSE {}), first # {} => b[1] = H!Drive,
               NEW disks \in SUBSET H!Disks, H!In(b) = disks \union first, disks \union first # {},
               hReq' = [hReq EXCEPT ![q].pc = "look"]
        PROVE  HardInv'
    <3>1. PICK r : r = [hReq[q] EXCEPT !.pc = "look"]
      OBVIOUS
    <3>2. r \in HardRequests /\ ~Doomed(r) /\ r.pc = "look" /\ r.image = hReq[q].image /\ r.image \in BOOLEAN
      BY <3>1, HardRecord
    <3>3. PICK n \in 0..3 : b \in [1..n -> H!Slots]
      BY <2>3 DEF H!Orders
    <3>4. DOMAIN b = 1..n /\ n # 0 /\ 1 \in DOMAIN b
      BY <2>3, <3>3 DEF H!In
    <3>5. b # <<>>
      BY <3>4
    <3>6. ASSUME ~hCrossed PROVE H!FromImage' = r.image
      <4>1. CASE hReq[q].image
        <5>1. hSlot[H!Drive] = H!Image
          BY <2>1, <3>6, <4>1 DEF HardInv, InOrder, Sound
        <5>2. b[1] = H!Drive
          BY <2>3, <4>1
        <5>3. H!FromImage'
          BY <2>1, <2>3, <3>5, <5>1, <5>2 DEF H!FromImage
        <5>4. r.image = TRUE
          BY <3>2, <4>1
        <5> QED BY <5>3, <5>4, Zenon
      <4>2. CASE ~hReq[q].image
        <5>1. b[1] \in H!In(b)
          BY <3>4 DEF H!In
        <5>2. b[1] \in H!Disks
          BY <2>3, <4>2, <5>1
        <5>3. H!FromImage' = FALSE
          BY <1>0, <2>1, <2>3, <5>2 DEF H!FromImage
        <5>4. r.image = FALSE
          BY <3>2, <4>2
        <5> QED BY <5>3, <5>4
      <4> QED BY <4>1, <4>2
    <3>7. ~hCrossed => Sound(r)'
      BY <3>2, <3>6 DEF Sound
    <3>8. hReq' = [hReq EXCEPT ![q] = r]
      BY <2>3, <3>1
    <3> QED BY <1>0, <2>1, <2>3, <3>2, <3>7, <3>8, HardGoes, HardTyped DEF VolumesAsked
  <2>4. PICK disks \in SUBSET H!Disks, first \in {{H!Drive}, {}} :
          /\ first = (IF hReq[q].image THEN {H!Drive} ELSE {})
          /\ IF disks \union first = {} THEN hReq' = [hReq EXCEPT ![q] = H!NoRequest] /\ UNCHANGED hBoot
             ELSE /\ hBoot' \in {b \in H!Orders : /\ H!In(b) = disks \union first
                                                  /\ (first # {} => b[1] = H!Drive) /\ H!Kept(b, disks)}
                  /\ hReq' = [hReq EXCEPT ![q].pc = "look"]
    BY <1>2 DEF H!SetBoot, H!Answer, H!Set, H!GoTo
  <2> QED BY <2>2, <2>3, <2>4
<1>3. CASE H!Control(q)
  <2>1. H!Begins(q) /\ UNCHANGED <<hSlot, hUnused, hBoot, hMade, hLost, hAsked, hReq, hLoop>>
    BY <1>3 DEF H!Control, H!hardware
  <2>2. hPower' \in Powers /\ hStatus' \in {"running", "stopped"}
    BY <1>0, <1>3, HardTyped DEF H!Control, Powers
  <2>3. hReq[q].pc = "idle" /\ hReq' = [hReq EXCEPT ![q] = hReq[q]]
    BY <1>0, <2>1, HardTyped DEF H!Begins, H!At
  <2> QED BY <1>0, <2>1, <2>2, <2>3, HardBegins, HardTyped DEF Doomed
<1> QED BY <1>1, <1>2, <1>3

LEMMA RestartKept ==
    ASSUME HardInv, NEW q \in Requests, H!Look(q) \/ H!Await(q) \/ H!StartAgain(q) \/ H!Restarted(q)
    PROVE  HardInv'
<1>0. H!TypeOK /\ hReq[q] \in HardRequests /\ VolumesAsked /\ \A s \in H!Disks : hSlot[s] # H!Image
  BY HardRecord DEF HardInv, ImageInDrive
<1>1. hReq[q].pc \in {"look", "wait", "wait again", "start", "restarted"}
      /\ UNCHANGED <<hSlot, hUnused, hBoot, hMade, hLost, hAsked, hStatus, hLoop, hCrossed, hEvents>>
  BY DEF H!Look, H!Await, H!StartAgain, H!Restarted, H!At, H!hardware
<1>2. H!FromImage' = H!FromImage /\ (~hCrossed => H!FromImage = hReq[q].image)
  BY <1>1 DEF HardInv, InOrder, Sound, Ordered, H!FromImage
<1>3. CASE hReq' = [hReq EXCEPT ![q] = H!NoRequest] /\ hPower' = hPower
  BY <1>0, <1>1, <1>3, HardGoes, HardTyped, HardConstants DEF VolumesAsked
<1>4. ASSUME NEW pc \in {"wait", "wait again", "start", "restarted"}, hReq' = [hReq EXCEPT ![q].pc = pc],
             hPower' \in Powers, hPower'.on = hPower.on, hPower'.image = hPower.image,
             pc = "start" => ~hPower.on, pc = "restarted" => hReq[q].pc = "start"
      PROVE  HardInv'
  <2>1. PICK r : r = [hReq[q] EXCEPT !.pc = pc]
    OBVIOUS
  <2>2. r \in HardRequests /\ ~Doomed(r) /\ r.pc = pc /\ r.image = hReq[q].image
    BY <2>1, HardRecord, ZenonT(60)
  <2>3. ~hCrossed /\ pc = "restarted" /\ hPower.on => hPower.image = hReq[q].image
    BY <1>4 DEF HardInv, InOrder, Sound
  <2>4. ~hCrossed => Sound(r)'
    BY <1>2, <1>4, <2>2, <2>3 DEF Sound
  <2>5. hReq' = [hReq EXCEPT ![q] = r]
    BY <1>4, <2>1
  <2> QED BY <1>0, <1>1, <1>4, <2>2, <2>4, <2>5, HardGoes, HardTyped DEF VolumesAsked
<1>5. \A t \in {"start", "stop"} : LET x == [hPower EXCEPT !.tasks = hPower.tasks \union {t}] IN
         x \in Powers /\ x.on = hPower.on /\ x.image = hPower.image
  BY <1>0, HardTyped DEF Powers
<1>6. CASE H!Look(q)
  BY <1>0, <1>3, <1>4, <1>5, <1>6, HardTyped DEF H!Look, H!Answer, H!Set, H!GoTo
<1>7. CASE H!Await(q)
  BY <1>0, <1>3, <1>4, <1>5, <1>7, HardTyped DEF H!Await, H!At, H!Answer, H!Set, H!GoTo
<1>8. CASE H!StartAgain(q)
  BY <1>0, <1>3, <1>4, <1>5, <1>8, HardTyped DEF H!StartAgain, H!At, H!Answer, H!Set, H!GoTo
<1>9. CASE H!Restarted(q)
  BY <1>3, <1>9 DEF H!Restarted, H!Answer, H!Set
<1> QED BY <1>6, <1>7, <1>8, <1>9

LEMMA PowerKept ==
    ASSUME HardInv, H!TaskEnds \/ H!GuestStops \/ H!Synchronise
    PROVE  HardInv'
<1>0. H!TypeOK
  BY DEF HardInv
<1>1. CASE H!TaskEnds
  <2>1. UNCHANGED <<hSlot, hUnused, hBoot, hMade, hLost, hAsked, hStatus, hReq, hLoop, hCrossed, hEvents>>
    BY <1>1 DEF H!TaskEnds, H!hardware
  <2>2. PICK rest \in SUBSET {"start", "stop", "restart"} :
          \/ hPower' = [hPower EXCEPT !.tasks = rest]
          \/ hPower' = [on |-> FALSE, image |-> FALSE, tasks |-> rest]
          \/ hPower' = [on |-> TRUE, image |-> H!FromImage, tasks |-> rest]
    <3>1. hPower.tasks \subseteq {"start", "stop", "restart"}
      BY <1>0, HardTyped DEF Powers
    <3> QED BY <1>1, <3>1 DEF H!TaskEnds
  <2>3. H!FromImage \in BOOLEAN
    BY DEF H!FromImage
  <2>4. hPower' \in Powers /\ (hPower'.on => (hPower.on /\ hPower'.image = hPower.image) \/ hPower'.image = H!FromImage)
    <3>1. CASE hPower' = [hPower EXCEPT !.tasks = rest]
      BY <1>0, <3>1, HardTyped DEF Powers
    <3>2. CASE hPower' = [on |-> FALSE, image |-> FALSE, tasks |-> rest]
      BY <3>2 DEF Powers
    <3>3. CASE hPower' = [on |-> TRUE, image |-> H!FromImage, tasks |-> rest]
      BY <2>3, <3>3 DEF Powers
    <3> QED BY <2>2, <3>1, <3>2, <3>3
  <2> QED BY <1>0, <2>1, <2>4, PowerChanges, HardTyped
<1>2. CASE H!GuestStops
  <2>1. UNCHANGED <<hSlot, hUnused, hBoot, hMade, hLost, hAsked, hStatus, hReq, hLoop, hCrossed>>
    BY <1>2 DEF H!GuestStops, H!hardware
  <2>2. hPower' \in Powers /\ ~hPower'.on
    BY <1>0, <1>2, HardTyped DEF H!GuestStops, Powers
  <2>3. hEvents' \in 0..HardwareEvents
    BY <1>0, <1>2, HardTyped, HardConstants DEF H!GuestStops, H!Event
  <2> QED BY <1>0, <2>1, <2>2, <2>3, PowerChanges, HardTyped
<1>3. CASE H!Synchronise
  BY <1>0, <1>3, PowerChanges, HardTyped DEF H!Synchronise, H!hardware
<1> QED BY <1>1, <1>2, <1>3

LEMMA HardKept == HardInv /\ [H!Next]_(H!vars) => HardInv'
<1> SUFFICES ASSUME HardInv, [H!Next]_(H!vars) PROVE HardInv'
  OBVIOUS
<1>1. CASE UNCHANGED H!vars
  BY <1>1, PowerChanges, HardTyped DEF H!vars, HardInv
<1> QED BY <1>1, DisksKept, DisksDone, ImagesKept, RestartKept, PowerKept DEF H!Next

\* A guest the panel says it has restarted does not go on as it was (as long
\* as requests come one after the other).
THEOREM RestartsApply == Spec => [](part = "hardware" => H!RestartApplies)
<1> DEFINE Inv == part = "hardware" => HardInv
<1>1. Init => Inv
  BY HardInit DEF Init
<1>2. Inv /\ [Next]_vars => Inv'
  <2> SUFFICES ASSUME Inv, [Next]_vars, part' = "hardware" PROVE HardInv'
    OBVIOUS
  <2>1. part = "hardware" /\ [H!Next]_(H!vars)
    BY EachOfItsOwn
  <2> QED BY <2>1, HardKept
<1>3. Inv => (part = "hardware" => H!RestartApplies)
  BY DEF HardInv, InOrder, Sound, Ordered, H!RestartApplies, H!At
<1> QED BY <1>1, <1>2, <1>3, PTL DEF Spec

\* When no volume's name continues another's, no volume is destroyed but one
\* that was in a slot to be emptied with it, or moved away for good.
THEOREM VolumesSurvive == Longer = {} => (Spec => [](part = "hardware" => H!VolumesKept))
<1> SUFFICES ASSUME Longer = {} PROVE Spec => [](part = "hardware" => H!VolumesKept)
  OBVIOUS
<1> DEFINE Inv == part = "hardware" => HardInv
<1>1. Init => Inv
  BY HardInit DEF Init
<1>2. Inv /\ [Next]_vars => Inv'
  <2> SUFFICES ASSUME Inv, [Next]_vars, part' = "hardware" PROVE HardInv'
    OBVIOUS
  <2>1. part = "hardware" /\ [H!Next]_(H!vars)
    BY EachOfItsOwn
  <2> QED BY <2>1, HardKept
<1>3. Inv => (part = "hardware" => H!VolumesKept)
  BY DEF HardInv, VolumesAsked, H!VolumesKept
<1> QED BY <1>1, <1>2, <1>3, PTL DEF Spec

-----------------------------------------------------------------------------
(* The settings of a node.                                                 *)
nConf == v1
nLive == v2
nTasks == v3
nRepos == v4
nCert == v5
nReq == v6
nUndone == v7
nDue == v8
nMissed == v9
nQuiet == v10
nKept == v11
nodeEvents == v12

USE DEF nConf, nLive, nTasks, nRepos, nCert, nReq, nUndone, nDue, nMissed, nQuiet, nKept, nodeEvents

Edits == 1..MaxEvents
Shown == [there : BOOLEAN, edits : SUBSET Edits]
Repository == [id : Nat, on : BOOLEAN]
Repositories == Seq(Repository)
Looks == [of : D!Settings \union {"none", "repos"}, seen : SUBSET Edits, list : Repositories,
          digest : BOOLEAN, unread : BOOLEAN]

SettingsTyped ==
    /\ nConf \in [D!Settings -> Shown] /\ nLive \in [D!Staged -> Shown] /\ nTasks \subseteq D!Networks
    /\ nRepos \in Repositories /\ nReq \in [Requests -> Looks]
    /\ nCert \in [stored : Nat, served : Nat] /\ nodeEvents \in 0..MaxEvents

\* The digest of the hosts file goes with its text unless it could not be read.
DigestGoes(f) == f.of = "hosts" => f.digest \/ f.unread
\* What a task of the network puts in force has been asked for.
TasksAsked == \A k \in nTasks : \A s \in D!Of(k) : nConf[s].edits \subseteq nDue
\* The list an administrator looks at begins the one that is there.
Begins(list) == \A i \in DOMAIN list : i \in DOMAIN nRepos /\ list[i].id = nRepos[i].id

\* The inductive invariant.
SettingsInv ==
    /\ SettingsTyped /\ TasksAsked
    /\ \A q \in Requests : DigestGoes(nReq[q]) /\ (nReq[q].of = "repos" => nReq[q].unread \/ Begins(nReq[q].list))
    /\ D!SettingsKept

LEMMA SettingNames ==
    /\ MaxEvents \in Nat
    /\ D!Staged = {"zone", "vnet", "iface"} /\ D!Forms = {"hosts", "dns", "time"}
    /\ D!Settings = {"hosts", "dns", "time", "zone", "vnet", "iface"} /\ D!Networks = {"sdn", "iface"}
    /\ D!Of("sdn") = {"zone", "vnet"} /\ D!Of("iface") = {"iface"}
    /\ D!NoForm \in Looks /\ D!NoForm.of = "none" /\ D!Absent \in Shown /\ D!Absent.edits = {} /\ D!Fresh \in Shown
    /\ D!Fresh.edits = {}
  BY PanelAssumption DEF D!Staged, D!Forms, D!Settings, D!Networks, D!Of, D!NoForm, D!Absent, D!Fresh, Shown, Looks,
     Repositories, Edits

LEMMA SettingsInit == D!Init => SettingsInv
<1> SUFFICES ASSUME D!Init PROVE SettingsInv
  OBVIOUS
<1>1. nConf \in [D!Settings -> Shown] /\ nLive \in [D!Staged -> Shown] /\ \A s \in D!Staged : nLive[s].edits = {}
  BY SettingNames DEF D!Init
<1>2. nRepos \in Repositories /\ nTasks = {} /\ nodeEvents \in 0..MaxEvents
  BY SettingNames DEF D!Init, Repositories, Repository
<1>3. nReq \in [Requests -> Looks] /\ \A q \in Requests : nReq[q].of = "none"
  BY SettingNames DEF D!Init
<1>4. SettingsTyped /\ TasksAsked
  <2>1. nCert \in [stored : Nat, served : Nat]
    BY DEF D!Init, D!None
  <2> QED BY <1>1, <1>2, <1>3, <2>1 DEF SettingsTyped, TasksAsked
<1>5. D!SettingsKept
  BY <1>1 DEF D!Init, D!SettingsKept, D!EditsKept, D!InForceAsked, D!RepositoryMeant, D!CertificateServed
<1> QED BY <1>3, <1>4, <1>5 DEF SettingsInv, DigestGoes

\* What a step that leaves the rest alone has to show.
LEMMA LooksKept ==
    ASSUME SettingsInv, NEW q \in Requests, NEW f \in Looks, DigestGoes(f),
           f.of = "repos" => f.unread \/ Begins(f.list), D!Look(q, f)
    PROVE  SettingsInv'
<1>1. UNCHANGED <<nConf, nLive, nTasks, nRepos, nCert, nUndone, nDue, nMissed, nQuiet, nKept, nodeEvents>>
  BY DEF D!Look, D!network, D!rest
<1>2. nReq' = [nReq EXCEPT ![q] = f]
  BY DEF D!Look
<1>3. nReq' \in [Requests -> Looks] /\ \A p \in Requests : nReq'[p] = IF p = q THEN f ELSE nReq[p]
  BY <1>2 DEF SettingsInv, SettingsTyped
<1>4. SettingsTyped' /\ TasksAsked' /\ D!SettingsKept'
  BY <1>1, <1>3 DEF SettingsInv, SettingsTyped, TasksAsked, D!SettingsKept, D!EditsKept, D!InForceAsked,
     D!RepositoryMeant, D!CertificateServed
<1>5. ASSUME NEW p \in Requests
      PROVE  (DigestGoes(nReq[p]) /\ (nReq[p].of = "repos" => nReq[p].unread \/ Begins(nReq[p].list)))'
  BY <1>1, <1>3 DEF SettingsInv, DigestGoes, Begins
<1> QED BY <1>4, <1>5 DEF SettingsInv, DigestGoes, Begins

LEMMA ReadsKept ==
    ASSUME SettingsInv, NEW q \in Requests,
           D!ReadHosts(q) \/ D!ReadDns(q) \/ D!ReadTime(q) \/ D!ReadZones(q) \/ D!ReadVnets(q)
           \/ D!ReadInterfaces(q) \/ D!Refused(q) \/ D!ReadRepositories(q)
    PROVE  SettingsInv'
<1>0. SettingsTyped /\ nReq[q] \in Looks
  BY DEF SettingsInv, SettingsTyped
<1>1. ASSUME NEW s \in {"dns", "time", "zone", "vnet", "iface"}, D!Read(q, s) PROVE SettingsInv'
  <2>1. PICK f \in Looks : D!Look(q, f) /\ f.of = s
    <3>1. CASE D!Look(q, [D!NoForm EXCEPT !.of = s, !.seen = nConf[s].edits])
      <4>1. [D!NoForm EXCEPT !.of = s, !.seen = nConf[s].edits] \in Looks
        BY <1>0, <1>1, SettingNames DEF Looks, SettingsTyped, Shown
      <4> QED BY <3>1, <4>1, SettingNames DEF Looks
    <3>2. CASE D!Look(q, [D!NoForm EXCEPT !.of = s, !.unread = TRUE])
      <4>1. [D!NoForm EXCEPT !.of = s, !.unread = TRUE] \in Looks
        BY <1>1, SettingNames DEF Looks
      <4> QED BY <3>2, <4>1, SettingNames DEF Looks
    <3> QED BY <1>1, <3>1, <3>2 DEF D!Read
  <2> QED BY <2>1, LooksKept DEF DigestGoes
<1>2. CASE D!ReadHosts(q)
  <2>1. PICK f \in Looks : D!Look(q, f) /\ f.of = "hosts" /\ (f.digest \/ f.unread)
    <3>1. CASE D!Look(q, [D!NoForm EXCEPT !.of = "hosts", !.seen = nConf["hosts"].edits, !.digest = TRUE])
      <4>1. [D!NoForm EXCEPT !.of = "hosts", !.seen = nConf["hosts"].edits, !.digest = TRUE] \in Looks
        BY <1>0, SettingNames DEF Looks, SettingsTyped, Shown
      <4> QED BY <3>1, <4>1, SettingNames DEF Looks
    <3>2. CASE D!Look(q, [D!NoForm EXCEPT !.of = "hosts", !.unread = TRUE])
      <4>1. [D!NoForm EXCEPT !.of = "hosts", !.unread = TRUE] \in Looks
        BY SettingNames DEF Looks
      <4> QED BY <3>2, <4>1, SettingNames DEF Looks
    <3>3. CASE nReq[q].of = "hosts" /\ D!Look(q, [nReq[q] EXCEPT !.digest = FALSE, !.unread = TRUE])
      <4>1. [nReq[q] EXCEPT !.digest = FALSE, !.unread = TRUE] \in Looks
        BY <1>0 DEF Looks
      <4> QED BY <1>0, <3>3, <4>1 DEF Looks
    <3> QED BY <1>2, <3>1, <3>2, <3>3 DEF D!ReadHosts
  <2> QED BY <2>1, LooksKept DEF DigestGoes
<1>3. CASE D!Refused(q)
  <2>1. D!Look(q, D!NoForm)
    BY <1>3 DEF D!Refused
  <2> QED BY <2>1, SettingNames, LooksKept DEF DigestGoes
<1>4. CASE D!ReadRepositories(q)
  <2>1. PICK f \in Looks : D!Look(q, f) /\ f.of = "repos" /\ f.list = nRepos
    <3>1. [D!NoForm EXCEPT !.of = "repos", !.list = nRepos] \in Looks
      BY <1>0, SettingNames DEF Looks, SettingsTyped
    <3> QED BY <1>4, <3>1, SettingNames DEF D!ReadRepositories, Looks
  <2>2. Begins(f.list)
    BY <2>1 DEF Begins
  <2> QED BY <2>1, <2>2, LooksKept DEF DigestGoes
<1> QED BY <1>1, <1>2, <1>3, <1>4 DEF D!ReadDns, D!ReadTime, D!ReadZones, D!ReadVnets, D!ReadInterfaces

\* A form that is sent and taken.
LEMMA FormsKept ==
    ASSUME SettingsInv, NEW q \in Requests,
           D!SetNodeHosts(q) \/ D!SetNodeDns(q) \/ D!SetNodeTimezone(q) \/ D!UpdateZone(q) \/ D!UpdateVnet(q)
           \/ D!UpdateInterface(q)
    PROVE  SettingsInv'
<1>0. SettingsTyped /\ nReq[q] \in Looks /\ MaxEvents \in Nat
  BY SettingNames DEF SettingsInv, SettingsTyped
<1>1. PICK s \in D!Settings :
        /\ nReq[q].of = s /\ D!Event
        /\ s = "hosts" /\ nReq[q].digest => nConf["hosts"].edits = nReq[q].seen
        /\ nConf' = [nConf EXCEPT ![s].edits = nReq[q].seen \union {D!Edit}]
        /\ nDue \subseteq nDue' /\ \A k \in nTasks : s \in D!Of(k) => nReq[q].seen \union {D!Edit} \subseteq nDue'
        /\ D!Undoes(q, s) /\ D!Sent(q)
        /\ UNCHANGED <<nLive, nTasks, nRepos, nCert, nMissed, nQuiet, nKept>>
  <2>1. CASE D!SetNodeHosts(q)
    BY <2>1, SettingNames, <1>0 DEF D!SetNodeHosts, D!rest, SettingsTyped
  <2>2. ASSUME NEW s \in {"dns", "time", "zone", "vnet", "iface"}, D!Update(q, s)
        PROVE  /\ nReq[q].of = s /\ D!Event
               /\ nConf' = [nConf EXCEPT ![s].edits = nReq[q].seen \union {D!Edit}]
               /\ nDue \subseteq nDue' /\ \A k \in nTasks : s \in D!Of(k) => nReq[q].seen \union {D!Edit} \subseteq nDue'
               /\ D!Undoes(q, s) /\ D!Sent(q)
               /\ UNCHANGED <<nLive, nTasks, nRepos, nCert, nMissed, nQuiet, nKept>>
    BY <2>2 DEF D!Update, D!DueNow, D!rest
  <2> QED BY <2>1, <2>2, SettingNames DEF D!SetNodeDns, D!SetNodeTimezone, D!UpdateZone, D!UpdateVnet, D!UpdateInterface
<1>2. D!Edit \in Edits /\ nodeEvents' \in 0..MaxEvents
  BY <1>0, <1>1 DEF D!Event, D!Edit, Edits, SettingsTyped
<1>3. nConf' \in [D!Settings -> Shown] /\ (\A t \in D!Settings \ {s} : nConf'[t] = nConf[t])
      /\ nConf'[s].edits = nReq[q].seen \union {D!Edit}
  BY <1>0, <1>1, <1>2 DEF SettingsTyped, Shown, Looks
<1>4. nReq' \in [Requests -> Looks] /\ \A p \in Requests : nReq'[p] = IF p = q THEN D!NoForm ELSE nReq[p]
  BY <1>0, <1>1, SettingNames DEF D!Sent, SettingsTyped
<1>5. SettingsTyped'
  BY <1>0, <1>1, <1>2, <1>3, <1>4 DEF SettingsTyped
<1>6. TasksAsked'
  <2> SUFFICES ASSUME NEW k \in nTasks, NEW t \in D!Of(k) PROVE nConf'[t].edits \subseteq nDue'
    BY <1>1 DEF TasksAsked
  <2>1. t \in D!Settings
    BY <1>0, SettingNames DEF SettingsTyped
  <2> QED BY <1>1, <1>3, <2>1 DEF SettingsInv, TasksAsked
<1>7. ASSUME NEW p \in Requests
      PROVE  (DigestGoes(nReq[p]) /\ (nReq[p].of = "repos" => nReq[p].unread \/ Begins(nReq[p].list)))'
  BY <1>1, <1>4, SettingNames DEF SettingsInv, DigestGoes, Begins
<1>8. D!EditsKept'
  BY <1>1 DEF SettingsInv, DigestGoes, D!SettingsKept, D!EditsKept, D!Undoes
<1>9. D!InForceAsked'
  BY <1>1 DEF SettingsInv, D!SettingsKept, D!InForceAsked
<1>10. D!RepositoryMeant' /\ D!CertificateServed'
  BY <1>1 DEF SettingsInv, D!SettingsKept, D!RepositoryMeant, D!CertificateServed
<1> QED BY <1>5, <1>6, <1>7, <1>8, <1>9, <1>10 DEF SettingsInv, D!SettingsKept

\* What is staged, applied or taken back leaves the rest alone.
LEMMA StagedChanges ==
    ASSUME SettingsInv, UNCHANGED <<nReq, nUndone, nRepos, nMissed, nKept>>,
           nConf' \in [D!Settings -> Shown], nLive' \in [D!Staged -> Shown], nTasks' \subseteq D!Networks,
           nodeEvents' \in 0..MaxEvents, TasksAsked', D!InForceAsked', nCert' \in [stored : Nat, served : Nat],
           UNCHANGED <<nCert, nQuiet>> \/ nCert'.stored = nCert'.served
    PROVE  SettingsInv'
<1>1. SettingsTyped'
  BY DEF SettingsInv, SettingsTyped
<1>2. D!SettingsKept'
  BY DEF SettingsInv, D!SettingsKept, D!EditsKept, D!RepositoryMeant, D!CertificateServed
<1> QED BY <1>1, <1>2 DEF SettingsInv, DigestGoes, Begins

LEMMA EventCounts ==
    ASSUME SettingsTyped, D!Event
    PROVE  D!Edit \in Edits /\ nodeEvents' \in 0..MaxEvents
  BY SettingNames DEF SettingsTyped, D!Event, D!Edit, Edits

LEMMA StagedKept ==
    ASSUME SettingsInv,
           \/ D!CreateZone \/ D!CreateVnet \/ D!CreateInterface \/ D!DeleteZone \/ D!DeleteVnet \/ D!DeleteInterface
    PROVE  SettingsInv'
<1>0. SettingsTyped /\ TasksAsked /\ D!InForceAsked
  BY DEF SettingsInv, D!SettingsKept
<1>1. ASSUME NEW s \in D!Staged, D!Create(s) PROVE SettingsInv'
  <2>1. /\ D!Event /\ nConf' = [nConf EXCEPT ![s] = [there |-> TRUE, edits |-> {D!Edit}]] /\ D!DueNow(s, {D!Edit})
        /\ UNCHANGED <<nLive, nTasks, nUndone, nReq, nRepos, nMissed, nCert, nQuiet, nKept>>
    BY <1>1 DEF D!Create, D!rest
  <2>2. [there |-> TRUE, edits |-> {D!Edit}] \in Shown
    BY <1>0, <2>1, EventCounts DEF Shown
  <2>3. nConf' \in [D!Settings -> Shown] /\ \A t \in D!Settings :
            nConf'[t] = IF t = s THEN [there |-> TRUE, edits |-> {D!Edit}] ELSE nConf[t]
    BY <1>0, <2>1, <2>2 DEF SettingsTyped
  <2>4. nDue \subseteq nDue' /\ \A k \in nTasks : s \in D!Of(k) => D!Edit \in nDue'
    BY <2>1 DEF D!DueNow
  <2>5. TasksAsked'
    <3> SUFFICES ASSUME NEW k \in nTasks, NEW t \in D!Of(k) PROVE nConf'[t].edits \subseteq nDue'
      BY <2>1 DEF TasksAsked
    <3>1. t \in D!Settings
      BY <1>0, SettingNames DEF SettingsTyped
    <3> QED BY <1>0, <2>3, <2>4, <3>1 DEF TasksAsked
  <2>6. D!InForceAsked'
    BY <1>0, <2>1, <2>4 DEF D!InForceAsked
  <2> QED BY <1>0, <2>1, <2>3, <2>5, <2>6, EventCounts, StagedChanges DEF SettingsTyped
<1>2. ASSUME NEW s \in D!Staged, D!Delete(s) PROVE SettingsInv'
  <2>1. /\ D!Event /\ nConf' = [nConf EXCEPT ![s] = D!Absent]
        /\ UNCHANGED <<nLive, nTasks, nDue, nUndone, nReq, nRepos, nMissed, nCert, nQuiet, nKept>>
    BY <1>2 DEF D!Delete, D!rest
  <2>2. nConf' \in [D!Settings -> Shown] /\ \A t \in D!Settings : nConf'[t] = IF t = s THEN D!Absent ELSE nConf[t]
    BY <1>0, <2>1, SettingNames DEF SettingsTyped
  <2>3. TasksAsked'
    <3> SUFFICES ASSUME NEW k \in nTasks, NEW t \in D!Of(k) PROVE nConf'[t].edits \subseteq nDue'
      BY <2>1 DEF TasksAsked
    <3>1. t \in D!Settings
      BY <1>0, SettingNames DEF SettingsTyped
    <3> QED BY <1>0, <2>1, <2>2, <3>1, SettingNames DEF TasksAsked
  <2>4. D!InForceAsked'
    BY <1>0, <2>1 DEF D!InForceAsked
  <2> QED BY <1>0, <2>1, <2>2, <2>3, <2>4, EventCounts, StagedChanges DEF SettingsTyped
<1> QED
  BY <1>1, <1>2, SettingNames DEF D!CreateZone, D!CreateVnet, D!CreateInterface, D!DeleteZone, D!DeleteVnet,
     D!DeleteInterface

LEMMA AppliedKept ==
    ASSUME SettingsInv,
           D!ApplySdn \/ D!ApplyInterfaces \/ D!Revert \/ D!NodePower \/ \E k \in D!Networks : D!TaskEnds(k)
    PROVE  SettingsInv'
<1>0. SettingsTyped /\ TasksAsked /\ D!InForceAsked
  BY DEF SettingsInv, D!SettingsKept
<1>1. ASSUME NEW k \in D!Networks, D!Apply(k) PROVE SettingsInv'
  <2>1. /\ D!Event /\ nTasks' = nTasks \union {k}
        /\ nDue' = nDue \union UNION {nConf[s].edits : s \in D!Of(k)}
        /\ UNCHANGED <<nConf, nLive, nUndone, nReq, nRepos, nMissed, nCert, nQuiet, nKept>>
    BY <1>1 DEF D!Apply, D!rest
  <2>2. TasksAsked' /\ D!InForceAsked'
    BY <1>0, <2>1 DEF TasksAsked, D!InForceAsked
  <2> QED BY <1>0, <2>1, <2>2, EventCounts, StagedChanges DEF SettingsTyped
<1>2. CASE D!Revert
  <2>1. /\ D!Event /\ nConf' = [nConf EXCEPT !["iface"] = nLive["iface"]]
        /\ UNCHANGED <<nLive, nTasks, nDue, nUndone, nReq, nRepos, nMissed, nCert, nQuiet, nKept>>
    BY <1>2 DEF D!Revert, D!rest
  <2>2. nConf' \in [D!Settings -> Shown] /\ \A t \in D!Settings : nConf'[t] = IF t = "iface" THEN nLive["iface"] ELSE nConf[t]
    BY <1>0, <2>1, SettingNames DEF SettingsTyped
  <2>3. TasksAsked'
    <3> SUFFICES ASSUME NEW k \in nTasks, NEW t \in D!Of(k) PROVE nConf'[t].edits \subseteq nDue'
      BY <2>1 DEF TasksAsked
    <3>1. t \in D!Settings
      BY <1>0, SettingNames DEF SettingsTyped
    <3> QED BY <1>0, <2>1, <2>2, <3>1, SettingNames DEF TasksAsked, D!InForceAsked
  <2>4. D!InForceAsked'
    BY <1>0, <2>1 DEF D!InForceAsked
  <2> QED BY <1>0, <2>1, <2>2, <2>3, <2>4, EventCounts, StagedChanges DEF SettingsTyped
<1>3. CASE D!NodePower
  <2>1. /\ D!Event /\ nLive' = [nLive EXCEPT !["iface"] = nConf["iface"]] /\ nDue' = nDue \union nConf["iface"].edits
        /\ nTasks' = nTasks \ {"iface"}
        /\ UNCHANGED <<nConf, nUndone, nReq, nRepos, nMissed, nQuiet, nKept>>
    BY <1>3 DEF D!NodePower
  <2>2. nCert' = [nCert EXCEPT !.served = nCert.stored]
    BY <1>3 DEF D!NodePower
  <2>3. nLive' \in [D!Staged -> Shown] /\ \A t \in D!Staged : nLive'[t] = IF t = "iface" THEN nConf["iface"] ELSE nLive[t]
    BY <1>0, <2>1, SettingNames DEF SettingsTyped
  <2>4. TasksAsked'
    BY <1>0, <2>1 DEF TasksAsked
  <2>5. D!InForceAsked'
    BY <1>0, <2>1, <2>3 DEF D!InForceAsked
  <2>6. nCert' \in [stored : Nat, served : Nat] /\ nCert'.stored = nCert'.served
    BY <1>0, <2>2 DEF SettingsTyped
  <2> QED BY <1>0, <2>1, <2>3, <2>4, <2>5, <2>6, EventCounts, StagedChanges DEF SettingsTyped
<1>4. ASSUME NEW k \in D!Networks, D!TaskEnds(k) PROVE SettingsInv'
  <2>1. /\ k \in nTasks /\ nTasks' = nTasks \ {k}
        /\ nLive' = [s \in D!Staged |-> IF s \in D!Of(k) THEN nConf[s] ELSE nLive[s]] \/ UNCHANGED nLive
        /\ UNCHANGED <<nConf, nDue, nUndone, nReq, nRepos, nMissed, nCert, nQuiet, nKept, nodeEvents>>
    BY <1>4 DEF D!TaskEnds, D!rest
  <2>2. nLive' \in [D!Staged -> Shown]
    BY <1>0, <2>1, SettingNames DEF SettingsTyped
  <2>3. TasksAsked' /\ D!InForceAsked'
    BY <1>0, <2>1 DEF TasksAsked, D!InForceAsked
  <2> QED BY <1>0, <2>1, <2>2, <2>3, StagedChanges DEF SettingsTyped
<1> QED BY <1>1, <1>2, <1>3, <1>4, SettingNames DEF D!ApplySdn, D!ApplyInterfaces

\* Repositories: what is switched is what the position named when it was read.
LEMMA RepositoriesKept ==
    ASSUME SettingsInv,
           \/ \E q \in Requests, i \in 1..3 : D!SetRepository(q, i)
           \/ D!AddRepository \/ \E i \in 1..3 : D!EditedOnNode(i)
    PROVE  SettingsInv'
<1>0. SettingsTyped /\ nRepos \in Repositories
  BY DEF SettingsInv, SettingsTyped
<1>1. UNCHANGED <<nConf, nLive, nTasks, nDue, nUndone, nCert, nQuiet, nKept>> /\ D!Event
  BY DEF D!SetRepository, D!AddRepository, D!EditedOnNode, D!network
<1>2. ASSUME nRepos' \in Repositories, nReq' \in [Requests -> Looks], D!RepositoryMeant',
             \A p \in Requests :
                (DigestGoes(nReq[p]) /\ (nReq[p].of = "repos" => nReq[p].unread \/ Begins(nReq[p].list)))'
      PROVE  SettingsInv'
  <2>1. SettingsTyped'
    BY <1>0, <1>1, <1>2, EventCounts DEF SettingsTyped
  <2>2. D!SettingsKept' /\ TasksAsked'
    BY <1>1, <1>2 DEF SettingsInv, D!SettingsKept, D!EditsKept, D!InForceAsked, D!CertificateServed, TasksAsked
  <2> QED BY <1>2, <2>1, <2>2 DEF SettingsInv
<1>3. ASSUME NEW q \in Requests, NEW i \in 1..3, D!SetRepository(q, i) PROVE SettingsInv'
  <2>1. /\ nReq[q].of = "repos" /\ i \in DOMAIN nReq[q].list /\ i \in DOMAIN nRepos
        /\ nRepos' = [nRepos EXCEPT ![i].on = ~nReq[q].list[i].on]
        /\ nMissed' = nMissed \union (IF nRepos[i].id = nReq[q].list[i].id THEN {} ELSE {[stale |-> nReq[q].unread]})
        /\ nReq' = [nReq EXCEPT ![q] = D!NoForm]
    BY <1>3 DEF D!SetRepository, D!Reached, D!Sent
  <2>2. nReq[q].list \in Repositories /\ nReq[q].unread \in BOOLEAN
    BY <1>0 DEF SettingsTyped, Looks
  <2>3. nReq[q].list[i] \in Repository /\ nRepos[i] \in Repository
    BY <1>0, <2>1, <2>2 DEF Repositories
  <2>4. nRepos' \in Repositories /\ DOMAIN nRepos' = DOMAIN nRepos /\ \A j \in DOMAIN nRepos : nRepos'[j].id = nRepos[j].id
    <3> DEFINE r == [nRepos[i] EXCEPT !.on = ~nReq[q].list[i].on]
    <3>1. r \in Repository /\ r.id = nRepos[i].id /\ nRepos' = [nRepos EXCEPT ![i] = r]
      BY <2>1, <2>3 DEF Repository
    <3> HIDE DEF r
    <3>2. i \in 1..Len(nRepos)
      BY <1>0, <2>1 DEF Repositories
    <3> QED BY <1>0, <3>1, <3>2, ExceptSeq DEF Repositories
  <2>5. nReq' \in [Requests -> Looks] /\ \A p \in Requests : nReq'[p] = IF p = q THEN D!NoForm ELSE nReq[p]
    BY <1>0, <2>1, SettingNames DEF SettingsTyped
  <2>6. D!RepositoryMeant'
    BY <2>1, <2>2 DEF SettingsInv, D!SettingsKept, D!RepositoryMeant, Begins
  <2>7. ASSUME NEW p \in Requests
        PROVE  (DigestGoes(nReq[p]) /\ (nReq[p].of = "repos" => nReq[p].unread \/ Begins(nReq[p].list)))'
    BY <2>4, <2>5, SettingNames DEF SettingsInv, DigestGoes, Begins
  <2> QED BY <1>2, <2>4, <2>5, <2>6, <2>7
<1>4. CASE D!AddRepository
  <2>1. nRepos' = Append(nRepos, [id |-> 3, on |-> TRUE]) /\ UNCHANGED <<nReq, nMissed>>
    BY <1>4 DEF D!AddRepository
  <2>0. [id |-> 3, on |-> TRUE] \in Repository
    BY DEF Repository
  <2>2. nRepos' \in Repositories /\ DOMAIN nRepos \subseteq DOMAIN nRepos' /\ \A j \in DOMAIN nRepos : nRepos'[j] = nRepos[j]
    BY <1>0, <2>0, <2>1 DEF Repositories
  <2>3. ASSUME NEW p \in Requests
        PROVE  (DigestGoes(nReq[p]) /\ (nReq[p].of = "repos" => nReq[p].unread \/ Begins(nReq[p].list)))'
    BY <2>1, <2>2 DEF SettingsInv, DigestGoes, Begins
  <2>4. D!RepositoryMeant' /\ nReq' \in [Requests -> Looks]
    BY <1>0, <2>1 DEF SettingsInv, SettingsTyped, D!SettingsKept, D!RepositoryMeant
  <2> QED BY <1>2, <2>2, <2>3, <2>4
<1>5. ASSUME NEW i \in 1..3, D!EditedOnNode(i) PROVE SettingsInv'
  <2>1. /\ i \in DOMAIN nRepos /\ nRepos' = D!RemoveAt(nRepos, i) /\ UNCHANGED nMissed
        /\ nReq' = [q \in Requests |-> IF nReq[q].of = "repos" THEN [nReq[q] EXCEPT !.unread = TRUE] ELSE nReq[q]]
    BY <1>5 DEF D!EditedOnNode
  <2>2. nRepos' \in Repositories
    BY <1>0, <2>1 DEF D!RemoveAt, Repositories
  <2>3. nReq' \in [Requests -> Looks] /\ \A p \in Requests :
            nReq'[p] = IF nReq[p].of = "repos" THEN [nReq[p] EXCEPT !.unread = TRUE] ELSE nReq[p]
    BY <1>0, <2>1, ZenonT(60) DEF SettingsTyped, Looks
  <2>4. ASSUME NEW p \in Requests
        PROVE  (DigestGoes(nReq[p]) /\ (nReq[p].of = "repos" => nReq[p].unread \/ Begins(nReq[p].list)))'
    BY <1>0, <2>3 DEF SettingsInv, SettingsTyped, Looks, DigestGoes, Begins
  <2>5. D!RepositoryMeant'
    BY <2>1 DEF SettingsInv, D!SettingsKept, D!RepositoryMeant
  <2> QED BY <1>2, <2>2, <2>3, <2>4, <2>5
<1> QED BY <1>3, <1>4, <1>5

LEMMA CertificateKept ==
    ASSUME SettingsInv,
           \/ \E restart \in BOOLEAN : D!DeleteCertificate(restart) \/ \E force \in BOOLEAN : D!Upload(force, restart)
           \/ D!RestartProxy
    PROVE  SettingsInv'
<1>1. UNCHANGED <<nConf, nLive, nTasks, nDue, nUndone, nReq, nRepos, nMissed>> /\ D!Event
  BY DEF D!DeleteCertificate, D!Upload, D!RestartProxy, D!network
<1>2. D!CertificateServed'
  <2>1. ASSUME NEW restart \in BOOLEAN, D!DeleteCertificate(restart) PROVE D!CertificateServed'
    BY <2>1 DEF D!DeleteCertificate, D!Served, SettingsInv, D!SettingsKept, D!CertificateServed
  <2>2. ASSUME NEW restart \in BOOLEAN, NEW force \in BOOLEAN, D!Upload(force, restart) PROVE D!CertificateServed'
    BY <2>2 DEF D!Upload, D!Served, SettingsInv, D!SettingsKept, D!CertificateServed
  <2>3. CASE D!RestartProxy
    BY <2>3 DEF D!RestartProxy, SettingsInv, D!SettingsKept, D!CertificateServed
  <2> QED BY <2>1, <2>2, <2>3
<1>3. nCert' \in [stored : Nat, served : Nat]
  BY EventCounts DEF D!DeleteCertificate, D!Upload, D!RestartProxy, D!Served, D!None, SettingsInv, SettingsTyped, Edits
<1>4. SettingsTyped' /\ TasksAsked'
  BY <1>1, <1>3, EventCounts DEF SettingsInv, SettingsTyped, TasksAsked
<1> QED BY <1>1, <1>2, <1>4 DEF SettingsInv, DigestGoes, Begins, D!SettingsKept, D!EditsKept, D!InForceAsked, D!RepositoryMeant

LEMMA SettingsInvKept == SettingsInv /\ [D!Next]_(D!vars) => SettingsInv'
<1> SUFFICES ASSUME SettingsInv, [D!Next]_(D!vars) PROVE SettingsInv'
  OBVIOUS
<1>1. CASE UNCHANGED D!vars
  BY <1>1 DEF D!vars, SettingsInv, SettingsTyped, TasksAsked, DigestGoes, Begins, D!SettingsKept, D!EditsKept,
     D!InForceAsked, D!RepositoryMeant, D!CertificateServed
<1> QED BY <1>1, ReadsKept, FormsKept, StagedKept, AppliedKept, RepositoriesKept, CertificateKept DEF D!Next

\* What administrators set on a node stands, is put in force when it is asked
\* for, and reaches what was meant, with the exceptions of SettingsKept.
THEOREM SettingsHold == Spec => [](part = "node" => D!SettingsKept)
<1> DEFINE Inv == part = "node" => SettingsInv
<1>1. Init => Inv
  BY SettingsInit DEF Init
<1>2. Inv /\ [Next]_vars => Inv'
  <2> SUFFICES ASSUME Inv, [Next]_vars, part' = "node" PROVE SettingsInv'
    OBVIOUS
  <2>1. part = "node" /\ [D!Next]_(D!vars)
    BY EachOfItsOwn
  <2> QED BY <2>1, SettingsInvKept
<1>3. Inv => (part = "node" => D!SettingsKept)
  BY DEF SettingsInv
<1> QED BY <1>1, <1>2, <1>3, PTL DEF Spec

-----------------------------------------------------------------------------
(* The templates and the images they are made of.                          *)
tVol == v1
tGuest == v2
tGone == v3
tGroup == v4
tRow == v5
tJob == v6
tCrossed == v7
tConverted == v8
tTold == v9
tCloned == v10
tEvents == v11

USE DEF tVol, tGuest, tGone, tGroup, tRow, tJob, tCrossed, tConverted, tTold, tCloned, tEvents

Ids == 0..(MaxEvents + 1)
Entries == [vmid : T!Vmids, src : Ids]
GuestRecords == [kind : {"none", "importing", "vm", "template"}, id : Ids, img : 0..2]
TemplateRows == [there : BOOLEAN, group : T!Groups, vmid : T!Vmids, src : Ids]
TemplateJobs ==
    [pc : {"idle", "start", "file", "fetch", "create", "wait", "convert", "register", "checked", "listed"},
     op : {"none", "template", "download", "upload", "ungroup", "row", "server", "import"},
     id : 0..MaxEvents, img : T!Images, sum : BOOLEAN, vmid : T!Vmids, src : Ids, row : 0..NRows,
     group : T!Groups, list : SUBSET (Entries \union T!Rows), replaced : BOOLEAN, over : SUBSET {"group", "row"}]

TemplatesTyped ==
    /\ tVol \in [T!Volumes -> 0..2] /\ tGuest \in [T!Vmids -> GuestRecords] /\ tGroup \subseteq T!Groups
    /\ tRow \in [T!Rows -> TemplateRows] /\ tJob \in [Requests -> TemplateJobs] /\ tEvents \in 0..MaxEvents

\* Guests have ids of their own, of events that were, and keep none that is gone.
Old(i) == i \in 1..tEvents \/ i = MaxEvents + 1
GuestsNumbered ==
    /\ \A v \in T!Vmids : /\ tGuest[v].id = 0 \/ Old(tGuest[v].id)
                          /\ tGuest[v].id \notin tGone
                          /\ tGuest[v].kind = "none" => tGuest[v] = T!NoGuest
                          /\ tGuest[v].kind # "none" => tGuest[v].id # 0
    /\ \A v, w \in T!Vmids : v # w /\ tGuest[v].id = tGuest[w].id => tGuest[v].id = 0
    /\ \A i \in tGone : Old(i)

JobsNumbered ==
    /\ \A q \in Requests : tJob[q].pc # "idle" => tJob[q].id \in 1..tEvents
    /\ \A p, q \in Requests :
            p # q /\ tJob[p].pc # "idle" /\ tJob[q].pc # "idle" => tJob[p].id # tJob[q].id

\* The guest i was made a template at the VMID v, where it still is.
Made(v, i) == tGuest[v].id = i /\ tGuest[v].kind = "template"

\* A job that has not created its guest yet: nobody has its id.
Early(j) ==
    j.op = "template" /\ j.pc \in {"start", "fetch", "file", "create"}
    => j.id \notin tGone /\ \A v \in T!Vmids : tGuest[v].id # j.id
\* What a job is about is where it takes it to be, or gone.
Aimed(j) ==
    /\ j.pc = "idle" => j.op = "none"
    /\ j.pc \in {"wait", "convert", "register"} => j.op = "template"
    /\ j.pc \in {"wait", "convert"} => j.id \in tGone \/ tGuest[j.vmid].id = j.id
    /\ j.pc = "register" => j.src \in tGone \/ Made(j.vmid, j.src)
\* The image of a job with a checksum, unless its file was replaced.
Imaged(j) ==
    j.sum /\ ~j.replaced =>
        /\ j.pc \in {"file", "create", "wait", "convert"} => tVol[T!VolumeOf(j.op)] = j.img
        /\ j.pc \in {"wait", "convert"} \/ (j.pc = "register" /\ j.src = j.id) =>
              (tGuest[j.vmid].id = j.id /\ tGuest[j.vmid].kind \in {"vm", "template"} => tGuest[j.vmid].img = j.img)
\* What an import found are templates, or gone.
Found(j) ==
    j.op = "import" =>
        /\ j.list \subseteq Entries
        /\ \A e \in j.list : e.src \in tGone \/ Made(e.vmid, e.src)
        /\ \A d, e \in j.list : d.src = e.src => d = e
\* What a job has read of rows and groups is so until a commit it learns of.
NoRowOf(i) == \A r \in T!Rows : tRow[r].there /\ tRow[r].src = i => i = 0
RowsRead(j) ==
    {"row"} \notin tCrossed /\ "row" \notin j.over =>
        /\ j.pc = "register" => NoRowOf(j.src)
        /\ j.op = "import" => \A e \in j.list : NoRowOf(e.src)
GroupsRead(j) ==
    {"group", "row"} \notin tCrossed =>
        /\ j.op = "ungroup" /\ "row" \notin j.over => T!Empty(j.group)
        /\ j.op = "server" /\ "row" \notin j.over => \A r \in T!Rows : tRow[r].there => r \in j.list
        /\ j.op = "row" /\ "group" \notin j.over => j.group \in tGroup

RowsMade == \A r \in T!Rows :
    tRow[r].there => tRow[r].src = 0 \/ tRow[r].src \in tGone \/ Made(tRow[r].vmid, tRow[r].src)

GuestsSeen == \A q \in Requests : Early(tJob[q]) /\ Aimed(tJob[q]) /\ Found(tJob[q])
ImagesSeen == \A q \in Requests : Imaged(tJob[q])
TablesSeen == \A q \in Requests : RowsRead(tJob[q]) /\ GroupsRead(tJob[q])

\* The inductive invariant.
TemplatesInv ==
    TemplatesTyped /\ GuestsNumbered /\ JobsNumbered /\ RowsMade /\ GuestsSeen /\ ImagesSeen /\ TablesSeen
    /\ T!TemplatesTrue

LEMMA TemplateConstants ==
    /\ MaxEvents \in Nat /\ NVmids \in Nat /\ NRows \in Nat /\ 1 \in T!Vmids
    /\ T!Vmids \subseteq Nat /\ T!Rows \subseteq Nat /\ 0 \notin T!Rows /\ T!Rows = 1..NRows
    /\ T!Groups = {1, 2} /\ T!Images = {1, 2} /\ T!Volumes = {"import", "iso"} /\ T!None = 0
    /\ T!Idle \in TemplateJobs /\ T!Idle.pc = "idle" /\ T!Idle.op = "none" /\ T!Idle.over = {} /\ T!Idle.src = 0
    /\ T!Idle.replaced = FALSE /\ T!Idle.sum = FALSE
    /\ T!NoGuest \in GuestRecords /\ T!NoGuest.kind = "none" /\ T!NoGuest.id = 0
    /\ T!NoRow \in TemplateRows /\ T!NoRow.there = FALSE
    /\ \A op : T!VolumeOf(op) \in T!Volumes
  BY PanelAssumption DEF T!Vmids, T!Rows, T!Groups, T!Images, T!Volumes, T!None, T!Idle, T!NoGuest, T!NoRow,
     TemplateJobs, GuestRecords, TemplateRows, Ids, T!VolumeOf

LEMMA JobTyped ==
    ASSUME TemplatesInv, NEW q \in Requests
    PROVE  tJob[q] \in TemplateJobs
  BY DEF TemplatesInv, TemplatesTyped

LEMMA TemplatesInit == T!Init => TemplatesInv
<1> SUFFICES ASSUME T!Init PROVE TemplatesInv
  OBVIOUS
<1>1. tGuest = [v \in T!Vmids |-> IF v = 1 THEN [kind |-> "template", id |-> MaxEvents + 1, img |-> 0] ELSE T!NoGuest]
      /\ tGone = {} /\ tEvents = 0
  BY TemplateConstants DEF T!Init
<1>2. tGuest \in [T!Vmids -> GuestRecords] /\ GuestsNumbered
  BY <1>1, TemplateConstants DEF GuestRecords, Ids, GuestsNumbered, Old, T!NoGuest
<1>3. tJob = [q \in Requests |-> T!Idle] /\ tRow = [r \in T!Rows |-> T!NoRow]
  BY DEF T!Init
<1>4. TemplatesTyped
  BY <1>1, <1>2, <1>3, TemplateConstants DEF T!Init, TemplatesTyped
<1>5. JobsNumbered /\ RowsMade /\ GuestsSeen /\ ImagesSeen /\ TablesSeen
  BY <1>3, TemplateConstants DEF JobsNumbered, RowsMade, GuestsSeen, ImagesSeen, TablesSeen, Early, Aimed, Found,
     Imaged, RowsRead, GroupsRead
<1>6. T!TemplatesTrue
  BY <1>3, TemplateConstants DEF T!Init, T!TemplatesTrue, T!OwnConverted, T!ImageMeant, T!GroupsThere, T!OneRowEach,
     T!TemplateCloned
<1> QED BY <1>2, <1>4, <1>5, <1>6 DEF TemplatesInv

\* A step of one job that leaves Proxmox and the tables alone.
LEMMA JobSteps ==
    ASSUME TemplatesInv, NEW q \in Requests, NEW j \in TemplateJobs, tJob' = [tJob EXCEPT ![q] = j],
           UNCHANGED <<tVol, tGuest, tGone, tGroup, tRow, tCrossed>>,
           UNCHANGED <<tConverted, tTold, tCloned>> \/ T!TemplatesTrue',
           \/ UNCHANGED tEvents /\ (j.pc # "idle" => tJob[q].pc # "idle" /\ j.id = tJob[q].id)
           \/ tEvents < MaxEvents /\ tEvents' = tEvents + 1 /\ j.id = tEvents',
           Early(j), Aimed(j), Imaged(j), Found(j), RowsRead(j), GroupsRead(j)
    PROVE  TemplatesInv'
<1>1. tJob' \in [Requests -> TemplateJobs] /\ \A p \in Requests : tJob'[p] = IF p = q THEN j ELSE tJob[p]
  BY DEF TemplatesInv, TemplatesTyped
<1>2. tEvents \in 0..MaxEvents /\ tEvents' \in 0..MaxEvents /\ tEvents <= tEvents' /\ MaxEvents \in Nat
  BY TemplateConstants DEF TemplatesInv, TemplatesTyped
<1>3. TemplatesTyped'
  BY <1>1, <1>2 DEF TemplatesInv, TemplatesTyped
<1>4. GuestsNumbered' /\ RowsMade'
  BY <1>2 DEF TemplatesInv, GuestsNumbered, Old, RowsMade, Made
<1>5. JobsNumbered'
  BY <1>1, <1>2 DEF TemplatesInv, JobsNumbered
<1>6. GuestsSeen'
  BY <1>1 DEF TemplatesInv, GuestsSeen, Early, Aimed, Found, Made
<1>7. ImagesSeen'
  BY <1>1 DEF TemplatesInv, ImagesSeen, Imaged
<1>8. TablesSeen'
  BY <1>1 DEF TemplatesInv, TablesSeen, RowsRead, GroupsRead, NoRowOf, T!Empty
<1>9. T!TemplatesTrue'
  BY DEF TemplatesInv, T!TemplatesTrue, T!OwnConverted, T!ImageMeant, T!GroupsThere, T!OneRowEach, T!TemplateCloned
<1> QED BY <1>3, <1>4, <1>5, <1>6, <1>7, <1>8, <1>9 DEF TemplatesInv

\* GoTo and Begin as steps of one job.
LEMMA JobGoes ==
    ASSUME TemplatesInv, NEW q \in Requests, tJob[q].pc # "idle", NEW j \in TemplateJobs, T!GoTo(q, j), j.id = tJob[q].id \/ j.pc = "idle",
           UNCHANGED <<tVol, tGuest, tGone, tGroup, tRow, tConverted, tTold, tCloned>>,
           Early(j), Aimed(j), Imaged(j), Found(j), RowsRead(j), GroupsRead(j)
    PROVE  TemplatesInv'
<1>1. UNCHANGED <<tCrossed, tEvents>> /\ tJob' = [tJob EXCEPT ![q] = j]
  BY DEF T!GoTo
<1> QED BY <1>1, JobSteps

LEMMA JobBegins ==
    ASSUME TemplatesInv, NEW q \in Requests, NEW j, [j EXCEPT !.id = tEvents + 1] \in TemplateJobs \/ j \in TemplateJobs,
           T!Begin(q, j), j.op \in {"template", "download", "upload"} => j.pc = "start",
           j.pc \in {"start", "checked", "listed"}, j.replaced = FALSE, j.over = {},
           UNCHANGED <<tVol, tGuest, tGone, tGroup, tRow, tConverted, tTold, tCloned>>,
           Found(j), RowsRead(j), GroupsRead(j)
    PROVE  TemplatesInv'
<1>0. tEvents \in 0..MaxEvents /\ MaxEvents \in Nat
  BY TemplateConstants DEF TemplatesInv, TemplatesTyped
<1>1. tEvents < MaxEvents /\ tEvents' = tEvents + 1 /\ UNCHANGED tCrossed
      /\ tJob' = [tJob EXCEPT ![q] = [j EXCEPT !.id = tEvents + 1]]
  BY DEF T!Begin, T!Event
<1>2. PICK k : k = [j EXCEPT !.id = tEvents + 1]
  OBVIOUS
<1>3. k \in TemplateJobs /\ k.id = tEvents + 1 /\ k.pc = j.pc /\ k.op = j.op /\ k.list = j.list /\ k.over = {}
      /\ k.src = j.src /\ k.group = j.group /\ k.replaced = FALSE
  BY <1>0, <1>1, <1>2 DEF TemplateJobs
<1>4. Early(k)
  BY <1>0, <1>1, <1>3, TemplateConstants DEF TemplatesInv, GuestsNumbered, Old, Early
<1>5. Aimed(k) /\ Imaged(k)
  BY <1>3 DEF Aimed, Imaged
<1>6. Found(k) /\ RowsRead(k) /\ GroupsRead(k)
  BY <1>3 DEF Found, RowsRead, GroupsRead
<1> QED BY <1>1, <1>2, <1>3, <1>4, <1>5, <1>6, JobSteps

\* The least of a set of numbers.
LEMMA LeastOf ==
    ASSUME NEW nums, nums \subseteq Nat, nums # {}
    PROVE  T!Min(nums) \in nums
<1> DEFINE Less == {ss \in Nat \X Nat : ss[1] < ss[2]}
<1>1. IsWellFoundedOn(Less, Nat)
  BY NatLessThanWellFounded, SMT DEF OpToRel
<1>2. PICK m \in nums : \A y \in nums : ~(<<y, m>> \in Less)
  <2> HIDE DEF Less
  <2> QED BY <1>1, WFMin, Zenon
<1>3. \A y \in nums : ~(y < m)
  BY <1>2
<1>4. \A y \in nums : m <= y
  BY <1>3
<1> QED BY <1>4 DEF T!Min

LEMMA GreatestGroup == T!Max(T!Groups) \in T!Groups
<1>1. 2 \in T!Groups /\ \A g \in T!Groups : 2 >= g
  BY TemplateConstants
<1> QED BY <1>1 DEF T!Max

LEMMA ReadingJobs ==
    ASSUME TemplatesInv, NEW q \in Requests,
           \/ \E op \in {"template", "download", "upload"}, img \in T!Images, sum \in BOOLEAN : T!FetchImage(q, op, img, sum)
           \/ \E g \in T!Groups : T!DeleteGroup(q, g) \/ \E v \in T!Vmids :
                T!CreateTemplate(q, g, v) \/ \E r \in T!Rows : T!UpdateTemplate(q, r, g, v)
           \/ T!DeleteServer(q) \/ T!AutoImport(q)
    PROVE  TemplatesInv'
<1>0. TemplatesTyped
  BY DEF TemplatesInv
<1>1. ASSUME NEW op \in {"template", "download", "upload"}, NEW img \in T!Images, NEW sum \in BOOLEAN,
             T!FetchImage(q, op, img, sum)
      PROVE  TemplatesInv'
  <2>1. PICK j : j = [T!Idle EXCEPT !.pc = "start", !.op = op, !.img = img, !.sum = sum]
    OBVIOUS
  <2>2. j \in TemplateJobs /\ j.pc = "start" /\ j.op = op /\ j.over = {} /\ j.replaced = FALSE
    BY <2>1, TemplateConstants DEF TemplateJobs
  <2>3. T!Begin(q, j) /\ UNCHANGED <<tVol, tGuest, tGone, tGroup, tRow, tConverted, tTold, tCloned>>
    BY <1>1, <2>1 DEF T!FetchImage, T!proxmox, T!tables, T!ghosts
  <2>4. Found(j) /\ RowsRead(j) /\ GroupsRead(j)
    BY <2>2 DEF Found, RowsRead, GroupsRead
  <2> QED BY <2>2, <2>3, <2>4, JobBegins
<1>2. ASSUME NEW g \in T!Groups, T!DeleteGroup(q, g) PROVE TemplatesInv'
  <2>1. PICK j : j = [T!Idle EXCEPT !.pc = "checked", !.op = "ungroup", !.group = g]
    OBVIOUS
  <2>2. j \in TemplateJobs /\ j.pc = "checked" /\ j.op = "ungroup" /\ j.over = {} /\ j.group = g /\ j.replaced = FALSE
    BY <2>1, TemplateConstants DEF TemplateJobs
  <2>3. T!Begin(q, j) /\ T!Empty(g) /\ UNCHANGED <<tVol, tGuest, tGone, tGroup, tRow, tConverted, tTold, tCloned>>
    BY <1>2, <2>1 DEF T!DeleteGroup, T!proxmox, T!tables, T!ghosts
  <2>4. Found(j) /\ RowsRead(j) /\ GroupsRead(j)
    BY <2>2, <2>3 DEF Found, RowsRead, GroupsRead
  <2> QED BY <2>2, <2>3, <2>4, JobBegins
<1>3. ASSUME NEW g \in T!Groups, NEW v \in T!Vmids,
             T!CreateTemplate(q, g, v) \/ \E r \in T!Rows : T!UpdateTemplate(q, r, g, v)
      PROVE  TemplatesInv'
  <2>1. PICK j : /\ j \in TemplateJobs /\ j.pc = "checked" /\ j.op = "row" /\ j.over = {} /\ j.group = g /\ j.replaced = FALSE
                 /\ T!Begin(q, j)
    <3>1. CASE T!CreateTemplate(q, g, v)
      <4>1. PICK j : j = [T!Idle EXCEPT !.pc = "checked", !.op = "row", !.group = g, !.vmid = v]
        OBVIOUS
      <4>2. j \in TemplateJobs /\ j.pc = "checked" /\ j.op = "row" /\ j.over = {} /\ j.group = g /\ j.replaced = FALSE
        BY <4>1, TemplateConstants DEF TemplateJobs
      <4> QED BY <3>1, <4>1, <4>2 DEF T!CreateTemplate
    <3>2. ASSUME NEW r \in T!Rows, T!UpdateTemplate(q, r, g, v)
          PROVE  \E j : /\ j \in TemplateJobs /\ j.pc = "checked" /\ j.op = "row" /\ j.over = {} /\ j.group = g
                        /\ j.replaced = FALSE /\ T!Begin(q, j)
      <4>1. PICK j : j = [T!Idle EXCEPT !.pc = "checked", !.op = "row", !.row = r, !.group = g, !.vmid = v]
        OBVIOUS
      <4>3. r \in 0..NRows
        BY TemplateConstants
      <4>2. j \in TemplateJobs /\ j.pc = "checked" /\ j.op = "row" /\ j.over = {} /\ j.group = g /\ j.replaced = FALSE
        BY <4>1, <4>3, TemplateConstants DEF TemplateJobs
      <4> QED BY <3>2, <4>1, <4>2 DEF T!UpdateTemplate
    <3> QED BY <1>3, <3>1, <3>2
  <2>2. g \in tGroup /\ UNCHANGED <<tVol, tGuest, tGone, tGroup, tRow, tConverted, tTold, tCloned>>
    BY <1>3 DEF T!CreateTemplate, T!UpdateTemplate, T!proxmox, T!tables, T!ghosts
  <2>3. Found(j) /\ RowsRead(j) /\ GroupsRead(j)
    BY <2>1, <2>2 DEF Found, RowsRead, GroupsRead
  <2> QED BY <2>1, <2>2, <2>3, JobBegins
<1>4. CASE T!DeleteServer(q)
  <2>1. PICK j : j = [T!Idle EXCEPT !.pc = "checked", !.op = "server", !.list = {r \in T!Rows : tRow[r].there}]
    OBVIOUS
  <2>2. j \in TemplateJobs /\ j.pc = "checked" /\ j.op = "server" /\ j.over = {} /\ j.list = {r \in T!Rows : tRow[r].there}
        /\ j.replaced = FALSE
    BY <2>1, TemplateConstants DEF TemplateJobs
  <2>3. T!Begin(q, j) /\ UNCHANGED <<tVol, tGuest, tGone, tGroup, tRow, tConverted, tTold, tCloned>>
    BY <1>4, <2>1 DEF T!DeleteServer, T!proxmox, T!tables, T!ghosts
  <2>4. Found(j) /\ RowsRead(j) /\ GroupsRead(j)
    BY <2>2 DEF Found, RowsRead, GroupsRead
  <2> QED BY <2>2, <2>3, <2>4, JobBegins
<1>5. CASE T!AutoImport(q)
  <2> DEFINE found == {[vmid |-> v, src |-> tGuest[v].id] : v \in T!Listed \ T!Added}
  <2>1. PICK j : j = [T!Idle EXCEPT !.pc = "listed", !.op = "import", !.list = found]
    OBVIOUS
  <2>2. found \subseteq Entries
    BY <1>0 DEF Entries, T!Listed, TemplatesTyped, GuestRecords
  <2>3. j \in TemplateJobs /\ j.pc = "listed" /\ j.op = "import" /\ j.over = {} /\ j.list = found /\ j.replaced = FALSE
    BY <2>1, <2>2, TemplateConstants DEF TemplateJobs
  <2>4. T!Begin(q, j) /\ UNCHANGED <<tVol, tGuest, tGone, tGroup, tRow, tConverted, tTold, tCloned>>
    BY <1>5, <2>1 DEF T!AutoImport, T!proxmox, T!tables, T!ghosts
  <2>5. \A e \in found : e.vmid \in T!Vmids \ T!Added /\ Made(e.vmid, e.src) /\ e.src # 0
    BY DEF T!Listed, Made, TemplatesInv, GuestsNumbered
  <2>6. \A d, e \in found : d.src = e.src => d = e
    <3> SUFFICES ASSUME NEW v \in T!Listed \ T!Added, NEW w \in T!Listed \ T!Added, tGuest[v].id = tGuest[w].id PROVE v = w
      OBVIOUS
    <3> QED BY DEF T!Listed, TemplatesInv, GuestsNumbered
  <2>7. \A e \in found : NoRowOf(e.src)
    <3> SUFFICES ASSUME NEW e \in found, NEW r \in T!Rows, tRow[r].there, tRow[r].src = e.src PROVE FALSE
      BY DEF NoRowOf
    <3>1. e.vmid \in T!Vmids \ T!Added /\ tGuest[e.vmid].id = e.src /\ e.src # 0 /\ tRow[r].vmid \in T!Vmids
      BY <1>0, <2>5 DEF Made, TemplatesTyped, TemplateRows
    <3>2. e.src \notin tGone
      BY <3>1 DEF TemplatesInv, GuestsNumbered
    <3>3. tGuest[tRow[r].vmid].id = e.src
      BY <3>1, <3>2 DEF TemplatesInv, RowsMade, Made
    <3>4. tRow[r].vmid = e.vmid
      BY <3>1, <3>3 DEF TemplatesInv, GuestsNumbered
    <3> QED BY <3>1, <3>4 DEF T!Added
  <2> HIDE DEF found
  <2>8. Found(j) /\ RowsRead(j) /\ GroupsRead(j)
    BY <2>2, <2>3, <2>5, <2>6, <2>7 DEF Found, RowsRead, GroupsRead
  <2> QED BY <2>3, <2>4, <2>8, JobBegins
<1> QED BY <1>1, <1>2, <1>3, <1>4, <1>5

\* Steps of a job by itself.
LEMMA WaitingJobs ==
    ASSUME TemplatesInv, NEW q \in Requests, T!TakeVmid(q) \/ T!WaitImport(q) \/ T!Fails(q)
    PROVE  TemplatesInv'
<1>0. tJob[q] \in TemplateJobs /\ Early(tJob[q]) /\ Aimed(tJob[q]) /\ Imaged(tJob[q]) /\ RowsRead(tJob[q]) /\ GroupsRead(tJob[q])
  BY JobTyped DEF TemplatesInv, GuestsSeen, ImagesSeen, TablesSeen
<1>1. UNCHANGED <<tVol, tGuest, tGone, tGroup, tRow, tConverted, tTold, tCloned>>
  BY DEF T!TakeVmid, T!WaitImport, T!Fails, T!proxmox, T!tables, T!ghosts
<1>2. CASE T!TakeVmid(q)
  <2>1. PICK j : j = [tJob[q] EXCEPT !.pc = "create", !.vmid = T!Min(T!Free)]
    OBVIOUS
  <2>2. T!Free \subseteq T!Vmids /\ T!Min(T!Free) \in T!Free
    BY <1>2, LeastOf, TemplateConstants DEF T!TakeVmid, T!Free
  <2>3. tJob[q].pc = "file" /\ tJob[q].op = "template" /\ T!GoTo(q, j)
    BY <1>2, <2>1 DEF T!TakeVmid, T!At
  <2>4. j \in TemplateJobs /\ j.id = tJob[q].id /\ j.pc = "create" /\ j.op = "template" /\ j.img = tJob[q].img
        /\ j.sum = tJob[q].sum /\ j.replaced = tJob[q].replaced
    BY <1>0, <2>1, <2>2, <2>3 DEF TemplateJobs
  <2>5. Early(j) /\ Aimed(j) /\ Imaged(j) /\ Found(j) /\ RowsRead(j) /\ GroupsRead(j)
    BY <1>0, <2>3, <2>4 DEF Early, Aimed, Imaged, Found, RowsRead, GroupsRead
  <2> QED BY <1>1, <2>3, <2>4, <2>5, JobGoes
<1>3. CASE T!WaitImport(q)
  <2>1. PICK j : j = [tJob[q] EXCEPT !.pc = "convert"]
    OBVIOUS
  <2>2. tJob[q].pc = "wait" /\ tJob[q].op = "template" /\ T!GoTo(q, j)
    BY <1>3, <2>1 DEF T!WaitImport, T!At, T!Step
  <2>3. j \in TemplateJobs /\ j.id = tJob[q].id /\ j.pc = "convert" /\ j.op = "template" /\ j.img = tJob[q].img
        /\ j.sum = tJob[q].sum /\ j.replaced = tJob[q].replaced /\ j.vmid = tJob[q].vmid
    BY <1>0, <2>1, <2>2 DEF TemplateJobs
  <2>4. Early(j) /\ Aimed(j) /\ Imaged(j) /\ Found(j) /\ RowsRead(j) /\ GroupsRead(j)
    BY <1>0, <2>2, <2>3 DEF Early, Aimed, Imaged, Found, RowsRead, GroupsRead
  <2> QED BY <1>1, <2>2, <2>3, <2>4, JobGoes
<1>4. CASE T!Fails(q)
  <2>1. tJob[q].pc # "idle" /\ T!GoTo(q, T!Idle)
    BY <1>4 DEF T!Fails
  <2>2. Early(T!Idle) /\ Aimed(T!Idle) /\ Imaged(T!Idle) /\ Found(T!Idle) /\ RowsRead(T!Idle) /\ GroupsRead(T!Idle)
    BY TemplateConstants DEF Early, Aimed, Imaged, Found, RowsRead, GroupsRead
  <2> QED BY <1>1, <2>1, <2>2, TemplateConstants, JobGoes
<1> QED BY <1>2, <1>3, <1>4

\* The file is another from here on: whoever is after it learns of that.
LEMMA FilesReplaced ==
    ASSUME TemplatesInv, NEW q \in Requests, NEW v \in T!Volumes, NEW img \in 0..2, NEW pc \in {"fetch", "file"},
           T!FileBecomes(q, v, img, pc), UNCHANGED <<tGuest, tGone, tGroup, tRow, tConverted, tTold, tCloned>>,
           tJob[q].pc \in {"start", "fetch"}, v = T!VolumeOf(tJob[q].op), pc = "file" => img = tJob[q].img
    PROVE  TemplatesInv'
<1>0. tJob[q] \in TemplateJobs
  BY JobTyped
<1>1. tVol' = [tVol EXCEPT ![v] = img] /\ UNCHANGED <<tCrossed, tEvents>>
      /\ tJob' = [p \in Requests |-> IF p = q THEN [tJob[p] EXCEPT !.pc = pc]
                   ELSE [tJob[p] EXCEPT !.replaced = @ \/ tJob[p].pc \notin {"idle", "start"}]]
  BY DEF T!FileBecomes
<1>2. ASSUME NEW p \in Requests, p # q
      PROVE  /\ tJob[p] \in TemplateJobs /\ tJob'[p] \in TemplateJobs
             /\ \E b \in BOOLEAN : tJob'[p] = [tJob[p] EXCEPT !.replaced = b]
             /\ tJob[p].replaced \/ tJob[p].pc \notin {"idle", "start"} => tJob'[p].replaced
  <2>1. PICK b \in BOOLEAN : b <=> (tJob[p].replaced \/ tJob[p].pc \notin {"idle", "start"})
    OBVIOUS
  <2>2. tJob'[p] = [tJob[p] EXCEPT !.replaced = b]
    BY <1>1, <1>2, <2>1
  <2>3. tJob[p] \in TemplateJobs
    BY JobTyped
  <2>4. tJob'[p] \in TemplateJobs /\ tJob'[p].replaced = b
    BY <2>2, <2>3 DEF TemplateJobs
  <2>5. b = TRUE \/ b = FALSE
    OBVIOUS
  <2> QED BY <2>1, <2>2, <2>3, <2>4, <2>5
<1>3. tJob'[q] = [tJob[q] EXCEPT !.pc = pc] /\ tJob'[q] \in TemplateJobs
  BY <1>0, <1>1 DEF TemplateJobs
<1>4. \A p \in Requests :
        /\ tJob'[p].op = tJob[p].op /\ tJob'[p].id = tJob[p].id /\ tJob'[p].img = tJob[p].img /\ tJob'[p].sum = tJob[p].sum
        /\ tJob'[p].vmid = tJob[p].vmid /\ tJob'[p].src = tJob[p].src /\ tJob'[p].group = tJob[p].group
        /\ tJob'[p].list = tJob[p].list /\ tJob'[p].over = tJob[p].over
        /\ tJob'[p].pc = IF p = q THEN pc ELSE tJob[p].pc
  <2> TAKE p \in Requests
  <2>1. CASE p = q
    BY <1>0, <1>3, <2>1 DEF TemplateJobs
  <2>2. CASE p # q
    <3>1. PICK b \in BOOLEAN : tJob'[p] = [tJob[p] EXCEPT !.replaced = b]
      BY <1>2, <2>2
    <3>2. tJob[p] \in TemplateJobs
      BY JobTyped
    <3> QED BY <2>2, <3>1, <3>2 DEF TemplateJobs
  <2> QED BY <2>1, <2>2
<1>5. TemplatesTyped'
  BY <1>1, <1>2, <1>3 DEF TemplatesInv, TemplatesTyped
<1>6. GuestsNumbered' /\ RowsMade' /\ T!TemplatesTrue'
  BY <1>1 DEF TemplatesInv, GuestsNumbered, Old, RowsMade, Made, T!TemplatesTrue, T!OwnConverted, T!ImageMeant,
     T!GroupsThere, T!OneRowEach, T!TemplateCloned
<1>7. JobsNumbered'
  BY <1>1, <1>4 DEF TemplatesInv, JobsNumbered
<1>8. GuestsSeen'
  BY <1>4 DEF TemplatesInv, GuestsSeen, Early, Aimed, Found, Made
<1>9. ImagesSeen'
  <2> SUFFICES ASSUME NEW p \in Requests PROVE Imaged(tJob[p])'
    BY DEF ImagesSeen
  <2>1. CASE p = q
    <3>1. tVol'[T!VolumeOf(tJob'[q].op)] = img
      BY <1>1, <1>4 DEF TemplatesInv, TemplatesTyped
    <3>2. tJob'[q].pc = "file" => tVol'[T!VolumeOf(tJob'[q].op)] = tJob'[q].img
      BY <1>4, <3>1
    <3> QED BY <1>4, <2>1, <3>2 DEF Imaged, T!VolumeOf
  <2>2. CASE p # q /\ tJob[p].pc \in {"idle", "start"}
    BY <1>4, <2>2 DEF Imaged
  <2>3. CASE p # q /\ tJob[p].pc \notin {"idle", "start"}
    BY <1>2, <2>3 DEF Imaged
  <2> QED BY <2>1, <2>2, <2>3
<1>10. TablesSeen'
  BY <1>1, <1>4 DEF TemplatesInv, TablesSeen, RowsRead, GroupsRead, NoRowOf, T!Empty
<1> QED BY <1>5, <1>6, <1>7, <1>8, <1>9, <1>10 DEF TemplatesInv

LEMMA FetchingJobs ==
    ASSUME TemplatesInv, NEW q \in Requests, T!FindFile(q) \/ T!Fetched(q) \/ T!FileThere(q)
    PROVE  TemplatesInv'
<1>0. /\ tJob[q] \in TemplateJobs /\ Early(tJob[q]) /\ Imaged(tJob[q]) /\ RowsRead(tJob[q]) /\ GroupsRead(tJob[q])
      /\ Found(tJob[q])
  BY JobTyped DEF TemplatesInv, GuestsSeen, ImagesSeen, TablesSeen
<1>1. ASSUME NEW pc \in {"file", "fetch"}, T!Step(q, pc), tJob[q].pc = "start", UNCHANGED tVol, pc = "file" => ~tJob[q].sum,
             UNCHANGED <<tGuest, tGone, tGroup, tRow, tConverted, tTold, tCloned>>
      PROVE  TemplatesInv'
  <2>1. PICK j : j = [tJob[q] EXCEPT !.pc = pc]
    OBVIOUS
  <2>2. T!GoTo(q, j)
    BY <1>1, <2>1 DEF T!Step
  <2>3. /\ j \in TemplateJobs /\ j.id = tJob[q].id /\ j.pc = pc /\ j.op = tJob[q].op /\ j.sum = tJob[q].sum
        /\ j.list = tJob[q].list /\ j.over = tJob[q].over /\ j.group = tJob[q].group
    BY <1>0, <2>1 DEF TemplateJobs
  <2>4. Early(j) /\ Aimed(j) /\ Imaged(j) /\ Found(j) /\ RowsRead(j) /\ GroupsRead(j)
    BY <1>0, <1>1, <2>3 DEF Early, Aimed, Imaged, Found, RowsRead, GroupsRead
  <2> QED BY <1>1, <2>2, <2>3, <2>4, JobGoes
<1>2. CASE T!FindFile(q)
  <2>1. tJob[q].pc = "start" /\ UNCHANGED <<tGuest, tGone, tGroup, tRow, tConverted, tTold, tCloned>>
    BY <1>2 DEF T!FindFile, T!tables, T!ghosts
  <2>2. T!VolumeOf(tJob[q].op) \in T!Volumes
    BY TemplateConstants
  <2>3. CASE T!FileBecomes(q, T!VolumeOf(tJob[q].op), 0, "fetch")
    BY <2>1, <2>2, <2>3, FilesReplaced
  <2>4. CASE ~tJob[q].sum /\ T!Step(q, "file") /\ UNCHANGED tVol
    BY <1>1, <2>1, <2>4
  <2>5. CASE T!Step(q, "fetch") /\ UNCHANGED tVol
    BY <1>1, <2>1, <2>5
  <2> QED BY <1>2, <2>3, <2>4, <2>5, TemplateConstants DEF T!FindFile, T!Trusts
<1>3. CASE T!Fetched(q)
  <2>1. tJob[q].pc = "fetch" /\ T!FileBecomes(q, T!VolumeOf(tJob[q].op), tJob[q].img, "file")
        /\ UNCHANGED <<tGuest, tGone, tGroup, tRow, tConverted, tTold, tCloned>>
    BY <1>3 DEF T!Fetched, T!tables, T!ghosts
  <2>2. T!VolumeOf(tJob[q].op) \in T!Volumes /\ tJob[q].img \in 0..2
    BY <1>0, TemplateConstants DEF TemplateJobs
  <2> QED BY <2>1, <2>2, FilesReplaced
<1>4. CASE T!FileThere(q)
  <2>1. /\ tJob[q].pc = "file" /\ T!GoTo(q, T!Idle) /\ T!Tells(q, tVol[T!VolumeOf(tJob[q].op)] = tJob[q].img)
        /\ UNCHANGED <<tVol, tGuest, tGone, tGroup, tRow, tConverted, tCloned>>
    BY <1>4 DEF T!FileThere, T!proxmox, T!tables
  <2>2. Early(T!Idle) /\ Aimed(T!Idle) /\ Imaged(T!Idle) /\ Found(T!Idle) /\ RowsRead(T!Idle) /\ GroupsRead(T!Idle)
    BY TemplateConstants DEF Early, Aimed, Imaged, Found, RowsRead, GroupsRead
  <2>3. tTold' \subseteq {TRUE}
    BY <1>0, <2>1 DEF T!Tells, Imaged, TemplateJobs, TemplatesInv, T!TemplatesTrue, T!ImageMeant
  <2>4. UNCHANGED <<tCrossed, tEvents>> /\ tJob' = [tJob EXCEPT ![q] = T!Idle]
    BY <2>1 DEF T!GoTo
  <2>5. T!TemplatesTrue'
    BY <2>1, <2>3, <2>4 DEF TemplatesInv, T!TemplatesTrue, T!OwnConverted, T!ImageMeant, T!GroupsThere, T!OneRowEach, T!TemplateCloned
  <2> QED BY <2>1, <2>2, <2>4, <2>5, TemplateConstants, JobSteps
<1> QED BY <1>2, <1>3, <1>4

\* A step of Proxmox: guests keep their ids and templates stay templates, or
\* they are gone.
LEMMA GuestSteps ==
    ASSUME TemplatesInv, tGuest' \in [T!Vmids -> GuestRecords], tEvents' \in 0..MaxEvents, tGone \subseteq tGone',
           tJob' \in [Requests -> TemplateJobs], UNCHANGED <<tVol, tGroup, tRow, tCrossed, tTold, tCloned>>,
           \A v \in T!Vmids : tGuest[v].id # 0 => tGuest'[v].id = tGuest[v].id \/ tGuest[v].id \in tGone',
           \A v \in T!Vmids : tGuest[v].kind = "template" => tGuest'[v].kind = "template" \/ tGuest[v].id \in tGone',
           GuestsNumbered', JobsNumbered', ImagesSeen', T!OwnConverted',
           \A p \in Requests : Early(tJob[p])',
           \A p \in Requests : \/ tJob'[p] = tJob[p]
                               \/ (Aimed(tJob[p]) /\ Found(tJob[p]) /\ RowsRead(tJob[p]) /\ GroupsRead(tJob[p]))'
    PROVE  TemplatesInv'
<1>1. TemplatesTyped'
  BY DEF TemplatesInv, TemplatesTyped
<1>2. \A v \in T!Vmids : \A i : Made(v, i) => (tGuest'[v].id = i /\ tGuest'[v].kind = "template") \/ i \in tGone'
  BY DEF TemplatesInv, GuestsNumbered, Made
<1>3. RowsMade'
  BY <1>2 DEF TemplatesInv, TemplatesTyped, TemplateRows, RowsMade, Made
<1>4. ASSUME NEW p \in Requests PROVE (Aimed(tJob[p]) /\ Found(tJob[p]) /\ RowsRead(tJob[p]) /\ GroupsRead(tJob[p]))'
  <2> SUFFICES ASSUME tJob'[p] = tJob[p] PROVE (Aimed(tJob[p]) /\ Found(tJob[p]) /\ RowsRead(tJob[p]) /\ GroupsRead(tJob[p]))'
    OBVIOUS
  <2>1. tJob[p] \in TemplateJobs /\ tJob[p].vmid \in T!Vmids
    BY JobTyped DEF TemplateJobs
  <2>2. tJob[p].pc # "idle" => tJob[p].id # 0
    BY DEF TemplatesInv, JobsNumbered
  <2>3. Aimed(tJob[p])'
    BY <1>2, <2>1, <2>2 DEF TemplatesInv, GuestsSeen, Aimed, Made
  <2>4. Found(tJob[p])'
    BY <1>2 DEF TemplatesInv, GuestsSeen, Found, Made, Entries
  <2>5. (RowsRead(tJob[p]) /\ GroupsRead(tJob[p]))'
    BY DEF TemplatesInv, TablesSeen, RowsRead, GroupsRead, NoRowOf, T!Empty
  <2> QED BY <2>3, <2>4, <2>5
<1>5. GuestsSeen' /\ TablesSeen'
  BY <1>4 DEF GuestsSeen, TablesSeen
<1>6. T!TemplatesTrue'
  BY DEF TemplatesInv, T!TemplatesTrue, T!OwnConverted, T!ImageMeant, T!GroupsThere, T!OneRowEach, T!TemplateCloned
<1> QED BY <1>1, <1>3, <1>5, <1>6 DEF TemplatesInv

LEMMA EventIsNew ==
    ASSUME TemplatesInv, T!Event
    PROVE  /\ tEvents' = tEvents + 1 /\ tEvents' \in 1..MaxEvents /\ tEvents' \in 0..MaxEvents
           /\ MaxEvents \in Nat /\ tEvents \in Nat /\ tEvents' \in Ids
           /\ tEvents' \notin tGone /\ \A v \in T!Vmids : tGuest[v].id # tEvents'
           /\ \A i : Old(i) => Old(i)'
           /\ \A p \in Requests : tJob[p].pc # "idle" => tJob[p].id # tEvents'
<1>1. tEvents \in 0..MaxEvents /\ MaxEvents \in Nat /\ tEvents < MaxEvents /\ tEvents' = tEvents + 1
  BY TemplateConstants DEF TemplatesInv, TemplatesTyped, T!Event
<1> QED BY <1>1 DEF TemplatesInv, GuestsNumbered, JobsNumbered, Old, Ids

\* Another guest takes a VMID.
LEMMA GuestMadeKept ==
    ASSUME TemplatesInv, NEW v \in T!Vmids, NEW kind \in {"vm", "template"}, T!GuestMade(v, kind)
    PROVE  TemplatesInv'
<1>1. /\ tGuest' = [tGuest EXCEPT ![v] = [kind |-> kind, id |-> tEvents + 1, img |-> T!None]]
      /\ T!Event /\ UNCHANGED <<tVol, tGone, tGroup, tRow, tJob, tCrossed, tConverted, tTold, tCloned>>
      /\ T!Free # {} /\ v = T!Min(T!Free)
  BY DEF T!GuestMade, T!tables, T!ghosts
<1>2. tGuest[v] = T!NoGuest /\ tGuest[v].id = 0 /\ tGuest[v].kind = "none"
  BY <1>1, LeastOf, TemplateConstants DEF T!Free
<1>3. [kind |-> kind, id |-> tEvents + 1, img |-> T!None] \in GuestRecords
  BY <1>1, EventIsNew, TemplateConstants DEF GuestRecords
<1>4. tGuest' \in [T!Vmids -> GuestRecords] /\ \A w \in T!Vmids :
        tGuest'[w] = IF w = v THEN [kind |-> kind, id |-> tEvents + 1, img |-> T!None] ELSE tGuest[w]
  BY <1>1, <1>3 DEF TemplatesInv, TemplatesTyped
<1>5. GuestsNumbered'
  BY <1>1, <1>4, EventIsNew DEF TemplatesInv, GuestsNumbered, Old
<1>6. JobsNumbered'
  BY <1>1, EventIsNew DEF TemplatesInv, JobsNumbered
<1>7. ImagesSeen'
  <2> SUFFICES ASSUME NEW p \in Requests PROVE Imaged(tJob[p])'
    BY DEF ImagesSeen
  <2>1. tJob[p] \in TemplateJobs /\ tJob[p].vmid \in T!Vmids /\ Imaged(tJob[p])
    BY JobTyped DEF TemplateJobs, TemplatesInv, ImagesSeen
  <2> QED BY <1>1, <1>4, <2>1, EventIsNew DEF Imaged, T!VolumeOf
<1>8. ASSUME NEW p \in Requests PROVE Early(tJob[p])'
  BY <1>1, <1>4, EventIsNew DEF TemplatesInv, GuestsSeen, Early
<1>9. T!OwnConverted'
  BY <1>1 DEF TemplatesInv, T!TemplatesTrue, T!OwnConverted
<1>10. tJob' \in [Requests -> TemplateJobs]
  BY <1>1 DEF TemplatesInv, TemplatesTyped
<1> QED BY <1>1, <1>2, <1>4, <1>5, <1>6, <1>7, <1>8, <1>9, <1>10, EventIsNew, GuestSteps

\* A guest is no more.
LEMMA GuestGoneKept ==
    ASSUME TemplatesInv, NEW v \in T!Vmids, tGuest[v].kind # "none", tGuest' = [tGuest EXCEPT ![v] = T!NoGuest],
           tGone' = tGone \union {tGuest[v].id}, T!Event \/ UNCHANGED tEvents,
           UNCHANGED <<tVol, tGroup, tRow, tJob, tCrossed, tConverted, tTold, tCloned>>
    PROVE  TemplatesInv'
<1>1. tGuest' \in [T!Vmids -> GuestRecords] /\ \A w \in T!Vmids : tGuest'[w] = IF w = v THEN T!NoGuest ELSE tGuest[w]
  BY TemplateConstants DEF TemplatesInv, TemplatesTyped
<1>2. tEvents' \in 0..MaxEvents /\ \A i : Old(i) => Old(i)'
  BY EventIsNew DEF TemplatesInv, TemplatesTyped, Old
<1>3. tGuest[v].id # 0 /\ Old(tGuest[v].id)
  BY DEF TemplatesInv, GuestsNumbered
<1>4. GuestsNumbered'
  <2>1. \A w \in T!Vmids : /\ tGuest'[w].id = 0 \/ Old(tGuest[w].id)'
                           /\ tGuest'[w].kind = "none" => tGuest'[w] = T!NoGuest
                           /\ tGuest'[w].kind # "none" => tGuest'[w].id # 0
    BY <1>1, <1>2, TemplateConstants DEF TemplatesInv, GuestsNumbered
  <2>2. \A w \in T!Vmids : tGuest'[w].id \notin tGone'
    <3>1. 0 \notin tGone'
      BY <1>3, TemplateConstants DEF TemplatesInv, GuestsNumbered, Old
    <3> QED BY <1>1, <1>3, <3>1, TemplateConstants DEF TemplatesInv, GuestsNumbered
  <2>3. \A u, w \in T!Vmids : u # w /\ tGuest'[u].id = tGuest'[w].id => tGuest'[u].id = 0
    BY <1>1, TemplateConstants DEF TemplatesInv, GuestsNumbered
  <2>4. \A i \in tGone' : Old(i)'
    BY <1>2, <1>3 DEF TemplatesInv, GuestsNumbered
  <2> QED BY <2>1, <2>2, <2>3, <2>4 DEF GuestsNumbered
<1>5. JobsNumbered'
  BY EventIsNew DEF TemplatesInv, JobsNumbered
<1>6. ImagesSeen'
  <2> SUFFICES ASSUME NEW p \in Requests PROVE Imaged(tJob[p])'
    BY DEF ImagesSeen
  <2>1. tJob[p] \in TemplateJobs /\ tJob[p].vmid \in T!Vmids /\ Imaged(tJob[p])
    BY JobTyped DEF TemplateJobs, TemplatesInv, ImagesSeen
  <2> QED BY <1>1, <2>1, TemplateConstants DEF Imaged, T!VolumeOf
<1>7. ASSUME NEW p \in Requests PROVE Early(tJob[p])'
  <2>1. tJob[p].pc # "idle" => tJob[p].id # 0
    BY DEF TemplatesInv, JobsNumbered
  <2> QED BY <1>1, <2>1, TemplateConstants DEF TemplatesInv, GuestsSeen, Early
<1>8. T!OwnConverted' /\ tJob' \in [Requests -> TemplateJobs]
  BY DEF TemplatesInv, TemplatesTyped, T!TemplatesTrue, T!OwnConverted
<1> QED BY <1>1, <1>2, <1>4, <1>5, <1>6, <1>7, <1>8, GuestSteps

LEMMA ProxmoxSteps ==
    ASSUME TemplatesInv, NEW v \in T!Vmids,
           T!ImportEnds(v) \/ T!GuestDestroyed(v) \/ \E kind \in {"vm", "template"} : T!GuestMade(v, kind)
    PROVE  TemplatesInv'
<1>0. tGuest[v] \in GuestRecords
  BY DEF TemplatesInv, TemplatesTyped
<1>1. CASE T!GuestDestroyed(v)
  <2>1. /\ tGuest[v].kind # "none" /\ T!Event /\ tGuest' = [tGuest EXCEPT ![v] = T!NoGuest]
        /\ tGone' = tGone \union {tGuest[v].id}
        /\ UNCHANGED <<tVol, tGroup, tRow, tJob, tCrossed, tConverted, tTold, tCloned>>
    BY <1>1 DEF T!GuestDestroyed, T!tables, T!ghosts
  <2> QED BY <2>1, GuestGoneKept
<1>2. CASE T!ImportEnds(v)
  <2>1. /\ tGuest[v].kind = "importing"
        /\ UNCHANGED <<tVol, tGroup, tRow, tJob, tCrossed, tConverted, tTold, tCloned, tEvents>>
    BY <1>2 DEF T!ImportEnds, T!tables, T!ghosts
  <2>2. CASE tGuest' = [tGuest EXCEPT ![v] = T!NoGuest] /\ tGone' = tGone \union {tGuest[v].id}
    BY <2>1, <2>2, GuestGoneKept
  <2>3. CASE tGuest' = [tGuest EXCEPT ![v].kind = "vm", ![v].img = tVol["import"]] /\ UNCHANGED tGone
    <3>1. PICK g \in GuestRecords : g = [tGuest[v] EXCEPT !.kind = "vm", !.img = tVol["import"]]
      BY <1>0, TemplateConstants DEF GuestRecords, TemplatesInv, TemplatesTyped
    <3>2. g.id = tGuest[v].id /\ g.kind = "vm" /\ g.img = tVol["import"]
      BY <1>0, <3>1 DEF GuestRecords
    <3>3. tGuest' \in [T!Vmids -> GuestRecords] /\ \A w \in T!Vmids : tGuest'[w] = IF w = v THEN g ELSE tGuest[w]
      BY <2>3, <3>1 DEF TemplatesInv, TemplatesTyped
    <3>4. GuestsNumbered' /\ JobsNumbered'
      BY <2>1, <2>3, <3>2, <3>3 DEF TemplatesInv, GuestsNumbered, Old, JobsNumbered
    <3>5. ImagesSeen'
      <4> SUFFICES ASSUME NEW p \in Requests PROVE Imaged(tJob[p])'
        BY DEF ImagesSeen
      <4>1. tJob[p] \in TemplateJobs /\ tJob[p].vmid \in T!Vmids /\ Imaged(tJob[p])
        BY JobTyped DEF TemplateJobs, TemplatesInv, ImagesSeen
      <4>2. Aimed(tJob[p]) /\ tGuest[v].id \notin tGone
        BY DEF TemplatesInv, GuestsSeen, GuestsNumbered
      <4>3. CASE tJob[p].vmid = v /\ tGuest[v].id = tJob[p].id /\ tJob[p].pc \in {"wait", "convert"}
        BY <2>1, <2>3, <3>2, <3>3, <4>1, <4>2, <4>3 DEF Imaged, Aimed, T!VolumeOf
      <4>5. CASE tJob[p].vmid = v /\ tGuest[v].id = tJob[p].id /\ tJob[p].pc = "register" /\ tJob[p].src = tJob[p].id
        BY <2>1, <4>2, <4>5 DEF Aimed, Made
      <4>4. CASE ~(tJob[p].vmid = v /\ tGuest[v].id = tJob[p].id
                   /\ (tJob[p].pc \in {"wait", "convert"} \/ (tJob[p].pc = "register" /\ tJob[p].src = tJob[p].id)))
        BY <2>1, <2>3, <3>2, <3>3, <4>1, <4>4 DEF Imaged, T!VolumeOf
      <4> QED BY <4>3, <4>4, <4>5
    <3>6. ASSUME NEW p \in Requests PROVE Early(tJob[p])'
      BY <2>1, <2>3, <3>2, <3>3 DEF TemplatesInv, GuestsSeen, Early
    <3>7. T!OwnConverted' /\ tJob' \in [Requests -> TemplateJobs] /\ tEvents' \in 0..MaxEvents
      BY <2>1 DEF TemplatesInv, TemplatesTyped, T!TemplatesTrue, T!OwnConverted
    <3> QED BY <2>1, <2>3, <3>2, <3>3, <3>4, <3>5, <3>6, <3>7, GuestSteps
  <2> QED BY <1>2, <2>2, <2>3 DEF T!ImportEnds
<1> QED BY <1>1, <1>2, GuestMadeKept

LEMMA ImageCreationKept ==
    ASSUME TemplatesInv, NEW q \in Requests, T!CreateVm(q)
    PROVE  TemplatesInv'
<1>0. PICK v : v = tJob[q].vmid
  OBVIOUS
<1>1. /\ tJob[q].op = "template" /\ tJob[q].pc = "create" /\ tGuest[v] = T!NoGuest
      /\ tGuest' = [tGuest EXCEPT ![v] = [kind |-> "importing", id |-> tJob[q].id, img |-> 0]]
      /\ tJob' = [tJob EXCEPT ![q] = [tJob[q] EXCEPT !.pc = "wait"]]
      /\ UNCHANGED <<tVol, tGone, tGroup, tRow, tCrossed, tEvents, tConverted, tTold, tCloned>>
  BY <1>0, TemplateConstants DEF T!CreateVm, T!At, T!Step, T!GoTo, T!tables, T!ghosts
<1>2. tJob[q] \in TemplateJobs /\ v \in T!Vmids /\ tJob[q].id \in 1..tEvents /\ tEvents \in 0..MaxEvents /\ MaxEvents \in Nat
  BY <1>0, <1>1, JobTyped, TemplateConstants DEF TemplateJobs, TemplatesInv, TemplatesTyped, JobsNumbered
<1>3. PICK j \in TemplateJobs : j = [tJob[q] EXCEPT !.pc = "wait"]
  BY <1>2 DEF TemplateJobs
<1>4. /\ j.pc = "wait" /\ j.op = "template" /\ j.id = tJob[q].id /\ j.vmid = v /\ j.sum = tJob[q].sum
      /\ j.replaced = tJob[q].replaced /\ j.img = tJob[q].img
  BY <1>0, <1>1, <1>2, <1>3 DEF TemplateJobs
<1>5. tJob' \in [Requests -> TemplateJobs] /\ \A p \in Requests : tJob'[p] = IF p = q THEN j ELSE tJob[p]
  BY <1>1, <1>3 DEF TemplatesInv, TemplatesTyped
<1>6. PICK g \in GuestRecords : g = [kind |-> "importing", id |-> j.id, img |-> 0]
  <2>1. j.id \in Ids
    BY <1>2, <1>4 DEF Ids
  <2>2. [kind |-> "importing", id |-> j.id, img |-> 0] \in GuestRecords
    BY <2>1 DEF GuestRecords
  <2> QED BY <2>2
<1>7. tGuest' \in [T!Vmids -> GuestRecords] /\ \A w \in T!Vmids : tGuest'[w] = IF w = v THEN g ELSE tGuest[w]
  BY <1>1, <1>4, <1>6 DEF TemplatesInv, TemplatesTyped
<1>8. Early(tJob[q]) /\ tGuest[v].id = 0 /\ tGuest[v].kind = "none"
  BY <1>1, TemplateConstants DEF TemplatesInv, GuestsSeen
<1>9. GuestsNumbered'
  BY <1>1, <1>2, <1>4, <1>6, <1>7, <1>8 DEF TemplatesInv, GuestsNumbered, Old, Early
<1>10. JobsNumbered'
  BY <1>1, <1>4, <1>5 DEF TemplatesInv, JobsNumbered
<1>11. ImagesSeen'
  <2> SUFFICES ASSUME NEW p \in Requests PROVE Imaged(tJob[p])'
    BY DEF ImagesSeen
  <2>1. CASE p = q
    <3>1. Imaged(tJob[q])
      BY DEF TemplatesInv, ImagesSeen
    <3> QED BY <1>1, <1>2, <1>4, <1>5, <1>6, <1>7, <2>1, <3>1 DEF Imaged, T!VolumeOf
  <2>2. CASE p # q
    <3>1. Imaged(tJob[p]) /\ tJob[p] \in TemplateJobs /\ tJob[p].vmid \in T!Vmids
      BY JobTyped DEF TemplatesInv, ImagesSeen, TemplateJobs
    <3>2. tJob[p].pc # "idle" => tJob[p].id # g.id
      BY <1>1, <1>4, <1>6, <2>2 DEF TemplatesInv, JobsNumbered
    <3> QED BY <1>1, <1>5, <1>7, <2>2, <3>1, <3>2 DEF Imaged, T!VolumeOf
  <2> QED BY <2>1, <2>2
<1>12. ASSUME NEW p \in Requests PROVE Early(tJob[p])'
  <2>1. CASE p = q
    BY <1>4, <1>5, <2>1 DEF Early
  <2>2. CASE p # q
    <3>1. tJob[p].pc # "idle" => tJob[p].id # g.id
      BY <1>1, <1>4, <1>6, <2>2 DEF TemplatesInv, JobsNumbered
    <3> QED BY <1>1, <1>5, <1>7, <2>2, <3>1 DEF Early, TemplatesInv, GuestsSeen
  <2> QED BY <2>1, <2>2
<1>13. (Aimed(tJob[q]) /\ Found(tJob[q]) /\ RowsRead(tJob[q]) /\ GroupsRead(tJob[q]))'
  BY <1>2, <1>4, <1>5, <1>6, <1>7 DEF Aimed, Found, RowsRead, GroupsRead
<1>14. T!OwnConverted' /\ tEvents' \in 0..MaxEvents
  BY <1>1 DEF TemplatesInv, TemplatesTyped, T!TemplatesTrue, T!OwnConverted
<1>15. \A w \in T!Vmids : (tGuest[w].id # 0 => tGuest'[w].id = tGuest[w].id)
                          /\ (tGuest[w].kind = "template" => tGuest'[w].kind = "template")
  BY <1>7, <1>8
<1>16. \A p \in Requests : tJob'[p] = tJob[p]
            \/ (Aimed(tJob[p]) /\ Found(tJob[p]) /\ RowsRead(tJob[p]) /\ GroupsRead(tJob[p]))'
  BY <1>5, <1>13
<1> QED BY <1>1, <1>5, <1>7, <1>9, <1>10, <1>11, <1>12, <1>14, <1>15, <1>16, GuestSteps

\* A job converts the guest it takes for its own; of no other has anybody a row.
LEMMA ConversionKept ==
    ASSUME TemplatesInv, NEW q \in Requests, T!Convert(q)
    PROVE  TemplatesInv'
<1>0. PICK v : v = tJob[q].vmid
  OBVIOUS
<1>1. /\ tJob[q].op = "template" /\ tJob[q].pc = "convert" /\ tGuest[v].kind = "vm"
      /\ tGuest' = [tGuest EXCEPT ![v].kind = "template"]
      /\ tConverted' = IF tGuest[v].id = tJob[q].id THEN tConverted ELSE tConverted \union {tJob[q].id \in tGone}
      /\ tJob' = [tJob EXCEPT ![q] = [tJob[q] EXCEPT !.pc = "register", !.src = tGuest[v].id]]
      /\ UNCHANGED <<tVol, tGone, tGroup, tRow, tCrossed, tEvents, tTold, tCloned>>
  BY <1>0 DEF T!Convert, T!At, T!GoTo, T!tables
<1>2. tJob[q] \in TemplateJobs /\ v \in T!Vmids /\ tGuest[v] \in GuestRecords
  BY <1>0, <1>1, JobTyped DEF TemplateJobs, TemplatesInv, TemplatesTyped
<1>3. PICK j \in TemplateJobs : j = [tJob[q] EXCEPT !.pc = "register", !.src = tGuest[v].id]
  BY <1>2 DEF TemplateJobs, GuestRecords
<1>4. /\ j.pc = "register" /\ j.op = "template" /\ j.id = tJob[q].id /\ j.vmid = v /\ j.sum = tJob[q].sum
      /\ j.replaced = tJob[q].replaced /\ j.img = tJob[q].img /\ j.src = tGuest[v].id
  BY <1>0, <1>1, <1>2, <1>3 DEF TemplateJobs
<1>5. tJob' \in [Requests -> TemplateJobs] /\ \A p \in Requests : tJob'[p] = IF p = q THEN j ELSE tJob[p]
  BY <1>1, <1>3 DEF TemplatesInv, TemplatesTyped
<1>6. PICK g \in GuestRecords : g = [tGuest[v] EXCEPT !.kind = "template"]
  BY <1>2 DEF GuestRecords
<1>7. tGuest' \in [T!Vmids -> GuestRecords] /\ \A w \in T!Vmids : tGuest'[w] = IF w = v THEN g ELSE tGuest[w]
  BY <1>1, <1>6 DEF TemplatesInv, TemplatesTyped
<1>8. g.id = tGuest[v].id /\ g.kind = "template" /\ g.img = tGuest[v].img
  BY <1>2, <1>6 DEF GuestRecords
<1>9. GuestsNumbered' /\ JobsNumbered'
  BY <1>1, <1>4, <1>5, <1>7, <1>8 DEF TemplatesInv, GuestsNumbered, Old, JobsNumbered
<1>10. Aimed(tJob[q]) /\ Imaged(tJob[q])
  BY DEF TemplatesInv, GuestsSeen, ImagesSeen
<1>11. ImagesSeen'
  <2> SUFFICES ASSUME NEW p \in Requests PROVE Imaged(tJob[p])'
    BY DEF ImagesSeen
  <2>1. CASE p = q
    BY <1>1, <1>0, <1>2, <1>4, <1>5, <1>7, <1>8, <1>10, <2>1 DEF Imaged, T!VolumeOf
  <2>2. CASE p # q
    <3>1. Imaged(tJob[p]) /\ tJob[p] \in TemplateJobs /\ tJob[p].vmid \in T!Vmids
      BY JobTyped DEF TemplatesInv, ImagesSeen, TemplateJobs
    <3> QED BY <1>1, <1>5, <1>7, <1>8, <2>2, <3>1 DEF Imaged, T!VolumeOf
  <2> QED BY <2>1, <2>2
<1>12. ASSUME NEW p \in Requests PROVE Early(tJob[p])'
  BY <1>1, <1>4, <1>5, <1>7, <1>8 DEF Early, TemplatesInv, GuestsSeen
<1>13. NoRowOf(tGuest[v].id)
  <2> SUFFICES ASSUME NEW r \in T!Rows, tRow[r].there, tRow[r].src = tGuest[v].id, tGuest[v].id # 0 PROVE FALSE
    BY DEF NoRowOf
  <2>1. tGuest[v].id \notin tGone /\ tRow[r].vmid \in T!Vmids
    BY <1>2 DEF TemplatesInv, GuestsNumbered, TemplatesTyped, TemplateRows
  <2>2. Made(tRow[r].vmid, tGuest[v].id)
    BY <2>1 DEF TemplatesInv, RowsMade
  <2>3. tRow[r].vmid = v
    BY <1>2, <2>1, <2>2 DEF TemplatesInv, GuestsNumbered, Made
  <2> QED BY <1>1, <2>2, <2>3 DEF Made
<1>14. (Aimed(tJob[q]) /\ Found(tJob[q]) /\ RowsRead(tJob[q]) /\ GroupsRead(tJob[q]))'
  <2>1. Aimed(tJob[q])' /\ Found(tJob[q])' /\ GroupsRead(tJob[q])'
    BY <1>2, <1>4, <1>5, <1>7, <1>8 DEF Aimed, Found, GroupsRead, Made
  <2>2. RowsRead(tJob[q])'
    BY <1>1, <1>4, <1>5, <1>13 DEF RowsRead, NoRowOf
  <2> QED BY <2>1, <2>2
<1>15. T!OwnConverted' /\ tEvents' \in 0..MaxEvents
  <2>1. tGuest[v].id = tJob[q].id \/ tJob[q].id \in tGone
    BY <1>0, <1>1, <1>10 DEF Aimed
  <2>2. tConverted \subseteq {TRUE} /\ tEvents \in 0..MaxEvents
    BY DEF TemplatesInv, TemplatesTyped, T!TemplatesTrue, T!OwnConverted
  <2> QED BY <1>1, <2>1, <2>2 DEF T!OwnConverted
<1>16. \A w \in T!Vmids : (tGuest[w].id # 0 => tGuest'[w].id = tGuest[w].id)
                          /\ (tGuest[w].kind = "template" => tGuest'[w].kind = "template")
  BY <1>7, <1>8
<1>17. \A p \in Requests : tJob'[p] = tJob[p]
            \/ (Aimed(tJob[p]) /\ Found(tJob[p]) /\ RowsRead(tJob[p]) /\ GroupsRead(tJob[p]))'
  BY <1>5, <1>14
<1> QED BY <1>1, <1>5, <1>7, <1>9, <1>11, <1>12, <1>15, <1>16, <1>17, GuestSteps

\* A commit, and the jobs that learn of it.
LEMMA CommitsKnown ==
    ASSUME TemplatesInv, NEW q \in Requests, NEW k, k = T!Kind(tJob[q].op), k \in {"group", "row"}, T!Done(q), tJob[q].pc # "idle"
    PROVE  /\ UNCHANGED tEvents /\ tJob' \in [Requests -> TemplateJobs] /\ tJob'[q] = T!Idle
           /\ \A p \in Requests \ {q} :
                \/ tJob'[p] = tJob[p] /\ tJob[p].pc = "idle"
                \/ tJob'[p] = [tJob[p] EXCEPT !.over = tJob[p].over \union {k}]
           /\ {"row"} \notin tCrossed' => {"row"} \notin tCrossed /\ (k = "row" => "row" \notin tJob[q].over)
           /\ {"group", "row"} \notin tCrossed' =>
                /\ {"group", "row"} \notin tCrossed
                /\ k = "row" => "group" \notin tJob[q].over
                /\ k = "group" => "row" \notin tJob[q].over
<1>1. /\ tJob' = [p \in Requests |-> CASE p = q -> T!Idle
                                       [] tJob[p].pc = "idle" -> tJob[p]
                                       [] OTHER -> [tJob[p] EXCEPT !.over = @ \union {k}]]
      /\ tCrossed' = tCrossed \union {{k, o} : o \in tJob[q].over} /\ UNCHANGED tEvents
  BY DEF T!Done
<1>2. tJob'[q] = T!Idle /\ \A p \in Requests \ {q} :
        tJob'[p] = IF tJob[p].pc = "idle" THEN tJob[p] ELSE [tJob[p] EXCEPT !.over = @ \union {k}]
  BY <1>1
<1>3. ASSUME NEW p \in Requests PROVE tJob'[p] \in TemplateJobs
  <2>1. tJob[p] \in TemplateJobs
    BY JobTyped
  <2>2. tJob[p].over \union {k} \in SUBSET {"group", "row"}
    BY <2>1 DEF TemplateJobs
  <2>3. [tJob[p] EXCEPT !.over = tJob[p].over \union {k}] \in TemplateJobs
    BY <2>1, <2>2 DEF TemplateJobs
  <2> QED BY <1>2, <2>1, <2>3, TemplateConstants
<1>4. tJob' \in [Requests -> TemplateJobs]
  BY <1>1, <1>3
<1>5. \A o \in tJob[q].over : {k, o} \in tCrossed'
  BY <1>1
<1>6. tCrossed \subseteq tCrossed'
  BY <1>1
<1>7. {"row", "row"} = {"row"} /\ {"row", "group"} = {"group", "row"}
  OBVIOUS
<1> QED BY <1>1, <1>2, <1>4, <1>5, <1>6, <1>7

LEMMA CommitsSeen ==
    ASSUME TemplatesInv, NEW q \in Requests, NEW k \in {"group", "row"}, k = T!Kind(tJob[q].op), T!Done(q), tJob[q].pc # "idle", NEW p \in Requests
    PROVE  \/ tJob'[p].pc = "idle" /\ tJob'[p].op = "none"
           \/ /\ p # q /\ tJob'[p].pc = tJob[p].pc /\ tJob'[p].op = tJob[p].op /\ tJob'[p].id = tJob[p].id
              /\ tJob'[p].img = tJob[p].img /\ tJob'[p].sum = tJob[p].sum /\ tJob'[p].vmid = tJob[p].vmid
              /\ tJob'[p].src = tJob[p].src /\ tJob'[p].group = tJob[p].group /\ tJob'[p].list = tJob[p].list
              /\ tJob'[p].replaced = tJob[p].replaced /\ tJob'[p].over = tJob[p].over \union {k}
<1>1. tJob[p] \in TemplateJobs /\ (tJob[p].pc = "idle" => tJob[p].op = "none")
  BY JobTyped DEF TemplatesInv, GuestsSeen, Aimed
<1>2. CASE p = q
  BY <1>2, CommitsKnown, TemplateConstants
<1>3. CASE p # q /\ tJob'[p] = tJob[p] /\ tJob[p].pc = "idle"
  BY <1>1, <1>3
<1>4. CASE p # q /\ tJob'[p] = [tJob[p] EXCEPT !.over = tJob[p].over \union {k}]
  BY <1>1, <1>4 DEF TemplateJobs
<1> QED BY <1>2, <1>3, <1>4, CommitsKnown

\* Proxmox is left alone by a commit.
LEMMA CommitsAside ==
    ASSUME TemplatesInv, NEW q \in Requests, NEW k \in {"group", "row"}, k = T!Kind(tJob[q].op), T!Done(q), tJob[q].pc # "idle",
           UNCHANGED <<tVol, tGuest, tGone>>
    PROVE  GuestsNumbered' /\ JobsNumbered' /\ GuestsSeen' /\ ImagesSeen'
<1>1. UNCHANGED tEvents
  BY CommitsKnown
<1>2. GuestsNumbered'
  BY <1>1 DEF TemplatesInv, GuestsNumbered, Old
<1>3. JobsNumbered'
  BY <1>1, CommitsSeen DEF TemplatesInv, JobsNumbered
<1>4. GuestsSeen'
  <2> SUFFICES ASSUME NEW p \in Requests PROVE (Early(tJob[p]) /\ Aimed(tJob[p]) /\ Found(tJob[p]))'
    BY DEF GuestsSeen
  <2>1. Early(tJob[p]) /\ Aimed(tJob[p]) /\ Found(tJob[p])
    BY DEF TemplatesInv, GuestsSeen
  <2> QED BY <2>1, CommitsSeen DEF Early, Aimed, Found, Made
<1>5. ImagesSeen'
  <2> SUFFICES ASSUME NEW p \in Requests PROVE Imaged(tJob[p])'
    BY DEF ImagesSeen
  <2>1. Imaged(tJob[p])
    BY DEF TemplatesInv, ImagesSeen
  <2> QED BY <2>1, CommitsSeen DEF Imaged, T!VolumeOf
<1> QED BY <1>2, <1>3, <1>4, <1>5

\* A commit about rows: what others have read of rows holds no longer.
LEMMA RowCommits ==
    ASSUME TemplatesInv, NEW q \in Requests, T!Kind(tJob[q].op) = "row", T!Done(q), tJob[q].pc # "idle",
           UNCHANGED <<tVol, tGuest, tGone, tConverted, tCloned>>, tGroup \subseteq tGroup', tGroup' \subseteq T!Groups,
           tRow' \in [T!Rows -> TemplateRows], RowsMade', T!ImageMeant', T!GroupsThere', T!OneRowEach'
    PROVE  TemplatesInv'
<1>1. GuestsNumbered' /\ JobsNumbered' /\ GuestsSeen' /\ ImagesSeen'
  BY CommitsAside
<1>2. TemplatesTyped'
  BY CommitsKnown DEF TemplatesInv, TemplatesTyped
<1>3. TablesSeen'
  <2> SUFFICES ASSUME NEW p \in Requests PROVE (RowsRead(tJob[p]) /\ GroupsRead(tJob[p]))'
    BY DEF TablesSeen
  <2>1. RowsRead(tJob[p]) /\ GroupsRead(tJob[p])
    BY DEF TemplatesInv, TablesSeen
  <2>2. {"group", "row"} \notin tCrossed' => {"group", "row"} \notin tCrossed
    BY CommitsKnown
  <2>3. CASE tJob'[p].pc = "idle" /\ tJob'[p].op = "none"
    BY <2>3 DEF RowsRead, GroupsRead
  <2>4. CASE tJob'[p].over = tJob[p].over \union {"row"} /\ tJob'[p].op = tJob[p].op /\ tJob'[p].group = tJob[p].group
    BY <2>1, <2>2, <2>4 DEF RowsRead, GroupsRead
  <2> QED BY <2>3, <2>4, CommitsSeen
<1>4. T!TemplatesTrue'
  BY DEF TemplatesInv, T!TemplatesTrue, T!OwnConverted, T!TemplateCloned
<1> QED BY <1>1, <1>2, <1>3, <1>4 DEF TemplatesInv

\* A commit about groups: rows are as they were or no more.
LEMMA GroupCommits ==
    ASSUME TemplatesInv, NEW q \in Requests, T!Kind(tJob[q].op) = "group", T!Done(q), tJob[q].pc # "idle",
           UNCHANGED <<tVol, tGuest, tGone, tConverted, tTold, tCloned>>, tGroup' \subseteq T!Groups,
           tRow' \in [T!Rows -> TemplateRows], \A r \in T!Rows : tRow'[r].there => tRow'[r] = tRow[r], T!GroupsThere'
    PROVE  TemplatesInv'
<1>1. GuestsNumbered' /\ JobsNumbered' /\ GuestsSeen' /\ ImagesSeen'
  BY CommitsAside
<1>2. TemplatesTyped' /\ RowsMade'
  BY CommitsKnown DEF TemplatesInv, TemplatesTyped, RowsMade, Made
<1>3. TablesSeen'
  <2> SUFFICES ASSUME NEW p \in Requests PROVE (RowsRead(tJob[p]) /\ GroupsRead(tJob[p]))'
    BY DEF TablesSeen
  <2>1. RowsRead(tJob[p]) /\ GroupsRead(tJob[p])
    BY DEF TemplatesInv, TablesSeen
  <2>2. /\ {"group", "row"} \notin tCrossed' => {"group", "row"} \notin tCrossed
        /\ {"row"} \notin tCrossed' => {"row"} \notin tCrossed
    BY CommitsKnown
  <2>3. CASE tJob'[p].pc = "idle" /\ tJob'[p].op = "none"
    BY <2>3 DEF RowsRead, GroupsRead
  <2>4. CASE /\ tJob'[p].over = tJob[p].over \union {"group"} /\ tJob'[p].op = tJob[p].op /\ tJob'[p].group = tJob[p].group
             /\ tJob'[p].pc = tJob[p].pc /\ tJob'[p].src = tJob[p].src /\ tJob'[p].list = tJob[p].list
    <3>1. RowsRead(tJob[p])'
      BY <2>1, <2>2, <2>4 DEF RowsRead, NoRowOf
    <3>2. GroupsRead(tJob[p])'
      BY <2>1, <2>2, <2>4 DEF GroupsRead, T!Empty
    <3> QED BY <3>1, <3>2
  <2> QED BY <2>3, <2>4, CommitsSeen
<1>4. T!OneRowEach'
  BY CommitsKnown DEF TemplatesInv, T!TemplatesTrue, T!OneRowEach
<1>5. T!TemplatesTrue'
  BY <1>4 DEF TemplatesInv, T!TemplatesTrue, T!OwnConverted, T!ImageMeant, T!TemplateCloned
<1> QED BY <1>1, <1>2, <1>3, <1>5 DEF TemplatesInv

LEMMA FreeRow == T!FreeRows # {} => T!Min(T!FreeRows) \in T!FreeRows /\ T!Min(T!FreeRows) \in T!Rows
  BY LeastOf, TemplateConstants DEF T!FreeRows

LEMMA RegistrationKept ==
    ASSUME TemplatesInv, NEW q \in Requests, T!Register(q)
    PROVE  TemplatesInv'
<1>0. PICK j : j = tJob[q]
  OBVIOUS
<1>1. /\ j.op = "template" /\ j.pc = "register" /\ T!Done(q) /\ T!Kind(j.op) = "row"
      /\ T!Tells(q, tGuest[j.vmid].img = j.img \/ j.src # j.id \/ tGuest[j.vmid].id # j.id)
      /\ UNCHANGED <<tVol, tGuest, tGone, tConverted, tCloned>>
  BY <1>0 DEF T!Register, T!At, T!proxmox, T!Kind
<1>2. /\ j \in TemplateJobs /\ j.vmid \in T!Vmids /\ j.src \in Ids /\ j.replaced \in BOOLEAN
      /\ Aimed(j) /\ Imaged(j) /\ RowsRead(j)
  BY <1>0, JobTyped DEF TemplateJobs, TemplatesInv, GuestsSeen, ImagesSeen, TablesSeen
<1>3. T!ImageMeant'
  <2>1. CASE j.sum /\ tGuest[j.vmid].img # j.img /\ j.src = j.id /\ tGuest[j.vmid].id = j.id
    <3>1. Made(j.vmid, j.src)
      BY <1>1, <1>2, <2>1 DEF Aimed, TemplatesInv, GuestsNumbered
    <3>2. j.replaced = TRUE
      BY <1>1, <1>2, <2>1, <3>1 DEF Imaged, Made
    <3> QED BY <1>0, <1>1, <3>2 DEF T!Tells, TemplatesInv, T!TemplatesTrue, T!ImageMeant
  <2>2. CASE ~(j.sum /\ tGuest[j.vmid].img # j.img /\ j.src = j.id /\ tGuest[j.vmid].id = j.id)
    BY <1>0, <1>1, <2>2 DEF T!Tells, TemplatesInv, T!TemplatesTrue, T!ImageMeant
  <2> QED BY <2>1, <2>2
<1>4. CASE UNCHANGED <<tGroup, tRow>>
  <2>1. RowsMade' /\ tGroup' \subseteq T!Groups /\ tRow' \in [T!Rows -> TemplateRows]
    BY <1>1, <1>4 DEF TemplatesInv, TemplatesTyped, RowsMade, Made
  <2>2. T!GroupsThere' /\ T!OneRowEach'
    BY <1>0, <1>1, <1>4, CommitsKnown DEF TemplatesInv, T!TemplatesTrue, T!GroupsThere, T!OneRowEach
  <2> QED BY <1>0, <1>1, <1>3, <1>4, <2>1, <2>2, RowCommits
<1>5. CASE T!FreeRows # {} /\ tGroup' = tGroup \union {T!Max(T!Groups)}
           /\ tRow' = [tRow EXCEPT ![T!Min(T!FreeRows)] =
                        [there |-> TRUE, group |-> T!Max(T!Groups), vmid |-> j.vmid, src |-> j.src]]
  <2>0. PICK new : new = [there |-> TRUE, group |-> T!Max(T!Groups), vmid |-> j.vmid, src |-> j.src]
    OBVIOUS
  <2>1. PICK s \in T!Rows : s = T!Min(T!FreeRows)
    BY <1>5, FreeRow
  <2>2. new \in TemplateRows
    BY <1>2, <2>0, GreatestGroup DEF TemplateRows
  <2>3. tRow' \in [T!Rows -> TemplateRows] /\ \A r \in T!Rows : tRow'[r] = IF r = s THEN new ELSE tRow[r]
    BY <1>5, <2>0, <2>1, <2>2 DEF TemplatesInv, TemplatesTyped
  <2>4. tGroup \subseteq tGroup' /\ tGroup' \subseteq T!Groups /\ new.group \in tGroup'
    BY <1>5, <2>0, GreatestGroup DEF TemplatesInv, TemplatesTyped
  <2>5. RowsMade'
    BY <1>1, <1>2, <2>0, <2>3 DEF TemplatesInv, RowsMade, Aimed, Made
  <2>6. T!GroupsThere'
    BY <1>0, <1>1, <2>3, <2>4, CommitsKnown DEF TemplatesInv, T!TemplatesTrue, T!GroupsThere
  <2>7. T!OneRowEach'
    <3>1. {"row"} \notin tCrossed' => {"row"} \notin tCrossed /\ NoRowOf(j.src)
      BY <1>0, <1>1, <1>2, CommitsKnown DEF RowsRead
    <3> QED BY <2>0, <2>3, <3>1, TemplateConstants DEF TemplatesInv, T!TemplatesTrue, T!OneRowEach, NoRowOf
  <2> QED BY <1>0, <1>1, <1>3, <2>3, <2>4, <2>5, <2>6, <2>7, RowCommits
<1> QED BY <1>0, <1>4, <1>5 DEF T!Register, T!tables

LEMMA EditedRowKept ==
    ASSUME TemplatesInv, NEW q \in Requests, T!CommitTemplate(q)
    PROVE  TemplatesInv'
<1>0. PICK j : j = tJob[q]
  OBVIOUS
<1>1. PICK s : s = IF j.row = T!None THEN T!Min(T!FreeRows) ELSE j.row
  OBVIOUS
<1>2. /\ j.op = "row" /\ j.pc = "checked" /\ T!Done(q) /\ T!Kind(j.op) = "row"
      /\ IF j.row = T!None THEN T!FreeRows # {} ELSE tRow[s].there
      /\ tRow' = [tRow EXCEPT ![s] = [there |-> TRUE, group |-> j.group, vmid |-> j.vmid,
                     src |-> IF tRow[s].there /\ tRow[s].vmid = j.vmid THEN tRow[s].src ELSE T!None]]
      /\ UNCHANGED <<tVol, tGuest, tGone, tGroup, tConverted, tTold, tCloned>>
  BY <1>0, <1>1 DEF T!CommitTemplate, T!At, T!proxmox, T!ghosts, T!Kind
<1>3. j \in TemplateJobs /\ j.vmid \in T!Vmids /\ j.group \in T!Groups /\ j.row \in 0..NRows /\ GroupsRead(j)
  BY <1>0, JobTyped DEF TemplateJobs, TemplatesInv, TablesSeen
<1>4. s \in T!Rows
  BY <1>1, <1>2, <1>3, FreeRow, TemplateConstants
<1>5. PICK src : src = IF tRow[s].there /\ tRow[s].vmid = j.vmid THEN tRow[s].src ELSE 0
  OBVIOUS
<1>6. PICK new : new = [there |-> TRUE, group |-> j.group, vmid |-> j.vmid, src |-> src]
  OBVIOUS
<1>7. src \in Ids
  BY <1>4, <1>5, TemplateConstants DEF Ids, TemplatesInv, TemplatesTyped, TemplateRows
<1>8. new \in TemplateRows
  BY <1>3, <1>6, <1>7 DEF TemplateRows
<1>9. tRow' \in [T!Rows -> TemplateRows] /\ \A r \in T!Rows : tRow'[r] = IF r = s THEN new ELSE tRow[r]
  BY <1>2, <1>4, <1>5, <1>6, <1>8, TemplateConstants DEF TemplatesInv, TemplatesTyped
<1>10. RowsMade'
  BY <1>2, <1>4, <1>5, <1>6, <1>9 DEF TemplatesInv, RowsMade, Made
<1>11. T!GroupsThere'
  <2>1. {"group", "row"} \notin tCrossed' => {"group", "row"} \notin tCrossed /\ j.group \in tGroup
    BY <1>0, <1>2, <1>3, CommitsKnown DEF GroupsRead
  <2> QED BY <1>2, <1>6, <1>9, <2>1 DEF TemplatesInv, T!TemplatesTrue, T!GroupsThere
<1>12. T!OneRowEach'
  <2>1. {"row"} \notin tCrossed' => {"row"} \notin tCrossed
    BY <1>0, <1>2, CommitsKnown
  <2> QED BY <1>4, <1>5, <1>6, <1>9, <2>1, TemplateConstants DEF TemplatesInv, T!TemplatesTrue, T!OneRowEach
<1>13. T!ImageMeant' /\ tGroup \subseteq tGroup' /\ tGroup' \subseteq T!Groups
  BY <1>2 DEF TemplatesInv, TemplatesTyped, T!TemplatesTrue, T!ImageMeant
<1> QED BY <1>0, <1>2, <1>9, <1>10, <1>11, <1>12, <1>13, RowCommits

LEMMA ImportedRowsKept ==
    ASSUME TemplatesInv, NEW q \in Requests, T!CommitAutoImport(q)
    PROVE  TemplatesInv'
<1>0. PICK j : j = tJob[q]
  OBVIOUS
<1>1. PICK at : at = CHOOSE f \in T!Places(j.list) : TRUE
  OBVIOUS
<1>2. PICK made : made = [r \in {at[e] : e \in j.list} |-> CHOOSE e \in j.list : at[e] = r]
  OBVIOUS
<1>3. /\ j.op = "import" /\ j.pc = "listed" /\ T!Done(q) /\ T!Kind(j.op) = "row" /\ T!Places(j.list) # {}
      /\ tRow' = [r \in T!Rows |-> IF r \in DOMAIN made
                     THEN [there |-> TRUE, group |-> T!Max(T!Groups), vmid |-> made[r].vmid, src |-> made[r].src]
                     ELSE tRow[r]]
      /\ tGroup' = tGroup \union {T!Max(T!Groups)}
      /\ UNCHANGED <<tVol, tGuest, tGone, tConverted, tTold, tCloned>>
  BY <1>0, <1>1, <1>2 DEF T!CommitAutoImport, T!At, T!proxmox, T!ghosts, T!Kind
<1>4. Found(j) /\ RowsRead(j)
  BY <1>0 DEF TemplatesInv, GuestsSeen, TablesSeen
<1>5. \A r \in DOMAIN made : made[r] \in j.list /\ at[made[r]] = r
  BY <1>2
<1>6. \A r \in DOMAIN made : made[r].vmid \in T!Vmids /\ made[r].src \in Ids
  BY <1>3, <1>4, <1>5 DEF Found, Entries
<1>7. \A r \in T!Rows :
        /\ r \in DOMAIN made => tRow'[r].there /\ tRow'[r].group = T!Max(T!Groups) /\ tRow'[r].vmid = made[r].vmid
                                /\ tRow'[r].src = made[r].src
        /\ r \notin DOMAIN made => tRow'[r] = tRow[r]
  BY <1>3
<1>8. tRow' \in [T!Rows -> TemplateRows]
  BY <1>3, <1>6, GreatestGroup DEF TemplatesInv, TemplatesTyped, TemplateRows
<1>9. tGroup \subseteq tGroup' /\ tGroup' \subseteq T!Groups /\ T!Max(T!Groups) \in tGroup'
  BY <1>3, GreatestGroup DEF TemplatesInv, TemplatesTyped
<1>10. RowsMade'
  BY <1>3, <1>4, <1>5, <1>7 DEF TemplatesInv, RowsMade, Found, Made
<1>11. T!GroupsThere'
  BY <1>0, <1>3, <1>7, <1>9, CommitsKnown DEF TemplatesInv, T!TemplatesTrue, T!GroupsThere
<1>12. T!OneRowEach'
  <2> SUFFICES ASSUME {"row"} \notin tCrossed', NEW r \in T!Rows, NEW s \in T!Rows, r # s, tRow'[r].there, tRow'[s].there,
                      tRow'[r].src = tRow'[s].src
               PROVE  tRow'[r].src = 0
    BY TemplateConstants DEF T!OneRowEach
  <2>1. {"row"} \notin tCrossed /\ \A e \in j.list : NoRowOf(e.src)
    BY <1>0, <1>3, <1>4, CommitsKnown DEF RowsRead
  <2>2. CASE r \in DOMAIN made /\ s \in DOMAIN made
    BY <1>3, <1>4, <1>5, <1>7, <2>2 DEF Found
  <2>3. CASE r \in DOMAIN made /\ s \notin DOMAIN made
    BY <1>5, <1>7, <2>1, <2>3 DEF NoRowOf
  <2>4. CASE r \notin DOMAIN made /\ s \in DOMAIN made
    BY <1>5, <1>7, <2>1, <2>4 DEF NoRowOf
  <2>5. CASE r \notin DOMAIN made /\ s \notin DOMAIN made
    BY <1>7, <2>1, <2>5, TemplateConstants DEF TemplatesInv, T!TemplatesTrue, T!OneRowEach
  <2> QED BY <2>2, <2>3, <2>4, <2>5
<1>13. T!ImageMeant'
  BY <1>3 DEF TemplatesInv, T!TemplatesTrue, T!ImageMeant
<1> QED BY <1>0, <1>3, <1>8, <1>9, <1>10, <1>11, <1>12, <1>13, RowCommits

LEMMA GroupsGoneKept ==
    ASSUME TemplatesInv, NEW q \in Requests, T!CommitDeleteGroup(q) \/ T!CommitDeleteServer(q)
    PROVE  TemplatesInv'
<1>0. GroupsRead(tJob[q]) /\ tGroup \subseteq T!Groups /\ tRow \in [T!Rows -> TemplateRows]
  BY DEF TemplatesInv, TemplatesTyped, TablesSeen
<1>1. CASE T!CommitDeleteGroup(q)
  <2>1. /\ tJob[q].op = "ungroup" /\ tJob[q].pc = "checked" /\ T!Done(q) /\ T!Kind(tJob[q].op) = "group"
        /\ tGroup' = tGroup \ {tJob[q].group}
        /\ UNCHANGED <<tVol, tGuest, tGone, tRow, tConverted, tTold, tCloned>>
    BY <1>1 DEF T!CommitDeleteGroup, T!At, T!proxmox, T!ghosts, T!Kind
  <2>2. T!GroupsThere'
    <3>1. {"group", "row"} \notin tCrossed' => {"group", "row"} \notin tCrossed /\ T!Empty(tJob[q].group)
      BY <1>0, <2>1, CommitsKnown DEF GroupsRead
    <3> QED BY <2>1, <3>1 DEF TemplatesInv, T!TemplatesTrue, T!GroupsThere, T!Empty
  <2> QED BY <1>0, <2>1, <2>2, GroupCommits
<1>2. CASE T!CommitDeleteServer(q)
  <2>1. /\ tJob[q].op = "server" /\ tJob[q].pc = "checked" /\ T!Done(q) /\ T!Kind(tJob[q].op) = "group"
        /\ tGroup' = {} /\ tRow' = [r \in T!Rows |-> IF r \in tJob[q].list THEN T!NoRow ELSE tRow[r]]
        /\ UNCHANGED <<tVol, tGuest, tGone, tConverted, tTold, tCloned>>
    BY <1>2 DEF T!CommitDeleteServer, T!At, T!proxmox, T!ghosts, T!Kind
  <2>2. tRow' \in [T!Rows -> TemplateRows] /\ \A r \in T!Rows : tRow'[r].there => tRow'[r] = tRow[r] /\ r \notin tJob[q].list
    BY <1>0, <2>1, TemplateConstants
  <2>3. T!GroupsThere'
    <3>1. {"group", "row"} \notin tCrossed' => \A r \in T!Rows : tRow[r].there => r \in tJob[q].list
      BY <1>0, <2>1, CommitsKnown DEF GroupsRead
    <3> QED BY <2>2, <3>1 DEF T!GroupsThere
  <2> QED BY <2>1, <2>2, <2>3, GroupCommits
<1> QED BY <1>1, <1>2

\* What is done at once.
LEMMA EditedAtOnce ==
    ASSUME TemplatesInv,
           \/ \E g \in T!Groups : T!CreateGroup(g)
           \/ \E r \in T!Rows : T!DeleteTemplate(r) \/ T!Clone(r)
    PROVE  TemplatesInv'
<1>1. T!Event /\ UNCHANGED <<tVol, tGuest, tGone, tJob, tCrossed, tConverted, tTold>>
  BY DEF T!CreateGroup, T!DeleteTemplate, T!Clone, T!proxmox, T!tables, T!ghosts
<1>2. /\ tGroup \subseteq tGroup' /\ tGroup' \subseteq T!Groups /\ tRow' \in [T!Rows -> TemplateRows]
      /\ \A r \in T!Rows : tRow'[r].there => tRow'[r] = tRow[r]
  BY TemplateConstants DEF T!CreateGroup, T!DeleteTemplate, T!Clone, T!tables, TemplatesInv, TemplatesTyped
<1>3. T!TemplateCloned'
  <2>1. CASE UNCHANGED tCloned
    BY <1>1, <2>1 DEF TemplatesInv, T!TemplatesTrue, T!TemplateCloned
  <2>2. ASSUME NEW r \in T!Rows, T!Clone(r) PROVE T!TemplateCloned'
    BY <1>1, <2>2, TemplateConstants DEF T!Clone, TemplatesInv, RowsMade, Made, T!TemplatesTrue, T!TemplateCloned
  <2> QED BY <2>1, <2>2 DEF T!CreateGroup, T!DeleteTemplate, T!ghosts
<1>4. TemplatesTyped' /\ GuestsNumbered' /\ JobsNumbered'
  BY <1>1, <1>2, EventIsNew DEF TemplatesInv, TemplatesTyped, GuestsNumbered, JobsNumbered, Old
<1>5. RowsMade' /\ GuestsSeen' /\ ImagesSeen'
  BY <1>1, <1>2 DEF TemplatesInv, RowsMade, GuestsSeen, ImagesSeen, Early, Aimed, Found, Imaged, Made, T!VolumeOf
<1>6. TablesSeen'
  BY <1>1, <1>2 DEF TemplatesInv, TablesSeen, RowsRead, GroupsRead, NoRowOf, T!Empty
<1>7. T!TemplatesTrue'
  BY <1>1, <1>2, <1>3 DEF TemplatesInv, T!TemplatesTrue, T!OwnConverted, T!ImageMeant, T!GroupsThere, T!OneRowEach
<1> QED BY <1>4, <1>5, <1>6, <1>7 DEF TemplatesInv

LEMMA TemplatesKept == TemplatesInv /\ [T!Next]_(T!vars) => TemplatesInv'
<1> SUFFICES ASSUME TemplatesInv, [T!Next]_(T!vars) PROVE TemplatesInv'
  OBVIOUS
<1>1. CASE UNCHANGED T!vars
  <2>1. UNCHANGED <<tVol, tGuest, tGone, tGroup, tRow, tJob, tCrossed, tConverted, tTold, tCloned, tEvents>>
    BY <1>1 DEF T!vars
  <2>2. (TemplatesTyped /\ GuestsNumbered /\ JobsNumbered /\ RowsMade)'
    BY <2>1 DEF TemplatesInv, TemplatesTyped, GuestsNumbered, JobsNumbered, RowsMade, Old, Made
  <2>3. (GuestsSeen /\ ImagesSeen)'
    BY <2>1 DEF TemplatesInv, GuestsSeen, ImagesSeen, Early, Aimed, Found, Imaged, Made, T!VolumeOf
  <2>4. TablesSeen'
    BY <2>1 DEF TemplatesInv, TablesSeen, RowsRead, GroupsRead, NoRowOf, T!Empty
  <2>5. T!TemplatesTrue'
    BY <2>1 DEF TemplatesInv, T!TemplatesTrue, T!OwnConverted, T!ImageMeant, T!GroupsThere, T!OneRowEach, T!TemplateCloned
  <2> QED BY <2>2, <2>3, <2>4, <2>5 DEF TemplatesInv
<1> QED BY <1>1, ReadingJobs, WaitingJobs, FetchingJobs, ImageCreationKept, ConversionKept, RegistrationKept, EditedRowKept,
           ImportedRowsKept, GroupsGoneKept, EditedAtOnce, ProxmoxSteps DEF T!Next

\* Templates are what they are taken for, with the exceptions of TemplatesTrue.
THEOREM TemplatesHold == Spec => [](part = "templates" => T!TemplatesTrue)
<1> DEFINE Inv == part = "templates" => TemplatesInv
<1>1. Init => Inv
  BY TemplatesInit DEF Init
<1>2. Inv /\ [Next]_vars => Inv'
  <2> SUFFICES ASSUME Inv, [Next]_vars, part' = "templates" PROVE TemplatesInv'
    OBVIOUS
  <2>1. part = "templates" /\ [T!Next]_(T!vars)
    BY EachOfItsOwn
  <2> QED BY <2>1, TemplatesKept
<1>3. Inv => (part = "templates" => T!TemplatesTrue)
  BY DEF TemplatesInv
<1> QED BY <1>1, <1>2, <1>3, PTL DEF Spec

-----------------------------------------------------------------------------
(* The administration of networks, pools and addresses.                    *)
wNet == v1
wPool == v2
wAlloc == v3
wGuest == v4
wReq == v5
wCrossed == v6
wBySdn == v7
wLost == v8
wUnforced == v9
wEvents == v10
USE DEF wNet, wPool, wAlloc, wGuest, wReq, wCrossed, wBySdn, wLost, wUnforced, wEvents

NetRows == [state : {"new", "there", "gone"}, cidr : {1, 2}, ws : {0, 1}, default : BOOLEAN, server : BOOLEAN]
PoolRows == [net : 0..NNets, lo : W!Addrs, hi : W!Addrs]
AddressRows == [net : 0..NNets, pool : 0..NPools, guest : Guests \union {0}]
AddressUsers == [real : BOOLEAN, row : BOOLEAN, addr : 0..NAddrs]
NetRequests ==
    [pc : {"idle", "checked", "flushed", "called", "listed"},
     op : {"none", "create", "update", "subnet", "delete", "drop", "create pool", "update pool", "delete pool",
           "allocate", "link", "cleanup"},
     n : 0..NNets, p : 0..NPools, a : 0..NAddrs, g : Guests \union {0}, new : NetRows, range : PoolRows,
     sets : SUBSET {"ws", "default"}, cleared : SUBSET W!Nets, rows : SUBSET W!Addrs, cached : SUBSET Guests,
     force : BOOLEAN, over : SUBSET {"network", "delete", "pool", "address"}]

NetworksTyped ==
    /\ wNet \in [W!Nets -> NetRows] /\ wPool \in [W!Pools -> PoolRows] /\ wAlloc \in [W!Addrs -> AddressRows]
    /\ wGuest \in [Guests -> AddressUsers] /\ wReq \in [Requests -> NetRequests] /\ wEvents \in 0..MaxEvents

\* What requests of each kind are about.
Shaped(r) ==
    /\ r.pc = "idle" => r = W!NoRequest
    /\ r.pc = "flushed" => r.op \in {"create", "update", "subnet"}
    /\ r.op = "update" => r.n \in W!Nets
    /\ r.op \in {"create", "subnet"} => r.n = 0
    /\ r.op = "subnet" => ~r.new.default
    /\ r.op = "delete" => r.n \in W!Nets
    /\ r.op = "allocate" => r.n \in W!Nets /\ r.a \in W!Addrs /\ r.g \in Guests
    /\ r.op = "link" => r.n \in W!Nets /\ r.g \in Guests
    /\ r.op \in {"create pool", "update pool"} => r.range.net \in W!Nets
    /\ r.op = "create pool" => r.p = 0
    /\ r.op \in {"update pool", "delete pool"} => r.p \in W!Pools

\* What a request has read holds until a commit of the kind it learns of.
NetworksRead(r) ==
    "network" \notin r.over =>
        /\ r.op = "create" \/ (r.op = "subnet" /\ r.pc = "flushed")
           => \A n \in W!Nets : W!There(n) => wNet[n].cidr # r.new.cidr
        /\ r.op = "update" /\ W!There(r.n)
           => /\ "ws" \notin r.sets => wNet[r.n].ws = r.new.ws
              /\ "default" \notin r.sets => wNet[r.n].default = r.new.default
        /\ r.pc = "flushed" /\ r.new.default /\ r.new.ws # 0
           => \A n \in W!Nets :
                 W!There(n) /\ n # r.n /\ wNet[n].ws = r.new.ws /\ wNet[n].default => n \in r.cleared
PoolsRead(r) ==
    "pool" \notin r.over /\ r.op \in {"create pool", "update pool"} =>
        \A p \in W!Pools :
            p # r.p /\ wPool[p].net = r.range.net => r.range.hi < wPool[p].lo \/ wPool[p].hi < r.range.lo
NetworkStays(r) ==
    "delete" \notin r.over =>
        /\ r.op = "create pool" => W!There(r.range.net)
        /\ r.op \in {"allocate", "link"} => W!There(r.n)
AddressesRead(r) ==
    "address" \notin r.over =>
        /\ r.op = "delete" => r.force \/ \A a \in W!Addrs : wAlloc[a].net # r.n
        /\ r.op = "cleanup" => \A a \in r.rows : wAlloc[a].guest \notin r.cached

AllRead == \A q \in Requests :
    Shaped(wReq[q]) /\ NetworksRead(wReq[q]) /\ PoolsRead(wReq[q]) /\ NetworkStays(wReq[q]) /\ AddressesRead(wReq[q])

\* A guest that runs, or is about to, has the row of its address while no row
\* was taken from any.
UsersHaveRows == \A g \in Guests :
    /\ wGuest[g].real => wGuest[g].addr # 0
    /\ wLost = {} /\ wGuest[g].addr # 0 /\ (wGuest[g].real \/ ~wGuest[g].row) => wAlloc[wGuest[g].addr].guest = g

\* The inductive invariant.
NetworksInv ==
    NetworksTyped /\ AllRead /\ UsersHaveRows
    /\ W!NetworksApart /\ W!PoolsApart /\ W!NothingLeftBehind /\ W!GuestsKeepAddresses

LEMMA NetworkConstants ==
    /\ NNets \in Nat \ {0} /\ NPools \in Nat \ {0} /\ NAddrs \in Nat \ {0}
    /\ Guests \subseteq Nat /\ Guests # {} /\ 0 \notin Guests
    /\ W!Nets = 1..NNets /\ W!Pools = 1..NPools /\ W!Addrs = 1..NAddrs /\ W!None = 0 /\ W!Cidrs = {1, 2}
    /\ 1 \in W!Nets /\ 1 \in W!Pools /\ 1 \in W!Addrs /\ 0 \notin W!Nets /\ 0 \notin W!Pools /\ 0 \notin W!Addrs
    /\ W!Nets \subseteq 0..NNets /\ W!Pools \subseteq 0..NPools /\ W!Addrs \subseteq 0..NAddrs
    /\ W!NoNet \in NetRows /\ W!NoNet.state = "new" /\ ~W!NoNet.default /\ W!NoNet.ws = 0
    /\ W!NoPool \in PoolRows /\ W!NoPool.net = 0
    /\ W!NoRow \in AddressRows /\ W!NoRow.net = 0 /\ W!NoRow.guest = 0
    /\ W!NoGuest \in AddressUsers /\ ~W!NoGuest.real /\ W!NoGuest.addr = 0
<1>1. /\ NNets \in Nat \ {0} /\ NPools \in Nat \ {0} /\ NAddrs \in Nat \ {0}
      /\ Guests \subseteq Nat /\ Guests # {} /\ 0 \notin Guests
  BY PanelAssumption
<1> QED BY <1>1 DEF W!Nets, W!Pools, W!Addrs, W!None, W!Cidrs, W!NoNet, W!NoPool, W!NoRow, W!NoGuest, NetRows, PoolRows,
     AddressRows, AddressUsers

LEMMA NothingAsked ==
    /\ W!NoRequest \in NetRequests /\ W!NoRequest.pc = "idle" /\ W!NoRequest.op = "none"
    /\ W!NoRequest.n = 0 /\ W!NoRequest.p = 0 /\ W!NoRequest.over = {}
    /\ Shaped(W!NoRequest)
<1>1. /\ W!NoRequest \in NetRequests /\ W!NoRequest.pc = "idle" /\ W!NoRequest.op = "none"
      /\ W!NoRequest.n = 0 /\ W!NoRequest.p = 0 /\ W!NoRequest.over = {}
  BY NetworkConstants DEF W!NoRequest, NetRequests
<1> QED BY <1>1 DEF Shaped

\* The least of a set of numbers.
LEMMA LeastNumber ==
    ASSUME NEW nums, nums \subseteq Nat, nums # {}
    PROVE  W!Min(nums) \in nums
<1> DEFINE Less == {ss \in Nat \X Nat : ss[1] < ss[2]}
<1>1. IsWellFoundedOn(Less, Nat)
  BY NatLessThanWellFounded, SMT DEF OpToRel
<1>2. PICK m \in nums : \A y \in nums : ~(<<y, m>> \in Less)
  <2> HIDE DEF Less
  <2> QED BY <1>1, WFMin, Zenon
<1>3. \A y \in nums : ~(y < m)
  BY <1>2
<1>4. \A y \in nums : m <= y
  BY <1>3
<1> QED BY <1>4 DEF W!Min

LEMMA NetworksInit == W!Init => NetworksInv
<1> SUFFICES ASSUME W!Init PROVE NetworksInv
  OBVIOUS
<1>1. W!Min(Guests) \in Guests
  BY LeastNumber, NetworkConstants
<1>2. PICK first \in Guests : first = W!Min(Guests)
  BY <1>1
<1>3. /\ wReq = [q \in Requests |-> W!NoRequest] /\ wCrossed = {} /\ wBySdn = {} /\ wLost = {} /\ wUnforced = FALSE
      /\ wEvents = 0
  BY DEF W!Init
<1>4. wNet \in [W!Nets -> NetRows] /\ \A n \in W!Nets : wNet[n].state = "there" <=> n = 1
  BY NetworkConstants DEF W!Init, NetRows
<1>5. /\ wPool \in [W!Pools -> PoolRows] /\ \A p \in W!Pools : wPool[p].net = IF p = 1 THEN 1 ELSE 0
  BY NetworkConstants DEF W!Init, PoolRows
<1>6. /\ wAlloc \in [W!Addrs -> AddressRows] /\ wAlloc[1].guest = first
      /\ \A a \in W!Addrs : wAlloc[a].net = IF a = 1 THEN 1 ELSE 0
  BY <1>2, NetworkConstants DEF W!Init, AddressRows
<1>7. /\ wGuest \in [Guests -> AddressUsers] /\ wGuest[first].addr = 1 /\ wGuest[first].real
      /\ \A g \in Guests : g # first => ~wGuest[g].real /\ wGuest[g].addr = 0
  BY <1>2, NetworkConstants DEF W!Init, AddressUsers
<1>8. NetworksTyped
  BY <1>3, <1>4, <1>5, <1>6, <1>7, NothingAsked, PanelAssumption DEF NetworksTyped
<1>9. AllRead
  BY <1>3, NothingAsked DEF AllRead, NetworksRead, PoolsRead, NetworkStays, AddressesRead
<1>10. UsersHaveRows
  BY <1>6, <1>7 DEF UsersHaveRows
<1>11. W!NetworksApart /\ W!PoolsApart
  BY <1>4, <1>5, NetworkConstants DEF W!NetworksApart, W!PoolsApart, W!There
<1>12. W!NothingLeftBehind /\ W!GuestsKeepAddresses
  BY <1>3, <1>4, <1>5, <1>6, <1>7, NetworkConstants DEF W!NothingLeftBehind, W!GuestsKeepAddresses, W!There
<1> QED BY <1>8, <1>9, <1>10, <1>11, <1>12 DEF NetworksInv

LEMMA RequestTyped ==
    ASSUME NetworksInv, NEW q \in Requests
    PROVE  wReq[q] \in NetRequests /\ Shaped(wReq[q]) /\ NetworksRead(wReq[q]) /\ PoolsRead(wReq[q])
           /\ NetworkStays(wReq[q]) /\ AddressesRead(wReq[q])
  BY DEF NetworksInv, NetworksTyped, AllRead

\* A step of one request that writes nothing.
LEMMA RequestGoesOn ==
    ASSUME NetworksInv, NEW q \in Requests, NEW r \in NetRequests, wReq' = [wReq EXCEPT ![q] = r],
           UNCHANGED <<wNet, wPool, wAlloc, wGuest, wCrossed, wBySdn, wLost, wUnforced>>, wEvents' \in 0..MaxEvents,
           Shaped(r), NetworksRead(r), PoolsRead(r), NetworkStays(r), AddressesRead(r)
    PROVE  NetworksInv'
<1>1. wReq' \in [Requests -> NetRequests] /\ \A p \in Requests : wReq'[p] = IF p = q THEN r ELSE wReq[p]
  BY DEF NetworksInv, NetworksTyped
<1>2. NetworksTyped'
  BY <1>1 DEF NetworksInv, NetworksTyped
<1>3. AllRead'
  <2> SUFFICES ASSUME NEW p \in Requests
               PROVE  (Shaped(wReq[p]) /\ NetworksRead(wReq[p]) /\ PoolsRead(wReq[p]) /\ NetworkStays(wReq[p])
                       /\ AddressesRead(wReq[p]))'
    BY DEF AllRead
  <2>1. PICK j : j = wReq'[p]
    OBVIOUS
  <2>2. Shaped(j) /\ NetworksRead(j) /\ PoolsRead(j) /\ NetworkStays(j) /\ AddressesRead(j)
    BY <1>1, <2>1, RequestTyped
  <2>3. NetworksRead(j)' /\ NetworkStays(j)'
    BY <2>2 DEF NetworksRead, NetworkStays, W!There
  <2>4. PoolsRead(j)' /\ AddressesRead(j)'
    BY <2>2 DEF PoolsRead, AddressesRead
  <2>5. Shaped(wReq[p])' /\ PoolsRead(wReq[p])'
    BY <2>1, <2>2, <2>4 DEF Shaped, PoolsRead
  <2>6. NetworksRead(wReq[p])' /\ NetworkStays(wReq[p])'
    BY <2>1, <2>3 DEF NetworksRead, NetworkStays, W!There
  <2>7. AddressesRead(wReq[p])'
    BY <2>1, <2>4 DEF AddressesRead
  <2> QED BY <2>5, <2>6, <2>7
<1>4. UsersHaveRows' /\ W!GuestsKeepAddresses'
  BY DEF NetworksInv, UsersHaveRows, W!GuestsKeepAddresses
<1>5. W!NetworksApart' /\ W!PoolsApart' /\ W!NothingLeftBehind'
  BY DEF NetworksInv, W!NetworksApart, W!PoolsApart, W!NothingLeftBehind, W!There
<1> QED BY <1>2, <1>3, <1>4, <1>5 DEF NetworksInv

\* A commit of q, and what the other requests have read.
LEMMA CommitSeen ==
    ASSUME NetworksInv, NEW q \in Requests, NEW r \in NetRequests,
           NEW kind \in {"network", "delete", "pool", "address"}, W!Kind(wReq[q].op) = kind,
           wReq' = [W!Wrote(q) EXCEPT ![q] = r],
           kind = "network" \/ \A n \in W!Nets : W!There(n)' => W!There(n) /\ wNet'[n] = wNet[n],
           kind = "pool" \/ \A p \in W!Pools : wPool'[p] = wPool[p] \/ wPool'[p].net = 0,
           kind = "delete" \/ \A n \in W!Nets : W!There(n) => W!There(n)',
           kind = "address" \/ \A a \in W!Addrs : /\ wAlloc'[a].net \in {wAlloc[a].net, 0}
                                                 /\ wAlloc'[a].guest \in {wAlloc[a].guest, 0},
           Shaped(r), r = W!NoRequest \/ (r.op = "cleanup" /\ AddressesRead(r)')
    PROVE  wReq' \in [Requests -> NetRequests] /\ AllRead'
<1>1. \A p \in Requests : wReq'[p] = IF p = q THEN r ELSE
              IF wReq[p].pc = "idle" THEN wReq[p] ELSE [wReq[p] EXCEPT !.over = @ \union {kind}]
  BY DEF W!Wrote
<1>2. ASSUME NEW p \in Requests, NEW j, j = wReq'[p]
      PROVE  j \in NetRequests /\ Shaped(j) /\ NetworksRead(j)' /\ PoolsRead(j)' /\ NetworkStays(j)' /\ AddressesRead(j)'
  <2>1. CASE p = q
    <3>1. j = r /\ r.op \in {"none", "cleanup"} /\ r.pc # "flushed"
      BY <1>1, <1>2, <2>1, NothingAsked DEF Shaped
    <3>2. AddressesRead(j)'
      BY <3>1, NothingAsked DEF AddressesRead
    <3> QED BY <3>1, <3>2 DEF NetworksRead, PoolsRead, NetworkStays
  <2>2. CASE p # q /\ wReq[p].pc = "idle"
    <3>1. j = W!NoRequest
      BY <1>1, <1>2, <2>2, RequestTyped DEF Shaped
    <3> QED BY <3>1, NothingAsked DEF NetworksRead, PoolsRead, NetworkStays, AddressesRead
  <2>3. CASE p # q /\ wReq[p].pc # "idle"
    <3>1. PICK o : o = wReq[p]
      OBVIOUS
    <3>2. o \in NetRequests /\ Shaped(o) /\ NetworksRead(o) /\ PoolsRead(o) /\ NetworkStays(o) /\ AddressesRead(o)
      BY <3>1, RequestTyped
    <3>3. j = [o EXCEPT !.over = @ \union {kind}] /\ o.pc # "idle"
      BY <1>1, <1>2, <2>3, <3>1
    <3>4. /\ j \in NetRequests /\ kind \in j.over /\ o.over \subseteq j.over /\ j.pc = o.pc /\ j.op = o.op /\ j.n = o.n
          /\ j.p = o.p /\ j.a = o.a /\ j.g = o.g /\ j.new = o.new /\ j.range = o.range /\ j.sets = o.sets
          /\ j.cleared = o.cleared /\ j.rows = o.rows /\ j.cached = o.cached /\ j.force = o.force
      BY <3>2, <3>3 DEF NetRequests
    <3>5. Shaped(j)
      BY <3>2, <3>3, <3>4 DEF Shaped
    <3>6. NetworksRead(j)'
      BY <3>2, <3>4 DEF NetworksRead, W!There
    <3>7. PoolsRead(j)'
      <4> SUFFICES ASSUME "pool" \notin j.over, o.op \in {"create pool", "update pool"},
                          NEW k \in W!Pools, k # o.p, wPool'[k].net = o.range.net
                   PROVE  o.range.hi < wPool'[k].lo \/ wPool'[k].hi < o.range.lo
        BY <3>4 DEF PoolsRead
      <4>1. o.range.net # 0
        BY <3>2, NetworkConstants DEF Shaped
      <4>2. kind # "pool" /\ "pool" \notin o.over
        BY <3>4
      <4>3. wPool'[k] = wPool[k]
        BY <4>1, <4>2
      <4>4. o.range.hi < wPool[k].lo \/ wPool[k].hi < o.range.lo
        BY <3>2, <4>2, <4>3 DEF PoolsRead
      <4> QED BY <4>3, <4>4
    <3>8. NetworkStays(j)'
      BY <3>2, <3>4 DEF NetworkStays, W!There
    <3>9. AddressesRead(j)'
      <4> SUFFICES ASSUME "address" \notin j.over
                   PROVE  /\ j.op = "delete" => j.force \/ \A a \in W!Addrs : wAlloc'[a].net # j.n
                          /\ j.op = "cleanup" => \A a \in j.rows : wAlloc'[a].guest \notin j.cached
        BY DEF AddressesRead
      <4>1. \A a \in W!Addrs : /\ wAlloc'[a].net \in {wAlloc[a].net, 0}
                               /\ wAlloc'[a].guest \in {wAlloc[a].guest, 0}
        BY <3>4
      <4>2. CASE o.op = "delete"
        <5>1. o.n # 0
          BY <3>2, <4>2, NetworkConstants DEF Shaped
        <5> QED BY <3>2, <3>4, <4>1, <4>2, <5>1 DEF AddressesRead
      <4>3. CASE o.op = "cleanup"
        <5>1. o.rows \subseteq W!Addrs /\ 0 \notin o.cached
          BY <3>2, NetworkConstants DEF NetRequests
        <5> QED BY <3>2, <3>4, <4>1, <4>3, <5>1 DEF AddressesRead
      <4> QED BY <3>4, <4>2, <4>3
    <3> QED BY <3>4, <3>5, <3>6, <3>7, <3>8, <3>9
  <2> QED BY <2>1, <2>2, <2>3
<1>3. AllRead'
  <2> SUFFICES ASSUME NEW p \in Requests
               PROVE  (Shaped(wReq[p]) /\ NetworksRead(wReq[p]) /\ PoolsRead(wReq[p]) /\ NetworkStays(wReq[p])
                       /\ AddressesRead(wReq[p]))'
    BY DEF AllRead
  <2>1. PICK j : j = wReq'[p]
    OBVIOUS
  <2>2. Shaped(j) /\ NetworksRead(j)' /\ PoolsRead(j)' /\ NetworkStays(j)' /\ AddressesRead(j)'
    BY <1>2, <2>1
  <2>5. Shaped(wReq[p])' /\ PoolsRead(wReq[p])'
    BY <2>1, <2>2 DEF Shaped, PoolsRead
  <2>6. NetworksRead(wReq[p])' /\ NetworkStays(wReq[p])'
    BY <2>1, <2>2 DEF NetworksRead, NetworkStays, W!There
  <2>7. AddressesRead(wReq[p])'
    BY <2>1, <2>2 DEF AddressesRead
  <2> QED BY <2>5, <2>6, <2>7
<1>4. wReq' = [p \in Requests |-> wReq'[p]]
  BY DEF W!Wrote
<1>5. \A p \in Requests : wReq'[p] \in NetRequests
  BY <1>2
<1> QED BY <1>3, <1>4, <1>5

\* The crossings a commit notes.
LEMMA CrossingsNoted ==
    ASSUME NetworksInv, NEW q \in Requests, W!Crossings(q)
    PROVE  /\ wCrossed \subseteq wCrossed'
           /\ \A k \in wReq[q].over : {W!Kind(wReq[q].op), k} \in wCrossed'
           /\ \A k \in wReq[q].over : k = W!Kind(wReq[q].op) => {k} \in wCrossed'
<1>1. wCrossed' = wCrossed \union {{W!Kind(wReq[q].op), k} : k \in wReq[q].over}
  BY DEF W!Crossings
<1>2. \A k : {k, k} = {k}
  OBVIOUS
<1> QED BY <1>1, <1>2

\* What networks are to be: their rows are read, or Proxmox is called first.
LEMMA NetworkAsked ==
    ASSUME NetworksInv, NEW q \in Requests, wEvents' \in 0..MaxEvents,
           \/ \E c \in W!Cidrs : W!CreateSubnet(q, c) \/ W!DropSubnet(q, c)
           \/ \E ws \in {0, 1}, default \in BOOLEAN :
                 \/ \E c \in W!Cidrs : W!CreateNetwork(q, c, ws, default)
                 \/ \E n \in W!Nets, sets \in {{"ws"}, {"default"}} : W!UpdateNetwork(q, n, ws, default, sets)
           \/ \E n \in W!Nets, force \in BOOLEAN : W!DeleteNetwork(q, n, force)
    PROVE  NetworksInv'
<1>1. CASE \E c \in W!Cidrs : W!CreateSubnet(q, c) \/ W!DropSubnet(q, c)
  <2>1. PICK c \in W!Cidrs : W!CreateSubnet(q, c) \/ W!DropSubnet(q, c)
    BY <1>1
  <2>2. PICK new, op : /\ op \in {"subnet", "drop"} /\ new \in NetRows /\ ~new.default
                       /\ W!Begin(q, [W!NoRequest EXCEPT !.pc = "called", !.op = op, !.new = new])
    BY <2>1, NetworkConstants DEF W!CreateSubnet, W!DropSubnet, NetRows, W!NoNet
  <2>3. PICK r : r = [W!NoRequest EXCEPT !.pc = "called", !.op = op, !.new = new]
    OBVIOUS
  <2>4. r \in NetRequests /\ r.pc = "called" /\ r.op = op /\ r.n = 0 /\ r.new = new
    BY <2>2, <2>3, NothingAsked, NetworkConstants DEF NetRequests
  <2>5. Shaped(r) /\ NetworksRead(r) /\ PoolsRead(r) /\ NetworkStays(r) /\ AddressesRead(r)
    BY <2>2, <2>4 DEF Shaped, NetworksRead, PoolsRead, NetworkStays, AddressesRead
  <2> QED BY <2>2, <2>3, <2>4, <2>5, RequestGoesOn DEF W!Begin, W!ghosts
<1>2. ASSUME NEW c \in W!Cidrs, NEW ws \in {0, 1}, NEW default \in BOOLEAN, W!CreateNetwork(q, c, ws, default)
      PROVE  NetworksInv'
  <2>1. PICK new : new = [state |-> "there", cidr |-> c, ws |-> ws, default |-> default, server |-> FALSE]
    OBVIOUS
  <2>2. PICK r : r = [W!NoRequest EXCEPT !.pc = "checked", !.op = "create", !.new = new]
    OBVIOUS
  <2>3. new \in NetRows /\ new.cidr = c
    BY <2>1, NetworkConstants DEF NetRows
  <2>4. r \in NetRequests /\ r.pc = "checked" /\ r.op = "create" /\ r.n = 0 /\ r.new = new
    BY <2>2, <2>3, NothingAsked, NetworkConstants DEF NetRequests
  <2>5. NetworksRead(r)
    BY <1>2, <2>3, <2>4 DEF NetworksRead, W!CreateNetwork
  <2>6. Shaped(r) /\ PoolsRead(r) /\ NetworkStays(r) /\ AddressesRead(r)
    BY <2>4 DEF Shaped, PoolsRead, NetworkStays, AddressesRead
  <2> QED BY <1>2, <2>1, <2>2, <2>4, <2>5, <2>6, RequestGoesOn DEF W!CreateNetwork, W!Begin, W!ghosts
<1>3. ASSUME NEW n \in W!Nets, NEW ws \in {0, 1}, NEW default \in BOOLEAN, NEW sets \in {{"ws"}, {"default"}},
             W!UpdateNetwork(q, n, ws, default, sets)
      PROVE  NetworksInv'
  <2>1. PICK o : o = wNet[n]
    OBVIOUS
  <2>2. PICK new : new = [o EXCEPT !.ws = IF "ws" \in sets THEN ws ELSE @,
                                   !.default = IF "default" \in sets THEN default ELSE @]
    OBVIOUS
  <2>3. PICK r : r = [W!NoRequest EXCEPT !.pc = "checked", !.op = "update", !.n = n, !.sets = sets, !.new = new]
    OBVIOUS
  <2>4. o \in NetRows
    BY <2>1 DEF NetworksInv, NetworksTyped
  <2>5. /\ new \in NetRows
        /\ "ws" \notin sets => new.ws = o.ws
        /\ "default" \notin sets => new.default = o.default
    BY <2>2, <2>4 DEF NetRows
  <2>6. r \in NetRequests /\ r.pc = "checked" /\ r.op = "update" /\ r.n = n /\ r.new = new /\ r.sets = sets
    BY <2>3, <2>5, NothingAsked, NetworkConstants DEF NetRequests
  <2>7. NetworksRead(r)
    BY <2>1, <2>5, <2>6 DEF NetworksRead
  <2>8. Shaped(r) /\ PoolsRead(r) /\ NetworkStays(r) /\ AddressesRead(r)
    BY <2>6 DEF Shaped, PoolsRead, NetworkStays, AddressesRead
  <2>9. W!Begin(q, r)
    BY <1>3, <2>1, <2>2, <2>3 DEF W!UpdateNetwork
  <2> QED BY <2>6, <2>7, <2>8, <2>9, RequestGoesOn DEF W!Begin, W!ghosts
<1>4. ASSUME NEW n \in W!Nets, NEW force \in BOOLEAN, W!DeleteNetwork(q, n, force)
      PROVE  NetworksInv'
  <2>1. PICK r : r = [W!NoRequest EXCEPT !.pc = "checked", !.op = "delete", !.n = n, !.force = force]
    OBVIOUS
  <2>2. r \in NetRequests /\ r.pc = "checked" /\ r.op = "delete" /\ r.n = n /\ r.force = force
    BY <2>1, NothingAsked, NetworkConstants DEF NetRequests
  <2>3. AddressesRead(r)
    BY <1>4, <2>2 DEF AddressesRead, W!DeleteNetwork, W!RowsOf
  <2>4. Shaped(r) /\ NetworksRead(r) /\ PoolsRead(r) /\ NetworkStays(r)
    BY <2>2 DEF Shaped, NetworksRead, PoolsRead, NetworkStays
  <2> QED BY <1>4, <2>1, <2>2, <2>3, <2>4, RequestGoesOn DEF W!DeleteNetwork, W!Begin, W!ghosts
<1> QED BY <1>1, <1>2, <1>3, <1>4

\* What pools and addresses are to be, and what is taken from guests.
LEMMA AddressAsked ==
    ASSUME NetworksInv, NEW q \in Requests, wEvents' \in 0..MaxEvents,
           \/ \E n \in W!Nets, lo, hi \in W!Addrs : W!CreatePool(q, n, lo, hi)
           \/ \E p \in W!Pools, lo, hi \in W!Addrs : W!UpdatePool(q, p, lo, hi)
           \/ \E p \in W!Pools : W!DeletePool(q, p)
           \/ \E n \in W!Nets, g \in Guests : W!Allocate(q, n, g) \/ W!Link(q, n, g)
           \/ W!CleanupOrphans(q)
    PROVE  NetworksInv'
<1>1. ASSUME NEW n \in W!Nets, NEW lo \in W!Addrs, NEW hi \in W!Addrs, NEW r \in NetRequests,
             r.pc = "checked", r.op \in {"create pool", "update pool"},
             r.range.net = n, r.range.lo = lo, r.range.hi = hi,
             r.op = "create pool" => r.p = 0 /\ W!There(n), r.op = "update pool" => r.p \in W!Pools,
             W!Valid(n, lo, hi, r.p), W!Begin(q, r)
      PROVE  NetworksInv'
  <2>2. PoolsRead(r)
    BY <1>1 DEF PoolsRead, W!Valid, W!PoolsOf
  <2>3. Shaped(r) /\ NetworksRead(r) /\ NetworkStays(r) /\ AddressesRead(r)
    BY <1>1 DEF Shaped, NetworksRead, NetworkStays, AddressesRead
  <2> QED BY <1>1, <2>2, <2>3, RequestGoesOn DEF W!Begin, W!ghosts
<1>2. ASSUME NEW n \in W!Nets, NEW lo \in W!Addrs, NEW hi \in W!Addrs, W!CreatePool(q, n, lo, hi)
      PROVE  NetworksInv'
  <2>1. PICK range : range = [net |-> n, lo |-> lo, hi |-> hi]
    OBVIOUS
  <2>2. PICK r : r = [W!NoRequest EXCEPT !.pc = "checked", !.op = "create pool", !.range = range]
    OBVIOUS
  <2>3. range \in PoolRows /\ range.net = n /\ range.lo = lo /\ range.hi = hi
    BY <2>1, NetworkConstants DEF PoolRows
  <2>4. r \in NetRequests /\ r.pc = "checked" /\ r.op = "create pool" /\ r.p = 0 /\ r.range = range
    BY <2>2, <2>3, NothingAsked DEF NetRequests
  <2>5. W!Valid(n, lo, hi, 0) /\ W!There(n) /\ W!Begin(q, r)
    BY <1>2, <2>1, <2>2 DEF W!CreatePool, W!Valid, W!None
  <2> QED BY <1>1, <2>3, <2>4, <2>5
<1>3. ASSUME NEW p \in W!Pools, NEW lo \in W!Addrs, NEW hi \in W!Addrs, W!UpdatePool(q, p, lo, hi)
      PROVE  NetworksInv'
  <2>1. PICK n : n = wPool[p].net
    OBVIOUS
  <2>2. PICK range : range = [net |-> n, lo |-> lo, hi |-> hi]
    OBVIOUS
  <2>3. PICK r : r = [W!NoRequest EXCEPT !.pc = "checked", !.op = "update pool", !.p = p, !.range = range]
    OBVIOUS
  <2>4. wPool[p] \in PoolRows /\ n # 0
    BY <1>3, <2>1 DEF NetworksInv, NetworksTyped, W!UpdatePool, W!None
  <2>5. n \in W!Nets
    BY <2>1, <2>4, NetworkConstants DEF PoolRows
  <2>6. range \in PoolRows /\ range.net = n /\ range.lo = lo /\ range.hi = hi /\ p \in 0..NPools
    BY <2>2, <2>5, NetworkConstants DEF PoolRows
  <2>7. r \in NetRequests /\ r.pc = "checked" /\ r.op = "update pool" /\ r.p = p /\ r.range = range
    BY <2>3, <2>6, NothingAsked DEF NetRequests
  <2>8. W!Valid(n, lo, hi, p) /\ W!Begin(q, r)
    BY <1>3, <2>1, <2>2, <2>3 DEF W!UpdatePool
  <2> QED BY <1>1, <2>5, <2>6, <2>7, <2>8
<1>4. ASSUME NEW p \in W!Pools, W!DeletePool(q, p)
      PROVE  NetworksInv'
  <2>1. PICK r : r = [W!NoRequest EXCEPT !.pc = "checked", !.op = "delete pool", !.p = p]
    OBVIOUS
  <2>2. r \in NetRequests /\ r.pc = "checked" /\ r.op = "delete pool" /\ r.p = p
    BY <2>1, NothingAsked, NetworkConstants DEF NetRequests
  <2>3. Shaped(r) /\ NetworksRead(r) /\ PoolsRead(r) /\ NetworkStays(r) /\ AddressesRead(r)
    BY <2>2 DEF Shaped, NetworksRead, PoolsRead, NetworkStays, AddressesRead
  <2> QED BY <1>4, <2>1, <2>2, <2>3, RequestGoesOn DEF W!DeletePool, W!Begin, W!ghosts
<1>5. ASSUME NEW n \in W!Nets, NEW g \in Guests, W!Allocate(q, n, g) PROVE NetworksInv'
  <2>1. W!Free(n) \subseteq W!Addrs /\ W!Min(W!Free(n)) \in W!Addrs
    <3>1. W!Free(n) \subseteq W!Addrs /\ W!Free(n) # {}
      BY <1>5 DEF W!Free, W!Allocate
    <3> QED BY <3>1, LeastNumber, NetworkConstants
  <2>2. PICK a \in W!Addrs : a = W!Min(W!Free(n))
    BY <2>1
  <2>3. PICK p \in W!PoolsOf(n) \union {0} :
            W!Begin(q, [W!NoRequest EXCEPT !.pc = "checked", !.op = "allocate", !.n = n, !.p = p, !.a = a, !.g = g])
    BY <1>5, <2>2, NetworkConstants DEF W!Allocate
  <2>4. PICK r : r = [W!NoRequest EXCEPT !.pc = "checked", !.op = "allocate", !.n = n, !.p = p, !.a = a, !.g = g]
    OBVIOUS
  <2>5. p \in 0..NPools
    BY <2>3, NetworkConstants DEF W!PoolsOf
  <2>6. r \in NetRequests /\ r.pc = "checked" /\ r.op = "allocate" /\ r.n = n /\ r.a = a /\ r.g = g
    BY <2>4, <2>5, NothingAsked, NetworkConstants DEF NetRequests
  <2>7. NetworkStays(r)
    BY <1>5, <2>6 DEF NetworkStays, W!Allocate
  <2>8. Shaped(r) /\ NetworksRead(r) /\ PoolsRead(r) /\ AddressesRead(r)
    BY <2>6 DEF Shaped, NetworksRead, PoolsRead, AddressesRead
  <2> QED BY <2>3, <2>4, <2>6, <2>7, <2>8, RequestGoesOn DEF W!Begin, W!ghosts
<1>6. ASSUME NEW n \in W!Nets, NEW g \in Guests, W!Link(q, n, g) PROVE NetworksInv'
  <2>1. PICK r : r = [W!NoRequest EXCEPT !.pc = "called", !.op = "link", !.n = n, !.g = g]
    OBVIOUS
  <2>2. r \in NetRequests /\ r.pc = "called" /\ r.op = "link" /\ r.n = n /\ r.g = g
    BY <2>1, NothingAsked, NetworkConstants DEF NetRequests
  <2>3. NetworkStays(r)
    BY <1>6, <2>2 DEF NetworkStays, W!Link
  <2>4. Shaped(r) /\ NetworksRead(r) /\ PoolsRead(r) /\ AddressesRead(r)
    BY <2>2 DEF Shaped, NetworksRead, PoolsRead, AddressesRead
  <2> QED BY <1>6, <2>1, <2>2, <2>3, <2>4, RequestGoesOn DEF W!Link, W!Begin, W!ghosts
<1>7. ASSUME W!CleanupOrphans(q) PROVE NetworksInv'
  <2>1. PICK cached : cached = W!CachedGuests
    OBVIOUS
  <2>2. PICK rows : rows = W!Orphans
    OBVIOUS
  <2>3. PICK r : r = [W!NoRequest EXCEPT !.pc = "listed", !.op = "cleanup", !.rows = rows, !.cached = cached]
    OBVIOUS
  <2>4. cached \subseteq Guests /\ rows \subseteq W!Addrs /\ \A a \in rows : wAlloc[a].guest \notin cached
    BY <2>1, <2>2 DEF W!CachedGuests, W!Orphans
  <2>5. r \in NetRequests /\ r.pc = "listed" /\ r.op = "cleanup" /\ r.rows = rows /\ r.cached = cached
    BY <2>3, <2>4, NothingAsked, NetworkConstants DEF NetRequests
  <2>6. AddressesRead(r)
    BY <2>4, <2>5 DEF AddressesRead
  <2>7. Shaped(r) /\ NetworksRead(r) /\ PoolsRead(r) /\ NetworkStays(r)
    BY <2>5 DEF Shaped, NetworksRead, PoolsRead, NetworkStays
  <2> QED BY <1>7, <2>1, <2>2, <2>3, <2>5, <2>6, <2>7, RequestGoesOn DEF W!CleanupOrphans, W!Begin, W!ghosts
<1> QED BY <1>2, <1>3, <1>4, <1>5, <1>6, <1>7

\* A request goes on, or fails, before it writes.
LEMMA RequestSteps ==
    ASSUME NetworksInv, NEW q \in Requests, UNCHANGED wEvents,
           W!EnforceSingleDefault(q) \/ W!SubnetMade(q) \/ W!Fails(q)
    PROVE  NetworksInv'
<1>1. wEvents' \in 0..MaxEvents
  BY DEF NetworksInv, NetworksTyped
<1>2. ASSUME W!GoTo(q, W!NoRequest), UNCHANGED <<wNet, wPool, wAlloc, wGuest, W!ghosts>> PROVE NetworksInv'
  <2>1. PICK r : r = W!NoRequest
    OBVIOUS
  <2>2. r \in NetRequests /\ Shaped(r) /\ NetworksRead(r) /\ PoolsRead(r) /\ NetworkStays(r) /\ AddressesRead(r)
    BY <2>1, NothingAsked DEF NetworksRead, PoolsRead, NetworkStays, AddressesRead
  <2> QED BY <1>1, <1>2, <2>1, <2>2, RequestGoesOn DEF W!GoTo, W!ghosts
<1>3. CASE W!EnforceSingleDefault(q)
  <2>1. PICK o : o = wReq[q]
    OBVIOUS
  <2>2. PICK cleared : cleared = W!Siblings(o)
    OBVIOUS
  <2>3. PICK r : r = [o EXCEPT !.pc = "flushed", !.cleared = cleared]
    OBVIOUS
  <2>4. o \in NetRequests /\ Shaped(o) /\ NetworksRead(o) /\ o.pc = "checked" /\ o.op \in {"create", "update"}
    BY <1>3, <2>1, RequestTyped DEF W!EnforceSingleDefault
  <2>5. /\ cleared \subseteq W!Nets
        /\ o.new.default /\ o.new.ws # 0
           => \A n \in W!Nets : W!There(n) /\ n # o.n /\ wNet[n].ws = o.new.ws /\ wNet[n].default => n \in cleared
    BY <2>2, NetworkConstants DEF W!Siblings
  <2>6. /\ r \in NetRequests /\ r.pc = "flushed" /\ r.op = o.op /\ r.n = o.n /\ r.new = o.new /\ r.sets = o.sets
        /\ r.over = o.over /\ r.cleared = cleared /\ r.p = o.p /\ r.range = o.range
    BY <2>3, <2>4, <2>5 DEF NetRequests
  <2>7. NetworksRead(r)
    BY <2>4, <2>5, <2>6 DEF NetworksRead
  <2>8. Shaped(r) /\ PoolsRead(r) /\ NetworkStays(r) /\ AddressesRead(r)
    BY <2>4, <2>6 DEF Shaped, PoolsRead, NetworkStays, AddressesRead
  <2>9. W!GoTo(q, r) /\ UNCHANGED <<wNet, wPool, wAlloc, wGuest, W!ghosts>>
    BY <1>3, <2>1, <2>2, <2>3 DEF W!EnforceSingleDefault
  <2> QED BY <1>1, <2>6, <2>7, <2>8, <2>9, RequestGoesOn DEF W!GoTo, W!ghosts
<1>4. CASE W!SubnetMade(q) /\ \E n \in W!Nets : W!There(n) /\ wNet[n].cidr = wReq[q].new.cidr
  BY <1>2, <1>4 DEF W!SubnetMade
<1>5. CASE W!SubnetMade(q) /\ ~\E n \in W!Nets : W!There(n) /\ wNet[n].cidr = wReq[q].new.cidr
  <2>1. PICK o : o = wReq[q]
    OBVIOUS
  <2>2. PICK r : r = [o EXCEPT !.pc = "flushed"]
    OBVIOUS
  <2>3. o \in NetRequests /\ Shaped(o) /\ o.op = "subnet"
    BY <1>5, <2>1, RequestTyped DEF W!SubnetMade, W!At
  <2>4. /\ r \in NetRequests /\ r.pc = "flushed" /\ r.op = "subnet" /\ r.n = 0 /\ r.new = o.new /\ ~r.new.default
        /\ r.over = o.over
    BY <2>2, <2>3 DEF NetRequests, Shaped
  <2>5. NetworksRead(r)
    BY <1>5, <2>1, <2>4 DEF NetworksRead
  <2>6. Shaped(r) /\ PoolsRead(r) /\ NetworkStays(r) /\ AddressesRead(r)
    BY <2>4 DEF Shaped, PoolsRead, NetworkStays, AddressesRead
  <2>7. W!GoTo(q, r) /\ UNCHANGED <<wNet, wPool, wAlloc, wGuest, W!ghosts>>
    BY <1>5, <2>1, <2>2 DEF W!SubnetMade
  <2> QED BY <1>1, <2>4, <2>5, <2>6, <2>7, RequestGoesOn DEF W!GoTo, W!ghosts
<1> QED BY <1>2, <1>3, <1>4, <1>5 DEF W!Fails

\* The kind of what a request writes.
LEMMA KindOf ==
    /\ \A op \in {"create", "update", "subnet"} : W!Kind(op) = "network"
    /\ \A op \in {"delete", "drop"} : W!Kind(op) = "delete"
    /\ \A op \in {"create pool", "update pool", "delete pool"} : W!Kind(op) = "pool"
    /\ \A op \in {"allocate", "link", "cleanup"} : W!Kind(op) = "address"
  BY DEF W!Kind

\* What a commit that leaves pools, addresses and guests alone keeps of them.
LEMMA AddressesStand ==
    ASSUME NetworksInv, UNCHANGED <<wPool, wAlloc, wGuest, wBySdn, wLost, wUnforced>>, wCrossed \subseteq wCrossed',
           \A n \in W!Nets : W!There(n) => W!There(n)'
    PROVE  UsersHaveRows' /\ W!PoolsApart' /\ W!NothingLeftBehind' /\ W!GuestsKeepAddresses'
<1>1. UsersHaveRows' /\ W!PoolsApart' /\ W!GuestsKeepAddresses'
  BY DEF NetworksInv, UsersHaveRows, W!PoolsApart, W!GuestsKeepAddresses
<1>2. \A n : W!There(n) => W!There(n)'
  BY DEF W!There
<1>3. W!NothingLeftBehind'
  BY <1>2 DEF NetworksInv, W!NothingLeftBehind
<1> QED BY <1>1, <1>3

\* The rows a commit leaves: the one it is about, and those whose flag it took.
LEMMA NetworkRowsWritten ==
    ASSUME NetworksInv, NEW q \in Requests, W!CommitNetwork(q), NEW o, o = wReq[q]
    PROVE  \E n \in W!Nets :
             /\ o.op = "update" => n = o.n
             /\ wNet' \in [W!Nets -> NetRows]
             /\ \A m \in W!Nets \ {n} :
                   /\ wNet'[m].state = wNet[m].state /\ wNet'[m].cidr = wNet[m].cidr /\ wNet'[m].ws = wNet[m].ws
                   /\ wNet'[m].default => wNet[m].default /\ m \notin o.cleared
             /\ o.op # "update" => wNet[n].state = "new" /\ wNet'[n] = o.new
             /\ o.op = "update" =>
                   /\ wNet'[n].state = wNet[n].state /\ wNet'[n].cidr = wNet[n].cidr
                   /\ wNet'[n].ws = IF "ws" \in o.sets THEN o.new.ws ELSE wNet[n].ws
                   /\ wNet'[n].default => IF "default" \in o.sets THEN o.new.default ELSE wNet[n].default
<1>1. o \in NetRequests /\ Shaped(o) /\ o.pc = "flushed" /\ o.op \in {"create", "update", "subnet"}
  BY RequestTyped DEF W!CommitNetwork, Shaped
<1>2. PICK fresh : fresh = {n \in W!Nets : wNet[n].state = "new"}
  OBVIOUS
<1>3. PICK n : n = IF o.op = "update" THEN o.n ELSE W!Min(fresh)
  OBVIOUS
<1>4. PICK written : written = [m \in W!Nets |-> IF m \in o.cleared THEN [wNet[m] EXCEPT !.default = FALSE] ELSE wNet[m]]
  OBVIOUS
<1>5. n \in W!Nets /\ (o.op # "update" => wNet[n].state = "new") /\ (o.op = "update" => n = o.n)
  <2>1. CASE o.op = "update"
    BY <1>1, <1>3, <2>1 DEF Shaped
  <2>2. CASE o.op # "update"
    <3>1. fresh # {} /\ fresh \subseteq Nat
      BY <1>2, <2>2, NetworkConstants DEF W!CommitNetwork
    <3>2. n \in fresh
      BY <1>3, <2>2, <3>1, LeastNumber
    <3> QED BY <1>2, <2>2, <3>2
  <2> QED BY <2>1, <2>2
<1>6. /\ written \in [W!Nets -> NetRows]
      /\ \A m \in W!Nets : /\ written[m].state = wNet[m].state /\ written[m].cidr = wNet[m].cidr
                           /\ written[m].ws = wNet[m].ws
                           /\ written[m].default => wNet[m].default /\ m \notin o.cleared
  <2>1. ASSUME NEW m \in W!Nets
        PROVE  /\ written[m] \in NetRows /\ written[m].state = wNet[m].state /\ written[m].cidr = wNet[m].cidr
               /\ written[m].ws = wNet[m].ws
               /\ written[m].default => wNet[m].default /\ m \notin o.cleared
    <3>1. PICK row : row = wNet[m]
      OBVIOUS
    <3>2. row \in NetRows
      BY <3>1 DEF NetworksInv, NetworksTyped
    <3>3. written[m] = IF m \in o.cleared THEN [row EXCEPT !.default = FALSE] ELSE row
      BY <1>4, <3>1
    <3> QED BY <3>1, <3>2, <3>3 DEF NetRows
  <2> QED BY <1>4, <2>1
<1>7. o.op # "update" => wNet' = [written EXCEPT ![n] = o.new]
  BY <1>2, <1>3, <1>4 DEF W!CommitNetwork
<1>8. o.op = "update" => wNet' = [written EXCEPT ![n].ws = IF "ws" \in o.sets THEN o.new.ws ELSE @,
                                                 ![n].default = IF "default" \in o.sets THEN o.new.default ELSE @]
  BY <1>2, <1>3, <1>4 DEF W!CommitNetwork
<1>9. CASE o.op # "update"
  <2>1. o.new \in NetRows
    BY <1>1 DEF NetRequests
  <2> QED BY <1>5, <1>6, <1>7, <1>9, <2>1
<1>10. CASE o.op = "update"
  <2>1. PICK row : row = written[n]
    OBVIOUS
  <2>2. PICK ws : ws = IF "ws" \in o.sets THEN o.new.ws ELSE row.ws
    OBVIOUS
  <2>3. PICK default : default = IF "default" \in o.sets THEN o.new.default ELSE row.default
    OBVIOUS
  <2>4. row \in NetRows /\ o.new \in NetRows
    BY <1>1, <1>5, <1>6, <2>1 DEF NetRequests
  <2>5. ws \in {0, 1} /\ default \in BOOLEAN
    BY <2>2, <2>3, <2>4 DEF NetRows
  <2>6. PICK after : after = [row EXCEPT !.ws = ws, !.default = default]
    OBVIOUS
  <2>7. after \in NetRows /\ after.state = row.state /\ after.cidr = row.cidr /\ after.ws = ws /\ after.default = default
    BY <2>4, <2>5, <2>6 DEF NetRows
  <2>8. \A m \in W!Nets : wNet'[m] = IF m = n THEN after ELSE written[m]
    BY <1>5, <1>6, <1>8, <1>10, <2>1, <2>2, <2>3, <2>4, <2>6 DEF NetRows
  <2>9. wNet' = [m \in W!Nets |-> wNet'[m]]
    BY <1>6, <1>8, <1>10
  <2>10. wNet' \in [W!Nets -> NetRows]
    BY <1>6, <2>7, <2>8, <2>9
  <2>11. /\ wNet'[n].state = wNet[n].state /\ wNet'[n].cidr = wNet[n].cidr
         /\ wNet'[n].ws = IF "ws" \in o.sets THEN o.new.ws ELSE wNet[n].ws
         /\ wNet'[n].default => IF "default" \in o.sets THEN o.new.default ELSE wNet[n].default
    BY <1>5, <1>6, <2>1, <2>2, <2>3, <2>7, <2>8
  <2> QED BY <1>5, <1>6, <1>10, <2>8, <2>10, <2>11
<1> QED BY <1>9, <1>10

\* A network is written: its flag and its CIDR meet those of no other.
LEMMA NetworkWritten ==
    ASSUME NetworksInv, NEW q \in Requests, W!CommitNetwork(q)
    PROVE  NetworksInv'
<1>1. PICK o : o = wReq[q]
  OBVIOUS
<1>2. /\ o \in NetRequests /\ Shaped(o) /\ NetworksRead(o) /\ o.op \in {"create", "update", "subnet"}
      /\ o.pc = "flushed"
  BY <1>1, RequestTyped DEF W!CommitNetwork, Shaped
<1>3. PICK n \in W!Nets :
         /\ o.op = "update" => n = o.n
         /\ wNet' \in [W!Nets -> NetRows]
         /\ \A m \in W!Nets \ {n} :
               /\ wNet'[m].state = wNet[m].state /\ wNet'[m].cidr = wNet[m].cidr /\ wNet'[m].ws = wNet[m].ws
               /\ wNet'[m].default => wNet[m].default /\ m \notin o.cleared
         /\ o.op # "update" => wNet[n].state = "new" /\ wNet'[n] = o.new
         /\ o.op = "update" =>
               /\ wNet'[n].state = wNet[n].state /\ wNet'[n].cidr = wNet[n].cidr
               /\ wNet'[n].ws = IF "ws" \in o.sets THEN o.new.ws ELSE wNet[n].ws
               /\ wNet'[n].default => IF "default" \in o.sets THEN o.new.default ELSE wNet[n].default
  BY <1>1, NetworkRowsWritten
<1>4. /\ wReq' = [W!Wrote(q) EXCEPT ![q] = W!NoRequest] /\ W!Crossings(q) /\ UNCHANGED wEvents
      /\ UNCHANGED <<wPool, wAlloc, wGuest, wBySdn, wLost, wUnforced>>
  BY DEF W!CommitNetwork, W!Done, W!ghosts
<1>5. \A m \in W!Nets : W!There(m) => W!There(m)'
  BY <1>3 DEF W!There
<1>6. \A m \in W!Nets \ {n} : W!There(m)' <=> W!There(m)
  BY <1>3 DEF W!There
<1>7. o.op = "update" => (W!There(n)' <=> W!There(n))
  BY <1>3 DEF W!There
<1>8. W!Kind(wReq[q].op) = "network"
  BY <1>1, <1>2, KindOf
<1>9. wReq' \in [Requests -> NetRequests] /\ AllRead'
  BY <1>4, <1>5, <1>8, NothingAsked, CommitSeen
<1>10. wCrossed \subseteq wCrossed' /\ ("network" \in o.over => {"network"} \in wCrossed')
  BY <1>1, <1>4, <1>8, CrossingsNoted
<1>11. UsersHaveRows' /\ W!PoolsApart' /\ W!NothingLeftBehind' /\ W!GuestsKeepAddresses'
  BY <1>4, <1>5, <1>10, AddressesStand
<1>12. ASSUME {"network"} \notin wCrossed', NEW k \in W!Nets \ {n}, W!There(k), W!There(n)'
       PROVE  /\ wNet'[n].cidr # wNet'[k].cidr
              /\ wNet'[n].default /\ wNet'[k].default /\ wNet'[n].ws # 0 => wNet'[n].ws # wNet'[k].ws
  <2>1. "network" \notin o.over /\ {"network"} \notin wCrossed
    BY <1>10, <1>12
  <2>2. CASE o.op = "update"
    <3>1. W!There(n) /\ n = o.n /\ k # o.n
      BY <1>3, <1>7, <1>12, <2>2
    <3>2. wNet[n].cidr # wNet[k].cidr
      BY <1>12, <2>1, <3>1 DEF NetworksInv, W!NetworksApart
    <3>3. wNet'[n].ws = o.new.ws /\ (wNet'[n].default => o.new.default)
      BY <1>2, <1>3, <2>1, <2>2, <3>1 DEF NetworksRead
    <3>4. o.new.default /\ o.new.ws # 0 /\ wNet[k].ws = o.new.ws /\ wNet[k].default => k \in o.cleared
      BY <1>2, <1>12, <2>1, <3>1 DEF NetworksRead
    <3> QED BY <1>3, <1>12, <2>2, <3>2, <3>3, <3>4
  <2>3. CASE o.op # "update"
    <3>1. wNet'[n] = o.new /\ k # o.n
      BY <1>2, <1>3, <2>3, NetworkConstants DEF Shaped
    <3>2. wNet[k].cidr # o.new.cidr
      BY <1>2, <1>12, <2>1, <2>3 DEF NetworksRead
    <3>3. o.new.default /\ o.new.ws # 0 /\ wNet[k].ws = o.new.ws /\ wNet[k].default => k \in o.cleared
      BY <1>2, <1>12, <2>1, <3>1 DEF NetworksRead
    <3> QED BY <1>3, <3>1, <3>2, <3>3
  <2> QED BY <2>2, <2>3
<1>13. W!NetworksApart'
  <2> SUFFICES ASSUME NEW m \in W!Nets, NEW k \in W!Nets, m # k, W!There(m)', W!There(k)', {"network"} \notin wCrossed'
               PROVE  /\ wNet'[m].cidr # wNet'[k].cidr
                      /\ wNet'[m].default /\ wNet'[k].default /\ wNet'[m].ws # 0 => wNet'[m].ws # wNet'[k].ws
    BY NetworkConstants DEF W!NetworksApart
  <2>1. CASE m = n
    BY <1>6, <1>12, <2>1
  <2>2. CASE k = n
    BY <1>6, <1>12, <2>2
  <2>3. CASE m # n /\ k # n
    <3>1. W!There(m) /\ W!There(k) /\ {"network"} \notin wCrossed
      BY <1>6, <1>10, <2>3
    <3>2. /\ wNet[m].cidr # wNet[k].cidr
          /\ wNet[m].default /\ wNet[k].default /\ wNet[m].ws # 0 => wNet[m].ws # wNet[k].ws
      BY <3>1, NetworkConstants DEF NetworksInv, W!NetworksApart
    <3> QED BY <1>3, <2>3, <3>2
  <2> QED BY <2>1, <2>2, <2>3
<1>14. NetworksTyped'
  BY <1>3, <1>4, <1>9 DEF NetworksInv, NetworksTyped
<1> QED BY <1>9, <1>11, <1>13, <1>14 DEF NetworksInv

\* The guests that lose rows.
LEMMA LossesAre ==
    ASSUME NEW by, NEW rows, NEW cached
    PROVE  /\ \A l \in W!Losses(by, rows, cached) :
                 l.by = by /\ (l.cached => \E a \in rows : wAlloc[a].guest \in cached)
           /\ W!Losses(by, rows, cached) = {}
              => \A g \in Guests, a \in rows :
                    wAlloc[a].guest = g /\ wGuest[g].addr = a => ~(wGuest[g].real \/ ~wGuest[g].row)
<1>1. \A l \in W!Losses(by, rows, cached) : \E g \in Guests :
          l = [by |-> by, cached |-> g \in cached] /\ \E a \in rows : wAlloc[a].guest = g
  BY DEF W!Losses
<1>2. ASSUME NEW g \in Guests, NEW a \in rows, wAlloc[a].guest = g, wGuest[g].addr = a, wGuest[g].real \/ ~wGuest[g].row
      PROVE  [by |-> by, cached |-> g \in cached] \in W!Losses(by, rows, cached)
  BY <1>2 DEF W!Losses
<1>3. \A l \in W!Losses(by, rows, cached) : l.by = by /\ (l.cached => \E a \in rows : wAlloc[a].guest \in cached)
  <2> SUFFICES ASSUME NEW l \in W!Losses(by, rows, cached)
               PROVE  l.by = by /\ (l.cached => \E a \in rows : wAlloc[a].guest \in cached)
    OBVIOUS
  <2>1. PICK g \in Guests : l = [by |-> by, cached |-> g \in cached] /\ \E a \in rows : wAlloc[a].guest = g
    BY <1>1
  <2>2. l.by = by /\ l.cached = (g \in cached)
    BY <2>1, Zenon
  <2>3. ASSUME l.cached PROVE g \in cached
    BY <2>2, <2>3, Zenon
  <2> QED BY <2>1, <2>2, <2>3
<1>4. ASSUME W!Losses(by, rows, cached) = {}, NEW g \in Guests, NEW a \in rows,
             wAlloc[a].guest = g, wGuest[g].addr = a
      PROVE  ~(wGuest[g].real \/ ~wGuest[g].row)
  BY <1>2, <1>4
<1> QED BY <1>3, <1>4

\* A network goes, with what is in it or without.
LEMMA NetworkGone ==
    ASSUME NetworksInv, NEW q \in Requests, NEW n \in W!Nets, W!There(n), W!Kind(wReq[q].op) = "delete",
           wNet' = [wNet EXCEPT ![n] = [W!NoNet EXCEPT !.state = "gone"]], W!Done(q),
           wPool' \in [W!Pools -> PoolRows], \A p \in W!Pools : wPool'[p] = wPool[p] \/ wPool'[p].net = 0,
           wAlloc' \in [W!Addrs -> AddressRows],
           \A a \in W!Addrs : wAlloc'[a] = wAlloc[a] \/ (wAlloc'[a].net = 0 /\ wAlloc'[a].guest = 0),
           UNCHANGED wGuest
    PROVE  /\ NetworksTyped' /\ AllRead' /\ W!NetworksApart' /\ W!PoolsApart' /\ wCrossed \subseteq wCrossed'
           /\ \A m \in W!Nets \ {n} : W!There(m) => W!There(m)'
<1>1. PICK none : none = [W!NoNet EXCEPT !.state = "gone"]
  OBVIOUS
<1>2. none \in NetRows /\ none.state = "gone"
  BY <1>1, NetworkConstants DEF NetRows
<1>3. wNet' \in [W!Nets -> NetRows] /\ \A m \in W!Nets : wNet'[m] = IF m = n THEN none ELSE wNet[m]
  BY <1>1, <1>2 DEF NetworksInv, NetworksTyped
<1>4. \A m \in W!Nets : W!There(m)' => W!There(m) /\ wNet'[m] = wNet[m]
  BY <1>2, <1>3 DEF W!There
<1>5. \A m \in W!Nets \ {n} : W!There(m) => W!There(m)'
  BY <1>3 DEF W!There
<1>6. wReq' = [W!Wrote(q) EXCEPT ![q] = W!NoRequest] /\ W!Crossings(q) /\ UNCHANGED wEvents
  BY DEF W!Done
<1>7. \A a \in W!Addrs : wAlloc'[a].net \in {wAlloc[a].net, 0} /\ wAlloc'[a].guest \in {wAlloc[a].guest, 0}
  OBVIOUS
<1>8. wReq' \in [Requests -> NetRequests] /\ AllRead'
  BY <1>4, <1>6, <1>7, NothingAsked, CommitSeen
<1>9. wCrossed \subseteq wCrossed'
  BY <1>6, CrossingsNoted
<1>10. W!NetworksApart'
  <2> SUFFICES ASSUME NEW m \in W!Nets, NEW k \in W!Nets, m # k, W!There(m)', W!There(k)', {"network"} \notin wCrossed'
               PROVE  /\ wNet'[m].cidr # wNet'[k].cidr
                      /\ wNet'[m].default /\ wNet'[k].default /\ wNet'[m].ws # 0 => wNet'[m].ws # wNet'[k].ws
    BY NetworkConstants DEF W!NetworksApart
  <2>1. W!There(m) /\ W!There(k) /\ {"network"} \notin wCrossed /\ wNet'[m] = wNet[m] /\ wNet'[k] = wNet[k]
    BY <1>4, <1>9
  <2>2. /\ wNet[m].cidr # wNet[k].cidr
        /\ wNet[m].default /\ wNet[k].default /\ wNet[m].ws # 0 => wNet[m].ws # wNet[k].ws
    BY <2>1, NetworkConstants DEF NetworksInv, W!NetworksApart
  <2> QED BY <2>1, <2>2
<1>11. W!PoolsApart'
  BY <1>9, NetworkConstants DEF NetworksInv, W!PoolsApart
<1>12. NetworksTyped'
  BY <1>3, <1>6, <1>8 DEF NetworksInv, NetworksTyped
<1> QED BY <1>5, <1>8, <1>9, <1>10, <1>11, <1>12

LEMMA NetworkDeleted ==
    ASSUME NetworksInv, NEW q \in Requests, W!CommitDelete(q)
    PROVE  NetworksInv'
<1>1. PICK o : o = wReq[q]
  OBVIOUS
<1>2. PICK n : n = o.n
  OBVIOUS
<1>3. o.op = "delete" /\ n \in W!Nets /\ W!There(n) /\ W!Kind(wReq[q].op) = "delete" /\ AddressesRead(o)
  BY <1>1, <1>2, KindOf, RequestTyped DEF W!CommitDelete, W!At, W!There
<1>4. /\ wPool' \in [W!Pools -> PoolRows]
      /\ \A p \in W!Pools : IF wPool[p].net = n THEN wPool'[p].net = 0 ELSE wPool'[p] = wPool[p]
  BY <1>1, <1>2, NetworkConstants DEF W!CommitDelete, NetworksInv, NetworksTyped
<1>5. /\ wAlloc' \in [W!Addrs -> AddressRows]
      /\ \A a \in W!Addrs : IF wAlloc[a].net = n THEN wAlloc'[a].net = 0 /\ wAlloc'[a].guest = 0
                            ELSE wAlloc'[a] = wAlloc[a]
  BY <1>1, <1>2, NetworkConstants DEF W!CommitDelete, NetworksInv, NetworksTyped
<1>6. /\ wNet' = [wNet EXCEPT ![n] = [W!NoNet EXCEPT !.state = "gone"]] /\ W!Done(q) /\ UNCHANGED <<wGuest, wBySdn>>
      /\ wLost' = wLost \union W!Losses("delete", W!RowsOf(n), {})
      /\ wUnforced' = (wUnforced \/ (W!RowsOf(n) # {} /\ ~o.force))
  BY <1>1, <1>2 DEF W!CommitDelete
<1>7. /\ NetworksTyped' /\ AllRead' /\ W!NetworksApart' /\ W!PoolsApart' /\ wCrossed \subseteq wCrossed'
      /\ \A m \in W!Nets \ {n} : W!There(m) => W!There(m)'
  BY <1>3, <1>4, <1>5, <1>6, NetworkGone
<1>8. \A k \in o.over : {"delete", k} \in wCrossed'
  BY <1>1, <1>3, <1>6, CrossingsNoted DEF W!Done
<1>9. W!NothingLeftBehind'
  <2>1. \A m : m # n /\ W!There(m) => W!There(m)'
    BY <1>7 DEF W!There
  <2>2. ({"delete", "pool"} \notin wCrossed
         => \A p \in W!Pools : wPool[p].net \in wBySdn \union {0} \/ W!There(wPool[p].net))'
    BY <1>4, <1>6, <1>7, <2>1, NetworkConstants DEF NetworksInv, W!NothingLeftBehind, W!There
  <2>3. ({"delete", "address"} \notin wCrossed
         => \A a \in W!Addrs : wAlloc[a].net \in wBySdn \union {0} \/ W!There(wAlloc[a].net))'
    BY <1>5, <1>6, <1>7, <2>1, NetworkConstants DEF NetworksInv, W!NothingLeftBehind, W!There
  <2>4. {"delete", "address"} \notin wCrossed' => ~wUnforced'
    <3> SUFFICES ASSUME {"delete", "address"} \notin wCrossed' PROVE ~wUnforced'
      OBVIOUS
    <3>1. ~wUnforced
      BY <1>7 DEF NetworksInv, W!NothingLeftBehind
    <3>2. o.force \/ \A a \in W!Addrs : wAlloc[a].net # n
      BY <1>2, <1>3, <1>8 DEF AddressesRead
    <3>3. o.force \/ W!RowsOf(n) = {}
      BY <3>2 DEF W!RowsOf
    <3> QED BY <1>6, <3>1, <3>3
  <2> QED BY <2>2, <2>3, <2>4, NetworkConstants DEF W!NothingLeftBehind
<1>10. UsersHaveRows'
  <2> SUFFICES ASSUME NEW g \in Guests
               PROVE  /\ wGuest'[g].real => wGuest'[g].addr # 0
                      /\ wLost' = {} /\ wGuest'[g].addr # 0 /\ (wGuest'[g].real \/ ~wGuest'[g].row)
                         => wAlloc'[wGuest'[g].addr].guest = g
    BY DEF UsersHaveRows
  <2>1. wGuest[g].addr \in 0..NAddrs
    BY DEF NetworksInv, NetworksTyped, AddressUsers
  <2>2. ASSUME wLost' = {}, wGuest[g].addr # 0, wGuest[g].real \/ ~wGuest[g].row
        PROVE  wAlloc'[wGuest[g].addr].guest = g
    <3>1. wAlloc[wGuest[g].addr].guest = g /\ wGuest[g].addr \in W!Addrs
      BY <1>6, <2>1, <2>2, NetworkConstants DEF NetworksInv, UsersHaveRows
    <3>2. wGuest[g].addr \notin W!RowsOf(n)
      BY <1>6, <2>2, <3>1, LossesAre
    <3> QED BY <1>5, <3>1, <3>2 DEF W!RowsOf
  <2> QED BY <1>6, <2>2 DEF NetworksInv, UsersHaveRows
<1>11. W!GuestsKeepAddresses'
  <2>1. \A l \in wLost' : l.by = "cleanup" /\ l.cached => {"address"} \in wCrossed'
    BY <1>6, <1>7, LossesAre DEF NetworksInv, W!GuestsKeepAddresses
  <2> QED BY <1>10, <2>1 DEF UsersHaveRows, W!GuestsKeepAddresses
<1> QED BY <1>7, <1>9, <1>10, <1>11 DEF NetworksInv

\* The network of a subnet goes: what was in it stays behind, and is told.
LEMMA SubnetGone ==
    ASSUME NetworksInv, NEW q \in Requests, W!SubnetDropped(q)
    PROVE  NetworksInv'
<1>1. PICK n \in W!Nets : W!There(n) /\ wNet' = [wNet EXCEPT ![n] = [W!NoNet EXCEPT !.state = "gone"]]
                          /\ wBySdn' = wBySdn \union {n}
  BY DEF W!SubnetDropped
<1>2. W!Done(q) /\ UNCHANGED <<wPool, wAlloc, wGuest, wLost, wUnforced>> /\ W!Kind(wReq[q].op) = "delete"
  BY KindOf DEF W!SubnetDropped, W!At
<1>3. /\ NetworksTyped' /\ AllRead' /\ W!NetworksApart' /\ W!PoolsApart' /\ wCrossed \subseteq wCrossed'
      /\ \A m \in W!Nets \ {n} : W!There(m) => W!There(m)'
  BY <1>1, <1>2, NetworkGone DEF NetworksInv, NetworksTyped
<1>4. \A m : W!There(m) => W!There(m)' \/ m \in wBySdn'
  BY <1>1, <1>3 DEF W!There
<1>5. W!NothingLeftBehind'
  BY <1>1, <1>2, <1>3, <1>4 DEF NetworksInv, W!NothingLeftBehind
<1>6. UsersHaveRows' /\ W!GuestsKeepAddresses'
  BY <1>2, <1>3 DEF NetworksInv, UsersHaveRows, W!GuestsKeepAddresses
<1> QED BY <1>3, <1>5, <1>6 DEF NetworksInv

LEMMA NetworksStand ==
    ASSUME NetworksInv, UNCHANGED wNet, wCrossed \subseteq wCrossed'
    PROVE  W!NetworksApart' /\ \A n : W!There(n)' <=> W!There(n)
<1>1. \A n : W!There(n)' <=> W!There(n)
  BY DEF W!There
<1>2. W!NetworksApart'
  BY DEF NetworksInv, W!NetworksApart, W!There
<1> QED BY <1>1, <1>2

\* A pool is written: its range meets that of no other of its network.
LEMMA PoolWritten ==
    ASSUME NetworksInv, NEW q \in Requests, W!CommitPool(q)
    PROVE  NetworksInv'
<1>1. PICK o : o = wReq[q]
  OBVIOUS
<1>2. /\ o \in NetRequests /\ Shaped(o) /\ PoolsRead(o) /\ NetworkStays(o) /\ o.op \in {"create pool", "update pool"}
      /\ W!Kind(wReq[q].op) = "pool"
  BY <1>1, RequestTyped, KindOf DEF W!CommitPool
<1>3. PICK free : free = {p \in W!Pools : wPool[p].net = W!None}
  OBVIOUS
<1>4. PICK range : range = o.range
  OBVIOUS
<1>5. range \in PoolRows /\ range.net \in W!Nets
  BY <1>2, <1>4 DEF NetRequests, Shaped
<1>6. PICK p \in W!Pools :
         /\ wPool' = [wPool EXCEPT ![p] = range]
         /\ o.op = "create pool" => o.p = 0
         /\ o.op = "update pool" => p = o.p /\ wPool[p].net = range.net
  <2>1. CASE o.op = "create pool"
    <3>0. free \subseteq Nat
      BY <1>3, NetworkConstants
    <3>1. free # {} /\ wPool' = [wPool EXCEPT ![W!Min(free)] = range]
      BY <1>1, <1>3, <1>4, <2>1 DEF W!CommitPool
    <3>2. W!Min(free) \in W!Pools
      BY <1>3, <3>0, <3>1, LeastNumber
    <3> QED BY <1>2, <2>1, <3>1, <3>2 DEF Shaped
  <2>2. CASE o.op = "update pool"
    BY <1>1, <1>2, <1>4, <2>2 DEF W!CommitPool, Shaped
  <2> QED BY <1>2, <2>1, <2>2
<1>7. /\ wReq' = [W!Wrote(q) EXCEPT ![q] = W!NoRequest] /\ W!Crossings(q) /\ UNCHANGED wEvents
      /\ UNCHANGED <<wNet, wAlloc, wGuest, wBySdn, wLost, wUnforced>>
  BY DEF W!CommitPool, W!Done, W!ghosts
<1>8. wPool' \in [W!Pools -> PoolRows] /\ \A k \in W!Pools : wPool'[k] = IF k = p THEN range ELSE wPool[k]
  BY <1>5, <1>6 DEF NetworksInv, NetworksTyped
<1>9. /\ wCrossed \subseteq wCrossed' /\ ("pool" \in o.over => {"pool"} \in wCrossed')
      /\ ("delete" \in o.over => {"pool", "delete"} \in wCrossed')
  BY <1>1, <1>2, <1>7, CrossingsNoted
<1>10. W!NetworksApart' /\ \A n : W!There(n)' <=> W!There(n)
  BY <1>7, <1>9, NetworksStand
<1>11. wReq' \in [Requests -> NetRequests] /\ AllRead'
  BY <1>2, <1>7, <1>10, NothingAsked, CommitSeen
<1>12. ASSUME {"pool"} \notin wCrossed', NEW k \in W!Pools \ {p}, wPool[k].net = range.net
       PROVE  range.hi < wPool[k].lo \/ wPool[k].hi < range.lo
  <2>1. k # o.p
    BY <1>2, <1>6, <1>12, NetworkConstants
  <2> QED BY <1>2, <1>4, <1>9, <1>12, <2>1 DEF PoolsRead
<1>13. W!PoolsApart'
  <2> SUFFICES ASSUME NEW i \in W!Pools, NEW k \in W!Pools, i # k, wPool'[i].net # 0, wPool'[i].net = wPool'[k].net,
                      {"pool"} \notin wCrossed'
               PROVE  wPool'[i].hi < wPool'[k].lo \/ wPool'[k].hi < wPool'[i].lo
    BY NetworkConstants DEF W!PoolsApart
  <2>1. CASE i = p
    BY <1>8, <1>12, <2>1
  <2>2. CASE k = p
    BY <1>8, <1>12, <2>2
  <2>3. CASE i # p /\ k # p
    BY <1>8, <1>9, <2>3, NetworkConstants DEF NetworksInv, W!PoolsApart
  <2> QED BY <2>1, <2>2, <2>3
<1>14. W!NothingLeftBehind'
  <2>1. {"pool", "delete"} = {"delete", "pool"}
    OBVIOUS
  <2>2. ASSUME {"delete", "pool"} \notin wCrossed' PROVE range.net \in wBySdn \union {0} \/ W!There(range.net)
    <3>1. CASE o.op = "create pool"
      BY <1>2, <1>4, <1>9, <2>1, <2>2, <3>1 DEF NetworkStays
    <3>2. CASE o.op = "update pool"
      BY <1>6, <1>9, <2>2, <3>2, NetworkConstants DEF NetworksInv, W!NothingLeftBehind
    <3> QED BY <1>2, <3>1, <3>2
  <2>3. ({"delete", "pool"} \notin wCrossed
         => \A k \in W!Pools : wPool[k].net \in wBySdn \union {0} \/ W!There(wPool[k].net))'
    <3> SUFFICES ASSUME {"delete", "pool"} \notin wCrossed', NEW k \in W!Pools
                 PROVE  (wPool[k].net \in wBySdn \union {0} \/ W!There(wPool[k].net))'
      OBVIOUS
    <3>1. PICK n : n = wPool'[k].net
      OBVIOUS
    <3>2. n \in wBySdn \union {0} \/ W!There(n)
      BY <1>8, <1>9, <2>2, <3>1, NetworkConstants DEF NetworksInv, W!NothingLeftBehind
    <3> QED BY <1>7, <3>1, <3>2 DEF W!There
  <2>4. ({"delete", "address"} \notin wCrossed
         => /\ \A a \in W!Addrs : wAlloc[a].net \in wBySdn \union {0} \/ W!There(wAlloc[a].net)
            /\ ~wUnforced)'
    BY <1>7, <1>9, NetworkConstants DEF NetworksInv, W!NothingLeftBehind, W!There
  <2> QED BY <2>3, <2>4, NetworkConstants DEF W!NothingLeftBehind
<1>15. UsersHaveRows' /\ W!GuestsKeepAddresses'
  BY <1>7, <1>9 DEF NetworksInv, UsersHaveRows, W!GuestsKeepAddresses
<1>16. NetworksTyped'
  BY <1>7, <1>8, <1>11 DEF NetworksInv, NetworksTyped
<1> QED BY <1>10, <1>11, <1>13, <1>14, <1>15, <1>16 DEF NetworksInv

\* A pool goes; its addresses stay.
LEMMA PoolDeleted ==
    ASSUME NetworksInv, NEW q \in Requests, W!CommitDeletePool(q)
    PROVE  NetworksInv'
<1>1. PICK p : p = wReq[q].p
  OBVIOUS
<1>2. W!Kind(wReq[q].op) = "pool"
  BY KindOf DEF W!CommitDeletePool, W!At
<1>3. /\ wReq' = [W!Wrote(q) EXCEPT ![q] = W!NoRequest] /\ W!Crossings(q) /\ UNCHANGED wEvents
      /\ UNCHANGED <<wNet, wGuest, wBySdn, wLost, wUnforced>>
  BY DEF W!CommitDeletePool, W!Done, W!ghosts
<1>4. wCrossed \subseteq wCrossed'
  BY <1>3, CrossingsNoted
<1>5. /\ wPool' \in [W!Pools -> PoolRows]
      /\ \A k \in W!Pools : wPool'[k] = wPool[k] \/ wPool'[k].net = 0
  BY NetworkConstants DEF W!CommitDeletePool, NetworksInv, NetworksTyped
<1>6. ASSUME NEW a \in W!Addrs
      PROVE  wAlloc'[a] \in AddressRows /\ wAlloc'[a].net = wAlloc[a].net /\ wAlloc'[a].guest = wAlloc[a].guest
  <2>1. PICK row : row = wAlloc[a]
    OBVIOUS
  <2>2. row \in AddressRows
    BY <2>1 DEF NetworksInv, NetworksTyped
  <2>3. PICK left : left = IF row.pool = p THEN W!None ELSE row.pool
    OBVIOUS
  <2>4. wAlloc'[a] = [row EXCEPT !.pool = left]
    BY <1>1, <2>1, <2>3 DEF W!CommitDeletePool
  <2>5. 0 \in 0..NPools
    BY NetworkConstants
  <2>6. left \in 0..NPools
    BY <2>2, <2>3, <2>5 DEF AddressRows, W!None
  <2> QED BY <2>1, <2>2, <2>4, <2>6 DEF AddressRows
<1>7. wAlloc' \in [W!Addrs -> AddressRows]
  BY <1>6 DEF W!CommitDeletePool
<1>8. W!NetworksApart' /\ \A n : W!There(n)' <=> W!There(n)
  BY <1>3, <1>4, NetworksStand
<1>9. wReq' \in [Requests -> NetRequests] /\ AllRead'
  BY <1>2, <1>3, <1>6, <1>8, NothingAsked, CommitSeen
<1>10. W!PoolsApart'
  BY <1>4, <1>5, NetworkConstants DEF NetworksInv, W!PoolsApart
<1>11. W!NothingLeftBehind'
  <2>1. ({"delete", "pool"} \notin wCrossed
         => \A k \in W!Pools : wPool[k].net \in wBySdn \union {0} \/ W!There(wPool[k].net))'
    BY <1>3, <1>4, <1>5, NetworkConstants DEF NetworksInv, W!NothingLeftBehind, W!There
  <2>2. ({"delete", "address"} \notin wCrossed
         => /\ \A a \in W!Addrs : wAlloc[a].net \in wBySdn \union {0} \/ W!There(wAlloc[a].net)
            /\ ~wUnforced)'
    BY <1>3, <1>4, <1>6, NetworkConstants DEF NetworksInv, W!NothingLeftBehind, W!There
  <2> QED BY <2>1, <2>2, NetworkConstants DEF W!NothingLeftBehind
<1>12. UsersHaveRows'
  <2>1. \A g \in Guests : wGuest[g].addr \in 0..NAddrs
    BY DEF NetworksInv, NetworksTyped, AddressUsers
  <2> QED BY <1>3, <1>6, <2>1, NetworkConstants DEF NetworksInv, UsersHaveRows
<1>13. W!GuestsKeepAddresses'
  BY <1>3, <1>4 DEF NetworksInv, W!GuestsKeepAddresses
<1>14. NetworksTyped'
  BY <1>3, <1>5, <1>7, <1>9 DEF NetworksInv, NetworksTyped
<1> QED BY <1>8, <1>9, <1>10, <1>11, <1>12, <1>13, <1>14 DEF NetworksInv

\* Rows of addresses are written; they are of networks that are there.
LEMMA AddressesWritten ==
    ASSUME NetworksInv, NEW q \in Requests, W!Kind(wReq[q].op) = "address", NEW r \in NetRequests,
           wReq' = [W!Wrote(q) EXCEPT ![q] = r], W!Crossings(q), UNCHANGED wEvents,
           UNCHANGED <<wNet, wPool, wBySdn, wUnforced>>,
           wAlloc' \in [W!Addrs -> AddressRows], wGuest' \in [Guests -> AddressUsers],
           \A a \in W!Addrs : \/ wAlloc'[a].net \in {wAlloc[a].net, 0}
                              \/ W!There(wAlloc'[a].net)
                              \/ {"delete", "address"} \in wCrossed',
           Shaped(r), r = W!NoRequest \/ (r.op = "cleanup" /\ AddressesRead(r)')
    PROVE  /\ NetworksTyped' /\ AllRead' /\ W!NetworksApart' /\ W!PoolsApart' /\ W!NothingLeftBehind'
           /\ wCrossed \subseteq wCrossed'
<1>1. wCrossed \subseteq wCrossed'
  BY CrossingsNoted
<1>2. W!NetworksApart' /\ \A n : W!There(n)' <=> W!There(n)
  BY <1>1, NetworksStand
<1>3. wReq' \in [Requests -> NetRequests] /\ AllRead'
  BY <1>2, CommitSeen
<1>4. W!PoolsApart'
  BY <1>1 DEF NetworksInv, W!PoolsApart
<1>5. W!NothingLeftBehind'
  <2>1. ({"delete", "pool"} \notin wCrossed
         => \A k \in W!Pools : wPool[k].net \in wBySdn \union {0} \/ W!There(wPool[k].net))'
    BY <1>1, NetworkConstants DEF NetworksInv, W!NothingLeftBehind, W!There
  <2>2. ({"delete", "address"} \notin wCrossed
         => \A a \in W!Addrs : wAlloc[a].net \in wBySdn \union {0} \/ W!There(wAlloc[a].net))'
    <3> SUFFICES ASSUME {"delete", "address"} \notin wCrossed', NEW a \in W!Addrs
                 PROVE  (wAlloc[a].net \in wBySdn \union {0} \/ W!There(wAlloc[a].net))'
      OBVIOUS
    <3>1. PICK n : n = wAlloc'[a].net
      OBVIOUS
    <3>2. PICK m : m = wAlloc[a].net
      OBVIOUS
    <3>3. m \in wBySdn \union {0} \/ W!There(m)
      BY <1>1, <3>2, NetworkConstants DEF NetworksInv, W!NothingLeftBehind
    <3>4. n \in wBySdn \union {0} \/ W!There(n)
      BY <3>1, <3>2, <3>3
    <3> QED BY <3>1, <3>4 DEF W!There
  <2>3. ({"delete", "address"} \notin wCrossed => ~wUnforced)'
    BY <1>1 DEF NetworksInv, W!NothingLeftBehind
  <2> QED BY <2>1, <2>2, <2>3, NetworkConstants DEF W!NothingLeftBehind
<1>6. NetworksTyped'
  BY <1>3 DEF NetworksInv, NetworksTyped
<1> QED BY <1>1, <1>2, <1>3, <1>4, <1>5, <1>6

\* Guests that have rows of their own have addresses of their own.
LEMMA UsersApart ==
    ASSUME UsersHaveRows', \A l \in wLost' : l.by = "cleanup" /\ l.cached => {"address"} \in wCrossed'
    PROVE  W!GuestsKeepAddresses'
  BY DEF UsersHaveRows, W!GuestsKeepAddresses

LEMMA UserTyped ==
    ASSUME NetworksInv, NEW g \in Guests
    PROVE  /\ wGuest[g] \in AddressUsers /\ wGuest[g].addr \in 0..NAddrs
           /\ wGuest[g].addr # 0 => wGuest[g].addr \in W!Addrs
           /\ wGuest[g].real => wGuest[g].addr # 0
           /\ wLost = {} /\ wGuest[g].addr # 0 /\ (wGuest[g].real \/ ~wGuest[g].row) => wAlloc[wGuest[g].addr].guest = g
<1>1. wGuest[g] \in AddressUsers
  BY DEF NetworksInv, NetworksTyped
<1>2. wGuest[g].addr \in 0..NAddrs
  BY <1>1 DEF AddressUsers
<1>3. wGuest[g].addr # 0 => wGuest[g].addr \in W!Addrs
  BY <1>2, NetworkConstants
<1> QED BY <1>1, <1>2, <1>3 DEF NetworksInv, UsersHaveRows

\* A deployment takes a free address for its guest.
LEMMA AddressAllocated ==
    ASSUME NetworksInv, NEW q \in Requests, W!CommitAllocate(q)
    PROVE  NetworksInv'
<1>1. PICK o : o = wReq[q]
  OBVIOUS
<1>2. /\ o \in NetRequests /\ o.op = "allocate" /\ NetworkStays(o) /\ W!Kind(wReq[q].op) = "address"
      /\ o.n \in W!Nets /\ o.a \in W!Addrs /\ o.g \in Guests
  BY <1>1, RequestTyped, KindOf DEF W!CommitAllocate, W!At, Shaped
<1>3. PICK a \in W!Addrs : a = o.a
  BY <1>2
<1>4. PICK g \in Guests : g = o.g
  BY <1>2
<1>5. PICK row : row = [net |-> o.n, pool |-> o.p, guest |-> g]
  OBVIOUS
<1>6. row \in AddressRows /\ row.net = o.n /\ row.guest = g
  BY <1>2, <1>5, NetworkConstants DEF AddressRows, NetRequests
<1>7. PICK u : u = [wGuest[g] EXCEPT !.addr = a]
  OBVIOUS
<1>8. u \in AddressUsers /\ u.addr = a /\ u.real = wGuest[g].real /\ u.row = wGuest[g].row
  BY <1>7, UserTyped, NetworkConstants DEF AddressUsers
<1>9. /\ wAlloc' = [wAlloc EXCEPT ![a] = row] /\ wAlloc[a] = W!NoRow
      /\ wGuest' = [wGuest EXCEPT ![g] = u]
      /\ wReq' = [W!Wrote(q) EXCEPT ![q] = W!NoRequest] /\ W!Crossings(q)
      /\ UNCHANGED <<wEvents, wNet, wPool, wBySdn, wLost, wUnforced>>
  BY <1>1, <1>3, <1>4, <1>5, <1>7 DEF W!CommitAllocate, W!Done, W!ghosts
<1>10. /\ wAlloc' \in [W!Addrs -> AddressRows]
       /\ \A b \in W!Addrs : wAlloc'[b] = IF b = a THEN row ELSE wAlloc[b]
  BY <1>6, <1>9 DEF NetworksInv, NetworksTyped
<1>11. /\ wGuest' \in [Guests -> AddressUsers]
       /\ \A h \in Guests : wGuest'[h] = IF h = g THEN u ELSE wGuest[h]
  BY <1>8, <1>9 DEF NetworksInv, NetworksTyped
<1>12. wCrossed \subseteq wCrossed' /\ ("delete" \in o.over => {"address", "delete"} \in wCrossed')
  BY <1>1, <1>2, <1>9, CrossingsNoted
<1>13. {"address", "delete"} = {"delete", "address"}
  OBVIOUS
<1>14. W!There(row.net) \/ {"delete", "address"} \in wCrossed'
  BY <1>2, <1>6, <1>12, <1>13 DEF NetworkStays
<1>15. /\ NetworksTyped' /\ AllRead' /\ W!NetworksApart' /\ W!PoolsApart' /\ W!NothingLeftBehind'
  <2>1. \A b \in W!Addrs : \/ wAlloc'[b].net \in {wAlloc[b].net, 0}
                           \/ W!There(wAlloc'[b].net)
                           \/ {"delete", "address"} \in wCrossed'
    BY <1>10, <1>14
  <2> QED BY <1>2, <1>9, <1>10, <1>11, <2>1, NothingAsked, AddressesWritten
<1>16. UsersHaveRows'
  <2> SUFFICES ASSUME NEW h \in Guests
               PROVE  /\ wGuest'[h].real => wGuest'[h].addr # 0
                      /\ wLost' = {} /\ wGuest'[h].addr # 0 /\ (wGuest'[h].real \/ ~wGuest'[h].row)
                         => wAlloc'[wGuest'[h].addr].guest = h
    BY DEF UsersHaveRows
  <2>1. CASE h = g
    BY <1>6, <1>8, <1>10, <1>11, <2>1, NetworkConstants
  <2>2. CASE h # g
    <3>1. wAlloc[a].guest # h
      BY <1>9, NetworkConstants
    <3> QED BY <1>9, <1>10, <1>11, <2>2, <3>1, UserTyped
  <2> QED BY <2>1, <2>2
<1>17. W!GuestsKeepAddresses'
  BY <1>9, <1>12, <1>16, UsersApart DEF NetworksInv, W!GuestsKeepAddresses
<1> QED BY <1>15, <1>16, <1>17 DEF NetworksInv

\* A guest gets the row of the address it has.
LEMMA AddressLinked ==
    ASSUME NetworksInv, NEW q \in Requests, W!CommitLink(q)
    PROVE  NetworksInv'
<1>1. PICK o : o = wReq[q]
  OBVIOUS
<1>2. /\ o \in NetRequests /\ o.op = "link" /\ NetworkStays(o) /\ W!Kind(wReq[q].op) = "address"
      /\ o.n \in W!Nets /\ o.g \in Guests
  BY <1>1, RequestTyped, KindOf DEF W!CommitLink, W!At, Shaped
<1>3. PICK g \in Guests : g = o.g
  BY <1>2
<1>4. PICK a : a = wGuest[g].addr
  OBVIOUS
<1>5. wGuest[g].real /\ a \in W!Addrs /\ wAlloc[a].guest # g
  BY <1>1, <1>3, <1>4, UserTyped DEF W!CommitLink
<1>6. PICK old : old = wAlloc[a]
  OBVIOUS
<1>7. old \in AddressRows
  BY <1>5, <1>6 DEF NetworksInv, NetworksTyped
<1>8. PICK row : row = IF old = W!NoRow THEN [net |-> o.n, pool |-> W!None, guest |-> g] ELSE [old EXCEPT !.guest = g]
  OBVIOUS
<1>9. row \in AddressRows /\ row.net \in {old.net, o.n} /\ row.guest = g
  BY <1>2, <1>7, <1>8, NetworkConstants DEF AddressRows
<1>10. /\ wAlloc' = [wAlloc EXCEPT ![a] = row]
       /\ wLost' = wLost \union W!Losses("link", {a}, W!CachedGuests)
       /\ wReq' = [W!Wrote(q) EXCEPT ![q] = W!NoRequest] /\ W!Crossings(q)
       /\ UNCHANGED <<wEvents, wNet, wPool, wGuest, wBySdn, wUnforced>>
  BY <1>1, <1>3, <1>4, <1>6, <1>8 DEF W!CommitLink, W!Done
<1>11. /\ wAlloc' \in [W!Addrs -> AddressRows]
       /\ \A b \in W!Addrs : wAlloc'[b] = IF b = a THEN row ELSE wAlloc[b]
  BY <1>9, <1>10 DEF NetworksInv, NetworksTyped
<1>12. wCrossed \subseteq wCrossed' /\ ("delete" \in o.over => {"address", "delete"} \in wCrossed')
  BY <1>1, <1>2, <1>10, CrossingsNoted
<1>13. {"address", "delete"} = {"delete", "address"}
  OBVIOUS
<1>14. W!There(o.n) \/ {"delete", "address"} \in wCrossed'
  BY <1>2, <1>12, <1>13 DEF NetworkStays
<1>15. /\ NetworksTyped' /\ AllRead' /\ W!NetworksApart' /\ W!PoolsApart' /\ W!NothingLeftBehind'
  <2>1. \A b \in W!Addrs : \/ wAlloc'[b].net \in {wAlloc[b].net, 0}
                           \/ W!There(wAlloc'[b].net)
                           \/ {"delete", "address"} \in wCrossed'
    BY <1>6, <1>9, <1>11, <1>14
  <2>2. wGuest' \in [Guests -> AddressUsers]
    BY <1>10 DEF NetworksInv, NetworksTyped
  <2> QED BY <1>2, <1>10, <1>11, <2>1, <2>2, NothingAsked, AddressesWritten
<1>16. UsersHaveRows'
  <2> SUFFICES ASSUME NEW h \in Guests
               PROVE  /\ wGuest'[h].real => wGuest'[h].addr # 0
                      /\ wLost' = {} /\ wGuest'[h].addr # 0 /\ (wGuest'[h].real \/ ~wGuest'[h].row)
                         => wAlloc'[wGuest'[h].addr].guest = h
    BY DEF UsersHaveRows
  <2>1. CASE h = g
    BY <1>4, <1>9, <1>10, <1>11, <2>1, UserTyped
  <2>2. CASE h # g
    <3>1. ASSUME wLost' = {}, wGuest[h].addr # 0, wGuest[h].real \/ ~wGuest[h].row
          PROVE  wAlloc'[wGuest[h].addr].guest = h
      <4>1. wAlloc[wGuest[h].addr].guest = h /\ wGuest[h].addr \in W!Addrs
        BY <1>10, <3>1, UserTyped
      <4>2. wGuest[h].addr # a
        BY <1>10, <3>1, <4>1, LossesAre
      <4> QED BY <1>11, <4>1, <4>2
    <3> QED BY <1>10, <3>1, UserTyped
  <2> QED BY <2>1, <2>2
<1>17. W!GuestsKeepAddresses'
  <2>1. \A l \in W!Losses("link", {a}, W!CachedGuests) : l.by = "link"
    BY LossesAre
  <2>2. \A l \in wLost' : l.by = "cleanup" /\ l.cached => {"address"} \in wCrossed'
    BY <1>10, <1>12, <2>1 DEF NetworksInv, W!GuestsKeepAddresses
  <2> QED BY <1>16, <2>2, UsersApart
<1> QED BY <1>15, <1>16, <1>17 DEF NetworksInv

\* The cleanup releases an address, whoever has it by then.
LEMMA AddressReleased ==
    ASSUME NetworksInv, NEW q \in Requests, NEW a \in W!Addrs, W!ReleaseOrphan(q, a)
    PROVE  NetworksInv'
<1>1. PICK o : o = wReq[q]
  OBVIOUS
<1>2. /\ o \in NetRequests /\ Shaped(o) /\ o.op = "cleanup" /\ o.pc = "listed" /\ a \in o.rows /\ AddressesRead(o)
      /\ W!Kind(wReq[q].op) = "address"
  BY <1>1, RequestTyped, KindOf DEF W!ReleaseOrphan, W!At
<1>3. PICK left : left = o.rows \ {a}
  OBVIOUS
<1>4. PICK r : r = IF left = {} THEN W!NoRequest ELSE [o EXCEPT !.rows = left]
  OBVIOUS
<1>5. /\ r \in NetRequests /\ Shaped(r)
      /\ r = W!NoRequest \/ (r.op = "cleanup" /\ r.rows = left /\ r.cached = o.cached /\ r.over = o.over)
  <2>1. CASE left = {}
    BY <1>4, <2>1, NothingAsked
  <2>2. CASE left # {}
    <3>1. r = [o EXCEPT !.rows = left] /\ left \subseteq W!Addrs
      BY <1>2, <1>3, <1>4, <2>2 DEF NetRequests
    <3>2. /\ r \in NetRequests /\ r.op = "cleanup" /\ r.pc = "listed"
          /\ r.rows = left /\ r.cached = o.cached /\ r.over = o.over
      BY <1>2, <3>1 DEF NetRequests
    <3> QED BY <3>2 DEF Shaped
  <2> QED BY <2>1, <2>2
<1>6. /\ wAlloc' = [wAlloc EXCEPT ![a] = W!NoRow]
      /\ wLost' = wLost \union W!Losses("cleanup", {a}, o.cached)
      /\ W!Crossings(q) /\ UNCHANGED <<wEvents, wNet, wPool, wGuest, wBySdn, wUnforced>>
  BY <1>1 DEF W!ReleaseOrphan, W!Done
<1>7. wReq' = [W!Wrote(q) EXCEPT ![q] = r]
  <2>1. CASE left = {}
    BY <1>1, <1>3, <1>4, <2>1 DEF W!ReleaseOrphan, W!Done
  <2>2. CASE left # {}
    <3>1. wReq' = [W!Wrote(q) EXCEPT ![q].rows = left]
      BY <1>1, <1>3, <2>2 DEF W!ReleaseOrphan
    <3>2. W!Wrote(q)[q] = o
      BY <1>1 DEF W!Wrote
    <3> QED BY <1>4, <2>2, <3>1, <3>2
  <2> QED BY <2>1, <2>2
<1>8. /\ wAlloc' \in [W!Addrs -> AddressRows]
      /\ \A b \in W!Addrs : wAlloc'[b] = IF b = a THEN W!NoRow ELSE wAlloc[b]
  BY <1>6, NetworkConstants DEF NetworksInv, NetworksTyped
<1>9. r = W!NoRequest \/ (r.op = "cleanup" /\ AddressesRead(r)')
  <2> SUFFICES ASSUME r # W!NoRequest, "address" \notin o.over, NEW b \in left PROVE wAlloc'[b].guest \notin o.cached
    BY <1>5 DEF AddressesRead
  <2>1. b \in o.rows /\ b # a /\ b \in W!Addrs
    BY <1>2, <1>3 DEF NetRequests
  <2> QED BY <1>2, <1>8, <2>1 DEF AddressesRead
<1>10. wCrossed \subseteq wCrossed' /\ ("address" \in o.over => {"address"} \in wCrossed')
  BY <1>1, <1>2, <1>6, CrossingsNoted
<1>11. /\ NetworksTyped' /\ AllRead' /\ W!NetworksApart' /\ W!PoolsApart' /\ W!NothingLeftBehind'
  <2>1. \A b \in W!Addrs : wAlloc'[b].net \in {wAlloc[b].net, 0}
    BY <1>8, NetworkConstants
  <2>2. wGuest' \in [Guests -> AddressUsers]
    BY <1>6 DEF NetworksInv, NetworksTyped
  <2> QED BY <1>2, <1>5, <1>6, <1>7, <1>8, <1>9, <2>1, <2>2, AddressesWritten
<1>12. UsersHaveRows'
  <2> SUFFICES ASSUME NEW h \in Guests
               PROVE  /\ wGuest'[h].real => wGuest'[h].addr # 0
                      /\ wLost' = {} /\ wGuest'[h].addr # 0 /\ (wGuest'[h].real \/ ~wGuest'[h].row)
                         => wAlloc'[wGuest'[h].addr].guest = h
    BY DEF UsersHaveRows
  <2>1. ASSUME wLost' = {}, wGuest[h].addr # 0, wGuest[h].real \/ ~wGuest[h].row
        PROVE  wAlloc'[wGuest[h].addr].guest = h
    <3>1. wAlloc[wGuest[h].addr].guest = h /\ wGuest[h].addr \in W!Addrs
      BY <1>6, <2>1, UserTyped
    <3>2. wGuest[h].addr # a
      BY <1>6, <2>1, <3>1, LossesAre
    <3> QED BY <1>8, <3>1, <3>2
  <2> QED BY <1>6, <2>1, UserTyped
<1>13. W!GuestsKeepAddresses'
  <2>1. ASSUME NEW l \in W!Losses("cleanup", {a}, o.cached), l.cached PROVE {"address"} \in wCrossed'
    <3>1. wAlloc[a].guest \in o.cached
      BY <2>1, LossesAre
    <3>2. "address" \in o.over
      BY <1>2, <3>1 DEF AddressesRead
    <3> QED BY <1>10, <3>2
  <2>2. \A l \in wLost' : l.by = "cleanup" /\ l.cached => {"address"} \in wCrossed'
    BY <1>6, <1>10, <2>1 DEF NetworksInv, W!GuestsKeepAddresses
  <2> QED BY <1>12, <2>2, UsersApart
<1> QED BY <1>11, <1>12, <1>13 DEF NetworksInv

\* A guest starts, is seen, goes, or is seen to be gone and its rows released.
LEMMA GuestsChange ==
    ASSUME NetworksInv, NEW g \in Guests, W!GuestChanges(g)
    PROVE  NetworksInv'
<1>1. UNCHANGED <<wNet, wPool, wReq, wCrossed, wBySdn, wLost, wUnforced, wEvents>>
  BY DEF W!GuestChanges, W!ghosts
<1>2. PICK u \in AddressUsers :
         /\ wGuest' = [wGuest EXCEPT ![g] = u]
         /\ u.real => u.addr # 0
         /\ u.addr # 0 /\ (u.real \/ ~u.row) => u.addr = wGuest[g].addr /\ (wGuest[g].real \/ ~wGuest[g].row)
         /\ wAlloc' = wAlloc \/ (u.addr = 0 /\ wAlloc' = [a \in W!Addrs |-> IF wAlloc[a].guest = g THEN W!NoRow ELSE wAlloc[a]])
  <2>1. PICK old : old = wGuest[g]
    OBVIOUS
  <2>2. old \in AddressUsers
    BY <2>1, UserTyped
  <2>3. CASE W!Boots(g)
    <3>1. PICK u : u = [old EXCEPT !.real = TRUE]
      OBVIOUS
    <3>2. u \in AddressUsers /\ u.addr = old.addr /\ u.row = old.row
      BY <2>2, <3>1 DEF AddressUsers
    <3>3. wGuest' = [wGuest EXCEPT ![g] = u] /\ old.addr # 0 /\ ~old.row /\ UNCHANGED wAlloc
      BY <2>1, <2>3, <3>1, NetworkConstants DEF W!Boots
    <3> QED BY <2>1, <3>2, <3>3
  <2>4. CASE W!Cached(g)
    <3>1. PICK u : u = [old EXCEPT !.row = TRUE]
      OBVIOUS
    <3>2. u \in AddressUsers /\ u.addr = old.addr /\ u.real = old.real
      BY <2>2, <3>1 DEF AddressUsers
    <3>3. wGuest' = [wGuest EXCEPT ![g] = u] /\ old.real /\ UNCHANGED wAlloc
      BY <2>1, <2>4, <3>1 DEF W!Cached
    <3> QED BY <2>1, <3>2, <3>3, UserTyped
  <2>5. CASE W!Destroyed(g)
    <3>1. PICK u : u = [old EXCEPT !.real = FALSE]
      OBVIOUS
    <3>2. u \in AddressUsers /\ u.addr = old.addr /\ ~u.real
      BY <2>2, <3>1 DEF AddressUsers
    <3>3. wGuest' = [wGuest EXCEPT ![g] = u] /\ old.real /\ UNCHANGED wAlloc
      BY <2>1, <2>5, <3>1 DEF W!Destroyed
    <3> QED BY <2>1, <3>2, <3>3
  <2>6. CASE W!Swept(g)
    BY <2>6, NetworkConstants DEF W!Swept
  <2> QED BY <2>3, <2>4, <2>5, <2>6 DEF W!GuestChanges
<1>3. /\ wGuest' \in [Guests -> AddressUsers]
      /\ \A h \in Guests : wGuest'[h] = IF h = g THEN u ELSE wGuest[h]
  BY <1>2 DEF NetworksInv, NetworksTyped
<1>4. /\ wAlloc' \in [W!Addrs -> AddressRows]
      /\ \A a \in W!Addrs : wAlloc'[a] = wAlloc[a] \/ (wAlloc'[a] = W!NoRow /\ wAlloc[a].guest = g /\ u.addr = 0)
  BY <1>2, NetworkConstants DEF NetworksInv, NetworksTyped
<1>5. /\ W!NetworksApart' /\ W!PoolsApart' /\ \A n : W!There(n)' <=> W!There(n)
  BY <1>1, NetworksStand DEF NetworksInv, W!PoolsApart
<1>6. AllRead'
  <2> SUFFICES ASSUME NEW q \in Requests
               PROVE  (Shaped(wReq[q]) /\ NetworksRead(wReq[q]) /\ PoolsRead(wReq[q]) /\ NetworkStays(wReq[q])
                       /\ AddressesRead(wReq[q]))'
    BY DEF AllRead
  <2>1. PICK o : o = wReq[q]
    OBVIOUS
  <2>2. /\ o \in NetRequests /\ Shaped(o) /\ NetworksRead(o) /\ PoolsRead(o) /\ NetworkStays(o) /\ AddressesRead(o)
    BY <2>1, RequestTyped
  <2>3. (o.op = "delete" => o.n # 0) /\ o.rows \subseteq W!Addrs /\ 0 \notin o.cached
    BY <2>2, NetworkConstants DEF NetRequests, Shaped
  <2>4. \A a \in W!Addrs : wAlloc'[a].net \in {wAlloc[a].net, 0} /\ wAlloc'[a].guest \in {wAlloc[a].guest, 0}
    BY <1>4, NetworkConstants
  <2>5. ASSUME "address" \notin o.over, o.op = "delete", ~o.force, NEW a \in W!Addrs
        PROVE  wAlloc'[a].net # o.n
    <3>1. wAlloc[a].net # o.n
      BY <2>2, <2>5 DEF AddressesRead
    <3> QED BY <2>3, <2>4, <2>5, <3>1
  <2>6. ASSUME "address" \notin o.over, o.op = "cleanup", NEW a \in o.rows
        PROVE  wAlloc'[a].guest \notin o.cached
    <3>1. wAlloc[a].guest \notin o.cached /\ a \in W!Addrs
      BY <2>2, <2>3, <2>6 DEF AddressesRead
    <3> QED BY <2>3, <2>4, <3>1
  <2>7. AddressesRead(o)'
    BY <2>5, <2>6 DEF AddressesRead
  <2>8. AddressesRead(wReq[q])'
    BY <1>1, <2>1, <2>7 DEF AddressesRead
  <2>9. Shaped(wReq[q])' /\ PoolsRead(wReq[q])'
    BY <1>1, <2>1, <2>2 DEF Shaped, PoolsRead
  <2>10. NetworksRead(wReq[q])' /\ NetworkStays(wReq[q])'
    BY <1>1, <2>1, <2>2 DEF NetworksRead, NetworkStays, W!There
  <2> QED BY <2>8, <2>9, <2>10
<1>7. W!NothingLeftBehind'
  <2>1. ({"delete", "pool"} \notin wCrossed
         => \A k \in W!Pools : wPool[k].net \in wBySdn \union {0} \/ W!There(wPool[k].net))'
    BY <1>1, NetworkConstants DEF NetworksInv, W!NothingLeftBehind, W!There
  <2>2. ({"delete", "address"} \notin wCrossed
         => /\ \A a \in W!Addrs : wAlloc[a].net \in wBySdn \union {0} \/ W!There(wAlloc[a].net)
            /\ ~wUnforced)'
    BY <1>1, <1>4, NetworkConstants DEF NetworksInv, W!NothingLeftBehind, W!There
  <2> QED BY <2>1, <2>2, NetworkConstants DEF W!NothingLeftBehind
<1>8. UsersHaveRows'
  <2> SUFFICES ASSUME NEW h \in Guests
               PROVE  /\ wGuest'[h].real => wGuest'[h].addr # 0
                      /\ wLost' = {} /\ wGuest'[h].addr # 0 /\ (wGuest'[h].real \/ ~wGuest'[h].row)
                         => wAlloc'[wGuest'[h].addr].guest = h
    BY DEF UsersHaveRows
  <2>1. CASE h = g
    <3>1. ASSUME wLost' = {}, u.addr # 0, u.real \/ ~u.row
          PROVE  wAlloc'[u.addr].guest = g
      <4>1. u.addr = wGuest[g].addr /\ (wGuest[g].real \/ ~wGuest[g].row) /\ wAlloc' = wAlloc
        BY <1>2, <3>1
      <4> QED BY <1>1, <3>1, <4>1, UserTyped
    <3> QED BY <1>2, <1>3, <2>1, <3>1
  <2>2. CASE h # g
    BY <1>1, <1>3, <1>4, <2>2, UserTyped
  <2> QED BY <2>1, <2>2
<1>9. W!GuestsKeepAddresses'
  BY <1>1, <1>8, UsersApart DEF NetworksInv, W!GuestsKeepAddresses
<1>10. NetworksTyped'
  BY <1>1, <1>3, <1>4 DEF NetworksInv, NetworksTyped
<1> QED BY <1>5, <1>6, <1>7, <1>8, <1>9, <1>10 DEF NetworksInv

LEMMA NetworksKept == NetworksInv /\ [W!Next]_(W!vars) => NetworksInv'
<1> SUFFICES ASSUME NetworksInv, [W!Next]_(W!vars) PROVE NetworksInv'
  OBVIOUS
<1>1. CASE UNCHANGED W!vars
  <2>1. UNCHANGED <<wNet, wPool, wAlloc, wGuest, wReq, wCrossed, wBySdn, wLost, wUnforced, wEvents>>
    BY <1>1 DEF W!vars
  <2>2. NetworksTyped'
    BY <2>1 DEF NetworksInv, NetworksTyped
  <2>3. AllRead'
    <3> SUFFICES ASSUME NEW q \in Requests
                 PROVE  (Shaped(wReq[q]) /\ NetworksRead(wReq[q]) /\ PoolsRead(wReq[q]) /\ NetworkStays(wReq[q])
                         /\ AddressesRead(wReq[q]))'
      BY DEF AllRead
    <3>1. Shaped(wReq[q])' /\ PoolsRead(wReq[q])'
      BY <2>1, RequestTyped DEF Shaped, PoolsRead
    <3>2. NetworksRead(wReq[q])' /\ NetworkStays(wReq[q])'
      BY <2>1, RequestTyped DEF NetworksRead, NetworkStays, W!There
    <3>3. AddressesRead(wReq[q])'
      BY <2>1, RequestTyped DEF AddressesRead
    <3> QED BY <3>1, <3>2, <3>3
  <2>4. UsersHaveRows' /\ W!GuestsKeepAddresses'
    BY <2>1 DEF NetworksInv, UsersHaveRows, W!GuestsKeepAddresses
  <2>5. W!NetworksApart' /\ W!PoolsApart' /\ W!NothingLeftBehind'
    BY <2>1 DEF NetworksInv, W!NetworksApart, W!PoolsApart, W!NothingLeftBehind, W!There
  <2> QED BY <2>2, <2>3, <2>4, <2>5 DEF NetworksInv
<1>2. ASSUME NEW q \in Requests, W!Asked(q) PROVE NetworksInv'
  <2>1. wEvents' \in 0..MaxEvents
    BY <1>2, PanelAssumption DEF W!Asked, NetworksInv, NetworksTyped
  <2> QED BY <1>2, <2>1, NetworkAsked, AddressAsked DEF W!Asked
<1>3. ASSUME NEW q \in Requests, W!GoesOn(q) PROVE NetworksInv'
  <2>1. CASE W!EnforceSingleDefault(q) \/ W!SubnetMade(q) \/ W!Fails(q)
    <3>1. UNCHANGED wEvents
      BY <2>1 DEF W!EnforceSingleDefault, W!SubnetMade, W!Fails, W!GoTo
    <3> QED BY <2>1, <3>1, RequestSteps
  <2> QED BY <1>3, <2>1, NetworkWritten, NetworkDeleted, SubnetGone, PoolWritten, PoolDeleted, AddressAllocated,
             AddressLinked, AddressReleased DEF W!GoesOn
<1> QED BY <1>1, <1>2, <1>3, GuestsChange DEF W!Next

\* The rows of networks, pools and addresses fit each other, but for what
\* requests that ran at the same time, or the deletion of a subnet, may do.
THEOREM NetworksHold ==
    Spec => [](part = "networks" => W!NetworksApart /\ W!PoolsApart /\ W!NothingLeftBehind /\ W!GuestsKeepAddresses)
<1> DEFINE Inv == part = "networks" => NetworksInv
<1>1. Init => Inv
  BY NetworksInit DEF Init
<1>2. Inv /\ [Next]_vars => Inv'
  <2> SUFFICES ASSUME Inv, [Next]_vars, part' = "networks" PROVE NetworksInv'
    OBVIOUS
  <2>1. part = "networks" /\ [W!Next]_(W!vars)
    BY EachOfItsOwn
  <2> QED BY <2>1, NetworksKept
<1>3. Inv => (part = "networks" => W!NetworksApart /\ W!PoolsApart /\ W!NothingLeftBehind /\ W!GuestsKeepAddresses)
  BY DEF NetworksInv
<1> QED BY <1>1, <1>2, <1>3, PTL DEF Spec

-----------------------------------------------------------------------------
\* What is changed reaches what it was meant for, and takes nothing away that
\* others rely on: lists of the firewall, rows of networks, settings of nodes.
THEOREM EditsHold == Spec => []EditsTrue
  BY RulesReachTheirMark, NetworksHold, SettingsHold, PTL DEF EditsTrue

\* What guests are made of: the boot order in force, the volumes, and the images
\* and templates they come from.  No volume has a name that is part of another's.
THEOREM GuestsHold == Longer = {} => (Spec => []GuestsTrue)
<1> SUFFICES ASSUME Longer = {} PROVE Spec => []GuestsTrue
  OBVIOUS
<1> QED BY RestartsApply, VolumesSurvive, TemplatesHold, PTL DEF GuestsTrue

-----------------------------------------------------------------------------
\* Of every part that looks after what others own, the variables have their types:
\* rules are numbered as they were made, pools and addresses are of networks there
\* may be, no guest has the id of one that is gone.
THEOREM ResourceTypes ==
    Spec => [](part \in {"firewall", "hardware", "node", "templates", "networks"} => TypeOK)
<1> DEFINE Inv == /\ part \in Parts
                  /\ part = "firewall" => RulesInv /\ RulesNumbered
                  /\ part = "hardware" => HardInv
                  /\ part = "node" => SettingsInv
                  /\ part = "templates" => TemplatesInv
                  /\ part = "networks" => NetworksInv
<1>1. Init => Inv
  <2>1. F!Init => RulesNumbered
    <3>1. MaxItems \in Nat /\ MaxCalls \in Nat /\ <<>> \in Seq(1..MaxItems)
      BY BoundsAssumption, EmptySeq
    <3> QED BY <3>1 DEF F!Init, RulesNumbered, F!Scopes, F!Lists, F!Tables, F!None
  <2> QED BY <2>1, RulesInit, HardInit, SettingsInit, TemplatesInit, NetworksInit DEF Init
<1>2. Inv /\ [Next]_vars => Inv'
  <2> SUFFICES ASSUME Inv, [Next]_vars PROVE Inv'
    OBVIOUS
  <2>1. part' = part
    BY EachOfItsOwn
  <2>2. CASE part = "firewall"
    BY <2>1, <2>2, EachOfItsOwn, RulesKept, RulesNumberedKept
  <2>3. CASE part = "hardware"
    BY <2>1, <2>3, EachOfItsOwn, HardKept
  <2>4. CASE part = "node"
    BY <2>1, <2>4, EachOfItsOwn, SettingsInvKept
  <2>5. CASE part = "templates"
    BY <2>1, <2>5, EachOfItsOwn, TemplatesKept
  <2>6. CASE part = "networks"
    BY <2>1, <2>6, EachOfItsOwn, NetworksKept
  <2> QED BY <2>1, <2>2, <2>3, <2>4, <2>5, <2>6
<1>3. Inv => (part \in {"firewall", "hardware", "node", "templates", "networks"} => TypeOK)
  <2> SUFFICES ASSUME Inv, part \in {"firewall", "hardware", "node", "templates", "networks"} PROVE TypeOK
    OBVIOUS
  <2>1. CASE part = "firewall"
    <3>1. F!TypeOK
      BY <2>1 DEF RulesInv, RulesTyped, RuleRequests, RulesNumbered, F!TypeOK
    <3> QED BY <2>1, <3>1 DEF TypeOK
  <2>2. CASE part = "hardware"
    BY <2>2 DEF HardInv, TypeOK
  <2>3. CASE part = "node"
    <3>1. D!TypeOK
      BY <2>3 DEF SettingsInv, SettingsTyped, Shown, Edits, Looks, D!TypeOK
    <3> QED BY <2>3, <3>1 DEF TypeOK
  <2>4. CASE part = "templates"
    <3>1. T!TypeOK
      BY <2>4 DEF TemplatesInv, TemplatesTyped, GuestsNumbered, GuestRecords, TemplateRows, T!TypeOK
    <3> QED BY <2>4, <3>1 DEF TypeOK
  <2>5. CASE part = "networks"
    <3>1. W!TypeOK
      BY <2>5 DEF NetworksInv, NetworksTyped, NetRows, PoolRows, AddressRows, W!None, W!TypeOK
    <3> QED BY <2>5, <3>1 DEF TypeOK
  <2> QED BY <2>1, <2>2, <2>3, <2>4, <2>5
<1> QED BY <1>1, <1>2, <1>3, PTL DEF Spec

\* And so of the whole panel: whatever part a behaviour is about, its variables have
\* their types, what requests remember between their steps is what they may remember,
\* and the cache, tries and histories stay in their bounds.
THEOREM PanelTypesHold == Spec => []TypeOK
<1>1. Init => part \in Parts
  BY DEF Init
<1>2. part \in Parts /\ [Next]_vars => (part \in Parts)'
  BY EachOfItsOwn
<1>3. /\ part \in Parts
      /\ part \in {"connections", "users", "gate", "startup", "schema", "clusters"} => TypeOK
      /\ part \in {"firewall", "hardware", "node", "templates", "networks"} => TypeOK
      => TypeOK
  BY PanelAssumption
<1> QED BY <1>1, <1>2, <1>3, AdministrationTypes, ResourceTypes, PTL DEF Spec
=============================================================================
