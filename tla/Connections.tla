----------------------------- MODULE Connections -----------------------------
(***************************************************************************)
(* The connections to one Proxmox server and the credentials they carry.   *)
(* Every thread that needs the server reads its row and opens a client,    *)
(* which is kept in a cache of the process under the host, the user and    *)
(* the name of the token, but not the secret.  Requests edit the row, have *)
(* Proxmox issue a token, add and delete the server.                       *)
(***************************************************************************)
EXTENDS Naturals, FiniteSets

CONSTANTS
    Threads,     \* requests and jobs
    NNames,      \* names of API tokens
    CacheSize,   \* cached connections at most
    MaxSecrets,  \* bound: secrets in all
    MaxEvents    \* bound: changes on Proxmox, crashes, failed commits, tests

\* Connections are cached by key: the password, or the name of a token.
Password == 0
Names == 1..NNames
Keys == {Password} \union Names
None == 0
Secrets == 1..MaxSecrets

VARIABLES
    accepted,    \* accepted[k]: the secret Proxmox accepts
    row,         \* the row of the server
    cache,       \* cache[k]: the secret of the cached connection
    thr,         \* thr[t]: what the thread does
    replaced,    \* history: credentials an edit took out of the row
    made,        \* history: tokens the panel had Proxmox issue
    left,        \* history: of these, the ones it lets go of
    crossed,     \* history: an opening overlapped an edit, or an edit broke off
    issued,      \* secrets so far
    events

vars == <<accepted, row, cache, thr, replaced, made, left, crossed, issued, events>>

Cred(k, s) == [key |-> k, secret |-> s]
NoCred == Cred(Password, None)
Idle == [pc |-> "idle", job |-> "use", cred |-> NoCred, new |-> NoCred]
Jobs == {"use", "update", "delete", "provision", "create"}

Init ==
    /\ accepted = [k \in Keys |-> IF k = Password THEN 1 ELSE None]
    /\ row = [live |-> TRUE, token_first |-> FALSE, password |-> 1, token |-> NoCred]
    /\ cache = [k \in Keys |-> None]
    /\ thr = [t \in Threads |-> Idle]
    /\ replaced = {} /\ made = {} /\ left = {} /\ crossed = FALSE
    /\ issued = 1 /\ events = 0

-----------------------------------------------------------------------------
At(t, pc) == thr[t].pc = pc
Set(t, changes) == thr' = [thr EXCEPT ![t] = changes]
GoTo(t, pc) == Set(t, [thr[t] EXCEPT !.pc = pc])
Event == events < MaxEvents /\ events' = events + 1
Opening == {"lookup", "connect", "store", "opened"}
Others(t, pcs) == \E u \in Threads \ {t} : thr[u].pc \in pcs

\* from_server: the password when the row says so, else the token.
InRow(r) == IF r.token_first \/ r.password = None THEN r.token ELSE Cred(Password, r.password)
Cached == {k \in Keys : cache[k] # None}

(* Opening a client.                                                       *)
Use(t) ==
    /\ At(t, "idle") /\ row.live /\ InRow(row).secret # None
    /\ Set(t, [Idle EXCEPT !.pc = "lookup", !.cred = InRow(row)])
    /\ UNCHANGED <<accepted, row, cache, replaced, made, left, crossed, issued, events>>

\* Credentials that are typed in are tried in the same way.
TestCredentials(t) ==
    /\ At(t, "idle") /\ Event
    /\ \E k \in Keys, s \in 1..issued :
          /\ Set(t, [Idle EXCEPT !.pc = "lookup", !.cred = Cred(k, s)])
          /\ crossed' = (crossed \/ Cred(k, s) \in replaced)
    /\ UNCHANGED <<accepted, row, cache, replaced, made, left, issued>>

\* What is cached under the key is taken, whatever its secret.
Lookup(t) ==
    /\ At(t, "lookup")
    /\ GoTo(t, IF cache[thr[t].cred.key] # None THEN "opened" ELSE "connect")
    /\ UNCHANGED <<accepted, row, cache, replaced, made, left, crossed, issued, events>>

\* Proxmox is asked for its version; a refusal also drops what is cached by now.
Connect(t) ==
    /\ At(t, "connect")
    /\ LET c == thr[t].cred IN
       \/ accepted[c.key] = c.secret /\ GoTo(t, "store") /\ UNCHANGED cache
       \/ /\ accepted[c.key] # c.secret
          /\ cache' = [cache EXCEPT ![c.key] = None] /\ Set(t, Idle)
    /\ UNCHANGED <<accepted, row, replaced, made, left, crossed, issued, events>>

\* Mutant: room is made one connection too late.
MutStore(t) ==
    /\ At(t, "store") /\ GoTo(t, "opened")
    /\ cache' = [cache EXCEPT ![thr[t].cred.key] = thr[t].cred.secret]
    /\ crossed' = (crossed \/ Others(t, {"commit"}))
    /\ UNCHANGED <<accepted, row, replaced, made, left, issued, events>>

\* When the cache is full the oldest connection makes room.
Store(t) ==
    /\ At(t, "store") /\ GoTo(t, "opened")
    /\ LET c == thr[t].cred
           With(k) == [cache EXCEPT ![k] = None, ![c.key] = c.secret] IN
       IF Cardinality(Cached) < CacheSize THEN cache' = With(c.key) ELSE \E k \in Cached : cache' = With(k)
    /\ crossed' = (crossed \/ Others(t, {"commit"}))
    /\ UNCHANGED <<accepted, row, replaced, made, left, issued, events>>

\* The client does its work, or fails at it; the one of a provisioning has
\* Proxmox issue a token next.
Opened(t) ==
    /\ At(t, "opened")
    /\ Set(t, Idle) \/ (thr[t].job \in {"provision", "create"} /\ GoTo(t, "issue"))
    /\ UNCHANGED <<accepted, row, cache, replaced, made, left, crossed, issued, events>>

\* A connection expires an hour after its last use.
Expire(k) ==
    /\ cache[k] # None /\ cache' = [cache EXCEPT ![k] = None]
    /\ UNCHANGED <<accepted, row, thr, replaced, made, left, crossed, issued, events>>

(* Editing the server.                                                     *)
\* An update clears the cache when it brings a secret or a name.
Update(t) ==
    /\ At(t, "idle") /\ row.live /\ Event
    /\ \E k \in Keys, s \in 1..issued :
          Set(t, [Idle EXCEPT !.pc = "clear", !.job = "update", !.new = Cred(k, s)])
    /\ UNCHANGED <<accepted, row, cache, replaced, made, left, crossed, issued>>

\* Which of the two is used is a field of its own.
SwitchUse(t) ==
    /\ At(t, "idle") /\ row.live /\ Event
    /\ row' = [row EXCEPT !.token_first = ~@]
    /\ Set(t, [Idle EXCEPT !.pc = "lookup", !.cred = InRow(row')])
    /\ UNCHANGED <<accepted, cache, replaced, made, left, crossed, issued>>

Remove(t) ==
    /\ At(t, "idle") /\ row.live /\ Event
    /\ Set(t, [Idle EXCEPT !.pc = "clear", !.job = "delete"])
    /\ UNCHANGED <<accepted, row, cache, replaced, made, left, crossed, issued>>

\* Mutant: nothing is cleared.
MutClear(t) ==
    /\ At(t, "clear")
    /\ IF thr[t].job = "provision" THEN Set(t, Idle) ELSE GoTo(t, "commit")
    /\ UNCHANGED <<accepted, row, cache, replaced, made, left, crossed, issued, events>>

\* clear_server_cache takes no lock: beside a thread that adds or drops a
\* connection it may break off, and an update or a deletion with it.
Clear(t) ==
    /\ At(t, "clear")
    /\ LET done == IF thr[t].job = "provision" THEN Idle ELSE [thr[t] EXCEPT !.pc = "commit"] IN
       \/ cache' = [k \in Keys |-> None] /\ Set(t, done) /\ UNCHANGED crossed
       \/ /\ Others(t, {"connect", "store", "clear"}) /\ UNCHANGED cache
          /\ Set(t, Idle) /\ crossed' = TRUE
    /\ UNCHANGED <<accepted, row, replaced, made, left, issued, events>>

\* What leaves the row is replaced, and a token of the panel is let go.
WriteRow(r) ==
    /\ row' = r
    /\ LET Held(x) == IF x.live THEN {c \in {Cred(Password, x.password), x.token} : c.secret # None} ELSE {}
       IN /\ replaced' = (replaced \union Held(row)) \ Held(r)
          /\ left' = left \union (made \intersect (Held(row) \ Held(r)))

\* An update opens a client with what the row says now.
Commit(t) ==
    /\ At(t, "commit")
    /\ LET n == thr[t].new IN
       IF thr[t].job = "update" /\ row.live
       THEN /\ WriteRow(IF n.key = Password THEN [row EXCEPT !.password = n.secret]
                                            ELSE [row EXCEPT !.token = n])
            /\ Set(t, [Idle EXCEPT !.pc = "lookup", !.cred = InRow(row')])
       ELSE WriteRow([row EXCEPT !.live = (thr[t].job = "update") /\ @]) /\ Set(t, Idle)
    /\ crossed' = (crossed \/ Others(t, Opening \union {"clear", "commit"}))
    /\ UNCHANGED <<accepted, cache, made, issued, events>>

(* A token from Proxmox, for a server that is there or one to be added.    *)
Provision(t) ==
    /\ At(t, "idle") /\ row.live /\ row.password # None /\ Event
    /\ Set(t, [Idle EXCEPT !.pc = "lookup", !.job = "provision", !.cred = Cred(Password, row.password)])
    /\ UNCHANGED <<accepted, row, cache, replaced, made, left, crossed, issued>>

\* A server is added with a password: to be used, or to have a token issued.
Create(t) ==
    /\ At(t, "idle") /\ ~row.live /\ \A u \in Threads : thr[u].job # "create"
    /\ \E s \in 1..issued :
          LET c == Cred(Password, s) IN
          \/ /\ Set(t, [Idle EXCEPT !.pc = "lookup", !.job = "create", !.cred = c])
             /\ crossed' = (crossed \/ c \in replaced) /\ UNCHANGED <<row, replaced, left>>
          \/ /\ WriteRow([live |-> TRUE, token_first |-> FALSE, password |-> s, token |-> NoCred])
             /\ Set(t, [Idle EXCEPT !.pc = "lookup", !.cred = c]) /\ UNCHANGED crossed
    /\ UNCHANGED <<accepted, cache, made, issued, events>>

\* A free name is taken; Proxmox tells the secret once.
Issue(t) ==
    /\ At(t, "issue")
    /\ \/ /\ issued < MaxSecrets
          /\ \E n \in Names :
                LET c == Cred(n, issued + 1) IN
                /\ accepted[n] = None /\ \A m \in Names : m < n => accepted[m] # None
                /\ accepted' = [accepted EXCEPT ![n] = issued + 1] /\ issued' = issued + 1
                /\ made' = made \union {c}
                /\ Set(t, [thr[t] EXCEPT !.pc = "save", !.new = c])
       \/ Set(t, Idle) /\ UNCHANGED <<issued, accepted, made>>
    /\ UNCHANGED <<row, cache, replaced, left, crossed, events>>

\* The token comes into the row, and for a server that was there what is
\* cached goes.
Save(t) ==
    /\ At(t, "save")
    /\ IF thr[t].job = "create"
       THEN /\ WriteRow([live |-> TRUE, token_first |-> TRUE, password |-> thr[t].cred.secret,
                         token |-> thr[t].new])
            /\ Set(t, [Idle EXCEPT !.pc = "lookup", !.cred = thr[t].new])
       ELSE /\ row.live /\ GoTo(t, "clear")
            /\ WriteRow([row EXCEPT !.token_first = TRUE, !.token = thr[t].new])
    /\ crossed' = (crossed \/ Others(t, Opening \union {"clear", "commit"}))
    /\ UNCHANGED <<accepted, cache, made, issued, events>>

\* Mutant: the token that is not saved stays on Proxmox.
MutSaveFails(t) ==
    /\ At(t, "save") /\ Event /\ Set(t, Idle)
    /\ UNCHANGED <<accepted, row, cache, replaced, made, left, crossed, issued>>

\* The commit fails, for one when the server has been deleted meanwhile.
SaveFails(t) ==
    /\ At(t, "save") /\ Event /\ GoTo(t, "revoke")
    /\ UNCHANGED <<accepted, row, cache, replaced, made, left, crossed, issued>>

\* The token is deleted again with the same password, as well as it goes; the
\* row that would have to tell the password may be gone.
Revoke(t) ==
    /\ At(t, "revoke") /\ Set(t, Idle)
    /\ LET n == thr[t].new IN
       \/ /\ thr[t].job = "create" \/ row.live
          /\ cache[Password] # None \/ accepted[Password] = thr[t].cred.secret
          /\ accepted' = [accepted EXCEPT ![n.key] = None] /\ UNCHANGED left
       \/ left' = left \union {n} /\ UNCHANGED accepted
    /\ UNCHANGED <<row, cache, replaced, made, crossed, issued, events>>

-----------------------------------------------------------------------------
(* Proxmox: its password is changed, a token is deleted, another panel has   *)
(* one issued; and the end of the process.                                 *)
Outside ==
    /\ Event
    /\ \/ \E k \in Keys : /\ k = Password \/ accepted[k] = None
                          /\ issued < MaxSecrets /\ issued' = issued + 1
                          /\ accepted' = [accepted EXCEPT ![k] = issued + 1]
       \/ \E n \in Names : /\ accepted[n] # None /\ accepted' = [accepted EXCEPT ![n] = None]
                           /\ UNCHANGED issued
    /\ UNCHANGED <<row, cache, thr, replaced, made, left, crossed>>

\* What a crash finds unsaved nobody knows any more.
Crash ==
    /\ Event
    /\ cache' = [k \in Keys |-> None]
    /\ thr' = [t \in Threads |-> Idle]
    /\ left' = left \union {thr[t].new : t \in {u \in Threads : thr[u].pc \in {"save", "revoke"}}}
    /\ UNCHANGED <<accepted, row, replaced, made, crossed, issued>>

Next ==
    \/ \E t \in Threads :
          \/ Use(t) \/ TestCredentials(t) \/ Lookup(t) \/ Connect(t) \/ Store(t) \/ Opened(t)
          \/ Update(t) \/ SwitchUse(t) \/ Remove(t) \/ Clear(t) \/ Commit(t)
          \/ Provision(t) \/ Create(t) \/ Issue(t) \/ Save(t) \/ SaveFails(t) \/ Revoke(t)
    \/ \E k \in Keys : Expire(k)
    \/ Outside \/ Crash

Spec == Init /\ [][Next]_vars

-----------------------------------------------------------------------------
Creds == [key : Keys, secret : 0..MaxSecrets]

TypeOK ==
    /\ accepted \in [Keys -> 0..MaxSecrets]
    /\ cache \in [Keys -> 0..MaxSecrets] /\ Cardinality(Cached) <= CacheSize
    /\ row \in [live : BOOLEAN, token_first : BOOLEAN, password : 0..MaxSecrets, token : Creds]
    /\ thr \in [Threads -> [pc : Opening \union {"idle", "clear", "commit", "issue", "save", "revoke"},
                            job : Jobs, cred : Creds, new : Creds]]
    /\ replaced \subseteq Creds /\ made \subseteq Creds /\ left \subseteq made
    /\ crossed \in BOOLEAN /\ issued \in 1..MaxSecrets /\ events \in 0..MaxEvents

\* Once credentials are edited, no connection that carries the former ones is
\* in the cache, unless one was being opened meanwhile.
CredentialsFresh ==
    ~crossed /\ (\A t \in Threads : ~(thr[t].job = "provision" /\ At(t, "clear"))) =>
        \A k \in Cached : Cred(k, cache[k]) \notin replaced

\* No token is forgotten on the server: one the panel had issued that Proxmox
\* still accepts is in the row, on its way there or back, or the panel let it
\* go knowingly: when it was replaced, or could not be revoked.
TokensAccounted ==
    \A c \in made : accepted[c.key] = c.secret =>
        \/ row.live /\ row.token = c
        \/ \E t \in Threads : thr[t].new = c /\ thr[t].pc \in {"save", "revoke"}
        \/ c \in left
=============================================================================
