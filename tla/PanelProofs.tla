----------------------------- MODULE PanelProofs -----------------------------
(***************************************************************************)
(* Proofs about the parts of the panel, each for any number of requests at *)
(* once and any values of the bounds.  In each section the variables have  *)
(* the names of its part.                                                  *)
(***************************************************************************)
EXTENDS Panel, FiniteSetTheorems, SequenceTheorems, TLAPS

-----------------------------------------------------------------------------
\* A step is one of the part the behaviour is about.
LEMMA EachItsOwn ==
    ASSUME [Next]_vars
    PROVE  /\ part' = part
           /\ part = "connections" => [N!Next]_(N!vars)
           /\ part = "users" => [R!Next]_(R!vars)
           /\ part = "gate" => [L!Next]_(L!vars)
           /\ part = "startup" => [S!Next]_(S!vars)
           /\ part = "schema" => [M!Next]_(M!vars)
           /\ part = "clusters" => [C!Next]_(C!vars)
<1>1. CASE UNCHANGED vars
  BY <1>1 DEF vars, N!vars, R!vars, L!vars, S!vars, M!vars, C!vars
<1>2. CASE Next
  BY <1>2 DEF Next, ConnectionStep, UserStep, GateStep, HardwareStep, StartStep, UpgradeStep,
              ClusterStep, RuleStep, NetworkStep, SettingStep, ImageStep
<1>3. QED
  BY <1>1, <1>2

-----------------------------------------------------------------------------
(* The administration of users.                                            *)
rUsr == v1
rRole == v2
rReq == v3
rCrossed == v4
rByRole == v5
rCount == v6
USE DEF rUsr, rRole, rReq, rCrossed, rByRole, rCount

UserRows == [present : BOOLEAN, active : BOOLEAN, admin : BOOLEAN, role : RoleNames \union {R!NoRole, Admin}]
UserRequests == [pc : {"idle", "ready", "remove"}, actor : Users, admin : BOOLEAN,
            byRole : BOOLEAN, op : R!Ops, target : Users]

\* What the proof needs of the types: users and requests have their fields.
UsersTyped ==
    /\ rUsr \in [Users -> UserRows] /\ rReq \in [Requests -> UserRequests]
    /\ rCrossed \in BOOLEAN /\ rByRole \in BOOLEAN

\* The older deletion was allowed to an administrator, by flag or by role,
\* and is never about the one who asks.
RemovesAllowed ==
    \A q \in Requests :
        /\ rReq[q].pc = "remove" => rReq[q].op = "remove" /\ rReq[q].target # rReq[q].actor
        /\ rReq[q].pc # "idle" /\ rReq[q].op = "remove" => rReq[q].admin \/ rReq[q].byRole

\* The inductive invariant.
UsersInv == UsersTyped /\ RemovesAllowed /\ R!AdminRemains

-----------------------------------------------------------------------------
LEMMA UsersInit == R!Init => UsersInv
<1> SUFFICES ASSUME R!Init PROVE UsersInv
  OBVIOUS
<1>1. PICK u0 \in Users :
        /\ rUsr \in [Users -> [present : {TRUE}, active : {TRUE}, admin : BOOLEAN, role : {R!NoRole, Admin}]
                              \union {R!NoUser}]
        /\ rUsr[u0].admin /\ \A u \in Users \ {u0} : rUsr[u].admin => rUsr[u].role = Admin
        /\ rReq = [q \in Requests |-> R!NoRequest(u0)]
  BY DEF R!Init
<1>2. UsersTyped
  <2>1. R!NoUser \in UserRows /\ R!NoRequest(u0) \in UserRequests
    BY DEF R!NoUser, UserRows, R!NoRequest, UserRequests, R!Ops
  <2>2. rUsr \in [Users -> UserRows]
    BY <1>1, <2>1 DEF UserRows
  <2>3. QED
    BY <1>1, <2>1, <2>2 DEF UsersTyped, R!Init
<1>3. RemovesAllowed
  BY <1>1 DEF RemovesAllowed, R!NoRequest
<1>4. R!IsAdmin(u0)
  <2>1. rUsr[u0].admin /\ rUsr[u0] # R!NoUser
    BY <1>1 DEF R!NoUser
  <2>2. rUsr[u0] \in [present : {TRUE}, active : {TRUE}, admin : BOOLEAN, role : {R!NoRole, Admin}]
    BY <1>1, <2>1
  <2>3. QED
    BY <2>1, <2>2 DEF R!IsAdmin
<1>5. QED
  BY <1>2, <1>3, <1>4 DEF UsersInv, R!AdminRemains

\* A row that is no administrator's, and one that stays an administrator's, may
\* change; so may any while another administrator is there.
LEMMA OneRowChanges ==
    ASSUME R!AdminRemains, NEW u \in Users,
           \A w \in Users \ {u} : rUsr'[w] = rUsr[w],
           rCrossed => rCrossed', rByRole => rByRole',
           ~R!IsAdmin(u) \/ R!IsAdmin(u)' \/ \E w \in Users \ {u} : R!IsAdmin(w)
    PROVE  R!AdminRemains'
<1>1. \A w \in Users \ {u} : R!IsAdmin(w) => R!IsAdmin(w)'
  BY DEF R!IsAdmin
<1>2. CASE rCrossed \/ rByRole
  BY <1>2 DEF R!AdminRemains
<1>3. CASE R!IsAdmin(u)' \/ \E w \in Users \ {u} : R!IsAdmin(w)
  BY <1>1, <1>3 DEF R!AdminRemains
<1>4. CASE ~R!IsAdmin(u) /\ ~rCrossed /\ ~rByRole
  <2>1. PICK w \in Users : R!IsAdmin(w)
    BY <1>4 DEF R!AdminRemains
  <2>2. w # u
    BY <1>4, <2>1
  <2>3. QED
    BY <1>1, <2>1, <2>2 DEF R!AdminRemains
<1>5. QED
  BY <1>2, <1>3, <1>4

\* The request is answered.
LEMMA AnswerKeeps ==
    ASSUME UsersTyped, RemovesAllowed, NEW q \in Requests, R!Answer(q)
    PROVE  rReq' \in [Requests -> UserRequests] /\ RemovesAllowed'
<1>1. rReq' = [rReq EXCEPT ![q] = [rReq[q] EXCEPT !.pc = "idle"]]
  BY DEF R!Answer
<1>2. [rReq[q] EXCEPT !.pc = "idle"] \in UserRequests
  BY DEF UsersTyped, UserRequests
<1>3. rReq'[q] = [rReq[q] EXCEPT !.pc = "idle"] /\ \A p \in Requests \ {q} : rReq'[p] = rReq[p]
  BY <1>1 DEF UsersTyped
<1>4. rReq'[q].pc = "idle"
  BY <1>3 DEF UsersTyped, UserRequests
<1>5. RemovesAllowed'
  BY <1>3, <1>4 DEF RemovesAllowed
<1>6. QED
  BY <1>1, <1>2, <1>5 DEF UsersTyped

LEMMA AuthenticateKeeps ==
    ASSUME UsersInv, NEW q \in Requests, NEW u \in Users, NEW op \in R!Ops, R!Authenticate(q, u, op)
    PROVE  UsersInv'
<1> DEFINE asked == [pc |-> "ready", actor |-> u, admin |-> rUsr[u].admin,
                     byRole |-> R!AdminByRole(u), op |-> op, target |-> u]
<1>1. rReq' = [rReq EXCEPT ![q] = asked] /\ UNCHANGED <<rUsr, rRole, rCrossed, rByRole>>
  BY DEF R!Authenticate
<1>2. op = "remove" => rUsr[u].admin \/ R!AdminByRole(u)
  BY DEF R!Authenticate
<1>3. rUsr[u].admin \in BOOLEAN /\ R!AdminByRole(u) \in BOOLEAN
  BY DEF UsersInv, UsersTyped, UserRows, R!AdminByRole
<1>4. asked \in UserRequests
  BY <1>3 DEF UserRequests
<1>5. UsersTyped'
  BY <1>1, <1>4 DEF UsersInv, UsersTyped
<1>6. /\ rReq'[q].pc = "ready" /\ rReq'[q].op = op
      /\ rReq'[q].admin = rUsr[u].admin /\ rReq'[q].byRole = R!AdminByRole(u)
  BY <1>1 DEF UsersInv, UsersTyped
<1>7. \A p \in Requests \ {q} : rReq'[p] = rReq[p]
  BY <1>1 DEF UsersInv, UsersTyped
<1>8. RemovesAllowed'
  BY <1>2, <1>6, <1>7 DEF UsersInv, RemovesAllowed
<1>9. R!AdminRemains'
  BY <1>1 DEF UsersInv, R!AdminRemains, R!IsAdmin
<1>10. QED
  BY <1>5, <1>8, <1>9 DEF UsersInv

LEMMA CreateUserKeeps ==
    ASSUME UsersInv, NEW q \in Requests, R!CreateUser(q)
    PROVE  UsersInv'
<1>1. rReq' \in [Requests -> UserRequests] /\ RemovesAllowed'
  BY AnswerKeeps DEF UsersInv, R!CreateUser
<1>2. UNCHANGED <<rCrossed, rByRole>>
  BY DEF R!CreateUser
<1>3. CASE UNCHANGED rUsr
  BY <1>1, <1>2, <1>3 DEF UsersInv, UsersTyped, R!AdminRemains, R!IsAdmin
<1>4. ASSUME NEW u \in Users, NEW a \in BOOLEAN, NEW r \in RoleNames \union {R!NoRole}, ~rUsr[u].present,
             rUsr' = [rUsr EXCEPT ![u] = [present |-> TRUE, active |-> TRUE, admin |-> a, role |-> r]]
      PROVE  UsersInv'
  <2>1. UsersTyped'
    BY <1>1, <1>2, <1>4 DEF UsersInv, UsersTyped, UserRows
  <2>2. R!AdminRemains'
    <3>1. \A w \in Users \ {u} : rUsr'[w] = rUsr[w]
      BY <1>4 DEF UsersInv, UsersTyped
    <3>2. ~R!IsAdmin(u)
      BY <1>4 DEF R!IsAdmin
    <3>3. QED
      BY <1>2, <3>1, <3>2, OneRowChanges DEF UsersInv
  <2>3. QED
    BY <1>1, <2>1, <2>2 DEF UsersInv
<1>5. QED
  BY <1>3, <1>4 DEF R!CreateUser

LEMMA UpdateUserKeeps ==
    ASSUME UsersInv, NEW q \in Requests, R!UpdateUser(q)
    PROVE  UsersInv'
<1>1. rReq' \in [Requests -> UserRequests] /\ RemovesAllowed'
  BY AnswerKeeps DEF UsersInv, R!UpdateUser
<1>2. rCrossed' = (rCrossed \/ R!Stale(q)) /\ rByRole' = rByRole
  BY DEF R!UpdateUser
<1> DEFINE self(u) == u = rReq[q].actor
           Changed(old, new) == IF new = {} THEN old ELSE TRUE \in new
           roleSet(u, r) == IF r = R!NoRole THEN rUsr[u] ELSE [rUsr[u] EXCEPT !.role = r]
           activeSet(u, r, active) == [roleSet(u, r) EXCEPT !.active = Changed(@, active)]
           adminSet(u, r, active, admin) == [activeSet(u, r, active) EXCEPT !.admin = Changed(@, admin)]
           refused(u, admin) == admin # {} /\ (~rReq[q].admin \/ (self(u) /\ admin = {FALSE}))
<1>3. PICK u \in Users, r \in RoleNames \union {R!NoRole} :
      \E active, admin \in {{}, {TRUE}, {FALSE}} :
        /\ rUsr[u].present /\ (rUsr[u].admin => rReq[q].admin)
        /\ (r # R!NoRole => rRole[r].present)
        /\ ~(self(u) /\ active = {FALSE})
        /\ rUsr' = [rUsr EXCEPT ![u] =
              IF refused(u, admin) THEN (IF active = {FALSE} THEN activeSet(u, r, active) ELSE rUsr[u])
              ELSE IF self(u) THEN roleSet(u, r) ELSE adminSet(u, r, active, admin)]
  BY Zenon DEF R!UpdateUser
<1> HIDE DEF roleSet, activeSet, adminSet, refused
<1>3b. PICK active \in {{}, {TRUE}, {FALSE}}, admin \in {{}, {TRUE}, {FALSE}} :
        /\ rUsr[u].present /\ (rUsr[u].admin => rReq[q].admin)
        /\ ~(self(u) /\ active = {FALSE})
        /\ rUsr' = [rUsr EXCEPT ![u] =
              IF refused(u, admin) THEN (IF active = {FALSE} THEN activeSet(u, r, active) ELSE rUsr[u])
              ELSE IF self(u) THEN roleSet(u, r) ELSE adminSet(u, r, active, admin)]
  BY <1>3, Zenon
<1>4. roleSet(u, r) \in UserRows
  <2>1. rUsr[u] \in UserRows
    BY DEF UsersInv, UsersTyped
  <2>2. r # R!NoRole => [rUsr[u] EXCEPT !.role = r] \in UserRows
    BY <2>1 DEF UserRows
  <2>3. QED
    BY <2>1, <2>2 DEF roleSet
<1>5. activeSet(u, r, active) \in UserRows
  <2>1. roleSet(u, r).active \in BOOLEAN /\ (TRUE \in active) \in BOOLEAN
    BY <1>4 DEF UserRows
  <2>2. Changed(roleSet(u, r).active, active) \in BOOLEAN
    BY <2>1, Zenon
  <2> HIDE DEF Changed
  <2>3. QED
    BY <1>4, <2>2 DEF UserRows, activeSet
<1>6. adminSet(u, r, active, admin) \in UserRows
  <2>1. activeSet(u, r, active).admin \in BOOLEAN /\ (TRUE \in admin) \in BOOLEAN
    BY <1>5 DEF UserRows
  <2>2. Changed(activeSet(u, r, active).admin, admin) \in BOOLEAN
    BY <2>1, Zenon
  <2> HIDE DEF Changed
  <2>3. QED
    BY <1>5, <2>2 DEF UserRows, adminSet
<1>7. rUsr' \in [Users -> UserRows]
  BY <1>3b, <1>4, <1>5, <1>6 DEF UsersInv, UsersTyped
<1>8. UsersTyped'
  BY <1>1, <1>2, <1>7 DEF UsersInv, UsersTyped
<1>9. R!AdminRemains'
  <2>1. \A w \in Users \ {u} : rUsr'[w] = rUsr[w]
    BY <1>3b DEF UsersInv, UsersTyped
  <2>2. CASE R!Stale(q)
    BY <1>2, <2>2 DEF R!AdminRemains
  <2>3. CASE ~rReq[q].admin
    <3>1. ~R!IsAdmin(u)
      BY <1>3b, <2>3 DEF R!IsAdmin
    <3>2. QED
      BY <1>2, <2>1, <3>1, OneRowChanges DEF UsersInv
  <2>4. CASE R!IsAdmin(rReq[q].actor) /\ self(u)
    <3>1. rUsr'[u] \in {rUsr[u], roleSet(u, r)}
      <4>1. active # {FALSE}
        BY <1>3b, <2>4
      <4>2. QED
        BY <1>3b, <2>4, <4>1 DEF UsersInv, UsersTyped
    <3>2. /\ roleSet(u, r).present = rUsr[u].present /\ roleSet(u, r).active = rUsr[u].active
          /\ roleSet(u, r).admin = rUsr[u].admin
      BY DEF roleSet, UsersInv, UsersTyped, UserRows
    <3>3. R!IsAdmin(u)'
      BY <2>4, <3>1, <3>2 DEF R!IsAdmin
    <3>4. QED
      BY <3>3 DEF R!AdminRemains
  <2>5. CASE R!IsAdmin(rReq[q].actor) /\ ~self(u)
    <3>1. rReq[q].actor \in Users \ {u}
      BY <2>5 DEF UsersInv, UsersTyped, UserRequests
    <3>2. QED
      BY <1>2, <2>1, <2>5, <3>1, OneRowChanges DEF UsersInv
  <2>6. QED
    BY <2>2, <2>3, <2>4, <2>5 DEF R!Stale
<1>10. QED
  BY <1>1, <1>8, <1>9 DEF UsersInv

LEMMA DeleteUserKeeps ==
    ASSUME UsersInv, NEW q \in Requests, R!DeleteUser(q)
    PROVE  UsersInv'
<1>1. rReq' \in [Requests -> UserRequests] /\ RemovesAllowed'
  BY AnswerKeeps DEF UsersInv, R!DeleteUser
<1>2. PICK u \in Users : ~rUsr[u].admin /\ rUsr' = [rUsr EXCEPT ![u] = R!NoUser]
  BY DEF R!DeleteUser
<1>3. UNCHANGED <<rCrossed, rByRole>>
  BY DEF R!DeleteUser
<1>4. UsersTyped'
  <2>1. R!NoUser \in UserRows
    BY DEF R!NoUser, UserRows
  <2>2. QED
    BY <1>1, <1>2, <1>3, <2>1 DEF UsersInv, UsersTyped
<1>5. R!AdminRemains'
  <2>1. \A w \in Users \ {u} : rUsr'[w] = rUsr[w]
    BY <1>2 DEF UsersInv, UsersTyped
  <2>2. ~R!IsAdmin(u)
    BY <1>2 DEF R!IsAdmin
  <2>3. QED
    BY <1>3, <2>1, <2>2, OneRowChanges DEF UsersInv
<1>6. QED
  BY <1>1, <1>4, <1>5 DEF UsersInv

LEMMA StartRemoveKeeps ==
    ASSUME UsersInv, NEW q \in Requests, R!StartRemove(q)
    PROVE  UsersInv'
<1>1. PICK u \in Users :
        u # rReq[q].actor /\ rReq' = [rReq EXCEPT ![q].pc = "remove", ![q].target = u]
  BY DEF R!StartRemove
<1>2. UNCHANGED <<rUsr, rCrossed, rByRole>> /\ rReq[q].pc = "ready" /\ rReq[q].op = "remove"
  BY DEF R!StartRemove, R!Begin
<1>3. rReq'[q] = [rReq[q] EXCEPT !.pc = "remove", !.target = u] /\ rReq[q] \in UserRequests
  BY <1>1 DEF UsersInv, UsersTyped
<1>4. \A p \in Requests \ {q} : rReq'[p] = rReq[p]
  BY <1>1 DEF UsersInv, UsersTyped
<1>5. /\ rReq'[q] \in UserRequests /\ rReq'[q].op = "remove" /\ rReq'[q].target = u
      /\ rReq'[q].actor = rReq[q].actor /\ rReq'[q].admin = rReq[q].admin /\ rReq'[q].byRole = rReq[q].byRole
  BY <1>2, <1>3 DEF UserRequests
<1>6. UsersTyped'
  BY <1>1, <1>2, <1>4, <1>5 DEF UsersInv, UsersTyped
<1>7. RemovesAllowed'
  <2>1. rReq[q].admin \/ rReq[q].byRole
    BY <1>2 DEF UsersInv, RemovesAllowed
  <2>2. rReq'[q].admin \/ rReq'[q].byRole
    BY <1>5, <2>1
  <2>3. /\ rReq'[q].pc = "remove" => rReq'[q].op = "remove" /\ rReq'[q].target # rReq'[q].actor
        /\ rReq'[q].pc # "idle" /\ rReq'[q].op = "remove" => rReq'[q].admin \/ rReq'[q].byRole
    BY <1>1, <1>5, <2>2
  <2>4. QED
    BY <1>4, <2>3 DEF UsersInv, RemovesAllowed
<1>8. R!AdminRemains'
  BY <1>2 DEF UsersInv, R!AdminRemains, R!IsAdmin
<1>9. QED
  BY <1>6, <1>7, <1>8 DEF UsersInv

LEMMA RemoveUserKeeps ==
    ASSUME UsersInv, NEW q \in Requests, R!RemoveUser(q)
    PROVE  UsersInv'
<1> DEFINE u == rReq[q].target
<1>1. rReq' \in [Requests -> UserRequests] /\ RemovesAllowed'
  BY AnswerKeeps DEF UsersInv, R!RemoveUser
<1>2. /\ rUsr' = [rUsr EXCEPT ![u] = R!NoUser]
      /\ rCrossed' = (rCrossed \/ R!Stale(q))
      /\ rByRole' = (rByRole \/ (rReq[q].byRole /\ rUsr[u].admin))
  BY DEF R!RemoveUser
<1>3. u \in Users /\ rReq[q].actor \in Users /\ rReq[q].admin \in BOOLEAN /\ rReq[q].byRole \in BOOLEAN
  BY DEF UsersInv, UsersTyped, UserRequests
<1>4. u # rReq[q].actor /\ (rReq[q].admin \/ rReq[q].byRole)
  BY DEF UsersInv, RemovesAllowed, R!RemoveUser
<1>5. UsersTyped'
  <2>1. R!NoUser \in UserRows
    BY DEF R!NoUser, UserRows
  <2>2. rCrossed' \in BOOLEAN /\ rByRole' \in BOOLEAN
    BY <1>2
  <2>3. QED
    BY <1>1, <1>2, <1>3, <2>1, <2>2 DEF UsersInv, UsersTyped
<1>6. R!AdminRemains'
  <2>1. \A w \in Users \ {u} : rUsr'[w] = rUsr[w]
    BY <1>2 DEF UsersInv, UsersTyped
  <2>2. CASE R!Stale(q) \/ (rReq[q].byRole /\ rUsr[u].admin)
    BY <1>2, <2>2 DEF R!AdminRemains
  <2>3. CASE rReq[q].admin /\ ~R!Stale(q)
    <3>1. R!IsAdmin(rReq[q].actor)
      BY <2>3 DEF R!Stale
    <3>2. QED
      BY <1>2, <1>3, <1>4, <2>1, <3>1, OneRowChanges DEF UsersInv
  <2>4. CASE ~rUsr[u].admin
    <3>1. ~R!IsAdmin(u)
      BY <2>4 DEF R!IsAdmin
    <3>2. QED
      BY <1>2, <1>3, <2>1, <3>1, OneRowChanges DEF UsersInv
  <2>5. QED
    BY <1>4, <2>2, <2>3, <2>4
<1>7. QED
  BY <1>1, <1>5, <1>6 DEF UsersInv

\* Roles decide who may ask; no row of a user changes with them.
LEMMA RolesKeep ==
    ASSUME UsersInv, NEW q \in Requests, R!CreateRole(q) \/ R!UpdateRole(q) \/ R!DeleteRole(q) \/ R!Refuse(q)
    PROVE  UsersInv'
<1>1. R!Answer(q) /\ UNCHANGED <<rUsr, rCrossed, rByRole>>
  BY DEF R!CreateRole, R!UpdateRole, R!DeleteRole, R!Refuse
<1>2. rReq' \in [Requests -> UserRequests] /\ RemovesAllowed'
  BY <1>1, AnswerKeeps DEF UsersInv
<1>3. QED
  BY <1>1, <1>2 DEF UsersInv, UsersTyped, R!AdminRemains, R!IsAdmin

LEMMA UsersKept == UsersInv /\ [R!Next]_(R!vars) => UsersInv'
<1> SUFFICES ASSUME UsersInv, [R!Next]_(R!vars) PROVE UsersInv'
  OBVIOUS
<1>1. CASE UNCHANGED R!vars
  BY <1>1 DEF UsersInv, R!vars, UsersTyped, RemovesAllowed, R!AdminRemains, R!IsAdmin
<1>2. ASSUME NEW q \in Requests, NEW u \in Users, NEW op \in R!Ops, R!Authenticate(q, u, op) PROVE UsersInv'
  BY <1>2, AuthenticateKeeps
<1>3. ASSUME NEW q \in Requests, R!CreateUser(q) PROVE UsersInv'
  BY <1>3, CreateUserKeeps
<1>4. ASSUME NEW q \in Requests, R!UpdateUser(q) PROVE UsersInv'
  BY <1>4, UpdateUserKeeps
<1>5. ASSUME NEW q \in Requests, R!DeleteUser(q) PROVE UsersInv'
  BY <1>5, DeleteUserKeeps
<1>6. ASSUME NEW q \in Requests, R!StartRemove(q) PROVE UsersInv'
  BY <1>6, StartRemoveKeeps
<1>7. ASSUME NEW q \in Requests, R!RemoveUser(q) PROVE UsersInv'
  BY <1>7, RemoveUserKeeps
<1>8. ASSUME NEW q \in Requests, R!CreateRole(q) \/ R!UpdateRole(q) \/ R!DeleteRole(q) \/ R!Refuse(q) PROVE UsersInv'
  BY <1>8, RolesKeep
<1>9. QED
  BY <1>1, <1>2, <1>3, <1>4, <1>5, <1>6, <1>7, <1>8 DEF R!Next

\* The rows of roles, with no permission but those the model tells apart.
RolesGiven ==
    /\ rRole \in [RoleNames -> [present : BOOLEAN, system : BOOLEAN, perms : SUBSET R!Perms]] /\ rCount \in Nat

LEMMA RolesGivenKept == RolesGiven /\ [R!Next]_(R!vars) => RolesGiven'
<1> SUFFICES ASSUME RolesGiven, [R!Next]_(R!vars) PROVE RolesGiven'
  OBVIOUS
<1>1. CASE UNCHANGED rRole /\ rCount' \in Nat
  BY <1>1 DEF RolesGiven
<1>2. ASSUME NEW q \in Requests, NEW u, NEW op, R!Authenticate(q, u, op) PROVE RolesGiven'
  BY <1>1, <1>2 DEF R!Authenticate, RolesGiven
<1>3. ASSUME NEW q \in Requests,
             \/ R!CreateUser(q) \/ R!UpdateUser(q) \/ R!DeleteUser(q) \/ R!StartRemove(q) \/ R!RemoveUser(q)
             \/ R!Refuse(q)
      PROVE  RolesGiven'
  BY <1>1, <1>3 DEF R!CreateUser, R!UpdateUser, R!DeleteUser, R!StartRemove, R!RemoveUser, R!Refuse, RolesGiven
<1>4. ASSUME NEW q \in Requests, R!CreateRole(q) \/ R!UpdateRole(q) \/ R!DeleteRole(q) PROVE RolesGiven'
  <2>1. rCount' = rCount /\ \A p \in Grants : p \in SUBSET R!Perms
    BY <1>4, BoundsAssumption DEF R!CreateRole, R!UpdateRole, R!DeleteRole
  <2>2. CASE R!CreateRole(q)
    BY <2>1, <2>2 DEF R!CreateRole, RolesGiven
  <2>3. CASE R!UpdateRole(q)
    BY <2>1, <2>3 DEF R!UpdateRole, RolesGiven
  <2>4. CASE R!DeleteRole(q)
    <3>1. PICK r : r \in RoleNames /\ rRole' = [rRole EXCEPT ![r].present = FALSE]
      BY <2>4 DEF R!DeleteRole
    <3>2. [rRole[r] EXCEPT !.present = FALSE] \in [present : BOOLEAN, system : BOOLEAN, perms : SUBSET R!Perms]
      BY <3>1 DEF RolesGiven
    <3>3. rRole' = [rRole EXCEPT ![r] = [rRole[r] EXCEPT !.present = FALSE]]
      BY <3>1
    <3> QED BY <2>1, <3>1, <3>2, <3>3 DEF RolesGiven
  <2> QED BY <1>4, <2>2, <2>3, <2>4
<1>5. CASE UNCHANGED R!vars
  BY <1>1, <1>5 DEF R!vars, RolesGiven
<1> QED BY <1>2, <1>3, <1>4, <1>5 DEF R!Next

LEMMA UsersTypes == UsersInv /\ RolesGiven => R!TypeOK
  BY BoundsAssumption DEF UsersInv, UsersTyped, UserRows, UserRequests, RolesGiven, R!TypeOK

\* No sequence of requests, however many and in whatever order their handlers
\* run after their authentication, leaves the panel without an administrator,
\* but for the two ways the history variables name.
THEOREM AdministratorRemains == Spec => [](part = "users" => R!AdminRemains)
<1> DEFINE Inv == part = "users" => UsersInv
<1>1. Init => Inv
  BY UsersInit DEF Init
<1>2. Inv /\ [Next]_vars => Inv'
  BY EachItsOwn, UsersKept
<1>3. Inv => (part = "users" => R!AdminRemains)
  BY DEF UsersInv
<1>4. QED
  BY <1>1, <1>2, <1>3, PTL DEF Spec

-----------------------------------------------------------------------------
(* The gate of a login.                                                    *)
gBlock == v1
gFails == v2
gTried == v3
gTfa == v4
gThr == v5
gConfirmed == v6
gSpent == v7
gCrossed == v8
gDrawn == v9

USE DEF gBlock, gFails, gTried, gTfa, gThr, gConfirmed, gSpent, gCrossed, gDrawn

\* Logins that were let past the count of failures and may still be refused:
\* each of them may add one more.
Guessing == {l \in Requests : gThr[l].pc = "password"}
Guesses ==
    /\ gTried <= gFails
    /\ gTried + Cardinality(Guessing) <= Threshold - 1 + Cardinality(Requests)

\* Codes come from those drawn so far; what waits to be written is what was
\* allowed when it was read.
Drawn == 1..gDrawn.codes
Factors ==
    /\ gTfa.codes \subseteq Drawn /\ gSpent \subseteq Drawn
    /\ \A l \in Requests :
          /\ gThr[l].seen.codes \subseteq Drawn
          /\ gThr[l].pc = "consume" => gThr[l].code \in gThr[l].seen.codes
          /\ gThr[l].pc = "setup" => ~gThr[l].seen.on
    /\ L!SecondFactorTrue

\* The inductive invariant.
GateInv == L!TypeOK /\ Guesses /\ Factors

LEMMA GateInit == L!Init => GateInv
<1> SUFFICES ASSUME L!Init PROVE GateInv
  OBVIOUS
<1>1. L!Idle \in [pc : {"idle", "count", "block", "password", "consume", "setup", "enable", "disable"},
                  seen : L!Factor, code : 0..MaxCodes] /\ L!Idle.pc = "idle" /\ L!Idle.seen.codes = {}
  BY PanelAssumption DEF L!Idle, L!Factor, L!None, L!Codes
<1>2. L!TypeOK
  <2>1. gTfa \in L!Factor /\ gDrawn \in [secrets : 0..GateSecrets, codes : 0..MaxCodes]
    BY PanelAssumption DEF L!Init, L!Factor, L!None, L!Codes
  <2>2. gFails \in 0..MaxFails /\ gTried \in 0..MaxFails /\ gConfirmed \in 0..GateSecrets
    BY PanelAssumption DEF L!Init, L!None
  <2> QED BY <1>1, <2>1, <2>2 DEF L!Init, L!TypeOK
<1>3. Guessing = {}
  BY <1>1 DEF L!Init, Guessing
<1>4. Cardinality(Guessing) = 0 /\ Cardinality(Requests) \in Nat
  BY <1>3, FS_EmptySet, FS_CardinalityType, PanelAssumption
<1>5. Guesses
  BY <1>4, PanelAssumption DEF L!Init, Guesses
<1>6. Factors
  BY <1>1 DEF L!Init, Factors, L!SecondFactorTrue
<1> QED BY <1>2, <1>5, <1>6 DEF GateInv

\* What a thread of the gate may be, and what is known of the numbers.
GateThreads == [pc : {"idle", "count", "block", "password", "consume", "setup", "enable", "disable"},
                seen : L!Factor, code : 0..MaxCodes]

LEMMA GateTypes ==
    ASSUME L!TypeOK
    PROVE  /\ gThr \in [Requests -> GateThreads] /\ gTfa \in L!Factor
           /\ gFails \in Nat /\ gTried \in Nat /\ gDrawn.codes \in Nat /\ gDrawn.secrets \in Nat
           /\ Cardinality(Requests) \in Nat /\ Cardinality(Guessing) \in Nat
           /\ Cardinality(Guessing) <= Cardinality(Requests) /\ IsFiniteSet(Guessing)
<1>1. Guessing \subseteq Requests
  BY DEF Guessing
<1>2. /\ Cardinality(Requests) \in Nat /\ Cardinality(Guessing) \in Nat
      /\ Cardinality(Guessing) <= Cardinality(Requests) /\ IsFiniteSet(Guessing)
  BY <1>1, FS_Subset, FS_CardinalityType, PanelAssumption
<1> QED BY <1>2, PanelAssumption DEF L!TypeOK, GateThreads

\* The number that guess, when one of them is done or another begins.
LEMMA OneGuesses ==
    ASSUME L!TypeOK, L!TypeOK', NEW l \in Requests,
           \A k \in Requests \ {l} : gThr'[k] = gThr[k]
    PROVE  /\ (gThr[l].pc = "password" <=> gThr'[l].pc = "password") => Cardinality(Guessing') = Cardinality(Guessing)
           /\ gThr[l].pc = "password" /\ gThr'[l].pc # "password" => Cardinality(Guessing') = Cardinality(Guessing) - 1
<1>1. CASE gThr[l].pc = "password" <=> gThr'[l].pc = "password"
  <2>1. Guessing' = Guessing
    BY <1>1 DEF Guessing
  <2> QED BY <1>1, <2>1
<1>2. CASE gThr[l].pc = "password" /\ gThr'[l].pc # "password"
  <2>1. Guessing' = Guessing \ {l} /\ l \in Guessing
    BY <1>2 DEF Guessing
  <2> QED BY <1>2, <2>1, GateTypes, FS_RemoveElement
<1> QED BY <1>1, <1>2

\* A login: the count of failures.
LEMMA LoginGuesses ==
    ASSUME GateInv, L!TypeOK', NEW l \in Requests,
           \/ L!CheckBlocked(l) \/ L!CountFailures(l) \/ L!BlockAddress(l)
           \/ L!WrongPassword(l) \/ L!RightPassword(l)
    PROVE  Guesses'
<1>1. L!TypeOK /\ Guesses
  BY DEF GateInv
<1>2. \A k \in Requests \ {l} : gThr'[k] = gThr[k]
  BY <1>1 DEF L!CheckBlocked, L!CountFailures, L!BlockAddress, L!WrongPassword, L!RightPassword,
              L!GoTo, L!End, L!Read, L!TypeOK
<1>3. CASE L!CheckBlocked(l)
  <2>1. gThr[l].pc # "password" /\ gThr'[l].pc # "password"
    BY <1>1, <1>3 DEF L!CheckBlocked, L!At, L!GoTo, L!TypeOK
  <2>2. gTried' = gTried /\ gFails <= gFails'
    BY <1>1, <1>3, GateTypes DEF L!CheckBlocked, L!RecordFailure
  <2>3. Cardinality(Guessing') = Cardinality(Guessing)
    BY <1>1, <1>2, <2>1, OneGuesses
  <2>4. gFails' \in Nat
    BY PanelAssumption DEF L!TypeOK
  <2> QED BY <1>1, <2>2, <2>3, <2>4, GateTypes DEF Guesses
<1>4. CASE L!CountFailures(l)
  <2>1. gTried' = gTried /\ gFails' = gFails
    BY <1>4 DEF L!CountFailures
  <2>2. CASE gFails >= Threshold
    <3>1. gThr[l].pc # "password" /\ gThr'[l].pc # "password"
      BY <1>1, <1>4, <2>2 DEF L!CountFailures, L!At, L!GoTo, L!TypeOK
    <3> QED BY <1>1, <1>2, <2>1, <3>1, OneGuesses, GateTypes DEF Guesses
  <2>3. CASE ~(gFails >= Threshold)
    <3>1. Cardinality(Guessing') <= Cardinality(Requests) /\ Cardinality(Guessing') \in Nat
      <4>1. Guessing' \subseteq Requests
        BY DEF Guessing
      <4> QED BY <4>1, FS_Subset, FS_CardinalityType, PanelAssumption
    <3>2. gTried <= Threshold - 1
      BY <1>1, <2>3, GateTypes, PanelAssumption DEF Guesses
    <3> QED BY <1>1, <2>1, <3>1, <3>2, GateTypes, PanelAssumption DEF Guesses
  <2> QED BY <2>2, <2>3
<1>5. CASE L!BlockAddress(l)
  <2>1. gThr[l].pc # "password" /\ gThr'[l].pc # "password"
    BY <1>1, <1>5 DEF L!BlockAddress, L!At, L!End, L!Idle, L!TypeOK
  <2>2. gTried' = gTried /\ gFails <= gFails'
    BY <1>1, <1>5, GateTypes DEF L!BlockAddress, L!RecordFailure
  <2>3. Cardinality(Guessing') = Cardinality(Guessing)
    BY <1>1, <1>2, <2>1, OneGuesses
  <2>4. gFails' \in Nat
    BY PanelAssumption DEF L!TypeOK
  <2> QED BY <1>1, <2>2, <2>3, <2>4, GateTypes DEF Guesses
<1>6. CASE L!WrongPassword(l) \/ L!RightPassword(l)
  <2>1. gThr[l].pc = "password" /\ gThr'[l].pc # "password"
    BY <1>1, <1>6 DEF L!WrongPassword, L!RightPassword, L!At, L!End, L!Idle, L!TypeOK
  <2>2. Cardinality(Guessing') = Cardinality(Guessing) - 1
    BY <1>1, <1>2, <2>1, OneGuesses
  <2>3. (gTried' = gTried /\ gFails' = gFails) \/ (gTried' = gTried + 1 /\ gFails' = gFails + 1)
    BY <1>6 DEF L!WrongPassword, L!RightPassword, L!Refused, L!RecordFailure
  <2> QED BY <1>1, <2>2, <2>3, GateTypes, PanelAssumption DEF Guesses
<1> QED BY <1>3, <1>4, <1>5, <1>6

\* The types stay.
LEMMA LoginTypes ==
    ASSUME GateInv, NEW l \in Requests,
           \/ L!CheckBlocked(l) \/ L!CountFailures(l) \/ L!BlockAddress(l)
           \/ L!WrongPassword(l) \/ L!RightPassword(l)
    PROVE  L!TypeOK'
<1>1. L!TypeOK /\ gTried <= gFails /\ gThr \in [Requests -> GateThreads] /\ gThr[l] \in GateThreads
      /\ gFails \in 0..MaxFails /\ gTried \in Nat /\ gTfa \in L!Factor /\ MaxFails \in Nat
  BY GateTypes, PanelAssumption DEF GateInv, Guesses, L!TypeOK
<1>2. gThr' \in [Requests -> GateThreads]
  <2>1. L!Idle \in GateThreads /\ [pc |-> "password", seen |-> gTfa, code |-> L!None] \in GateThreads
    BY <1>1, PanelAssumption DEF L!Idle, GateThreads, L!Factor, L!None, L!Codes
  <2>2. [gThr[l] EXCEPT !.pc = "count"] \in GateThreads /\ [gThr[l] EXCEPT !.pc = "block"] \in GateThreads
    BY <1>1 DEF GateThreads
  <2>3. \A c \in gThr[l].seen.codes : [gThr[l] EXCEPT !.pc = "consume", !.code = c] \in GateThreads
    <3>1. gThr[l].seen.codes \subseteq 0..MaxCodes
      BY <1>1, PanelAssumption DEF GateThreads, L!Factor, L!Codes
    <3>2. \A c \in 0..MaxCodes : [gThr[l] EXCEPT !.pc = "consume", !.code = c] \in GateThreads
      BY <1>1 DEF GateThreads
    <3> QED BY <3>1, <3>2
  <2>4. \A r \in GateThreads : [gThr EXCEPT ![l] = r] \in [Requests -> GateThreads]
    BY <1>1
  <2>5. CASE L!CheckBlocked(l)
    BY <1>1, <2>2, <2>4, <2>5 DEF L!CheckBlocked, L!GoTo
  <2>6. CASE L!CountFailures(l)
    BY <2>1, <2>2, <2>4, <2>6 DEF L!CountFailures, L!GoTo, L!Read
  <2>7. CASE L!BlockAddress(l) \/ L!WrongPassword(l)
    BY <2>1, <2>4, <2>7 DEF L!BlockAddress, L!WrongPassword, L!End
  <2>8. CASE L!RightPassword(l)
    <3>1. CASE gThr' = [gThr EXCEPT ![l] = L!Idle]
      BY <2>1, <2>4, <3>1
    <3>2. CASE \E c \in gThr[l].seen.codes : gThr' = [gThr EXCEPT ![l].pc = "consume", ![l].code = c]
      <4>1. PICK c \in gThr[l].seen.codes : gThr' = [gThr EXCEPT ![l] = [gThr[l] EXCEPT !.pc = "consume", !.code = c]]
        BY <1>1, <3>2
      <4> QED BY <2>3, <2>4, <4>1
    <3> QED BY <2>8, <3>1, <3>2 DEF L!RightPassword, L!End
  <2> QED BY <2>5, <2>6, <2>7, <2>8
<1>3. gFails' \in 0..MaxFails /\ gTried' \in 0..MaxFails
  <2>1. \/ gTried' = gTried /\ gFails' = gFails
        \/ gTried' = gTried /\ gFails' = gFails + 1 /\ gFails < MaxFails
        \/ gTried' = gTried + 1 /\ gFails' = gFails + 1 /\ gFails < MaxFails
    BY DEF L!CheckBlocked, L!CountFailures, L!BlockAddress, L!WrongPassword, L!RightPassword,
           L!Refused, L!RecordFailure
  <2> QED BY <1>1, <2>1
<1>4. UNCHANGED <<gTfa, gConfirmed, gSpent, gCrossed, gDrawn>> /\ gBlock' \in {gBlock, "none", "timed"}
  BY DEF L!CheckBlocked, L!CountFailures, L!BlockAddress, L!WrongPassword, L!RightPassword
<1> QED BY <1>1, <1>2, <1>3, <1>4 DEF L!TypeOK, GateThreads

\* What is written is a second factor, and the thread is free again.
LEMMA WriteTypes ==
    ASSUME L!TypeOK, NEW l \in Requests, NEW f \in L!Factor, L!Write(l, f),
           gConfirmed' \in 0..GateSecrets, gSpent' \subseteq L!Codes,
           gDrawn' \in [secrets : 0..GateSecrets, codes : 0..MaxCodes],
           UNCHANGED <<gBlock, gFails, gTried>>
    PROVE  L!TypeOK'
<1>1. L!Idle \in GateThreads
  BY PanelAssumption DEF L!Idle, GateThreads, L!Factor, L!None, L!Codes
<1>2. gTfa' = f /\ gCrossed' \in BOOLEAN /\ gThr' = [gThr EXCEPT ![l] = L!Idle]
  BY DEF L!Write, L!End, L!TypeOK
<1> QED BY <1>1, <1>2 DEF L!TypeOK, GateThreads

LEMMA FactorTypes ==
    ASSUME GateInv, NEW l \in Requests,
           \/ L!ConsumeBackupCode(l) \/ L!Setup(l) \/ L!Enable(l) \/ L!Disable(l)
    PROVE  L!TypeOK'
<1>1. /\ L!TypeOK /\ gTfa \in L!Factor /\ gThr[l] \in GateThreads /\ gConfirmed \in 0..GateSecrets
      /\ gSpent \subseteq L!Codes /\ gDrawn \in [secrets : 0..GateSecrets, codes : 0..MaxCodes]
      /\ MaxCodes \in Nat /\ GateSecrets \in Nat
  BY GateTypes, PanelAssumption DEF GateInv, L!TypeOK
<1>2. CASE L!ConsumeBackupCode(l)
  <2> DEFINE f == [gTfa EXCEPT !.codes = gThr[l].seen.codes \ {gThr[l].code}]
  <2>1. f \in L!Factor
    BY <1>1 DEF L!Factor, GateThreads
  <2>2. gThr[l].code \in L!Codes
    <3>1. gThr[l].code \in gThr[l].seen.codes
      BY <1>2 DEF GateInv, Factors, L!ConsumeBackupCode, L!At
    <3> QED BY <1>1, <3>1 DEF GateThreads, L!Factor
  <2>3. L!Write(l, f) /\ gSpent' = gSpent \union {gThr[l].code}
        /\ UNCHANGED <<gBlock, gFails, gTried, gConfirmed, gDrawn>>
    BY <1>2 DEF L!ConsumeBackupCode
  <2> HIDE DEF f
  <2> QED BY <1>1, <2>1, <2>2, <2>3, WriteTypes
<1>3. CASE L!Setup(l)
  <2> DEFINE f == [gTfa EXCEPT !.secret = gDrawn.secrets + 1]
  <2>1. gDrawn.secrets + 1 \in 0..GateSecrets
    BY <1>1, <1>3 DEF L!Setup
  <2>2. f \in L!Factor /\ gDrawn' \in [secrets : 0..GateSecrets, codes : 0..MaxCodes]
    BY <1>1, <1>3, <2>1 DEF L!Factor, L!Setup
  <2>3. L!Write(l, f) /\ UNCHANGED <<gBlock, gFails, gTried, gConfirmed, gSpent>>
    BY <1>3 DEF L!Setup
  <2> HIDE DEF f
  <2> QED BY <1>1, <2>2, <2>3, WriteTypes
<1>4. CASE L!Enable(l)
  <2> DEFINE f == [gTfa EXCEPT !.on = TRUE, !.codes = {gDrawn.codes + 1, gDrawn.codes + 2}]
  <2>1. gDrawn.codes + 2 \in 0..MaxCodes /\ gDrawn.codes + 1 \in L!Codes /\ gDrawn.codes + 2 \in L!Codes
    BY <1>1, <1>4 DEF L!Enable, L!Codes
  <2>2. f \in L!Factor /\ gDrawn' \in [secrets : 0..GateSecrets, codes : 0..MaxCodes]
    BY <1>1, <1>4, <2>1 DEF L!Factor, L!Enable
  <2>3. L!Write(l, f) /\ gConfirmed' = gThr[l].seen.secret /\ UNCHANGED <<gBlock, gFails, gTried, gSpent>>
    BY <1>4 DEF L!Enable
  <2>4. gThr[l].seen.secret \in 0..GateSecrets
    BY <1>1 DEF GateThreads, L!Factor
  <2> HIDE DEF f
  <2> QED BY <1>1, <2>2, <2>3, <2>4, WriteTypes
<1>5. CASE L!Disable(l)
  <2> DEFINE f == [on |-> FALSE, secret |-> L!None, codes |-> {}]
  <2>1. f \in L!Factor
    BY <1>1 DEF L!Factor, L!None
  <2>2. L!Write(l, f) /\ UNCHANGED <<gBlock, gFails, gTried, gConfirmed, gSpent, gDrawn>>
    BY <1>5 DEF L!Disable
  <2> HIDE DEF f
  <2> QED BY <1>1, <2>1, <2>2, WriteTypes
<1> QED BY <1>2, <1>3, <1>4, <1>5

LEMMA StartTypes ==
    ASSUME GateInv, NEW l \in Requests, L!StartSetup(l) \/ L!StartEnable(l) \/ L!StartDisable(l)
    PROVE  L!TypeOK'
<1>1. PICK pc \in {"setup", "enable", "disable"} :
        gThr' = [gThr EXCEPT ![l] = [pc |-> pc, seen |-> gTfa, code |-> L!None]]
  BY DEF L!StartSetup, L!StartEnable, L!StartDisable, L!Read
<1>2. [pc |-> pc, seen |-> gTfa, code |-> L!None] \in GateThreads
  BY PanelAssumption DEF GateInv, L!TypeOK, GateThreads, L!None
<1>3. UNCHANGED <<gBlock, gFails, gTried, gTfa, gConfirmed, gSpent, gCrossed, gDrawn>>
  BY DEF L!StartSetup, L!StartEnable, L!StartDisable
<1> QED BY <1>1, <1>2, <1>3 DEF GateInv, L!TypeOK, GateThreads

LEMMA TimeTypes ==
    ASSUME GateInv, L!BlockByHand \/ L!Unblock \/ L!BlockExpires \/ L!WindowMoves
    PROVE  L!TypeOK'
<1>1. UNCHANGED <<gTfa, gThr, gConfirmed, gSpent, gCrossed, gDrawn>>
      /\ gBlock' \in {"none", "timed", "expired", "permanent", gBlock}
      /\ gFails' \in {gFails, 0} /\ gTried' \in {gTried, 0}
  BY DEF L!BlockByHand, L!Unblock, L!BlockExpires, L!WindowMoves
<1> QED BY <1>1, PanelAssumption DEF GateInv, L!TypeOK

-----------------------------------------------------------------------------
\* The other steps leave the number of guesses alone.
LEMMA OthersGuess ==
    ASSUME GateInv, L!TypeOK', NEW l \in Requests,
           \/ L!ConsumeBackupCode(l) \/ L!StartSetup(l) \/ L!Setup(l) \/ L!StartEnable(l)
           \/ L!Enable(l) \/ L!StartDisable(l) \/ L!Disable(l)
    PROVE  Guesses'
<1>1. L!TypeOK /\ Guesses
  BY DEF GateInv
<1>2. /\ \A k \in Requests \ {l} : gThr'[k] = gThr[k]
      /\ gThr[l].pc # "password" /\ gThr'[l].pc # "password"
      /\ UNCHANGED <<gFails, gTried>>
  BY <1>1 DEF L!ConsumeBackupCode, L!StartSetup, L!Setup, L!StartEnable, L!Enable, L!StartDisable,
              L!Disable, L!Write, L!End, L!Read, L!At, L!Idle, L!TypeOK
<1>3. Cardinality(Guessing') = Cardinality(Guessing)
  BY <1>1, <1>2, OneGuesses
<1> QED BY <1>1, <1>2, <1>3 DEF Guesses

LEMMA TimeGuesses ==
    ASSUME GateInv, L!BlockByHand \/ L!Unblock \/ L!BlockExpires \/ L!WindowMoves
    PROVE  Guesses'
<1>1. L!TypeOK /\ Guesses
  BY DEF GateInv
<1>2. Guessing' = Guessing
  BY DEF L!BlockByHand, L!Unblock, L!BlockExpires, L!WindowMoves, Guessing
<1>3. CASE UNCHANGED <<gFails, gTried>>
  BY <1>1, <1>2, <1>3 DEF Guesses
<1>4. CASE gFails' = 0 /\ gTried' = 0
  BY <1>1, <1>2, <1>4, GateTypes, PanelAssumption DEF Guesses
<1> QED BY <1>3, <1>4 DEF L!BlockByHand, L!Unblock, L!BlockExpires, L!WindowMoves

-----------------------------------------------------------------------------
\* A login changes nothing of the second factor but which code a thread holds.
LEMMA LoginFactors ==
    ASSUME GateInv, NEW l \in Requests,
           \/ L!CheckBlocked(l) \/ L!CountFailures(l) \/ L!BlockAddress(l)
           \/ L!WrongPassword(l) \/ L!RightPassword(l)
           \/ L!StartSetup(l) \/ L!StartEnable(l) \/ L!StartDisable(l)
    PROVE  Factors'
<1>1. L!TypeOK /\ Factors /\ UNCHANGED <<gTfa, gConfirmed, gSpent, gCrossed, gDrawn>>
  BY DEF GateInv, L!CheckBlocked, L!CountFailures, L!BlockAddress, L!WrongPassword, L!RightPassword,
         L!StartSetup, L!StartEnable, L!StartDisable
<1>2. \A k \in Requests \ {l} : gThr'[k] = gThr[k]
  BY <1>1 DEF L!CheckBlocked, L!CountFailures, L!BlockAddress, L!WrongPassword, L!RightPassword,
              L!GoTo, L!End, L!Read, L!TypeOK, L!StartSetup, L!StartEnable, L!StartDisable
<1>3. /\ gThr'[l].seen.codes \subseteq Drawn
      /\ gThr'[l].pc = "consume" => gThr'[l].code \in gThr'[l].seen.codes
      /\ gThr'[l].pc = "setup" => ~gThr'[l].seen.on
  <2>0. gThr[l].seen.codes \subseteq Drawn /\ gTfa.codes \subseteq Drawn /\ gThr \in [Requests -> GateThreads]
    BY <1>1, GateTypes DEF Factors
  <2>1. CASE gThr' = gThr \/ \E pc \in {"count", "block"} : gThr' = [gThr EXCEPT ![l].pc = pc]
    BY <1>1, <2>0, <2>1 DEF Factors, GateThreads
  <2>2. CASE gThr' = [gThr EXCEPT ![l] = L!Idle]
    BY <2>0, <2>2 DEF L!Idle
  <2>3. CASE \E pc \in {"password", "enable", "disable"} :
               gThr' = [gThr EXCEPT ![l] = [pc |-> pc, seen |-> gTfa, code |-> L!None]]
    BY <2>0, <2>3
  <2>4. CASE ~gTfa.on /\ gThr' = [gThr EXCEPT ![l] = [pc |-> "setup", seen |-> gTfa, code |-> L!None]]
    BY <2>0, <2>4
  <2>5. CASE \E c \in gThr[l].seen.codes : gThr' = [gThr EXCEPT ![l].pc = "consume", ![l].code = c]
    BY <2>0, <2>5 DEF GateThreads
  <2>6. CASE L!CheckBlocked(l) \/ L!CountFailures(l) \/ L!BlockAddress(l)
    BY <2>1, <2>2, <2>3, <2>6 DEF L!CheckBlocked, L!CountFailures, L!BlockAddress, L!GoTo, L!End, L!Read
  <2>7. CASE L!WrongPassword(l) \/ L!RightPassword(l)
    BY <2>2, <2>5, <2>7 DEF L!WrongPassword, L!RightPassword, L!End
  <2>8. CASE L!StartSetup(l) \/ L!StartEnable(l) \/ L!StartDisable(l)
    BY <2>3, <2>4, <2>8 DEF L!StartSetup, L!StartEnable, L!StartDisable, L!Read
  <2> QED BY <2>6, <2>7, <2>8
<1> QED BY <1>1, <1>2, <1>3 DEF Factors, Drawn, L!SecondFactorTrue

\* What is written is what was read but for what the request is about; when
\* the row is no longer that, the requests have crossed.
LEMMA WriteFactors ==
    ASSUME GateInv, NEW l \in Requests, NEW f \in L!Factor, L!Write(l, f),
           gDrawn'.codes \in Nat, gDrawn.codes <= gDrawn'.codes,
           f.codes \subseteq Drawn', gSpent' \subseteq Drawn',
           ~gCrossed /\ gTfa = gThr[l].seen =>
               f.codes \intersect gSpent' = {} /\ (f.on => f.secret = gConfirmed')
    PROVE  Factors'
<1>1. L!TypeOK /\ Factors /\ gDrawn.codes \in Nat
  BY GateTypes DEF GateInv
<1>2. gTfa' = f /\ gCrossed' = (gCrossed \/ gTfa # gThr[l].seen) /\ gThr' = [gThr EXCEPT ![l] = L!Idle]
  BY DEF L!Write, L!End
<1>3. Drawn \subseteq Drawn'
  BY <1>1 DEF Drawn
<1>4. gThr'[l] = L!Idle /\ \A k \in Requests \ {l} : gThr'[k] = gThr[k]
  BY <1>1, <1>2 DEF L!TypeOK
<1>5. \A k \in Requests :
          /\ gThr'[k].seen.codes \subseteq Drawn'
          /\ gThr'[k].pc = "consume" => gThr'[k].code \in gThr'[k].seen.codes
          /\ gThr'[k].pc = "setup" => ~gThr'[k].seen.on
  BY <1>1, <1>3, <1>4 DEF Factors, L!Idle
<1>6. L!SecondFactorTrue'
  <2>1. gCrossed \in BOOLEAN
    BY <1>1 DEF L!TypeOK
  <2> QED BY <1>2, <2>1 DEF L!SecondFactorTrue
<1> QED BY <1>2, <1>5, <1>6 DEF Factors

LEMMA FactorFactors ==
    ASSUME GateInv, NEW l \in Requests,
           \/ L!ConsumeBackupCode(l) \/ L!Setup(l) \/ L!Enable(l) \/ L!Disable(l)
    PROVE  Factors'
<1>1. /\ L!TypeOK /\ Factors /\ gTfa \in L!Factor /\ gThr[l] \in GateThreads /\ gDrawn.codes \in Nat
      /\ gDrawn \in [secrets : 0..GateSecrets, codes : 0..MaxCodes] /\ MaxCodes \in Nat
      /\ gThr[l].seen.codes \subseteq Drawn /\ gSpent \subseteq Drawn /\ gTfa.codes \subseteq Drawn
      /\ L!SecondFactorTrue
  BY GateTypes, PanelAssumption DEF GateInv, L!TypeOK, Factors
<1>2. CASE L!ConsumeBackupCode(l)
  <2> DEFINE f == [gTfa EXCEPT !.codes = gThr[l].seen.codes \ {gThr[l].code}]
  <2>1. f \in L!Factor /\ f.codes = gThr[l].seen.codes \ {gThr[l].code}
        /\ f.on = gTfa.on /\ f.secret = gTfa.secret
    BY <1>1 DEF L!Factor, GateThreads
  <2>2. gThr[l].code \in gThr[l].seen.codes
    BY <1>1, <1>2 DEF Factors, L!ConsumeBackupCode, L!At
  <2>3. L!Write(l, f) /\ gSpent' = gSpent \union {gThr[l].code} /\ UNCHANGED <<gConfirmed, gDrawn>>
    BY <1>2 DEF L!ConsumeBackupCode
  <2> HIDE DEF f
  <2>4. f.codes \subseteq Drawn' /\ gSpent' \subseteq Drawn'
    BY <1>1, <2>1, <2>2, <2>3 DEF Drawn
  <2>5. ~gCrossed /\ gTfa = gThr[l].seen =>
            f.codes \intersect gSpent' = {} /\ (f.on => f.secret = gConfirmed')
    BY <1>1, <2>1, <2>3 DEF L!SecondFactorTrue
  <2> QED BY <1>1, <2>1, <2>3, <2>4, <2>5, WriteFactors
<1>3. CASE L!Setup(l)
  <2> DEFINE f == [gTfa EXCEPT !.secret = gDrawn.secrets + 1]
  <2>1. gDrawn.secrets + 1 \in 0..GateSecrets
    BY <1>1, PanelAssumption, <1>3 DEF L!Setup
  <2>2. f \in L!Factor /\ f.on = gTfa.on /\ f.codes = gTfa.codes
    BY <1>1, <2>1 DEF L!Factor
  <2>3. L!Write(l, f) /\ UNCHANGED <<gConfirmed, gSpent>> /\ gDrawn'.codes = gDrawn.codes
    BY <1>1, <1>3 DEF L!Setup
  <2>4. ~gThr[l].seen.on
    BY <1>1, <1>3 DEF Factors, L!Setup, L!At
  <2> HIDE DEF f
  <2>5. f.codes \subseteq Drawn' /\ gSpent' \subseteq Drawn'
    BY <1>1, <2>2, <2>3 DEF Drawn
  <2>6. ~gCrossed /\ gTfa = gThr[l].seen =>
            f.codes \intersect gSpent' = {} /\ (f.on => f.secret = gConfirmed')
    BY <1>1, <2>2, <2>3, <2>4 DEF L!SecondFactorTrue
  <2> QED BY <1>1, <2>2, <2>3, <2>5, <2>6, WriteFactors
<1>4. CASE L!Enable(l)
  <2> DEFINE new == {gDrawn.codes + 1, gDrawn.codes + 2}
             f == [gTfa EXCEPT !.on = TRUE, !.codes = new]
  <2>1. gDrawn.codes + 2 \in 0..MaxCodes /\ new \subseteq L!Codes
    BY <1>1, <1>4 DEF L!Enable, L!Codes
  <2>2. f \in L!Factor /\ f.secret = gTfa.secret /\ f.codes = new
    BY <1>1, <2>1 DEF L!Factor
  <2>3. L!Write(l, f) /\ gConfirmed' = gThr[l].seen.secret /\ gSpent' = gSpent
        /\ gDrawn'.codes = gDrawn.codes + 2
    BY <1>1, <1>4 DEF L!Enable
  <2> HIDE DEF f
  <2>4. f.codes \subseteq Drawn' /\ gSpent' \subseteq Drawn'
    BY <1>1, <2>2, <2>3 DEF Drawn
  <2>5. f.codes \intersect gSpent' = {}
    BY <1>1, <2>2, <2>3 DEF Drawn
  <2> QED BY <1>1, <2>2, <2>3, <2>4, <2>5, WriteFactors
<1>5. CASE L!Disable(l)
  <2> DEFINE f == [on |-> FALSE, secret |-> L!None, codes |-> {}]
  <2>1. f \in L!Factor
    BY PanelAssumption DEF L!Factor, L!None
  <2>2. L!Write(l, f) /\ UNCHANGED <<gConfirmed, gSpent, gDrawn>>
    BY <1>5 DEF L!Disable
  <2>3. f.codes \subseteq Drawn' /\ gSpent' \subseteq Drawn'
    BY <1>1, <2>2 DEF Drawn
  <2> QED BY <1>1, <2>1, <2>2, <2>3, WriteFactors
<1> QED BY <1>2, <1>3, <1>4, <1>5

LEMMA TimeFactors ==
    ASSUME GateInv, L!BlockByHand \/ L!Unblock \/ L!BlockExpires \/ L!WindowMoves
    PROVE  Factors'
<1>1. UNCHANGED <<gTfa, gThr, gConfirmed, gSpent, gCrossed, gDrawn>>
  BY DEF L!BlockByHand, L!Unblock, L!BlockExpires, L!WindowMoves
<1> QED BY <1>1 DEF GateInv, Factors, Drawn, L!SecondFactorTrue

LEMMA GateKept == GateInv /\ [L!Next]_(L!vars) => GateInv'
<1> SUFFICES ASSUME GateInv, [L!Next]_(L!vars) PROVE GateInv'
  OBVIOUS
<1>1. CASE UNCHANGED L!vars
  BY <1>1 DEF GateInv, L!vars, L!TypeOK, Guesses, Guessing, Factors, Drawn, L!SecondFactorTrue
<1>2. ASSUME NEW l \in Requests,
             \/ L!CheckBlocked(l) \/ L!CountFailures(l) \/ L!BlockAddress(l)
             \/ L!WrongPassword(l) \/ L!RightPassword(l)
      PROVE  GateInv'
  BY <1>2, LoginTypes, LoginGuesses, LoginFactors DEF GateInv
<1>3. ASSUME NEW l \in Requests, L!StartSetup(l) \/ L!StartEnable(l) \/ L!StartDisable(l)
      PROVE  GateInv'
  BY <1>3, StartTypes, OthersGuess, LoginFactors DEF GateInv
<1>4. ASSUME NEW l \in Requests,
             \/ L!ConsumeBackupCode(l) \/ L!Setup(l) \/ L!Enable(l) \/ L!Disable(l)
      PROVE  GateInv'
  BY <1>4, FactorTypes, OthersGuess, FactorFactors DEF GateInv
<1>5. CASE L!BlockByHand \/ L!Unblock \/ L!BlockExpires \/ L!WindowMoves
  BY <1>5, TimeTypes, TimeGuesses, TimeFactors DEF GateInv
<1> QED BY <1>1, <1>2, <1>3, <1>4, <1>5 DEF L!Next

\* An address is blocked after at most one guess for each login under way
\* beyond the threshold, and a recovery code opens once: for any number of
\* logins and changes of the second factor at once.  And an administrator
\* remains.
THEOREM AccessIsHeld == Spec => []AccessHolds
<1> DEFINE Inv == part = "gate" => GateInv
<1>1. Init => Inv
  BY GateInit DEF Init
<1>2. Inv /\ [Next]_vars => Inv'
  BY EachItsOwn, GateKept
<1>3. Inv /\ (part = "users" => R!AdminRemains) => AccessHolds
  <2>1. GateInv => L!TriesBounded
    <3> SUFFICES ASSUME GateInv PROVE L!TriesBounded
      OBVIOUS
    <3>1. L!TypeOK /\ Guesses
      BY DEF GateInv
    <3>2. /\ gTried \in Nat /\ Cardinality(Guessing) \in Nat /\ Cardinality(Requests) \in Nat
          /\ Threshold \in Nat
      BY <3>1, GateTypes, PanelAssumption
    <3>3. gTried + Cardinality(Guessing) <= Threshold - 1 + Cardinality(Requests)
      BY <3>1 DEF Guesses
    <3>4. L!Cardinality(Requests) = Cardinality(Requests)
      BY DEF L!Cardinality, Cardinality
    <3> QED BY <3>2, <3>3, <3>4 DEF L!TriesBounded
  <2> QED BY <2>1 DEF GateInv, Factors, AccessHolds
<1>4. QED
  BY <1>1, <1>2, <1>3, AdministratorRemains, PTL DEF Spec

-----------------------------------------------------------------------------
(* The connections to a server.                                            *)
nAccepted == v1
nRow == v2
nCache == v3
nThr == v4
nReplaced == v5
nMade == v6
nLeft == v7
nCrossed == v8
nIssued == v9
nEvents == v10

USE DEF nAccepted, nRow, nCache, nThr, nReplaced, nMade, nLeft, nCrossed, nIssued, nEvents

ConnThreads == [pc : N!Opening \union {"idle", "clear", "commit", "issue", "save", "revoke"},
                job : N!Jobs, cred : N!Creds, new : N!Creds]
ServerRows == [live : BOOLEAN, token_first : BOOLEAN, password : 0..MaxSecrets, token : N!Creds]
ConnTypes ==
    /\ nAccepted \in [N!Keys -> 0..MaxSecrets] /\ nCache \in [N!Keys -> 0..MaxSecrets]
    /\ nRow \in ServerRows /\ nThr \in [Requests -> ConnThreads]
    /\ nReplaced \subseteq N!Creds /\ nMade \subseteq N!Creds /\ nLeft \subseteq nMade
    /\ nCrossed \in BOOLEAN /\ nIssued \in 1..MaxSecrets /\ nEvents \in 0..MaxEvents

\* The credentials in a row that is there.
HeldBy(x) == IF x.live THEN {c \in {N!Cred(N!Password, x.password), x.token} : c.secret # N!None} ELSE {}
Creating(h) == h.job = "create"
Saving(h) == h.pc \in {"save", "revoke"}
\* What is tried next is what the handler has.
Trying(h) == h.pc \in {"lookup", "connect", "store"}
\* Only who provisions or adds a server has a token issued.
Entitled(h) == h.pc \in {"issue", "save", "revoke"} => h.job \in {"provision", "create"}

\* What an edit took out of the row is no more in it, and is no gap in it.
ReplacedApart ==
    /\ HeldBy(nRow) \intersect nReplaced = {}
    /\ \A c \in nReplaced : c.secret # N!None
\* Tokens of the panel have a name and a secret that has been told.
MadeNamed ==
    /\ \A c \in nMade : c.key \in N!Names /\ c.secret \in 1..nIssued
    /\ \A t \in Requests : Saving(nThr[t]) => nThr[t].new \in nMade
\* A server is added by one request, while there is none; tokens are issued
\* for an addition and for a provisioning.
OneCreates ==
    /\ \A t \in Requests : Creating(nThr[t]) => ~nRow.live
    /\ \A t, u \in Requests : Creating(nThr[t]) /\ Creating(nThr[u]) => t = u
    /\ \A t \in Requests : Entitled(nThr[t])
\* Until an opening and an edit cross: nobody tries what was replaced, and who
\* is about to commit an edit has an empty cache.
TriedFresh == ~nCrossed => \A t \in Requests : Trying(nThr[t]) => nThr[t].cred \notin nReplaced
ClearedFirst == ~nCrossed => \A t \in Requests : nThr[t].pc = "commit" => \A k \in N!Keys : nCache[k] = N!None

\* The inductive invariant.
ConnInv ==
    /\ ConnTypes /\ ReplacedApart /\ MadeNamed /\ OneCreates /\ TriedFresh /\ ClearedFirst
    /\ N!CredentialsFresh /\ N!TokensAccounted

LEMMA ConnConstants ==
    /\ TokenNames \in Nat /\ CacheSize \in Nat /\ MaxEvents \in Nat /\ MaxSecrets \in Nat /\ MaxSecrets >= 1
    /\ N!Password \in N!Keys /\ N!Names \subseteq N!Keys /\ N!Password \notin N!Names
    /\ N!NoCred \in N!Creds /\ N!Idle \in ConnThreads /\ N!Idle.pc = "idle" /\ N!Idle.job = "use"
    /\ N!NoCred.secret = N!None /\ N!None = 0
    /\ \A k \in N!Keys, s \in 0..MaxSecrets : N!Cred(k, s) \in N!Creds
<1>1. TokenNames \in Nat /\ CacheSize \in Nat /\ MaxEvents \in Nat /\ MaxSecrets \in Nat /\ MaxSecrets >= 1
  BY PanelAssumption
<1>2. N!Password \in N!Keys /\ N!Names \subseteq N!Keys /\ N!Password \notin N!Names
  BY <1>1 DEF N!Password, N!Keys, N!Names
<1>3. \A k \in N!Keys, s \in 0..MaxSecrets : N!Cred(k, s) \in N!Creds
  BY DEF N!Cred, N!Creds
<1>4. N!NoCred \in N!Creds /\ N!NoCred.secret = N!None /\ N!None = 0
  BY <1>1, <1>2, <1>3 DEF N!NoCred, N!None, N!Cred
<1>5. N!Idle \in ConnThreads /\ N!Idle.pc = "idle" /\ N!Idle.job = "use"
  BY <1>4 DEF N!Idle, ConnThreads, N!Jobs
<1> QED BY <1>1, <1>2, <1>3, <1>4, <1>5

LEMMA ConnInit == N!Init => ConnInv
<1> SUFFICES ASSUME N!Init PROVE ConnInv
  OBVIOUS
<1>1. ConnTypes
  <2>1. nRow \in ServerRows
    BY ConnConstants DEF N!Init, ServerRows
  <2>2. nAccepted \in [N!Keys -> 0..MaxSecrets] /\ nCache \in [N!Keys -> 0..MaxSecrets]
    BY ConnConstants DEF N!Init
  <2>3. nThr \in [Requests -> ConnThreads]
    BY ConnConstants DEF N!Init
  <2>4. nIssued \in 1..MaxSecrets /\ nEvents \in 0..MaxEvents /\ nCrossed \in BOOLEAN
    <3>1. nIssued = 1 /\ nEvents = 0 /\ nCrossed = FALSE
      BY DEF N!Init
    <3>2. MaxSecrets \in Nat /\ MaxSecrets >= 1 /\ MaxEvents \in Nat
      BY ConnConstants
    <3>3. nCrossed \in BOOLEAN
      BY <3>1
    <3>4. nIssued \in 1..MaxSecrets /\ nEvents \in 0..MaxEvents
      <4>1. 1 \in 1..MaxSecrets /\ 0 \in 0..MaxEvents
        BY <3>2
      <4> QED BY <3>1, <4>1
    <3> QED BY <3>3, <3>4
  <2>5. nReplaced = {} /\ nMade = {} /\ nLeft = {}
    BY DEF N!Init
  <2> QED BY <2>1, <2>2, <2>3, <2>4, <2>5 DEF ConnTypes
<1>2. \A t \in Requests : nThr[t].pc = "idle" /\ nThr[t].job = "use"
  BY ConnConstants DEF N!Init
<1>3. ReplacedApart /\ MadeNamed /\ OneCreates /\ TriedFresh /\ ClearedFirst
  BY <1>2 DEF N!Init, ReplacedApart, MadeNamed, OneCreates, TriedFresh, ClearedFirst, Creating, Saving, Trying, Entitled
<1>4. N!CredentialsFresh /\ N!TokensAccounted
  BY DEF N!Init, N!CredentialsFresh, N!TokensAccounted
<1> QED BY <1>1, <1>3, <1>4 DEF ConnInv

-----------------------------------------------------------------------------
LEMMA Elsewhere ==
    ASSUME ConnTypes, NEW t \in Requests, NEW r, nThr' = [nThr EXCEPT ![t] = r]
    PROVE  nThr'[t] = r /\ \A u \in Requests \ {t} : nThr'[u] = nThr[u]
  BY DEF ConnTypes

\* A thread goes on, and nothing is written but which of the two ways of
\* logging in the row points to; connections are dropped, or come that are fresh.
LEMMA ThreadMoves ==
    ASSUME ConnInv, NEW t \in Requests, NEW r \in ConnThreads,
           nThr' = [nThr EXCEPT ![t] = r],
           UNCHANGED <<nAccepted, nReplaced, nMade, nLeft, nIssued>>,
           nRow' = nRow \/ nRow' = [nRow EXCEPT !.token_first = ~@],
           nCache' \in [N!Keys -> 0..MaxSecrets],
           \A k \in N!Keys : \/ nCache'[k] \in {nCache[k], N!None}
                            \/ /\ ~nCrossed' => N!Cred(k, nCache'[k]) \notin nReplaced
                               /\ ~nCrossed' => \A u \in Requests \ {t} : nThr[u].pc # "commit",
           nCrossed' \in BOOLEAN, nCrossed => nCrossed', nEvents' \in 0..MaxEvents,
           Creating(r) => Creating(nThr[t]) \/ (~nRow.live /\ \A u \in Requests : ~Creating(nThr[u])),
           Entitled(r), Saving(nThr[t]) => Saving(r) /\ r.new = nThr[t].new,
           Saving(r) => r.new \in nMade,
           Trying(r) /\ ~nCrossed' => r.cred \notin nReplaced,
           r.pc = "commit" \/ nThr[t].pc = "clear" => nCrossed' \/ \A k \in N!Keys : nCache'[k] = N!None
    PROVE  ConnInv'
<1>0. ConnTypes /\ nRow \in ServerRows
  BY DEF ConnInv, ConnTypes
<1>1. nThr'[t] = r /\ \A u \in Requests \ {t} : nThr'[u] = nThr[u]
  BY <1>0, Elsewhere
<1>2. nRow' \in ServerRows /\ nRow'.live = nRow.live /\ nRow'.token = nRow.token /\ nRow'.password = nRow.password
  BY <1>0 DEF ServerRows
<1>3. ConnTypes'
  BY <1>0, <1>2 DEF ConnTypes
<1>4. ReplacedApart'
  <2>1. HeldBy(nRow') = HeldBy(nRow)
    BY <1>2 DEF HeldBy
  <2> QED BY <2>1 DEF ConnInv, ReplacedApart
<1>5. MadeNamed'
  BY <1>1 DEF ConnInv, MadeNamed
<1>6. OneCreates'
  BY <1>1, <1>2 DEF ConnInv, OneCreates
<1>7. TriedFresh'
  BY <1>1 DEF ConnInv, TriedFresh
<1>8. ClearedFirst'
  <2>1. SUFFICES ASSUME ~nCrossed', NEW u \in Requests, nThr'[u].pc = "commit", NEW k \in N!Keys
                 PROVE  nCache'[k] = N!None
    BY DEF ClearedFirst
  <2>2. CASE u = t
    BY <1>1, <2>1, <2>2
  <2>3. CASE u # t
    <3>1. nThr[u].pc = "commit" /\ nCache[k] = N!None
      BY <1>1, <2>1, <2>3 DEF ConnInv, ClearedFirst
    <3> QED BY <2>1, <2>3, <3>1
  <2> QED BY <2>2, <2>3
<1>9. N!CredentialsFresh'
  <2>1. SUFFICES ASSUME ~nCrossed', \A u \in Requests : ~(nThr'[u].job = "provision" /\ nThr'[u].pc = "clear"),
                        NEW k \in N!Keys, nCache'[k] # N!None
                 PROVE  N!Cred(k, nCache'[k]) \notin nReplaced
    BY DEF N!CredentialsFresh, N!At, N!Cached
  <2>2. CASE nCache'[k] = nCache[k]
    <3>1. ~nCrossed /\ \A u \in Requests : ~(nThr[u].job = "provision" /\ nThr[u].pc = "clear")
      BY <1>1, <2>1
    <3> QED BY <2>1, <2>2, <3>1 DEF ConnInv, N!CredentialsFresh, N!At, N!Cached
  <2>3. CASE N!Cred(k, nCache'[k]) \notin nReplaced
    BY <2>3
  <2> QED BY <2>1, <2>2, <2>3
<1>10. N!TokensAccounted'
  <2>1. \A c \in nMade, u \in Requests : nThr[u].new = c /\ nThr[u].pc \in {"save", "revoke"}
                                        => nThr'[u].new = c /\ nThr'[u].pc \in {"save", "revoke"}
    BY <1>1 DEF Saving
  <2> QED BY <1>2, <2>1 DEF ConnInv, N!TokensAccounted
<1> QED BY <1>3, <1>4, <1>5, <1>6, <1>7, <1>8, <1>9, <1>10 DEF ConnInv

\* What the invariant says of the types.
LEMMA ConnFacts ==
    ASSUME ConnInv, NEW t \in Requests
    PROVE  /\ ConnTypes /\ nThr[t] \in ConnThreads /\ nRow \in ServerRows
           /\ nCrossed \in BOOLEAN /\ nIssued \in 1..MaxSecrets /\ nEvents \in 0..MaxEvents
           /\ nCache \in [N!Keys -> 0..MaxSecrets] /\ nAccepted \in [N!Keys -> 0..MaxSecrets]
           /\ 1..nIssued \subseteq 0..MaxSecrets
           /\ nThr[t].cred \in N!Creds /\ nThr[t].new \in N!Creds /\ nThr[t].cred.key \in N!Keys
<1>1. ConnTypes
  BY DEF ConnInv
<1>2. /\ nThr[t] \in ConnThreads /\ nRow \in ServerRows
      /\ nCrossed \in BOOLEAN /\ nIssued \in 1..MaxSecrets /\ nEvents \in 0..MaxEvents
      /\ nCache \in [N!Keys -> 0..MaxSecrets] /\ nAccepted \in [N!Keys -> 0..MaxSecrets]
  BY <1>1 DEF ConnTypes
<1>3. 1..nIssued \subseteq 0..MaxSecrets
  <2>1. MaxSecrets \in Nat
    BY ConnConstants
  <2> QED BY <1>2, <2>1
<1>4. nThr[t].cred \in N!Creds /\ nThr[t].new \in N!Creds
  BY <1>2 DEF ConnThreads
<1>5. nThr[t].cred.key \in N!Keys
  BY <1>4 DEF N!Creds
<1> QED BY <1>1, <1>2, <1>3, <1>4, <1>5

LEMMA EventTypes ==
    ASSUME ConnInv, N!Event
    PROVE  nEvents' \in 0..MaxEvents
  BY ConnConstants DEF ConnInv, ConnTypes, N!Event

\* What the row says to log in with was not replaced.
LEMMA InRowFresh ==
    ASSUME ConnInv, nRow.live, NEW b \in BOOLEAN
    PROVE  /\ N!InRow(nRow) \in N!Creds /\ N!InRow([nRow EXCEPT !.token_first = b]) \in N!Creds
           /\ N!InRow(nRow) \notin nReplaced /\ N!InRow([nRow EXCEPT !.token_first = b]) \notin nReplaced
<1>1. nRow \in ServerRows
  BY DEF ConnInv, ConnTypes
<1>2. nRow.token \in N!Creds /\ N!Cred(N!Password, nRow.password) \in N!Creds
  BY <1>1, ConnConstants DEF ServerRows
<1>3. \A c \in {N!Cred(N!Password, nRow.password), nRow.token} : c \notin nReplaced
  BY DEF ConnInv, ReplacedApart, HeldBy
<1>4. /\ [nRow EXCEPT !.token_first = b].password = nRow.password
      /\ [nRow EXCEPT !.token_first = b].token = nRow.token
  BY <1>1 DEF ServerRows
<1> QED BY <1>2, <1>3, <1>4 DEF N!InRow

LEMMA OpeningKept ==
    ASSUME ConnInv, NEW t \in Requests,
           \/ N!Use(t) \/ N!TestCredentials(t) \/ N!Lookup(t) \/ N!Connect(t) \/ N!Opened(t)
    PROVE  ConnInv'
<1>1. CASE N!Use(t)
  <2> DEFINE r == [N!Idle EXCEPT !.pc = "lookup", !.cred = N!InRow(nRow)]
  <2>1. N!InRow(nRow) \in N!Creds /\ N!InRow(nRow) \notin nReplaced
    BY <1>1, InRowFresh DEF N!Use
  <2>2. r \in ConnThreads /\ r.job = "use" /\ r.pc = "lookup" /\ r.cred = N!InRow(nRow)
    BY <2>1, ConnConstants DEF ConnThreads, N!Opening
  <2>3. nThr[t].pc = "idle" /\ nThr' = [nThr EXCEPT ![t] = r]
        /\ UNCHANGED <<nAccepted, nRow, nCache, nReplaced, nMade, nLeft, nCrossed, nIssued, nEvents>>
    BY <1>1 DEF N!Use, N!At, N!Set
  <2> HIDE DEF r
  <2> QED BY <2>1, <2>2, <2>3, ConnFacts, ThreadMoves DEF Creating, Saving, Trying, Entitled
<1>2. CASE N!TestCredentials(t)
  <2>1. PICK k \in N!Keys, s \in 1..nIssued :
          /\ nThr' = [nThr EXCEPT ![t] = [N!Idle EXCEPT !.pc = "lookup", !.cred = N!Cred(k, s)]]
          /\ nCrossed' = (nCrossed \/ N!Cred(k, s) \in nReplaced)
    BY <1>2 DEF N!TestCredentials, N!Set
  <2> DEFINE r == [N!Idle EXCEPT !.pc = "lookup", !.cred = N!Cred(k, s)]
  <2>2. N!Cred(k, s) \in N!Creds
    BY ConnConstants, ConnFacts
  <2>3. r \in ConnThreads /\ r.job = "use" /\ r.pc = "lookup" /\ r.cred = N!Cred(k, s)
    BY <2>2, ConnConstants DEF ConnThreads, N!Opening
  <2>4. nThr[t].pc = "idle" /\ nEvents' \in 0..MaxEvents
        /\ UNCHANGED <<nAccepted, nRow, nCache, nReplaced, nMade, nLeft, nIssued>>
    BY <1>2, EventTypes DEF N!TestCredentials, N!At
  <2> HIDE DEF r
  <2> QED BY <2>1, <2>3, <2>4, ConnFacts, ThreadMoves DEF Creating, Saving, Trying, Entitled, r
<1>3. CASE N!Lookup(t)
  <2>1. PICK pc \in {"opened", "connect"} : nThr' = [nThr EXCEPT ![t] = [nThr[t] EXCEPT !.pc = pc]]
    BY <1>3 DEF N!Lookup, N!GoTo, N!Set
  <2> DEFINE r == [nThr[t] EXCEPT !.pc = pc]
  <2>2. r \in ConnThreads /\ r.job = nThr[t].job /\ r.pc = pc /\ r.cred = nThr[t].cred
    BY ConnFacts DEF ConnThreads, N!Opening
  <2>3. nThr[t].pc = "lookup"
        /\ UNCHANGED <<nAccepted, nRow, nCache, nReplaced, nMade, nLeft, nCrossed, nIssued, nEvents>>
    BY <1>3 DEF N!Lookup, N!At
  <2>4. ~nCrossed => nThr[t].cred \notin nReplaced
    BY <2>3 DEF ConnInv, TriedFresh, Trying
  <2> HIDE DEF r
  <2> QED BY <2>1, <2>2, <2>3, <2>4, ConnFacts, ThreadMoves DEF Creating, Saving, Trying, Entitled, r
<1>4. CASE N!Connect(t)
  <2>1. nThr[t].pc = "connect"
        /\ UNCHANGED <<nAccepted, nRow, nReplaced, nMade, nLeft, nCrossed, nIssued, nEvents>>
    BY <1>4 DEF N!Connect, N!At
  <2>2. ~nCrossed => nThr[t].cred \notin nReplaced
    BY <2>1 DEF ConnInv, TriedFresh, Trying
  <2>3. CASE N!GoTo(t, "store") /\ UNCHANGED nCache
    <3> DEFINE r == [nThr[t] EXCEPT !.pc = "store"]
    <3>1. r \in ConnThreads /\ r.job = nThr[t].job /\ r.pc = "store" /\ r.cred = nThr[t].cred
      BY ConnFacts DEF ConnThreads, N!Opening
    <3>2. nThr' = [nThr EXCEPT ![t] = r]
      BY <2>3 DEF N!GoTo, N!Set
    <3> HIDE DEF r
    <3> QED BY <2>1, <2>2, <2>3, <3>1, <3>2, ConnFacts, ThreadMoves DEF Creating, Saving, Trying, Entitled
  <2>4. CASE N!Set(t, N!Idle) /\ nCache' = [nCache EXCEPT ![nThr[t].cred.key] = N!None]
    <3>1. nThr' = [nThr EXCEPT ![t] = N!Idle]
      BY <2>4 DEF N!Set
    <3>2. nCache' \in [N!Keys -> 0..MaxSecrets] /\ \A k \in N!Keys : nCache'[k] \in {nCache[k], N!None}
      BY <2>4, ConnFacts, ConnConstants
    <3> QED BY <2>1, <3>1, <3>2, ConnConstants, ConnFacts, ThreadMoves DEF Creating, Saving, Trying, Entitled
  <2> QED BY <1>4, <2>3, <2>4 DEF N!Connect
<1>5. CASE N!Opened(t)
  <2>1. nThr[t].pc = "opened"
        /\ UNCHANGED <<nAccepted, nRow, nCache, nReplaced, nMade, nLeft, nCrossed, nIssued, nEvents>>
    BY <1>5 DEF N!Opened, N!At
  <2>2. CASE N!Set(t, N!Idle)
    <3>1. nThr' = [nThr EXCEPT ![t] = N!Idle]
      BY <2>2 DEF N!Set
    <3> QED BY <2>1, <3>1, ConnConstants, ConnFacts, ThreadMoves DEF Creating, Saving, Trying, Entitled
  <2>3. CASE nThr[t].job \in {"provision", "create"} /\ N!GoTo(t, "issue")
    <3> DEFINE r == [nThr[t] EXCEPT !.pc = "issue"]
    <3>1. r \in ConnThreads /\ r.job = nThr[t].job /\ r.pc = "issue"
      BY ConnFacts DEF ConnThreads
    <3>2. nThr' = [nThr EXCEPT ![t] = r]
      BY <2>3 DEF N!GoTo, N!Set
    <3>3. Entitled(r)
      BY <2>3, <3>1 DEF Entitled
    <3> HIDE DEF r
    <3> QED BY <2>1, <3>1, <3>2, <3>3, ConnFacts, ThreadMoves DEF Creating, Saving, Trying
  <2> QED BY <1>5, <2>2, <2>3 DEF N!Opened
<1> QED BY <1>1, <1>2, <1>3, <1>4, <1>5

LEMMA BeginKept ==
    ASSUME ConnInv, NEW t \in Requests,
           N!Update(t) \/ N!SwitchUse(t) \/ N!Remove(t) \/ N!Provision(t) \/ N!SaveFails(t)
    PROVE  ConnInv'
<1>0. nEvents' \in 0..MaxEvents
  BY EventTypes DEF N!Update, N!SwitchUse, N!Remove, N!Provision, N!SaveFails
<1>1. CASE N!Update(t)
  <2>1. PICK k \in N!Keys, s \in 1..nIssued :
          nThr' = [nThr EXCEPT ![t] = [N!Idle EXCEPT !.pc = "clear", !.job = "update", !.new = N!Cred(k, s)]]
    BY <1>1 DEF N!Update, N!Set
  <2> DEFINE r == [N!Idle EXCEPT !.pc = "clear", !.job = "update", !.new = N!Cred(k, s)]
  <2>2. N!Cred(k, s) \in N!Creds
    BY ConnConstants, ConnFacts
  <2>3. r \in ConnThreads /\ r.job = "update" /\ r.pc = "clear"
    BY <2>2, ConnConstants DEF ConnThreads, N!Jobs
  <2>4. nThr[t].pc = "idle"
        /\ UNCHANGED <<nAccepted, nRow, nCache, nReplaced, nMade, nLeft, nCrossed, nIssued>>
    BY <1>1 DEF N!Update, N!At
  <2> HIDE DEF r
  <2> QED BY <1>0, <2>1, <2>3, <2>4, ConnFacts, ThreadMoves DEF Creating, Saving, Trying, Entitled, r
<1>2. CASE N!SwitchUse(t)
  <2>1. /\ nThr[t].pc = "idle" /\ nRow.live /\ nRow' = [nRow EXCEPT !.token_first = ~@]
        /\ nThr' = [nThr EXCEPT ![t] = [N!Idle EXCEPT !.pc = "lookup", !.cred = N!InRow(nRow')]]
        /\ UNCHANGED <<nAccepted, nCache, nReplaced, nMade, nLeft, nCrossed, nIssued>>
    BY <1>2 DEF N!SwitchUse, N!At, N!Set
  <2>2. N!InRow(nRow') \in N!Creds /\ N!InRow(nRow') \notin nReplaced
    <3>1. nRow' = [nRow EXCEPT !.token_first = ~nRow.token_first]
      BY <2>1
    <3>2. (~nRow.token_first) \in BOOLEAN
      OBVIOUS
    <3> QED BY <2>1, <3>1, <3>2, InRowFresh
  <2> DEFINE r == [N!Idle EXCEPT !.pc = "lookup", !.cred = N!InRow(nRow')]
  <2>3. r \in ConnThreads /\ r.job = "use" /\ r.pc = "lookup" /\ r.cred = N!InRow(nRow')
    BY <2>2, ConnConstants DEF ConnThreads, N!Opening
  <2>4. nThr' = [nThr EXCEPT ![t] = r]
    BY <2>1
  <2>5. nCache' \in [N!Keys -> 0..MaxSecrets] /\ nCache' = nCache /\ nCrossed' \in BOOLEAN
    BY <2>1, ConnFacts
  <2>6. ~Creating(r) /\ ~Saving(r) /\ Entitled(r) /\ ~Saving(nThr[t]) /\ r.pc # "commit" /\ nThr[t].pc # "clear"
        /\ (Trying(r) => r.cred \notin nReplaced)
    BY <2>1, <2>2, <2>3 DEF Creating, Saving, Trying, Entitled
  <2> HIDE DEF r
  <2> QED BY <1>0, <2>1, <2>3, <2>4, <2>5, <2>6, ThreadMoves
<1>3. CASE N!Remove(t)
  <2> DEFINE r == [N!Idle EXCEPT !.pc = "clear", !.job = "delete"]
  <2>1. r \in ConnThreads /\ r.job = "delete" /\ r.pc = "clear"
    BY ConnConstants DEF ConnThreads, N!Jobs
  <2>2. nThr[t].pc = "idle" /\ nThr' = [nThr EXCEPT ![t] = r]
        /\ UNCHANGED <<nAccepted, nRow, nCache, nReplaced, nMade, nLeft, nCrossed, nIssued>>
    BY <1>3 DEF N!Remove, N!At, N!Set
  <2> HIDE DEF r
  <2> QED BY <1>0, <2>1, <2>2, ConnFacts, ThreadMoves DEF Creating, Saving, Trying, Entitled
<1>4. CASE N!Provision(t)
  <2> DEFINE c == N!Cred(N!Password, nRow.password)
             r == [N!Idle EXCEPT !.pc = "lookup", !.job = "provision", !.cred = c]
  <2>1. c \in N!Creds /\ c \notin nReplaced
    <3>1. nRow.password \in 0..MaxSecrets
      BY ConnFacts DEF ServerRows
    <3>2. nRow.live /\ c.secret # N!None
      BY <1>4 DEF N!Provision, N!Cred
    <3>3. c \in HeldBy(nRow)
      BY <3>2 DEF HeldBy
    <3> QED BY <3>1, <3>3, ConnConstants DEF ConnInv, ReplacedApart
  <2>2. r \in ConnThreads /\ r.job = "provision" /\ r.pc = "lookup" /\ r.cred = c
    BY <2>1, ConnConstants DEF ConnThreads, N!Jobs, N!Opening
  <2>3. nThr[t].pc = "idle" /\ nThr' = [nThr EXCEPT ![t] = r]
        /\ UNCHANGED <<nAccepted, nRow, nCache, nReplaced, nMade, nLeft, nCrossed, nIssued>>
    BY <1>4 DEF N!Provision, N!At, N!Set
  <2> HIDE DEF r
  <2> QED BY <1>0, <2>1, <2>2, <2>3, ConnFacts, ThreadMoves DEF Creating, Saving, Trying, Entitled
<1>5. CASE N!SaveFails(t)
  <2> DEFINE r == [nThr[t] EXCEPT !.pc = "revoke"]
  <2>1. r \in ConnThreads /\ r.job = nThr[t].job /\ r.pc = "revoke" /\ r.new = nThr[t].new
    BY ConnFacts DEF ConnThreads
  <2>2. nThr[t].pc = "save" /\ nThr' = [nThr EXCEPT ![t] = r]
        /\ UNCHANGED <<nAccepted, nRow, nCache, nReplaced, nMade, nLeft, nCrossed, nIssued>>
    BY <1>5 DEF N!SaveFails, N!At, N!GoTo, N!Set
  <2>3. r.new \in nMade
    BY <2>1, <2>2 DEF ConnInv, MadeNamed, Saving
  <2>4. Entitled(r)
    BY <2>1, <2>2 DEF ConnInv, OneCreates, Entitled
  <2> HIDE DEF r
  <2> QED BY <1>0, <2>1, <2>2, <2>3, <2>4, ConnFacts, ThreadMoves DEF Creating, Saving, Trying
<1> QED BY <1>1, <1>2, <1>3, <1>4, <1>5

\* Dropping a connection is always allowed.
LEMMA ExpireKept ==
    ASSUME ConnInv, NEW k \in N!Keys, N!Expire(k)
    PROVE  ConnInv'
<1>1. /\ nCache' = [nCache EXCEPT ![k] = N!None]
      /\ UNCHANGED <<nAccepted, nRow, nThr, nReplaced, nMade, nLeft, nCrossed, nIssued, nEvents>>
  BY DEF N!Expire
<1>2. nCache \in [N!Keys -> 0..MaxSecrets] /\ N!None \in 0..MaxSecrets
  <2>1. MaxSecrets \in Nat /\ N!None = 0
    BY ConnConstants
  <2> QED BY <2>1 DEF ConnInv, ConnTypes
<1>3. nCache' \in [N!Keys -> 0..MaxSecrets] /\ \A j \in N!Keys : nCache'[j] \in {nCache[j], N!None}
  BY <1>1, <1>2
<1>4. ConnTypes'
  BY <1>1, <1>3 DEF ConnInv, ConnTypes
<1>5. ReplacedApart' /\ MadeNamed' /\ OneCreates' /\ TriedFresh'
  BY <1>1 DEF ConnInv, ReplacedApart, HeldBy, MadeNamed, OneCreates, TriedFresh
<1>6. ClearedFirst'
  BY <1>1, <1>3 DEF ConnInv, ClearedFirst
<1>7. N!CredentialsFresh' /\ N!TokensAccounted'
  <2>1. N!TokensAccounted'
    BY <1>1 DEF ConnInv, N!TokensAccounted
  <2>2. N!CredentialsFresh'
    BY <1>1, <1>3 DEF ConnInv, N!CredentialsFresh, N!Cached, N!At
  <2> QED BY <2>1, <2>2
<1> QED BY <1>4, <1>5, <1>6, <1>7 DEF ConnInv

LEMMA StoreKept ==
    ASSUME ConnInv, NEW t \in Requests, N!Store(t)
    PROVE  ConnInv'
<1> DEFINE c == nThr[t].cred
           r == [nThr[t] EXCEPT !.pc = "opened"]
<1>1. /\ nThr[t].pc = "store" /\ nThr' = [nThr EXCEPT ![t] = r]
      /\ nCrossed' = (nCrossed \/ N!Others(t, {"commit"}))
      /\ UNCHANGED <<nAccepted, nRow, nReplaced, nMade, nLeft, nIssued, nEvents>>
  BY DEF N!Store, N!At, N!GoTo, N!Set
<1>2. r \in ConnThreads /\ r.job = nThr[t].job /\ r.pc = "opened"
  BY ConnFacts DEF ConnThreads, N!Opening
<1>3. c \in N!Creds /\ c = N!Cred(c.key, c.secret) /\ c.key \in N!Keys /\ c.secret \in 0..MaxSecrets
  <2>1. c \in N!Creds
    BY ConnFacts
  <2> QED BY <2>1 DEF N!Creds, N!Cred
<1>4. PICK k \in N!Keys : nCache' = [nCache EXCEPT ![k] = N!None, ![c.key] = c.secret]
  BY <1>3 DEF N!Store, N!Cached
<1>5. /\ nCache' \in [N!Keys -> 0..MaxSecrets]
      /\ \A j \in N!Keys : nCache'[j] \in {nCache[j], N!None} \/ (j = c.key /\ nCache'[j] = c.secret)
  <2>1. nCache \in [N!Keys -> 0..MaxSecrets] /\ N!None \in 0..MaxSecrets
    <3>1. MaxSecrets \in Nat /\ N!None = 0
      BY ConnConstants
    <3> QED BY <3>1, ConnFacts
  <2> HIDE DEF c
  <2> QED BY <1>3, <1>4, <2>1
<1>6. ~nCrossed => c \notin nReplaced
  BY <1>1 DEF ConnInv, TriedFresh, Trying
<1>7. ~nCrossed' => \A u \in Requests \ {t} : nThr[u].pc # "commit"
  BY <1>1 DEF N!Others
<1>8. \A j \in N!Keys : \/ nCache'[j] \in {nCache[j], N!None}
                        \/ /\ ~nCrossed' => N!Cred(j, nCache'[j]) \notin nReplaced
                           /\ ~nCrossed' => \A u \in Requests \ {t} : nThr[u].pc # "commit"
  BY <1>1, <1>3, <1>5, <1>6, <1>7
<1>9. nCrossed' \in BOOLEAN /\ (nCrossed => nCrossed') /\ nEvents' \in 0..MaxEvents
  BY <1>1, ConnFacts DEF N!Others
<1> HIDE DEF r, c
<1> QED BY <1>1, <1>2, <1>5, <1>8, <1>9, ThreadMoves DEF Creating, Saving, Trying, Entitled

LEMMA ClearKept ==
    ASSUME ConnInv, NEW t \in Requests, N!Clear(t)
    PROVE  ConnInv'
<1>1. /\ nThr[t].pc = "clear"
      /\ UNCHANGED <<nAccepted, nRow, nReplaced, nMade, nLeft, nIssued, nEvents>>
  BY DEF N!Clear, N!At
<1>2. nEvents' \in 0..MaxEvents /\ nCrossed \in BOOLEAN
  BY <1>1, ConnFacts
<1>3. nCache \in [N!Keys -> 0..MaxSecrets] /\ N!None \in 0..MaxSecrets
  <3>1. MaxSecrets \in Nat /\ N!None = 0
    BY ConnConstants
  <3> QED BY <3>1, ConnFacts
<1>4. CASE nCache' = [k \in N!Keys |-> N!None] /\ UNCHANGED nCrossed
  <2>1. nCache' \in [N!Keys -> 0..MaxSecrets] /\ \A k \in N!Keys : nCache'[k] = N!None
    BY <1>3, <1>4
  <2>2. CASE nThr' = [nThr EXCEPT ![t] = N!Idle]
    BY <1>1, <1>2, <1>4, <2>1, <2>2, ConnConstants, ThreadMoves DEF Creating, Saving, Trying, Entitled
  <2>3. CASE nThr' = [nThr EXCEPT ![t] = [nThr[t] EXCEPT !.pc = "commit"]]
    <3> DEFINE r == [nThr[t] EXCEPT !.pc = "commit"]
    <3>1. r \in ConnThreads /\ r.job = nThr[t].job /\ r.pc = "commit"
      BY ConnFacts DEF ConnThreads
    <3>2. nThr' = [nThr EXCEPT ![t] = r]
      BY <2>3
    <3> HIDE DEF r
    <3> QED BY <1>1, <1>2, <1>4, <2>1, <3>1, <3>2, ThreadMoves DEF Creating, Saving, Trying, Entitled
  <2>4. nThr' \in {[nThr EXCEPT ![t] = N!Idle], [nThr EXCEPT ![t] = [nThr[t] EXCEPT !.pc = "commit"]]}
    BY <1>4, <1>1 DEF N!Clear, N!Set, N!At
  <2> QED BY <2>2, <2>3, <2>4
<1>5. CASE nThr' = [nThr EXCEPT ![t] = N!Idle] /\ nCrossed' = TRUE /\ UNCHANGED nCache
  BY <1>1, <1>2, <1>3, <1>5, ConnConstants, ThreadMoves DEF Creating, Saving, Trying, Entitled
<1>6. \/ nCache' = [k \in N!Keys |-> N!None] /\ UNCHANGED nCrossed
      \/ nThr' = [nThr EXCEPT ![t] = N!Idle] /\ nCrossed' = TRUE /\ UNCHANGED nCache
  BY DEF N!Clear, N!Set
<1> QED BY <1>4, <1>5, <1>6

-----------------------------------------------------------------------------
\* The row is written: beside requests that open a client only when it crosses
\* them, and after the cache was cleared or with the clearing to come.
LEMMA WriteMoves ==
    ASSUME ConnInv, NEW t \in Requests, NEW r \in ConnThreads, NEW x \in ServerRows,
           nThr' = [nThr EXCEPT ![t] = r], N!WriteRow(x),
           UNCHANGED <<nAccepted, nCache, nMade, nIssued>>, nEvents' \in 0..MaxEvents,
           nCrossed' \in BOOLEAN, nCrossed => nCrossed',
           ~Creating(r), ~Saving(r), Entitled(r), r.pc # "commit",
           x.live => nRow.live \/ \A u \in Requests \ {t} : ~Creating(nThr[u]),
           Saving(nThr[t]) => x.live /\ x.token = nThr[t].new,
           Trying(r) => r.cred \in HeldBy(x) \/ r.cred.secret = N!None,
           \/ ~nRow.live /\ nThr[t].pc # "clear"
           \/ /\ ~nCrossed' => \A u \in Requests \ {t} : ~Trying(nThr[u])
              /\ nThr[t].pc = "commit" \/ (r.pc = "clear" /\ r.job = "provision")
    PROVE  ConnInv'
<1>0. ConnTypes /\ nRow \in ServerRows
  BY DEF ConnInv, ConnTypes
<1>1. nThr'[t] = r /\ \A u \in Requests \ {t} : nThr'[u] = nThr[u]
  BY <1>0, Elsewhere
<1>2. /\ nRow' = x /\ nReplaced' = (nReplaced \union HeldBy(nRow)) \ HeldBy(x)
      /\ nLeft' = nLeft \union (nMade \intersect (HeldBy(nRow) \ HeldBy(x)))
  BY DEF N!WriteRow, HeldBy
<1>3. HeldBy(nRow) \subseteq N!Creds /\ \A c \in HeldBy(nRow) : c.secret # N!None
  <2>1. nRow.token \in N!Creds /\ N!Cred(N!Password, nRow.password) \in N!Creds
    BY <1>0, ConnConstants DEF ServerRows
  <2> QED BY <2>1 DEF HeldBy
<1>4. ConnTypes'
  <2>1. nReplaced' \subseteq N!Creds /\ nLeft' \subseteq nMade'
    BY <1>0, <1>2, <1>3 DEF ConnTypes
  <2>2. nThr' \in [Requests -> ConnThreads] /\ nRow' \in ServerRows
    BY <1>0, <1>2 DEF ConnTypes
  <2> QED BY <1>0, <2>1, <2>2 DEF ConnTypes
<1>5. ReplacedApart'
  BY <1>2, <1>3 DEF ConnInv, ReplacedApart
<1>6. MadeNamed'
  BY <1>1 DEF ConnInv, MadeNamed
<1>7. OneCreates'
  BY <1>1, <1>2 DEF ConnInv, OneCreates
<1>8. ~nRow.live => nReplaced' \subseteq nReplaced
  BY <1>2 DEF HeldBy
<1>9. TriedFresh'
  <2>1. SUFFICES ASSUME ~nCrossed', NEW u \in Requests, Trying(nThr'[u]) PROVE nThr'[u].cred \notin nReplaced'
    BY DEF TriedFresh
  <2>2. CASE u = t
    BY <1>1, <1>2, <1>5, <2>1, <2>2 DEF ReplacedApart
  <2>3. CASE u # t
    <3>1. Trying(nThr[u]) /\ nThr'[u].cred = nThr[u].cred
      BY <1>1, <2>1, <2>3
    <3>2. ~nRow.live
      BY <2>1, <2>3, <3>1
    <3>3. nThr[u].cred \notin nReplaced
      BY <2>1, <3>1 DEF ConnInv, TriedFresh
    <3> QED BY <1>8, <3>1, <3>2, <3>3
  <2> QED BY <2>2, <2>3
<1>10. ClearedFirst'
  BY <1>1 DEF ConnInv, ClearedFirst
<1>11. N!CredentialsFresh'
  <2>1. SUFFICES ASSUME ~nCrossed', \A u \in Requests : ~(nThr'[u].job = "provision" /\ nThr'[u].pc = "clear"),
                        NEW k \in N!Keys, nCache[k] # N!None
                 PROVE  N!Cred(k, nCache[k]) \notin nReplaced'
    BY DEF N!CredentialsFresh, N!At, N!Cached
  <2>2. nThr[t].pc # "commit"
    BY <2>1 DEF ConnInv, ClearedFirst
  <2>3. ~nRow.live /\ nThr[t].pc # "clear"
    BY <1>1, <2>1, <2>2
  <2>4. ~nCrossed /\ \A u \in Requests : ~(nThr[u].job = "provision" /\ nThr[u].pc = "clear")
    BY <1>1, <2>1, <2>3
  <2>5. N!Cred(k, nCache[k]) \notin nReplaced
    BY <2>1, <2>4 DEF ConnInv, N!CredentialsFresh, N!At, N!Cached
  <2> QED BY <1>8, <2>3, <2>5
<1>12. N!TokensAccounted'
  <2>1. SUFFICES ASSUME NEW c \in nMade, nAccepted[c.key] = c.secret,
                        c \notin nLeft', \A u \in Requests : ~(nThr'[u].new = c /\ Saving(nThr'[u]))
                 PROVE  x.live /\ x.token = c
    BY <1>2 DEF N!TokensAccounted, Saving
  <2>2. CASE Saving(nThr[t]) /\ nThr[t].new = c
    BY <2>2
  <2>3. CASE ~(Saving(nThr[t]) /\ nThr[t].new = c)
    <3>1. \A u \in Requests : ~(nThr[u].new = c /\ Saving(nThr[u]))
      BY <1>1, <2>1, <2>3
    <3>2. nRow.live /\ nRow.token = c
      BY <1>2, <2>1, <3>1 DEF ConnInv, N!TokensAccounted, Saving
    <3>3. c.key # N!Password /\ c.secret # N!None
      <4>1. c.key \in N!Names /\ c.secret \in 1..nIssued /\ nIssued \in 1..MaxSecrets
        BY <2>1 DEF ConnInv, ConnTypes, MadeNamed
      <4>2. N!Password \notin N!Names /\ N!None = 0
        BY ConnConstants
      <4> QED BY <4>1, <4>2
    <3>4. c \in HeldBy(nRow)
      BY <3>2, <3>3 DEF HeldBy
    <3>5. c \in HeldBy(x)
      BY <1>2, <2>1, <3>4
    <3>6. c # N!Cred(N!Password, x.password)
      BY <3>3 DEF N!Cred
    <3> QED BY <3>5, <3>6 DEF HeldBy
  <2> QED BY <2>2, <2>3
<1> QED BY <1>4, <1>5, <1>6, <1>7, <1>9, <1>10, <1>11, <1>12 DEF ConnInv

\* What a row says to log in with is in it, or nothing.
LEMMA InRowHeld ==
    ASSUME NEW x \in ServerRows, x.live
    PROVE  N!InRow(x) \in N!Creds /\ (N!InRow(x) \in HeldBy(x) \/ N!InRow(x).secret = N!None)
<1>1. x.token \in N!Creds /\ N!Cred(N!Password, x.password) \in N!Creds
  BY ConnConstants DEF ServerRows
<1>2. N!InRow(x) \in {N!Cred(N!Password, x.password), x.token}
  BY DEF N!InRow
<1> QED BY <1>1, <1>2 DEF HeldBy

LEMMA CommitKept ==
    ASSUME ConnInv, NEW t \in Requests, N!Commit(t)
    PROVE  ConnInv'
<1>1. /\ nThr[t].pc = "commit" /\ UNCHANGED <<nAccepted, nCache, nMade, nIssued, nEvents>>
      /\ nCrossed' = (nCrossed \/ N!Others(t, N!Opening \union {"clear", "commit"}))
  BY DEF N!Commit, N!At
<1>2. nCrossed' \in BOOLEAN /\ (nCrossed => nCrossed') /\ nEvents' \in 0..MaxEvents
  BY <1>1, ConnFacts DEF N!Others
<1>3. ~nCrossed' => \A u \in Requests \ {t} : ~Trying(nThr[u])
  BY <1>1 DEF N!Others, N!Opening, Trying
<1>4. nRow \in ServerRows /\ nThr[t].new \in N!Creds
  BY ConnFacts
<1>5. CASE nThr[t].job = "update" /\ nRow.live
  <2> DEFINE n == nThr[t].new
             x == IF n.key = N!Password THEN [nRow EXCEPT !.password = n.secret] ELSE [nRow EXCEPT !.token = n]
             r == [N!Idle EXCEPT !.pc = "lookup", !.cred = N!InRow(x)]
  <2>1. x \in ServerRows /\ x.live
    BY <1>4, <1>5 DEF ServerRows, N!Creds
  <2>2. N!WriteRow(x) /\ nThr' = [nThr EXCEPT ![t] = [N!Idle EXCEPT !.pc = "lookup", !.cred = N!InRow(nRow')]]
    BY <1>5 DEF N!Commit, N!Set
  <2>3. nRow' = x
    BY <2>2 DEF N!WriteRow
  <2>4. nThr' = [nThr EXCEPT ![t] = r]
    BY <2>2, <2>3
  <2> HIDE DEF x
  <2>5. N!InRow(x) \in N!Creds /\ (N!InRow(x) \in HeldBy(x) \/ N!InRow(x).secret = N!None)
    BY <2>1, InRowHeld
  <2>6. r \in ConnThreads /\ r.job = "use" /\ r.pc = "lookup" /\ r.cred = N!InRow(x)
    BY <2>5, ConnConstants DEF ConnThreads, N!Opening
  <2>7. ~Creating(r) /\ ~Saving(r) /\ Entitled(r) /\ ~Saving(nThr[t])
    BY <1>1, <2>6 DEF Creating, Saving, Entitled
  <2> HIDE DEF r
  <2> QED BY <1>1, <1>2, <1>3, <1>5, <2>1, <2>2, <2>4, <2>5, <2>6, <2>7, WriteMoves
<1>6. CASE ~(nThr[t].job = "update" /\ nRow.live)
  <2> DEFINE x == [nRow EXCEPT !.live = (nThr[t].job = "update") /\ @]
  <2>1. x \in ServerRows /\ ~x.live
    BY <1>4, <1>6 DEF ServerRows
  <2>2. N!WriteRow(x) /\ nThr' = [nThr EXCEPT ![t] = N!Idle]
    BY <1>6 DEF N!Commit, N!Set
  <2>3. ~Creating(N!Idle) /\ ~Saving(N!Idle) /\ Entitled(N!Idle) /\ ~Trying(N!Idle) /\ ~Saving(nThr[t]) /\ N!Idle \in ConnThreads
        /\ N!Idle.pc # "commit"
    BY <1>1, ConnConstants DEF Creating, Saving, Trying, Entitled
  <2> HIDE DEF x
  <2> QED BY <1>1, <1>2, <1>3, <2>1, <2>2, <2>3, WriteMoves
<1> QED BY <1>5, <1>6

LEMMA CreateKept ==
    ASSUME ConnInv, NEW t \in Requests, N!Create(t)
    PROVE  ConnInv'
<1>1. /\ nThr[t].pc = "idle" /\ ~nRow.live /\ \A u \in Requests : ~Creating(nThr[u])
      /\ UNCHANGED <<nAccepted, nCache, nMade, nIssued, nEvents>>
  BY DEF N!Create, N!At, Creating
<1>2. ~Saving(nThr[t])
  BY <1>1 DEF Saving
<1>3. PICK s \in 1..nIssued :
        \/ /\ nThr' = [nThr EXCEPT ![t] = [N!Idle EXCEPT !.pc = "lookup", !.job = "create",
                                                         !.cred = N!Cred(N!Password, s)]]
           /\ nCrossed' = (nCrossed \/ N!Cred(N!Password, s) \in nReplaced)
           /\ UNCHANGED <<nRow, nReplaced, nLeft>>
        \/ /\ N!WriteRow([live |-> TRUE, token_first |-> FALSE, password |-> s, token |-> N!NoCred])
           /\ nThr' = [nThr EXCEPT ![t] = [N!Idle EXCEPT !.pc = "lookup", !.cred = N!Cred(N!Password, s)]]
           /\ UNCHANGED nCrossed
  BY DEF N!Create, N!Set
<1> DEFINE c == N!Cred(N!Password, s)
<1>4. c \in N!Creds /\ c.secret # N!None /\ s \in 0..MaxSecrets
  <2>1. s \in 0..MaxSecrets /\ nIssued \in 1..MaxSecrets
    BY ConnFacts
  <2>2. s # 0
    OBVIOUS
  <2>3. c \in N!Creds
    BY <2>1, ConnConstants
  <2>4. c.secret # N!None
    BY <2>2 DEF N!Cred, N!None
  <2> QED BY <2>1, <2>3, <2>4
<1>5. nCache' \in [N!Keys -> 0..MaxSecrets] /\ nEvents' \in 0..MaxEvents /\ nCrossed \in BOOLEAN
  BY <1>1, ConnFacts
<1>6. CASE /\ nThr' = [nThr EXCEPT ![t] = [N!Idle EXCEPT !.pc = "lookup", !.job = "create", !.cred = c]]
           /\ nCrossed' = (nCrossed \/ c \in nReplaced)
           /\ UNCHANGED <<nRow, nReplaced, nLeft>>
  <2> DEFINE r == [N!Idle EXCEPT !.pc = "lookup", !.job = "create", !.cred = c]
  <2>1. r \in ConnThreads /\ r.pc = "lookup" /\ r.cred = c
    BY <1>4, ConnConstants DEF ConnThreads, N!Opening, N!Jobs
  <2>2. nThr' = [nThr EXCEPT ![t] = r]
    BY <1>6
  <2>3. ~Saving(r) /\ Entitled(r)
    BY <2>1 DEF Saving, Entitled
  <2> HIDE DEF r, c
  <2> QED BY <1>1, <1>2, <1>5, <1>6, <2>1, <2>2, <2>3, ThreadMoves
<1>7. CASE /\ N!WriteRow([live |-> TRUE, token_first |-> FALSE, password |-> s, token |-> N!NoCred])
           /\ nThr' = [nThr EXCEPT ![t] = [N!Idle EXCEPT !.pc = "lookup", !.cred = c]]
           /\ UNCHANGED nCrossed
  <2> DEFINE x == [live |-> TRUE, token_first |-> FALSE, password |-> s, token |-> N!NoCred]
             r == [N!Idle EXCEPT !.pc = "lookup", !.cred = c]
  <2>1. x \in ServerRows /\ x.live /\ c \in HeldBy(x)
    BY <1>4, ConnConstants DEF ServerRows, HeldBy
  <2>2. r \in ConnThreads /\ r.job = "use" /\ r.pc = "lookup" /\ r.cred = c
    BY <1>4, ConnConstants DEF ConnThreads, N!Opening
  <2>3. N!WriteRow(x) /\ nThr' = [nThr EXCEPT ![t] = r]
    BY <1>7
  <2>4. ~Creating(r) /\ ~Saving(r) /\ Entitled(r)
    BY <2>2 DEF Creating, Saving, Entitled
  <2> HIDE DEF x, r, c
  <2> QED BY <1>1, <1>2, <1>5, <1>7, <2>1, <2>2, <2>3, <2>4, WriteMoves
<1> QED BY <1>3, <1>6, <1>7

LEMMA SaveKept ==
    ASSUME ConnInv, NEW t \in Requests, N!Save(t)
    PROVE  ConnInv'
<1>1. /\ nThr[t].pc = "save" /\ UNCHANGED <<nAccepted, nCache, nMade, nIssued, nEvents>>
      /\ nCrossed' = (nCrossed \/ N!Others(t, N!Opening \union {"clear", "commit"}))
  BY DEF N!Save, N!At
<1>2. nCrossed' \in BOOLEAN /\ (nCrossed => nCrossed') /\ nEvents' \in 0..MaxEvents
  BY <1>1, ConnFacts DEF N!Others
<1>3. ~nCrossed' => \A u \in Requests \ {t} : ~Trying(nThr[u])
  BY <1>1 DEF N!Others, N!Opening, Trying
<1>4. nRow \in ServerRows /\ nThr[t] \in ConnThreads /\ nThr[t].new \in N!Creds /\ nThr[t].cred.secret \in 0..MaxSecrets
  BY ConnFacts DEF N!Creds
<1>5. CASE nThr[t].job = "create"
  <2> DEFINE x == [live |-> TRUE, token_first |-> TRUE, password |-> nThr[t].cred.secret, token |-> nThr[t].new]
             r == [N!Idle EXCEPT !.pc = "lookup", !.cred = nThr[t].new]
  <2>1. x \in ServerRows /\ x.live /\ x.token = nThr[t].new
    BY <1>4 DEF ServerRows
  <2>2. r \in ConnThreads /\ r.job = "use" /\ r.pc = "lookup" /\ r.cred = x.token
    BY <1>4, ConnConstants DEF ConnThreads, N!Opening
  <2>3. N!WriteRow(x) /\ nThr' = [nThr EXCEPT ![t] = r]
    BY <1>5 DEF N!Save, N!Set
  <2>4. ~nRow.live /\ \A u \in Requests \ {t} : ~Creating(nThr[u])
    BY <1>5 DEF ConnInv, OneCreates, Creating
  <2>5. ~Creating(r) /\ ~Saving(r) /\ Entitled(r) /\ nThr[t].pc # "clear"
    BY <1>1, <2>2 DEF Creating, Saving, Entitled
  <2>6. r.cred \in HeldBy(x) \/ r.cred.secret = N!None
    BY <2>1, <2>2 DEF HeldBy
  <2> HIDE DEF x, r
  <2> QED BY <1>1, <1>2, <2>1, <2>2, <2>3, <2>4, <2>5, <2>6, WriteMoves
<1>6. CASE nThr[t].job # "create"
  <2> DEFINE x == [nRow EXCEPT !.token_first = TRUE, !.token = nThr[t].new]
             r == [nThr[t] EXCEPT !.pc = "clear"]
  <2>1. nRow.live /\ N!WriteRow(x) /\ nThr' = [nThr EXCEPT ![t] = r]
    BY <1>6 DEF N!Save, N!GoTo, N!Set
  <2>2. x \in ServerRows /\ x.live /\ x.token = nThr[t].new
    BY <1>4, <2>1 DEF ServerRows
  <2>3. r \in ConnThreads /\ r.job = nThr[t].job /\ r.pc = "clear"
    BY <1>4 DEF ConnThreads
  <2>4. nThr[t].job = "provision"
    BY <1>1, <1>6 DEF ConnInv, OneCreates, Entitled
  <2>5. ~Creating(r) /\ ~Saving(r) /\ Entitled(r) /\ ~Trying(r)
    BY <1>6, <2>3 DEF Creating, Saving, Trying, Entitled
  <2> HIDE DEF x, r
  <2> QED BY <1>1, <1>2, <1>3, <2>1, <2>2, <2>3, <2>4, <2>5, WriteMoves
<1> QED BY <1>5, <1>6

-----------------------------------------------------------------------------
\* What Proxmox accepts, and what the panel lets go of, changes only for tokens
\* that stay accounted for.
LEMMA SecretsMove ==
    ASSUME ConnInv, UNCHANGED <<nRow, nReplaced, nCrossed>>, nCache' = nCache,
           nAccepted' \in [N!Keys -> 0..MaxSecrets], nIssued' \in 1..MaxSecrets, nIssued' >= nIssued,
           nEvents' \in 0..MaxEvents, nThr' \in [Requests -> ConnThreads],
           nMade \subseteq nMade', nMade' \subseteq N!Creds, nLeft \subseteq nLeft', nLeft' \subseteq nMade',
           \A c \in nMade' \ nMade : c.key \in N!Names /\ c.secret \in 1..nIssued',
           \A t \in Requests :
              /\ Saving(nThr'[t]) => nThr'[t].new \in nMade'
              /\ Creating(nThr'[t]) => Creating(nThr[t])
              /\ Entitled(nThr'[t])
              /\ Trying(nThr'[t]) \/ nThr'[t].pc \in {"commit", "clear"} => nThr'[t] = nThr[t]
              /\ nThr'[t].pc # "clear" => nThr[t].pc # "clear",
           \A c \in nMade' : nAccepted'[c.key] = c.secret =>
              \/ /\ c \in nMade /\ nAccepted[c.key] = c.secret
                 /\ \A t \in Requests : nThr[t].new = c /\ Saving(nThr[t])
                       => (nThr'[t].new = c /\ Saving(nThr'[t])) \/ c \in nLeft'
              \/ \E t \in Requests : nThr'[t].new = c /\ Saving(nThr'[t])
    PROVE  ConnInv'
<1>1. ConnTypes'
  BY DEF ConnInv, ConnTypes
<1>2. ReplacedApart'
  BY DEF ConnInv, ReplacedApart, HeldBy
<1>3. MadeNamed'
  <2>1. \A c \in nMade' : c.key \in N!Names /\ c.secret \in 1..nIssued'
    <3>1. \A c \in nMade : c.key \in N!Names /\ c.secret \in 1..nIssued
      BY DEF ConnInv, MadeNamed
    <3>2. nIssued \in Nat /\ nIssued' \in Nat /\ 1..nIssued \subseteq 1..nIssued'
      <4>1. nIssued \in 1..MaxSecrets /\ MaxSecrets \in Nat
        BY ConnConstants DEF ConnInv, ConnTypes
      <4> QED BY <4>1
    <3> QED BY <3>1, <3>2
  <2> QED BY <2>1 DEF MadeNamed
<1>4. OneCreates'
  BY DEF ConnInv, OneCreates
<1>5. TriedFresh' /\ ClearedFirst'
  BY DEF ConnInv, TriedFresh, ClearedFirst
<1>6. N!CredentialsFresh'
  BY DEF ConnInv, N!CredentialsFresh, N!At, N!Cached
<1>7. N!TokensAccounted'
  <2>1. SUFFICES ASSUME NEW c \in nMade', nAccepted'[c.key] = c.secret,
                        c \notin nLeft', \A u \in Requests : ~(nThr'[u].new = c /\ Saving(nThr'[u]))
                 PROVE  nRow.live /\ nRow.token = c
    BY DEF N!TokensAccounted, Saving
  <2>2. c \in nMade /\ nAccepted[c.key] = c.secret /\ c \notin nLeft
        /\ \A u \in Requests : ~(nThr[u].new = c /\ Saving(nThr[u]))
    BY <2>1
  <2> QED BY <2>2 DEF ConnInv, N!TokensAccounted, Saving
<1> QED BY <1>1, <1>2, <1>3, <1>4, <1>5, <1>6, <1>7 DEF ConnInv

LEMMA IssueKept ==
    ASSUME ConnInv, NEW t \in Requests, N!Issue(t)
    PROVE  ConnInv'
<1>1. nThr[t].pc = "issue" /\ UNCHANGED <<nRow, nCache, nReplaced, nLeft, nCrossed, nEvents>>
  BY DEF N!Issue, N!At
<1>2. CASE N!Set(t, N!Idle) /\ UNCHANGED <<nIssued, nAccepted, nMade>>
  <2>1. nThr' = [nThr EXCEPT ![t] = N!Idle]
    BY <1>2 DEF N!Set
  <2>2. ~Creating(N!Idle) /\ ~Saving(N!Idle) /\ ~Saving(nThr[t]) /\ ~Trying(N!Idle) /\ Entitled(N!Idle)
    BY <1>1, ConnConstants DEF Creating, Saving, Trying, Entitled
  <2> QED BY <1>1, <1>2, <2>1, <2>2, ConnConstants, ConnFacts, ThreadMoves
<1>3. CASE ~(N!Set(t, N!Idle) /\ UNCHANGED <<nIssued, nAccepted, nMade>>)
  <2>1. PICK n \in N!Names :
          /\ nIssued < MaxSecrets /\ nIssued' = nIssued + 1
          /\ nAccepted' = [nAccepted EXCEPT ![n] = nIssued + 1]
          /\ nMade' = nMade \union {N!Cred(n, nIssued + 1)}
          /\ nThr' = [nThr EXCEPT ![t] = [nThr[t] EXCEPT !.pc = "save", !.new = N!Cred(n, nIssued + 1)]]
    BY <1>3 DEF N!Issue, N!Set
  <2> DEFINE c == N!Cred(n, nIssued + 1)
             r == [nThr[t] EXCEPT !.pc = "save", !.new = c]
  <2>2. nIssued \in 1..MaxSecrets /\ MaxSecrets \in Nat /\ n \in N!Keys
    BY ConnConstants, ConnFacts
  <2>3. nIssued' \in 1..MaxSecrets /\ nIssued' > nIssued /\ nIssued + 1 \in 0..MaxSecrets /\ nIssued + 1 \in 1..nIssued'
    BY <2>1, <2>2
  <2>4. c \in N!Creds /\ c.key = n /\ c.secret = nIssued + 1
    BY <2>2, <2>3, ConnConstants DEF N!Cred
  <2>5. r \in ConnThreads /\ r.pc = "save" /\ r.new = c /\ r.job = nThr[t].job
    BY <2>4, ConnFacts DEF ConnThreads
  <2>6. nThr'[t] = r /\ \A u \in Requests \ {t} : nThr'[u] = nThr[u]
    BY <2>1, Elsewhere DEF ConnInv
  <2>7. Entitled(r)
    BY <1>1, <2>5 DEF ConnInv, OneCreates, Entitled
  <2>8. nThr' \in [Requests -> ConnThreads] /\ nAccepted' \in [N!Keys -> 0..MaxSecrets]
    BY <2>1, <2>2, <2>3, <2>5, ConnFacts DEF ConnInv, ConnTypes
  <2>9. nMade \subseteq nMade' /\ nMade' \subseteq N!Creds /\ nLeft' \subseteq nMade' /\ nMade' \ nMade \subseteq {c}
    BY <1>1, <2>1, <2>4 DEF ConnInv, ConnTypes
  <2>10. nEvents' \in 0..MaxEvents
    BY <1>1, ConnFacts
  <2>11. \A d \in nMade' : nAccepted'[d.key] = d.secret =>
            \/ /\ d \in nMade /\ nAccepted[d.key] = d.secret
               /\ \A u \in Requests : nThr[u].new = d /\ Saving(nThr[u])
                       => (nThr'[u].new = d /\ Saving(nThr'[u])) \/ d \in nLeft'
            \/ \E u \in Requests : nThr'[u].new = d /\ Saving(nThr'[u])
    <3>1. TAKE d \in nMade'
    <3>2. CASE d = c
      BY <2>5, <2>6, <3>2 DEF Saving
    <3>3. CASE d # c
      <4>1. d \in nMade /\ d.key \in N!Keys /\ d.secret \in 1..nIssued
        BY <2>9, <3>1, <3>3, ConnConstants DEF ConnInv, MadeNamed
      <4>2. d.secret # nIssued + 1
        BY <2>2, <4>1
      <4>3. nAccepted'[d.key] = d.secret => nAccepted[d.key] = d.secret
        BY <2>1, <4>1, <4>2, ConnFacts
      <4>4. \A u \in Requests : nThr[u].new = d /\ Saving(nThr[u]) => nThr'[u].new = d /\ Saving(nThr'[u])
        BY <1>1, <2>6 DEF Saving
      <4> QED BY <4>1, <4>3, <4>4
    <3> QED BY <3>2, <3>3
  <2>12. \A u \in Requests :
            /\ Saving(nThr'[u]) => nThr'[u].new \in nMade'
            /\ Creating(nThr'[u]) => Creating(nThr[u])
            /\ Entitled(nThr'[u])
            /\ Trying(nThr'[u]) \/ nThr'[u].pc \in {"commit", "clear"} => nThr'[u] = nThr[u]
            /\ nThr'[u].pc # "clear" => nThr[u].pc # "clear"
    <3>1. c \in nMade'
      BY <2>1
    <3> HIDE DEF r, c
    <3> QED BY <1>1, <2>5, <2>6, <2>7, <2>9, <3>1 DEF ConnInv, MadeNamed, OneCreates, Creating, Saving, Trying
  <2>13. \A d \in nMade' \ nMade : d.key \in N!Names /\ d.secret \in 1..nIssued'
    BY <2>3, <2>4, <2>9
  <2>14. nIssued' >= nIssued /\ nLeft \subseteq nLeft'
    BY <1>1, <2>1, <2>2
  <2> HIDE DEF r, c
  <2> QED BY <1>1, <2>3, <2>8, <2>9, <2>10, <2>11, <2>12, <2>13, <2>14, SecretsMove
<1> QED BY <1>2, <1>3

LEMMA RevokeKept ==
    ASSUME ConnInv, NEW t \in Requests, N!Revoke(t)
    PROVE  ConnInv'
<1> DEFINE n == nThr[t].new
<1>1. /\ nThr[t].pc = "revoke" /\ nThr' = [nThr EXCEPT ![t] = N!Idle]
      /\ UNCHANGED <<nRow, nCache, nReplaced, nMade, nCrossed, nIssued, nEvents>>
  BY DEF N!Revoke, N!At, N!Set
<1>2. \/ nAccepted' = [nAccepted EXCEPT ![n.key] = N!None] /\ UNCHANGED nLeft
      \/ nLeft' = nLeft \union {n} /\ UNCHANGED nAccepted
  BY DEF N!Revoke
<1>3. nThr'[t] = N!Idle /\ \A u \in Requests \ {t} : nThr'[u] = nThr[u]
  BY <1>1, Elsewhere DEF ConnInv
<1>4. n \in nMade /\ n \in N!Creds /\ n.key \in N!Keys
  <2>1. n \in nMade
    BY <1>1 DEF ConnInv, MadeNamed, Saving
  <2>2. n \in N!Creds
    BY ConnFacts
  <2> QED BY <2>1, <2>2 DEF N!Creds
<1>5. nMade \subseteq nMade' /\ nMade' \subseteq N!Creds /\ nLeft \subseteq nLeft' /\ nLeft' \subseteq nMade'
  BY <1>1, <1>2, <1>4 DEF ConnInv, ConnTypes
<1>6. N!None = 0 /\ MaxSecrets \in Nat /\ N!None \in 0..MaxSecrets
  <2>1. N!None = 0 /\ MaxSecrets \in Nat
    BY ConnConstants
  <2> QED BY <2>1
<1>7. nThr' \in [Requests -> ConnThreads] /\ nAccepted' \in [N!Keys -> 0..MaxSecrets]
  <2>1. nThr' \in [Requests -> ConnThreads]
    BY <1>1, ConnConstants DEF ConnInv, ConnTypes
  <2>2. nAccepted' \in [N!Keys -> 0..MaxSecrets]
    BY <1>2, <1>6, ConnFacts
  <2> QED BY <2>1, <2>2
<1>8. \A d \in nMade' : nAccepted'[d.key] = d.secret =>
            \/ /\ d \in nMade /\ nAccepted[d.key] = d.secret
               /\ \A u \in Requests : nThr[u].new = d /\ Saving(nThr[u])
                       => (nThr'[u].new = d /\ Saving(nThr'[u])) \/ d \in nLeft'
            \/ \E u \in Requests : nThr'[u].new = d /\ Saving(nThr'[u])
  <2>1. SUFFICES ASSUME NEW d \in nMade, nAccepted'[d.key] = d.secret
                 PROVE  /\ nAccepted[d.key] = d.secret
                        /\ \A u \in Requests : nThr[u].new = d /\ Saving(nThr[u])
                              => (nThr'[u].new = d /\ Saving(nThr'[u])) \/ d \in nLeft'
    BY <1>1
  <2>2. d.key \in N!Keys /\ d.secret \in 1..nIssued /\ nIssued \in 1..MaxSecrets
    BY ConnConstants, ConnFacts DEF ConnInv, MadeNamed
  <2>3. d.secret # N!None
    BY <1>6, <2>2
  <2>4. CASE nAccepted' = [nAccepted EXCEPT ![n.key] = N!None] /\ UNCHANGED nLeft
    <3>1. d.key # n.key
      BY <1>4, <2>1, <2>3, <2>4, ConnFacts
    <3>2. nAccepted[d.key] = d.secret
      BY <2>1, <2>2, <2>4, <3>1, ConnFacts
    <3> QED BY <1>3, <3>1, <3>2
  <2>5. CASE nLeft' = nLeft \union {n} /\ UNCHANGED nAccepted
    BY <1>3, <2>1, <2>5
  <2> QED BY <1>2, <2>4, <2>5
<1>9. \A u \in Requests :
            /\ Saving(nThr'[u]) => nThr'[u].new \in nMade'
            /\ Creating(nThr'[u]) => Creating(nThr[u])
            /\ Entitled(nThr'[u])
            /\ Trying(nThr'[u]) \/ nThr'[u].pc \in {"commit", "clear"} => nThr'[u] = nThr[u]
            /\ nThr'[u].pc # "clear" => nThr[u].pc # "clear"
  <2>1. ~Creating(N!Idle) /\ ~Saving(N!Idle) /\ ~Trying(N!Idle) /\ Entitled(N!Idle) /\ N!Idle.pc = "idle"
    BY ConnConstants DEF Creating, Saving, Trying, Entitled
  <2> QED BY <1>1, <1>3, <2>1 DEF ConnInv, MadeNamed, OneCreates
<1>10. nEvents' \in 0..MaxEvents /\ nIssued' \in 1..MaxSecrets /\ nIssued' >= nIssued
  BY <1>1, <1>6, ConnFacts
<1> HIDE DEF n
<1> QED BY <1>1, <1>5, <1>7, <1>8, <1>9, <1>10, SecretsMove

LEMMA OutsideKept == ASSUME ConnInv, N!Outside PROVE ConnInv'
<1>1. nEvents' \in 0..MaxEvents
  BY EventTypes DEF N!Outside
<1>2. UNCHANGED <<nRow, nCache, nThr, nReplaced, nMade, nLeft, nCrossed>>
  BY DEF N!Outside
<1>3. ConnTypes /\ nIssued \in 1..MaxSecrets /\ MaxSecrets \in Nat /\ N!None = 0 /\ N!Names \subseteq N!Keys
  BY ConnConstants DEF ConnInv, ConnTypes
<1>4. PICK k \in N!Keys :
        \/ nIssued < MaxSecrets /\ nIssued' = nIssued + 1 /\ nAccepted' = [nAccepted EXCEPT ![k] = nIssued + 1]
        \/ nAccepted' = [nAccepted EXCEPT ![k] = N!None] /\ UNCHANGED nIssued
  BY <1>3 DEF N!Outside
<1>5. nIssued' \in 1..MaxSecrets /\ nIssued' >= nIssued /\ nAccepted' \in [N!Keys -> 0..MaxSecrets]
  <2>1. CASE nIssued < MaxSecrets /\ nIssued' = nIssued + 1 /\ nAccepted' = [nAccepted EXCEPT ![k] = nIssued + 1]
    <3>1. nIssued' \in 1..MaxSecrets /\ nIssued' >= nIssued /\ nIssued + 1 \in 0..MaxSecrets
      BY <1>3, <2>1
    <3> QED BY <1>3, <2>1, <3>1 DEF ConnTypes
  <2>2. CASE nAccepted' = [nAccepted EXCEPT ![k] = N!None] /\ UNCHANGED nIssued
    <3>1. nIssued' \in 1..MaxSecrets /\ nIssued' >= nIssued /\ N!None \in 0..MaxSecrets
      BY <1>3, <2>2
    <3> QED BY <1>3, <2>2, <3>1 DEF ConnTypes
  <2> QED BY <1>4, <2>1, <2>2
<1>6. \A d \in nMade' : nAccepted'[d.key] = d.secret => d \in nMade /\ nAccepted[d.key] = d.secret
  <2>1. SUFFICES ASSUME NEW d \in nMade, nAccepted'[d.key] = d.secret PROVE nAccepted[d.key] = d.secret
    BY <1>2
  <2>2. d.key \in N!Keys /\ d.secret \in 1..nIssued
    BY <1>3 DEF ConnInv, MadeNamed
  <2>3. d.secret # nIssued + 1 /\ d.secret # N!None
    BY <1>3, <2>2
  <2> QED BY <1>3, <1>4, <2>1, <2>2, <2>3 DEF ConnTypes
<1>7. \A u \in Requests : /\ Saving(nThr[u]) => nThr[u].new \in nMade
                          /\ Entitled(nThr[u])
  BY DEF ConnInv, MadeNamed, OneCreates
<1>8. nMade' = nMade /\ nMade \subseteq N!Creds /\ nLeft' = nLeft /\ nLeft \subseteq nMade
      /\ nThr' = nThr /\ nThr \in [Requests -> ConnThreads]
  BY <1>2, <1>3 DEF ConnTypes
<1>9. \A u \in Requests :
            /\ Saving(nThr'[u]) => nThr'[u].new \in nMade'
            /\ Creating(nThr'[u]) => Creating(nThr[u])
            /\ Entitled(nThr'[u])
            /\ Trying(nThr'[u]) \/ nThr'[u].pc \in {"commit", "clear"} => nThr'[u] = nThr[u]
            /\ nThr'[u].pc # "clear" => nThr[u].pc # "clear"
  BY <1>7, <1>8
<1>10. \A d \in nMade' : nAccepted'[d.key] = d.secret =>
            \/ /\ d \in nMade /\ nAccepted[d.key] = d.secret
               /\ \A u \in Requests : nThr[u].new = d /\ Saving(nThr[u])
                       => (nThr'[u].new = d /\ Saving(nThr'[u])) \/ d \in nLeft'
            \/ \E u \in Requests : nThr'[u].new = d /\ Saving(nThr'[u])
  BY <1>6, <1>8
<1> QED BY <1>1, <1>2, <1>5, <1>8, <1>9, <1>10, SecretsMove

LEMMA CrashKept == ASSUME ConnInv, N!Crash PROVE ConnInv'
<1>1. /\ nCache' = [k \in N!Keys |-> N!None] /\ nThr' = [t \in Requests |-> N!Idle]
      /\ nLeft' = nLeft \union {nThr[t].new : t \in {u \in Requests : Saving(nThr[u])}}
      /\ UNCHANGED <<nAccepted, nRow, nReplaced, nMade, nCrossed, nIssued>>
  BY DEF N!Crash, Saving
<1>2. nEvents' \in 0..MaxEvents
  BY EventTypes DEF N!Crash
<1>3. N!Idle \in ConnThreads /\ ~Creating(N!Idle) /\ ~Saving(N!Idle) /\ ~Trying(N!Idle) /\ Entitled(N!Idle)
      /\ N!Idle.pc = "idle"
  BY ConnConstants DEF Creating, Saving, Trying, Entitled
<1>4. ConnTypes'
  <2>1. nCache' \in [N!Keys -> 0..MaxSecrets]
    <3>1. N!None \in 0..MaxSecrets
      <4>1. N!None = 0 /\ MaxSecrets \in Nat
        BY ConnConstants
      <4> QED BY <4>1
    <3> QED BY <1>1, <3>1
  <2>2. nThr' \in [Requests -> ConnThreads]
    BY <1>1, <1>3
  <2>3. nLeft' \subseteq nMade
    BY <1>1 DEF ConnInv, ConnTypes, MadeNamed
  <2> QED BY <1>1, <1>2, <2>1, <2>2, <2>3 DEF ConnInv, ConnTypes
<1>5. ReplacedApart' /\ MadeNamed' /\ OneCreates' /\ TriedFresh' /\ ClearedFirst'
  <2>1. ReplacedApart'
    BY <1>1 DEF ConnInv, ReplacedApart, HeldBy
  <2>2. MadeNamed' /\ OneCreates' /\ TriedFresh'
    BY <1>1, <1>3 DEF ConnInv, MadeNamed, OneCreates, TriedFresh
  <2>3. ClearedFirst'
    BY <1>1 DEF ClearedFirst
  <2> QED BY <2>1, <2>2, <2>3
<1>6. N!CredentialsFresh'
  BY <1>1 DEF N!CredentialsFresh, N!Cached
<1>7. N!TokensAccounted'
  <2>1. SUFFICES ASSUME NEW c \in nMade, nAccepted[c.key] = c.secret, c \notin nLeft'
                 PROVE  nRow.live /\ nRow.token = c
    BY <1>1 DEF N!TokensAccounted
  <2>2. c \notin nLeft /\ \A u \in Requests : ~(nThr[u].new = c /\ Saving(nThr[u]))
    BY <1>1, <2>1
  <2> QED BY <2>1, <2>2 DEF ConnInv, N!TokensAccounted, Saving
<1> QED BY <1>4, <1>5, <1>6, <1>7 DEF ConnInv

-----------------------------------------------------------------------------
LEMMA ConnKept == ConnInv /\ [N!Next]_(N!vars) => ConnInv'
<1> SUFFICES ASSUME ConnInv, [N!Next]_(N!vars) PROVE ConnInv'
  OBVIOUS
<1>1. CASE UNCHANGED N!vars
  <2>1. UNCHANGED <<nAccepted, nRow, nCache, nThr, nReplaced, nMade, nLeft, nCrossed, nIssued, nEvents>>
    BY <1>1 DEF N!vars
  <2>2. ConnTypes' /\ ReplacedApart' /\ MadeNamed' /\ OneCreates' /\ TriedFresh' /\ ClearedFirst'
    BY <2>1 DEF ConnInv, ConnTypes, ReplacedApart, HeldBy, MadeNamed, OneCreates, TriedFresh, ClearedFirst
  <2>3. N!CredentialsFresh' /\ N!TokensAccounted'
    BY <2>1 DEF ConnInv, N!CredentialsFresh, N!TokensAccounted, N!Cached, N!At
  <2> QED BY <2>2, <2>3 DEF ConnInv
<1>2. ASSUME NEW t \in Requests,
             \/ N!Use(t) \/ N!TestCredentials(t) \/ N!Lookup(t) \/ N!Connect(t) \/ N!Store(t) \/ N!Opened(t)
             \/ N!Update(t) \/ N!SwitchUse(t) \/ N!Remove(t) \/ N!Clear(t) \/ N!Commit(t)
             \/ N!Provision(t) \/ N!Create(t) \/ N!Issue(t) \/ N!Save(t) \/ N!SaveFails(t) \/ N!Revoke(t)
      PROVE  ConnInv'
  BY <1>2, OpeningKept, StoreKept, BeginKept, ClearKept, CommitKept, CreateKept, IssueKept, SaveKept, RevokeKept
<1> QED BY <1>1, <1>2, ExpireKept, OutsideKept, CrashKept DEF N!Next

LEMMA OneMore ==
    ASSUME NEW X, IsFiniteSet(X), NEW x
    PROVE  IsFiniteSet(X \union {x}) /\ Cardinality(X \union {x}) <= Cardinality(X) + 1
<1>1. Cardinality(X) \in Nat
  BY FS_CardinalityType
<1>2. IsFiniteSet(X \union {x}) /\ Cardinality(X \union {x}) \in {Cardinality(X), Cardinality(X) + 1}
  BY FS_AddElement, Zenon
<1> QED BY <1>1, <1>2

\* The cache makes room before it takes one more connection than it may have.
LEMMA CacheBounded ==
    ConnInv /\ Cardinality(N!Cached) <= CacheSize /\ [N!Next]_(N!vars) => Cardinality(N!Cached)' <= CacheSize
<1> SUFFICES ASSUME ConnInv, Cardinality(N!Cached) <= CacheSize, [N!Next]_(N!vars)
             PROVE  Cardinality(N!Cached)' <= CacheSize
  OBVIOUS
<1>1. /\ IsFiniteSet(N!Cached) /\ Cardinality(N!Cached) \in Nat /\ CacheSize \in Nat
      /\ nCache \in [N!Keys -> 0..MaxSecrets] /\ nThr \in [Requests -> ConnThreads]
  <2>1. N!Keys = 0..TokenNames
    BY PanelAssumption DEF N!Keys, N!Password, N!Names
  <2>2. IsFiniteSet(N!Keys)
    BY <2>1, PanelAssumption, FS_Interval
  <2>3. N!Cached \in SUBSET N!Keys
    BY DEF N!Cached
  <2>4. IsFiniteSet(N!Cached)
    BY <2>2, <2>3, FS_Subset
  <2> QED BY <2>4, FS_CardinalityType, ConnConstants DEF ConnInv, ConnTypes
<1>2. CASE \A k \in N!Keys : nCache'[k] \in {nCache[k], N!None}
  <2>1. N!Cached' \in SUBSET N!Cached
    BY <1>2 DEF N!Cached
  <2> HIDE DEF N!Cached
  <2>2. Cardinality(N!Cached') <= Cardinality(N!Cached) /\ Cardinality(N!Cached') \in Nat
    BY <1>1, <2>1, FS_Subset, FS_CardinalityType
  <2> QED BY <1>1, <2>2
<1>3. ASSUME NEW t \in Requests, N!Store(t) PROVE Cardinality(N!Cached)' <= CacheSize
  <2> DEFINE c == nThr[t].cred
             With(k) == [nCache EXCEPT ![k] = N!None, ![c.key] = c.secret]
  <2>1. c.key \in N!Keys
    BY <1>1 DEF ConnThreads, N!Creds
  <2>2. CASE Cardinality(N!Cached) < CacheSize /\ nCache' = With(c.key)
    <3>1. N!Cached' \in SUBSET (N!Cached \union {c.key})
      BY <1>1, <2>1, <2>2 DEF N!Cached
    <3> HIDE DEF N!Cached
    <3>2. IsFiniteSet(N!Cached \union {c.key}) /\ Cardinality(N!Cached \union {c.key}) <= Cardinality(N!Cached) + 1
      BY <1>1, OneMore
    <3>3. /\ Cardinality(N!Cached') <= Cardinality(N!Cached \union {c.key})
          /\ Cardinality(N!Cached') \in Nat /\ Cardinality(N!Cached \union {c.key}) \in Nat
      BY <3>1, <3>2, FS_Subset, FS_CardinalityType
    <3> QED BY <1>1, <2>2, <3>2, <3>3
  <2>3. ASSUME NEW k \in N!Cached, nCache' = With(k) PROVE Cardinality(N!Cached)' <= CacheSize
    <3> DEFINE others == N!Cached \ {k}
    <3>1. N!Cached' \in SUBSET (others \union {c.key})
      BY <1>1, <2>1, <2>3 DEF N!Cached
    <3> HIDE DEF N!Cached
    <3>2. IsFiniteSet(others) /\ Cardinality(others) = Cardinality(N!Cached) - 1
      BY <1>1, <2>3, FS_RemoveElement
    <3> HIDE DEF others
    <3>3. IsFiniteSet(others \union {c.key}) /\ Cardinality(others \union {c.key}) <= Cardinality(others) + 1
      BY <1>1, <3>2, OneMore
    <3>4. /\ Cardinality(N!Cached') <= Cardinality(others \union {c.key})
          /\ Cardinality(N!Cached') \in Nat /\ Cardinality(others \union {c.key}) \in Nat
      BY <3>1, <3>3, FS_Subset, FS_CardinalityType
    <3> QED BY <1>1, <3>2, <3>3, <3>4
  <2>4. (Cardinality(N!Cached) < CacheSize /\ nCache' = With(c.key)) \/ \E k \in N!Cached : nCache' = With(k)
    <3>1. N!Cardinality(N!Cached) = Cardinality(N!Cached)
      BY DEF N!Cardinality, Cardinality
    <3> QED BY <1>3, <3>1 DEF N!Store
  <2> HIDE DEF With, c
  <2> QED BY <2>2, <2>3, <2>4
<1>4. ASSUME NEW t \in Requests,
             \/ N!Use(t) \/ N!TestCredentials(t) \/ N!Lookup(t) \/ N!Opened(t) \/ N!Update(t) \/ N!SwitchUse(t)
             \/ N!Remove(t) \/ N!Commit(t) \/ N!Provision(t) \/ N!Create(t) \/ N!Issue(t) \/ N!Save(t)
             \/ N!SaveFails(t) \/ N!Revoke(t)
      PROVE  Cardinality(N!Cached)' <= CacheSize
  <2>1. UNCHANGED nCache
    BY <1>4 DEF N!Use, N!TestCredentials, N!Lookup, N!Opened, N!Update, N!SwitchUse, N!Remove, N!Commit, N!Provision,
                N!Create, N!Issue, N!Save, N!SaveFails, N!Revoke
  <2> QED BY <1>2, <2>1
<1>5. ASSUME NEW t \in Requests, N!Connect(t) \/ N!Clear(t) PROVE Cardinality(N!Cached)' <= CacheSize
  BY <1>1, <1>2, <1>5 DEF N!Connect, N!Clear
<1>6. ASSUME NEW k \in N!Keys, N!Expire(k) PROVE Cardinality(N!Cached)' <= CacheSize
  BY <1>1, <1>2, <1>6 DEF N!Expire
<1>7. CASE N!Outside \/ N!Crash \/ UNCHANGED N!vars
  BY <1>1, <1>2, <1>7 DEF N!Outside, N!Crash, N!vars
<1> QED BY <1>3, <1>4, <1>5, <1>6, <1>7 DEF N!Next

LEMMA ConnectionTypes == ConnInv /\ Cardinality(N!Cached) <= CacheSize => N!TypeOK
<1> SUFFICES ASSUME ConnInv, Cardinality(N!Cached) <= CacheSize PROVE N!TypeOK
  OBVIOUS
<1>1. nAccepted \in [N!Keys -> 0..MaxSecrets] /\ nCache \in [N!Keys -> 0..MaxSecrets]
  BY DEF ConnInv, ConnTypes
<1>2. nRow \in [live : BOOLEAN, token_first : BOOLEAN, password : 0..MaxSecrets, token : N!Creds]
  BY DEF ConnInv, ConnTypes, ServerRows
<1>3. nThr \in [Requests -> [pc : N!Opening \union {"idle", "clear", "commit", "issue", "save", "revoke"},
                            job : N!Jobs, cred : N!Creds, new : N!Creds]]
  BY DEF ConnInv, ConnTypes, ConnThreads
<1>4. /\ nReplaced \subseteq N!Creds /\ nMade \subseteq N!Creds /\ nLeft \subseteq nMade
      /\ nCrossed \in BOOLEAN /\ nIssued \in 1..MaxSecrets /\ nEvents \in 0..MaxEvents
  BY DEF ConnInv, ConnTypes
<1>5. N!Cardinality(N!Cached) = Cardinality(N!Cached)
  BY DEF N!Cardinality, Cardinality
<1> QED BY <1>1, <1>2, <1>3, <1>4, <1>5 DEF N!TypeOK

\* A replaced secret is not what Proxmox is asked with, and a token the panel
\* had issued is not forgotten, for any number of threads, names of tokens and
\* secrets, and with any cache.
THEOREM CredentialsHold == Spec => []CredentialsTrue
<1> DEFINE Inv == part = "connections" => ConnInv
<1>1. Init => Inv
  BY ConnInit DEF Init
<1>2. Inv /\ [Next]_vars => Inv'
  <2> SUFFICES ASSUME Inv, [Next]_vars, part' = "connections" PROVE ConnInv'
    OBVIOUS
  <2>1. part = "connections" /\ [N!Next]_(N!vars)
    BY EachItsOwn
  <2> QED BY <2>1, ConnKept
<1>3. Inv => CredentialsTrue
  BY DEF CredentialsTrue, ConnInv
<1>4. QED
  BY <1>1, <1>2, <1>3, PTL DEF Spec

-----------------------------------------------------------------------------
(* The roles at a start.                                                   *)
sRole == v1
sMarkers == v2
sStep == v3
sDecided == v4
sEvents == v5

USE DEF sRole, sMarkers, sStep, sDecided, sEvents

RoleRows == [there : BOOLEAN, new : [S!Keys -> S!Stored], old : [S!Keys -> S!Stored]]
RolesTyped ==
    /\ sRole \in [S!Roles -> RoleRows]
    /\ sDecided \in [S!Roles -> [S!Keys -> S!Stored \union {"gone"}]]

Insisted(r, k) == <<r, k>> \in {<<"user", "dashboard">>, <<"admin", "cluster">>}

\* A decision is about a role that is there and has no old names left, and one
\* about the page of settings was taken after the split.
DecidedStand ==
    \A r \in S!Roles, k \in S!Keys : sDecided[r][k] # "none" =>
        /\ sRole[r].there /\ ~S!HasOld(sRole[r])
        /\ k = "settings" => "split" \in sMarkers
        /\ sDecided[r][k] = "gone" => k = "settings" /\ r \notin S!Builtin
        /\ ~Insisted(r, k) => sRole[r].new[k] = IF sDecided[r][k] = "gone" THEN "none" ELSE sDecided[r][k]

\* The inductive invariant.
RolesInv == RolesTyped /\ (\A r \in S!Roles : ~sRole[r].there => sRole[r] = S!Missing) /\ DecidedStand

\* What a migration may do to the row of a role.
Stays(r, p, q) ==
    /\ ~p.there => q = p \/ q.there
    /\ p.there => q.there
    /\ p.there /\ ~S!HasOld(p) =>
          /\ ~S!HasOld(q)
          /\ \A k \in S!Keys : ~Insisted(r, k) /\ p.new[k] # "none" => q.new[k] = p.new[k]
          /\ r \notin S!Builtin => q.new["settings"] = p.new["settings"]

LEMMA KeepTyped == \A yes, no : S!Keep(yes, no) \in [S!Keys -> S!Stored]
  BY DEF S!Keep, S!Stored

LEMMA RolesInit == S!Init => RolesInv
<1> SUFFICES ASSUME S!Init PROVE RolesInv
  OBVIOUS
<1>1. PICK own \in {[there |-> TRUE, new |-> S!Keep({"settings", "servers"}, {}), old |-> S!Nothing],
                   [there |-> TRUE, new |-> S!Nothing, old |-> S!Keep({"settings", "servers"}, {"dashboard"})],
                   [there |-> TRUE, new |-> S!Nothing, old |-> S!Keep({"settings", "panel"}, {})], S!Missing} :
         sRole = [r \in S!Roles |-> CASE r = "ops"            -> own
                                      [] own = S!Missing      -> S!Missing
                                      [] own.old = S!Nothing  -> S!SqlDefault(r)
                                      [] OTHER                -> S!OldDefault(r)]
  BY DEF S!Init
<1>2. sDecided = [r \in S!Roles |-> S!Nothing]
  BY DEF S!Init
<1>3. S!Nothing \in [S!Keys -> S!Stored] /\ \A k \in S!Keys : S!Nothing[k] = "none"
  BY DEF S!Nothing, S!Keep, S!Stored
<1>4. S!Missing \in RoleRows /\ ~S!Missing.there
  BY <1>3 DEF S!Missing, RoleRows
<1>5. own \in RoleRows /\ (own.there \/ own = S!Missing)
  <2>1. /\ S!Keep({"settings", "servers"}, {}) \in [S!Keys -> S!Stored]
        /\ S!Keep({"settings", "servers"}, {"dashboard"}) \in [S!Keys -> S!Stored]
        /\ S!Keep({"settings", "panel"}, {}) \in [S!Keys -> S!Stored]
    BY KeepTyped
  <2>2. \A a, b \in [S!Keys -> S!Stored] : [there |-> TRUE, new |-> a, old |-> b] \in RoleRows
    BY DEF RoleRows
  <2> QED BY <1>3, <1>4, <2>1, <2>2
<1>6. \A r \in S!Roles : /\ S!SqlDefault(r) \in RoleRows /\ S!SqlDefault(r).there
                         /\ S!OldDefault(r) \in RoleRows /\ S!OldDefault(r).there
  BY <1>3, KeepTyped DEF S!SqlDefault, S!OldDefault, RoleRows
<1>7. \A r \in S!Roles : sRole[r] \in RoleRows /\ (~sRole[r].there => sRole[r] = S!Missing)
  <2>1. TAKE r \in S!Roles
  <2>2. sRole[r] \in {own, S!Missing, S!SqlDefault(r), S!OldDefault(r)}
    BY <1>1
  <2> QED BY <1>4, <1>5, <1>6, <2>2
<1>8. RolesTyped
  <2>1. sRole \in [S!Roles -> RoleRows]
    BY <1>1, <1>7
  <2> QED BY <1>2, <1>3, <2>1 DEF RolesTyped
<1>9. DecidedStand
  BY <1>2, <1>3 DEF DecidedStand
<1> QED BY <1>7, <1>8, <1>9 DEF RolesInv

\* Of what a migration does only the rows matter.
LEMMA MigrationKeeps ==
    ASSUME RolesInv, sRole' \in [S!Roles -> RoleRows], sDecided' = sDecided, sMarkers \subseteq sMarkers',
           \A r \in S!Roles : Stays(r, sRole[r], sRole'[r])
    PROVE  RolesInv'
<1>1. RolesTyped'
  BY DEF RolesInv, RolesTyped
<1>2. \A r \in S!Roles : ~sRole'[r].there => sRole'[r] = S!Missing
  BY DEF RolesInv, Stays
<1>3. DecidedStand'
  <2>1. SUFFICES ASSUME NEW r \in S!Roles, NEW k \in S!Keys, sDecided[r][k] # "none"
                 PROVE  /\ sRole'[r].there /\ ~S!HasOld(sRole'[r])
                        /\ k = "settings" => "split" \in sMarkers'
                        /\ sDecided[r][k] = "gone" => k = "settings" /\ r \notin S!Builtin
                        /\ ~Insisted(r, k) =>
                              sRole'[r].new[k] = IF sDecided[r][k] = "gone" THEN "none" ELSE sDecided[r][k]
    BY DEF DecidedStand
  <2>2. /\ sRole[r].there /\ ~S!HasOld(sRole[r])
        /\ k = "settings" => "split" \in sMarkers
        /\ sDecided[r][k] = "gone" => k = "settings" /\ r \notin S!Builtin
        /\ ~Insisted(r, k) => sRole[r].new[k] = IF sDecided[r][k] = "gone" THEN "none" ELSE sDecided[r][k]
    BY <2>1 DEF RolesInv, DecidedStand
  <2>3. Stays(r, sRole[r], sRole'[r])
    OBVIOUS
  <2> QED BY <2>1, <2>2, <2>3 DEF Stays
<1> QED BY <1>1, <1>2, <1>3 DEF RolesInv

LEMMA RowFacts ==
    ASSUME RolesInv, NEW r \in S!Roles
    PROVE  /\ sRole[r] \in RoleRows /\ (~sRole[r].there => sRole[r] = S!Missing)
           /\ S!Missing.new = S!Nothing /\ ~S!HasOld(S!Missing) /\ \A k \in S!Keys : S!Nothing[k] = "none"
  BY DEF RolesInv, RolesTyped, S!Missing, S!HasOld, S!Nothing, S!Keep

LEMMA ConvertedTyped ==
    ASSUME NEW p \in RoleRows
    PROVE  S!Converted(p) \in RoleRows /\ S!Converted(p).there = p.there
<1>1. S!Nothing \in [S!Keys -> S!Stored]
  BY KeepTyped DEF S!Nothing
<1>2. [k \in S!Keys |-> IF p.old[k] = "yes" /\ (k # "dashboard" \/ p.new[k] = "none")
                        THEN "yes" ELSE p.new[k]] \in [S!Keys -> S!Stored]
  BY DEF RoleRows, S!Stored
<1> QED BY <1>1, <1>2 DEF S!Converted, RoleRows

\* Defaults only fill what is missing.
LEMMA DefaultsStay ==
    ASSUME NEW r \in S!Roles, NEW p \in RoleRows
    PROVE  /\ S!Filled(p, S!NewDefault(r)) \in RoleRows /\ S!Filled(p, S!NewDefault(r)).there
           /\ r \in S!Builtin => Stays(r, p, S!Filled(p, S!NewDefault(r)))
<1> DEFINE d == S!NewDefault(r)
           q == IF S!HasOld(p) THEN S!Converted(p) ELSE p
           f == [k \in S!Keys |-> IF q.new[k] = "none" THEN d[k] ELSE q.new[k]]
<1>1. d \in [S!Keys -> S!Stored]
  BY KeepTyped DEF S!NewDefault
<1>2. q \in RoleRows
  BY ConvertedTyped
<1>3. f \in [S!Keys -> S!Stored]
  BY <1>1, <1>2 DEF RoleRows
<1>4. S!Filled(p, d) = [q EXCEPT !.there = TRUE, !.new = f]
  BY DEF S!Filled
<1>5. /\ S!Filled(p, d) \in RoleRows /\ S!Filled(p, d).there /\ S!Filled(p, d).new = f
      /\ S!Filled(p, d).old = q.old
  <2> HIDE DEF f, q, d
  <2> QED BY <1>2, <1>3, <1>4 DEF RoleRows
<1>6. ASSUME ~S!HasOld(p)
      PROVE  ~S!HasOld(S!Filled(p, d)) /\ \A k \in S!Keys : p.new[k] # "none" => S!Filled(p, d).new[k] = p.new[k]
  BY <1>5, <1>6 DEF S!HasOld
<1> HIDE DEF d
<1> QED BY <1>5, <1>6 DEF Stays, d

LEMMA MigrateKept ==
    ASSUME RolesInv, NEW n \in 1..8, S!Migrate(n)
    PROVE  RolesInv'
<1>0. \A r \in S!Roles : sRole[r] \in RoleRows
  BY RowFacts
<1>1. CASE n = 1 /\ S!RbacSecurity /\ UNCHANGED <<sMarkers, sDecided>>
  <2>1. \A r \in S!Roles : S!OldDefault(r) \in RoleRows /\ S!OldDefault(r).there
    BY KeepTyped DEF S!OldDefault, S!Nothing, RoleRows
  <2>2. \A r \in S!Roles : sRole'[r] = IF r \in S!Builtin /\ ~sRole[r].there THEN S!OldDefault(r) ELSE sRole[r]
    BY <1>1 DEF S!RbacSecurity
  <2>3. \A r \in S!Roles : Stays(r, sRole[r], sRole'[r]) /\ sRole'[r] \in RoleRows
    BY <1>0, <2>1, <2>2 DEF Stays
  <2>4. sRole' \in [S!Roles -> RoleRows]
    BY <1>0, <1>1, <2>1 DEF S!RbacSecurity
  <2> QED BY <1>1, <2>3, <2>4, MigrationKeeps
<1>2. CASE n = 2 /\ S!RbacV2 /\ UNCHANGED <<sMarkers, sDecided>>
  <2> DEFINE c(r) == IF S!HasOld(sRole[r]) THEN S!Converted(sRole[r]) ELSE sRole[r]
  <2>1. \A r \in S!Roles : c(r) \in RoleRows /\ c(r).there = sRole[r].there
    BY <1>0, ConvertedTyped
  <2>2. sRole' = [r \in S!Roles |-> IF r \in S!Builtin THEN S!Filled(c(r), S!NewDefault(r)) ELSE c(r)]
    BY <1>2 DEF S!RbacV2, S!EnsureDefaults
  <2>3. \A r \in S!Roles : Stays(r, sRole[r], sRole'[r]) /\ sRole'[r] \in RoleRows
    <3>1. TAKE r \in S!Roles
    <3>2. CASE r \in S!Builtin
      <4>1. Stays(r, c(r), S!Filled(c(r), S!NewDefault(r))) /\ S!Filled(c(r), S!NewDefault(r)) \in RoleRows
        BY <2>1, <3>2, DefaultsStay
      <4>2. sRole'[r] = S!Filled(c(r), S!NewDefault(r))
        BY <2>2, <3>2
      <4>3. ~S!HasOld(sRole[r]) => c(r) = sRole[r]
        OBVIOUS
      <4>4. sRole'[r].there
        BY <2>1, <4>2, DefaultsStay
      <4> HIDE DEF c
      <4> QED BY <2>1, <4>1, <4>2, <4>3, <4>4 DEF Stays
    <3>3. CASE r \notin S!Builtin
      <4>1. sRole'[r] = c(r)
        BY <2>2, <3>3
      <4>2. S!HasOld(sRole[r]) => sRole[r].there
        BY RowFacts
      <4> QED BY <2>1, <4>1, <4>2 DEF Stays
    <3> QED BY <3>2, <3>3
  <2>4. sRole' \in [S!Roles -> RoleRows]
    BY <2>2, <2>3
  <2> QED BY <1>2, <2>3, <2>4, MigrationKeeps
<1>3. CASE n = 3 /\ S!OwnGuests /\ UNCHANGED <<sMarkers, sDecided>>
  <2> DEFINE p == sRole["user"]
             q == [p EXCEPT !.new["own"] = "yes"]
  <2>1. "user" \in S!Roles /\ p \in RoleRows
    BY <1>0 DEF S!Roles, S!Builtin
  <2>2. CASE p.there /\ p.new["own"] = "none"
    <3>1. sRole' = [sRole EXCEPT !["user"] = q]
      BY <1>3, <2>2 DEF S!OwnGuests
    <3>2. q \in RoleRows /\ q.there = p.there /\ q.old = p.old /\ \A k \in S!Keys : k # "own" => q.new[k] = p.new[k]
      BY <2>1 DEF RoleRows, S!Stored, S!Keys
    <3>3. Stays("user", p, q)
      <4> HIDE DEF p, q
      <4> QED BY <2>2, <3>2 DEF Stays, S!HasOld, S!Builtin
    <3>4. sRole' \in [S!Roles -> RoleRows] /\ sRole'["user"] = q /\ \A r \in S!Roles \ {"user"} : sRole'[r] = sRole[r]
      <4> HIDE DEF q
      <4> QED BY <2>1, <3>1, <3>2 DEF RolesInv, RolesTyped
    <3>5. \A r \in S!Roles : Stays(r, sRole[r], sRole'[r])
      BY <3>3, <3>4 DEF Stays
    <3> QED BY <1>3, <3>4, <3>5, MigrationKeeps
  <2>3. CASE ~(p.there /\ p.new["own"] = "none")
    <3>1. sRole' = sRole
      BY <1>3, <2>3 DEF S!OwnGuests
    <3> QED BY <1>3, <3>1, MigrationKeeps DEF RolesInv, RolesTyped, Stays
  <2> QED BY <2>2, <2>3
<1>4. CASE n = 4 /\ S!ClusterSupport /\ UNCHANGED <<sMarkers, sDecided>>
  <2> DEFINE p == sRole["admin"]
             q == [p EXCEPT !.new["cluster"] = "yes", !.old["cluster"] = "none"]
  <2>1. "admin" \in S!Roles /\ p \in RoleRows
    BY <1>0 DEF S!Roles, S!Builtin
  <2>2. CASE p.there
    <3>1. sRole' = [sRole EXCEPT !["admin"] = q]
      BY <1>4, <2>2 DEF S!ClusterSupport
    <3>2. /\ q \in RoleRows /\ q.there = p.there /\ q.old = [p.old EXCEPT !["cluster"] = "none"]
          /\ \A k \in S!Keys : k # "cluster" => q.new[k] = p.new[k]
      BY <2>1 DEF RoleRows, S!Stored, S!Keys
    <3>3. ~S!HasOld(p) => ~S!HasOld(q)
      <4> HIDE DEF p, q
      <4> QED BY <3>2 DEF S!HasOld, S!Nothing, S!Keep
    <3>4. Stays("admin", p, q)
      <4> HIDE DEF p, q
      <4> QED BY <2>2, <3>2, <3>3 DEF Stays, S!Builtin, Insisted
    <3>5. sRole' \in [S!Roles -> RoleRows] /\ sRole'["admin"] = q /\ \A r \in S!Roles \ {"admin"} : sRole'[r] = sRole[r]
      <4> HIDE DEF q
      <4> QED BY <2>1, <3>1, <3>2 DEF RolesInv, RolesTyped
    <3>6. \A r \in S!Roles : Stays(r, sRole[r], sRole'[r])
      BY <3>4, <3>5 DEF Stays
    <3> QED BY <1>4, <3>5, <3>6, MigrationKeeps
  <2>3. CASE ~p.there
    <3>1. sRole' = sRole
      BY <1>4, <2>3 DEF S!ClusterSupport
    <3> QED BY <1>4, <3>1, MigrationKeeps DEF RolesInv, RolesTyped, Stays
  <2> QED BY <2>2, <2>3
<1>5. CASE n = 5 /\ S!RemoveDashboard /\ UNCHANGED <<sMarkers, sDecided>>
  <2> DEFINE p == sRole["user"]
             q == [p EXCEPT !.new["dashboard"] = "no", !.old["dashboard"] = "none"]
  <2>1. "user" \in S!Roles /\ p \in RoleRows
    BY <1>0 DEF S!Roles, S!Builtin
  <2>2. CASE p.there
    <3>1. sRole' = [sRole EXCEPT !["user"] = q]
      BY <1>5, <2>2 DEF S!RemoveDashboard
    <3>2. /\ q \in RoleRows /\ q.there = p.there /\ q.old = [p.old EXCEPT !["dashboard"] = "none"]
          /\ \A k \in S!Keys : k # "dashboard" => q.new[k] = p.new[k]
      BY <2>1 DEF RoleRows, S!Stored, S!Keys
    <3>3. ~S!HasOld(p) => ~S!HasOld(q)
      <4> HIDE DEF p, q
      <4> QED BY <3>2 DEF S!HasOld, S!Nothing, S!Keep
    <3>4. Stays("user", p, q)
      <4> HIDE DEF p, q
      <4> QED BY <2>2, <3>2, <3>3 DEF Stays, S!Builtin, Insisted
    <3>5. sRole' \in [S!Roles -> RoleRows] /\ sRole'["user"] = q /\ \A r \in S!Roles \ {"user"} : sRole'[r] = sRole[r]
      <4> HIDE DEF q
      <4> QED BY <2>1, <3>1, <3>2 DEF RolesInv, RolesTyped
    <3>6. \A r \in S!Roles : Stays(r, sRole[r], sRole'[r])
      BY <3>4, <3>5 DEF Stays
    <3> QED BY <1>5, <3>5, <3>6, MigrationKeeps
  <2>3. CASE ~p.there
    <3>1. sRole' = sRole
      BY <1>5, <2>3 DEF S!RemoveDashboard
    <3> QED BY <1>5, <3>1, MigrationKeeps DEF RolesInv, RolesTyped, Stays
  <2> QED BY <2>2, <2>3
<1>6. CASE n = 6 /\ S!GranularPermissions /\ UNCHANGED <<sMarkers, sDecided>>
  <2> DEFINE g(r) == S!Granular(sRole[r])
  <2>1. \A r \in S!Roles : /\ g(r) \in RoleRows /\ g(r).there = sRole[r].there /\ g(r).old = sRole[r].old
                           /\ \A k \in S!Keys : sRole[r].new[k] # "none" \/ k = "settings" => g(r).new[k] = sRole[r].new[k]
                           /\ ~sRole[r].there => g(r) = sRole[r]
    <3>1. TAKE r \in S!Roles
    <3>2. CASE sRole[r].new["servers"] = "yes" /\ sRole[r].new["nodes"] = "none"
      <4>1. g(r) = [sRole[r] EXCEPT !.new["nodes"] = "yes"]
        BY <3>2 DEF S!Granular
      <4>2. sRole[r].there
        BY <3>2, RowFacts DEF S!Keys
      <4>3. sRole[r] \in RoleRows
        BY <1>0
      <4>4. /\ g(r) \in RoleRows /\ g(r).there = sRole[r].there /\ g(r).old = sRole[r].old
            /\ \A k \in S!Keys : k # "nodes" => g(r).new[k] = sRole[r].new[k]
        BY <4>1, <4>3 DEF RoleRows, S!Stored, S!Keys
      <4> HIDE DEF g
      <4> QED BY <3>2, <4>2, <4>4
    <3>3. CASE ~(sRole[r].new["servers"] = "yes" /\ sRole[r].new["nodes"] = "none")
      <4>1. g(r) = sRole[r]
        BY <3>3 DEF S!Granular
      <4> QED BY <1>0, <4>1
    <3> QED BY <3>2, <3>3
  <2>2. sRole' = [r \in S!Roles |-> IF r \in S!Builtin THEN S!Filled(g(r), S!NewDefault(r)) ELSE g(r)]
    BY <1>6 DEF S!GranularPermissions, S!EnsureDefaults
  <2> HIDE DEF g
  <2>3. \A r \in S!Roles : Stays(r, sRole[r], sRole'[r]) /\ sRole'[r] \in RoleRows
    <3>1. TAKE r \in S!Roles
    <3>2. CASE r \in S!Builtin
      <4>1. Stays(r, g(r), S!Filled(g(r), S!NewDefault(r))) /\ S!Filled(g(r), S!NewDefault(r)) \in RoleRows
        BY <2>1, <3>2, DefaultsStay
      <4>2. sRole'[r] = S!Filled(g(r), S!NewDefault(r))
        BY <2>2, <3>2
      <4>3. S!HasOld(sRole[r]) <=> S!HasOld(g(r))
        BY <2>1 DEF S!HasOld
      <4>4. \A k \in S!Keys : sRole[r].new[k] # "none" => g(r).new[k] = sRole[r].new[k]
        BY <2>1
      <4> QED BY <2>1, <3>2, <4>1, <4>2, <4>3, <4>4 DEF Stays
    <3>3. CASE r \notin S!Builtin
      <4>1. sRole'[r] = g(r)
        BY <2>2, <3>3
      <4> QED BY <2>1, <4>1 DEF Stays, S!HasOld, S!Keys
    <3> QED BY <3>2, <3>3
  <2>4. sRole' \in [S!Roles -> RoleRows]
    BY <2>2, <2>3
  <2> QED BY <1>6, <2>3, <2>4, MigrationKeeps
<1>7. CASE n = 7 /\ S!SplitSettings
  <2>1. CASE "split" \in sMarkers
    <3>1. UNCHANGED <<sRole, sMarkers, sDecided>>
      BY <1>7, <2>1 DEF S!SplitSettings
    <3> QED BY <3>1, MigrationKeeps DEF RolesInv, RolesTyped, Stays
  <2>2. CASE "split" \notin sMarkers
    <3> DEFINE taken == {r \in S!Roles : S!OnlyViews(sRole[r])}
               gone == {r \in taken : r \notin S!Builtin /\ ~S!HasOld(sRole[r])}
               q(r) == [sRole[r] EXCEPT !.new["settings"] = "none"]
    <3>1. /\ sRole' = [r \in S!Roles |-> IF r \in taken THEN q(r) ELSE sRole[r]]
          /\ sMarkers' = sMarkers \union {"split"}
          /\ sDecided' = [r \in S!Roles |-> IF r \in gone THEN [sDecided[r] EXCEPT !["settings"] = "gone"] ELSE sDecided[r]]
      BY <1>7, <2>2 DEF S!SplitSettings
    <3>2. \A r \in taken : sRole[r].there
      BY RowFacts DEF S!OnlyViews, S!Keys
    <3>3. \A r \in S!Roles : /\ q(r) \in RoleRows /\ q(r).there = sRole[r].there /\ q(r).old = sRole[r].old
                             /\ q(r).new["settings"] = "none"
                             /\ \A k \in S!Keys : k # "settings" => q(r).new[k] = sRole[r].new[k]
      BY <1>0 DEF RoleRows, S!Stored, S!Keys
    <3> HIDE DEF q
    <3>4. \A r \in S!Roles : /\ sRole'[r] \in RoleRows /\ sRole'[r].there = sRole[r].there /\ sRole'[r].old = sRole[r].old
                             /\ \A k \in S!Keys : k # "settings" => sRole'[r].new[k] = sRole[r].new[k]
                             /\ r \in taken => sRole'[r].new["settings"] = "none"
      BY <1>0, <3>1, <3>3
    <3>5. \A r \in S!Roles, k \in S!Keys :
             sDecided'[r][k] = IF r \in gone /\ k = "settings" THEN "gone" ELSE sDecided[r][k]
      BY <3>1 DEF RolesInv, RolesTyped
    <3>6. RolesTyped'
      <4>1. sRole' \in [S!Roles -> RoleRows]
        BY <3>1, <3>4
      <4>2. sDecided' \in [S!Roles -> [S!Keys -> S!Stored \union {"gone"}]]
        BY <3>1 DEF RolesInv, RolesTyped
      <4> QED BY <4>1, <4>2 DEF RolesTyped
    <3>7. \A r \in S!Roles : ~sRole'[r].there => sRole'[r] = S!Missing
      BY <3>1, <3>2, <3>4 DEF RolesInv
    <3>8. DecidedStand'
      <4>1. SUFFICES ASSUME NEW r \in S!Roles, NEW k \in S!Keys, sDecided'[r][k] # "none"
                     PROVE  /\ sRole'[r].there /\ ~S!HasOld(sRole'[r])
                            /\ k = "settings" => "split" \in sMarkers'
                            /\ sDecided'[r][k] = "gone" => k = "settings" /\ r \notin S!Builtin
                            /\ ~Insisted(r, k) =>
                                  sRole'[r].new[k] = IF sDecided'[r][k] = "gone" THEN "none" ELSE sDecided'[r][k]
        BY DEF DecidedStand
      <4>2. CASE r \in gone /\ k = "settings"
        BY <3>1, <3>2, <3>4, <3>5, <4>2 DEF S!HasOld
      <4>3. CASE ~(r \in gone /\ k = "settings")
        <5>1. sDecided[r][k] # "none" /\ sDecided'[r][k] = sDecided[r][k]
          BY <3>5, <4>1, <4>3
        <5>2. k # "settings"
          BY <2>2, <5>1 DEF RolesInv, DecidedStand
        <5> QED BY <3>4, <5>1, <5>2 DEF RolesInv, DecidedStand, S!HasOld
      <4> QED BY <4>2, <4>3
    <3> QED BY <3>6, <3>7, <3>8 DEF RolesInv
  <2> QED BY <2>1, <2>2
<1>8. CASE n = 8 /\ S!CoolifyPermissions /\ UNCHANGED sDecided
  <2>1. CASE "coolify" \in sMarkers
    <3>1. UNCHANGED <<sRole, sMarkers>>
      BY <1>8, <2>1 DEF S!CoolifyPermissions
    <3> QED BY <1>8, <3>1, MigrationKeeps DEF RolesInv, RolesTyped, Stays
  <2>2. CASE "coolify" \notin sMarkers
    <3>1. sRole' = [r \in S!Roles |-> S!Coolify(r, sRole[r])] /\ sMarkers \subseteq sMarkers'
      BY <1>8, <2>2 DEF S!CoolifyPermissions
    <3>2. \A r \in S!Roles : S!Coolify(r, sRole[r]) \in RoleRows /\ Stays(r, sRole[r], S!Coolify(r, sRole[r]))
      <4>1. TAKE r \in S!Roles
      <4>2. CASE r \in S!Builtin /\ sRole[r].there /\ sRole[r].new["coolify"] = "none"
        <5> DEFINE p == sRole[r]
                   q == [p EXCEPT !.new["coolify"] = "yes"]
        <5>1. S!Coolify(r, p) = q
          BY <4>2 DEF S!Coolify
        <5>2. q \in RoleRows /\ q.there = p.there /\ q.old = p.old /\ \A k \in S!Keys : k # "coolify" => q.new[k] = p.new[k]
          BY <1>0 DEF RoleRows, S!Stored, S!Keys
        <5> HIDE DEF p, q
        <5>3. Stays(r, p, q)
          BY <4>2, <5>2 DEF Stays, S!HasOld, p
        <5> QED BY <5>1, <5>2, <5>3 DEF p
      <4>3. CASE ~(r \in S!Builtin /\ sRole[r].there /\ sRole[r].new["coolify"] = "none")
        <5>1. S!Coolify(r, sRole[r]) = sRole[r]
          BY <4>3 DEF S!Coolify
        <5> QED BY <1>0, <5>1 DEF Stays
      <4> QED BY <4>2, <4>3
    <3>3. sRole' \in [S!Roles -> RoleRows] /\ \A r \in S!Roles : Stays(r, sRole[r], sRole'[r])
      BY <3>1, <3>2
    <3> QED BY <1>8, <3>1, <3>3, MigrationKeeps
  <2> QED BY <2>1, <2>2
<1> QED BY <1>1, <1>2, <1>3, <1>4, <1>5, <1>6, <1>7, <1>8 DEF S!Migrate

LEMMA UpdateRoleKept ==
    ASSUME RolesInv, NEW r \in S!Roles, NEW k \in S!Keys, NEW v \in S!Stored, S!UpdateRole(r, k, v)
    PROVE  RolesInv'
<1> DEFINE q == [sRole[r] EXCEPT !.new[k] = v]
           d == IF S!Settled(r, k) THEN v ELSE "none"
<1>1. /\ sRole[r].there /\ sRole' = [sRole EXCEPT ![r] = q] /\ sMarkers' = sMarkers
      /\ sDecided' = [sDecided EXCEPT ![r] = [sDecided[r] EXCEPT ![k] = d]]
  BY DEF S!UpdateRole
<1>2. /\ q \in RoleRows /\ q.there = sRole[r].there /\ q.old = sRole[r].old /\ q.new[k] = v
      /\ \A j \in S!Keys \ {k} : q.new[j] = sRole[r].new[j]
  BY RowFacts DEF RoleRows
<1>3. d \in S!Stored
  BY DEF S!Stored
<1>4. d # "none" => ~S!HasOld(sRole[r]) /\ (k = "settings" => "split" \in sMarkers) /\ d = v
  BY DEF S!Settled
<1> HIDE DEF q, d
<1>5. RolesTyped'
  <2>1. sRole' \in [S!Roles -> RoleRows]
    BY <1>1, <1>2 DEF RolesInv, RolesTyped
  <2>2. sDecided' \in [S!Roles -> [S!Keys -> S!Stored \union {"gone"}]]
    BY <1>1, <1>3 DEF RolesInv, RolesTyped
  <2> QED BY <2>1, <2>2 DEF RolesTyped
<1>6. sRole'[r] = q /\ \A s \in S!Roles \ {r} : sRole'[s] = sRole[s]
  BY <1>1 DEF RolesInv, RolesTyped
<1>7. \A s \in S!Roles, j \in S!Keys : sDecided'[s][j] = IF s = r /\ j = k THEN d ELSE sDecided[s][j]
  BY <1>1 DEF RolesInv, RolesTyped
<1>8. \A s \in S!Roles : ~sRole'[s].there => sRole'[s] = S!Missing
  BY <1>1, <1>2, <1>6 DEF RolesInv
<1>9. DecidedStand'
  <2>1. SUFFICES ASSUME NEW s \in S!Roles, NEW j \in S!Keys, sDecided'[s][j] # "none"
                 PROVE  /\ sRole'[s].there /\ ~S!HasOld(sRole'[s])
                        /\ j = "settings" => "split" \in sMarkers'
                        /\ sDecided'[s][j] = "gone" => j = "settings" /\ s \notin S!Builtin
                        /\ ~Insisted(s, j) =>
                              sRole'[s].new[j] = IF sDecided'[s][j] = "gone" THEN "none" ELSE sDecided'[s][j]
    BY DEF DecidedStand
  <2>2. CASE s = r /\ j = k
    <3>1. sDecided'[s][j] = d /\ d = v /\ d # "gone"
      BY <1>3, <1>4, <1>7, <2>1, <2>2 DEF S!Stored
    <3> QED BY <1>1, <1>2, <1>4, <1>6, <2>1, <2>2, <3>1 DEF S!HasOld
  <2>3. CASE ~(s = r /\ j = k)
    <3>1. sDecided'[s][j] = sDecided[s][j]
      BY <1>7, <2>3
    <3>2. sRole'[s].there = sRole[s].there /\ sRole'[s].old = sRole[s].old /\ sRole'[s].new[j] = sRole[s].new[j]
      BY <1>2, <1>6, <2>3
    <3> QED BY <1>1, <2>1, <3>1, <3>2 DEF RolesInv, DecidedStand, S!HasOld
  <2> QED BY <2>2, <2>3
<1> QED BY <1>5, <1>8, <1>9 DEF RolesInv

LEMMA RolesKept == RolesInv /\ [S!Next]_(S!vars) => RolesInv'
<1> SUFFICES ASSUME RolesInv, [S!Next]_(S!vars) PROVE RolesInv'
  OBVIOUS
<1>1. CASE UNCHANGED <<sRole, sMarkers, sDecided>>
  BY <1>1 DEF RolesInv, RolesTyped, DecidedStand
<1>2. CASE S!Commit
  BY <1>2, MigrateKept DEF S!Commit, S!Last
<1> QED BY <1>1, <1>2, UpdateRoleKept DEF S!Next, S!Start, S!Raise, S!Stop, S!vars

\* Where a start is, and which migrations have run once for all.
StartTyped == sMarkers \subseteq {"split", "coolify"} /\ sStep \in 0..9 /\ sEvents \in 0..StartEvents

LEMMA StartTypedKept == StartTyped /\ [S!Next]_(S!vars) => StartTyped'
<1> SUFFICES ASSUME StartTyped, [S!Next]_(S!vars) PROVE StartTyped'
  OBVIOUS
<1>1. StartEvents \in Nat
  BY BoundsAssumption
<1>2. CASE S!Start \/ S!Raise \/ S!Stop
  <2>1. UNCHANGED sMarkers /\ (sEvents' = sEvents \/ (sEvents < StartEvents /\ sEvents' = sEvents + 1))
    BY <1>2 DEF S!Start, S!Raise, S!Stop
  <2>2. sStep' \in {0, 1} \/ (sStep \in 1..8 /\ sStep' = sStep + 1)
    BY <1>2 DEF S!Start, S!Raise, S!Stop, S!Last
  <2> QED BY <1>1, <2>1, <2>2 DEF StartTyped
<1>3. CASE S!Commit
  <2>1. sStep' = sStep + 1 /\ sStep \in 1..8 /\ UNCHANGED sEvents /\ S!Migrate(sStep)
    BY <1>3 DEF S!Commit, S!Last
  <2>2. sMarkers' \subseteq sMarkers \union {"split", "coolify"}
    BY <2>1 DEF S!Migrate, S!SplitSettings, S!CoolifyPermissions
  <2> QED BY <2>1, <2>2 DEF StartTyped
<1>4. ASSUME NEW r, NEW k, NEW v, S!UpdateRole(r, k, v) PROVE StartTyped'
  BY <1>1, <1>4 DEF S!UpdateRole, StartTyped
<1>5. CASE UNCHANGED S!vars
  BY <1>5 DEF S!vars, StartTyped
<1> QED BY <1>2, <1>3, <1>4, <1>5 DEF S!Next

LEMMA RolesAtStartTypes == RolesInv /\ StartTyped => S!TypeOK
  BY DEF RolesInv, RolesTyped, RoleRows, StartTyped, S!Last, S!TypeOK

\* What administrators decide about roles stands through any number of starts,
\* failed migrations and stops, in whatever order they come.
THEOREM ChoicesHold == Spec => [](part = "startup" => S!ChoicesSurvive)
<1> DEFINE Inv == part = "startup" => RolesInv
<1>1. Init => Inv
  BY RolesInit DEF Init
<1>2. Inv /\ [Next]_vars => Inv'
  <2> SUFFICES ASSUME Inv, [Next]_vars, part' = "startup" PROVE RolesInv'
    OBVIOUS
  <2>1. part = "startup" /\ [S!Next]_(S!vars)
    BY EachItsOwn
  <2> QED BY <2>1, RolesKept
<1>3. Inv => (part = "startup" => S!ChoicesSurvive)
  BY DEF RolesInv, DecidedStand, S!ChoicesSurvive, Insisted
<1>4. QED
  BY <1>1, <1>2, <1>3, PTL DEF Spec

-----------------------------------------------------------------------------
(* The forming of clusters.                                                *)
cMember == v1
cShown == v2
cTasks == v3
cAt == v4
cReq == v5
cSaved == v6
cDestroyed == v7
cOverwritten == v8
cUnseen == v9
cUnsure == v10
cEvents == v11

USE DEF cMember, cShown, cTasks, cAt, cReq, cSaved, cDestroyed, cOverwritten, cUnseen, cUnsure, cEvents

Places == Servers \union {0}
ClusterRequests ==
    [pc : {"idle", "ask", "backup", "delete", "list", "info", "post", "confirm", "commit", "link", "remove", "clear"},
     op : C!Ops, node : Places, via : Places, name : C!Clustered, todo : SUBSET (Places \union ClusterGuests)]
ClusterTypes ==
    /\ cMember \in [Servers -> C!Clustered] /\ cShown \in [Servers -> C!Clustered]
    /\ cTasks \subseteq [node : Servers, via : Servers, name : C!Names]
    /\ cAt \in [ClusterGuests -> Places] /\ cReq \in [Requests -> ClusterRequests]
    /\ cSaved \in [Requests -> SUBSET ClusterGuests]

\* What a request to join or create knows of its server and cluster.
Knows(r) ==
    /\ r.op = "join" /\ r.pc \in {"list", "info", "post", "confirm", "commit"} =>
          r.node \in Servers /\ r.via \in Servers
    /\ r.op = "join" /\ r.pc \in {"post", "confirm", "commit"} => r.name \in C!Names
    /\ r.op = "create" /\ r.pc \in {"ask", "commit"} => r.node \in Servers /\ r.name \in C!Names
\* The server is in the cluster or its creation is under way.
Comes(s, c) == cMember[s] = c \/ \E k \in cTasks : k.node = s /\ k.via = s /\ k.name = c
Came(s, c) == cMember'[s] = c \/ \E k \in cTasks' : k.node = s /\ k.via = s /\ k.name = c
\* The guests of a node that is to join are among those nobody could see.
Unseen(s) == C!On(s) \subseteq cUnseen
Asking(r) == r.op = "join" /\ r.pc \in {"info", "post"}
Creates(r) == r.op = "create" /\ r.pc = "commit"
Joins(r) == r.op = "join" /\ r.pc = "commit"

JoinsSeen ==
    /\ \A q \in Requests : Asking(cReq[q]) => Unseen(cReq[q].node)
    /\ \A k \in cTasks : k.via # k.node => Unseen(k.node)
RowsTrue ==
    /\ \A s \in Servers \ cUnsure : cShown[s] # C!NoCluster => Comes(s, cShown[s])
    /\ \A q \in Requests : Creates(cReq[q]) => cReq[q].node \in cUnsure \/ Comes(cReq[q].node, cReq[q].name)
    /\ \A q \in Requests : Joins(cReq[q]) => cReq[q].node \in cUnsure \/ cMember[cReq[q].node] = cReq[q].name

\* The inductive invariant.
ClustersInv ==
    /\ ClusterTypes /\ \A q \in Requests : Knows(cReq[q])
    /\ C!GuestsKept /\ JoinsSeen /\ RowsTrue

LEMMA ClustersInit == C!Init => ClustersInv
<1> SUFFICES ASSUME C!Init PROVE ClustersInv
  OBVIOUS
<1>1. C!Idle \in ClusterRequests /\ Knows(C!Idle) /\ ~Asking(C!Idle) /\ ~Creates(C!Idle) /\ ~Joins(C!Idle)
  BY DEF C!Idle, ClusterRequests, Places, C!Ops, C!Clustered, C!NoCluster, Knows, Asking, Creates, Joins
<1>2. ClusterTypes
  <2>1. cMember \in [Servers -> C!Clustered] /\ cShown \in [Servers -> C!Clustered]
    BY DEF C!Init, C!Clustered
  <2>2. cAt \in [ClusterGuests -> Places] /\ cReq \in [Requests -> ClusterRequests]
    BY <1>1 DEF C!Init, Places
  <2>3. cTasks = {} /\ cSaved \in [Requests -> SUBSET ClusterGuests]
    BY DEF C!Init
  <2> QED BY <2>1, <2>2, <2>3 DEF ClusterTypes
<1>3. \A q \in Requests : cReq[q] = C!Idle
  BY DEF C!Init
<1>4. C!GuestsKept /\ JoinsSeen
  BY <1>1, <1>3 DEF C!Init, C!GuestsKept, JoinsSeen
<1>5. RowsTrue
  BY <1>1, <1>3 DEF C!Init, RowsTrue
<1> QED BY <1>1, <1>2, <1>3, <1>4, <1>5 DEF ClustersInv

LEMMA ClusterFacts ==
    ASSUME ClustersInv, NEW q \in Requests
    PROVE  /\ ClusterTypes /\ cReq[q] \in ClusterRequests /\ Knows(cReq[q])
           /\ cReq[q].node \in Places /\ cReq[q].via \in Places /\ cReq[q].name \in C!Clustered
           /\ cReq[q].todo \subseteq Places \union ClusterGuests
<1>1. ClusterTypes /\ cReq[q] \in ClusterRequests /\ Knows(cReq[q])
  BY DEF ClustersInv, ClusterTypes
<1> QED BY <1>1 DEF ClusterRequests

LEMMA IdleRequest ==
    /\ C!Idle \in ClusterRequests /\ Knows(C!Idle)
    /\ ~Asking(C!Idle) /\ ~Creates(C!Idle) /\ ~Joins(C!Idle) /\ C!Idle.op = "create" /\ C!Idle.pc = "idle"
  BY DEF C!Idle, ClusterRequests, Places, C!Ops, C!Clustered, C!NoCluster, Knows, Asking, Creates, Joins

\* A request goes on; what it adds to the tasks and the rows is as it should be.
LEMMA RequestGoes ==
    ASSUME ClustersInv, NEW q \in Requests, NEW r \in ClusterRequests,
           cReq' = [cReq EXCEPT ![q] = r],
           UNCHANGED <<cMember, cAt, cDestroyed, cOverwritten>>,
           cSaved' \in [Requests -> SUBSET ClusterGuests], cShown' \in [Servers -> C!Clustered],
           cTasks \subseteq cTasks', cTasks' \subseteq [node : Servers, via : Servers, name : C!Names],
           cUnseen \subseteq cUnseen', cUnsure \subseteq cUnsure',
           \A k \in cTasks' \ cTasks : k.via # k.node => Unseen(k.node)',
           Knows(r), Asking(r) => Unseen(r.node)',
           Creates(r) => r.node \in cUnsure' \/ Came(r.node, r.name),
           Joins(r) => r.node \in cUnsure' \/ cMember[r.node] = r.name,
           \A s \in Servers \ cUnsure' : cShown'[s] = cShown[s] \/ Came(s, cShown'[s])
    PROVE  ClustersInv'
<1>1. cReq'[q] = r /\ \A p \in Requests \ {q} : cReq'[p] = cReq[p]
  BY DEF ClustersInv, ClusterTypes
<1>2. ClusterTypes'
  <2>1. cReq' \in [Requests -> ClusterRequests]
    BY DEF ClustersInv, ClusterTypes
  <2> QED BY <2>1 DEF ClustersInv, ClusterTypes
<1>3. \A p \in Requests : Knows(cReq'[p])
  BY <1>1 DEF ClustersInv
<1>4. C!GuestsKept'
  BY DEF ClustersInv, C!GuestsKept
<1>5. \A s : Unseen(s) => Unseen(s)'
  BY DEF Unseen, C!On
<1>6. JoinsSeen'
  BY <1>1, <1>5 DEF ClustersInv, JoinsSeen
<1>7. \A s, c : Comes(s, c) => Came(s, c)
  BY DEF Comes, Came
<1>8. RowsTrue'
  <2>1. \A s \in Servers \ cUnsure' : cShown'[s] # C!NoCluster => Came(s, cShown'[s])
    BY <1>7 DEF ClustersInv, RowsTrue
  <2>2. \A p \in Requests : Creates(cReq'[p]) => cReq'[p].node \in cUnsure' \/ Came(cReq'[p].node, cReq'[p].name)
    BY <1>1, <1>7 DEF ClustersInv, RowsTrue
  <2>3. \A p \in Requests : Joins(cReq'[p]) => cReq'[p].node \in cUnsure' \/ cMember'[cReq'[p].node] = cReq'[p].name
    BY <1>1 DEF ClustersInv, RowsTrue
  <2> QED BY <2>1, <2>2, <2>3 DEF RowsTrue, Comes, Came
<1> QED BY <1>2, <1>3, <1>4, <1>6, <1>8 DEF ClustersInv

\* One that asks for nothing yet, or is answered.
LEMMA RequestWaits ==
    ASSUME ClustersInv, NEW q \in Requests, NEW r \in ClusterRequests,
           cReq' = [cReq EXCEPT ![q] = r],
           UNCHANGED <<cMember, cShown, cTasks, cAt, cDestroyed, cOverwritten, cUnseen>>,
           cSaved' \in [Requests -> SUBSET ClusterGuests], cUnsure \subseteq cUnsure',
           Knows(r), ~Asking(r), ~Creates(r), ~Joins(r)
    PROVE  ClustersInv'
<1>1. ClusterTypes
  BY DEF ClustersInv
<1> QED BY <1>1, RequestGoes DEF ClusterTypes

LEMMA BeginsKept ==
    ASSUME ClustersInv, NEW q \in Requests,
           C!Create(q) \/ C!Join(q) \/ C!Import(q) \/ C!Eject(q) \/ C!Prepare(q)
    PROVE  ClustersInv'
<1>0. ClusterTypes
  BY DEF ClustersInv
<1>1. CASE C!Create(q)
  <2>1. PICK s \in Servers, c \in C!Names :
          cReq' = [cReq EXCEPT ![q] = [C!Idle EXCEPT !.pc = "ask", !.node = s, !.name = c]]
    BY <1>1 DEF C!Create, C!Begin, C!Set
  <2> DEFINE r == [C!Idle EXCEPT !.pc = "ask", !.node = s, !.name = c]
  <2>2. r \in ClusterRequests /\ r.op = "create" /\ r.pc = "ask" /\ r.node = s /\ r.name = c
    BY IdleRequest DEF ClusterRequests, Places, C!Clustered
  <2>3. UNCHANGED <<cMember, cShown, cTasks, cAt, cSaved, cDestroyed, cOverwritten, cUnseen, cUnsure>>
    BY <1>1 DEF C!Create, C!world
  <2>4. Knows(r) /\ ~Asking(r) /\ ~Creates(r) /\ ~Joins(r)
    BY <2>2 DEF Knows, Asking, Creates, Joins
  <2>5. cReq' = [cReq EXCEPT ![q] = r]
    BY <2>1
  <2> HIDE DEF r
  <2> QED BY <1>0, <2>2, <2>3, <2>4, <2>5, RequestWaits DEF ClusterTypes
<1>2. CASE C!Join(q)
  <2>1. PICK s \in Servers, v \in Servers :
          cReq' = [cReq EXCEPT ![q] = [C!Idle EXCEPT !.op = "join", !.pc = "list", !.node = s, !.via = v,
                                                     !.name = cShown[v]]]
    BY <1>2 DEF C!Join, C!Begin, C!Set
  <2> DEFINE r == [C!Idle EXCEPT !.op = "join", !.pc = "list", !.node = s, !.via = v, !.name = cShown[v]]
  <2>2. cShown[v] \in C!Clustered
    BY <1>0 DEF ClusterTypes
  <2>3. r \in ClusterRequests /\ r.op = "join" /\ r.pc = "list" /\ r.node = s /\ r.via = v
    BY <2>2, IdleRequest DEF ClusterRequests, Places, C!Ops
  <2>4. UNCHANGED <<cMember, cShown, cTasks, cAt, cSaved, cDestroyed, cOverwritten, cUnseen, cUnsure>>
    BY <1>2 DEF C!Join, C!world
  <2>5. Knows(r) /\ ~Asking(r) /\ ~Creates(r) /\ ~Joins(r)
    BY <2>3 DEF Knows, Asking, Creates, Joins
  <2>6. cReq' = [cReq EXCEPT ![q] = r]
    BY <2>1
  <2> HIDE DEF r
  <2> QED BY <1>0, <2>3, <2>4, <2>5, <2>6, RequestWaits DEF ClusterTypes
<1>3. CASE C!Import(q)
  <2>1. PICK s \in Servers :
          cReq' = [cReq EXCEPT ![q] = [C!Idle EXCEPT !.op = "import", !.pc = "link", !.node = s,
                                                     !.name = cMember[s], !.todo = C!Members(s)]]
    BY <1>3 DEF C!Import, C!Begin, C!Set
  <2> DEFINE r == [C!Idle EXCEPT !.op = "import", !.pc = "link", !.node = s, !.name = cMember[s],
                                 !.todo = C!Members(s)]
  <2>2. cMember[s] \in C!Clustered /\ C!Members(s) \subseteq Places
    BY <1>0 DEF ClusterTypes, C!Members, Places
  <2>3. r \in ClusterRequests /\ r.op = "import"
    BY <2>2, IdleRequest DEF ClusterRequests, Places, C!Ops
  <2>4. UNCHANGED <<cMember, cShown, cTasks, cAt, cSaved, cDestroyed, cOverwritten, cUnseen, cUnsure>>
    BY <1>3 DEF C!Import, C!world
  <2>5. Knows(r) /\ ~Asking(r) /\ ~Creates(r) /\ ~Joins(r)
    BY <2>3 DEF Knows, Asking, Creates, Joins
  <2>6. cReq' = [cReq EXCEPT ![q] = r]
    BY <2>1
  <2> HIDE DEF r
  <2> QED BY <1>0, <2>3, <2>4, <2>5, <2>6, RequestWaits DEF ClusterTypes
<1>4. CASE C!Eject(q)
  <2>1. PICK s \in Servers, v \in Servers :
          cReq' = [cReq EXCEPT ![q] = [C!Idle EXCEPT !.op = "eject", !.pc = "remove", !.node = s, !.via = v,
                                                     !.name = cShown[v]]]
    BY <1>4 DEF C!Eject, C!Begin, C!Set
  <2> DEFINE r == [C!Idle EXCEPT !.op = "eject", !.pc = "remove", !.node = s, !.via = v, !.name = cShown[v]]
  <2>2. cShown[v] \in C!Clustered
    BY <1>0 DEF ClusterTypes
  <2>3. r \in ClusterRequests /\ r.op = "eject"
    BY <2>2, IdleRequest DEF ClusterRequests, Places, C!Ops
  <2>4. UNCHANGED <<cMember, cShown, cTasks, cAt, cSaved, cDestroyed, cOverwritten, cUnseen, cUnsure>>
    BY <1>4 DEF C!Eject, C!world
  <2>5. Knows(r) /\ ~Asking(r) /\ ~Creates(r) /\ ~Joins(r)
    BY <2>3 DEF Knows, Asking, Creates, Joins
  <2>6. cReq' = [cReq EXCEPT ![q] = r]
    BY <2>1
  <2> HIDE DEF r
  <2> QED BY <1>0, <2>3, <2>4, <2>5, <2>6, RequestWaits DEF ClusterTypes
<1>5. CASE C!Prepare(q)
  <2>1. PICK s \in Servers, n \in Places, seen \in SUBSET ClusterGuests :
          /\ cReq' = [cReq EXCEPT ![q] = [C!Idle EXCEPT !.op = "prepare", !.pc = IF seen = {} THEN "idle" ELSE "backup",
                                                        !.node = s, !.via = n, !.todo = seen]]
          /\ cSaved' = [cSaved EXCEPT ![q] = {}]
    BY <1>0, <1>5 DEF C!Prepare, C!Begin, C!Set, C!Members, Places, ClusterTypes
  <2> DEFINE r == [C!Idle EXCEPT !.op = "prepare", !.pc = IF seen = {} THEN "idle" ELSE "backup",
                                 !.node = s, !.via = n, !.todo = seen]
  <2>3. r \in ClusterRequests /\ r.op = "prepare"
    BY IdleRequest DEF ClusterRequests, Places, C!Ops
  <2>4. UNCHANGED <<cMember, cShown, cTasks, cAt, cDestroyed, cOverwritten, cUnseen, cUnsure>>
    BY <1>5 DEF C!Prepare
  <2>5. Knows(r) /\ ~Asking(r) /\ ~Creates(r) /\ ~Joins(r)
    BY <2>3 DEF Knows, Asking, Creates, Joins
  <2>6. cReq' = [cReq EXCEPT ![q] = r] /\ cSaved' \in [Requests -> SUBSET ClusterGuests]
    BY <1>0, <2>1 DEF ClusterTypes
  <2> HIDE DEF r
  <2> QED BY <2>3, <2>4, <2>5, <2>6, RequestWaits
<1> QED BY <1>1, <1>2, <1>3, <1>4, <1>5

LEMMA CreationKept ==
    ASSUME ClustersInv, NEW q \in Requests, C!PostCreate(q) \/ C!CommitCreate(q)
    PROVE  ClustersInv'
<1>0. ClusterTypes /\ cReq[q] \in ClusterRequests /\ Knows(cReq[q])
  BY ClusterFacts
<1> DEFINE s == cReq[q].node
           c == cReq[q].name
<1>1. CASE C!PostCreate(q)
  <2>1. /\ cReq[q].op = "create" /\ cReq[q].pc = "ask"
        /\ UNCHANGED <<cMember, cShown, cAt, cSaved, cDestroyed, cOverwritten, cUnseen, cUnsure>>
    BY <1>1 DEF C!PostCreate, C!At
  <2>2. s \in Servers /\ c \in C!Names
    BY <1>0, <2>1 DEF Knows
  <2>3. CASE C!Answer(q) /\ UNCHANGED cTasks
    BY <1>0, <2>1, <2>3, IdleRequest, RequestWaits DEF C!Answer, C!Set, ClusterTypes
  <2>4. CASE cTasks' = cTasks \union {[node |-> s, via |-> s, name |-> c]} /\ C!GoTo(q, "commit")
    <3> DEFINE r == [cReq[q] EXCEPT !.pc = "commit"]
               k == [node |-> s, via |-> s, name |-> c]
    <3>1. cReq' = [cReq EXCEPT ![q] = r]
      BY <2>4 DEF C!GoTo
    <3>2. r \in ClusterRequests /\ r.op = "create" /\ r.pc = "commit" /\ r.node = s /\ r.name = c
      BY <1>0, <2>1 DEF ClusterRequests
    <3>3. k \in [node : Servers, via : Servers, name : C!Names] /\ k \in cTasks'
      BY <2>2, <2>4
    <3>4. Came(s, c)
      BY <3>3 DEF Came
    <3>5. \A j \in cTasks' \ cTasks : j.via = j.node
      BY <2>4
    <3>6. cTasks \subseteq cTasks' /\ cTasks' \subseteq [node : Servers, via : Servers, name : C!Names]
      BY <1>0, <2>4, <3>3 DEF ClusterTypes
    <3>7. Knows(r) /\ ~Asking(r) /\ ~Joins(r)
      BY <2>2, <3>2 DEF Knows, Asking, Joins
    <3> HIDE DEF r, k, s, c
    <3> QED BY <1>0, <2>1, <3>1, <3>2, <3>4, <3>5, <3>6, <3>7, RequestGoes DEF ClusterTypes
  <2> QED BY <1>1, <2>3, <2>4 DEF C!PostCreate
<1>2. CASE C!CommitCreate(q)
  <2>1. /\ cReq[q].op = "create" /\ cReq[q].pc = "commit" /\ cShown' = [cShown EXCEPT ![s] = c]
        /\ cReq' = [cReq EXCEPT ![q] = C!Idle]
        /\ UNCHANGED <<cMember, cTasks, cAt, cSaved, cDestroyed, cOverwritten, cUnseen, cUnsure>>
    BY <1>2 DEF C!CommitCreate, C!At, C!Answer, C!Set, C!world
  <2>2. s \in Servers /\ c \in C!Clustered
    BY <1>0, <2>1 DEF Knows, C!Clustered
  <2>3. s \in cUnsure \/ Came(s, c)
    BY <2>1 DEF ClustersInv, RowsTrue, Creates, Comes, Came
  <2>4. cShown' \in [Servers -> C!Clustered] /\ \A t \in Servers : cShown'[t] = IF t = s THEN c ELSE cShown[t]
    BY <1>0, <2>1, <2>2 DEF ClusterTypes
  <2> HIDE DEF s, c
  <2>5. \A t \in Servers \ cUnsure' : cShown'[t] = cShown[t] \/ Came(t, cShown'[t])
    BY <2>1, <2>3, <2>4
  <2> QED BY <1>0, <2>1, <2>4, <2>5, IdleRequest, RequestGoes DEF ClusterTypes
<1> QED BY <1>1, <1>2

LEMMA JoinKept ==
    ASSUME ClustersInv, NEW q \in Requests, C!ListGuests(q) \/ C!JoinInfo(q) \/ C!PostJoin(q)
    PROVE  ClustersInv'
<1>a. ClusterTypes /\ cReq[q] \in ClusterRequests /\ Knows(cReq[q])
  BY ClusterFacts
<1>b. PICK s : s = cReq[q].node
  OBVIOUS
<1>0. ClusterTypes /\ cReq[q] \in ClusterRequests /\ Knows(cReq[q]) /\ s = cReq[q].node
  BY <1>a, <1>b
<1>1. CASE C!ListGuests(q)
  <2>1. /\ cReq[q].op = "join" /\ cReq[q].pc = "list"
        /\ UNCHANGED <<cMember, cShown, cTasks, cAt, cSaved, cDestroyed, cOverwritten, cUnsure>>
    BY <1>1 DEF C!ListGuests, C!At
  <2>2. s \in Servers
    BY <1>0, <2>1 DEF Knows
  <2>0. cReq[q].via \in Servers
    BY <1>0, <2>1 DEF Knows
  <2>3. PICK n \in C!Members(s) :
          \/ C!Answer(q) /\ UNCHANGED cUnseen
          \/ /\ cReq' = [cReq EXCEPT ![q] = [cReq[q] EXCEPT !.pc = "info", !.todo = {n}]]
             /\ cUnseen' = cUnseen \union C!On(s)
    BY <1>0, <1>1 DEF C!ListGuests, C!Set
  <2>4. CASE C!Answer(q) /\ UNCHANGED cUnseen
    BY <1>0, <2>1, <2>4, IdleRequest, RequestWaits DEF C!Answer, C!Set, ClusterTypes
  <2>5. CASE /\ cReq' = [cReq EXCEPT ![q] = [cReq[q] EXCEPT !.pc = "info", !.todo = {n}]]
             /\ cUnseen' = cUnseen \union C!On(s)
    <3>0. PICK r : r = [cReq[q] EXCEPT !.pc = "info", !.todo = {n}]
      OBVIOUS
    <3>1. n \in Places
      BY <2>2, <2>3 DEF C!Members, Places
    <3>2. r \in ClusterRequests /\ r.op = "join" /\ r.pc = "info" /\ r.node = s /\ r.via = cReq[q].via
      BY <1>0, <2>1, <3>0, <3>1 DEF ClusterRequests
    <3>3. Unseen(s)'
      BY <2>1, <2>5 DEF Unseen, C!On
    <3>4. Knows(r) /\ ~Creates(r) /\ ~Joins(r) /\ Unseen(r.node)'
      BY <2>0, <2>2, <3>2, <3>3 DEF Knows, Creates, Joins
    <3>5. cReq' = [cReq EXCEPT ![q] = r]
      BY <2>5, <3>0
    <3> QED BY <1>0, <2>1, <2>5, <3>2, <3>4, <3>5, RequestGoes DEF ClusterTypes
  <2> QED BY <2>3, <2>4, <2>5
<1>2. CASE C!JoinInfo(q)
  <2>1. /\ cReq[q].op = "join" /\ cReq[q].pc = "info"
        /\ UNCHANGED <<cMember, cShown, cTasks, cAt, cSaved, cDestroyed, cOverwritten, cUnseen, cUnsure>>
    BY <1>2 DEF C!JoinInfo, C!At, C!world
  <2>a. PICK c : c = cMember[cReq[q].via]
    OBVIOUS
  <2>b. PICK r : r = [cReq[q] EXCEPT !.pc = "post", !.name = c]
    OBVIOUS
  <2>2. CASE C!Answer(q)
    BY <1>0, <2>1, <2>2, IdleRequest, RequestWaits DEF C!Answer, C!Set, ClusterTypes
  <2>3. CASE c # C!NoCluster /\ cReq' = [cReq EXCEPT ![q] = r] /\ cReq[q].via \in Servers
    <3>1. c \in C!Names
      BY <1>0, <2>3, <2>a DEF ClusterTypes, C!Clustered
    <3>2. r \in ClusterRequests /\ r.op = "join" /\ r.pc = "post" /\ r.node = s /\ r.via = cReq[q].via /\ r.name = c
      BY <1>0, <2>1, <2>b, <3>1 DEF ClusterRequests, C!Clustered
    <3>3. s \in Servers /\ Unseen(s)
      BY <1>0, <2>1 DEF Knows, ClustersInv, JoinsSeen, Asking
    <3>4. Unseen(s)'
      BY <2>1, <3>3 DEF Unseen, C!On
    <3>5. Knows(r) /\ ~Creates(r) /\ ~Joins(r) /\ Unseen(r.node)'
      BY <2>3, <3>1, <3>2, <3>3, <3>4 DEF Knows, Creates, Joins
    <3> QED BY <1>0, <2>1, <2>3, <3>2, <3>5, RequestGoes DEF ClusterTypes
  <2>4. C!Answer(q) \/ (c # C!NoCluster /\ cReq' = [cReq EXCEPT ![q] = r])
    BY <1>2, <2>a, <2>b DEF C!JoinInfo, C!Set
  <2>5. cReq[q].via \in Servers
    BY <1>0, <2>1 DEF Knows
  <2> QED BY <2>2, <2>3, <2>4, <2>5
<1>3. CASE C!PostJoin(q)
  <2>1. /\ cReq[q].op = "join" /\ cReq[q].pc = "post"
        /\ UNCHANGED <<cMember, cShown, cAt, cSaved, cDestroyed, cOverwritten, cUnseen, cUnsure>>
    BY <1>3 DEF C!PostJoin, C!At
  <2>a. PICK r : r = [cReq[q] EXCEPT !.pc = "confirm"]
    OBVIOUS
  <2>b. PICK k : k = [node |-> s, via |-> cReq[q].via, name |-> cReq[q].name]
    OBVIOUS
  <2>2. CASE C!Answer(q) /\ UNCHANGED cTasks
    BY <1>0, <2>1, <2>2, IdleRequest, RequestWaits DEF C!Answer, C!Set, ClusterTypes
  <2>3. CASE cTasks' = cTasks \union {k} /\ cReq' = [cReq EXCEPT ![q] = r]
    <3>1. r \in ClusterRequests /\ r.op = "join" /\ r.pc = "confirm" /\ r.node = s /\ r.name = cReq[q].name
         /\ r.via = cReq[q].via
      BY <1>0, <2>1, <2>a DEF ClusterRequests
    <3>2. s \in Servers /\ cReq[q].via \in Servers /\ cReq[q].name \in C!Names /\ Unseen(s)
      BY <1>0, <2>1 DEF Knows, ClustersInv, JoinsSeen, Asking
    <3>3. k.node = s /\ k \in [node : Servers, via : Servers, name : C!Names]
      BY <2>b, <3>2
    <3>4. Unseen(s)'
      BY <2>1, <3>2 DEF Unseen, C!On
    <3>5. Knows(r) /\ ~Asking(r) /\ ~Creates(r) /\ ~Joins(r)
      BY <3>1, <3>2 DEF Knows, Asking, Creates, Joins
    <3>6. cTasks \subseteq cTasks' /\ cTasks' \subseteq [node : Servers, via : Servers, name : C!Names]
      BY <1>0, <2>3, <3>3 DEF ClusterTypes
    <3>7. \A j \in cTasks' \ cTasks : j = k
      BY <2>3
    <3>8. \A j \in cTasks' \ cTasks : j.via # j.node => Unseen(j.node)'
      BY <3>3, <3>4, <3>7
    <3> QED BY <1>0, <2>1, <2>3, <3>1, <3>5, <3>6, <3>8, RequestGoes DEF ClusterTypes
  <2> QED BY <1>0, <1>3, <2>2, <2>3, <2>a, <2>b DEF C!PostJoin, C!GoTo
<1> QED BY <1>1, <1>2, <1>3

LEMMA JoinEndsKept ==
    ASSUME ClustersInv, NEW q \in Requests, C!Confirm(q) \/ C!CommitJoin(q)
    PROVE  ClustersInv'
<1>0. ClusterTypes /\ cReq[q] \in ClusterRequests /\ Knows(cReq[q])
  BY ClusterFacts
<1> DEFINE s == cReq[q].node
<1>1. CASE C!Confirm(q)
  <2>1. /\ cReq[q].op = "join" /\ cReq[q].pc = "confirm"
        /\ UNCHANGED <<cMember, cShown, cTasks, cAt, cSaved, cDestroyed, cOverwritten, cUnseen>>
    BY <1>1 DEF C!Confirm, C!At, C!world
  <2>2. CASE C!Answer(q) /\ UNCHANGED cUnsure
    BY <1>0, <2>1, <2>2, IdleRequest, RequestWaits DEF C!Answer, C!Set, ClusterTypes
  <2>3. CASE /\ C!GoTo(q, "commit") /\ cUnsure \subseteq cUnsure'
             /\ s \in cUnsure' \/ cMember[s] = cReq[q].name
    <3> DEFINE r == [cReq[q] EXCEPT !.pc = "commit"]
    <3>1. cReq' = [cReq EXCEPT ![q] = r]
      BY <2>3 DEF C!GoTo
    <3>2. r \in ClusterRequests /\ r.op = "join" /\ r.pc = "commit" /\ r.node = s /\ r.name = cReq[q].name
         /\ r.via = cReq[q].via
      BY <1>0, <2>1 DEF ClusterRequests
    <3>3. s \in Servers /\ cReq[q].via \in Servers /\ cReq[q].name \in C!Names
      BY <1>0, <2>1 DEF Knows
    <3>4. Knows(r) /\ ~Asking(r) /\ ~Creates(r)
      BY <3>2, <3>3 DEF Knows, Asking, Creates
    <3> HIDE DEF r, s
    <3> QED BY <1>0, <2>1, <2>3, <3>1, <3>2, <3>4, RequestGoes DEF ClusterTypes
  <2> QED BY <1>1, <2>2, <2>3 DEF C!Confirm
<1>2. CASE C!CommitJoin(q)
  <2>1. /\ cReq[q].op = "join" /\ cReq[q].pc = "commit" /\ cShown' = [cShown EXCEPT ![s] = cReq[q].name]
        /\ cReq' = [cReq EXCEPT ![q] = C!Idle]
        /\ UNCHANGED <<cMember, cTasks, cAt, cSaved, cDestroyed, cOverwritten, cUnseen, cUnsure>>
    BY <1>2 DEF C!CommitJoin, C!At, C!Answer, C!Set, C!world
  <2> DEFINE c == cReq[q].name
  <2>2. s \in Servers /\ c \in C!Clustered
    BY <1>0, <2>1 DEF Knows, C!Clustered
  <2>3. s \in cUnsure \/ Came(s, c)
    BY <2>1 DEF ClustersInv, RowsTrue, Joins, Came
  <2>4. cShown' \in [Servers -> C!Clustered] /\ \A t \in Servers : cShown'[t] = IF t = s THEN c ELSE cShown[t]
    BY <1>0, <2>1, <2>2 DEF ClusterTypes
  <2> HIDE DEF s, c
  <2>5. \A t \in Servers \ cUnsure' : cShown'[t] = cShown[t] \/ Came(t, cShown'[t])
    BY <2>1, <2>3, <2>4
  <2> QED BY <1>0, <2>1, <2>4, <2>5, IdleRequest, RequestGoes DEF ClusterTypes
<1> QED BY <1>1, <1>2

LEMMA LinkKept ==
    ASSUME ClustersInv, NEW q \in Requests, C!Link(q) \/ C!Backups(q)
    PROVE  ClustersInv'
<1>0. ClusterTypes /\ cReq[q] \in ClusterRequests /\ Knows(cReq[q])
  BY ClusterFacts
<1>1. CASE C!Link(q)
  <2> DEFINE c == cReq[q].name
  <2>1. PICK chosen \in SUBSET Servers :
          /\ cShown' = [s \in Servers |-> IF s \in chosen THEN c ELSE cShown[s]]
          /\ cUnsure' = cUnsure \union {s \in chosen : cMember[s] # c}
    BY <1>1 DEF C!Link
  <2>2. /\ cReq' = [cReq EXCEPT ![q] = C!Idle]
        /\ UNCHANGED <<cMember, cTasks, cAt, cSaved, cDestroyed, cOverwritten, cUnseen>>
    BY <1>1 DEF C!Link, C!Answer, C!Set, C!world
  <2>3. c \in C!Clustered
    BY <1>0 DEF ClusterRequests
  <2>4. cShown' \in [Servers -> C!Clustered]
    BY <1>0, <2>1, <2>3 DEF ClusterTypes
  <2> HIDE DEF c
  <2>5. \A t \in Servers \ cUnsure' : cShown'[t] = cShown[t] \/ Came(t, cShown'[t])
    <3>1. TAKE t \in Servers \ cUnsure'
    <3>2. CASE t \in chosen
      <4>1. cMember'[t] = c /\ cShown'[t] = c
        BY <2>1, <2>2, <3>1, <3>2
      <4> QED BY <4>1 DEF Came
    <3>3. CASE t \notin chosen
      BY <2>1, <3>3
    <3> QED BY <3>2, <3>3
  <2> QED BY <1>0, <2>1, <2>2, <2>4, <2>5, IdleRequest, RequestGoes DEF ClusterTypes
<1>2. CASE C!Backups(q)
  <2> DEFINE r == [cReq[q] EXCEPT !.pc = "delete"]
  <2>1. /\ cReq[q].op = "prepare" /\ cReq' = [cReq EXCEPT ![q] = r]
        /\ UNCHANGED <<cMember, cShown, cTasks, cAt, cDestroyed, cOverwritten, cUnseen, cUnsure>>
    BY <1>2 DEF C!Backups, C!At, C!GoTo
  <2>2. PICK done \in SUBSET (cReq[q].todo \intersect C!On(cReq[q].via)) : cSaved' = [cSaved EXCEPT ![q] = done]
    BY <1>2 DEF C!Backups
  <2>3. cSaved' \in [Requests -> SUBSET ClusterGuests]
    BY <1>0, <2>2 DEF ClusterTypes, C!On
  <2>4. r \in ClusterRequests /\ r.op = "prepare"
    BY <1>0, <2>1 DEF ClusterRequests
  <2>5. Knows(r) /\ ~Asking(r) /\ ~Creates(r) /\ ~Joins(r)
    BY <2>4 DEF Knows, Asking, Creates, Joins
  <2> HIDE DEF r
  <2> QED BY <2>1, <2>3, <2>4, <2>5, RequestWaits
<1> QED BY <1>1, <1>2

LEMMA DeleteKept ==
    ASSUME ClustersInv, NEW q \in Requests, C!Delete(q)
    PROVE  ClustersInv'
<1>0. ClusterTypes /\ cReq[q] \in ClusterRequests /\ Knows(cReq[q])
  BY ClusterFacts
<1>1. /\ cReq[q].op = "prepare" /\ cReq[q].pc = "delete"
      /\ UNCHANGED <<cMember, cShown, cTasks, cSaved, cOverwritten, cUnseen, cUnsure>>
  BY DEF C!Delete, C!At
<1>2. CASE C!Answer(q) /\ UNCHANGED <<cAt, cDestroyed>>
  BY <1>0, <1>1, <1>2, IdleRequest, RequestWaits DEF C!Answer, C!Set, ClusterTypes
<1>3. ASSUME NEW g \in cReq[q].todo \intersect cSaved[q], C!Removed(q, g)
      PROVE  ClustersInv'
  <2>1. PICK r : r = [cReq[q] EXCEPT !.todo = cReq[q].todo \ {g}]
    OBVIOUS
  <2>2. r \in ClusterRequests /\ r.op = "prepare"
    BY <1>0, <1>1, <2>1 DEF ClusterRequests
  <2>3. cReq' = [cReq EXCEPT ![q] = r] /\ cAt' = [cAt EXCEPT ![g] = 0] /\ cDestroyed' = cDestroyed
    BY <1>3, <2>1 DEF C!Removed, C!Nowhere
  <2>4. cReq'[q] = r /\ \A p \in Requests \ {q} : cReq'[p] = cReq[p]
    BY <1>0, <2>3 DEF ClusterTypes
  <2>5. Knows(r) /\ ~Asking(r) /\ ~Creates(r) /\ ~Joins(r)
    BY <2>2 DEF Knows, Asking, Creates, Joins
  <2>6. ClusterTypes'
    BY <1>0, <1>1, <2>2, <2>3 DEF ClusterTypes, Places
  <2>7. \A s \in Servers : Unseen(s) => Unseen(s)'
    BY <1>0, <1>1, <2>3, PanelAssumption DEF Unseen, C!On, ClusterTypes
  <2>8. \A p \in Requests : Asking(cReq[p]) => cReq[p].node \in Servers
    BY DEF ClustersInv, Knows, Asking
  <2>9. JoinsSeen'
    BY <1>0, <1>1, <2>4, <2>5, <2>7, <2>8 DEF ClustersInv, JoinsSeen, ClusterTypes
  <2>10. RowsTrue'
    BY <1>1, <2>4, <2>5 DEF ClustersInv, RowsTrue, Comes
  <2> QED BY <1>1, <2>3, <2>4, <2>5, <2>6, <2>9, <2>10 DEF ClustersInv, C!GuestsKept
<1> QED BY <1>2, <1>3 DEF C!Delete

LEMMA EjectionKept ==
    ASSUME ClustersInv, NEW q \in Requests, C!RemoveNode(q) \/ C!ClearRow(q)
    PROVE  ClustersInv'
<1>0. ClusterTypes /\ cReq[q] \in ClusterRequests /\ Knows(cReq[q])
  BY ClusterFacts
<1>1. CASE C!RemoveNode(q)
  <2>1. /\ cReq[q].op = "eject" /\ cReq[q].pc = "remove"
        /\ UNCHANGED <<cShown, cTasks, cAt, cSaved, cDestroyed, cOverwritten, cUnseen>>
    BY <1>1 DEF C!RemoveNode, C!At
  <2>2. PICK r : /\ cReq' = [cReq EXCEPT ![q] = r] /\ r \in ClusterRequests /\ Knows(r)
                 /\ ~Asking(r) /\ ~Creates(r) /\ ~Joins(r)
    <3>1. PICK r : r = [cReq[q] EXCEPT !.pc = "clear"]
      OBVIOUS
    <3>2. r \in ClusterRequests /\ r.op = "eject"
      BY <1>0, <2>1, <3>1 DEF ClusterRequests
    <3>3. Knows(r) /\ ~Asking(r) /\ ~Creates(r) /\ ~Joins(r)
      BY <3>2 DEF Knows, Asking, Creates, Joins
    <3>4. CASE C!GoTo(q, "clear")
      BY <3>1, <3>2, <3>3, <3>4 DEF C!GoTo
    <3>5. CASE C!Answer(q)
      BY <3>5, IdleRequest DEF C!Answer, C!Set
    <3> QED BY <1>1, <3>4, <3>5 DEF C!RemoveNode
  <2>3. CASE UNCHANGED <<cMember, cUnsure>>
    BY <1>0, <2>1, <2>2, <2>3, RequestWaits DEF ClusterTypes
  <2>4. ASSUME NEW s, s = cReq[q].node, cMember[s] # C!NoCluster, cMember' = [cMember EXCEPT ![s] = C!NoCluster],
               cUnsure' = cUnsure \union {s}
        PROVE  ClustersInv'
    <3>1. cReq'[q] = r /\ \A p \in Requests \ {q} : cReq'[p] = cReq[p]
      BY <1>0, <2>2 DEF ClusterTypes
    <3>2. ClusterTypes'
      BY <1>0, <2>1, <2>2, <2>4 DEF ClusterTypes, C!Clustered
    <3>3. \A t : Unseen(t) => Unseen(t)'
      BY <2>1 DEF Unseen, C!On
    <3>4. JoinsSeen'
      BY <2>1, <2>2, <3>1, <3>3 DEF ClustersInv, JoinsSeen
    <3>5. \A t, c : t \in Servers /\ t \notin cUnsure' /\ Comes(t, c) => Came(t, c)
      BY <1>0, <2>1, <2>4 DEF Comes, Came, ClusterTypes
    <3>6. \A p \in Requests : Creates(cReq[p]) \/ Joins(cReq[p]) => cReq[p].node \in Servers
      BY DEF ClustersInv, Knows, Creates, Joins
    <3>7. \A t \in Servers \ cUnsure' : cShown'[t] # C!NoCluster => Came(t, cShown'[t])
      BY <2>1, <2>4, <3>5 DEF ClustersInv, RowsTrue
    <3>8. \A p \in Requests : Creates(cReq'[p]) => cReq'[p].node \in cUnsure' \/ Came(cReq'[p].node, cReq'[p].name)
      BY <2>2, <2>4, <3>1, <3>5, <3>6 DEF ClustersInv, RowsTrue
    <3>9. \A p \in Requests : Joins(cReq'[p]) => cReq'[p].node \in cUnsure' \/ cMember'[cReq'[p].node] = cReq'[p].name
      BY <1>0, <2>2, <2>4, <3>1, <3>6 DEF ClustersInv, RowsTrue, ClusterTypes
    <3>10. RowsTrue'
      BY <3>7, <3>8, <3>9 DEF RowsTrue, Comes, Came
    <3>11. \A p \in Requests : Knows(cReq'[p])
      BY <2>2, <3>1 DEF ClustersInv
    <3> QED BY <2>1, <3>2, <3>4, <3>10, <3>11 DEF ClustersInv, C!GuestsKept
  <2> QED BY <1>1, <2>3, <2>4 DEF C!RemoveNode
<1>2. CASE C!ClearRow(q)
  <2>1. cReq' = [cReq EXCEPT ![q] = C!Idle]
    BY <1>2 DEF C!ClearRow, C!Answer, C!Set
  <2>2. UNCHANGED <<cMember, cTasks, cAt, cSaved, cDestroyed, cOverwritten, cUnseen>>
    BY <1>2 DEF C!ClearRow, C!world
  <2>3. CASE UNCHANGED <<cShown, cUnsure>>
    BY <1>0, <2>1, <2>2, <2>3, IdleRequest, RequestWaits DEF ClusterTypes
  <2>4. ASSUME NEW s \in Servers, cShown' = [cShown EXCEPT ![s] = C!NoCluster],
               cUnsure' = IF \E p \in Requests \ {q} : cReq[p].pc # "idle" /\ cReq[p].node = s
                          THEN cUnsure ELSE cUnsure \ {s}
        PROVE  ClustersInv'
    <3>1. cReq'[q] = C!Idle /\ \A p \in Requests \ {q} : cReq'[p] = cReq[p]
      BY <1>0, <2>1 DEF ClusterTypes
    <3>2. ClusterTypes'
      BY <1>0, <2>1, <2>2, <2>4, IdleRequest DEF ClusterTypes, C!Clustered
    <3>3. \A t : Unseen(t) => Unseen(t)'
      BY <2>2 DEF Unseen, C!On
    <3>4. JoinsSeen'
      BY <2>2, <3>1, <3>3, IdleRequest DEF ClustersInv, JoinsSeen
    <3>5. \A t, c : Comes(t, c) => Came(t, c)
      BY <2>2 DEF Comes, Came
    <3>6. \A t \in Servers \ cUnsure' : cShown'[t] # C!NoCluster => Came(t, cShown'[t])
      BY <1>0, <2>4, <3>5 DEF ClustersInv, RowsTrue, ClusterTypes
    <3>7. \A p \in Requests \ {q} : (Creates(cReq[p]) \/ Joins(cReq[p])) /\ cReq[p].node \in cUnsure
                                    => cReq[p].node \in cUnsure'
      BY <2>4 DEF Creates, Joins
    <3>8. \A p \in Requests : Creates(cReq'[p]) => cReq'[p].node \in cUnsure' \/ Came(cReq'[p].node, cReq'[p].name)
      BY <3>1, <3>5, <3>7, IdleRequest DEF ClustersInv, RowsTrue
    <3>9. \A p \in Requests : Joins(cReq'[p]) => cReq'[p].node \in cUnsure' \/ cMember'[cReq'[p].node] = cReq'[p].name
      BY <2>2, <3>1, <3>7, IdleRequest DEF ClustersInv, RowsTrue
    <3>10. RowsTrue'
      BY <3>6, <3>8, <3>9 DEF RowsTrue, Comes, Came
    <3>11. \A p \in Requests : Knows(cReq'[p])
      BY <3>1, IdleRequest DEF ClustersInv
    <3> QED BY <2>2, <3>2, <3>4, <3>10, <3>11 DEF ClustersInv, C!GuestsKept
  <2> QED BY <1>2, <2>3, <2>4 DEF C!ClearRow
<1> QED BY <1>1, <1>2

LEMMA TaskEndsKept ==
    ASSUME ClustersInv, C!TaskEnds
    PROVE  ClustersInv'
<1>0. ClusterTypes
  BY DEF ClustersInv
<1>1. UNCHANGED <<cShown, cReq, cSaved, cDestroyed, cUnseen>>
  BY DEF C!TaskEnds
<1>2. PICK k \in cTasks :
        /\ cTasks' = cTasks \ {k}
        /\ \/ /\ cMember[k.node] = C!NoCluster /\ cMember' = [cMember EXCEPT ![k.node] = k.name]
              /\ cOverwritten' = IF k.via = k.node THEN cOverwritten ELSE cOverwritten \union C!On(k.node)
              /\ cAt' = [g \in ClusterGuests |-> IF k.via # k.node /\ cAt[g] = k.node THEN C!Nowhere ELSE cAt[g]]
              /\ UNCHANGED cUnsure
           \/ /\ UNCHANGED <<cMember, cOverwritten, cAt>>
              /\ cUnsure' = IF k.via = k.node THEN cUnsure \union {k.node} ELSE cUnsure
  BY DEF C!TaskEnds
<1>3. k.node \in Servers /\ k.via \in Servers /\ k.name \in C!Names
  BY <1>0, <1>2 DEF ClusterTypes
<1>4. cTasks' \subseteq cTasks /\ cUnsure \subseteq cUnsure'
  BY <1>2
<1>5. ClusterTypes'
  BY <1>0, <1>1, <1>2, <1>3, <1>4 DEF ClusterTypes, C!Clustered, C!Nowhere, Places
<1>6. C!GuestsKept'
  <2>1. k.via # k.node => C!On(k.node) \subseteq cUnseen
    BY DEF ClustersInv, JoinsSeen, Unseen
  <2> QED BY <1>1, <1>2, <2>1 DEF ClustersInv, C!GuestsKept
<1>7. \A s \in Servers : Unseen(s) => Unseen(s)'
  BY <1>0, <1>1, <1>2, PanelAssumption DEF Unseen, C!On, C!Nowhere
<1>8. \A p \in Requests : Asking(cReq[p]) => cReq[p].node \in Servers
  BY DEF ClustersInv, Knows, Asking
<1>9. JoinsSeen'
  BY <1>0, <1>1, <1>4, <1>7, <1>8 DEF ClustersInv, JoinsSeen, ClusterTypes
<1>10. ASSUME NEW s \in Servers, NEW c \in C!Names, s \notin cUnsure', Comes(s, c)
       PROVE  Came(s, c)
  <2>1. CASE cMember[s] = c
    <3>1. C!NoCluster \notin C!Names
      BY DEF C!NoCluster, C!Names
    <3> QED BY <1>0, <1>2, <1>10, <2>1, <3>1 DEF Came, ClusterTypes
  <2>2. CASE k.node = s /\ k.via = s /\ k.name = c
    BY <1>0, <1>2, <1>10, <2>2 DEF Came, ClusterTypes
  <2>3. CASE \E j \in cTasks' : j.node = s /\ j.via = s /\ j.name = c
    BY <2>3 DEF Came
  <2> QED BY <1>2, <1>10, <2>1, <2>2, <2>3 DEF Comes
<1>11. RowsTrue'
  <2>1. \A t \in Servers \ cUnsure' : cShown'[t] # C!NoCluster => Came(t, cShown'[t])
    <3>1. \A t \in Servers : cShown[t] # C!NoCluster => cShown[t] \in C!Names
      BY <1>0 DEF ClusterTypes, C!Clustered
    <3> QED BY <1>1, <1>4, <1>10, <3>1 DEF ClustersInv, RowsTrue
  <2>2. \A p \in Requests : Creates(cReq[p]) \/ Joins(cReq[p]) => cReq[p].node \in Servers /\ cReq[p].name \in C!Names
    BY DEF ClustersInv, Knows, Creates, Joins
  <2>3. \A p \in Requests : Creates(cReq'[p]) => cReq'[p].node \in cUnsure' \/ Came(cReq'[p].node, cReq'[p].name)
    BY <1>1, <1>4, <1>10, <2>2 DEF ClustersInv, RowsTrue
  <2>4. \A p \in Requests : Joins(cReq'[p]) => cReq'[p].node \in cUnsure' \/ cMember'[cReq'[p].node] = cReq'[p].name
    <3>1. C!NoCluster \notin C!Names
      BY DEF C!NoCluster, C!Names
    <3> QED BY <1>0, <1>1, <1>2, <1>4, <2>2, <3>1 DEF ClustersInv, RowsTrue, ClusterTypes
  <2> QED BY <2>1, <2>3, <2>4 DEF RowsTrue, Comes, Came
<1>12. \A p \in Requests : Knows(cReq'[p])
  BY <1>1 DEF ClustersInv
<1> QED BY <1>5, <1>6, <1>9, <1>11, <1>12 DEF ClustersInv

LEMMA AloneKept ==
    ASSUME ClustersInv, C!GuestAppears \/ C!Outside
    PROVE  ClustersInv'
<1>0. ClusterTypes
  BY DEF ClustersInv
<1>1. CASE C!GuestAppears
  <2>1. UNCHANGED <<cMember, cShown, cTasks, cReq, cSaved, cUnsure>>
    BY <1>1 DEF C!GuestAppears
  <2>2. PICK g \in ClusterGuests, s \in Servers :
          /\ cAt[g] = 0 /\ cAt' = [cAt EXCEPT ![g] = s]
          /\ cUnseen' = IF \/ \E q \in Requests : cReq[q].op = "join" /\ cReq[q].node = s
                           \/ \E k \in cTasks : k.node = s
                        THEN cUnseen \union {g} ELSE cUnseen
          /\ cOverwritten' = cOverwritten \ {g} /\ cDestroyed' = cDestroyed \ {g}
    BY <1>1 DEF C!GuestAppears, C!Nowhere
  <2>3. ClusterTypes'
    BY <1>0, <2>1, <2>2 DEF ClusterTypes, Places
  <2>4. \A t \in Servers : C!On(t)' \subseteq C!On(t) \union (IF t = s THEN {g} ELSE {})
    BY <1>0, <2>2 DEF C!On, ClusterTypes
  <2>5. \A q \in Requests : Asking(cReq[q]) => Unseen(cReq[q].node)'
    <3>1. TAKE q \in Requests
    <3>2. HAVE Asking(cReq[q])
    <3>3. cReq[q].node \in Servers /\ cReq[q].op = "join" /\ Unseen(cReq[q].node)
      BY <3>2 DEF ClustersInv, Knows, JoinsSeen, Asking
    <3> QED BY <2>1, <2>2, <2>4, <3>3 DEF Unseen
  <2>6. \A k \in cTasks : k.via # k.node => Unseen(k.node)'
    <3>1. TAKE k \in cTasks
    <3>2. HAVE k.via # k.node
    <3>3. k.node \in Servers /\ Unseen(k.node)
      BY <1>0, <3>2 DEF ClustersInv, ClusterTypes, JoinsSeen
    <3> QED BY <2>2, <2>4, <3>3 DEF Unseen
  <2>7. JoinsSeen'
    BY <2>1, <2>5, <2>6 DEF JoinsSeen
  <2>8. RowsTrue'
    BY <2>1 DEF ClustersInv, RowsTrue, Comes
  <2> QED BY <2>1, <2>2, <2>3, <2>7, <2>8 DEF ClustersInv, C!GuestsKept
<1>2. CASE C!Outside
  <2>1. UNCHANGED <<cShown, cTasks, cAt, cReq, cSaved, cDestroyed, cOverwritten, cUnseen>>
    BY <1>2 DEF C!Outside
  <2>2. PICK s \in Servers, c \in C!Clustered :
          cMember' = [cMember EXCEPT ![s] = c] /\ cUnsure' = cUnsure \union {s}
    BY <1>2 DEF C!Outside, C!Clustered
  <2>3. ClusterTypes'
    BY <1>0, <2>1, <2>2 DEF ClusterTypes
  <2>4. JoinsSeen'
    BY <2>1 DEF ClustersInv, JoinsSeen, Unseen, C!On
  <2>5. \A t : t # s => cMember'[t] = cMember[t]
    BY <1>0, <2>2 DEF ClusterTypes
  <2>6. RowsTrue'
    BY <2>1, <2>2, <2>5 DEF ClustersInv, RowsTrue, Comes
  <2> QED BY <2>1, <2>3, <2>4, <2>6 DEF ClustersInv, C!GuestsKept
<1> QED BY <1>1, <1>2

LEMMA ClustersKept == ClustersInv /\ [C!Next]_(C!vars) => ClustersInv'
<1> SUFFICES ASSUME ClustersInv, [C!Next]_(C!vars) PROVE ClustersInv'
  OBVIOUS
<1>1. CASE C!Next
  BY <1>1, BeginsKept, CreationKept, JoinKept, JoinEndsKept, LinkKept, DeleteKept, EjectionKept,
     TaskEndsKept, AloneKept DEF C!Next
<1>2. CASE UNCHANGED C!vars
  BY <1>2 DEF C!vars, ClustersInv, ClusterTypes, Knows, C!GuestsKept, JoinsSeen, Asking, Unseen, C!On, RowsTrue,
              Creates, Joins, Comes
<1> QED BY <1>1, <1>2

\* A request under way is about a server, and what is remembered is about
\* guests and servers there are.
HistoriesTyped ==
    /\ \A q \in Requests : cReq[q].pc # "idle" => cReq[q].node \in Servers
    /\ cOverwritten \subseteq ClusterGuests /\ cUnseen \subseteq ClusterGuests /\ cUnsure \subseteq Servers
    /\ cEvents \in 0..MaxEvents

LEMMA HistoriesKept == ClustersInv /\ HistoriesTyped /\ [C!Next]_(C!vars) => HistoriesTyped'
<1> SUFFICES ASSUME ClustersInv, HistoriesTyped, [C!Next]_(C!vars) PROVE HistoriesTyped'
  OBVIOUS
<1>1. /\ MaxEvents \in Nat /\ cReq \in [Requests -> ClusterRequests]
      /\ \A s : C!On(s) \subseteq ClusterGuests
      /\ C!Idle.pc = "idle"
  BY PanelAssumption DEF ClustersInv, ClusterTypes, C!On, C!Idle
\* A request begins about a server, and goes on about it.
<1>2. ASSUME NEW q \in Requests, NEW r, cReq' = [cReq EXCEPT ![q] = r], r.pc = "idle" \/ r.node \in Servers
      PROVE  \A p \in Requests : cReq'[p].pc # "idle" => cReq'[p].node \in Servers
  BY <1>1, <1>2 DEF HistoriesTyped
<1>3. ASSUME NEW q \in Requests, cReq[q].pc # "idle", C!Answer(q) \/ \E pc : C!GoTo(q, pc)
      PROVE  \A p \in Requests : cReq'[p].pc # "idle" => cReq'[p].node \in Servers
  <2>1. cReq[q].node \in Servers
    BY <1>3 DEF HistoriesTyped
  <2>2. CASE C!Answer(q)
    BY <1>1, <1>2, <2>2 DEF C!Answer, C!Set
  <2>3. ASSUME NEW pc, C!GoTo(q, pc)
        PROVE  \A p \in Requests : cReq'[p].pc # "idle" => cReq'[p].node \in Servers
    <3>1. cReq' = [cReq EXCEPT ![q] = [cReq[q] EXCEPT !.pc = pc]]
      BY <2>3 DEF C!GoTo
    <3>2. [cReq[q] EXCEPT !.pc = pc].node = cReq[q].node
      BY <1>1 DEF ClusterRequests
    <3> HIDE DEF HistoriesTyped
    <3> QED BY <1>2, <2>1, <3>1, <3>2
  <2> QED BY <1>3, <2>2, <2>3
<1>4. ASSUME NEW q \in Requests, C!Create(q) \/ C!Prepare(q) \/ C!Join(q) \/ C!Import(q) \/ C!Eject(q)
      PROVE  HistoriesTyped'
  <2>1. PICK r : C!Begin(q, r) /\ r.node \in Servers
    <3>1. CASE C!Create(q)
      <4>1. PICK s, x : s \in Servers /\ C!Begin(q, [C!Idle EXCEPT !.pc = "ask", !.node = s, !.name = x])
        BY <3>1 DEF C!Create
      <4>2. [C!Idle EXCEPT !.pc = "ask", !.node = s, !.name = x].node = s
        BY DEF C!Idle
      <4> QED BY <4>1, <4>2
    <3>2. CASE C!Prepare(q)
      <4>1. PICK s, n, seen :
              s \in Servers
              /\ C!Begin(q, [C!Idle EXCEPT !.op = "prepare", !.pc = IF seen = {} THEN "idle" ELSE "backup",
                                           !.node = s, !.via = n, !.todo = seen])
        BY <3>2 DEF C!Prepare
      <4>2. [C!Idle EXCEPT !.op = "prepare", !.pc = IF seen = {} THEN "idle" ELSE "backup",
                           !.node = s, !.via = n, !.todo = seen].node = s
        BY DEF C!Idle
      <4> QED BY <4>1, <4>2
    <3>3. CASE C!Join(q)
      <4>1. PICK s, x : s \in Servers /\ C!Begin(q, [C!Idle EXCEPT !.op = "join", !.pc = "list", !.node = s, !.via = x, !.name = cShown[x]])
        BY <3>3 DEF C!Join
      <4>2. [C!Idle EXCEPT !.op = "join", !.pc = "list", !.node = s, !.via = x, !.name = cShown[x]].node = s
        BY DEF C!Idle
      <4> QED BY <4>1, <4>2
    <3>4. CASE C!Import(q)
      <4>1. PICK s, x : s \in Servers /\ C!Begin(q, [C!Idle EXCEPT !.op = "import", !.pc = "link", !.node = s, !.name = cMember[s],
                                           !.todo = x])
        BY <3>4 DEF C!Import
      <4>2. [C!Idle EXCEPT !.op = "import", !.pc = "link", !.node = s, !.name = cMember[s],
                                           !.todo = x].node = s
        BY DEF C!Idle
      <4> QED BY <4>1, <4>2
    <3>5. CASE C!Eject(q)
      <4>1. PICK s, x : s \in Servers /\ C!Begin(q, [C!Idle EXCEPT !.op = "eject", !.pc = "remove", !.node = s, !.via = x, !.name = cShown[x]])
        BY <3>5 DEF C!Eject
      <4>2. [C!Idle EXCEPT !.op = "eject", !.pc = "remove", !.node = s, !.via = x, !.name = cShown[x]].node = s
        BY DEF C!Idle
      <4> QED BY <4>1, <4>2
    <3> QED BY <1>4, <3>1, <3>2, <3>3, <3>4, <3>5
  <2>2. cReq' = [cReq EXCEPT ![q] = r] /\ cEvents' \in 0..MaxEvents
    BY <1>1, <2>1 DEF C!Begin, C!Set, C!Event, HistoriesTyped
  <2>3. UNCHANGED <<cOverwritten, cUnseen, cUnsure>>
    BY <1>4 DEF C!Create, C!Prepare, C!Join, C!Import, C!Eject, C!world
  <2> QED BY <1>2, <2>1, <2>2, <2>3 DEF HistoriesTyped
<1>5. ASSUME NEW q \in Requests,
             \/ C!PostCreate(q) \/ C!CommitCreate(q) \/ C!Backups(q) \/ C!PostJoin(q) \/ C!CommitJoin(q)
      PROVE  HistoriesTyped'
  <2>1. cReq[q].pc # "idle" /\ (C!Answer(q) \/ \E pc : C!GoTo(q, pc))
    BY <1>5 DEF C!PostCreate, C!CommitCreate, C!Backups, C!PostJoin, C!CommitJoin, C!At
  <2>2. UNCHANGED <<cOverwritten, cUnseen, cUnsure, cEvents>>
    BY <1>5 DEF C!PostCreate, C!CommitCreate, C!Backups, C!PostJoin, C!CommitJoin, C!world
  <2> QED BY <1>3, <2>1, <2>2 DEF HistoriesTyped
<1>6. ASSUME NEW q \in Requests, C!Confirm(q) \/ C!Link(q) \/ C!RemoveNode(q) \/ C!ClearRow(q) PROVE HistoriesTyped'
  <2>1. cReq[q].pc # "idle" /\ (C!Answer(q) \/ \E pc : C!GoTo(q, pc))
    BY <1>6 DEF C!Confirm, C!Link, C!RemoveNode, C!ClearRow, C!At
  <2>2. UNCHANGED <<cOverwritten, cUnseen, cEvents>>
    BY <1>6 DEF C!Confirm, C!Link, C!RemoveNode, C!ClearRow, C!world
  <2>3. cUnsure' \subseteq cUnsure \union {cReq[q].node} \union Servers
    BY <1>6 DEF C!Confirm, C!Link, C!RemoveNode, C!ClearRow
  <2>4. cReq[q].node \in Servers
    BY <2>1 DEF HistoriesTyped
  <2> QED BY <1>3, <2>1, <2>2, <2>3, <2>4 DEF HistoriesTyped
<1>7. ASSUME NEW q \in Requests, C!Delete(q) \/ C!ListGuests(q) \/ C!JoinInfo(q) PROVE HistoriesTyped'
  <2>1. cReq[q].node \in Servers
    BY <1>7 DEF C!Delete, C!ListGuests, C!JoinInfo, C!At, HistoriesTyped
  <2>2. \E r : cReq' = [cReq EXCEPT ![q] = r] /\ (r.pc = "idle" \/ r.node = cReq[q].node)
    <3>1. cReq[q] \in ClusterRequests
      BY <1>1
    <3>2. CASE C!Answer(q)
      BY <1>1, <3>2 DEF C!Answer, C!Set
    <3>3. ASSUME NEW g, cReq' = [cReq EXCEPT ![q].todo = @ \ {g}]
          PROVE  \E r : cReq' = [cReq EXCEPT ![q] = r] /\ (r.pc = "idle" \/ r.node = cReq[q].node)
      <4>1. cReq' = [cReq EXCEPT ![q] = [cReq[q] EXCEPT !.todo = cReq[q].todo \ {g}]]
        BY <3>3
      <4>2. [cReq[q] EXCEPT !.todo = cReq[q].todo \ {g}].node = cReq[q].node
        BY <3>1 DEF ClusterRequests
      <4> QED BY <4>1, <4>2
    <3>4. ASSUME NEW n, cReq' = [cReq EXCEPT ![q] = [cReq[q] EXCEPT !.pc = "info", !.todo = {n}]]
          PROVE  \E r : cReq' = [cReq EXCEPT ![q] = r] /\ (r.pc = "idle" \/ r.node = cReq[q].node)
      <4>1. [cReq[q] EXCEPT !.pc = "info", !.todo = {n}].node = cReq[q].node
        BY <3>1 DEF ClusterRequests
      <4> QED BY <3>4, <4>1
    <3>5. ASSUME NEW n, cReq' = [cReq EXCEPT ![q] = [cReq[q] EXCEPT !.pc = "post", !.name = n]]
          PROVE  \E r : cReq' = [cReq EXCEPT ![q] = r] /\ (r.pc = "idle" \/ r.node = cReq[q].node)
      <4>1. [cReq[q] EXCEPT !.pc = "post", !.name = n].node = cReq[q].node
        BY <3>1 DEF ClusterRequests
      <4> QED BY <3>5, <4>1
    <3>6. CASE C!Delete(q)
      BY <3>2, <3>3, <3>6 DEF C!Delete, C!Removed
    <3>7. CASE C!ListGuests(q)
      BY <3>2, <3>4, <3>7 DEF C!ListGuests, C!Set
    <3>8. CASE C!JoinInfo(q)
      BY <3>2, <3>5, <3>8 DEF C!JoinInfo, C!Set
    <3> QED BY <1>7, <3>6, <3>7, <3>8
  <2>3. UNCHANGED <<cOverwritten, cUnsure, cEvents>> /\ cUnseen' \subseteq ClusterGuests
    BY <1>1, <1>7 DEF C!Delete, C!ListGuests, C!JoinInfo, C!world, HistoriesTyped
  <2> QED BY <1>2, <2>1, <2>2, <2>3 DEF HistoriesTyped
<1>8. CASE C!TaskEnds
  <2>1. UNCHANGED <<cReq, cUnseen, cEvents>>
    BY <1>8 DEF C!TaskEnds
  <2>2. \A k \in cTasks : k.node \in Servers
    BY DEF ClustersInv, ClusterTypes
  <2>3. cOverwritten' \subseteq ClusterGuests /\ cUnsure' \subseteq Servers
    BY <1>1, <1>8, <2>2 DEF C!TaskEnds, HistoriesTyped
  <2> QED BY <2>1, <2>3 DEF HistoriesTyped
<1>9. CASE C!GuestAppears
  BY <1>1, <1>9 DEF C!GuestAppears, C!Event, HistoriesTyped
<1>10. CASE C!Outside
  BY <1>1, <1>10 DEF C!Outside, C!Event, HistoriesTyped
<1>11. CASE UNCHANGED C!vars
  BY <1>11 DEF C!vars, HistoriesTyped
<1> QED BY <1>4, <1>5, <1>6, <1>7, <1>8, <1>9, <1>10, <1>11 DEF C!Next

LEMMA ClustersTypes == ClustersInv /\ HistoriesTyped => C!TypeOK
  BY DEF ClustersInv, ClusterTypes, ClusterRequests, Places, HistoriesTyped, C!GuestsKept, C!Nowhere, C!TypeOK

\* However requests cross, a server that is shown in a cluster is in it or on its way
\* there, but where that was changed outside, a creation failed, a name was taken for
\* another's or the ejection has not come to the row; and no guest goes without a
\* backup when a node is emptied or joins.
THEOREM ClustersHold == Spec => []ClusterTrue
<1> DEFINE Inv == part = "clusters" => ClustersInv
<1>1. Init => Inv
  BY ClustersInit DEF Init
<1>2. Inv /\ [Next]_vars => Inv'
  <2> SUFFICES ASSUME Inv, [Next]_vars, part' = "clusters" PROVE ClustersInv'
    OBVIOUS
  <2>1. part = "clusters" /\ [C!Next]_(C!vars)
    BY EachItsOwn
  <2> QED BY <2>1, ClustersKept
<1>3. Inv => ClusterTrue
  BY DEF ClustersInv, RowsTrue, Comes, ClusterTrue, C!MembershipTrue
<1> QED BY <1>1, <1>2, <1>3, PTL DEF Spec

-----------------------------------------------------------------------------
(* The migrations of the database.                                         *)
mDb == v1
mTx == v2
mAt == v3
mFailed == v4
mEvents == v5
USE DEF mDb, mTx, mAt, mFailed, mEvents

SourcePair == M!Column.source
PrimaryPair == M!Column.primary

\* A statement that stops the start at no table of the models, brings a column
\* of theirs, or fills what may be filled every time; it leaves alone the two
\* columns whose values come with them.
SoundStatement(s) ==
    /\ s.kind \in {"only if", "create", "add", "fill", "other"}
    /\ s.kind = "only if" => s.c = "id" /\ s.t \in M!Tables
    /\ s.kind \in {"create", "add"} => <<s.t, s.c>> \in M!Models \ {SourcePair, PrimaryPair}
    /\ s.kind = "fill" => s.c \in {"icon", "workspace", "owner"}

\* A migration of such statements, and one that goes no further when what it
\* makes is there.
Plain(m) == Len(m) \in Nat /\ DOMAIN m = 1..Len(m) /\ \A j \in 1..Len(m) : SoundStatement(m[j])
Guarded(m) ==
    /\ Len(m) = 3 /\ DOMAIN m = 1..3
    /\ m[1].kind = "unless"
    /\ SoundStatement(m[2]) /\ m[2].kind \in {"create", "add"} /\ m[2].t = m[1].t /\ m[2].c = m[1].c
    /\ m[3].kind = "other"
Brings(m, t, c) == \E j \in 1..Len(m) : m[j].kind = "add" /\ m[j].t = t /\ m[j].c = c

-----------------------------------------------------------------------------
LEMMA ModelsAre ==
    /\ \A t \in M!Tables : <<t, "id">> \in M!Models
    /\ \A t \in M!Tables : \A c \in M!Later[t] : <<t, c>> \in M!Models
    /\ \A p \in M!Models : \E t \in M!Tables : p = <<t, "id">> \/ \E c \in M!Later[t] : p = <<t, c>>
  BY DEF M!Models, M!Whole

LEMMA TablesAre ==
    /\ {"users", "proxmox_servers", "os_templates", "vm_instances", "audit_logs", "ipam_networks",
        "ipam_allocations", "proxmox_tasks", "deploy_tasks", "catalog_apps", "installed_apps",
        "app_operations", "script_git_repos"} \subseteq M!Tables
    /\ {"notifications", "roles", "active_sessions", "task_queue", "vm_snapshot_archives",
        "backup_jobs", "workspaces", "user_servers", "user_ssh_keys", "password_reset_tokens",
        "user_quotas", "os_template_groups"} \subseteq M!Tables
  BY DEF M!Tables

LEMMA LaterIs ==
    /\ M!Later["users"] = {"login", "ssh_public_key", "language", "two_factor"}
    /\ M!Later["proxmox_servers"] = {"cluster_name", "last_error_kind"}
    /\ M!Later["os_templates"] = {"source_node", "kinds"}
    /\ M!Later["vm_instances"] = {"cache", "template_name", "owner_id"}
    /\ M!Later["audit_logs"] = {"context"}
    /\ M!Later["ipam_networks"] = {"proxmox_node", "workspace_id", "is_default"}
    /\ M!Later["ipam_allocations"] = {"is_primary", "alias"}
    /\ M!Later["proxmox_tasks"] = {"progress"}
    /\ M!Later["deploy_tasks"] = {"kind", "target_server_id"}
    /\ M!Later["catalog_apps"] = {"source", "data_files", "default_credentials"}
    /\ M!Later["installed_apps"] = {"snapshot_version"}
    /\ M!Later["app_operations"] = {"server_id"}
    /\ M!Later["script_git_repos"] = {"metadata_format"}
    /\ \A t \in M!Tables \ {"users", "proxmox_servers", "os_templates", "vm_instances", "audit_logs",
            "ipam_networks", "ipam_allocations", "proxmox_tasks", "deploy_tasks", "catalog_apps",
            "installed_apps", "app_operations", "script_git_repos"} : M!Later[t] = {}
<1>1. /\ M!Later["users"] = {"login", "ssh_public_key", "language", "two_factor"}
      /\ M!Later["proxmox_servers"] = {"cluster_name", "last_error_kind"}
      /\ M!Later["os_templates"] = {"source_node", "kinds"}
      /\ M!Later["vm_instances"] = {"cache", "template_name", "owner_id"}
      /\ M!Later["audit_logs"] = {"context"}
  BY TablesAre DEF M!Later
<1>2. /\ M!Later["ipam_networks"] = {"proxmox_node", "workspace_id", "is_default"}
      /\ M!Later["ipam_allocations"] = {"is_primary", "alias"}
      /\ M!Later["proxmox_tasks"] = {"progress"}
      /\ M!Later["deploy_tasks"] = {"kind", "target_server_id"}
  BY TablesAre DEF M!Later
<1>3. /\ M!Later["catalog_apps"] = {"source", "data_files", "default_credentials"}
      /\ M!Later["installed_apps"] = {"snapshot_version"}
      /\ M!Later["app_operations"] = {"server_id"}
      /\ M!Later["script_git_repos"] = {"metadata_format"}
  BY TablesAre DEF M!Later
<1>4. \A t \in M!Tables \ {"users", "proxmox_servers", "os_templates", "vm_instances", "audit_logs",
            "ipam_networks", "ipam_allocations", "proxmox_tasks", "deploy_tasks", "catalog_apps",
            "installed_apps", "app_operations", "script_git_repos"} : M!Later[t] = {}
  BY DEF M!Later
<1> QED BY <1>1, <1>2, <1>3, <1>4

LEMMA ColumnsAre ==
    /\ SourcePair = <<"os_templates", "source_node">> /\ PrimaryPair = <<"ipam_allocations", "is_primary">>
    /\ M!Data = {"source", "primary", "workspace", "owner", "icon"}
    /\ M!Column["source"] = SourcePair /\ M!Column["primary"] = PrimaryPair
    /\ \A x \in {"workspace", "owner", "icon"} : M!Column[x] # SourcePair /\ M!Column[x] # PrimaryPair
  BY DEF M!Column, M!Data, SourcePair, PrimaryPair

\* What the statements are.
LEMMA StatementsAre ==
    ASSUME NEW kind, NEW t, NEW c
    PROVE  LET s == M!Stmt(kind, t, c)
           IN  /\ s.kind = kind /\ s.t = t /\ s.c = c
               /\ M!Tried(s).kind = kind /\ M!Tried(s).t = t /\ M!Tried(s).c = c
  BY DEF M!Stmt, M!Tried

LEMMA SoundOnlyIf ==
    ASSUME NEW t \in M!Tables
    PROVE  SoundStatement(M!OnlyIf(t))
<1> DEFINE s == M!Stmt("only if", t, "id")
<1>1. s.kind = "only if" /\ s.t = t /\ s.c = "id"
  BY StatementsAre DEF M!Stmt
<1> HIDE DEF s
<1>2. SoundStatement(s)
  BY <1>1 DEF SoundStatement
<1> QED BY <1>2 DEF s, M!OnlyIf

LEMMA SoundCreate ==
    ASSUME NEW t \in M!Tables
    PROVE  SoundStatement(M!Create(t))
<1> DEFINE s == M!Stmt("create", t, "id")
<1>1. s.kind = "create" /\ s.t = t /\ s.c = "id"
  BY StatementsAre DEF M!Stmt
<1> HIDE DEF s
<1>2. <<t, "id">> \in M!Models /\ <<t, "id">> # SourcePair /\ <<t, "id">> # PrimaryPair
  BY ModelsAre, ColumnsAre
<1>3. SoundStatement(s)
  BY <1>1, <1>2 DEF SoundStatement
<1> QED BY <1>3 DEF s, M!Create

LEMMA SoundAdd ==
    ASSUME NEW t \in M!Tables, NEW c \in M!Later[t], <<t, c>> # SourcePair, <<t, c>> # PrimaryPair
    PROVE  SoundStatement(M!Add(t, c)) /\ SoundStatement(M!Tried(M!Add(t, c)))
<1> DEFINE s == M!Stmt("add", t, c)
           r == M!Tried(s)
<1>1. s.kind = "add" /\ s.t = t /\ s.c = c /\ r.kind = "add" /\ r.t = t /\ r.c = c
  BY StatementsAre DEF M!Stmt
<1>2. SoundStatement(s) /\ SoundStatement(r)
  <2> HIDE DEF s, r
  <2>1. <<t, c>> \in M!Models
    BY ModelsAre
  <2> QED BY <1>1, <2>1 DEF SoundStatement
<1> QED BY <1>2 DEF M!Add

LEMMA SoundFill ==
    ASSUME NEW x \in {"icon", "workspace", "owner"}
    PROVE  SoundStatement(M!Fill(x)) /\ SoundStatement(M!Tried(M!Fill(x)))
<1> DEFINE s == M!Stmt("fill", M!Column[x][1], x)
           r == M!Tried(s)
<1>1. s.kind = "fill" /\ s.c = x /\ r.kind = "fill" /\ r.c = x
  BY StatementsAre DEF M!Stmt
<1>2. SoundStatement(s) /\ SoundStatement(r)
  <2> HIDE DEF s, r
  <2> QED BY <1>1 DEF SoundStatement
<1> QED BY <1>2 DEF M!Fill

LEMMA SoundOther == SoundStatement(M!Other) /\ SoundStatement(M!Tried(M!Other)) /\ M!Other.kind = "other"
<1> DEFINE s == M!Stmt("other", "roles", "id")
           r == M!Tried(s)
<1>1. s.kind = "other" /\ r.kind = "other"
  BY StatementsAre DEF M!Stmt
<1>2. SoundStatement(s) /\ SoundStatement(r)
  <2> HIDE DEF s, r
  <2> QED BY <1>1 DEF SoundStatement
<1> QED BY <1>1, <1>2 DEF M!Other

LEMMA GuardedTables ==
    ASSUME NEW t \in M!Tables
    PROVE  Guarded(M!NewTable(t))
<1> DEFINE a == M!Stmt("unless", t, "id")
           b == M!Create(t)
           c == M!Other
<1>1. a.kind = "unless" /\ a.t = t /\ a.c = "id"
  BY StatementsAre DEF M!Stmt
<1>2. b.kind = "create" /\ b.t = t /\ b.c = "id"
  BY StatementsAre DEF M!Create, M!Stmt
<1>3. SoundStatement(b) /\ c.kind = "other"
  BY SoundCreate, SoundOther
<1>4. M!NewTable(t) = <<a, b, c>>
  BY DEF M!NewTable, M!Unless
<1> HIDE DEF a, b, c
<1> QED BY <1>1, <1>2, <1>3, <1>4 DEF Guarded

\* Sequences of up to four sound statements.
LEMMA PlainShapes ==
    /\ \A a : SoundStatement(a) => Plain(<<a>>)
    /\ \A a, b : SoundStatement(a) /\ SoundStatement(b) => Plain(<<a, b>>)
    /\ \A a, b, c : SoundStatement(a) /\ SoundStatement(b) /\ SoundStatement(c) => Plain(<<a, b, c>>)
    /\ \A a, b, c, d : SoundStatement(a) /\ SoundStatement(b) /\ SoundStatement(c) /\ SoundStatement(d)
          => Plain(<<a, b, c, d>>)
  BY DEF Plain

\* An addition to a table, in each place of a sequence.
LEMMA AddsAre ==
    ASSUME NEW t, NEW c
    PROVE  LET s == M!Add(t, c)
           IN  /\ s.kind = "add" /\ s.t = t /\ s.c = c
               /\ M!Tried(s).kind = "add" /\ M!Tried(s).t = t /\ M!Tried(s).c = c
  BY StatementsAre DEF M!Add, M!Stmt

LEMMA BringShapes ==
    ASSUME NEW t, NEW c, NEW x \in {M!Add(t, c), M!Tried(M!Add(t, c))}
    PROVE  /\ \A a : Brings(<<x>>, t, c) /\ Brings(<<a, x>>, t, c)
           /\ \A a, b : Brings(<<a, x, b>>, t, c) /\ Brings(<<x, a>>, t, c)
           /\ \A a, b, d : Brings(<<a, x, b, d>>, t, c) /\ Brings(<<a, b, x, d>>, t, c) /\ Brings(<<a, d, b, x>>, t, c)
           /\ \A a, b : Brings(<<a, b, x>>, t, c)
           /\ \A a, b, d, e : Brings(<<a, x, b, d, e>>, t, c) /\ Brings(<<a, b, d, x, e>>, t, c)
<1>1. x.kind = "add" /\ x.t = t /\ x.c = c
  BY AddsAre
<1> QED BY <1>1 DEF Brings

LEMMA Joined ==
    ASSUME NEW a, NEW b, NEW d
    PROVE  <<a, b>> \o <<d>> = <<a, b, d>>
<1> DEFINE r == <<a, b>> \o <<d>>
           s == <<a, b, d>>
<1>1. r \in Seq({a, b, d}) /\ s \in Seq({a, b, d})
  OBVIOUS
<1>2. Len(r) = 3 /\ Len(s) = 3 /\ \A i \in 1..3 : r[i] = s[i]
  OBVIOUS
<1> HIDE DEF r, s
<1>3. r = s
  BY <1>1, <1>2, SeqEqual
<1> QED BY <1>3 DEF r, s

LEMMA PlainColumns ==
    ASSUME NEW t \in M!Tables, NEW c \in M!Later[t], <<t, c>> # SourcePair, <<t, c>> # PrimaryPair
    PROVE  /\ Plain(M!NewColumn(t, c)) /\ Brings(M!NewColumn(t, c), t, c)
           /\ Plain(M!NewColumn(t, c) \o <<M!Tried(M!Other)>>)
           /\ Brings(M!NewColumn(t, c) \o <<M!Tried(M!Other)>>, t, c)
<1> DEFINE a == M!OnlyIf(t)
           b == M!Add(t, c)
           d == M!Tried(M!Other)
<1>1. SoundStatement(a) /\ SoundStatement(b) /\ SoundStatement(d)
  BY SoundOnlyIf, SoundAdd, SoundOther
<1>2. M!NewColumn(t, c) = <<a, b>>
  BY DEF M!NewColumn
<1>3. Brings(<<a, b>>, t, c) /\ Brings(<<a, b, d>>, t, c)
  BY BringShapes
<1> HIDE DEF a, b, d
<1>4. <<a, b>> \o <<d>> = <<a, b, d>>
  BY Joined
<1> QED BY <1>1, <1>2, <1>3, <1>4, PlainShapes DEF d

LEMMA MigrationsPlain ==
    /\ Plain(M!RbacSecurity) /\ Brings(M!RbacSecurity, "users", "login")
    /\ Plain(M!OsTemplateIcons)
    /\ Plain(M!RbacV2)
    /\ Plain(M!VmInstanceOwner) /\ Brings(M!VmInstanceOwner, "vm_instances", "owner_id")
    /\ Plain(M!UserSshKey) /\ Brings(M!UserSshKey, "users", "ssh_public_key")
    /\ Plain(M!GitRepositorySetting)
    /\ Plain(M!EncryptPasswords)
    /\ Plain(M!ClusterSupport) /\ Brings(M!ClusterSupport, "proxmox_servers", "cluster_name")
    /\ Plain(M!RemoveDashboard)
    /\ Plain(M!DeployTasks)
    /\ Plain(M!UserLanguage) /\ Brings(M!UserLanguage, "users", "language")
    /\ Plain(M!GranularPermissions)
    /\ Plain(M!TwoFactor) /\ Brings(M!TwoFactor, "users", "two_factor")
    /\ Plain(M!AppstoreInstalled) /\ Brings(M!AppstoreInstalled, "installed_apps", "snapshot_version")
    /\ Plain(M!IpamNetworkWorkspace) /\ Brings(M!IpamNetworkWorkspace, "ipam_networks", "workspace_id") /\ Brings(M!IpamNetworkWorkspace, "ipam_networks", "is_default")
    /\ Plain(M!DeployTasksTarget) /\ Brings(M!DeployTasksTarget, "deploy_tasks", "target_server_id")
    /\ Plain(M!BackfillOwner)
    /\ Plain(M!SettingView)
    /\ Plain(M!CoolifyPermissions)
<1>1. Plain(M!RbacSecurity) /\ Brings(M!RbacSecurity, "users", "login")
  <2> DEFINE a == M!Create("roles")
             b == M!Create("active_sessions")
             c == M!Tried(M!Add("users", "login"))
             d == M!Tried(M!Other)
  <2>1. M!RbacSecurity = <<a, b, c, d>>
    BY DEF M!RbacSecurity
  <2>2. SoundStatement(a) /\ SoundStatement(b) /\ SoundStatement(c) /\ SoundStatement(d)
    BY TablesAre, LaterIs, ColumnsAre, SoundOnlyIf, SoundCreate, SoundAdd, SoundFill, SoundOther
  <2>3. Brings(<<a, b, c, d>>, "users", "login")
    BY BringShapes
  <2> HIDE DEF a, b, c, d
  <2> QED BY <2>1, <2>2, <2>3, PlainShapes
<1>2. Plain(M!OsTemplateIcons)
  <2> DEFINE a == M!OnlyIf("os_template_groups")
             b == M!Tried(M!Other)
             c == M!Tried(M!Fill("icon"))
  <2>1. M!OsTemplateIcons = <<a, b, c>>
    BY DEF M!OsTemplateIcons
  <2>2. SoundStatement(a) /\ SoundStatement(b) /\ SoundStatement(c)
    BY TablesAre, LaterIs, ColumnsAre, SoundOnlyIf, SoundCreate, SoundAdd, SoundFill, SoundOther
  <2> HIDE DEF a, b, c
  <2> QED BY <2>1, <2>2, PlainShapes
<1>3. Plain(M!RbacV2)
  <2> DEFINE a == M!OnlyIf("roles")
             b == M!Other
  <2>1. M!RbacV2 = <<a, b>>
    BY DEF M!RbacV2
  <2>2. SoundStatement(a) /\ SoundStatement(b)
    BY TablesAre, LaterIs, ColumnsAre, SoundOnlyIf, SoundCreate, SoundAdd, SoundFill, SoundOther
  <2> HIDE DEF a, b
  <2> QED BY <2>1, <2>2, PlainShapes
<1>4. Plain(M!VmInstanceOwner) /\ Brings(M!VmInstanceOwner, "vm_instances", "owner_id")
  <2> DEFINE a == M!OnlyIf("vm_instances")
             b == M!Tried(M!Add("vm_instances", "owner_id"))
             c == M!Tried(M!Other)
  <2>1. M!VmInstanceOwner = <<a, b, c>>
    BY DEF M!VmInstanceOwner
  <2>2. SoundStatement(a) /\ SoundStatement(b) /\ SoundStatement(c)
    BY TablesAre, LaterIs, ColumnsAre, SoundOnlyIf, SoundCreate, SoundAdd, SoundFill, SoundOther
  <2>3. Brings(<<a, b, c>>, "vm_instances", "owner_id")
    BY BringShapes
  <2> HIDE DEF a, b, c
  <2> QED BY <2>1, <2>2, <2>3, PlainShapes
<1>5. Plain(M!UserSshKey) /\ Brings(M!UserSshKey, "users", "ssh_public_key")
  <2> DEFINE a == M!Add("users", "ssh_public_key")
  <2>1. M!UserSshKey = <<a>>
    BY DEF M!UserSshKey
  <2>2. SoundStatement(a)
    BY TablesAre, LaterIs, ColumnsAre, SoundOnlyIf, SoundCreate, SoundAdd, SoundFill, SoundOther
  <2>3. Brings(<<a>>, "users", "ssh_public_key")
    BY BringShapes
  <2> HIDE DEF a
  <2> QED BY <2>1, <2>2, <2>3, PlainShapes
<1>6. Plain(M!GitRepositorySetting)
  <2> DEFINE a == M!Other
  <2>1. M!GitRepositorySetting = <<a>>
    BY DEF M!GitRepositorySetting
  <2>2. SoundStatement(a)
    BY TablesAre, LaterIs, ColumnsAre, SoundOnlyIf, SoundCreate, SoundAdd, SoundFill, SoundOther
  <2> HIDE DEF a
  <2> QED BY <2>1, <2>2, PlainShapes
<1>7. Plain(M!EncryptPasswords)
  <2> DEFINE a == M!Other
  <2>1. M!EncryptPasswords = <<a>>
    BY DEF M!EncryptPasswords
  <2>2. SoundStatement(a)
    BY TablesAre, LaterIs, ColumnsAre, SoundOnlyIf, SoundCreate, SoundAdd, SoundFill, SoundOther
  <2> HIDE DEF a
  <2> QED BY <2>1, <2>2, PlainShapes
<1>8. Plain(M!ClusterSupport) /\ Brings(M!ClusterSupport, "proxmox_servers", "cluster_name")
  <2> DEFINE a == M!Add("proxmox_servers", "cluster_name")
             b == M!Tried(M!Other)
  <2>1. M!ClusterSupport = <<a, b>>
    BY DEF M!ClusterSupport
  <2>2. SoundStatement(a) /\ SoundStatement(b)
    BY TablesAre, LaterIs, ColumnsAre, SoundOnlyIf, SoundCreate, SoundAdd, SoundFill, SoundOther
  <2>3. Brings(<<a, b>>, "proxmox_servers", "cluster_name")
    BY BringShapes
  <2> HIDE DEF a, b
  <2> QED BY <2>1, <2>2, <2>3, PlainShapes
<1>9. Plain(M!RemoveDashboard)
  <2> DEFINE a == M!OnlyIf("roles")
             b == M!Other
  <2>1. M!RemoveDashboard = <<a, b>>
    BY DEF M!RemoveDashboard
  <2>2. SoundStatement(a) /\ SoundStatement(b)
    BY TablesAre, LaterIs, ColumnsAre, SoundOnlyIf, SoundCreate, SoundAdd, SoundFill, SoundOther
  <2> HIDE DEF a, b
  <2> QED BY <2>1, <2>2, PlainShapes
<1>10. Plain(M!DeployTasks)
  <2> DEFINE a == M!Create("deploy_tasks")
             b == M!Other
  <2>1. M!DeployTasks = <<a, b>>
    BY DEF M!DeployTasks
  <2>2. SoundStatement(a) /\ SoundStatement(b)
    BY TablesAre, LaterIs, ColumnsAre, SoundOnlyIf, SoundCreate, SoundAdd, SoundFill, SoundOther
  <2> HIDE DEF a, b
  <2> QED BY <2>1, <2>2, PlainShapes
<1>11. Plain(M!UserLanguage) /\ Brings(M!UserLanguage, "users", "language")
  <2> DEFINE a == M!Add("users", "language")
  <2>1. M!UserLanguage = <<a>>
    BY DEF M!UserLanguage
  <2>2. SoundStatement(a)
    BY TablesAre, LaterIs, ColumnsAre, SoundOnlyIf, SoundCreate, SoundAdd, SoundFill, SoundOther
  <2>3. Brings(<<a>>, "users", "language")
    BY BringShapes
  <2> HIDE DEF a
  <2> QED BY <2>1, <2>2, <2>3, PlainShapes
<1>12. Plain(M!GranularPermissions)
  <2> DEFINE a == M!OnlyIf("roles")
             b == M!Other
  <2>1. M!GranularPermissions = <<a, b>>
    BY DEF M!GranularPermissions
  <2>2. SoundStatement(a) /\ SoundStatement(b)
    BY TablesAre, LaterIs, ColumnsAre, SoundOnlyIf, SoundCreate, SoundAdd, SoundFill, SoundOther
  <2> HIDE DEF a, b
  <2> QED BY <2>1, <2>2, PlainShapes
<1>13. Plain(M!TwoFactor) /\ Brings(M!TwoFactor, "users", "two_factor")
  <2> DEFINE a == M!Add("users", "two_factor")
  <2>1. M!TwoFactor = <<a>>
    BY DEF M!TwoFactor
  <2>2. SoundStatement(a)
    BY TablesAre, LaterIs, ColumnsAre, SoundOnlyIf, SoundCreate, SoundAdd, SoundFill, SoundOther
  <2>3. Brings(<<a>>, "users", "two_factor")
    BY BringShapes
  <2> HIDE DEF a
  <2> QED BY <2>1, <2>2, <2>3, PlainShapes
<1>14. Plain(M!AppstoreInstalled) /\ Brings(M!AppstoreInstalled, "installed_apps", "snapshot_version")
  <2> DEFINE a == M!Create("installed_apps")
             b == M!Create("app_operations")
             c == M!Add("installed_apps", "snapshot_version")
  <2>1. M!AppstoreInstalled = <<a, b, c>>
    BY DEF M!AppstoreInstalled
  <2>2. SoundStatement(a) /\ SoundStatement(b) /\ SoundStatement(c)
    BY TablesAre, LaterIs, ColumnsAre, SoundOnlyIf, SoundCreate, SoundAdd, SoundFill, SoundOther
  <2>3. Brings(<<a, b, c>>, "installed_apps", "snapshot_version")
    BY BringShapes
  <2> HIDE DEF a, b, c
  <2> QED BY <2>1, <2>2, <2>3, PlainShapes
<1>15. Plain(M!IpamNetworkWorkspace) /\ Brings(M!IpamNetworkWorkspace, "ipam_networks", "workspace_id") /\ Brings(M!IpamNetworkWorkspace, "ipam_networks", "is_default")
  <2> DEFINE a == M!OnlyIf("ipam_networks")
             b == M!Add("ipam_networks", "workspace_id")
             c == M!Add("ipam_networks", "is_default")
             d == M!Tried(M!Fill("workspace"))
  <2>1. M!IpamNetworkWorkspace = <<a, b, c, d>>
    BY DEF M!IpamNetworkWorkspace
  <2>2. SoundStatement(a) /\ SoundStatement(b) /\ SoundStatement(c) /\ SoundStatement(d)
    BY TablesAre, LaterIs, ColumnsAre, SoundOnlyIf, SoundCreate, SoundAdd, SoundFill, SoundOther
  <2>3. Brings(<<a, b, c, d>>, "ipam_networks", "workspace_id") /\ Brings(<<a, b, c, d>>, "ipam_networks", "is_default")
    BY BringShapes
  <2> HIDE DEF a, b, c, d
  <2> QED BY <2>1, <2>2, <2>3, PlainShapes
<1>16. Plain(M!DeployTasksTarget) /\ Brings(M!DeployTasksTarget, "deploy_tasks", "target_server_id")
  <2> DEFINE a == M!Add("deploy_tasks", "target_server_id")
  <2>1. M!DeployTasksTarget = <<a>>
    BY DEF M!DeployTasksTarget
  <2>2. SoundStatement(a)
    BY TablesAre, LaterIs, ColumnsAre, SoundOnlyIf, SoundCreate, SoundAdd, SoundFill, SoundOther
  <2>3. Brings(<<a>>, "deploy_tasks", "target_server_id")
    BY BringShapes
  <2> HIDE DEF a
  <2> QED BY <2>1, <2>2, <2>3, PlainShapes
<1>17. Plain(M!BackfillOwner)
  <2> DEFINE a == M!OnlyIf("vm_instances")
             b == M!Fill("owner")
  <2>1. M!BackfillOwner = <<a, b>>
    BY DEF M!BackfillOwner
  <2>2. SoundStatement(a) /\ SoundStatement(b)
    BY TablesAre, LaterIs, ColumnsAre, SoundOnlyIf, SoundCreate, SoundAdd, SoundFill, SoundOther
  <2> HIDE DEF a, b
  <2> QED BY <2>1, <2>2, PlainShapes
<1>18. Plain(M!SettingView)
  <2> DEFINE a == M!OnlyIf("roles")
             b == M!Other
  <2>1. M!SettingView = <<a, b>>
    BY DEF M!SettingView
  <2>2. SoundStatement(a) /\ SoundStatement(b)
    BY TablesAre, LaterIs, ColumnsAre, SoundOnlyIf, SoundCreate, SoundAdd, SoundFill, SoundOther
  <2> HIDE DEF a, b
  <2> QED BY <2>1, <2>2, PlainShapes
<1>19. Plain(M!CoolifyPermissions)
  <2> DEFINE a == M!OnlyIf("roles")
             b == M!Other
  <2>1. M!CoolifyPermissions = <<a, b>>
    BY DEF M!CoolifyPermissions
  <2>2. SoundStatement(a) /\ SoundStatement(b)
    BY TablesAre, LaterIs, ColumnsAre, SoundOnlyIf, SoundCreate, SoundAdd, SoundFill, SoundOther
  <2> HIDE DEF a, b
  <2> QED BY <2>1, <2>2, PlainShapes
<1> QED BY <1>1, <1>2, <1>3, <1>4, <1>5, <1>6, <1>7, <1>8, <1>9, <1>10, <1>11, <1>12, <1>13, <1>14, <1>15, <1>16, <1>17, <1>18, <1>19

LEMMA EarlyIs ==
    /\ Len(M!Early) = 18
    /\ M!Early[1] = M!Notifications /\ M!Early[2] = M!RbacSecurity /\ M!Early[3] = M!CrossNodeTemplates
    /\ M!Early[4] = M!VmCache /\ M!Early[5] = M!TaskQueueTable /\ M!Early[6] = M!OsTemplateIcons
    /\ M!Early[7] = M!VmTemplateName /\ M!Early[8] = M!AuditLogs /\ M!Early[9] = M!RbacV2
    /\ M!Early[10] = M!VmInstanceOwner /\ M!Early[11] = M!SnapshotArchives /\ M!Early[12] = M!UserSshKey
    /\ M!Early[13] = M!GitRepositorySetting /\ M!Early[14] = M!EncryptPasswords /\ M!Early[15] = M!BackupJobs
    /\ M!Early[16] = M!IpamNetworkNode /\ M!Early[17] = M!ClusterSupport /\ M!Early[18] = M!ProxmoxTasks
  BY DEF M!Early
LEMMA LateIs ==
    /\ Len(M!Late) = 26
    /\ M!Late[1] = M!Workspaces /\ M!Late[2] = M!UserServers /\ M!Late[3] = M!RemoveDashboard
    /\ M!Late[4] = M!DeployTasks /\ M!Late[5] = M!DeployTasksKind /\ M!Late[6] = M!UserSshKeysTable
    /\ M!Late[7] = M!TaskProgress /\ M!Late[8] = M!UserLanguage /\ M!Late[9] = M!PasswordResetTokens
    /\ M!Late[10] = M!UserQuotas /\ M!Late[11] = M!GranularPermissions /\ M!Late[12] = M!TwoFactor
    /\ M!Late[13] = M!AppstoreCatalog /\ M!Late[14] = M!AppstoreInstalled /\ M!Late[15] = M!IpamNetworkWorkspace
    /\ M!Late[16] = M!CatalogSource /\ M!Late[17] = M!ScriptRepoFormat /\ M!Late[18] = M!DeployTasksTarget
    /\ M!Late[19] = M!AppOperationsServer /\ M!Late[20] = M!CatalogDataFiles /\ M!Late[21] = M!DefaultCredentials
    /\ M!Late[22] = M!ServerErrorKind /\ M!Late[23] = M!BackfillOwner /\ M!Late[24] = M!SettingView
    /\ M!Late[25] = M!IpamMultiIp /\ M!Late[26] = M!CoolifyPermissions
  BY DEF M!Late

LEMMA OrderIs ==
    /\ Len(M!Order) = 44
    /\ \A i \in 1..18 : M!Order[i] = M!Early[i]
    /\ \A i \in 1..26 : M!Order[18 + i] = M!Late[i]
<1> DEFINE lists == {M!Early[i] : i \in 1..18} \union {M!Late[i] : i \in 1..26}
<1>1. \A i \in 1..18 : M!Early[i] \in lists
  OBVIOUS
<1>2. \A i \in 1..26 : M!Late[i] \in lists
  OBVIOUS
<1> HIDE DEF lists
<1>3. M!Early \in Seq(lists)
  <2> DEFINE these == {M!Early[i] : i \in 1..18}
             s == M!Early
  <2>1. s \in Seq(these)
    BY DEF M!Early
  <2>2. these \subseteq lists
    BY <1>1
  <2> HIDE DEF s, these
  <2>5. s \in Seq(lists)
    BY <2>1, <2>2, SeqMonotonic
  <2> QED BY <2>5 DEF s
<1>5. M!Late \in Seq(lists)
  <2> DEFINE these == {M!Late[i] : i \in 1..26}
             s == M!Late
  <2>1. s \in Seq(these)
    BY DEF M!Late
  <2>2. these \subseteq lists
    BY <1>2
  <2> HIDE DEF s, these
  <2>5. s \in Seq(lists)
    BY <2>1, <2>2, SeqMonotonic
  <2> QED BY <2>5 DEF s
<1>4. /\ Len(M!Early \o M!Late) = 44
      /\ \A i \in 1..44 : (M!Early \o M!Late)[i] = IF i <= 18 THEN M!Early[i] ELSE M!Late[i - 18]
  <2> DEFINE e == M!Early
             l == M!Late
  <2>1. e \in Seq(lists) /\ l \in Seq(lists) /\ Len(e) = 18 /\ Len(l) = 26
    BY <1>3, <1>5, EarlyIs, LateIs
  <2> HIDE DEF e, l
  <2>2. Len(e \o l) = Len(e) + Len(l) /\ \A i \in 1 .. Len(e) + Len(l) : (e \o l)[i] = IF i <= Len(e) THEN e[i] ELSE l[i - Len(e)]
    BY <2>1, ConcatProperties, Zenon
  <2>3. /\ Len(e \o l) = 44
        /\ \A i \in 1..44 : (e \o l)[i] = IF i <= 18 THEN e[i] ELSE l[i - 18]
    <3>1. Len(e) + Len(l) = 44
      BY <2>1
    <3> QED BY <2>1, <2>2, <3>1, Zenon
  <2> QED BY <2>3 DEF e, l
<1>6. \A i \in 1..18 : i \in 1..44 /\ i <= 18
  OBVIOUS
<1>7. \A i \in 1..26 : 18 + i \in 1..44 /\ ~(18 + i <= 18) /\ (18 + i) - 18 = i
  OBVIOUS
<1>8. M!Order = M!Early \o M!Late
  BY DEF M!Order
<1> QED BY <1>4, <1>6, <1>7, <1>8, Zenon

LEMMA TablesGuarded ==
    /\ Guarded(M!Notifications) /\ Guarded(M!TaskQueueTable) /\ Guarded(M!SnapshotArchives)
    /\ Guarded(M!BackupJobs) /\ Guarded(M!ProxmoxTasks) /\ Guarded(M!Workspaces)
    /\ Guarded(M!UserServers) /\ Guarded(M!UserSshKeysTable) /\ Guarded(M!PasswordResetTokens)
    /\ Guarded(M!UserQuotas) /\ Guarded(M!AppstoreCatalog)
  BY GuardedTables, TablesAre
     DEF M!Notifications, M!TaskQueueTable, M!SnapshotArchives, M!BackupJobs, M!ProxmoxTasks, M!Workspaces, M!UserServers, M!UserSshKeysTable, M!PasswordResetTokens, M!UserQuotas, M!AppstoreCatalog

LEMMA ColumnsPlain ==
    /\ Plain(M!VmCache) /\ Brings(M!VmCache, "vm_instances", "cache")
    /\ Plain(M!VmTemplateName) /\ Brings(M!VmTemplateName, "vm_instances", "template_name")
    /\ Plain(M!AuditLogs) /\ Brings(M!AuditLogs, "audit_logs", "context")
    /\ Plain(M!IpamNetworkNode) /\ Brings(M!IpamNetworkNode, "ipam_networks", "proxmox_node")
    /\ Plain(M!TaskProgress) /\ Brings(M!TaskProgress, "proxmox_tasks", "progress")
    /\ Plain(M!CatalogSource) /\ Brings(M!CatalogSource, "catalog_apps", "source")
    /\ Plain(M!ScriptRepoFormat) /\ Brings(M!ScriptRepoFormat, "script_git_repos", "metadata_format")
    /\ Plain(M!AppOperationsServer) /\ Brings(M!AppOperationsServer, "app_operations", "server_id")
    /\ Plain(M!CatalogDataFiles) /\ Brings(M!CatalogDataFiles, "catalog_apps", "data_files")
    /\ Plain(M!DefaultCredentials) /\ Brings(M!DefaultCredentials, "catalog_apps", "default_credentials")
    /\ Plain(M!ServerErrorKind) /\ Brings(M!ServerErrorKind, "proxmox_servers", "last_error_kind")
<1>1. Plain(M!VmCache) /\ Brings(M!VmCache, "vm_instances", "cache")
  <2>1. "vm_instances" \in M!Tables /\ "cache" \in M!Later["vm_instances"]
    BY TablesAre, LaterIs
  <2>2. <<"vm_instances", "cache">> # SourcePair /\ <<"vm_instances", "cache">> # PrimaryPair
    BY ColumnsAre
  <2> QED BY <2>1, <2>2, PlainColumns DEF M!VmCache
<1>2. Plain(M!VmTemplateName) /\ Brings(M!VmTemplateName, "vm_instances", "template_name")
  <2>1. "vm_instances" \in M!Tables /\ "template_name" \in M!Later["vm_instances"]
    BY TablesAre, LaterIs
  <2>2. <<"vm_instances", "template_name">> # SourcePair /\ <<"vm_instances", "template_name">> # PrimaryPair
    BY ColumnsAre
  <2> QED BY <2>1, <2>2, PlainColumns DEF M!VmTemplateName
<1>3. Plain(M!AuditLogs) /\ Brings(M!AuditLogs, "audit_logs", "context")
  <2>1. "audit_logs" \in M!Tables /\ "context" \in M!Later["audit_logs"]
    BY TablesAre, LaterIs
  <2>2. <<"audit_logs", "context">> # SourcePair /\ <<"audit_logs", "context">> # PrimaryPair
    BY ColumnsAre
  <2> QED BY <2>1, <2>2, PlainColumns DEF M!AuditLogs
<1>4. Plain(M!IpamNetworkNode) /\ Brings(M!IpamNetworkNode, "ipam_networks", "proxmox_node")
  <2>1. "ipam_networks" \in M!Tables /\ "proxmox_node" \in M!Later["ipam_networks"]
    BY TablesAre, LaterIs
  <2>2. <<"ipam_networks", "proxmox_node">> # SourcePair /\ <<"ipam_networks", "proxmox_node">> # PrimaryPair
    BY ColumnsAre
  <2> QED BY <2>1, <2>2, PlainColumns DEF M!IpamNetworkNode
<1>5. Plain(M!TaskProgress) /\ Brings(M!TaskProgress, "proxmox_tasks", "progress")
  <2>1. "proxmox_tasks" \in M!Tables /\ "progress" \in M!Later["proxmox_tasks"]
    BY TablesAre, LaterIs
  <2>2. <<"proxmox_tasks", "progress">> # SourcePair /\ <<"proxmox_tasks", "progress">> # PrimaryPair
    BY ColumnsAre
  <2> QED BY <2>1, <2>2, PlainColumns DEF M!TaskProgress
<1>6. Plain(M!CatalogSource) /\ Brings(M!CatalogSource, "catalog_apps", "source")
  <2>1. "catalog_apps" \in M!Tables /\ "source" \in M!Later["catalog_apps"]
    BY TablesAre, LaterIs
  <2>2. <<"catalog_apps", "source">> # SourcePair /\ <<"catalog_apps", "source">> # PrimaryPair
    BY ColumnsAre
  <2> QED BY <2>1, <2>2, PlainColumns DEF M!CatalogSource
<1>7. Plain(M!ScriptRepoFormat) /\ Brings(M!ScriptRepoFormat, "script_git_repos", "metadata_format")
  <2>1. "script_git_repos" \in M!Tables /\ "metadata_format" \in M!Later["script_git_repos"]
    BY TablesAre, LaterIs
  <2>2. <<"script_git_repos", "metadata_format">> # SourcePair /\ <<"script_git_repos", "metadata_format">> # PrimaryPair
    BY ColumnsAre
  <2> QED BY <2>1, <2>2, PlainColumns DEF M!ScriptRepoFormat
<1>8. Plain(M!AppOperationsServer) /\ Brings(M!AppOperationsServer, "app_operations", "server_id")
  <2>1. "app_operations" \in M!Tables /\ "server_id" \in M!Later["app_operations"]
    BY TablesAre, LaterIs
  <2>2. <<"app_operations", "server_id">> # SourcePair /\ <<"app_operations", "server_id">> # PrimaryPair
    BY ColumnsAre
  <2> QED BY <2>1, <2>2, PlainColumns DEF M!AppOperationsServer
<1>9. Plain(M!CatalogDataFiles) /\ Brings(M!CatalogDataFiles, "catalog_apps", "data_files")
  <2>1. "catalog_apps" \in M!Tables /\ "data_files" \in M!Later["catalog_apps"]
    BY TablesAre, LaterIs
  <2>2. <<"catalog_apps", "data_files">> # SourcePair /\ <<"catalog_apps", "data_files">> # PrimaryPair
    BY ColumnsAre
  <2> QED BY <2>1, <2>2, PlainColumns DEF M!CatalogDataFiles
<1>10. Plain(M!DefaultCredentials) /\ Brings(M!DefaultCredentials, "catalog_apps", "default_credentials")
  <2>1. "catalog_apps" \in M!Tables /\ "default_credentials" \in M!Later["catalog_apps"]
    BY TablesAre, LaterIs
  <2>2. <<"catalog_apps", "default_credentials">> # SourcePair /\ <<"catalog_apps", "default_credentials">> # PrimaryPair
    BY ColumnsAre
  <2> QED BY <2>1, <2>2, PlainColumns DEF M!DefaultCredentials
<1>11. Plain(M!ServerErrorKind) /\ Brings(M!ServerErrorKind, "proxmox_servers", "last_error_kind")
  <2>1. "proxmox_servers" \in M!Tables /\ "last_error_kind" \in M!Later["proxmox_servers"]
    BY TablesAre, LaterIs
  <2>2. <<"proxmox_servers", "last_error_kind">> # SourcePair /\ <<"proxmox_servers", "last_error_kind">> # PrimaryPair
    BY ColumnsAre
  <2> QED BY <2>1, <2>2, PlainColumns DEF M!ServerErrorKind
<1> QED BY <1>1, <1>2, <1>3, <1>4, <1>5, <1>6, <1>7, <1>8, <1>9, <1>10, <1>11

LEMMA KindGuarded == Guarded(M!DeployTasksKind) /\ Brings(M!DeployTasksKind, "deploy_tasks", "kind")
<1> DEFINE a == M!Stmt("unless", "deploy_tasks", "kind")
           b == M!Add("deploy_tasks", "kind")
           c == M!Other
<1>1. a.kind = "unless" /\ a.t = "deploy_tasks" /\ a.c = "kind"
  BY StatementsAre DEF M!Stmt
<1>2. b.kind = "add" /\ b.t = "deploy_tasks" /\ b.c = "kind"
  BY AddsAre
<1>3. SoundStatement(b) /\ c.kind = "other"
  BY SoundAdd, SoundOther, TablesAre, LaterIs, ColumnsAre
<1>4. M!DeployTasksKind = <<a, b, c>>
  BY DEF M!DeployTasksKind, M!Unless
<1>5. Brings(<<a, b, c>>, "deploy_tasks", "kind")
  BY BringShapes
<1> HIDE DEF a, b, c
<1> QED BY <1>1, <1>2, <1>3, <1>4, <1>5 DEF Guarded

\* The two migrations whose values come with the column they add.
Additive(s, t, c) == s.kind = "add" /\ s.t = t /\ s.c = c
CrossNode(m) ==
    /\ Len(m) = 5 /\ DOMAIN m = 1..5
    /\ SoundStatement(m[1]) /\ m[1].kind = "only if"
    /\ Additive(m[2], "os_templates", "source_node")
    /\ m[3].kind = "fill added" /\ m[3].c = "source" /\ ~m[3].tried
    /\ SoundStatement(m[4]) /\ Additive(m[4], "os_templates", "kinds")
    /\ SoundStatement(m[5]) /\ m[5].kind = "other"
MultiIp(m) ==
    /\ Len(m) = 4 /\ DOMAIN m = 1..4
    /\ SoundStatement(m[1]) /\ m[1].kind = "only if"
    /\ Additive(m[2], "ipam_allocations", "is_primary")
    /\ SoundStatement(m[3]) /\ Additive(m[3], "ipam_allocations", "alias") /\ ~m[3].tried
    /\ m[4].kind = "fill added" /\ m[4].c = "primary" /\ ~m[4].tried

LEMMA FillAddedIs ==
    ASSUME NEW x
    PROVE  M!FillAdded(x).kind = "fill added" /\ M!FillAdded(x).c = x /\ ~M!FillAdded(x).tried
<1> DEFINE t == M!Column[x][1]
<1> HIDE DEF t
<1>1. M!Stmt("fill added", t, x).kind = "fill added" /\ M!Stmt("fill added", t, x).c = x /\ ~M!Stmt("fill added", t, x).tried
  BY DEF M!Stmt
<1> QED BY <1>1 DEF M!FillAdded, t

LEMMA CrossNodeIs == CrossNode(M!CrossNodeTemplates)
<1> DEFINE a == M!OnlyIf("os_templates")
           b == M!Add("os_templates", "source_node")
           c == M!FillAdded("source")
           d == M!Add("os_templates", "kinds")
           e == M!Tried(M!Other)
<1>1. SoundStatement(a) /\ SoundStatement(d) /\ SoundStatement(e)
  BY SoundOnlyIf, SoundAdd, SoundOther, TablesAre, LaterIs, ColumnsAre
<1>2. a.kind = "only if" /\ e.kind = "other"
  BY DEF M!OnlyIf, M!Tried, M!Other, M!Stmt
<1>3. Additive(b, "os_templates", "source_node") /\ Additive(d, "os_templates", "kinds")
  BY AddsAre DEF Additive
<1>4. c.kind = "fill added" /\ c.c = "source" /\ ~c.tried
  BY FillAddedIs
<1>5. M!CrossNodeTemplates = <<a, b, c, d, e>>
  BY DEF M!CrossNodeTemplates
<1> DEFINE m == M!CrossNodeTemplates
<1> HIDE DEF a, b, c, d, e
<1>6. Len(m) = 5 /\ DOMAIN m = 1..5 /\ m[1] = a /\ m[2] = b /\ m[3] = c /\ m[4] = d /\ m[5] = e
  BY <1>5
<1> HIDE DEF m
<1>7. CrossNode(m)
  BY <1>1, <1>2, <1>3, <1>4, <1>6, Zenon DEF CrossNode
<1> QED BY <1>7 DEF m

LEMMA MultiIpIs == MultiIp(M!IpamMultiIp)
<1> DEFINE a == M!OnlyIf("ipam_allocations")
           b == M!Add("ipam_allocations", "is_primary")
           c == M!Add("ipam_allocations", "alias")
           d == M!FillAdded("primary")
<1>1. SoundStatement(a) /\ SoundStatement(c)
  BY SoundOnlyIf, SoundAdd, TablesAre, LaterIs, ColumnsAre
<1>2. a.kind = "only if" /\ ~c.tried
  BY DEF M!OnlyIf, M!Add, M!Stmt
<1>3. Additive(b, "ipam_allocations", "is_primary") /\ Additive(c, "ipam_allocations", "alias")
  BY AddsAre DEF Additive
<1>4. d.kind = "fill added" /\ d.c = "primary" /\ ~d.tried
  BY FillAddedIs
<1>5. M!IpamMultiIp = <<a, b, c, d>>
  BY DEF M!IpamMultiIp
<1> DEFINE m == M!IpamMultiIp
<1> HIDE DEF a, b, c, d
<1>6. Len(m) = 4 /\ DOMAIN m = 1..4 /\ m[1] = a /\ m[2] = b /\ m[3] = c /\ m[4] = d
  BY <1>5
<1> HIDE DEF m
<1>7. MultiIp(m)
  BY <1>1, <1>2, <1>3, <1>4, <1>6, Zenon DEF MultiIp
<1> QED BY <1>7 DEF m

LEMMA OrderSound ==
    /\ Len(M!Order) = 44
    /\ CrossNode(M!Order[3]) /\ MultiIp(M!Order[43])
    /\ \A i \in (1..44) \ {3, 43} : Plain(M!Order[i]) \/ Guarded(M!Order[i])
<1>1. \A i \in (1..18) \ {3} : Plain(M!Early[i]) \/ Guarded(M!Early[i])
  BY EarlyIs, TablesGuarded, ColumnsPlain, MigrationsPlain
<1>2. \A i \in (1..26) \ {25} : Plain(M!Late[i]) \/ Guarded(M!Late[i])
  BY LateIs, TablesGuarded, ColumnsPlain, MigrationsPlain, KindGuarded
<1>3. CrossNode(M!Order[3]) /\ MultiIp(M!Order[43])
  <2>1. 3 \in 1..18 /\ 25 \in 1..26 /\ 18 + 25 = 43
    OBVIOUS
  <2>2. M!Order[3] = M!Early[3] /\ M!Order[18 + 25] = M!Late[25]
    BY <2>1, OrderIs
  <2> QED BY <2>1, <2>2, EarlyIs, LateIs, CrossNodeIs, MultiIpIs
<1>4. ASSUME NEW i \in (1..44) \ {3, 43}
      PROVE  Plain(M!Order[i]) \/ Guarded(M!Order[i])
  <2>1. CASE i <= 18
    BY <1>1, <2>1, OrderIs
  <2>2. CASE i > 18
    <3>1. i - 18 \in (1..26) \ {25} /\ 18 + (i - 18) = i
      BY <2>2
    <3> QED BY <1>2, <3>1, OrderIs
  <2> QED BY <2>1, <2>2
<1> QED BY <1>3, <1>4, OrderIs

LEMMA EveryColumnComes ==
    ASSUME NEW t \in M!Tables, NEW c \in M!Later[t]
    PROVE  \E i \in 1..44 : Brings(M!Order[i], t, c)
<1>1. ASSUME NEW i \in 1..18, Brings(M!Early[i], t, c)
      PROVE  \E k \in 1..44 : Brings(M!Order[k], t, c)
  BY <1>1, OrderIs
<1>2. ASSUME NEW i \in 1..26, Brings(M!Late[i], t, c)
      PROVE  \E k \in 1..44 : Brings(M!Order[k], t, c)
  <2>1. 18 + i \in 1..44
    OBVIOUS
  <2> QED BY <1>2, <2>1, OrderIs
<1>3. Brings(M!CrossNodeTemplates, "os_templates", "source_node") /\ Brings(M!CrossNodeTemplates, "os_templates", "kinds")
  <2> DEFINE m == M!CrossNodeTemplates
  <2>1. Len(m) = 5 /\ Additive(m[2], "os_templates", "source_node") /\ Additive(m[4], "os_templates", "kinds")
    BY CrossNodeIs, Zenon DEF CrossNode
  <2>2. 2 \in 1..Len(m) /\ 4 \in 1..Len(m)
    BY <2>1
  <2> QED BY <2>1, <2>2, Zenon DEF Brings, Additive
<1>4. Brings(M!IpamMultiIp, "ipam_allocations", "is_primary") /\ Brings(M!IpamMultiIp, "ipam_allocations", "alias")
  <2> DEFINE m == M!IpamMultiIp
  <2>1. Len(m) = 4 /\ Additive(m[2], "ipam_allocations", "is_primary") /\ Additive(m[3], "ipam_allocations", "alias")
    BY MultiIpIs, Zenon DEF MultiIp
  <2>2. 2 \in 1..Len(m) /\ 3 \in 1..Len(m)
    BY <2>1
  <2> QED BY <2>1, <2>2, Zenon DEF Brings, Additive
<1>5. CASE t = "users"
  <2>1. c \in {"login", "ssh_public_key", "language", "two_factor"}
    BY <1>5, LaterIs
  <2>2. Brings(M!RbacSecurity, "users", "login") /\ Brings(M!UserSshKey, "users", "ssh_public_key") /\ Brings(M!UserLanguage, "users", "language") /\ Brings(M!TwoFactor, "users", "two_factor")
    BY <1>3, <1>4, ColumnsPlain, MigrationsPlain, KindGuarded
  <2>3. M!Early[2] = M!RbacSecurity /\ M!Early[12] = M!UserSshKey /\ M!Late[8] = M!UserLanguage /\ M!Late[12] = M!TwoFactor
    BY EarlyIs, LateIs
  <2>4. 2 \in 1..18 /\ 12 \in 1..18 /\ 8 \in 1..26 /\ 12 \in 1..26
    OBVIOUS
  <2> QED BY <1>1, <1>2, <1>5, <2>1, <2>2, <2>3, <2>4
<1>6. CASE t = "proxmox_servers"
  <2>1. c \in {"cluster_name", "last_error_kind"}
    BY <1>6, LaterIs
  <2>2. Brings(M!ClusterSupport, "proxmox_servers", "cluster_name") /\ Brings(M!ServerErrorKind, "proxmox_servers", "last_error_kind")
    BY <1>3, <1>4, ColumnsPlain, MigrationsPlain, KindGuarded
  <2>3. M!Early[17] = M!ClusterSupport /\ M!Late[22] = M!ServerErrorKind
    BY EarlyIs, LateIs
  <2>4. 17 \in 1..18 /\ 22 \in 1..26
    OBVIOUS
  <2> QED BY <1>1, <1>2, <1>6, <2>1, <2>2, <2>3, <2>4
<1>7. CASE t = "os_templates"
  <2>1. c \in {"source_node", "kinds"}
    BY <1>7, LaterIs
  <2>2. Brings(M!CrossNodeTemplates, "os_templates", "source_node") /\ Brings(M!CrossNodeTemplates, "os_templates", "kinds")
    BY <1>3, <1>4, ColumnsPlain, MigrationsPlain, KindGuarded
  <2>3. M!Early[3] = M!CrossNodeTemplates
    BY EarlyIs, LateIs
  <2>4. 3 \in 1..18
    OBVIOUS
  <2> QED BY <1>1, <1>2, <1>7, <2>1, <2>2, <2>3, <2>4
<1>8. CASE t = "vm_instances"
  <2>1. c \in {"cache", "template_name", "owner_id"}
    BY <1>8, LaterIs
  <2>2. Brings(M!VmCache, "vm_instances", "cache") /\ Brings(M!VmTemplateName, "vm_instances", "template_name") /\ Brings(M!VmInstanceOwner, "vm_instances", "owner_id")
    BY <1>3, <1>4, ColumnsPlain, MigrationsPlain, KindGuarded
  <2>3. M!Early[4] = M!VmCache /\ M!Early[7] = M!VmTemplateName /\ M!Early[10] = M!VmInstanceOwner
    BY EarlyIs, LateIs
  <2>4. 4 \in 1..18 /\ 7 \in 1..18 /\ 10 \in 1..18
    OBVIOUS
  <2> QED BY <1>1, <1>2, <1>8, <2>1, <2>2, <2>3, <2>4
<1>9. CASE t = "audit_logs"
  <2>1. c \in {"context"}
    BY <1>9, LaterIs
  <2>2. Brings(M!AuditLogs, "audit_logs", "context")
    BY <1>3, <1>4, ColumnsPlain, MigrationsPlain, KindGuarded
  <2>3. M!Early[8] = M!AuditLogs
    BY EarlyIs, LateIs
  <2>4. 8 \in 1..18
    OBVIOUS
  <2> QED BY <1>1, <1>2, <1>9, <2>1, <2>2, <2>3, <2>4
<1>10. CASE t = "ipam_networks"
  <2>1. c \in {"proxmox_node", "workspace_id", "is_default"}
    BY <1>10, LaterIs
  <2>2. Brings(M!IpamNetworkNode, "ipam_networks", "proxmox_node") /\ Brings(M!IpamNetworkWorkspace, "ipam_networks", "workspace_id") /\ Brings(M!IpamNetworkWorkspace, "ipam_networks", "is_default")
    BY <1>3, <1>4, ColumnsPlain, MigrationsPlain, KindGuarded
  <2>3. M!Early[16] = M!IpamNetworkNode /\ M!Late[15] = M!IpamNetworkWorkspace
    BY EarlyIs, LateIs
  <2>4. 16 \in 1..18 /\ 15 \in 1..26
    OBVIOUS
  <2> QED BY <1>1, <1>2, <1>10, <2>1, <2>2, <2>3, <2>4
<1>11. CASE t = "ipam_allocations"
  <2>1. c \in {"is_primary", "alias"}
    BY <1>11, LaterIs
  <2>2. Brings(M!IpamMultiIp, "ipam_allocations", "is_primary") /\ Brings(M!IpamMultiIp, "ipam_allocations", "alias")
    BY <1>3, <1>4, ColumnsPlain, MigrationsPlain, KindGuarded
  <2>3. M!Late[25] = M!IpamMultiIp
    BY EarlyIs, LateIs
  <2>4. 25 \in 1..26
    OBVIOUS
  <2> QED BY <1>1, <1>2, <1>11, <2>1, <2>2, <2>3, <2>4
<1>12. CASE t = "proxmox_tasks"
  <2>1. c \in {"progress"}
    BY <1>12, LaterIs
  <2>2. Brings(M!TaskProgress, "proxmox_tasks", "progress")
    BY <1>3, <1>4, ColumnsPlain, MigrationsPlain, KindGuarded
  <2>3. M!Late[7] = M!TaskProgress
    BY EarlyIs, LateIs
  <2>4. 7 \in 1..26
    OBVIOUS
  <2> QED BY <1>1, <1>2, <1>12, <2>1, <2>2, <2>3, <2>4
<1>13. CASE t = "deploy_tasks"
  <2>1. c \in {"kind", "target_server_id"}
    BY <1>13, LaterIs
  <2>2. Brings(M!DeployTasksKind, "deploy_tasks", "kind") /\ Brings(M!DeployTasksTarget, "deploy_tasks", "target_server_id")
    BY <1>3, <1>4, ColumnsPlain, MigrationsPlain, KindGuarded
  <2>3. M!Late[5] = M!DeployTasksKind /\ M!Late[18] = M!DeployTasksTarget
    BY EarlyIs, LateIs
  <2>4. 5 \in 1..26 /\ 18 \in 1..26
    OBVIOUS
  <2> QED BY <1>1, <1>2, <1>13, <2>1, <2>2, <2>3, <2>4
<1>14. CASE t = "catalog_apps"
  <2>1. c \in {"source", "data_files", "default_credentials"}
    BY <1>14, LaterIs
  <2>2. Brings(M!CatalogSource, "catalog_apps", "source") /\ Brings(M!CatalogDataFiles, "catalog_apps", "data_files") /\ Brings(M!DefaultCredentials, "catalog_apps", "default_credentials")
    BY <1>3, <1>4, ColumnsPlain, MigrationsPlain, KindGuarded
  <2>3. M!Late[16] = M!CatalogSource /\ M!Late[20] = M!CatalogDataFiles /\ M!Late[21] = M!DefaultCredentials
    BY EarlyIs, LateIs
  <2>4. 16 \in 1..26 /\ 20 \in 1..26 /\ 21 \in 1..26
    OBVIOUS
  <2> QED BY <1>1, <1>2, <1>14, <2>1, <2>2, <2>3, <2>4
<1>15. CASE t = "installed_apps"
  <2>1. c \in {"snapshot_version"}
    BY <1>15, LaterIs
  <2>2. Brings(M!AppstoreInstalled, "installed_apps", "snapshot_version")
    BY <1>3, <1>4, ColumnsPlain, MigrationsPlain, KindGuarded
  <2>3. M!Late[14] = M!AppstoreInstalled
    BY EarlyIs, LateIs
  <2>4. 14 \in 1..26
    OBVIOUS
  <2> QED BY <1>1, <1>2, <1>15, <2>1, <2>2, <2>3, <2>4
<1>16. CASE t = "app_operations"
  <2>1. c \in {"server_id"}
    BY <1>16, LaterIs
  <2>2. Brings(M!AppOperationsServer, "app_operations", "server_id")
    BY <1>3, <1>4, ColumnsPlain, MigrationsPlain, KindGuarded
  <2>3. M!Late[19] = M!AppOperationsServer
    BY EarlyIs, LateIs
  <2>4. 19 \in 1..26
    OBVIOUS
  <2> QED BY <1>1, <1>2, <1>16, <2>1, <2>2, <2>3, <2>4
<1>17. CASE t = "script_git_repos"
  <2>1. c \in {"metadata_format"}
    BY <1>17, LaterIs
  <2>2. Brings(M!ScriptRepoFormat, "script_git_repos", "metadata_format")
    BY <1>3, <1>4, ColumnsPlain, MigrationsPlain, KindGuarded
  <2>3. M!Late[17] = M!ScriptRepoFormat
    BY EarlyIs, LateIs
  <2>4. 17 \in 1..26
    OBVIOUS
  <2> QED BY <1>1, <1>2, <1>17, <2>1, <2>2, <2>3, <2>4
<1> QED BY <1>5, <1>6, <1>7, <1>8, <1>9, <1>10, <1>11, <1>12, <1>13, <1>14, <1>15, <1>16, <1>17, LaterIs

Pair(s) == <<s.t, s.c>>

\* What a statement of a migration may be.
LEMMA Three == \A n : n = 3 => 1..n = {1, 2, 3}
  OBVIOUS

LEMMA StatementFacts ==
    ASSUME NEW i \in 1..44, NEW j \in 1..Len(M!Order[i])
    PROVE  LET s == M!Order[i][j]
           IN  /\ s.kind \in {"only if", "unless", "create", "add", "fill", "fill added", "other"}
               /\ s.kind \in {"create", "add"} =>
                     /\ Pair(s) \in M!Models
                     /\ Pair(s) = SourcePair => i = 3 /\ j = 2
                     /\ Pair(s) = PrimaryPair => i = 43 /\ j = 2
               /\ s.kind = "only if" => s.c = "id" /\ s.t \in M!Tables
               /\ s.kind = "unless" => \A k \in 1..Len(M!Order[i]) :
                     M!Order[i][k].kind = "add" => Pair(M!Order[i][k]) = Pair(s)
               /\ s.kind = "fill" => s.c \in {"icon", "workspace", "owner"}
               /\ s.kind = "fill added" => (s.c = "source" /\ i = 3 /\ j = 3) \/ (s.c = "primary" /\ i = 43 /\ j = 4)
<1> DEFINE m == M!Order[i]
<1>1. SourcePair \in M!Models /\ PrimaryPair \in M!Models /\ SourcePair # PrimaryPair
  BY ModelsAre, TablesAre, LaterIs, ColumnsAre
<1>2. CASE Plain(m)
  BY <1>2 DEF Plain, SoundStatement, Pair
<1>3. CASE Guarded(m)
  <2>1. /\ Len(m) = 3 /\ m[1].kind = "unless" /\ SoundStatement(m[2]) /\ m[2].kind \in {"create", "add"}
        /\ Pair(m[2]) = Pair(m[1]) /\ m[3].kind = "other"
    BY <1>3, Zenon DEF Guarded, Pair
  <2>2. j \in {1, 2, 3} /\ 1..Len(m) = {1, 2, 3}
    BY <2>1, Three
  <2>3. CASE j = 1
    <3>1. \A k \in 1..Len(m) : m[k].kind = "add" => Pair(m[k]) = Pair(m[1])
      BY <2>1, <2>2
    <3> QED BY <2>1, <2>3, <3>1
  <2>4. CASE j = 2
    BY <2>1, <2>4 DEF SoundStatement, Pair
  <2>5. CASE j = 3
    BY <2>1, <2>5
  <2> QED BY <2>2, <2>3, <2>4, <2>5
<1>4. CASE i = 3
  <2>1. CrossNode(m)
    BY <1>4, OrderSound
  <2>2. j \in {1, 2, 3, 4, 5}
    <3>1. Len(m) = 5
      BY <2>1, Zenon DEF CrossNode
    <3> QED BY <3>1
  <2>3. CASE j = 1
    BY <2>1, <2>3 DEF CrossNode, SoundStatement
  <2>4. CASE j = 2
    BY <1>1, <1>4, <2>1, <2>4, ColumnsAre DEF CrossNode, Additive, Pair
  <2>5. CASE j = 3
    BY <1>4, <2>1, <2>5 DEF CrossNode
  <2>6. CASE j = 4
    BY <2>1, <2>6 DEF CrossNode, SoundStatement, Additive, Pair
  <2>7. CASE j = 5
    BY <2>1, <2>7 DEF CrossNode
  <2> QED BY <2>2, <2>3, <2>4, <2>5, <2>6, <2>7
<1>5. CASE i = 43
  <2>1. MultiIp(m)
    BY <1>5, OrderSound
  <2>2. j \in {1, 2, 3, 4}
    <3>1. Len(m) = 4
      BY <2>1, Zenon DEF MultiIp
    <3> QED BY <3>1
  <2>3. CASE j = 1
    BY <2>1, <2>3 DEF MultiIp, SoundStatement
  <2>4. CASE j = 2
    BY <1>1, <1>5, <2>1, <2>4, ColumnsAre DEF MultiIp, Additive, Pair
  <2>5. CASE j = 3
    BY <2>1, <2>5 DEF MultiIp, SoundStatement, Additive, Pair
  <2>6. CASE j = 4
    BY <1>5, <2>1, <2>6 DEF MultiIp
  <2> QED BY <2>2, <2>3, <2>4, <2>5, <2>6
<1> QED BY <1>2, <1>3, <1>4, <1>5, OrderSound

LEMMA OrderLengths == \A i \in 1..44 : Len(M!Order[i]) \in Nat /\ DOMAIN M!Order[i] = 1..Len(M!Order[i])
<1>1. TAKE i \in 1..44
<1>2. \A m : CrossNode(m) => Len(m) = 5 /\ DOMAIN m = 1..5
  BY Zenon DEF CrossNode
<1>3. \A m : MultiIp(m) => Len(m) = 4 /\ DOMAIN m = 1..4
  BY Zenon DEF MultiIp
<1>4. \A m : Guarded(m) => Len(m) = 3 /\ DOMAIN m = 1..3
  BY Zenon DEF Guarded
<1>5. \A m : Plain(m) => Len(m) \in Nat /\ DOMAIN m = 1..Len(m)
  BY Zenon DEF Plain
<1> DEFINE m == M!Order[i]
<1>6. CrossNode(m) \/ MultiIp(m) \/ Plain(m) \/ Guarded(m)
  BY OrderSound
<1> HIDE DEF m
<1>7. Len(m) \in Nat /\ DOMAIN m = 1..Len(m)
  BY <1>2, <1>3, <1>4, <1>5, <1>6
<1> QED BY <1>7 DEF m

Values == {"none", "empty", "filled", "own", "cleared"}
Given == {<<"icon", "own">>, <<"workspace", "cleared">>, <<"owner", "cleared">>}
Databases == [cols : SUBSET M!Models, vals : [M!Data -> Values], lost : SUBSET Given]
Transactions == [now : Databases, added : SUBSET M!Models, aborted : BOOLEAN]
SchemaTypes ==
    /\ mDb \in Databases
    /\ mTx \in Transactions
    /\ mAt \in (0..45) \X (Nat \ {0})
    /\ mFailed \in BOOLEAN /\ mEvents \in 0..MaxEvents

\* What is to come at a place of the order brings the column.
Ahead(p, a) ==
    \E i \in 1..44 : \E j \in 1..Len(M!Order[i]) :
        /\ i > a[1] \/ (i = a[1] /\ j >= a[2])
        /\ M!Order[i][j].kind = "add" /\ Pair(M!Order[i][j]) = p

TablesThere(d) == \A t \in M!Tables : <<t, "id">> \in d.cols

\* In a start without failures every column is there or to come.
Pending ==
    /\ mTx.aborted => mFailed
    /\ mAt[1] # 0 => TablesThere(mDb) /\ TablesThere(mTx.now)
    /\ mAt[1] # 0 /\ ~mFailed => \A p \in M!Models : p \in mTx.now.cols \/ Ahead(p, mAt)
    /\ mAt[1] = 45 => mTx.now = mDb

\* A column without its values is one the open transaction made, and what
\* fills it comes next.
Filling(d) == d.vals["source"] # "empty" /\ d.vals["primary"] # "empty"
ValuesCome ==
    /\ Filling(mDb)
    /\ mTx.now.vals["source"] = "empty" => mAt = <<3, 3>> /\ SourcePair \in mTx.added
    /\ mTx.now.vals["primary"] = "empty" => mAt \in {<<43, 3>>, <<43, 4>>} /\ PrimaryPair \in mTx.added
    /\ PrimaryPair \in mTx.added =>
          /\ mAt[1] = 43 /\ mAt[2] >= 3
          /\ mAt[2] \in {3, 4} => mTx.now.vals["primary"] = "empty"

\* The inductive invariant.
SchemaInv == SchemaTypes /\ Pending /\ ValuesCome

-----------------------------------------------------------------------------
LEMMA MatchedIs ==
    /\ M!Matched("icon") = {"empty", "own"} /\ M!Matched("primary") = {"empty", "own"}
    /\ M!Matched("source") = {"empty"}
    /\ M!Matched("workspace") = {"empty", "cleared"} /\ M!Matched("owner") = {"empty", "cleared"}
  BY DEF M!Matched

LEMMA FilledIs ==
    ASSUME NEW d \in Databases, NEW x \in M!Data,
           x = "primary" => d.vals["primary"] \in {"empty", "none", "filled", "cleared"}
    PROVE  /\ M!Filled(d, x) \in Databases /\ M!Filled(d, x).cols = d.cols
           /\ \A y \in M!Data \ {x} : M!Filled(d, x).vals[y] = d.vals[y]
           /\ M!Filled(d, x).vals[x] # "empty"
           /\ d.vals[x] \notin M!Matched(x) => M!Filled(d, x) = d
<1>1. d.vals[x] \in Values /\ "empty" \in M!Matched(x)
  BY MatchedIs, ColumnsAre DEF Databases
<1>2. CASE d.vals[x] \in M!Matched(x)
  <2> DEFINE l == IF d.vals[x] = "empty" THEN d.lost ELSE d.lost \union {<<x, d.vals[x]>>}
             e == [d EXCEPT !.vals[x] = "filled", !.lost = l]
  <2>1. M!Filled(d, x) = e
    BY <1>2 DEF M!Filled
  <2>2. d.vals[x] # "empty" => <<x, d.vals[x]>> \in Given
    BY <1>2, MatchedIs, ColumnsAre DEF Given
  <2>3. l \in SUBSET Given
    BY <2>2 DEF Databases
  <2> HIDE DEF l
  <2>4. /\ e \in Databases /\ e.cols = d.cols /\ e.vals[x] = "filled"
        /\ \A y \in M!Data \ {x} : e.vals[y] = d.vals[y]
    BY <2>3 DEF Databases, Values
  <2> QED BY <1>2, <2>1, <2>4
<1>3. CASE d.vals[x] \notin M!Matched(x)
  BY <1>1, <1>3 DEF M!Filled
<1> QED BY <1>2, <1>3

LEMMA AddedIs ==
    ASSUME NEW d \in Databases, NEW s, Pair(s) \in M!Models
    PROVE  /\ M!Added(d, s) \in Databases /\ M!Added(d, s).cols = d.cols \union {Pair(s)}
           /\ \A x \in M!Data : M!Added(d, s).vals[x] = IF M!Column[x] = Pair(s) THEN "empty" ELSE d.vals[x]
<1> DEFINE w == [x \in M!Data |-> IF M!Column[x] = Pair(s) THEN "empty" ELSE d.vals[x]]
           c == d.cols \union {Pair(s)}
<1>1. M!Added(d, s) = [d EXCEPT !.cols = c, !.vals = w]
  BY DEF M!Added, Pair
<1>2. w \in [M!Data -> Values] /\ c \in SUBSET M!Models
  BY DEF Databases, Values
<1>3. \A x \in M!Data : w[x] = IF M!Column[x] = Pair(s) THEN "empty" ELSE d.vals[x]
  OBVIOUS
<1> HIDE DEF w, c
<1>4. [d EXCEPT !.cols = c, !.vals = w] \in Databases
  BY <1>2 DEF Databases
<1>5. [d EXCEPT !.cols = c, !.vals = w].cols = c /\ [d EXCEPT !.cols = c, !.vals = w].vals = w
  BY DEF Databases
<1> QED BY <1>1, <1>3, <1>4, <1>5 DEF c

LEMMA FreshIs ==
    ASSUME NEW d \in Databases
    PROVE  /\ M!Fresh(d) \in Transactions
           /\ M!Fresh(d).now = d /\ M!Fresh(d).added = {} /\ ~M!Fresh(d).aborted
  BY DEF M!Fresh, Transactions

-----------------------------------------------------------------------------
LEMMA MigrationStarts == \A n \in 1..45 : <<n, 1>> \in (0..45) \X (Nat \ {0})
  OBVIOUS

LEMMA SchemaNext ==
    ASSUME SchemaInv, mAt[1] \in 1..44, NEW d \in {mDb, mTx.now}, M!NextMigration(d),
           mFailed' \in BOOLEAN, mEvents' \in 0..MaxEvents, Filling(d),
           mFailed' \/ (~mFailed /\ d = mTx.now /\ mAt[2] > Len(M!Order[mAt[1]]))
    PROVE  SchemaInv'
<1>1. mAt' = <<mAt[1] + 1, 1>> /\ mDb' = d /\ mTx' = M!Fresh(d)
  BY DEF M!NextMigration
<1>0. mAt[1] # 0 /\ mAt[1] # 45 /\ mAt[1] + 1 \in 1..45 /\ mAt[1] \in Nat
  <2> DEFINE n == mAt[1]
  <2>1. n \in 1..44
    OBVIOUS
  <2> HIDE DEF n
  <2>2. n # 0 /\ n # 45 /\ n + 1 \in 1..45 /\ n \in Nat
    BY <2>1
  <2> QED BY <2>2 DEF n
<1>2. d \in Databases
  <2>1. mDb \in Databases /\ mTx \in Transactions
    BY DEF SchemaInv, SchemaTypes
  <2> QED BY <2>1 DEF Transactions
<1>3. mTx' \in Transactions
      /\ mTx'.now = d /\ mTx'.added = {} /\ ~mTx'.aborted
  BY <1>1, <1>2, FreshIs
<1>4. SchemaTypes'
  <2>1. mAt' \in (0..45) \X (Nat \ {0})
    BY <1>0, <1>1, MigrationStarts, Zenon
  <2> QED BY <1>1, <1>2, <1>3, <2>1 DEF SchemaTypes
<1>5. TablesThere(d)
  <2>1. TablesThere(mDb) /\ TablesThere(mTx.now)
    BY <1>0, Zenon DEF SchemaInv, Pending
  <2> QED BY <2>1, Zenon
<1>6. ASSUME ~mFailed', NEW p \in M!Models
      PROVE  p \in mTx'.now.cols \/ Ahead(p, mAt')
  <2>1. p \in d.cols \/ Ahead(p, mAt)
    <3>1. ~mFailed /\ d = mTx.now
      BY <1>6
    <3>2. p \in mTx.now.cols \/ Ahead(p, mAt)
      BY <1>0, <3>1, Zenon DEF SchemaInv, Pending
    <3> QED BY <3>1, <3>2, Zenon
  <2>2. CASE Ahead(p, mAt)
    <3>0. PICK i \in 1..44 : \E j \in 1..Len(M!Order[i]) :
             /\ i > mAt[1] \/ (i = mAt[1] /\ j >= mAt[2])
             /\ M!Order[i][j].kind = "add" /\ Pair(M!Order[i][j]) = p
      BY <2>2 DEF Ahead
    <3>1. PICK j \in 1..Len(M!Order[i]) :
             /\ i > mAt[1] \/ (i = mAt[1] /\ j >= mAt[2])
             /\ M!Order[i][j].kind = "add" /\ Pair(M!Order[i][j]) = p
      BY <3>0
    <3>2. mAt[2] \in Nat /\ Len(M!Order[i]) \in Nat
      BY OrderLengths DEF SchemaInv, SchemaTypes
    <3>3. i > mAt[1]
      BY <1>6, <3>1, <3>2
    <3>4. i > mAt[1] + 1 \/ (i = mAt[1] + 1 /\ j >= 1)
      <4> DEFINE n == mAt[1]
      <4>1. n \in Nat /\ i > n /\ j \in 1..Len(M!Order[i])
        BY <1>0, <3>3
      <4> HIDE DEF n
      <4>2. i > n + 1 \/ (i = n + 1 /\ j >= 1)
        BY <3>2, <4>1
      <4> QED BY <4>2 DEF n
    <3> QED BY <1>1, <3>1, <3>4 DEF Ahead
  <2> QED BY <1>3, <2>1, <2>2
<1>7. Pending'
  <2>1. TablesThere(mDb') /\ TablesThere(mTx'.now)
    BY <1>1, <1>3, <1>5
  <2>2. mTx'.now = mDb' /\ ~mTx'.aborted
    BY <1>1, <1>3
  <2> QED BY <1>6, <2>1, <2>2, Zenon DEF Pending
<1>8. ValuesCome'
  BY <1>1, <1>3 DEF ValuesCome, Filling
<1> QED BY <1>4, <1>7, <1>8 DEF SchemaInv

\* The migration goes on, past additions of what is there by now.
LEMMA SchemaOn ==
    ASSUME SchemaInv, mAt[1] \in 1..44, NEW k \in Nat, k > mAt[2], mAt' = <<mAt[1], k>>,
           mDb' = mDb, mEvents' \in 0..MaxEvents, mFailed' \in BOOLEAN,
           mTx' \in Transactions, mTx.now.cols \subseteq mTx'.now.cols,
           mTx'.aborted => mFailed', mFailed => mFailed',
           \A n \in 1..Len(M!Order[mAt[1]]) :
              n >= mAt[2] /\ n < k /\ M!Order[mAt[1]][n].kind = "add"
              => mFailed' \/ Pair(M!Order[mAt[1]][n]) \in mTx'.now.cols,
           ValuesCome'
    PROVE  SchemaInv'
<1>1. SchemaTypes'
  BY DEF SchemaInv, SchemaTypes, Transactions
<1>0. mAt[1] # 0 /\ mAt[1] # 45 /\ mAt'[1] = mAt[1] /\ mAt'[2] = k
  <2> DEFINE i == mAt[1]
  <2>1. i \in 1..44 /\ mAt' = <<i, k>>
    OBVIOUS
  <2> HIDE DEF i
  <2>2. i # 0 /\ i # 45
    BY <2>1
  <2>3. mAt'[1] = i /\ mAt'[2] = k
    BY <2>1
  <2> QED BY <2>2, <2>3 DEF i
<1>2. TablesThere(mDb') /\ TablesThere(mTx'.now)
  <2>1. TablesThere(mDb) /\ TablesThere(mTx.now)
    BY <1>0, Zenon DEF SchemaInv, Pending
  <2> QED BY <2>1 DEF TablesThere
<1>3. ASSUME ~mFailed', NEW p \in M!Models, p \notin mTx'.now.cols
      PROVE  Ahead(p, mAt')
  <2>1. Ahead(p, mAt)
    <3>1. ~mFailed /\ p \notin mTx.now.cols
      BY <1>3
    <3> QED BY <1>0, <3>1, Zenon DEF SchemaInv, Pending
  <2>2. PICK i \in 1..44 : \E j \in 1..Len(M!Order[i]) :
           /\ i > mAt[1] \/ (i = mAt[1] /\ j >= mAt[2])
           /\ M!Order[i][j].kind = "add" /\ Pair(M!Order[i][j]) = p
    BY <2>1 DEF Ahead
  <2>3. PICK j \in 1..Len(M!Order[i]) :
           /\ i > mAt[1] \/ (i = mAt[1] /\ j >= mAt[2])
           /\ M!Order[i][j].kind = "add" /\ Pair(M!Order[i][j]) = p
    BY <2>2
  <2>4. Len(M!Order[i]) \in Nat
    BY OrderLengths
  <2>5. i > mAt[1] \/ (i = mAt[1] /\ j >= k)
    BY <1>3, <2>3, <2>4
  <2>6. mAt'[1] = mAt[1] /\ mAt'[2] = k
    OBVIOUS
  <2> QED BY <2>3, <2>5, <2>6 DEF Ahead
<1>4. Pending'
  BY <1>0, <1>2, <1>3, Zenon DEF Pending
<1> QED BY <1>1, <1>4 DEF SchemaInv

\* Where values are still to come.
LEMMA StillToCome ==
    ASSUME SchemaInv, M!More
    PROVE  /\ mAt[1] \in 1..44 /\ mAt[2] \in 1..Len(M!Order[mAt[1]]) /\ mAt = <<mAt[1], mAt[2]>>
           /\ M!Current = M!Order[mAt[1]][mAt[2]]
           /\ mTx.now.vals["source"] = "empty" =>
                 /\ mAt[1] = 3 /\ mAt[2] = 3 /\ SourcePair \in mTx.added
                 /\ M!Current.kind = "fill added" /\ ~M!Current.tried
           /\ mTx.now.vals["primary"] = "empty" <=> PrimaryPair \in mTx.added
           /\ PrimaryPair \in mTx.added =>
                 /\ mAt[1] = 43 /\ mAt[2] \in {3, 4} /\ ~M!Current.tried
                 /\ mAt[2] = 3 => M!Current.kind = "add"
                 /\ mAt[2] = 4 => M!Current.kind = "fill added"
<1>1. mAt \in (0..45) \X (Nat \ {0})
  BY DEF SchemaInv, SchemaTypes
<1>2. mAt[1] \in 1..44 /\ mAt[2] <= Len(M!Order[mAt[1]]) /\ M!Current = M!Order[mAt[1]][mAt[2]]
  BY OrderIs DEF M!More, M!Running, M!Current
<1>3. mAt[2] \in 1..Len(M!Order[mAt[1]]) /\ mAt = <<mAt[1], mAt[2]>>
  <2> DEFINE i == mAt[1]
             j == mAt[2]
  <2>1. mAt = <<i, j>> /\ i \in 1..44 /\ j \in Nat \ {0} /\ j <= Len(M!Order[i])
    BY <1>1, <1>2
  <2> HIDE DEF i, j
  <2>2. j \in 1..Len(M!Order[i])
    BY <2>1, OrderLengths
  <2> QED BY <2>1, <2>2 DEF i, j
<1>4. mAt[1] = 3 /\ mAt[2] = 3 => M!Current.kind = "fill added" /\ ~M!Current.tried
  <2>1. M!Order[3][3].kind = "fill added" /\ ~M!Order[3][3].tried
    BY OrderSound, Zenon DEF CrossNode
  <2> QED BY <1>2, <2>1
<1>5. mAt[1] = 43 => /\ mAt[2] \in {3, 4} => ~M!Current.tried
                     /\ mAt[2] = 3 => M!Current.kind = "add"
                     /\ mAt[2] = 4 => M!Current.kind = "fill added"
                     /\ mAt[2] <= 4
  <2>1. MultiIp(M!Order[43])
    BY OrderSound
  <2>2. /\ M!Order[43][3].kind = "add" /\ ~M!Order[43][3].tried
        /\ M!Order[43][4].kind = "fill added" /\ ~M!Order[43][4].tried
        /\ Len(M!Order[43]) = 4
    BY <2>1, Zenon DEF MultiIp, Additive
  <2> QED BY <1>2, <2>2
<1>6. mTx.now.vals["source"] = "empty" => mAt[1] = 3 /\ mAt[2] = 3 /\ SourcePair \in mTx.added
  BY DEF SchemaInv, ValuesCome
<1>7. PrimaryPair \in mTx.added => mAt[1] = 43 /\ mAt[2] \in {3, 4} /\ mTx.now.vals["primary"] = "empty"
  <2>1. ASSUME PrimaryPair \in mTx.added
        PROVE  mAt[1] = 43 /\ mAt[2] >= 3 /\ (mAt[2] \in {3, 4} => mTx.now.vals["primary"] = "empty")
    BY <2>1, Zenon DEF SchemaInv, ValuesCome
  <2>2. mAt[2] \in Nat
    BY <1>1
  <2>3. ASSUME NEW n \in Nat, n >= 3, n <= 4
        PROVE  n \in {3, 4}
    BY <2>3
  <2> QED BY <1>5, <2>1, <2>2, <2>3, Zenon
<1>8. mTx.now.vals["primary"] = "empty" => PrimaryPair \in mTx.added
  BY DEF SchemaInv, ValuesCome
<1> QED BY <1>2, <1>3, <1>4, <1>5, <1>6, <1>7, <1>8

\* Nothing changes but the place, which is not one where values are to come.
LEMMA SchemaPasses ==
    ASSUME SchemaInv, M!More, NEW k \in Nat, k > mAt[2], mAt' = <<mAt[1], k>>,
           UNCHANGED <<mDb, mTx, mFailed, mEvents>>,
           mTx.now.vals["source"] # "empty", PrimaryPair \notin mTx.added,
           \A n \in 1..Len(M!Order[mAt[1]]) :
              n >= mAt[2] /\ n < k /\ M!Order[mAt[1]][n].kind = "add"
              => Pair(M!Order[mAt[1]][n]) \in mTx.now.cols
    PROVE  SchemaInv'
<1>1. mTx.now.vals["primary"] # "empty" /\ mAt[1] \in 1..44
  BY StillToCome
<1>2. ValuesCome'
  BY <1>1 DEF SchemaInv, ValuesCome, Filling
<1>3. SchemaTypes /\ (mTx.aborted => mFailed)
  BY DEF SchemaInv, Pending
<1> QED BY <1>1, <1>2, <1>3, SchemaOn DEF SchemaTypes, Transactions

LEMMA RunKept ==
    ASSUME SchemaInv, M!Run
    PROVE  SchemaInv'
<1> DEFINE i == mAt[1]
           j == mAt[2]
           s == M!Current
<1>1. M!More /\ M!Works(s) /\ UNCHANGED <<mDb, mFailed, mEvents>>
  BY DEF M!Run
<1>2. /\ i \in 1..44 /\ j \in 1..Len(M!Order[i]) /\ mAt = <<i, j>> /\ s = M!Order[i][j]
      /\ Len(M!Order[i]) \in Nat /\ j + 1 \in Nat
  <2>1. i \in 1..44 /\ j \in 1..Len(M!Order[i]) /\ mAt = <<i, j>> /\ s = M!Order[i][j]
    BY <1>1, StillToCome, Zenon
  <2>2. Len(M!Order[i]) \in Nat
    BY <2>1, OrderLengths
  <2> HIDE DEF i, j, s
  <2> QED BY <2>1, <2>2
<1>3. SchemaTypes /\ mTx \in Transactions /\ mTx.now \in Databases /\ (mTx.aborted => mFailed)
  BY DEF SchemaInv, Pending, SchemaTypes, Transactions
<1>4. ~mTx.aborted
  BY <1>1 DEF M!Works
<1>5. \A n \in 1..Len(M!Order[i]) : n >= j /\ n < j + 1 => n = j
  BY <1>2
\* Only the place changes.
<1>6. ASSUME s.kind \notin {"add", "fill added"}, UNCHANGED mTx, mAt' = <<i, j + 1>>
      PROVE  SchemaInv'
  <2>1. mTx.now.vals["source"] # "empty" /\ PrimaryPair \notin mTx.added
    BY <1>1, <1>2, <1>6, StillToCome
  <2>2. \A n \in 1..Len(M!Order[i]) : n >= j /\ n < j + 1 /\ M!Order[i][n].kind = "add"
                                   => Pair(M!Order[i][n]) \in mTx.now.cols
    BY <1>2, <1>5, <1>6
  <2>3. j + 1 > j
    BY <1>2
  <2> QED BY <1>1, <1>2, <1>6, <2>1, <2>2, <2>3, SchemaPasses
<1>7. CASE s.kind \in {"only if", "unless"} /\ UNCHANGED mTx
  <2>1. IF (Pair(s) \in mTx.now.cols) = (s.kind = "only if") THEN M!Goes ELSE M!Leaves
    BY <1>1, <1>7 DEF M!Works, Pair
  <2>2. CASE M!Goes
    BY <1>6, <1>7, <2>2 DEF M!Goes
  <2>3. CASE s.kind = "only if"
    <3>1. s.c = "id" /\ s.t \in M!Tables
      BY <1>2, <2>3, StatementFacts
    <3>2. Pair(s) \in mTx.now.cols
      <4>1. TablesThere(mTx.now)
        <5>1. mAt[1] # 0
          <6>1. i \in 1..44
            BY <1>2
          <6> HIDE DEF i
          <6>2. i # 0
            BY <6>1
          <6> QED BY <6>2 DEF i
        <5> QED BY <5>1, Zenon DEF SchemaInv, Pending
      <4> QED BY <3>1, <4>1 DEF TablesThere, Pair
    <3> QED BY <2>1, <2>2, <2>3, <3>2
  <2>4. CASE s.kind = "unless" /\ M!Leaves /\ Pair(s) \in mTx.now.cols
    <3>1. \A n \in 1..Len(M!Order[i]) : M!Order[i][n].kind = "add" => Pair(M!Order[i][n]) = Pair(s)
      BY <1>2, <2>4, StatementFacts
    <3>2. mAt' = <<i, Len(M!Order[i]) + 1>> /\ Len(M!Order[i]) + 1 \in Nat /\ Len(M!Order[i]) + 1 > j
      BY <1>2, <2>4 DEF M!Leaves
    <3>3. mTx.now.vals["source"] # "empty" /\ PrimaryPair \notin mTx.added
      BY <1>1, <2>4, StillToCome
    <3> QED BY <1>1, <1>7, <2>4, <3>1, <3>2, <3>3, SchemaPasses
  <2>5. (Pair(s) \in mTx.now.cols) \in BOOLEAN /\ (s.kind = "only if") \in BOOLEAN
    OBVIOUS
  <2>6. CASE s.kind = "unless" /\ Pair(s) \notin mTx.now.cols
    <3>1. s.kind # "only if"
      BY <2>6
    <3> QED BY <2>1, <2>2, <2>6, <3>1
  <2>7. CASE s.kind = "unless" /\ Pair(s) \in mTx.now.cols
    <3>1. s.kind # "only if"
      BY <2>7
    <3> QED BY <2>1, <2>4, <2>7, <3>1
  <2> QED BY <1>7, <2>3, <2>6, <2>7
<1>8. CASE s.kind \in {"create", "add"} /\ M!Goes
           /\ IF Pair(s) \in mTx.now.cols THEN UNCHANGED mTx
              ELSE mTx' = [mTx EXCEPT !.now = M!Added(@, s), !.added = @ \union {Pair(s)}]
  <2>0. mAt' = <<i, j + 1>> /\ mAt'[1] = i /\ mAt'[2] = j + 1
    BY <1>8 DEF M!Goes
  <2>1. /\ Pair(s) \in M!Models
        /\ Pair(s) = SourcePair => i = 3 /\ j = 2
        /\ Pair(s) = PrimaryPair => i = 43 /\ j = 2
    BY <1>2, <1>8, StatementFacts
  <2>2. /\ mTx.now.vals["source"] # "empty"
        /\ mTx.now.vals["primary"] = "empty" <=> PrimaryPair \in mTx.added
        /\ PrimaryPair \in mTx.added => i = 43 /\ j = 3
    BY <1>1, <1>8, StillToCome
  <2>3. CASE Pair(s) \in mTx.now.cols
    <3>1. mTx' = mTx
      BY <1>8, <2>3
    <3>2. ValuesCome'
      BY <1>1, <2>0, <2>2, <3>1 DEF SchemaInv, ValuesCome, Filling
    <3> QED BY <1>1, <1>2, <1>3, <1>5, <2>0, <2>3, <3>1, <3>2, SchemaOn DEF SchemaTypes
  <2>4. CASE Pair(s) \notin mTx.now.cols
    <3>1. mTx' = [mTx EXCEPT !.now = M!Added(@, s), !.added = @ \union {Pair(s)}]
      BY <1>8, <2>4
    <3>2. /\ M!Added(mTx.now, s) \in Databases /\ M!Added(mTx.now, s).cols = mTx.now.cols \union {Pair(s)}
          /\ \A x \in M!Data : M!Added(mTx.now, s).vals[x] =
                IF M!Column[x] = Pair(s) THEN "empty" ELSE mTx.now.vals[x]
      <4> HIDE DEF s
      <4> QED BY <1>3, <2>1, AddedIs
    <3>3. /\ mTx' \in Transactions /\ mTx'.now = M!Added(mTx.now, s)
          /\ mTx'.added = mTx.added \union {Pair(s)} /\ mTx'.aborted = mTx.aborted
      <4> HIDE DEF s
      <4> QED BY <1>3, <2>1, <3>1, <3>2 DEF Transactions
    <3>4. /\ mTx'.now.vals["source"] = IF SourcePair = Pair(s) THEN "empty" ELSE mTx.now.vals["source"]
          /\ mTx'.now.vals["primary"] = IF PrimaryPair = Pair(s) THEN "empty" ELSE mTx.now.vals["primary"]
      BY <3>2, <3>3, ColumnsAre
    <3>5. ValuesCome'
      <4>1. Filling(mDb)'
        BY <1>1 DEF SchemaInv, ValuesCome, Filling
      <4>2. mTx'.now.vals["source"] = "empty" => i = 3 /\ j = 2 /\ SourcePair \in mTx'.added
        BY <2>1, <2>2, <3>3, <3>4
      <4>3. mTx'.now.vals["primary"] = "empty" <=> PrimaryPair \in mTx'.added
        BY <2>2, <3>3, <3>4
      <4>4. PrimaryPair \in mTx'.added => i = 43 /\ j \in {2, 3}
        BY <2>1, <2>2, <3>3
      <4> QED BY <2>0, <4>1, <4>2, <4>3, <4>4 DEF ValuesCome
    <3>6. Pair(s) \in mTx'.now.cols /\ mTx.now.cols \subseteq mTx'.now.cols
      BY <3>2, <3>3
    <3> QED BY <1>1, <1>2, <1>3, <1>4, <1>5, <2>0, <3>3, <3>5, <3>6, SchemaOn DEF SchemaTypes
  <2> QED BY <2>3, <2>4
<1>9. CASE s.kind = "fill" /\ M!Goes /\ mTx' = [mTx EXCEPT !.now = M!Filled(@, s.c)]
  <2>0. mAt' = <<i, j + 1>> /\ mAt'[1] = i /\ mAt'[2] = j + 1
    BY <1>9 DEF M!Goes
  <2>1. s.c \in {"icon", "workspace", "owner"}
    BY <1>2, <1>9, StatementFacts
  <2>2. /\ M!Filled(mTx.now, s.c) \in Databases /\ M!Filled(mTx.now, s.c).cols = mTx.now.cols
        /\ \A y \in M!Data \ {s.c} : M!Filled(mTx.now, s.c).vals[y] = mTx.now.vals[y]
    <3> HIDE DEF s
    <3> QED BY <1>3, <2>1, FilledIs, ColumnsAre
  <2>3. /\ mTx' \in Transactions /\ mTx'.now = M!Filled(mTx.now, s.c)
        /\ mTx'.added = mTx.added /\ mTx'.aborted = mTx.aborted
    <3> HIDE DEF s
    <3> QED BY <1>3, <1>9, <2>2 DEF Transactions
  <2>4. mTx.now.vals["source"] # "empty" /\ PrimaryPair \notin mTx.added /\ mTx.now.vals["primary"] # "empty"
    BY <1>1, <1>9, StillToCome
  <2>5. mTx'.now.vals["source"] # "empty" /\ mTx'.now.vals["primary"] # "empty"
    BY <2>1, <2>2, <2>3, <2>4, ColumnsAre
  <2>6. ValuesCome'
    BY <1>1, <2>3, <2>4, <2>5 DEF SchemaInv, ValuesCome, Filling
  <2> QED BY <1>1, <1>2, <1>3, <1>4, <1>5, <1>9, <2>0, <2>2, <2>3, <2>6, SchemaOn DEF SchemaTypes
<1>10. CASE s.kind = "fill added" /\ M!Column[s.c] \in mTx.added /\ M!Goes
            /\ mTx' = [mTx EXCEPT !.now = M!Filled(@, s.c)]
  <2>0. mAt' = <<i, j + 1>> /\ mAt'[1] = i /\ mAt'[2] = j + 1
    BY <1>10 DEF M!Goes
  <2>1. (s.c = "source" /\ i = 3 /\ j = 3) \/ (s.c = "primary" /\ i = 43 /\ j = 4)
    BY <1>2, <1>10, StatementFacts
  <2>2. s.c = "primary" => mTx.now.vals["primary"] = "empty"
    BY <1>1, <1>10, StillToCome, ColumnsAre
  <2>3. /\ M!Filled(mTx.now, s.c) \in Databases /\ M!Filled(mTx.now, s.c).cols = mTx.now.cols
        /\ \A y \in M!Data \ {s.c} : M!Filled(mTx.now, s.c).vals[y] = mTx.now.vals[y]
        /\ M!Filled(mTx.now, s.c).vals[s.c] # "empty"
    <3> HIDE DEF s
    <3> QED BY <1>3, <2>1, <2>2, FilledIs, ColumnsAre
  <2>4. /\ mTx' \in Transactions /\ mTx'.now = M!Filled(mTx.now, s.c)
        /\ mTx'.added = mTx.added /\ mTx'.aborted = mTx.aborted
    <3> HIDE DEF s
    <3> QED BY <1>3, <1>10, <2>3 DEF Transactions
  <2>5. /\ mTx.now.vals["source"] = "empty" => i = 3
        /\ PrimaryPair \in mTx.added => i = 43
        /\ mTx.now.vals["primary"] = "empty" => i = 43
    BY <1>1, StillToCome
  <2>6. mTx'.now.vals["source"] # "empty" /\ mTx'.now.vals["primary"] # "empty"
    BY <2>1, <2>3, <2>4, <2>5, ColumnsAre
  <2>7. ValuesCome'
    BY <1>1, <2>0, <2>1, <2>4, <2>5, <2>6 DEF SchemaInv, ValuesCome, Filling
  <2>8. \A n \in 1..Len(M!Order[i]) : n >= j /\ n < j + 1 => M!Order[i][n].kind # "add"
    BY <1>2, <1>5, <1>10
  <2>9. j + 1 > j /\ mTx'.now.cols = mTx.now.cols /\ ~mTx'.aborted
    BY <1>2, <1>4, <2>3, <2>4
  <2> QED BY <1>1, <1>2, <1>3, <2>0, <2>4, <2>7, <2>8, <2>9, SchemaOn DEF SchemaTypes
<1>11. CASE s.kind = "fill added" /\ M!Column[s.c] \notin mTx.added /\ M!Goes /\ UNCHANGED mTx
  <2>1. (s.c = "source" /\ i = 3 /\ j = 3) \/ (s.c = "primary" /\ i = 43 /\ j = 4)
    BY <1>2, <1>11, StatementFacts
  <2>2. mTx.now.vals["source"] # "empty" /\ PrimaryPair \notin mTx.added
    <3>1. SourcePair \in mTx.added => i = 43 \/ s.c # "source"
      BY <1>11, <2>1, ColumnsAre
    <3>2. mTx.now.vals["source"] = "empty" => i = 3 /\ SourcePair \in mTx.added
      BY <1>1, StillToCome
    <3>3. PrimaryPair \in mTx.added => i = 43
      BY <1>1, StillToCome
    <3>4. s.c = "primary" => PrimaryPair \notin mTx.added
      BY <1>11, ColumnsAre
    <3> QED BY <2>1, <3>1, <3>2, <3>3, <3>4
  <2>3. \A n \in 1..Len(M!Order[i]) : n >= j /\ n < j + 1 /\ M!Order[i][n].kind = "add"
                                   => Pair(M!Order[i][n]) \in mTx.now.cols
    BY <1>2, <1>5, <1>11
  <2>4. mAt' = <<i, j + 1>>
    BY <1>11 DEF M!Goes
  <2>5. j + 1 > j
    BY <1>2
  <2> QED BY <1>1, <1>2, <1>11, <2>2, <2>3, <2>4, <2>5, SchemaPasses
<1>12. CASE s.kind \in {"fill", "other"} /\ M!Goes /\ UNCHANGED mTx
  BY <1>6, <1>12 DEF M!Goes
<1> HIDE DEF s
<1> QED BY <1>1, <1>7, <1>8, <1>9, <1>10, <1>11, <1>12 DEF M!Works, Pair

LEMMA FailsKept ==
    ASSUME SchemaInv, M!Fails
    PROVE  SchemaInv'
<1> DEFINE i == mAt[1]
           j == mAt[2]
           s == M!Current
<1>1. /\ M!More /\ mFailed' = TRUE
      /\ IF s.tried THEN M!Goes /\ mTx' = [mTx EXCEPT !.aborted = TRUE] /\ UNCHANGED mDb
                    ELSE M!NextMigration(mDb)
  BY DEF M!Fails
<1>2. mEvents' \in 0..MaxEvents
  <2>1. mEvents \in 0..MaxEvents /\ MaxEvents \in Nat
    BY PanelAssumption DEF SchemaInv, SchemaTypes
  <2>2. mEvents' = mEvents \/ (mEvents < MaxEvents /\ mEvents' = mEvents + 1)
    BY DEF M!Fails
  <2> QED BY <2>1, <2>2
<1>3. /\ i \in 1..44 /\ j \in 1..Len(M!Order[i]) /\ mAt = <<i, j>> /\ Len(M!Order[i]) \in Nat
  <2>1. i \in 1..44 /\ j \in 1..Len(M!Order[i]) /\ mAt = <<i, j>>
    BY <1>1, StillToCome, Zenon
  <2>2. Len(M!Order[i]) \in Nat
    BY <2>1, OrderLengths
  <2> QED BY <2>1, <2>2
<1>4. CASE s.tried
  <2>1. mAt' = <<i, j + 1>> /\ mTx' = [mTx EXCEPT !.aborted = TRUE] /\ mDb' = mDb
    BY <1>1, <1>4 DEF M!Goes
  <2>2. j + 1 \in Nat /\ j + 1 > j
    BY <1>3
  <2>3. mTx' \in Transactions /\ mTx'.now = mTx.now /\ mTx'.added = mTx.added
    BY <2>1 DEF SchemaInv, SchemaTypes, Transactions
  <2>4. mTx.now.vals["source"] # "empty" /\ PrimaryPair \notin mTx.added /\ mTx.now.vals["primary"] # "empty"
    BY <1>1, <1>4, StillToCome
  <2>5. ValuesCome'
    BY <2>1, <2>3, <2>4 DEF SchemaInv, ValuesCome, Filling
  <2> QED BY <1>1, <1>2, <1>3, <2>1, <2>2, <2>3, <2>5, SchemaOn
<1>5. CASE ~s.tried
  <2>1. M!NextMigration(mDb) /\ Filling(mDb)
    BY <1>1, <1>5 DEF SchemaInv, ValuesCome
  <2> QED BY <1>1, <1>2, <1>3, <2>1, SchemaNext
<1> QED BY <1>4, <1>5

LEMMA SchemaCommitKept ==
    ASSUME SchemaInv, M!Commit
    PROVE  SchemaInv'
<1> DEFINE d == IF mTx.aborted THEN mDb ELSE mTx.now
<1>1. M!Running /\ ~M!More /\ M!NextMigration(d) /\ UNCHANGED <<mFailed, mEvents>>
  BY DEF M!Commit
<1>2. mAt[1] \in 1..44 /\ ~(mAt[2] <= Len(M!Order[mAt[1]]))
  BY <1>1, OrderIs DEF M!Running, M!More
<1>3. mAt[2] > Len(M!Order[mAt[1]])
  <2>1. mAt[2] \in Nat
    BY DEF SchemaInv, SchemaTypes
  <2>2. Len(M!Order[mAt[1]]) \in Nat
    BY <1>2, OrderLengths
  <2> QED BY <1>2, <2>1, <2>2
<1>4. Filling(mDb) /\ Filling(mTx.now)
  <2>1. Len(M!Order[3]) = 5 /\ Len(M!Order[43]) = 4
    BY OrderSound, Zenon DEF CrossNode, MultiIp
  <2>2. mAt # <<3, 3>>
    <3>1. SUFFICES ASSUME mAt = <<3, 3>> PROVE FALSE
      OBVIOUS
    <3>2. mAt[1] = 3 /\ mAt[2] = 3
      BY <3>1
    <3>3. Len(M!Order[mAt[1]]) = 5
      BY <2>1, <3>2
    <3> QED BY <1>2, <3>2, <3>3
  <2>3. mAt \notin {<<43, 3>>, <<43, 4>>}
    <3>1. SUFFICES ASSUME mAt \in {<<43, 3>>, <<43, 4>>} PROVE FALSE
      OBVIOUS
    <3>2. mAt[1] = 43 /\ mAt[2] <= 4
      BY <3>1
    <3>3. Len(M!Order[mAt[1]]) = 4
      BY <2>1, <3>2
    <3> QED BY <1>2, <3>2, <3>3
  <2> QED BY <2>2, <2>3, Zenon DEF SchemaInv, ValuesCome, Filling
<1>5. mFailed \in BOOLEAN /\ mEvents \in 0..MaxEvents /\ (mTx.aborted => mFailed)
  BY DEF SchemaInv, SchemaTypes, Pending
<1>6. CASE mTx.aborted
  BY <1>1, <1>2, <1>4, <1>5, <1>6, SchemaNext
<1>7. CASE ~mTx.aborted
  BY <1>1, <1>2, <1>3, <1>4, <1>5, <1>7, SchemaNext
<1> QED BY <1>6, <1>7

LEMMA StopKept ==
    ASSUME SchemaInv, M!Stop
    PROVE  SchemaInv'
<1>1. /\ mAt' = <<0, 1>> /\ mTx' = M!Fresh(mDb) /\ mDb' = mDb /\ mFailed' = mFailed
      /\ mEvents < MaxEvents /\ mEvents' = mEvents + 1
  BY DEF M!Stop, M!Stopped
<1>2. mEvents' \in 0..MaxEvents
  BY <1>1, PanelAssumption DEF SchemaInv, SchemaTypes
<1>3. mDb \in Databases /\ mFailed \in BOOLEAN
  BY DEF SchemaInv, SchemaTypes
<1>4. /\ mTx' \in Transactions
      /\ mTx'.now = mDb /\ mTx'.added = {} /\ ~mTx'.aborted
  BY <1>1, <1>3, FreshIs
<1>5. SchemaTypes'
  BY <1>1, <1>2, <1>3, <1>4 DEF SchemaTypes
<1>6. mAt'[1] = 0
  BY <1>1
<1>7. Pending'
  BY <1>4, <1>6 DEF Pending
<1>8. ValuesCome'
  BY <1>1, <1>4 DEF SchemaInv, ValuesCome, Filling
<1> QED BY <1>5, <1>7, <1>8 DEF SchemaInv

LEMMA StartKept ==
    ASSUME SchemaInv, M!Start
    PROVE  SchemaInv'
<1> DEFINE c == mDb.cols \union UNION {M!Whole(t) : t \in {t \in M!Tables : ~M!Exists(mDb, t)}}
           w == [x \in M!Data |-> IF M!Exists(mDb, M!Column[x][1]) THEN mDb.vals[x] ELSE "own"]
           d == [mDb EXCEPT !.cols = c, !.vals = w]
<1>1. /\ mDb' = d /\ mTx' = M!Fresh(d) /\ mAt' = <<1, 1>> /\ mFailed' = FALSE /\ mEvents' = mEvents
  BY DEF M!Start
<1>2. mDb \in Databases /\ mEvents \in 0..MaxEvents
  BY DEF SchemaInv, SchemaTypes
<1>3. c \in SUBSET M!Models
  BY <1>2 DEF Databases, M!Models
<1>4. w \in [M!Data -> Values] /\ w["source"] # "empty" /\ w["primary"] # "empty"
  <2>1. {"source", "primary"} \subseteq M!Data
    BY ColumnsAre
  <2>2. mDb.vals["source"] # "empty" /\ mDb.vals["primary"] # "empty"
    BY DEF SchemaInv, ValuesCome, Filling
  <2>3. w \in [M!Data -> Values]
    BY <1>2 DEF Databases, Values
  <2> QED BY <2>1, <2>2, <2>3
<1>5. \A t \in M!Tables : <<t, "id">> \in c
  <2>1. TAKE t \in M!Tables
  <2>2. CASE M!Exists(mDb, t)
    BY <2>2 DEF M!Exists
  <2>3. CASE ~M!Exists(mDb, t)
    <3>1. <<t, "id">> \in M!Whole(t)
      BY DEF M!Whole
    <3> QED BY <2>3, <3>1
  <2> QED BY <2>2, <2>3
<1> HIDE DEF c, w
<1>6. d \in Databases /\ d.cols = c /\ d.vals = w
  BY <1>2, <1>3, <1>4 DEF Databases
<1> HIDE DEF d
<1>7. /\ mTx' \in Transactions
      /\ mTx'.now = d /\ mTx'.added = {} /\ ~mTx'.aborted
  BY <1>1, <1>6, FreshIs
<1>8. SchemaTypes'
  <2>1. <<1, 1>> \in (0..45) \X (Nat \ {0})
    OBVIOUS
  <2> QED BY <1>1, <1>2, <1>6, <1>7, <2>1 DEF SchemaTypes
<1>9. mAt'[1] = 1 /\ mAt'[2] = 1
  BY <1>1
<1>10. ASSUME NEW p \in M!Models
       PROVE  p \in c \/ Ahead(p, mAt')
  <2>1. PICK t \in M!Tables : p = <<t, "id">> \/ \E x \in M!Later[t] : p = <<t, x>>
    BY ModelsAre
  <2>2. CASE p = <<t, "id">>
    BY <1>5, <2>2
  <2>3. CASE \E x \in M!Later[t] : p = <<t, x>>
    <3>1. PICK x \in M!Later[t] : p = <<t, x>>
      BY <2>3
    <3>2. PICK i \in 1..44 : Brings(M!Order[i], t, x)
      BY EveryColumnComes
    <3>3. PICK j \in 1..Len(M!Order[i]) : /\ M!Order[i][j].kind = "add"
                                          /\ M!Order[i][j].t = t /\ M!Order[i][j].c = x
      BY <3>2 DEF Brings
    <3>4. i > mAt'[1] \/ (i = mAt'[1] /\ j >= mAt'[2])
      BY <1>9, OrderLengths
    <3> QED BY <3>1, <3>3, <3>4 DEF Ahead, Pair
  <2> QED BY <2>1, <2>2, <2>3
<1>11. Pending'
  BY <1>1, <1>5, <1>6, <1>7, <1>9, <1>10 DEF Pending, TablesThere
<1>12. ValuesCome'
  BY <1>1, <1>4, <1>6, <1>7 DEF ValuesCome, Filling
<1> QED BY <1>8, <1>11, <1>12 DEF SchemaInv

LEMMA ChooseKept ==
    ASSUME SchemaInv, NEW x \in M!Data, NEW v \in {"own", "cleared"}, M!Choose(x, v)
    PROVE  SchemaInv'
<1> DEFINE d == [mDb EXCEPT !.vals[x] = v]
<1>1. /\ mDb' = d /\ mTx' = M!Fresh(d) /\ mAt' = mAt /\ mFailed' = mFailed /\ mAt[1] = 45
      /\ mEvents < MaxEvents /\ mEvents' = mEvents + 1
  BY OrderIs DEF M!Choose, M!Serving
<1>2. mEvents' \in 0..MaxEvents
  BY <1>1, PanelAssumption DEF SchemaInv, SchemaTypes
<1>3. mDb \in Databases /\ mFailed \in BOOLEAN /\ mAt \in (0..45) \X (Nat \ {0})
  BY DEF SchemaInv, SchemaTypes
<1>4. d \in Databases /\ d.cols = mDb.cols /\ \A y \in M!Data : d.vals[y] \in {mDb.vals[y], v}
  BY <1>3 DEF Databases, Values
<1> HIDE DEF d
<1>5. /\ mTx' \in Transactions
      /\ mTx'.now = d /\ mTx'.added = {} /\ ~mTx'.aborted
  BY <1>1, <1>4, FreshIs
<1>6. SchemaTypes'
  BY <1>1, <1>2, <1>3, <1>4, <1>5 DEF SchemaTypes
<1>7. /\ TablesThere(mDb) /\ mTx.now = mDb
      /\ ~mFailed => \A p \in M!Models : p \in mTx.now.cols \/ Ahead(p, mAt)
  BY <1>1 DEF SchemaInv, Pending
<1>8. TablesThere(d)
  BY <1>4, <1>7 DEF TablesThere
<1>9. Pending'
  BY <1>1, <1>4, <1>5, <1>7, <1>8, Zenon DEF Pending
<1>10. Filling(d)
  BY <1>4, ColumnsAre DEF SchemaInv, ValuesCome, Filling
<1>11. ValuesCome'
  BY <1>1, <1>5, <1>10 DEF ValuesCome, Filling
<1> QED BY <1>6, <1>9, <1>11 DEF SchemaInv

\* The databases a start may find have columns of the models.
LEMMA DatabasesFound ==
    /\ \A n \in 0..44 : M!Release(n) \subseteq M!Models
    /\ M!InitSql \subseteq M!Models
<1>1. M!First \subseteq M!Models
  BY ModelsAre DEF M!First
<1>2. ASSUME NEW i \in 1..44
      PROVE  M!Made(M!Order[i]) \subseteq M!Models
  <2> DEFINE m == M!Order[i]
  <2>1. SUFFICES ASSUME NEW p \in M!Made(m) PROVE p \in M!Models
    OBVIOUS
  <2>2. PICK s \in M!Elements(m) : s.kind \in {"create", "add"} /\ p = <<s.t, s.c>>
    BY <2>1 DEF M!Made
  <2>3. PICK j \in DOMAIN m : s = m[j]
    BY <2>2 DEF M!Elements
  <2>4. j \in 1..Len(m)
    BY <2>3, OrderLengths
  <2> QED BY <2>2, <2>3, <2>4, StatementFacts DEF Pair
<1>3. \A n \in 0..44 : M!Release(n) \subseteq M!Models
  BY <1>1, <1>2 DEF M!Release
<1>4. \A t \in {"roles", "users", "active_sessions", "notifications",
                "proxmox_servers", "os_templates", "vm_instances", "ipam_networks", "audit_logs", "task_queue"} :
         M!Whole(t) \subseteq M!Models
  BY TablesAre DEF M!Models
<1>5. M!InitSql \subseteq M!Models
  BY <1>1, <1>4 DEF M!InitSql
<1> QED BY <1>3, <1>5

LEMMA SchemaInit == M!Init => SchemaInv
<1> SUFFICES ASSUME M!Init PROVE SchemaInv
  OBVIOUS
<1>1. PICK cols \in {{}, M!InitSql} \union {M!Release(n) : n \in 0..Len(M!Order)}
                    \union {M!Release(n) \ {<<"installed_apps", "snapshot_version">>} : n \in 0..Len(M!Order)} :
         mDb = [cols |-> cols,
                vals |-> [x \in M!Data |-> IF M!Column[x] \notin cols THEN "none"
                                           ELSE IF x = "icon" THEN "empty" ELSE "own"],
                lost |-> {}]
  BY DEF M!Init
<1>2. mTx = [now |-> mDb, added |-> {}, aborted |-> FALSE] /\ mAt = <<0, 1>> /\ mFailed = FALSE /\ mEvents = 0
  BY DEF M!Init, M!Stopped
<1>3. cols \subseteq M!Models
  BY <1>1, DatabasesFound, OrderIs
<1> DEFINE w == [x \in M!Data |-> IF M!Column[x] \notin cols THEN "none"
                                  ELSE IF x = "icon" THEN "empty" ELSE "own"]
<1>4. w \in [M!Data -> Values] /\ w["source"] # "empty" /\ w["primary"] # "empty"
  <2>1. {"source", "primary"} \subseteq M!Data
    BY ColumnsAre
  <2>2. w \in [M!Data -> Values]
    BY DEF Values
  <2> QED BY <2>1, <2>2
<1>5. mDb = [cols |-> cols, vals |-> w, lost |-> {}]
  BY <1>1
<1> HIDE DEF w
<1>6. mDb \in Databases /\ mDb.vals = w
  BY <1>3, <1>4, <1>5 DEF Databases
<1>7. SchemaTypes
  <2>1. <<0, 1>> \in (0..45) \X (Nat \ {0}) /\ 0 \in 0..MaxEvents
    BY PanelAssumption
  <2>2. mTx \in Transactions
    BY <1>2, <1>6 DEF Transactions
  <2> QED BY <1>2, <1>6, <2>1, <2>2 DEF SchemaTypes
<1>8. mAt[1] = 0 /\ ~mTx.aborted /\ mTx.now = mDb /\ mTx.added = {}
  BY <1>2
<1>9. Pending /\ ValuesCome
  BY <1>4, <1>6, <1>8 DEF Pending, ValuesCome, Filling
<1> QED BY <1>7, <1>9 DEF SchemaInv

LEMMA SchemaKept == SchemaInv /\ [M!Next]_(M!vars) => SchemaInv'
<1> SUFFICES ASSUME SchemaInv, [M!Next]_(M!vars) PROVE SchemaInv'
  OBVIOUS
<1>1. CASE M!Next
  BY <1>1, StartKept, RunKept, FailsKept, SchemaCommitKept, StopKept, ChooseKept DEF M!Next
<1>2. CASE UNCHANGED M!vars
  <2>1. UNCHANGED <<mDb, mTx, mAt, mFailed, mEvents>>
    BY <1>2 DEF M!vars
  <2> QED BY <2>1 DEF SchemaInv, SchemaTypes, Pending, Ahead, TablesThere, ValuesCome, Filling
<1> QED BY <1>1, <1>2

LEMMA SchemaTrue == SchemaInv => M!TypeOK /\ M!SchemaComplete /\ M!BackfillWithColumn /\ M!ChoicesStand
<1> SUFFICES ASSUME SchemaInv PROVE M!TypeOK /\ M!SchemaComplete /\ M!BackfillWithColumn /\ M!ChoicesStand
  OBVIOUS
<1>1. M!TypeOK
  <2>1. mDb \in Databases /\ mTx \in Transactions /\ mAt[1] \in 0..45 /\ mAt[2] \in Nat
    BY DEF SchemaInv, SchemaTypes
  <2>2. mDb.cols \subseteq M!Models /\ mTx.now.cols \subseteq M!Models /\ mTx.added \subseteq M!Models
    BY <2>1 DEF Databases, Transactions
  <2>3. mDb.vals \in [M!Data -> {"none", "empty", "filled", "own", "cleared"}]
    BY <2>1 DEF Databases, Values
  <2> QED BY <2>1, <2>2, <2>3, OrderIs DEF SchemaInv, SchemaTypes, M!TypeOK
<1>2. M!SchemaComplete
  <2>1. SUFFICES ASSUME mAt[1] = 45, ~mFailed PROVE mDb.cols = M!Models
    BY OrderIs DEF M!SchemaComplete, M!Serving
  <2>2. mTx.now = mDb /\ \A p \in M!Models : p \in mTx.now.cols \/ Ahead(p, mAt)
    BY <2>1 DEF SchemaInv, Pending
  <2>3. \A p : ~Ahead(p, mAt)
    BY <2>1 DEF Ahead
  <2>4. mDb.cols \subseteq M!Models
    BY DEF SchemaInv, SchemaTypes, Databases
  <2> QED BY <2>2, <2>3, <2>4
<1>3. M!BackfillWithColumn
  BY DEF SchemaInv, ValuesCome, Filling, M!BackfillWithColumn
<1>4. M!ChoicesStand
  BY DEF SchemaInv, SchemaTypes, Databases, Given, M!ChoicesStand
<1> QED BY <1>1, <1>2, <1>3, <1>4

\* Whatever release or failed start left the database: a start that fails nowhere ends
\* with every column of the models, no old row is left without the values that come with
\* a column, and no choice is written over but the ones named; with the choices of
\* administrators about roles, this is all that a start promises.
THEOREM StartsHold == Spec => []StartsTrue
<1> DEFINE Inv == part = "schema" => SchemaInv
<1>1. Init => Inv
  BY SchemaInit DEF Init
<1>2. Inv /\ [Next]_vars => Inv'
  <2> SUFFICES ASSUME Inv, [Next]_vars, part' = "schema" PROVE SchemaInv'
    OBVIOUS
  <2>1. part = "schema" /\ [M!Next]_(M!vars)
    BY EachItsOwn
  <2> QED BY <2>1, SchemaKept
<1>3. Inv /\ (part = "startup" => S!ChoicesSurvive) => StartsTrue
  BY SchemaTrue DEF StartsTrue
<1> QED BY <1>1, <1>2, <1>3, ChoicesHold, PTL DEF Spec
-----------------------------------------------------------------------------
\* Of the other parts the variables have their types too: the cache never holds more
\* than it may, roles have only permissions there are, failures and tries stay in their
\* bounds, the columns are of the models, and histories are about what there is.
THEOREM AdministrationTypes ==
    Spec => [](part \in {"connections", "users", "gate", "startup", "schema", "clusters"} => TypeOK)
<1> DEFINE Inv == /\ part \in Parts
                  /\ part = "connections" => ConnInv /\ Cardinality(N!Cached) <= CacheSize
                  /\ part = "users" => UsersInv /\ RolesGiven
                  /\ part = "gate" => GateInv
                  /\ part = "startup" => RolesInv /\ StartTyped
                  /\ part = "schema" => SchemaInv
                  /\ part = "clusters" => ClustersInv /\ HistoriesTyped
<1>1. Init => Inv
  <2>1. N!Init => Cardinality(N!Cached) <= CacheSize
    <3>1. N!Init => N!Cached = {}
      BY DEF N!Init, N!Cached
    <3>2. Cardinality({}) = 0 /\ CacheSize \in Nat
      BY FS_EmptySet, ConnConstants
    <3> QED BY <3>1, <3>2
  <2>2. R!Init => RolesGiven
    BY DEF R!Init, R!Perms, RolesGiven
  <2>3. S!Init => StartTyped
    BY BoundsAssumption DEF S!Init, StartTyped
  <2>4. C!Init => HistoriesTyped
    BY PanelAssumption DEF C!Init, C!Idle, HistoriesTyped
  <2> QED BY <2>1, <2>2, <2>3, <2>4, ConnInit, UsersInit, GateInit, RolesInit, SchemaInit, ClustersInit DEF Init
<1>2. Inv /\ [Next]_vars => Inv'
  <2> SUFFICES ASSUME Inv, [Next]_vars PROVE Inv'
    OBVIOUS
  <2>1. part' = part
    BY EachItsOwn
  <2>2. CASE part = "connections"
    <3>1. ConnInv' /\ Cardinality(N!Cached)' <= CacheSize
      BY <2>2, EachItsOwn, ConnKept, CacheBounded
    <3> QED BY <2>1, <2>2, <3>1
  <2>3. CASE part = "users"
    BY <2>1, <2>3, EachItsOwn, UsersKept, RolesGivenKept
  <2>4. CASE part = "gate"
    BY <2>1, <2>4, EachItsOwn, GateKept
  <2>5. CASE part = "startup"
    BY <2>1, <2>5, EachItsOwn, RolesKept, StartTypedKept
  <2>6. CASE part = "schema"
    BY <2>1, <2>6, EachItsOwn, SchemaKept
  <2>7. CASE part = "clusters"
    BY <2>1, <2>7, EachItsOwn, ClustersKept, HistoriesKept
  <2> QED BY <2>1, <2>2, <2>3, <2>4, <2>5, <2>6, <2>7
<1>3. Inv => (part \in {"connections", "users", "gate", "startup", "schema", "clusters"} => TypeOK)
  <2> SUFFICES ASSUME Inv, part \in {"connections", "users", "gate", "startup", "schema", "clusters"} PROVE TypeOK
    OBVIOUS
  <2>1. /\ part = "connections" => N!TypeOK
        /\ part = "users" => R!TypeOK
        /\ part = "gate" => L!TypeOK
        /\ part = "startup" => S!TypeOK
        /\ part = "schema" => M!TypeOK
        /\ part = "clusters" => C!TypeOK
    BY ConnectionTypes, UsersTypes, RolesAtStartTypes, SchemaTrue, ClustersTypes DEF GateInv
  <2> QED BY <2>1 DEF TypeOK
<1> QED BY <1>1, <1>2, <1>3, PTL DEF Spec
=============================================================================
