--------------------------- MODULE Administration ---------------------------
(***************************************************************************)
(* Users, their roles, and who may change them.  A request is allowed by   *)
(* what the database says when it is authenticated, in a thread of its     *)
(* own; its handler runs later with the user object it was given then.     *)
(* The handlers under /admin run on the event loop, one at a time; the     *)
(* older deletion under /api/users runs in a thread.                       *)
(***************************************************************************)
EXTENDS Naturals, FiniteSets

CONSTANTS
    Users, Roles,
    Admin,        \* the role of this name
    Grants,       \* sets of permissions that roles are given
    Requests,
    MaxRequests   \* bound: requests in all

NoRole == "no role"
Perms == {"create", "update", "delete", "manage", "roles"}

VARIABLES
    usr,      \* usr[u]: the row of the user
    role,     \* role[r]: the row of the role
    req,      \* req[q]: a request: who makes it, what it asks, what it was given
    crossed,  \* history: a handler acted for an administrator who is none any more
    byRole,   \* history: an administrator by role deleted one by flag
    count     \* requests so far

vars == <<usr, role, req, crossed, byRole, count>>

NoUser == [present |-> FALSE, active |-> FALSE, admin |-> FALSE, role |-> NoRole]
NoRequest(u) == [pc |-> "idle", actor |-> u, admin |-> FALSE, byRole |-> FALSE, op |-> "update", target |-> u]
Ops == {"create", "update", "delete", "roles", "remove"}

\* One administrator is there from the installation on.
Init ==
    /\ \E u0 \in Users :
          /\ usr \in [Users -> [present : {TRUE}, active : {TRUE}, admin : BOOLEAN, role : {NoRole, Admin}]
                                \union {NoUser}]
          /\ usr[u0].admin /\ \A u \in Users \ {u0} : usr[u].admin => usr[u].role = Admin
          /\ req = [q \in Requests |-> NoRequest(u0)]
    /\ role = [r \in Roles |-> [present |-> TRUE, system |-> r = Admin,
                                perms |-> IF r = Admin THEN Perms ELSE {"manage"}]]
    /\ crossed = FALSE /\ byRole = FALSE /\ count = 0

-----------------------------------------------------------------------------
IsAdmin(u) == usr[u].present /\ usr[u].active /\ usr[u].admin
AdminByRole(u) == ~usr[u].admin /\ usr[u].role = Admin

\* has_permission: administrators may do all, and "manage" implies "update".
PermsOf(u) == IF usr[u].role = NoRole THEN {} ELSE role[usr[u].role].perms
HasPermission(u, p) ==
    \/ usr[u].admin
    \/ p \in PermsOf(u)
    \/ p = "update" /\ "manage" \in PermsOf(u)

\* "remove" is the older deletion, which asks for an administrator.
Authenticate(q, u, op) ==
    /\ req[q].pc = "idle" /\ count < MaxRequests
    /\ usr[u].present /\ usr[u].active
    /\ IF op = "remove" THEN usr[u].admin \/ AdminByRole(u) ELSE HasPermission(u, op)
    /\ req' = [req EXCEPT ![q] = [pc |-> "ready", actor |-> u, admin |-> usr[u].admin,
                                  byRole |-> AdminByRole(u), op |-> op, target |-> u]]
    /\ count' = count + 1
    /\ UNCHANGED <<usr, role, crossed, byRole>>

Begin(q, op) == req[q].pc = "ready" /\ req[q].op = op
Answer(q) == req' = [req EXCEPT ![q].pc = "idle"]
\* Someone else has taken the flag or the place of the one who asks.
Stale(q) == req[q].admin /\ ~IsAdmin(req[q].actor)

CreateUser(q) ==
    /\ Begin(q, "create") /\ Answer(q)
    /\ \/ UNCHANGED usr
       \/ \E u \in Users, a \in BOOLEAN, r \in Roles \union {NoRole} :
             /\ ~usr[u].present /\ (r # NoRole => role[r].present)
             /\ usr' = [usr EXCEPT ![u] = [present |-> TRUE, active |-> TRUE, admin |-> a, role |-> r]]
    /\ UNCHANGED <<role, crossed, byRole, count>>

\* Mutant: one may take away one's own flag.
MutUpdateUser(q) ==
    /\ Begin(q, "update") /\ Answer(q)
    /\ \E u \in Users : \E a \in BOOLEAN :
          /\ usr[u].present /\ req[q].admin
          /\ usr' = [usr EXCEPT ![u].admin = a]
    /\ crossed' = (crossed \/ Stale(q))
    /\ UNCHANGED <<role, byRole, count>>

\* The fields are taken in turn; deactivating commits what was set so far, and
\* a refusal of the last field no longer takes that back.
UpdateUser(q) ==
    /\ Begin(q, "update") /\ Answer(q)
    /\ \E u \in Users, r \in Roles \union {NoRole} :
       \E active, admin \in {{}, {TRUE}, {FALSE}} :
          LET self == u = req[q].actor
              Changed(old, new) == IF new = {} THEN old ELSE TRUE \in new
              roleSet == IF r = NoRole THEN usr[u] ELSE [usr[u] EXCEPT !.role = r]
              activeSet == [roleSet EXCEPT !.active = Changed(@, active)]
              adminSet == [activeSet EXCEPT !.admin = Changed(@, admin)]
              refused == admin # {} /\ (~req[q].admin \/ (self /\ admin = {FALSE})) IN
          /\ usr[u].present /\ (usr[u].admin => req[q].admin)
          /\ (r # NoRole => role[r].present)
          /\ ~(self /\ active = {FALSE})
          /\ usr' = [usr EXCEPT ![u] =
                IF refused THEN (IF active = {FALSE} THEN activeSet ELSE usr[u])
                ELSE IF self THEN roleSet ELSE adminSet]
    /\ crossed' = (crossed \/ Stale(q))
    /\ UNCHANGED <<role, byRole, count>>

\* Neither oneself nor an administrator; a refused request changes nothing.
DeleteUser(q) ==
    /\ Begin(q, "delete") /\ Answer(q)
    /\ \E u \in Users :
          /\ usr[u].present /\ u # req[q].actor /\ ~usr[u].admin
          /\ usr' = [usr EXCEPT ![u] = NoUser]
    /\ UNCHANGED <<role, crossed, byRole, count>>

\* Only not oneself.  The sessions are ended in a commit of their own before.
StartRemove(q) ==
    /\ Begin(q, "remove")
    /\ \E u \in Users : /\ usr[u].present /\ u # req[q].actor
                        /\ req' = [req EXCEPT ![q].pc = "remove", ![q].target = u]
    /\ UNCHANGED <<usr, role, crossed, byRole, count>>

RemoveUser(q) ==
    /\ req[q].pc = "remove" /\ Answer(q)
    /\ usr' = [usr EXCEPT ![req[q].target] = NoUser]
    /\ crossed' = (crossed \/ Stale(q))
    /\ byRole' = (byRole \/ (req[q].byRole /\ usr[req[q].target].admin))
    /\ UNCHANGED <<role, count>>

(* Roles.                                                                  *)
CreateRole(q) ==
    /\ Begin(q, "roles") /\ Answer(q)
    /\ \E r \in Roles, p \in Grants :
          ~role[r].present /\ role' = [role EXCEPT ![r] = [present |-> TRUE, system |-> FALSE, perms |-> p]]
    /\ UNCHANGED <<usr, crossed, byRole, count>>

UpdateRole(q) ==
    /\ Begin(q, "roles") /\ Answer(q)
    /\ \E r \in Roles, p \in Grants :
          role[r].present /\ role' = [role EXCEPT ![r].perms = p]
    /\ UNCHANGED <<usr, crossed, byRole, count>>

DeleteRole(q) ==
    /\ Begin(q, "roles") /\ Answer(q)
    /\ \E r \in Roles :
          /\ role[r].present /\ ~role[r].system
          /\ \A u \in Users : usr[u].present => usr[u].role # r
          /\ role' = [role EXCEPT ![r].present = FALSE]
    /\ UNCHANGED <<usr, crossed, byRole, count>>

Refuse(q) ==
    /\ req[q].pc = "ready" /\ Answer(q)
    /\ UNCHANGED <<usr, role, crossed, byRole, count>>

Next ==
    \E q \in Requests :
        \/ \E u \in Users, op \in Ops : Authenticate(q, u, op)
        \/ CreateUser(q) \/ UpdateUser(q) \/ DeleteUser(q) \/ StartRemove(q) \/ RemoveUser(q)
        \/ CreateRole(q) \/ UpdateRole(q) \/ DeleteRole(q) \/ Refuse(q)

Spec == Init /\ [][Next]_vars

-----------------------------------------------------------------------------
TypeOK ==
    /\ usr \in [Users -> [present : BOOLEAN, active : BOOLEAN, admin : BOOLEAN, role : Roles \union {NoRole}]]
    /\ role \in [Roles -> [present : BOOLEAN, system : BOOLEAN, perms : SUBSET Perms]]
    /\ req \in [Requests -> [pc : {"idle", "ready", "remove"}, actor : Users, admin : BOOLEAN,
                             byRole : BOOLEAN, op : Ops, target : Users]]
    /\ crossed \in BOOLEAN /\ byRole \in BOOLEAN /\ count \in Nat

\* Somebody stays to administer the panel: no request, and no sequence of
\* them, takes the last active administrator away, unless it was allowed
\* before its maker lost the flag, or its maker is an administrator by role.
AdminRemains == crossed \/ byRole \/ \E u \in Users : IsAdmin(u)
=============================================================================
