------------------------------ MODULE Startup ------------------------------
(***************************************************************************)
(* What a start of the panel does to the roles.  Every start runs all     *)
(* migrations again, each in a transaction of its own that is rolled back  *)
(* and left behind when it fails; the panel serves once the last is done.  *)
(* Between starts administrators edit the permissions of roles.            *)
(*   backend/migrations/migrations.py, backend/app/rbac/migration.py,      *)
(*   init.sql, update_role (backend/app/api/users.py)                      *)
(*                                                                         *)
(* A role stores permissions under new names (resource:action) and, in a   *)
(* database from before them, under old ones (resource.action).  Of some   *)
(* hundred permissions the model keeps those the migrations treat apart.   *)
(***************************************************************************)
EXTENDS Naturals, Sequences, FiniteSets

CONSTANT MaxEvents       \* bound: edits of roles, failed migrations and stops

Builtin == {"admin", "moderator", "user"}
Roles == Builtin \union {"ops"}             \* ops: a role an administrator made
\* dashboard:view, setting:view, setting:update, server:view, node:view,
\* cluster:manage, coolify:view, and the permissions on guests of one's own.
Keys == {"dashboard", "settings", "panel", "servers", "nodes", "cluster", "coolify", "own"}
Stored == {"none", "yes", "no"}             \* a key that is missing, granted, refused

VARIABLES
    role,       \* role[r]: is the row there, and what it stores under both names
    markers,    \* panel_settings: the migrations that ran once for all
    step,       \* the migration a start is at; 0: stopped
    decided,    \* ghost: decided[r][k]: what was last decided of key k
    events

vars == <<role, markers, step, decided, events>>

-----------------------------------------------------------------------------
(* The rows a database may hold.                                           *)
Keep(yes, no) == [k \in Keys |-> IF k \in yes THEN "yes" ELSE IF k \in no THEN "no" ELSE "none"]
Nothing == Keep({}, {})
Missing == [there |-> FALSE, new |-> Nothing, old |-> Nothing]

\* DEFAULT_ROLES of the migrations, under old names.
OldDefault(r) ==
    [there |-> TRUE, new |-> IF r = "user" THEN Keep({"own"}, {}) ELSE Nothing,
     old |-> CASE r = "admin"     -> Keep({"dashboard", "settings", "panel", "servers"}, {})
               [] r = "moderator" -> Keep({"dashboard", "settings", "servers"}, {"panel"})
               [] OTHER           -> Keep({"settings", "servers"}, {"dashboard", "panel"})]

\* The rows init.sql inserts, under new names.
SqlDefault(r) ==
    [there |-> TRUE, old |-> Nothing,
     new |-> CASE r = "admin"     -> Keep({"dashboard", "settings", "panel", "servers"}, {})
               [] r = "moderator" -> Keep({"dashboard", "settings", "servers"}, {})
               [] OTHER           -> Keep({"dashboard", "servers"}, {})]

\* NEW_DEFAULT_ROLES.
NewDefault(r) ==
    CASE r = "admin"     -> Keep(Keys \ {"own"}, {})
      [] r = "moderator" -> Keep({"dashboard", "settings", "servers", "nodes", "coolify"}, {})
      [] OTHER           -> Keep({"servers", "nodes", "coolify"}, {"dashboard"})

\* A database init.sql prepared, one from before the new names, an empty one;
\* and a role of the administrators' own, in the names of its time.
Init ==
    /\ \E own \in {[there |-> TRUE, new |-> Keep({"settings", "servers"}, {}), old |-> Nothing],
                   [there |-> TRUE, new |-> Nothing, old |-> Keep({"settings", "servers"}, {"dashboard"})],
                   [there |-> TRUE, new |-> Nothing, old |-> Keep({"settings", "panel"}, {})], Missing} :
         role = [r \in Roles |-> CASE r = "ops"          -> own
                                   [] own = Missing      -> Missing
                                   [] own.old = Nothing  -> SqlDefault(r)
                                   [] OTHER              -> OldDefault(r)]
    /\ markers = {} /\ step = 0
    /\ decided = [r \in Roles |-> Nothing]
    /\ events = 0

-----------------------------------------------------------------------------
(* What the migrations do to a role.                                       *)
HasOld(p) == p.old # Nothing

\* The keys of one role are read in the order the database keeps them in: of
\* the two names of a permission the later read wins, which is the old one but
\* for the dashboard's.  What was refused under the old name is forgotten.
Converted(p) ==
    [p EXCEPT !.old = Nothing,
              !.new = [k \in Keys |-> IF p.old[k] = "yes" /\ (k # "dashboard" \/ p.new[k] = "none")
                                      THEN "yes" ELSE p.new[k]]]

\* Mutant of Filled: the defaults win over what is stored.
MutFilled(p, defaults) ==
    LET q == IF HasOld(p) THEN Converted(p) ELSE p
    IN  [q EXCEPT !.there = TRUE,
                  !.new = [k \in Keys |-> IF defaults[k] # "none" THEN defaults[k] ELSE q.new[k]]]

\* ensure_default_roles_new_format: what is stored already stays.
Filled(p, defaults) ==
    LET q == IF HasOld(p) THEN Converted(p) ELSE p
    IN  [q EXCEPT !.there = TRUE,
                  !.new = [k \in Keys |-> IF q.new[k] = "none" THEN defaults[k] ELSE q.new[k]]]
EnsureDefaults(ro) == [r \in Roles |-> IF r \in Builtin THEN Filled(ro[r], NewDefault(r)) ELSE ro[r]]

\* GRANULAR_BACKFILL: who could see servers can see nodes.
Granular(p) ==
    IF p.new["servers"] = "yes" /\ p.new["nodes"] = "none" THEN [p EXCEPT !.new["nodes"] = "yes"] ELSE p

\* Who sees settings without changing any only wanted the page of their own.
OnlyViews(p) == p.new["settings"] = "yes" /\ p.new["panel"] # "yes"

Coolify(r, p) ==
    IF r \in Builtin /\ p.there /\ p.new["coolify"] = "none" THEN [p EXCEPT !.new["coolify"] = "yes"] ELSE p

-----------------------------------------------------------------------------
(* The migrations about roles, in the order of run_all_migrations.         *)
\* migrate_rbac_security: a missing built-in role is inserted.
RbacSecurity == role' = [r \in Roles |-> IF r \in Builtin /\ ~role[r].there THEN OldDefault(r) ELSE role[r]]

\* migrate_rbac_v2
RbacV2 == role' = EnsureDefaults([r \in Roles |-> IF HasOld(role[r]) THEN Converted(role[r]) ELSE role[r]])

\* migrate_vm_instance_owner: a key that is missing is granted.
OwnGuests ==
    role' = IF role["user"].there /\ role["user"].new["own"] = "none"
            THEN [role EXCEPT !["user"].new["own"] = "yes"] ELSE role

\* migrate_cluster_support: an administrator's role manages clusters.
ClusterSupport ==
    role' = IF role["admin"].there
            THEN [role EXCEPT !["admin"].new["cluster"] = "yes", !["admin"].old["cluster"] = "none"] ELSE role

\* migrate_user_role_remove_dashboard: a tenant's role has no dashboard.
RemoveDashboard ==
    role' = IF role["user"].there
            THEN [role EXCEPT !["user"].new["dashboard"] = "no", !["user"].old["dashboard"] = "none"] ELSE role

\* migrate_granular_permissions
GranularPermissions == role' = EnsureDefaults([r \in Roles |-> Granular(role[r])])

\* migrate_setting_view_panel_only: once; a marker remembers it.
SplitSettings ==
    IF "split" \in markers THEN UNCHANGED <<role, markers, decided>>
    ELSE LET taken == {r \in Roles : OnlyViews(role[r])}
         IN  /\ role' = [r \in Roles |-> IF r \in taken THEN [role[r] EXCEPT !.new["settings"] = "none"] ELSE role[r]]
             /\ markers' = markers \union {"split"}
             \* A built-in role is given it back by the next start, and so is one that
             \* still has it under its old name, since the conversion failed so far.
             /\ decided' = [r \in Roles |-> IF r \in taken \ Builtin /\ ~HasOld(role[r])
                                            THEN [decided[r] EXCEPT !["settings"] = "gone"] ELSE decided[r]]

\* migrate_coolify_permissions: once as well.
CoolifyPermissions ==
    IF "coolify" \in markers THEN UNCHANGED <<role, markers>>
    ELSE role' = [r \in Roles |-> Coolify(r, role[r])] /\ markers' = markers \union {"coolify"}

Last == 8
Migrate(n) ==
    \/ n = 1 /\ RbacSecurity /\ UNCHANGED <<markers, decided>>
    \/ n = 2 /\ RbacV2 /\ UNCHANGED <<markers, decided>>
    \/ n = 3 /\ OwnGuests /\ UNCHANGED <<markers, decided>>
    \/ n = 4 /\ ClusterSupport /\ UNCHANGED <<markers, decided>>
    \/ n = 5 /\ RemoveDashboard /\ UNCHANGED <<markers, decided>>
    \/ n = 6 /\ GranularPermissions /\ UNCHANGED <<markers, decided>>
    \/ n = 7 /\ SplitSettings
    \/ n = 8 /\ CoolifyPermissions /\ UNCHANGED decided

Serving == step = Last + 1

Start == step = 0 /\ step' = 1 /\ UNCHANGED <<role, markers, decided, events>>

Commit == step \in 1..Last /\ Migrate(step) /\ step' = step + 1 /\ UNCHANGED events

\* One migration raises: rolled back, and the next one is tried.
Raise ==
    /\ step \in 1..Last /\ events < MaxEvents
    /\ step' = step + 1 /\ events' = events + 1
    /\ UNCHANGED <<role, markers, decided>>

\* The process ends, a start of it too; an open transaction is rolled back.
Stop ==
    /\ step # 0 /\ events < MaxEvents
    /\ step' = 0 /\ events' = events + 1
    /\ UNCHANGED <<role, markers, decided>>

-----------------------------------------------------------------------------
(* update_role: the form sends back all keys it was given, one of them     *)
(* turned; another client may leave a key out.                             *)
\* Nothing is yet to be done about this key of the role.
Settled(r, k) == ~HasOld(role[r]) /\ (k = "settings" => "split" \in markers)

UpdateRole(r, k, v) ==
    /\ Serving /\ role[r].there /\ role[r].new[k] # v
    /\ events < MaxEvents /\ events' = events + 1
    /\ role' = [role EXCEPT ![r].new[k] = v]
    /\ decided' = [decided EXCEPT ![r][k] = IF Settled(r, k) THEN v ELSE "none"]
    /\ UNCHANGED <<markers, step>>

-----------------------------------------------------------------------------
Next ==
    \/ Start \/ Commit \/ Raise \/ Stop
    \/ \E r \in Roles, k \in Keys, v \in Stored : UpdateRole(r, k, v)

Spec == Init /\ [][Next]_vars

-----------------------------------------------------------------------------
TypeOK ==
    /\ role \in [Roles -> [there : BOOLEAN, new : [Keys -> Stored], old : [Keys -> Stored]]]
    /\ markers \subseteq {"split", "coolify"} /\ step \in 0..(Last + 1)
    /\ decided \in [Roles -> [Keys -> Stored \union {"gone"}]]
    /\ events \in 0..MaxEvents

\* A start, a failed or an interrupted one too, leaves alone what an
\* administrator granted or refused a role, and does not give back what the
\* split of the settings page took from a role of the administrators' own that
\* had new names only; but for the two permissions the panel insists on.
ChoicesSurvive ==
    \A r \in Roles, k \in Keys :
        /\ <<r, k>> \notin {<<"user", "dashboard">>, <<"admin", "cluster">>}
        /\ decided[r][k] # "none"
        => role[r].there /\ role[r].new[k] = IF decided[r][k] = "gone" THEN "none" ELSE decided[r][k]
=============================================================================
