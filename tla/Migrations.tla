----------------------------- MODULE Migrations ------------------------------
(***************************************************************************)
(* The migrations of the database in the order in which a start runs them  *)
(* (migrations/migrations.py), what the models want in the end, and the    *)
(* databases a start may find.                                             *)
(***************************************************************************)
EXTENDS Naturals, Sequences, FiniteSets

\* The tables, and what the models have of each beyond its first release;
\* columns that one migration adds to a table together have one name.
Tables ==
    {"panel_settings", "os_template_groups", "notifications", "roles", "active_sessions",
     "task_queue", "vm_snapshot_archives", "backup_jobs", "workspaces", "user_servers",
     "user_ssh_keys", "password_reset_tokens", "user_quotas", "users", "proxmox_servers",
     "os_templates", "vm_instances", "audit_logs", "ipam_networks", "ipam_allocations",
     "proxmox_tasks", "deploy_tasks", "catalog_apps", "installed_apps", "app_operations",
     "script_git_repos"}
Later ==
    [t \in Tables |->
        CASE t = "users"            -> {"login", "ssh_public_key", "language", "two_factor"}
          [] t = "proxmox_servers"  -> {"cluster_name", "last_error_kind"}
          [] t = "os_templates"     -> {"source_node", "kinds"}
          [] t = "vm_instances"     -> {"cache", "template_name", "owner_id"}
          [] t = "audit_logs"       -> {"context"}
          [] t = "ipam_networks"    -> {"proxmox_node", "workspace_id", "is_default"}
          [] t = "ipam_allocations" -> {"is_primary", "alias"}
          [] t = "proxmox_tasks"    -> {"progress"}
          [] t = "deploy_tasks"     -> {"kind", "target_server_id"}
          [] t = "catalog_apps"     -> {"source", "data_files", "default_credentials"}
          [] t = "installed_apps"   -> {"snapshot_version"}
          [] t = "app_operations"   -> {"server_id"}
          [] t = "script_git_repos" -> {"metadata_format"}
          [] OTHER                  -> {}]

Exists(d, t) == <<t, "id">> \in d.cols
Whole(t) == {<<t, c>> : c \in Later[t] \union {"id"}}
Models == UNION {Whole(t) : t \in Tables}

-----------------------------------------------------------------------------
(* What rows older than a column hold in it.  "own" and "cleared" are what *)
(* a user chose: another value, or none.                                   *)
Column ==
    [source |-> <<"os_templates", "source_node">>, primary |-> <<"ipam_allocations", "is_primary">>,
     workspace |-> <<"ipam_networks", "workspace_id">>, owner |-> <<"vm_instances", "owner_id">>,
     icon |-> <<"os_template_groups", "id">>]
Data == DOMAIN Column

\* The values the WHERE of an UPDATE matches.
Matched(x) ==
    CASE x \in {"icon", "primary"} -> {"empty", "own"}
      [] x = "source"              -> {"empty"}
      [] OTHER                     -> {"empty", "cleared"}

\* The server of a network may be in no workspace, and who made a guest may
\* not be known.
MayLeave(x) == x \in {"workspace", "owner"}

-----------------------------------------------------------------------------
(* Statements.  The code of a migration stops at a guard that fails, and   *)
(* goes on after the error of a statement that is only tried.              *)
Stmt(kind, t, c) == [kind |-> kind, t |-> t, c |-> c, tried |-> FALSE]
Tried(st) == [st EXCEPT !.tried = TRUE]
OnlyIf(t) == Stmt("only if", t, "id")
Unless(t, c) == Stmt("unless", t, c)
Create(t) == Stmt("create", t, "id")
Add(t, c) == Stmt("add", t, c)
Fill(x) == Stmt("fill", Column[x][1], x)
\* Only if this migration added the column.
FillAdded(x) == Stmt("fill added", Column[x][1], x)
Other == Stmt("other", "roles", "id")

NewTable(t) == <<Unless(t, "id"), Create(t), Other>>
NewColumn(t, c) == <<OnlyIf(t), Add(t, c)>>

\* The migrations.
Notifications == NewTable("notifications")
RbacSecurity == <<Create("roles"), Create("active_sessions"), Tried(Add("users", "login")), Tried(Other)>>
CrossNodeTemplates ==
    <<OnlyIf("os_templates"), Add("os_templates", "source_node"), FillAdded("source"),
      Add("os_templates", "kinds"), Tried(Other)>>
VmCache == NewColumn("vm_instances", "cache") \o <<Tried(Other)>>
TaskQueueTable == NewTable("task_queue")
OsTemplateIcons == <<OnlyIf("os_template_groups"), Tried(Other), Tried(Fill("icon"))>>
VmTemplateName == NewColumn("vm_instances", "template_name")
AuditLogs == NewColumn("audit_logs", "context") \o <<Tried(Other)>>
RbacV2 == <<OnlyIf("roles"), Other>>
VmInstanceOwner == <<OnlyIf("vm_instances"), Tried(Add("vm_instances", "owner_id")), Tried(Other)>>
SnapshotArchives == NewTable("vm_snapshot_archives")
UserSshKey == <<Add("users", "ssh_public_key")>>
GitRepositorySetting == <<Other>>
EncryptPasswords == <<Other>>
BackupJobs == NewTable("backup_jobs")
IpamNetworkNode == NewColumn("ipam_networks", "proxmox_node")
ClusterSupport == <<Add("proxmox_servers", "cluster_name"), Tried(Other)>>
ProxmoxTasks == NewTable("proxmox_tasks")
Workspaces == NewTable("workspaces")
UserServers == NewTable("user_servers")
RemoveDashboard == <<OnlyIf("roles"), Other>>
DeployTasks == <<Create("deploy_tasks"), Other>>
DeployTasksKind == <<Unless("deploy_tasks", "kind"), Add("deploy_tasks", "kind"), Other>>
UserSshKeysTable == NewTable("user_ssh_keys")
TaskProgress == NewColumn("proxmox_tasks", "progress")
UserLanguage == <<Add("users", "language")>>
PasswordResetTokens == NewTable("password_reset_tokens")
UserQuotas == NewTable("user_quotas")
GranularPermissions == <<OnlyIf("roles"), Other>>
TwoFactor == <<Add("users", "two_factor")>>
AppstoreCatalog == NewTable("catalog_apps")
\* Mutant: the columns are added only to a table that is made.
MutAppstoreInstalled ==
    <<Unless("installed_apps", "id"), Create("installed_apps"), Create("app_operations"),
      Add("installed_apps", "snapshot_version")>>
AppstoreInstalled ==
    <<Create("installed_apps"), Create("app_operations"), Add("installed_apps", "snapshot_version")>>
IpamNetworkWorkspace ==
    <<OnlyIf("ipam_networks"), Add("ipam_networks", "workspace_id"), Add("ipam_networks", "is_default"),
      Tried(Fill("workspace"))>>
CatalogSource == NewColumn("catalog_apps", "source")
ScriptRepoFormat == NewColumn("script_git_repos", "metadata_format")
DeployTasksTarget == <<Add("deploy_tasks", "target_server_id")>>
AppOperationsServer == NewColumn("app_operations", "server_id")
CatalogDataFiles == NewColumn("catalog_apps", "data_files")
DefaultCredentials == NewColumn("catalog_apps", "default_credentials")
ServerErrorKind == NewColumn("proxmox_servers", "last_error_kind")
BackfillOwner == <<OnlyIf("vm_instances"), Fill("owner")>>
SettingView == <<OnlyIf("roles"), Other>>
\* Mutant: the rows there are become primary at every start.
MutIpamMultiIp ==
    <<OnlyIf("ipam_allocations"), Add("ipam_allocations", "is_primary"),
      Add("ipam_allocations", "alias"), Fill("primary")>>
IpamMultiIp ==
    <<OnlyIf("ipam_allocations"), Add("ipam_allocations", "is_primary"),
      Add("ipam_allocations", "alias"), FillAdded("primary")>>
CoolifyPermissions == <<OnlyIf("roles"), Other>>

Early ==
    <<Notifications, RbacSecurity, CrossNodeTemplates, VmCache, TaskQueueTable, OsTemplateIcons,
      VmTemplateName, AuditLogs, RbacV2, VmInstanceOwner, SnapshotArchives, UserSshKey,
      GitRepositorySetting, EncryptPasswords, BackupJobs, IpamNetworkNode, ClusterSupport,
      ProxmoxTasks>>
Late ==
    <<Workspaces, UserServers, RemoveDashboard, DeployTasks, DeployTasksKind, UserSshKeysTable,
      TaskProgress, UserLanguage, PasswordResetTokens, UserQuotas, GranularPermissions, TwoFactor,
      AppstoreCatalog, AppstoreInstalled, IpamNetworkWorkspace, CatalogSource, ScriptRepoFormat,
      DeployTasksTarget, AppOperationsServer, CatalogDataFiles, DefaultCredentials, ServerErrorKind,
      BackfillOwner, SettingView, IpamMultiIp, CoolifyPermissions>>
Order == Early \o Late

-----------------------------------------------------------------------------
(* The databases a start may find: an empty one, the one init.sql makes,   *)
(* and those of the releases before, which ran the first n migrations; of  *)
(* installed_apps there was one without the columns of snapshots.          *)
Elements(s) == {s[i] : i \in DOMAIN s}
Made(m) == {<<st.t, st.c>> : st \in {st \in Elements(m) : st.kind \in {"create", "add"}}}
First == {<<t, "id">> : t \in Tables} \ UNION {Made(m) : m \in Elements(Order)}
Release(n) == First \union UNION {Made(Order[i]) : i \in 1..n}
\* What init.sql does not have yet.
InitSql ==
    (First \union UNION {Whole(t) : t \in {"roles", "users", "active_sessions", "notifications",
        "proxmox_servers", "os_templates", "vm_instances", "ipam_networks", "audit_logs", "task_queue"}})
    \ {<<"script_git_repos", "id">>, <<"users", "ssh_public_key">>, <<"users", "language">>,
       <<"proxmox_servers", "cluster_name">>, <<"proxmox_servers", "last_error_kind">>,
       <<"os_templates", "kinds">>, <<"ipam_networks", "proxmox_node">>,
       <<"ipam_networks", "workspace_id">>, <<"ipam_networks", "is_default">>}
=============================================================================
