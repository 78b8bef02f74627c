---------------------------- MODULE ServerQueries ---------------------------
(***************************************************************************)
(* What AutoDBAudit's queries say about what an instance holds             *)
(* (infrastructure/sql/query_provider.py), as far as the collectors read   *)
(* it: from a thing in the catalogs to the facts that ReportRules judges.  *)
(* A query may leave a thing out, so its answer is a set of at most one.   *)
(*                                                                         *)
(* There are two dialects, one for SQL Server 2008 and one for everything  *)
(* later.  Where they differ each has a definition.  Things inside a       *)
(* database are those of an online user database: the collectors ask no    *)
(* other.                                                                  *)
(***************************************************************************)
EXTENDS Naturals, ReportRules

CONSTANT Installed  \* the instances of the machine, "" the default one

\* What there may be of each kind.
Holds ==
    [instance     |-> [expected : BOOLEAN, linux : BOOLEAN],
     sa           |-> Facts["sa"],
     login        |-> [type : {"sql", "windows", "certificate"}, system : BOOLEAN,
                       disabled : BOOLEAN, policy : BOOLEAN],
     role         |-> Facts["role"],
     config       |-> Facts["config"],
     service      |-> [what : {"engine", "agent", "browser", "writer", "fullText"},
                       of : Installed, account : {"managed", "sheetOnly", "both"},
                       state : {"running", "stopped"}, start : {"auto", "manual", "disabled"}],
     protocol     |-> [protocol : {"tcp", "shared", "pipes", "via"}, listening : BOOLEAN,
                       transport : {"tcp", "shared", "pipes"}],
     linked       |-> [login : {"none", "self", "plain", "admin"}, rpcOut : BOOLEAN],
     backup       |-> [full : {"none", "late", "recent"}, log : BOOLEAN,
                       fullRecovery : BOOLEAN, online : BOOLEAN, system : BOOLEAN],
     database     |-> Facts["database"],
     dbUser       |-> [name : {"guest", "builtIn", "internal", "other"},
                       type : {"sqlUser", "windowsUser", "windowsGroup", "certificate"},
                       login : BOOLEAN, connect : BOOLEAN],
     dbRole       |-> [member : {"dbo", "user", "role"},
                       role : {"none", "db_owner", "db_accessadmin", "db_ddladmin", "db_datareader"}],
     trigger      |-> [on : {"server", "database", "table"}],
     permission   |-> [server : BOOLEAN, grantee : {"internal", "builtIn", "other"},
                       risky : BOOLEAN, sensitive : BOOLEAN,
                       state : {"GRANT", "GRANT_WITH_GRANT_OPTION", "DENY"}],
     auditSetting |-> [setting : {"loginAuditing", "defaultTrace", "c2", "commonCriteria"},
                       on : BOOLEAN],
     key          |-> [place : {"master", "connected", "elsewhere"},
                       what : {"serviceMaster", "databaseMaster", "internal", "own"},
                       weak : BOOLEAN]]

\* The dialect for a major version: 2012 is 11.
Is2008(major) == major <= 10

----------------------------------------------------------------------------
\* The instance.

InstanceProperties2008(own, i) == { [outdated |-> ~ i.expected, unnamed |-> own = ""] }

\* The view that names the platform came with 2017: before, the query fails
\* and the collector reports nothing of the instance.
InstanceProperties2012(major, own, i) ==
    IF major \in 11 .. 13 THEN {}
    ELSE { [outdated |-> ~ i.expected, unnamed |-> own = "" /\ ~ i.linux] }

ServerLogins(l) ==
    { [sql |-> l.type = "sql", system |-> l.system, disabled |-> l.disabled,
       policy |-> CASE l.type # "sql"              -> "n/a"
                    [] l.type = "sql" /\ l.policy  -> "on"
                    [] OTHER                       -> "off"] }

ServerRoleMembers(r) == {r}

SpConfigure(c) == {c}

\* The transport of the audit's own connection counts for what is enabled.
ClientProtocols(p) ==
    { [acceptable |-> p.protocol \in {"tcp", "shared"},
       enabled    |-> p.protocol # "via" /\ p.protocol = p.transport] }

AuditSettings2012(a) ==
    LET deprecated == a.setting \in {"c2", "commonCriteria"} IN
    { [recommended |-> a.on # deprecated, either |-> deprecated] }

AuditSettings2008(a) ==
    IF a.setting = "commonCriteria" THEN {} ELSE AuditSettings2012(a)

\* The keys of the database the connection is in; the service's own are
\* internal but for its master key.
EncryptionKeys(k) ==
    IF \/ k.place = "master" /\ k.what = "serviceMaster"
       \/ k.place = "connected" /\ k.what \in {"databaseMaster", "own"}
    THEN { [weak |-> k.weak] } ELSE {}

----------------------------------------------------------------------------
\* Services.

ServiceType(what) ==
    CASE what \in {"engine", "agent"}    -> what
      [] what \in {"browser", "writer"}  -> "shared"
      [] what = "fullText"               -> "other"

ServiceFacts(s) ==
    [account |-> s.account, type |-> ServiceType(s.what), state |-> s.state, start |-> s.start]

\* The shell lists all services of the machine, those of other instances too,
\* the view only the instance's own, and none that is shared.
SqlServices2008(s) == {ServiceFacts(s)}

SqlServices2012(own, s) ==
    IF s.of = own /\ s.what \in {"engine", "agent", "fullText"} THEN {ServiceFacts(s)} ELSE {}

\* The instance in a service's row: empty means the target's.
ServiceInstance2008(s) ==
    CASE s.of # ""                            -> s.of
      [] s.of = "" /\ s.what # "fullText"     -> "(default)"
      [] OTHER                                -> ""

\* The display name of a default instance's service has its full name.
ServiceInstance2012(s) == IF s.of = "" THEN "mssqlserver" ELSE s.of

----------------------------------------------------------------------------
\* Linked servers and databases.

LinkedServers(l) ==
    { [mapped |-> l.login # "none", privileged |-> l.login = "admin", rpcOut |-> l.rpcOut] }

\* The queries return the latest full backup's age, and neither of the two
\* columns in which the collector looks for the dates.
LatestBackup(b) == [age |-> b.full, dated |-> FALSE, fullRecovery |-> b.fullRecovery, log |-> FALSE]

BackupHistory2008(b) == IF b.online /\ ~ b.system THEN {LatestBackup(b)} ELSE {}

BackupHistory2012(b) == IF ~ b.system THEN {LatestBackup(b)} ELSE {}

Databases(d) == {d}

\* Orphaned is what the collector calls so, not the query's own column, the
\* only one in which the dialects differ.
DatabaseUsers(u) ==
    { [guest    |-> u.name = "guest",
       connect  |-> u.name = "guest" => u.connect,
       orphaned |-> ~ u.login /\ u.type \in {"sqlUser", "windowsUser"} /\ u.name \in {"internal", "other"},
       internal |-> u.name # "other"] }

\* Who is in no role is in public, which the later dialect does not show.
RoleFacts(r, role) == [role |-> role, dbo |-> r.member = "dbo"]

DatabaseRoleMembers2008(r) ==
    IF r.member # "user" THEN {}
    ELSE { RoleFacts(r, IF r.role = "none" THEN "public" ELSE r.role) }

DatabaseRoleMembers2012(r) == IF r.role = "none" THEN {} ELSE { RoleFacts(r, r.role) }

Triggers2008(t) == IF t.on = "table" THEN {} ELSE { [server |-> t.on = "server"] }

Triggers2012(t) == { [server |-> t.on = "server"] }

PermissionFacts(p) == [risky |-> p.risky, sensitive |-> p.sensitive, state |-> p.state]

ServerPermissions(p) == IF p.grantee = "internal" THEN {} ELSE {PermissionFacts(p)}

DatabasePermissions(p) == IF p.grantee = "builtIn" THEN {} ELSE {PermissionFacts(p)}

----------------------------------------------------------------------------
\* What a target of this version, an instance of this name, reports of a
\* thing that it holds.
Reported(major, own, kind, h) ==
    CASE kind = "instance"     -> IF Is2008(major) THEN InstanceProperties2008(own, h)
                              ELSE InstanceProperties2012(major, own, h)
      [] kind = "sa"           -> {h}
      [] kind = "login"        -> ServerLogins(h)
      [] kind = "role"         -> ServerRoleMembers(h)
      [] kind = "config"       -> SpConfigure(h)
      [] kind = "service"      -> IF Is2008(major) THEN SqlServices2008(h) ELSE SqlServices2012(own, h)
      [] kind = "protocol"     -> ClientProtocols(h)
      [] kind = "linked"       -> LinkedServers(h)
      [] kind = "backup"       -> IF Is2008(major) THEN BackupHistory2008(h) ELSE BackupHistory2012(h)
      [] kind = "database"     -> Databases(h)
      [] kind = "dbUser"       -> DatabaseUsers(h)
      [] kind = "dbRole"       -> IF Is2008(major) THEN DatabaseRoleMembers2008(h) ELSE DatabaseRoleMembers2012(h)
      [] kind = "trigger"      -> IF Is2008(major) THEN Triggers2008(h) ELSE Triggers2012(h)
      [] kind = "permission"   -> IF h.server THEN ServerPermissions(h) ELSE DatabasePermissions(h)
      [] kind = "auditSetting" -> IF Is2008(major) THEN AuditSettings2008(h) ELSE AuditSettings2012(h)
      [] kind = "key"          -> EncryptionKeys(h)

=============================================================================
