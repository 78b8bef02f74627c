---------------------------- MODULE ReportRules ----------------------------
(***************************************************************************)
(* What AutoDBAudit makes of one thing it collected from an instance: the  *)
(* row's action indicator in the workbook (infrastructure/excel/) and the  *)
(* finding in the database (application/collectors/).  The two verdicts    *)
(* are reached by different code from the same query row, so each has a    *)
(* rule of its own here and nothing makes them agree.                      *)
(*                                                                         *)
(* A thing is a record [kind, ..., is]: its kind, its place and name (see  *)
(* ReportSheet) and the facts about it that some rule looks at.  Names are *)
(* reduced to what the rules ask of them: a login is a system login or     *)
(* not, a permission is in the sheet's list, in the collector's, or both.  *)
(***************************************************************************)
EXTENDS FindingTransitions

\* The facts about the things of each kind.
Facts ==
    [instance      |-> [outdated : BOOLEAN, unnamed : BOOLEAN],
     sa            |-> [disabled : BOOLEAN, renamed : BOOLEAN],
     login         |-> [sql : BOOLEAN, system : BOOLEAN, disabled : BOOLEAN,
                        policy : {"on", "off", "n/a"}],
     role          |-> [role : {"sysadmin", "securityadmin", "public"},
                        disabled : BOOLEAN, safe : BOOLEAN],
     config        |-> [running : BOOLEAN, configured : BOOLEAN],
     service       |-> [account : {"managed", "sheetOnly", "both"},
                        type : {"engine", "agent", "shared", "other"},
                        state : {"running", "stopped"},
                        start : {"auto", "manual", "disabled"}],
     protocol      |-> [acceptable : BOOLEAN, enabled : BOOLEAN],
     linked        |-> [mapped : BOOLEAN, privileged : BOOLEAN, rpcOut : BOOLEAN],
     backup        |-> [age : {"none", "late", "recent"}, dated : BOOLEAN,
                        fullRecovery : BOOLEAN, log : BOOLEAN],
     database      |-> [system : BOOLEAN, trustworthy : BOOLEAN],
     dbUser        |-> [guest : BOOLEAN, connect : BOOLEAN, orphaned : BOOLEAN,
                        internal : BOOLEAN],
     dbRole        |-> [role : {"db_owner", "db_accessadmin", "db_ddladmin", "db_datareader",
                                "public"},
                        dbo : BOOLEAN],
     trigger       |-> [server : BOOLEAN],
     permission    |-> [risky : BOOLEAN, sensitive : BOOLEAN,
                        state : {"GRANT", "GRANT_WITH_GRANT_OPTION", "DENY"}],
     auditSetting  |-> [recommended : BOOLEAN, either : BOOLEAN],
     key           |-> [weak : BOOLEAN]]

Kinds == DOMAIN Facts

----------------------------------------------------------------------------
\* The workbook's verdict: does the row get the indicator that asks for action?

InstanceAction(is) == is.outdated

SaAction(is) == ~ (is.disabled /\ is.renamed)

LoginAction(is) == ~ is.system /\ is.policy = "off"

RoleAction(is) == is.role = "sysadmin" /\ ~ is.disabled /\ ~ is.safe

ConfigAction(is) == ~ is.running

ServiceAction(is) ==
    \/ is.account # "managed"
    \/ is.type \in {"shared", "other"} /\ is.state = "running" /\ is.start = "auto"
    \/ is.type = "agent" /\ (is.state = "stopped" \/ is.start = "disabled")

ProtocolAction(is) == is.enabled /\ ~ is.acceptable

LinkedServerAction(is) == is.mapped /\ is.privileged

BackupAction(is) == is.age # "recent"

DatabaseAction(is) == is.trustworthy /\ ~ is.system

DbUserAction(is) == (is.guest /\ is.connect) \/ (is.orphaned /\ ~ is.internal)

DbRoleAction(is) == is.role = "db_owner" /\ ~ is.dbo

TriggerAction(is) == is.server

PermissionAction(is) ==
    \/ is.state = "GRANT_WITH_GRANT_OPTION"
    \/ is.risky /\ is.state # "DENY"

AuditSettingAction(is) == ~ is.recommended

KeyAction(is) == FALSE

SheetVerdict(kind, is) ==
    CASE kind = "instance"     -> InstanceAction(is)
      [] kind = "sa"           -> SaAction(is)
      [] kind = "login"        -> LoginAction(is)
      [] kind = "role"         -> RoleAction(is)
      [] kind = "config"       -> ConfigAction(is)
      [] kind = "service"      -> ServiceAction(is)
      [] kind = "protocol"     -> ProtocolAction(is)
      [] kind = "linked"       -> LinkedServerAction(is)
      [] kind = "backup"       -> BackupAction(is)
      [] kind = "database"     -> DatabaseAction(is)
      [] kind = "dbUser"       -> DbUserAction(is)
      [] kind = "dbRole"       -> DbRoleAction(is)
      [] kind = "trigger"      -> TriggerAction(is)
      [] kind = "permission"   -> PermissionAction(is)
      [] kind = "auditSetting" -> AuditSettingAction(is)
      [] kind = "key"          -> KeyAction(is)

\* A row without the indicator whose Status column still reads as a failure:
\* the services' shows "Stopped" behind the icon of a failed check, and the
\* encryption keys', which never get the indicator, warns of weak algorithms.
StatusVerdict(kind, is) ==
    \/ kind = "service" /\ is.state = "stopped"
    \/ kind = "key" /\ is.weak

----------------------------------------------------------------------------
\* The database's verdict: the status of the finding, None where the collector
\* saves none.

\* A second finding of its own, for a default instance not on Linux.
NamingFinding(is) == IF is.unnamed THEN "WARN" ELSE None

VersionFinding(is) == IF is.outdated THEN "WARN" ELSE None

SaFinding(is) == IF is.disabled THEN "PASS" ELSE "FAIL"

LoginFinding(is) ==
    CASE is.sql /\ ~ is.disabled                 -> "WARN"
      [] is.sql /\ is.disabled /\ is.policy # "on" -> "FAIL"
      [] OTHER                                   -> None

RoleFinding(is) ==
    CASE is.role = "sysadmin"      -> "FAIL"
      [] is.role = "securityadmin" -> "WARN"
      [] OTHER                     -> "PASS"

\* Mutant of ConfigFinding: a value that waits for a restart passes.
ConfigFindingConfigured(is) == IF is.running \/ is.configured THEN "PASS" ELSE "FAIL"

ConfigFinding(is) ==
    CASE is.running                      -> "PASS"
      [] ~ is.running /\ is.configured   -> "WARN"
      [] ~ is.running /\ ~ is.configured -> "FAIL"

ServiceFinding(is) ==
    IF is.account = "both" \/ (is.start = "auto" /\ is.state # "running") THEN "WARN" ELSE "PASS"

ProtocolFinding(is) == IF is.enabled /\ ~ is.acceptable THEN "WARN" ELSE "PASS"

LinkedServerFinding(is) ==
    CASE is.mapped /\ is.privileged -> "FAIL"
      [] ~ is.mapped /\ is.rpcOut   -> "WARN"
      [] OTHER                      -> None

\* The sheet goes by the age of the latest full backup, the finding by its date.
BackupFinding(is) ==
    CASE ~ is.dated                                -> "FAIL"
      [] is.dated /\ is.fullRecovery /\ ~ is.log   -> "WARN"
      [] OTHER                                     -> None

DatabaseFinding(is) == IF is.trustworthy /\ ~ is.system THEN "FAIL" ELSE None

\* No user is both: guest is never reported as orphaned.
DbUserFinding(is) ==
    CASE is.orphaned                                  -> "WARN"
      [] ~ is.orphaned /\ is.guest /\ is.connect      -> "FAIL"
      [] OTHER                                        -> None

DbRoleFinding(is) == IF is.role \in {"db_owner", "db_accessadmin"} THEN "WARN" ELSE "PASS"

TriggerFinding(is) == IF is.server THEN "FAIL" ELSE None

PermissionFinding(is) == IF is.sensitive THEN "WARN" ELSE "PASS"

\* The query calls some settings compliant whatever they are.
AuditSettingFinding(is) == IF ~ is.recommended /\ ~ is.either THEN "FAIL" ELSE None

KeyFinding(is) == IF is.weak THEN "FAIL" ELSE None

Finding(kind, is) ==
    CASE kind = "instance"     -> VersionFinding(is)
      [] kind = "sa"           -> SaFinding(is)
      [] kind = "login"        -> LoginFinding(is)
      [] kind = "role"         -> RoleFinding(is)
      [] kind = "config"       -> ConfigFinding(is)
      [] kind = "service"      -> ServiceFinding(is)
      [] kind = "protocol"     -> ProtocolFinding(is)
      [] kind = "linked"       -> LinkedServerFinding(is)
      [] kind = "backup"       -> BackupFinding(is)
      [] kind = "database"     -> DatabaseFinding(is)
      [] kind = "dbUser"       -> DbUserFinding(is)
      [] kind = "dbRole"       -> DbRoleFinding(is)
      [] kind = "trigger"      -> TriggerFinding(is)
      [] kind = "permission"   -> PermissionFinding(is)
      [] kind = "auditSetting" -> AuditSettingFinding(is)
      [] kind = "key"          -> KeyFinding(is)

=============================================================================
