---------------------------- MODULE Remediation ----------------------------
(***************************************************************************)
(* The two halves of `remediate`: --generate turns the findings of the     *)
(* latest run into scripts, one main and one rollback script per instance, *)
(* in a new version folder; --apply looks the latest folder up and runs    *)
(* its scripts, batch after batch, over connections of its own.            *)
(*                                                                         *)
(* What ties the halves together is text: a script names its server, port  *)
(* and instance in a comment, and the executor searches the target list    *)
(* with them twice, once for the login it must not touch and once for the  *)
(* connection.  The model keeps both searches and both constructions.      *)
(*                                                                         *)
(* A script is a sequence of batches, a batch a sequence of statements     *)
(* that set one item to a value.  Sections that are comments, REVIEW and   *)
(* INFO, are no batches and are left out; so are annotations, which the    *)
(* generator reads and never uses.                                         *)
(*                                                                         *)
(* External: the servers, which refuse connections and statements at will. *)
(***************************************************************************)
EXTENDS Naturals, Sequences, SequencesExt

CONSTANTS
    Targets,      \* sql_targets.json: a sequence of records, see TargetRecords
    Hosts,
    Ports,
    Names,        \* instance names that servers report
    Logins,       \* logins of targets; integrated authentication is a login too
    Order,        \* the items that can be found, in the order of the findings
    KindOf,       \* what handler an item's finding goes to
    Required,     \* the compliant value of an item
    Unsettled,    \* settings that may be found pending a restart
    Linux,        \* instances on a host that is not Windows
    MaxVersions,  \* bound on the remediation versions of the audit
    MaxEdits      \* bound on the changes made by hand between commands

Adv == "show advanced options"

Default == "MSSQLSERVER"

NoName == ""

NoPort == 0

Sa == "sa"

Items == Range(Order) \cup {Adv}

Kinds == {"config", "toggle", "orphan", "policy", "sa", "manual"}

\* Findings of logins without a password policy go by the name of the login.
Policies == { k \in Range(Order) : KindOf[k] = "policy" }

TargetRecords == [host : Hosts, port : Ports, name : Names \cup {NoName}, real : Names]

ASSUME RemediationAssumption ==
    /\ Targets \in Seq(TargetRecords)
    /\ Ports \subseteq Nat \ {NoPort}
    /\ 1433 \in Ports
    /\ NoName \notin Names
    /\ Default \in Names
    /\ Order \in Seq(STRING)
    /\ Sa \in Range(Order)
    /\ KindOf \in [Range(Order) -> Kinds]
    /\ Required \in [Items -> {0, 1}]
    /\ Unsettled \subseteq { k \in Range(Order) : KindOf[k] = "config" }
    /\ Linux \subseteq DOMAIN Targets
    /\ MaxVersions \in Nat
    /\ MaxEdits \in Nat

\* Every target is an instance of its own.
Instances == DOMAIN Targets

VARIABLES
    value,      \* the configured value of each item on each instance
    os,         \* instances whose PowerShell script ran with -ApplyFix
    login,      \* the login of each target, as the target file has it now
    found,      \* FAIL and WARN findings of the latest run, per instance
    versions,   \* the version folders: per version, the scripts in it
    pc,         \* where the command is
    job,        \* what --apply was asked to do
    todo,       \* instances whose script has still to be written or run
    cur,        \* the script being run and the connection it runs over
    result,     \* what became of each script of this --apply
    edits       \* changes made by hand so far

vars == <<value, os, login, found, versions, pc, job, todo, cur, result, edits>>

FirstOf(S) == CHOOSE t \in S : \A u \in S : t <= u

LastOf(S) == CHOOSE t \in S : \A u \in S : u <= t

OnHost(h) == { t \in Instances : Targets[t].host = h }

----------------------------------------------------------------------------
\* Generation.

\* A target without a port leaves the script without one.
PortUnset(i) == NoPort

\* The instances table has no port that the generator reads: it takes the
\* first target of the host that has the name, or has none when the
\* instance is the default one.
PortFor(i) ==
    LET fits == { t \in OnHost(Targets[i].host) :
                    \/ Targets[t].name # NoName /\ Targets[t].name = Targets[i].real
                    \/ Targets[t].name = NoName /\ Targets[i].real = Default }
    IN  IF fits = {} THEN 1433 ELSE Targets[FirstOf(fits)].port

\* The map from host and port to the login keeps the last target it meets.
ConnUser(i, logins) ==
    LET same == { t \in OnHost(Targets[i].host) : Targets[t].port = PortFor(i) }
    IN  IF same = {} THEN NoName ELSE logins[LastOf(same)]

Set(k, v) == [item |-> k, to |-> v]

Statements == [item : Items, to : 0..2]

\* The setting is never written.
ConfigFixReads(k) == << <<Set(Adv, 1)>>, <<Set(Adv, 0)>> >>

\* sp_configure always writes 0, whatever value is required.
ConfigFix(k) ==
    IF k = Adv THEN << <<Set(k, 0)>> >>
               ELSE << <<Set(Adv, 1)>>, <<Set(k, 0), Set(Adv, 0)>> >>

\* The rollback switches the advanced options off before it writes.
ConfigUndoAdvOnly(k) == << <<Set(Adv, 1)>>, <<Set(Adv, 0)>> >>

\* The cleanup that ends a setting's section shares its batch with the text that
\* follows; it is a batch of its own here, which fails or runs no differently.
ConfigUndo(k) ==
    IF k = Adv THEN << <<Set(k, 1)>> >>
               ELSE << <<Set(Adv, 1)>>, <<Set(k, 1)>>, <<Set(Adv, 0)>> >>

\* guest and TRUSTWORTHY are switched off, an orphaned user is dropped.
DatabaseFix(k) == << <<Set(k, 0)>> >>

\* A dropped user comes back without its login (value 2).
DatabaseUndo(k) == << <<Set(k, IF KindOf[k] = "orphan" THEN 2 ELSE 1)>> >>

\* Every enabled sa is met twice: as a finding, and as a row of logins.  Its
\* section is a comment for its own user.
SaFix(S, user) ==
    IF Sa \in S /\ user # Sa THEN << <<Set(Sa, 0)>>, <<Set(Sa, 0)>> >> ELSE << >>

SaUndo == << <<Set(Sa, 1)>>, <<Set(Sa, 1)>> >>

\* The first handler that claims a finding; most findings are a comment or
\* nothing, and those of logins wait for finalize.
FixBatches(k) ==
    CASE KindOf[k] = "config" -> ConfigFix(k)
      [] KindOf[k] \in {"toggle", "orphan"} -> DatabaseFix(k)
      [] OTHER -> << >>

UndoBatches(k) ==
    CASE KindOf[k] = "config" -> ConfigUndo(k)
      [] KindOf[k] \in {"toggle", "orphan"} -> DatabaseUndo(k)
      [] KindOf[k] = "sa" -> SaUndo
      [] OTHER -> << >>

\* What is made of each finding of one instance, in the order of the query.
Gather(made) ==
    FlattenSeq([n \in DOMAIN Order |->
                  IF Order[n] \in DOMAIN made THEN made[Order[n]] ELSE << >>])

\* One batch for all the logins without a password policy; the server leaves out
\* the one that the script runs under, see Spares.  (Logins found
\* unused or highly privileged would be dropped or disabled; no collector
\* describes a login so.)
PolicyBatch(S) ==
    LET batch == Gather([k \in S \cap Policies |-> <<Set(k, 1)>>])
    IN  IF batch = << >> THEN << >> ELSE <<batch>>

\* SAFE actions as the findings come, then the batch that finalize appends,
\* then the CAUTION section.
MainScript(S, user) ==
    Gather([k \in S |-> FixBatches(k)]) \o PolicyBatch(S) \o SaFix(S, user)

\* The undo batches in the order of the actions, not reversed.
RollbackScript(S) == Gather([k \in S |-> UndoBatches(k)])

Init ==
    /\ value \in [Instances -> [Items -> {0, 1}]]
    /\ os = {}
    /\ login \in [Instances -> Logins]
    /\ found = [i \in Instances |-> {}]
    /\ versions = << >>
    /\ pc = "idle"
    /\ job = [mode |-> "fix", dry |-> FALSE]
    /\ todo = {}
    /\ cur = << >>
    /\ result = << >>
    /\ edits = 0

\* Instances and files are taken in a fixed order.
IsNext(i) == i \in todo /\ \A j \in todo : i <= j

With(f, x, v) == [y \in DOMAIN f \cup {x} |-> IF y = x THEN v ELSE f[y]]

Fill(where, rest) == pc' = where /\ todo' = rest

\* A run of audit or sync saves new findings; an instance that it does not
\* reach has none.  A setting that waits for a restart is a finding too.
Audit ==
    /\ pc = "idle"
    /\ \E reached \in SUBSET Instances, pending \in SUBSET Unsettled :
         found' = [i \in Instances |->
                     IF i \in reached
                     THEN { k \in Range(Order) : value[i][k] # Required[k] } \cup pending
                     ELSE {}]
    /\ UNCHANGED <<value, os, login, versions, pc, job, todo, cur, result, edits>>

\* audit.json counts the version before anything is in its folder.
CreateRemediationVersion ==
    /\ pc = "idle"
    /\ Len(versions) < MaxVersions
    /\ versions' = Append(versions, [i \in {} |-> {}])
    /\ Fill("generate", { i \in Instances : found[i] # {} })
    /\ UNCHANGED <<value, os, login, found, job, cur, result, edits>>

NewScript(i) ==
    [port |-> PortFor(i), main |-> MainScript(found[i], ConnUser(i, login)),
     undo |-> RollbackScript(found[i]), finds |-> found[i]]

\* Three files per instance, the main script first.
GenerateInstanceScripts(i) ==
    /\ pc = "generate"
    /\ IsNext(i)
    /\ versions' = [versions EXCEPT ![Len(versions)] = With(@, i, NewScript(i))]
    /\ Fill("generate", todo \ {i})
    /\ UNCHANGED <<value, os, login, found, job, cur, result, edits>>

GenerateEnds ==
    /\ pc = "generate"
    /\ todo = {}
    /\ pc' = "idle"
    /\ UNCHANGED <<value, os, login, found, versions, job, todo, cur, result, edits>>

----------------------------------------------------------------------------
\* The executor.

\* The targets that each rule of _find_target accepts, the stronger rule
\* first; a script without a port has NoPort, a search without an instance
\* NoName.  (Rules for dotted host names are left out: hosts have no dots.)
Matches(h, p, n) ==
    << { t \in OnHost(h) : p # NoPort /\ n # NoName
                             /\ Targets[t].port = p /\ Targets[t].name = n },
       { t \in OnHost(h) : p # NoPort /\ Targets[t].port = p },
       { t \in OnHost(h) : n # NoName /\ Targets[t].name = n },
       { t \in OnHost(h) : p = NoPort /\ Targets[t].port = 1433 },
       OnHost(h) >>

\* The search goes by host alone.
FindFirstOfHost(h, p, n) == FirstOf(OnHost(h))

FindTarget(h, p, n) ==
    LET rule == FirstOf({ r \in 1..5 : Matches(h, p, n)[r] # {} })
    IN  FirstOf(Matches(h, p, n)[rule])

\* The server behind host and port, or behind host and instance name when
\* the port is the default one; {} when nothing answers there.
Reached(t, n) ==
    { i \in OnHost(Targets[t].host) :
        IF Targets[t].port # 1433 THEN Targets[i].port = Targets[t].port
        ELSE IF n # Default THEN Targets[i].real = n
        ELSE Targets[i].port = 1433 /\ Targets[i].real = Default }

\* The target whose login the credential check protects.
CheckedTarget(i, port) == FindTarget(Targets[i].host, port, Targets[i].real)

\* The target the connection is made with: the instance is not passed on.
ConnectTarget(i, port) ==
    LET p == IF port # NoPort THEN port ELSE Targets[CheckedTarget(i, port)].port
    IN  FindTarget(Targets[i].host, p, NoName)

\* The check trusts the generator to have commented the batch out.
TrustGenerator(batch, user) == FALSE

\* The rollback of sa alters it under its new name, which is not searched for.
AltersLogin(s) == s.item \in Policies \/ (s.item = Sa /\ s.to = 0)

\* A batch that alters the protected login is skipped as a whole, the policies
\* of other logins in it included.  (No login's name begins with another's.)
CheckCredentialSafety(batch, user) ==
    \E n \in DOMAIN batch : batch[n].item = user /\ AltersLogin(batch[n])

StartApply ==
    /\ pc = "idle"
    /\ versions # << >>
    /\ job' \in [mode : {"fix", "undo"}, dry : BOOLEAN]
    /\ result' = << >>
    /\ Fill("folder", DOMAIN Last(versions))
    /\ UNCHANGED <<value, os, login, found, versions, cur, edits>>

\* The rollback script's header has no port.
ExecuteScript(i) ==
    LET script == Last(versions)[i]
        port == IF job.mode = "fix" THEN script.port ELSE NoPort
        checked == CheckedTarget(i, port)
        conn == ConnectTarget(i, port)
    IN  /\ pc = "folder"
        /\ IsNext(i)
        /\ ~job.dry
        /\ \E s \in Reached(conn, Targets[i].real) :
             /\ login[conn] = Sa => value[s][Sa] = 1
             /\ cur' = [of |-> i, at |-> s, user |-> login[conn], safe |-> login[checked],
                        left |-> IF job.mode = "fix" THEN script.main ELSE script.undo]
        /\ result' = With(result, i, "clean")
        /\ Fill("script", todo \ {i})
        /\ UNCHANGED <<value, os, login, found, versions, job, edits>>

\* The connection is refused, a disabled sa included, or nothing listens where the script is sent.
ConnectFails(i) ==
    /\ pc = "folder"
    /\ IsNext(i)
    /\ ~job.dry
    /\ result' = With(result, i, "unconnected")
    /\ Fill("folder", todo \ {i})
    /\ UNCHANGED <<value, os, login, found, versions, job, cur, edits>>

DryRunScript(i) ==
    /\ pc = "folder"
    /\ IsNext(i)
    /\ job.dry
    /\ result' = With(result, i, "previewed")
    /\ Fill("folder", todo \ {i})
    /\ UNCHANGED <<value, os, login, found, versions, job, cur, edits>>

Batch == Head(cur.left)

Skip == CheckCredentialSafety(Batch, cur.safe)

SkipBatch ==
    /\ pc = "script"
    /\ cur.left # << >>
    /\ Skip
    /\ cur' = [cur EXCEPT !.left = Tail(@)]
    /\ result' = [result EXCEPT ![cur.of] = IF @ = "clean" THEN "skipped" ELSE @]
    /\ UNCHANGED <<value, os, login, found, versions, pc, job, todo, edits>>

\* sa is disabled under its name and enabled under the new one only.
Applies(s) == s.item = Sa => value[cur.at][Sa] # s.to

\* IF SUSER_SNAME() <> the login: its own policy no script sets, without an error.
Spares(s) == s.item \in Policies /\ s.item = cur.user

\* A statement commits by itself.  No batch is empty.
RunStatement ==
    /\ pc = "script"
    /\ cur.left # << >>
    /\ 1 \in DOMAIN Batch
    /\ ~Skip
    /\ Applies(Batch[1])
    /\ value' = IF Spares(Batch[1]) THEN value
                 ELSE [value EXCEPT ![cur.at][Batch[1].item] = Batch[1].to]
    /\ cur' = [cur EXCEPT !.left = IF Len(Batch) = 1 THEN Tail(@) ELSE <<Tail(Batch)>> \o Tail(@)]
    /\ UNCHANGED <<os, login, found, versions, pc, job, todo, result, edits>>

\* The rest of the batch is lost, the next one still runs.
BatchFails ==
    /\ pc = "script"
    /\ cur.left # << >>
    /\ ~Skip
    /\ cur' = [cur EXCEPT !.left = Tail(@)]
    /\ result' = [result EXCEPT ![cur.of] = "failed"]
    /\ UNCHANGED <<value, os, login, found, versions, pc, job, todo, edits>>

ScriptEnds ==
    /\ pc = "script"
    /\ cur.left = << >>
    /\ pc' = "folder"
    /\ cur' = << >>
    /\ UNCHANGED <<value, os, login, found, versions, job, todo, result, edits>>

----------------------------------------------------------------------------
\* PowerShell: once from the executor, once more from the command.

Windows == DOMAIN Last(versions) \ Linux

ExecutePs1Scripts ==
    /\ pc = "folder"
    /\ todo = {}
    /\ os' \in IF job.dry \/ job.mode = "undo" THEN {os}
                ELSE { os \cup done : done \in SUBSET Windows }
    /\ pc' = "hooks"
    /\ UNCHANGED <<value, login, found, versions, job, todo, cur, result, edits>>

\* The hook asks neither for the mode nor for --dry-run.
RunOsHooks ==
    /\ pc = "hooks"
    /\ os' \in { os \cup done : done \in SUBSET Windows }
    /\ pc' = "idle"
    /\ result' = << >>
    /\ UNCHANGED <<value, login, found, versions, job, todo, cur, edits>>

\* Ctrl-C, or the process dies; a rerun starts from the folder again.
Interrupt ==
    /\ pc # "idle"
    /\ pc' = "idle"
    /\ todo' = {}
    /\ cur' = << >>
    /\ result' = << >>
    /\ UNCHANGED <<value, os, login, found, versions, job, edits>>

\* Between commands the target file may get another login for a target, and
\* an administrator may change a server.
EditTargets ==
    /\ pc = "idle"
    /\ edits < MaxEdits
    /\ edits' = edits + 1
    /\ \E t \in Instances, u \in Logins : login' = [login EXCEPT ![t] = u]
    /\ UNCHANGED <<value, os, found, versions, pc, job, todo, cur, result>>

ChangeServer ==
    /\ pc = "idle"
    /\ edits < MaxEdits
    /\ edits' = edits + 1
    /\ \E i \in Instances, k \in Items, v \in {0, 1} :
         value' = [value EXCEPT ![i][k] = v]
    /\ result' = << >>
    /\ UNCHANGED <<os, login, found, versions, pc, job, todo, cur>>

Next ==
    \/ Audit \/ CreateRemediationVersion \/ GenerateEnds
    \/ \E i \in Instances : GenerateInstanceScripts(i)
    \/ StartApply
    \/ \E i \in Instances : ExecuteScript(i) \/ ConnectFails(i) \/ DryRunScript(i)
    \/ SkipBatch \/ RunStatement \/ BatchFails \/ ScriptEnds
    \/ ExecutePs1Scripts \/ RunOsHooks
    \/ Interrupt \/ EditTargets \/ ChangeServer

Spec == Init /\ [][Next]_vars

----------------------------------------------------------------------------
(* Properties *)

Scripts == [port : Ports, main : Seq(Seq(Statements)), undo : Seq(Seq(Statements)),
            finds : SUBSET Range(Order)]

\* Every variable holds what the code can put there; in particular a script
\* sets items to known values only and a result belongs to a script.
TypeOK ==
    /\ value \in [Instances -> [Items -> 0..2]]
    /\ os \subseteq Instances
    /\ login \in [Instances -> Logins]
    /\ found \in [Instances -> SUBSET Range(Order)]
    /\ Len(versions) <= MaxVersions
    /\ \A v \in DOMAIN versions :
         /\ DOMAIN versions[v] \subseteq Instances
         /\ \A i \in DOMAIN versions[v] : versions[v][i] \in Scripts
    /\ pc \in {"idle", "generate", "folder", "script", "hooks"}
    /\ job \in [mode : {"fix", "undo"}, dry : BOOLEAN]
    /\ todo \subseteq Instances
    /\ cur = << >> \/ cur \in [of : Instances, at : Instances, user : Logins,
                               safe : Logins, left : Seq(Seq(Statements))]
    /\ edits \in 0..MaxEdits
    /\ DOMAIN result \subseteq Instances
    /\ \A i \in DOMAIN result :
         result[i] \in {"clean", "skipped", "failed", "unconnected", "previewed"}

\* The executor never disables the login it is connected with, whatever was
\* known of it when the scripts were generated (_check_credential_safety).
OwnLoginKept ==
    [][pc = "script" /\ cur.user = Sa =>
         ~(value[cur.at][Sa] # 0 /\ value'[cur.at][Sa] = 0)]_vars

\* A script changes the instance whose findings it was generated from and no
\* other: header, target list and connection string lead back to it.
RightInstance ==
    [][\A i \in Instances : pc = "script" /\ value'[i] # value[i] => i = cur.of]_vars

Done(mode) == { i \in DOMAIN result : job.mode = mode /\ result[i] = "clean" }

\* The login that the main script of an instance runs under.
ConnectedLogin(i) == login[ConnectTarget(i, Last(versions)[i].port)]

\* The findings that the main script of an instance can settle: the policy of the
\* login that it runs under is not among them.
Fixable(i) ==
    { k \in Last(versions)[i].finds :
        \/ KindOf[k] \in {"config", "toggle", "orphan"}
        \/ KindOf[k] = "policy" /\ k # ConnectedLogin(i) }

\* A script that ran without an error and without a skipped batch leaves every
\* finding that has an automatic fix compliant, but for the policy of the login it
\* ran under, whatever the scripts of other instances did before or after it in
\* the same folder.
AppliedMeansFixed ==
    pc \in {"folder", "hooks"} =>
      \A i \in Done("fix") : \A k \in Fixable(i) : value[i][k] = Required[k]

\* A rollback that ran without an error puts every setting of its findings back
\* to what was found.  "show advanced options" is the exception: the sections
\* of other settings end by switching it off.
RollbackMeansRestored ==
    pc \in {"folder", "hooks"} =>
      \A i \in Done("undo") : \A k \in Last(versions)[i].finds \ {Adv} :
        KindOf[k] \in {"config", "toggle"} => value[i][k] # Required[k]

=============================================================================
