------------------------------ MODULE AuditFiles ------------------------------
(***************************************************************************)
(* The output folder: what `audit`, `sync`, `remediate --generate` and     *)
(* `finalize` do to the audit folders, to their audit.json, to the         *)
(* workbooks and to the runs in the database, one write at a time.         *)
(*                                                                         *)
(*   output/sql_audit_<run>_<time>.xlsx     root, a report just written    *)
(*   output/audit_NNN/audit.json            meta                           *)
(*   output/audit_NNN/sql_targets.snapshot.json   snapshot                 *)
(*   output/audit_NNN/Audit_NNN_Latest.xlsx latest                         *)
(*   output/Audit_Latest.xlsx               latest[0], a sync of no audit  *)
(*   output/audit_NNN/remediation/vMMM/     scripts                        *)
(*   output/final/..._Run<run>.xlsx         final                          *)
(*                                                                         *)
(* One command runs at a time.  A file is written in two steps, because    *)
(* the code opens it for writing, which empties it, and then fills it; the *)
(* process may die between any two steps, and a workbook may be open in    *)
(* Excel.  A report is named after the run it shows.                       *)
(***************************************************************************)
EXTENDS Integers, FiniteSets, Sequences

CONSTANTS
    MaxAudits,    \* bound on the number of audit folders
    MaxRuns,      \* bound on the runs in the database, and in an audit.json
    MaxVersions,  \* bound on the number of script generations
    MaxCopies,    \* bound on the number of archived copies
    MaxKills      \* bound on the number of commands that die

ASSUME BoundsAssumption ==
    /\ MaxAudits \in Nat /\ MaxRuns \in Nat /\ MaxVersions \in Nat
    /\ MaxCopies \in Nat /\ MaxKills \in Nat

Audits == 1..MaxAudits
Copies == Audits \cup {0}
Runs == 1..MaxRuns
Versions == 1..MaxVersions

NoFile == -1
Torn == 0               \* a copy whose writing was begun and not ended
Cut == -2               \* a workbook sync began to write over, in place
Reports == {Cut, NoFile, Torn} \cup Runs

\* audit.json: its entries of "runs", each with the run of the database it
\* stands for, and its counter "remediation_versions".
Entries == [run : 0..MaxRuns, complete : BOOLEAN]
MetaData(state, entries, versions) ==
    [state |-> state, entries |-> entries, versions |-> versions]
NoMeta == MetaData("absent", <<>>, 0)
FreshMeta == MetaData("ok", <<>>, 0)

VARIABLES
    folders,    \* audits whose folder exists
    meta,       \* audit -> its audit.json
    snapshot,   \* audit -> the snapshot of its targets
    latest,     \* audit, or 0 -> the report its working copy holds
    newest,     \* the audit whose working copy was written last, or 0
    root,       \* reports in the output folder itself
    scripts,    \* audit -> version -> generations whose scripts it holds
    final,      \* the archived copies
    runs,       \* the runs of the database, in the order of their ids
    generation, \* generations of scripts so far
    kills,      \* commands that died so far
    cmd         \* the running command

vars == <<folders, meta, snapshot, latest, newest, root, scripts, final, runs,
          generation, kills, cmd>>

Idle == [pc |-> "idle", audit |-> 0, run |-> 0, entry |-> 0, version |-> 0,
         force |-> FALSE, next |-> NoMeta]

Final == [run : Runs, report : Reports, whole : BOOLEAN]

PCs == {"idle", "save", "saving", "snapshot", "snapshotting", "create_run",
        "begin_run", "scan", "report", "copy", "copying", "unlink",
        "complete_run", "sync_run", "sync_scan", "rewrite", "rewriting",
        "write_back", "writing_back", "version", "generate", "exceptions",
        "archive", "archiving", "mark"}

TypeOK ==
    /\ folders \subseteq Audits
    /\ \A a \in Audits :
         /\ meta[a].state \in {"absent", "broken", "ok"}
         /\ meta[a].entries \in Seq(Entries)
         /\ Len(meta[a].entries) =< MaxRuns
         /\ meta[a].versions \in 0..MaxVersions
    /\ snapshot \in [Audits -> {"absent", "broken", "ok"}]
    /\ latest \in [Copies -> Reports]
    /\ newest \in Audits \cup {0}
    /\ root \subseteq Runs
    /\ scripts \in [Audits -> [Versions -> SUBSET (1..MaxVersions)]]
    /\ final \subseteq Final
    /\ runs \in Seq([status : {"running", "completed", "failed", "finalized"},
                     failing : BOOLEAN, audit : Copies])
    /\ generation \in 0..MaxVersions
    /\ kills \in 0..MaxKills
    /\ cmd.pc \in PCs

-------------------------------------------------------------------------------
(* Lookups.                                                                *)

Highest(S) == CHOOSE x \in S : \A y \in S : y =< x

\* _get_existing_audit_ids, max(..., default=0): the folders count, whether or
\* not they hold an audit.json.
LastAudit == IF folders = {} THEN 0 ELSE Highest(folders)

\* get_latest_run_id passes over the runs that failed.
Valid(rows) == {r \in 1..Len(rows) : rows[r].status # "failed"}

LatestAmong(rows) == IF Valid(rows) = {} THEN 0 ELSE Highest(Valid(rows))

LatestRun == LatestAmong(runs)

\* fail_audit_run, which sync's handlers guard: the baseline, the first run, is
\* never failed.
FailRun(rows, r) ==
    IF r > 1 THEN [rows EXCEPT ![r].status = "failed"] ELSE rows

\* FinalizeService._find_latest_excel: the workbook of a sync of no audit, the
\* working copy written last, of any audit, or else the newest report in the
\* output folder.  With none of them there is nothing.
Source ==
    CASE latest[0] # NoFile -> latest[0]
      [] latest[0] = NoFile /\ newest # 0 -> latest[newest]
      [] latest[0] = NoFile /\ newest = 0 /\ root # {} -> Highest(root)
      [] OTHER -> NoFile

CanFinalize(r) == ~runs[r].failing

AppendEntry(m) == [m EXCEPT !.entries = Append(@, [run |-> 0, complete |-> FALSE])]

\* A plausible bug: every entry is completed, not the one of this run.
CompleteAll(m, k, r) ==
    [m EXCEPT !.entries = [i \in 1..Len(@) |-> [run |-> r, complete |-> TRUE]]]

\* A plausible bug: the completed run is entered beside the running one.
AppendCompleted(m, k, r) ==
    [m EXCEPT !.entries = Append(@, [run |-> r, complete |-> TRUE])]

CompleteEntry(m, k, r) == [m EXCEPT !.entries[k] = [run |-> r, complete |-> TRUE]]

\* A plausible bug: the new version is not counted.
ForgetVersion(m) == m

\* The counter that the new version is read from and saved to.
CountVersion(m) == [m EXCEPT !.versions = @ + 1]

-------------------------------------------------------------------------------

Init ==
    /\ folders = {}
    /\ meta = [a \in Audits |-> NoMeta]
    /\ snapshot = [a \in Audits |-> "absent"]
    /\ latest = [a \in Copies |-> NoFile]
    /\ newest = 0
    /\ root = {}
    /\ scripts = [a \in Audits |-> [v \in Versions |-> {}]]
    /\ final = {}
    /\ runs = <<>>
    /\ generation = 0
    /\ kills = 0
    /\ cmd = Idle

Files == <<folders, meta, snapshot, latest, newest, root, scripts, final,
           generation, kills>>

Goto(pc) == cmd' = [cmd EXCEPT !.pc = pc]

(***************************************************************************)
(* Writing audit.json: _save_metadata opens the file, which empties it,    *)
(* and writes it.  `pc` is where the command goes on.                      *)
(***************************************************************************)
BeginSave ==
    /\ cmd.pc = "save"
    /\ meta' = [meta EXCEPT ![cmd.audit].state = "broken"]
    /\ Goto("saving")
    /\ UNCHANGED <<folders, snapshot, latest, newest, root, scripts, final,
                   runs, generation, kills>>

\* What the command was saving for: create_new_audit, create_run,
\* complete_run or create_remediation_version.
AfterSave ==
    IF cmd.version # 0 THEN "generate"
    ELSE IF cmd.run # 0 THEN "idle"
    ELSE IF cmd.entry # 0 THEN "begin_run"
    ELSE "snapshot"

EndSave ==
    /\ cmd.pc = "saving"
    /\ meta' = [meta EXCEPT ![cmd.audit] = cmd.next]
    /\ cmd' = IF AfterSave = "idle" THEN Idle ELSE [cmd EXCEPT !.pc = AfterSave]
    /\ UNCHANGED <<folders, snapshot, latest, newest, root, scripts, final,
                   runs, generation, kills>>

(***************************************************************************)
(* audit: find or create the audit.  Without --new and --id the latest     *)
(* audit is continued; one without audit.json counts as none.  A broken    *)
(* audit.json raises, and so the command does nothing.                     *)
(***************************************************************************)
CreateNewAudit ==
    /\ LastAudit < MaxAudits
    /\ folders' = folders \cup {LastAudit + 1}
    /\ cmd' = [Idle EXCEPT !.pc = "save", !.audit = LastAudit + 1,
                           !.next = FreshMeta]
    /\ UNCHANGED <<meta, snapshot, latest, newest, root, scripts, final, runs, generation, kills>>

AuditNew ==
    /\ cmd.pc = "idle"
    /\ CreateNewAudit

AuditLatest ==
    /\ cmd.pc = "idle"
    /\ \A a \in folders : a = LastAudit => meta[a].state = "absent"
    /\ CreateNewAudit

AuditId(a) ==
    /\ cmd.pc = "idle"
    /\ meta[a].state = "ok"
    /\ cmd' = [Idle EXCEPT !.pc = "snapshot", !.audit = a]
    /\ UNCHANGED <<Files, runs>>

\* get_config_snapshot: once there, it is kept, and a broken one raises.
KeepSnapshot ==
    /\ cmd.pc = "snapshot"
    /\ snapshot[cmd.audit] = "ok"
    /\ Goto("create_run")
    /\ UNCHANGED <<Files, runs>>

SnapshotRaises ==
    /\ cmd.pc = "snapshot"
    /\ snapshot[cmd.audit] = "broken"
    /\ cmd' = Idle
    /\ UNCHANGED <<Files, runs>>

BeginSnapshot ==
    /\ cmd.pc = "snapshot"
    /\ snapshot[cmd.audit] = "absent"
    /\ snapshot' = [snapshot EXCEPT ![cmd.audit] = "broken"]
    /\ Goto("snapshotting")
    /\ UNCHANGED <<folders, meta, latest, newest, root, scripts, final, runs, generation, kills>>

\* The targets file is missing or cannot be parsed: that is only logged.
SkipSnapshot ==
    /\ cmd.pc = "snapshot"
    /\ snapshot[cmd.audit] = "absent"
    /\ Goto("create_run")
    /\ UNCHANGED <<Files, runs>>

EndSnapshot ==
    /\ cmd.pc = "snapshotting"
    /\ snapshot' = [snapshot EXCEPT ![cmd.audit] = "ok"]
    /\ Goto("create_run")
    /\ UNCHANGED <<folders, meta, latest, newest, root, scripts, final, runs, generation, kills>>

CreateRun ==
    /\ cmd.pc = "create_run"
    /\ Len(meta[cmd.audit].entries) < MaxRuns
    /\ cmd' = [cmd EXCEPT !.pc = "save",
                          !.entry = Len(meta[cmd.audit].entries) + 1,
                          !.next = AppendEntry(meta[cmd.audit])]
    /\ UNCHANGED <<Files, runs>>

(***************************************************************************)
(* audit and sync: the run itself (AuditScan and SyncEngine have its       *)
(* steps), and what becomes of an audit's report.                          *)
(***************************************************************************)
BeginRun ==
    /\ \/ cmd.pc = "begin_run" /\ Goto("scan")
       \/ cmd.pc = "sync_run" /\ Goto("sync_scan")
    /\ Len(runs) < MaxRuns
    /\ runs' = Append(runs, [status |-> "running", failing |-> FALSE,
                             audit |-> cmd.audit])
    /\ UNCHANGED Files

\* Findings are saved while the run is running.
SaveFailingFinding ==
    /\ cmd.pc \in {"scan", "sync_scan"}
    /\ runs' = [runs EXCEPT ![Len(runs)].failing = TRUE]
    /\ UNCHANGED <<Files, cmd>>

\* The targets cannot be loaded: the run has failed and an exception is raised,
\* which ends an audit.  Sync's handler fails the latest run that is left.
LoadTargetsFails ==
    /\ cmd.pc \in {"scan", "sync_scan"}
    /\ ~runs[Len(runs)].failing
    /\ LET rows == [runs EXCEPT ![Len(runs)].status = "failed"]
       IN  runs' = IF cmd.pc = "scan" THEN rows
                   ELSE FailRun(rows, LatestAmong(rows))
    /\ cmd' = Idle
    /\ UNCHANGED Files

CompleteAuditRun ==
    /\ \/ cmd.pc = "scan" /\ Goto("report")
       \/ cmd.pc = "sync_scan" /\ Goto("rewrite")
    /\ runs' = [runs EXCEPT ![Len(runs)].status = "completed"]
    /\ UNCHANGED Files

SaveReport ==
    /\ cmd.pc = "report"
    /\ root' = root \cup {Len(runs)}
    /\ cmd' = [cmd EXCEPT !.pc = "copy", !.run = Len(runs)]
    /\ UNCHANGED <<folders, meta, snapshot, latest, newest, scripts, final,
                   runs, generation, kills>>

\* A plausible bug: the report is moved, not copied and then removed.
BeginMove ==
    /\ cmd.pc = "copy"
    /\ latest' = [latest EXCEPT ![cmd.audit] = Torn]
    /\ root' = root \ {cmd.run}
    /\ newest' = cmd.audit
    /\ Goto("copying")
    /\ UNCHANGED <<folders, meta, snapshot, scripts, final, runs,
                   generation, kills>>

BeginCopy ==
    /\ cmd.pc = "copy"
    /\ latest' = [latest EXCEPT ![cmd.audit] = Torn]
    /\ newest' = cmd.audit
    /\ Goto("copying")
    /\ UNCHANGED <<folders, meta, snapshot, root, scripts, final, runs,
                   generation, kills>>

\* Excel holds the working copy open: PermissionError, which nothing catches.
CopyRefused ==
    /\ cmd.pc = "copy"
    /\ cmd' = Idle
    /\ UNCHANGED <<Files, runs>>

EndCopy ==
    /\ cmd.pc = "copying"
    /\ latest' = [latest EXCEPT ![cmd.audit] = cmd.run]
    /\ newest' = cmd.audit
    /\ Goto("unlink")
    /\ UNCHANGED <<folders, meta, snapshot, root, scripts, final, runs,
                   generation, kills>>

UnlinkReport ==
    /\ cmd.pc = "unlink"
    /\ root' = root \ {cmd.run}
    /\ Goto("complete_run")
    /\ UNCHANGED <<folders, meta, snapshot, latest, newest, scripts, final,
                   runs, generation, kills>>

CompleteRun ==
    /\ cmd.pc = "complete_run"
    /\ cmd' = [cmd EXCEPT !.pc = "save",
                 !.next = CompleteEntry(meta[cmd.audit], cmd.entry, cmd.run)]
    /\ UNCHANGED <<Files, runs>>

(***************************************************************************)
(* sync: a run of its own, then two writes over the working copy itself,   *)
(* the report and the annotations.  The audit is the one that is named,    *)
(* whether or not it is there, or the latest; one without audit.json       *)
(* counts as none (0).  A workbook that is open in Excel refuses it, which *)
(* is no step; one that cannot be read reads as empty.                     *)
(***************************************************************************)
StartSync(a) ==
    /\ cmd.pc = "idle"
    /\ runs # <<>> /\ runs[1].status # "finalized"
    /\ a = 0 => \A b \in folders : b = LastAudit => meta[b].state = "absent"
    /\ cmd' = [Idle EXCEPT !.pc = "sync_run", !.audit = a]
    /\ UNCHANGED <<Files, runs>>

\* Opening the workbook for writing empties it.
BeginRewrite ==
    /\ \/ cmd.pc = "rewrite" /\ Goto("rewriting")
       \/ cmd.pc = "write_back" /\ Goto("writing_back")
    /\ folders' = folders \cup ({cmd.audit} \ {0})
    /\ latest' = [latest EXCEPT ![cmd.audit] = Cut]
    /\ newest' = IF cmd.audit = 0 THEN newest ELSE cmd.audit
    /\ UNCHANGED <<meta, snapshot, root, scripts, final, runs, generation, kills>>

EndRewrite ==
    /\ \/ cmd.pc = "rewriting" /\ Goto("write_back")
       \/ cmd.pc = "writing_back" /\ cmd' = Idle
    /\ latest' = [latest EXCEPT ![cmd.audit] = Len(runs)]
    /\ newest' = IF cmd.audit = 0 THEN newest ELSE cmd.audit
    /\ UNCHANGED <<folders, meta, snapshot, root, scripts, final, runs,
                   generation, kills>>

\* write_all_to_excel logs what keeps it from reading or writing the workbook,
\* and sync goes on to its success.
WriteBackFails ==
    /\ cmd.pc \in {"write_back", "writing_back"}
    /\ cmd' = Idle
    /\ UNCHANGED <<Files, runs>>

\* run_audit raises before it has a run: the handler fails the latest run.
ReauditRaises ==
    /\ cmd.pc = "sync_run"
    /\ runs' = FailRun(runs, LatestRun)
    /\ cmd' = Idle
    /\ UNCHANGED Files

\* An exception, the report that cannot be written among them, or Ctrl-C.
SyncRaises ==
    /\ cmd.pc \in {"sync_run", "sync_scan", "rewrite", "rewriting", "write_back",
                   "writing_back"}
    /\ runs' = FailRun(runs, Len(runs))
    /\ cmd' = Idle
    /\ UNCHANGED Files

(***************************************************************************)
(* remediate --generate: a version folder, the counter, then the scripts.  *)
(* mkdir accepts a folder that is there.  Remediation has the scripts.     *)
(***************************************************************************)
CreateRemediationVersion(a) ==
    /\ cmd.pc = "idle"
    /\ meta[a].state = "ok"
    /\ meta[a].versions < MaxVersions
    /\ generation < MaxVersions
    /\ generation' = generation + 1
    /\ cmd' = [Idle EXCEPT !.pc = "save", !.audit = a,
                           !.version = meta[a].versions + 1,
                           !.next = CountVersion(meta[a])]
    /\ UNCHANGED <<folders, meta, snapshot, latest, newest, root, scripts, final,
                   runs, kills>>

\* The targets are those of the snapshot; a broken one raises.
GenerateScripts ==
    /\ cmd.pc = "generate"
    /\ scripts' = IF snapshot[cmd.audit] = "broken" THEN scripts
                  ELSE [scripts EXCEPT ![cmd.audit][cmd.version] = @ \cup {generation}]
    /\ cmd' = Idle
    /\ UNCHANGED <<folders, meta, snapshot, latest, newest, root, final, runs, generation, kills>>

(***************************************************************************)
(* finalize.  A working copy that is open in Excel refuses it, which is no *)
(* step.                                                                   *)
(***************************************************************************)
StartFinalize(force) ==
    /\ cmd.pc = "idle"
    /\ LatestRun # 0
    /\ runs[LatestRun].status # "finalized"
    /\ force \/ CanFinalize(LatestRun)
    /\ cmd' = [Idle EXCEPT !.pc = "exceptions", !.run = LatestRun, !.force = force]
    /\ UNCHANGED <<Files, runs>>

\* ExceptionService looks in the output folder only.  Nothing is found in the
\* workbook (read_annotations yields no row), so nothing is stored.
ApplyExceptions ==
    /\ cmd.pc = "exceptions"
    /\ IF (root = {} /\ ~cmd.force) \/ Source = NoFile
         THEN cmd' = Idle
         ELSE Goto("archive")
    /\ UNCHANGED <<Files, runs>>

\* A plausible bug: the run is marked before the report is archived.
MarkFirst ==
    /\ cmd.pc = "archive"
    /\ final' = final \cup {[run |-> cmd.run, report |-> Source, whole |-> FALSE]}
    /\ runs' = [runs EXCEPT ![cmd.run].status = "finalized"]
    /\ Goto("archiving")
    /\ UNCHANGED <<folders, meta, snapshot, latest, newest, root, scripts,
                   generation, kills>>

BeginArchive ==
    /\ cmd.pc = "archive"
    /\ final' = final \cup {[run |-> cmd.run, report |-> Source, whole |-> FALSE]}
    /\ Cardinality(final') =< MaxCopies
    /\ Goto("archiving")
    /\ UNCHANGED <<folders, meta, snapshot, latest, newest, root, scripts, runs, generation, kills>>

\* The disk is full, say: what was copied stays.
ArchiveFails ==
    /\ cmd.pc = "archiving"
    /\ cmd' = Idle
    /\ UNCHANGED <<Files, runs>>

EndArchive ==
    /\ cmd.pc = "archiving"
    /\ final' = {f \in final : f.run # cmd.run \/ f.whole} \cup
                {[run |-> cmd.run, report |-> Source, whole |-> TRUE]}
    /\ Goto("mark")
    /\ UNCHANGED <<folders, meta, snapshot, latest, newest, root, scripts, runs, generation, kills>>

MarkFinalized ==
    /\ cmd.pc = "mark"
    /\ runs' = [runs EXCEPT ![cmd.run].status = "finalized"]
    /\ cmd' = Idle
    /\ UNCHANGED Files

\* The database is locked.  The copy is removed if the system lets a read-only
\* file be removed.
MarkFails ==
    /\ cmd.pc = "mark"
    /\ \/ final' = {f \in final : f.run # cmd.run}
       \/ final' = final
    /\ cmd' = Idle
    /\ UNCHANGED <<folders, meta, snapshot, latest, newest, root, scripts, runs, generation, kills>>

(***************************************************************************)
(* The user and the machine.                                               *)
(***************************************************************************)
\* Excel saves over the working copy: it becomes the newest of all.
SaveInExcel(a) ==
    /\ latest[a] \in Runs
    /\ newest # a
    /\ newest' = a
    /\ UNCHANGED <<folders, meta, snapshot, latest, root, scripts, final, runs,
                   generation, kills, cmd>>

\* The process dies, or a step raises what nothing catches.
Kill ==
    /\ cmd # Idle
    /\ kills < MaxKills
    /\ kills' = kills + 1
    /\ cmd' = Idle
    /\ UNCHANGED <<folders, meta, snapshot, latest, newest, root, scripts, final,
                   runs, generation>>

Next ==
    \/ BeginSave \/ EndSave
    \/ AuditNew \/ AuditLatest \/ \E a \in Audits : AuditId(a)
    \/ KeepSnapshot \/ SnapshotRaises \/ SkipSnapshot
    \/ BeginSnapshot \/ EndSnapshot
    \/ CreateRun \/ BeginRun \/ SaveFailingFinding \/ LoadTargetsFails
    \/ CompleteAuditRun \/ SaveReport
    \/ BeginCopy \/ CopyRefused \/ EndCopy \/ UnlinkReport \/ CompleteRun
    \/ \E a \in Copies : StartSync(a)
    \/ BeginRewrite \/ EndRewrite \/ WriteBackFails \/ ReauditRaises \/ SyncRaises
    \/ \E a \in Audits : CreateRemediationVersion(a)
    \/ GenerateScripts
    \/ \E force \in BOOLEAN : StartFinalize(force)
    \/ ApplyExceptions \/ BeginArchive \/ ArchiveFails \/ EndArchive
    \/ MarkFinalized \/ MarkFails
    \/ \E a \in Audits : SaveInExcel(a)
    \/ Kill

Spec == Init /\ [][Next]_vars

-------------------------------------------------------------------------------
(* Properties.                                                             *)

\* No command throws an audit's history away: its entries and its count of
\* script versions only grow, and its audit.json is at worst truncated by a
\* process that dies while writing it.  AuditManager.create_new_audit numbers
\* by folder and writes over whatever audit.json is there.
HistoryGrows ==
    [][\A a \in Audits :
         /\ Len(meta[a].entries) =< Len(meta'[a].entries)
         /\ \A k \in 1..Len(meta[a].entries) :
              meta[a].entries[k].complete => meta'[a].entries[k] = meta[a].entries[k]
         /\ meta[a].versions =< meta'[a].versions]_vars

\* A version folder holds the scripts of one generation, although the folder
\* is made before the counter is saved and the process may die in between:
\* remediate --rollback undoes a version with the scripts beside it.
OneGenerationPerVersion ==
    \A a \in Audits, v \in Versions : Cardinality(scripts[a][v]) =< 1

\* An audit's newest saved report is in the output folder or, whole, in the
\* audit's working copy: cli.run_audit copies it and then removes it.  The one
\* exception is a working copy that a sync began to write over: by then it is
\* the only one, and SyncService.sync writes it in place, twice.
SavedReports(a) ==
    {r \in 1..Len(runs) : runs[r].audit = a /\ (r \in root \/ latest[a] = r)}

ReportSurvives ==
    \A a \in Audits : latest[a] # Cut =>
      \A k \in 1..Len(meta[a].entries) :
        meta[a].entries[k].complete =>
          \E r \in SavedReports(a) : r >= meta[a].entries[k].run

\* A finalized run has its archived copy, written to its end.
FinalizedIsArchived ==
    \A r \in 1..Len(runs) : runs[r].status = "finalized" =>
      \E f \in final : f.run = r /\ f.whole
===============================================================================
