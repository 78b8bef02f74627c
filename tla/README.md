# A TLA+ model of AutoDBAudit

AutoDBAudit audits SQL Server instances.  `audit` scans a list of targets into a
SQLite database and an Excel workbook; people annotate the workbook; `sync` reads
the annotations, re-audits, compares the new run with the first one (the baseline),
records what changed in an action log and writes a new workbook with the annotations
in it; `remediate` turns findings into scripts and runs them; `finalize` locks a run;
`prepare` gets PowerShell remoting to work on the servers.

These modules model the parts of the program that have to get *state* right: the scan
and its threads, the sync engine with its runs and its action log, the passage of the
annotations through workbook and database, what the collectors and the report make of
a server, the scripts and their execution, the output folder, and the connections that
change the settings of machines.  TLC checks the models on small instances; TLAPS
proves the main results for every instance.

All paths below are relative to `src/src/autodbaudit/` unless they begin with `docs/`.

## 1. Inventory

| Component | Code | State it keeps | Operations |
|---|---|---|---|
| Finding classification and diff | `domain/state_machine.py`, `domain/change_types.py`, `application/diff/findings_diff.py`, `application/actions/action_detector.py` | none | classify a transition, diff two runs, prioritise, consolidate |
| Sync engine | `application/sync_service.py` | local variables of one call | phases 1 to 7, two exception handlers |
| Audit service | `application/audit_service.py` | run id, thread pool | begin, load targets, scan in threads, complete, save |
| History store | `infrastructure/sqlite/store.py`, `schema.py` | the SQLite file: runs, servers, instances, links, findings, annotations, action log | one commit per operation |
| Action recorder | `application/actions/action_recorder.py` | none of its own | duplicate check, upsert, swallow errors, format rows |
| Annotation sync | `application/annotation_sync.py`, `utils/database.py` | annotations table, workbook cells | read, persist, detect changes, write back |
| Statistics | `application/stats_service.py`, `infrastructure/excel/cover.py` | none | counts over the runs, the log and the annotations |
| Collectors, SQL layer | `application/collectors/`, `infrastructure/sql/query_provider.py` | the things a server holds | query in one of two dialects, judge, report a row and a finding |
| Report writer | `infrastructure/excel/` | workbook; per sheet the group being written | add a row, merge, finalize groups, save |
| Audit manager | `application/audit_manager.py` | `audit.json`, audit folders | create, begin and complete a run, next script version |
| Finalize, definalize, exceptions | `application/finalize_service.py`, `definalize_service.py`, `exception_service.py` | run status, archived workbook | gate, archive, mark, undo |
| Remediation and scripts | `application/remediation/`, `script_executor.py` | generated files; the servers | generate, execute in batches, roll back |
| Remote connection | `application/prepare/`, `prepare_service.py`, `infrastructure/psremoting/` | machine settings, revert scripts, profiles, attempts, cache | connect in five layers, remember, run a command, revert |
| Command line, configuration, credentials | `interface/`, `infrastructure/config_loader.py` | local files | parse, dispatch |

How they interact.  The CLI calls one service per command, and one command runs at a
time.  `SyncService.sync` calls `AuditService.run_audit` with `skip_save`, hands the
run's writer on, and shares nothing with it but the database: even the id of the new
run is looked up again (`get_latest_run_id`).  The worker threads of a scan share the
database, through a connection each, and the report writer, behind a lock that covers
one call.  The workbook is shared with the user, who may edit it, or have it open, at
any time; the rows of the workbook lead back to findings and annotations by the text of
their key cells.  `remediate --generate` and `--apply` are tied together by comments in
the scripts.  The threads of `prepare` share one connection manager, its tracker of
revert scripts, and the machine they run on.

What is hard about them:

* **Partial failure.**  Every database operation commits on its own, every file is
  written in place.  An exception, Ctrl-C or the death of the process falls between any
  two of them, and nothing repairs what it leaves; the next command must cope.
* **Unreachable servers.**  A finding that a run does not hold is either gone or was
  not looked at.  The diff decides by the set of linked instances, the statistics by
  nothing at all.
* **"Latest" and "first".**  The handlers and the adoption of the new run find their
  run by id order and status; the finalizer finds its workbook by name and time.
* **Threads.**  Targets are scanned in parallel: they race for database rows, and their
  rows interleave on sheets whose cells are merged afterwards.  Servers are prepared in
  parallel over one tracker.
* **Two sources of truth.**  Annotations exist in the workbook and in the database;
  every workbook has new row UUIDs, so old entries are found by key columns, by
  pieces of code that do not agree.
* **Text as reference.**  Scripts find their login and their server by searching the
  target list with a comment; sheet rows find their finding by spelling its key.
* **Two judges.**  What a sheet calls a discrepancy and what is a finding is computed
  apart, for every kind of thing.
* **Long histories.**  What a third run sees depends on what the second one logged; a
  second call of `prepare` meets settings the first one made.

The properties that make each component correct are the ones in section 4;
`PROJECT.json` lists every hazard at its line with the properties that guard it.

## 2. Modules

```
FindingTransitions                  pure operators: transitions, diff, consolidation
   |         |          |
SyncEngine   |          SyncSummary          Actions sheet, statistics
   |   \     AnnotationSync                  workbook <-> database
   |    \        AnnotationSyncProofs        theorems
   |    AuditScan                            implements SyncEngine (INSTANCE ... WITH)
   |       |
SyncEngineProofs  AuditScanProofs            theorems (SyncSummaryProofs for SyncSummary)

ServerQueries      pure operators: what a server holds -> what the queries report
ReportRules        pure operators: facts -> verdict of the sheet, finding
   |
ReportSheet        rows, groups, findings, reading back    ReportSheetProofs
                   (MCReportSheet derives its estates through ServerQueries)

AuditFiles         output folder, audit.json, finalize     AuditFilesProofs
Remediation        generate, apply, roll back              RemediationProofs
RemoteConnection   prepare, profiles, scripts              RemoteConnectionProofs
```

**FindingTransitions** has the transition matrix of `classify_finding_transition`, the
priorities and the should-log flags of `ChangeType`, the diff of two runs with its guard
for unscanned instances, and the consolidation to one action per entity.

**SyncEngine** is the engine and the three commands on its tables.  `runs` is
`audit_runs` with each run's linked instances and findings folded in; `log` is
`action_log`, whose rows all belong to the baseline; `book` says whether a workbook
exists.  The other variables are locals of the running command.  `pc` names the places
between two commits: `begin`, `load`, `scan` and `report` are `run_audit`; `adopt` is
phase 3, `diff` phases 4 and 4b, `record` phase 5, `clear` phase 5b, `save` phases 6
and 7; `auditRaised` and `raised` are the inner and the outer exception handler.  Each
action is a handler or a commit.  Choices that the environment makes (what a scan
finds, whether a target answers, what the annotations amount to) are existential
quantifiers inside the action.

**AnnotationSync** follows one sync from reading the workbook to writing its
successor, with the user editing and opening the workbook, and deleting a column of it,
in between.  `notes` is the annotations table, by workbook generation (a generation
stands for its fresh UUIDs) and row; `old` is the snapshot taken before anything is
stored, `read` what the workbook said.  Every annotation field is a commit of its own;
`PersistTorn` is the death between two of them.

**AuditScan** opens up `run_audit`: the main thread, a pool of `Workers` threads, a step
per commit of each thread, the race for the row of a host, targets that hang, Ctrl-C
(which stops nothing but the main thread) and the death of the process.  Its `Engine`
instance is the refinement mapping to SyncEngine: a target's link and findings are
hidden until its thread is done.

**SyncSummary** is what a sync tells its user.  `book` is the rows of the Actions sheet
of the current workbook, with the log's id in a hidden column and the text of the log's
row; `stored` is the annotations table's entries for that sheet, by id.  A sync reads
the sheet, records the changes, computes the statistics with the diff that
`StatsService` has of its own (no guard for unreachable servers, exceptions matched by
look-alike keys), and writes the sheet from the log and `stored`.  The user notes
something on a row, or adds a row by hand with an id of their choice.  A sync may stop
at any of the four places.

**ServerQueries** says what the queries of the two SQL dialects (2008, and 2012 or
later) report of a thing in the server's catalog and what they leave out: the columns
that are missing, the flags that are derived, the services of other instances, the
databases that are offline.  **ReportRules** is the verdict on those facts, kind by kind
and twice: the mark that the sheet gets (`Marks`), and the status and key of the finding
(`FindingsOf`).  **ReportSheet** is the machine around them: the threads of the targets
report their things through one writer; per sheet `groups` keeps the server, the
instance and a third level that are being written, and merges the cells of a group when
the next one begins or the book is completed; the finding of a row is saved afterwards
and may be lost.  `ReadBack` is what sync makes of the cells.

**Remediation** has both halves of `remediate`.  `found` is the findings of the latest
run, `versions` the version folders with their scripts.  A script is a sequence of
batches, a batch a sequence of statements that set one item of one instance; its header
is what the executor searches the target list with, once for the login the script must
not touch and once for the connection.  `value` is the configuration of the instances,
external except for what the scripts do to it.  A batch that alters the login checked for
is skipped; the policy of the login that the script really runs under is left out by the
statement itself (`Spares`).  Batches run and fail one by one, a
command may be interrupted at any of them, and targets, logins and settings are edited
by hand between commands.

**AuditFiles** is the output folder, one write at a time: a file is opened for writing,
which empties it, and then filled, and the process may die in between.  `meta` is
`audit.json` (read, changed and written by every command), `root`, `latest` and `final`
the places where a report can be, `scripts` the version folders, `runs` the runs of the
database.  `cmd` is the running command: audit, sync, generate, finalize.  A sync, whose
steps are SyncEngine's, is here its run and the two writes over the working copy itself,
the report's and the annotations' (`Cut` between the two steps of a write), with the
handlers that fail a run.  `latest[0]` is the workbook of a sync that finds no audit.

**RemoteConnection** is `connect_to_server` with its callers: `prepare apply`, which
takes each server once, `prepare_targets`, which takes each target and repeats the
failed ones, and the command executor.  `jobs` is where each call is and what it has in
its local variables (attempts, what it read of the settings), `settings` the groups of
settings of every machine, `tracker` the one list of revert scripts (which put back what
was captured, but turn CredSSP off whatever it was: `PutBack`), `profiles` and
`logged` the two tables.  The five layers are: direct attempts, this machine, the
server, fallbacks, manual.  `opened` is a history variable: the connections that ever
came about.

How the models divide the work.  SyncEngine leaves to AnnotationSync how annotations
become exception changes; it only assumes what `PossibleException` says, and
AnnotationSync checks that assumption (`ChangesArePossible`).  SyncEngine scans a
target in one step; AuditScan is proved to do no more than that.  SyncEngine says of
finalize only which run it marks; AuditFiles has its steps.  ReportSheet's findings are
what SyncEngine calls the findings of a run, and `RowsMeetTheirFindings` says for which
kinds AnnotationSync's assumption holds, that a row knows its finding's key.

### Modelling decisions

* One command at a time.  The program is a command-line tool; nothing locks the
  database against a second one, and two at once are not modelled.
* A key belongs to an instance (`InstanceOf`).  The code extracts the instance from the
  key's text; keys whose text does not spell the instance the way the instances table
  does are `UnmatchedKeys`, and the diff treats them as never scanned unless the set of
  scanned instances is empty.
* A Ctrl-C or exception inside phases 3 to 7 goes to the outer handler, one inside
  `run_audit` to the inner or the outer one by its class; the models allow each wherever
  the code does.
* The recorder swallows what a single action raises (`RecordActionFails`, `missed`).
* Phase 5b names `ChangeType`, a local name that is bound only if annotation rows were
  read.  The clearing that it then attempts never finds its row (it splits the
  finding's key at the first `|` and uses the first part as entity type), so in the
  model it clears nothing.
* In AnnotationSync a sheet of the workbook stands for all sheets keyed by their own
  columns.  Purpose, notes and dates travel with the justification and are left out.
* The targets of a scan are distinct instances.  Upserting an instance and linking it
  are one step, because no other thread touches that instance.
* Keys and cells of the report are tuples of their parts; two keys are equal when the
  code's joined strings are.  Case is folded where the code folds it.
* The settings of a machine are grouped as the code saves and restores them; the five
  authentications that must be named are one (`Kerberos`).
* Each audit of the audit manager has a workbook of its own; `book` of SyncEngine is the
  one that the commands at hand use.
* `cli.py` and the package `interface/cli/` both implement commands.  The models follow
  the documented commands, the service calls of which are the same.

## 3. Runs

| Run | Instance | Shows |
|---|---|---|
| `sync_long` | 1 finding, 2 servers, 3 runs | `ActionsWitnessed`, `OneRowPerChange`, `SyncKeepsBaseline`, `SyncLeavesNoZombie` over a baseline and two syncs, with failures anywhere |
| `sync_wide` | 2 findings on 2 servers, one never matching its instance, 2 runs | `ChangesLogged`; `CommandEnds` under fairness |
| `scan` | 3 targets, two on one host, 2 workers, one target that may hang, 2 runs | `ImplementsEngine`, `ClosedRunsAreFrozen`, `FindingsNeedLink`, `CompletedMeansReached`; `AnsweringTargetsFinish` under fairness |
| `annotations` | 1 row, 2 justifications, 4 workbooks, one lost column in each | `TextIsSafe`, `NamedRowsRehydrated`, `ChangesArePossible` |
| `summary` | 2 keys on 2 servers, 3 runs, one edit of the user (a note, or a row with id 90) | `BooksBalance`, `StatsMatchLog`, `SheetKeepsEverything` |
| `report` | 3 targets, two of them on one server; every single thing that the queries can report, held by both of these, and eight mixed estates; 2008, 2016 and 2019 | `KeyCellsReadBack`, `ActionNeededIsDiscrepant`, `RowsMeetTheirFindings` |
| `scripts` | a default instance on 1433 and a named one on 1444 of a host; a setting, `sa` and a login without policy that is also one to connect with; 1 version, 1 edit by hand | `AppliedMeansFixed`, `RollbackMeansRestored`, `OwnLoginKept`, `RightInstance` |
| `files` | 2 audits, 2 runs, 2 script versions, 1 archived copy, 1 kill | `OneGenerationPerVersion`, `ReportSurvives`, `FinalizedIsArchived`, `HistoryGrows` |
| `connect` | 3 targets (two on an address, one on this machine), 2 workers, 2 targets asked for, 1 fault | `AttemptsKeepTheirProfile`, `SuccessIsOnRecord`, `ProfilesAreEarned`, `ScriptsRestore` |
| `scan_race`, `sync_unreachable`, `summary_rows` | small | one documented promise each that the code does not keep (section 6) |

Deadlock is checked in `scripts` only.  The others come to rest at the bounds on runs,
workbooks, audits or targets, and a scan with hanging targets may never end.

Bounds.  `MaxRuns` caps the rows of `audit_runs`: three runs are what it takes for a
sync to meet the log rows of an earlier sync, and a failed, killed or finalized run
between the baseline and a later sync.  Two servers give every combination of none,
some and all reachable.  `MaxGens` caps the workbooks: with four, a row has entries of
an oldest, a middle and a newest generation when a sync reads it.  In a scan, three
targets over two workers make one wait for a worker, two on one host race, and the
second run finds the hosts in the table.  `WARN` is left out of `Outcomes` in the runs:
every operator treats it as `FAIL` except the finalize gate, and the proofs cover it.
`Workers` is 5 in the code and 2 here.  In `summary` a row added by hand with a large id
meets the log's rows in two later syncs.  In `report` the two instances of one server
are where keys can meet and groups can merge wrongly, and the third target interleaves
with them.  In `scripts` the two instances of a host are what a search by host, port or
name can confuse; the edit is a changed login or a changed setting between generation
and use, and `MCInit` lets the two instances begin alike but for the setting, which one
edit, or the scripts, may change.  No two targets share host and port there, so a login is
checked for and connected with alike and a policy batch that names it is skipped; that the
batch spares it by itself, where they differ, is in `AppliedFixes` (section 5).  `files`
needs two audits for a wrong folder, two runs and versions for a
wrong number, and one kill per history: every place of it is tried.  One archived copy is
enough for a finalize that fails after it, or is repeated.  `connect` needs two
calls in parallel or one after the other, and a third target so that a repeated one
meets both.

Fairness.  `SyncEngine!FairSpec` is weak fairness of the command's next step: the
program runs to its next commit.  For a step that waits on a server this is an
assumption about the servers: the code sets no timeout on its queries.  `AuditScan`
drops it: its fairness is per thread (`WF_vars(ThreadStep(t))`), a thread in `hung` has
no step, and the property that remains is that fewer hanging targets than workers
cannot keep the others from finishing.

Each property has a mutant in the module it is about (the definitions commented as
mutants): a plausible mistake, put in place of the real definition, which makes TLC find
that property violated.

## 4. Properties

The engine:

* `ActionsWitnessed`: a row of the action log names a sync run, not the baseline, and
  the findings of the two runs, as the database holds them now, justify its type.
* `OneRowPerChange`: the upsert keeps one row per entity and type over all syncs.
* `ChangesLogged`: after recording, every finding of a scanned instance that changed
  against the baseline has its row for this sync, unless its own write raised; in
  particular no exception change of the same entity displaces it.
* `SyncKeepsBaseline`: no step of a sync, its handlers included, touches the baseline.
* `SyncLeavesNoZombie`: a sync that ends in a handler leaves no run marked running.
* `CommandEnds`: a started command ends.

The scan:

* `ImplementsEngine`: the threads of a scan implement the engine.
* `ClosedRunsAreFrozen`, `FindingsNeedLink`, `CompletedMeansReached`: what the rest of the
  program relies on when it reads a run.
* `AnsweringTargetsFinish`: see Fairness.

Annotations and summary:

* `TextIsSafe`: from the scan on, whatever ends the sync, the text that was read from
  the workbook is what the next lookup finds.
* `NamedRowsRehydrated`: the write-back gives a row of a named instance what was read of
  it, however many older entries it has.
* `ChangesArePossible`: what AnnotationSync reports is what SyncEngine expects.
* `BooksBalance`: the differences that the statistics count add up to the difference of
  the totals of the two runs, and console and cover, which are computed apart, agree.
* `StatsMatchLog`: with nothing lost in between, what the statistics count as fixed, new or
  regressed since the baseline is what this sync records in the log, but for what the guard
  of the diff keeps out of the log.
* `SheetKeepsEverything`: after a sync, every row of the log and every row and note of
  the user is on the new Actions sheet.

The report:

* `KeyCellsReadBack`: after any interleaving, an empty key cell leads back, through the
  values above it, to the server, instance and group that the row was written for.
* `ActionNeededIsDiscrepant`: a row asks for action exactly when sync would count an
  exception on it.
* `RowsMeetTheirFindings`: for the kinds whose collector and sheet build their key alike,
  a row leads to the finding of the same thing, and only to that.

Files, scripts and connections:

* `OneGenerationPerVersion`: no version folder mixes scripts of two generations.
* `ReportSurvives`: a report as new as an audit's last completed run is in full in the
  output folder or as the audit's working copy, except where a sync began to write over
  the working copy and did not end: by then that is the only report, and a death or a
  failing write there tears it (section 6).
* `FinalizedIsArchived`: a run that is marked finalized has a whole archived copy.  Whether
  it is the workbook of that run is another matter (section 6), and so is a copy whose
  run was never marked.
* `HistoryGrows`: no command shortens an audit's list of runs or lowers its version.  An
  `audit.json` cut off by a dying process, or an update lost between two commands at once,
  is outside it.
* `AppliedMeansFixed`: a script that is reported as applied has set what it was written
  for, on the server it ran on; only the password policy of the login it ran under it
  leaves as it is.
* `RollbackMeansRestored`: after a rollback that reports success, the settings its script
  changed are what they were found to be.
* `OwnLoginKept`: no batch disables or resets the login it runs under.
* `RightInstance`: no batch runs on an instance other than the one it was written for.
* `ScriptsRestore`: the scripts a failed call hands over, run from last to first, lead
  back to the settings it met, if the call was undisturbed; but a role in CredSSP that it
  met switched on is switched off (section 6).
* `AttemptsKeepTheirProfile`: a logged attempt belongs to the profile of the server that
  was asked for, whoever saved which profile meanwhile.
* `SuccessIsOnRecord`: a caller that is told of a success got a connection that is in
  the log, unless the answer is the cache's or rests on a remembered profile.
* `ProfilesAreEarned`: a profile marked successful was once connected with, under its
  name and on its port; its protocol and authentication may be others (section 6).

## 5. Proofs

Assumptions: `ConstantsAssumption` of SyncEngine, `ScanAssumption` of AuditScan,
`AnnotationAssumption` of AnnotationSync, `ReportAssumption` of ReportSheet,
`BoundsAssumption` of AuditFiles, `RemediationAssumption` of Remediation,
`ConnectionAssumption` of RemoteConnection and `SummaryAssumption` of SyncSummary, which
only type the constants (and say that a finding may be left out, that 1433 is a port,
that targets, the names of servers and the keys of findings are finitely many, that the
machine the tool runs on has a name of its own, that a collected thing has the facts of
its kind and a service a name, and that the words the tool puts into key cells are
strings, which the provers do not know of literals).  Sets of instances, keys, texts,
things, hosts and targets, the number of runs, workbooks, versions and edits, and the
pool size are arbitrary.

**SyncEngineProofs.**  `TypeCorrect`, `LogSound` (`ActionsWitnessed`), `LogComplete`
(`ChangesLogged`), `LogUnique` (`OneRowPerChange`), `BaselineKept`, `NoZombie`, and three
theorems about the classification.  `ActionsWitnessed` is not inductive: it says nothing
of the actions about to be recorded, nor of the run being written.  The invariant `IInv`
adds `PhaseInv` (which run each phase is about: from `diff` on the current run is the
last one and a sync run), `LogInv` (while a scan writes into the last run, every row
names an earlier one, so evidence is frozen before it is cited), `PendingInv` (actions
waiting to be recorded are justified by the current run), `DetectedInv` (every change of
a scanned finding is among the actions, which needs that consolidation never prefers
an exception change to a finding change) and `RecordedInv` (every action that is no
longer pending is in the log or was missed).  `BaselineKept` and `NoZombie` are action
properties proved from the same invariant; both turn on what "latest" means at the
handlers.

**AuditScanProofs.**  `ScanTypeCorrect`, `FindingsLinked`, `CompletedReached`,
`ClosedFrozen` and the refinement `ScanRefinesEngine`.  The invariant relates each
thread's place to what the run holds: a linked target's thread is past its link, a
thread past its link that has not failed has a linked target (`ThreadInv`), outside a
scan no thread is alive, and during one the last run is running (`MainInv`).  For the
refinement, what a thread writes before it ends falls on a target that is not shown
(`HiddenWrite`), and the step that ends it is the engine's `ProcessTarget` with what was
saved by then, or `TargetUnreachable` (`EndStep`).

**AnnotationSyncProofs.**  `TypesHold`, `TextsAreSafe` (`TextIsSafe`), `ChangesPossible`
(`ChangesArePossible`) and `AnnotationsCarried` (`NamedRowsRehydrated`).  Both the text's
safety and the write-back go through "the last entry of the row", the newest of as many
as there were workbooks.  The invariant therefore says that no entry is newer than the
workbook that was read (`NoLaterNotes`, which the write-back needs although the workbook
has a successor by then) and that the entry under it holds what was read (`StoredInv`),
also after the detection has cleared the status of removed exceptions: it clears only
where the row was read without its status, and only entries that exist (`OldInv`, since
what it goes by is the snapshot taken before).  That a row has a newest entry at all
(`LastNoteTyped`) is the one fact that needs well-foundedness.

**ReportSheetProofs.**  `KeyCellsAreRead` (`KeyCellsReadBack`), `RowsMeet`
(`RowsMeetTheirFindings`), `ActionIsDiscrepant` (`ActionNeededIsDiscrepant`) and
`TypeCorrect`.  A sheet is merged column by column, each time from the row where a group
began, and the read-back of a cell looks at one column only.  So the invariant keeps, for
each column a row fills, that some row at or above it has the value and none between them
has another (`Leads`), and for the open groups what their rows have in common
(`Together`); a merge is sound because the rows it blanks had the value it keeps
(`MergeReads`), and a new row ends exactly the groups it does not belong to (`RowKeeps`).
The Instances sheet, which gives up merging once a server has two instances, is the case
`mixed`.  `RowsMeet` has the hypothesis `NamesAreProper`: a database with an empty name,
or one called "none", would be taken for the value of the row above. `ActionIsDiscrepant`
is not about the rules alone, which differ: a db_owner's row asks for action, its finding
warns of db_accessadmin too, and a disabled sysadmin's finding fails.  `ShapeInv` says
that every row is on a sheet its thing has a row on, with the marks of that thing
(`SheetTyped`), and that every finding was saved for a thing of its target, under its key
and with its status (`FindingsInv`).  The finding found under a row's key is then one of
the same thing, and either the two rules agree on it (`AlikeAgree`, `UserAgrees`,
`PlainRoleAgrees`) or the key of the row is longer than that of the finding or shorter,
so that there is none (`KeyLengths`): of instances, roles, and the roles of a database
that are shown behind an icon.

**AuditFilesProofs.**  `ReportsStayWhole` (`ReportSurvives`), `ArchiveBeforeMark`
(`FinalizedIsArchived`), `VersionsStayApart` (`OneGenerationPerVersion`), `HistoryIsKept`
(`HistoryGrows`) and `TypesHold`.  The files at rest do not show why these hold, since
each is written in two steps and the command in flight knows what is missing.  The
invariant therefore says what an emptied audit.json is about to say again (`SaveInv`: all
it said, and one entry, one completion or one version more), that the entry of the run in
progress is still open (`EntryOpen`), that a report stays in the output folder until the
working copy holds it (`AuditInv`), that a sync writes the report of a run of its own,
the last one and so no older than any entry (`SyncInv`), and that the version about to be
saved has no scripts yet, because scripts are only written under a version the counter
has reached (`TablesInv`).  A failed finalize may remove every copy of its run, which is
harmless because a run being finalized is not finalized yet (`FinalizeInv`).

**RemediationProofs.**  `CredentialSafety` (`OwnLoginKept`), `ScriptsStayAtHome`
(`RightInstance`), `AppliedFixes` (`AppliedMeansFixed`), `RollbackRestores`
(`RollbackMeansRestored`) and `TypeCorrect`.  Neither of the first two holds of every
list of targets: the first needs that no two targets share host and port
(`DistinctEndpoints`), the second that the list addresses each instance unambiguously
(`WellAddressed`); both are hypotheses of the theorems, and section 6 says what happens
without them.  The invariant says that every script of every version was written for the
instance its header names, and that the connection in use is the one its target list
gave; the proofs follow the two searches of the target list.  `AppliedFixes` and
`RollbackRestores` need `WellAddressed` and `CodeRequires`: that the values the handlers
write, 0 for a setting and 1 for a login's policy, are the required ones, which leaves
out the two settings of section 6 that must be 1.  A script is then a sequence of batches
that *heals*: a statement that sets an item to anything but its aim is followed by a
batch that sets it right (`Heals`; the advanced options go on and off again with every
setting). Putting scripts together keeps that, so the flattened script of any findings in
any order has it (`FlattenIn`, `FlattenHas`, by induction over a set), and a statement
that is run and taken off the front keeps it too (`RestHeals`).  The invariant `WorkInv`
says that a script without an error so far has set each of its items or has the batch
still to come. The policy of the login that the script runs under is not among its items
(`Fixable`): `WorkInv` also says which login that is, the one of the target that the
connection's search finds, and a statement that the server leaves out is then about no
item of the script (`SparedIsNoGoal`).  Which login was checked for plays no part, so
this holds for target lists that share host and port too, where a script with a spared
login is reported clean.

**RemoteConnectionProofs.**  `AttemptsAreFiled`, `SuccessRecorded` and `ProfilesEarned`
rest on one invariant.  A profile's id, once given, stays (`Grows`, which every step of a
call is shown to obey); a call between its first look at the profile and its last commit
knows that id, and made its attempts under it, but for the fallbacks' (`AttemptsInv`); a
call that has connected has the attempt that did it, and has logged it before its caller
hears of it (`SuccessInv`).  The step that could break it is the saving of a profile
under another name, which fills in ids: only a fallback's attempts have none there, and
those went to the server's own name, whose row exists, so nothing is filled in.
`TypeCorrect` needs `IInv`, since the name a profile is saved under is known only from
it, and besides it that only calls for this machine are where it is configured and that
the step of a call is 0 only between the two client layers (`PhaseInv`).  `ScriptsUndo`
(`ScriptsRestore`) is about a whole call and is kept at each of its steps (`UndoInv`): as
long as all went well, the scripts recorded so far lead from the settings as they are to
those the call met (`Undone`), and what it has read of this machine still holds where it
is about to be overwritten (`AsRead`); this is so because a command without threads has
one call under way at a time (`AloneInv`, from the bound on the pool).  A recorded change
must cover what it changed (`Covers`): of the scripts for the server, whose output may
not be readable, only the authentications' does, and they are what `Restorable` lists.  A
script's value for CredSSP is always off (`AreScripts`), so for a role that was off
before, and whichever scripts follow, the way back ends with it off; a role met on is not
`Restorable`.  One more script at the end of the list is one more at the start of the way
back (`RunBackAppend`, by induction over the states on the way).

**SyncSummaryProofs.**  `BooksBalanced` (`BooksBalance`), `StatsAgreeWithLog`
(`StatsMatchLog`), `SheetKept` (`SheetKeepsEverything`) and `TypeCorrect`.  What the
console shows is computed before the sheet is written and read by the user after; the
invariant says that from `Calculate` on it still is `Statistics`, because nothing those
read changes any more.  `BooksBalanced` is then arithmetic over sets of keys: each
transition moves a key out of one count and into another.  For `StatsAgreeWithLog` the
invariant must know the log while it is being written: `DetectedInv` says that a change
is what the diff of baseline and current run found exactly if its action is still
pending or has a row under this sync, which is not so obvious, since an upsert that finds
an older row moves that row to this sync, and counts as logged again.  `LogInv` has one row per
change, so counting rows is counting keys.  `SheetKept` has the hypothesis
`NumbersBeyondLog`: ids of rows added by hand are numbers beyond any that the log can
reach, of which there are six per key.  Without it the run `summary_rows` is the
counterexample.  `SheetInv` says that no two rows of a sheet have one id and that the
annotations table holds what was read.  Cardinalities and sums are over finite sets of any
size; the library's induction theorems cannot be cited, so the module first proves
induction over the numbers and over finite subsets for what a *set* can say
(`InductiveCoversNat`, `SmallerSubsets`), from well-foundedness.

Model-checked only: the liveness properties `CommandEnds` and `AnsweringTargetsFinish`
(liveness and ENABLED are out of the prover's reach).  Every invariant and every action
property of a passing run is stated by a theorem.

## 6. Where the code and its documentation part

Three of these have a run:

| Run | Documentation | Code |
|---|---|---|
| `sync_unreachable` | `docs/cli/reference.md:92`: a vanished server's findings are not fixed | with no server reachable the guard is off and they are logged as fixed |
| `scan_race` | `docs/sync/change_tracking.md:13`: writes are serialized | two targets on a new host race for its row; the loser is not scanned |
| `summary_rows` | `docs/excel/manual_actions.md`: rows added by hand are kept | a row with a blank ID is never stored, one with a word in its ID takes the log's next number and overwrites its text |

The others were met while reading and modelling, and the models have the behaviour of
the code.

Sync and annotations:

* A finalized audit is immutable (`docs/cli/reference.md:143`), but the inner handler of
  sync may mark a finalized run as failed (`sync_service.py:221`).
* Without annotation rows phase 5b raises `UnboundLocalError` (`sync_service.py:379`);
  `docs/sync/change_tracking.md:61` says the workbook is read if it exists.
* Reappeared issues are regressions (`docs/sync/logic.md:41`), but only the baseline is
  compared, so nothing is logged of them.
* Hanging queries are never aborted and use up the pool (`docs/cli/reference.md:47`:
  other servers continue).
* Rows of a default instance are looked up under another key than they were stored with
  (`docs/sync/logic.md:66`; `annotation_sync.py:829`).
* An exception is compared with the oldest workbook's entry and logged again
  (`docs/sync/change_tracking.md:79`).
* Annotations are stored before changes are detected: a sync that dies in between has
  moved the point of comparison, and the change is never logged (`sync_service.py:168`).
* What the user types between the reading of the workbook and its replacement is lost
  (`sync_service.py:517`); a write-back that is refused leaves blanks, which the next
  sync reads as cleared text (`annotation_sync.py:699`).
* Deleting the justification column makes the next workbook's entry empty, and being the
  last one it hides the older text, which stays in the database unseen.

Statistics and Actions sheet:

* The statistics have no guard for unreachable servers: console and cover say "Fixed"
  where the log says nothing (`docs/cli/reference.md:92`, `docs/testing/real-db.md:23`).
* An exception is taken from any row whose key contains the finding's instance and name,
  the `-1/+1` of `docs/sync/annotations.md:47` included.
* `get_previous_sync_run` says "last successful sync run" and has no filter on status.
* Documentation counts are always 0; the per-sheet table never has the Fixed, Regressions
  and New columns of `docs/cli/reference.md:53`; "Exception Removed" is shown as "New
  Issue"; the write-back freezes the columns of rows that exist.

Collectors, queries and report:

* The backup collector reads `LastFullBackup` and `LastLogBackup`
  (`collectors/infrastructure.py:477`), columns that no query returns.  Every user
  database is a finding without a full backup and shows NEVER, while the sheet's mark
  goes by the age; the warning about log backups never occurs
  (`docs/excel/sheets/backups.md:14`).
* The instance query uses `sys.dm_os_host_info` (2017 and later) for 2012 to 2016 too:
  of those instances nothing is reported (`query_provider.py:994`, `1031`).
* Protocols are judged by the transport of the collector's own connection, not by the
  registry, so an enabled Named Pipes is not seen over TCP.
* On 2008 the services of all instances of the machine are listed, membership of
  `public` and offline databases differ from 2012, and `dbo` is left out of the users.
  A default instance's services carry "MSSQLSERVER" on 2012 and "(Default)" on 2008.
* Sheet and finding disagree on a disabled but not renamed `sa`, on logins, services,
  linked servers with `rpc out`, DENY permissions and internal `##MS_` users.
* Keys collide: roles have no server in their key (`access_control.py:179`), several
  login mappings of one linked server share one.  The raw keys of default instances
  (protocols, database roles, triggers, permissions) never match their rows, so their
  exceptions and those of linked servers and roles can never be seen as removed.
* A blank Entity Name on the permissions sheet inherits the row above; a server trigger's
  Database cell and the "(All Databases)" cell of the "none found" row are overwritten
  by merging; the Encryption sheet never merges its last group.
* The PowerShell path of the services collector always ends in a `NameError`.

Scripts:

* The safety check can read the login of another target than the one the connection is
  made with, when two named instances of a host have no port (`script_executor.py:638`).
* `remediate --apply` runs every operating system script with `-ApplyFix`, dry run and
  rollback included (`docs/cli/reference.md:106`), and exceptions are never left out of
  the scripts (`docs/cli/reference.md:114`).
* The password policy batch leaves out the login it runs under (`IF SUSER_SNAME() <> ...`,
  `access_control.py:236`): the batch has no error and the script is reported as applied,
  with that login's policy off.  If the login was also the one checked for, the whole batch
  is skipped, the policies of all other logins with it (`script_executor.py:276`).
* A configuration fix always writes 0, although two settings must be 1; a script that
  meets `sa` twice fails in its second batch; rollback writes 1 for what was only a
  warning; an empty newest version is a success, and so is a failed connection.
* The header of a rollback script has no port: with two default instances on a host it
  goes to the one on 1433.

Files and finalize:

* Finalize without `--force` is refused unless a report is still in the root folder
  (`docs/cli/reference.md:142`, `finalize_service.py:56`); the annotations it means to
  apply are never stored; definalize queries a table that does not exist.
* `sync` writes over the only copy of an audit's report, in place and twice
  (`sync_service.py:517`, `521`; `writer.py:424`, `annotation_sync.py:697`): a death or a
  failing write between the opening and the end of either leaves a torn workbook and no
  other.  A write-back that fails is only logged, and sync reports success.
* Finalize archives the workbook that was written last, whichever audit and run it shows
  (`finalize_service.py:56`), under the name of the run it marks.
* A sync of no audit writes `output/Audit_Latest.xlsx`, which finalize from then on prefers
  to the working copy of any audit (`finalize_service.py:54`); a sync of an audit id that
  does not exist makes its folder, so that the number counts as taken.
* A re-audit that raises before it has a run, or whose targets cannot be loaded, makes
  sync's handler fail an earlier run (`sync_service.py:221`).
* A run left `running` by a dead process can be finalized; a torn working copy can be
  archived; a read-only archive copy of a failed finalize cannot be removed on Windows;
  an `audit.json` or snapshot that was cut off makes its audit unusable.
* `sql_audit_9` sorts after `sql_audit_10`.

Remote connection:

* `docs/sync/prepare.md:410` promises a perfect revert.  All threads share one tracker
  and every call empties it; a success after layer 1 drops the scripts; a command that
  is refused may have changed what no script restores; scripts come in the order of
  their recording, which restores only when run backwards; where TrustedHosts could not
  be read the script clears the user's list; several revert scripts do not parse.
  And CredSSP is not restored: the scripts end by disabling it for both roles whatever was
  captured (`gpo_enforcer.py:93`, `client_config.py:101`; `gpo_enforcer.py:21` says "full
  revert"), so a call that meets a role switched on, by the user or by an earlier call that
  succeeded or whose scripts were not run, takes it away.
  `ScriptsRestore` says what is left of the promise.
* A success over a fallback always ends as a failure, its attempt having no profile.
  Time limits of the fallbacks are not caught.
* `prepare_server` saves the profile again with protocol `http`, whatever it was, and
  authentication `None`; the command executor then uses such a profile and tries nothing
  else (`docs/sync/prepare.md`: rediscover if stored methods fail).
* A dry run on localhost still configures this machine; revert leaves the profiles.

## 7. Not modelled, and what could follow

Not modelled: layout, styling and wording; argument parsing, configuration and
credential files; the role matrix sheet; schema migrations and the inventory tables,
which nothing reads back; queries that no collector asks (backup jobs, transparent
encryption, certificates, master keys) and the switching of `xp_cmdshell` that the 2008
services query does on the audited server; the text of manual instructions.  The newer
packages `sync/`, `hotfix/`, `modern_data_access.py` and `entity_diff.py` are not called
by the commands.

What could follow:

1. **AnnotationSync**: an action log over several workbooks, so that an exception change
   lost between persist and record can be stated.
2. **Finalize** of AuditFiles as a refinement of the one step of SyncEngine.
