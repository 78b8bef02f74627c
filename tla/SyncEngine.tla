----------------------------- MODULE SyncEngine -----------------------------
(***************************************************************************)
(* The sync engine of AutoDBAudit: the audit_runs, audit_run_instances,    *)
(* findings and action_log tables, and the three commands that write them. *)
(*                                                                         *)
(*   audit     scans every target into a new run and writes a workbook;    *)
(*             the first run ever is the baseline of every later sync;     *)
(*   sync      reads the workbook, re-audits into a new run, diffs it      *)
(*             against the baseline, records actions, rewrites the workbook*)
(*   finalize  locks a run.                                                *)
(*                                                                         *)
(* One command runs at a time.  Each of its database commits is a step of  *)
(* its own, so that an exception, a Ctrl-C or the death of the process     *)
(* falls between any two of them.  The servers are outside the program:    *)
(* whatever a scan finds is a choice of the step that scans.  What the     *)
(* user's annotations amount to is a choice of the step that detects       *)
(* changes; AnnotationSync models how they are read and written back.      *)
(***************************************************************************)
EXTENDS Naturals, Sequences, FindingTransitions

CONSTANTS
    Instances,      \* the enabled SQL targets
    Keys,           \* entity keys of findings
    InstanceOf,     \* the instance a key belongs to
    UnmatchedKeys,  \* keys whose first two parts are not "host|instance" as
                    \* the instances table spells it: "(default)" or "" for
                    \* MSSQLSERVER, ":port" names, "role|member" keys
    Outcomes,       \* what a scan can find of a key: statuses, or None
    MaxRuns         \* bound on the number of rows of audit_runs

ASSUME ConstantsAssumption ==
    /\ InstanceOf \in [Keys -> Instances]
    /\ UnmatchedKeys \subseteq Keys
    /\ Outcomes \subseteq Statuses \cup {None}
    /\ MaxRuns \in Nat

VARIABLES
    runs,     \* audit_runs with, per run, its linked instances and findings
    log,      \* action_log, whose rows all belong to the baseline, run 1
    book,     \* does the workbook file exist
    pc,       \* where the running command is
    cmd,      \* the running command
    targets,  \* instances still to be scanned
    errors,   \* has a target failed in this scan
    hasRows,  \* did sync read any annotation row (current_annotations)
    current,  \* the run that sync compares with the baseline
    actions,  \* the consolidated actions of this sync
    pending,  \* those not yet handed to the action log
    missed    \* those whose recording raised: logged and skipped

tables == <<runs, log, book>>
session == <<pc, cmd, targets, errors, hasRows, current, actions, pending, missed>>
vars == <<tables, session>>

Baseline == 1

RunStatuses == {"running", "completed", "completed_with_errors", "failed", "finalized"}

Runs == [status   : RunStatuses,
         type     : {"audit", "sync"},
         linked   : SUBSET Instances,
         findings : [Keys -> Statuses \cup {None}]]

\* "row" entities are keyed by the row's UUID, "finding" ones by the finding.
Entities == [kind : {"finding", "row"}, key : Keys]

Actions == [entity : Entities, type : ChangeTypes]

Phases == {"idle", "begin", "load", "scan", "report", "adopt", "diff",
           "record", "clear", "save", "auditRaised", "raised"}

TypeOK ==
    /\ runs \in Seq(Runs)
    /\ log \subseteq [entity : Entities, type : ChangeTypes, sync : Nat]
    /\ book \in BOOLEAN
    /\ pc \in Phases
    /\ cmd \in {"none", "audit", "sync"}
    /\ targets \subseteq Instances
    /\ errors \in BOOLEAN
    /\ hasRows \in BOOLEAN
    /\ current \in Nat
    /\ actions \subseteq Actions
    /\ pending \subseteq actions
    /\ missed \subseteq actions

KeysOf(i) == { k \in Keys : InstanceOf[k] = i }

\* Mutant: ORDER BY id ASC.
OldestAmong(ids) == IF ids = {} THEN 0
                    ELSE CHOOSE r \in ids : \A q \in ids : r <= q

\* get_latest_run_id: 0 stands for no run.
LatestAmong(ids) == IF ids = {} THEN 0
                    ELSE CHOOSE r \in ids : \A q \in ids : q <= r

LatestValidRun == LatestAmong({ r \in DOMAIN runs : runs[r].status # "failed" })

LatestRun == Len(runs)

\* get_initial_baseline_id is the first run of type 'audit', which is the
\* first run: sync retypes only runs other than that one.
BaselineExists == runs # << >>

NewRun == [status |-> "running", type |-> "audit", linked |-> {},
           findings |-> [k \in Keys |-> None]]

\* Mutants: the callers' guard is dropped; a status no reader knows is stored.
FailAnyRun(r) == runs' = [runs EXCEPT ![r].status = "failed"]

FailRunAsError(r) == runs' = IF r > Baseline THEN [runs EXCEPT ![r].status = "error"]
                             ELSE runs

\* fail_audit_run, guarded as every caller guards it.
FailRun(r) == runs' = IF r > Baseline THEN [runs EXCEPT ![r].status = "failed"]
                      ELSE runs

\* The key set that diff_findings treats as scanned: an empty set of valid
\* instances switches the validation off.
ScannedKeys(linked) ==
    IF linked = {} THEN Keys
    ELSE { k \in Keys \ UnmatchedKeys : InstanceOf[k] \in linked }

EndCommand ==
    /\ pc' = "idle"
    /\ cmd' = "none"
    /\ targets' = {}
    /\ errors' = FALSE
    /\ hasRows' = FALSE
    /\ current' = 0
    /\ actions' = {}
    /\ pending' = {}
    /\ missed' = {}

Init ==
    /\ runs = << >>
    /\ log = {}
    /\ book = FALSE
    /\ pc = "idle"
    /\ cmd = "none"
    /\ targets = {}
    /\ errors = FALSE
    /\ hasRows = FALSE
    /\ current = 0
    /\ actions = {}
    /\ pending = {}
    /\ missed = {}

----------------------------------------------------------------------------
\* Starting a command.

StartAudit ==
    /\ pc = "idle"
    /\ Len(runs) < MaxRuns
    /\ pc' = "begin"
    /\ cmd' = "audit"
    /\ UNCHANGED <<tables, targets, errors, hasRows, current, actions, pending, missed>>

\* Phases 1 and 2.  A workbook that is open elsewhere stops sync here, with
\* nothing changed; one that cannot be parsed reads as no rows.
StartSync ==
    /\ pc = "idle"
    /\ Len(runs) < MaxRuns
    /\ BaselineExists
    /\ runs[Baseline].status # "finalized"
    /\ \E rows \in BOOLEAN : (rows => book) /\ hasRows' = rows
    /\ pc' = "begin"
    /\ cmd' = "sync"
    /\ UNCHANGED <<tables, targets, errors, current, actions, pending, missed>>

----------------------------------------------------------------------------
\* run_audit, shared by both commands.

BeginAuditRun ==
    /\ pc = "begin"
    /\ runs' = Append(runs, NewRun)
    /\ pc' = "load"
    /\ UNCHANGED <<log, book, cmd, targets, errors, hasRows, current, actions, pending, missed>>

LoadTargets ==
    /\ pc = "load"
    /\ targets' = Instances
    /\ pc' = "scan"
    /\ UNCHANGED <<tables, cmd, errors, hasRows, current, actions, pending, missed>>

\* An audit has no handler: the exception ends the command.
RaiseFromAudit ==
    IF cmd = "sync"
    THEN /\ pc' = "auditRaised"
         /\ UNCHANGED <<cmd, targets, errors, hasRows, current, actions, pending, missed>>
    ELSE EndCommand

LoadTargetsFails ==
    /\ pc = "load"
    /\ runs' = [runs EXCEPT ![Len(runs)].status = "failed"]
    /\ RaiseFromAudit
    /\ UNCHANGED <<log, book>>

\* The connection test, or the version query, fails: nothing is linked.
TargetUnreachable(i) ==
    /\ pc = "scan"
    /\ i \in targets
    /\ targets' = targets \ {i}
    /\ errors' = TRUE
    /\ UNCHANGED <<tables, pc, cmd, hasRows, current, actions, pending, missed>>

\* The instance is linked, then its findings are saved.  A collector that
\* raises leaves some of them out and counts as an error.
ProcessTarget(i) ==
    /\ pc = "scan"
    /\ i \in targets
    /\ \E found \in [KeysOf(i) -> Outcomes], raised \in BOOLEAN :
         /\ runs' = [runs EXCEPT
              ![Len(runs)].linked = @ \cup {i},
              ![Len(runs)].findings =
                  [k \in Keys |-> IF k \in KeysOf(i) THEN found[k] ELSE @[k]]]
         /\ errors' = (errors \/ raised)
    /\ targets' = targets \ {i}
    /\ UNCHANGED <<log, book, pc, cmd, hasRows, current, actions, pending, missed>>

\* Mutant: a scan in which a target failed is never completed.
CompleteOnlyWithoutErrors ==
    /\ pc = "scan"
    /\ targets = {}
    /\ ~errors
    /\ runs' = [runs EXCEPT ![Len(runs)].status = "completed"]
    /\ pc' = IF cmd = "sync" THEN "adopt" ELSE "report"
    /\ UNCHANGED <<log, book, cmd, targets, errors, hasRows, current, actions, pending, missed>>

CompleteAuditRun ==
    /\ pc = "scan"
    /\ targets = {}
    /\ runs' = [runs EXCEPT ![Len(runs)].status =
                    IF errors THEN "completed_with_errors" ELSE "completed"]
    /\ pc' = IF cmd = "sync" THEN "adopt" ELSE "report"
    /\ UNCHANGED <<log, book, cmd, targets, errors, hasRows, current, actions, pending, missed>>

\* The audit command writes its workbook over the previous one.
SaveAuditReport ==
    /\ pc = "report"
    /\ book' = TRUE
    /\ EndCommand
    /\ UNCHANGED <<runs, log>>

\* Anything else that raises inside run_audit: a locked database, a bug.
RunAuditRaises ==
    /\ pc \in {"begin", "load", "scan", "report"}
    /\ RaiseFromAudit
    /\ UNCHANGED tables

----------------------------------------------------------------------------
\* Phases 3 to 7 of sync.

\* The re-audit's run is taken to be the latest one that has not failed.
AdoptRun ==
    /\ pc = "adopt"
    /\ current' = LatestValidRun
    /\ runs' = IF LatestValidRun = Baseline THEN runs
               ELSE [runs EXCEPT ![LatestValidRun].type = "sync"]
    /\ pc' = "diff"
    /\ UNCHANGED <<log, book, cmd, targets, errors, hasRows, actions, pending, missed>>

\* What the annotations of a key can amount to: nothing unless rows were read
\* or the finding passes; the row of a missing finding speaks for itself, but
\* a removal needs a finding that still fails.
PossibleException(type, status) ==
    \/ type = "NO_CHANGE"
    \/ /\ hasRows
       /\ status # "PASS"
       /\ type = "EXCEPTION_REMOVED" => status # None

\* Additions and updates carry the finding's key, removals the row's UUID.
ExceptionActions(change) ==
    { [entity |-> [kind |-> IF change[k] = "EXCEPTION_REMOVED" THEN "row" ELSE "finding",
                   key |-> k],
       type |-> change[k]] : k \in { q \in Keys : change[q] # "NO_CHANGE" } }

DetectChanges ==
    /\ pc = "diff"
    /\ LET new == runs[current]
           diff == DiffFindings(Keys, runs[Baseline].findings, new.findings,
                                ScannedKeys(new.linked))
       IN  \E change \in [Keys -> {"NO_CHANGE", "EXCEPTION_ADDED",
                                  "EXCEPTION_UPDATED", "EXCEPTION_REMOVED"}] :
             /\ \A k \in Keys : PossibleException(change[k], new.findings[k])
             /\ actions' = ConsolidateActions(
                               DetectAllActions(diff, ExceptionActions(change)))
    /\ pending' = actions'
    /\ pc' = "record"
    /\ UNCHANGED <<tables, cmd, targets, errors, hasRows, current, missed>>

ShouldRecordAction(a) ==
    \A e \in log : ~(e.entity = a.entity /\ e.type = a.type /\ e.sync = current)

\* Mutant: a row is inserted whether or not the action has one.
InsertAction(a) ==
    log' = log \cup {[entity |-> a.entity, type |-> a.type, sync |-> current]}

\* UNIQUE (initial_run_id, entity_key, action_type): an existing row is
\* updated to name the latest sync that saw it.
UpsertAction(a) ==
    log' = { e \in log : ~(e.entity = a.entity /\ e.type = a.type) }
           \cup {[entity |-> a.entity, type |-> a.type, sync |-> current]}

RecordAction(a) ==
    /\ pc = "record"
    /\ a \in pending
    /\ pending' = pending \ {a}
    /\ IF ShouldLog(a.type) /\ ShouldRecordAction(a) THEN UpsertAction(a)
       ELSE UNCHANGED log
    /\ UNCHANGED <<runs, book, pc, cmd, targets, errors, hasRows, current, actions, missed>>

\* The recorder catches what a single action raises and goes on.
RecordActionFails(a) ==
    /\ pc = "record"
    /\ a \in pending
    /\ pending' = pending \ {a}
    /\ missed' = missed \cup {a}
    /\ UNCHANGED <<tables, pc, cmd, targets, errors, hasRows, current, actions>>

RecordActionsDone ==
    /\ pc = "record"
    /\ pending = {}
    /\ pc' = "clear"
    /\ UNCHANGED <<tables, cmd, targets, errors, hasRows, current, actions, pending, missed>>

\* Phase 5b names ChangeType for every action; the import that binds it runs
\* only when annotation rows were read.
ClearFixedExceptions ==
    /\ pc = "clear"
    /\ pc' = IF actions # {} /\ ~hasRows THEN "raised" ELSE "save"
    /\ UNCHANGED <<tables, cmd, targets, errors, hasRows, current, actions, pending, missed>>

SaveSyncReport ==
    /\ pc = "save"
    /\ book' = TRUE
    /\ EndCommand
    /\ UNCHANGED <<runs, log>>

\* An exception in the rest of the engine, the workbook being open when it
\* is saved among them, or Ctrl-C anywhere in the try block.
SyncRaises ==
    /\ cmd = "sync"
    /\ pc \in {"begin", "load", "scan", "adopt", "diff", "record", "clear", "save"}
    /\ pc' = "raised"
    /\ UNCHANGED <<tables, cmd, targets, errors, hasRows, current, actions, pending, missed>>

----------------------------------------------------------------------------
\* Handlers, process death, finalize.

HandleAuditException ==
    /\ pc = "auditRaised"
    /\ FailRun(LatestValidRun)
    /\ EndCommand
    /\ UNCHANGED <<log, book>>

HandleSyncException ==
    /\ pc = "raised"
    /\ FailRun(LatestRun)
    /\ EndCommand
    /\ UNCHANGED <<log, book>>

Kill ==
    /\ pc # "idle"
    /\ EndCommand
    /\ UNCHANGED tables

Finalize(r) ==
    /\ pc = "idle"
    /\ book
    /\ runs[r].status # "finalized"
    /\ \E force \in BOOLEAN : force \/ \A k \in Keys : runs[r].findings[k] # "FAIL"
    /\ runs' = [runs EXCEPT ![r].status = "finalized"]
    /\ UNCHANGED <<log, book, session>>

RunAudit ==
    \/ BeginAuditRun
    \/ LoadTargets
    \/ LoadTargetsFails
    \/ \E i \in Instances : TargetUnreachable(i) \/ ProcessTarget(i)
    \/ CompleteAuditRun

SyncPhases ==
    \/ AdoptRun
    \/ DetectChanges
    \/ \E a \in Actions : RecordAction(a) \/ RecordActionFails(a)
    \/ RecordActionsDone
    \/ ClearFixedExceptions
    \/ SaveSyncReport
    \/ HandleAuditException
    \/ HandleSyncException

Progress == RunAudit \/ SaveAuditReport \/ SyncPhases

Next ==
    \/ StartAudit
    \/ StartSync
    \/ Progress
    \/ RunAuditRaises
    \/ SyncRaises
    \/ Kill
    \/ \E r \in DOMAIN runs : Finalize(r)

Spec == Init /\ [][Next]_vars

\* A started command keeps taking steps.  The code sets no timeout on its
\* queries, so this assumes that a server answers, refuses or breaks off;
\* AuditScan has the targets that do not.
FairSpec == Spec /\ WF_vars(Progress)

----------------------------------------------------------------------------
\* What correct tracking means.

\* What the action log claims with a row of this entity and type, read off
\* the findings of the baseline and of the sync run that the row names.
Witnessed(entity, type, sync) ==
    LET old == runs[Baseline].findings[entity.key]
        new == runs[sync].findings[entity.key]
    IN  CASE type = "FIXED"      -> /\ Discrepant(old) /\ ~Discrepant(new)
                                    /\ entity.key \in ScannedKeys(runs[sync].linked)
          [] type = "REGRESSION" -> old = "PASS" /\ Discrepant(new)
          [] type = "NEW_ISSUE"  -> old = None /\ Discrepant(new)
          [] OTHER               -> new # "PASS"

\* Every row of the action log names a sync run, never the baseline, and the
\* database still holds the findings that justify it: no later audit, sync,
\* failure or finalize rewrites the evidence.  A FIXED row in particular
\* comes from a run whose set of scanned instances covers the finding.
ActionsWitnessed ==
    \A e \in log :
        /\ e.sync \in DOMAIN runs
        /\ e.sync # Baseline
        /\ runs[e.sync].type = "sync"
        /\ Witnessed(e.entity, e.type, e.sync)

\* upsert_action keeps one row per entity and type however many syncs see
\* the same change: the UNIQUE constraint of action_log never fires.
OneRowPerChange ==
    \A e, f \in log : e.entity = f.entity /\ e.type = f.type => e = f

\* The change between two statuses as the transition matrix of
\* docs/sync/change_tracking.md has it.
MatrixType(old, new) ==
    CASE Discrepant(old) /\ ~Discrepant(new)    -> "FIXED"
      [] old = "PASS" /\ Discrepant(new)        -> "REGRESSION"
      [] old = None /\ Discrepant(new)          -> "NEW_ISSUE"
      [] OTHER                                  -> "SAME"

\* When recording is over, every finding of a scanned instance that changed
\* against the baseline has its row for this very sync, whatever the user did
\* to its exception meanwhile; only a row whose write raised may be absent.
ChangesLogged ==
    pc \in {"clear", "save"} =>
        \A k \in ScannedKeys(runs[current].linked) :
            LET type == MatrixType(runs[Baseline].findings[k], runs[current].findings[k])
            IN  type # "SAME" =>
                    \/ \E e \in log : /\ e.entity = [kind |-> "finding", key |-> k]
                                      /\ e.type = type
                                      /\ e.sync = current
                    \/ \E a \in missed : /\ a.entity = [kind |-> "finding", key |-> k]
                                         /\ a.type = type

\* Whatever fails, wherever it fails, a sync leaves the baseline run as it
\* found it: both handlers pick the run to fail by "latest", and the baseline
\* is the latest when the new run was not begun or has failed already.
SyncKeepsBaseline == [][cmd = "sync" => runs'[Baseline] = runs[Baseline]]_vars

\* A sync that ends in one of its handlers leaves no run of its own marked
\* running, which the next command would take for a valid one.
SyncLeavesNoZombie ==
    [][(HandleAuditException \/ HandleSyncException) /\ LatestRun > Baseline
        => runs'[LatestRun].status # "running"]_vars

\* A command that was started comes to an end.
CommandEnds == (pc # "idle") ~> (pc = "idle")

----------------------------------------------------------------------------
\* What the documentation promises and the code does not keep.

\* docs/cli/reference.md, Network Flaps: a finding whose server vanished is
\* not marked as fixed.
FixedOnlyWhenReached ==
    \A e \in log : e.type = "FIXED" => InstanceOf[e.entity.key] \in runs[e.sync].linked
=============================================================================
