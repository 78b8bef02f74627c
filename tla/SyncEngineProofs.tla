-------------------------- MODULE SyncEngineProofs --------------------------
(***************************************************************************)
(* Proofs about SyncEngine for every set of instances and keys and every   *)
(* bound on the runs.  The action log is justified by the findings of two  *)
(* runs, so the argument is that those findings are frozen before the log  *)
(* names them: while a scan writes to the last run, every row of the log   *)
(* names an earlier one (LogInv), and by the time rows name the last run   *)
(* it is the run that sync adopted (PhaseInv) and the actions waiting to   *)
(* be recorded are justified by it (PendingInv).                           *)
(***************************************************************************)
EXTENDS SyncEngine, TLAPS

\* The statuses of a finding, or its absence.
MaybeStatus == Statuses \cup {None}

PhaseInv ==
    /\ pc = "idle" => cmd = "none"
    /\ cmd = "sync" => Len(runs) >= 1
    /\ pc \in {"load", "scan"} => Len(runs) >= 1
    /\ cmd = "sync" /\ pc \in {"load", "scan"} => Len(runs) >= 2
    /\ pc \in {"adopt", "diff", "record", "clear", "save"} =>
           cmd = "sync" /\ Len(runs) >= 2
    /\ pc = "adopt" => runs[Len(runs)].status \in {"completed", "completed_with_errors"}
    /\ pc \in {"diff", "record", "clear", "save"} =>
           current = Len(runs) /\ runs[current].type = "sync"
    /\ pc \notin {"record", "clear", "save", "raised"} => missed = {}

LogInv ==
    \A e \in log :
        /\ e.sync \in 2 .. Len(runs)
        /\ pc \in {"load", "scan"} => e.sync < Len(runs)
        /\ runs[e.sync].type = "sync"
        /\ Witnessed(e.entity, e.type, e.sync)

PendingInv ==
    pc = "record" => \A a \in pending : Witnessed(a.entity, a.type, current)

\* The action that the recorder must be given for a finding that changed.
FindingAction(k) ==
    [entity |-> [kind |-> "finding", key |-> k],
     type |-> MatrixType(runs[Baseline].findings[k], runs[current].findings[k])]

DetectedInv ==
    pc \in {"record", "clear", "save"} =>
        \A k \in ScannedKeys(runs[current].linked) :
            FindingAction(k).type # "SAME" => FindingAction(k) \in actions

RecordedInv ==
    /\ pc \in {"record", "clear", "save"} =>
           \A a \in actions \ pending :
               ShouldLog(a.type) =>
                   \/ a \in missed
                   \/ [entity |-> a.entity, type |-> a.type, sync |-> current] \in log
    /\ pc \in {"clear", "save"} => pending = {}

IInv == TypeOK /\ PhaseInv /\ LogInv /\ PendingInv /\ DetectedInv /\ RecordedInv

----------------------------------------------------------------------------
\* Classification (domain/state_machine.py).

\* Every transition has a change type of its own: no pair of statuses falls
\* through the state machine.
THEOREM ClassificationTotal ==
    ASSUME NEW old \in MaybeStatus, NEW new \in MaybeStatus,
           NEW oldExcepted \in BOOLEAN, NEW newExcepted \in BOOLEAN,
           NEW scanned \in BOOLEAN
    PROVE  ClassifyFindingTransition(old, new, oldExcepted, newExcepted, scanned)
               \in ChangeTypes
  BY DEF MaybeStatus, Statuses, None, ChangeTypes, ClassifyFindingTransition,
         FindingChange, ExceptionChange, Discrepant

\* A scanned finding is classified as the transition matrix of the
\* documentation says, whatever the exception flags: diff_findings may leave
\* them out without losing or inventing a finding change.
THEOREM ClassificationFollowsMatrix ==
    ASSUME NEW old \in MaybeStatus, NEW new \in MaybeStatus,
           NEW oldExcepted \in BOOLEAN, NEW newExcepted \in BOOLEAN,
           NEW type \in FindingChangeTypes
    PROVE  ClassifyFindingTransition(old, new, oldExcepted, newExcepted, TRUE) = type
               <=> MatrixType(old, new) = type
  BY DEF MaybeStatus, Statuses, None, FindingChangeTypes, MatrixType,
         ClassifyFindingTransition, FindingChange, ExceptionChange, Discrepant

\* An instance that was not scanned never yields a change to log.
THEOREM UnscannedIsSilent ==
    ASSUME NEW old, NEW new, NEW oldExcepted, NEW newExcepted
    PROVE  ~ShouldLog(ClassifyFindingTransition(old, new, oldExcepted, newExcepted, FALSE))
  BY DEF ClassifyFindingTransition, ShouldLog

----------------------------------------------------------------------------
\* The runs table.

\* An UPDATE of one run's status keeps the table, its types and its findings;
\* the id may be one that no run has.
LEMMA StatusUpdate ==
    ASSUME TypeOK, NEW r, NEW status \in RunStatuses,
           runs' = [runs EXCEPT ![r].status = status]
    PROVE  /\ runs' \in Seq(Runs)
           /\ Len(runs') = Len(runs)
           /\ \A q \in 1 .. Len(runs) :
                /\ runs'[q].type = runs[q].type
                /\ runs'[q].linked = runs[q].linked
                /\ runs'[q].findings = runs[q].findings
                /\ q # r => runs'[q] = runs[q]
                /\ q = r => runs'[q].status = status
                /\ runs'[q].status \in {status, runs[q].status}
  <1>. runs \in Seq(Runs)
    BY DEF TypeOK
  <1>1. \A q \in 1 .. Len(runs) : runs[q] \in Runs
    OBVIOUS
  <1>2. CASE r \in 1 .. Len(runs)
    <2>1. [runs[r] EXCEPT !.status = status] \in Runs
      BY <1>1, <1>2 DEF Runs
    <2>2. runs' = [runs EXCEPT ![r] = [runs[r] EXCEPT !.status = status]]
      OBVIOUS
    <2>3. runs' \in Seq(Runs) /\ Len(runs') = Len(runs)
      BY <1>2, <2>1, <2>2
    <2>4. \A q \in 1 .. Len(runs) :
             runs'[q] = IF q = r THEN [runs[r] EXCEPT !.status = status] ELSE runs[q]
      BY <2>2
    <2>. QED
      BY <1>1, <1>2, <2>3, <2>4 DEF Runs
  <1>3. CASE r \notin 1 .. Len(runs)
    <2>1. runs' = runs
      BY <1>3
    <2>. QED
      BY <2>1, <1>3
  <1>. QED
    BY <1>2, <1>3

\* get_latest_run_id picks the last run when that one counts.
LEMMA LatestIsLast ==
    ASSUME NEW n \in Nat, NEW ids \in SUBSET (1 .. n), n \in ids
    PROVE  LatestAmong(ids) = n
  <1>1. \A q \in ids : q <= n
    OBVIOUS
  <1>2. \A r \in ids : (\A q \in ids : q <= r) => r = n
    OBVIOUS
  <1>. QED
    BY <1>1, <1>2 DEF LatestAmong

----------------------------------------------------------------------------
\* The evidence of the log is left alone.

\* The runs that the log may name keep their type, links and findings.
EvidenceKept ==
    /\ Len(runs) <= Len(runs')
    /\ \A q \in 1 .. Len(runs) :
         (pc \in {"load", "scan"} => q < Len(runs)) =>
            /\ runs'[q].type = runs[q].type
            /\ runs'[q].linked = runs[q].linked
            /\ runs'[q].findings = runs[q].findings

\* What the log claims stays true when its evidence is left alone, provided
\* that a scan is never entered on a run that the log already names.
LEMMA LogKept ==
    ASSUME TypeOK, LogInv, EvidenceKept, runs' \in Seq(Runs), log' = log,
           pc' \in {"load", "scan"} =>
               pc \in {"load", "scan"} \/ Len(runs) < Len(runs')
    PROVE  LogInv'
  <1>. SUFFICES ASSUME NEW e \in log
                PROVE  /\ e.sync \in 2 .. Len(runs')
                       /\ pc' \in {"load", "scan"} => e.sync < Len(runs')
                       /\ runs'[e.sync].type = "sync"
                       /\ Witnessed(e.entity, e.type, e.sync)'
    BY DEF LogInv
  <1>1. Len(runs) \in Nat /\ Len(runs') \in Nat
    BY DEF TypeOK
  <1>2. /\ e.sync \in 2 .. Len(runs)
        /\ pc \in {"load", "scan"} => e.sync < Len(runs)
        /\ runs[e.sync].type = "sync"
        /\ Witnessed(e.entity, e.type, e.sync)
    BY DEF LogInv
  <1>3. Baseline \in 1 .. Len(runs) /\ (pc \in {"load", "scan"} => Baseline < Len(runs))
    BY <1>1, <1>2 DEF Baseline
  <1>4. /\ runs'[e.sync].type = runs[e.sync].type
        /\ runs'[e.sync].linked = runs[e.sync].linked
        /\ runs'[e.sync].findings = runs[e.sync].findings
    BY <1>1, <1>2 DEF EvidenceKept
  <1>5. runs'[Baseline].findings = runs[Baseline].findings
    BY <1>3 DEF EvidenceKept
  <1>6. Witnessed(e.entity, e.type, e.sync)'
    BY <1>2, <1>4, <1>5 DEF Witnessed, ScannedKeys
  <1>. QED
    BY <1>1, <1>2, <1>4, <1>6 DEF EvidenceKept

\* fail_audit_run, by either handler, and finalize only touch a status.
LEMMA StatusStep ==
    ASSUME TypeOK, NEW r, NEW status \in RunStatuses,
           runs' = [runs EXCEPT ![r].status = status] \/ runs' = runs
    PROVE  /\ runs' \in Seq(Runs)
           /\ Len(runs') = Len(runs)
           /\ EvidenceKept
  <1>1. runs \in Seq(Runs) /\ Len(runs) \in Nat
    BY DEF TypeOK
  <1>2. CASE runs' = runs
    BY <1>1, <1>2 DEF EvidenceKept
  <1>3. CASE runs' = [runs EXCEPT ![r].status = status]
    <2>1. /\ runs' \in Seq(Runs)
          /\ Len(runs') = Len(runs)
          /\ \A q \in 1 .. Len(runs) :
                /\ runs'[q].type = runs[q].type
                /\ runs'[q].linked = runs[q].linked
                /\ runs'[q].findings = runs[q].findings
      BY <1>1, <1>3, StatusUpdate
    <2>. QED
      BY <1>1, <2>1 DEF EvidenceKept
  <1>. QED
    BY <1>2, <1>3

\* The end of a command leaves nothing of its session behind.
LEMMA EndCommandInv ==
    ASSUME TypeOK, LogInv, EndCommand, runs' \in Seq(Runs), log' = log,
           book' \in BOOLEAN, EvidenceKept
    PROVE  IInv'
  <1>1. TypeOK'
    BY DEF TypeOK, EndCommand, Phases
  <1>2. PhaseInv' /\ PendingInv' /\ DetectedInv' /\ RecordedInv'
    BY DEF EndCommand, PhaseInv, PendingInv, DetectedInv, RecordedInv
  <1>3. LogInv'
    BY LogKept DEF EndCommand
  <1>. QED
    BY <1>1, <1>2, <1>3 DEF IInv

----------------------------------------------------------------------------
\* One lemma per group of actions: each preserves the inductive invariant.

LEMMA InitIInv == Init => IInv
  <1>. SUFFICES ASSUME Init PROVE IInv
    OBVIOUS
  <1>1. TypeOK
    <2>1. runs \in Seq(Runs)
      BY DEF Init
    <2>. QED
      BY <2>1 DEF Init, TypeOK, Phases
  <1>2. PhaseInv /\ LogInv /\ PendingInv /\ DetectedInv /\ RecordedInv
    BY DEF Init, PhaseInv, LogInv, PendingInv, DetectedInv, RecordedInv
  <1>. QED
    BY <1>1, <1>2 DEF IInv

\* Steps that write no table.
LEMMA SessionSteps ==
    ASSUME IInv, \/ StartAudit \/ StartSync \/ LoadTargets
                 \/ \E i \in Instances : TargetUnreachable(i)
                 \/ RecordActionsDone \/ ClearFixedExceptions \/ SyncRaises
                 \/ \E a \in Actions : RecordActionFails(a)
    PROVE  IInv'
  <1>. USE DEF IInv
  <1>0. UNCHANGED tables
    BY DEF StartAudit, StartSync, LoadTargets, TargetUnreachable, RecordActionsDone,
           ClearFixedExceptions, SyncRaises, RecordActionFails
  <1>1. TypeOK'
    BY <1>0 DEF tables, TypeOK, Phases, StartAudit, StartSync, LoadTargets, TargetUnreachable,
           RecordActionsDone, ClearFixedExceptions, SyncRaises, RecordActionFails
  <1>2. EvidenceKept
    BY <1>0 DEF TypeOK, tables, EvidenceKept
  <1>3. LogInv'
    <2>1. pc' \in {"load", "scan"} => pc \in {"load", "scan"}
      BY DEF StartAudit, StartSync, LoadTargets, TargetUnreachable, RecordActionsDone,
             ClearFixedExceptions, SyncRaises, RecordActionFails
    <2>. QED
      BY <1>0, <1>2, <2>1, LogKept DEF tables, TypeOK
  <1>4. PhaseInv'
    <2>1. Len(runs) \in Nat /\ (BaselineExists => Len(runs) >= 1)
      BY DEF TypeOK, BaselineExists
    <2>. QED
      BY <1>0, <2>1 DEF tables, PhaseInv, StartAudit, StartSync, LoadTargets,
             TargetUnreachable, RecordActionsDone, ClearFixedExceptions, SyncRaises,
             RecordActionFails
  <1>5. PendingInv'
    BY <1>0 DEF tables, PendingInv, Witnessed, ScannedKeys, StartAudit, StartSync,
           LoadTargets, TargetUnreachable, RecordActionsDone, ClearFixedExceptions,
           SyncRaises, RecordActionFails
  <1>6. DetectedInv'
    BY <1>0 DEF tables, DetectedInv, FindingAction, ScannedKeys, StartAudit, StartSync,
           LoadTargets, TargetUnreachable, RecordActionsDone, ClearFixedExceptions,
           SyncRaises, RecordActionFails
  <1>7. RecordedInv'
    BY <1>0 DEF tables, RecordedInv, StartAudit, StartSync, LoadTargets,
           TargetUnreachable, RecordActionsDone, ClearFixedExceptions, SyncRaises,
           RecordActionFails
  <1>. QED
    BY <1>1, <1>3, <1>4, <1>5, <1>6, <1>7

\* Steps that end the command, or hand an exception to the sync's handler.
LEMMA EndingSteps ==
    ASSUME IInv, \/ LoadTargetsFails \/ SaveAuditReport \/ SaveSyncReport
                 \/ RunAuditRaises \/ HandleAuditException
                 \/ HandleSyncException \/ Kill
    PROVE  IInv'
  <1>. USE DEF IInv
  <1>0. PICK r : \/ runs' = runs
                 \/ runs' = [runs EXCEPT ![r].status = "failed"]
    BY DEF LoadTargetsFails, SaveAuditReport, SaveSyncReport, RunAuditRaises,
           HandleAuditException, HandleSyncException, Kill, FailRun, tables
  <1>1. log' = log /\ book' \in BOOLEAN
    BY DEF TypeOK, LoadTargetsFails, SaveAuditReport, SaveSyncReport, RunAuditRaises,
           HandleAuditException, HandleSyncException, Kill, tables
  <1>2. runs' \in Seq(Runs) /\ Len(runs') = Len(runs) /\ EvidenceKept
    BY <1>0, StatusStep DEF RunStatuses
  <1>3. CASE EndCommand
    BY <1>1, <1>2, <1>3, EndCommandInv
  <1>4. CASE /\ pc' = "auditRaised"
             /\ UNCHANGED <<cmd, targets, errors, hasRows, current, actions, pending, missed>>
             /\ pc \in {"begin", "load", "scan", "report"}
    <2>1. TypeOK'
      BY <1>1, <1>2, <1>4 DEF TypeOK, Phases
    <2>2. LogInv'
      BY <1>1, <1>2, <1>4, LogKept
    <2>3. PhaseInv' /\ PendingInv' /\ DetectedInv' /\ RecordedInv'
      BY <1>2, <1>4 DEF PhaseInv, PendingInv, DetectedInv, RecordedInv
    <2>. QED
      BY <2>1, <2>2, <2>3
  <1>. QED
    BY <1>3, <1>4 DEF LoadTargetsFails, SaveAuditReport, SaveSyncReport, RunAuditRaises,
           HandleAuditException, HandleSyncException, Kill, RaiseFromAudit

\* Steps that write a table outside the change detection.
LEMMA BeginStep == IInv /\ BeginAuditRun => IInv'
  <1>. SUFFICES ASSUME IInv, BeginAuditRun PROVE IInv'
    OBVIOUS
  <1>. USE DEF IInv
  <1>1. NewRun \in Runs
    BY DEF NewRun, Runs, RunStatuses
  <1>2. runs \in Seq(Runs) /\ Len(runs) \in Nat /\ runs' = Append(runs, NewRun)
    BY DEF TypeOK, BeginAuditRun
  <1>3. /\ runs' \in Seq(Runs)
        /\ Len(runs') = Len(runs) + 1
        /\ \A q \in 1 .. Len(runs) : runs'[q] = runs[q]
    BY <1>1, <1>2
  <1>4. TypeOK'
    BY <1>3 DEF TypeOK, Phases, BeginAuditRun
  <1>5. EvidenceKept
    BY <1>2, <1>3 DEF EvidenceKept
  <1>6. LogInv'
    BY <1>2, <1>3, <1>5, LogKept DEF BeginAuditRun
  <1>7. PhaseInv'
    BY <1>2, <1>3 DEF PhaseInv, BeginAuditRun
  <1>8. PendingInv' /\ DetectedInv' /\ RecordedInv'
    BY DEF PendingInv, DetectedInv, RecordedInv, BeginAuditRun
  <1>. QED
    BY <1>4, <1>6, <1>7, <1>8

LEMMA ScanStep ==
    ASSUME IInv, NEW i \in Instances, ProcessTarget(i)
    PROVE  IInv' /\ \A q \in 1 .. Len(runs) : q < Len(runs) => runs'[q] = runs[q]
  <1>. USE DEF IInv
  <1>. DEFINE n == Len(runs)
  <1>1. runs \in Seq(Runs) /\ n \in Nat /\ n >= 1 /\ pc = "scan"
    BY DEF TypeOK, PhaseInv, ProcessTarget
  <1>2. PICK found \in [KeysOf(i) -> Outcomes] :
          runs' = [runs EXCEPT
              ![n].linked = @ \cup {i},
              ![n].findings = [k \in Keys |-> IF k \in KeysOf(i) THEN found[k] ELSE @[k]]]
    BY DEF ProcessTarget
  <1>. DEFINE row == [runs[n] EXCEPT
                        !.linked = @ \cup {i},
                        !.findings = [k \in Keys |-> IF k \in KeysOf(i) THEN found[k]
                                                     ELSE @[k]]]
  <1>3. row \in Runs
    <2>1. runs[n] \in Runs
      BY <1>1
    <2>2. [k \in Keys |-> IF k \in KeysOf(i) THEN found[k] ELSE runs[n].findings[k]]
             \in [Keys -> Statuses \cup {None}]
      BY <2>1, ConstantsAssumption DEF Runs
    <2>3. runs[n].linked \cup {i} \in SUBSET Instances
      BY <2>1 DEF Runs
    <2>. QED
      BY <2>1, <2>2, <2>3 DEF Runs
  <1>4. runs' = [runs EXCEPT ![n] = row]
    BY <1>1, <1>2
  <1>. HIDE DEF row
  <1>5. /\ runs' \in Seq(Runs)
        /\ Len(runs') = n
        /\ \A q \in 1 .. n : q < n => runs'[q] = runs[q]
    BY <1>1, <1>3, <1>4
  <1>6. TypeOK'
    BY <1>5 DEF TypeOK, Phases, ProcessTarget
  <1>7. EvidenceKept
    BY <1>1, <1>5 DEF EvidenceKept
  <1>8. LogInv'
    BY <1>5, <1>7, LogKept DEF ProcessTarget
  <1>9. PhaseInv'
    BY <1>1, <1>5 DEF PhaseInv, ProcessTarget
  <1>10. PendingInv' /\ DetectedInv' /\ RecordedInv'
    BY DEF PendingInv, DetectedInv, RecordedInv, ProcessTarget
  <1>. QED
    BY <1>5, <1>6, <1>8, <1>9, <1>10

LEMMA CompleteStep == IInv /\ CompleteAuditRun => IInv'
  <1>. SUFFICES ASSUME IInv, CompleteAuditRun PROVE IInv'
    OBVIOUS
  <1>. USE DEF IInv
  <1>1. runs \in Seq(Runs) /\ Len(runs) \in Nat /\ Len(runs) >= 1
    BY DEF TypeOK, PhaseInv, CompleteAuditRun
  <1>2. PICK status \in {"completed", "completed_with_errors"} :
          runs' = [runs EXCEPT ![Len(runs)].status = status]
    BY DEF CompleteAuditRun
  <1>3. /\ runs' \in Seq(Runs) /\ Len(runs') = Len(runs)
        /\ runs'[Len(runs)].status = status
    <2>1. runs' \in Seq(Runs) /\ Len(runs') = Len(runs)
      BY <1>2, StatusStep DEF RunStatuses
    <2>2. runs[Len(runs)] \in Runs
      BY <1>1
    <2>3. runs'[Len(runs)] = [runs[Len(runs)] EXCEPT !.status = status]
      BY <1>1, <1>2
    <2>. QED
      BY <2>1, <2>2, <2>3 DEF Runs
  <1>4. EvidenceKept
    BY <1>2, StatusStep DEF RunStatuses
  <1>5. TypeOK'
    BY <1>3 DEF TypeOK, Phases, CompleteAuditRun
  <1>6. LogInv'
    BY <1>3, <1>4, LogKept DEF CompleteAuditRun
  <1>7. PhaseInv'
    BY <1>1, <1>3 DEF PhaseInv, CompleteAuditRun
  <1>8. PendingInv' /\ DetectedInv' /\ RecordedInv'
    BY DEF PendingInv, DetectedInv, RecordedInv, CompleteAuditRun
  <1>. QED
    BY <1>5, <1>6, <1>7, <1>8

\* The run that sync adopts is its own: the scan has just completed the last
\* run, so no older one is the latest valid one.
LEMMA AdoptedIsLast ==
    ASSUME IInv, pc = "adopt"
    PROVE  LatestValidRun = Len(runs) /\ Len(runs) \in Nat /\ Len(runs) >= 2
  <1>. DEFINE ids == { r \in DOMAIN runs : runs[r].status # "failed" }
  <1>1. runs \in Seq(Runs) /\ Len(runs) \in Nat /\ DOMAIN runs = 1 .. Len(runs)
    BY DEF IInv, TypeOK
  <1>2. Len(runs) >= 2 /\ runs[Len(runs)].status # "failed"
    BY DEF IInv, PhaseInv
  <1>3. ids \in SUBSET (1 .. Len(runs)) /\ Len(runs) \in ids
    BY <1>1, <1>2
  <1>4. LatestAmong(ids) = Len(runs)
    BY <1>1, <1>3, LatestIsLast
  <1>. QED
    BY <1>1, <1>2, <1>4 DEF LatestValidRun

LEMMA AdoptStep ==
    ASSUME IInv, AdoptRun
    PROVE  IInv' /\ runs'[Baseline] = runs[Baseline]
  <1>. USE DEF IInv
  <1>. DEFINE n == Len(runs)
  <1>1. LatestValidRun = n /\ n \in Nat /\ n >= 2 /\ runs \in Seq(Runs)
    BY AdoptedIsLast DEF TypeOK, AdoptRun
  <1>. DEFINE row == [runs[n] EXCEPT !.type = "sync"]
  <1>2. runs[n] \in Runs
    BY <1>1
  <1>3. /\ row \in Runs /\ row.type = "sync"
        /\ row.linked = runs[n].linked /\ row.findings = runs[n].findings
    BY <1>2 DEF Runs
  <1>4. runs' = [runs EXCEPT ![n] = row] /\ current' = n
    BY <1>1 DEF AdoptRun, Baseline
  <1>. HIDE DEF row
  <1>5. /\ runs' \in Seq(Runs) /\ Len(runs') = n
        /\ \A q \in 1 .. n : q # n => runs'[q] = runs[q]
        /\ runs'[n] = row
    BY <1>1, <1>3, <1>4
  <1>6. TypeOK'
    BY <1>1, <1>4, <1>5 DEF TypeOK, Phases, AdoptRun
  <1>7. PhaseInv'
    BY <1>1, <1>3, <1>4, <1>5 DEF PhaseInv, AdoptRun
  <1>8. LogInv'
    <2>. SUFFICES ASSUME NEW e \in log
                  PROVE  /\ e.sync \in 2 .. n
                         /\ runs'[e.sync].type = "sync"
                         /\ Witnessed(e.entity, e.type, e.sync)'
      BY <1>5 DEF LogInv, AdoptRun
    <2>1. /\ e.sync \in 2 .. n /\ runs[e.sync].type = "sync"
          /\ Witnessed(e.entity, e.type, e.sync)
      BY DEF LogInv
    <2>2. \A q \in 1 .. n : /\ runs'[q].linked = runs[q].linked
                            /\ runs'[q].findings = runs[q].findings
                            /\ runs[q].type = "sync" => runs'[q].type = "sync"
      BY <1>3, <1>5
    <2>3. e.sync \in 1 .. n /\ Baseline \in 1 .. n
      BY <1>1, <2>1 DEF Baseline
    <2>. QED
      BY <2>1, <2>2, <2>3 DEF Witnessed, ScannedKeys
  <1>9. PendingInv' /\ DetectedInv' /\ RecordedInv'
    BY DEF PendingInv, DetectedInv, RecordedInv, AdoptRun
  <1>. QED
    BY <1>1, <1>5, <1>6, <1>7, <1>8, <1>9 DEF Baseline

LEMMA FinalizeStep ==
    ASSUME IInv, NEW r \in DOMAIN runs, Finalize(r)
    PROVE  IInv'
  <1>. USE DEF IInv
  <1>1. runs' \in Seq(Runs) /\ Len(runs') = Len(runs) /\ EvidenceKept
    BY StatusStep DEF Finalize, RunStatuses
  <1>2. TypeOK'
    BY <1>1 DEF TypeOK, Finalize, session
  <1>3. LogInv'
    BY <1>1, LogKept DEF Finalize, session
  <1>4. PhaseInv' /\ PendingInv' /\ DetectedInv' /\ RecordedInv'
    BY DEF PhaseInv, PendingInv, DetectedInv, RecordedInv, Finalize, session
  <1>. QED
    BY <1>2, <1>3, <1>4

----------------------------------------------------------------------------
\* Detection (diff/findings_diff.py, actions/action_detector.py).

ExceptionChangeTypes == {"EXCEPTION_ADDED", "EXCEPTION_UPDATED", "EXCEPTION_REMOVED"}

\* A detected action that is no exception change is the matrix entry of its
\* finding, and is a fix only when the finding's instance was scanned.
LEMMA DetectedFinding ==
    ASSUME NEW old \in [Keys -> MaybeStatus], NEW new \in [Keys -> MaybeStatus],
           NEW scanned, NEW exceptions,
           NEW a \in DetectAllActions(DiffFindings(Keys, old, new, scanned), exceptions),
           a \notin exceptions
    PROVE  \E k \in Keys : /\ a = [entity |-> [kind |-> "finding", key |-> k],
                                   type |-> MatrixType(old[k], new[k])]
                           /\ a.type \in FindingChangeTypes
                           /\ a.type = "FIXED" => k \in scanned
  <1>. DEFINE class(k) == ClassifyFindingTransition(old[k], new[k], FALSE, FALSE,
                                                    k \in scanned \/ old[k] = None)
  <1>1. PICK c \in DiffFindings(Keys, old, new, scanned) :
          /\ c.type \in FindingChangeTypes
          /\ a = [entity |-> [kind |-> "finding", key |-> c.key], type |-> c.type]
    BY DEF DetectAllActions
  <1>2. PICK k \in Keys : c = [key |-> k, type |-> class(k)]
    BY DEF DiffFindings
  <1>3. old[k] \in MaybeStatus /\ new[k] \in MaybeStatus /\ class(k) \in FindingChangeTypes
    BY <1>1, <1>2
  <1>4. (k \in scanned \/ old[k] = None) /\ class(k) = MatrixType(old[k], new[k])
    BY <1>3 DEF MaybeStatus, Statuses, None, FindingChangeTypes, MatrixType,
         ClassifyFindingTransition, FindingChange, ExceptionChange, Discrepant
  <1>5. class(k) = "FIXED" => old[k] # None
    BY <1>3, <1>4 DEF MatrixType, Discrepant, None
  <1>. QED
    BY <1>1, <1>2, <1>3, <1>4, <1>5

\* Consolidation never drops the change of a scanned finding: no exception
\* change of the same finding outranks it.
LEMMA FindingChangeSurvives ==
    ASSUME NEW old \in [Keys -> MaybeStatus], NEW new \in [Keys -> MaybeStatus],
           NEW scanned, NEW exceptions,
           \A a \in exceptions : a.type \in ExceptionChangeTypes,
           NEW k \in Keys, k \in scanned, MatrixType(old[k], new[k]) # "SAME"
    PROVE  [entity |-> [kind |-> "finding", key |-> k], type |-> MatrixType(old[k], new[k])]
             \in ConsolidateActions(
                     DetectAllActions(DiffFindings(Keys, old, new, scanned), exceptions))
  <1>. DEFINE mine == [entity |-> [kind |-> "finding", key |-> k],
                       type |-> MatrixType(old[k], new[k])]
              detected == DetectAllActions(DiffFindings(Keys, old, new, scanned), exceptions)
              class(q) == ClassifyFindingTransition(old[q], new[q], FALSE, FALSE,
                                                    q \in scanned \/ old[q] = None)
  <1>1. mine.type \in FindingChangeTypes
    BY DEF MatrixType, FindingChangeTypes
  <1>2. class(k) = mine.type
    <2>1. old[k] \in MaybeStatus /\ new[k] \in MaybeStatus
      OBVIOUS
    <2>. QED
      BY <2>1 DEF MaybeStatus, Statuses, None, MatrixType, ClassifyFindingTransition,
         FindingChange, ExceptionChange, Discrepant
  <1>3. mine \in detected
    <2>1. [key |-> k, type |-> class(k)] \in DiffFindings(Keys, old, new, scanned)
      BY DEF DiffFindings
    <2>2. PICK c \in DiffFindings(Keys, old, new, scanned) :
            c.key = k /\ c.type = mine.type
      BY <1>2, <2>1
    <2>3. mine = [entity |-> [kind |-> "finding", key |-> c.key], type |-> c.type]
      BY <2>2
    <2>. QED
      BY <1>1, <2>2, <2>3 DEF DetectAllActions
  <1>4. ASSUME NEW b \in detected, b.entity = mine.entity
        PROVE  Priority(mine.type) <= Priority(b.type)
    <2>1. CASE b \in exceptions
      BY <1>1, <2>1 DEF Priority, FindingChangeTypes, ExceptionChangeTypes
    <2>2. CASE b \notin exceptions
      <3>1. PICK q \in Keys : b = [entity |-> [kind |-> "finding", key |-> q],
                                   type |-> MatrixType(old[q], new[q])]
        BY <2>2, DetectedFinding
      <3>2. q = k
        BY <1>4, <3>1
      <3>. QED
        BY <1>1, <3>1, <3>2 DEF Priority, FindingChangeTypes
    <2>. QED
      BY <2>1, <2>2
  <1>. QED
    BY <1>3, <1>4 DEF ConsolidateActions

LEMMA DetectStep == IInv /\ DetectChanges => IInv'
  <1>. SUFFICES ASSUME IInv, DetectChanges PROVE IInv'
    OBVIOUS
  <1>. USE DEF IInv
  <1>. DEFINE old == runs[Baseline].findings
              new == runs[current].findings
              scanned == ScannedKeys(runs[current].linked)
  <1>1. PICK change \in [Keys -> {"NO_CHANGE"} \cup ExceptionChangeTypes] :
          /\ \A k \in Keys : PossibleException(change[k], new[k])
          /\ actions' = ConsolidateActions(DetectAllActions(
                            DiffFindings(Keys, old, new, scanned), ExceptionActions(change)))
    BY DEF DetectChanges, ExceptionChangeTypes
  <1>. DEFINE exceptions == ExceptionActions(change)
              detected == DetectAllActions(DiffFindings(Keys, old, new, scanned), exceptions)
  <1>2. /\ pc = "diff" /\ pc' = "record" /\ pending' = actions' /\ UNCHANGED tables
        /\ UNCHANGED <<cmd, targets, errors, hasRows, current, missed>>
    BY DEF DetectChanges
  <1>3. /\ runs \in Seq(Runs) /\ current = Len(runs) /\ Len(runs) \in Nat /\ Len(runs) >= 2
        /\ runs[current].type = "sync" /\ cmd = "sync"
    BY <1>2 DEF TypeOK, PhaseInv
  <1>4. old \in [Keys -> MaybeStatus] /\ new \in [Keys -> MaybeStatus]
    <2>1. runs[Baseline] \in Runs /\ runs[current] \in Runs
      BY <1>3 DEF Baseline
    <2>. QED
      BY <2>1 DEF Runs, MaybeStatus
  <1>5. ASSUME NEW a \in exceptions
        PROVE  \E k \in Keys : /\ a.entity \in Entities /\ a.entity.key = k
                               /\ a.type \in ExceptionChangeTypes
                               /\ a = [entity |-> a.entity, type |-> a.type]
                               /\ new[k] # "PASS"
    BY <1>1, <1>5 DEF ExceptionActions, Entities, ExceptionChangeTypes, PossibleException
  <1>6. ASSUME NEW a \in detected
        PROVE  a \in Actions /\ Witnessed(a.entity, a.type, current)
    <2>1. CASE a \in exceptions
      <3>1. PICK k \in Keys : /\ a.entity \in Entities /\ a.entity.key = k
                              /\ a.type \in ExceptionChangeTypes
                              /\ a = [entity |-> a.entity, type |-> a.type]
                              /\ new[k] # "PASS"
        BY <1>5, <2>1
      <3>2. a \in Actions
        BY <3>1 DEF Actions, ExceptionChangeTypes, ChangeTypes
      <3>. QED
        BY <3>1, <3>2 DEF Witnessed, ExceptionChangeTypes
    <2>2. CASE a \notin exceptions
      <3>1. PICK k \in Keys : /\ a = [entity |-> [kind |-> "finding", key |-> k],
                                      type |-> MatrixType(old[k], new[k])]
                              /\ a.type \in FindingChangeTypes
                              /\ a.type = "FIXED" => k \in scanned
        BY <1>4, <1>6, <2>2, DetectedFinding
      <3>2. a \in Actions
        BY <3>1 DEF Actions, Entities, FindingChangeTypes, ChangeTypes
      <3>. QED
        BY <3>1, <3>2 DEF Witnessed, MatrixType, FindingChangeTypes
    <2>. QED
      BY <2>1, <2>2
  <1>. HIDE DEF exceptions, detected
  <1>7. actions' \subseteq detected
    BY <1>1 DEF ConsolidateActions, detected, exceptions
  <1>8. TypeOK'
    <2>1. missed \subseteq actions'
      BY <1>2 DEF PhaseInv
    <2>. QED
      BY <1>2, <1>6, <1>7, <2>1 DEF TypeOK, Phases, tables
  <1>9. PhaseInv' /\ RecordedInv'
    BY <1>2, <1>3 DEF PhaseInv, RecordedInv, tables
  <1>10. LogInv'
    BY <1>2, <1>3, LogKept DEF EvidenceKept, tables
  <1>11. PendingInv'
    <2>1. \A a \in pending' : Witnessed(a.entity, a.type, current)
      BY <1>2, <1>6, <1>7
    <2>. QED
      BY <1>2, <2>1 DEF PendingInv, Witnessed, ScannedKeys, tables
  <1>12. DetectedInv'
    <2>1. ASSUME NEW k \in scanned, FindingAction(k).type # "SAME"
          PROVE  FindingAction(k) \in actions'
      <3>1. k \in Keys
        BY <2>1 DEF ScannedKeys
      <3>2. \A a \in exceptions : a.type \in ExceptionChangeTypes
        BY <1>5
      <3>3. FindingAction(k) = [entity |-> [kind |-> "finding", key |-> k],
                                type |-> MatrixType(old[k], new[k])]
        BY DEF FindingAction
      <3>. QED
        BY <1>1, <1>4, <2>1, <3>1, <3>2, <3>3, FindingChangeSurvives DEF exceptions
    <2>. QED
      BY <1>2, <2>1 DEF DetectedInv, FindingAction, ScannedKeys, tables
  <1>. QED
    BY <1>8, <1>9, <1>10, <1>11, <1>12

----------------------------------------------------------------------------
\* Recording (actions/action_recorder.py, store.upsert_action).

LEMMA RecordStep ==
    ASSUME IInv, NEW a \in Actions, RecordAction(a)
    PROVE  IInv'
  <1>. USE DEF IInv
  <1>. DEFINE row == [entity |-> a.entity, type |-> a.type, sync |-> current]
  <1>1. /\ pc = "record" /\ a \in pending /\ pending' = pending \ {a}
        /\ UNCHANGED <<runs, book, pc, cmd, targets, errors, hasRows, current, actions, missed>>
    BY DEF RecordAction
  <1>2. /\ runs \in Seq(Runs) /\ Len(runs) \in Nat /\ Len(runs) >= 2
        /\ current = Len(runs) /\ runs[current].type = "sync"
    BY <1>1 DEF TypeOK, PhaseInv
  <1>3. \/ log' = { e \in log : ~(e.entity = a.entity /\ e.type = a.type) } \cup {row}
        \/ log' = log
    BY DEF RecordAction, UpsertAction
  <1>4. row \in [entity : Entities, type : ChangeTypes, sync : Nat]
    BY <1>2 DEF Actions
  <1>5. TypeOK'
    BY <1>1, <1>3, <1>4 DEF TypeOK
  <1>6. PhaseInv'
    BY <1>1 DEF PhaseInv
  <1>7. LogInv'
    <2>. SUFFICES ASSUME NEW e \in log'
                  PROVE  /\ e.sync \in 2 .. Len(runs)
                         /\ runs[e.sync].type = "sync"
                         /\ Witnessed(e.entity, e.type, e.sync)
      BY <1>1 DEF LogInv, Witnessed, ScannedKeys
    <2>1. CASE e \in log
      BY <2>1 DEF LogInv
    <2>2. CASE e = row
      <3>1. Witnessed(a.entity, a.type, current)
        BY <1>1 DEF PendingInv
      <3>. QED
        BY <1>2, <2>2, <3>1
    <2>. QED
      BY <1>3, <2>1, <2>2
  <1>8. PendingInv'
    BY <1>1 DEF PendingInv, Witnessed, ScannedKeys
  <1>9. DetectedInv'
    BY <1>1 DEF DetectedInv, FindingAction, ScannedKeys
  <1>10. RecordedInv'
    <2>. DEFINE rowOf(b) == [entity |-> b.entity, type |-> b.type, sync |-> current]
    <2>. SUFFICES ASSUME NEW b \in actions, b \notin pending', ShouldLog(b.type), b \notin missed
                  PROVE  rowOf(b) \in log'
      BY <1>1 DEF RecordedInv
    <2>1. CASE b = a
      <3>1. CASE ShouldRecordAction(a)
        BY <2>1, <3>1 DEF RecordAction, UpsertAction
      <3>2. CASE ~ShouldRecordAction(a)
        <4>1. PICK e \in log : e.entity = a.entity /\ e.type = a.type /\ e.sync = current
          BY <3>2 DEF ShouldRecordAction
        <4>2. e = rowOf(a)
          BY <4>1 DEF TypeOK
        <4>. QED
          BY <2>1, <3>2, <4>2 DEF RecordAction
      <3>. QED
        BY <3>1, <3>2
    <2>2. CASE b # a
      <3>1. rowOf(b) \in log
        BY <1>1, <2>2 DEF RecordedInv
      <3>2. CASE b.entity = a.entity /\ b.type = a.type
        BY <1>3, <3>1, <3>2
      <3>3. CASE ~(b.entity = a.entity /\ b.type = a.type)
        BY <1>3, <3>1, <3>3
      <3>. QED
        BY <3>2, <3>3
    <2>. QED
      BY <2>1, <2>2
  <1>. QED
    BY <1>5, <1>6, <1>7, <1>8, <1>9, <1>10

----------------------------------------------------------------------------
\* The theorems.

LEMMA StepIInv == IInv /\ [Next]_vars => IInv'
  <1>. SUFFICES ASSUME IInv, [Next]_vars PROVE IInv'
    OBVIOUS
  <1>1. CASE \/ StartAudit \/ StartSync \/ LoadTargets
             \/ \E i \in Instances : TargetUnreachable(i)
             \/ RecordActionsDone \/ ClearFixedExceptions \/ SyncRaises
             \/ \E a \in Actions : RecordActionFails(a)
    BY <1>1, SessionSteps
  <1>2. CASE \/ LoadTargetsFails \/ SaveAuditReport \/ SaveSyncReport
             \/ RunAuditRaises \/ HandleAuditException
             \/ HandleSyncException \/ Kill
    BY <1>2, EndingSteps
  <1>3. CASE BeginAuditRun
    BY <1>3, BeginStep
  <1>4. CASE \E i \in Instances : ProcessTarget(i)
    BY <1>4, ScanStep
  <1>5. CASE CompleteAuditRun
    BY <1>5, CompleteStep
  <1>6. CASE AdoptRun
    BY <1>6, AdoptStep
  <1>7. CASE DetectChanges
    BY <1>7, DetectStep
  <1>8. CASE \E a \in Actions : RecordAction(a)
    BY <1>8, RecordStep
  <1>9. CASE \E r \in DOMAIN runs : Finalize(r)
    BY <1>9, FinalizeStep
  <1>10. CASE UNCHANGED vars
    <2>1. /\ UNCHANGED <<runs, log, book, pc, cmd, targets, errors, hasRows, current>>
          /\ UNCHANGED <<actions, pending, missed>>
      BY <1>10 DEF vars, tables, session
    <2>2. TypeOK'
      BY <2>1 DEF IInv, TypeOK
    <2>3. PhaseInv' /\ RecordedInv'
      BY <2>1 DEF IInv, PhaseInv, RecordedInv
    <2>4. LogInv' /\ PendingInv'
      BY <2>1 DEF IInv, LogInv, PendingInv, Witnessed, ScannedKeys
    <2>5. DetectedInv'
      BY <2>1 DEF IInv, DetectedInv, FindingAction, ScannedKeys
    <2>. QED
      BY <2>2, <2>3, <2>4, <2>5 DEF IInv
  <1>. QED
    BY <1>1, <1>2, <1>3, <1>4, <1>5, <1>6, <1>7, <1>8, <1>9, <1>10
       DEF Next, Progress, RunAudit, SyncPhases

\* The invariant that carries every safety result below.
THEOREM Invariance == Spec => []IInv
  BY InitIInv, StepIInv, PTL DEF Spec

\* Type correctness of the tables and of the running command.
THEOREM TypeCorrect == Spec => []TypeOK
  <1>1. IInv => TypeOK
    BY DEF IInv
  <1>. QED
    BY <1>1, Invariance, PTL

\* Whatever audits, syncs, crashes and finalizations follow, every row of the
\* action log is justified by the findings that the database still holds.
THEOREM LogSound == Spec => []ActionsWitnessed
  <1>1. IInv => ActionsWitnessed
    <2>. SUFFICES ASSUME IInv, NEW e \in log
                  PROVE  /\ e.sync \in DOMAIN runs /\ e.sync # Baseline
                         /\ runs[e.sync].type = "sync"
                         /\ Witnessed(e.entity, e.type, e.sync)
      BY DEF ActionsWitnessed
    <2>1. runs \in Seq(Runs) /\ Len(runs) \in Nat
      BY DEF IInv, TypeOK
    <2>2. e.sync \in 2 .. Len(runs) /\ runs[e.sync].type = "sync"
          /\ Witnessed(e.entity, e.type, e.sync)
      BY DEF IInv, LogInv
    <2>. QED
      BY <2>1, <2>2 DEF Baseline
  <1>. QED
    BY <1>1, Invariance, PTL

\* No change of a scanned finding goes unrecorded unless its write raised.
THEOREM LogComplete == Spec => []ChangesLogged
  <1>1. IInv => ChangesLogged
    <2>. SUFFICES ASSUME IInv, pc \in {"clear", "save"},
                         NEW k \in ScannedKeys(runs[current].linked),
                         FindingAction(k).type # "SAME"
                  PROVE  \/ \E e \in log : /\ e.entity = FindingAction(k).entity
                                           /\ e.type = FindingAction(k).type
                                           /\ e.sync = current
                         \/ \E a \in missed : /\ a.entity = FindingAction(k).entity
                                              /\ a.type = FindingAction(k).type
      BY DEF ChangesLogged, FindingAction
    <2>1. FindingAction(k) \in actions /\ pending = {}
      BY DEF IInv, DetectedInv, RecordedInv
    <2>2. ShouldLog(FindingAction(k).type)
      BY DEF FindingAction, MatrixType, ShouldLog
    <2>3. \/ FindingAction(k) \in missed
          \/ [entity |-> FindingAction(k).entity, type |-> FindingAction(k).type,
              sync |-> current] \in log
      BY <2>1, <2>2 DEF IInv, RecordedInv
    <2>. QED
      BY <2>3
  <1>. QED
    BY <1>1, Invariance, PTL

\* The upsert keeps the rows unique; nothing else adds one.
THEOREM LogUnique == Spec => []OneRowPerChange
  <1>1. Init => OneRowPerChange
    BY DEF Init, OneRowPerChange
  <1>2. OneRowPerChange /\ [Next]_vars => OneRowPerChange'
    <2>. SUFFICES ASSUME OneRowPerChange, [Next]_vars PROVE OneRowPerChange'
      OBVIOUS
    <2>1. ASSUME NEW a \in Actions, RecordAction(a) PROVE OneRowPerChange'
      BY <2>1 DEF OneRowPerChange, RecordAction, UpsertAction
    <2>2. CASE UNCHANGED log
      BY <2>2 DEF OneRowPerChange
    <2>3. UNCHANGED log \/ \E a \in Actions : RecordAction(a)
      BY DEF Next, Progress, RunAudit, SyncPhases, vars, tables, StartAudit, StartSync,
             BeginAuditRun, LoadTargets, LoadTargetsFails, TargetUnreachable, ProcessTarget,
             CompleteAuditRun, SaveAuditReport, RunAuditRaises, AdoptRun, DetectChanges,
             RecordActionFails, RecordActionsDone, ClearFixedExceptions, SaveSyncReport,
             SyncRaises, HandleAuditException, HandleSyncException, Kill, Finalize
    <2>. QED
      BY <2>1, <2>2, <2>3
  <1>. QED
    BY <1>1, <1>2, PTL DEF Spec

LEMMA BaselineStep == IInv /\ [Next]_vars /\ cmd = "sync" => runs'[Baseline] = runs[Baseline]
  <1>. SUFFICES ASSUME IInv, [Next]_vars, cmd = "sync"
                PROVE  runs'[Baseline] = runs[Baseline]
    OBVIOUS
  <1>0. /\ runs \in Seq(Runs) /\ Len(runs) \in Nat /\ Len(runs) >= 1
        /\ pc \in {"load", "scan"} => Len(runs) >= 2
    BY DEF IInv, TypeOK, PhaseInv
  <1>1. CASE UNCHANGED runs
    BY <1>1
  <1>2. CASE BeginAuditRun
    BY <1>0, <1>2 DEF BeginAuditRun, Baseline
  <1>3. CASE LoadTargetsFails \/ CompleteAuditRun
    <2>1. Len(runs) # Baseline
      BY <1>0, <1>3 DEF LoadTargetsFails, CompleteAuditRun, Baseline
    <2>. QED
      BY <1>0, <1>3, <2>1 DEF LoadTargetsFails, CompleteAuditRun, Baseline
  <1>4. CASE \E i \in Instances : ProcessTarget(i)
    <2>1. Baseline \in 1 .. Len(runs) /\ Baseline < Len(runs)
      BY <1>0, <1>4 DEF ProcessTarget, Baseline
    <2>. QED
      BY <1>4, <2>1, ScanStep
  <1>5. CASE AdoptRun
    BY <1>5, AdoptStep
  <1>6. CASE HandleAuditException \/ HandleSyncException
    <2>1. PICK r : \/ runs' = runs
                   \/ r > Baseline /\ runs' = [runs EXCEPT ![r].status = "failed"]
      BY <1>6 DEF HandleAuditException, HandleSyncException, FailRun
    <2>2. r > Baseline => r # Baseline
      BY DEF Baseline
    <2>. QED
      BY <1>0, <2>1, <2>2 DEF Baseline
  <1>7. ~ \E r \in DOMAIN runs : Finalize(r)
    BY DEF IInv, PhaseInv, Finalize
  <1>. QED
    BY <1>1, <1>2, <1>3, <1>4, <1>5, <1>6, <1>7
       DEF Next, Progress, RunAudit, SyncPhases, vars, tables, StartAudit, StartSync,
           LoadTargets, TargetUnreachable, SaveAuditReport, RunAuditRaises, DetectChanges,
           RecordAction, RecordActionFails, RecordActionsDone, ClearFixedExceptions,
           SaveSyncReport, SyncRaises, Kill

\* A sync never touches the baseline run, whatever fails in it and wherever.
THEOREM BaselineKept == Spec => SyncKeepsBaseline
  <1>1. IInv /\ [Next]_vars => [cmd = "sync" => runs'[Baseline] = runs[Baseline]]_vars
    BY BaselineStep
  <1>. QED
    BY <1>1, Invariance, PTL DEF Spec, SyncKeepsBaseline

LEMMA ZombieStep ==
    ASSUME TypeOK, HandleAuditException \/ HandleSyncException, LatestRun > Baseline
    PROVE  runs'[LatestRun].status # "running"
  <1>. DEFINE n == Len(runs)
              ids == { r \in DOMAIN runs : runs[r].status # "failed" }
  <1>1. runs \in Seq(Runs) /\ n \in Nat /\ DOMAIN runs = 1 .. n /\ LatestRun = n /\ n \in 1 .. n
    BY DEF TypeOK, LatestRun, Baseline
  <1>2. PICK r : /\ runs' = IF r > Baseline THEN [runs EXCEPT ![r].status = "failed"] ELSE runs
                 /\ r = n \/ r = LatestValidRun
    BY <1>1 DEF HandleAuditException, HandleSyncException, FailRun
  <1>3. CASE runs[n].status # "failed"
    <2>1. LatestValidRun = n
      <3>1. ids \in SUBSET (1 .. n) /\ n \in ids
        BY <1>1, <1>3
      <3>. QED
        BY <1>1, <3>1, LatestIsLast DEF LatestValidRun
    <2>2. runs' = [runs EXCEPT ![n].status = "failed"]
      BY <1>1, <1>2, <2>1
    <2>3. runs[n] \in Runs
      BY <1>1
    <2>4. runs'[n] = [runs[n] EXCEPT !.status = "failed"]
      BY <1>1, <2>2
    <2>. QED
      BY <1>1, <2>3, <2>4 DEF Runs
  <1>4. CASE runs[n].status = "failed"
    <2>1. runs[n] \in Runs
      BY <1>1
    <2>2. runs'[n] = runs[n] \/ runs'[n] = [runs[n] EXCEPT !.status = "failed"]
      BY <1>1, <1>2
    <2>. QED
      BY <1>1, <1>4, <2>1, <2>2 DEF Runs
  <1>. QED
    BY <1>3, <1>4

\* After either handler the last run, when it is the sync's own, is not
\* marked running.
THEOREM NoZombie == Spec => SyncLeavesNoZombie
  <1>1. IInv => [(HandleAuditException \/ HandleSyncException) /\ LatestRun > Baseline
                   => runs'[LatestRun].status # "running"]_vars
    BY ZombieStep DEF IInv
  <1>. QED
    BY <1>1, Invariance, PTL DEF SyncLeavesNoZombie
=============================================================================
