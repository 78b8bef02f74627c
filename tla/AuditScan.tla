----------------------------- MODULE AuditScan -----------------------------
(***************************************************************************)
(* The parallel scan inside run_audit: the main thread begins a run, hands *)
(* the targets to a pool of worker threads, waits for all of them and      *)
(* closes the run.  Every worker has a database connection of its own and  *)
(* commits as it goes: the server row, the instance and its link to the    *)
(* run, then one finding after the other.                                  *)
(*                                                                         *)
(* SyncEngine scans a target in one step.  The refinement mapping at the   *)
(* end, which hides what a target has saved until its thread is done,      *)
(* shows that the threads do no more than that.                            *)
(*                                                                         *)
(* External: a target answers, refuses, breaks off or, when it is one of   *)
(* MayHang, never answers; what its collectors find is any of Outcomes.    *)
(***************************************************************************)
EXTENDS Naturals, Sequences, FiniteSets, FindingTransitions

CONSTANTS
    Instances,      \* the enabled targets, no two of them the same instance
    Keys,           \* entity keys of findings
    InstanceOf,     \* the instance a key belongs to
    Hosts,
    HostOf,         \* the host a target is on
    Outcomes,       \* what can be saved for a key; None: nothing
    MayHang,        \* targets that may accept a query and never answer it
    Workers,        \* max_workers of the pool, 5 in the code
    MaxRuns         \* bound on the number of rows of audit_runs

ASSUME ScanAssumption ==
    /\ InstanceOf \in [Keys -> Instances]
    /\ HostOf \in [Instances -> Hosts]
    /\ Outcomes \subseteq Statuses \cup {None}
    /\ None \in Outcomes
    /\ MayHang \subseteq Instances
    /\ Workers \in Nat \ {0}
    /\ MaxRuns \in Nat

VARIABLES
    runs,       \* audit_runs with, per run, its linked instances and findings
    servers,    \* the hosts in the servers table
    book,       \* does the workbook file exist
    main,       \* where the main thread is
    pc,         \* where the thread of each target is
    left        \* the keys that its collectors have still to save

vars == <<runs, servers, book, main, pc, left>>

MainPhases == {"idle", "begin", "load", "scan", "interrupted", "report", "killed"}

Ended == {"ok", "failed"}

Running == {"connect", "insert", "link", "collect", "hung"}

RunRecords == [status   : {"running", "completed", "completed_with_errors", "failed"},
               type     : {"audit"},
               linked   : SUBSET Instances,
               findings : [Keys -> Statuses \cup {None}]]

TypeOK ==
    /\ runs \in Seq(RunRecords)
    /\ servers \subseteq Hosts
    /\ book \in BOOLEAN
    /\ main \in MainPhases
    /\ pc \in [Instances -> {"absent", "queued"} \cup Running \cup Ended]
    /\ left \in [Instances -> SUBSET Keys]

KeysOf(i) == { k \in Keys : InstanceOf[k] = i }

NewRun == [status |-> "running", type |-> "audit", linked |-> {},
           findings |-> [k \in Keys |-> None]]

Finished == { t \in Instances : pc[t] \in Ended }

Occupied == { t \in Instances : pc[t] \in Running }

AllDone == \A t \in Instances : pc[t] \in Ended \cup {"absent"}

Goto(t, where) == pc' = [pc EXCEPT ![t] = where]

Init ==
    /\ runs = << >>
    /\ servers = {}
    /\ book = FALSE
    /\ main = "idle"
    /\ pc = [t \in Instances |-> "absent"]
    /\ left = [t \in Instances |-> {}]

----------------------------------------------------------------------------
\* The main thread.

StartAudit ==
    /\ main = "idle"
    /\ Len(runs) < MaxRuns
    /\ main' = "begin"
    /\ UNCHANGED <<runs, servers, book, pc, left>>

BeginAuditRun ==
    /\ main = "begin"
    /\ runs' = Append(runs, NewRun)
    /\ main' = "load"
    /\ UNCHANGED <<servers, book, pc, left>>

LoadTargets ==
    /\ main = "load"
    /\ pc' = [t \in Instances |-> "queued"]
    /\ left' = [t \in Instances |-> KeysOf(t)]
    /\ main' = "scan"
    /\ UNCHANGED <<runs, servers, book>>

LoadTargetsFails ==
    /\ main = "load"
    /\ runs' = [runs EXCEPT ![Len(runs)].status = "failed"]
    /\ main' = "idle"
    /\ UNCHANGED <<servers, book, pc, left>>

\* Ctrl-C reaches the main thread only.  Leaving the executor's block waits
\* for the workers, which go on to drain the queue; so does the exit of the
\* interpreter after a second Ctrl-C.
Interrupt ==
    /\ main = "scan"
    /\ main' = "interrupted"
    /\ UNCHANGED <<runs, servers, book, pc, left>>

\* Mutants: the loop over the futures ends at the first one; the count of
\* errors is not looked at.
CompleteAtFirst ==
    /\ main = "scan"
    /\ Finished # {}
    /\ runs' = [runs EXCEPT ![Len(runs)].status =
                    IF \E t \in Instances : pc[t] = "failed"
                    THEN "completed_with_errors" ELSE "completed"]
    /\ main' = "report"
    /\ UNCHANGED <<servers, book, pc, left>>

CompleteAnyway ==
    /\ main = "scan"
    /\ AllDone
    /\ runs' = [runs EXCEPT ![Len(runs)].status = "completed"]
    /\ main' = "report"
    /\ UNCHANGED <<servers, book, pc, left>>

CompleteAuditRun ==
    /\ main = "scan"
    /\ AllDone
    /\ runs' = [runs EXCEPT ![Len(runs)].status =
                    IF \E t \in Instances : pc[t] = "failed"
                    THEN "completed_with_errors" ELSE "completed"]
    /\ main' = "report"
    /\ UNCHANGED <<servers, book, pc, left>>

SaveAuditReport ==
    /\ main = "report"
    /\ book' = TRUE
    /\ main' = "idle"
    /\ UNCHANGED <<runs, servers, pc, left>>

\* The interrupt, once the workers are done, or an exception: a locked
\* database, an open workbook.
RunAuditRaises ==
    /\ main \in {"begin", "load", "scan", "interrupted", "report"}
    /\ AllDone
    /\ main' = "idle"
    /\ UNCHANGED <<runs, servers, book, pc, left>>

\* The death of the process, and then of its threads, which save no more.
Kill ==
    /\ main \notin {"idle", "killed"}
    /\ main' = IF main \in {"scan", "interrupted"} THEN "killed" ELSE "idle"
    /\ UNCHANGED <<runs, servers, book, pc, left>>

ThreadDies(t) ==
    /\ main = "killed"
    /\ pc[t] \notin Ended \cup {"absent"}
    /\ Goto(t, "failed")
    /\ UNCHANGED <<runs, servers, book, main, left>>

ProcessEnds ==
    /\ main = "killed"
    /\ AllDone
    /\ main' = "idle"
    /\ UNCHANGED <<runs, servers, book, pc, left>>

----------------------------------------------------------------------------
\* One worker thread, processing target t.

\* Mutant: one worker less than asked for.
StartOneLess(t) ==
    /\ main # "killed"
    /\ pc[t] = "queued"
    /\ Cardinality(Occupied) + 1 < Workers
    /\ Goto(t, "connect")
    /\ UNCHANGED <<runs, servers, book, main, left>>

StartTarget(t) ==
    /\ main # "killed"
    /\ pc[t] = "queued"
    /\ Cardinality(Occupied) < Workers
    /\ Goto(t, "connect")
    /\ UNCHANGED <<runs, servers, book, main, left>>

\* Mutant: a known server skips the link.
LookupSkipsLink(t) ==
    /\ main # "killed"
    /\ pc[t] = "connect"
    /\ Goto(t, IF HostOf[t] \in servers THEN "collect" ELSE "insert")
    /\ UNCHANGED <<runs, servers, book, main, left>>

\* The connection test, the version query, and the SELECT of upsert_server.
LookupServer(t) ==
    /\ main # "killed"
    /\ pc[t] = "connect"
    /\ Goto(t, IF HostOf[t] \in servers THEN "link" ELSE "insert")
    /\ UNCHANGED <<runs, servers, book, main, left>>

InsertServer(t) ==
    /\ main # "killed"
    /\ pc[t] = "insert"
    /\ HostOf[t] \notin servers
    /\ servers' = servers \cup {HostOf[t]}
    /\ Goto(t, "link")
    /\ UNCHANGED <<runs, book, main, left>>

\* Mutant: the conflict is taken for success and the target left at that.
InsertConflictIgnored(t) ==
    /\ main # "killed"
    /\ pc[t] = "insert"
    /\ HostOf[t] \in servers
    /\ Goto(t, "ok")
    /\ UNCHANGED <<runs, servers, book, main, left>>

\* UNIQUE (hostname): another thread inserted the host since the SELECT.
InsertServerConflict(t) ==
    /\ main # "killed"
    /\ pc[t] = "insert"
    /\ HostOf[t] \in servers
    /\ Goto(t, "failed")
    /\ UNCHANGED <<runs, servers, book, main, left>>

\* Mutant: the id of the server is linked.
LinkServer(t) ==
    /\ main # "killed"
    /\ pc[t] = "link"
    /\ runs' = [runs EXCEPT ![Len(runs)].linked = @ \cup {HostOf[t]}]
    /\ Goto(t, "collect")
    /\ UNCHANGED <<servers, book, main, left>>

\* upsert_instance and link_instance_to_run.  No other thread touches this
\* instance, so their two commits are one step.
LinkInstance(t) ==
    /\ main # "killed"
    /\ pc[t] = "link"
    /\ runs' = [runs EXCEPT ![Len(runs)].linked = @ \cup {t}]
    /\ Goto(t, "collect")
    /\ UNCHANGED <<servers, book, main, left>>

\* A finding that could not be read or saved is logged and left out.
SaveFinding(t, k) ==
    /\ main # "killed"
    /\ pc[t] = "collect"
    /\ k \in left[t]
    /\ \E s \in Outcomes : runs' = [runs EXCEPT ![Len(runs)].findings[k] = s]
    /\ left' = [left EXCEPT ![t] = @ \ {k}]
    /\ UNCHANGED <<servers, book, main, pc>>

TargetDone(t) ==
    /\ main # "killed"
    /\ pc[t] = "collect"
    /\ left[t] = {}
    /\ Goto(t, "ok")
    /\ UNCHANGED <<runs, servers, book, main, left>>

\* process_target_safe: whatever the target raises ends its thread only.
TargetRaises(t) ==
    /\ main # "killed"
    /\ pc[t] \in {"connect", "insert", "link", "collect"}
    /\ Goto(t, "failed")
    /\ UNCHANGED <<runs, servers, book, main, left>>

\* The connector sets no timeout on its queries.
Hang(t) ==
    /\ main # "killed"
    /\ t \in MayHang
    /\ pc[t] \in {"connect", "collect"}
    /\ Goto(t, "hung")
    /\ UNCHANGED <<runs, servers, book, main, left>>

ThreadStep(t) ==
    \/ StartTarget(t)
    \/ LookupServer(t)
    \/ InsertServer(t)
    \/ InsertServerConflict(t)
    \/ LinkInstance(t)
    \/ \E k \in Keys : SaveFinding(t, k)
    \/ TargetDone(t)

MainStep ==
    \/ StartAudit
    \/ BeginAuditRun
    \/ LoadTargets
    \/ LoadTargetsFails
    \/ CompleteAuditRun
    \/ SaveAuditReport

Next ==
    \/ MainStep
    \/ Interrupt
    \/ RunAuditRaises
    \/ Kill
    \/ ProcessEnds
    \/ \E t \in Instances :
         ThreadStep(t) \/ TargetRaises(t) \/ Hang(t) \/ ThreadDies(t)

Spec == Init /\ [][Next]_vars

\* Threads are scheduled; no target has to fail, and none has to hang.
FairSpec == Spec /\ \A t \in Instances : WF_vars(ThreadStep(t))

\* A day on which every server answers and nobody touches the keyboard.
CalmSpec == Init /\ [][MainStep \/ \E t \in Instances : ThreadStep(t)]_vars

----------------------------------------------------------------------------
\* What a scan guarantees.

\* A run holds findings of linked instances only.  The diff takes an instance
\* that is not linked for one that was not scanned, and would pass over them.
FindingsNeedLink ==
    \A r \in DOMAIN runs : \A k \in Keys :
        runs[r].findings[k] # None => InstanceOf[k] \in runs[r].linked

\* A run without errors reached every target.
CompletedMeansReached ==
    \A r \in DOMAIN runs : runs[r].status = "completed" => runs[r].linked = Instances

\* No worker saves into a run that has been closed: what the report and the
\* diff read of it stays what they read.
ClosedRunsAreFrozen ==
    [][\A r \in DOMAIN runs : runs[r].status # "running" =>
           /\ runs'[r].linked = runs[r].linked
           /\ runs'[r].findings = runs[r].findings]_vars

\* With fewer hanging targets than workers, every other target that waits for
\* a worker gets one and comes to an end, unless the process is killed.
AnsweringTargetsFinish ==
    Cardinality(MayHang) < Workers =>
        \A t \in Instances \ MayHang :
            (main = "scan" /\ pc[t] = "queued") ~> (pc[t] \in Ended \/ main = "killed")

\* The engine's view: a target's link and findings appear when its thread is
\* done, and a killed process is scanning until its last thread is gone.
Scanning == main \in {"scan", "interrupted", "killed"}

Shown(run, done) ==
    [status   |-> run.status,
     type     |-> run.type,
     linked   |-> run.linked \cap done,
     findings |-> [k \in Keys |-> IF InstanceOf[k] \in done
                                  THEN run.findings[k] ELSE None]]

ShownRuns ==
    [r \in DOMAIN runs |-> IF r = Len(runs) THEN Shown(runs[r], Finished) ELSE runs[r]]

Engine == INSTANCE SyncEngine WITH
    UnmatchedKeys <- {},
    runs <- ShownRuns,
    log <- {},
    pc <- IF Scanning THEN "scan" ELSE main,
    cmd <- IF main = "idle" THEN "none" ELSE "audit",
    targets <- IF Scanning THEN Instances \ Finished ELSE {},
    errors <- /\ Scanning \/ main = "report"
              /\ \E t \in Instances : pc[t] = "failed",
    hasRows <- FALSE,
    current <- 0,
    actions <- {},
    pending <- {},
    missed <- {}

\* The threads implement the engine's scan: whatever their order, and
\* whatever fails, a target is linked with what was saved of it, or not at
\* all and counted as an error.
ImplementsEngine == Engine!Spec

----------------------------------------------------------------------------
\* What the documentation promises and the code does not keep.

\* docs/sync/change_tracking.md, Isolation and Safety: no server's scan
\* disturbs another's, and writes are serialized to prevent races, so a scan
\* in which every server answers has no errors.
HealthyScanSucceeds ==
    \A r \in DOMAIN runs : runs[r].status # "completed_with_errors"
=============================================================================
