-------------------------- MODULE AuditScanProofs --------------------------
(***************************************************************************)
(* Proofs about AuditScan for any targets, keys, hosts and pool size: what *)
(* a scan guarantees of its run, and that the threads implement the        *)
(* engine's one-step scan of a target.  Both rest on knowing how far a     *)
(* thread is from what its run holds: a linked target's thread has passed  *)
(* its link, and a thread past its link and not failed has a linked target *)
(* (ThreadInv); outside a scan no thread is alive (MainInv).               *)
(***************************************************************************)
EXTENDS AuditScan, TLAPS

Last == runs[Len(runs)]

RunInv ==
    /\ FindingsNeedLink
    /\ CompletedMeansReached
    /\ \A r \in DOMAIN runs : \A k \in Keys : runs[r].findings[k] \in Outcomes

MainInv ==
    /\ main \in {"load", "report"} \/ Scanning => Len(runs) >= 1
    /\ main = "load" => Last = NewRun
    /\ Scanning => Last.status = "running" /\ \A t \in Instances : pc[t] # "absent"
    /\ ~Scanning => AllDone

ThreadInv ==
    /\ Len(runs) >= 1 =>
           \A t \in Last.linked : pc[t] \in {"collect", "hung", "ok", "failed"}
    /\ Scanning =>
           \A t \in Instances : pc[t] \in {"collect", "ok"} => t \in Last.linked
    /\ \A t \in Instances : left[t] \subseteq KeysOf(t)

IInv == TypeOK /\ RunInv /\ MainInv /\ ThreadInv

----------------------------------------------------------------------------
\* The last run and the steps that write it.

LEMMA LastUpdate ==
    ASSUME TypeOK, Len(runs) >= 1, NEW run \in RunRecords,
           runs' = [runs EXCEPT ![Len(runs)] = run]
    PROVE  /\ runs' \in Seq(RunRecords)
           /\ Len(runs') = Len(runs)
           /\ runs'[Len(runs)] = run
           /\ \A q \in DOMAIN runs : q # Len(runs) => runs'[q] = runs[q]
  BY DEF TypeOK

LEMMA LastIsRecord ==
    ASSUME TypeOK, Len(runs) >= 1
    PROVE  /\ Len(runs) \in DOMAIN runs
           /\ Last \in RunRecords
  BY DEF TypeOK, Last

\* Outside a scan no thread can take a step.
LEMMA ThreadsNeedScan ==
    ASSUME IInv, NEW t \in Instances, pc[t] \notin Ended \cup {"absent"}
    PROVE  Scanning /\ Len(runs) >= 1
  BY DEF IInv, MainInv, AllDone

\* Steps of the main thread that do not write the runs table.
LEMMA MainSteps ==
    ASSUME IInv, \/ StartAudit \/ Interrupt \/ SaveAuditReport
                 \/ RunAuditRaises \/ Kill \/ ProcessEnds
    PROVE  IInv'
  <1>1. UNCHANGED <<runs, servers, pc, left>> /\ book' \in BOOLEAN /\ main' \in MainPhases
    BY DEF IInv, TypeOK, MainPhases, StartAudit, Interrupt, SaveAuditReport,
           RunAuditRaises, Kill, ProcessEnds
  <1>2. TypeOK' /\ RunInv'
    BY <1>1 DEF IInv, TypeOK, RunInv, FindingsNeedLink, CompletedMeansReached
  <1>3. MainInv'
    <2>1. AllDone' <=> AllDone
      BY <1>1 DEF AllDone
    <2>2. Scanning' => Scanning
      BY DEF Scanning, StartAudit, Interrupt, SaveAuditReport, RunAuditRaises, Kill, ProcessEnds
    <2>3. ~Scanning' => AllDone
      BY DEF IInv, MainInv, Scanning, StartAudit, Interrupt, SaveAuditReport, RunAuditRaises, Kill, ProcessEnds
    <2>4. main' \notin {"load", "report"}
      BY DEF StartAudit, Interrupt, SaveAuditReport, RunAuditRaises, Kill, ProcessEnds
    <2>. QED
      BY <1>1, <2>1, <2>2, <2>3, <2>4 DEF IInv, MainInv, Last
  <1>4. ThreadInv'
    <2>1. Scanning' => Scanning
      BY DEF Scanning, StartAudit, Interrupt, SaveAuditReport, RunAuditRaises, Kill, ProcessEnds
    <2>. QED
      BY <1>1, <2>1 DEF IInv, ThreadInv, Last
  <1>. QED
    BY <1>2, <1>3, <1>4 DEF IInv

LEMMA BeginStep ==
    ASSUME IInv, BeginAuditRun
    PROVE  IInv'
  <1>1. NewRun \in RunRecords /\ NewRun.linked = {} /\ NewRun.status = "running"
        /\ \A k \in Keys : NewRun.findings[k] = None
    BY DEF NewRun, RunRecords
  <1>2. /\ runs \in Seq(RunRecords)
        /\ runs' = Append(runs, NewRun)
    BY DEF IInv, TypeOK, BeginAuditRun
  <1>3. /\ runs' \in Seq(RunRecords)
        /\ Len(runs') = Len(runs) + 1
        /\ Len(runs) \in Nat
        /\ DOMAIN runs' = 1 .. Len(runs) + 1
        /\ DOMAIN runs = 1 .. Len(runs)
        /\ \A q \in DOMAIN runs : runs'[q] = runs[q]
        /\ runs'[Len(runs) + 1] = NewRun
    BY <1>1, <1>2
  <1>4. TypeOK'
    BY <1>3 DEF IInv, TypeOK, MainPhases, BeginAuditRun
  <1>5. RunInv'
    <2>. SUFFICES ASSUME NEW r \in DOMAIN runs'
                  PROVE  /\ \A k \in Keys : /\ runs'[r].findings[k] # None
                                                  => InstanceOf[k] \in runs'[r].linked
                                            /\ runs'[r].findings[k] \in Outcomes
                         /\ runs'[r].status = "completed" => runs'[r].linked = Instances
      BY DEF RunInv, FindingsNeedLink, CompletedMeansReached
    <2>1. CASE r \in DOMAIN runs
      BY <1>3, <2>1 DEF IInv, RunInv, FindingsNeedLink, CompletedMeansReached
    <2>2. CASE r = Len(runs) + 1
      BY <1>1, <1>3, <2>2, ScanAssumption
    <2>. QED
      BY <1>3, <2>1, <2>2
  <1>6. MainInv' /\ ThreadInv'
    <2>1. Last' = NewRun /\ Len(runs') >= 1
      BY <1>3 DEF Last
    <2>2. ~Scanning /\ ~Scanning' /\ main' = "load" /\ UNCHANGED <<pc, left>>
      BY DEF Scanning, BeginAuditRun
    <2>. QED
      BY <1>1, <2>1, <2>2 DEF IInv, MainInv, ThreadInv, AllDone
  <1>. QED
    BY <1>4, <1>5, <1>6 DEF IInv

LEMMA LoadStep ==
    ASSUME IInv, LoadTargets
    PROVE  IInv'
  <1>1. UNCHANGED <<runs, servers, book>> /\ main' = "scan" /\ Scanning'
    BY DEF LoadTargets, Scanning
  <1>2. /\ \A t \in Instances : pc'[t] = "queued" /\ left'[t] = KeysOf(t)
        /\ TypeOK'
    BY <1>1 DEF IInv, TypeOK, MainPhases, LoadTargets, KeysOf
  <1>3. RunInv'
    BY <1>1 DEF IInv, RunInv, FindingsNeedLink, CompletedMeansReached
  <1>4. Last' = NewRun /\ Len(runs') >= 1
    BY <1>1 DEF IInv, MainInv, LoadTargets, Last
  <1>5. MainInv' /\ ThreadInv'
    <2>1. NewRun.linked = {} /\ NewRun.status = "running"
      BY DEF NewRun
    <2>2. \A t \in Instances : left'[t] \subseteq KeysOf(t)
      BY <1>2
    <2>. QED
      BY <1>1, <1>2, <1>4, <2>1, <2>2 DEF MainInv, ThreadInv
  <1>. QED
    BY <1>2, <1>3, <1>5 DEF IInv

\* The run's last status, written when no thread is alive any more.
LEMMA StatusStep ==
    ASSUME IInv, LoadTargetsFails \/ CompleteAuditRun
    PROVE  IInv'
  <1>0. Len(runs) >= 1 /\ AllDone
    BY DEF IInv, MainInv, Scanning, LoadTargetsFails, CompleteAuditRun
  <1>1. Len(runs) \in DOMAIN runs /\ Last \in RunRecords
    BY <1>0, LastIsRecord DEF IInv
  <1>2. PICK status \in {"completed", "completed_with_errors", "failed"} :
          /\ runs' = [runs EXCEPT ![Len(runs)].status = status]
          /\ status = "completed" => /\ Scanning
                                     /\ \A t \in Instances : pc[t] # "failed"
    BY DEF LoadTargetsFails, CompleteAuditRun, Scanning
  <1>. DEFINE run == [Last EXCEPT !.status = status]
  <1>3. /\ run \in RunRecords
        /\ run.linked = Last.linked /\ run.findings = Last.findings /\ run.status = status
    BY <1>1 DEF RunRecords
  <1>4. /\ runs' \in Seq(RunRecords)
        /\ Len(runs') = Len(runs)
        /\ runs'[Len(runs)] = run
        /\ \A q \in DOMAIN runs : q # Len(runs) => runs'[q] = runs[q]
    <2>1. runs' = [runs EXCEPT ![Len(runs)] = run]
      BY <1>2 DEF Last
    <2>2. TypeOK
      BY DEF IInv
    <2>. HIDE DEF run
    <2>. QED
      BY <1>0, <1>3, <2>1, <2>2, LastUpdate
  <1>. HIDE DEF run
  <1>5. UNCHANGED <<servers, book, pc, left>> /\ main' \in {"idle", "report"} /\ ~Scanning'
    BY DEF LoadTargetsFails, CompleteAuditRun, Scanning
  <1>6. TypeOK'
    BY <1>4, <1>5 DEF IInv, TypeOK, MainPhases
  <1>7. status = "completed" => Last.linked = Instances
    <2>. SUFFICES ASSUME status = "completed" PROVE Last.linked = Instances
      OBVIOUS
    <2>1. \A t \in Instances : pc[t] = "ok"
      BY <1>0, <1>2 DEF IInv, MainInv, AllDone, Ended
    <2>2. Instances \subseteq Last.linked
      BY <1>2, <2>1 DEF IInv, ThreadInv
    <2>. QED
      BY <1>1, <2>2 DEF RunRecords
  <1>8. RunInv'
    <2>1. DOMAIN runs' = DOMAIN runs
      BY <1>4 DEF IInv, TypeOK
    <2>. SUFFICES ASSUME NEW r \in DOMAIN runs
                  PROVE  /\ \A k \in Keys : /\ runs'[r].findings[k] # None
                                                  => InstanceOf[k] \in runs'[r].linked
                                            /\ runs'[r].findings[k] \in Outcomes
                         /\ runs'[r].status = "completed" => runs'[r].linked = Instances
      BY <2>1 DEF RunInv, FindingsNeedLink, CompletedMeansReached
    <2>2. CASE r = Len(runs)
      BY <1>1, <1>3, <1>4, <1>7, <2>2 DEF IInv, RunInv, FindingsNeedLink, Last
    <2>3. CASE r # Len(runs)
      BY <1>4, <2>3 DEF IInv, RunInv, FindingsNeedLink, CompletedMeansReached
    <2>. QED
      BY <2>2, <2>3
  <1>9. MainInv' /\ ThreadInv'
    <2>1. Last' = run
      BY <1>4 DEF Last
    <2>2. AllDone'
      BY <1>0, <1>5 DEF AllDone
    <2>3. main' # "load"
      BY <1>5
    <2>. QED
      BY <1>0, <1>3, <1>4, <1>5, <2>1, <2>2, <2>3 DEF IInv, MainInv, ThreadInv
  <1>. QED
    BY <1>6, <1>8, <1>9 DEF IInv

----------------------------------------------------------------------------
\* The threads.

\* A thread moves on without writing the runs table.
LEMMA MoveStep ==
    ASSUME IInv, NEW t \in Instances, NEW where \in {"connect", "insert", "link", "hung"} \cup Ended,
           pc[t] \notin Ended \cup {"absent"},
           Goto(t, where), UNCHANGED <<runs, book, main, left>>,
           servers' \subseteq Hosts,
           where = "ok" => pc[t] = "collect",
           where \notin {"hung", "ok", "failed"} => pc[t] \notin {"collect", "hung"}
    PROVE  IInv'
  <1>1. Scanning /\ Scanning'
    BY ThreadsNeedScan DEF Scanning
  <1>2. \A u \in Instances : pc'[u] = IF u = t THEN where ELSE pc[u]
    BY DEF IInv, TypeOK, Goto
  <1>3. TypeOK'
    BY DEF IInv, TypeOK, Goto, Running, Ended
  <1>4. RunInv'
    BY DEF IInv, RunInv, FindingsNeedLink, CompletedMeansReached
  <1>5. MainInv'
    BY <1>1, <1>2 DEF IInv, MainInv, Ended, Last
  <1>6. ThreadInv'
    <2>1. Last' = Last /\ UNCHANGED <<runs, left>>
      BY DEF Last
    <2>2. \A u \in Last.linked : u \in Instances
      BY <1>1, LastIsRecord DEF IInv, MainInv, RunRecords
    <2>3. Len(runs) >= 1
      BY <1>1 DEF IInv, MainInv
    <2>4. \A u \in Last.linked : pc'[u] \in {"collect", "hung", "ok", "failed"}
      BY <1>2, <2>2, <2>3 DEF IInv, ThreadInv, Ended
    <2>5. \A u \in Instances : pc'[u] \in {"collect", "ok"} => u \in Last.linked
      BY <1>1, <1>2 DEF IInv, ThreadInv, Ended
    <2>6. \A u \in Instances : left'[u] \subseteq KeysOf(u)
      BY <2>1 DEF IInv, ThreadInv
    <2>. QED
      BY <2>1, <2>4, <2>5, <2>6 DEF ThreadInv
  <1>. QED
    BY <1>3, <1>4, <1>5, <1>6 DEF IInv

\* What an update of the last run must satisfy.
Sound(run) ==
    \A k \in Keys : /\ run.findings[k] \in Outcomes
                    /\ run.findings[k] # None => InstanceOf[k] \in run.linked

LEMMA RunWritten ==
    ASSUME IInv, Scanning, NEW run \in RunRecords,
           run.status = "running",
           Sound(run),
           runs' = [runs EXCEPT ![Len(runs)] = run]
    PROVE  /\ runs' \in Seq(RunRecords)
           /\ Len(runs') = Len(runs) /\ Len(runs') >= 1
           /\ runs'[Len(runs)] = run
           /\ RunInv'
  <1>1. TypeOK /\ Len(runs) >= 1
    BY DEF IInv, MainInv
  <1>2. /\ runs' \in Seq(RunRecords)
        /\ Len(runs') = Len(runs)
        /\ runs'[Len(runs)] = run
        /\ \A q \in DOMAIN runs : q # Len(runs) => runs'[q] = runs[q]
    BY <1>1, LastUpdate
  <1>3. DOMAIN runs' = DOMAIN runs
    BY <1>1, <1>2 DEF TypeOK
  <1>4. RunInv'
    <2>. SUFFICES ASSUME NEW r \in DOMAIN runs
                  PROVE  /\ \A k \in Keys : /\ runs'[r].findings[k] # None
                                                  => InstanceOf[k] \in runs'[r].linked
                                            /\ runs'[r].findings[k] \in Outcomes
                         /\ runs'[r].status = "completed" => runs'[r].linked = Instances
      BY <1>3 DEF RunInv, FindingsNeedLink, CompletedMeansReached
    <2>1. CASE r = Len(runs)
      BY <1>2, <2>1 DEF Sound
    <2>2. CASE r # Len(runs)
      BY <1>2, <2>2 DEF IInv, RunInv, FindingsNeedLink, CompletedMeansReached
    <2>. QED
      BY <2>1, <2>2
  <1>. QED
    BY <1>1, <1>2, <1>4

LEMMA LinkStep ==
    ASSUME IInv, NEW t \in Instances, LinkInstance(t)
    PROVE  IInv'
  <1>. DEFINE run == [Last EXCEPT !.linked = @ \cup {t}]
  <1>1. Scanning /\ Scanning' /\ Len(runs) >= 1
    BY ThreadsNeedScan DEF LinkInstance, Ended, Scanning
  <1>2. Last \in RunRecords /\ Len(runs) \in DOMAIN runs
    BY <1>1, LastIsRecord DEF IInv
  <1>3. /\ run \in RunRecords
        /\ run.linked = Last.linked \cup {t}
        /\ run.findings = Last.findings
        /\ run.status = Last.status
    BY <1>2 DEF RunRecords
  <1>4. run.status = "running"
    BY <1>1, <1>3 DEF IInv, MainInv
  <1>5. Sound(run)
    BY <1>2, <1>3 DEF Sound, IInv, RunInv, FindingsNeedLink, Last
  <1>6. runs' = [runs EXCEPT ![Len(runs)] = run]
    BY DEF LinkInstance, Last
  <1>. HIDE DEF run
  <1>7. /\ runs' \in Seq(RunRecords)
        /\ Len(runs') = Len(runs) /\ Len(runs') >= 1
        /\ Last' = run
        /\ RunInv'
    <2>1. /\ runs' \in Seq(RunRecords)
          /\ Len(runs') = Len(runs) /\ Len(runs') >= 1
          /\ runs'[Len(runs)] = run
          /\ RunInv'
      BY <1>1, <1>3, <1>4, <1>5, <1>6, RunWritten
    <2>. QED
      BY <2>1 DEF Last
  <1>8. \A u \in Instances : pc'[u] = IF u = t THEN "collect" ELSE pc[u]
    BY DEF IInv, TypeOK, LinkInstance, Goto
  <1>9. TypeOK'
    BY <1>7 DEF IInv, TypeOK, LinkInstance, Goto, Running
  <1>10. MainInv'
    BY <1>1, <1>4, <1>7, <1>8 DEF IInv, MainInv, LinkInstance, Scanning
  <1>11. ThreadInv'
    <2>1. \A u \in run.linked : pc'[u] \in {"collect", "hung", "ok", "failed"}
      BY <1>1, <1>2, <1>3, <1>8 DEF IInv, ThreadInv, RunRecords
    <2>2. \A u \in Instances : pc'[u] \in {"collect", "ok"} => u \in run.linked
      BY <1>1, <1>3, <1>8 DEF IInv, ThreadInv
    <2>3. \A u \in Instances : left'[u] \subseteq KeysOf(u)
      BY DEF IInv, ThreadInv, LinkInstance
    <2>. QED
      BY <1>7, <2>1, <2>2, <2>3 DEF ThreadInv
  <1>. QED
    BY <1>7, <1>9, <1>10, <1>11 DEF IInv

LEMMA SaveStep ==
    ASSUME IInv, NEW t \in Instances, NEW k \in Keys, SaveFinding(t, k)
    PROVE  /\ IInv'
           /\ InstanceOf[k] = t
           /\ Last' = [Last EXCEPT !.findings[k] = Last'.findings[k]]
           /\ Len(runs') = Len(runs)
           /\ \A q \in DOMAIN runs : q # Len(runs) => runs'[q] = runs[q]
  <1>1. Scanning /\ Scanning' /\ Len(runs) >= 1
    BY ThreadsNeedScan DEF SaveFinding, Ended, Scanning
  <1>2. Last \in RunRecords /\ Len(runs) \in DOMAIN runs
    BY <1>1, LastIsRecord DEF IInv
  <1>3. InstanceOf[k] = t /\ t \in Last.linked
    BY <1>1 DEF IInv, ThreadInv, KeysOf, SaveFinding
  <1>4. PICK s \in Outcomes : runs' = [runs EXCEPT ![Len(runs)].findings[k] = s]
    BY DEF SaveFinding
  <1>. DEFINE run == [Last EXCEPT !.findings[k] = s]
  <1>5. s \in Statuses \cup {None}
    BY ScanAssumption
  <1>6. /\ run \in RunRecords
        /\ run.linked = Last.linked
        /\ run.status = Last.status
        /\ \A j \in Keys : run.findings[j] = IF j = k THEN s ELSE Last.findings[j]
    BY <1>2, <1>5 DEF RunRecords
  <1>7. run.status = "running"
    BY <1>1, <1>6 DEF IInv, MainInv
  <1>8. Sound(run)
    BY <1>2, <1>3, <1>6 DEF Sound, IInv, RunInv, FindingsNeedLink, Last
  <1>9. runs' = [runs EXCEPT ![Len(runs)] = run]
    BY <1>4 DEF Last
  <1>10. run = [Last EXCEPT !.findings[k] = run.findings[k]]
    BY <1>6
  <1>. HIDE DEF run
  <1>11. /\ runs' \in Seq(RunRecords)
         /\ Len(runs') = Len(runs) /\ Len(runs') >= 1
         /\ Last' = run
         /\ RunInv'
    <2>1. /\ runs' \in Seq(RunRecords)
          /\ Len(runs') = Len(runs) /\ Len(runs') >= 1
          /\ runs'[Len(runs)] = run
          /\ RunInv'
      BY <1>1, <1>6, <1>7, <1>8, <1>9, RunWritten
    <2>. QED
      BY <2>1 DEF Last
  <1>12. UNCHANGED <<servers, book, main, pc>>
    BY DEF SaveFinding
  <1>13. \A u \in Instances : left'[u] \subseteq left[u]
    BY DEF IInv, TypeOK, SaveFinding
  <1>14. TypeOK'
    BY <1>11, <1>12, <1>13 DEF IInv, TypeOK, SaveFinding
  <1>15. MainInv'
    BY <1>1, <1>7, <1>11, <1>12 DEF IInv, MainInv, Scanning
  <1>16. ThreadInv'
    <2>1. \A u \in Instances : left'[u] \subseteq KeysOf(u)
      BY <1>13 DEF IInv, ThreadInv
    <2>. QED
      BY <1>1, <1>6, <1>11, <1>12, <2>1 DEF IInv, ThreadInv
  <1>17. \A q \in DOMAIN runs : q # Len(runs) => runs'[q] = runs[q]
    BY <1>1, <1>6, <1>9, LastUpdate DEF IInv
  <1>. QED
    BY <1>3, <1>10, <1>11, <1>14, <1>15, <1>16, <1>17 DEF IInv

----------------------------------------------------------------------------
\* The invariant and what follows from it.

LEMMA InitInv == Init => IInv
  <1>. SUFFICES ASSUME Init PROVE IInv
    OBVIOUS
  <1>1. TypeOK
    <2>1. runs \in Seq(RunRecords)
      BY DEF Init
    <2>2. pc \in [Instances -> {"absent", "queued"} \cup Running \cup Ended]
      BY DEF Init
    <2>. QED
      BY <2>1, <2>2 DEF Init, TypeOK, MainPhases
  <1>2. runs = << >> /\ Len(runs) = 0 /\ main = "idle" /\ ~Scanning
    BY DEF Init, Scanning
  <1>. QED
    BY <1>1, <1>2 DEF IInv, RunInv, FindingsNeedLink, CompletedMeansReached, MainInv,
       ThreadInv, AllDone, Init

LEMMA ThreadStepInv ==
    ASSUME IInv, NEW t \in Instances,
           ThreadStep(t) \/ TargetRaises(t) \/ Hang(t) \/ ThreadDies(t)
    PROVE  IInv'
  <1>. USE DEF Ended
  <1>1. CASE StartTarget(t)
    BY <1>1, MoveStep DEF StartTarget, IInv, TypeOK
  <1>2. CASE LookupServer(t)
    BY <1>2, MoveStep DEF LookupServer, IInv, TypeOK
  <1>3. CASE InsertServer(t)
    <2>1. servers' \subseteq Hosts
      BY <1>3, ScanAssumption DEF InsertServer, IInv, TypeOK
    <2>. QED
      BY <1>3, <2>1, MoveStep DEF InsertServer
  <1>4. CASE InsertServerConflict(t)
    BY <1>4, MoveStep DEF InsertServerConflict, IInv, TypeOK
  <1>5. CASE LinkInstance(t)
    BY <1>5, LinkStep
  <1>6. CASE \E k \in Keys : SaveFinding(t, k)
    BY <1>6, SaveStep
  <1>7. CASE TargetDone(t)
    BY <1>7, MoveStep DEF TargetDone, IInv, TypeOK
  <1>8. CASE TargetRaises(t)
    BY <1>8, MoveStep DEF TargetRaises, IInv, TypeOK
  <1>9. CASE Hang(t)
    BY <1>9, MoveStep DEF Hang, IInv, TypeOK
  <1>10. CASE ThreadDies(t)
    BY <1>10, MoveStep DEF ThreadDies, IInv, TypeOK
  <1>. QED
    BY <1>1, <1>2, <1>3, <1>4, <1>5, <1>6, <1>7, <1>8, <1>9, <1>10 DEF ThreadStep

LEMMA NextInv == IInv /\ [Next]_vars => IInv'
  <1>. SUFFICES ASSUME IInv, [Next]_vars PROVE IInv'
    OBVIOUS
  <1>1. CASE StartAudit \/ Interrupt \/ SaveAuditReport \/ RunAuditRaises \/ Kill \/ ProcessEnds
    BY <1>1, MainSteps
  <1>2. CASE BeginAuditRun
    BY <1>2, BeginStep
  <1>3. CASE LoadTargets
    BY <1>3, LoadStep
  <1>4. CASE LoadTargetsFails \/ CompleteAuditRun
    BY <1>4, StatusStep
  <1>5. CASE \E t \in Instances : ThreadStep(t) \/ TargetRaises(t) \/ Hang(t) \/ ThreadDies(t)
    BY <1>5, ThreadStepInv
  <1>6. CASE UNCHANGED vars
    BY <1>6 DEF vars, IInv, TypeOK, RunInv, FindingsNeedLink, CompletedMeansReached,
       MainInv, ThreadInv, AllDone, Scanning, Last
  <1>. QED
    BY <1>1, <1>2, <1>3, <1>4, <1>5, <1>6 DEF Next, MainStep

\* The inductive invariant of the scan.
THEOREM Invariance == Spec => []IInv
  BY InitInv, NextInv, PTL DEF Spec

\* Every reachable state of a scan is well typed.
THEOREM ScanTypeCorrect == Spec => []TypeOK
  BY Invariance, PTL DEF IInv

\* No finding is saved for an instance that its run does not link.
THEOREM FindingsLinked == Spec => []FindingsNeedLink
  BY Invariance, PTL DEF IInv, RunInv

\* A run that ends without errors has linked every target.
THEOREM CompletedReached == Spec => []CompletedMeansReached
  BY Invariance, PTL DEF IInv, RunInv

LEMMA FrozenStep ==
    ASSUME IInv, [Next]_vars, NEW r \in DOMAIN runs, runs[r].status # "running"
    PROVE  runs'[r].linked = runs[r].linked /\ runs'[r].findings = runs[r].findings
  <1>1. /\ runs \in Seq(RunRecords) /\ Len(runs) \in Nat /\ DOMAIN runs = 1 .. Len(runs)
        /\ Len(runs) >= 1
    BY DEF IInv, TypeOK
  <1>2. CASE UNCHANGED runs
    BY <1>2
  <1>3. CASE BeginAuditRun
    BY <1>1, <1>3 DEF BeginAuditRun
  <1>4. CASE LoadTargetsFails \/ CompleteAuditRun
    <2>1. PICK status : runs' = [runs EXCEPT ![Len(runs)] = [runs[Len(runs)] EXCEPT !.status = status]]
      BY <1>4 DEF LoadTargetsFails, CompleteAuditRun
    <2>2. runs[r] \in RunRecords
      BY <1>1
    <2>3. runs'[r] = IF r = Len(runs) THEN [runs[r] EXCEPT !.status = status] ELSE runs[r]
      BY <1>1, <2>1
    <2>. QED
      BY <2>2, <2>3 DEF RunRecords
  <1>5. CASE \E t \in Instances : LinkInstance(t) \/ \E k \in Keys : SaveFinding(t, k)
    <2>1. Scanning
      BY <1>5, ThreadsNeedScan DEF LinkInstance, SaveFinding, Ended
    <2>2. r # Len(runs)
      BY <2>1 DEF IInv, MainInv, Last
    <2>3. runs'[r] = runs[r]
      BY <1>1, <1>5, <2>2 DEF LinkInstance, SaveFinding
    <2>. QED
      BY <2>3
  <1>. QED
    BY <1>2, <1>3, <1>4, <1>5
       DEF Next, MainStep, vars, StartAudit, LoadTargets, SaveAuditReport, Interrupt,
           RunAuditRaises, Kill, ProcessEnds, ThreadStep, StartTarget, LookupServer,
           InsertServer, InsertServerConflict, TargetDone, TargetRaises, Hang, ThreadDies

\* Once a run is closed, no thread that is still alive writes into it.
THEOREM ClosedFrozen == Spec => ClosedRunsAreFrozen
  <1>1. IInv /\ [Next]_vars =>
          [\A r \in DOMAIN runs : runs[r].status # "running" =>
              /\ runs'[r].linked = runs[r].linked
              /\ runs'[r].findings = runs[r].findings]_vars
    BY FrozenStep
  <1>. QED
    BY <1>1, Invariance, PTL DEF Spec, ClosedRunsAreFrozen

----------------------------------------------------------------------------
\* The threads implement the engine's scan.

\* When no thread is alive, the engine sees the tables as they are.
LEMMA ShownWhenDone ==
    ASSUME IInv, AllDone
    PROVE  ShownRuns = runs
  <1>1. runs \in Seq(RunRecords) /\ Len(runs) \in Nat /\ DOMAIN runs = 1 .. Len(runs)
    BY DEF IInv, TypeOK
  <1>2. ASSUME Len(runs) >= 1 PROVE Shown(Last, Finished) = Last
    <2>1. Last \in RunRecords
      BY <1>2, LastIsRecord DEF IInv
    <2>2. Last.linked \subseteq Finished
      BY <1>2, <2>1 DEF IInv, ThreadInv, AllDone, Finished, Ended, RunRecords
    <2>3. \A k \in Keys : InstanceOf[k] \notin Finished => Last.findings[k] = None
      BY <1>1, <1>2, <2>2 DEF IInv, RunInv, FindingsNeedLink, Last
    <2>. DEFINE shown == [k \in Keys |-> IF InstanceOf[k] \in Finished
                                         THEN Last.findings[k] ELSE None]
    <2>4. shown = Last.findings
      BY <2>1, <2>3 DEF RunRecords
    <2>5. Last.linked \cap Finished = Last.linked
      BY <2>2
    <2>6. Last = [status |-> Last.status, type |-> Last.type,
                  linked |-> Last.linked, findings |-> Last.findings]
      BY <2>1 DEF RunRecords
    <2>. QED
      BY <2>4, <2>5, <2>6 DEF Shown
  <1>. QED
    BY <1>1, <1>2 DEF ShownRuns, Last

\* The engine sees nothing of a step that neither ends a thread nor shows in
\* the runs table.
LEMMA InnerStep ==
    ASSUME UNCHANGED <<book, main>>, ShownRuns' = ShownRuns,
           \A t \in Instances : pc'[t] = pc[t] \/ (pc[t] \notin Ended /\ pc'[t] \notin Ended)
    PROVE  UNCHANGED Engine!vars
  <1>1. Finished' = Finished
    BY DEF Finished
  <1>2. (\E t \in Instances : pc[t] = "failed")' = (\E t \in Instances : pc[t] = "failed")
    BY DEF Ended
  <1>3. Scanning' = Scanning
    BY DEF Scanning
  <1>. QED
    BY <1>1, <1>2, <1>3 DEF Engine!vars, Engine!tables, Engine!session

LEMMA RecordEqual ==
    ASSUME NEW old \in RunRecords, NEW new \in RunRecords,
           new.status = old.status, new.type = old.type,
           new.linked = old.linked, new.findings = old.findings
    PROVE  new = old
  BY DEF RunRecords

LEMMA RecordUpdate ==
    ASSUME NEW old \in RunRecords, NEW new \in RunRecords,
           NEW t \in Instances,
           NEW findings \in [Keys -> Statuses \cup {None}],
           new.status = old.status, new.type = old.type,
           new.linked = old.linked \cup {t}, new.findings = findings
    PROVE  new = [old EXCEPT !.linked = @ \cup {t}, !.findings = findings]
  BY DEF RunRecords

\* A thread that ends is a target that the engine has processed, or one that
\* it could not reach.
LEMMA EndStep ==
    ASSUME IInv, NEW t \in Instances, NEW how \in Ended,
           pc[t] \notin Ended \cup {"absent"}, Goto(t, how),
           UNCHANGED <<runs, book, main>>,
           how = "ok" => t \in Last.linked
    PROVE  Engine!ProcessTarget(t) \/ Engine!TargetUnreachable(t)
  <1>1. Scanning /\ Scanning' /\ Len(runs) >= 1
    BY ThreadsNeedScan DEF Scanning
  <1>2. Finished' = Finished \cup {t} /\ t \notin Finished
    BY DEF IInv, TypeOK, Goto, Finished
  <1>. DEFINE failed == \E u \in Instances : pc[u] = "failed"
  <1>3. failed' = (failed \/ how = "failed")
    BY DEF IInv, TypeOK, Goto, Ended
  <1>4. /\ Len(runs) \in DOMAIN runs /\ Last \in RunRecords
        /\ runs \in Seq(RunRecords) /\ DOMAIN runs = 1 .. Len(runs) /\ Len(runs) \in Nat
    BY <1>1, LastIsRecord DEF IInv, TypeOK
  <1>5. Last.linked \subseteq Instances /\ Last' = Last
    BY <1>4 DEF RunRecords, Last
  <1>. DEFINE n      == Len(runs)
              before == Shown(Last, Finished)
              after  == Shown(Last, Finished')
  <1>6. /\ ShownRuns = [r \in DOMAIN runs |-> IF r = n THEN before ELSE runs[r]]
        /\ ShownRuns' = [r \in DOMAIN runs |-> IF r = n THEN after ELSE runs[r]]
    <2>. HIDE DEF Shown
    <2>. QED
      BY <1>5 DEF ShownRuns, Last
  <1>7. /\ before \in RunRecords
        /\ before.status = Last.status /\ before.type = Last.type
        /\ before.linked = Last.linked \cap Finished
        /\ before.findings = [k \in Keys |-> IF InstanceOf[k] \in Finished
                                             THEN Last.findings[k] ELSE None]
    BY <1>4 DEF Shown, RunRecords
  <1>8. /\ after \in RunRecords
        /\ after.status = Last.status /\ after.type = Last.type
        /\ after.linked = Last.linked \cap Finished'
        /\ after.findings = [k \in Keys |-> IF InstanceOf[k] \in Finished'
                                            THEN Last.findings[k] ELSE None]
    BY <1>4 DEF Shown, RunRecords
  <1>. HIDE DEF before, after
  <1>9. Len(ShownRuns) = n /\ n \in DOMAIN ShownRuns /\ ShownRuns[n] = before
    BY <1>4, <1>6
  <1>10. CASE t \in Last.linked
    <2>. DEFINE found == [k \in KeysOf(t) |-> Last.findings[k]]
                saved == [k \in Keys |-> IF k \in KeysOf(t) THEN found[k]
                                         ELSE before.findings[k]]
    <2>1. found \in [KeysOf(t) -> Outcomes]
      BY <1>4 DEF KeysOf, IInv, RunInv, Last
    <2>2. after.linked = before.linked \cup {t}
      BY <1>2, <1>7, <1>8, <1>10
    <2>3. after.findings = saved
      <3>1. \A k \in Keys : k \in KeysOf(t) <=> InstanceOf[k] = t
        BY DEF KeysOf
      <3>2. \A k \in Keys :
               (IF InstanceOf[k] \in Finished' THEN Last.findings[k] ELSE None) = saved[k]
        BY <1>2, <1>7, <3>1
      <3>. QED
        BY <1>8, <3>2
    <2>. HIDE DEF found, saved
    <2>4. after = [before EXCEPT !.linked = @ \cup {t}, !.findings = saved]
      <3>1. saved \in [Keys -> Statuses \cup {None}]
        BY <1>8, <2>3 DEF RunRecords
      <3>2. /\ before \in RunRecords /\ after \in RunRecords
            /\ after.status = before.status /\ after.type = before.type
        BY <1>7, <1>8
      <3>. QED
        BY <2>2, <2>3, <3>1, <3>2, RecordUpdate
    <2>5. ShownRuns' = [ShownRuns EXCEPT ![n] = after]
      BY <1>6, <1>9
    <2>6. ShownRuns' = [ShownRuns EXCEPT ![n].linked = @ \cup {t}, ![n].findings = saved]
      BY <1>9, <2>4, <2>5
    <2>7. saved = [k \in Keys |-> IF k \in KeysOf(t) THEN found[k]
                                 ELSE ShownRuns[n].findings[k]]
      BY <1>9 DEF saved
    <2>8. ShownRuns' = [ShownRuns EXCEPT
             ![Len(ShownRuns)].linked = @ \cup {t},
             ![Len(ShownRuns)].findings =
                 [k \in Keys |-> IF k \in KeysOf(t) THEN found[k] ELSE @[k]]]
      BY <1>9, <2>6, <2>7
    <2>. QED
      BY <1>1, <1>2, <1>3, <2>1, <2>8
         DEF Engine!ProcessTarget, Engine!KeysOf, KeysOf, Scanning
  <1>11. CASE t \notin Last.linked
    <2>1. how = "failed"
      BY <1>11 DEF Ended
    <2>2. \A k \in Keys : InstanceOf[k] = t => Last.findings[k] = None
      BY <1>4, <1>11 DEF IInv, RunInv, FindingsNeedLink, Last
    <2>3. before.linked = after.linked
      BY <1>2, <1>7, <1>8, <1>11
    <2>4. before.findings = after.findings
      <3>1. \A k \in Keys : before.findings[k] = after.findings[k]
        BY <1>2, <1>7, <1>8, <2>2
      <3>. QED
        BY <1>7, <1>8, <3>1 DEF RunRecords
    <2>5. before = after
      <3>1. /\ before \in RunRecords /\ after \in RunRecords
            /\ after.status = before.status /\ after.type = before.type
        BY <1>7, <1>8
      <3>. QED
        BY <2>3, <2>4, <3>1, RecordEqual
    <2>6. ShownRuns' = ShownRuns
      BY <1>6, <2>5
    <2>. QED
      BY <1>1, <1>2, <1>3, <2>1, <2>6
         DEF Engine!TargetUnreachable, Engine!tables, Scanning
  <1>. QED
    BY <1>10, <1>11

\* What a thread writes before it ends does not show.
LEMMA HiddenWrite ==
    ASSUME IInv, IInv', NEW t \in Instances, pc[t] = "link" \/ pc[t] = "collect",
           LinkInstance(t) \/ \E k \in Keys : SaveFinding(t, k)
    PROVE  ShownRuns' = ShownRuns
  <1>1. Scanning /\ Len(runs) >= 1
    BY ThreadsNeedScan DEF Ended
  <1>2. /\ Len(runs) \in DOMAIN runs /\ Last \in RunRecords
        /\ runs \in Seq(RunRecords) /\ DOMAIN runs = 1 .. Len(runs) /\ Len(runs) \in Nat
    BY <1>1, LastIsRecord DEF IInv, TypeOK
  <1>3. Finished' = Finished /\ t \notin Finished
    BY DEF LinkInstance, SaveFinding, Goto, Finished, IInv, TypeOK, Ended
  <1>4. /\ Len(runs') = Len(runs) /\ DOMAIN runs' = DOMAIN runs
        /\ \A q \in DOMAIN runs : q # Len(runs) => runs'[q] = runs[q]
        /\ Last'.status = Last.status /\ Last'.type = Last.type
        /\ Last'.linked \cap Finished = Last.linked \cap Finished
        /\ \A j \in Keys : InstanceOf[j] \in Finished => Last'.findings[j] = Last.findings[j]
    <2>1. CASE LinkInstance(t)
      <3>1. runs' = [runs EXCEPT ![Len(runs)] = [Last EXCEPT !.linked = @ \cup {t}]]
        BY <2>1 DEF LinkInstance, Last
      <3>2. /\ Len(runs') = Len(runs) /\ DOMAIN runs' = DOMAIN runs
            /\ \A q \in DOMAIN runs : q # Len(runs) => runs'[q] = runs[q]
            /\ Last' = [Last EXCEPT !.linked = @ \cup {t}]
        BY <1>2, <3>1 DEF Last, IInv, TypeOK
      <3>. QED
        BY <1>2, <1>3, <3>2 DEF RunRecords
    <2>2. CASE \E k \in Keys : SaveFinding(t, k)
      <3>1. PICK k \in Keys : SaveFinding(t, k)
        BY <2>2
      <3>2. /\ InstanceOf[k] = t
            /\ Last' = [Last EXCEPT !.findings[k] = Last'.findings[k]]
            /\ Len(runs') = Len(runs)
            /\ \A q \in DOMAIN runs : q # Len(runs) => runs'[q] = runs[q]
        BY <3>1, SaveStep
      <3>3. DOMAIN runs' = DOMAIN runs
        BY <1>2, <3>2 DEF IInv, TypeOK
      <3>. QED
        BY <1>2, <1>3, <3>2, <3>3 DEF RunRecords
    <2>. QED
      BY <2>1, <2>2
  <1>5. Shown(Last, Finished)' = Shown(Last, Finished)
    <2>1. [j \in Keys |-> IF InstanceOf[j] \in Finished THEN Last'.findings[j] ELSE None]
          = [j \in Keys |-> IF InstanceOf[j] \in Finished THEN Last.findings[j] ELSE None]
      BY <1>4
    <2>. QED
      BY <1>3, <1>4, <2>1 DEF Shown
  <1>. QED
    BY <1>2, <1>3, <1>4, <1>5 DEF ShownRuns, Last

LEMMA ThreadStepRefines ==
    ASSUME IInv, IInv', NEW t \in Instances,
           ThreadStep(t) \/ TargetRaises(t) \/ Hang(t) \/ ThreadDies(t)
    PROVE  Engine!ProcessTarget(t) \/ Engine!TargetUnreachable(t) \/ UNCHANGED Engine!vars
  <1>1. CASE InsertServerConflict(t) \/ TargetDone(t) \/ TargetRaises(t) \/ ThreadDies(t)
    <2>1. PICK how \in Ended : Goto(t, how) /\ (how = "ok" => pc[t] = "collect")
      BY <1>1 DEF InsertServerConflict, TargetDone, TargetRaises, ThreadDies, Ended
    <2>2. pc[t] \notin Ended \cup {"absent"} /\ UNCHANGED <<runs, book, main>>
      BY <1>1 DEF InsertServerConflict, TargetDone, TargetRaises, ThreadDies, Ended
    <2>3. how = "ok" => t \in Last.linked
      BY <2>1, <2>2, ThreadsNeedScan DEF IInv, ThreadInv
    <2>. QED
      BY <2>1, <2>2, <2>3, EndStep
  <1>2. CASE StartTarget(t) \/ LookupServer(t) \/ InsertServer(t) \/ Hang(t)
             \/ LinkInstance(t) \/ \E k \in Keys : SaveFinding(t, k)
    <2>1. /\ UNCHANGED <<book, main>>
          /\ \A u \in Instances : pc'[u] = pc[u] \/ (pc[u] \notin Ended /\ pc'[u] \notin Ended)
      BY <1>2 DEF StartTarget, LookupServer, InsertServer, Hang, LinkInstance,
         SaveFinding, Goto, Ended, IInv, TypeOK
    <2>2. ShownRuns' = ShownRuns
      <3>1. CASE LinkInstance(t) \/ \E k \in Keys : SaveFinding(t, k)
        BY <3>1, HiddenWrite DEF LinkInstance, SaveFinding
      <3>2. CASE UNCHANGED runs
        <4>1. Finished' = Finished
          BY <2>1 DEF Finished
        <4>. QED
          BY <3>2, <4>1 DEF ShownRuns
      <3>. QED
        BY <1>2, <3>1, <3>2 DEF StartTarget, LookupServer, InsertServer, Hang
    <2>. QED
      BY <2>1, <2>2, InnerStep
  <1>. QED
    BY <1>1, <1>2 DEF ThreadStep

\* The engine's session variables at the ends of a command.
LEMMA IdleSession ==
    ASSUME main' = "idle"
    PROVE  Engine!EndCommand
  BY DEF Engine!EndCommand, Scanning

LEMMA MainStepRefines ==
    ASSUME IInv, IInv', MainStep \/ Interrupt \/ RunAuditRaises \/ Kill \/ ProcessEnds
    PROVE  Engine!Next \/ UNCHANGED Engine!vars
  <1>0. ~Scanning => AllDone /\ ShownRuns = runs
    BY ShownWhenDone DEF IInv, MainInv
  <1>1. ~Scanning' => ShownRuns' = runs'
    <2>1. ASSUME ~Scanning PROVE AllDone => ShownRuns = runs
      BY ShownWhenDone
    <2>2. (IInv /\ AllDone)' => (ShownRuns = runs)'
      BY ShownWhenDone, PTL
    <2>. QED
      BY <2>2 DEF IInv, MainInv
  <1>2. CASE StartAudit
    BY <1>0, <1>1, <1>2
       DEF StartAudit, Scanning, Engine!Next, Engine!StartAudit, Engine!tables
  <1>3. CASE BeginAuditRun
    <2>1. /\ main = "begin" /\ main' = "load" /\ ~Scanning /\ ~Scanning'
          /\ runs' = Append(runs, NewRun) /\ UNCHANGED <<book, pc>>
      BY <1>3 DEF BeginAuditRun, Scanning
    <2>2. ShownRuns' = Append(ShownRuns, Engine!NewRun)
      <3>1. Engine!NewRun = NewRun
        BY DEF Engine!NewRun, NewRun, Engine!None, None
      <3>2. ShownRuns = runs /\ ShownRuns' = runs'
        BY <1>0, <1>1, <2>1
      <3>. QED
        BY <2>1, <3>1, <3>2
    <2>3. Engine!BeginAuditRun
      BY <2>1, <2>2 DEF Engine!BeginAuditRun
    <2>. QED
      BY <2>3 DEF Engine!Next, Engine!Progress, Engine!RunAudit
  <1>4. CASE LoadTargets
    <2>1. ShownRuns' = ShownRuns
      <3>1. runs' = runs /\ Last = NewRun /\ Len(runs) >= 1
        BY <1>4 DEF LoadTargets, IInv, MainInv
      <3>2. \A done : Shown(NewRun, done) = NewRun
        BY DEF Shown, NewRun
      <3>. QED
        BY <3>1, <3>2 DEF ShownRuns, Last
    <2>2. Scanning' /\ ~Scanning /\ Finished' = {} /\ \A t \in Instances : pc'[t] # "failed"
      BY <1>4 DEF LoadTargets, Scanning, Finished, Ended
    <2>3. Engine!LoadTargets
      BY <1>4, <2>1, <2>2 DEF LoadTargets, Engine!LoadTargets, Engine!tables
    <2>. QED
      BY <2>3 DEF Engine!Next, Engine!Progress, Engine!RunAudit
  <1>5. CASE LoadTargetsFails
    <2>1. Engine!LoadTargetsFails
      BY <1>0, <1>1, <1>5, IdleSession
         DEF LoadTargetsFails, Scanning, Engine!LoadTargetsFails, Engine!RaiseFromAudit
    <2>. QED
      BY <2>1 DEF Engine!Next, Engine!Progress, Engine!RunAudit
  <1>6. CASE CompleteAuditRun
    <2>1. Scanning /\ AllDone /\ ~Scanning' /\ UNCHANGED <<pc, book>>
      BY <1>6 DEF CompleteAuditRun, Scanning
    <2>2. ShownRuns = runs /\ ShownRuns' = runs'
      BY <1>1, <2>1, ShownWhenDone
    <2>3. Finished = Instances
      BY <2>1 DEF IInv, MainInv, AllDone, Finished
    <2>4. Engine!CompleteAuditRun
      BY <1>6, <2>1, <2>2, <2>3 DEF CompleteAuditRun, Engine!CompleteAuditRun
    <2>. QED
      BY <2>4 DEF Engine!Next, Engine!Progress, Engine!RunAudit
  <1>7. CASE SaveAuditReport
    <2>1. Engine!SaveAuditReport
      BY <1>0, <1>1, <1>7, IdleSession DEF SaveAuditReport, Scanning, Engine!SaveAuditReport
    <2>. QED
      BY <2>1 DEF Engine!Next, Engine!Progress
  <1>8. CASE Interrupt \/ (Kill /\ main \in {"scan", "interrupted"})
    <2>1. Scanning /\ Scanning' /\ UNCHANGED <<runs, pc, book>> /\ main # "idle" /\ main' # "idle"
      BY <1>8 DEF Interrupt, Kill, Scanning
    <2>2. Finished' = Finished /\ ShownRuns' = ShownRuns
      BY <2>1 DEF Finished, ShownRuns
    <2>. QED
      BY <2>1, <2>2 DEF Engine!vars, Engine!tables, Engine!session
  <1>9. CASE RunAuditRaises
    <2>1. AllDone /\ main' = "idle" /\ UNCHANGED <<runs, pc, book>> /\ ~Scanning'
      BY <1>9 DEF RunAuditRaises, Scanning
    <2>2. ShownRuns' = ShownRuns
      BY <1>1, <2>1, ShownWhenDone
    <2>3. Engine!RunAuditRaises
      BY <1>9, <2>1, <2>2, IdleSession
         DEF RunAuditRaises, Scanning, Engine!RunAuditRaises, Engine!RaiseFromAudit, Engine!tables
    <2>. QED
      BY <2>3 DEF Engine!Next
  <1>10. CASE ProcessEnds \/ (Kill /\ main \notin {"scan", "interrupted"})
    <2>1. /\ main # "idle" /\ main' = "idle" /\ UNCHANGED <<runs, pc, book>> /\ ~Scanning'
          /\ AllDone
      BY <1>0, <1>10 DEF ProcessEnds, Kill, Scanning
    <2>2. ShownRuns' = ShownRuns
      BY <1>1, <2>1, ShownWhenDone
    <2>3. Engine!Kill
      BY <2>1, <2>2, IdleSession DEF Scanning, Engine!Kill, Engine!tables
    <2>. QED
      BY <2>3 DEF Engine!Next
  <1>. QED
    BY <1>2, <1>3, <1>4, <1>5, <1>6, <1>7, <1>8, <1>9, <1>10 DEF MainStep

\* Any number of worker threads, interleaved in any way and failing anywhere,
\* does what the engine's one-step scan of a target allows; so what is proved
\* of the engine holds of the tables that a parallel scan leaves behind.
THEOREM ScanRefinesEngine == Spec => ImplementsEngine
  <1>1. Init => Engine!Init
    <2>. SUFFICES ASSUME Init PROVE Engine!Init
      OBVIOUS
    <2>1. ShownRuns = << >> /\ ~Scanning
      BY DEF Init, ShownRuns, Scanning
    <2>. QED
      BY <2>1 DEF Init, Engine!Init
  <1>2. IInv /\ IInv' /\ [Next]_vars => [Engine!Next]_(Engine!vars)
    <2>. SUFFICES ASSUME IInv, IInv', [Next]_vars
                  PROVE  Engine!Next \/ UNCHANGED Engine!vars
      OBVIOUS
    <2>1. CASE MainStep \/ Interrupt \/ RunAuditRaises \/ Kill \/ ProcessEnds
      BY <2>1, MainStepRefines
    <2>2. CASE \E t \in Instances : ThreadStep(t) \/ TargetRaises(t) \/ Hang(t) \/ ThreadDies(t)
      BY <2>2, ThreadStepRefines DEF Engine!Next, Engine!Progress, Engine!RunAudit
    <2>3. CASE UNCHANGED vars
      BY <2>3 DEF vars, Engine!vars, Engine!tables, Engine!session, ShownRuns, Finished, Scanning
    <2>. QED
      BY <2>1, <2>2, <2>3 DEF Next
  <1>. QED
    BY <1>1, <1>2, Invariance, PTL DEF Spec, ImplementsEngine, Engine!Spec
=============================================================================
