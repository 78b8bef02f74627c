--------------------------- MODULE AuditFilesProofs ---------------------------
(***************************************************************************)
(* What is proved of AuditFiles for any number of audits, runs, script     *)
(* generations and kills: an audit.json forgets nothing, a version folder  *)
(* holds one generation of scripts, a completed run's audit has a report   *)
(* unless a sync was writing over its working copy, and a finalized run    *)
(* has its archived copy, wherever a command dies.                         *)
(*                                                                         *)
(* The state at rest does not show why: it is what a command in flight     *)
(* remembers that must agree with the files it has not written yet.        *)
(***************************************************************************)
EXTENDS AuditFiles, FiniteSetTheorems, WellFoundedInduction, TLAPS

USE BoundsAssumption

States == {"absent", "broken", "ok"}

Metas == [state : States, entries : Seq(Entries), versions : 0..MaxVersions]

RunRows == [status : {"running", "completed", "failed", "finalized"},
            failing : BOOLEAN, audit : Copies]

Commands == [pc : PCs, audit : 0..MaxAudits, run : 0..MaxRuns, entry : 0..MaxRuns,
             version : 0..MaxVersions, force : BOOLEAN, next : Metas]

TypedInv ==
    /\ folders \subseteq Audits
    /\ meta \in [Audits -> Metas]
    /\ \A a \in Audits : Len(meta[a].entries) =< MaxRuns
    /\ snapshot \in [Audits -> States]
    /\ latest \in [Copies -> Reports]
    /\ newest \in Audits \cup {0}
    /\ root \subseteq Runs
    /\ scripts \in [Audits -> [Versions -> SUBSET (1..MaxVersions)]]
    /\ final \subseteq Final
    /\ runs \in Seq(RunRows)
    /\ Len(runs) =< MaxRuns
    /\ generation \in 0..MaxVersions
    /\ kills \in 0..MaxKills
    /\ cmd \in Commands

\* What the files and the database know of each other.
TablesInv ==
    /\ \A a \in Audits \ folders : meta[a] = NoMeta
    /\ \A a \in Audits : \A k \in 1..Len(meta[a].entries) :
         meta[a].entries[k].run =< Len(runs)
    /\ root \subseteq 1..Len(runs)
    /\ \A a \in Audits, v \in Versions : v > meta[a].versions => scripts[a][v] = {}

-----------------------------------------------------------------------------
(* The command in flight. *)

Saving == {"save", "saving"}
Opening == {"snapshot", "snapshotting", "create_run", "begin_run"}
Scanning == {"scan", "report"}
Moving == {"copy", "copying", "unlink"}
Syncing == {"sync_run", "sync_scan", "rewrite", "rewriting", "write_back",
            "writing_back"}
Finalizing == {"exceptions", "archive", "archiving", "mark"}

Entered == meta[cmd.audit].entries

\* The command's entry is there and is still to be completed.
EntryOpen == cmd.entry \in 1..Len(Entered) /\ ~Entered[cmd.entry].complete

\* The command's run is in the database, under the command's audit.
OwnRun(r) == r \in 1..Len(runs) /\ runs[r].audit = cmd.audit

\* What audit.json will say once saved, beside what it said before.
FreshSave ==
    /\ cmd.version = 0 /\ cmd.run = 0 /\ cmd.entry = 0
    /\ cmd.next = FreshMeta
    /\ Entered = <<>>
    /\ meta[cmd.audit].versions = 0

EntrySave ==
    /\ cmd.version = 0 /\ cmd.run = 0
    /\ cmd.entry = Len(Entered) + 1 /\ cmd.entry =< MaxRuns
    /\ cmd.next.entries = Append(Entered, [run |-> 0, complete |-> FALSE])
    /\ cmd.next.versions = meta[cmd.audit].versions

CompletionSave ==
    /\ cmd.version = 0
    /\ OwnRun(cmd.run) /\ latest[cmd.audit] = cmd.run
    /\ EntryOpen
    /\ cmd.next.entries =
         [Entered EXCEPT ![cmd.entry] = [run |-> cmd.run, complete |-> TRUE]]
    /\ cmd.next.versions = meta[cmd.audit].versions

VersionSave ==
    /\ cmd.version = meta[cmd.audit].versions + 1
    /\ cmd.next.entries = Entered
    /\ cmd.next.versions = cmd.version
    /\ scripts[cmd.audit][cmd.version] = {}
    /\ generation # 0

SaveInv ==
    cmd.pc \in Saving => FreshSave \/ EntrySave \/ CompletionSave \/ VersionSave

AuditInv ==
    /\ cmd.pc \in Opening \cup Scanning => cmd.version = 0 /\ cmd.run = 0
    /\ cmd.pc \in Moving \cup {"complete_run"} => cmd.version = 0 /\ OwnRun(cmd.run)
    /\ cmd.pc \in {"begin_run", "complete_run"} \cup Scanning \cup Moving => EntryOpen
    /\ cmd.pc \in Scanning => OwnRun(Len(runs))
    /\ cmd.pc \in Moving => cmd.run = Len(runs) /\ cmd.run \in root
    /\ cmd.pc \in {"unlink", "complete_run"} => latest[cmd.audit] = cmd.run

GenerateInv ==
    cmd.pc = "generate" => /\ cmd.version \in 1..meta[cmd.audit].versions
                           /\ scripts[cmd.audit][cmd.version] = {}
                           /\ generation # 0

FinalizeInv ==
    /\ cmd.pc \in Finalizing =>
         cmd.run \in 1..Len(runs) /\ runs[cmd.run].status # "finalized"
    /\ cmd.pc = "mark" => \E f \in final : f.run = cmd.run /\ f.whole

SyncInv == cmd.pc \in Syncing \ {"sync_run"} => OwnRun(Len(runs))

CommandInv ==
    /\ cmd.pc \notin Finalizing \cup Syncing \cup {"idle"} => cmd.audit \in folders
    /\ cmd.pc # "version"
    /\ SaveInv /\ AuditInv /\ GenerateInv /\ FinalizeInv /\ SyncInv

AtMostOne ==
    \A a \in Audits, v \in Versions :
      scripts[a][v] = {} \/ \E g \in 1..MaxVersions : scripts[a][v] = {g}

IInv ==
    /\ TypedInv
    /\ TablesInv
    /\ CommandInv
    /\ AtMostOne
    /\ ReportSurvives
    /\ FinalizedIsArchived

-----------------------------------------------------------------------------
(* Lookups and updates. *)

\* What Highest chooses among some of the numbers up to a bound.
LEMMA HighestIn ==
    ASSUME NEW N \in Nat, NEW S \in SUBSET (1..N), S # {}
    PROVE  Highest(S) \in S /\ \A y \in S : y =< Highest(S)
<1>1. \E x \in S : \A y \in S : y =< x
  <2>. DEFINE Less == { ss \in Nat \X Nat : ss[1] < ss[2] }
              Gaps == { d \in 0..N : N - d \in S }
  <2>1. IsWellFoundedOn(Less, Nat)
    BY NatLessThanWellFounded DEF OpToRel
  <2>2. Gaps \subseteq Nat /\ Gaps # {}
    <3>1. PICK x \in S : TRUE
      OBVIOUS
    <3>2. N - x \in 0..N /\ N - (N - x) = x
      OBVIOUS
    <3>3. N - x \in Gaps
      BY <3>2
    <3>4. Gaps \subseteq Nat
      OBVIOUS
    <3>. HIDE DEF Gaps
    <3>. QED  BY <3>3, <3>4
  <2>3. \E d \in Gaps : \A e \in Gaps : ~(<<e, d>> \in Less)
    <3>. HIDE DEF Gaps, Less
    <3>. QED  BY <2>1, <2>2, WFMin
  <2>4. PICK d \in Gaps : \A e \in Gaps : ~(<<e, d>> \in Less)
    BY <2>3
  <2>5. ASSUME NEW y \in S PROVE y =< N - d
    <3>1. N - y \in Gaps /\ d \in Nat /\ N - y \in Nat
      <4>1. N - y \in 0..N /\ N - (N - y) = y
        OBVIOUS
      <4>. QED  BY <4>1
    <3>2. <<N - y, d>> \in Less <=> N - y < d
      BY <3>1
    <3>. QED  BY <2>4, <3>1, <3>2
  <2>. QED  BY <2>4, <2>5
<1>. QED  BY <1>1 DEF Highest

\* A new audit's number is that of no folder.
LEMMA NextAudit ==
    ASSUME TypedInv, LastAudit < MaxAudits
    PROVE  LastAudit + 1 \in Audits \ folders
<1>1. CASE folders = {}
  BY <1>1 DEF LastAudit, Audits
<1>2. CASE folders # {}
  <2>1. LastAudit \in folders /\ \A a \in folders : a =< LastAudit
    BY <1>2, HighestIn DEF TypedInv, Audits, LastAudit
  <2>. QED  BY <2>1 DEF TypedInv, Audits
<1>. QED  BY <1>1, <1>2

LEMMA SourceTyped ==
    ASSUME TypedInv
    PROVE  Source \in Reports
<1>1. latest[0] \in Reports /\ (newest # 0 => latest[newest] \in Reports)
  BY DEF TypedInv, Copies
<1>2. root # {} => Highest(root) \in Runs
  BY HighestIn DEF TypedInv, Runs
<1>. QED  BY <1>1, <1>2 DEF Source, Reports

LEMMA IdleTyped ==
    /\ Idle \in Commands
    /\ Idle.pc = "idle" /\ Idle.run = 0 /\ Idle.version = 0
  BY DEF Idle, Commands, PCs, NoMeta, MetaData, Metas, States

\* A command that is over, or was killed, has nothing to agree with.
LEMMA IdleIsSettled ==
    ASSUME cmd' = Idle
    PROVE  CommandInv'
  BY IdleTyped DEF CommandInv, SaveInv, AuditInv, GenerateInv, FinalizeInv, SyncInv,
     Saving, Opening, Scanning, Moving, Finalizing, Syncing

\* The command goes on with what it knows.
LEMMA GoingOn ==
    ASSUME TypedInv, NEW pc \in PCs, Goto(pc)
    PROVE  /\ cmd' \in Commands
           /\ cmd'.pc = pc
           /\ cmd'.audit = cmd.audit /\ cmd'.run = cmd.run /\ cmd'.entry = cmd.entry
           /\ cmd'.version = cmd.version /\ cmd'.next = cmd.next
  BY DEF TypedInv, Commands, Goto

\* A row of the table of runs changes its status or its failing findings.
LEMMA RowsUpdated ==
    ASSUME TypedInv, NEW r \in 1..Len(runs), NEW row \in RunRows,
           row.audit = runs[r].audit, runs' = [runs EXCEPT ![r] = row]
    PROVE  /\ runs' \in Seq(RunRows) /\ Len(runs') = Len(runs)
           /\ runs'[r] = row
           /\ \A i \in 1..Len(runs) : runs'[i].audit = runs[i].audit
           /\ \A i \in 1..Len(runs) \ {r} : runs'[i] = runs[i]
  BY DEF TypedInv

LEMMA EntryTyped ==
    ASSUME TypedInv, NEW a \in Audits, NEW k \in 1..Len(meta[a].entries)
    PROVE  meta[a].entries[k].run \in 0..MaxRuns
<1>1. meta[a].entries \in Seq(Entries)
  BY DEF TypedInv, Metas
<1>2. meta[a].entries[k] \in Entries
  BY <1>1
<1>. QED  BY <1>2 DEF Entries

\* None of the files is touched, and so none of what they hold.
LEMMA TablesStand ==
    ASSUME IInv, UNCHANGED <<folders, meta, root, scripts, runs>>
    PROVE  TablesInv'
  BY DEF IInv, TablesInv

LEMMA ScriptsStand ==
    ASSUME IInv, UNCHANGED scripts
    PROVE  AtMostOne'
  BY DEF IInv, AtMostOne

LEMMA ReportsStand ==
    ASSUME IInv, UNCHANGED <<meta, latest, root, runs>>
    PROVE  ReportSurvives'
  BY DEF IInv, ReportSurvives, SavedReports

LEMMA ArchiveStands ==
    ASSUME IInv, UNCHANGED <<final, runs>>
    PROVE  FinalizedIsArchived'
  BY DEF IInv, FinalizedIsArchived

\* Only the command moves.
LEMMA FilesStand ==
    ASSUME IInv, UNCHANGED <<folders, meta, snapshot, latest, newest, root, scripts,
                             final, runs>>,
           generation' \in 0..MaxVersions, kills' \in 0..MaxKills,
           cmd' \in Commands, CommandInv'
    PROVE  IInv'
<1>1. TypedInv'
  BY DEF IInv, TypedInv
<1>. QED  BY <1>1, TablesStand, ScriptsStand, ReportsStand, ArchiveStands DEF IInv

-----------------------------------------------------------------------------
(* The steps of a command between its writes. *)

\* A command that gives up, is refused, or dies.
LEMMA Stops ==
    ASSUME IInv,
           SnapshotRaises \/ CopyRefused \/ WriteBackFails \/ ArchiveFails \/ Kill
    PROVE  IInv'
<1>1. /\ cmd' = Idle /\ generation' = generation
      /\ UNCHANGED <<folders, meta, snapshot, latest, newest, root, scripts, final, runs>>
  BY DEF SnapshotRaises, CopyRefused, WriteBackFails, ArchiveFails, Kill, Files
<1>2. kills' \in 0..MaxKills /\ generation' \in 0..MaxVersions
  BY DEF IInv, TypedInv, SnapshotRaises, CopyRefused, WriteBackFails, ArchiveFails, Kill,
     Files
<1>. QED  BY <1>1, <1>2, IdleTyped, IdleIsSettled, FilesStand

LEMMA AuditIdStep ==
    ASSUME IInv, NEW a \in Audits, AuditId(a)
    PROVE  IInv'
<1>1. /\ UNCHANGED <<Files, runs>> /\ meta[a].state = "ok"
      /\ cmd' = [Idle EXCEPT !.pc = "snapshot", !.audit = a]
  BY DEF AuditId
<1>2. a \in folders
  BY <1>1 DEF IInv, TablesInv, NoMeta, MetaData
<1>3. /\ cmd' \in Commands
      /\ cmd'.pc = "snapshot" /\ cmd'.audit = a /\ cmd'.run = 0 /\ cmd'.version = 0
  <2>1. a \in 0..MaxAudits
    BY DEF Audits
  <2>. QED  BY <1>1, <2>1, IdleTyped DEF Commands, PCs
<1>4. CommandInv'
  BY <1>1, <1>2, <1>3 DEF Files, CommandInv, SaveInv, AuditInv, GenerateInv,
     FinalizeInv, SyncInv, Saving, Opening, Scanning, Moving, Finalizing, Syncing
<1>. QED  BY <1>1, <1>3, <1>4, FilesStand DEF Files, IInv, TypedInv

LEMMA SnapshotPassed ==
    ASSUME IInv, KeepSnapshot \/ SkipSnapshot
    PROVE  IInv'
<1>1. UNCHANGED <<Files, runs>> /\ cmd.pc = "snapshot" /\ Goto("create_run")
  BY DEF KeepSnapshot, SkipSnapshot
<1>2. /\ cmd' \in Commands /\ cmd'.pc = "create_run" /\ cmd'.audit = cmd.audit
      /\ cmd'.run = cmd.run /\ cmd'.version = cmd.version
  BY <1>1, GoingOn DEF IInv, PCs
<1>3. CommandInv'
  BY <1>1, <1>2 DEF Files, IInv, CommandInv, SaveInv, AuditInv, GenerateInv,
     FinalizeInv, SyncInv, Saving, Opening, Scanning, Moving, Finalizing, Syncing
<1>. QED  BY <1>1, <1>2, <1>3, FilesStand DEF Files, IInv, TypedInv

\* The audit a command is at has its folder and its audit.json.
LEMMA AuditKnown ==
    ASSUME IInv, cmd.pc \notin Finalizing \cup Syncing \cup {"idle"}
    PROVE  /\ cmd.audit \in Audits
           /\ meta[cmd.audit] \in Metas
           /\ Entered \in Seq(Entries) /\ Len(Entered) \in 0..MaxRuns
<1>1. cmd.audit \in Audits
  BY DEF IInv, TypedInv, CommandInv
<1>2. meta[cmd.audit] \in Metas
  BY <1>1 DEF IInv, TypedInv
<1>. QED  BY <1>1, <1>2 DEF IInv, TypedInv, Metas, Entered

LEMMA CreateRunStep ==
    ASSUME IInv, CreateRun
    PROVE  IInv'
<1>. DEFINE next == AppendEntry(meta[cmd.audit])
<1>1. /\ UNCHANGED <<Files, runs>> /\ cmd.pc = "create_run" /\ Len(Entered) < MaxRuns
      /\ cmd' = [cmd EXCEPT !.pc = "save", !.entry = Len(Entered) + 1, !.next = next]
  BY DEF CreateRun, Entered
<1>2. /\ cmd.audit \in Audits /\ cmd.audit \in folders /\ meta[cmd.audit] \in Metas
      /\ Entered \in Seq(Entries) /\ Len(Entered) \in 0..MaxRuns
      /\ cmd.run = 0 /\ cmd.version = 0
  BY <1>1, AuditKnown DEF IInv, CommandInv, AuditInv, Opening, Finalizing, Syncing
<1>3. [run |-> 0, complete |-> FALSE] \in Entries
  BY DEF Entries
<1>4. /\ next \in Metas
      /\ next.entries = Append(Entered, [run |-> 0, complete |-> FALSE])
      /\ next.versions = meta[cmd.audit].versions
  <2>1. Append(Entered, [run |-> 0, complete |-> FALSE]) \in Seq(Entries)
    BY <1>2, <1>3
  <2>. QED  BY <1>2, <2>1 DEF AppendEntry, Metas, Entered
<1>. HIDE DEF next
<1>5. /\ cmd' \in Commands
      /\ cmd'.pc = "save" /\ cmd'.audit = cmd.audit /\ cmd'.run = 0 /\ cmd'.version = 0
      /\ cmd'.entry = Len(Entered) + 1 /\ cmd'.next = next
  <2>1. cmd \in Commands /\ Len(Entered) + 1 \in 0..MaxRuns
    BY <1>1, <1>2 DEF IInv, TypedInv
  <2>. QED  BY <1>1, <1>2, <1>4, <2>1 DEF Commands, PCs
<1>6. EntrySave'
  BY <1>1, <1>2, <1>4, <1>5 DEF EntrySave, Entered, Files
<1>7. CommandInv'
  BY <1>1, <1>2, <1>5, <1>6 DEF Files, CommandInv, SaveInv, AuditInv, GenerateInv,
     FinalizeInv, SyncInv, Saving, Opening, Scanning, Moving, Finalizing, Syncing
<1>. QED  BY <1>1, <1>5, <1>7, FilesStand DEF Files, IInv, TypedInv

LEMMA CompleteRunStep ==
    ASSUME IInv, CompleteRun
    PROVE  IInv'
<1>. DEFINE row == [run |-> cmd.run, complete |-> TRUE]
            next == CompleteEntry(meta[cmd.audit], cmd.entry, cmd.run)
<1>1. /\ UNCHANGED <<Files, runs>> /\ cmd.pc = "complete_run"
      /\ cmd' = [cmd EXCEPT !.pc = "save", !.next = next]
  BY DEF CompleteRun
<1>2. /\ cmd.audit \in Audits /\ cmd.audit \in folders /\ meta[cmd.audit] \in Metas
      /\ Entered \in Seq(Entries) /\ EntryOpen /\ OwnRun(cmd.run)
      /\ latest[cmd.audit] = cmd.run /\ cmd.version = 0
  BY <1>1, AuditKnown DEF IInv, CommandInv, AuditInv, Finalizing, Syncing
<1>3. row \in Entries
  BY DEF IInv, TypedInv, Commands, Entries
<1>4. /\ next \in Metas
      /\ next.entries = [Entered EXCEPT ![cmd.entry] = row]
      /\ next.versions = meta[cmd.audit].versions
  <2>1. [Entered EXCEPT ![cmd.entry] = row] \in Seq(Entries)
    BY <1>2, <1>3 DEF EntryOpen
  <2>2. next = [meta[cmd.audit] EXCEPT !.entries = [Entered EXCEPT ![cmd.entry] = row]]
    BY <1>2 DEF CompleteEntry, Entered, Metas
  <2>. HIDE DEF next, row
  <2>. QED  BY <1>2, <2>1, <2>2 DEF Metas
<1>. HIDE DEF next
<1>5. /\ cmd' \in Commands /\ cmd'.pc = "save" /\ cmd'.audit = cmd.audit
      /\ cmd'.run = cmd.run /\ cmd'.version = 0
      /\ cmd'.entry = cmd.entry /\ cmd'.next = next
  BY <1>1, <1>2, <1>4 DEF IInv, TypedInv, Commands, PCs
<1>6. CompletionSave'
  BY <1>1, <1>2, <1>4, <1>5 DEF CompletionSave, EntryOpen, OwnRun, Entered, Files
<1>7. CommandInv'
  BY <1>1, <1>2, <1>5, <1>6 DEF Files, CommandInv, SaveInv, AuditInv, GenerateInv,
     FinalizeInv, SyncInv, Saving, Opening, Scanning, Moving, Finalizing, Syncing
<1>. QED  BY <1>1, <1>5, <1>7, FilesStand DEF Files, IInv, TypedInv

LEMMA CreateVersionStep ==
    ASSUME IInv, NEW a \in Audits, CreateRemediationVersion(a)
    PROVE  IInv'
<1>. DEFINE next == CountVersion(meta[a])
<1>1. /\ UNCHANGED <<folders, meta, snapshot, latest, newest, root, scripts, final, runs, kills>>
      /\ meta[a].state = "ok" /\ meta[a].versions < MaxVersions
      /\ generation < MaxVersions /\ generation' = generation + 1
      /\ cmd' = [Idle EXCEPT !.pc = "save", !.audit = a,
                             !.version = meta[a].versions + 1, !.next = next]
  BY DEF CreateRemediationVersion
<1>2. a \in folders
  BY <1>1 DEF IInv, TablesInv, NoMeta, MetaData
<1>3. meta[a] \in Metas
  BY DEF IInv, TypedInv
<1>4. /\ next \in Metas /\ next.entries = meta[a].entries
      /\ next.versions = meta[a].versions + 1
  BY <1>1, <1>3 DEF CountVersion, Metas
<1>. HIDE DEF next
<1>5. /\ cmd' \in Commands /\ cmd'.pc = "save" /\ cmd'.audit = a
      /\ cmd'.version = meta[a].versions + 1 /\ cmd'.next = next
  <2>1. a \in 0..MaxAudits /\ meta[a].versions + 1 \in 0..MaxVersions
    BY <1>1, <1>3 DEF Audits, Metas
  <2>. QED  BY <1>1, <1>4, <2>1, IdleTyped DEF Commands, PCs
<1>6. scripts[a][meta[a].versions + 1] = {}
  BY <1>1, <1>3 DEF IInv, TablesInv, Metas, Versions
<1>7. VersionSave'
  BY <1>1, <1>4, <1>5, <1>6 DEF VersionSave, Entered, IInv, TypedInv
<1>8. CommandInv'
  BY <1>1, <1>2, <1>5, <1>7 DEF CommandInv, SaveInv, AuditInv, GenerateInv, FinalizeInv,
     SyncInv, Saving, Opening, Scanning, Moving, Finalizing, Syncing
<1>9. generation' \in 0..MaxVersions /\ kills' \in 0..MaxKills
  BY <1>1 DEF IInv, TypedInv
<1>. QED  BY <1>1, <1>5, <1>8, <1>9, FilesStand

\* The run that get_latest_run_id finds is one of the table's.
LEMMA LatestAmongRows ==
    ASSUME NEW rows \in Seq(RunRows)
    PROVE  /\ LatestAmong(rows) \in 0..Len(rows)
           /\ LatestAmong(rows) # 0 => LatestAmong(rows) \in 1..Len(rows)
<1>1. Len(rows) \in Nat /\ Valid(rows) \in SUBSET (1..Len(rows))
  BY DEF Valid
<1>2. Valid(rows) # {} => Highest(Valid(rows)) \in 1..Len(rows)
  <2>. HIDE DEF Valid
  <2>. QED  BY <1>1, HighestIn
<1>. QED  BY <1>1, <1>2 DEF LatestAmong

LEMMA StartFinalizeStep ==
    ASSUME IInv, NEW force \in BOOLEAN, StartFinalize(force)
    PROVE  IInv'
<1>1. /\ UNCHANGED <<Files, runs>>
      /\ LatestRun # 0 /\ runs[LatestRun].status # "finalized"
      /\ cmd' = [Idle EXCEPT !.pc = "exceptions", !.run = LatestRun, !.force = force]
  BY DEF StartFinalize
<1>2. LatestRun \in 1..Len(runs) /\ LatestRun \in 0..MaxRuns
  BY <1>1, LatestAmongRows DEF IInv, TypedInv, LatestRun
<1>3. cmd' \in Commands /\ cmd'.pc = "exceptions" /\ cmd'.run = LatestRun
  <2>. HIDE DEF LatestRun
  <2>. QED  BY <1>1, <1>2, IdleTyped DEF Idle, Commands, PCs
<1>4. CommandInv'
  BY <1>1, <1>2, <1>3 DEF Files, CommandInv, SaveInv, AuditInv, GenerateInv,
     FinalizeInv, SyncInv, Saving, Opening, Scanning, Moving, Finalizing, Syncing
<1>. QED  BY <1>1, <1>3, <1>4, FilesStand DEF Files, IInv, TypedInv

LEMMA StartSyncStep ==
    ASSUME IInv, NEW a \in Copies, StartSync(a)
    PROVE  IInv'
<1>1. /\ UNCHANGED <<Files, runs>>
      /\ cmd' = [Idle EXCEPT !.pc = "sync_run", !.audit = a]
  BY DEF StartSync
<1>2. cmd' \in Commands /\ cmd'.pc = "sync_run"
  <2>1. a \in 0..MaxAudits /\ "sync_run" \in PCs
    BY DEF Copies, Audits, PCs
  <2>. QED  BY <1>1, <2>1, IdleTyped DEF Commands
<1>3. CommandInv'
  BY <1>1, <1>2 DEF CommandInv, SaveInv, AuditInv, GenerateInv, FinalizeInv, SyncInv,
     Saving, Opening, Scanning, Moving, Finalizing, Syncing
<1>. QED  BY <1>1, <1>2, <1>3, FilesStand DEF Files, IInv, TypedInv

LEMMA ApplyExceptionsStep ==
    ASSUME IInv, ApplyExceptions
    PROVE  IInv'
<1>1. UNCHANGED <<Files, runs>> /\ cmd.pc = "exceptions" /\ (cmd' = Idle \/ Goto("archive"))
  BY DEF ApplyExceptions
<1>2. CASE cmd' = Idle
  BY <1>1, <1>2, IdleTyped, IdleIsSettled, FilesStand DEF Files, IInv, TypedInv
<1>3. CASE Goto("archive")
  <2>1. cmd' \in Commands /\ cmd'.pc = "archive" /\ cmd'.run = cmd.run
    BY <1>3, GoingOn DEF IInv, PCs
  <2>2. CommandInv'
    BY <1>1, <2>1 DEF Files, IInv, CommandInv, SaveInv, AuditInv, GenerateInv,
       FinalizeInv, SyncInv, Saving, Opening, Scanning, Moving, Finalizing, Syncing
  <2>. QED  BY <1>1, <2>1, <2>2, FilesStand DEF Files, IInv, TypedInv
<1>. QED  BY <1>1, <1>2, <1>3

-----------------------------------------------------------------------------
(* The steps that write one file, or the database. *)

LEMMA NewAuditStep ==
    ASSUME IInv, CreateNewAudit
    PROVE  IInv'
<1>. DEFINE a == LastAudit + 1
<1>1. /\ UNCHANGED <<meta, snapshot, latest, newest, root, scripts, final, runs,
                     generation, kills>>
      /\ folders' = folders \cup {a}
      /\ cmd' = [Idle EXCEPT !.pc = "save", !.audit = a, !.next = FreshMeta]
  BY DEF CreateNewAudit
<1>2. a \in Audits \ folders
  BY NextAudit DEF CreateNewAudit, IInv
<1>. HIDE DEF a
<1>3. meta[a] = NoMeta /\ NoMeta.entries = <<>> /\ NoMeta.versions = 0
  BY <1>2 DEF IInv, TablesInv, NoMeta, MetaData
<1>4. /\ cmd' \in Commands /\ cmd'.pc = "save" /\ cmd'.audit = a /\ cmd'.run = 0
      /\ cmd'.entry = 0 /\ cmd'.version = 0 /\ cmd'.next = FreshMeta
  <2>1. FreshMeta \in Metas /\ a \in 0..MaxAudits /\ Idle.entry = 0
    BY <1>2 DEF FreshMeta, MetaData, Metas, States, Audits, Idle
  <2>. QED  BY <1>1, <2>1, IdleTyped DEF Commands, PCs
<1>5. FreshSave'
  BY <1>1, <1>3, <1>4 DEF FreshSave, Entered
<1>6. CommandInv'
  BY <1>1, <1>2, <1>4, <1>5 DEF CommandInv, SaveInv, AuditInv, GenerateInv, FinalizeInv,
     SyncInv, Saving, Opening, Scanning, Moving, Finalizing, Syncing
<1>7. TypedInv'
  BY <1>1, <1>2, <1>4 DEF IInv, TypedInv
<1>8. TablesInv'
  BY <1>1 DEF IInv, TablesInv
<1>. QED  BY <1>1, <1>6, <1>7, <1>8, ScriptsStand, ReportsStand, ArchiveStands DEF IInv

\* audit.json is emptied: what it will say is with the command.
LEMMA BeginSaveStep ==
    ASSUME IInv, BeginSave
    PROVE  /\ IInv'
           /\ \A a \in Audits : /\ meta'[a].entries = meta[a].entries
                                /\ meta'[a].versions = meta[a].versions
<1>1. /\ UNCHANGED <<folders, snapshot, latest, newest, root, scripts, final, runs,
                     generation, kills>>
      /\ cmd.pc = "save" /\ Goto("saving")
      /\ meta' = [meta EXCEPT ![cmd.audit].state = "broken"]
  BY DEF BeginSave
<1>2. cmd.audit \in Audits /\ cmd.audit \in folders
  BY <1>1, AuditKnown DEF IInv, CommandInv, Finalizing, Syncing
<1>3. /\ cmd' \in Commands /\ cmd'.pc = "saving"
      /\ cmd'.audit = cmd.audit /\ cmd'.run = cmd.run /\ cmd'.entry = cmd.entry
      /\ cmd'.version = cmd.version /\ cmd'.next = cmd.next
  BY <1>1, GoingOn DEF IInv, PCs
<1>4. /\ meta' \in [Audits -> Metas]
      /\ \A a \in Audits : /\ meta'[a].entries = meta[a].entries
                           /\ meta'[a].versions = meta[a].versions
      /\ \A a \in Audits \ {cmd.audit} : meta'[a] = meta[a]
  BY <1>1, <1>2 DEF IInv, TypedInv, Metas, States
<1>5. Entered' = Entered /\ meta'[cmd.audit].versions = meta[cmd.audit].versions
  BY <1>2, <1>3, <1>4 DEF Entered
<1>6. FreshSave' \/ EntrySave' \/ CompletionSave' \/ VersionSave'
  BY <1>1, <1>3, <1>5 DEF IInv, CommandInv, SaveInv, Saving, FreshSave, EntrySave,
     CompletionSave, VersionSave, EntryOpen, OwnRun
<1>7. CommandInv'
  BY <1>1, <1>2, <1>3, <1>6 DEF CommandInv, SaveInv, AuditInv, GenerateInv, FinalizeInv,
     SyncInv, Saving, Opening, Scanning, Moving, Finalizing, Syncing
<1>8. TypedInv'
  BY <1>1, <1>3, <1>4 DEF IInv, TypedInv
<1>9. TablesInv'
  BY <1>1, <1>2, <1>4 DEF IInv, TablesInv
<1>10. ReportSurvives'
  BY <1>1, <1>4 DEF IInv, ReportSurvives, SavedReports
<1>. QED
  BY <1>1, <1>4, <1>7, <1>8, <1>9, <1>10, ScriptsStand, ArchiveStands DEF IInv

\* What a saved audit.json says, beside what it said before.
LEMMA SavedSays ==
    ASSUME IInv, cmd.pc = "saving"
    PROVE  LET old == meta[cmd.audit]
               new == cmd.next
           IN  /\ new \in Metas /\ Len(new.entries) =< MaxRuns
               /\ Len(old.entries) =< Len(new.entries)
               /\ old.versions =< new.versions
               /\ \A k \in 1..Len(old.entries) :
                    old.entries[k].complete => new.entries[k] = old.entries[k]
               /\ \A k \in 1..Len(new.entries) :
                    \/ k \in 1..Len(old.entries) /\ new.entries[k] = old.entries[k]
                    \/ new.entries[k].run = 0 /\ ~new.entries[k].complete
                    \/ CompletionSave /\ new.entries[k].run = cmd.run
<1>1. /\ cmd.audit \in Audits /\ meta[cmd.audit] \in Metas
      /\ Entered \in Seq(Entries) /\ Len(Entered) \in 0..MaxRuns
      /\ cmd.next \in Metas
  BY AuditKnown DEF IInv, TypedInv, Commands, Finalizing, Syncing
<1>2. CASE FreshSave
  BY <1>1, <1>2 DEF FreshSave, Entered, FreshMeta, MetaData, Metas
<1>3. CASE EntrySave
  BY <1>1, <1>3 DEF EntrySave, Entered, Metas
<1>4. CASE CompletionSave
  BY <1>1, <1>4 DEF CompletionSave, EntryOpen, Entered, Metas
<1>5. CASE VersionSave
  BY <1>1, <1>5 DEF VersionSave, Entered, Metas
<1>. QED  BY <1>2, <1>3, <1>4, <1>5 DEF IInv, CommandInv, SaveInv, Saving

LEMMA EndSaveStep ==
    ASSUME IInv, EndSave
    PROVE  IInv'
<1>1. /\ UNCHANGED <<folders, snapshot, latest, newest, root, scripts, final, runs,
                     generation, kills>>
      /\ cmd.pc = "saving"
      /\ cmd' = IF AfterSave = "idle" THEN Idle ELSE [cmd EXCEPT !.pc = AfterSave]
      /\ meta' = [meta EXCEPT ![cmd.audit] = cmd.next]
  BY DEF EndSave
<1>2. /\ cmd.audit \in Audits /\ cmd.audit \in folders /\ meta[cmd.audit] \in Metas
      /\ Entered \in Seq(Entries) /\ Len(Entered) \in 0..MaxRuns
  BY <1>1, AuditKnown DEF IInv, CommandInv, Finalizing, Syncing
<1>3. /\ meta' \in [Audits -> Metas] /\ meta'[cmd.audit] = cmd.next
      /\ \A a \in Audits \ {cmd.audit} : meta'[a] = meta[a]
      /\ \A a \in Audits : Len(meta'[a].entries) =< MaxRuns
  BY <1>1, <1>2, SavedSays DEF IInv, TypedInv
<1>4. AfterSave # "idle" =>
        /\ cmd' \in Commands /\ cmd'.pc = AfterSave
        /\ cmd'.audit = cmd.audit /\ cmd'.run = cmd.run /\ cmd'.entry = cmd.entry
        /\ cmd'.version = cmd.version
  <2>1. AfterSave \in PCs /\ cmd \in Commands
    BY DEF AfterSave, PCs, IInv, TypedInv
  <2>. QED  BY <1>1, <2>1 DEF Commands
<1>5. CommandInv'
  <2>1. CASE FreshSave
    <3>1. AfterSave = "snapshot"
      BY <2>1 DEF FreshSave, AfterSave
    <3>. QED  BY <1>1, <1>2, <1>4, <2>1, <3>1 DEF FreshSave, CommandInv, SaveInv,
       AuditInv, GenerateInv, FinalizeInv, SyncInv, Saving, Opening, Scanning, Moving,
       Finalizing, Syncing
  <2>2. CASE EntrySave
    <3>1. AfterSave = "begin_run"
      BY <1>2, <2>2 DEF EntrySave, AfterSave
    <3>2. Entered' = Append(Entered, [run |-> 0, complete |-> FALSE])
      BY <1>3, <1>4, <2>2, <3>1 DEF EntrySave, Entered
    <3>3. cmd'.entry = Len(Entered) + 1
      BY <1>4, <2>2, <3>1 DEF EntrySave
    <3>4. EntryOpen'
      BY <1>2, <3>2, <3>3 DEF EntryOpen
    <3>. QED  BY <1>1, <1>2, <1>4, <2>2, <3>1, <3>4 DEF EntrySave, CommandInv, SaveInv,
       AuditInv, GenerateInv, FinalizeInv, SyncInv, Saving, Opening, Scanning, Moving,
       Finalizing, Syncing
  <2>3. CASE CompletionSave
    <3>1. AfterSave = "idle"
      BY <2>3 DEF CompletionSave, OwnRun, AfterSave
    <3>. QED  BY <1>1, <3>1, IdleIsSettled
  <2>4. CASE VersionSave
    <3>1. cmd.version # 0 /\ cmd.version \in 1..cmd.version /\ AfterSave = "generate"
      BY <1>2, <2>4 DEF VersionSave, AfterSave, Metas
    <3>2. meta'[cmd.audit].versions = cmd.version
      BY <1>3, <2>4 DEF VersionSave
    <3>3. /\ cmd'.version \in 1..meta'[cmd'.audit].versions
          /\ scripts'[cmd'.audit][cmd'.version] = {}
          /\ generation' # 0
      BY <1>1, <1>4, <2>4, <3>1, <3>2 DEF VersionSave
    <3>. QED  BY <1>1, <1>2, <1>4, <3>1, <3>3 DEF CommandInv, SaveInv, AuditInv,
       GenerateInv, FinalizeInv, SyncInv, Saving, Opening, Scanning, Moving, Finalizing,
       Syncing
  <2>. QED  BY <1>1, <2>1, <2>2, <2>3, <2>4 DEF IInv, CommandInv, SaveInv, Saving
<1>6. TypedInv'
  BY <1>1, <1>3, <1>4, IdleTyped DEF IInv, TypedInv
<1>7. TablesInv'
  <2>1. \A a \in Audits, v \in Versions : v > meta'[a].versions => v > meta[a].versions
    <3>1. meta[cmd.audit].versions \in Nat /\ cmd.next.versions \in Nat
      BY <1>1, <1>2, SavedSays DEF Metas
    <3>2. meta[cmd.audit].versions =< cmd.next.versions
      BY <1>1, SavedSays
    <3>. QED  BY <1>2, <1>3, <3>1, <3>2 DEF Versions
  <2>2. ASSUME NEW a \in Audits, NEW k \in 1..Len(meta'[a].entries)
        PROVE  meta'[a].entries[k].run =< Len(runs)
    <3>1. CompletionSave => cmd.run =< Len(runs)
      BY DEF CompletionSave, OwnRun
    <3>2. CASE a # cmd.audit
      BY <1>3, <2>2, <3>2 DEF IInv, TablesInv
    <3>3. CASE a = cmd.audit
      <4>1. k \in 1..Len(cmd.next.entries) /\ meta'[a].entries[k] = cmd.next.entries[k]
        BY <1>3, <2>2, <3>3
      <4>2. 0 =< Len(runs) /\ \A i \in 1..Len(Entered) : Entered[i].run =< Len(runs)
        <5>1. 0 =< Len(runs)
          BY DEF IInv, TypedInv
        <5>2. \A i \in 1..Len(Entered) : Entered[i].run =< Len(runs)
          BY <1>2 DEF IInv, TablesInv, Entered
        <5>. QED  BY <5>1, <5>2
      <4>. QED  BY <1>1, <3>1, <4>1, <4>2, SavedSays DEF Entered
    <3>. QED  BY <3>2, <3>3
  <2>. QED  BY <1>1, <1>2, <1>3, <2>1, <2>2 DEF IInv, TablesInv
<1>8. ReportSurvives'
  <2>1. SUFFICES ASSUME NEW a \in Audits, latest[a] # Cut,
                        NEW k \in 1..Len(meta'[a].entries), meta'[a].entries[k].complete
                 PROVE  \E r \in SavedReports(a) : r >= meta'[a].entries[k].run
    BY <1>1 DEF ReportSurvives, SavedReports
  <2>2. CASE k \in 1..Len(meta[a].entries) /\ meta'[a].entries[k] = meta[a].entries[k]
    BY <2>1, <2>2 DEF IInv, ReportSurvives
  <2>3. CASE a = cmd.audit /\ CompletionSave /\ meta'[a].entries[k].run = cmd.run
    <3>1. cmd.run \in SavedReports(a) /\ cmd.run >= cmd.run
      BY <2>3 DEF CompletionSave, OwnRun, SavedReports
    <3>. QED  BY <2>3, <3>1
  <2>. QED  BY <1>1, <1>3, <2>1, <2>2, <2>3, SavedSays
<1>. QED  BY <1>1, <1>5, <1>6, <1>7, <1>8, ScriptsStand, ArchiveStands DEF IInv

LEMMA BeginSnapshotStep ==
    ASSUME IInv, BeginSnapshot
    PROVE  IInv'
<1>1. /\ UNCHANGED <<folders, meta, latest, newest, root, scripts, final, runs,
                     generation, kills>>
      /\ cmd.pc = "snapshot" /\ Goto("snapshotting")
  BY DEF BeginSnapshot
<1>2. /\ cmd' \in Commands /\ cmd'.pc = "snapshotting" /\ cmd'.audit = cmd.audit
      /\ cmd'.run = cmd.run /\ cmd'.version = cmd.version
  BY <1>1, GoingOn DEF IInv, PCs
<1>3. CommandInv'
  BY <1>1, <1>2 DEF IInv, CommandInv, SaveInv, AuditInv, GenerateInv, FinalizeInv,
     SyncInv, Saving, Opening, Scanning, Moving, Finalizing, Syncing
<1>4. TypedInv'
  BY <1>1, <1>2 DEF BeginSnapshot, IInv, TypedInv, States
<1>. QED
  BY <1>1, <1>3, <1>4, TablesStand, ScriptsStand, ReportsStand, ArchiveStands DEF IInv

LEMMA EndSnapshotStep ==
    ASSUME IInv, EndSnapshot
    PROVE  IInv'
<1>1. /\ UNCHANGED <<folders, meta, latest, newest, root, scripts, final, runs,
                     generation, kills>>
      /\ cmd.pc = "snapshotting" /\ Goto("create_run")
  BY DEF EndSnapshot
<1>2. /\ cmd' \in Commands /\ cmd'.pc = "create_run" /\ cmd'.audit = cmd.audit
      /\ cmd'.run = cmd.run /\ cmd'.version = cmd.version
  BY <1>1, GoingOn DEF IInv, PCs
<1>3. CommandInv'
  BY <1>1, <1>2 DEF IInv, CommandInv, SaveInv, AuditInv, GenerateInv, FinalizeInv,
     SyncInv, Saving, Opening, Scanning, Moving, Finalizing, Syncing
<1>4. TypedInv'
  BY <1>1, <1>2 DEF EndSnapshot, IInv, TypedInv, States
<1>. QED
  BY <1>1, <1>3, <1>4, TablesStand, ScriptsStand, ReportsStand, ArchiveStands DEF IInv

LEMMA BeginRunStep ==
    ASSUME IInv, BeginRun
    PROVE  IInv'
<1>. DEFINE row == [status |-> "running", failing |-> FALSE, audit |-> cmd.audit]
<1>1. /\ UNCHANGED Files
      /\ \/ cmd.pc = "begin_run" /\ Goto("scan")
         \/ cmd.pc = "sync_run" /\ Goto("sync_scan")
      /\ Len(runs) < MaxRuns
      /\ runs' = Append(runs, row)
  BY DEF BeginRun
<1>2. /\ cmd' \in Commands
      /\ cmd'.audit = cmd.audit /\ cmd'.run = cmd.run /\ cmd'.entry = cmd.entry
      /\ cmd'.version = cmd.version
      /\ \/ cmd.pc = "begin_run" /\ cmd'.pc = "scan"
         \/ cmd.pc = "sync_run" /\ cmd'.pc = "sync_scan"
  <2>1. CASE cmd.pc = "begin_run" /\ Goto("scan")
    BY <2>1, GoingOn DEF IInv, PCs
  <2>2. CASE cmd.pc = "sync_run" /\ Goto("sync_scan")
    BY <2>2, GoingOn DEF IInv, PCs
  <2>. QED  BY <1>1, <2>1, <2>2
<1>3. row \in RunRows /\ row.audit = cmd.audit /\ row.status # "finalized"
  BY DEF IInv, TypedInv, Commands, RunRows, Copies, Audits
<1>. HIDE DEF row
<1>4. /\ runs' \in Seq(RunRows) /\ Len(runs) \in Nat /\ Len(runs') = Len(runs) + 1
      /\ runs'[Len(runs')] = row
      /\ \A r \in 1..Len(runs) : runs'[r] = runs[r] /\ r \in 1..Len(runs')
  BY <1>1, <1>3 DEF IInv, TypedInv
<1>5. OwnRun(Len(runs))'
  BY <1>2, <1>3, <1>4 DEF OwnRun
<1>6. cmd.pc = "begin_run" => EntryOpen' /\ cmd.audit \in folders
  BY <1>1, <1>2 DEF IInv, CommandInv, AuditInv, EntryOpen, Entered, Files, Finalizing,
     Syncing
<1>7. CommandInv'
  BY <1>1, <1>2, <1>5, <1>6 DEF IInv, Files, CommandInv, SaveInv, AuditInv, GenerateInv,
     FinalizeInv, SyncInv, Saving, Opening, Scanning, Moving, Finalizing, Syncing
<1>8. TypedInv'
  BY <1>1, <1>2, <1>4 DEF IInv, TypedInv, Files
<1>9. TablesInv'
  <2>1. \A a \in Audits : \A k \in 1..Len(meta[a].entries) :
          meta[a].entries[k].run =< Len(runs')
    BY <1>4, EntryTyped DEF IInv, TablesInv
  <2>2. root \subseteq 1..Len(runs')
    BY <1>4 DEF IInv, TablesInv
  <2>. QED  BY <1>1, <2>1, <2>2 DEF IInv, TablesInv, Files
<1>10. ReportSurvives'
  BY <1>1, <1>4 DEF IInv, ReportSurvives, SavedReports, Files
<1>11. FinalizedIsArchived'
  BY <1>1, <1>3, <1>4 DEF IInv, FinalizedIsArchived, Files
<1>. QED  BY <1>1, <1>7, <1>8, <1>9, <1>10, <1>11, ScriptsStand DEF IInv, Files

\* The same runs of the same audits, none of them newly finalized.
SameRuns(rows) ==
    /\ rows \in Seq(RunRows) /\ Len(rows) = Len(runs)
    /\ \A r \in 1..Len(runs) :
         /\ rows[r].audit = runs[r].audit
         /\ rows[r].status = "finalized" => runs[r].status = "finalized"

LEMMA RowChanged ==
    ASSUME IInv, NEW rows, SameRuns(rows), NEW r \in 1..Len(runs), NEW row \in RunRows,
           row.audit = rows[r].audit, row.status = "finalized" => rows[r].status = "finalized"
    PROVE  SameRuns([rows EXCEPT ![r] = row])
  BY DEF SameRuns

LEMMA RunsAreTheSame ==
    ASSUME IInv
    PROVE  SameRuns(runs)
  BY DEF SameRuns, IInv, TypedInv

LEMMA RunFails ==
    ASSUME IInv, NEW rows, SameRuns(rows), NEW r \in 1..Len(runs)
    PROVE  SameRuns([rows EXCEPT ![r].status = "failed"])
<1>. DEFINE row == [rows[r] EXCEPT !.status = "failed"]
<1>1. rows[r] \in RunRows
  BY DEF SameRuns
<1>2. row \in RunRows /\ row.audit = rows[r].audit /\ row.status # "finalized"
  BY <1>1 DEF RunRows
<1>. HIDE DEF row
<1>3. SameRuns([rows EXCEPT ![r] = row])
  BY <1>2, RowChanged
<1>. QED  BY <1>3 DEF row

LEMMA RunFailsGuarded ==
    ASSUME IInv, NEW rows, SameRuns(rows), NEW r \in 0..Len(runs)
    PROVE  SameRuns(FailRun(rows, r))
<1>1. CASE r > 1
  <2>1. r \in 1..Len(runs)
    BY <1>1
  <2>2. SameRuns([rows EXCEPT ![r].status = "failed"])
    BY <2>1, RunFails
  <2>. QED  BY <1>1, <2>2 DEF FailRun
<1>2. CASE ~(r > 1)
  BY <1>2 DEF FailRun
<1>. QED  BY <1>1, <1>2

\* Only the table of runs and the command change.
LEMMA RunsReplaced ==
    ASSUME IInv, UNCHANGED Files, SameRuns(runs'), cmd' \in Commands, CommandInv'
    PROVE  IInv'
<1>1. /\ runs' \in Seq(RunRows) /\ Len(runs') = Len(runs)
      /\ \A r \in 1..Len(runs) :
           /\ runs'[r].audit = runs[r].audit
           /\ runs'[r].status = "finalized" => runs[r].status = "finalized"
  BY DEF SameRuns
<1>2. TypedInv'
  BY <1>1 DEF IInv, TypedInv, Files
<1>3. TablesInv'
  BY <1>1 DEF IInv, TablesInv, Files
<1>4. ReportSurvives'
  <2>1. \A a \in Audits : SavedReports(a)' = SavedReports(a)
    BY <1>1 DEF SavedReports, Files
  <2>. QED  BY <2>1 DEF IInv, ReportSurvives, Files
<1>5. FinalizedIsArchived'
  BY <1>1 DEF IInv, FinalizedIsArchived, Files
<1>. QED  BY <1>2, <1>3, <1>4, <1>5, ScriptsStand DEF IInv, Files

\* The run in progress is the last one, and its command's own.
LEMMA ScanKnows ==
    ASSUME IInv, cmd.pc \in {"scan", "sync_scan"}
    PROVE  Len(runs) \in 1..Len(runs) /\ runs[Len(runs)] \in RunRows
<1>1. Len(runs) \in 1..Len(runs)
  BY DEF IInv, CommandInv, AuditInv, SyncInv, Scanning, Syncing, OwnRun
<1>. QED  BY <1>1 DEF IInv, TypedInv

\* The run in progress has a failing finding, or is completed.
LEMMA RunUpdated ==
    ASSUME IInv, cmd.pc \in {"scan", "sync_scan"}, UNCHANGED Files, SameRuns(runs'),
           \/ cmd' = cmd
           \/ cmd.pc = "scan" /\ Goto("report")
           \/ cmd.pc = "sync_scan" /\ Goto("rewrite")
    PROVE  IInv'
<1>1. /\ cmd' \in Commands
      /\ cmd'.audit = cmd.audit /\ cmd'.run = cmd.run /\ cmd'.entry = cmd.entry
      /\ cmd'.version = cmd.version
      /\ \/ cmd.pc = "scan" /\ cmd'.pc \in {"scan", "report"}
         \/ cmd.pc = "sync_scan" /\ cmd'.pc \in {"sync_scan", "rewrite"}
  <2>1. CASE cmd' = cmd
    BY <2>1 DEF IInv, TypedInv
  <2>2. CASE cmd.pc = "scan" /\ Goto("report")
    BY <2>2, GoingOn DEF IInv, PCs
  <2>3. CASE cmd.pc = "sync_scan" /\ Goto("rewrite")
    BY <2>3, GoingOn DEF IInv, PCs
  <2>. QED  BY <2>1, <2>2, <2>3
<1>2. OwnRun(Len(runs)) /\ (cmd.pc = "scan" => EntryOpen /\ cmd.audit \in folders)
  BY DEF IInv, CommandInv, SaveInv, AuditInv, GenerateInv,
     FinalizeInv, SyncInv, Saving, Opening, Scanning, Moving, Finalizing, Syncing
<1>3. OwnRun(Len(runs))' /\ (cmd.pc = "scan" => EntryOpen')
  BY <1>1, <1>2 DEF SameRuns, OwnRun, EntryOpen, Entered, Files
<1>4. CommandInv'
  BY <1>1, <1>2, <1>3 DEF IInv, Files, CommandInv, SaveInv, AuditInv, GenerateInv,
     FinalizeInv, SyncInv, Saving, Opening, Scanning, Moving, Finalizing, Syncing
<1>. QED  BY <1>1, <1>4, RunsReplaced

LEMMA SaveFailingStep ==
    ASSUME IInv, SaveFailingFinding
    PROVE  IInv'
<1>. DEFINE row == [runs[Len(runs)] EXCEPT !.failing = TRUE]
<1>1. /\ cmd.pc \in {"scan", "sync_scan"} /\ UNCHANGED Files /\ cmd' = cmd
      /\ runs' = [runs EXCEPT ![Len(runs)] = row]
  BY DEF SaveFailingFinding
<1>2. Len(runs) \in 1..Len(runs) /\ runs[Len(runs)] \in RunRows
  BY <1>1, ScanKnows
<1>3. /\ row \in RunRows /\ row.audit = runs[Len(runs)].audit
      /\ row.status = runs[Len(runs)].status
  BY <1>2 DEF RunRows
<1>. HIDE DEF row
<1>4. SameRuns(runs')
  BY <1>1, <1>2, <1>3, RunsAreTheSame, RowChanged
<1>. QED  BY <1>1, <1>4, RunUpdated

LEMMA CompleteAuditRunStep ==
    ASSUME IInv, CompleteAuditRun
    PROVE  IInv'
<1>. DEFINE row == [runs[Len(runs)] EXCEPT !.status = "completed"]
<1>1. /\ UNCHANGED Files /\ runs' = [runs EXCEPT ![Len(runs)] = row]
      /\ \/ cmd.pc = "scan" /\ Goto("report")
         \/ cmd.pc = "sync_scan" /\ Goto("rewrite")
  BY DEF CompleteAuditRun
<1>2. Len(runs) \in 1..Len(runs) /\ runs[Len(runs)] \in RunRows
  BY <1>1, ScanKnows
<1>3. /\ row \in RunRows /\ row.audit = runs[Len(runs)].audit
      /\ row.status # "finalized"
  BY <1>2 DEF RunRows
<1>. HIDE DEF row
<1>4. SameRuns(runs')
  BY <1>1, <1>2, <1>3, RunsAreTheSame, RowChanged
<1>. QED  BY <1>1, <1>4, RunUpdated

\* A run fails, its command's own or, in sync's handler, another.
LEMMA FailsStep ==
    ASSUME IInv, LoadTargetsFails \/ ReauditRaises \/ SyncRaises
    PROVE  IInv'
<1>1. UNCHANGED Files /\ cmd' = Idle
  BY DEF LoadTargetsFails, ReauditRaises, SyncRaises
<1>2. SameRuns(runs')
  <2>1. CASE LoadTargetsFails
    <3>. DEFINE rows == [runs EXCEPT ![Len(runs)].status = "failed"]
    <3>1. Len(runs) \in 1..Len(runs)
      BY <2>1, ScanKnows DEF LoadTargetsFails
    <3>2. SameRuns(rows)
      BY <3>1, RunsAreTheSame, RunFails
    <3>3. runs' = rows \/ runs' = FailRun(rows, LatestAmong(rows))
      BY <2>1 DEF LoadTargetsFails
    <3>. HIDE DEF rows
    <3>4. LatestAmong(rows) \in 0..Len(runs)
      BY <3>2, LatestAmongRows DEF SameRuns
    <3>5. SameRuns(FailRun(rows, LatestAmong(rows)))
      BY <3>2, <3>4, RunFailsGuarded
    <3>. QED  BY <3>2, <3>3, <3>5
  <2>2. CASE ReauditRaises
    <3>1. runs' = FailRun(runs, LatestRun) /\ LatestRun \in 0..Len(runs)
      BY <2>2, LatestAmongRows DEF ReauditRaises, LatestRun, IInv, TypedInv
    <3>. QED  BY <3>1, RunsAreTheSame, RunFailsGuarded
  <2>3. CASE SyncRaises
    <3>1. runs' = FailRun(runs, Len(runs)) /\ Len(runs) \in 0..Len(runs)
      BY <2>3 DEF SyncRaises, IInv, TypedInv
    <3>. QED  BY <3>1, RunsAreTheSame, RunFailsGuarded
  <2>. QED  BY <2>1, <2>2, <2>3
<1>. QED  BY <1>1, <1>2, IdleTyped, IdleIsSettled, RunsReplaced

\* A sync writes over the working copy of one audit, or of none.
LEMMA RewriteStep ==
    ASSUME IInv, BeginRewrite \/ EndRewrite
    PROVE  IInv'
<1>1. /\ UNCHANGED <<meta, snapshot, root, scripts, final, runs, generation, kills>>
      /\ cmd.pc \in Syncing \ {"sync_run"}
      /\ folders' = folders \/ folders' = folders \cup ({cmd.audit} \ {0})
      /\ newest' = IF cmd.audit = 0 THEN newest ELSE cmd.audit
  BY DEF BeginRewrite, EndRewrite, Syncing
<1>2. cmd.audit \in Copies /\ OwnRun(Len(runs)) /\ Len(runs) \in Runs
  BY <1>1 DEF IInv, TypedInv, Commands, Copies, Audits, CommandInv, SyncInv, OwnRun, Runs
<1>3. cmd' \in Commands /\ CommandInv'
  <2>1. CASE cmd' = Idle
    BY <2>1, IdleTyped, IdleIsSettled
  <2>2. ASSUME NEW pc \in Syncing \ {"sync_run"}, Goto(pc)
        PROVE  cmd' \in Commands /\ CommandInv'
    <3>1. /\ cmd' \in Commands /\ cmd'.pc = pc /\ cmd'.audit = cmd.audit
      BY <2>2, GoingOn DEF IInv, PCs, Syncing
    <3>2. OwnRun(Len(runs))'
      BY <1>1, <1>2, <3>1 DEF OwnRun
    <3>3. pc \in Syncing
      BY <2>2
    <3>. QED  BY <3>1, <3>2, <3>3 DEF CommandInv, SaveInv, AuditInv, GenerateInv,
       FinalizeInv, SyncInv, Saving, Opening, Scanning, Moving, Finalizing, Syncing
  <2>3. \/ cmd' = Idle \/ Goto("rewriting") \/ Goto("writing_back") \/ Goto("write_back")
    BY DEF BeginRewrite, EndRewrite
  <2>4. {"rewriting", "writing_back", "write_back"} \subseteq Syncing \ {"sync_run"}
    BY DEF Syncing
  <2>. QED  BY <2>1, <2>2, <2>3, <2>4
<1>4. \/ latest' = [latest EXCEPT ![cmd.audit] = Cut]
      \/ latest' = [latest EXCEPT ![cmd.audit] = Len(runs)]
  BY DEF BeginRewrite, EndRewrite
<1>5. /\ latest' \in [Copies -> Reports]
      /\ latest'[cmd.audit] = Cut \/ latest'[cmd.audit] = Len(runs)
      /\ \A a \in Copies \ {cmd.audit} : latest'[a] = latest[a]
  BY <1>2, <1>4 DEF IInv, TypedInv, Reports
<1>6. TypedInv'
  BY <1>1, <1>2, <1>3, <1>5 DEF IInv, TypedInv, Copies
<1>7. TablesInv'
  BY <1>1 DEF IInv, TablesInv
<1>8. ReportSurvives'
  <2>1. SUFFICES ASSUME NEW a \in Audits, latest'[a] # Cut,
                        NEW k \in 1..Len(meta[a].entries), meta[a].entries[k].complete
                 PROVE  \E r \in SavedReports(a)' : r >= meta[a].entries[k].run
    BY <1>1 DEF ReportSurvives
  <2>2. CASE a = cmd.audit
    <3>1. Len(runs) \in SavedReports(a)'
      BY <1>1, <1>2, <1>5, <2>1, <2>2 DEF SavedReports, OwnRun
    <3>2. Len(runs) >= meta[a].entries[k].run
      BY <2>1, EntryTyped DEF IInv, TypedInv, TablesInv
    <3>. QED  BY <3>1, <3>2
  <2>3. CASE a # cmd.audit
    <3>1. SavedReports(a)' = SavedReports(a) /\ latest'[a] = latest[a]
      BY <1>1, <1>5, <2>3 DEF SavedReports, Copies
    <3>. QED  BY <2>1, <3>1 DEF IInv, ReportSurvives
  <2>. QED  BY <2>2, <2>3
<1>. QED  BY <1>1, <1>3, <1>6, <1>7, <1>8, ScriptsStand, ArchiveStands DEF IInv

LEMMA SaveReportStep ==
    ASSUME IInv, SaveReport
    PROVE  IInv'
<1>1. /\ UNCHANGED <<folders, meta, snapshot, latest, newest, scripts, final, runs,
                     generation, kills>>
      /\ cmd.pc = "report" /\ root' = root \cup {Len(runs)}
      /\ cmd' = [cmd EXCEPT !.pc = "copy", !.run = Len(runs)]
  BY DEF SaveReport
<1>2. /\ Len(runs) \in 1..Len(runs) /\ Len(runs) \in Runs
      /\ OwnRun(Len(runs)) /\ EntryOpen /\ cmd.version = 0
      /\ cmd.audit \in folders
  BY <1>1 DEF IInv, TypedInv, OwnRun, Runs, CommandInv, SaveInv, AuditInv, GenerateInv,
     FinalizeInv, SyncInv, Saving, Opening, Scanning, Moving, Finalizing, Syncing
<1>3. /\ cmd' \in Commands /\ cmd'.pc = "copy" /\ cmd'.audit = cmd.audit
      /\ cmd'.run = Len(runs) /\ cmd'.entry = cmd.entry /\ cmd'.version = cmd.version
  <2>1. cmd \in Commands /\ Len(runs) \in 0..MaxRuns
    BY <1>2 DEF IInv, TypedInv, Runs
  <2>. QED  BY <1>1, <2>1 DEF Commands, PCs
<1>4. EntryOpen' /\ OwnRun(cmd.run)'
  BY <1>1, <1>2, <1>3 DEF EntryOpen, Entered, OwnRun
<1>5. CommandInv'
  BY <1>1, <1>2, <1>3, <1>4 DEF CommandInv, SaveInv, AuditInv, GenerateInv, FinalizeInv,
     SyncInv, Saving, Opening, Scanning, Moving, Finalizing, Syncing
<1>6. TypedInv'
  BY <1>1, <1>2, <1>3 DEF IInv, TypedInv
<1>7. TablesInv'
  BY <1>1, <1>2 DEF IInv, TablesInv
<1>8. ReportSurvives'
  BY <1>1 DEF IInv, ReportSurvives, SavedReports
<1>. QED  BY <1>1, <1>5, <1>6, <1>7, <1>8, ScriptsStand, ArchiveStands DEF IInv

\* Where the moving of a report stands.
LEMMA MovingKnows ==
    ASSUME IInv, cmd.pc \in Moving
    PROVE  /\ cmd.audit \in Audits /\ cmd.audit \in folders
           /\ EntryOpen /\ OwnRun(cmd.run) /\ cmd.version = 0
           /\ cmd.run = Len(runs) /\ cmd.run \in root /\ cmd.run \in Runs
<1>1. /\ cmd.audit \in folders /\ EntryOpen /\ OwnRun(cmd.run) /\ cmd.version = 0
      /\ cmd.run = Len(runs) /\ cmd.run \in root
  BY DEF IInv, CommandInv, SaveInv, AuditInv, GenerateInv, FinalizeInv, SyncInv, Saving,
     Opening, Scanning, Moving, Finalizing, Syncing
<1>. QED  BY <1>1 DEF IInv, TypedInv

\* While the working copy is replaced, the report is in the output folder.
LEMMA CopyingIsSafe ==
    ASSUME IInv, cmd.pc \in Moving, UNCHANGED <<meta, root, runs>>, NEW report,
           latest' = [latest EXCEPT ![cmd.audit] = report]
    PROVE  ReportSurvives'
<1>1. /\ cmd.audit \in Audits /\ OwnRun(cmd.run)
      /\ cmd.run = Len(runs) /\ cmd.run \in root
  BY MovingKnows
<1>2. SUFFICES ASSUME NEW a \in Audits, latest'[a] # Cut,
                      NEW k \in 1..Len(meta[a].entries), meta[a].entries[k].complete
               PROVE  \E r \in SavedReports(a)' : r >= meta[a].entries[k].run
  BY DEF ReportSurvives
<1>3. CASE a = cmd.audit
  <2>1. cmd.run \in SavedReports(a)'
    BY <1>1, <1>3 DEF SavedReports, OwnRun
  <2>2. cmd.run >= meta[a].entries[k].run
    BY <1>1, EntryTyped DEF IInv, TypedInv, TablesInv
  <2>. QED  BY <2>1, <2>2
<1>4. CASE a # cmd.audit
  <2>1. SavedReports(a)' = SavedReports(a) /\ latest'[a] = latest[a]
    BY <1>1, <1>4 DEF SavedReports, IInv, TypedInv, Copies
  <2>. QED  BY <1>2, <2>1 DEF IInv, ReportSurvives
<1>. QED  BY <1>3, <1>4

LEMMA BeginCopyStep ==
    ASSUME IInv, BeginCopy
    PROVE  IInv'
<1>1. /\ UNCHANGED <<folders, meta, snapshot, root, scripts, final, runs,
                     generation, kills>>
      /\ cmd.pc = "copy" /\ Goto("copying")
      /\ latest' = [latest EXCEPT ![cmd.audit] = Torn] /\ newest' = cmd.audit
  BY DEF BeginCopy
<1>2. /\ cmd' \in Commands /\ cmd'.pc = "copying"
      /\ cmd'.audit = cmd.audit /\ cmd'.run = cmd.run /\ cmd'.entry = cmd.entry
      /\ cmd'.version = cmd.version
  BY <1>1, GoingOn DEF IInv, PCs
<1>3. /\ cmd.audit \in Audits /\ cmd.audit \in folders
      /\ EntryOpen /\ OwnRun(cmd.run) /\ cmd.version = 0
      /\ cmd.run = Len(runs) /\ cmd.run \in root /\ cmd.run \in Runs
  BY <1>1, MovingKnows DEF Moving
<1>4. EntryOpen' /\ OwnRun(cmd.run)'
  BY <1>1, <1>2, <1>3 DEF EntryOpen, Entered, OwnRun
<1>5. CommandInv'
  BY <1>1, <1>2, <1>3, <1>4 DEF CommandInv, SaveInv, AuditInv, GenerateInv, FinalizeInv,
     SyncInv, Saving, Opening, Scanning, Moving, Finalizing, Syncing
<1>6. TypedInv'
  BY <1>1, <1>2, <1>3 DEF IInv, TypedInv, Reports, Torn
<1>7. ReportSurvives'
  BY <1>1, CopyingIsSafe DEF Moving
<1>. QED  BY <1>1, <1>5, <1>6, <1>7, TablesStand, ScriptsStand, ArchiveStands DEF IInv

LEMMA EndCopyStep ==
    ASSUME IInv, EndCopy
    PROVE  IInv'
<1>1. /\ UNCHANGED <<folders, meta, snapshot, root, scripts, final, runs,
                     generation, kills>>
      /\ cmd.pc = "copying" /\ Goto("unlink")
      /\ latest' = [latest EXCEPT ![cmd.audit] = cmd.run] /\ newest' = cmd.audit
  BY DEF EndCopy
<1>2. /\ cmd' \in Commands /\ cmd'.pc = "unlink"
      /\ cmd'.audit = cmd.audit /\ cmd'.run = cmd.run /\ cmd'.entry = cmd.entry
      /\ cmd'.version = cmd.version
  BY <1>1, GoingOn DEF IInv, PCs
<1>3. /\ cmd.audit \in Audits /\ cmd.audit \in folders
      /\ EntryOpen /\ OwnRun(cmd.run) /\ cmd.version = 0
      /\ cmd.run = Len(runs) /\ cmd.run \in root /\ cmd.run \in Runs
  BY <1>1, MovingKnows DEF Moving
<1>4. EntryOpen' /\ OwnRun(cmd.run)' /\ latest'[cmd.audit] = cmd.run
  BY <1>1, <1>2, <1>3 DEF EntryOpen, Entered, OwnRun, IInv, TypedInv, Copies
<1>5. CommandInv'
  BY <1>1, <1>2, <1>3, <1>4 DEF CommandInv, SaveInv, AuditInv, GenerateInv, FinalizeInv,
     SyncInv, Saving, Opening, Scanning, Moving, Finalizing, Syncing
<1>6. TypedInv'
  BY <1>1, <1>2, <1>3 DEF IInv, TypedInv, Reports
<1>7. ReportSurvives'
  BY <1>1, CopyingIsSafe DEF Moving
<1>. QED  BY <1>1, <1>5, <1>6, <1>7, TablesStand, ScriptsStand, ArchiveStands DEF IInv

LEMMA UnlinkStep ==
    ASSUME IInv, UnlinkReport
    PROVE  IInv'
<1>1. /\ UNCHANGED <<folders, meta, snapshot, latest, newest, scripts, final, runs,
                     generation, kills>>
      /\ cmd.pc = "unlink" /\ Goto("complete_run") /\ root' = root \ {cmd.run}
  BY DEF UnlinkReport
<1>2. /\ cmd' \in Commands /\ cmd'.pc = "complete_run"
      /\ cmd'.audit = cmd.audit /\ cmd'.run = cmd.run /\ cmd'.entry = cmd.entry
      /\ cmd'.version = cmd.version
  BY <1>1, GoingOn DEF IInv, PCs
<1>3. /\ cmd.audit \in folders /\ EntryOpen /\ OwnRun(cmd.run) /\ cmd.version = 0
      /\ latest[cmd.audit] = cmd.run
  BY <1>1, MovingKnows DEF Moving, IInv, CommandInv, AuditInv
<1>4. EntryOpen' /\ OwnRun(cmd.run)'
  BY <1>1, <1>2, <1>3 DEF EntryOpen, Entered, OwnRun
<1>5. CommandInv'
  BY <1>1, <1>2, <1>3, <1>4 DEF CommandInv, SaveInv, AuditInv, GenerateInv, FinalizeInv,
     SyncInv, Saving, Opening, Scanning, Moving, Finalizing, Syncing
<1>6. TypedInv'
  BY <1>1, <1>2 DEF IInv, TypedInv
<1>7. TablesInv'
  BY <1>1 DEF IInv, TablesInv
<1>8. ReportSurvives'
  <2>1. \A a \in Audits : SavedReports(a)' = SavedReports(a)
    BY <1>1, <1>3 DEF SavedReports, OwnRun
  <2>. QED  BY <1>1, <2>1 DEF IInv, ReportSurvives
<1>. QED  BY <1>1, <1>5, <1>6, <1>7, <1>8, ScriptsStand, ArchiveStands DEF IInv

LEMMA GenerateStep ==
    ASSUME IInv, GenerateScripts
    PROVE  IInv'
<1>1. /\ UNCHANGED <<folders, meta, snapshot, latest, newest, root, final, runs,
                     generation, kills>>
      /\ cmd.pc = "generate" /\ cmd' = Idle
  BY DEF GenerateScripts
<1>2. /\ cmd.audit \in Audits /\ meta[cmd.audit] \in Metas
      /\ cmd.version \in 1..meta[cmd.audit].versions
      /\ cmd.version \in Versions
      /\ scripts[cmd.audit][cmd.version] = {}
  BY <1>1, AuditKnown DEF IInv, CommandInv, GenerateInv, Finalizing, Syncing, Metas,
     Versions
<1>3. \/ scripts' = scripts
      \/ scripts' = [scripts EXCEPT ![cmd.audit][cmd.version] = {generation}]
  BY <1>2 DEF GenerateScripts, IInv, TypedInv
<1>4. CASE scripts' = scripts
  BY <1>1, <1>4, IdleTyped, IdleIsSettled, FilesStand DEF IInv, TypedInv
<1>5. CASE scripts' = [scripts EXCEPT ![cmd.audit][cmd.version] = {generation}]
  <2>1. generation \in 1..MaxVersions
    BY <1>1 DEF IInv, TypedInv, CommandInv, GenerateInv
  <2>2. scripts' \in [Audits -> [Versions -> SUBSET (1..MaxVersions)]]
    BY <1>2, <1>5, <2>1 DEF IInv, TypedInv
  <2>3. \A a \in Audits, v \in Versions :
          \/ scripts'[a][v] = scripts[a][v]
          \/ a = cmd.audit /\ v = cmd.version /\ scripts'[a][v] = {generation}
    BY <1>2, <1>5 DEF IInv, TypedInv
  <2>4. TypedInv'
    BY <1>1, <2>2, IdleTyped DEF IInv, TypedInv
  <2>5. TablesInv'
    BY <1>1, <1>2, <2>3 DEF IInv, TablesInv, Metas, Versions
  <2>6. AtMostOne'
    BY <2>1, <2>3 DEF IInv, AtMostOne
  <2>. QED
    BY <1>1, <2>4, <2>5, <2>6, IdleIsSettled, ReportsStand, ArchiveStands DEF IInv
<1>. QED  BY <1>3, <1>4, <1>5

\* A copy is begun, ended or given up: the finalized runs keep theirs.
LEMMA ArchiveChanged ==
    ASSUME IInv, UNCHANGED <<folders, meta, snapshot, latest, newest, root, scripts,
                             runs, generation, kills>>,
           cmd.pc \in Finalizing, final' \subseteq Final, cmd' \in Commands, CommandInv',
           \A f \in final : f.whole /\ f.run # cmd.run => f \in final'
    PROVE  IInv'
<1>1. cmd.run \in 1..Len(runs) => runs[cmd.run].status # "finalized"
  BY DEF IInv, CommandInv, FinalizeInv, SyncInv
<1>2. FinalizedIsArchived'
  BY <1>1 DEF IInv, FinalizedIsArchived
<1>3. TypedInv'
  BY DEF IInv, TypedInv
<1>. QED  BY <1>2, <1>3, TablesStand, ScriptsStand, ReportsStand DEF IInv

LEMMA ArchiveStep ==
    ASSUME IInv, BeginArchive \/ EndArchive
    PROVE  IInv'
<1>1. UNCHANGED <<folders, meta, snapshot, latest, newest, root, scripts, runs,
                  generation, kills>>
  BY DEF BeginArchive, EndArchive
<1>2. /\ cmd.run \in 1..Len(runs) /\ runs[cmd.run].status # "finalized"
      /\ cmd.run \in Runs
  BY DEF IInv, TypedInv, CommandInv, FinalizeInv, SyncInv, Finalizing, Syncing,
     BeginArchive, EndArchive, Runs
<1>3. \A whole \in BOOLEAN : [run |-> cmd.run, report |-> Source, whole |-> whole] \in Final
  BY <1>2, SourceTyped DEF Final, IInv
<1>4. CASE BeginArchive
  <2>1. /\ cmd' \in Commands /\ cmd'.pc = "archiving" /\ cmd'.run = cmd.run
    BY <1>4, GoingOn DEF BeginArchive, IInv, PCs
  <2>2. CommandInv'
    BY <1>1, <1>2, <2>1 DEF CommandInv, SaveInv, AuditInv, GenerateInv, FinalizeInv,
       SyncInv, Saving, Opening, Scanning, Moving, Finalizing, Syncing
  <2>3. final' \subseteq Final /\ final \subseteq final'
    BY <1>3, <1>4 DEF BeginArchive, IInv, TypedInv
  <2>. QED  BY <1>1, <1>4, <2>1, <2>2, <2>3, ArchiveChanged DEF BeginArchive, Finalizing,
     Syncing
<1>5. CASE EndArchive
  <2>. DEFINE copy == [run |-> cmd.run, report |-> Source, whole |-> TRUE]
  <2>1. /\ cmd' \in Commands /\ cmd'.pc = "mark" /\ cmd'.run = cmd.run
    BY <1>5, GoingOn DEF EndArchive, IInv, PCs
  <2>2. /\ final' = {f \in final : f.run # cmd.run \/ f.whole} \cup {copy}
        /\ copy \in Final /\ copy.run = cmd.run /\ copy.whole
    BY <1>3, <1>5 DEF EndArchive
  <2>. HIDE DEF copy
  <2>3. CommandInv'
    BY <1>1, <1>2, <2>1, <2>2 DEF CommandInv, SaveInv, AuditInv, GenerateInv,
       FinalizeInv, SyncInv, Saving, Opening, Scanning, Moving, Finalizing, Syncing
  <2>4. final' \subseteq Final
    BY <2>2 DEF IInv, TypedInv
  <2>. QED  BY <1>1, <1>5, <2>1, <2>2, <2>3, <2>4, ArchiveChanged DEF EndArchive,
     Finalizing, Syncing
<1>. QED  BY <1>4, <1>5

LEMMA MarkFailsStep ==
    ASSUME IInv, MarkFails
    PROVE  IInv'
<1>1. /\ UNCHANGED <<folders, meta, snapshot, latest, newest, root, scripts, runs,
                     generation, kills>>
      /\ cmd.pc \in Finalizing /\ cmd' = Idle
      /\ final' = {f \in final : f.run # cmd.run} \/ final' = final
  BY DEF MarkFails, Finalizing, Syncing
<1>2. /\ final' \subseteq Final
      /\ \A f \in final : f.whole /\ f.run # cmd.run => f \in final'
  BY <1>1 DEF IInv, TypedInv
<1>. QED  BY <1>1, <1>2, IdleTyped, IdleIsSettled, ArchiveChanged

LEMMA MarkFinalizedStep ==
    ASSUME IInv, MarkFinalized
    PROVE  IInv'
<1>. DEFINE row == [runs[cmd.run] EXCEPT !.status = "finalized"]
<1>1. /\ UNCHANGED Files /\ cmd.pc = "mark" /\ cmd' = Idle
      /\ runs' = [runs EXCEPT ![cmd.run] = row]
  BY DEF MarkFinalized
<1>2. /\ cmd.run \in 1..Len(runs) /\ runs[cmd.run] \in RunRows
      /\ \E f \in final : f.run = cmd.run /\ f.whole
  BY <1>1 DEF IInv, TypedInv, CommandInv, FinalizeInv, SyncInv, Finalizing, Syncing
<1>3. row \in RunRows /\ row.audit = runs[cmd.run].audit
  BY <1>2 DEF RunRows
<1>. HIDE DEF row
<1>4. /\ runs' \in Seq(RunRows) /\ Len(runs') = Len(runs)
      /\ \A i \in 1..Len(runs) : runs'[i].audit = runs[i].audit
      /\ \A i \in 1..Len(runs) \ {cmd.run} : runs'[i] = runs[i]
  BY <1>1, <1>2, <1>3, RowsUpdated DEF IInv
<1>5. TypedInv'
  BY <1>1, <1>4, IdleTyped DEF IInv, TypedInv, Files
<1>6. TablesInv'
  BY <1>1, <1>4 DEF IInv, TablesInv, Files
<1>7. ReportSurvives'
  <2>1. \A a \in Audits : SavedReports(a)' = SavedReports(a)
    BY <1>1, <1>4 DEF SavedReports, Files
  <2>. QED  BY <1>1, <2>1 DEF IInv, ReportSurvives, Files
<1>8. FinalizedIsArchived'
  <2>1. SUFFICES ASSUME NEW r \in 1..Len(runs), runs'[r].status = "finalized"
                 PROVE  \E f \in final : f.run = r /\ f.whole
    BY <1>1, <1>4 DEF FinalizedIsArchived, Files
  <2>2. CASE r = cmd.run
    BY <1>2, <2>2
  <2>3. CASE r # cmd.run
    BY <1>4, <2>1, <2>3 DEF IInv, FinalizedIsArchived
  <2>. QED  BY <2>2, <2>3
<1>. QED  BY <1>1, <1>5, <1>6, <1>7, <1>8, IdleIsSettled, ScriptsStand DEF IInv, Files

LEMMA SaveInExcelStep ==
    ASSUME IInv, NEW a \in Audits, SaveInExcel(a)
    PROVE  IInv'
<1>1. /\ newest' = a
      /\ UNCHANGED <<folders, meta, snapshot, latest, root, scripts, final, runs, generation,
                     kills, cmd>>
  BY DEF SaveInExcel
<1>2. TypedInv'
  BY <1>1 DEF IInv, TypedInv
<1>3. CommandInv'
  BY <1>1 DEF IInv, CommandInv, SaveInv, AuditInv, GenerateInv, FinalizeInv, SyncInv,
     Saving, Opening, Scanning, Moving, Finalizing, Syncing, FreshSave, EntrySave,
     CompletionSave, VersionSave, EntryOpen, Entered, OwnRun
<1>. QED
  BY <1>1, <1>2, <1>3, TablesStand, ScriptsStand, ReportsStand, ArchiveStands DEF IInv

-----------------------------------------------------------------------------
(* The theorems. *)

LEMMA InitHolds == Init => IInv
<1>. SUFFICES ASSUME Init PROVE IInv
  OBVIOUS
<1>1. TypedInv
  <2>1. NoMeta \in Metas /\ Len(NoMeta.entries) = 0
    BY DEF NoMeta, MetaData, Metas, States
  <2>. QED  BY <2>1, IdleTyped DEF Init, TypedInv, States, Reports, NoFile
<1>2. TablesInv
  BY DEF Init, TablesInv, NoMeta, MetaData
<1>3. CommandInv
  BY IdleTyped DEF Init, CommandInv, SaveInv, AuditInv, GenerateInv, FinalizeInv, SyncInv,
     Saving, Opening, Scanning, Moving, Finalizing, Syncing
<1>4. AtMostOne /\ ReportSurvives /\ FinalizedIsArchived
  BY DEF Init, AtMostOne, ReportSurvives, FinalizedIsArchived, NoMeta, MetaData
<1>. QED  BY <1>1, <1>2, <1>3, <1>4 DEF IInv

LEMMA IdleSteps == IInv /\ UNCHANGED vars => IInv'
<1>. SUFFICES ASSUME IInv, UNCHANGED vars PROVE IInv'
  OBVIOUS
<1>1. CommandInv'
  BY DEF vars, IInv, CommandInv, SaveInv, AuditInv, GenerateInv, FinalizeInv, SyncInv,
     Saving, Opening, Scanning, Moving, Finalizing, Syncing, FreshSave, EntrySave,
     CompletionSave, VersionSave, EntryOpen, Entered, OwnRun
<1>. QED  BY <1>1, FilesStand DEF vars, IInv, TypedInv

LEMMA StepsKeep == IInv /\ [Next]_vars => IInv'
<1>. SUFFICES ASSUME IInv, [Next]_vars PROVE IInv'
  OBVIOUS
<1>1. CASE BeginSave \/ EndSave
  BY <1>1, BeginSaveStep, EndSaveStep
<1>2. CASE AuditNew \/ AuditLatest
  BY <1>2, NewAuditStep DEF AuditNew, AuditLatest
<1>3. CASE \E a \in Audits : AuditId(a)
  BY <1>3, AuditIdStep
<1>4. CASE KeepSnapshot \/ SkipSnapshot \/ BeginSnapshot \/ EndSnapshot
  BY <1>4, SnapshotPassed, BeginSnapshotStep, EndSnapshotStep
<1>5. CASE \/ CreateRun \/ BeginRun \/ SaveFailingFinding \/ LoadTargetsFails
           \/ CompleteAuditRun \/ SaveReport
  BY <1>5, CreateRunStep, BeginRunStep, SaveFailingStep, FailsStep, CompleteAuditRunStep,
     SaveReportStep
<1>6. CASE BeginCopy \/ EndCopy \/ UnlinkReport \/ CompleteRun
  BY <1>6, BeginCopyStep, EndCopyStep, UnlinkStep, CompleteRunStep
<1>7. CASE (\E a \in Audits : CreateRemediationVersion(a)) \/ GenerateScripts
  BY <1>7, CreateVersionStep, GenerateStep
<1>8. CASE (\E force \in BOOLEAN : StartFinalize(force)) \/ ApplyExceptions
  BY <1>8, StartFinalizeStep, ApplyExceptionsStep
<1>9. CASE BeginArchive \/ EndArchive \/ MarkFinalized \/ MarkFails
  BY <1>9, ArchiveStep, MarkFinalizedStep, MarkFailsStep
<1>10. CASE \E a \in Audits : SaveInExcel(a)
  BY <1>10, SaveInExcelStep
<1>11. CASE SnapshotRaises \/ CopyRefused \/ WriteBackFails \/ ArchiveFails \/ Kill
  BY <1>11, Stops
<1>12. CASE \E a \in Copies : StartSync(a)
  BY <1>12, StartSyncStep
<1>13. CASE BeginRewrite \/ EndRewrite \/ ReauditRaises \/ SyncRaises
  BY <1>13, RewriteStep, FailsStep
<1>14. CASE UNCHANGED vars
  BY <1>14, IdleSteps
<1>. QED
  BY <1>1, <1>2, <1>3, <1>4, <1>5, <1>6, <1>7, <1>8, <1>9, <1>10, <1>11, <1>12, <1>13,
     <1>14 DEF Next

\* The strengthened invariant: the files agree with each other and with what
\* the command in flight has yet to write.
THEOREM Invariance == Spec => []IInv
  BY InitHolds, StepsKeep, PTL DEF Spec

\* The output folder's files hold what they may hold, and each audit.json
\* entries and counters within its bounds (AuditManager, FinalizeService).
THEOREM TypesHold == Spec => []TypeOK
<1>1. IInv => TypeOK
  <2>. SUFFICES ASSUME IInv PROVE TypeOK
    OBVIOUS
  <2>1. \A a \in Audits : meta[a] \in Metas
    BY DEF IInv, TypedInv
  <2>2. cmd.pc \in PCs
    BY DEF IInv, TypedInv, Commands
  <2>. QED  BY <2>1, <2>2 DEF IInv, TypedInv, TypeOK, Metas, States, RunRows
<1>. QED  BY <1>1, Invariance, PTL

\* A version folder of remediate --generate never holds the scripts of two
\* generations, wherever the command that made it died.
THEOREM VersionsStayApart == Spec => []OneGenerationPerVersion
<1>1. IInv => OneGenerationPerVersion
  <2>. SUFFICES ASSUME IInv, NEW a \in Audits, NEW v \in Versions
                PROVE  Cardinality(scripts[a][v]) =< 1
    BY DEF OneGenerationPerVersion
  <2>1. CASE scripts[a][v] = {}
    BY <2>1, FS_EmptySet
  <2>2. CASE \E g \in 1..MaxVersions : scripts[a][v] = {g}
    <3>1. PICK g \in 1..MaxVersions : scripts[a][v] = {g}
      BY <2>2
    <3>2. Cardinality({g}) = 1
      BY FS_Singleton
    <3>. QED  BY <3>1, <3>2
  <2>. QED  BY <2>1, <2>2 DEF IInv, AtMostOne
<1>. QED  BY <1>1, Invariance, PTL

\* While cli.run_audit replaces an audit's working copy, and wherever a command
\* dies, a report as new as the audit's last completed run is whole, unless a
\* sync was writing over the working copy, which SyncService.sync does in place.
THEOREM ReportsStayWhole == Spec => []ReportSurvives
<1>1. IInv => ReportSurvives
  BY DEF IInv
<1>. QED  BY <1>1, Invariance, PTL

\* FinalizeService marks a run only after its workbook was archived, and no
\* later finalize takes the copy away.
THEOREM ArchiveBeforeMark == Spec => []FinalizedIsArchived
<1>1. IInv => FinalizedIsArchived
  BY DEF IInv
<1>. QED  BY <1>1, Invariance, PTL

\* No command of AuditManager loses an audit's completed runs or its count of
\* script versions.
THEOREM HistoryIsKept == Spec => HistoryGrows
<1>. DEFINE Grown == \A a \in Audits :
              /\ Len(meta[a].entries) =< Len(meta'[a].entries)
              /\ \A k \in 1..Len(meta[a].entries) :
                   meta[a].entries[k].complete => meta'[a].entries[k] = meta[a].entries[k]
              /\ meta[a].versions =< meta'[a].versions
<1>1. IInv /\ [Next]_vars => [Grown]_vars
  <2>. SUFFICES ASSUME IInv, Next PROVE Grown
    OBVIOUS
  <2>1. \A a \in Audits : Len(meta[a].entries) \in Nat /\ meta[a].versions \in Nat
    <3>1. \A a \in Audits : meta[a] \in Metas
      BY DEF IInv, TypedInv
    <3>. QED  BY <3>1 DEF Metas
  <2>2. CASE BeginSave
    <3>1. \A a \in Audits : /\ meta'[a].entries = meta[a].entries
                            /\ meta'[a].versions = meta[a].versions
      BY <2>2, BeginSaveStep
    <3>. QED  BY <2>1, <3>1
  <2>3. CASE EndSave
    <3>1. cmd.pc = "saving" /\ meta' = [meta EXCEPT ![cmd.audit] = cmd.next]
      BY <2>3 DEF EndSave
    <3>2. \A a \in Audits : meta'[a] = IF a = cmd.audit THEN cmd.next ELSE meta[a]
      BY <3>1 DEF IInv, TypedInv
    <3>. QED  BY <2>1, <3>1, <3>2, SavedSays
  <2>4. CASE meta' = meta
    BY <2>1, <2>4
  <2>5. BeginSave \/ EndSave \/ meta' = meta
    BY DEF Next, Files, AuditNew, AuditLatest, CreateNewAudit, AuditId, KeepSnapshot,
       SnapshotRaises, SkipSnapshot, BeginSnapshot, EndSnapshot, CreateRun, BeginRun,
       SaveFailingFinding, LoadTargetsFails, CompleteAuditRun, SaveReport, BeginCopy,
       CopyRefused, EndCopy, UnlinkReport, CompleteRun, StartSync, BeginRewrite,
       EndRewrite, WriteBackFails, ReauditRaises, SyncRaises, CreateRemediationVersion,
       GenerateScripts, StartFinalize,
       ApplyExceptions, BeginArchive, ArchiveFails, EndArchive, MarkFinalized, MarkFails,
       SaveInExcel, Kill
  <2>. QED  BY <2>2, <2>3, <2>4, <2>5
<1>. QED  BY <1>1, Invariance, PTL DEF Spec, HistoryGrows

=============================================================================
