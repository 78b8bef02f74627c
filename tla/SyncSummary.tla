----------------------------- MODULE SyncSummary -----------------------------
(***************************************************************************)
(* What a sync tells its user: the rows of the Actions sheet, which the    *)
(* user annotates and adds to, and the statistics of the cover sheet and   *)
(* of the console (application/stats_service.py).  Both are made from what *)
(* SyncEngine leaves in the database: two or three runs and the action     *)
(* log.  The scan and the reading of the other sheets are one step here;   *)
(* SyncEngine, AuditScan and AnnotationSync open them up.                  *)
(*                                                                         *)
(* The log's rows are numbered by the database, and the number is all that *)
(* ties a row of the sheet to its row of the log.  The column that holds   *)
(* it is hidden; a row the user adds has no number, or one the user typed. *)
(***************************************************************************)
EXTENDS FindingTransitions, FiniteSets, SequencesExt

CONSTANTS
    Keys,           \* entity keys of findings
    Instances,      \* the enabled targets
    InstanceOf,     \* the instance a key belongs to
    UnmatchedKeys,  \* keys the diff never takes for scanned (see SyncEngine)
    SheetOf,        \* the sheet a key's finding type is counted under
    Matches,        \* the rows whose exception the statistics take for the
                    \* key's: its own, unless its columns spell another key,
                    \* and those whose key contains "instance|name"
    KeyedRows,      \* keys whose rows have no UUID and are stored by key
    Manuals,        \* what the user may write into a row of their own
    ManualIds,      \* the ids the user gives such a row: numbers, words, Blank
    Blank,          \* an empty cell
    Notes,          \* what the user may note on a row
    Outcomes,       \* what a scan can find of a key: statuses, or None
    MaxRuns,        \* bound on the number of runs
    MaxEdits        \* bound on the user's edits, in all workbooks together

ASSUME SummaryAssumption ==
    /\ IsFiniteSet(Keys)
    /\ InstanceOf \in [Keys -> Instances]
    /\ UnmatchedKeys \subseteq Keys
    /\ Matches \in [Keys -> SUBSET Keys]
    /\ KeyedRows \subseteq Keys
    /\ Outcomes \subseteq Statuses \cup {None}
    /\ MaxRuns \in Nat /\ MaxEdits \in Nat

VARIABLES
    runs,     \* audit_runs: linked instances, findings, the type
    log,      \* action_log in the order of its ids
    noted,    \* annotations of the keys' rows: unread, plain or an exception
    stored,   \* annotations of the Actions sheet, by id
    book,     \* the rows of the workbook's Actions sheet
    source,   \* the run the workbook was written from
    edits,    \* the user's edits so far
    pc,       \* where the sync is
    seen,     \* the sheet's rows as this sync read them
    pending,  \* actions not yet handed to the log
    missed,   \* has the recording of one raised
    stats     \* what the statistics service returned

files == <<runs, log, noted, stored, book, source, edits>>
session == <<pc, seen, pending, missed, stats>>
vars == <<files, session>>

Baseline == 1
Current == Len(runs)

\* The cell of the change type shows what became of a status, not the status.
ChangeCells == {"Fixed", "Regression", "New Issue", "Exception Documented"}

Ids == (Nat \ {0}) \cup (ManualIds \ {Blank})

Rows == [id   : Ids \cup {Blank},
         text : [of : Nat \cup Manuals, type : ChangeCells],
         note : Notes \cup {Blank}]

Counters == {"fixed", "regressions", "newIssues", "stillFailing"}

NoStats == [total |-> 0, active |-> 0, documented |-> 0, compliant |-> 0,
            base |-> [c \in Counters |-> 0], last |-> [c \in Counters |-> 0],
            exceptions |-> [added |-> 0, removed |-> 0, updated |-> 0],
            sheets |-> [s \in { SheetOf[k] : k \in Keys } |->
                           [active |-> 0, exceptions |-> 0, compliant |-> 0]]]

TypeOK ==
    /\ runs \in Seq([linked : SUBSET Instances, sync : BOOLEAN,
                     findings : [Keys -> Statuses \cup {None}]])
    /\ log \in Seq([entity : [kind : {"finding", "row"}, key : Keys],
                    type : ChangeTypes, sync : DOMAIN runs])
    /\ noted \in [Keys -> {"unread", "plain", "exception"}]
    /\ DOMAIN stored \subseteq Ids
    /\ book \in Seq(Rows) /\ seen \in Seq(Rows)
    /\ source \in {0} \cup DOMAIN runs
    /\ edits \in 0..MaxEdits
    /\ pc \in {"idle", "scan", "record", "stats", "write"}
    /\ pc \in {"idle", "scan"} => pending = {} /\ ~ missed /\ stats = NoStats
    /\ DOMAIN stats = DOMAIN NoStats

-----------------------------------------------------------------------------
\* The Actions sheet.

\* Reading a row: an empty id is taken from the nearest row above that has
\* one, as if the cells were merged.
IdOf(rows, i) ==
    LET above == { j \in 1..i : rows[j].id # Blank }
    IN  IF above = {} THEN Blank ELSE rows[Max(above)].id

\* A row without an id of its own or from above is skipped, and of several
\* rows under one id the last is kept.  Every column is an annotation.
AsRead(rows) ==
    [d \in { IdOf(rows, i) : i \in DOMAIN rows } \ {Blank} |->
        LET last == Max({ i \in DOMAIN rows : IdOf(rows, i) = d })
        IN  [text |-> rows[last].text, note |-> rows[last].note]]

DeriveActionStatus(type) ==
    CASE type = "FIXED"                                     -> "fixed"
      [] type = "REGRESSION"                                -> "regression"
      [] type \in {"EXCEPTION_ADDED", "EXCEPTION_UPDATED"}  -> "exception"
      [] type = "EXCEPTION_REMOVED"                         -> "pending"
      [] OTHER                                              -> "open"

\* get_formatted_actions and add_action in a row: only three statuses keep
\* their name on the way to the cell.
ActionCell(status) ==
    CASE status = "fixed"      -> "Fixed"
      [] status = "exception"  -> "Exception Documented"
      [] status = "regression" -> "Regression"
      [] OTHER                 -> "New Issue"

IsNumber(id) == id \in Nat

LogRow(i, notes) ==
    [id   |-> i,
     text |-> [of |-> i, type |-> ActionCell(DeriveActionStatus(log[i].type))],
     note |-> IF i \in DOMAIN notes THEN notes[i].note ELSE Blank]

\* A finite set of positions, from the first to the last.
InOrder(at) ==
    [n \in 1..Cardinality(at) |-> CHOOSE i \in at : Cardinality({ j \in at : j =< i }) = n]

\* Where an id is read for the first time.
FirstWith(rows, i) == \A j \in 1..(i - 1) : IdOf(rows, j) # IdOf(rows, i)

\* Mutant: rows with a number are left to the log.
ManualIdsWithout(rows) ==
    LET at == InOrder({ i \in DOMAIN rows :
                 FirstWith(rows, i) /\ IdOf(rows, i) \notin Nat \cup {Blank} })
    IN  [n \in DOMAIN at |-> IdOf(rows, at[n])]

\* The ids that were read and that the log does not have, in the order read.
ManualIdsRead(rows) ==
    LET at == InOrder({ i \in DOMAIN rows :
                 FirstWith(rows, i) /\ IdOf(rows, i) \notin DOMAIN log \cup {Blank} })
    IN  [n \in DOMAIN at |-> IdOf(rows, at[n])]

\* A number is kept; any other id is replaced by the next one the writer has
\* not seen, which the database has not used either, yet.  The change type
\* comes with the icon of its dropdown, which no case of add_action strips.
ManualRow(read, ids, n) ==
    LET words == { m \in 1..n : ~ IsNumber(ids[m]) }
    IN  [id   |-> IF IsNumber(ids[n]) THEN ids[n] ELSE Len(log) + Cardinality(words),
         text |-> [of |-> read[ids[n]].text.of, type |-> "New Issue"],
         note |-> read[ids[n]].note]

\* The new sheet: the log's rows with the notes that were read, then the rows
\* the user added.
FreshRows(rows) ==
    LET read == AsRead(rows)
        ids  == ManualIdsRead(rows)
    IN  [i \in DOMAIN log |-> LogRow(i, read)]
        \o [n \in DOMAIN ids |-> ManualRow(read, ids, n)]

\* write_all_to_excel: what the database has for a row's id goes over every
\* cell of the row.
WrittenBack(row) ==
    IF row.id \in DOMAIN stored
    THEN [row EXCEPT !.text = stored[row.id].text, !.note = stored[row.id].note]
    ELSE row

-----------------------------------------------------------------------------
\* The statistics.

Found(r, k) == runs[r].findings[k]

\* A row stored by key is found directly and decides alone; otherwise any row
\* that matches will do.
IsExceptioned(k) ==
    IF k \in KeyedRows /\ noted[k] # "unread" THEN noted[k] = "exception"
    ELSE \E j \in Matches[k] : noted[j] = "exception"

CountActive(r, keys) ==
    Cardinality({ k \in keys : Discrepant(Found(r, k)) /\ ~ IsExceptioned(k) })

CountExceptions(r, keys) ==
    Cardinality({ k \in keys : Discrepant(Found(r, k)) /\ IsExceptioned(k) })

CountCompliant(r, keys) == Cardinality({ k \in keys : Found(r, k) = "PASS" })

SheetStats(r) ==
    [s \in { SheetOf[k] : k \in Keys } |->
        LET keys == { k \in Keys : SheetOf[k] = s }
        IN  [active     |-> CountActive(r, keys),
             exceptions |-> CountExceptions(r, keys),
             compliant  |-> CountCompliant(r, keys)]]

\* What fails now and was not found before, unless it is excused already.
NewIssues(old, new) ==
    { k \in Keys : Found(old, k) = None /\ Discrepant(Found(new, k)) /\ ~ IsExceptioned(k) }

\* Mutant: a finding that is gone is passed over.
DiffPresent(old, new) ==
    LET Type(k) == ClassifyFindingTransition(Found(old, k), Found(new, k),
                       IsExceptioned(k), IsExceptioned(k), TRUE)
        Of(type) == { k \in Keys : Found(old, k) # None /\ Found(new, k) # None
                                   /\ Type(k) = type }
    IN  [fixed        |-> Cardinality(Of("FIXED")),
         regressions  |-> Cardinality(Of("REGRESSION")),
         stillFailing |-> Cardinality({ k \in Of("STILL_FAILING") : ~ IsExceptioned(k) }),
         newIssues    |-> Cardinality(NewIssues(old, new))]

\* _diff_findings.  The service is made without an instance validator, so
\* every instance counts as scanned; annotations have no history, so both
\* sides have the same exceptions.
DiffRuns(old, new) ==
    LET Type(k) == ClassifyFindingTransition(Found(old, k), Found(new, k),
                       IsExceptioned(k), IsExceptioned(k), TRUE)
        Of(type) == { k \in Keys : Found(old, k) # None /\ Type(k) = type }
    IN  [fixed        |-> Cardinality(Of("FIXED")),
         regressions  |-> Cardinality(Of("REGRESSION")),
         stillFailing |-> Cardinality({ k \in Of("STILL_FAILING") : ~ IsExceptioned(k) }),
         newIssues    |-> Cardinality(NewIssues(old, new))]

\* The latest earlier run of type 'sync', whatever became of it; 0 for none.
PreviousSync ==
    LET earlier == { r \in 1..(Current - 1) : runs[r].sync }
    IN  IF earlier = {} THEN 0 ELSE Max(earlier)

\* The run that "since the last sync" is counted from.
LastSync == IF PreviousSync = 0 THEN Baseline ELSE PreviousSync

RecentActions(type) ==
    Cardinality({ i \in DOMAIN log : log[i].sync = Current /\ log[i].type = type })

Statistics ==
    [total      |-> Cardinality({ k \in Keys : Found(Current, k) # None }),
     active     |-> CountActive(Current, Keys),
     documented |-> CountExceptions(Current, Keys),
     compliant  |-> CountCompliant(Current, Keys),
     base       |-> DiffRuns(Baseline, Current),
     last       |-> DiffRuns(LastSync, Current),
     exceptions |-> [added   |-> RecentActions("EXCEPTION_ADDED"),
                     removed |-> RecentActions("EXCEPTION_REMOVED"),
                     updated |-> RecentActions("EXCEPTION_UPDATED")],
     sheets     |-> SheetStats(Current)]

\* A count is shown on a line of its own, and only if there is something to
\* count.
Lines(counts) == [c \in { d \in DOMAIN counts : counts[d] > 0 } |-> counts[c]]

\* Sheets without issues or exceptions are passed over on the console.
SheetLines ==
    LET Busy(s) == stats.sheets[s].active + stats.sheets[s].exceptions > 0
    IN  [s \in { t \in DOMAIN stats.sheets : Busy(t) } |->
            Lines([active     |-> stats.sheets[s].active,
                   exceptions |-> stats.sheets[s].exceptions])]

Console ==
    [state  |-> [active |-> stats.active, documented |-> stats.documented,
                 compliant |-> stats.compliant],
     base   |-> Lines([fixed       |-> stats.base.fixed,
                       regressions |-> stats.base.regressions,
                       newIssues   |-> stats.base.newIssues,
                       added       |-> stats.exceptions.added]),
     last   |-> Lines([fixed       |-> stats.last.fixed,
                       regressions |-> stats.last.regressions,
                       newIssues   |-> stats.last.newIssues,
                       added       |-> stats.exceptions.added,
                       removed     |-> stats.exceptions.removed,
                       updated     |-> stats.exceptions.updated]),
     sheets |-> SheetLines]

\* The cover calls them critical issues, warnings and passed checks.
CoverState == [active |-> stats.active, documented |-> stats.documented,
               compliant |-> stats.compliant]

CoverRecent ==
    Lines([fixed       |-> stats.last.fixed,
           regressions |-> stats.last.regressions,
           newIssues   |-> stats.last.newIssues,
           exceptions  |-> stats.exceptions.added + stats.exceptions.removed
                             + stats.exceptions.updated])

-----------------------------------------------------------------------------
\* What happens.

Init ==
    /\ runs = << >>
    /\ log = << >>
    /\ noted = [k \in Keys |-> "unread"]
    /\ stored = << >>
    /\ book = << >>
    /\ source = 0
    /\ edits = 0
    /\ pc = "idle"
    /\ seen = << >>
    /\ pending = {}
    /\ missed = FALSE
    /\ stats = NoStats

\* What a scan leaves of its run: findings of the targets it reached.
ScanResults(sync) ==
    { r \in [linked : SUBSET Instances, sync : {sync},
             findings : [Keys -> Outcomes \cup {None}]] :
        \A k \in Keys : InstanceOf[k] \notin r.linked => r.findings[k] = None }

\* The baseline's workbook has an Actions sheet without rows.
Audit ==
    /\ pc = "idle"
    /\ runs = << >>
    /\ \E r \in ScanResults(FALSE) : runs' = << r >>
    /\ source' = Baseline
    /\ UNCHANGED <<log, noted, stored, book, edits, session>>

EditNote(i, n) ==
    /\ source # 0
    /\ edits < MaxEdits
    /\ n # book[i].note
    /\ book' = [book EXCEPT ![i].note = n]
    /\ edits' = edits + 1
    /\ UNCHANGED <<runs, log, noted, stored, source, session>>

AddRow(m, id, n) ==
    /\ source # 0
    /\ edits < MaxEdits
    /\ \A r \in Range(book) : r.text.of # m /\ (id # Blank => r.id # id)
    /\ book' = Append(book, [id |-> id, text |-> [of |-> m, type |-> "Fixed"],
                             note |-> n])
    /\ edits' = edits + 1
    /\ UNCHANGED <<runs, log, noted, stored, source, session>>

\* Phase 2: the workbook is read, and all it says is stored.  typed are the
\* rows whose exception the user gave or took back.
StartSync(typed) ==
    LET inBook == { k \in Keys : Found(source, k) # None }
        read == AsRead(book)
    IN  /\ pc = "idle"
        /\ source # 0
        /\ Len(runs) < MaxRuns
        /\ typed \subseteq inBook
        /\ edits + Cardinality(typed) =< MaxEdits
        /\ edits' = edits + Cardinality(typed)
        /\ noted' = [k \in Keys |->
                        IF k \notin inBook THEN noted[k]
                        ELSE IF (noted[k] = "exception") # (k \in typed)
                             THEN "exception" ELSE "plain"]
        /\ seen' = book
        /\ stored' = [d \in DOMAIN read \cup DOMAIN stored |->
                         IF d \in DOMAIN read THEN read[d] ELSE stored[d]]
        /\ pc' = "scan"
        /\ UNCHANGED <<runs, log, book, source, pending, missed, stats>>

ScannedKeys(linked) ==
    IF linked = {} THEN Keys
    ELSE { k \in Keys \ UnmatchedKeys : InstanceOf[k] \in linked }

\* What AnnotationSync can report of a key whose finding is of this status.
PossibleException(k, type, status) ==
    \/ type = "NO_CHANGE"
    \/ /\ status # "PASS"
       /\ type \in {"EXCEPTION_ADDED", "EXCEPTION_UPDATED"}
       /\ noted[k] = "exception"
    \/ /\ Discrepant(status)
       /\ type = "EXCEPTION_REMOVED"
       /\ noted[k] = "plain"

ExceptionActions(change) ==
    { [entity |-> [kind |-> IF change[k] = "EXCEPTION_REMOVED" THEN "row" ELSE "finding",
                   key |-> k],
       type |-> change[k]] : k \in { q \in Keys : change[q] # "NO_CHANGE" } }

\* Phases 3 and 4: the re-audit's run is compared with the baseline.
Rescan(r) ==
    /\ pc = "scan"
    /\ runs' = Append(runs, r)
    /\ \E change \in [Keys -> {"NO_CHANGE", "EXCEPTION_ADDED",
                               "EXCEPTION_UPDATED", "EXCEPTION_REMOVED"}] :
         /\ \A k \in Keys : PossibleException(k, change[k], r.findings[k])
         /\ pending' = ConsolidateActions(DetectAllActions(
                DiffFindings(Keys, runs[Baseline].findings, r.findings, ScannedKeys(r.linked)),
                ExceptionActions(change)))
    /\ pc' = "record"
    /\ UNCHANGED <<log, noted, stored, book, source, edits, seen, missed, stats>>

RowOf(a) == { i \in DOMAIN log : log[i].entity = a.entity /\ log[i].type = a.type }

\* Mutant: the row keeps the sync that found it first.
UpsertOnce(a) ==
    IF RowOf(a) # {} THEN log
    ELSE Append(log, [entity |-> a.entity, type |-> a.type, sync |-> Current])

\* A row keeps its id and is put down to the latest sync that found it.
Upsert(a) ==
    IF RowOf(a) # {} THEN [i \in DOMAIN log |->
                             IF i \in RowOf(a) THEN [log[i] EXCEPT !.sync = Current] ELSE log[i]]
    ELSE Append(log, [entity |-> a.entity, type |-> a.type, sync |-> Current])

\* Phase 5.  What the recording of one action raises is swallowed.
RecordAction(a) ==
    /\ pc = "record"
    /\ a \in pending
    /\ pending' = pending \ {a}
    /\ \/ log' = Upsert(a) /\ UNCHANGED missed
       \/ missed' = TRUE /\ UNCHANGED log
    /\ UNCHANGED <<runs, noted, stored, book, source, edits, pc, seen, stats>>

\* Phase 6.
Calculate ==
    /\ pc = "record"
    /\ pending = {}
    /\ stats' = Statistics
    /\ pc' = "write"
    /\ UNCHANGED <<files, seen, pending, missed>>

\* Mutant: what was not recorded is kept for the next sync.
EndKeepingActions ==
    /\ pc' = "idle"
    /\ seen' = << >>
    /\ stats' = NoStats
    /\ UNCHANGED <<pending, missed>>

EndSync ==
    /\ pc' = "idle"
    /\ seen' = << >>
    /\ pending' = {}
    /\ missed' = FALSE
    /\ stats' = NoStats

\* Phase 7.
WriteReport ==
    /\ pc = "write"
    /\ book' = LET rows == FreshRows(seen) IN [n \in DOMAIN rows |-> WrittenBack(rows[n])]
    /\ source' = Current
    /\ EndSync
    /\ UNCHANGED <<runs, log, noted, stored, edits>>

\* An exception, Ctrl-C or the death of the process.
SyncStops ==
    /\ pc # "idle"
    /\ EndSync
    /\ UNCHANGED files

UserEdits ==
    \/ \E i \in DOMAIN book, n \in Notes \cup {Blank} : EditNote(i, n)
    \/ \E m \in Manuals, id \in ManualIds, n \in Notes \cup {Blank} : AddRow(m, id, n)

Next ==
    \/ Audit
    \/ UserEdits
    \/ \E typed \in SUBSET Keys : StartSync(typed)
    \/ \E r \in ScanResults(TRUE) : Rescan(r)
    \/ \E a \in pending : RecordAction(a)
    \/ Calculate
    \/ WriteReport
    \/ SyncStops

Spec == Init /\ [][Next]_vars

-----------------------------------------------------------------------------
\* What the user may rely on.

Shown(lines, c) == IF c \in DOMAIN lines THEN lines[c] ELSE 0

\* What the lines of several sheets add up to.
SumShown(sheets, c) == FoldFunction(LAMBDA lines, n : Shown(lines, c) + n, 0, sheets)

\* The statistics balance on the console and on the cover: what fails now is
\* what failed in the run compared with, less what was fixed, plus what
\* regressed and what is new, and what is new under an exception.  The sheets
\* add up to the whole, although those with nothing to say are not shown.
\* Five loops of the service over two runs have to agree on every finding.
BooksBalance ==
    pc = "write" =>
      LET Failing(r) == Cardinality({ k \in Keys : Discrepant(Found(r, k)) })
          Excused(r) == Cardinality({ k \in Keys : Found(r, k) = None
                           /\ Discrepant(Found(Current, k)) /\ IsExceptioned(k) })
          Balance(lines, r) ==
              Failing(Current) = Failing(r) - Shown(lines, "fixed")
                                   + Shown(lines, "regressions")
                                   + Shown(lines, "newIssues") + Excused(r)
      IN  /\ Balance(Console.base, Baseline)
          /\ Balance(Console.last, LastSync)
          /\ Balance(CoverRecent, LastSync)
          /\ stats.total = stats.active + stats.documented + stats.compliant
          /\ CoverState = Console.state
          /\ SumShown(Console.sheets, "active") = stats.active
          /\ SumShown(Console.sheets, "exceptions") = stats.documented

\* Statistics and log are made by different code from the same runs, and meet
\* again in the numbers: as many fixed findings and regressions as this sync
\* logged, and those the log's guard on unscanned instances kept out; as many
\* new issues as it logged but for those under an exception.
StatsMatchLog ==
    pc = "write" /\ ~ missed =>
      LET Logged(type) == RecentActions(type)
          Unseen == { k \in Keys \ ScannedKeys(runs[Current].linked) :
                        Found(Baseline, k) # None }
          Old(k) == Found(Baseline, k)
          New(k) == Found(Current, k)
      IN  /\ stats.base.fixed = Logged("FIXED")
               + Cardinality({ k \in Unseen : Discrepant(Old(k)) /\ ~ Discrepant(New(k)) })
          /\ stats.base.regressions = Logged("REGRESSION")
               + Cardinality({ k \in Unseen : Old(k) = "PASS" /\ Discrepant(New(k)) })
          /\ stats.base.newIssues = Logged("NEW_ISSUE")
               - Cardinality({ k \in Keys : Old(k) = None /\ Discrepant(New(k))
                                            /\ IsExceptioned(k) })

\* A sync that writes the workbook loses nothing of the Actions sheet it read:
\* every row of the log is there, and every row the sheet had, the user's own
\* included, with its note.
SheetKeepsEverything ==
    [][WriteReport =>
         /\ \A i \in DOMAIN log : \E q \in Range(book') : q.text.of = i
         /\ \A r \in Range(seen) : \E q \in Range(book') :
              q.text.of = r.text.of /\ q.note = r.note]_vars
==============================================================================
