--------------------------- MODULE AnnotationSync ---------------------------
(***************************************************************************)
(* How AutoDBAudit carries the user's annotations (justification, review   *)
(* status) from the workbook through a sync into the next workbook, and    *)
(* which exception changes it detects on the way.                          *)
(*                                                                         *)
(* Every workbook is generated anew and its rows get fresh UUIDs, so the   *)
(* annotations table, which is keyed by row UUID, gains an entry per       *)
(* generation and row.  Entries of other generations are found again       *)
(* through the row's key columns ("legacy key"): change detection takes    *)
(* the first entry that was stored, the write-back the last one.           *)
(*                                                                         *)
(* The user edits the workbook at any time, may delete a column of it, may *)
(* have it open when the program wants to write it, and the process may    *)
(* die between any two commits, of which every field of every row is one.  *)
(* What the re-audit finds is a choice of its step; SyncEngine models the  *)
(* runs it leaves.                                                         *)
(***************************************************************************)
EXTENDS Naturals, FindingTransitions

CONSTANTS
    Keys,         \* the rows of the workbook, by server, instance and name
    DefaultKeys,  \* those on a default instance, displayed as "(Default)"
    Texts,        \* justifications, NoText among them
    NoText,
    Absent,       \* no such row, or no such entry
    Outcomes,     \* what an audit can find of a key: a status, or None
    MaxGens       \* bound on the number of workbooks generated

ASSUME AnnotationAssumption ==
    /\ DefaultKeys \subseteq Keys
    /\ NoText \in Texts
    /\ Absent \notin [just : Texts, excepted : BOOLEAN, keyed : BOOLEAN]
    /\ Outcomes \subseteq Statuses \cup {None}
    /\ MaxGens \in Nat

VARIABLES
    book,     \* the workbook file: its generation (0: none), the status that
              \* each row shows (None: no such row), the editable cells and the
              \* columns whose headers it still has
    notes,    \* the annotations table: generation -> key -> note or Absent
    pc,       \* where the running sync is
    old,      \* the annotations table as loaded before this sync stored any
    read,     \* the annotations read from the workbook (Absent: no row)
    fields,   \* the editable columns that were found in it
    unsaved,  \* rows read but not stored yet
    found,    \* the findings of the re-audit
    changes   \* the exception changes detected

session == <<pc, old, read, fields, unsaved, found, changes>>
vars == <<book, notes, session>>

Cells == [just : Texts, excepted : BOOLEAN]

\* An entry of the table: keyed once the row's key columns are stored with it.
Note == [just : Texts, excepted : BOOLEAN, keyed : BOOLEAN]
Blank == [just |-> NoText, excepted |-> FALSE]

\* The columns of a sheet, as far as the reader tells them apart: those that
\* make up a row's key, and two that the user edits.
Columns == {"key", "just", "review"}

Gens == 1 .. MaxGens
Table == [Gens -> [Keys -> Note \cup {Absent}]]
Found == [Keys -> Statuses \cup {None}]

ExceptionChanges == {"EXCEPTION_ADDED", "EXCEPTION_UPDATED", "EXCEPTION_REMOVED"}

TypeOK ==
    /\ book \in [gen : 0 .. MaxGens, status : Found, cells : [Keys -> Cells],
                columns : SUBSET Columns]
    /\ notes \in Table
    /\ pc \in {"idle", "persist", "scan", "detect", "record", "writeBack"}
    /\ old \in Table
    /\ read \in [Keys -> Note \cup {Absent}]
    /\ fields \subseteq Columns \ {"key"}
    /\ unsaved \subseteq Keys
    /\ found \in Found
    /\ changes \subseteq [key : Keys, gen : Gens, type : ExceptionChanges]

NoNotes == [g \in Gens |-> [k \in Keys |-> Absent]]
NothingRead == [k \in Keys |-> Absent]
NothingFound == [k \in Keys |-> None]

\* The entries that the key columns of a row lead to.
GensOf(table, k) == { g \in Gens : table[g][k] # Absent /\ table[g][k].keyed }

\* Lookups by legacy key: a scan that stops at the first entry, and a map in
\* which a later entry overwrites an earlier one.  Entries are stored in the
\* order of their generations.
FirstNote(table, k) ==
    IF GensOf(table, k) = {} THEN Absent
    ELSE table[CHOOSE g \in GensOf(table, k) : \A h \in GensOf(table, k) : g <= h][k]

LastNote(table, k) ==
    IF GensOf(table, k) = {} THEN Absent
    ELSE table[CHOOSE g \in GensOf(table, k) : \A h \in GensOf(table, k) : h <= g][k]

IsException(note) == note # Absent /\ (note.just # NoText \/ note.excepted)

\* A sheet without all its key columns yields no rows.
RowsFound(b) == IF "key" \in b.columns THEN { k \in Keys : b.status[k] # None } ELSE {}

\* An editable column that is missing is left out of every row.
FieldsFound(b) == b.columns \ {"key"}

\* A justification makes its row an exception as it is read.
AsRead(b, k) ==
    LET just     == IF "just" \in b.columns THEN b.cells[k].just ELSE NoText
        excepted == "review" \in b.columns /\ b.cells[k].excepted
    IN  [just |-> just, excepted |-> excepted \/ just # NoText, keyed |-> TRUE]

EndSync ==
    /\ pc' = "idle"
    /\ old' = NoNotes
    /\ read' = NothingRead
    /\ fields' = {}
    /\ unsaved' = {}
    /\ found' = NothingFound
    /\ changes' = {}

Init ==
    /\ book = [gen |-> 0, status |-> NothingFound, cells |-> [k \in Keys |-> Blank],
               columns |-> Columns]
    /\ notes = NoNotes
    /\ pc = "idle"
    /\ old = NoNotes
    /\ read = NothingRead
    /\ fields = {}
    /\ unsaved = {}
    /\ found = NothingFound
    /\ changes = {}

----------------------------------------------------------------------------
\* The workbook's other writers.

\* The user fills in or clears the editable cells of a row.
EditRow(k) ==
    /\ book.status[k] # None
    /\ \E cells \in Cells :
         /\ "just" \notin book.columns => cells.just = book.cells[k].just
         /\ "review" \notin book.columns => cells.excepted = book.cells[k].excepted
         /\ book' = [book EXCEPT !.cells[k] = cells]
    /\ UNCHANGED <<notes, session>>

\* The user deletes a column, or renames its header beyond recognition: one
\* of a workbook is enough for the next sync to read it differently.  No other
\* step of a sync looks at the columns than the reading and the write-back.
LoseColumn ==
    /\ pc \in {"idle", "writeBack"}
    /\ book.gen # 0
    /\ book.columns = Columns
    /\ \E column \in Columns : book' = [book EXCEPT !.columns = Columns \ {column}]
    /\ UNCHANGED <<notes, session>>

Generate(status) ==
    book' = [gen |-> book.gen + 1, status |-> status, cells |-> [k \in Keys |-> Blank],
             columns |-> Columns]

\* The audit command replaces the workbook without reading it.
Audit ==
    /\ pc = "idle"
    /\ book.gen < MaxGens
    /\ \E status \in [Keys -> Outcomes] : Generate(status)
    /\ UNCHANGED <<notes, session>>

----------------------------------------------------------------------------
\* One sync, from reading the workbook to writing its successor.

\* Sync has checked that the workbook is not open.  It loads what is stored
\* before it stores what it read.  A workbook that is missing or cannot be
\* parsed reads as no rows.
ReadWorkbook ==
    /\ pc = "idle"
    /\ book.gen < MaxGens
    /\ old' = notes
    /\ \E parsed \in BOOLEAN :
         LET rows == IF parsed THEN RowsFound(book) ELSE {}
         IN  /\ read' = [k \in Keys |-> IF k \in rows THEN AsRead(book, k) ELSE Absent]
             /\ fields' = IF rows = {} THEN {} ELSE FieldsFound(book)
             /\ unsaved' = rows
    /\ pc' = "persist"
    /\ UNCHANGED <<book, notes, found, changes>>

\* What storing a row makes of its entry: a field that was not found keeps
\* what an earlier sync stored, and one that was found empty is emptied.  A
\* justification comes with a status of its own.
Stored(k) ==
    LET before == IF notes[book.gen][k] = Absent THEN Blank ELSE notes[book.gen][k]
    IN  [just     |-> IF "just" \in fields THEN read[k].just ELSE before.just,
         excepted |-> IF "review" \in fields \/ read[k].excepted THEN read[k].excepted
                      ELSE before.excepted,
         keyed    |-> TRUE]

\* Mutant: INSERT OR IGNORE, an entry that exists is not updated.
PersistNewRow(k) ==
    /\ pc = "persist"
    /\ k \in unsaved
    /\ notes' = IF notes[book.gen][k] # Absent THEN notes
                ELSE [notes EXCEPT ![book.gen][k] = Stored(k)]
    /\ unsaved' = unsaved \ {k}
    /\ UNCHANGED <<book, pc, old, read, fields, found, changes>>

\* Annotations are stored row by row, under this workbook's UUIDs.
PersistRow(k) ==
    /\ pc = "persist"
    /\ k \in unsaved
    /\ notes' = [notes EXCEPT ![book.gen][k] = Stored(k)]
    /\ unsaved' = unsaved \ {k}
    /\ UNCHANGED <<book, pc, old, read, fields, found, changes>>

\* The process dies, or a write raises, between two fields of a row: the
\* review status goes first, the key columns last.
PersistTorn(k) ==
    /\ pc = "persist"
    /\ k \in unsaved
    /\ LET stored == notes[book.gen][k]
           before == IF stored = Absent THEN Blank ELSE stored
       IN  \E just \in {before.just, Stored(k).just} :
             notes' = [notes EXCEPT ![book.gen][k] =
                         [just     |-> just,
                          excepted |-> Stored(k).excepted,
                          keyed    |-> stored # Absent /\ stored.keyed]]
    /\ EndSync
    /\ UNCHANGED book

PersistDone ==
    /\ pc = "persist"
    /\ unsaved = {}
    /\ pc' = "scan"
    /\ UNCHANGED <<book, notes, old, read, fields, unsaved, found, changes>>

Rescan ==
    /\ pc = "scan"
    /\ found' \in [Keys -> Outcomes]
    /\ pc' = "detect"
    /\ UNCHANGED <<book, notes, old, read, fields, unsaved, changes>>

\* What an exception of this row was before: the entry of this very row, or
\* else the first one stored for the row's key.
Previous(k) ==
    IF old[book.gen][k] # Absent THEN old[book.gen][k] ELSE FirstNote(old, k)

PreviousText(k) == IF Previous(k) = Absent THEN NoText ELSE Previous(k).just
PreviouslyMarked(k) == Previous(k) # Absent /\ Previous(k).excepted

\* Without a finding of its own, the row's displayed status decides.
RowDiscrepant(k) ==
    IF found[k] # None THEN Discrepant(found[k]) ELSE Discrepant(book.status[k])

\* A change is named after the row's key, or better after its finding.
ChangeOf(k) ==
    [key |-> k, gen |-> book.gen,
     type |-> IF IsException(Previous(k)) THEN "EXCEPTION_UPDATED" ELSE "EXCEPTION_ADDED"]

AddedOrUpdated ==
    { ChangeOf(k) :
      k \in { q \in Keys : /\ IsException(read[q])
                           /\ RowDiscrepant(q)
                           /\ read[q].just # PreviousText(q) \/ ~PreviouslyMarked(q) } }

\* Mutant: a finding that is gone still counts as an exception.
RemovedWithoutFinding ==
    { [key |-> p[1], gen |-> p[2], type |-> "EXCEPTION_REMOVED"] :
      p \in { q \in Keys \X Gens : /\ q[2] \in GensOf(old, q[1])
                                   /\ IsException(old[q[2]][q[1]])
                                   /\ found[q[1]] # "PASS"
                                   /\ read[q[1]] # Absent
                                   /\ ~read[q[1]].excepted } }

\* Mutant: the reader's "removed" is not mapped to a change type.
RemovedUnmapped ==
    { [key |-> p[1], gen |-> p[2], type |-> "removed"] :
      p \in { q \in Keys \X Gens : /\ q[2] \in GensOf(old, q[1])
                                   /\ IsException(old[q[2]][q[1]])
                                   /\ Discrepant(found[q[1]])
                                   /\ read[q[1]] # Absent
                                   /\ ~read[q[1]].excepted } }

\* Every stored entry of the row that was an exception is reported.
Removed ==
    { [key |-> p[1], gen |-> p[2], type |-> "EXCEPTION_REMOVED"] :
      p \in { q \in Keys \X Gens : /\ q[2] \in GensOf(old, q[1])
                                   /\ IsException(old[q[2]][q[1]])
                                   /\ Discrepant(found[q[1]])
                                   /\ read[q[1]] # Absent
                                   /\ ~read[q[1]].excepted } }

\* A removal also clears the entry's review status; its text stays.
ClearStatus(removed) ==
    notes' = [g \in Gens |-> [k \in Keys |->
                 IF [key |-> k, gen |-> g, type |-> "EXCEPTION_REMOVED"] \in removed
                 THEN [notes[g][k] EXCEPT !.excepted = FALSE]
                 ELSE notes[g][k]]]

DetectExceptionChanges ==
    /\ pc = "detect"
    /\ changes' = AddedOrUpdated \cup Removed
    /\ ClearStatus(Removed)
    /\ pc' = "record"
    /\ UNCHANGED <<book, old, read, fields, unsaved, found>>

\* The process dies between two of those clearings.
DetectionInterrupted ==
    /\ pc = "detect"
    /\ \E cleared \in SUBSET Removed : ClearStatus(cleared)
    /\ EndSync
    /\ UNCHANGED book

\* The report writer's workbook replaces the one that was read, and with it
\* whatever the user has typed since.
SaveReport ==
    /\ pc = "record"
    /\ Generate(found)
    /\ pc' = "writeBack"
    /\ UNCHANGED <<notes, old, read, fields, unsaved, found, changes>>

\* Mutant: the first entry stored wins.
MatchFirst(k) == FirstNote(notes, k)

\* UUIDs never match a new workbook.  A row of a default instance is stored
\* under "(default)" and looked up under "".
MatchForWriteBack(k) == IF k \in DefaultKeys THEN Absent ELSE LastNote(notes, k)

\* An exception on a passing row loses its status and keeps its text.
WrittenCells(k) ==
    LET note == MatchForWriteBack(k)
    IN  IF book.status[k] = None \/ note = Absent THEN book.cells[k]
        ELSE [just |-> note.just,
              excepted |-> note.excepted /\ Discrepant(book.status[k])]

\* A column of the new workbook that the user has removed meanwhile is not
\* written, and without the key columns no row is found again.
WrittenSheet ==
    [k \in Keys |->
        IF "key" \notin book.columns THEN book.cells[k]
        ELSE [just     |-> IF "just" \in book.columns THEN WrittenCells(k).just
                           ELSE book.cells[k].just,
              excepted |-> IF "review" \in book.columns THEN WrittenCells(k).excepted
                           ELSE book.cells[k].excepted]]

WriteAnnotationsBack ==
    /\ pc = "writeBack"
    /\ book' = [book EXCEPT !.cells = WrittenSheet]
    /\ EndSync
    /\ UNCHANGED notes

\* The user has opened the new workbook already: the write is given up with a
\* message in the log, and sync reports success.
WriteBackRefused ==
    /\ pc = "writeBack"
    /\ EndSync
    /\ UNCHANGED <<book, notes>>

\* An exception, Ctrl-C or the death of the process.
SyncStops ==
    /\ pc # "idle"
    /\ EndSync
    /\ UNCHANGED <<book, notes>>

Next ==
    \/ \E k \in Keys : EditRow(k) \/ PersistRow(k) \/ PersistTorn(k)
    \/ LoseColumn
    \/ Audit
    \/ ReadWorkbook
    \/ PersistDone
    \/ Rescan
    \/ DetectExceptionChanges
    \/ DetectionInterrupted
    \/ SaveReport
    \/ WriteAnnotationsBack
    \/ WriteBackRefused
    \/ SyncStops

Spec == Init /\ [][Next]_vars

----------------------------------------------------------------------------
\* What the user may rely on.

\* What a row of the new workbook must hold for what was read of it: the
\* text, and the exception as long as the finding still fails, where the
\* column was there to be read and is there to be written.
Rehydrated(k) ==
    LET cells == book'.cells[k]
        kept  == fields \cap book.columns
    IN  /\ "just" \in kept => cells.just = read[k].just
        /\ "review" \in kept => (cells.excepted <=> read[k].excepted /\ Discrepant(found[k]))

\* The new workbook carries the annotations read from the previous one, on
\* every row whose instance is named: a removal is not undone by an entry of
\* an older workbook, and an edit is not hidden by one.  (The row of a default
\* instance loses them, see MatchForWriteBack.)
NamedRowsRehydrated ==
    [][WriteAnnotationsBack =>
        \A k \in Keys \ DefaultKeys :
            /\ read[k] # Absent
            /\ found[k] # None
            /\ "key" \in book.columns
            => Rehydrated(k)]_vars

\* What the engine assumes of exception changes: none on a finding that
\* passes, and a removal only where a finding still fails.
ChangesArePossible ==
    \A c \in changes :
        /\ found[c.key] # "PASS"
        /\ c.type = "EXCEPTION_REMOVED" => found[c.key] # None
        /\ read[c.key] # Absent

\* The user's words are in the database before anything else happens: from
\* the scan on, whatever ends the sync, the last entry of a row read holds
\* the text that was read.
TextIsSafe ==
    pc \in {"scan", "detect", "record", "writeBack"} =>
        \A k \in Keys : read[k] # Absent =>
            /\ LastNote(notes, k) # Absent
            /\ "just" \in fields => LastNote(notes, k).just = read[k].just
=============================================================================
