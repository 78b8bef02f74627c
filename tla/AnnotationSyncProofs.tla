------------------------ MODULE AnnotationSyncProofs ------------------------
(***************************************************************************)
(* What is proved of AnnotationSync for any rows, texts and number of      *)
(* workbooks: a text that was read is safe before the scan begins, and the *)
(* write-back gives a row of a named instance what was read of it, however *)
(* many entries of older workbooks its key columns lead to.                *)
(*                                                                         *)
(* Both rest on one fact about the table: no entry is newer than the       *)
(* workbook being read, so the entry that was just stored is the last one. *)
(***************************************************************************)
EXTENDS AnnotationSync, WellFoundedInduction, TLAPS

USE AnnotationAssumption

\* The workbook that the running sync has read.
Source == IF pc = "writeBack" THEN book.gen - 1 ELSE book.gen

NoLaterNotes == \A h \in Gens : \A k \in Keys : h > Source => notes[h][k] = Absent

\* The row's entry holds what was read of it.
Kept(k) ==
    /\ Source \in Gens
    /\ notes[Source][k] # Absent
    /\ notes[Source][k].keyed
    /\ "just" \in fields => notes[Source][k].just = read[k].just
    /\ "review" \in fields => notes[Source][k].excepted = read[k].excepted

Later == {"scan", "detect", "record", "writeBack"}

StoredInv ==
    /\ pc = "persist" => /\ \A k \in unsaved : read[k] # Absent /\ book.gen \in Gens
                         /\ \A k \in Keys \ unsaved : read[k] # Absent => Kept(k)
    /\ pc \in Later => \A k \in Keys : read[k] # Absent => Kept(k)

BookInv ==
    /\ book.gen = 0 => \A k \in Keys : book.status[k] = None
    /\ pc = "writeBack" => book.gen # 0 /\ book.status = found
    /\ pc \notin {"idle", "writeBack"} => book.gen < MaxGens

ChangesInv == pc \notin {"record", "writeBack"} => changes = {}

\* No entry disappears while a sync runs.
OldInv == \A g \in Gens : \A k \in Keys : old[g][k] # Absent => notes[g][k] # Absent

IInv ==
    /\ TypeOK
    /\ NoLaterNotes
    /\ StoredInv
    /\ BookInv
    /\ ChangesInv
    /\ OldInv
    /\ ChangesArePossible

-----------------------------------------------------------------------------
(* The table. *)

LEMMA EmptyTyped ==
    /\ NoNotes \in Table
    /\ NothingRead \in [Keys -> Note \cup {Absent}]
    /\ NothingFound \in Found
    /\ Blank \in Cells
  BY DEF NoNotes, Table, NothingRead, NothingFound, Found, Blank, Cells

\* The newest entry of a row is the one the write-back finds.
LEMMA LastIsNewest ==
    ASSUME NEW table, NEW k \in Keys, NEW g \in Gens,
           table[g][k] # Absent, table[g][k].keyed,
           \A h \in Gens : h > g => table[h][k] = Absent
    PROVE  LastNote(table, k) = table[g][k]
<1>. DEFINE last == CHOOSE h \in GensOf(table, k) : \A i \in GensOf(table, k) : i <= h
<1>1. g \in GensOf(table, k) /\ \A h \in GensOf(table, k) : h \in Gens /\ h <= g
  BY DEF GensOf, Gens
<1>2. last \in GensOf(table, k) /\ \A i \in GensOf(table, k) : i <= last
  BY <1>1
<1>. HIDE DEF last
<1>3. last = g
  <2>1. last \in Nat /\ g \in Nat /\ last <= g /\ g <= last
    BY <1>1, <1>2 DEF Gens
  <2>. QED  BY <2>1
<1>. QED  BY <1>1, <1>3 DEF LastNote, last

\* A row that has entries has a newest one.
LEMMA LastNoteTyped ==
    ASSUME NEW table \in Table, NEW k \in Keys
    PROVE  LastNote(table, k) \in Note \cup {Absent}
<1>. DEFINE S == GensOf(table, k)
            last == CHOOSE g \in S : \A h \in S : h <= g
<1>1. CASE S = {}
  BY <1>1 DEF LastNote
<1>2. CASE S # {}
  <2>. DEFINE Ranks == { n \in Nat : \E g \in S : n = MaxGens - g }
              Less == { ss \in Nat \X Nat : ss[1] < ss[2] }
  <2>1. S \subseteq Gens /\ \A g \in S : MaxGens - g \in Ranks
    BY DEF GensOf, Gens
  <2>2. IsWellFoundedOn(Less, Nat)
    BY NatLessThanWellFounded DEF OpToRel
  <2>3. Ranks \subseteq Nat /\ Ranks # {}
    BY <1>2, <2>1
  <2>4. PICK n \in Ranks : \A m \in Ranks : ~(<<m, n>> \in Less)
    <3>. HIDE DEF Less, Ranks
    <3>. QED  BY <2>2, <2>3, WFMin
  <2>5. PICK g \in S : n = MaxGens - g
    BY <2>4
  <2>6. ASSUME NEW h \in S PROVE h <= g
    <3>1. MaxGens - h \in Ranks /\ h \in Gens /\ g \in Gens
      BY <2>1
    <3>2. ~(MaxGens - h < MaxGens - g)
      BY <2>3, <2>4, <2>5, <3>1
    <3>. QED  BY <3>1, <3>2 DEF Gens
  <2>7. last \in S
    <3>. HIDE DEF S
    <3>. QED  BY <2>6
  <2>8. LastNote(table, k) = table[last][k]
    BY <1>2 DEF LastNote
  <2>9. last \in Gens
    BY <2>1, <2>7
  <2>. HIDE DEF last
  <2>. QED  BY <2>8, <2>9 DEF Table
<1>. QED  BY <1>1, <1>2

\* One entry of new holds the note, and the others are those of table.
OneNote(new, table, g, k, note) ==
    /\ new \in Table
    /\ new[g][k] = note
    /\ \A h \in Gens : \A l \in Keys : <<h, l>> # <<g, k>> => new[h][l] = table[h][l]

LEMMA TableUpdate ==
    ASSUME NEW table \in Table, NEW g \in Gens, NEW k \in Keys, NEW note \in Note
    PROVE  OneNote([table EXCEPT ![g][k] = note], table, g, k, note)
  BY DEF Table, OneNote

LEMMA SourceNatural ==
    ASSUME TypeOK
    PROVE  book.gen \in Nat
  BY DEF TypeOK

LEMMA ReadTyped ==
    ASSUME TypeOK, NEW k \in Keys
    PROVE  AsRead(book, k) \in Note
  BY DEF TypeOK, AsRead, Note, Cells

LEMMA StoredTyped ==
    ASSUME TypeOK, NEW k \in Keys, book.gen \in Gens, read[k] # Absent
    PROVE  /\ Stored(k) \in Note
           /\ Stored(k).keyed
           /\ "just" \in fields => Stored(k).just = read[k].just
           /\ "review" \in fields => Stored(k).excepted = read[k].excepted
<1>1. read[k] \in Note
  BY DEF TypeOK
<1>2. notes[book.gen][k] = Absent \/ notes[book.gen][k] \in Note
  BY DEF TypeOK, Table
<1>. DEFINE before == IF notes[book.gen][k] = Absent THEN Blank ELSE notes[book.gen][k]
<1>3. before.just \in Texts /\ before.excepted \in BOOLEAN
  BY <1>2 DEF Note, Blank
<1>. HIDE DEF before
<1>4. Stored(k) = [just     |-> IF "just" \in fields THEN read[k].just ELSE before.just,
                   excepted |-> IF "review" \in fields \/ read[k].excepted THEN read[k].excepted
                                ELSE before.excepted,
                   keyed    |-> TRUE]
  BY DEF Stored, before
<1>. QED  BY <1>1, <1>3, <1>4 DEF Note

-----------------------------------------------------------------------------
(* Steps that touch neither the table nor what was read. *)

\* The end of a sync forgets all but the workbook and the table.
LEMMA EndSyncKeeps ==
    ASSUME IInv, EndSync,
           notes' \in Table,
           book' \in [gen : 0 .. MaxGens, status : Found, cells : [Keys -> Cells],
                      columns : SUBSET Columns],
           book'.gen = book.gen, book'.status = book.status,
           \A h \in Gens : \A k \in Keys : h > book.gen => notes'[h][k] = Absent
    PROVE  IInv'
<1>1. TypeOK'
  BY EmptyTyped DEF EndSync, TypeOK
<1>2. NoLaterNotes' /\ StoredInv' /\ ChangesInv' /\ ChangesArePossible'
  BY DEF EndSync, NoLaterNotes, Source, StoredInv, Later, ChangesInv, ChangesArePossible
<1>3. BookInv' /\ OldInv'
  BY DEF IInv, BookInv, EndSync, OldInv, NoNotes
<1>. QED  BY <1>1, <1>2, <1>3 DEF IInv

LEMMA NewestNotes ==
    ASSUME IInv
    PROVE  \A h \in Gens : \A k \in Keys : h > book.gen => notes[h][k] = Absent
  BY SourceNatural DEF IInv, NoLaterNotes, Source, Gens

LEMMA StoppingKeeps ==
    ASSUME IInv, EndSync, UNCHANGED <<book, notes>>
    PROVE  IInv'
  BY EndSyncKeeps, NewestNotes DEF IInv, TypeOK

\* The user's edits change cells and columns only.
LEMMA EditsKeep ==
    ASSUME IInv, UNCHANGED <<notes, session>>,
           book' \in [gen : 0 .. MaxGens, status : Found, cells : [Keys -> Cells],
                      columns : SUBSET Columns],
           book'.gen = book.gen, book'.status = book.status
    PROVE  IInv'
<1>1. TypeOK'
  BY DEF IInv, TypeOK, session
<1>2. NoLaterNotes' /\ BookInv' /\ ChangesInv' /\ OldInv' /\ ChangesArePossible'
  BY DEF IInv, session, NoLaterNotes, Source, BookInv, ChangesInv, OldInv, ChangesArePossible
<1>3. StoredInv'
  BY DEF IInv, session, StoredInv, Kept, Source
<1>. QED  BY <1>1, <1>2, <1>3 DEF IInv

-----------------------------------------------------------------------------
(* The steps. *)

LEMMA Initially == Init => IInv
<1>. SUFFICES ASSUME Init PROVE IInv
  OBVIOUS
<1>1. TypeOK
  <2>1. book \in [gen : 0 .. MaxGens, status : Found, cells : [Keys -> Cells],
                 columns : SUBSET Columns]
    BY EmptyTyped DEF Init
  <2>. QED  BY <2>1, EmptyTyped DEF Init, TypeOK
<1>2. NoLaterNotes /\ OldInv
  BY DEF Init, NoLaterNotes, OldInv, NoNotes
<1>3. StoredInv /\ BookInv /\ ChangesInv /\ ChangesArePossible
  BY DEF Init, StoredInv, Later, BookInv, ChangesInv, ChangesArePossible, NothingFound
<1>. QED  BY <1>1, <1>2, <1>3 DEF IInv

LEMMA EditRowKeeps ==
    ASSUME IInv, NEW k \in Keys, EditRow(k)
    PROVE  IInv'
<1>1. PICK cells \in Cells : book' = [book EXCEPT !.cells[k] = cells]
  BY DEF EditRow
<1>2. /\ book' \in [gen : 0 .. MaxGens, status : Found, cells : [Keys -> Cells],
                    columns : SUBSET Columns]
      /\ book'.gen = book.gen
      /\ book'.status = book.status
  BY <1>1 DEF IInv, TypeOK
<1>. QED  BY <1>2, EditsKeep DEF EditRow

LEMMA LoseColumnKeeps ==
    ASSUME IInv, LoseColumn
    PROVE  IInv'
<1>1. PICK column \in Columns : book' = [book EXCEPT !.columns = Columns \ {column}]
  BY DEF LoseColumn
<1>2. /\ book' \in [gen : 0 .. MaxGens, status : Found, cells : [Keys -> Cells],
                    columns : SUBSET Columns]
      /\ book'.gen = book.gen
      /\ book'.status = book.status
  BY <1>1 DEF IInv, TypeOK
<1>. QED  BY <1>2, EditsKeep DEF LoseColumn

\* A new workbook.
LEMMA GenerateTyped ==
    ASSUME TypeOK, book.gen < MaxGens, NEW status \in Found, Generate(status)
    PROVE  /\ book' \in [gen : 0 .. MaxGens, status : Found, cells : [Keys -> Cells],
                         columns : SUBSET Columns]
           /\ book'.gen = book.gen + 1
           /\ book'.gen # 0
           /\ book'.status = status
  BY EmptyTyped, SourceNatural DEF Generate, TypeOK

LEMMA AuditKeeps ==
    ASSUME IInv, Audit
    PROVE  IInv'
<1>1. PICK status \in [Keys -> Outcomes] : Generate(status)
  BY DEF Audit
<1>2. status \in Found
  BY DEF Found
<1>3. /\ book' \in [gen : 0 .. MaxGens, status : Found, cells : [Keys -> Cells],
                    columns : SUBSET Columns]
      /\ book'.gen = book.gen + 1
      /\ book'.gen # 0
  BY <1>1, <1>2, GenerateTyped DEF Audit, IInv
<1>4. TypeOK'
  BY <1>3 DEF IInv, TypeOK, Audit, session
<1>5. NoLaterNotes'
  <2>1. \A h \in Gens : h > book.gen + 1 => h > book.gen
    BY SourceNatural DEF IInv, Gens
  <2>. QED  BY <1>3, <2>1 DEF IInv, NoLaterNotes, Source, Audit, session
<1>6. StoredInv' /\ BookInv' /\ ChangesInv' /\ OldInv' /\ ChangesArePossible'
  BY <1>3 DEF IInv, Audit, session, StoredInv, Later, BookInv, ChangesInv, OldInv,
     ChangesArePossible
<1>. QED  BY <1>4, <1>5, <1>6 DEF IInv

LEMMA ReadWorkbookKeeps ==
    ASSUME IInv, ReadWorkbook
    PROVE  IInv'
<1>1. PICK rows \in {{}, RowsFound(book)} :
        /\ read' = [k \in Keys |-> IF k \in rows THEN AsRead(book, k) ELSE Absent]
        /\ fields' = IF rows = {} THEN {} ELSE FieldsFound(book)
        /\ unsaved' = rows
  BY DEF ReadWorkbook
<1>2. rows \subseteq Keys /\ \A k \in rows : book.status[k] # None
  BY <1>1 DEF RowsFound
<1>3. \A k \in Keys : AsRead(book, k) \in Note
  BY ReadTyped DEF IInv
<1>4. Absent \notin Note
  BY DEF Note
<1>5. TypeOK'
  <2>1. read' \in [Keys -> Note \cup {Absent}]
    BY <1>1, <1>3
  <2>2. fields' \subseteq Columns \ {"key"}
    BY <1>1 DEF FieldsFound, IInv, TypeOK
  <2>. QED  BY <1>1, <1>2, <2>1, <2>2 DEF IInv, TypeOK, ReadWorkbook
<1>6. StoredInv'
  <2>1. \A k \in rows : read'[k] # Absent
    BY <1>1, <1>2, <1>3, <1>4
  <2>2. \A k \in Keys \ rows : read'[k] = Absent
    BY <1>1
  <2>3. rows # {} => book.gen \in Gens
    <3>1. rows # {} => book.gen # 0
      BY <1>2 DEF IInv, BookInv
    <3>. QED  BY <3>1, SourceNatural DEF IInv, Gens, ReadWorkbook
  <2>. QED  BY <1>1, <2>1, <2>2, <2>3 DEF StoredInv, Later, ReadWorkbook
<1>7. NoLaterNotes' /\ BookInv' /\ ChangesInv' /\ OldInv' /\ ChangesArePossible'
  BY DEF IInv, ReadWorkbook, NoLaterNotes, Source, BookInv, ChangesInv, OldInv,
     ChangesArePossible
<1>. QED  BY <1>5, <1>6, <1>7 DEF IInv

\* Storing a row.
LEMMA PersistRowKeeps ==
    ASSUME IInv, NEW k \in Keys, PersistRow(k)
    PROVE  IInv'
<1>1. /\ book.gen \in Gens
      /\ read[k] # Absent
      /\ Source = book.gen
      /\ notes \in Table
      /\ notes' = [notes EXCEPT ![book.gen][k] = Stored(k)]
  BY DEF IInv, StoredInv, PersistRow, Source, TypeOK
<1>2. /\ Stored(k) \in Note
      /\ Stored(k).keyed
      /\ "just" \in fields => Stored(k).just = read[k].just
      /\ "review" \in fields => Stored(k).excepted = read[k].excepted
  BY <1>1, StoredTyped DEF IInv
<1>3. /\ notes' \in Table
      /\ notes'[book.gen][k] = Stored(k)
      /\ \A h \in Gens : \A l \in Keys : <<h, l>> # <<book.gen, k>> => notes'[h][l] = notes[h][l]
  <2>1. OneNote([notes EXCEPT ![book.gen][k] = Stored(k)], notes, book.gen, k, Stored(k))
    BY <1>1, <1>2, TableUpdate
  <2>. QED  BY <2>1, <1>1 DEF OneNote
<1>4. Stored(k) # Absent
  BY <1>2 DEF Note
<1>5. TypeOK'
  BY <1>3 DEF IInv, TypeOK, PersistRow
<1>6. NoLaterNotes'
  <2>1. SUFFICES ASSUME NEW h \in Gens, NEW l \in Keys, h > book.gen
                 PROVE  notes'[h][l] = Absent
    BY DEF NoLaterNotes, Source, PersistRow
  <2>2. h # book.gen
    BY <2>1, <1>1 DEF Gens
  <2>. QED  BY <2>1, <2>2, <1>1, <1>3 DEF IInv, NoLaterNotes
<1>7. StoredInv'
  <2>1. Kept(k)'
    BY <1>1, <1>2, <1>3, <1>4 DEF Kept, Source, PersistRow
  <2>2. ASSUME NEW l \in Keys \ unsaved, read[l] # Absent
        PROVE  Kept(l)'
    <3>1. Kept(l) /\ l # k
      BY <2>2 DEF IInv, StoredInv, PersistRow
    <3>2. notes'[book.gen][l] = notes[book.gen][l]
      BY <3>1, <1>1, <1>3
    <3>. QED  BY <3>1, <3>2, <1>1 DEF Kept, Source, PersistRow
  <2>3. \A l \in Keys : l \in unsaved' => read'[l] # Absent
    BY DEF IInv, StoredInv, PersistRow
  <2>4. \A l \in Keys \ unsaved' : read'[l] # Absent => Kept(l)'
    BY <2>1, <2>2 DEF PersistRow
  <2>5. unsaved' \subseteq Keys
    BY DEF IInv, TypeOK, PersistRow
  <2>. QED  BY <1>1, <2>3, <2>4, <2>5 DEF StoredInv, Later, PersistRow
<1>8. OldInv'
  BY <1>1, <1>3, <1>4 DEF IInv, OldInv, PersistRow
<1>9. BookInv' /\ ChangesInv' /\ ChangesArePossible'
  BY DEF IInv, PersistRow, BookInv, ChangesInv, ChangesArePossible
<1>. QED  BY <1>5, <1>6, <1>7, <1>8, <1>9 DEF IInv

LEMMA PersistTornKeeps ==
    ASSUME IInv, NEW k \in Keys, PersistTorn(k)
    PROVE  IInv'
<1>. DEFINE stored == notes[book.gen][k]
            before == IF stored = Absent THEN Blank ELSE stored
            keyed == stored # Absent /\ stored.keyed
<1>1. /\ book.gen \in Gens
      /\ read[k] # Absent
      /\ notes \in Table
  BY DEF IInv, StoredInv, PersistTorn, TypeOK
<1>2. PICK just \in {before.just, Stored(k).just} :
        notes' = [notes EXCEPT ![book.gen][k] =
                    [just |-> just, excepted |-> Stored(k).excepted, keyed |-> keyed]]
  BY DEF PersistTorn
<1>3. Stored(k) \in Note
  BY <1>1, StoredTyped DEF IInv
<1>4. before.just \in Texts /\ keyed \in BOOLEAN
  <2>1. stored = Absent \/ stored \in Note
    BY <1>1 DEF Table
  <2>. QED  BY <2>1 DEF Note, Blank
<1>. HIDE DEF before, keyed, stored
<1>5. [just |-> just, excepted |-> Stored(k).excepted, keyed |-> keyed] \in Note
  BY <1>2, <1>3, <1>4 DEF Note
<1>6. /\ notes' \in Table
      /\ \A h \in Gens : \A l \in Keys : <<h, l>> # <<book.gen, k>> => notes'[h][l] = notes[h][l]
  <2>. DEFINE note == [just |-> just, excepted |-> Stored(k).excepted, keyed |-> keyed]
  <2>. HIDE DEF note
  <2>1. note \in Note
    BY <1>5 DEF note
  <2>2. OneNote([notes EXCEPT ![book.gen][k] = note], notes, book.gen, k, note)
    BY <1>1, <2>1, TableUpdate
  <2>3. notes' = [notes EXCEPT ![book.gen][k] = note]
    BY <1>2 DEF note
  <2>. QED  BY <2>2, <2>3 DEF OneNote
<1>7. \A h \in Gens : \A l \in Keys : h > book.gen => notes'[h][l] = Absent
  <2>1. \A h \in Gens : h > book.gen => h # book.gen
    BY <1>1 DEF Gens
  <2>. QED  BY <2>1, <1>6, NewestNotes
<1>. QED  BY <1>6, <1>7, EndSyncKeeps DEF PersistTorn, IInv, TypeOK

LEMMA PersistDoneKeeps ==
    ASSUME IInv, PersistDone
    PROVE  IInv'
<1>1. TypeOK' /\ NoLaterNotes' /\ BookInv' /\ ChangesInv' /\ OldInv' /\ ChangesArePossible'
  BY DEF IInv, PersistDone, TypeOK, NoLaterNotes, Source, BookInv, ChangesInv, OldInv,
     ChangesArePossible
<1>2. StoredInv'
  <2>1. \A k \in Keys : read[k] # Absent => Kept(k)
    BY DEF IInv, StoredInv, PersistDone
  <2>2. \A k \in Keys : Kept(k) => Kept(k)'
    BY DEF Kept, Source, PersistDone
  <2>. QED  BY <2>1, <2>2 DEF StoredInv, PersistDone
<1>. QED  BY <1>1, <1>2 DEF IInv

LEMMA RescanKeeps ==
    ASSUME IInv, Rescan
    PROVE  IInv'
<1>1. found' \in Found
  BY DEF Rescan, Found
<1>2. TypeOK' /\ NoLaterNotes' /\ BookInv' /\ ChangesInv' /\ OldInv'
  BY <1>1 DEF IInv, Rescan, TypeOK, NoLaterNotes, Source, BookInv, ChangesInv, OldInv
<1>3. ChangesArePossible'
  BY DEF IInv, Rescan, ChangesInv, ChangesArePossible
<1>4. StoredInv'
  <2>1. \A k \in Keys : read[k] # Absent => Kept(k)
    BY DEF IInv, StoredInv, Later, Rescan
  <2>2. \A k \in Keys : Kept(k) => Kept(k)'
    BY DEF Kept, Source, Rescan
  <2>. QED  BY <2>1, <2>2 DEF StoredInv, Rescan
<1>. QED  BY <1>2, <1>3, <1>4 DEF IInv

-----------------------------------------------------------------------------
(* Detection. *)

RemovalOf(k, g) == [key |-> k, gen |-> g, type |-> "EXCEPTION_REMOVED"]

\* A removal is of an entry that was stored, of a row that was read without
\* its review status and whose finding fails.
LEMMA RemovalsAreEntries ==
    ASSUME NEW k \in Keys, NEW g \in Gens, RemovalOf(k, g) \in Removed
    PROVE  /\ old[g][k] # Absent
           /\ ~read[k].excepted
  BY DEF RemovalOf, Removed, GensOf

\* Clearing status takes nothing else from the table.
LEMMA ClearingKeeps ==
    ASSUME IInv, NEW cleared \in SUBSET Removed, ClearStatus(cleared)
    PROVE  /\ notes' \in Table
           /\ \A g \in Gens : \A k \in Keys :
                /\ notes[g][k] = Absent <=> notes'[g][k] = Absent
                /\ notes[g][k] # Absent =>
                     /\ notes'[g][k].just = notes[g][k].just
                     /\ notes'[g][k].keyed = notes[g][k].keyed
                     /\ notes'[g][k].excepted = notes[g][k].excepted
                        \/ (~notes'[g][k].excepted /\ ~read[k].excepted)
<1>. DEFINE new(g, k) == IF RemovalOf(k, g) \in cleared
                         THEN [notes[g][k] EXCEPT !.excepted = FALSE] ELSE notes[g][k]
<1>1. notes' = [g \in Gens |-> [k \in Keys |-> new(g, k)]]
  BY DEF ClearStatus, RemovalOf
<1>2. ASSUME NEW g \in Gens, NEW k \in Keys
      PROVE  /\ new(g, k) \in Note \cup {Absent}
             /\ notes[g][k] = Absent <=> new(g, k) = Absent
             /\ notes[g][k] # Absent =>
                  /\ new(g, k).just = notes[g][k].just
                  /\ new(g, k).keyed = notes[g][k].keyed
                  /\ new(g, k).excepted = notes[g][k].excepted
                     \/ (~new(g, k).excepted /\ ~read[k].excepted)
  <2>1. notes[g][k] \in Note \cup {Absent}
    BY DEF IInv, TypeOK, Table
  <2>2. Absent \notin Note
    BY DEF Note
  <2>3. CASE RemovalOf(k, g) \in cleared
    <3>1. notes[g][k] # Absent /\ ~read[k].excepted
      BY <2>3, RemovalsAreEntries DEF IInv, OldInv
    <3>2. notes[g][k] \in Note /\ new(g, k) = [notes[g][k] EXCEPT !.excepted = FALSE]
      BY <2>1, <2>3, <3>1
    <3>3. /\ new(g, k) \in Note
          /\ new(g, k).just = notes[g][k].just
          /\ new(g, k).keyed = notes[g][k].keyed
          /\ ~new(g, k).excepted
      BY <3>2 DEF Note
    <3>. QED  BY <3>1, <3>3, <2>2
  <2>4. CASE RemovalOf(k, g) \notin cleared
    BY <2>1, <2>4
  <2>. QED  BY <2>3, <2>4
<1>. HIDE DEF new
<1>3. notes' \in Table
  BY <1>1, <1>2 DEF Table
<1>4. \A g \in Gens : \A k \in Keys : notes'[g][k] = new(g, k)
  BY <1>1
<1>. QED  BY <1>2, <1>3, <1>4

LEMMA DetectionKeeps ==
    ASSUME IInv, DetectExceptionChanges
    PROVE  IInv'
<1>1. ClearStatus(Removed) /\ Removed \in SUBSET Removed
  BY DEF DetectExceptionChanges
<1>2. /\ notes' \in Table
      /\ \A g \in Gens : \A k \in Keys :
           /\ notes[g][k] = Absent <=> notes'[g][k] = Absent
           /\ notes[g][k] # Absent =>
                /\ notes'[g][k].just = notes[g][k].just
                /\ notes'[g][k].keyed = notes[g][k].keyed
                /\ notes'[g][k].excepted = notes[g][k].excepted
                   \/ (~notes'[g][k].excepted /\ ~read[k].excepted)
  BY <1>1, ClearingKeeps
<1>3. \A k \in Keys : read[k] # Absent => book.gen \in Gens /\ Kept(k)
  BY DEF IInv, StoredInv, Later, DetectExceptionChanges, Kept, Source
<1>4. /\ pc = "detect" /\ pc' = "record"
      /\ UNCHANGED <<book, old, read, fields, unsaved, found>>
      /\ changes' = AddedOrUpdated \cup Removed
  BY DEF DetectExceptionChanges
<1>5. ASSUME NEW c \in changes'
      PROVE  /\ c \in [key : Keys, gen : Gens, type : ExceptionChanges]
             /\ found[c.key] # "PASS"
             /\ c.type = "EXCEPTION_REMOVED" => found[c.key] # None
             /\ read[c.key] # Absent
  <2>1. CASE c \in AddedOrUpdated
    <3>1. PICK k \in Keys : /\ c = ChangeOf(k)
                            /\ IsException(read[k])
                            /\ RowDiscrepant(k)
      BY <2>1 DEF AddedOrUpdated
    <3>2. read[k] # Absent /\ book.gen \in Gens
      BY <3>1, <1>3 DEF IsException
    <3>3. /\ c.key = k
          /\ c.gen = book.gen
          /\ c.type \in {"EXCEPTION_UPDATED", "EXCEPTION_ADDED"}
          /\ c = [key |-> k, gen |-> book.gen, type |-> c.type]
      BY <3>1 DEF ChangeOf
    <3>4. found[k] # "PASS"
      BY <3>1 DEF RowDiscrepant, Discrepant, None
    <3>. QED  BY <3>2, <3>3, <3>4 DEF ExceptionChanges
  <2>2. CASE c \in Removed
    <3>1. PICK k \in Keys, g \in Gens : /\ c = [key |-> k, gen |-> g, type |-> "EXCEPTION_REMOVED"]
                                        /\ Discrepant(found[k])
                                        /\ read[k] # Absent
      BY <2>2 DEF Removed
    <3>. QED  BY <3>1 DEF Discrepant, None, ExceptionChanges
  <2>. QED  BY <2>1, <2>2, <1>4
<1>6. TypeOK'
  BY <1>2, <1>4, <1>5 DEF IInv, TypeOK
<1>7. ChangesArePossible' /\ ChangesInv'
  BY <1>4, <1>5 DEF ChangesArePossible, ChangesInv
<1>8. NoLaterNotes' /\ BookInv' /\ OldInv'
  BY <1>2, <1>4 DEF IInv, NoLaterNotes, Source, BookInv, OldInv
<1>9. StoredInv'
  <2>1. ASSUME NEW k \in Keys, read[k] # Absent
        PROVE  Kept(k)'
    <3>1. /\ Kept(k) /\ Source = book.gen /\ Source' = book.gen /\ book.gen \in Gens
      BY <2>1, <1>3, <1>4 DEF Source
    <3>2. /\ notes[book.gen][k] \in Note
          /\ notes'[book.gen][k] \in Note
      BY <3>1, <1>2 DEF IInv, TypeOK, Table, Kept
    <3>3. read[k] \in Note
      BY <2>1 DEF IInv, TypeOK
    <3>. QED  BY <3>1, <3>2, <3>3, <1>2, <1>4 DEF Kept, Note
  <2>. QED  BY <2>1, <1>4 DEF StoredInv, Later
<1>. QED  BY <1>6, <1>7, <1>8, <1>9 DEF IInv

LEMMA InterruptionKeeps ==
    ASSUME IInv, DetectionInterrupted
    PROVE  IInv'
<1>1. PICK cleared \in SUBSET Removed : ClearStatus(cleared)
  BY DEF DetectionInterrupted
<1>2. /\ notes' \in Table
      /\ \A g \in Gens : \A k \in Keys : notes[g][k] = Absent <=> notes'[g][k] = Absent
  BY <1>1, ClearingKeeps
<1>3. \A h \in Gens : \A k \in Keys : h > book.gen => notes'[h][k] = Absent
  BY <1>2, NewestNotes
<1>. QED  BY <1>2, <1>3, EndSyncKeeps DEF DetectionInterrupted, IInv, TypeOK

-----------------------------------------------------------------------------
(* The new workbook. *)

LEMMA SaveReportKeeps ==
    ASSUME IInv, SaveReport
    PROVE  IInv'
<1>1. found \in Found /\ Generate(found) /\ book.gen < MaxGens
  BY DEF IInv, TypeOK, SaveReport, BookInv
<1>2. /\ book' \in [gen : 0 .. MaxGens, status : Found, cells : [Keys -> Cells],
                    columns : SUBSET Columns]
      /\ book'.gen = book.gen + 1
      /\ book'.gen # 0
      /\ book'.status = found
  BY <1>1, GenerateTyped DEF IInv
<1>3. Source' = Source
  BY <1>2, SourceNatural DEF Source, SaveReport, IInv
<1>4. TypeOK'
  BY <1>2 DEF IInv, TypeOK, SaveReport
<1>5. NoLaterNotes' /\ BookInv' /\ ChangesInv' /\ OldInv' /\ ChangesArePossible'
  BY <1>2, <1>3 DEF IInv, SaveReport, NoLaterNotes, BookInv, ChangesInv, OldInv,
     ChangesArePossible
<1>6. StoredInv'
  <2>1. \A k \in Keys : read[k] # Absent => Kept(k)
    BY DEF IInv, StoredInv, Later, SaveReport
  <2>2. \A k \in Keys : Kept(k) => Kept(k)'
    BY <1>3 DEF Kept, SaveReport
  <2>. QED  BY <2>1, <2>2 DEF StoredInv, SaveReport
<1>. QED  BY <1>4, <1>5, <1>6 DEF IInv

\* The write-back writes cells that a workbook can hold.
LEMMA WrittenTyped ==
    ASSUME IInv
    PROVE  WrittenSheet \in [Keys -> Cells]
<1>1. ASSUME NEW k \in Keys
      PROVE  WrittenCells(k) \in Cells
  <2>1. MatchForWriteBack(k) = Absent \/ MatchForWriteBack(k) \in Note
    BY LastNoteTyped DEF MatchForWriteBack, IInv, TypeOK
  <2>2. book.cells[k] \in Cells
    BY DEF IInv, TypeOK
  <2>3. CASE book.status[k] = None \/ MatchForWriteBack(k) = Absent
    BY <2>2, <2>3 DEF WrittenCells
  <2>4. CASE ~(book.status[k] = None \/ MatchForWriteBack(k) = Absent)
    <3>1. /\ MatchForWriteBack(k).just \in Texts
          /\ MatchForWriteBack(k).excepted \in BOOLEAN
      BY <2>1, <2>4 DEF Note
    <3>2. (MatchForWriteBack(k).excepted /\ Discrepant(book.status[k])) \in BOOLEAN
      OBVIOUS
    <3>3. WrittenCells(k) = [just |-> MatchForWriteBack(k).just,
                             excepted |-> MatchForWriteBack(k).excepted
                                          /\ Discrepant(book.status[k])]
      BY <2>4 DEF WrittenCells
    <3>. QED  BY <3>1, <3>2, <3>3 DEF Cells
  <2>. QED  BY <2>3, <2>4
<1>2. \A k \in Keys : book.cells[k] \in Cells
  BY DEF IInv, TypeOK
<1>3. ASSUME NEW k \in Keys
      PROVE  /\ WrittenCells(k).just \in Texts
             /\ WrittenCells(k).excepted \in BOOLEAN
             /\ book.cells[k].just \in Texts
             /\ book.cells[k].excepted \in BOOLEAN
  BY <1>1, <1>2 DEF Cells
<1>. QED  BY <1>2, <1>3 DEF WrittenSheet, Cells

LEMMA WriteBackKeeps ==
    ASSUME IInv, WriteAnnotationsBack
    PROVE  IInv'
<1>1. /\ book' \in [gen : 0 .. MaxGens, status : Found, cells : [Keys -> Cells],
                    columns : SUBSET Columns]
      /\ book'.gen = book.gen
      /\ book'.status = book.status
  BY WrittenTyped DEF WriteAnnotationsBack, IInv, TypeOK
<1>. QED  BY <1>1, NewestNotes, EndSyncKeeps DEF WriteAnnotationsBack, IInv, TypeOK

LEMMA StepKeeps == IInv /\ [Next]_vars => IInv'
<1>. SUFFICES ASSUME IInv, [Next]_vars PROVE IInv'
  OBVIOUS
<1>1. ASSUME NEW k \in Keys, EditRow(k)
      PROVE  IInv'
  BY <1>1, EditRowKeeps
<1>2. ASSUME NEW k \in Keys, PersistRow(k)
      PROVE  IInv'
  BY <1>2, PersistRowKeeps
<1>3. ASSUME NEW k \in Keys, PersistTorn(k)
      PROVE  IInv'
  BY <1>3, PersistTornKeeps
<1>4. CASE WriteBackRefused \/ SyncStops
  BY <1>4, StoppingKeeps DEF WriteBackRefused, SyncStops
<1>5. CASE UNCHANGED vars
  BY <1>5, EditsKeep DEF vars, IInv, TypeOK
<1>. QED
  BY <1>1, <1>2, <1>3, <1>4, <1>5, LoseColumnKeeps, AuditKeeps, ReadWorkbookKeeps,
     PersistDoneKeeps, RescanKeeps, DetectionKeeps, InterruptionKeeps, SaveReportKeeps,
     WriteBackKeeps DEF Next

-----------------------------------------------------------------------------
(* The theorems. *)

\* The newest entry of a row that was stored is what was read of it.
LEMMA KeptIsLast ==
    ASSUME IInv, NEW k \in Keys, Kept(k)
    PROVE  LastNote(notes, k) = notes[Source][k]
  BY LastIsNewest DEF Kept, IInv, NoLaterNotes

\* The inductive invariant holds in every reachable state: of the types, of
\* the entries that a running sync has stored and of the changes it detects.
THEOREM Invariance == Spec => []IInv
  BY Initially, StepKeeps, PTL DEF Spec

\* Every variable has its type, however often the workbook is replaced and
\* however often a sync dies between two commits.
THEOREM TypesHold == Spec => []TypeOK
<1>1. IInv => TypeOK
  BY DEF IInv
<1>. QED  BY <1>1, Invariance, PTL

\* The text that the user typed is the last entry of its row before the scan
\* begins, and stays it until the sync ends.
THEOREM TextsAreSafe == Spec => []TextIsSafe
<1>1. IInv => TextIsSafe
  <2>. SUFFICES ASSUME IInv, pc \in Later, NEW k \in Keys, read[k] # Absent
                PROVE  /\ LastNote(notes, k) # Absent
                       /\ "just" \in fields => LastNote(notes, k).just = read[k].just
    BY DEF TextIsSafe, Later
  <2>1. Kept(k)
    BY DEF IInv, StoredInv
  <2>. QED  BY <2>1, KeptIsLast DEF Kept
<1>. QED  BY <1>1, Invariance, PTL

\* No change is detected on a finding that passes, nor a removal of an
\* exception whose finding is gone.
THEOREM ChangesPossible == Spec => []ChangesArePossible
<1>1. IInv => ChangesArePossible
  BY DEF IInv
<1>. QED  BY <1>1, Invariance, PTL

\* What the write-back leaves in a row of a named instance is what was read of
\* it, wherever the column was there to be read and is there to be written.
LEMMA WritesWhatWasRead ==
    ASSUME IInv, WriteAnnotationsBack, NEW k \in Keys \ DefaultKeys,
           read[k] # Absent, found[k] # None, "key" \in book.columns
    PROVE  Rehydrated(k)
<1>1. Kept(k) /\ book.status[k] = found[k]
  BY DEF IInv, StoredInv, Later, BookInv, WriteAnnotationsBack
<1>2. MatchForWriteBack(k) = notes[Source][k] /\ notes[Source][k] # Absent
  BY <1>1, KeptIsLast DEF MatchForWriteBack, Kept
<1>3. WrittenCells(k) = [just |-> notes[Source][k].just,
                         excepted |-> notes[Source][k].excepted /\ Discrepant(found[k])]
  BY <1>1, <1>2 DEF WrittenCells
<1>4. book'.cells[k] = WrittenSheet[k]
  BY DEF WriteAnnotationsBack, IInv, TypeOK
<1>5. ASSUME "just" \in fields, "just" \in book.columns
      PROVE  book'.cells[k].just = read[k].just
  BY <1>1, <1>3, <1>4, <1>5 DEF WrittenSheet, Kept
<1>6. ASSUME "review" \in fields, "review" \in book.columns
      PROVE  book'.cells[k].excepted <=> read[k].excepted /\ Discrepant(found[k])
  <2>1. WrittenSheet[k].excepted = WrittenCells(k).excepted
    BY <1>6 DEF WrittenSheet
  <2>2. WrittenCells(k).excepted = (notes[Source][k].excepted /\ Discrepant(found[k]))
    BY <1>3
  <2>3. notes[Source][k].excepted = read[k].excepted
    BY <1>1, <1>6 DEF Kept
  <2>. QED  BY <2>1, <2>2, <2>3, <1>4, Zenon
<1>. QED  BY <1>5, <1>6 DEF Rehydrated

\* The write-back carries every annotation of a named instance into the new
\* workbook, whatever the entries of older workbooks say.
THEOREM AnnotationsCarried == Spec => NamedRowsRehydrated
<1>1. IInv /\ [Next]_vars =>
        [WriteAnnotationsBack =>
           \A k \in Keys \ DefaultKeys :
             /\ read[k] # Absent
             /\ found[k] # None
             /\ "key" \in book.columns
             => Rehydrated(k)]_vars
  BY WritesWhatWasRead
<1>. QED  BY <1>1, Invariance, PTL DEF Spec, NamedRowsRehydrated
=============================================================================
