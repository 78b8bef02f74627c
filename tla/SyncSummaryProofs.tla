-------------------------- MODULE SyncSummaryProofs --------------------------
(***************************************************************************)
(* What is proved of SyncSummary for any keys, targets, notes and bounds:  *)
(* the statistics balance, they agree with the log, and a written workbook *)
(* keeps what the sheet it replaces held.                                  *)
(***************************************************************************)
EXTENDS SyncSummary, FiniteSetTheorems, WellFoundedInduction, TLAPS

USE SummaryAssumption

Texts == [of : Nat \cup Manuals, type : ChangeCells]

Cells == [text : Texts, note : Notes \cup {Blank}]

Runs == [linked : SUBSET Instances, sync : BOOLEAN,
         findings : [Keys -> Statuses \cup {None}]]

Entities == [kind : {"finding", "row"}, key : Keys]

LoggedTypes == FindingChangeTypes \cup
    {"EXCEPTION_ADDED", "EXCEPTION_REMOVED", "EXCEPTION_UPDATED"}

\* Only the end of an exception is put down to the row instead of the finding.
Actions == { a \in [entity : Entities, type : LoggedTypes] :
               a.entity.kind = "row" <=> a.type = "EXCEPTION_REMOVED" }

LogRows == [entity : Entities, type : LoggedTypes, sync : Nat \ {0}]

TypedInv ==
    /\ runs \in Seq(Runs)
    /\ log \in Seq(LogRows)
    /\ \A i \in DOMAIN log : log[i].sync =< Len(runs)
    /\ noted \in [Keys -> {"unread", "plain", "exception"}]
    /\ DOMAIN stored \subseteq Ids
    /\ \A d \in DOMAIN stored : stored[d] \in Cells
    /\ book \in Seq(Rows)
    /\ seen \in Seq(Rows)
    /\ source \in 0..Len(runs)
    /\ edits \in 0..MaxEdits
    /\ pending \subseteq Actions
    /\ missed \in BOOLEAN
    /\ DOMAIN stats = DOMAIN NoStats

\* Where the sync is decides what is pending and what has been counted.
PhaseInv ==
    /\ pc \in {"idle", "scan", "record", "write"}
    /\ pc # "idle" => source # 0
    /\ pc \in {"idle", "scan"} => pending = {} /\ ~ missed /\ stats = NoStats
    /\ pc \in {"record", "write"} => Len(runs) >= 2
    /\ pc = "write" => pending = {} /\ stats = Statistics

\* A change of an entity has one row, of the kind its type asks for.
LogInv ==
    /\ \A i \in DOMAIN log :
         log[i].entity.kind = "row" <=> log[i].type = "EXCEPTION_REMOVED"
    /\ \A i, j \in DOMAIN log :
         log[i].entity = log[j].entity /\ log[i].type = log[j].type => i = j

ActionOn(k, type) == [entity |-> [kind |-> "finding", key |-> k], type |-> type]

\* What became of a key between two runs, as the log is told.
Transition(old, new, scanned, k) ==
    ClassifyFindingTransition(old[k], new[k], FALSE, FALSE, k \in scanned \/ old[k] = None)

Diff(k) == Transition(runs[Baseline].findings, runs[Current].findings,
                      ScannedKeys(runs[Current].linked), k)

LoggedNow(k, type) ==
    \E i \in DOMAIN log : /\ log[i].entity = [kind |-> "finding", key |-> k]
                          /\ log[i].type = type
                          /\ log[i].sync = Current

\* What the diff found is still to be recorded or is put down to this sync.
DetectedInv ==
    pc \in {"record", "write"} /\ ~ missed =>
      \A k \in Keys, type \in FindingChangeTypes :
        Diff(k) = type <=> ActionOn(k, type) \in pending \/ LoggedNow(k, type)

IInv == TypedInv /\ PhaseInv /\ LogInv /\ DetectedInv

\* The user's numbers are beyond any the log can reach.
Limit == 6 * Cardinality(Keys)

NumbersBeyondLog == ManualIds \subseteq Nat \ (1..Limit) /\ Blank \notin Nat

\* Every row has an id of its own, and an id of the log is its log row's.
RowsSound(rows) ==
    /\ \A i \in DOMAIN rows : rows[i].id \in DOMAIN log \cup ManualIds
    /\ \A i \in DOMAIN rows : rows[i].id \in DOMAIN log => rows[i].text.of = rows[i].id
    /\ \A i, j \in DOMAIN rows : rows[i].id = rows[j].id => i = j

SheetInv ==
    /\ RowsSound(book)
    /\ RowsSound(seen)
    /\ \A d \in DOMAIN stored : /\ d \in DOMAIN log \cup ManualIds
                                /\ d \in DOMAIN log => stored[d].text.of = d
    /\ \A i \in DOMAIN seen : /\ seen[i].id \in DOMAIN stored
                              /\ stored[seen[i].id].text = seen[i].text
                              /\ stored[seen[i].id].note = seen[i].note

-----------------------------------------------------------------------------
(* Counting and choosing. *)

\* Induction over the naturals, for what a set can say.
Inductive(P) == 0 \in P /\ \A n \in Nat : n \in P => n + 1 \in P

LEMMA InductiveCoversNat ==
    ASSUME NEW P, Inductive(P)
    PROVE  Nat \subseteq P
<1>. SUFFICES ASSUME ~ (Nat \subseteq P) PROVE FALSE
  OBVIOUS
<1>. DEFINE Less == { ss \in Nat \X Nat : ss[1] < ss[2] }
            Bad == Nat \ P
<1>1. IsWellFoundedOn(Less, Nat)
  BY NatLessThanWellFounded DEF OpToRel
<1>2. Bad \subseteq Nat /\ Bad # {}
  OBVIOUS
<1>3. PICK n \in Bad : \A m \in Bad : ~ (<<m, n>> \in Less)
  <2>. HIDE DEF Bad, Less
  <2>. QED BY <1>1, <1>2, WFMin
<1>4. n \in Nat /\ n # 0 /\ n - 1 \in Nat /\ <<n - 1, n>> \in Less
  BY <1>3 DEF Inductive
<1>5. n - 1 \in P
  BY <1>3, <1>4
<1>. QED BY <1>3, <1>4, <1>5 DEF Inductive

\* Induction over the subsets of a finite set, from those with less in them.
LEMMA SmallerSubsets ==
    ASSUME NEW S, IsFiniteSet(S), NEW P,
           \A T \in SUBSET S : (\A U \in SUBSET S : (U \subseteq T /\ U # T) => U \in P) => T \in P
    PROVE  SUBSET S \subseteq P
<1>. DEFINE Q == { n \in Nat : \A T \in SUBSET S : Cardinality(T) =< n => T \in P }
<1>1. \A T \in SUBSET S : IsFiniteSet(T) /\ Cardinality(T) \in Nat
  BY FS_Subset, FS_CardinalityType
<1>2. \A T \in SUBSET S : \A U \in SUBSET S :
        (U \subseteq T /\ U # T) => Cardinality(U) < Cardinality(T)
  <2>. SUFFICES ASSUME NEW T \in SUBSET S, NEW U \in SUBSET S, U \subseteq T, U # T
                PROVE  Cardinality(U) < Cardinality(T)
    OBVIOUS
  <2>1. Cardinality(U) =< Cardinality(T) /\ Cardinality(U) # Cardinality(T)
    BY <1>1, FS_Subset
  <2>. QED BY <1>1, <2>1
<1>3. ASSUME NEW n \in Nat, \A T \in SUBSET S : Cardinality(T) < n => T \in P
      PROVE  \A T \in SUBSET S : Cardinality(T) =< n => T \in P
  BY <1>1, <1>2, <1>3
<1>4. 0 \in Q
  <2>1. \A T \in SUBSET S : Cardinality(T) < 0 => T \in P
    BY <1>1
  <2>. QED BY <1>3, <2>1
<1>5. \A n \in Nat : n \in Q => n + 1 \in Q
  <2>. SUFFICES ASSUME NEW n \in Nat, n \in Q PROVE n + 1 \in Q
    OBVIOUS
  <2>1. \A T \in SUBSET S : Cardinality(T) < n + 1 => T \in P
    BY <1>1
  <2>. QED BY <1>3, <2>1
<1>6. Nat \subseteq Q
  <2>. HIDE DEF Q
  <2>1. Inductive(Q)
    BY <1>4, <1>5 DEF Inductive
  <2>. QED BY <2>1, InductiveCoversNat
<1>. QED BY <1>1, <1>6

\* Max finds the largest of some positions.
LEMMA MaxOfPositions ==
    ASSUME NEW n \in Nat, NEW S \in SUBSET (1..n), S # {}
    PROVE  Max(S) \in S /\ \A i \in S : i =< Max(S)
<1>. DEFINE P == { m \in Nat : \A T \in SUBSET (1..m) :
                     T # {} => \E x \in T : \A y \in T : x >= y }
<1>1. 0 \in P
  <2>1. 1..0 = {}
    OBVIOUS
  <2>. QED BY <2>1
<1>2. \A m \in Nat : m \in P => m + 1 \in P
  <2>. SUFFICES ASSUME NEW m \in Nat, m \in P PROVE m + 1 \in P
    OBVIOUS
  <2>1. SUFFICES ASSUME NEW T \in SUBSET (1..(m + 1)), T # {}
                 PROVE  \E x \in T : \A y \in T : x >= y
    OBVIOUS
  <2>2. CASE m + 1 \in T
    BY <2>2
  <2>3. CASE m + 1 \notin T
    <3>1. T \in SUBSET (1..m)
      BY <2>3
    <3>. QED BY <3>1, <2>1
  <2>. QED BY <2>2, <2>3
<1>3. Nat \subseteq P
  <2>. HIDE DEF P
  <2>1. Inductive(P)
    BY <1>1, <1>2 DEF Inductive
  <2>. QED BY <2>1, InductiveCoversNat
<1>4. \E x \in S : \A y \in S : x >= y
  BY <1>3
<1>. QED BY <1>4 DEF Max

\* Positions in order: each of them once.
LEMMA InOrderAll ==
    ASSUME NEW n \in Nat, NEW At \in SUBSET (1..n)
    PROVE  /\ Cardinality(At) \in Nat
           /\ InOrder(At) \in [1..Cardinality(At) -> At]
           /\ \A i \in At : \E m \in 1..Cardinality(At) : InOrder(At)[m] = i
           /\ \A m, q \in 1..Cardinality(At) : InOrder(At)[m] = InOrder(At)[q] => m = q
<1>. DEFINE Upto(i) == { j \in At : j =< i }
            rank == [i \in At |-> Cardinality(Upto(i))]
            size == Cardinality(At)
<1>1. IsFiniteSet(At) /\ size \in Nat /\ \A i \in At : i \in Nat
  <2>1. IsFiniteSet(1..n)
    BY FS_Interval
  <2>2. IsFiniteSet(At)
    BY <2>1, FS_Subset
  <2>. QED BY <2>2, FS_CardinalityType
<1>2. ASSUME NEW i \in At
      PROVE  rank[i] \in 1..size
  <2>1. Upto(i) \in SUBSET At /\ i \in Upto(i)
    BY <1>1
  <2>2. IsFiniteSet(Upto(i)) /\ Cardinality(Upto(i)) =< size
    BY <2>1, <1>1, FS_Subset
  <2>3. Cardinality(Upto(i)) \in Nat
    BY <2>2, FS_CardinalityType
  <2>4. Cardinality(Upto(i)) # 0
    BY <2>1, <2>2, FS_EmptySet
  <2>. QED BY <1>1, <2>2, <2>3, <2>4
<1>3. ASSUME NEW i \in At, NEW j \in At, i < j
      PROVE  rank[i] # rank[j]
  <2>1. \A q \in At : q =< i => q =< j
    BY <1>1, <1>3
  <2>4. Upto(i) \in SUBSET Upto(j)
    BY <2>1
  <2>5. j \in Upto(j) /\ j \notin Upto(i)
    BY <1>1, <1>3
  <2>2. IsFiniteSet(Upto(j))
    BY <1>1, FS_Subset
  <2>3. Upto(i) # Upto(j)
    BY <2>5
  <2>6. Cardinality(Upto(i)) # Cardinality(Upto(j))
    <3>. HIDE DEF Upto
    <3>. QED BY <2>4, <2>2, <2>3, FS_Subset
  <2>. QED BY <2>6
<1>4. \A i, j \in At : rank[i] = rank[j] => i = j
  <2>. HIDE DEF rank
  <2>. QED BY <1>1, <1>3
<1>5. rank \in Injection(At, 1..size)
  <2>1. rank \in [At -> 1..size]
    BY <1>2
  <2>. HIDE DEF rank
  <2>. QED BY <2>1, <1>4 DEF Injection, IsInjective
<1>6. Cardinality(1..size) = size /\ IsFiniteSet(1..size)
  BY <1>1, FS_Interval
<1>7. rank \in Surjection(At, 1..size)
  <2>. HIDE DEF rank
  <2>. QED BY <1>1, <1>5, <1>6, FS_Injection
<1>8. ASSUME NEW m \in 1..size
      PROVE  InOrder(At)[m] \in At /\ rank[InOrder(At)[m]] = m
  <2>1. PICK i \in At : rank[i] = m
    BY <1>7 DEF Surjection
  <2>2. Cardinality({ j \in At : j =< i }) = m
    BY <2>1
  <2>3. InOrder(At)[m] = CHOOSE q \in At : Cardinality({ j \in At : j =< q }) = m
    BY DEF InOrder
  <2>4. /\ InOrder(At)[m] \in At
        /\ Cardinality({ j \in At : j =< InOrder(At)[m] }) = m
    BY <2>2, <2>3
  <2>. QED BY <2>4
<1>9. InOrder(At) \in [1..size -> At]
  <2>1. InOrder(At) = [m \in 1..size |-> CHOOSE i \in At : Cardinality(Upto(i)) = m]
    BY DEF InOrder
  <2>2. InOrder(At) = [m \in 1..size |-> InOrder(At)[m]]
    BY <2>1
  <2>. QED BY <2>2, <1>8
<1>10. ASSUME NEW i \in At
       PROVE  \E m \in 1..size : InOrder(At)[m] = i
  <2>1. InOrder(At)[rank[i]] \in At /\ rank[InOrder(At)[rank[i]]] = rank[i]
    <3>. HIDE DEF rank
    <3>. QED BY <1>2, <1>8
  <2>. QED BY <2>1, <1>2, <1>4
<1>11. \A m, q \in 1..size : InOrder(At)[m] = InOrder(At)[q] => m = q
  BY <1>8
<1>. QED BY <1>1, <1>9, <1>10, <1>11

LEMMA KeyCounts ==
    ASSUME NEW S \in SUBSET Keys
    PROVE  IsFiniteSet(S) /\ Cardinality(S) \in Nat
BY FS_Subset, FS_CardinalityType

\* Keys of two kinds are counted apart.
LEMMA Split ==
    ASSUME NEW T \in SUBSET Keys, NEW U \in SUBSET Keys, T \cap U = {}
    PROVE  Cardinality(T \cup U) = Cardinality(T) + Cardinality(U)
<1>1. /\ IsFiniteSet(T) /\ IsFiniteSet(U)
      /\ Cardinality(T) \in Nat /\ Cardinality(U) \in Nat
  BY KeyCounts
<1>2. Cardinality(T \cup U) = Cardinality(T) + Cardinality(U) - Cardinality(T \cap U)
  BY <1>1, FS_Union
<1>3. Cardinality(T \cup U) = Cardinality(T) + Cardinality(U) - Cardinality({})
  BY <1>2, Zenon
<1>. QED BY <1>1, <1>3, FS_EmptySet

-----------------------------------------------------------------------------
(* Reading and writing the sheet. *)

LEMMA CellsTyped ==
    ASSUME NEW type
    PROVE  ActionCell(DeriveActionStatus(type)) \in ChangeCells
BY DEF ActionCell, DeriveActionStatus, ChangeCells

LEMMA RowTyped ==
    ASSUME NEW rows \in Seq(Rows), NEW i \in DOMAIN rows
    PROVE  /\ rows[i] = [id |-> rows[i].id, text |-> rows[i].text, note |-> rows[i].note]
           /\ rows[i].id \in Ids \cup {Blank}
           /\ rows[i].text \in Texts
           /\ rows[i].note \in Notes \cup {Blank}
<1>1. rows[i] \in Rows
  OBVIOUS
<1>. QED BY <1>1 DEF Rows, Texts

\* An id is read off a row at or above the one it is read for.
LEMMA IdOfTyped ==
    ASSUME NEW rows \in Seq(Rows), NEW i \in DOMAIN rows
    PROVE  IdOf(rows, i) \in Ids \cup {Blank}
<1>. DEFINE above == { j \in 1..i : rows[j].id # Blank }
<1>1. i \in Nat /\ 1..i \subseteq DOMAIN rows
  OBVIOUS
<1>2. CASE above = {}
  BY <1>2 DEF IdOf
<1>3. CASE above # {}
  <2>1. Max(above) \in above
    BY <1>1, <1>3, MaxOfPositions
  <2>2. Max(above) \in DOMAIN rows
    BY <1>1, <2>1
  <2>3. rows[Max(above)].id \in Ids \cup {Blank}
    BY <2>2, RowTyped
  <2>. QED BY <1>3, <2>3 DEF IdOf
<1>. QED BY <1>2, <1>3

LEMMA AsReadTyped ==
    ASSUME NEW rows \in Seq(Rows)
    PROVE  /\ DOMAIN AsRead(rows) = { IdOf(rows, i) : i \in DOMAIN rows } \ {Blank}
           /\ DOMAIN AsRead(rows) \subseteq Ids
           /\ \A d \in DOMAIN AsRead(rows) : AsRead(rows)[d] \in Cells
<1>1. DOMAIN AsRead(rows) = { IdOf(rows, i) : i \in DOMAIN rows } \ {Blank}
  BY DEF AsRead
<1>2. DOMAIN AsRead(rows) \subseteq Ids
  BY <1>1, IdOfTyped
<1>3. ASSUME NEW d \in DOMAIN AsRead(rows)
      PROVE  AsRead(rows)[d] \in Cells
  <2>. DEFINE with == { i \in DOMAIN rows : IdOf(rows, i) = d }
  <2>1. with # {} /\ with \in SUBSET (1..Len(rows)) /\ Len(rows) \in Nat
    BY <1>1, <1>3
  <2>2. Max(with) \in with
    BY <2>1, MaxOfPositions
  <2>3. AsRead(rows)[d] = [text |-> rows[Max(with)].text, note |-> rows[Max(with)].note]
    BY <1>1, <1>3 DEF AsRead
  <2>4. Max(with) \in DOMAIN rows
    BY <2>2
  <2>. QED BY <2>3, <2>4, RowTyped DEF Cells
<1>. QED BY <1>1, <1>2, <1>3

\* The ids left to the user's rows: read, not the log's, each once.
LEMMA ManualIdsTyped ==
    ASSUME NEW rows \in Seq(Rows), NEW ids, ids = ManualIdsRead(rows)
    PROVE  /\ ids \in Seq(DOMAIN AsRead(rows) \ DOMAIN log)
           /\ \A m, q \in DOMAIN ids : ids[m] = ids[q] => m = q
           /\ \A i \in DOMAIN rows :
                FirstWith(rows, i) /\ IdOf(rows, i) \notin DOMAIN log \cup {Blank}
                  => \E n \in DOMAIN ids : ids[n] = IdOf(rows, i)
<1>. DEFINE At == { i \in DOMAIN rows :
                      FirstWith(rows, i) /\ IdOf(rows, i) \notin DOMAIN log \cup {Blank} }
            at == InOrder(At)
<1>1. At \in SUBSET (1..Len(rows)) /\ Len(rows) \in Nat
  OBVIOUS
<1>2. /\ Cardinality(At) \in Nat
      /\ at \in [1..Cardinality(At) -> At]
      /\ \A i \in At : \E m \in 1..Cardinality(At) : at[m] = i
      /\ \A m, q \in 1..Cardinality(At) : at[m] = at[q] => m = q
  <2>. HIDE DEF At
  <2>. QED BY <1>1, InOrderAll
<1>3. ids = [n \in 1..Cardinality(At) |-> IdOf(rows, at[n])]
  BY <1>2 DEF ManualIdsRead
<1>4. \A i \in At : IdOf(rows, i) \in DOMAIN AsRead(rows) \ DOMAIN log
  BY AsReadTyped
<1>5. ids \in [1..Cardinality(At) -> DOMAIN AsRead(rows) \ DOMAIN log]
  <2>. HIDE DEF At, at
  <2>. QED BY <1>2, <1>3, <1>4
<1>6. ids \in Seq(DOMAIN AsRead(rows) \ DOMAIN log)
  <2>. DEFINE size == Cardinality(At)
              own == DOMAIN AsRead(rows) \ DOMAIN log
  <2>1. size \in Nat /\ ids \in [1..size -> own]
    BY <1>2, <1>5
  <2>2. ids \in Seq(own)
    <3>. HIDE DEF size, own
    <3>. QED BY <2>1
  <2>. QED BY <2>2
<1>7. ASSUME NEW m \in DOMAIN ids, NEW q \in DOMAIN ids, ids[m] = ids[q]
      PROVE  m = q
  <2>1. at[m] \in At /\ at[q] \in At /\ m \in 1..Cardinality(At) /\ q \in 1..Cardinality(At)
    <3>. HIDE DEF At, at
    <3>. QED BY <1>2, <1>3, <1>7
  <2>2. IdOf(rows, at[m]) = IdOf(rows, at[q])
    BY <1>3, <1>7, <2>1
  <2>3. at[m] \in Nat /\ at[q] \in Nat /\ at[m] >= 1 /\ at[q] >= 1
    BY <2>1, <1>1
  <2>4. at[m] = at[q]
    <3>1. FirstWith(rows, at[m]) /\ FirstWith(rows, at[q])
      BY <2>1
    <3>. HIDE DEF At, at
    <3>. QED BY <3>1, <2>2, <2>3 DEF FirstWith
  <2>. QED BY <2>1, <2>4, <1>2
<1>8. ASSUME NEW i \in DOMAIN rows,
             FirstWith(rows, i) /\ IdOf(rows, i) \notin DOMAIN log \cup {Blank}
      PROVE  \E n \in DOMAIN ids : ids[n] = IdOf(rows, i)
  <2>1. i \in At
    BY <1>8
  <2>2. PICK m \in 1..Cardinality(At) : at[m] = i
    <3>. HIDE DEF At, at
    <3>. QED BY <1>2, <2>1
  <2>. QED BY <1>3, <2>2
<1>. QED BY <1>6, <1>7, <1>8

LEMMA Joined ==
    ASSUME NEW S, NEW s \in Seq(S), NEW t \in Seq(S)
    PROVE  /\ s \o t \in Seq(S)
           /\ Len(s \o t) = Len(s) + Len(t)
           /\ \A i \in 1..Len(s) : (s \o t)[i] = s[i]
           /\ \A i \in 1..Len(t) : (s \o t)[Len(s) + i] = t[i]
OBVIOUS

\* The rows of the new sheet, before the database's cells go over them.
LEMMA FreshRowsMade ==
    ASSUME log \in Seq(LogRows), NEW rows \in Seq(Rows), NEW ids, ids = ManualIdsRead(rows)
    PROVE  /\ FreshRows(rows) \in Seq(Rows)
           /\ Len(FreshRows(rows)) = Len(log) + Len(ids)
           /\ \A i \in 1..Len(log) : FreshRows(rows)[i] = LogRow(i, AsRead(rows))
           /\ \A n \in 1..Len(ids) :
                FreshRows(rows)[Len(log) + n] = ManualRow(AsRead(rows), ids, n)
<1>. DEFINE read == AsRead(rows)
            first == [i \in DOMAIN log |-> LogRow(i, read)]
            second == [n \in DOMAIN ids |-> ManualRow(read, ids, n)]
<1>1. ids \in Seq(DOMAIN read \ DOMAIN log)
  BY ManualIdsTyped
<1>2. ASSUME NEW i \in DOMAIN log
      PROVE  LogRow(i, read) \in Rows
  <2>1. i \in Nat \ {0}
    BY <1>2
  <2>2. i \in DOMAIN read => read[i].note \in Notes \cup {Blank}
    BY AsReadTyped DEF Cells
  <2>3. [of |-> i, type |-> ActionCell(DeriveActionStatus(log[i].type))]
          \in [of : Nat \cup Manuals, type : ChangeCells]
    BY <2>1, CellsTyped
  <2>4. i \in Ids \cup {Blank}
    BY <2>1 DEF Ids
  <2>5. (IF i \in DOMAIN read THEN read[i].note ELSE Blank) \in Notes \cup {Blank}
    BY <2>2
  <2>. HIDE DEF read
  <2>. QED BY <2>3, <2>4, <2>5 DEF LogRow, Rows
<1>3. ASSUME NEW n \in DOMAIN ids
      PROVE  ManualRow(read, ids, n) \in Rows
  <2>. DEFINE words == { m \in 1..n : ~ IsNumber(ids[m]) }
              id == IF IsNumber(ids[n]) THEN ids[n] ELSE Len(log) + Cardinality(words)
  <2>1. ids[n] \in DOMAIN read /\ n \in Nat /\ n \in 1..n
    BY <1>1, <1>3
  <2>2. ids[n] \in Ids /\ read[ids[n]] \in Cells
    BY <2>1, AsReadTyped
  <2>3. id \in Ids
    <3>1. CASE IsNumber(ids[n])
      BY <3>1, <2>2
    <3>2. CASE ~ IsNumber(ids[n])
      <4>1. words \in SUBSET (1..n) /\ n \in words
        BY <2>1, <3>2
      <4>2. IsFiniteSet(1..n)
        BY <2>1, FS_Interval
      <4>3. IsFiniteSet(words)
        <5>. HIDE DEF words
        <5>. QED BY <4>1, <4>2, FS_Subset
      <4>4. Cardinality(words) \in Nat /\ Cardinality(words) # 0
        <5>. HIDE DEF words
        <5>. QED BY <4>1, <4>3, FS_CardinalityType, FS_EmptySet
      <4>5. Len(log) \in Nat
        OBVIOUS
      <4>6. Len(log) + Cardinality(words) \in Nat \ {0}
        <5>. HIDE DEF words
        <5>. QED BY <4>4, <4>5
      <4>. QED BY <3>2, <4>6 DEF Ids
    <3>. QED BY <3>1, <3>2
  <2>4. [of |-> read[ids[n]].text.of, type |-> "New Issue"]
          \in [of : Nat \cup Manuals, type : ChangeCells]
    BY <2>2 DEF Cells, Texts, ChangeCells
  <2>5. read[ids[n]].note \in Notes \cup {Blank}
    BY <2>2 DEF Cells
  <2>6. ManualRow(read, ids, n) =
          [id |-> id, text |-> [of |-> read[ids[n]].text.of, type |-> "New Issue"],
           note |-> read[ids[n]].note]
    BY DEF ManualRow
  <2>. DEFINE text == [of |-> read[ids[n]].text.of, type |-> "New Issue"]
              note == read[ids[n]].note
  <2>7. [id |-> id, text |-> text, note |-> note] \in Rows
    <3>1. text \in [of : Nat \cup Manuals, type : ChangeCells] /\ note \in Notes \cup {Blank}
      BY <2>4, <2>5
    <3>. HIDE DEF id, text, note
    <3>. QED BY <2>3, <3>1 DEF Rows
  <2>. QED BY <2>6, <2>7
<1>4. first \in Seq(Rows) /\ Len(first) = Len(log)
  <2>1. DOMAIN log = 1..Len(log) /\ Len(log) \in Nat
    OBVIOUS
  <2>2. first \in [1..Len(log) -> Rows]
    BY <1>2, <2>1
  <2>. HIDE DEF first
  <2>. QED BY <2>1, <2>2
<1>5. second \in Seq(Rows) /\ Len(second) = Len(ids)
  <2>1. DOMAIN ids = 1..Len(ids) /\ Len(ids) \in Nat
    BY <1>1
  <2>2. second \in [1..Len(ids) -> Rows]
    BY <1>3, <2>1
  <2>. HIDE DEF second
  <2>. QED BY <2>1, <2>2
<1>6. FreshRows(rows) = first \o second
  BY DEF FreshRows
<1>7. \A i \in 1..Len(log) : first[i] = LogRow(i, read)
  OBVIOUS
<1>8. \A n \in 1..Len(ids) : second[n] = ManualRow(read, ids, n)
  BY <1>1
<1>. HIDE DEF first, second, read
<1>9. /\ first \o second \in Seq(Rows)
      /\ Len(first \o second) = Len(first) + Len(second)
      /\ \A i \in 1..Len(first) : (first \o second)[i] = first[i]
      /\ \A n \in 1..Len(second) : (first \o second)[Len(first) + n] = second[n]
  <2>0. first \in Seq(Rows) /\ second \in Seq(Rows)
    BY <1>4, <1>5
  <2>1. ASSUME NEW s \in Seq(Rows), NEW t \in Seq(Rows)
        PROVE  /\ s \o t \in Seq(Rows)
               /\ Len(s \o t) = Len(s) + Len(t)
               /\ \A i \in 1..Len(s) : (s \o t)[i] = s[i]
               /\ \A n \in 1..Len(t) : (s \o t)[Len(s) + n] = t[n]
    BY Joined
  <2>. QED BY <2>0, <2>1
<1>. QED BY <1>4, <1>5, <1>6, <1>7, <1>8, <1>9 DEF read

-----------------------------------------------------------------------------
(* What stands still. *)

LEMMA StatisticsStand ==
    UNCHANGED <<runs, log, noted>> => Statistics' = Statistics
BY DEF Statistics, CountActive, CountExceptions, CountCompliant, SheetStats, DiffRuns,
       NewIssues, LastSync, PreviousSync, RecentActions, Found, IsExceptioned, Current

LEMMA StatisticsDomain == DOMAIN Statistics = DOMAIN NoStats
BY DEF Statistics, NoStats

LEMMA DetectedStands ==
    ASSUME DetectedInv, UNCHANGED <<runs, log, pending, missed, pc>>
    PROVE  DetectedInv'
<1>1. \A k : Diff(k)' = Diff(k)
  BY DEF Diff, ScannedKeys, Current, Baseline
<1>2. \A k, type : LoggedNow(k, type)' <=> LoggedNow(k, type)
  BY DEF LoggedNow, Current
<1>. QED BY <1>1, <1>2 DEF DetectedInv, ActionOn

LEMMA LogStands ==
    ASSUME LogInv, UNCHANGED log
    PROVE  LogInv'
BY DEF LogInv

\* The sync is over, whatever it had reached.
LEMMA EndSyncKeeps ==
    ASSUME IInv, EndSync, UNCHANGED <<runs, log, noted, stored>>,
           book' \in Seq(Rows), source' \in 0..Len(runs), edits' = edits
    PROVE  IInv'
<1>1. TypedInv'
  <2>1. seen' \in Seq(Rows)
    BY DEF EndSync
  <2>. QED BY <2>1 DEF IInv, TypedInv, EndSync
<1>2. PhaseInv'
  BY DEF PhaseInv, EndSync
<1>3. DetectedInv'
  BY DEF DetectedInv, EndSync
<1>. QED BY <1>1, <1>2, <1>3, LogStands DEF IInv

-----------------------------------------------------------------------------
(* The steps. *)

LEMMA InitHolds == Init => IInv
<1>. SUFFICES ASSUME Init PROVE IInv
  OBVIOUS
<1>1. TypedInv
  <2>1. \A S : << >> \in Seq(S)
    OBVIOUS
  <2>2. DOMAIN stored = {} /\ DOMAIN log = {}
    BY DEF Init
  <2>3. noted \in [Keys -> {"unread", "plain", "exception"}]
    BY DEF Init
  <2>4. source \in 0..Len(runs) /\ edits \in 0..MaxEdits
    BY DEF Init
  <2>. QED BY <2>1, <2>2, <2>3, <2>4 DEF Init, TypedInv
<1>2. PhaseInv /\ LogInv /\ DetectedInv
  BY DEF Init, PhaseInv, LogInv, DetectedInv
<1>. QED BY <1>1, <1>2 DEF IInv

LEMMA ScanTyped ==
    ASSUME NEW sync \in BOOLEAN, NEW r \in ScanResults(sync)
    PROVE  r \in Runs
BY DEF ScanResults, Runs

LEMMA AuditStep == IInv /\ Audit => IInv'
<1>. SUFFICES ASSUME IInv, Audit PROVE IInv'
  OBVIOUS
<1>1. PICK r \in ScanResults(FALSE) : runs' = <<r>>
  BY DEF Audit
<1>2. r \in Runs
  BY ScanTyped
<1>3. runs' \in Seq(Runs) /\ Len(runs') = 1
  BY <1>1, <1>2
<1>4. TypedInv'
  <2>1. log \in Seq(LogRows) /\ \A i \in DOMAIN log : log[i].sync =< 0
    BY DEF IInv, TypedInv, Audit
  <2>2. \A i \in DOMAIN log : log[i] \in LogRows
    BY <2>1
  <2>3. \A i \in DOMAIN log : log[i].sync =< 1
    BY <2>1, <2>2 DEF LogRows
  <2>4. source' \in 0..Len(runs')
    BY <1>3 DEF Audit, Baseline
  <2>. QED BY <1>3, <2>3, <2>4 DEF IInv, TypedInv, Audit, session
<1>5. PhaseInv' /\ DetectedInv'
  BY DEF IInv, PhaseInv, DetectedInv, Audit, session
<1>6. LogInv'
  BY LogStands DEF IInv, Audit
<1>. QED BY <1>4, <1>5, <1>6 DEF IInv

\* The user's edits change the workbook only.
LEMMA BookChanges ==
    ASSUME IInv, UNCHANGED <<runs, log, noted, stored, source, session>>,
           book' \in Seq(Rows), edits' \in 0..MaxEdits
    PROVE  IInv'
<1>1. TypedInv'
  BY DEF IInv, TypedInv, session
<1>2. PhaseInv'
  BY StatisticsStand DEF IInv, PhaseInv, session
<1>3. DetectedInv' /\ LogInv'
  BY DetectedStands, LogStands DEF IInv, session
<1>. QED BY <1>1, <1>2, <1>3 DEF IInv

LEMMA EditNoteTyped ==
    ASSUME NEW rows \in Seq(Rows), NEW i \in DOMAIN rows, NEW n \in Notes \cup {Blank}
    PROVE  [rows EXCEPT ![i].note = n] \in Seq(Rows)
<1>0. ASSUME NEW s, NEW a, NEW b, NEW c, s = [id |-> a, text |-> b, note |-> c]
      PROVE  [s EXCEPT !.note = n] = [id |-> a, text |-> b, note |-> n]
  BY <1>0
<1>1. [rows[i] EXCEPT !.note = n] \in Rows
  <2>1. PICK a \in Ids \cup {Blank}, b \in Texts, c \in Notes \cup {Blank} :
           rows[i] = [id |-> a, text |-> b, note |-> c]
    BY RowTyped
  <2>2. [rows[i] EXCEPT !.note = n] = [id |-> a, text |-> b, note |-> n]
    BY <1>0, <2>1
  <2>. QED BY <2>2 DEF Rows, Texts
<1>2. [rows EXCEPT ![i].note = n] = [rows EXCEPT ![i] = [rows[i] EXCEPT !.note = n]]
  OBVIOUS
<1>. QED BY <1>1, <1>2

LEMMA EditStep == IInv /\ UserEdits => IInv'
<1>. SUFFICES ASSUME IInv, UserEdits PROVE IInv'
  OBVIOUS
<1>. USE DEF IInv, TypedInv
<1>0. edits < MaxEdits => edits + 1 \in 0..MaxEdits
  OBVIOUS
<1>1. ASSUME NEW i \in DOMAIN book, NEW n \in Notes \cup {Blank}, EditNote(i, n)
      PROVE  IInv'
  <2>1. book' \in Seq(Rows)
    BY <1>1, EditNoteTyped DEF EditNote
  <2>2. edits' \in 0..MaxEdits
    BY <1>0, <1>1 DEF EditNote
  <2>3. UNCHANGED <<runs, log, noted, stored, source, session>>
    BY <1>1 DEF EditNote
  <2>. HIDE DEF IInv, TypedInv
  <2>. QED BY <2>1, <2>2, <2>3, BookChanges
<1>2. ASSUME NEW m \in Manuals, NEW id \in ManualIds, NEW n \in Notes \cup {Blank},
             AddRow(m, id, n)
      PROVE  IInv'
  <2>1. [id |-> id, text |-> [of |-> m, type |-> "Fixed"], note |-> n] \in Rows
    <3>1. [of |-> m, type |-> "Fixed"] \in [of : Nat \cup Manuals, type : ChangeCells]
      BY DEF ChangeCells
    <3>2. id \in Ids \cup {Blank}
      BY DEF Ids
    <3>. QED BY <3>1, <3>2 DEF Rows
  <2>2. book' \in Seq(Rows)
    BY <2>1, <1>2 DEF AddRow
  <2>3. edits' \in 0..MaxEdits
    BY <1>0, <1>2 DEF AddRow
  <2>4. UNCHANGED <<runs, log, noted, stored, source, session>>
    BY <1>2 DEF AddRow
  <2>. HIDE DEF IInv, TypedInv
  <2>. QED BY <2>2, <2>3, <2>4, BookChanges
<1>. QED BY <1>1, <1>2 DEF UserEdits

LEMMA StartStep ==
    ASSUME NEW typed \in SUBSET Keys, IInv, StartSync(typed)
    PROVE  IInv'
<1>1. edits' \in 0..MaxEdits
  <2>1. Cardinality(typed) \in Nat
    BY KeyCounts
  <2>. QED BY <2>1 DEF IInv, TypedInv, StartSync
<1>2. noted' \in [Keys -> {"unread", "plain", "exception"}]
  BY DEF IInv, TypedInv, StartSync
<1>3. /\ DOMAIN stored' \subseteq Ids
      /\ \A d \in DOMAIN stored' : stored'[d] \in Cells
  <2>. DEFINE read == AsRead(book)
  <2>1. DOMAIN read \subseteq Ids /\ \A d \in DOMAIN read : read[d] \in Cells
    BY AsReadTyped DEF IInv, TypedInv
  <2>2. DOMAIN stored \subseteq Ids /\ \A d \in DOMAIN stored : stored[d] \in Cells
    BY DEF IInv, TypedInv
  <2>3. stored' = [d \in DOMAIN read \cup DOMAIN stored |->
                     IF d \in DOMAIN read THEN read[d] ELSE stored[d]]
    BY DEF StartSync
  <2>. HIDE DEF read
  <2>. QED BY <2>1, <2>2, <2>3
<1>4. TypedInv'
  BY <1>1, <1>2, <1>3 DEF IInv, TypedInv, StartSync
<1>5. PhaseInv' /\ DetectedInv'
  BY DEF IInv, PhaseInv, DetectedInv, StartSync
<1>6. LogInv'
  BY LogStands DEF IInv, StartSync
<1>. QED BY <1>4, <1>5, <1>6 DEF IInv

\* What the diff finds becomes an action, whatever is reported of exceptions.
LEMMA FindingDetected ==
    ASSUME NEW old, NEW new, NEW scanned, NEW k \in Keys, NEW type \in FindingChangeTypes,
           NEW change \in [Keys -> {"NO_CHANGE", "EXCEPTION_ADDED",
                                    "EXCEPTION_UPDATED", "EXCEPTION_REMOVED"}]
    PROVE  ActionOn(k, type) \in ConsolidateActions(DetectAllActions(
               DiffFindings(Keys, old, new, scanned), ExceptionActions(change)))
           <=> Transition(old, new, scanned, k) = type
<1>. DEFINE Type(q) == Transition(old, new, scanned, q)
            diff == DiffFindings(Keys, old, new, scanned)
            found == { [entity |-> [kind |-> "finding", key |-> c.key], type |-> c.type] :
                         c \in { d \in diff : d.type \in FindingChangeTypes } }
            all == DetectAllActions(diff, ExceptionActions(change))
<1>1. diff = { [key |-> q, type |-> Type(q)] : q \in Keys }
  BY DEF DiffFindings, Transition
<1>2. all = found \cup ExceptionActions(change)
  BY DEF DetectAllActions
<1>. HIDE DEF Type
<1>3. \A a \in found : /\ a.entity.kind = "finding" /\ a.entity.key \in Keys
                       /\ a.type = Type(a.entity.key) /\ a.type \in FindingChangeTypes
  <2>. HIDE DEF diff
  <2>. QED BY <1>1
<1>4. \A a \in ExceptionActions(change) :
        a.type \in {"EXCEPTION_ADDED", "EXCEPTION_UPDATED", "EXCEPTION_REMOVED"}
  BY DEF ExceptionActions
<1>5. ASSUME Type(k) = type
      PROVE  ActionOn(k, type) \in ConsolidateActions(all)
  <2>1. ActionOn(k, type) \in found
    <3>. DEFINE c == [key |-> k, type |-> Type(k)]
    <3>1. c \in diff /\ c.type \in FindingChangeTypes
      BY <1>1, <1>5
    <3>2. [entity |-> [kind |-> "finding", key |-> c.key], type |-> c.type] \in found
      <4>. HIDE DEF c, diff
      <4>. QED BY <3>1
    <3>. QED BY <3>2, <1>5 DEF ActionOn
  <2>2. ASSUME NEW b \in all, b.entity = ActionOn(k, type).entity
        PROVE  Priority(type) <= Priority(b.type)
    <3>1. b.entity.key = k
      BY <2>2 DEF ActionOn
    <3>2. CASE b \in found
      BY <1>3, <1>5, <3>1, <3>2 DEF FindingChangeTypes, Priority
    <3>3. CASE b \in ExceptionActions(change)
      BY <1>4, <3>3 DEF FindingChangeTypes, Priority
    <3>. HIDE DEF found, all
    <3>. QED BY <1>2, <2>2, <3>2, <3>3
  <2>3. ActionOn(k, type).type = type
    BY DEF ActionOn
  <2>. HIDE DEF found, all
  <2>. QED BY <1>2, <2>1, <2>2, <2>3 DEF ConsolidateActions
<1>6. ASSUME ActionOn(k, type) \in ConsolidateActions(all)
      PROVE  Type(k) = type
  <2>1. ActionOn(k, type) \in all
    <3>. HIDE DEF all
    <3>. QED BY <1>6 DEF ConsolidateActions
  <2>2. /\ ActionOn(k, type).type = type
        /\ ActionOn(k, type).entity.key = k
    BY DEF ActionOn
  <2>3. ActionOn(k, type) \in found
    <3>. HIDE DEF found, all
    <3>. QED BY <1>2, <1>4, <2>1, <2>2 DEF FindingChangeTypes
  <2>. HIDE DEF found
  <2>. QED BY <1>3, <2>2, <2>3
<1>. QED BY <1>5, <1>6 DEF Type

LEMMA ActionsDetected ==
    ASSUME NEW old, NEW new, NEW scanned,
           NEW change \in [Keys -> {"NO_CHANGE", "EXCEPTION_ADDED",
                                    "EXCEPTION_UPDATED", "EXCEPTION_REMOVED"}]
    PROVE  ConsolidateActions(DetectAllActions(
               DiffFindings(Keys, old, new, scanned), ExceptionActions(change)))
             \subseteq Actions
<1>. DEFINE Type(q) == Transition(old, new, scanned, q)
            diff == DiffFindings(Keys, old, new, scanned)
            found == { [entity |-> [kind |-> "finding", key |-> c.key], type |-> c.type] :
                         c \in { d \in diff : d.type \in FindingChangeTypes } }
            all == DetectAllActions(diff, ExceptionActions(change))
<1>0. diff = { [key |-> q, type |-> Type(q)] : q \in Keys }
  BY DEF DiffFindings, Transition
<1>1. \A d \in diff : d.key \in Keys
  <2>. HIDE DEF Type, diff
  <2>. QED BY <1>0
<1>2. found \subseteq Actions
  <2>1. ASSUME NEW q \in Keys, NEW type \in FindingChangeTypes
        PROVE  [entity |-> [kind |-> "finding", key |-> q], type |-> type] \in Actions
    BY DEF Actions, Entities, LoggedTypes, FindingChangeTypes
  <2>. HIDE DEF diff
  <2>. QED BY <1>1, <2>1
<1>3. ExceptionActions(change) \subseteq Actions
  <2>1. SUFFICES ASSUME NEW q \in Keys, change[q] # "NO_CHANGE"
                 PROVE  [entity |-> [kind |-> IF change[q] = "EXCEPTION_REMOVED"
                                              THEN "row" ELSE "finding", key |-> q],
                         type |-> change[q]] \in Actions
    BY DEF ExceptionActions
  <2>2. change[q] \in {"EXCEPTION_ADDED", "EXCEPTION_UPDATED", "EXCEPTION_REMOVED"}
    BY <2>1
  <2>. QED BY <2>2 DEF Actions, Entities, LoggedTypes
<1>4. all \subseteq Actions
  <2>1. all = found \cup ExceptionActions(change)
    BY DEF DetectAllActions
  <2>. HIDE DEF found, all
  <2>. QED BY <1>2, <1>3, <2>1
<1>. HIDE DEF all
<1>. QED BY <1>4 DEF ConsolidateActions, all

LEMMA RescanStep ==
    ASSUME NEW r \in ScanResults(TRUE), IInv, Rescan(r)
    PROVE  IInv'
<1>. DEFINE scanned == ScannedKeys(r.linked)
            old == runs[Baseline].findings
<1>1. PICK change \in [Keys -> {"NO_CHANGE", "EXCEPTION_ADDED",
                                "EXCEPTION_UPDATED", "EXCEPTION_REMOVED"}] :
         pending' = ConsolidateActions(DetectAllActions(
             DiffFindings(Keys, old, r.findings, scanned), ExceptionActions(change)))
  BY DEF Rescan
<1>2. /\ runs \in Seq(Runs) /\ r \in Runs /\ Len(runs) >= 1
      /\ log \in Seq(LogRows) /\ \A i \in DOMAIN log : log[i].sync =< Len(runs)
      /\ ~ missed /\ stats = NoStats
  <2>1. r \in Runs
    BY ScanTyped
  <2>2. runs \in Seq(Runs) /\ source \in 0..Len(runs) /\ source # 0
    BY DEF IInv, TypedInv, PhaseInv, Rescan
  <2>3. Len(runs) >= 1
    BY <2>2
  <2>. QED BY <2>1, <2>2, <2>3 DEF IInv, TypedInv, PhaseInv, Rescan
<1>3. /\ runs' \in Seq(Runs) /\ Len(runs') = Len(runs) + 1
      /\ runs'[Len(runs')] = r /\ runs'[Baseline] = runs[Baseline]
  BY <1>2 DEF Rescan, Baseline
<1>4. \A i \in DOMAIN log : log[i].sync \in Nat /\ log[i].sync < Len(runs')
  <2>1. \A i \in DOMAIN log : log[i] \in LogRows
    BY <1>2
  <2>. QED BY <1>2, <1>3, <2>1 DEF LogRows
<1>5. TypedInv'
  <2>1. pending' \subseteq Actions
    BY <1>1, ActionsDetected
  <2>2. \A i \in DOMAIN log' : log'[i].sync =< Len(runs')
    BY <1>3, <1>4 DEF Rescan
  <2>3. source' \in 0..Len(runs')
    BY <1>2, <1>3 DEF IInv, TypedInv, Rescan
  <2>. QED BY <1>3, <2>1, <2>2, <2>3 DEF IInv, TypedInv, Rescan
<1>6. PhaseInv'
  BY <1>2, <1>3 DEF IInv, PhaseInv, Rescan
<1>7. LogInv'
  BY LogStands DEF IInv, Rescan
<1>8. DetectedInv'
  <2>1. ASSUME NEW k \in Keys, NEW type \in FindingChangeTypes
        PROVE  /\ Diff(k)' = type <=> ActionOn(k, type) \in pending'
               /\ ~ LoggedNow(k, type)'
    <3>1. Diff(k)' = Transition(old, r.findings, scanned, k)
      BY <1>3 DEF Diff, Current, ScannedKeys
    <3>2. ActionOn(k, type) \in pending' <=> Transition(old, r.findings, scanned, k) = type
      <4>. HIDE DEF old, scanned
      <4>. QED BY <1>1, FindingDetected
    <3>3. ~ LoggedNow(k, type)'
      BY <1>3, <1>4 DEF LoggedNow, Current, Rescan
    <3>. QED BY <3>1, <3>2, <3>3
  <2>. QED BY <2>1 DEF DetectedInv, ActionOn
<1>. QED BY <1>5, <1>6, <1>7, <1>8 DEF IInv

\* An action moves its row to this sync or gets a new row; the others stand.
LEMMA UpsertDone ==
    ASSUME TypedInv, NEW a \in Actions, Len(runs) >= 1, NEW new, new = Upsert(a)
    PROVE  /\ new \in Seq(LogRows)
           /\ DOMAIN log \subseteq DOMAIN new
           /\ \A i \in DOMAIN log :
                /\ new[i].entity = log[i].entity /\ new[i].type = log[i].type
                /\ new[i].sync = IF i \in RowOf(a) THEN Current ELSE log[i].sync
           /\ \A i \in DOMAIN new \ DOMAIN log :
                /\ RowOf(a) = {} /\ i = Len(log) + 1
                /\ new[i] = [entity |-> a.entity, type |-> a.type, sync |-> Current]
           /\ \E i \in DOMAIN new : /\ new[i].entity = a.entity /\ new[i].type = a.type
                                    /\ new[i].sync = Current
<1>1. log \in Seq(LogRows) /\ Len(runs) \in Nat \ {0}
  BY DEF TypedInv
<1>2. \A i \in DOMAIN log : log[i] \in LogRows
  BY <1>1
<1>3. a.entity \in Entities /\ a.type \in LoggedTypes
  BY DEF Actions
<1>4. CASE RowOf(a) # {}
  <2>1. new = [i \in DOMAIN log |-> IF i \in RowOf(a) THEN [log[i] EXCEPT !.sync = Current]
                                    ELSE log[i]]
    BY <1>4 DEF Upsert
  <2>2. ASSUME NEW i \in DOMAIN log
        PROVE  /\ new[i] \in LogRows
               /\ new[i].entity = log[i].entity /\ new[i].type = log[i].type
               /\ new[i].sync = IF i \in RowOf(a) THEN Current ELSE log[i].sync
    <3>1. CASE i \in RowOf(a)
      <4>1. new[i] = [log[i] EXCEPT !.sync = Current]
        BY <2>1, <3>1
      <4>2. log[i] \in LogRows /\ Current \in Nat \ {0}
        BY <1>1, <1>2 DEF Current
      <4>. HIDE DEF Current
      <4>. QED BY <3>1, <4>1, <4>2 DEF LogRows
    <3>2. CASE i \notin RowOf(a)
      BY <1>2, <2>1, <3>2
    <3>. QED BY <3>1, <3>2
  <2>3. DOMAIN new = DOMAIN log
    BY <2>1
  <2>4. new \in Seq(LogRows)
    <3>1. new = [i \in DOMAIN log |-> new[i]]
      BY <2>1
    <3>2. new \in [1..Len(log) -> LogRows] /\ Len(log) \in Nat
      BY <1>1, <2>2, <3>1
    <3>. QED BY <3>2
  <2>5. PICK i \in DOMAIN log : i \in RowOf(a) /\ log[i].entity = a.entity /\ log[i].type = a.type
    BY <1>4 DEF RowOf
  <2>. QED BY <2>2, <2>3, <2>4, <2>5
<1>5. CASE RowOf(a) = {}
  <2>. DEFINE row == [entity |-> a.entity, type |-> a.type, sync |-> Current]
  <2>1. row \in LogRows
    BY <1>1, <1>3 DEF LogRows, Current
  <2>2. new = Append(log, row)
    BY <1>5 DEF Upsert
  <2>3. /\ row.entity = a.entity /\ row.type = a.type /\ row.sync = Current
    OBVIOUS
  <2>. HIDE DEF row
  <2>4. /\ new \in Seq(LogRows)
        /\ DOMAIN new = DOMAIN log \cup {Len(log) + 1}
        /\ Len(log) + 1 \notin DOMAIN log
        /\ \A i \in DOMAIN log : new[i] = log[i]
        /\ new[Len(log) + 1] = row
    BY <1>1, <2>1, <2>2
  <2>5. \A i \in DOMAIN log : i \notin RowOf(a)
    BY <1>5
  <2>. QED BY <1>5, <2>3, <2>4, <2>5 DEF row
<1>. QED BY <1>4, <1>5

LEMMA RecordStep ==
    ASSUME NEW a \in pending, IInv, RecordAction(a)
    PROVE  IInv'
<1>1. a \in Actions /\ Len(runs) >= 1 /\ Len(runs) \in Nat
  BY DEF IInv, TypedInv, PhaseInv, RecordAction
<1>2. CASE missed' = TRUE /\ UNCHANGED log
  <2>1. TypedInv' /\ PhaseInv' /\ DetectedInv'
    BY <1>2 DEF IInv, TypedInv, PhaseInv, DetectedInv, RecordAction
  <2>. QED BY <1>2, <2>1, LogStands DEF IInv
<1>3. CASE log' = Upsert(a) /\ UNCHANGED missed
  <2>. DEFINE new == log'
  <2>1. /\ new \in Seq(LogRows)
        /\ DOMAIN log \subseteq DOMAIN new
        /\ \A i \in DOMAIN log :
             /\ new[i].entity = log[i].entity /\ new[i].type = log[i].type
             /\ new[i].sync = IF i \in RowOf(a) THEN Current ELSE log[i].sync
        /\ \A i \in DOMAIN new \ DOMAIN log :
             /\ RowOf(a) = {} /\ i = Len(log) + 1
             /\ new[i] = [entity |-> a.entity, type |-> a.type, sync |-> Current]
        /\ \E i \in DOMAIN new : /\ new[i].entity = a.entity /\ new[i].type = a.type
                                 /\ new[i].sync = Current
    BY <1>1, <1>3, UpsertDone DEF IInv
  <2>2. \A i \in DOMAIN new \ DOMAIN log : /\ new[i].entity = a.entity /\ new[i].type = a.type
                                           /\ new[i].sync = Current
    BY <2>1
  <2>3. \A i \in DOMAIN new : new[i].sync =< Len(runs)
    <3>1. \A i \in DOMAIN log : log[i].sync =< Len(runs)
      BY DEF IInv, TypedInv
    <3>. QED BY <1>1, <2>1, <2>2, <3>1 DEF Current
  <2>4. TypedInv'
    BY <2>1, <2>3 DEF IInv, TypedInv, RecordAction
  <2>5. PhaseInv'
    BY DEF IInv, PhaseInv, RecordAction
  <2>6. LogInv'
    <3>1. a.entity.kind = "row" <=> a.type = "EXCEPTION_REMOVED"
      BY <1>1 DEF Actions
    <3>2. \A i \in DOMAIN new : new[i].entity.kind = "row" <=> new[i].type = "EXCEPTION_REMOVED"
      BY <2>1, <2>2, <3>1 DEF IInv, LogInv
    <3>3. ASSUME NEW i \in DOMAIN new, NEW j \in DOMAIN new,
                 new[i].entity = new[j].entity, new[i].type = new[j].type
          PROVE  i = j
      <4>1. CASE i \in DOMAIN log /\ j \in DOMAIN log
        BY <2>1, <3>3, <4>1 DEF IInv, LogInv
      <4>2. CASE i \notin DOMAIN log /\ j \notin DOMAIN log
        BY <2>1, <4>2
      <4>3. CASE i \in DOMAIN log /\ j \notin DOMAIN log
        BY <2>1, <2>2, <3>3, <4>3 DEF RowOf
      <4>4. CASE i \notin DOMAIN log /\ j \in DOMAIN log
        BY <2>1, <2>2, <3>3, <4>4 DEF RowOf
      <4>. QED BY <4>1, <4>2, <4>3, <4>4
    <3>. QED BY <3>2, <3>3 DEF LogInv
  <2>7. ASSUME ~ missed, NEW k \in Keys, NEW type \in FindingChangeTypes
        PROVE  Diff(k)' = type <=> (ActionOn(k, type) \in pending' \/ LoggedNow(k, type)')
    <3>1. Diff(k)' = Diff(k)
      BY DEF Diff, ScannedKeys, Current, Baseline, RecordAction
    <3>2. Diff(k) = type <=> (ActionOn(k, type) \in pending \/ LoggedNow(k, type))
      BY <2>7 DEF IInv, DetectedInv, RecordAction
    <3>3. LoggedNow(k, type)' <=> \E i \in DOMAIN new :
             /\ new[i].entity = [kind |-> "finding", key |-> k]
             /\ new[i].type = type /\ new[i].sync = Current
      BY DEF LoggedNow, Current, RecordAction
    <3>4. CASE a = ActionOn(k, type)
      <4>1. LoggedNow(k, type)'
        BY <2>1, <3>3, <3>4 DEF ActionOn
      <4>. QED BY <3>1, <3>2, <3>4, <4>1
    <3>5. CASE a # ActionOn(k, type)
      <4>1. ActionOn(k, type) \in pending' <=> ActionOn(k, type) \in pending
        BY <3>5 DEF RecordAction
      <4>2. ~ (a.entity = [kind |-> "finding", key |-> k] /\ a.type = type)
        BY <1>1, <3>5 DEF ActionOn, Actions
      <4>3. LoggedNow(k, type)' <=> LoggedNow(k, type)
        BY <2>1, <2>2, <3>3, <4>2 DEF LoggedNow, RowOf
      <4>. QED BY <3>1, <3>2, <4>1, <4>3
    <3>. QED BY <3>4, <3>5
  <2>8. DetectedInv'
    BY <1>3, <2>7 DEF DetectedInv, ActionOn
  <2>. QED BY <2>4, <2>5, <2>6, <2>8 DEF IInv
<1>. QED BY <1>2, <1>3 DEF RecordAction

LEMMA CalculateStep == IInv /\ Calculate => IInv'
<1>. SUFFICES ASSUME IInv, Calculate PROVE IInv'
  OBVIOUS
<1>1. TypedInv'
  BY StatisticsDomain DEF IInv, TypedInv, Calculate, files
<1>2. PhaseInv'
  <2>1. Statistics' = Statistics
    BY StatisticsStand DEF Calculate, files
  <2>. QED BY <2>1 DEF IInv, PhaseInv, Calculate, files
<1>3. LogInv'
  BY LogStands DEF IInv, Calculate, files
<1>4. DetectedInv'
  <2>1. \A k : Diff(k)' = Diff(k)
    BY DEF Diff, ScannedKeys, Current, Baseline, Calculate, files
  <2>2. \A k, type : LoggedNow(k, type)' <=> LoggedNow(k, type)
    BY DEF LoggedNow, Current, Calculate, files
  <2>. QED BY <2>1, <2>2 DEF IInv, DetectedInv, ActionOn, Calculate
<1>. QED BY <1>1, <1>2, <1>3, <1>4 DEF IInv

\* What the database has for a row is a row's cells.
LEMMA WrittenBackTyped ==
    ASSUME TypedInv, NEW row \in Rows
    PROVE  /\ WrittenBack(row) \in Rows
           /\ WrittenBack(row).id = row.id
           /\ row.id \in DOMAIN stored =>
                /\ WrittenBack(row).text = stored[row.id].text
                /\ WrittenBack(row).note = stored[row.id].note
           /\ row.id \notin DOMAIN stored => WrittenBack(row) = row
<1>1. ASSUME NEW r, NEW a, NEW b, NEW c, NEW t, NEW n, r = [id |-> a, text |-> b, note |-> c]
      PROVE  [r EXCEPT !.text = t, !.note = n] = [id |-> a, text |-> t, note |-> n]
  <2>1. [r EXCEPT !.text = t, !.note = n] = [[r EXCEPT !.text = t] EXCEPT !.note = n]
    OBVIOUS
  <2>2. [r EXCEPT !.text = t] = [id |-> a, text |-> t, note |-> c]
    BY <1>1
  <2>3. ASSUME NEW s, s = [id |-> a, text |-> t, note |-> c]
        PROVE  [s EXCEPT !.note = n] = [id |-> a, text |-> t, note |-> n]
    BY <2>3
  <2>. QED BY <2>1, <2>2, <2>3
<1>2. PICK a \in Ids \cup {Blank}, b \in Texts, c \in Notes \cup {Blank} :
         row = [id |-> a, text |-> b, note |-> c]
  BY DEF Rows, Texts
<1>3. CASE row.id \in DOMAIN stored
  <2>1. stored[row.id] \in Cells
    BY <1>3 DEF TypedInv
  <2>2. WrittenBack(row) = [id |-> a, text |-> stored[row.id].text,
                            note |-> stored[row.id].note]
    BY <1>1, <1>2, <1>3 DEF WrittenBack
  <2>. QED BY <1>2, <1>3, <2>1, <2>2 DEF Rows, Cells, Texts
<1>4. CASE row.id \notin DOMAIN stored
  BY <1>4 DEF WrittenBack
<1>. QED BY <1>3, <1>4

\* The written sheet has the fresh rows in their order.
LEMMA BookWritten ==
    ASSUME IInv, WriteReport
    PROVE  /\ FreshRows(seen) \in Seq(Rows)
           /\ book' \in Seq(Rows)
           /\ DOMAIN book' = 1..Len(FreshRows(seen))
           /\ \A n \in 1..Len(FreshRows(seen)) : book'[n] = WrittenBack(FreshRows(seen)[n])
<1>. DEFINE rows == FreshRows(seen)
<1>1. TypedInv /\ seen \in Seq(Rows) /\ log \in Seq(LogRows)
  BY DEF IInv, TypedInv
<1>2. rows \in Seq(Rows)
  BY <1>1, FreshRowsMade
<1>3. book' = [n \in DOMAIN rows |-> WrittenBack(rows[n])]
  BY DEF WriteReport
<1>. HIDE DEF rows
<1>4. \A n \in 1..Len(rows) : rows[n] \in Rows
  BY <1>2
<1>5. \A n \in 1..Len(rows) : WrittenBack(rows[n]) \in Rows
  BY <1>1, <1>4, WrittenBackTyped
<1>6. book' \in [1..Len(rows) -> Rows] /\ Len(rows) \in Nat
  BY <1>2, <1>3, <1>5
<1>7. book' \in Seq(Rows)
  BY <1>6
<1>. QED BY <1>2, <1>3, <1>6, <1>7 DEF rows

LEMMA WriteStep == IInv /\ WriteReport => IInv'
<1>. SUFFICES ASSUME IInv, WriteReport PROVE IInv'
  OBVIOUS
<1>1. source' \in 0..Len(runs)
  BY DEF IInv, TypedInv, WriteReport, Current
<1>. QED BY <1>1, BookWritten, EndSyncKeeps DEF WriteReport

LEMMA StopStep == IInv /\ SyncStops => IInv'
<1>. SUFFICES ASSUME IInv, SyncStops PROVE IInv'
  OBVIOUS
<1>1. book \in Seq(Rows) /\ source \in 0..Len(runs)
  BY DEF IInv, TypedInv
<1>. QED BY <1>1, EndSyncKeeps DEF SyncStops, files

LEMMA StutterStep == IInv /\ UNCHANGED vars => IInv'
<1>. SUFFICES ASSUME IInv, UNCHANGED vars PROVE IInv'
  OBVIOUS
<1>1. edits' \in 0..MaxEdits /\ book' \in Seq(Rows)
  BY DEF IInv, TypedInv, vars, files
<1>. QED BY <1>1, BookChanges DEF vars, files

LEMMA StepHolds == IInv /\ [Next]_vars => IInv'
<1>. SUFFICES ASSUME IInv, [Next]_vars PROVE IInv'
  OBVIOUS
<1>1. CASE Audit BY <1>1, AuditStep
<1>2. CASE UserEdits BY <1>2, EditStep
<1>3. CASE \E typed \in SUBSET Keys : StartSync(typed) BY <1>3, StartStep
<1>4. CASE \E r \in ScanResults(TRUE) : Rescan(r) BY <1>4, RescanStep
<1>5. CASE \E a \in pending : RecordAction(a) BY <1>5, RecordStep
<1>6. CASE Calculate BY <1>6, CalculateStep
<1>7. CASE WriteReport BY <1>7, WriteStep
<1>8. CASE SyncStops BY <1>8, StopStep
<1>9. CASE UNCHANGED vars BY <1>9, StutterStep
<1>. QED BY <1>1, <1>2, <1>3, <1>4, <1>5, <1>6, <1>7, <1>8, <1>9 DEF Next

\* The invariant the others follow from.
THEOREM Invariance == Spec => []IInv
BY InitHolds, StepHolds, PTL DEF Spec

\* Every file and every table of a sync keeps its shape: what is pending, what
\* has been counted and what has gone wrong is forgotten when the sync ends.
THEOREM TypeCorrect == Spec => []TypeOK
<1>1. IInv => TypeOK
  <2>. SUFFICES ASSUME IInv PROVE TypeOK
    OBVIOUS
  <2>1. TypedInv /\ PhaseInv
    BY DEF IInv
  <2>2. runs \in Seq([linked : SUBSET Instances, sync : BOOLEAN,
                      findings : [Keys -> Statuses \cup {None}]])
    BY <2>1 DEF TypedInv, Runs
  <2>3. log \in Seq([entity : [kind : {"finding", "row"}, key : Keys],
                     type : ChangeTypes, sync : DOMAIN runs])
    <3>. DEFINE typed == [entity : [kind : {"finding", "row"}, key : Keys],
                          type : ChangeTypes, sync : DOMAIN runs]
    <3>1. log \in Seq(LogRows) /\ \A i \in DOMAIN log : log[i].sync =< Len(runs)
      BY <2>1 DEF TypedInv
    <3>2. \A i \in DOMAIN log : log[i] \in LogRows
      BY <3>1
    <3>3. \A i \in DOMAIN log : log[i] \in typed
      BY <2>1, <2>2, <3>1, <3>2
         DEF LogRows, Entities, LoggedTypes, FindingChangeTypes, ChangeTypes
    <3>. HIDE DEF typed
    <3>4. log \in Seq(typed)
      BY <3>1, <3>3
    <3>. QED BY <3>4 DEF typed
  <2>4. source \in {0} \cup DOMAIN runs
    BY <2>1, <2>2 DEF TypedInv
  <2>. QED BY <2>1, <2>2, <2>3, <2>4 DEF TypeOK, TypedInv, PhaseInv
<1>. QED BY <1>1, Invariance, PTL

-----------------------------------------------------------------------------
(* The books balance. *)

Failing(r) == { k \in Keys : Discrepant(Found(r, k)) }

Fixed(old, new) ==
    { k \in Keys : Discrepant(Found(old, k)) /\ ~ Discrepant(Found(new, k)) }

Lasting(old, new) ==
    { k \in Keys : Discrepant(Found(old, k)) /\ Discrepant(Found(new, k)) }

Regressed(old, new) ==
    { k \in Keys : Found(old, k) = "PASS" /\ Discrepant(Found(new, k)) }

Excused(old, new) ==
    { k \in Keys : Found(old, k) = None /\ Discrepant(Found(new, k)) /\ IsExceptioned(k) }

LEMMA FoundTyped ==
    ASSUME TypedInv, NEW r \in 1..Len(runs), NEW k \in Keys
    PROVE  Found(r, k) \in {"PASS", "FAIL", "WARN", None}
<1>1. runs \in Seq(Runs)
  BY DEF TypedInv
<1>2. runs[r] \in Runs
  BY <1>1
<1>. QED BY <1>2 DEF Runs, Found, Statuses

LEMMA DiffCounts ==
    ASSUME TypedInv, NEW old \in 1..Len(runs), NEW new \in 1..Len(runs)
    PROVE  /\ DiffRuns(old, new).fixed = Cardinality(Fixed(old, new))
           /\ DiffRuns(old, new).regressions = Cardinality(Regressed(old, new))
           /\ DiffRuns(old, new).newIssues = Cardinality(NewIssues(old, new))
<1>. DEFINE Type(k) == ClassifyFindingTransition(Found(old, k), Found(new, k),
                           IsExceptioned(k), IsExceptioned(k), TRUE)
            Of(type) == { k \in Keys : Found(old, k) # None /\ Type(k) = type }
<1>1. /\ DiffRuns(old, new).fixed = Cardinality(Of("FIXED"))
      /\ DiffRuns(old, new).regressions = Cardinality(Of("REGRESSION"))
      /\ DiffRuns(old, new).newIssues = Cardinality(NewIssues(old, new))
  BY DEF DiffRuns
<1>2. ASSUME NEW k \in Keys
      PROVE  /\ (Found(old, k) # None /\ Type(k) = "FIXED")
                  <=> (Discrepant(Found(old, k)) /\ ~ Discrepant(Found(new, k)))
             /\ (Found(old, k) # None /\ Type(k) = "REGRESSION")
                  <=> (Found(old, k) = "PASS" /\ Discrepant(Found(new, k)))
  <2>1. Found(old, k) \in {"PASS", "FAIL", "WARN", None}
    BY FoundTyped
  <2>2. CASE Discrepant(Found(old, k)) /\ Discrepant(Found(new, k))
    <3>1. Type(k) = "STILL_FAILING"
      BY <2>2 DEF ClassifyFindingTransition, ExceptionChange
    <3>. QED BY <2>2, <3>1 DEF Discrepant
  <2>3. CASE ~ (Discrepant(Found(old, k)) /\ Discrepant(Found(new, k)))
    <3>1. Type(k) = FindingChange(Found(old, k), Found(new, k))
      BY <2>3 DEF ClassifyFindingTransition
    <3>. QED BY <2>1, <2>3, <3>1 DEF FindingChange, Discrepant, None
  <2>. QED BY <2>2, <2>3
<1>. HIDE DEF Type
<1>3. Of("FIXED") = Fixed(old, new) /\ Of("REGRESSION") = Regressed(old, new)
  BY <1>2 DEF Fixed, Regressed
<1>. QED BY <1>1, <1>3

\* A finding that fails now failed before, or regressed, or is new.
LEMMA FailingBalance ==
    ASSUME TypedInv, NEW old \in 1..Len(runs), NEW new \in 1..Len(runs)
    PROVE  /\ Cardinality(Fixed(old, new)) \in Nat
           /\ Cardinality(Regressed(old, new)) \in Nat
           /\ Cardinality(NewIssues(old, new)) \in Nat
           /\ Cardinality(Failing(new)) =
                Cardinality(Failing(old)) - Cardinality(Fixed(old, new))
                  + Cardinality(Regressed(old, new)) + Cardinality(NewIssues(old, new))
                  + Cardinality(Excused(old, new))
<1>. DEFINE fresh == NewIssues(old, new) \cup Excused(old, new)
            fails == Regressed(old, new) \cup fresh
<1>1. /\ Failing(old) \in SUBSET Keys /\ Failing(new) \in SUBSET Keys
      /\ Fixed(old, new) \in SUBSET Failing(old) /\ Lasting(old, new) \in SUBSET Failing(old)
      /\ Fixed(old, new) \cup Lasting(old, new) = Failing(old)
      /\ Fixed(old, new) \cap Lasting(old, new) = {}
  BY DEF Failing, Fixed, Lasting
<1>2. /\ NewIssues(old, new) \in SUBSET Keys /\ Excused(old, new) \in SUBSET Keys
      /\ Regressed(old, new) \in SUBSET Keys
      /\ NewIssues(old, new) \cap Excused(old, new) = {}
  BY DEF NewIssues, Excused, Regressed
<1>3. \A k \in Keys : /\ k \in NewIssues(old, new) <=>
                           Found(old, k) = None /\ Discrepant(Found(new, k)) /\ ~ IsExceptioned(k)
                      /\ k \in Excused(old, new) <=>
                           Found(old, k) = None /\ Discrepant(Found(new, k)) /\ IsExceptioned(k)
                      /\ k \in Regressed(old, new) <=>
                           Found(old, k) = "PASS" /\ Discrepant(Found(new, k))
                      /\ k \in Lasting(old, new) <=>
                           Discrepant(Found(old, k)) /\ Discrepant(Found(new, k))
                      /\ k \in Failing(new) <=> Discrepant(Found(new, k))
  BY DEF NewIssues, Excused, Regressed, Lasting, Failing
<1>4. /\ Regressed(old, new) \cap fresh = {}
      /\ Lasting(old, new) \cap fails = {}
      /\ Lasting(old, new) \cup fails = Failing(new)
  <2>1. \A k \in Keys : Found(old, k) \in {"PASS", "FAIL", "WARN", None}
    BY FoundTyped
  <2>2. Lasting(old, new) \in SUBSET Keys
    BY DEF Lasting
  <2>3. \A k \in Keys : k \in Failing(new) <=> k \in Lasting(old, new) \/ k \in fails
    BY <1>3, <2>1 DEF Discrepant
  <2>4. \A k \in Keys : /\ ~ (k \in Lasting(old, new) /\ k \in fails)
                        /\ ~ (k \in Regressed(old, new) /\ k \in fresh)
    BY <1>3 DEF Discrepant, None
  <2>. QED BY <1>1, <1>2, <2>2, <2>3, <2>4
<1>5. Cardinality(Failing(old)) =
        Cardinality(Fixed(old, new)) + Cardinality(Lasting(old, new))
  <2>1. Fixed(old, new) \in SUBSET Keys /\ Lasting(old, new) \in SUBSET Keys
    BY DEF Fixed, Lasting
  <2>. QED BY <1>1, <2>1, Split
<1>6. Cardinality(fresh) = Cardinality(NewIssues(old, new)) + Cardinality(Excused(old, new))
  BY <1>2, Split
<1>7. Cardinality(fails) = Cardinality(Regressed(old, new)) + Cardinality(fresh)
  <2>1. fresh \in SUBSET Keys
    BY <1>2
  <2>. HIDE DEF fresh
  <2>. QED BY <1>2, <1>4, <2>1, Split
<1>8. Cardinality(Failing(new)) = Cardinality(Lasting(old, new)) + Cardinality(fails)
  <2>1. fails \in SUBSET Keys /\ Lasting(old, new) \in SUBSET Keys
    BY <1>2 DEF Lasting
  <2>. HIDE DEF fails
  <2>. QED BY <1>4, <2>1, Split
<1>9. /\ Cardinality(Fixed(old, new)) \in Nat /\ Cardinality(Lasting(old, new)) \in Nat
      /\ Cardinality(NewIssues(old, new)) \in Nat /\ Cardinality(Excused(old, new)) \in Nat
      /\ Cardinality(Regressed(old, new)) \in Nat
  <2>1. Fixed(old, new) \in SUBSET Keys /\ Lasting(old, new) \in SUBSET Keys
    BY DEF Fixed, Lasting
  <2>. QED BY <1>2, <2>1, KeyCounts
<1>. HIDE DEF fresh, fails
<1>. QED BY <1>5, <1>6, <1>7, <1>8, <1>9

\* A line is left out only when its count is zero.
LEMMA LinesShow ==
    ASSUME NEW counts, NEW c \in DOMAIN counts, counts[c] \in Nat
    PROVE  Shown(Lines(counts), c) = counts[c]
BY DEF Shown, Lines

KeysOn(K, s) == { k \in K : SheetOf[k] = s }

KeysOnAny(K, T) == { k \in K : SheetOf[k] \in T }

\* A sum over sheets counts the keys of all of them.  The sum is a recursion
\* over the sheets left, and counting is the one function that satisfies it.
LEMMA SheetsAddUp ==
    ASSUME NEW lines, NEW c, NEW K \in SUBSET Keys, IsFiniteSet(DOMAIN lines),
           \A s \in DOMAIN lines :
             Shown(lines[s], c) = Cardinality(KeysOn(K, s))
    PROVE  SumShown(lines, c) = Cardinality(KeysOnAny(K, DOMAIN lines))
<1>. DEFINE D == DOMAIN lines
            On(T) == KeysOnAny(K, T)
            pick(T) == CHOOSE s \in T : TRUE
            Sums(g) == g = [T \in SUBSET D |->
                              IF T = {} THEN 0
                              ELSE Shown(lines[pick(T)], c) + g[T \ {pick(T)}]]
            count == [T \in SUBSET D |-> Cardinality(On(T))]
            sum == CHOOSE g : Sums(g)
<1>1. SumShown(lines, c) = sum[D]
  BY DEF SumShown, FoldFunction, FoldFunctionOnSet, MapThenFoldSet
<1>2. ASSUME NEW T \in SUBSET D, NEW s \in T
      PROVE  Cardinality(On(T)) = Shown(lines[s], c) + Cardinality(On(T \ {s}))
  <2>. DEFINE here == KeysOn(K, s)
  <2>1. On(T) = here \cup On(T \ {s}) /\ here \cap On(T \ {s}) = {}
    BY <1>2 DEF KeysOn, KeysOnAny
  <2>2. here \in SUBSET Keys /\ On(T \ {s}) \in SUBSET Keys
    BY DEF KeysOn, KeysOnAny
  <2>3. Cardinality(here \cup On(T \ {s})) = Cardinality(here) + Cardinality(On(T \ {s}))
    <3>. HIDE DEF here, On
    <3>. QED BY <2>1, <2>2, Split
  <2>4. Shown(lines[s], c) = Cardinality(here)
    BY <1>2
  <2>. QED BY <2>1, <2>3, <2>4
<1>3. Cardinality(On({})) = 0
  <2>1. On({}) = {}
    BY DEF KeysOnAny
  <2>. QED BY <2>1, FS_EmptySet
<1>4. \A T \in SUBSET D : T # {} => pick(T) \in T
  OBVIOUS
<1>5. Sums(count)
  <2>1. ASSUME NEW T \in SUBSET D
        PROVE  count[T] = IF T = {} THEN 0
                          ELSE Shown(lines[pick(T)], c) + count[T \ {pick(T)}]
    <3>1. CASE T = {}
      BY <1>3, <3>1
    <3>2. CASE T # {}
      <4>1. pick(T) \in T /\ T \ {pick(T)} \in SUBSET D
        BY <1>4, <3>2
      <4>2. count[T] = Cardinality(On(T))
            /\ count[T \ {pick(T)}] = Cardinality(On(T \ {pick(T)}))
        <5>. HIDE DEF On, pick
        <5>. QED BY <4>1
      <4>3. Cardinality(On(T)) = Shown(lines[pick(T)], c) + Cardinality(On(T \ {pick(T)}))
        <5>. HIDE DEF On, pick
        <5>. QED BY <1>2, <4>1
      <4>. HIDE DEF count, pick, On
      <4>. QED BY <3>2, <4>2, <4>3
    <3>. QED BY <3>1, <3>2
  <2>2. count = [T \in SUBSET D |-> count[T]]
    OBVIOUS
  <2>. HIDE DEF count, pick
  <2>. QED BY <2>1, <2>2
<1>6. Sums(sum)
  <2>. HIDE DEF Sums, count
  <2>. QED BY <1>5
<1>7. \A T \in SUBSET D : sum[T] = Cardinality(On(T))
  <2>. DEFINE P == { T \in SUBSET D : sum[T] = Cardinality(On(T)) }
  <2>1. ASSUME NEW T \in SUBSET D
        PROVE  sum[T] = IF T = {} THEN 0
                        ELSE Shown(lines[pick(T)], c) + sum[T \ {pick(T)}]
    <3>. HIDE DEF sum, pick
    <3>. QED BY <1>6
  <2>2. ASSUME NEW T \in SUBSET D, \A U \in SUBSET D : (U \subseteq T /\ U # T) => U \in P
        PROVE  T \in P
    <3>1. CASE T = {}
      <4>. HIDE DEF sum, pick, On
      <4>. QED BY <1>3, <2>1, <3>1
    <3>2. CASE T # {}
      <4>1. pick(T) \in T /\ T \ {pick(T)} \in SUBSET D
        BY <1>4, <3>2
      <4>2. T \ {pick(T)} \in P
        <5>. HIDE DEF P, pick
        <5>. QED BY <2>2, <4>1
      <4>. HIDE DEF sum, pick, On
      <4>. QED BY <1>2, <2>1, <3>2, <4>1, <4>2
    <3>. QED BY <3>1, <3>2
  <2>3. SUBSET D \subseteq P
    <3>1. IsFiniteSet(D)
      OBVIOUS
    <3>. HIDE DEF P, D
    <3>2. \A T \in SUBSET D :
            (\A U \in SUBSET D : (U \subseteq T /\ U # T) => U \in P) => T \in P
      BY <2>2
    <3>. QED BY <3>1, <3>2, SmallerSubsets
  <2>. QED BY <2>3
<1>8. sum[D] = Cardinality(On(D))
  <2>. HIDE DEF sum, On
  <2>. QED BY <1>7
<1>. QED BY <1>1, <1>8

LEMMA StatisticsAgree ==
    ASSUME TypedInv, NEW r \in 1..Len(runs)
    PROVE  Cardinality({ k \in Keys : Found(r, k) # None }) =
             CountActive(r, Keys) + CountExceptions(r, Keys) + CountCompliant(r, Keys)
<1>. DEFINE active == { k \in Keys : Discrepant(Found(r, k)) /\ ~ IsExceptioned(k) }
            documented == { k \in Keys : Discrepant(Found(r, k)) /\ IsExceptioned(k) }
            compliant == { k \in Keys : Found(r, k) = "PASS" }
            found == { k \in Keys : Found(r, k) # None }
            failing == active \cup documented
<1>1. \A k \in Keys : Found(r, k) \in {"PASS", "FAIL", "WARN", None}
  BY FoundTyped
<1>2. active \cap documented = {}
  OBVIOUS
<1>3. failing \cap compliant = {} /\ failing \cup compliant = found
  BY <1>1 DEF Discrepant, None
<1>4. active \in SUBSET Keys /\ documented \in SUBSET Keys /\ compliant \in SUBSET Keys
  OBVIOUS
<1>5. CountActive(r, Keys) = Cardinality(active)
      /\ CountExceptions(r, Keys) = Cardinality(documented)
      /\ CountCompliant(r, Keys) = Cardinality(compliant)
  BY DEF CountActive, CountExceptions, CountCompliant
<1>. HIDE DEF active, documented, compliant, found
<1>6. Cardinality(failing) = Cardinality(active) + Cardinality(documented)
  BY <1>2, <1>4, Split
<1>7. failing \in SUBSET Keys
  BY <1>4
<1>8. Cardinality(found) = Cardinality(failing) + Cardinality(compliant)
  <2>. HIDE DEF failing
  <2>. QED BY <1>3, <1>4, <1>7, Split
<1>9. Cardinality(found) = CountActive(r, Keys) + CountExceptions(r, Keys)
                             + CountCompliant(r, Keys)
  <2>. HIDE DEF failing
  <2>. QED BY <1>5, <1>6, <1>8
<1>. QED BY <1>9 DEF found

\* The sheets the console passes over have nothing to add.
LEMMA ConsoleSheets ==
    ASSUME TypedInv, stats = Statistics, NEW r, r = Current
    PROVE  /\ SumShown(Console.sheets, "active") = CountActive(r, Keys)
           /\ SumShown(Console.sheets, "exceptions") = CountExceptions(r, Keys)
<1>. DEFINE sheets == { SheetOf[k] : k \in Keys }
            active == { k \in Keys : Discrepant(Found(r, k)) /\ ~ IsExceptioned(k) }
            documented == { k \in Keys : Discrepant(Found(r, k)) /\ IsExceptioned(k) }
            busy == { s \in sheets : Cardinality(KeysOn(active, s))
                                       + Cardinality(KeysOn(documented, s)) > 0 }
            lines == Console.sheets
<1>1. ASSUME NEW s \in sheets
      PROVE  /\ Statistics.sheets[s].active = Cardinality(KeysOn(active, s))
             /\ Statistics.sheets[s].exceptions = Cardinality(KeysOn(documented, s))
             /\ DOMAIN Statistics.sheets[s] = {"active", "exceptions", "compliant"}
  <2>. DEFINE keys == { k \in Keys : SheetOf[k] = s }
  <2>1. Statistics.sheets[s] = [active     |-> CountActive(r, keys),
                                exceptions |-> CountExceptions(r, keys),
                                compliant  |-> CountCompliant(r, keys)]
    BY <1>1 DEF Statistics, SheetStats
  <2>2. CountActive(r, keys) = Cardinality(KeysOn(active, s))
    <3>1. { k \in keys : Discrepant(Found(r, k)) /\ ~ IsExceptioned(k) } = KeysOn(active, s)
      BY DEF KeysOn
    <3>. QED BY <3>1 DEF CountActive
  <2>3. CountExceptions(r, keys) = Cardinality(KeysOn(documented, s))
    <3>1. { k \in keys : Discrepant(Found(r, k)) /\ IsExceptioned(k) } = KeysOn(documented, s)
      BY DEF KeysOn
    <3>. QED BY <3>1 DEF CountExceptions
  <2>. HIDE DEF active, documented, keys
  <2>. QED BY <2>1, <2>2, <2>3
<1>2. DOMAIN Statistics.sheets = sheets
  BY DEF Statistics, SheetStats
<1>3. /\ active \in SUBSET Keys /\ documented \in SUBSET Keys
      /\ \A s : KeysOn(active, s) \in SUBSET Keys /\ KeysOn(documented, s) \in SUBSET Keys
  BY DEF KeysOn
<1>4. \A s : /\ Cardinality(KeysOn(active, s)) \in Nat
             /\ Cardinality(KeysOn(documented, s)) \in Nat
  <2>. HIDE DEF active, documented
  <2>. QED BY <1>3, KeyCounts
<1>5. lines = [s \in busy |-> Lines([active     |-> Cardinality(KeysOn(active, s)),
                                     exceptions |-> Cardinality(KeysOn(documented, s))])]
  <2>1. lines = [s \in { t \in DOMAIN Statistics.sheets :
                           Statistics.sheets[t].active + Statistics.sheets[t].exceptions > 0 } |->
                   Lines([active     |-> Statistics.sheets[s].active,
                          exceptions |-> Statistics.sheets[s].exceptions])]
    BY DEF Console, SheetLines
  <2>. HIDE DEF active, documented, sheets, lines
  <2>. QED BY <1>1, <1>2, <2>1
<1>6. IsFiniteSet(DOMAIN lines) /\ DOMAIN lines = busy
  <2>. DEFINE of == [k \in Keys |-> SheetOf[k]]
  <2>1. of \in Surjection(Keys, sheets)
    BY DEF Surjection
  <2>2. IsFiniteSet(sheets)
    <3>. HIDE DEF of, sheets
    <3>. QED BY <2>1, FS_Surjection
  <2>3. busy \in SUBSET sheets
    OBVIOUS
  <2>4. DOMAIN lines = busy
    <3>. HIDE DEF lines, busy
    <3>. QED BY <1>5
  <2>. HIDE DEF busy, sheets, lines
  <2>. QED BY <2>2, <2>3, <2>4, FS_Subset
<1>7. ASSUME NEW s \in busy
      PROVE  /\ Shown(lines[s], "active") = Cardinality(KeysOn(active, s))
             /\ Shown(lines[s], "exceptions") = Cardinality(KeysOn(documented, s))
  <2>. DEFINE counts == [active     |-> Cardinality(KeysOn(active, s)),
                         exceptions |-> Cardinality(KeysOn(documented, s))]
  <2>1. lines[s] = Lines(counts)
    <3>. HIDE DEF lines, busy
    <3>. QED BY <1>5, <1>7
  <2>2. /\ DOMAIN counts = {"active", "exceptions"}
        /\ counts["active"] = Cardinality(KeysOn(active, s))
        /\ counts["exceptions"] = Cardinality(KeysOn(documented, s))
    OBVIOUS
  <2>. HIDE DEF counts, lines
  <2>. QED BY <1>4, <2>1, <2>2, LinesShow
<1>8. \A k \in active : SheetOf[k] \in busy
  <2>. SUFFICES ASSUME NEW k \in active PROVE SheetOf[k] \in busy
    OBVIOUS
  <2>1. k \in KeysOn(active, SheetOf[k]) /\ SheetOf[k] \in sheets
    BY DEF KeysOn
  <2>2. IsFiniteSet(KeysOn(active, SheetOf[k]))
    BY <1>3, KeyCounts
  <2>3. Cardinality(KeysOn(active, SheetOf[k])) # 0
    BY <2>1, <2>2, FS_EmptySet
  <2>. HIDE DEF sheets
  <2>. QED BY <1>4, <2>1, <2>3
<1>9. \A k \in documented : SheetOf[k] \in busy
  <2>. SUFFICES ASSUME NEW k \in documented PROVE SheetOf[k] \in busy
    OBVIOUS
  <2>1. k \in KeysOn(documented, SheetOf[k]) /\ SheetOf[k] \in sheets
    BY DEF KeysOn
  <2>2. IsFiniteSet(KeysOn(documented, SheetOf[k]))
    BY <1>3, KeyCounts
  <2>3. Cardinality(KeysOn(documented, SheetOf[k])) # 0
    BY <2>1, <2>2, FS_EmptySet
  <2>. HIDE DEF sheets
  <2>. QED BY <1>4, <2>1, <2>3
<1>10. SumShown(lines, "active") = Cardinality(KeysOnAny(active, DOMAIN lines))
  <2>1. \A s \in DOMAIN lines :
          Shown(lines[s], "active") = Cardinality(KeysOn(active, s))
    <3>. HIDE DEF active, lines, busy
    <3>. QED BY <1>6, <1>7
  <2>. HIDE DEF active, lines
  <2>. QED BY <1>3, <1>6, <2>1, SheetsAddUp
<1>11. SumShown(lines, "exceptions")
         = Cardinality(KeysOnAny(documented, DOMAIN lines))
  <2>1. \A s \in DOMAIN lines :
          Shown(lines[s], "exceptions") = Cardinality(KeysOn(documented, s))
    <3>. HIDE DEF documented, lines, busy
    <3>. QED BY <1>6, <1>7
  <2>. HIDE DEF documented, lines
  <2>. QED BY <1>3, <1>6, <2>1, SheetsAddUp
<1>12. KeysOnAny(active, DOMAIN lines) = active
       /\ KeysOnAny(documented, DOMAIN lines) = documented
  <2>. HIDE DEF active, documented, lines, busy
  <2>. QED BY <1>6, <1>8, <1>9 DEF KeysOnAny
<1>13. CountActive(r, Keys) = Cardinality(active)
       /\ CountExceptions(r, Keys) = Cardinality(documented)
  BY DEF CountActive, CountExceptions
<1>14. lines = Console.sheets
  OBVIOUS
<1>. HIDE DEF active, documented, lines
<1>. QED BY <1>10, <1>11, <1>12, <1>13, <1>14

LEMMA PreviousRuns ==
    ASSUME TypedInv, Len(runs) >= 2
    PROVE  /\ Current \in 1..Len(runs) /\ Baseline \in 1..Len(runs)
           /\ LastSync \in 1..Len(runs)
<1>1. Len(runs) \in Nat
  BY DEF TypedInv
<1>2. CASE { r \in 1..(Current - 1) : runs[r].sync } = {}
  BY <1>1, <1>2 DEF LastSync, PreviousSync, Current, Baseline
<1>3. CASE { r \in 1..(Current - 1) : runs[r].sync } # {}
  <2>. DEFINE earlier == { r \in 1..(Current - 1) : runs[r].sync }
  <2>1. Current - 1 \in Nat /\ earlier \in SUBSET (1..(Current - 1)) /\ earlier # {}
    BY <1>1, <1>3 DEF Current
  <2>2. Max(earlier) \in 1..(Current - 1)
    <3>. HIDE DEF earlier
    <3>. QED BY <2>1, MaxOfPositions
  <2>3. PreviousSync = Max(earlier)
    BY <1>3 DEF PreviousSync
  <2>. HIDE DEF earlier
  <2>. QED BY <1>1, <2>2, <2>3 DEF LastSync, Current, Baseline
<1>. QED BY <1>2, <1>3

\* The statistics of a sync balance on the console and on the cover: every
\* finding that fails is counted once, as lasting, regressed, new or excused,
\* and every line left out stands for a zero.
THEOREM BooksBalanced == Spec => []BooksBalance
<1>1. IInv => BooksBalance
  <2>. SUFFICES ASSUME IInv, pc = "write" PROVE BooksBalance
    BY DEF BooksBalance
  <2>1. TypedInv /\ Len(runs) >= 2 /\ stats = Statistics
    BY DEF IInv, PhaseInv
  <2>2. /\ Current \in 1..Len(runs) /\ Baseline \in 1..Len(runs)
        /\ LastSync \in 1..Len(runs)
    BY <2>1, PreviousRuns
  <2>3. /\ stats.base = DiffRuns(Baseline, Current)
        /\ stats.last = DiffRuns(LastSync, Current)
        /\ stats.total = Cardinality({ k \in Keys : Found(Current, k) # None })
        /\ stats.active = CountActive(Current, Keys)
        /\ stats.documented = CountExceptions(Current, Keys)
        /\ stats.compliant = CountCompliant(Current, Keys)
    BY <2>1 DEF Statistics
  <2>4. /\ stats.exceptions.added \in Nat /\ stats.exceptions.removed \in Nat
        /\ stats.exceptions.updated \in Nat
    <3>1. \A type : RecentActions(type) \in Nat
      <4>1. \A type : { i \in DOMAIN log : log[i].sync = Current /\ log[i].type = type }
                        \in SUBSET (1..Len(log))
        BY <2>1 DEF TypedInv
      <4>2. Len(log) \in Nat
        BY <2>1 DEF TypedInv
      <4>3. IsFiniteSet(1..Len(log))
        BY <4>2, FS_Interval
      <4>. QED BY <4>1, <4>3, FS_Subset, FS_CardinalityType DEF RecentActions
    <3>. QED BY <2>1, <3>1 DEF Statistics
  <2>5. ASSUME NEW counts, NEW r \in {Baseline, LastSync},
               {"fixed", "regressions", "newIssues"} \subseteq DOMAIN counts,
               counts["fixed"] = DiffRuns(r, Current).fixed,
               counts["regressions"] = DiffRuns(r, Current).regressions,
               counts["newIssues"] = DiffRuns(r, Current).newIssues
        PROVE  Cardinality(Failing(Current)) =
                 Cardinality(Failing(r)) - Shown(Lines(counts), "fixed")
                   + Shown(Lines(counts), "regressions")
                   + Shown(Lines(counts), "newIssues") + Cardinality(Excused(r, Current))
    <3>1. r \in 1..Len(runs)
      BY <2>2
    <3>2. /\ counts["fixed"] = Cardinality(Fixed(r, Current))
          /\ counts["regressions"] = Cardinality(Regressed(r, Current))
          /\ counts["newIssues"] = Cardinality(NewIssues(r, Current))
      BY <2>1, <2>2, <2>5, <3>1, DiffCounts
    <3>3. /\ counts["fixed"] \in Nat /\ counts["regressions"] \in Nat
          /\ counts["newIssues"] \in Nat
      BY <2>1, <2>2, <3>1, <3>2, FailingBalance
    <3>4. /\ Shown(Lines(counts), "fixed") = counts["fixed"]
          /\ Shown(Lines(counts), "regressions") = counts["regressions"]
          /\ Shown(Lines(counts), "newIssues") = counts["newIssues"]
      BY <2>5, <3>3, LinesShow
    <3>. QED BY <2>1, <2>2, <3>1, <3>2, <3>4, FailingBalance
  <2>. DEFINE base == [fixed       |-> stats.base.fixed,
                       regressions |-> stats.base.regressions,
                       newIssues   |-> stats.base.newIssues,
                       added       |-> stats.exceptions.added]
              last == [fixed       |-> stats.last.fixed,
                       regressions |-> stats.last.regressions,
                       newIssues   |-> stats.last.newIssues,
                       added       |-> stats.exceptions.added,
                       removed     |-> stats.exceptions.removed,
                       updated     |-> stats.exceptions.updated]
              cover == [fixed       |-> stats.last.fixed,
                        regressions |-> stats.last.regressions,
                        newIssues   |-> stats.last.newIssues,
                        exceptions  |-> stats.exceptions.added + stats.exceptions.removed
                                          + stats.exceptions.updated]
              Balance(lines, r) ==
                Cardinality(Failing(Current)) =
                  Cardinality(Failing(r)) - Shown(lines, "fixed")
                    + Shown(lines, "regressions") + Shown(lines, "newIssues")
                    + Cardinality(Excused(r, Current))
  <2>6. Console.base = Lines(base) /\ Console.last = Lines(last) /\ CoverRecent = Lines(cover)
    BY DEF Console, CoverRecent
  <2>7. Balance(Console.base, Baseline)
    <3>1. Balance(Lines(base), Baseline)
      BY <2>3, <2>5
    <3>. HIDE DEF base
    <3>. QED BY <2>6, <3>1
  <2>8. Balance(Console.last, LastSync)
    <3>1. Balance(Lines(last), LastSync)
      BY <2>3, <2>5
    <3>. HIDE DEF last
    <3>. QED BY <2>6, <3>1
  <2>9. Balance(CoverRecent, LastSync)
    <3>1. Balance(Lines(cover), LastSync)
      BY <2>3, <2>5
    <3>. HIDE DEF cover
    <3>. QED BY <2>6, <3>1
  <2>10. stats.total = stats.active + stats.documented + stats.compliant
    BY <2>1, <2>2, <2>3, StatisticsAgree
  <2>11. CoverState = Console.state
    BY DEF CoverState, Console
  <2>12. /\ SumShown(Console.sheets, "active") = stats.active
         /\ SumShown(Console.sheets, "exceptions") = stats.documented
    BY <2>1, <2>3, ConsoleSheets
  <2>. HIDE DEF base, last, cover
  <2>. QED BY <2>7, <2>8, <2>9, <2>10, <2>11, <2>12 DEF BooksBalance, Failing, Excused
<1>. QED BY <1>1, Invariance, PTL

-----------------------------------------------------------------------------
(* Statistics and log. *)

LoggedKeys(type) == { k \in Keys : LoggedNow(k, type) }

\* Each row of this sync stands for a key, and a change of a key has one row.
LEMMA RowsAreKeys ==
    ASSUME TypedInv, LogInv, NEW type \in FindingChangeTypes
    PROVE  RecentActions(type) = Cardinality(LoggedKeys(type))
<1>. DEFINE recent == { i \in DOMAIN log : log[i].sync = Current /\ log[i].type = type }
            key == [i \in recent |-> log[i].entity.key]
<1>1. log \in Seq(LogRows) /\ Len(log) \in Nat
  BY DEF TypedInv
<1>2. ASSUME NEW i \in recent
      PROVE  /\ i \in DOMAIN log /\ log[i].entity.key \in Keys
             /\ log[i].entity = [kind |-> "finding", key |-> log[i].entity.key]
             /\ log[i].type = type /\ log[i].sync = Current
  <2>1. i \in DOMAIN log /\ log[i] \in LogRows /\ log[i].type = type /\ log[i].sync = Current
    BY <1>1
  <2>2. log[i].entity.kind # "row"
    BY <2>1 DEF LogInv, FindingChangeTypes
  <2>3. log[i].entity \in Entities
    BY <2>1 DEF LogRows
  <2>. HIDE DEF recent
  <2>. QED BY <2>1, <2>2, <2>3 DEF Entities
<1>3. IsFiniteSet(recent)
  <2>1. recent \in SUBSET (1..Len(log))
    BY <1>1
  <2>2. IsFiniteSet(1..Len(log))
    BY <1>1, FS_Interval
  <2>. HIDE DEF recent
  <2>. QED BY <2>1, <2>2, FS_Subset
<1>4. key \in [recent -> LoggedKeys(type)]
  <2>. HIDE DEF recent
  <2>. QED BY <1>2 DEF LoggedKeys, LoggedNow
<1>5. ASSUME NEW i \in recent, NEW j \in recent, key[i] = key[j]
      PROVE  i = j
  <2>1. log[i].entity = log[j].entity /\ log[i].type = log[j].type
    BY <1>2, <1>5
  <2>. QED BY <1>2, <2>1 DEF LogInv
<1>6. ASSUME NEW k \in LoggedKeys(type)
      PROVE  \E i \in recent : key[i] = k
  <2>1. PICK i \in DOMAIN log : /\ log[i].entity = [kind |-> "finding", key |-> k]
                                /\ log[i].type = type /\ log[i].sync = Current
    BY DEF LoggedKeys, LoggedNow
  <2>. QED BY <2>1
<1>7. key \in Bijection(recent, LoggedKeys(type))
  <2>. HIDE DEF recent, key
  <2>. QED BY <1>4, <1>5, <1>6 DEF Bijection, Injection, IsInjective, Surjection
<1>8. ExistsBijection(recent, LoggedKeys(type))
  BY <1>7 DEF ExistsBijection
<1>9. Cardinality(recent) = Cardinality(LoggedKeys(type))
  <2>. HIDE DEF recent, key
  <2>. QED BY <1>3, <1>8, FS_Bijection
<1>. QED BY <1>9 DEF RecentActions

\* What the log is told of a key, in terms of its two findings.
LEMMA DiffMeans ==
    ASSUME TypedInv, Len(runs) >= 2, NEW k \in Keys,
           NEW told \in BOOLEAN, told <=> k \in ScannedKeys(runs[Current].linked) \/ Found(Baseline, k) = None
    PROVE  /\ Diff(k) = "FIXED" <=> told /\ Discrepant(Found(Baseline, k))
                                         /\ ~ Discrepant(Found(Current, k))
           /\ Diff(k) = "REGRESSION" <=> told /\ Found(Baseline, k) = "PASS"
                                              /\ Discrepant(Found(Current, k))
           /\ Diff(k) = "NEW_ISSUE" <=> Found(Baseline, k) = None
                                        /\ Discrepant(Found(Current, k))
<1>. DEFINE old == Found(Baseline, k)
            new == Found(Current, k)
<1>1. old \in {"PASS", "FAIL", "WARN", None}
  BY PreviousRuns, FoundTyped
<1>2. Diff(k) = ClassifyFindingTransition(old, new, FALSE, FALSE,
                    k \in ScannedKeys(runs[Current].linked) \/ old = None)
  BY DEF Diff, Transition, Found
<1>3. old = None => told
  OBVIOUS
<1>4. CASE ~ told
  <2>1. Diff(k) \in {"UNKNOWN", "NO_CHANGE"}
    BY <1>2, <1>4 DEF ClassifyFindingTransition
  <2>. QED BY <1>3, <1>4, <2>1
<1>5. CASE told /\ Discrepant(old) /\ Discrepant(new)
  <2>1. Diff(k) = "STILL_FAILING"
    BY <1>2, <1>5 DEF ClassifyFindingTransition, ExceptionChange
  <2>. QED BY <1>5, <2>1 DEF Discrepant, None
<1>6. CASE told /\ ~ (Discrepant(old) /\ Discrepant(new))
  <2>1. Diff(k) = FindingChange(old, new)
    BY <1>2, <1>6 DEF ClassifyFindingTransition
  <2>. HIDE DEF old, new
  <2>2. /\ FindingChange(old, new) = "FIXED" <=> Discrepant(old) /\ ~ Discrepant(new)
        /\ FindingChange(old, new) = "REGRESSION" <=> old = "PASS" /\ Discrepant(new)
        /\ FindingChange(old, new) = "NEW_ISSUE" <=> old = None /\ Discrepant(new)
    BY <1>1, <1>6 DEF FindingChange, Discrepant, None
  <2>3. /\ Diff(k) = "FIXED" <=> Discrepant(old) /\ ~ Discrepant(new)
        /\ Diff(k) = "REGRESSION" <=> old = "PASS" /\ Discrepant(new)
        /\ Diff(k) = "NEW_ISSUE" <=> old = None /\ Discrepant(new)
    BY <2>1, <2>2
  <2>. QED BY <1>6, <2>3 DEF old, new
<1>. QED BY <1>4, <1>5, <1>6

\* The statistics and the log, made by different code, tell the same story:
\* the numbers differ by what the log's guard on unscanned instances kept out
\* and by what an exception excuses, and by nothing else.
THEOREM StatsAgreeWithLog == Spec => []StatsMatchLog
<1>1. IInv => StatsMatchLog
  <2>. SUFFICES ASSUME IInv, pc = "write", ~ missed PROVE StatsMatchLog
    BY DEF StatsMatchLog
  <2>. DEFINE Old(k) == Found(Baseline, k)
              New(k) == Found(Current, k)
              scanned == ScannedKeys(runs[Current].linked)
              unseen == { k \in Keys \ scanned : Old(k) # None }
              fixedUnseen == { k \in unseen : Discrepant(Old(k)) /\ ~ Discrepant(New(k)) }
              regressedUnseen == { k \in unseen : Old(k) = "PASS" /\ Discrepant(New(k)) }
              excused == { k \in Keys : Old(k) = None /\ Discrepant(New(k))
                                        /\ IsExceptioned(k) }
  <2>1. TypedInv /\ LogInv /\ Len(runs) >= 2 /\ stats = Statistics
    BY DEF IInv, PhaseInv
  <2>2. Current \in 1..Len(runs) /\ Baseline \in 1..Len(runs)
    BY <2>1, PreviousRuns
  <2>3. /\ stats.base.fixed = Cardinality(Fixed(Baseline, Current))
        /\ stats.base.regressions = Cardinality(Regressed(Baseline, Current))
        /\ stats.base.newIssues = Cardinality(NewIssues(Baseline, Current))
    <3>1. stats.base = DiffRuns(Baseline, Current)
      BY <2>1 DEF Statistics
    <3>. QED BY <2>1, <2>2, <3>1, DiffCounts
  <2>4. \A k \in Keys, type \in FindingChangeTypes :
          k \in LoggedKeys(type) <=> Diff(k) = type
    BY DEF IInv, PhaseInv, DetectedInv, LoggedKeys
  <2>5. \A type : LoggedKeys(type) \in SUBSET Keys
    BY DEF LoggedKeys
  <2>6. {"FIXED", "REGRESSION", "NEW_ISSUE"} \subseteq FindingChangeTypes
    BY DEF FindingChangeTypes
  <2>7. ASSUME NEW k \in Keys
        PROVE  /\ k \in LoggedKeys("FIXED") <=> (k \in scanned \/ Old(k) = None)
                     /\ Discrepant(Old(k)) /\ ~ Discrepant(New(k))
               /\ k \in LoggedKeys("REGRESSION") <=> (k \in scanned \/ Old(k) = None)
                     /\ Old(k) = "PASS" /\ Discrepant(New(k))
               /\ k \in LoggedKeys("NEW_ISSUE") <=> Old(k) = None /\ Discrepant(New(k))
    BY <2>1, <2>4, <2>6, DiffMeans
  <2>8. /\ Fixed(Baseline, Current) = LoggedKeys("FIXED") \cup fixedUnseen
        /\ LoggedKeys("FIXED") \cap fixedUnseen = {}
    BY <2>5, <2>7 DEF Fixed
  <2>9. /\ Regressed(Baseline, Current) = LoggedKeys("REGRESSION") \cup regressedUnseen
        /\ LoggedKeys("REGRESSION") \cap regressedUnseen = {}
    BY <2>5, <2>7 DEF Regressed
  <2>10. /\ LoggedKeys("NEW_ISSUE") = NewIssues(Baseline, Current) \cup excused
         /\ NewIssues(Baseline, Current) \cap excused = {}
    BY <2>5, <2>7 DEF NewIssues
  <2>11. /\ fixedUnseen \in SUBSET Keys /\ regressedUnseen \in SUBSET Keys
         /\ excused \in SUBSET Keys /\ NewIssues(Baseline, Current) \in SUBSET Keys
    BY DEF NewIssues
  <2>12. stats.base.fixed = RecentActions("FIXED") + Cardinality(fixedUnseen)
    <3>. HIDE DEF fixedUnseen
    <3>. QED BY <2>1, <2>3, <2>5, <2>6, <2>8, <2>11, RowsAreKeys, Split
  <2>13. stats.base.regressions = RecentActions("REGRESSION") + Cardinality(regressedUnseen)
    <3>. HIDE DEF regressedUnseen
    <3>. QED BY <2>1, <2>3, <2>5, <2>6, <2>9, <2>11, RowsAreKeys, Split
  <2>14. stats.base.newIssues = RecentActions("NEW_ISSUE") - Cardinality(excused)
    <3>. HIDE DEF excused
    <3>1. RecentActions("NEW_ISSUE") = stats.base.newIssues + Cardinality(excused)
      BY <2>1, <2>3, <2>5, <2>6, <2>10, <2>11, RowsAreKeys, Split
    <3>2. stats.base.newIssues \in Nat /\ Cardinality(excused) \in Nat
      BY <2>3, <2>11, KeyCounts
    <3>. QED BY <3>1, <3>2
  <2>. QED BY <2>12, <2>13, <2>14 DEF StatsMatchLog
<1>. QED BY <1>1, Invariance, PTL

-----------------------------------------------------------------------------
(* The sheet keeps everything. *)

\* The log has at most a row for each key and type of change.
LEMMA LogBounded ==
    ASSUME TypedInv, LogInv
    PROVE  Len(log) \in Nat /\ Len(log) =< Limit
<1>. DEFINE pair == [i \in 1..Len(log) |-> <<log[i].entity.key, log[i].type>>]
<1>1. log \in Seq(LogRows) /\ Len(log) \in Nat /\ DOMAIN log = 1..Len(log)
  BY DEF TypedInv
<1>2. \A i \in 1..Len(log) : log[i] \in LogRows
  BY <1>1
<1>3. pair \in [1..Len(log) -> Keys \X LoggedTypes]
  BY <1>2 DEF LogRows, Entities
<1>4. ASSUME NEW i \in 1..Len(log), NEW j \in 1..Len(log), pair[i] = pair[j]
      PROVE  i = j
  <2>1. log[i].entity.key = log[j].entity.key /\ log[i].type = log[j].type
    BY <1>4
  <2>2. log[i].entity \in Entities /\ log[j].entity \in Entities
    BY <1>2 DEF LogRows
  <2>3. log[i].entity.kind = log[j].entity.kind
    BY <1>1, <2>1, <2>2 DEF LogInv, Entities
  <2>4. log[i].entity = log[j].entity
    BY <2>1, <2>2, <2>3 DEF Entities
  <2>. QED BY <1>1, <2>1, <2>4 DEF LogInv
<1>5. pair \in Injection(1..Len(log), Keys \X LoggedTypes)
  <2>. HIDE DEF pair
  <2>. QED BY <1>3, <1>4 DEF Injection, IsInjective
<1>6. IsFiniteSet(LoggedTypes) /\ Cardinality(LoggedTypes) \in 0..6
  <2>. DEFINE name == [i \in 1..6 |-> CASE i = 1 -> "FIXED"
                                        [] i = 2 -> "REGRESSION"
                                        [] i = 3 -> "NEW_ISSUE"
                                        [] i = 4 -> "EXCEPTION_ADDED"
                                        [] i = 5 -> "EXCEPTION_REMOVED"
                                        [] i = 6 -> "EXCEPTION_UPDATED"]
  <2>1. /\ name[1] = "FIXED" /\ name[2] = "REGRESSION" /\ name[3] = "NEW_ISSUE"
        /\ name[4] = "EXCEPTION_ADDED" /\ name[5] = "EXCEPTION_REMOVED"
        /\ name[6] = "EXCEPTION_UPDATED"
    OBVIOUS
  <2>2. name \in [1..6 -> LoggedTypes]
    <3>1. \A i \in 1..6 : i \in {1, 2, 3, 4, 5, 6}
      OBVIOUS
    <3>2. \A i \in 1..6 : name[i] \in LoggedTypes
      <4>. HIDE DEF name
      <4>. QED BY <2>1, <3>1 DEF LoggedTypes, FindingChangeTypes
    <3>3. name = [i \in 1..6 |-> name[i]]
      OBVIOUS
    <3>. HIDE DEF name
    <3>. QED BY <3>2, <3>3
  <2>3. \A t \in LoggedTypes : \E i \in 1..6 : name[i] = t
    <3>. HIDE DEF name
    <3>. QED BY <2>1 DEF LoggedTypes, FindingChangeTypes
  <2>4. name \in Surjection(1..6, LoggedTypes)
    <3>. HIDE DEF name
    <3>. QED BY <2>2, <2>3 DEF Surjection
  <2>5. IsFiniteSet(1..6) /\ Cardinality(1..6) = 6
    <3>1. \A n \in Nat : IsFiniteSet(1..n) /\ Cardinality(1..n) = n
      BY FS_Interval
    <3>. QED BY <3>1
  <2>6. IsFiniteSet(LoggedTypes) /\ Cardinality(LoggedTypes) =< Cardinality(1..6)
    <3>. HIDE DEF name
    <3>. QED BY <2>4, <2>5, FS_Surjection
  <2>7. Cardinality(LoggedTypes) \in Nat
    BY <2>6, FS_CardinalityType
  <2>. QED BY <2>5, <2>6, <2>7
<1>7. /\ IsFiniteSet(Keys \X LoggedTypes)
      /\ Cardinality(Keys \X LoggedTypes) = Cardinality(Keys) * Cardinality(LoggedTypes)
  BY <1>6, FS_Product
<1>8. Cardinality(1..Len(log)) =< Cardinality(Keys \X LoggedTypes)
  BY <1>5, <1>7, FS_Injection
<1>9. Cardinality(1..Len(log)) = Len(log)
  BY <1>1, FS_Interval
<1>10. Cardinality(Keys) \in Nat
  BY FS_CardinalityType
<1>11. Cardinality(Keys) * Cardinality(LoggedTypes) =< 6 * Cardinality(Keys)
  <2>. DEFINE n == Cardinality(Keys)
              t == Cardinality(LoggedTypes)
  <2>1. n \in Nat /\ t \in 0..6
    BY <1>6, <1>10
  <2>. HIDE DEF n, t
  <2>2. t \in {0, 1, 2, 3, 4, 5, 6}
    BY <2>1
  <2>3. n * t =< 6 * n
    BY <2>1, <2>2
  <2>. QED BY <2>3 DEF n, t
<1>12. Cardinality(Keys \X LoggedTypes) =< Limit
  BY <1>7, <1>11 DEF Limit
<1>13. Cardinality(Keys \X LoggedTypes) \in Nat /\ Limit \in Nat
  BY <1>7, <1>10, FS_CardinalityType DEF Limit
<1>. QED BY <1>1, <1>8, <1>9, <1>12, <1>13

LEMMA NumbersApart ==
    ASSUME NumbersBeyondLog, TypedInv, LogInv
    PROVE  /\ \A d \in ManualIds : d \in Nat /\ d # Blank /\ d \notin DOMAIN log
           /\ \A d \in DOMAIN log : d \in Nat /\ d # Blank
           /\ DOMAIN log = 1..Len(log)
<1>1. Len(log) \in Nat /\ Len(log) =< Limit /\ DOMAIN log = 1..Len(log)
  BY LogBounded DEF TypedInv
<1>2. Limit \in Nat
  BY FS_CardinalityType DEF Limit
<1>3. \A d \in ManualIds : d \in Nat /\ d \notin 1..Limit /\ Blank \notin Nat
  BY DEF NumbersBeyondLog
<1>. QED BY <1>1, <1>2, <1>3 DEF NumbersBeyondLog

\* When every row has an id of its own, every row is read as it stands.
LEMMA ReadAsItStands ==
    ASSUME NumbersBeyondLog, TypedInv, LogInv, NEW rows \in Seq(Rows), RowsSound(rows)
    PROVE  /\ \A i \in DOMAIN rows : IdOf(rows, i) = rows[i].id /\ rows[i].id # Blank
           /\ DOMAIN AsRead(rows) = { rows[i].id : i \in DOMAIN rows }
           /\ \A i \in DOMAIN rows :
                /\ AsRead(rows)[rows[i].id].text = rows[i].text
                /\ AsRead(rows)[rows[i].id].note = rows[i].note
<1>1. \A i \in DOMAIN rows : rows[i].id # Blank
  BY NumbersApart DEF RowsSound
<1>2. DOMAIN rows = 1..Len(rows) /\ Len(rows) \in Nat
  OBVIOUS
<1>3. ASSUME NEW i \in DOMAIN rows
      PROVE  IdOf(rows, i) = rows[i].id
  <2>. DEFINE above == { j \in 1..i : rows[j].id # Blank }
  <2>1. i \in Nat /\ above \in SUBSET (1..i) /\ i \in above
    BY <1>1, <1>2
  <2>2. Max(above) \in above /\ i =< Max(above)
    BY <2>1, MaxOfPositions
  <2>3. Max(above) = i
    BY <2>1, <2>2
  <2>. QED BY <2>1, <2>3 DEF IdOf
<1>4. DOMAIN AsRead(rows) = { rows[i].id : i \in DOMAIN rows }
  <2>1. { IdOf(rows, i) : i \in DOMAIN rows } = { rows[i].id : i \in DOMAIN rows }
    BY <1>3
  <2>. QED BY <1>1, <2>1, AsReadTyped
<1>5. ASSUME NEW i \in DOMAIN rows
      PROVE  /\ AsRead(rows)[rows[i].id].text = rows[i].text
             /\ AsRead(rows)[rows[i].id].note = rows[i].note
  <2>. DEFINE with == { j \in DOMAIN rows : IdOf(rows, j) = rows[i].id }
  <2>1. with = {i}
    BY <1>3 DEF RowsSound
  <2>2. with \in SUBSET (1..Len(rows)) /\ with # {}
    BY <1>2, <2>1
  <2>3. Max(with) = i
    <3>1. Max(with) \in with
      <4>. HIDE DEF with
      <4>. QED BY <1>2, <2>2, MaxOfPositions
    <3>. QED BY <2>1, <3>1
  <2>4. rows[i].id \in DOMAIN AsRead(rows)
    BY <1>4
  <2>5. AsRead(rows)[rows[i].id] = [text |-> rows[Max(with)].text,
                                    note |-> rows[Max(with)].note]
    BY <2>4 DEF AsRead
  <2>. HIDE DEF with
  <2>. QED BY <2>3, <2>5
<1>. QED BY <1>1, <1>3, <1>4, <1>5

\* The written sheet: the log's rows, then the user's; what a row says is what
\* the database has for it.
LEMMA SheetWritten ==
    ASSUME NumbersBeyondLog, IInv, SheetInv, WriteReport
    PROVE  /\ RowsSound(book')
           /\ DOMAIN log \subseteq DOMAIN book'
           /\ \A i \in DOMAIN log : book'[i].text.of = i
           /\ \A i \in DOMAIN seen : \E m \in DOMAIN book' :
                book'[m].text = seen[i].text /\ book'[m].note = seen[i].note
<1>. DEFINE ids == ManualIdsRead(seen)
            read == AsRead(seen)
            fresh == FreshRows(seen)
            own(n) == Len(log) + n
<1>1. /\ TypedInv /\ LogInv /\ log \in Seq(LogRows) /\ seen \in Seq(Rows) /\ RowsSound(seen)
      /\ DOMAIN log = 1..Len(log) /\ Len(log) \in Nat
  BY DEF IInv, TypedInv, SheetInv
<1>2. /\ fresh \in Seq(Rows) /\ Len(fresh) = Len(log) + Len(ids)
      /\ \A i \in 1..Len(log) : fresh[i] = LogRow(i, read)
      /\ \A n \in 1..Len(ids) : fresh[own(n)] = ManualRow(read, ids, n)
  BY <1>1, FreshRowsMade
<1>3. /\ ids \in Seq(DOMAIN read \ DOMAIN log)
      /\ \A m, q \in DOMAIN ids : ids[m] = ids[q] => m = q
      /\ \A i \in DOMAIN seen :
           FirstWith(seen, i) /\ IdOf(seen, i) \notin DOMAIN log \cup {Blank}
             => \E n \in DOMAIN ids : ids[n] = IdOf(seen, i)
  BY <1>1, ManualIdsTyped
<1>4. /\ \A i \in DOMAIN seen : IdOf(seen, i) = seen[i].id /\ seen[i].id # Blank
      /\ DOMAIN read = { seen[i].id : i \in DOMAIN seen }
  BY <1>1, ReadAsItStands
<1>5. /\ \A d \in ManualIds : d \in Nat /\ d # Blank /\ d \notin DOMAIN log
      /\ \A d \in DOMAIN log : d \in Nat /\ d # Blank
  BY <1>1, NumbersApart
<1>6. /\ DOMAIN book' = 1..Len(fresh)
      /\ \A n \in 1..Len(fresh) : book'[n] = WrittenBack(fresh[n])
  BY BookWritten
<1>7. Len(ids) \in Nat /\ DOMAIN ids = 1..Len(ids)
  BY <1>3
<1>8. ASSUME NEW n \in 1..Len(ids)
      PROVE  /\ ids[n] \in ManualIds /\ ids[n] \in DOMAIN stored
             /\ fresh[own(n)].id = ids[n]
  <2>1. ids[n] \in DOMAIN read \ DOMAIN log
    BY <1>3, <1>7
  <2>2. PICK i \in DOMAIN seen : ids[n] = seen[i].id
    BY <1>4, <2>1
  <2>3. ids[n] \in ManualIds /\ ids[n] \in DOMAIN stored
    BY <1>1, <2>1, <2>2 DEF RowsSound, SheetInv
  <2>4. IsNumber(ids[n])
    BY <1>5, <2>3 DEF IsNumber
  <2>5. ManualRow(read, ids, n).id = ids[n]
    BY <2>4 DEF ManualRow
  <2>. HIDE DEF ids, read, fresh
  <2>. QED BY <1>2, <2>3, <2>5
<1>9. ASSUME NEW i \in 1..Len(log)
      PROVE  fresh[i].id = i /\ fresh[i].text.of = i
  <2>1. LogRow(i, read).id = i /\ LogRow(i, read).text.of = i
    <3>. HIDE DEF read
    <3>. QED BY DEF LogRow
  <2>. HIDE DEF fresh, read
  <2>. QED BY <1>2, <2>1
<1>. HIDE DEF ids, read, fresh
<1>10. \A n \in 1..Len(fresh) : n \in 1..Len(log) \/ \E m \in 1..Len(ids) : n = own(m)
  <2>. SUFFICES ASSUME NEW n \in 1..Len(fresh), n \notin 1..Len(log)
                PROVE  \E m \in 1..Len(ids) : n = own(m)
    OBVIOUS
  <2>1. n - Len(log) \in 1..Len(ids) /\ n = own(n - Len(log))
    BY <1>1, <1>2, <1>7
  <2>. QED BY <2>1
<1>11. ASSUME NEW n \in 1..Len(fresh)
       PROVE  /\ book'[n].id = fresh[n].id
              /\ fresh[n].id \in DOMAIN stored =>
                   /\ book'[n].text = stored[fresh[n].id].text
                   /\ book'[n].note = stored[fresh[n].id].note
              /\ fresh[n].id \notin DOMAIN stored => book'[n] = fresh[n]
  <2>1. fresh[n] \in Rows
    BY <1>2
  <2>. QED BY <1>1, <1>6, <2>1, WrittenBackTyped
<1>12. \A i \in 1..Len(log) : i \in 1..Len(fresh)
  BY <1>1, <1>2, <1>7
<1>13. \A m \in 1..Len(ids) : own(m) \in 1..Len(fresh)
  BY <1>1, <1>2, <1>7
<1>14. ASSUME NEW i \in 1..Len(log)
       PROVE  book'[i].id = i /\ book'[i].text.of = i
  <2>1. i \in DOMAIN stored => stored[i].text.of = i
    BY <1>1 DEF SheetInv
  <2>. QED BY <1>9, <1>11, <1>12, <2>1
<1>15. ASSUME NEW m \in 1..Len(ids)
       PROVE  book'[own(m)].id = ids[m] /\ ids[m] \in ManualIds /\ ids[m] \notin DOMAIN log
  BY <1>5, <1>8, <1>11, <1>13
<1>16. RowsSound(book')
  <2>1. ASSUME NEW n \in 1..Len(fresh)
        PROVE  /\ book'[n].id \in DOMAIN log \cup ManualIds
               /\ book'[n].id \in DOMAIN log => book'[n].text.of = book'[n].id
    <3>1. CASE n \in 1..Len(log)
      BY <1>1, <1>14, <3>1
    <3>2. CASE \E m \in 1..Len(ids) : n = own(m)
      <4>1. PICK m \in 1..Len(ids) : n = own(m)
        BY <3>2
      <4>2. book'[n].id = ids[m] /\ ids[m] \in ManualIds /\ ids[m] \notin DOMAIN log
        BY <1>15, <4>1
      <4>. QED BY <4>2
    <3>. QED BY <1>10, <3>1, <3>2
  <2>2. ASSUME NEW n \in 1..Len(fresh), NEW q \in 1..Len(fresh), book'[n].id = book'[q].id
        PROVE  n = q
    <3>1. CASE n \in 1..Len(log) /\ q \in 1..Len(log)
      BY <1>14, <2>2, <3>1
    <3>2. ASSUME NEW i \in 1..Len(log), NEW m \in 1..Len(ids),
                 book'[i].id = book'[own(m)].id
          PROVE  FALSE
      <4>1. book'[i].id \in DOMAIN log
        BY <1>1, <1>14
      <4>2. book'[own(m)].id \notin DOMAIN log
        BY <1>15
      <4>. QED BY <3>2, <4>1, <4>2
    <3>3. CASE (\E m \in 1..Len(ids) : n = own(m)) /\ (\E m \in 1..Len(ids) : q = own(m))
      <4>1. PICK m \in 1..Len(ids) : n = own(m)
        BY <3>3
      <4>2. PICK p \in 1..Len(ids) : q = own(p)
        BY <3>3
      <4>3. ids[m] = ids[p]
        BY <1>15, <2>2, <4>1, <4>2
      <4>4. m = p
        BY <1>3, <1>7, <4>3
      <4>. QED BY <4>1, <4>2, <4>4
    <3>. QED BY <1>10, <2>2, <3>1, <3>2, <3>3
  <2>. QED BY <1>6, <2>1, <2>2 DEF RowsSound
<1>17. ASSUME NEW i \in DOMAIN seen
       PROVE  \E m \in DOMAIN book' :
                book'[m].text = seen[i].text /\ book'[m].note = seen[i].note
  <2>1. /\ seen[i].id \in DOMAIN stored
        /\ stored[seen[i].id].text = seen[i].text
        /\ stored[seen[i].id].note = seen[i].note
    BY DEF SheetInv
  <2>2. PICK n \in 1..Len(fresh) : fresh[n].id = seen[i].id
    <3>1. CASE seen[i].id \in DOMAIN log
      <4>1. seen[i].id \in 1..Len(log)
        BY <1>1, <3>1
      <4>2. fresh[seen[i].id].id = seen[i].id
        BY <1>9, <4>1
      <4>. QED BY <1>12, <4>1, <4>2
    <3>2. CASE seen[i].id \notin DOMAIN log
      <4>1. FirstWith(seen, i)
        <5>1. i \in 1..Len(seen) /\ Len(seen) \in Nat
          BY <1>1
        <5>2. \A j \in 1..(i - 1) : j \in DOMAIN seen /\ j # i
          BY <1>1, <5>1
        <5>3. \A j \in 1..(i - 1) : seen[j].id # seen[i].id
          BY <1>1, <5>2 DEF RowsSound
        <5>. QED BY <1>4, <5>2, <5>3 DEF FirstWith
      <4>2. PICK m \in 1..Len(ids) : ids[m] = seen[i].id
        BY <1>3, <1>4, <1>7, <3>2, <4>1
      <4>. QED BY <1>8, <1>13, <4>2
    <3>. QED BY <3>1, <3>2
  <2>3. book'[n].text = seen[i].text /\ book'[n].note = seen[i].note
    BY <1>11, <2>1, <2>2
  <2>. QED BY <1>6, <2>3
<1>18. DOMAIN log \subseteq DOMAIN book' /\ \A i \in DOMAIN log : book'[i].text.of = i
  BY <1>1, <1>6, <1>12, <1>14
<1>. QED BY <1>16, <1>17, <1>18

\* The sheet does not change unless the log or the workbook does.
LEMMA SheetStands ==
    ASSUME SheetInv, UNCHANGED <<log, book, seen, stored>>
    PROVE  SheetInv'
BY DEF SheetInv, RowsSound

LEMMA SheetStep ==
    ASSUME NumbersBeyondLog, IInv, IInv', SheetInv, [Next]_vars
    PROVE  SheetInv'
<1>0. /\ TypedInv /\ LogInv /\ TypedInv' /\ LogInv'
      /\ book \in Seq(Rows) /\ seen \in Seq(Rows)
  BY DEF IInv, TypedInv
<1>1. CASE Audit
  BY <1>1, SheetStands DEF Audit, session
<1>2. ASSUME NEW i \in DOMAIN book, NEW n \in Notes \cup {Blank}, EditNote(i, n)
      PROVE  SheetInv'
  <2>1. book' = [book EXCEPT ![i].note = n] /\ UNCHANGED <<log, seen, stored>>
    BY <1>2 DEF EditNote, session
  <2>2. DOMAIN book' = DOMAIN book
    BY <2>1
  <2>3. \A j \in DOMAIN book : book'[j].id = book[j].id /\ book'[j].text = book[j].text
    <3>1. ASSUME NEW s, NEW a, NEW b, NEW c, s = [id |-> a, text |-> b, note |-> c]
          PROVE  [s EXCEPT !.note = n] = [id |-> a, text |-> b, note |-> n]
      BY <3>1
    <3>2. [book[i] EXCEPT !.note = n].id = book[i].id
          /\ [book[i] EXCEPT !.note = n].text = book[i].text
      BY <1>0, <3>1, RowTyped
    <3>3. book'[i] = [book[i] EXCEPT !.note = n] /\ \A j \in DOMAIN book : j # i => book'[j] = book[j]
      BY <2>1
    <3>. QED BY <3>2, <3>3
  <2>. QED BY <2>1, <2>2, <2>3 DEF SheetInv, RowsSound
<1>3. ASSUME NEW m \in Manuals, NEW id \in ManualIds, NEW n \in Notes \cup {Blank},
             AddRow(m, id, n)
      PROVE  SheetInv'
  <2>. DEFINE row == [id |-> id, text |-> [of |-> m, type |-> "Fixed"], note |-> n]
  <2>1. /\ book' = Append(book, row) /\ row.id = id /\ UNCHANGED <<log, seen, stored>>
        /\ id # Blank /\ id \notin DOMAIN log /\ \A i \in DOMAIN book : book[i].id # id
    BY <1>0, <1>3, NumbersApart DEF AddRow, session, Range
  <2>. HIDE DEF row
  <2>2. /\ DOMAIN book' = DOMAIN book \cup {Len(book) + 1} /\ Len(book) + 1 \notin DOMAIN book
        /\ book'[Len(book) + 1] = row
        /\ \A j \in DOMAIN book : book'[j] = book[j]
    BY <1>0, <2>1
  <2>3. RowsSound(book)
    BY DEF SheetInv
  <2>4. RowsSound(book)'
    BY <2>1, <2>2, <2>3 DEF RowsSound
  <2>5. RowsSound(seen)'
    BY <2>1 DEF SheetInv, RowsSound
  <2>. QED BY <2>1, <2>4, <2>5 DEF SheetInv
<1>4. ASSUME NEW typed \in SUBSET Keys, StartSync(typed)
      PROVE  SheetInv'
  <2>. DEFINE read == AsRead(book)
  <2>1. /\ seen' = book /\ UNCHANGED <<log, book>>
        /\ stored' = [d \in DOMAIN read \cup DOMAIN stored |->
                        IF d \in DOMAIN read THEN read[d] ELSE stored[d]]
    BY <1>4 DEF StartSync
  <2>2. RowsSound(book)
    BY DEF SheetInv
  <2>3. /\ DOMAIN read = { book[i].id : i \in DOMAIN book }
        /\ \A i \in DOMAIN book : /\ read[book[i].id].text = book[i].text
                                  /\ read[book[i].id].note = book[i].note
    BY <1>0, <2>2, ReadAsItStands
  <2>. HIDE DEF read
  <2>4. \A i \in DOMAIN book : book[i].id \in DOMAIN read
    BY <2>3
  <2>5. /\ DOMAIN stored' = DOMAIN read \cup DOMAIN stored
        /\ \A d \in DOMAIN read : stored'[d] = read[d]
        /\ \A d \in DOMAIN stored \ DOMAIN read : stored'[d] = stored[d]
    BY <2>1
  <2>6. \A d \in DOMAIN stored' : /\ d \in DOMAIN log \cup ManualIds
                                  /\ d \in DOMAIN log => stored'[d].text.of = d
    BY <2>2, <2>3, <2>5 DEF SheetInv, RowsSound
  <2>7. \A i \in DOMAIN book : /\ book[i].id \in DOMAIN stored'
                               /\ stored'[book[i].id].text = book[i].text
                               /\ stored'[book[i].id].note = book[i].note
    BY <2>3, <2>4, <2>5
  <2>8. RowsSound(book)' /\ RowsSound(seen)'
    BY <2>1, <2>2 DEF RowsSound
  <2>. QED BY <2>1, <2>6, <2>7, <2>8 DEF SheetInv
<1>5. ASSUME NEW r \in ScanResults(TRUE), Rescan(r)
      PROVE  SheetInv'
  BY <1>5, SheetStands DEF Rescan
<1>6. ASSUME NEW a \in pending, RecordAction(a)
      PROVE  SheetInv'
  <2>1. UNCHANGED <<book, seen, stored>>
    BY <1>6 DEF RecordAction
  <2>2. DOMAIN log \subseteq DOMAIN log'
    <3>1. a \in Actions /\ Len(runs) >= 1
      BY <1>6 DEF IInv, TypedInv, PhaseInv, RecordAction
    <3>2. DOMAIN log \subseteq DOMAIN Upsert(a)
      BY <1>0, <3>1, UpsertDone
    <3>. QED BY <1>6, <3>2 DEF RecordAction
  <2>3. \A d \in ManualIds : d \notin DOMAIN log'
    <3>1. Len(log') \in Nat /\ Len(log') =< Limit /\ DOMAIN log' = 1..Len(log')
      <4>1. (Len(log) \in Nat /\ Len(log) =< Limit)'
        BY <1>0, LogBounded, PTL
      <4>. QED BY <1>0, <4>1 DEF TypedInv, Limit
    <3>2. Limit \in Nat
      BY FS_CardinalityType DEF Limit
    <3>. QED BY <3>1, <3>2 DEF NumbersBeyondLog
  <2>4. ASSUME NEW rows, RowsSound(rows), rows' = rows
        PROVE  RowsSound(rows)'
    BY <2>2, <2>3, <2>4 DEF RowsSound
  <2>. QED BY <2>1, <2>2, <2>3, <2>4 DEF SheetInv, RowsSound
<1>7. CASE Calculate
  BY <1>7, SheetStands DEF Calculate, files
<1>8. CASE WriteReport
  <2>1. RowsSound(book')
    BY <1>8, SheetWritten
  <2>2. seen' = << >> /\ UNCHANGED <<log, stored>>
    BY <1>8 DEF WriteReport, EndSync
  <2>. QED BY <2>1, <2>2 DEF SheetInv, RowsSound
<1>9. CASE SyncStops
  <2>1. seen' = << >> /\ UNCHANGED <<log, stored, book>>
    BY <1>9 DEF SyncStops, EndSync, files
  <2>. QED BY <2>1 DEF SheetInv, RowsSound
<1>10. CASE UNCHANGED vars
  BY <1>10, SheetStands DEF vars, files, session
<1>. QED BY <1>1, <1>2, <1>3, <1>4, <1>5, <1>6, <1>7, <1>8, <1>9, <1>10 DEF Next, UserEdits

\* A sync that writes the workbook loses no row of the log and none of the
\* sheet it read, as long as the user's rows have numbers the log cannot reach.
THEOREM SheetKept ==
    ASSUME NumbersBeyondLog
    PROVE  Spec => SheetKeepsEverything
<1>1. Init => SheetInv
  BY DEF Init, SheetInv, RowsSound
<1>2. IInv /\ IInv' /\ SheetInv /\ [Next]_vars => SheetInv'
  BY SheetStep
<1>3. IInv /\ SheetInv /\ [Next]_vars =>
        [WriteReport =>
           /\ \A i \in DOMAIN log : \E q \in Range(book') : q.text.of = i
           /\ \A r \in Range(seen) : \E q \in Range(book') :
                q.text.of = r.text.of /\ q.note = r.note]_vars
  <2>. SUFFICES ASSUME IInv, SheetInv, WriteReport
                PROVE  /\ \A i \in DOMAIN log : \E q \in Range(book') : q.text.of = i
                       /\ \A r \in Range(seen) : \E q \in Range(book') :
                            q.text.of = r.text.of /\ q.note = r.note
    OBVIOUS
  <2>. QED BY SheetWritten DEF Range
<1>. QED BY <1>1, <1>2, <1>3, Invariance, PTL DEF Spec, SheetKeepsEverything
====
