------------------------- MODULE ReportSheetProofs --------------------------
(***************************************************************************)
(* What is proved of ReportSheet for any targets and any things collected  *)
(* from them: wherever the groups of the interleaved rows end, the key     *)
(* cells that a row filled lead back to its own values; and whichever      *)
(* findings were lost, a row of the kinds that keep their two verdicts in  *)
(* step asks for action exactly if change detection finds it discrepant.   *)
(*                                                                         *)
(* The first proof follows the columns.  A merge is of one column and      *)
(* starts at a row; the rows from there on that fill the column all have   *)
(* the value that the merged cell keeps, since the group's record says     *)
(* where they began (Together).  The other columns, and the rows above,    *)
(* are not touched.                                                        *)
(*                                                                         *)
(* The second goes by what a finding is: each was saved for a thing of its *)
(* target, under the key and with the status of that thing (IsFindingOf).  *)
(* Where the two verdicts differ, the two keys have different lengths.     *)
(***************************************************************************)
EXTENDS ReportSheet, SequenceTheorems, WellFoundedInduction, TLAPS

USE ReportAssumption

\* The rows of a sheet as a sequence over something.
Members(rows) == { rows[i] : i \in DOMAIN rows }
IsList(rows) == rows \in Seq(Members(rows))

\* What a row is made of.
IsRow(r) ==
    /\ r = [by |-> r.by, thing |-> r.thing, own |-> r.own, cells |-> r.cells,
            shows |-> r.shows, flagged |-> r.flagged]
    /\ r.by \in Targets
    /\ r.own = Own(r.by, r.thing)
    /\ r.cells = [c \in Columns |-> r.cells[c]]

IsTable(rows) == IsList(rows) /\ \A i \in 1 .. Len(rows) : IsRow(rows[i])

\* Reading column c of row i upwards comes upon v.
Leads(rows, i, c, v) ==
    \E j \in 1 .. i : /\ rows[j].cells[c] = v
                      /\ \A k \in j + 1 .. i : rows[k].cells[c] = Blank

Reads(s, rows) ==
    \A i \in 1 .. Len(rows) : \A c \in Columns :
        Fills(rows[i], s, c) => rows[i].own[c] # Blank /\ Leads(rows, i, c, rows[i].own[c])

\* The group being written, and what its rows have in common.
IsGroup(g) ==
    g = [server |-> g.server, instance |-> g.instance, group |-> g.group,
         serverStart |-> g.serverStart, instanceStart |-> g.instanceStart,
         groupStart |-> g.groupStart, mixed |-> g.mixed]

Together(s, rows, g) ==
    /\ g.serverStart \in 1 .. Len(rows)
    /\ g.instanceStart \in 1 .. Len(rows)
    /\ g.groupStart \in 1 .. Len(rows)
    /\ \A i \in g.serverStart .. Len(rows) : rows[i].own.server = g.server
    /\ Levels(s) > 1 /\ ~(s = "instance" /\ g.mixed) =>
         \A i \in g.instanceStart .. Len(rows) : rows[i].own.instance = g.instance
    /\ Levels(s) = 3 =>
         \A i \in g.groupStart .. Len(rows) :
            Tracked(s, rows[i].thing) # NoGroup => GroupName(Tracked(s, rows[i].thing)) = g.group

Open(s, rows, g) ==
    /\ IsGroup(g)
    /\ Len(rows) = 0 => g.server = Blank
    /\ Len(rows) # 0 => Together(s, rows, g)

SheetInv(s) ==
    /\ IsTable(sheets[s])
    /\ Reads(s, sheets[s])
    /\ ~saved => Open(s, sheets[s], groups[s])

IInv ==
    /\ sheets = [s \in Sheets |-> sheets[s]]
    /\ groups = [s \in Sheets |-> groups[s]]
    /\ saved => \A t \in Targets : todo[t] = <<>>
    /\ \A s \in Sheets : SheetInv(s)

-----------------------------------------------------------------------------
(* Rows. *)

\* A row fills its server and its instance.
LEMMA PlacesFilled ==
    ASSUME NEW t \in Targets, NEW x
    PROVE  Own(t, x).server # Blank /\ Own(t, x).instance # Blank /\ Own(t, x).group = x.group
<1>1. Shown(InstanceOf[t]) # Blank
  BY DEF Shown, Blank
<1>2. ServiceInstance(t, x) # Blank
  BY <1>1 DEF ServiceInstance, Blank
<1>. QED  BY <1>1, <1>2 DEF Own

LEMMA FilledCells ==
    ASSUME NEW r, IsRow(r), NEW s, NEW c \in Columns, Fills(r, s, c)
    PROVE  /\ r.own[c] # Blank
           /\ c = "group" => /\ Levels(s) = 3
                             /\ Tracked(s, r.thing) # NoGroup
                             /\ GroupName(Tracked(s, r.thing)) = r.own.group
<1>1. r.own.server # Blank /\ r.own.instance # Blank /\ r.own.group = r.thing.group
  BY PlacesFilled DEF IsRow
<1>. QED  BY <1>1 DEF Fills, Tracked, GroupName, Columns, Levels

-----------------------------------------------------------------------------
(* Merging. *)

\* Column c of new is merged from row start on, under v; the rest is as in
\* rows.
Merged(new, rows, c, start, v) ==
    /\ IsTable(new)
    /\ Len(new) = Len(rows)
    /\ \A i \in 1 .. Len(rows) :
         /\ new[i].own = rows[i].own
         /\ new[i].by = rows[i].by
         /\ new[i].thing = rows[i].thing
         /\ \A d \in Columns : d # c \/ i < start => new[i].cells[d] = rows[i].cells[d]
    /\ new[start].cells[c] = v
    /\ \A i \in start + 1 .. Len(rows) : new[i].cells[c] = Blank

LEMMA MergeIsMerged ==
    ASSUME NEW rows, IsTable(rows), NEW c \in Columns, NEW start \in 1 .. Len(rows), NEW v
    PROVE  Merged(MergeCells(rows, c, start, v), rows, c, start, v)
<1>. DEFINE new == MergeCells(rows, c, start, v)
<1>1. rows \in Seq(Members(rows)) /\ Len(rows) \in Nat /\ DOMAIN rows = 1 .. Len(rows)
  BY DEF IsTable, IsList
<1>2. /\ DOMAIN new = 1 .. Len(rows)
      /\ \A i \in 1 .. Len(rows) :
            new[i] = IF i < start THEN rows[i]
                     ELSE [rows[i] EXCEPT !.cells[c] = IF i = start THEN v ELSE Blank]
      /\ new = [i \in 1 .. Len(rows) |-> new[i]]
  BY <1>1 DEF MergeCells
<1>. HIDE DEF new
<1>3. new \in Seq(Members(new)) /\ Len(new) = Len(rows)
  <2>1. new \in [1 .. Len(rows) -> Members(new)]
    BY <1>2 DEF Members
  <2>. QED  BY <1>1, <2>1, SeqDef
<1>4. ASSUME NEW i \in 1 .. Len(rows)
      PROVE  /\ IsRow(new[i])
             /\ new[i].own = rows[i].own
             /\ new[i].by = rows[i].by
             /\ new[i].thing = rows[i].thing
             /\ \A d \in Columns : d # c \/ i < start => new[i].cells[d] = rows[i].cells[d]
             /\ i = start => new[i].cells[c] = v
             /\ i > start => new[i].cells[c] = Blank
  <2>1. IsRow(rows[i])
    BY DEF IsTable
  <2>2. CASE i < start
    BY <1>1, <1>2, <2>1, <2>2
  <2>3. CASE ~(i < start)
    <3>. DEFINE w == IF i = start THEN v ELSE Blank
                r == rows[i]
    <3>1. new[i] = [r EXCEPT !.cells[c] = w]
      BY <1>2, <2>3
    <3>. HIDE DEF w, r
    <3>2. IsRow(r)
      BY <2>1 DEF r
    <3>3. new[i] = [by |-> r.by, thing |-> r.thing, own |-> r.own,
                    cells |-> [r.cells EXCEPT ![c] = w],
                    shows |-> r.shows, flagged |-> r.flagged]
      BY <3>1, <3>2 DEF IsRow
    <3>4. /\ [r.cells EXCEPT ![c] = w] = [d \in Columns |-> [r.cells EXCEPT ![c] = w][d]]
          /\ [r.cells EXCEPT ![c] = w][c] = w
          /\ \A d \in Columns : d # c => [r.cells EXCEPT ![c] = w][d] = r.cells[d]
      BY <3>2 DEF IsRow
    <3>5. IsRow(new[i])
      BY <3>2, <3>3, <3>4 DEF IsRow
    <3>6. /\ new[i].own = r.own /\ new[i].by = r.by /\ new[i].thing = r.thing
          /\ \A d \in Columns : d # c => new[i].cells[d] = r.cells[d]
          /\ new[i].cells[c] = w
      BY <3>3, <3>4
    <3>. QED  BY <1>1, <2>3, <3>5, <3>6 DEF w, r
  <2>. QED  BY <2>2, <2>3
<1>5. IsTable(new)
  BY <1>3, <1>4 DEF IsTable, IsList
<1>6. Merged(new, rows, c, start, v)
  BY <1>1, <1>3, <1>4, <1>5 DEF Merged
<1>. QED  BY <1>6 DEF new

\* A merge leaves every column readable if the rows that it covers have the
\* merged value.
LEMMA MergeReads ==
    ASSUME NEW s, NEW rows, NEW new, NEW c \in Columns, NEW start \in 1 .. Len(rows), NEW v,
           IsTable(rows), Reads(s, rows), Merged(new, rows, c, start, v),
           \A i \in start .. Len(rows) : Fills(rows[i], s, c) => rows[i].own[c] = v
    PROVE  Reads(s, new)
<1>1. Len(rows) \in Nat /\ Len(new) = Len(rows)
  BY DEF IsTable, IsList, Merged
<1>2. ASSUME NEW i \in 1 .. Len(rows), NEW d \in Columns, Fills(new[i], s, d)
      PROVE  new[i].own[d] # Blank /\ Leads(new, i, d, new[i].own[d])
  <2>1. Fills(rows[i], s, d) /\ new[i].own = rows[i].own
    BY <1>2 DEF Merged, Fills
  <2>2. rows[i].own[d] # Blank /\ Leads(rows, i, d, rows[i].own[d])
    BY <2>1 DEF Reads
  <2>3. CASE d # c \/ i < start
    <3>1. \A j \in 1 .. i : new[j].cells[d] = rows[j].cells[d]
      BY <1>1, <2>3 DEF Merged
    <3>2. PICK j \in 1 .. i : /\ rows[j].cells[d] = rows[i].own[d]
                             /\ \A k \in j + 1 .. i : rows[k].cells[d] = Blank
      BY <2>2 DEF Leads
    <3>3. /\ new[j].cells[d] = rows[i].own[d]
          /\ \A k \in j + 1 .. i : new[k].cells[d] = Blank
      BY <3>1, <3>2
    <3>. QED  BY <2>1, <2>2, <3>3 DEF Leads
  <2>4. CASE d = c /\ i \in start .. Len(rows)
    <3>1. rows[i].own[d] = v
      BY <2>1, <2>4
    <3>2. start \in 1 .. i /\ \A k \in start + 1 .. i : k \in start + 1 .. Len(rows)
      BY <1>1, <2>4
    <3>3. new[start].cells[c] = v /\ \A k \in start + 1 .. i : new[k].cells[c] = Blank
      BY <3>2 DEF Merged
    <3>. QED  BY <2>1, <2>2, <2>4, <3>1, <3>2, <3>3 DEF Leads
  <2>. QED  BY <1>1, <2>3, <2>4
<1>. QED  BY <1>1, <1>2 DEF Reads

\* new is rows with some columns merged: the same rows, that can be read.
Same(s, new, rows) ==
    /\ IsTable(new)
    /\ Reads(s, new)
    /\ Len(new) = Len(rows)
    /\ \A i \in 1 .. Len(rows) : new[i].own = rows[i].own /\ new[i].thing = rows[i].thing

LEMMA MergedSame ==
    ASSUME NEW s, NEW rows, NEW new, NEW c \in Columns, NEW start \in 1 .. Len(rows), NEW v,
           IsTable(rows), Reads(s, rows), Merged(new, rows, c, start, v),
           \A i \in start .. Len(rows) : Fills(rows[i], s, c) => rows[i].own[c] = v
    PROVE  Same(s, new, rows)
<1>1. Reads(s, new)
  BY MergeReads
<1>. QED  BY <1>1 DEF Same, Merged

LEMMA SameTogether ==
    ASSUME NEW s, NEW rows, NEW new, NEW g, Same(s, new, rows), Together(s, rows, g)
    PROVE  Together(s, new, g)
<1>1. Len(new) = Len(rows) /\ Len(rows) \in Nat
  <2>1. Len(new) \in Nat
    BY DEF Same, IsTable, IsList
  <2>. QED  BY <2>1 DEF Same
<1>2. /\ g.serverStart \in 1 .. Len(rows)
      /\ g.instanceStart \in 1 .. Len(rows)
      /\ g.groupStart \in 1 .. Len(rows)
  BY DEF Together
<1>3. \A i \in 1 .. Len(rows) : new[i].own = rows[i].own /\ new[i].thing = rows[i].thing
  BY DEF Same
<1>4. \A i \in g.serverStart .. Len(new) : new[i].own.server = g.server
  BY <1>1, <1>2, <1>3 DEF Together
<1>5. Levels(s) > 1 /\ ~(s = "instance" /\ g.mixed) =>
        \A i \in g.instanceStart .. Len(new) : new[i].own.instance = g.instance
  BY <1>1, <1>2, <1>3 DEF Together
<1>6. Levels(s) = 3 =>
        \A i \in g.groupStart .. Len(new) :
           Tracked(s, new[i].thing) # NoGroup => GroupName(Tracked(s, new[i].thing)) = g.group
  BY <1>1, <1>2, <1>3 DEF Together
<1>. QED  BY <1>1, <1>2, <1>4, <1>5, <1>6 DEF Together

LEMMA MergeGroupSame ==
    ASSUME NEW s, NEW rows, NEW g, IsTable(rows), Reads(s, rows), Together(s, rows, g)
    PROVE  Same(s, MergeGroup(s, rows, g), rows)
<1>1. CASE Levels(s) < 3
  BY <1>1 DEF MergeGroup, Same
<1>2. CASE ~(Levels(s) < 3)
  <2>1. Levels(s) = 3
    BY <1>2 DEF Levels
  <2>2. g.groupStart \in 1 .. Len(rows) /\ "group" \in Columns /\ Len(rows) \in Nat
    BY DEF Together, Columns, IsTable, IsList
  <2>3. \A i \in g.groupStart .. Len(rows) : Fills(rows[i], s, "group") => rows[i].own["group"] = g.group
    BY <2>1, <2>2, FilledCells DEF Together, IsTable
  <2>4. Merged(MergeCells(rows, "group", g.groupStart, g.group), rows, "group", g.groupStart, g.group)
    BY <2>2, MergeIsMerged
  <2>5. Same(s, MergeCells(rows, "group", g.groupStart, g.group), rows)
    BY <2>2, <2>3, <2>4, MergedSame
  <2>. QED  BY <1>2, <2>5 DEF MergeGroup
<1>. QED  BY <1>1, <1>2

LEMMA SameTwice ==
    ASSUME NEW s, NEW rows, NEW new, NEW newer, Same(s, new, rows), Same(s, newer, new)
    PROVE  Same(s, newer, rows)
  BY DEF Same

LEMMA MergeInstanceSame ==
    ASSUME NEW s, NEW rows, NEW g, IsTable(rows), Reads(s, rows), Together(s, rows, g)
    PROVE  Same(s, MergeInstance(s, rows, g), rows)
<1>1. CASE Levels(s) < 2 \/ (s = "instance" /\ g.mixed)
  BY <1>1 DEF MergeInstance, Same
<1>2. CASE ~(Levels(s) < 2 \/ (s = "instance" /\ g.mixed))
  <2>. DEFINE new == MergeGroup(s, rows, g)
  <2>1. Same(s, new, rows)
    BY MergeGroupSame
  <2>2. Together(s, new, g) /\ IsTable(new) /\ Reads(s, new)
    BY <2>1, SameTogether DEF Same
  <2>. HIDE DEF new
  <2>3. g.instanceStart \in 1 .. Len(new) /\ "instance" \in Columns /\ Levels(s) > 1
    BY <1>2, <2>2 DEF Together, Columns, Levels
  <2>4. \A i \in g.instanceStart .. Len(new) : new[i].own["instance"] = g.instance
    BY <1>2, <2>2, <2>3 DEF Together
  <2>5. Merged(MergeCells(new, "instance", g.instanceStart, g.instance), new, "instance",
               g.instanceStart, g.instance)
    BY <2>2, <2>3, MergeIsMerged
  <2>6. Same(s, MergeCells(new, "instance", g.instanceStart, g.instance), new)
    BY <2>2, <2>3, <2>4, <2>5, MergedSame
  <2>7. Same(s, MergeCells(new, "instance", g.instanceStart, g.instance), rows)
    BY <2>1, <2>6, SameTwice
  <2>. QED  BY <1>2, <2>7 DEF MergeInstance, new
<1>. QED  BY <1>1, <1>2

LEMMA MergeServerSame ==
    ASSUME NEW s, NEW rows, NEW g, IsTable(rows), Reads(s, rows), Together(s, rows, g)
    PROVE  Same(s, MergeServer(s, rows, g), rows)
<1>. DEFINE new == MergeInstance(s, rows, g)
<1>1. Same(s, new, rows)
  BY MergeInstanceSame
<1>2. Together(s, new, g) /\ IsTable(new) /\ Reads(s, new)
  BY <1>1, SameTogether DEF Same
<1>. HIDE DEF new
<1>3. g.serverStart \in 1 .. Len(new) /\ "server" \in Columns
  BY <1>2 DEF Together, Columns
<1>4. \A i \in g.serverStart .. Len(new) : new[i].own["server"] = g.server
  BY <1>2 DEF Together
<1>5. Merged(MergeCells(new, "server", g.serverStart, g.server), new, "server", g.serverStart, g.server)
  BY <1>2, <1>3, MergeIsMerged
<1>6. Same(s, MergeCells(new, "server", g.serverStart, g.server), new)
  BY <1>2, <1>3, <1>4, <1>5, MergedSame
<1>7. Same(s, MergeCells(new, "server", g.serverStart, g.server), rows)
  BY <1>1, <1>6, SameTwice
<1>. QED  BY <1>7 DEF MergeServer, new

-----------------------------------------------------------------------------
(* A new row. *)

LEMMA RowIsRow ==
    ASSUME NEW t \in Targets, NEW x, NEW marks, NEW r, r = Row(t, x, Own(t, x), marks)
    PROVE  IsRow(r) /\ r.own = Own(t, x) /\ r.thing = x /\ r.cells = [c \in Columns |-> r.own[c]]
  BY DEF Row, IsRow

\* longer is rows with one more row.
Longer(longer, rows, row) ==
    /\ IsTable(longer)
    /\ Len(longer) = Len(rows) + 1
    /\ \A i \in 1 .. Len(rows) : longer[i] = rows[i]
    /\ longer[Len(rows) + 1] = row

LEMMA AppendIsLonger ==
    ASSUME NEW rows, IsTable(rows), NEW row, IsRow(row)
    PROVE  Longer(Append(rows, row), rows, row)
<1>. DEFINE longer == Append(rows, row)
            S == Members(rows) \cup {row}
<1>1. rows \in Seq(Members(rows))
  BY DEF IsTable, IsList
<1>2. rows \in Seq(S) /\ row \in S
  <2>1. Members(rows) \subseteq S
    OBVIOUS
  <2>. HIDE DEF S
  <2>2. rows \in [1 .. Len(rows) -> Members(rows)] /\ Len(rows) \in Nat
    BY <1>1
  <2>3. rows \in [1 .. Len(rows) -> S]
    BY <2>1, <2>2
  <2>4. rows \in Seq(S)
    BY <2>2, <2>3, SeqDef
  <2>. QED  BY <2>4 DEF S
<1>. HIDE DEF S
<1>3. /\ longer \in Seq(S)
      /\ Len(longer) = Len(rows) + 1
      /\ Len(rows) \in Nat
      /\ \A i \in 1 .. Len(rows) : longer[i] = rows[i]
      /\ longer[Len(rows) + 1] = row
  BY <1>2
<1>. HIDE DEF longer
<1>4. IsList(longer)
  <2>1. longer \in [1 .. Len(longer) -> Members(longer)] /\ Len(longer) \in Nat
    BY <1>3 DEF Members
  <2>. QED  BY <2>1, SeqDef DEF IsList
<1>5. IsTable(longer)
  BY <1>3, <1>4 DEF IsTable
<1>6. Longer(longer, rows, row)
  BY <1>3, <1>5 DEF Longer
<1>. QED  BY <1>6 DEF longer

\* A row that comes with its cells filled can be read, and disturbs no other.
LEMMA LongerReads ==
    ASSUME NEW s, NEW rows, NEW longer, NEW row,
           IsTable(rows), Reads(s, rows), IsRow(row), row.cells = [c \in Columns |-> row.own[c]],
           Longer(longer, rows, row)
    PROVE  Reads(s, longer)
<1>1. Len(rows) \in Nat /\ Len(longer) = Len(rows) + 1
  BY DEF IsTable, IsList, Longer
<1>2. ASSUME NEW i \in 1 .. Len(rows), NEW c \in Columns, Fills(longer[i], s, c)
      PROVE  longer[i].own[c] # Blank /\ Leads(longer, i, c, longer[i].own[c])
  <2>1. longer[i] = rows[i]
    BY DEF Longer
  <2>2. rows[i].own[c] # Blank /\ Leads(rows, i, c, rows[i].own[c])
    BY <1>2, <2>1 DEF Reads
  <2>3. \A j \in 1 .. i : longer[j] = rows[j]
    BY <1>1 DEF Longer
  <2>4. PICK j \in 1 .. i : /\ rows[j].cells[c] = rows[i].own[c]
                           /\ \A k \in j + 1 .. i : rows[k].cells[c] = Blank
    BY <2>2 DEF Leads
  <2>5. longer[j].cells[c] = rows[i].own[c] /\ \A k \in j + 1 .. i : longer[k].cells[c] = Blank
    BY <2>3, <2>4
  <2>. QED  BY <2>1, <2>2, <2>5 DEF Leads
<1>3. ASSUME NEW c \in Columns, Fills(longer[Len(rows) + 1], s, c)
      PROVE  /\ longer[Len(rows) + 1].own[c] # Blank
             /\ Leads(longer, Len(rows) + 1, c, longer[Len(rows) + 1].own[c])
  <2>. DEFINE n == Len(rows) + 1
  <2>1. longer[n] = row /\ n \in 1 .. n
    BY <1>1 DEF Longer
  <2>2. row.own[c] # Blank /\ row.cells[c] = row.own[c]
    BY <1>3, <2>1, FilledCells
  <2>3. longer[n].cells[c] = row.own[c] /\ \A k \in n + 1 .. n : longer[k].cells[c] = Blank
    BY <1>1, <2>1, <2>2
  <2>. HIDE DEF n
  <2>4. Leads(longer, n, c, longer[n].own[c])
    BY <2>1, <2>3 DEF Leads
  <2>. QED  BY <2>1, <2>2, <2>4 DEF n
<1>4. \A i \in 1 .. Len(longer) : i \in 1 .. Len(rows) \/ i = Len(rows) + 1
  BY <1>1
<1>. QED  BY <1>2, <1>3, <1>4 DEF Reads

\* The rows from the start of each level on, and the new one, have the value
\* that the group's record holds for it.
Joins(s, rows, row, g) ==
    /\ g.serverStart \in 1 .. Len(rows) + 1
    /\ g.instanceStart \in 1 .. Len(rows) + 1
    /\ g.groupStart \in 1 .. Len(rows) + 1
    /\ \A i \in g.serverStart .. Len(rows) : rows[i].own.server = g.server
    /\ row.own.server = g.server
    /\ Levels(s) > 1 /\ ~(s = "instance" /\ g.mixed) =>
         /\ \A i \in g.instanceStart .. Len(rows) : rows[i].own.instance = g.instance
         /\ row.own.instance = g.instance
    /\ Levels(s) = 3 =>
         /\ \A i \in g.groupStart .. Len(rows) :
               Tracked(s, rows[i].thing) # NoGroup =>
                  GroupName(Tracked(s, rows[i].thing)) = g.group
         /\ Tracked(s, row.thing) # NoGroup => GroupName(Tracked(s, row.thing)) = g.group

LEMMA LongerTogether ==
    ASSUME NEW s, NEW rows, NEW longer, NEW row, NEW g,
           IsTable(rows), Longer(longer, rows, row), Joins(s, rows, row, g)
    PROVE  Together(s, longer, g)
<1>. USE DEF Joins
<1>1. Len(rows) \in Nat /\ Len(longer) = Len(rows) + 1
  BY DEF IsTable, IsList, Longer
<1>2. /\ \A i \in 1 .. Len(rows) : longer[i] = rows[i]
      /\ longer[Len(rows) + 1] = row
  BY DEF Longer
<1>3. \A i \in g.serverStart .. Len(longer) : longer[i].own.server = g.server
  <2>1. ASSUME NEW i \in g.serverStart .. Len(longer) PROVE longer[i].own.server = g.server
    <3>1. CASE i = Len(rows) + 1
      BY <3>1, <1>2
    <3>2. CASE i # Len(rows) + 1
      <4>1. i \in g.serverStart .. Len(rows) /\ i \in 1 .. Len(rows)
        BY <1>1, <3>2
      <4>. QED  BY <1>2, <4>1
    <3>. QED  BY <3>1, <3>2
  <2>. QED  BY <2>1
<1>4. ASSUME Levels(s) > 1, ~(s = "instance" /\ g.mixed),
             NEW i \in g.instanceStart .. Len(longer)
      PROVE  longer[i].own.instance = g.instance
  <2>1. CASE i = Len(rows) + 1
    BY <1>4, <2>1, <1>2
  <2>2. CASE i # Len(rows) + 1
    <3>1. i \in g.instanceStart .. Len(rows) /\ i \in 1 .. Len(rows)
      BY <1>1, <2>2
    <3>. QED  BY <1>2, <1>4, <3>1
  <2>. QED  BY <2>1, <2>2
<1>5. ASSUME Levels(s) = 3, NEW i \in g.groupStart .. Len(longer),
             Tracked(s, longer[i].thing) # NoGroup
      PROVE  GroupName(Tracked(s, longer[i].thing)) = g.group
  <2>1. CASE i = Len(rows) + 1
    BY <1>5, <2>1, <1>2
  <2>2. CASE i # Len(rows) + 1
    <3>1. i \in g.groupStart .. Len(rows) /\ i \in 1 .. Len(rows)
      BY <1>1, <2>2
    <3>. QED  BY <1>2, <1>5, <3>1
  <2>. QED  BY <2>1, <2>2
<1>6. /\ g.serverStart \in 1 .. Len(longer)
      /\ g.instanceStart \in 1 .. Len(longer)
      /\ g.groupStart \in 1 .. Len(longer)
  BY <1>1
<1>. QED  BY <1>3, <1>4, <1>5, <1>6 DEF Together

LEMMA GroupShapes ==
    ASSUME NEW s, NEW own, NEW tracked, IsGroup(groups[s])
    PROVE  /\ IsGroup(NewServer(s, own, tracked))
           /\ IsGroup(NewInstance(s, own, tracked))
           /\ IsGroup(NewGroup(s, tracked))
<1>1. IsGroup(NewServer(s, own, tracked))
  <2>. DEFINE next == Len(sheets[s]) + 1
              name == GroupName(tracked)
  <2>1. NewServer(s, own, tracked) =
          [server |-> own.server, instance |-> own.instance, group |-> name,
           serverStart |-> next, instanceStart |-> next, groupStart |-> next, mixed |-> FALSE]
    BY DEF NewServer
  <2>. HIDE DEF next, name
  <2>. QED  BY <2>1 DEF IsGroup
<1>2. ASSUME NEW g, IsGroup(g), NEW name, NEW next, NEW instance, NEW mixed
      PROVE  /\ IsGroup([g EXCEPT !.mixed = mixed])
             /\ IsGroup([g EXCEPT !.group = name, !.groupStart = next])
             /\ IsGroup([g EXCEPT !.instance = instance, !.group = name,
                                  !.instanceStart = next, !.groupStart = next])
  <2>. DEFINE G == [server : {g.server}, instance : {g.instance, instance}, group : {g.group, name},
                    serverStart : {g.serverStart}, instanceStart : {g.instanceStart, next},
                    groupStart : {g.groupStart, next}, mixed : {g.mixed, mixed}]
  <2>1. g \in G
    BY <1>2 DEF IsGroup
  <2>2. /\ [g EXCEPT !.mixed = mixed] \in G
        /\ [g EXCEPT !.group = name, !.groupStart = next] \in G
        /\ [g EXCEPT !.instance = instance, !.group = name,
                     !.instanceStart = next, !.groupStart = next] \in G
    BY <2>1
  <2>3. \A h \in G : IsGroup(h)
    BY DEF IsGroup
  <2>. HIDE DEF G
  <2>. QED  BY <2>2, <2>3
<1>3. IsGroup(NewGroup(s, tracked))
  BY <1>2 DEF NewGroup
<1>4. IsGroup(NewInstance(s, own, tracked))
  BY <1>2 DEF NewInstance
<1>. QED  BY <1>1, <1>3, <1>4

\* What the next row finds on its sheet, whichever groups it ends.
LEMMA RowKeeps ==
    ASSUME NEW s \in Sheets, SheetInv(s), ~saved, NEW t \in Targets, NEW x,
           NEW row, row = Row(t, x, Own(t, x), Marks(s, x)),
           NEW merged, NEW g,
           Same(s, merged, sheets[s]),
           \/ /\ row.own.server # groups[s].server
              /\ g = NewServer(s, row.own, Tracked(s, x))
           \/ /\ row.own.server = groups[s].server
              /\ row.own.instance # groups[s].instance
              /\ Levels(s) > 1
              /\ g = NewInstance(s, row.own, Tracked(s, x))
           \/ /\ row.own.server = groups[s].server
              /\ row.own.instance = groups[s].instance
              /\ Tracked(s, x) # NoGroup
              /\ g = NewGroup(s, Tracked(s, x))
           \/ /\ row.own.server = groups[s].server
              /\ row.own.instance # groups[s].instance => Levels(s) < 2
              /\ Tracked(s, x) # NoGroup /\ row.own.instance = groups[s].instance =>
                   GroupName(Tracked(s, x)) = groups[s].group
              /\ g = groups[s]
    PROVE  /\ IsTable(Append(merged, row))
           /\ Reads(s, Append(merged, row))
           /\ Open(s, Append(merged, row), g)
<1>. DEFINE old == groups[s]
            rows == sheets[s]
            longer == Append(merged, row)
            n == Len(merged)
<1>1. /\ IsRow(row)
      /\ row.own = Own(t, x)
      /\ row.thing = x
      /\ row.cells = [c \in Columns |-> row.own[c]]
      /\ row.own.server # Blank
  BY RowIsRow, PlacesFilled
<1>2. /\ IsTable(merged) /\ Reads(s, merged) /\ n = Len(rows) /\ n \in Nat
      /\ Open(s, rows, old)
  BY DEF Same, IsTable, IsList, SheetInv
<1>3. Longer(longer, merged, row)
  BY <1>1, <1>2, AppendIsLonger
<1>4. Reads(s, longer) /\ IsTable(longer) /\ Len(longer) = n + 1
  BY <1>1, <1>2, <1>3, LongerReads DEF Longer
<1>5. old.server = row.own.server => Together(s, merged, old)
  BY <1>1, <1>2, SameTogether DEF Open
<1>6. IsGroup(g)
  BY <1>2, GroupShapes DEF Open
<1>. HIDE DEF longer, n
<1>7. Together(s, longer, g)
  <2>1. CASE g = NewServer(s, row.own, Tracked(s, x))
    <3>1. /\ g.server = row.own.server
          /\ g.instance = row.own.instance
          /\ g.group = GroupName(Tracked(s, row.thing))
          /\ g.serverStart = n + 1 /\ g.instanceStart = n + 1 /\ g.groupStart = n + 1
      BY <1>1, <1>2, <2>1 DEF NewServer
    <3>2. \A i \in n + 1 .. n : FALSE
      BY <1>2
    <3>j. Joins(s, merged, row, g)
      BY <1>2, <1>3, <3>1, <3>2 DEF Joins, n
    <3>. QED  BY <3>j, <1>2, <1>3, LongerTogether
  <2>2. CASE /\ row.own.server = old.server
             /\ row.own.instance # old.instance
             /\ Levels(s) > 1
             /\ g = NewInstance(s, row.own, Tracked(s, x))
    <3>1. Together(s, merged, old)
      BY <1>5, <2>2
    <3>2. CASE s = "instance"
      <4>1. /\ g.mixed /\ g.server = old.server
            /\ g.serverStart = old.serverStart
            /\ g.instanceStart = old.instanceStart
            /\ g.groupStart = old.groupStart
        BY <1>2, <2>2, <3>2 DEF NewInstance, Open, IsGroup
      <4>2. Levels(s) = 2
        BY <3>2 DEF Levels
      <4>j. Joins(s, merged, row, g)
        BY <1>2, <1>3, <2>2, <3>1, <3>2, <4>1, <4>2 DEF Joins, Together, n
      <4>. QED  BY <4>j, <1>2, <1>3, LongerTogether
    <3>3. CASE s # "instance"
      <4>1. /\ g.server = old.server
            /\ g.instance = row.own.instance
            /\ g.group = GroupName(Tracked(s, row.thing))
            /\ g.serverStart = old.serverStart
            /\ g.instanceStart = n + 1 /\ g.groupStart = n + 1
        BY <1>1, <1>2, <2>2, <3>3 DEF NewInstance, Open, IsGroup
      <4>2. \A i \in n + 1 .. n : FALSE
        BY <1>2
      <4>j. Joins(s, merged, row, g)
        BY <1>2, <1>3, <2>2, <3>1, <4>1, <4>2 DEF Joins, Together, n
      <4>. QED  BY <4>j, <1>2, <1>3, LongerTogether
    <3>. QED  BY <3>2, <3>3
  <2>3. CASE /\ row.own.server = old.server
             /\ row.own.instance = old.instance
             /\ Tracked(s, x) # NoGroup
             /\ g = NewGroup(s, Tracked(s, x))
    <3>1. Together(s, merged, old)
      BY <1>5, <2>3
    <3>2. /\ g.server = old.server
          /\ g.instance = old.instance
          /\ g.mixed = old.mixed
          /\ g.group = GroupName(Tracked(s, row.thing))
          /\ g.serverStart = old.serverStart
          /\ g.instanceStart = old.instanceStart
          /\ g.groupStart = n + 1
      BY <1>1, <1>2, <2>3 DEF NewGroup, Open, IsGroup
    <3>3. \A i \in n + 1 .. n : FALSE
      BY <1>2
    <3>j. Joins(s, merged, row, g)
      BY <1>2, <1>3, <2>3, <3>1, <3>2, <3>3 DEF Joins, Together, n
    <3>. QED  BY <3>j, <1>2, <1>3, LongerTogether
  <2>4. CASE /\ row.own.server = old.server
             /\ row.own.instance # old.instance => Levels(s) < 2
             /\ Tracked(s, x) # NoGroup /\ row.own.instance = old.instance =>
                  GroupName(Tracked(s, x)) = old.group
             /\ g = old
    <3>1. Together(s, merged, old)
      BY <1>5, <2>4
    <3>2. Levels(s) > 1 => row.own.instance = g.instance
      BY <2>4 DEF Levels
    <3>j. Joins(s, merged, row, g)
      BY <1>1, <1>2, <1>3, <2>4, <3>1, <3>2 DEF Joins, Together, n, Levels
    <3>. QED  BY <3>j, <1>2, <1>3, LongerTogether
  <2>. QED  BY <2>1, <2>2, <2>3, <2>4
<1>8. Open(s, longer, g)
  BY <1>2, <1>4, <1>6, <1>7 DEF Open
<1>. QED  BY <1>4, <1>8 DEF longer

\* The things whose rows a sheet may have after one call of the writer.
Grown(s, x) ==
    /\ \A q \in Sheets \ {s} : sheets'[q] = sheets[q]
    /\ \A i \in 1 .. Len(sheets'[s]) :
         \/ i \in 1 .. Len(sheets[s]) /\ sheets'[s][i].thing = sheets[s][i].thing
         \/ sheets'[s][i].thing = x

\* A call of the writer leaves every sheet as the invariant describes it.
LEMMA AddRowKeeps ==
    ASSUME IInv, ~saved, saved' = saved, NEW s \in Sheets, NEW t \in Targets, NEW x,
           AddRow(s, Row(t, x, Own(t, x), Marks(s, x)), Tracked(s, x))
    PROVE  /\ sheets' = [q \in Sheets |-> sheets'[q]]
           /\ groups' = [q \in Sheets |-> groups'[q]]
           /\ \A q \in Sheets : SheetInv(q)'
           /\ Grown(s, x)
<1>. DEFINE row == Row(t, x, Own(t, x), Marks(s, x))
            rows == sheets[s]
            old == groups[s]
            tracked == Tracked(s, x)
<1>1. SheetInv(s) /\ IsTable(rows) /\ Reads(s, rows) /\ Open(s, rows, old)
  BY DEF IInv, SheetInv
<1>2. row.own.server # Blank
  <2>1. row.own = Own(t, x)
    BY DEF Row
  <2>. QED  BY <2>1, PlacesFilled
<1>3. Same(s, rows, rows)
  BY <1>1 DEF Same
<1>4. old.server # Blank => Together(s, rows, old)
  BY <1>1 DEF Open
<1>5. ASSUME NEW merged, NEW g, Put(s, merged, row, g), Same(s, merged, rows),
             IsTable(Append(merged, row)), Reads(s, Append(merged, row)),
             Open(s, Append(merged, row), g)
      PROVE  /\ sheets' = [q \in Sheets |-> sheets'[q]]
             /\ groups' = [q \in Sheets |-> groups'[q]]
             /\ \A q \in Sheets : SheetInv(q)'
             /\ Grown(s, x)
  <2>. DEFINE longer == Append(merged, row)
  <2>. HIDE DEF longer
  <2>1. /\ sheets' = [sheets EXCEPT ![s] = longer]
        /\ groups' = [groups EXCEPT ![s] = g]
    BY <1>5 DEF Put, longer
  <2>2. IsTable(longer) /\ Reads(s, longer) /\ Open(s, longer, g)
    BY <1>5 DEF longer
  <2>3. /\ sheets'[s] = longer /\ groups'[s] = g
        /\ \A q \in Sheets \ {s} : sheets'[q] = sheets[q] /\ groups'[q] = groups[q]
        /\ sheets' = [q \in Sheets |-> sheets'[q]] /\ groups' = [q \in Sheets |-> groups'[q]]
    BY <2>1 DEF IInv
  <2>4. SheetInv(s)'
    BY <2>2, <2>3 DEF SheetInv
  <2>5. ASSUME NEW q \in Sheets \ {s} PROVE SheetInv(q)'
    BY <2>3, <2>5 DEF SheetInv, IInv
  <2>6. Grown(s, x)
    <3>1. Longer(longer, merged, row) /\ row.thing = x
      <4>1. IsRow(row) /\ row.thing = x
        BY DEF IsRow, Row
      <4>. QED  BY <4>1, <1>5, AppendIsLonger DEF Same, longer
    <3>2. ASSUME NEW i \in 1 .. Len(longer)
          PROVE  \/ i \in 1 .. Len(rows) /\ longer[i].thing = rows[i].thing
                 \/ longer[i].thing = x
      <4>1. Len(longer) = Len(rows) + 1 /\ Len(rows) \in Nat /\ Len(merged) = Len(rows)
        BY <1>1, <1>5, <3>1 DEF Longer, Same, IsTable, IsList
      <4>. QED  BY <1>5, <3>1, <4>1 DEF Longer, Same
    <3>. QED  BY <2>3, <3>2 DEF Grown
  <2>. QED  BY <2>3, <2>4, <2>5, <2>6
<1>. HIDE DEF row, rows, old, tracked
<1>6. CASE row.own.server # old.server
  <2>. DEFINE merged == IF old.server = Blank THEN rows ELSE MergeServer(s, rows, old)
              g == NewServer(s, row.own, tracked)
  <2>1. Put(s, merged, row, g)
    BY <1>6 DEF AddRow, row, rows, old, tracked
  <2>2. Same(s, merged, rows)
    BY <1>1, <1>3, <1>4, MergeServerSame
  <2>. HIDE DEF merged
  <2>3. /\ IsTable(Append(merged, row)) /\ Reads(s, Append(merged, row))
        /\ Open(s, Append(merged, row), g)
    BY <1>1, <1>6, <2>2, RowKeeps DEF row, rows, old, tracked
  <2>. QED  BY <1>5, <2>1, <2>2, <2>3
<1>7. CASE row.own.server = old.server /\ row.own.instance # old.instance /\ Levels(s) > 1
  <2>. DEFINE merged == IF s = "instance" THEN rows ELSE MergeInstance(s, rows, old)
              g == NewInstance(s, row.own, tracked)
  <2>1. Put(s, merged, row, g)
    BY <1>7 DEF AddRow, row, rows, old, tracked
  <2>2. Same(s, merged, rows)
    BY <1>1, <1>2, <1>3, <1>4, <1>7, MergeInstanceSame
  <2>. HIDE DEF merged
  <2>3. /\ IsTable(Append(merged, row)) /\ Reads(s, Append(merged, row))
        /\ Open(s, Append(merged, row), g)
    BY <1>1, <1>7, <2>2, RowKeeps DEF row, rows, old, tracked
  <2>. QED  BY <1>5, <2>1, <2>2, <2>3
<1>8. CASE /\ row.own.server = old.server /\ row.own.instance = old.instance
           /\ tracked # NoGroup /\ GroupName(tracked) # old.group
  <2>. DEFINE merged == MergeGroup(s, rows, old)
              g == NewGroup(s, tracked)
  <2>1. Put(s, merged, row, g)
    BY <1>8 DEF AddRow, row, rows, old, tracked
  <2>2. Same(s, merged, rows)
    BY <1>1, <1>2, <1>4, <1>8, MergeGroupSame
  <2>. HIDE DEF merged
  <2>3. /\ IsTable(Append(merged, row)) /\ Reads(s, Append(merged, row))
        /\ Open(s, Append(merged, row), g)
    BY <1>1, <1>8, <2>2, RowKeeps DEF row, rows, old, tracked
  <2>. QED  BY <1>5, <2>1, <2>2, <2>3
<1>9. CASE /\ row.own.server = old.server
           /\ row.own.instance # old.instance => Levels(s) < 2
           /\ tracked # NoGroup /\ row.own.instance = old.instance => GroupName(tracked) = old.group
  <2>1. Put(s, rows, row, old)
    BY <1>9 DEF AddRow, row, rows, old, tracked, Levels
  <2>2. /\ IsTable(Append(rows, row)) /\ Reads(s, Append(rows, row))
        /\ Open(s, Append(rows, row), old)
    BY <1>1, <1>3, <1>9, RowKeeps DEF row, rows, old, tracked
  <2>. QED  BY <1>3, <1>5, <2>1, <2>2
<1>10. Levels(s) < 2 \/ Levels(s) > 1
  BY DEF Levels
<1>. QED  BY <1>6, <1>7, <1>8, <1>9, <1>10

\* There is no other sheet.
LEMMA AddNowhere ==
    ASSUME IInv, NEW s, s \notin Sheets, NEW row, NEW tracked, AddRow(s, row, tracked)
    PROVE  sheets' = sheets /\ groups' = groups
<1>1. ASSUME NEW f, f = [q \in Sheets |-> f[q]], NEW v
      PROVE  [f EXCEPT ![s] = v] = f
  BY <1>1
<1>2. ASSUME NEW v, NEW g
      PROVE  [sheets EXCEPT ![s] = v] = sheets /\ [groups EXCEPT ![s] = g] = groups
  BY <1>1 DEF IInv
<1>3. \A merged, r, g : Put(s, merged, r, g) => sheets' = sheets /\ groups' = groups
  BY <1>2 DEF Put
<1>. QED  BY <1>3 DEF AddRow

-----------------------------------------------------------------------------
(* The steps. *)

LEMMA EmptySheet ==
    ASSUME NEW s
    PROVE  IsTable(<<>>) /\ Reads(s, <<>>) /\ Open(s, <<>>, NoRows)
<1>1. <<>> \in Seq(Members(<<>>)) /\ Len(<<>>) = 0
  OBVIOUS
<1>2. IsGroup(NoRows) /\ NoRows.server = Blank
  BY DEF IsGroup, NoRows
<1>. QED  BY <1>1, <1>2 DEF IsTable, IsList, Reads, Open

LEMMA Initially == Init => IInv
  BY EmptySheet DEF Init, IInv, SheetInv

LEMMA OtherStepsKeep ==
    ASSUME IInv, UNCHANGED <<sheets, groups, saved>>,
           (\E t \in Targets : todo[t] # <<>>) \/ UNCHANGED todo
    PROVE  IInv'
  BY DEF IInv, SheetInv

LEMMA WriteRowKeeps ==
    ASSUME IInv, NEW t \in Targets, WriteRow(t)
    PROVE  IInv'
<1>. DEFINE x == Head(todo[t])
            s == RowsOf(x)[at[t] + 1]
<1>1. ~saved /\ saved' = saved
  BY DEF WriteRow, IInv
<1>2. AddRow(s, Row(t, x, Own(t, x), Marks(s, x)), Tracked(s, x))
  BY DEF WriteRow
<1>. HIDE DEF x, s
<1>3. CASE s \in Sheets
  BY <1>1, <1>2, <1>3, AddRowKeeps DEF IInv
<1>4. CASE s \notin Sheets
  <2>1. sheets' = sheets /\ groups' = groups
    BY <1>2, <1>4, AddNowhere DEF IInv
  <2>. QED  BY <1>1, <2>1, OtherStepsKeep DEF WriteRow
<1>. QED  BY <1>3, <1>4

LEMMA SaveWorkbookKeeps ==
    ASSUME IInv, SaveWorkbook
    PROVE  IInv'
<1>1. ASSUME NEW s \in Sheets
      PROVE  IsTable(sheets'[s]) /\ Reads(s, sheets'[s])
  <2>1. IsTable(sheets[s]) /\ Reads(s, sheets[s]) /\ Open(s, sheets[s], groups[s])
    BY DEF IInv, SheetInv, SaveWorkbook
  <2>2. CASE s = "key" \/ groups[s].server = Blank
    BY <2>1, <2>2 DEF SaveWorkbook
  <2>3. CASE ~(s = "key" \/ groups[s].server = Blank)
    <3>1. Together(s, sheets[s], groups[s])
      BY <2>1, <2>3 DEF Open
    <3>2. Same(s, MergeServer(s, sheets[s], groups[s]), sheets[s])
      BY <2>1, <3>1, MergeServerSame
    <3>. QED  BY <2>3, <3>2 DEF SaveWorkbook, Same
  <2>. QED  BY <2>2, <2>3
<1>2. sheets' = [q \in Sheets |-> sheets'[q]] /\ groups' = groups /\ saved' /\ todo' = todo
  BY DEF SaveWorkbook
<1>. QED  BY <1>1, <1>2 DEF IInv, SheetInv, SaveWorkbook

LEMMA StepKeeps == IInv /\ [Next]_vars => IInv'
<1>. SUFFICES ASSUME IInv, [Next]_vars PROVE IInv'
  OBVIOUS
<1>1. ASSUME NEW t \in Targets, WriteRow(t)
      PROVE  IInv'
  BY <1>1, WriteRowKeeps
<1>2. ASSUME NEW t \in Targets,
             SkipNoOrphans(t) \/ SaveFinding(t) \/ LoseFinding(t) \/ CollectorFails(t)
      PROVE  IInv'
  BY <1>2, OtherStepsKeep DEF SkipNoOrphans, SaveFinding, LoseFinding, CollectorFails
<1>3. CASE UNCHANGED vars
  BY <1>3, OtherStepsKeep DEF vars
<1>. QED  BY <1>1, <1>2, <1>3, SaveWorkbookKeeps DEF Next

-----------------------------------------------------------------------------
(* The theorems. *)

\* What the reader finds upwards of a cell is what the column leads to.
LEMMA LedToIsRead ==
    ASSUME NEW s \in Sheets, IsTable(sheets[s]), NEW i \in 1 .. Len(sheets[s]), NEW c \in Columns,
           NEW v, v # Blank, Leads(sheets[s], i, c, v)
    PROVE  ReadCell(s, i, c) = v
<1>. DEFINE Filled == {j \in 1 .. i : sheets[s][j].cells[c] # Blank}
            last == CHOOSE j \in Filled : \A k \in Filled : k <= j
<1>1. PICK j \in 1 .. i : /\ sheets[s][j].cells[c] = v
                         /\ \A k \in j + 1 .. i : sheets[s][k].cells[c] = Blank
  BY DEF Leads
<1>2. i \in Nat /\ \A k \in 1 .. i : k > j => k \in j + 1 .. i
  BY DEF IsTable, IsList
<1>3. j \in Filled /\ \A k \in Filled : k \in Nat /\ k <= j
  BY <1>1, <1>2
<1>. HIDE DEF Filled
<1>4. last \in Filled /\ \A k \in Filled : k <= last
  BY <1>3
<1>. HIDE DEF last
<1>5. last = j
  BY <1>2, <1>3, <1>4
<1>. QED  BY <1>1, <1>3, <1>5 DEF ReadCell, Filled, last

\* The inductive invariant: what is left of every column of every sheet, and
\* what the rows of the open groups have in common.
THEOREM Invariance == Spec => []IInv
  BY Initially, StepKeeps, PTL DEF Spec

\* However the targets' rows interleave and wherever their groups end, merged
\* cells lead the reader back to what the row itself was written with.
THEOREM KeyCellsAreRead == Spec => []KeyCellsReadBack
<1>1. IInv => KeyCellsReadBack
  <2>. SUFFICES ASSUME IInv, NEW s \in Sheets, NEW i \in DOMAIN sheets[s], NEW c \in Columns,
                       Fills(sheets[s][i], s, c)
                PROVE  ReadCell(s, i, c) = sheets[s][i].own[c]
    BY DEF KeyCellsReadBack
  <2>1. IsTable(sheets[s]) /\ Reads(s, sheets[s])
    BY DEF IInv, SheetInv
  <2>2. i \in 1 .. Len(sheets[s])
    BY <2>1 DEF IsTable, IsList
  <2>. QED  BY <2>1, <2>2, LedToIsRead DEF Reads
<1>. QED  BY <1>1, Invariance, PTL

-----------------------------------------------------------------------------
(* Rows and findings.                                                      *)
(*                                                                         *)
(* The key that is read is the key of the finding as long as nothing that  *)
(* is collected goes by an empty name, or by the one that stands for no    *)
(* group: an empty cell would be taken for a merged one.                   *)

Grouped == {"config", "service", "linked", "backup", "database", "auditSetting", "dbUser",
            "permission"}

Proper(x) == x.kind \in Grouped => x.group \notin {NoGroup, Blank}

NamesAreProper == \A t \in Targets : todo[t] # <<>> => Proper(Head(todo[t]))

\* The rows of a sheet are of its kind.
Fits(s, x) == s = x.kind \/ (s = "orphan" /\ x.kind \in {"noOrphans", "dbUser"})

PlacedInv ==
    /\ at \in [Targets -> Nat]
    /\ \A s \in Sheets : \A i \in 1 .. Len(sheets[s]) :
          Fits(s, sheets[s][i].thing) /\ Proper(sheets[s][i].thing)

LEMMA SheetsFit ==
    ASSUME NEW x, NEW n \in 1 .. Len(RowsOf(x))
    PROVE  Fits(RowsOf(x)[n], x)
  BY DEF RowsOf, Fits

LEMMA AdvanceTyped ==
    ASSUME NEW t \in Targets, NEW n \in Nat, at \in [Targets -> Nat], Advance(t, n)
    PROVE  at' \in [Targets -> Nat]
<1>1. \E m \in {0, n} : at' = [at EXCEPT ![t] = m]
  BY DEF Advance
<1>2. PICK m \in Nat : at' = [at EXCEPT ![t] = m]
  BY <1>1
<1>. QED  BY <1>2

LEMMA PlacedInitially == Init => PlacedInv
  BY DEF Init, PlacedInv

LEMMA WriteRowPlaces ==
    ASSUME IInv, PlacedInv, NamesAreProper, NEW t \in Targets, WriteRow(t)
    PROVE  PlacedInv'
<1>. DEFINE x == Head(todo[t])
            n == at[t] + 1
            s == RowsOf(x)[n]
<1>1. /\ ~saved /\ saved' = saved
      /\ n \in 1 .. Len(RowsOf(x))
      /\ n \in Nat
      /\ Advance(t, n)
      /\ Proper(x)
      /\ AddRow(s, Row(t, x, Own(t, x), Marks(s, x)), Tracked(s, x))
  <2>1. at[t] \in Nat
    BY DEF PlacedInv
  <2>2. Len(RowsOf(x)) \in Nat
    BY DEF RowsOf
  <2>. QED  BY <2>1, <2>2 DEF WriteRow, IInv, NamesAreProper
<1>2. at' \in [Targets -> Nat]
  BY <1>1, AdvanceTyped DEF PlacedInv
<1>3. Fits(s, x)
  BY <1>1, SheetsFit
<1>. HIDE DEF x, n, s
<1>4. CASE s \in Sheets
  <2>1. Grown(s, x)
    BY <1>1, <1>4, AddRowKeeps
  <2>. QED  BY <1>1, <1>2, <1>3, <1>4, <2>1 DEF PlacedInv, Grown
<1>5. CASE s \notin Sheets
  <2>1. sheets' = sheets
    BY <1>1, <1>5, AddNowhere DEF IInv
  <2>. QED  BY <1>2, <2>1 DEF PlacedInv
<1>. QED  BY <1>4, <1>5

LEMMA SaveWorkbookPlaces ==
    ASSUME IInv, PlacedInv, SaveWorkbook
    PROVE  PlacedInv'
<1>1. ASSUME NEW s \in Sheets
      PROVE  /\ Len(sheets'[s]) = Len(sheets[s])
             /\ \A i \in 1 .. Len(sheets[s]) : sheets'[s][i].thing = sheets[s][i].thing
  <2>1. IsTable(sheets[s]) /\ Reads(s, sheets[s]) /\ Open(s, sheets[s], groups[s])
    BY DEF IInv, SheetInv, SaveWorkbook
  <2>2. CASE s = "key" \/ groups[s].server = Blank
    BY <2>2 DEF SaveWorkbook
  <2>3. CASE ~(s = "key" \/ groups[s].server = Blank)
    <3>1. Together(s, sheets[s], groups[s])
      BY <2>1, <2>3 DEF Open
    <3>2. Same(s, MergeServer(s, sheets[s], groups[s]), sheets[s])
      BY <2>1, <3>1, MergeServerSame
    <3>. QED  BY <2>3, <3>2 DEF SaveWorkbook, Same
  <2>. QED  BY <2>2, <2>3
<1>2. at' = at
  BY DEF SaveWorkbook
<1>. QED  BY <1>1, <1>2 DEF PlacedInv

LEMMA StepPlaces == IInv /\ PlacedInv /\ NamesAreProper /\ [Next]_vars => PlacedInv'
<1>. SUFFICES ASSUME IInv, PlacedInv, NamesAreProper, [Next]_vars PROVE PlacedInv'
  OBVIOUS
<1>1. ASSUME NEW t \in Targets, WriteRow(t)
      PROVE  PlacedInv'
  BY <1>1, WriteRowPlaces
<1>2. ASSUME NEW t \in Targets, SaveFinding(t) \/ LoseFinding(t)
      PROVE  PlacedInv'
  <2>1. Advance(t, at[t] + 1) /\ at[t] + 1 \in Nat /\ sheets' = sheets
    BY <1>2 DEF SaveFinding, LoseFinding, PlacedInv
  <2>2. at' \in [Targets -> Nat]
    BY <2>1, AdvanceTyped DEF PlacedInv
  <2>. QED  BY <2>1, <2>2 DEF PlacedInv
<1>3. CASE UNCHANGED <<sheets, at>>
  BY <1>3 DEF PlacedInv
<1>. QED
  BY <1>1, <1>2, <1>3, SaveWorkbookPlaces
  DEF Next, vars, SkipNoOrphans, CollectorFails

\* The cells of a row that is read as it was written.
LEMMA KeyOfRow ==
    ASSUME IInv, PlacedInv, NEW s \in Sheets, NEW i \in 1 .. Len(sheets[s]), Meets(sheets[s][i])
    PROVE  ReadKey(s, i) = FindingKey(sheets[s][i].by, sheets[s][i].thing)
<1>. DEFINE row == sheets[s][i]
            t == row.by
            x == row.thing
            place == <<ServerOf[t], Shown(InstanceOf[t])>>
<1>1. /\ IsTable(sheets[s]) /\ Reads(s, sheets[s])
      /\ IsRow(row) /\ t \in Targets /\ row.own = Own(t, x)
  BY DEF IInv, SheetInv, IsTable, IsRow
<1>2. Fits(s, x) /\ Proper(x)
  BY DEF PlacedInv
<1>3. \A c \in Columns : Fills(row, s, c) => ReadCell(s, i, c) = row.own[c]
  <2>1. ASSUME NEW c \in Columns, Fills(row, s, c)
        PROVE  ReadCell(s, i, c) = row.own[c]
    <3>1. row.own[c] # Blank /\ Leads(sheets[s], i, c, row.own[c])
      BY <1>1, <2>1 DEF Reads
    <3>. QED  BY <1>1, <3>1, LedToIsRead
  <2>. QED  BY <2>1
<1>. HIDE DEF row, t, x
<1>4. /\ ReadCell(s, i, "server") = ServerOf[t]
      /\ ReadCell(s, i, "instance") = Own(t, x).instance
      /\ x.kind \in Grouped => ReadCell(s, i, "group") = x.group
      /\ x.entity # Blank => ReadCell(s, i, "entity") = x.entity
  <2>1. /\ "server" \in Columns /\ "instance" \in Columns /\ "group" \in Columns
        /\ "entity" \in Columns
    BY DEF Columns
  <2>2. /\ Own(t, x).server = ServerOf[t] /\ Own(t, x).group = x.group
        /\ Own(t, x).entity = x.entity
    BY DEF Own
  <2>3. x.kind \in Grouped => Fills(row, s, "group")
    BY <1>2 DEF Proper, Fits, Grouped, Fills, Tracked, Levels, x
  <2>. QED  BY <1>1, <1>3, <2>1, <2>2, <2>3 DEF Fills
<1>5. Meets(row)
  BY DEF row
<1>6. \/ x.kind \in {"sa", "login", "config", "service", "backup", "database", "dbUser", "auditSetting"}
      \/ x.kind = "linked" /\ ~x.is.mapped
      \/ x.kind = "protocol" /\ InstanceOf[t] # ""
      \/ x.kind = "permission" /\ InstanceOf[t] # "" /\ x.entity # Blank
  BY <1>5 DEF Meets, x, t
<1>7. sheets[s][i].own.name = Own(t, x).name
  BY <1>1 DEF row
<1>8. x.kind # "service" => Own(t, x).instance = Shown(InstanceOf[t])
  BY DEF Own
<1>9. InstanceOf[t] # "" => Shown(InstanceOf[t]) = InstanceOf[t]
  BY DEF Shown
<1>10. CASE x.kind \in {"sa", "login"}
  <2>1. ReadKey(s, i) = place \o x.name
    BY <1>2, <1>4, <1>7, <1>8, <1>10 DEF ReadKey, Fits, Own
  <2>2. FindingKey(t, x) = place \o x.name
    BY <1>10 DEF FindingKey
  <2>. QED  BY <2>1, <2>2 DEF t, x, row
<1>11. CASE x.kind \in {"config", "backup", "database", "auditSetting"}
  <2>1. ReadKey(s, i) = place \o <<x.group>>
    BY <1>2, <1>4, <1>8, <1>11 DEF ReadKey, Fits, Grouped
  <2>2. FindingKey(t, x) = place \o <<x.group>>
    BY <1>11 DEF FindingKey
  <2>. QED  BY <2>1, <2>2 DEF t, x, row
<1>12. CASE x.kind = "service"
  <2>1. ReadKey(s, i) = <<ServerOf[t], Own(t, x).instance>> \o <<x.group>>
    BY <1>2, <1>4, <1>12 DEF ReadKey, Fits, Grouped
  <2>2. FindingKey(t, x) = <<ServerOf[t], Own(t, x).instance>> \o <<x.group>>
    BY <1>12 DEF FindingKey
  <2>. QED  BY <2>1, <2>2 DEF t, x, row
<1>13. CASE x.kind = "dbUser"
  <2>1. ReadKey(s, i) = place \o <<x.group>> \o x.name
    BY <1>2, <1>4, <1>7, <1>8, <1>13 DEF ReadKey, Fits, Grouped, Own
  <2>2. FindingKey(t, x) = place \o <<x.group>> \o x.name
    BY <1>13 DEF FindingKey
  <2>. QED  BY <2>1, <2>2 DEF t, x, row
<1>14. CASE x.kind = "linked" /\ ~x.is.mapped
  <2>1. ReadKey(s, i) = place \o <<x.group>>
    BY <1>2, <1>4, <1>8, <1>14 DEF ReadKey, Fits, Grouped
  <2>2. FindingKey(t, x) = place \o <<x.group>> \o <<>>
    BY <1>14 DEF FindingKey
  <2>3. \A a, b, c : (<<a, b>> \o <<c>>) \o <<>> = <<a, b>> \o <<c>>
    OBVIOUS
  <2>. QED  BY <2>1, <2>2, <2>3 DEF t, x, row
<1>15. CASE x.kind = "protocol" /\ InstanceOf[t] # ""
  <2>1. ReadKey(s, i) = place \o x.name
    BY <1>2, <1>4, <1>7, <1>8, <1>15 DEF ReadKey, Fits, Own
  <2>2. FindingKey(t, x) = <<ServerOf[t], InstanceOf[t]>> \o x.name
    BY <1>15 DEF FindingKey
  <2>. QED  BY <1>9, <1>15, <2>1, <2>2 DEF t, x, row
<1>16. CASE x.kind = "permission" /\ InstanceOf[t] # "" /\ x.entity # Blank
  <2>1. ReadKey(s, i) = place \o <<Head(x.name), x.group>> \o Tail(x.name) \o <<x.entity>>
    BY <1>2, <1>4, <1>7, <1>8, <1>16 DEF ReadKey, Fits, Grouped, Own
  <2>2. FindingKey(t, x) = <<ServerOf[t], InstanceOf[t]>> \o <<Head(x.name), x.group>>
                           \o Tail(x.name) \o <<x.entity>>
    BY <1>16 DEF FindingKey
  <2>. QED  BY <1>9, <1>16, <2>1, <2>2 DEF t, x, row
<1>. QED
  BY <1>6, <1>10, <1>11, <1>12, <1>13, <1>14, <1>15, <1>16

\* As long as nothing goes by an empty name, the row of every kind whose key
\* is made alike on both sides meets its finding, whatever rows come between.
THEOREM RowsMeet == Spec /\ []NamesAreProper => []RowsMeetTheirFindings
<1>1. IInv /\ PlacedInv => RowsMeetTheirFindings
  <2>. SUFFICES ASSUME IInv, PlacedInv, NEW s \in Sheets, NEW i \in DOMAIN sheets[s],
                       Meets(sheets[s][i])
                PROVE  ReadKey(s, i) = FindingKey(sheets[s][i].by, sheets[s][i].thing)
    BY DEF RowsMeetTheirFindings
  <2>1. i \in 1 .. Len(sheets[s])
    BY DEF IInv, SheetInv, IsTable, IsList
  <2>. QED  BY <2>1, KeyOfRow
<1>2. Spec /\ []NamesAreProper => []PlacedInv
  BY PlacedInitially, StepPlaces, Invariance, PTL DEF Spec
<1>. QED  BY <1>1, <1>2, Invariance, PTL

-----------------------------------------------------------------------------
(* Induction over the numbers, for what a set can say. *)

Inductive(P) == 0 \in P /\ \A n \in Nat : n \in P => n + 1 \in P

LEMMA InductiveCoversNat ==
    ASSUME NEW P, Inductive(P)
    PROVE  Nat \subseteq P
<1>. SUFFICES ASSUME ~ (Nat \subseteq P) PROVE FALSE
  OBVIOUS
<1>. DEFINE Less == { ss \in Nat \X Nat : ss[1] < ss[2] }
            Bad == Nat \ P
<1>1. IsWellFoundedOn(Less, Nat)
  BY NatLessThanWellFounded DEF OpToRel
<1>2. Bad \subseteq Nat /\ Bad # {}
  OBVIOUS
<1>3. PICK n \in Bad : \A m \in Bad : ~ (<<m, n>> \in Less)
  <2>. HIDE DEF Bad, Less
  <2>. QED BY <1>1, <1>2, WFMin
<1>4. n \in Nat /\ n # 0 /\ n - 1 \in Nat /\ <<n - 1, n>> \in Less
  BY <1>3 DEF Inductive
<1>5. n - 1 \in P
  BY <1>3, <1>4
<1>. QED BY <1>3, <1>4, <1>5 DEF Inductive

-----------------------------------------------------------------------------
(* What is collected. *)

LEMMA ThingKnown ==
    ASSUME NEW t \in Targets, NEW x \in Things(t)
    PROVE  x \in ThingRecords /\ IsCollected(x)
<1>1. PICK e \in Estates : \E i \in DOMAIN e[t] : x = e[t][i]
  BY DEF Things
<1>2. PICK i \in DOMAIN e[t] : x = e[t][i]
  BY <1>1
<1>3. e[t] \in Seq(ThingRecords)
  OBVIOUS
<1>. QED  BY <1>2, <1>3

\* What is left after a failure was to be reported before.
Keeping(f, failed, things, n) ==
    f = [i \in 0 .. n |->
           IF i = 0 THEN <<>>
           ELSE f[i - 1] \o (IF GivenUp(failed, things[i]) THEN <<>> ELSE <<things[i]>>)]

LEMMA SparedIn ==
    ASSUME NEW S, NEW things \in Seq(S), NEW failed
    PROVE  Spared(failed, things) \in Seq(S)
<1>. DEFINE len == Len(things)
            last(i) == IF GivenUp(failed, things[i]) THEN <<>> ELSE <<things[i]>>
            Good(n, f) == Keeping(f, failed, things, n) /\ \A i \in 0 .. n : f[i] \in Seq(S)
            P == { n \in Nat : n <= len => \E f : Good(n, f) }
<1>0. \A i \in 1 .. len : last(i) \in Seq(S)
  BY DEF last
<1>. HIDE DEF last
<1>1. 0 \in P
  <2>. DEFINE g == [i \in 0 .. 0 |-> <<>>]
  <2>1. \A i \in 0 .. 0 : i = 0
    OBVIOUS
  <2>2. Good(0, g)
    BY <2>1 DEF Keeping
  <2>. QED BY <2>2
<1>2. \A n \in Nat : n \in P => n + 1 \in P
  <2>. SUFFICES ASSUME NEW n \in Nat, n \in P, n + 1 <= len PROVE n + 1 \in P
    OBVIOUS
  <2>0. PICK f : Good(n, f)
    OBVIOUS
  <2>. DEFINE g == [i \in 0 .. (n + 1) |-> IF i = n + 1 THEN f[n] \o last(i) ELSE f[i]]
  <2>1. \A i \in 0 .. n : f[i] = (IF i = 0 THEN <<>> ELSE f[i - 1] \o last(i)) /\ f[i] \in Seq(S)
    BY <2>0 DEF Keeping, last
  <2>2. ASSUME NEW i \in 0 .. (n + 1)
        PROVE  g[i] = (IF i = 0 THEN <<>> ELSE g[i - 1] \o last(i)) /\ g[i] \in Seq(S)
    <3>1. CASE i = n + 1
      <4>1. i # 0 /\ i - 1 = n /\ n \in 0 .. (n + 1) /\ n # n + 1 /\ n \in 0 .. n /\ i \in 1 .. len
        BY <3>1
      <4>2. g[i - 1] = f[n] /\ g[i] = f[n] \o last(i)
        BY <3>1, <4>1
      <4>3. f[n] \in Seq(S) /\ last(i) \in Seq(S)
        BY <1>0, <2>1, <4>1
      <4>4. f[n] \o last(i) \in Seq(S)
        BY <4>3, ConcatProperties
      <4>. QED BY <4>1, <4>2, <4>4
    <3>2. CASE i \in 0 .. n
      <4>1. g[i] = f[i] /\ (i # 0 => g[i - 1] = f[i - 1])
        BY <3>2
      <4>. QED BY <2>1, <3>2, <4>1
    <3>. QED BY <3>1, <3>2
  <2>3. g = [i \in 0 .. (n + 1) |-> g[i]]
    OBVIOUS
  <2>4. g = [i \in 0 .. (n + 1) |-> IF i = 0 THEN <<>> ELSE g[i - 1] \o last(i)]
    <3>. HIDE DEF g
    <3>. QED BY <2>2, <2>3
  <2>5. Good(n + 1, g)
    <3>. HIDE DEF g
    <3>. QED BY <2>2, <2>4 DEF Keeping, last
  <2>6. \E h : Good(n + 1, h)
    <3>. HIDE DEF g
    <3>. QED BY <2>5
  <2>. HIDE DEF Good
  <2>. QED BY <2>6
<1>3. len \in P
  <2>. HIDE DEF P
  <2>1. Inductive(P)
    BY <1>1, <1>2 DEF Inductive
  <2>. QED BY <2>1, InductiveCoversNat
<1>4. PICK f : Good(len, f)
  <2>. HIDE DEF Good
  <2>. QED  BY <1>3
<1>5. PICK g : g = CHOOSE h : Keeping(h, failed, things, len)
  OBVIOUS
<1>6. Keeping(g, failed, things, len)
  <2>. HIDE DEF len
  <2>. QED  BY <1>4, <1>5
<1>7. g[len] = Spared(failed, things)
  BY <1>5 DEF Spared, Keeping
<1>8. \A i \in 0 .. len : g[i] = IF i = 0 THEN <<>> ELSE g[i - 1] \o last(i)
  BY <1>6 DEF Keeping, last
<1>. DEFINE Q == { n \in Nat : n <= len => g[n] \in Seq(S) }
<1>9. Inductive(Q)
  <2>0. len \in Nat
    OBVIOUS
  <2>. HIDE DEF len
  <2>1. 0 \in Q
    <3>1. 0 \in 0 .. len
      BY <2>0
    <3>2. g[0] = <<>>
      BY <1>8, <3>1
    <3>3. <<>> \in Seq(S)
      OBVIOUS
    <3>. QED  BY <3>2, <3>3
  <2>2. ASSUME NEW n \in Nat, n \in Q, n + 1 <= len PROVE g[n + 1] \in Seq(S)
    <3>0. n + 1 \in 0 .. len /\ n + 1 # 0 /\ (n + 1) - 1 = n /\ n + 1 \in 1 .. len /\ n <= len
      BY <2>0, <2>2
    <3>1. g[n + 1] = g[n] \o last(n + 1) /\ n + 1 \in 1 .. len
      BY <1>8, <3>0
    <3>2. g[n] \in Seq(S) /\ last(n + 1) \in Seq(S)
      BY <1>0, <2>2, <3>0
    <3>. QED  BY <3>1, <3>2, ConcatProperties
  <2>. QED  BY <2>1, <2>2 DEF Inductive
<1>10. len \in Q
  BY <1>9, InductiveCoversNat
<1>. QED  BY <1>7, <1>10

LEMMA ThingFields ==
    ASSUME NEW t \in Targets, NEW x \in Things(t)
    PROVE  /\ x.kind \in Kinds \cup {"noOrphans"}
           /\ x.group \in STRING /\ x.entity \in STRING /\ x.name \in Seq(STRING)
           /\ x.kind # "noOrphans" => x.is \in Facts[x.kind]
           /\ x.kind = "service" => x.name # <<>>
<1>1. x \in ThingRecords /\ IsCollected(x)
  BY ThingKnown
<1>. QED  BY <1>1 DEF ThingRecords, IsCollected

LEMMA OwnTyped ==
    ASSUME NEW t \in Targets, NEW x \in Things(t)
    PROVE  /\ Own(t, x).server \in STRING /\ Own(t, x).instance \in STRING
           /\ Own(t, x).group \in STRING /\ Own(t, x).entity \in STRING
<1>1. /\ x.group \in STRING /\ x.entity \in STRING /\ x.name \in Seq(STRING)
      /\ x.kind = "service" => x.name # <<>>
  BY ThingFields
<1>2. ServerOf[t] \in STRING /\ Shown(InstanceOf[t]) \in STRING
  <2>1. ServerOf[t] \in STRING /\ InstanceOf[t] \in STRING
    OBVIOUS
  <2>2. "(default)" \in STRING
    BY DEF OwnWords
  <2>. QED  BY <2>1, <2>2 DEF Shown
<1>3. x.kind = "service" => ServiceInstance(t, x) \in STRING
  <2>1. x.name # <<>> => Head(x.name) \in STRING
    BY <1>1
  <2>2. "(shared)" \in STRING
    BY DEF OwnWords
  <2>3. ServiceInstance(t, x) \in {"(shared)", Head(x.name), Shown(InstanceOf[t])}
    BY DEF ServiceInstance
  <2>. QED  BY <1>1, <1>2, <2>1, <2>2, <2>3
<1>. QED  BY <1>1, <1>2, <1>3 DEF Own

\* The sheets that a thing has a row on.
HasRow(s, x) ==
    \/ s = x.kind /\ x.kind # "noOrphans"
    \/ s = "orphan" /\ x.kind = "noOrphans"
    \/ s = "orphan" /\ x.kind = "dbUser" /\ x.is.orphaned

LEMMA RowsAre ==
    ASSUME NEW x
    PROVE  /\ Len(RowsOf(x)) \in 1 .. 2
           /\ Len(RowsOf(x)) = 2 => x.kind = "dbUser"
           /\ \A n \in 1 .. Len(RowsOf(x)) : HasRow(RowsOf(x)[n], x)
<1>1. CASE x.kind = "noOrphans"
  <2>1. RowsOf(x) = <<"orphan">>
    BY <1>1 DEF RowsOf
  <2>. QED  BY <1>1, <2>1 DEF HasRow
<1>2. CASE x.kind = "dbUser" /\ x.is.orphaned
  <2>1. RowsOf(x) = <<"dbUser", "orphan">>
    BY <1>2 DEF RowsOf
  <2>. QED  BY <1>2, <2>1 DEF HasRow
<1>3. CASE x.kind # "noOrphans" /\ ~ (x.kind = "dbUser" /\ x.is.orphaned)
  <2>1. RowsOf(x) = <<x.kind>>
    BY <1>3 DEF RowsOf
  <2>. QED  BY <1>3, <2>1 DEF HasRow
<1>. QED  BY <1>1, <1>2, <1>3

\* What may be saved for a thing.
IsFindingOf(f, t, x) ==
    /\ f.by = t /\ f.thing = x
    /\ x.kind # "noOrphans"
    /\ IF x.kind = "instance"
         THEN \E last \in {"sql_version", "default_instance_name"} :
                f.key = <<ServerOf[t], Shown(InstanceOf[t])>> \o <<last>>
         ELSE f.key = FindingKey(t, x) /\ f.status = Finding(x.kind, x.is) /\ f.status # None

LEMMA FindingsAre ==
    ASSUME NEW t \in Targets, NEW x
    PROVE  /\ Len(FindingsOf(t, x)) \in 0 .. 2
           /\ Len(FindingsOf(t, x)) = 2 => x.kind = "instance"
           /\ \A n \in 1 .. Len(FindingsOf(t, x)) : IsFindingOf(FindingsOf(t, x)[n], t, x)
<1>1. CASE x.kind = "noOrphans"
  BY <1>1 DEF FindingsOf
<1>2. CASE x.kind = "instance"
  <2>. DEFINE one == Saved(t, x, FindingKey(t, x), VersionFinding(x.is))
              key == <<ServerOf[t], Shown(InstanceOf[t]), "default_instance_name">>
              two == Saved(t, x, key, NamingFinding(x.is))
              f1 == [key |-> FindingKey(t, x), status |-> VersionFinding(x.is), by |-> t,
                     thing |-> x]
              f2 == [key |-> key, status |-> NamingFinding(x.is), by |-> t, thing |-> x]
              S == {f1, f2}
  <2>1. FindingsOf(t, x) = one \o two
    BY <1>2 DEF FindingsOf
  <2>2. one \in Seq(S) /\ two \in Seq(S) /\ Len(one) \in 0 .. 1 /\ Len(two) \in 0 .. 1
    <3>1. one \in {<<>>, <<f1>>} /\ two \in {<<>>, <<f2>>}
      BY DEF Saved
    <3>2. f1 \in S /\ f2 \in S
      OBVIOUS
    <3>. HIDE DEF one, two, f1, f2, S
    <3>3. \A f \in S : <<f>> \in Seq(S) /\ Len(<<f>>) \in 0 .. 1
      OBVIOUS
    <3>4. <<>> \in Seq(S) /\ Len(<<>>) \in 0 .. 1
      OBVIOUS
    <3>5. one \in Seq(S) /\ Len(one) \in 0 .. 1
      BY <3>1, <3>2, <3>3, <3>4, Zenon
    <3>6. two \in Seq(S) /\ Len(two) \in 0 .. 1
      BY <3>1, <3>2, <3>3, <3>4, Zenon
    <3>. QED  BY <3>5, <3>6
  <2>. HIDE DEF one, two
  <2>3. FindingsOf(t, x) \in Seq(S) /\ Len(FindingsOf(t, x)) \in 0 .. 2
    <3>. HIDE DEF S
    <3>. QED  BY <2>1, <2>2, ConcatProperties
  <2>4. \A f \in S : IsFindingOf(f, t, x)
    <3>1. FindingKey(t, x) = <<ServerOf[t], Shown(InstanceOf[t])>> \o <<"sql_version">>
      BY <1>2 DEF FindingKey
    <3>2. key = <<ServerOf[t], Shown(InstanceOf[t])>> \o <<"default_instance_name">>
      OBVIOUS
    <3>. HIDE DEF key
    <3>. QED  BY <1>2, <3>1, <3>2 DEF IsFindingOf
  <2>. HIDE DEF S
  <2>5. \A n \in 1 .. Len(FindingsOf(t, x)) : FindingsOf(t, x)[n] \in S
    BY <2>3
  <2>. QED  BY <1>2, <2>3, <2>4, <2>5
<1>3. CASE x.kind \notin {"noOrphans", "instance"}
  <2>. DEFINE status == Finding(x.kind, x.is)
              f == [key |-> FindingKey(t, x), status |-> status, by |-> t, thing |-> x]
  <2>. HIDE DEF status
  <2>1. FindingsOf(t, x) = IF status = None THEN <<>> ELSE <<f>>
    BY <1>3 DEF FindingsOf, Saved, status
  <2>2. status # None => IsFindingOf(f, t, x)
    BY <1>3 DEF IsFindingOf, status
  <2>. HIDE DEF f
  <2>. QED  BY <2>1, <2>2
<1>. QED  BY <1>1, <1>2, <1>3

Steps(t, x) == Len(RowsOf(x)) + Len(FindingsOf(t, x))

LEMMA StepsAre ==
    ASSUME NEW t \in Targets, NEW x
    PROVE  Steps(t, x) \in 1 .. 3
  BY RowsAre, FindingsAre DEF Steps

-----------------------------------------------------------------------------
(* How far a target is. *)

AtInv ==
    /\ at \in [Targets -> Nat]
    /\ todo = [t \in Targets |-> todo[t]]
    /\ \A t \in Targets :
         /\ todo[t] \in Seq(Things(t))
         /\ at[t] # 0 => todo[t] # <<>> /\ at[t] < Steps(t, Head(todo[t]))

LEMMA AtInitially == Init => AtInv
<1>. SUFFICES ASSUME Init PROVE AtInv
  OBVIOUS
<1>1. todo \in Estates /\ todo \in [Targets -> Seq(ThingRecords)]
  BY DEF Init
<1>2. ASSUME NEW t \in Targets PROVE todo[t] \in Seq(Things(t))
  <2>1. todo[t] \in Seq(ThingRecords)
    BY <1>1
  <2>2. \A i \in DOMAIN todo[t] : todo[t][i] \in Things(t)
    BY <1>1 DEF Things
  <2>. QED  BY <2>1, <2>2, SeqDef
<1>. QED  BY <1>1, <1>2 DEF Init, AtInv

LEMMA AdvanceKeeps ==
    ASSUME AtInv, NEW t \in Targets, todo[t] # <<>>, Advance(t, at[t] + 1)
    PROVE  AtInv'
<1>. DEFINE x == Head(todo[t])
            n == at[t] + 1
<1>1. /\ at[t] \in Nat /\ n \in Nat /\ Steps(t, x) \in Nat /\ n <= Steps(t, x)
      /\ todo[t] \in Seq(Things(t))
  <2>1. Steps(t, x) \in 1 .. 3
    BY StepsAre
  <2>2. at[t] \in Nat /\ todo[t] \in Seq(Things(t)) /\ (at[t] # 0 => at[t] < Steps(t, x))
    BY DEF AtInv
  <2>. HIDE DEF x
  <2>. QED  BY <2>1, <2>2
<1>2. CASE n = Steps(t, x)
  <2>1. todo' = [todo EXCEPT ![t] = Tail(@)] /\ at' = [at EXCEPT ![t] = 0]
    BY <1>2 DEF Advance, Steps
  <2>2. Tail(todo[t]) \in Seq(Things(t))
    BY <1>1
  <2>. QED  BY <2>1, <2>2 DEF AtInv
<1>3. CASE n # Steps(t, x)
  <2>1. todo' = todo /\ at' = [at EXCEPT ![t] = n]
    BY <1>3 DEF Advance, Steps
  <2>2. n < Steps(t, x)
    BY <1>1, <1>3
  <2>. HIDE DEF n
  <2>3. ASSUME NEW u \in Targets
        PROVE  /\ todo'[u] \in Seq(Things(u))
               /\ at'[u] # 0 => todo'[u] # <<>> /\ at'[u] < Steps(u, Head(todo'[u]))
    <3>1. CASE u = t
      BY <1>1, <2>1, <2>2, <3>1 DEF AtInv
    <3>2. CASE u # t
      BY <2>1, <3>2 DEF AtInv
    <3>. QED  BY <3>1, <3>2
  <2>4. \A u \in Targets : Things(u)' = Things(u) /\ \A y : Steps(u, y)' = Steps(u, y)
    BY DEF Things
  <2>. QED  BY <1>1, <2>1, <2>3 DEF AtInv
<1>. QED  BY <1>2, <1>3

\* Nothing of the present thing was done yet, and more of the list goes.
LEMMA ShortenedKeeps ==
    ASSUME AtInv, NEW t \in Targets, at[t] = 0, NEW rest \in Seq(Things(t)),
           todo' = [todo EXCEPT ![t] = rest], at' = at
    PROVE  AtInv'
  BY DEF AtInv

-----------------------------------------------------------------------------
(* What a sheet's rows say, merged or not. *)

IsTyped(s, r) ==
    /\ IsRow(r)
    /\ r.thing \in Things(r.by)
    /\ HasRow(s, r.thing)
    /\ r.shows = Marks(s, r.thing).shows /\ r.flagged = Marks(s, r.thing).flagged
    /\ \A c \in Columns : r.cells[c] \in STRING

TableTyped(s, rows) == IsList(rows) /\ \A i \in 1 .. Len(rows) : IsTyped(s, rows[i])

\* The levels of a group begin one after the other.
GroupTyped(g, n) ==
    /\ IsGroup(g)
    /\ g.server \in STRING /\ g.instance \in STRING /\ g.group \in STRING
    /\ g.serverStart \in Nat /\ g.instanceStart \in Nat /\ g.groupStart \in Nat
    /\ g.serverStart <= g.instanceStart /\ g.instanceStart <= g.groupStart /\ g.groupStart <= n + 1

SheetTyped(s) == TableTyped(s, sheets[s]) /\ GroupTyped(groups[s], Len(sheets[s]))

LEMMA CellEdited ==
    ASSUME NEW s, NEW r, IsTyped(s, r), NEW c \in Columns, NEW v \in STRING
    PROVE  IsTyped(s, [r EXCEPT !.cells[c] = v])
<1>. DEFINE cells == [r.cells EXCEPT ![c] = v]
            q == [r EXCEPT !.cells[c] = v]
<1>1. q = [by |-> r.by, thing |-> r.thing, own |-> r.own, cells |-> cells,
           shows |-> r.shows, flagged |-> r.flagged]
  BY DEF IsTyped, IsRow
<1>2. /\ cells = [d \in Columns |-> cells[d]]
      /\ \A d \in Columns : cells[d] \in STRING
  BY DEF IsTyped, IsRow
<1>. HIDE DEF q, cells
<1>3. /\ q.by = r.by /\ q.thing = r.thing /\ q.own = r.own /\ q.cells = cells
      /\ q.shows = r.shows /\ q.flagged = r.flagged
  BY <1>1
<1>4. q = [by |-> q.by, thing |-> q.thing, own |-> q.own, cells |-> q.cells,
           shows |-> q.shows, flagged |-> q.flagged]
  BY <1>1, <1>3
<1>5. IsTyped(s, q)
  BY <1>2, <1>3, <1>4 DEF IsTyped, IsRow
<1>. QED  BY <1>5 DEF q

\* new is rows with other cells.
Recelled(s, new, rows) == TableTyped(s, new) /\ Len(new) = Len(rows)

LEMMA MergeCellsTyped ==
    ASSUME NEW s, NEW rows, TableTyped(s, rows), NEW c \in Columns, NEW start, NEW v \in STRING
    PROVE  Recelled(s, MergeCells(rows, c, start, v), rows)
<1>. DEFINE new == MergeCells(rows, c, start, v)
<1>1. rows \in Seq(Members(rows)) /\ Len(rows) \in Nat /\ DOMAIN rows = 1 .. Len(rows)
  BY DEF TableTyped, IsList
<1>2. Blank \in STRING
  BY DEF OwnWords
<1>3. new = [i \in 1 .. Len(rows) |-> new[i]]
  BY <1>1 DEF MergeCells
<1>4. ASSUME NEW i \in 1 .. Len(rows) PROVE IsTyped(s, new[i])
  <2>1. new[i] = IF i < start THEN rows[i]
                 ELSE [rows[i] EXCEPT !.cells[c] = IF i = start THEN v ELSE Blank]
    BY <1>1 DEF MergeCells
  <2>. DEFINE w == IF i = start THEN v ELSE Blank
  <2>2. w \in STRING
    BY <1>2
  <2>3. IsTyped(s, rows[i])
    BY DEF TableTyped
  <2>. HIDE DEF w, new
  <2>4. IsTyped(s, [rows[i] EXCEPT !.cells[c] = w])
    BY <2>2, <2>3, CellEdited
  <2>. QED  BY <2>1, <2>3, <2>4 DEF w
<1>. HIDE DEF new
<1>5. new \in Seq(Members(new)) /\ Len(new) = Len(rows)
  <2>1. new \in [1 .. Len(rows) -> Members(new)]
    BY <1>3 DEF Members
  <2>. QED  BY <1>1, <2>1, SeqDef
<1>6. Recelled(s, new, rows)
  BY <1>4, <1>5 DEF Recelled, TableTyped, IsList
<1>. QED  BY <1>6 DEF new

LEMMA MergesTyped ==
    ASSUME NEW s, NEW rows, TableTyped(s, rows), NEW g,
           g.server \in STRING, g.instance \in STRING, g.group \in STRING
    PROVE  /\ Recelled(s, rows, rows)
           /\ Recelled(s, MergeGroup(s, rows, g), rows)
           /\ Recelled(s, MergeInstance(s, rows, g), rows)
           /\ Recelled(s, MergeServer(s, rows, g), rows)
<1>. DEFINE one == MergeGroup(s, rows, g)
            two == MergeInstance(s, rows, g)
<1>0. "group" \in Columns /\ "instance" \in Columns /\ "server" \in Columns
  BY DEF Columns
<1>1. Recelled(s, rows, rows)
  BY DEF Recelled
<1>2. Recelled(s, one, rows)
  BY <1>0, <1>1, MergeCellsTyped DEF MergeGroup
<1>3. Recelled(s, two, rows)
  <2>1. two = rows \/ two = MergeCells(one, "instance", g.instanceStart, g.instance)
    BY DEF MergeInstance
  <2>. HIDE DEF one, two
  <2>2. Recelled(s, MergeCells(one, "instance", g.instanceStart, g.instance), one)
    <3>1. TableTyped(s, one)
      BY <1>2 DEF Recelled
    <3>. QED  BY <1>0, <3>1, MergeCellsTyped
  <2>. QED  BY <1>1, <1>2, <2>1, <2>2 DEF Recelled
<1>4. Recelled(s, MergeServer(s, rows, g), rows)
  <2>1. MergeServer(s, rows, g) = MergeCells(two, "server", g.serverStart, g.server)
    BY DEF MergeServer
  <2>. HIDE DEF two
  <2>2. Recelled(s, MergeCells(two, "server", g.serverStart, g.server), two)
    <3>1. TableTyped(s, two)
      BY <1>3 DEF Recelled
    <3>. QED  BY <1>0, <3>1, MergeCellsTyped
  <2>. QED  BY <1>3, <2>1, <2>2 DEF Recelled
<1>. QED  BY <1>1, <1>2, <1>3, <1>4

LEMMA RowTyped ==
    ASSUME NEW t \in Targets, NEW x \in Things(t), NEW s, HasRow(s, x)
    PROVE  IsTyped(s, Row(t, x, Own(t, x), Marks(s, x)))
<1>. DEFINE own == Own(t, x)
            marks == Marks(s, x)
            r == Row(t, x, own, marks)
<1>1. IsRow(r)
  BY RowIsRow
<1>2. \A c \in Columns : own[c] \in STRING
  BY OwnTyped DEF Columns
<1>. HIDE DEF own, marks
<1>3. r = [by |-> t, thing |-> x, own |-> own, cells |-> [c \in Columns |-> own[c]],
           shows |-> marks.shows, flagged |-> marks.flagged]
  BY DEF Row
<1>. HIDE DEF r
<1>4. /\ r.by = t /\ r.thing = x /\ r.shows = marks.shows /\ r.flagged = marks.flagged
      /\ \A c \in Columns : r.cells[c] \in STRING
  BY <1>2, <1>3
<1>5. IsTyped(s, r)
  BY <1>1, <1>4 DEF IsTyped, marks
<1>. QED  BY <1>5 DEF r, own, marks

LEMMA TableGrows ==
    ASSUME NEW s, NEW rows, TableTyped(s, rows), NEW row, IsTyped(s, row)
    PROVE  TableTyped(s, Append(rows, row)) /\ Len(Append(rows, row)) = Len(rows) + 1
<1>1. IsTable(rows) /\ IsRow(row)
  BY DEF TableTyped, IsTyped, IsTable
<1>2. Longer(Append(rows, row), rows, row)
  BY <1>1, AppendIsLonger
<1>3. Len(rows) \in Nat
  BY DEF TableTyped, IsList
<1>. QED  BY <1>2, <1>3 DEF Longer, TableTyped, IsTable

LEMMA NamedGroup ==
    ASSUME NEW t \in Targets, NEW x \in Things(t), NEW s
    PROVE  GroupName(Tracked(s, x)) \in STRING
<1>1. x.group \in STRING
  BY ThingFields
<1>2. "(instance)" \in STRING
  BY DEF OwnWords
<1>. QED  BY <1>1, <1>2 DEF GroupName, Tracked

LEMMA GroupsTyped ==
    ASSUME NEW s, SheetTyped(s), NEW t \in Targets, NEW x \in Things(t), NEW tracked,
           GroupName(tracked) \in STRING
    PROVE  /\ GroupTyped(NewServer(s, Own(t, x), tracked), Len(sheets[s]) + 1)
           /\ GroupTyped(NewInstance(s, Own(t, x), tracked), Len(sheets[s]) + 1)
           /\ GroupTyped(NewGroup(s, tracked), Len(sheets[s]) + 1)
           /\ GroupTyped(groups[s], Len(sheets[s]) + 1)
<1>. DEFINE g == groups[s]
            n == Len(sheets[s])
            name == GroupName(tracked)
            own == Own(t, x)
<1>1. GroupTyped(g, n) /\ n \in Nat
  BY DEF SheetTyped, TableTyped, IsList
<1>2. own.server \in STRING /\ own.instance \in STRING
  BY OwnTyped
<1>3. /\ IsGroup(NewServer(s, own, tracked)) /\ IsGroup(NewInstance(s, own, tracked))
      /\ IsGroup(NewGroup(s, tracked))
  BY <1>1, GroupShapes DEF GroupTyped
<1>. HIDE DEF own, g, n, name
<1>4. GroupTyped(NewServer(s, own, tracked), n + 1)
  <2>1. NewServer(s, own, tracked) =
          [server |-> own.server, instance |-> own.instance, group |-> name,
           serverStart |-> n + 1, instanceStart |-> n + 1, groupStart |-> n + 1, mixed |-> FALSE]
    BY DEF NewServer, n, name
  <2>. QED  BY <1>1, <1>2, <1>3, <2>1 DEF GroupTyped, name
<1>5. GroupTyped(NewInstance(s, own, tracked), n + 1)
  <2>1. CASE s = "instance"
    <3>1. NewInstance(s, own, tracked) = [g EXCEPT !.mixed = TRUE]
      BY <2>1 DEF NewInstance, g
    <3>. QED  BY <1>1, <1>3, <3>1 DEF GroupTyped, IsGroup
  <2>2. CASE s # "instance"
    <3>1. NewInstance(s, own, tracked) =
            [g EXCEPT !.instance = own.instance, !.group = name,
                      !.instanceStart = n + 1, !.groupStart = n + 1]
      BY <2>2 DEF NewInstance, g, n, name
    <3>2. LET h == NewInstance(s, own, tracked) IN
            /\ h.server = g.server /\ h.instance = own.instance /\ h.group = name
            /\ h.serverStart = g.serverStart /\ h.instanceStart = n + 1 /\ h.groupStart = n + 1
      BY <1>1, <3>1 DEF GroupTyped, IsGroup
    <3>. QED  BY <1>1, <1>2, <1>3, <3>2 DEF GroupTyped, name
  <2>. QED  BY <2>1, <2>2
<1>6. GroupTyped(NewGroup(s, tracked), n + 1)
  <2>1. NewGroup(s, tracked) = [g EXCEPT !.group = name, !.groupStart = n + 1]
    BY DEF NewGroup, g, n, name
  <2>2. LET h == NewGroup(s, tracked) IN
          /\ h.server = g.server /\ h.instance = g.instance /\ h.group = name
          /\ h.serverStart = g.serverStart /\ h.instanceStart = g.instanceStart
          /\ h.groupStart = n + 1
    BY <1>1, <2>1 DEF GroupTyped, IsGroup
  <2>. QED  BY <1>1, <1>3, <2>2 DEF GroupTyped, name
<1>7. GroupTyped(g, n + 1)
  BY <1>1 DEF GroupTyped
<1>. QED  BY <1>4, <1>5, <1>6, <1>7 DEF g, n, own

-----------------------------------------------------------------------------
(* Every step keeps the shapes. *)

\* A call of the writer adds one typed row to its sheet.
LEMMA AddRowTyped ==
    ASSUME IInv, \A q \in Sheets : SheetTyped(q), NEW s \in Sheets, NEW t \in Targets,
           NEW x \in Things(t), HasRow(s, x),
           AddRow(s, Row(t, x, Own(t, x), Marks(s, x)), Tracked(s, x))
    PROVE  \A q \in Sheets : SheetTyped(q)'
<1>. DEFINE row == Row(t, x, Own(t, x), Marks(s, x))
            rows == sheets[s]
            old == groups[s]
            tracked == Tracked(s, x)
            n == Len(rows)
<1>1. TableTyped(s, rows) /\ GroupTyped(old, n) /\ IsTyped(s, row)
  BY RowTyped DEF SheetTyped
<1>2. row.own = Own(t, x)
  BY DEF Row
<1>3. /\ Recelled(s, rows, rows)
      /\ Recelled(s, MergeGroup(s, rows, old), rows)
      /\ Recelled(s, MergeInstance(s, rows, old), rows)
      /\ Recelled(s, MergeServer(s, rows, old), rows)
  <2>. HIDE DEF rows, old
  <2>. QED  BY <1>1, MergesTyped DEF GroupTyped
<1>4. /\ GroupTyped(NewServer(s, row.own, tracked), n + 1)
      /\ GroupTyped(NewInstance(s, row.own, tracked), n + 1)
      /\ GroupTyped(NewGroup(s, tracked), n + 1)
      /\ GroupTyped(old, n + 1)
  <2>1. GroupName(tracked) \in STRING
    BY NamedGroup
  <2>2. SheetTyped(s)
    OBVIOUS
  <2>. HIDE DEF row, tracked
  <2>. QED  BY <1>2, <2>1, <2>2, GroupsTyped
<1>5. \E merged, g : Put(s, merged, row, g) /\ Recelled(s, merged, rows) /\ GroupTyped(g, n + 1)
  <2>. HIDE DEF row, rows, old, tracked, n
  <2>1. \/ Put(s, IF old.server = Blank THEN rows ELSE MergeServer(s, rows, old), row,
               NewServer(s, row.own, tracked))
        \/ Put(s, IF s = "instance" THEN rows ELSE MergeInstance(s, rows, old), row,
               NewInstance(s, row.own, tracked))
        \/ Put(s, MergeGroup(s, rows, old), row, NewGroup(s, tracked))
        \/ Put(s, rows, row, old)
    BY DEF AddRow, row, rows, old, tracked
  <2>. QED  BY <1>3, <1>4, <2>1
<1>6. PICK merged, g : Put(s, merged, row, g) /\ Recelled(s, merged, rows) /\ GroupTyped(g, n + 1)
  BY <1>5
<1>. DEFINE longer == Append(merged, row)
<1>7. TableTyped(s, longer) /\ Len(longer) = n + 1
  <2>. HIDE DEF row, rows
  <2>. QED  BY <1>1, <1>6, TableGrows DEF Recelled
<1>8. sheets' = [sheets EXCEPT ![s] = longer] /\ groups' = [groups EXCEPT ![s] = g]
  BY <1>6 DEF Put
<1>. HIDE DEF longer, row, n
<1>9. /\ sheets'[s] = longer /\ groups'[s] = g
      /\ \A q \in Sheets \ {s} : sheets'[q] = sheets[q] /\ groups'[q] = groups[q]
  BY <1>8 DEF IInv
<1>10. SheetTyped(s)'
  BY <1>6, <1>7, <1>9 DEF SheetTyped
<1>. QED  BY <1>9, <1>10 DEF SheetTyped

\* Every finding is of something its target collected, one to a key.
FindingsInv ==
    /\ \A f \in findings : /\ f.by \in Targets
                           /\ f.thing \in Things(f.by)
                           /\ IsFindingOf(f, f.by, f.thing)
    /\ \A f, g \in findings : f.key = g.key => f = g

ShapeInv ==
    /\ AtInv
    /\ \A s \in Sheets : SheetTyped(s)
    /\ FindingsInv
    /\ saved \in BOOLEAN

LEMMA ShapeInitially == Init => ShapeInv
<1>. SUFFICES ASSUME Init PROVE ShapeInv
  OBVIOUS
<1>1. AtInv
  BY AtInitially
<1>2. Blank \in STRING
  BY DEF OwnWords
<1>3. GroupTyped(NoRows, 0)
  BY <1>2 DEF GroupTyped, NoRows, IsGroup
<1>4. IsList(<<>>) /\ Len(<<>>) = 0
  BY DEF IsList
<1>5. \A s \in Sheets : SheetTyped(s)
  BY <1>3, <1>4 DEF Init, SheetTyped, TableTyped
<1>. QED  BY <1>1, <1>5 DEF Init, ShapeInv, FindingsInv

LEMMA SheetOf ==
    ASSUME NEW t \in Targets, NEW x \in Things(t), NEW s, HasRow(s, x)
    PROVE  s \in Sheets
  BY ThingFields DEF HasRow, Sheets

LEMMA WriteRowShapes ==
    ASSUME IInv, ShapeInv, NEW t \in Targets, WriteRow(t)
    PROVE  ShapeInv'
<1>. DEFINE x == Head(todo[t])
            n == at[t] + 1
            s == RowsOf(x)[n]
<1>1. /\ todo[t] # <<>> /\ n <= Len(RowsOf(x)) /\ Advance(t, n)
      /\ AddRow(s, Row(t, x, Own(t, x), Marks(s, x)), Tracked(s, x))
      /\ UNCHANGED <<findings, saved>>
  BY DEF WriteRow
<1>2. x \in Things(t) /\ n \in Nat /\ n # 0
  BY <1>1 DEF ShapeInv, AtInv
<1>3. HasRow(s, x) /\ s \in Sheets
  <2>. HIDE DEF x
  <2>1. n \in 1 .. Len(RowsOf(x))
    BY <1>1, <1>2, RowsAre
  <2>2. HasRow(s, x)
    BY <2>1, RowsAre
  <2>. HIDE DEF s
  <2>. QED  BY <1>2, <2>2, SheetOf
<1>4. AtInv'
  BY <1>1, AdvanceKeeps DEF ShapeInv
<1>. HIDE DEF x, n, s
<1>5. \A q \in Sheets : SheetTyped(q)'
  BY <1>1, <1>2, <1>3, AddRowTyped DEF ShapeInv
<1>. QED  BY <1>1, <1>4, <1>5 DEF ShapeInv, FindingsInv

LEMMA SaveFindingShapes ==
    ASSUME ShapeInv, NEW t \in Targets, SaveFinding(t)
    PROVE  ShapeInv'
<1>. DEFINE x == Head(todo[t])
            f == NextFinding(t)
            n == at[t] + 1 - Len(RowsOf(x))
<1>1. /\ todo[t] # <<>> /\ at[t] >= Len(RowsOf(x)) /\ Advance(t, at[t] + 1)
      /\ findings' = Replace(f) /\ UNCHANGED <<sheets, groups, saved>>
  BY DEF SaveFinding
<1>2. x \in Things(t) /\ at[t] \in Nat /\ (at[t] # 0 => at[t] < Steps(t, x))
  BY <1>1 DEF ShapeInv, AtInv
<1>3. AtInv'
  BY <1>1, AdvanceKeeps DEF ShapeInv
<1>4. IsFindingOf(f, t, x)
  <2>. DEFINE rows == Len(RowsOf(x))
              some == Len(FindingsOf(t, x))
  <2>. HIDE DEF x
  <2>1. /\ rows \in 1 .. 2 /\ some \in 0 .. 2
        /\ at[t] \in Nat /\ at[t] >= rows /\ (at[t] # 0 => at[t] < rows + some)
        /\ n = at[t] + 1 - rows
    BY <1>1, <1>2, RowsAre, FindingsAre DEF Steps
  <2>2. n \in 1 .. some
    <3>. HIDE DEF n, rows, some
    <3>. QED  BY <2>1
  <2>3. IsFindingOf(FindingsOf(t, x)[n], t, x)
    BY <2>2, FindingsAre
  <2>. QED  BY <2>3 DEF NextFinding, x
<1>. HIDE DEF x, f
<1>5. f.by = t /\ f.thing = x
  BY <1>4 DEF IsFindingOf
<1>6. FindingsInv'
  <2>1. \A g \in findings' : g = f \/ (g \in findings /\ g.key # f.key)
    BY <1>1 DEF Replace
  <2>2. ASSUME NEW g \in findings'
        PROVE  g.by \in Targets /\ g.thing \in Things(g.by) /\ IsFindingOf(g, g.by, g.thing)
    BY <1>2, <1>4, <1>5, <2>1 DEF ShapeInv, FindingsInv
  <2>3. \A g, h \in findings' : g.key = h.key => g = h
    BY <2>1 DEF ShapeInv, FindingsInv
  <2>. QED  BY <2>2, <2>3 DEF FindingsInv
<1>. QED  BY <1>1, <1>3, <1>6 DEF ShapeInv, SheetTyped

LEMMA SheetsStand ==
    ASSUME ShapeInv, UNCHANGED <<sheets, groups, findings, saved>>, AtInv'
    PROVE  ShapeInv'
  BY DEF ShapeInv, SheetTyped, FindingsInv

LEMMA ListsShrink ==
    ASSUME ShapeInv, NEW t \in Targets, SkipNoOrphans(t) \/ CollectorFails(t)
    PROVE  ShapeInv'
<1>. DEFINE x == Head(todo[t])
<1>1. todo[t] \in Seq(Things(t)) /\ todo[t] # <<>> /\ AtInv
  BY DEF ShapeInv, AtInv, SkipNoOrphans, CollectorFails
<1>2. CASE SkipNoOrphans(t)
  <2>1. Tail(todo[t]) \in Seq(Things(t))
    BY <1>1
  <2>2. x.kind = "noOrphans"
    BY <1>2 DEF SkipNoOrphans
  <2>. HIDE DEF x
  <2>3. Steps(t, x) = 1
    BY <2>2 DEF Steps, RowsOf, FindingsOf
  <2>4. at[t] = 0
    BY <1>1, <2>3 DEF AtInv, x
  <2>5. AtInv'
    BY <1>1, <1>2, <2>1, <2>4, ShortenedKeeps DEF SkipNoOrphans
  <2>. QED  BY <1>2, <2>5, SheetsStand DEF SkipNoOrphans
<1>3. CASE CollectorFails(t)
  <2>1. Spared(x, todo[t]) \in Seq(Things(t))
    BY <1>1, SparedIn
  <2>2. AtInv'
    BY <1>1, <1>3, <2>1, ShortenedKeeps DEF CollectorFails
  <2>. QED  BY <1>3, <2>2, SheetsStand DEF CollectorFails
<1>. QED  BY <1>2, <1>3

LEMMA SaveWorkbookShapes ==
    ASSUME IInv, ShapeInv, SaveWorkbook
    PROVE  ShapeInv'
<1>1. ASSUME NEW s \in Sheets PROVE SheetTyped(s)'
  <2>1. TableTyped(s, sheets[s]) /\ GroupTyped(groups[s], Len(sheets[s]))
    BY DEF ShapeInv, SheetTyped
  <2>2. /\ Recelled(s, sheets[s], sheets[s])
        /\ Recelled(s, MergeServer(s, sheets[s], groups[s]), sheets[s])
    BY <2>1, MergesTyped DEF GroupTyped
  <2>3. Recelled(s, sheets'[s], sheets[s]) /\ groups' = groups
    BY <2>2 DEF SaveWorkbook
  <2>. QED  BY <2>1, <2>3 DEF Recelled, SheetTyped
<1>2. todo' = todo /\ at' = at /\ findings' = findings /\ saved' = TRUE
  BY DEF SaveWorkbook
<1>. QED  BY <1>1, <1>2 DEF ShapeInv, AtInv, FindingsInv

LEMMA NextShapes == IInv /\ ShapeInv /\ [Next]_vars => ShapeInv'
<1>. SUFFICES ASSUME IInv, ShapeInv, [Next]_vars PROVE ShapeInv'
  OBVIOUS
<1>1. CASE \E t \in Targets : WriteRow(t)
  BY <1>1, WriteRowShapes
<1>2. CASE \E t \in Targets : SaveFinding(t)
  BY <1>2, SaveFindingShapes
<1>3. CASE \E t \in Targets : LoseFinding(t)
  <2>1. PICK t \in Targets : LoseFinding(t)
    BY <1>3
  <2>2. AtInv'
    BY <2>1, AdvanceKeeps DEF LoseFinding, ShapeInv
  <2>. QED  BY <2>1, <2>2, SheetsStand DEF LoseFinding
<1>4. CASE \E t \in Targets : SkipNoOrphans(t) \/ CollectorFails(t)
  BY <1>4, ListsShrink
<1>5. CASE UNCHANGED vars
  BY <1>5, SheetsStand DEF vars, ShapeInv, AtInv
<1>. QED  BY <1>1, <1>2, <1>3, <1>4, <1>5, SaveWorkbookShapes DEF Next

THEOREM ShapeInvariance == Spec => [](IInv /\ ShapeInv)
<1>1. Init => IInv /\ ShapeInv
  BY Initially, ShapeInitially
<1>2. IInv /\ ShapeInv /\ [Next]_vars => (IInv /\ ShapeInv)'
  BY StepKeeps, NextShapes
<1>. QED  BY <1>1, <1>2, PTL DEF Spec

\* Rows stand for things that were to be collected, groups begin inside one
\* another, and the findings have one key each.
THEOREM TypeCorrect == Spec => []TypeOK
<1>1. IInv /\ ShapeInv => TypeOK
  <2>. SUFFICES ASSUME IInv, ShapeInv PROVE TypeOK
    OBVIOUS
  <2>1. \A t \in Targets : todo[t] \in Seq(Things(t)) /\ at[t] \in 0 .. 3
    <3>1. ASSUME NEW t \in Targets PROVE at[t] \in 0 .. 3
      <4>1. at[t] \in Nat /\ (at[t] # 0 => at[t] < Steps(t, Head(todo[t])))
        BY DEF ShapeInv, AtInv
      <4>2. Steps(t, Head(todo[t])) \in 1 .. 3
        BY StepsAre
      <4>. QED  BY <4>1, <4>2
    <3>. QED  BY <3>1 DEF ShapeInv, AtInv
  <2>2. ASSUME NEW s \in Sheets, NEW i \in DOMAIN sheets[s]
        PROVE  /\ sheets[s][i].by \in Targets
               /\ sheets[s][i].thing \in Things(sheets[s][i].by)
               /\ \A c \in Columns : sheets[s][i].cells[c] \in STRING
    <3>1. i \in 1 .. Len(sheets[s])
      BY DEF ShapeInv, SheetTyped, TableTyped, IsList
    <3>2. IsTyped(s, sheets[s][i])
      BY <3>1 DEF ShapeInv, SheetTyped, TableTyped
    <3>. QED  BY <3>2 DEF IsTyped, IsRow
  <2>3. \A s \in Sheets : /\ groups[s].serverStart <= groups[s].instanceStart
                          /\ groups[s].instanceStart <= groups[s].groupStart
                          /\ groups[s].groupStart <= Len(sheets[s]) + 1
    BY DEF ShapeInv, SheetTyped, GroupTyped
  <2>. QED  BY <2>1, <2>2, <2>3 DEF TypeOK, ShapeInv, FindingsInv
<1>. QED  BY <1>1, ShapeInvariance, PTL

-----------------------------------------------------------------------------
(* The two verdicts. *)

\* The kinds whose finding is under the key that is read from a row.
Alike == {"config", "protocol", "database", "trigger", "auditSetting"}

\* One finding of x, if it has one, against the indicator of its row on s.
Agree(s, x) ==
    Finding(x.kind, x.is) # None =>
        (Discrepant(Finding(x.kind, x.is)) <=> Marks(s, x).shows)

LEMMA AlikeAgree ==
    ASSUME NEW x, x.kind \in Alike
    PROVE  Agree(x.kind, x)
<1>1. CASE x.kind = "config"
  BY <1>1 DEF Agree, Finding, Marks, SheetVerdict, ConfigFinding, ConfigAction, Discrepant, None
<1>2. CASE x.kind = "protocol"
  BY <1>2 DEF Agree, Finding, Marks, SheetVerdict, ProtocolFinding, ProtocolAction, Discrepant, None
<1>3. CASE x.kind = "database"
  BY <1>3 DEF Agree, Finding, Marks, SheetVerdict, DatabaseFinding, DatabaseAction, Discrepant, None
<1>4. CASE x.kind = "trigger"
  BY <1>4 DEF Agree, Finding, Marks, SheetVerdict, TriggerFinding, TriggerAction, Discrepant, None
<1>5. CASE x.kind = "auditSetting"
  BY <1>5 DEF Agree, Finding, Marks, SheetVerdict, AuditSettingFinding, AuditSettingAction,
              Discrepant, None
<1>. QED  BY <1>1, <1>2, <1>3, <1>4, <1>5 DEF Alike

\* The row of an orphan on the orphans' sheet, and that of any user that is not
\* the server's own on the users'.
LEMMA UserAgrees ==
    ASSUME NEW x, x.kind = "dbUser", NEW s,
           (s = "orphan" /\ x.is.orphaned) \/ (s = "dbUser" /\ ~ x.is.internal)
    PROVE  Agree(s, x)
  BY DEF Agree, Finding, Marks, SheetVerdict, DbUserFinding, DbUserAction, Discrepant, None

\* Without the icon in front of the role both verdicts let it pass.
LEMMA PlainRoleAgrees ==
    ASSUME NEW x, x.kind = "dbRole", x.is.role \in {"db_datareader", "public"}
    PROVE  Agree("dbRole", x)
<1>1. x.is.role \notin {"db_owner", "db_accessadmin"}
  OBVIOUS
<1>. QED  BY <1>1
  DEF Agree, Finding, Marks, SheetVerdict, DbRoleFinding, DbRoleAction, Discrepant, None

\* Only services and keys have a mark beside the indicator on their own sheets.
LEMMA OneMark ==
    ASSUME NEW x, NEW s, x.kind \notin {"service", "key"}
    PROVE  Marks(s, x).shows \/ Marks(s, x).flagged <=> Marks(s, x).shows
<1>1. CASE s = "orphan"
  BY <1>1 DEF Marks
<1>2. CASE s # "orphan"
  BY <1>2 DEF Marks, StatusVerdict
<1>. QED  BY <1>1, <1>2

-----------------------------------------------------------------------------
(* Keys that cannot meet. *)

LEMMA KeyLengths ==
    ASSUME NEW S, NEW name \in Seq(S), NEW a, NEW b, NEW c, NEW d, NEW e
    PROVE  /\ Len(<<a>> \o name) = 1 + Len(name)
           /\ Len(<<a, b>> \o (<<c>> \o name)) = 3 + Len(name)
           /\ Len(<<a, b>> \o <<c, d>> \o name) = 4 + Len(name)
           /\ Len(<<a, b>> \o <<c>> \o (<<d>> \o <<e>> \o name)) = 5 + Len(name)
<1>. DEFINE T == S \cup {a, b, c, d, e}
<1>0. /\ name \in Seq(T) /\ Len(name) \in Nat /\ <<a>> \in Seq(T) /\ <<c>> \in Seq(T)
      /\ <<d>> \in Seq(T) /\ <<e>> \in Seq(T) /\ <<a, b>> \in Seq(T) /\ <<c, d>> \in Seq(T)
      /\ Len(<<a>>) = 1 /\ Len(<<c>>) = 1 /\ Len(<<d>>) = 1 /\ Len(<<e>>) = 1
      /\ Len(<<a, b>>) = 2 /\ Len(<<c, d>>) = 2
  OBVIOUS
<1>. HIDE DEF T
<1>1. \A p, q \in Seq(T) : p \o q \in Seq(T) /\ Len(p \o q) = Len(p) + Len(q)
  BY ConcatProperties
<1>2. Len(<<a>> \o name) = 1 + Len(name)
  BY <1>0, <1>1
<1>3. Len(<<a, b>> \o (<<c>> \o name)) = 3 + Len(name)
  <2>1. <<c>> \o name \in Seq(T) /\ Len(<<c>> \o name) = 1 + Len(name)
    BY <1>0, <1>1
  <2>. QED  BY <1>0, <1>1, <2>1
<1>4. Len(<<a, b>> \o <<c, d>> \o name) = 4 + Len(name)
  <2>1. <<a, b>> \o <<c, d>> \in Seq(T) /\ Len(<<a, b>> \o <<c, d>>) = 4
    BY <1>0, <1>1
  <2>. QED  BY <1>0, <1>1, <2>1
<1>5. Len(<<a, b>> \o <<c>> \o (<<d>> \o <<e>> \o name)) = 5 + Len(name)
  <2>1. <<d>> \o <<e>> \in Seq(T) /\ Len(<<d>> \o <<e>>) = 2
    BY <1>0, <1>1
  <2>2. <<d>> \o <<e>> \o name \in Seq(T) /\ Len(<<d>> \o <<e>> \o name) = 2 + Len(name)
    BY <1>0, <1>1, <2>1
  <2>3. <<a, b>> \o <<c>> \in Seq(T) /\ Len(<<a, b>> \o <<c>>) = 3
    BY <1>0, <1>1
  <2>. QED  BY <1>0, <1>1, <2>2, <2>3
<1>. QED  BY <1>2, <1>3, <1>4, <1>5

\* A row in step and a finding of what it stands for, under the row's key.
LEMMA FindingAgrees ==
    ASSUME NEW s \in Sheets, NEW i, IsTyped(s, sheets[s][i]), InStep(sheets[s][i], s),
           NEW f, f.key = ReadKey(s, i),
           IsFindingOf(f, sheets[s][i].by, sheets[s][i].thing)
    PROVE  Discrepant(f.status) <=> sheets[s][i].shows
<1>. DEFINE row == sheets[s][i]
            t == row.by
            x == row.thing
            key == ReadKey(s, i)
            srv == ReadCell(s, i, "server")
            inst == ReadCell(s, i, "instance")
            grp == ReadCell(s, i, "group")
<1>1. /\ t \in Targets /\ x \in Things(t) /\ HasRow(s, x) /\ row.own = Own(t, x)
      /\ row.shows = Marks(s, x).shows
  BY DEF IsTyped, IsRow
<1>2. x.name \in Seq(STRING)
  BY <1>1, ThingFields
<1>3. /\ f.key = key /\ x.kind # "noOrphans"
      /\ IF x.kind = "instance"
           THEN \E last \in {"sql_version", "default_instance_name"} :
                  f.key = <<ServerOf[t], Shown(InstanceOf[t])>> \o <<last>>
           ELSE f.key = FindingKey(t, x) /\ f.status = Finding(x.kind, x.is) /\ f.status # None
  BY DEF IsFindingOf
<1>4. /\ \/ x.kind \in {"instance", "role", "dbRole"} \cup Alike
         \/ x.kind = "dbUser" /\ (s = "orphan" \/ ~ x.is.internal)
      /\ x.kind # "dbUser" => s = x.kind
      /\ x.kind = "dbUser" => s \in {"dbUser", "orphan"} /\ (s = "orphan" => x.is.orphaned)
  BY <1>1, <1>3 DEF InStep, HasRow, Alike
<1>5. Agree(s, x) /\ x.kind # "instance" => (Discrepant(f.status) <=> row.shows)
  <2>. HIDE DEF row, t, x
  <2>. QED  BY <1>1, <1>3 DEF Agree
<1>6. row.own.name = Own(t, x).name
  BY <1>1
<1>. HIDE DEF row, t, x
<1>7. CASE x.kind = "instance"
  <2>1. key = <<srv, inst>>
    BY <1>4, <1>7 DEF ReadKey
  <2>2. \A a, b, c, d, e : <<a, b>> # <<c, d>> \o <<e>>
    OBVIOUS
  <2>. HIDE DEF key, srv, inst
  <2>. QED  BY <1>3, <1>7, <2>1, <2>2
<1>8. CASE x.kind = "role"
  <2>1. key = <<srv, inst>> \o (<<x.is.role>> \o x.name)
    BY <1>4, <1>6, <1>8 DEF ReadKey, Own, row
  <2>2. f.key = <<x.is.role>> \o x.name
    BY <1>3, <1>8 DEF FindingKey
  <2>3. Len(key) = 3 + Len(x.name) /\ Len(f.key) = 1 + Len(x.name) /\ Len(x.name) \in Nat
    <3>. HIDE DEF key, srv, inst
    <3>. QED  BY <1>2, <2>1, <2>2, KeyLengths
  <2>. HIDE DEF key
  <2>. QED  BY <1>3, <2>3
<1>9. CASE x.kind = "dbRole" /\ x.is.role \notin {"db_datareader", "public"}
  <2>1. key = <<srv, inst>> \o <<grp>> \o (<<"icon">> \o <<x.is.role>> \o x.name)
    BY <1>4, <1>6, <1>9 DEF ReadKey, Own, row
  <2>2. f.key = <<ServerOf[t], InstanceOf[t]>> \o <<x.group, x.is.role>> \o x.name
    BY <1>3, <1>9 DEF FindingKey
  <2>3. Len(key) = 5 + Len(x.name) /\ Len(f.key) = 4 + Len(x.name) /\ Len(x.name) \in Nat
    <3>. HIDE DEF key, srv, inst, grp
    <3>. QED  BY <1>2, <2>1, <2>2, KeyLengths
  <2>. HIDE DEF key
  <2>. QED  BY <1>3, <2>3
<1>10. CASE x.kind = "dbRole" /\ x.is.role \in {"db_datareader", "public"}
  <2>1. Agree("dbRole", x) /\ s = "dbRole"
    BY <1>4, <1>10, PlainRoleAgrees
  <2>. QED  BY <1>5, <1>10, <2>1 DEF row
<1>11. CASE x.kind = "dbUser"
  <2>1. (s = "orphan" /\ x.is.orphaned) \/ (s = "dbUser" /\ ~ x.is.internal)
    BY <1>4, <1>11 DEF Alike
  <2>2. Agree(s, x)
    BY <1>11, <2>1, UserAgrees
  <2>. QED  BY <1>5, <1>11, <2>2 DEF row
<1>12. CASE x.kind \in Alike
  <2>1. s = x.kind /\ x.kind # "instance"
    BY <1>4, <1>12 DEF Alike
  <2>2. Agree(x.kind, x)
    BY <1>12, AlikeAgree
  <2>. QED  BY <1>5, <2>1, <2>2 DEF row
<1>. QED  BY <1>4, <1>7, <1>8, <1>9, <1>10, <1>11, <1>12

\* A row of a kind whose two verdicts are in step asks for action exactly if a
\* justification on it is taken for an exception, whichever findings were lost
\* and under whatever keys the others are.
THEOREM ActionIsDiscrepant == Spec => []ActionNeededIsDiscrepant
<1>1. ShapeInv => ActionNeededIsDiscrepant
  <2>. SUFFICES ASSUME ShapeInv, NEW s \in Sheets, NEW i \in DOMAIN sheets[s],
                       InStep(sheets[s][i], s),
                       \A f \in findings : f.key = ReadKey(s, i) =>
                            f.by = sheets[s][i].by /\ f.thing = sheets[s][i].thing
                PROVE  Judged(s, i) <=> sheets[s][i].shows
    BY DEF ActionNeededIsDiscrepant
  <2>. DEFINE row == sheets[s][i]
              under == {f \in findings : f.key = ReadKey(s, i)}
  <2>1. IsTyped(s, row)
    BY DEF ShapeInv, SheetTyped, TableTyped, IsList
  <2>2. ASSUME NEW f \in under PROVE Discrepant(f.status) <=> row.shows
    <3>1. f \in findings /\ f.key = ReadKey(s, i) /\ f.by = row.by /\ f.thing = row.thing
      OBVIOUS
    <3>2. IsFindingOf(f, row.by, row.thing)
      BY <3>1 DEF ShapeInv, FindingsInv
    <3>. QED  BY <2>1, <3>1, <3>2, FindingAgrees
  <2>3. row.shows \/ row.flagged <=> row.shows
    <3>1. row.thing.kind \notin {"service", "key"}
      BY DEF InStep
    <3>2. row.shows = Marks(s, row.thing).shows /\ row.flagged = Marks(s, row.thing).flagged
      BY <2>1 DEF IsTyped
    <3>. HIDE DEF row
    <3>. QED  BY <3>1, <3>2, OneMark
  <2>4. Judged(s, i) = IF under = {} THEN row.shows \/ row.flagged
                       ELSE \E f \in under : Discrepant(f.status)
    BY DEF Judged
  <2>. HIDE DEF row, under
  <2>5. Judged(s, i) <=> row.shows
    BY <2>2, <2>3, <2>4
  <2>. QED  BY <2>5 DEF row
<1>. QED  BY <1>1, ShapeInvariance, PTL

=============================================================================
