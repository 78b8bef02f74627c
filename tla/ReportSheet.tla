----------------------------- MODULE ReportSheet ----------------------------
(***************************************************************************)
(* One audit's results on their way into the workbook and the database,    *)
(* and what the next sync makes of the pair.                               *)
(*                                                                         *)
(* The targets are collected by threads that share one writer.  Its lock   *)
(* covers one call, so the rows of the targets interleave; the finding of  *)
(* a row is saved after the call, over another connection, and may be      *)
(* lost without notice.  On every sheet the writer keeps the group that is *)
(* being written (server, instance and, on most, a third level) and merges *)
(* its cells when the group ends: only the first keeps a value.            *)
(*                                                                         *)
(* Reading the sheet back, sync fills an empty key cell with the last      *)
(* value above it, and takes the key it gets to the findings.              *)
(***************************************************************************)
EXTENDS Naturals, Sequences, ReportRules

CONSTANTS
    Targets,   \* what the threads collect
    ServerOf,
    InstanceOf,  \* "" for the default instance on the default port
    Estates    \* what there is to collect: a target's things in the order of
               \* the collectors, see Things

\* An empty cell, and the empty string, which is the same once saved.
Blank == ""

\* The tracked value of a row that takes no part in the third level.
NoGroup == "none"

Shown(instance) == IF instance = "" THEN "(default)" ELSE instance

Sheets == Kinds \cup {"orphan"}

\* The key columns that may hold no value of their own.
Columns == {"server", "instance", "group", "entity"}

\* A thing that is collected: the third level's value, the cells that name it
\* there, and the facts.  NoOrphans stands for the row that says so.
Thing(kind, group, name, entity, is) ==
    [kind |-> kind, group |-> group, name |-> name, entity |-> entity, is |-> is]

NoOrphans == Thing("noOrphans", "(all databases)", <<"none found">>, Blank, [none |-> TRUE])

ThingRecords ==
    [kind : Kinds \cup {"noOrphans"}, group : STRING, name : Seq(STRING), entity : STRING,
     is : UNION { Facts[k] : k \in Kinds } \cup [none : {TRUE}]]

\* A collector knows the facts of its kind; a service's name says its instance.
IsCollected(x) ==
    IF x.kind = "noOrphans" THEN x = NoOrphans
    ELSE x.is \in Facts[x.kind] /\ (x.kind = "service" => x.name # <<>>)

\* What the tool itself writes into key cells.
OwnWords == {Blank, "(default)", "(shared)", "(instance)"}

ASSUME ReportAssumption ==
    /\ OwnWords \subseteq STRING
    /\ ServerOf \in [Targets -> STRING \ {Blank}]
    /\ InstanceOf \in [Targets -> STRING]
    /\ Estates \subseteq [Targets -> Seq(ThingRecords)]
    /\ \A e \in Estates : \A t \in Targets : \A i \in DOMAIN e[t] : IsCollected(e[t][i])

VARIABLES
    todo,      \* target -> the things it has still to report
    at,        \* target -> how many steps of the first of them are done
    sheets,    \* sheet -> its rows
    groups,    \* sheet -> the group being written
    findings,  \* key -> the finding, with the thing it was saved for
    saved      \* has the workbook been completed?

vars == <<todo, at, sheets, groups, findings, saved>>

----------------------------------------------------------------------------
\* The sheets.

\* How many levels of groups a sheet's rows form.
Levels(sheet) ==
    CASE sheet = "sa"                                         -> 1
      [] sheet \in {"instance", "login", "role", "protocol"}  -> 2
      [] OTHER                                                -> 3

NoRows == [server |-> Blank, instance |-> Blank, group |-> Blank,
             serverStart |-> 1, instanceStart |-> 1, groupStart |-> 1,
             mixed |-> FALSE]

\* Merging the cells of column c from row start to the last.
MergeCells(rows, c, start, value) ==
    [i \in DOMAIN rows |->
        IF i < start THEN rows[i]
        ELSE [rows[i] EXCEPT !.cells[c] = IF i = start THEN value ELSE Blank]]

MergeGroup(sheet, rows, g) ==
    IF Levels(sheet) < 3 THEN rows ELSE MergeCells(rows, "group", g.groupStart, g.group)

\* The Instances sheet merges the instances of a server if they are all one.
MergeInstance(sheet, rows, g) ==
    IF Levels(sheet) < 2 \/ (sheet = "instance" /\ g.mixed) THEN rows
    ELSE MergeCells(MergeGroup(sheet, rows, g), "instance", g.instanceStart, g.instance)

MergeServer(sheet, rows, g) ==
    MergeCells(MergeInstance(sheet, rows, g), "server", g.serverStart, g.server)

\* The group that a row of this server, instance and tracked value belongs
\* to, and the rows once the groups that it ends have been merged.
GroupName(tracked) == IF tracked \in {NoGroup, Blank} THEN "(instance)" ELSE tracked

NewServer(sheet, own, tracked) ==
    LET next == Len(sheets[sheet]) + 1 IN
    [server |-> own.server, instance |-> own.instance, group |-> GroupName(tracked),
     serverStart |-> next, instanceStart |-> next, groupStart |-> next, mixed |-> FALSE]

\* Mutant of NewInstance: a second instance on the Instances sheet goes unnoticed.
NewInstanceUnmixed(sheet, own, tracked) ==
    LET next == Len(sheets[sheet]) + 1 IN
    IF sheet = "instance" THEN groups[sheet]
    ELSE [groups[sheet] EXCEPT !.instance = own.instance, !.group = GroupName(tracked),
                               !.instanceStart = next, !.groupStart = next]

NewInstance(sheet, own, tracked) ==
    LET next == Len(sheets[sheet]) + 1
        g    == groups[sheet] IN
    IF sheet = "instance" THEN [g EXCEPT !.mixed = TRUE]
    ELSE [g EXCEPT !.instance = own.instance, !.group = GroupName(tracked),
                   !.instanceStart = next, !.groupStart = next]

NewGroup(sheet, tracked) ==
    [groups[sheet] EXCEPT !.group = GroupName(tracked), !.groupStart = Len(sheets[sheet]) + 1]

\* A row holds what it stands for, its key cells and its two marks.
Row(t, x, own, marks) ==
    [by |-> t, thing |-> x, own |-> own, cells |-> [c \in Columns |-> own[c]],
     shows |-> marks.shows, flagged |-> marks.flagged]

Put(sheet, merged, row, group) ==
    /\ sheets' = [sheets EXCEPT ![sheet] = Append(merged, row)]
    /\ groups' = [groups EXCEPT ![sheet] = group]

AddRow(sheet, row, tracked) ==
    LET g    == groups[sheet]
        rows == sheets[sheet]
        own  == row.own
    IN
    CASE own.server # g.server ->
            Put(sheet, IF g.server = Blank THEN rows ELSE MergeServer(sheet, rows, g),
                row, NewServer(sheet, own, tracked))
      [] own.server = g.server /\ own.instance # g.instance /\ Levels(sheet) > 1 ->
            Put(sheet, IF sheet = "instance" THEN rows ELSE MergeInstance(sheet, rows, g),
                row, NewInstance(sheet, own, tracked))
      [] own.server = g.server /\ own.instance = g.instance
         /\ tracked # NoGroup /\ GroupName(tracked) # g.group ->
            Put(sheet, MergeGroup(sheet, rows, g), row, NewGroup(sheet, tracked))
      [] OTHER -> Put(sheet, rows, row, g)

----------------------------------------------------------------------------
\* What a thing turns into.

\* A service's instance is what the query takes from its name, if anything.
ServiceInstance(t, x) ==
    CASE x.is.type = "shared"                         -> "(shared)"
      [] x.is.type # "shared" /\ Head(x.name) # Blank -> Head(x.name)
      [] OTHER                                        -> Shown(InstanceOf[t])

\* What is written into the key columns of its rows.
Own(t, x) ==
    [server   |-> ServerOf[t],
     instance |-> IF x.kind = "service" THEN ServiceInstance(t, x) ELSE Shown(InstanceOf[t]),
     group    |-> x.group,
     name     |-> CASE x.kind = "role" -> <<x.is.role>> \o x.name
                    [] x.kind = "dbRole" ->
                         (IF x.is.role \in {"db_datareader", "public"} THEN <<>> ELSE <<"icon">>)
                         \o <<x.is.role>> \o x.name
                    [] OTHER -> x.name,
     entity   |-> x.entity]

\* Mutant of Tracked: the sheets do not pass their third level.
TrackedNever(sheet, x) == NoGroup

Tracked(sheet, x) ==
    IF Levels(sheet) < 3 \/ x.kind = "noOrphans" \/ (x.kind = "trigger" /\ x.is.server)
    THEN NoGroup ELSE x.group

Marks(sheet, x) ==
    [shows   |-> IF sheet = "orphan" THEN x.kind # "noOrphans" ELSE SheetVerdict(x.kind, x.is),
     flagged |-> IF sheet = "orphan" THEN x.kind # "noOrphans" ELSE StatusVerdict(x.kind, x.is)]

RowsOf(x) ==
    CASE x.kind = "noOrphans"                           -> <<"orphan">>
      [] x.kind = "dbUser" /\ x.is.orphaned      -> <<"dbUser", "orphan">>
      [] x.kind # "noOrphans" /\ ~ (x.kind = "dbUser" /\ x.is.orphaned) -> <<x.kind>>

\* The key of a thing's finding.  Some collectors build it themselves: without
\* the display name of a default instance, or without server and instance.
FindingKey(t, x) ==
    LET place == <<ServerOf[t], Shown(InstanceOf[t])>>
        raw   == <<ServerOf[t], InstanceOf[t]>>
    IN
    CASE x.kind = "instance"             -> place \o <<"sql_version">>
      [] x.kind \in {"sa", "login"}      -> place \o x.name
      [] x.kind \in {"config", "backup", "database", "auditSetting"} -> place \o <<x.group>>
      [] x.kind = "linked"               -> place \o <<x.group>> \o
                                                (IF x.is.mapped THEN x.name ELSE <<>>)
      [] x.kind = "dbUser"               -> place \o <<x.group>> \o x.name
      [] x.kind = "key"                  -> place \o <<x.group>> \o Tail(x.name)
      [] x.kind = "service"              -> <<ServerOf[t], Own(t, x).instance>> \o <<x.group>>
      [] x.kind = "protocol"             -> raw \o x.name
      [] x.kind = "dbRole"               -> raw \o <<x.group, x.is.role>> \o x.name
      [] x.kind = "trigger"              -> raw \o <<Head(x.name), x.group>> \o Tail(x.name)
      [] x.kind = "permission"           -> raw \o <<Head(x.name), x.group>> \o Tail(x.name)
                                                \o <<IF x.entity = Blank THEN "none" ELSE x.entity>>
      [] x.kind = "role"                 -> <<x.is.role>> \o x.name

Saved(t, x, key, status) ==
    IF status = None THEN <<>>
    ELSE << [key |-> key, status |-> status, by |-> t, thing |-> x] >>

FindingsOf(t, x) ==
    CASE x.kind = "noOrphans"         -> <<>>
      [] x.kind = "instance"   ->
            Saved(t, x, FindingKey(t, x), VersionFinding(x.is)) \o
            Saved(t, x, <<ServerOf[t], Shown(InstanceOf[t]), "default_instance_name">>,
                  NamingFinding(x.is))
      [] x.kind \notin {"noOrphans", "instance"} ->
            Saved(t, x, FindingKey(t, x), Finding(x.kind, x.is))

----------------------------------------------------------------------------
Init ==
    /\ todo \in Estates
    /\ at = [t \in Targets |-> 0]
    /\ sheets = [s \in Sheets |-> <<>>]
    /\ groups = [s \in Sheets |-> NoRows]
    /\ findings = {}
    /\ saved = FALSE

\* Done with step n of the first thing.
Advance(t, n) ==
    LET x == Head(todo[t]) IN
    IF n = Len(RowsOf(x)) + Len(FindingsOf(t, x))
    THEN /\ todo' = [todo EXCEPT ![t] = Tail(@)]
         /\ at' = [at EXCEPT ![t] = 0]
    ELSE /\ todo' = todo
         /\ at' = [at EXCEPT ![t] = n]

\* One locked call of the writer.
WriteRow(t) ==
    /\ todo[t] # <<>>
    /\ LET x == Head(todo[t])
           n == at[t] + 1 IN
       /\ n <= Len(RowsOf(x))
       /\ x.kind = "noOrphans" =>
             /\ \E i \in DOMAIN sheets["dbUser"] : sheets["dbUser"][i].by = t
             /\ \A i \in DOMAIN sheets["orphan"] : sheets["orphan"][i].by # t
       /\ LET sheet == RowsOf(x)[n] IN
          AddRow(sheet, Row(t, x, Own(t, x), Marks(sheet, x)), Tracked(sheet, x))
       /\ Advance(t, n)
    /\ UNCHANGED <<findings, saved>>

\* An instance without users, or with orphans, gets no such row.
SkipNoOrphans(t) ==
    /\ todo[t] # <<>>
    /\ Head(todo[t]).kind = "noOrphans"
    /\ \/ \A i \in DOMAIN sheets["dbUser"] : sheets["dbUser"][i].by # t
       \/ \E i \in DOMAIN sheets["orphan"] : sheets["orphan"][i].by = t
    /\ todo' = [todo EXCEPT ![t] = Tail(@)]
    /\ UNCHANGED <<at, sheets, groups, findings, saved>>

NextFinding(t) ==
    LET x == Head(todo[t]) IN FindingsOf(t, x)[at[t] + 1 - Len(RowsOf(x))]

\* Mutant of Replace: findings are inserted, whatever is there.
Insert(f) == findings \cup {f}

\* The table is unique by key: a finding replaces another.
Replace(f) == {g \in findings : g.key # f.key} \cup {f}

SaveFinding(t) ==
    /\ todo[t] # <<>>
    /\ at[t] >= Len(RowsOf(Head(todo[t])))
    /\ findings' = Replace(NextFinding(t))
    /\ Advance(t, at[t] + 1)
    /\ UNCHANGED <<sheets, groups, saved>>

\* An error in the saving is logged and forgotten.
LoseFinding(t) ==
    /\ todo[t] # <<>>
    /\ at[t] >= Len(RowsOf(Head(todo[t])))
    /\ Advance(t, at[t] + 1)
    /\ UNCHANGED <<sheets, groups, findings, saved>>

\* An error while a thing is collected ends what its handler covers: the kind,
\* for kinds collected database by database the kind there, for the list of
\* databases all that is found by it, and for the logins the whole target.
PerDatabase(x) ==
    \/ x.kind \in {"dbUser", "dbRole"}
    \/ x.kind \in {"trigger", "permission"} /\ Head(x.name) = "database"

GivenUp(failed, x) ==
    CASE failed.kind \in {"sa", "login"} -> TRUE
      [] failed.kind = "database"        -> x.kind = "database" \/ x.kind = "noOrphans" \/ PerDatabase(x)
      [] PerDatabase(failed)             -> x.kind = failed.kind /\ x.group = failed.group
      [] OTHER                           -> x.kind = failed.kind /\ ~ PerDatabase(x)

\* What a target has still to report after that.
Spared(failed, things) ==
    LET spared[n \in 0 .. Len(things)] ==
            IF n = 0 THEN <<>>
            ELSE spared[n - 1] \o (IF GivenUp(failed, things[n]) THEN <<>> ELSE <<things[n]>>)
    IN  spared[Len(things)]

CollectorFails(t) ==
    /\ todo[t] # <<>>
    /\ at[t] = 0
    /\ Head(todo[t]).kind # "noOrphans"
    /\ todo' = [todo EXCEPT ![t] = Spared(Head(@), @)]
    /\ UNCHANGED <<at, sheets, groups, findings, saved>>

\* The last groups are merged as the workbook is saved, but for the encryption
\* keys', whose sheet has nothing that would do it.
SaveWorkbook ==
    /\ ~ saved
    /\ \A t \in Targets : todo[t] = <<>>
    /\ sheets' = [s \in Sheets |->
          IF s = "key" \/ groups[s].server = Blank THEN sheets[s]
          ELSE MergeServer(s, sheets[s], groups[s])]
    /\ saved' = TRUE
    /\ UNCHANGED <<todo, at, groups, findings>>

Next ==
    \/ \E t \in Targets : WriteRow(t) \/ SkipNoOrphans(t) \/ SaveFinding(t)
                           \/ LoseFinding(t) \/ CollectorFails(t)
    \/ SaveWorkbook

Spec == Init /\ [][Next]_vars

----------------------------------------------------------------------------
\* Reading the workbook back.

\* A key cell, or the last value above it.
ReadCell(sheet, i, c) ==
    LET Filled == {j \in 1 .. i : sheets[sheet][j].cells[c] # Blank} IN
    IF Filled = {} THEN Blank
    ELSE sheets[sheet][CHOOSE j \in Filled : \A k \in Filled : k <= j].cells[c]

\* The legacy key: the sheet's key columns, in the order they are listed.
ReadKey(sheet, i) ==
    LET place  == <<ReadCell(sheet, i, "server"), ReadCell(sheet, i, "instance")>>
        group  == ReadCell(sheet, i, "group")
        entity == ReadCell(sheet, i, "entity")
        name   == sheets[sheet][i].own.name
    IN
    CASE sheet = "instance"                                  -> place
      [] sheet \in {"sa", "login", "role", "protocol", "key"} -> place \o name
      [] sheet \in {"config", "service", "linked", "backup", "database", "auditSetting"} ->
            place \o <<group>>
      [] sheet \in {"dbUser", "dbRole", "orphan"}            -> place \o <<group>> \o name
      [] sheet = "trigger"    -> place \o <<Head(name), group>> \o Tail(name)
      [] sheet = "permission" -> place \o <<Head(name), group>> \o Tail(name) \o <<entity>>

\* How change detection judges a row: by the finding under its key, if there
\* is one, by its marks otherwise.
Judged(sheet, i) ==
    LET row   == sheets[sheet][i]
        under == {f \in findings : f.key = ReadKey(sheet, i)} IN
    IF under = {} THEN row.shows \/ row.flagged
    ELSE \E f \in under : Discrepant(f.status)

----------------------------------------------------------------------------
\* Properties.

Things(t) == UNION { {e[t][i] : i \in DOMAIN e[t]} : e \in Estates }

TypeOK ==
    /\ \A t \in Targets : todo[t] \in Seq(Things(t)) /\ at[t] \in 0 .. 3
    /\ \A s \in Sheets : \A i \in DOMAIN sheets[s] :
          LET row == sheets[s][i] IN
          /\ row.by \in Targets
          /\ row.thing \in Things(row.by)
          /\ \A c \in Columns : row.cells[c] \in STRING
    /\ \A s \in Sheets :
          /\ groups[s].serverStart <= groups[s].instanceStart
          /\ groups[s].instanceStart <= groups[s].groupStart
          /\ groups[s].groupStart <= Len(sheets[s]) + 1
    /\ \A f, g \in findings : f.key = g.key => f = g
    /\ saved \in BOOLEAN

\* However the targets' rows interleave and wherever their groups end, merged
\* cells lead back to the row's own server and instance, and to its own value
\* in every column it filled (server_group.py, annotation_sync.py: last
\* non-empty value).  The third level holds for the rows that take part in it.
Fills(row, sheet, c) ==
    \/ c \in {"server", "instance"}
    \/ c = "group" /\ Tracked(sheet, row.thing) \notin {NoGroup, Blank}
    \/ c = "entity" /\ row.own.entity # Blank

KeyCellsReadBack ==
    \A s \in Sheets : \A i \in DOMAIN sheets[s] : \A c \in Columns :
        Fills(sheets[s][i], s, c) => ReadCell(s, i, c) = sheets[s][i].own[c]

\* For the kinds that keep their two verdicts in step, a row asks for action
\* exactly if change detection takes a justification on it for an exception:
\* even if its finding was lost, or is under a key the row does not lead to.
\* Not so for the others (see README), and not if a finding of another thing
\* is under the row's key.
InStep(row, sheet) ==
    \/ row.thing.kind \in {"instance", "role", "config", "protocol", "database",
                           "dbRole", "trigger", "auditSetting", "noOrphans"}
    \/ row.thing.kind = "dbUser" /\ (sheet = "orphan" \/ ~ row.thing.is.internal)

ActionNeededIsDiscrepant ==
    saved => \A s \in Sheets : \A i \in DOMAIN sheets[s] :
        LET row == sheets[s][i] IN
        /\ InStep(row, s)
        /\ \A f \in findings : f.key = ReadKey(s, i) => f.by = row.by /\ f.thing = row.thing
        => (Judged(s, i) <=> row.shows)

\* A justification that is removed is only noticed under a finding: for these
\* rows the key that is read is the key the finding was saved under, also when
\* a row above ends with another entity, database or server.
Meets(row) ==
    \/ row.thing.kind \in {"sa", "login", "config", "service", "backup", "database",
                           "dbUser", "auditSetting"}
    \/ row.thing.kind = "linked" /\ ~ row.thing.is.mapped
    \/ row.thing.kind = "protocol" /\ InstanceOf[row.by] # ""
    \/ row.thing.kind = "permission" /\ InstanceOf[row.by] # "" /\ row.thing.entity # Blank

RowsMeetTheirFindings ==
    saved => \A s \in Sheets : \A i \in DOMAIN sheets[s] :
        Meets(sheets[s][i]) =>
            ReadKey(s, i) = FindingKey(sheets[s][i].by, sheets[s][i].thing)

=============================================================================
