----------------------- MODULE RemoteConnectionProofs -----------------------
(***************************************************************************)
(* What is proved of RemoteConnection for any servers, threads and faults: *)
(* the tables of attempts and profiles and what callers are told agree,    *)
(* however the threads of a command interleave and wherever one fails; the *)
(* scripts that a failed call hands over undo what it did.                 *)
(*                                                                         *)
(* The results about the tables rest on each other's strengthening: a      *)
(* success is on record only because its attempt had a profile id to be    *)
(* logged with, and attempts keep their profile only because an id, once   *)
(* given, stays.                                                           *)
(*                                                                         *)
(* That the scripts undo is kept at every step of the call: whatever was   *)
(* recorded so far leads from the settings as they are to those it met,    *)
(* and what it has read of this machine is still so when it is overwritten.*)
(***************************************************************************)
EXTENDS RemoteConnection, FiniteSetTheorems, SequenceTheorems, WellFoundedInduction, TLAPS

USE ConnectionAssumption

Attempts == [call : Servers, to : Names, pid : Nat, ok : BOOLEAN]

TypedWays == [auth : {NotSet, NoneText, "Kerberos", "Basic"},
              protocol : {NotSet, "http", "https", "ssh"}, port : Nat]

TypedProfiles == [Names -> [id : Nat, ok : BOOLEAN, way : TypedWays]]

\* A call's record has these fields and no others.
IsRecord(r) ==
    r \in [pc : {r.pc}, pid : {r.pid}, way : {r.way}, to : {r.to}, tried : {r.tried},
           told : {r.told}, seen : {r.seen}, read : {r.read}, step : {r.step},
           scripts : {r.scripts}, before : {r.before}, clean : {r.clean}]

\* Those that matter here are typed.
JobShape(r) ==
    /\ IsRecord(r)
    /\ r.pid \in Nat
    /\ r.way \in TypedWays
    /\ r.to \in Names \cup {""}
    /\ r.tried \subseteq Attempts

IsCommand(c) ==
    c \in [entry : {c.entry}, over : {c.over}, dry : {c.dry}, elevated : {c.elevated},
          parallel : {c.parallel}, creds : {c.creds}, round : {c.round}]

ShapeInv ==
    /\ IsCommand(command)
    /\ DOMAIN jobs = AllJobs
    /\ \A j \in AllJobs : JobShape(jobs[j])

\* A call between its first look at the profile and its last commit.
Connecting == {"begin", "stored", "read", "trust", "readclient", "winrm", "capture",
               "policy", "target", "fallback"} \cup Direct

Ending == {"manual", "save", "log", "remember"}

IdOf(s) == profiles[s].id

\* A call knows the id of its server's profile, and has made its attempts
\* under it, but for those of the fallbacks, which are made last and only to
\* the server's own name.
AttemptsInv(r, s) ==
    /\ r.pc \in Connecting \cup Ending => r.pid # 0 /\ r.pid = IdOf(s)
    /\ \A a \in r.tried : /\ a.call = s
                          /\ a.pid = 0 \/ a.pid = IdOf(s)
                          /\ a.pid = 0 => r.pc \in Ending
                          /\ a.pid = 0 /\ r.pc = "save" => r.to = s

\* A call that has connected knows the attempt that did it, which is logged
\* before the caller hears of it.
SuccessInv(r, s) ==
    /\ r.pc \in {"save", "log", "remember"} =>
         /\ r.to \in Names
         /\ <<r.to, r.way.port>> \in opened
         /\ \E a \in r.tried : a.to = r.to /\ a.ok
    /\ r.pc = "remember" => r.tried \subseteq logged
    /\ r.pc = "queued" => r.to = ""
    /\ r.told = "success" =>
         /\ r.pc = "done"
         /\ \/ \E a \in logged : a.call = s /\ a.to = r.to /\ a.ok
            \/ r.to = "" /\ (profiles[s].ok \/ command.entry = "targets")

JobInv(r, s) ==
    /\ AttemptsInv(r, s)
    /\ SuccessInv(r, s)
    /\ r.pc = "alias" => s \in Addresses

TablesInv ==
    /\ profiles \in TypedProfiles
    /\ logged \subseteq Attempts
    /\ \A a \in logged : a.pid # 0 /\ a.pid = IdOf(a.call)
    /\ \A n \in Names : profiles[n].ok => <<n, profiles[n].way.port>> \in opened

IdleInv == command = Idle => \A j \in AllJobs : jobs[j] = Absent

IInv ==
    /\ ShapeInv
    /\ TablesInv
    /\ IdleInv
    /\ \A j \in AllJobs : JobInv(jobs[j], Server(j))

-----------------------------------------------------------------------------
(* Names, ids and saved profiles. *)

LEMMA ServerKnown ==
    ASSUME NEW j \in AllJobs
    PROVE  Server(j) \in Servers /\ Server(j) \in Names
  BY DEF Server, AllJobs, Names

LEMMA NextIdPositive ==
    NextId \in Nat /\ NextId # 0
<1>1. IsFiniteSet({ n \in Names : profiles[n].id # 0 })
  BY FS_Subset
<1>. QED  BY <1>1, FS_CardinalityType DEF NextId

\* What no step of a call undoes: ids stay, successes stay, logged stays.
Grows ==
    /\ \A n \in Names : IdOf(n) # 0 => IdOf(n)' = IdOf(n)
    /\ \A n \in Names : profiles[n].ok => profiles'[n].ok
    /\ logged \subseteq logged'
    /\ opened \subseteq opened'

LEMMA EnsuredProfiles ==
    ASSUME TablesInv, NEW s \in Names
    PROVE  /\ Ensured(s) \in TypedProfiles
           /\ Ensured(s)[s].id # 0
           /\ \A n \in Names : profiles[n].id # 0 => Ensured(s)[n].id = profiles[n].id
           /\ \A n \in Names : Ensured(s)[n].ok = profiles[n].ok
           /\ \A n \in Names : Ensured(s)[n].way = profiles[n].way
  BY NextIdPositive DEF Ensured, TablesInv, TypedProfiles

LEMMA SavedProfiles ==
    ASSUME TablesInv, NEW name \in Names, NEW way \in TypedWays
    PROVE  /\ Saved(name, way) \in TypedProfiles
           /\ \A n \in Names : profiles[n].id # 0 => Saved(name, way)[n].id = profiles[n].id
           /\ Saved(name, way)[name].ok
           /\ Saved(name, way)[name].way = way
           /\ \A n \in Names \ {name} : Saved(name, way)[n] = profiles[n]
  BY NextIdPositive DEF Saved, TablesInv, TypedProfiles

-----------------------------------------------------------------------------
(* Steps of one call. *)

Alone(j) == \A i \in AllJobs \ {j} : jobs'[i] = jobs[i]

\* What is left to show of a call's step: its own job and the tables.
Kept(j) ==
    /\ command' = command
    /\ Alone(j)
    /\ DOMAIN jobs' = AllJobs
    /\ JobShape(jobs'[j])
    /\ JobInv(jobs[j], Server(j))'
    /\ TablesInv'
    /\ Grows
    /\ command # Idle

LEMMA CallStep ==
    ASSUME IInv, NEW j \in AllJobs, Kept(j)
    PROVE  IInv'
<1>1. ShapeInv'
  BY DEF Kept, Alone, ShapeInv, IInv
<1>2. \A i \in AllJobs : JobInv(jobs[i], Server(i))'
  <2>. SUFFICES ASSUME NEW i \in AllJobs, i # j PROVE JobInv(jobs[i], Server(i))'
    BY DEF Kept
  <2>1. jobs'[i] = jobs[i] /\ Server(i)' = Server(i) /\ Server(i) \in Names
    BY ServerKnown DEF Kept, Alone, Server
  <2>2. JobInv(jobs[i], Server(i)) /\ JobShape(jobs[i])
    BY DEF IInv, ShapeInv
  <2>3. /\ AttemptsInv(jobs[i], Server(i))'
        /\ SuccessInv(jobs[i], Server(i))'
        /\ jobs'[i].pc = "alias" => Server(i) \in Addresses
    <3>. DEFINE r == jobs[i]
               s == Server(i)
    <3>. QED  BY <2>1, <2>2 DEF Kept, JobInv, AttemptsInv, SuccessInv, Grows, JobShape,
                Connecting, Direct, Ending, IdOf
  <2>. QED  BY <2>3 DEF JobInv
<1>3. IdleInv'
  BY DEF Kept, IdleInv
<1>. QED  BY <1>1, <1>2, <1>3 DEF Kept, IInv

SameTables == UNCHANGED <<profiles, logged, opened>>

LEMMA SameTablesGrow ==
    ASSUME IInv, SameTables
    PROVE  TablesInv' /\ Grows
  BY DEF IInv, TablesInv, SameTables, Grows, IdOf

LEMMA AbsentFields ==
    /\ IsRecord(Absent) /\ Absent.pc = "absent" /\ Absent.told = "none" /\ Absent.pid = 0
    /\ Absent.to = "" /\ Absent.tried = {} /\ Absent.way = NoWay
  BY DEF Absent, IsRecord

LEMMA NoWayTyped == NoWay \in TypedWays
  BY DEF NoWay, Way, NotSet, TypedWays

\* A call only exists while a command runs.
LEMMA Running ==
    ASSUME IInv, NEW j \in AllJobs, jobs[j].pc # "absent"
    PROVE  command # Idle
  BY AbsentFields DEF IInv, IdleInv

\* A step that neither tries nor tells anything.
Passes(j) ==
    /\ jobs[j].pc \in Connecting
    /\ jobs'[j].pc \in Connecting \cup {"manual"}
    /\ jobs'[j].pc = "alias" => Server(j) \in Addresses
    /\ JobShape(jobs'[j])
    /\ jobs'[j].pid = jobs[j].pid
    /\ jobs'[j].tried = jobs[j].tried
    /\ jobs'[j].told = jobs[j].told
    /\ Alone(j)
    /\ DOMAIN jobs' = AllJobs
    /\ command' = command
    /\ SameTables

LEMMA PassingStep ==
    ASSUME IInv, NEW j \in AllJobs, Passes(j)
    PROVE  IInv'
<1>1. TablesInv' /\ Grows /\ command # Idle
  BY SameTablesGrow, Running DEF Passes, Connecting, Direct
<1>2. JobInv(jobs[j], Server(j)) /\ Server(j)' = Server(j)
  BY DEF IInv, Server
<1>3. /\ AttemptsInv(jobs[j], Server(j))'
      /\ SuccessInv(jobs[j], Server(j))'
  BY <1>2 DEF Passes, SameTables, JobInv, AttemptsInv, SuccessInv, Connecting, Direct,
     Ending, IdOf
<1>4. Kept(j)
  BY <1>1, <1>3 DEF Kept, Passes, JobInv
<1>. QED  BY <1>4, CallStep

\* A call that returns a failure leaves nothing behind but what it logged.
Fails(j) ==
    /\ jobs[j].pc # "absent"
    /\ \E to \in Names \cup {""} : \E scripts : jobs' = [jobs EXCEPT ![j] = Returned("failure", to, scripts)]
    /\ command' = command
    /\ TablesInv'
    /\ Grows

\* What is known of the record of a call that has returned.
IsDone(r, told, to) ==
    /\ IsRecord(r)
    /\ r.pc = "done"
    /\ r.told = told
    /\ r.to = to
    /\ r.tried = {}
    /\ r.pid \in Nat
    /\ r.way \in TypedWays

LEMMA ReturnedFields ==
    ASSUME NEW told, NEW to, NEW scripts
    PROVE  IsDone(Returned(told, to, scripts), told, to)
  BY NoWayTyped DEF Returned, Absent, IsRecord, IsDone

LEMMA DoneShape ==
    ASSUME NEW told, NEW to \in Names \cup {""}, NEW r, IsDone(r, told, to)
    PROVE  JobShape(r)
  BY DEF IsDone, JobShape

LEMMA FailingStep ==
    ASSUME IInv, NEW j \in AllJobs, Fails(j)
    PROVE  IInv'
<1>1. PICK to \in Names \cup {""} :
         \E scripts : jobs' = [jobs EXCEPT ![j] = Returned("failure", to, scripts)]
  BY DEF Fails
<1>p. PICK scripts : jobs' = [jobs EXCEPT ![j] = Returned("failure", to, scripts)]
  BY <1>1
<1>2. DOMAIN jobs' = AllJobs /\ Alone(j) /\ jobs'[j] = Returned("failure", to, scripts)
  BY <1>p DEF IInv, ShapeInv, Alone
<1>3. /\ JobShape(jobs'[j])
      /\ jobs'[j].pc = "done" /\ jobs'[j].told = "failure" /\ jobs'[j].tried = {}
  <2>1. IsDone(jobs'[j], "failure", to)
    <3>1. IsDone(Returned("failure", to, scripts), "failure", to)
      BY ReturnedFields, Zenon
    <3>2. jobs'[j] = Returned("failure", to, scripts)
      BY <1>2
    <3>. QED  BY <3>1, <3>2, Zenon
  <2>2. JobShape(jobs'[j])
    BY <2>1, DoneShape
  <2>. QED  BY <2>1, <2>2 DEF IsDone
<1>4. JobInv(jobs[j], Server(j))'
  BY <1>3 DEF JobInv, AttemptsInv, SuccessInv, Connecting, Direct, Ending
<1>5. Kept(j)
  BY <1>2, <1>3, <1>4, Running DEF Kept, Fails
<1>. QED  BY <1>5, CallStep

\* What a step makes of a call's record, in the fields that matter.
Becomes(q, r, pc, pid, way, to, tried) ==
    /\ IsRecord(q)
    /\ q.pc = pc
    /\ q.pid = pid
    /\ q.way = way
    /\ q.to = to
    /\ q.tried = tried
    /\ q.told = r.told

LEMMA PcSet ==
    ASSUME NEW r, IsRecord(r), NEW pc
    PROVE  Becomes([r EXCEPT !.pc = pc], r, pc, r.pid, r.way, r.to, r.tried)
  BY DEF IsRecord, Becomes

LEMMA SettingsSeen ==
    ASSUME NEW r, IsRecord(r), NEW pc, NEW read, NEW seen, NEW clean
    PROVE  Becomes([r EXCEPT !.pc = pc, !.read = read, !.seen = seen, !.clean = clean], r, pc, r.pid, r.way, r.to, r.tried)
  BY DEF IsRecord, Becomes

LEMMA PcCleanSet ==
    ASSUME NEW r, IsRecord(r), NEW pc, NEW clean
    PROVE  Becomes([r EXCEPT !.pc = pc, !.clean = clean], r, pc, r.pid, r.way, r.to, r.tried)
  BY DEF IsRecord, Becomes

LEMMA AttemptSet ==
    ASSUME NEW r, IsRecord(r), NEW pc, NEW tried
    PROVE  Becomes([r EXCEPT !.pc = pc, !.tried = tried], r, pc, r.pid, r.way, r.to, tried)
  BY DEF IsRecord, Becomes

LEMMA ConnectionSet ==
    ASSUME NEW r, IsRecord(r), NEW pc, NEW way, NEW to, NEW tried
    PROVE  Becomes([r EXCEPT !.pc = pc, !.way = way, !.to = to, !.tried = tried], r, pc, r.pid, way, to, tried)
  BY DEF IsRecord, Becomes

LEMMA BeginSet ==
    ASSUME NEW r, IsRecord(r), NEW pc, NEW pid, NEW before
    PROVE  Becomes([r EXCEPT !.pc = pc, !.pid = pid, !.before = before], r, pc, pid, r.way, r.to, r.tried)
  BY DEF IsRecord, Becomes

LEMMA PcStepSet ==
    ASSUME NEW r, IsRecord(r), NEW pc, NEW step
    PROVE  Becomes([r EXCEPT !.pc = pc, !.step = step], r, pc, r.pid, r.way, r.to, r.tried)
  BY DEF IsRecord, Becomes

LEMMA PcCleanStepSet ==
    ASSUME NEW r, IsRecord(r), NEW pc, NEW clean, NEW step
    PROVE  Becomes([r EXCEPT !.pc = pc, !.clean = clean, !.step = step], r, pc, r.pid, r.way, r.to, r.tried)
  BY DEF IsRecord, Becomes

LEMMA PcStepCleanSet ==
    ASSUME NEW r, IsRecord(r), NEW pc, NEW step, NEW clean
    PROVE  Becomes([r EXCEPT !.pc = pc, !.step = step, !.clean = clean], r, pc, r.pid, r.way, r.to, r.tried)
  BY DEF IsRecord, Becomes

LEMMA StepSet ==
    ASSUME NEW r, IsRecord(r), NEW step
    PROVE  Becomes([r EXCEPT !.step = step], r, r.pc, r.pid, r.way, r.to, r.tried)
  BY DEF IsRecord, Becomes

LEMMA StepCleanSet ==
    ASSUME NEW r, IsRecord(r), NEW step, NEW clean
    PROVE  Becomes([r EXCEPT !.step = step, !.clean = clean], r, r.pc, r.pid, r.way, r.to, r.tried)
  BY DEF IsRecord, Becomes

LEMMA PassingSet ==
    ASSUME IInv, NEW j \in AllJobs, jobs[j].pc \in Connecting,
           NEW pc \in Connecting \cup {"manual"}, pc = "alias" => Server(j) \in Addresses,
           NEW q, jobs' = [jobs EXCEPT ![j] = q], command' = command, SameTables,
           Becomes(q, jobs[j], pc, jobs[j].pid, jobs[j].way, jobs[j].to, jobs[j].tried)
    PROVE  IInv'
<1>1. JobShape(jobs[j]) /\ DOMAIN jobs = AllJobs
  BY DEF IInv, ShapeInv
<1>2. jobs'[j] = q /\ DOMAIN jobs' = AllJobs /\ Alone(j)
  BY <1>1 DEF Alone
<1>3. JobShape(q)
  BY <1>1 DEF Becomes, JobShape
<1>4. Passes(j)
  BY <1>2, <1>3 DEF Passes, Becomes
<1>. QED  BY <1>4, PassingStep

LEMMA KnownRecord ==
    ASSUME IInv, NEW j \in AllJobs
    PROVE  IsRecord(jobs[j]) /\ JobShape(jobs[j]) /\ JobInv(jobs[j], Server(j))
  BY DEF IInv, ShapeInv, JobShape

LEMMA Steps ==
    ASSUME IInv, NEW j \in AllJobs, jobs[j].pc \in Connecting, NEW pc \in Connecting \cup {"manual"},
           pc = "alias" => Server(j) \in Addresses, Step(j, pc), command' = command, SameTables
    PROVE  IInv'
<1>1. Becomes([jobs[j] EXCEPT !.pc = pc], jobs[j], pc, jobs[j].pid, jobs[j].way, jobs[j].to, jobs[j].tried)
  BY KnownRecord, PcSet
<1>2. jobs' = [jobs EXCEPT ![j] = [jobs[j] EXCEPT !.pc = pc]]
  BY DEF Step
<1>. QED  BY <1>1, <1>2, PassingSet

LEMMA Raises ==
    ASSUME IInv, NEW j \in AllJobs, jobs[j].pc # "absent", Raise(j), command' = command, SameTables
    PROVE  IInv'
<1>1. jobs[j].to \in Names \cup {""}
  BY KnownRecord DEF JobShape
<1>2. jobs' = [jobs EXCEPT ![j] = Returned("failure", jobs[j].to, <<>>)]
  BY DEF Raise, End
<1>3. Fails(j)
  BY <1>1, <1>2, SameTablesGrow DEF Fails
<1>. QED  BY <1>3, FailingStep

LEMMA PrepareLocalhostKeeps ==
    ASSUME IInv, NEW j \in AllJobs, PrepareLocalhost(j)
    PROVE  IInv'
<1>1. jobs[j].pc \in Connecting /\ jobs[j].pc # "absent" /\ SameTables /\ command' = command
  BY DEF PrepareLocalhost, Connecting, SameTables
<1>2. CASE Step(j, "local")
  BY <1>1, <1>2, Steps DEF Connecting, Direct
<1>3. CASE Raise(j)
  BY <1>1, <1>3, Raises
<1>. QED  BY <1>2, <1>3 DEF PrepareLocalhost

LEMMA AfterDirectKnown ==
    ASSUME NEW j \in AllJobs, jobs[j].pc \in Direct
    PROVE  /\ AfterDirect(j) \in Connecting \cup {"manual"}
           /\ AfterDirect(j) = "alias" => Server(j) \in Addresses
  BY DEF AfterDirect, Direct, Connecting

LEMMA NoDirectAttemptsKeeps ==
    ASSUME IInv, NEW j \in AllJobs, NoDirectAttempts(j)
    PROVE  IInv'
<1>1. /\ jobs[j].pc \in Direct /\ jobs[j].pc \in Connecting
      /\ SameTables /\ command' = command /\ Step(j, AfterDirect(j))
  BY DEF NoDirectAttempts, Connecting, SameTables
<1>. QED  BY <1>1, AfterDirectKnown, Steps

LEMMA ReadingKeeps ==
    ASSUME IInv, NEW j \in AllJobs, NEW from \in Connecting, NEW to \in Connecting \ {"alias"},
           NEW readable, ReadSettings(j, from, to, readable)
    PROVE  IInv'
<1>1. jobs[j].pc \in Connecting /\ SameTables /\ command' = command
  BY DEF ReadSettings, SameTables
<1>2. PICK read \in readable :
         jobs' = [jobs EXCEPT ![j].pc = to, ![j].read = read,
                ![j].seen = [g \in Groups |-> IF g \in read THEN settings[This][g] ELSE AsFound[g]],
                ![j].clean = @ /\ read = UNION readable]
  BY DEF ReadSettings
<1>. DEFINE seen == [g \in Groups |-> IF g \in read THEN settings[This][g] ELSE AsFound[g]]
            clean == jobs[j].clean /\ read = UNION readable
            q == [jobs[j] EXCEPT !.pc = to, !.read = read, !.seen = seen, !.clean = clean]
<1>3. jobs' = [jobs EXCEPT ![j] = q]
  <2>. HIDE DEF seen
  <2>1. jobs' = [jobs EXCEPT ![j].pc = to, ![j].read = read, ![j].seen = seen,
                             ![j].clean = @ /\ read = UNION readable]
    BY <1>2 DEF seen
  <2>2. DOMAIN jobs = AllJobs /\ IsRecord(jobs[j])
    BY KnownRecord DEF IInv, ShapeInv
  <2>. QED  BY <2>1, <2>2 DEF IsRecord
<1>4. Becomes(q, jobs[j], to, jobs[j].pid, jobs[j].way, jobs[j].to, jobs[j].tried)
  <2>. HIDE DEF seen, clean
  <2>. QED  BY KnownRecord, SettingsSeen
<1>. HIDE DEF q
<1>. QED  BY <1>1, <1>3, <1>4, PassingSet

LEMMA AddTrustedHostKeeps ==
    ASSUME IInv, NEW j \in AllJobs, AddTrustedHost(j)
    PROVE  IInv'
<1>1. jobs[j].pc \in Connecting /\ SameTables /\ command' = command
  BY DEF AddTrustedHost, SameTables, Connecting
<1>2. CASE Step(j, "retrust")
  BY <1>1, <1>2, Steps DEF Connecting, Direct
<1>3. CASE jobs' = [jobs EXCEPT ![j].pc = "readclient", ![j].clean = FALSE]
  <2>1. Becomes([jobs[j] EXCEPT !.pc = "readclient", !.clean = FALSE], jobs[j],
                "readclient", jobs[j].pid, jobs[j].way, jobs[j].to, jobs[j].tried)
    BY KnownRecord, PcCleanSet
  <2>2. jobs' = [jobs EXCEPT ![j] = [jobs[j] EXCEPT !.pc = "readclient", !.clean = FALSE]]
    BY <1>3
  <2>. QED  BY <1>1, <2>1, <2>2, PassingSet DEF Connecting
<1>. QED  BY <1>2, <1>3 DEF AddTrustedHost

LEMMA ConfigureClientKeeps ==
    ASSUME IInv, NEW j \in AllJobs, ConfigureClient(j)
    PROVE  IInv'
<1>1. jobs[j].pc \in Connecting /\ SameTables /\ command' = command
  BY DEF ConfigureClient, SameTables, Connecting
<1>2. CASE Step(j, "capture")
  BY <1>1, <1>2, Steps DEF Connecting, Direct
<1>3. CASE jobs' = [jobs EXCEPT ![j].pc = "capture", ![j].clean = FALSE, ![j].step = 0]
  <2>. DEFINE q == [jobs[j] EXCEPT !.pc = "capture", !.clean = FALSE, !.step = 0]
  <2>1. Becomes(q, jobs[j], "capture", jobs[j].pid, jobs[j].way, jobs[j].to, jobs[j].tried)
    BY KnownRecord, PcCleanStepSet
  <2>2. jobs' = [jobs EXCEPT ![j] = q]
    BY <1>3
  <2>. QED  BY <1>1, <2>1, <2>2, PassingSet DEF Connecting
<1>. QED  BY <1>2, <1>3 DEF ConfigureClient

LEMMA ApplyLocalPolicyKeeps ==
    ASSUME IInv, NEW j \in AllJobs, ApplyLocalPolicy(j)
    PROVE  IInv'
<1>1. jobs[j].pc \in Connecting /\ SameTables /\ command' = command
  BY DEF ApplyLocalPolicy, SameTables, Connecting
<1>. DEFINE next == IF jobs[j].step = 0 THEN "target" ELSE "rewinrm"
<1>2. next \in Connecting \cup {"manual"} /\ next # "alias"
  BY DEF Connecting, Direct
<1>3. CASE jobs' = [jobs EXCEPT ![j].pc = next, ![j].step = 1]
  <2>. DEFINE q == [jobs[j] EXCEPT !.pc = next, !.step = 1]
  <2>1. Becomes(q, jobs[j], next, jobs[j].pid, jobs[j].way, jobs[j].to, jobs[j].tried)
    BY KnownRecord, PcStepSet
  <2>2. jobs' = [jobs EXCEPT ![j] = q]
    BY <1>3
  <2>. QED  BY <1>1, <1>2, <2>1, <2>2, PassingSet
<1>4. CASE jobs' = [jobs EXCEPT ![j].pc = next, ![j].step = 1, ![j].clean = FALSE]
  <2>. DEFINE q == [jobs[j] EXCEPT !.pc = next, !.step = 1, !.clean = FALSE]
  <2>1. Becomes(q, jobs[j], next, jobs[j].pid, jobs[j].way, jobs[j].to, jobs[j].tried)
    BY KnownRecord, PcStepCleanSet
  <2>2. jobs' = [jobs EXCEPT ![j] = q]
    BY <1>4
  <2>. QED  BY <1>1, <1>2, <2>1, <2>2, PassingSet
<1>. QED  BY <1>3, <1>4 DEF ApplyLocalPolicy

LEMMA ConfigureTargetKeeps ==
    ASSUME IInv, NEW j \in AllJobs, ConfigureTarget(j)
    PROVE  IInv'
<1>1. /\ jobs[j].pc \in Connecting /\ jobs[j].pc \in Connecting \cup {"manual"}
      /\ jobs[j].pc # "alias" /\ SameTables /\ command' = command
  BY DEF ConfigureTarget, SameTables, Connecting
<1>2. CASE jobs' = [jobs EXCEPT ![j].step = AfterTarget(j)]
  <2>. DEFINE q == [jobs[j] EXCEPT !.step = AfterTarget(j)]
  <2>1. Becomes(q, jobs[j], jobs[j].pc, jobs[j].pid, jobs[j].way, jobs[j].to, jobs[j].tried)
    BY KnownRecord, StepSet
  <2>2. jobs' = [jobs EXCEPT ![j] = q]
    BY <1>2
  <2>. QED  BY <1>1, <2>1, <2>2, PassingSet
<1>3. CASE jobs' = [jobs EXCEPT ![j].step = AfterTarget(j), ![j].clean = FALSE]
  <2>. DEFINE q == [jobs[j] EXCEPT !.step = AfterTarget(j), !.clean = FALSE]
  <2>1. Becomes(q, jobs[j], jobs[j].pc, jobs[j].pid, jobs[j].way, jobs[j].to, jobs[j].tried)
    BY KnownRecord, StepCleanSet
  <2>2. jobs' = [jobs EXCEPT ![j] = q]
    BY <1>3
  <2>. QED  BY <1>1, <2>1, <2>2, PassingSet
<1>. QED  BY <1>2, <1>3 DEF ConfigureTarget

LEMMA EndTargetKeeps ==
    ASSUME IInv, NEW j \in AllJobs, EndTarget(j)
    PROVE  IInv'
<1>. DEFINE next == IF command.creds THEN "retarget" ELSE "fallback"
<1>1. /\ jobs[j].pc \in Connecting /\ SameTables /\ command' = command
      /\ Step(j, next)
  BY DEF EndTarget, SameTables, Connecting
<1>2. next \in Connecting \cup {"manual"} /\ next # "alias"
  BY DEF Connecting, Direct
<1>. QED  BY <1>1, <1>2, Steps

LEMMA ReadsKeep ==
    ASSUME IInv, NEW j \in AllJobs, ReadTrustedHosts(j) \/ ReadClient(j) \/ CapturePolicy(j)
    PROVE  IInv'
<1>1. /\ {"read", "readclient", "capture"} \subseteq Connecting
      /\ {"trust", "winrm", "policy"} \subseteq Connecting \ {"alias"}
  BY DEF Connecting, Direct
<1>2. CASE ReadTrustedHosts(j)
  BY <1>1, <1>2, ReadingKeeps DEF ReadTrustedHosts
<1>3. CASE ReadClient(j)
  BY <1>1, <1>3, ReadingKeeps DEF ReadClient
<1>4. CASE CapturePolicy(j)
  BY <1>1, <1>4, ReadingKeeps DEF CapturePolicy
<1>. QED  BY <1>2, <1>3, <1>4

-----------------------------------------------------------------------------
(* Attempts. *)

IsAttempt(a, s, to, pid, ok) ==
    a \in Attempts /\ a.call = s /\ a.to = to /\ a.pid = pid /\ a.ok = ok

LEMMA AttemptTyped ==
    ASSUME IInv, NEW j \in AllJobs, NEW to \in Names, NEW pid \in Nat, NEW ok \in BOOLEAN
    PROVE  IsAttempt(Attempt(j, to, pid, ok), Server(j), to, pid, ok)
  BY ServerKnown DEF Attempt, Attempts, IsAttempt

\* A call's attempt is made, and the call goes on or prepares to end.
LEMMA AttemptedStep ==
    ASSUME IInv, NEW j \in AllJobs, NEW q, NEW a,
           jobs[j].pc \in Connecting,
           NEW pc \in Connecting \cup Ending, pc # "remember",
           pc = "alias" => Server(j) \in Addresses,
           NEW to \in Names, NEW way \in TypedWays,
           jobs' = [jobs EXCEPT ![j] = q],
           a \in Attempts, a.call = Server(j), a.pid = jobs[j].pid \/ a.pid = 0,
           a.pid = 0 => pc \in Ending /\ to = Server(j),
           Becomes(q, jobs[j], pc, jobs[j].pid,
                   IF a.ok THEN way ELSE jobs[j].way,
                   IF a.ok THEN to ELSE jobs[j].to, jobs[j].tried \cup {a}),
           a.ok <=> pc \in {"save", "log"}, a.to = to,
           a.ok => <<to, way.port>> \in opened',
           opened \subseteq opened',
           UNCHANGED <<profiles, logged, command>>
    PROVE  IInv'
<1>1. TablesInv' /\ Grows /\ command # Idle
  BY Running DEF IInv, TablesInv, Grows, IdOf, Connecting, Direct
<1>2. jobs'[j] = q /\ DOMAIN jobs' = AllJobs /\ Alone(j)
  BY DEF Alone, IInv, ShapeInv
<1>3. JobShape(q)
  BY KnownRecord DEF Becomes, JobShape
<1>4. JobInv(jobs[j], Server(j)) /\ Server(j)' = Server(j)
  BY KnownRecord DEF Server
<1>5. AttemptsInv(jobs[j], Server(j))'
  BY <1>2, <1>4 DEF Becomes, JobInv, AttemptsInv, Connecting, Direct, Ending, IdOf
<1>6. SuccessInv(jobs[j], Server(j))'
  BY <1>2, <1>4 DEF Becomes, JobInv, SuccessInv, Connecting, Direct, Ending
<1>7. Kept(j)
  BY <1>1, <1>2, <1>3, <1>5, <1>6 DEF Kept, JobInv, Becomes
<1>. QED  BY <1>7, CallStep

LEMMA ConnectedStep ==
    ASSUME IInv, NEW j \in AllJobs, NEW name \in Names, NEW way \in TypedWays,
           jobs[j].pc \in Connecting, Connected(j, name, way), UNCHANGED <<profiles, logged, command>>
    PROVE  IInv'
<1>. DEFINE next == IF jobs[j].pc \in {"stored", "local"} THEN "log" ELSE "save"
            a == Attempt(j, name, jobs[j].pid, TRUE)
            tried == jobs[j].tried \cup {a}
            q == [jobs[j] EXCEPT !.pc = next, !.way = way, !.to = name, !.tried = tried]
<1>1. jobs[j].pid \in Nat /\ jobs[j].pid # 0 /\ IsRecord(jobs[j]) /\ DOMAIN jobs = AllJobs
  BY KnownRecord DEF JobShape, JobInv, AttemptsInv, IInv, ShapeInv
<1>2. /\ a \in Attempts /\ a.call = Server(j) /\ a.pid = jobs[j].pid /\ a.pid # 0
      /\ a.ok /\ a.to = name
  <2>1. IsAttempt(a, Server(j), name, jobs[j].pid, TRUE)
    BY <1>1, AttemptTyped
  <2>. QED  BY <2>1, <1>1 DEF IsAttempt
<1>3. Becomes(q, jobs[j], next, jobs[j].pid, way, name, tried)
  <2>. HIDE DEF tried, next
  <2>. QED  BY <1>1, ConnectionSet
<1>4. jobs' = [jobs EXCEPT ![j] = q]
  <2>. HIDE DEF a
  <2>1. jobs' = [jobs EXCEPT ![j].pc = next, ![j].way = way, ![j].to = name,
                             ![j].tried = @ \cup {a}]
    BY DEF Connected, a
  <2>. QED  BY <2>1, <1>1 DEF IsRecord
<1>5. next \in {"save", "log"} /\ next \in Connecting \cup Ending
  BY DEF Ending
<1>6. opened \subseteq opened' /\ <<name, way.port>> \in opened'
  BY DEF Connected
<1>. HIDE DEF q, next, a
<1>. QED  BY <1>2, <1>3, <1>4, <1>5, <1>6, AttemptedStep

LEMMA NotConnectedStep ==
    ASSUME IInv, NEW j \in AllJobs, NEW name \in Names, NEW pc \in Connecting \cup {"manual"},
           pc = "alias" => Server(j) \in Addresses,
           jobs[j].pc \in Connecting, NotConnected(j, name, pc), UNCHANGED <<profiles, logged, command>>
    PROVE  IInv'
<1>. DEFINE a == Attempt(j, name, jobs[j].pid, FALSE)
            tried == jobs[j].tried \cup {a}
            q == [jobs[j] EXCEPT !.pc = pc, !.tried = tried]
<1>1. jobs[j].pid \in Nat /\ jobs[j].pid # 0 /\ IsRecord(jobs[j]) /\ DOMAIN jobs = AllJobs
  BY KnownRecord DEF JobShape, JobInv, AttemptsInv, IInv, ShapeInv
<1>2. /\ a \in Attempts /\ a.call = Server(j) /\ a.pid = jobs[j].pid /\ a.pid # 0
      /\ ~a.ok /\ a.to = name
  <2>1. IsAttempt(a, Server(j), name, jobs[j].pid, FALSE)
    BY <1>1, AttemptTyped
  <2>. QED  BY <2>1, <1>1 DEF IsAttempt
<1>3. Becomes(q, jobs[j], pc, jobs[j].pid, jobs[j].way, jobs[j].to, tried)
  <2>. HIDE DEF tried
  <2>. QED  BY <1>1, AttemptSet
<1>4. jobs' = [jobs EXCEPT ![j] = q]
  <2>. HIDE DEF a
  <2>1. jobs' = [jobs EXCEPT ![j].pc = pc, ![j].tried = @ \cup {a}]
    BY DEF NotConnected, a
  <2>. QED  BY <2>1, <1>1 DEF IsRecord
<1>5. pc \notin {"save", "log", "remember"} /\ pc \in Connecting \cup Ending
  BY DEF Ending, Connecting, Direct
<1>6. opened \subseteq opened' /\ NoWay \in TypedWays
  BY NoWayTyped DEF NotConnected
<1>. HIDE DEF q, a
<1>. QED  BY <1>2, <1>3, <1>4, <1>5, <1>6, AttemptedStep

LEMMA TryStoredKeeps ==
    ASSUME IInv, NEW j \in AllJobs, TryStored(j)
    PROVE  IInv'
<1>1. jobs[j].pc \in Connecting /\ UNCHANGED <<profiles, logged, command>>
  BY DEF TryStored, Connecting
<1>2. Server(j) \in Names /\ profiles[Server(j)].way \in TypedWays
  BY ServerKnown DEF IInv, TablesInv, TypedProfiles
<1>3. CASE Connected(j, Server(j), profiles[Server(j)].way)
  BY <1>1, <1>2, <1>3, ConnectedStep
<1>4. CASE NotConnected(j, Server(j), "direct")
  <2>1. "direct" \in Connecting \cup {"manual"}
    BY DEF Connecting, Direct
  <2>. QED  BY <1>1, <1>2, <1>4, <2>1, NotConnectedStep
<1>. QED  BY <1>3, <1>4 DEF TryStored

LEMMA DirectAttemptsKeeps ==
    ASSUME IInv, NEW j \in AllJobs, DirectAttempts(j)
    PROVE  IInv'
<1>1. /\ jobs[j].pc \in Connecting /\ jobs[j].pc \in Direct
      /\ UNCHANGED <<profiles, logged, command>>
  BY DEF DirectAttempts, Connecting
<1>2. DirectName(j) \in Names
  BY ServerKnown, KnownRecord DEF DirectName, JobInv, Names, Range
<1>3. Ways \subseteq TypedWays
  BY DEF Ways, Way, TypedWays
<1>4. CASE \E way \in Ways : Connected(j, DirectName(j), way)
  BY <1>1, <1>2, <1>3, <1>4, ConnectedStep
<1>5. CASE NotConnected(j, DirectName(j), AfterDirect(j))
  BY <1>1, <1>2, <1>5, AfterDirectKnown, NotConnectedStep
<1>. QED  BY <1>4, <1>5 DEF DirectAttempts

LEMMA TryFallbacksKeeps ==
    ASSUME IInv, NEW j \in AllJobs, TryFallbacks(j)
    PROVE  IInv'
<1>1. jobs[j].pc \in Connecting /\ jobs[j].pc # "absent" /\ UNCHANGED <<profiles, logged, command>>
  BY DEF TryFallbacks, Connecting
<1>2. /\ Server(j) \in Names /\ Fallback \in TypedWays
      /\ IsRecord(jobs[j]) /\ DOMAIN jobs = AllJobs
  BY ServerKnown, KnownRecord DEF Fallback, Way, TypedWays, IInv, ShapeInv
<1>3. CASE /\ opened' = opened \cup {<<Server(j), Fallback.port>>}
           /\ jobs' = [jobs EXCEPT ![j].pc = "save", ![j].way = Fallback, ![j].to = Server(j),
                                   ![j].tried = @ \cup {Attempt(j, Server(j), 0, TRUE)}]
  <2>. DEFINE a == Attempt(j, Server(j), 0, TRUE)
              tried == jobs[j].tried \cup {a}
              q == [jobs[j] EXCEPT !.pc = "save", !.way = Fallback, !.to = Server(j), !.tried = tried]
  <2>1. a \in Attempts /\ a.call = Server(j) /\ a.pid = 0 /\ a.ok /\ a.to = Server(j)
    <3>1. IsAttempt(a, Server(j), Server(j), 0, TRUE)
      BY <1>2, AttemptTyped
    <3>. QED  BY <3>1 DEF IsAttempt
  <2>2. Becomes(q, jobs[j], "save", jobs[j].pid, Fallback, Server(j), tried)
    <3>. HIDE DEF tried
    <3>. QED  BY <1>2, ConnectionSet
  <2>3. jobs' = [jobs EXCEPT ![j] = q]
    <3>. HIDE DEF a
    <3>1. jobs' = [jobs EXCEPT ![j].pc = "save", ![j].way = Fallback, ![j].to = Server(j),
                               ![j].tried = @ \cup {a}]
      BY <1>3 DEF a
    <3>. QED  BY <3>1, <1>2 DEF IsRecord
  <2>4. "save" \in Ending /\ opened \subseteq opened' /\ <<Server(j), Fallback.port>> \in opened'
    BY <1>3 DEF Ending
  <2>. HIDE DEF q, a
  <2>. QED  BY <1>1, <1>2, <2>1, <2>2, <2>3, <2>4, AttemptedStep
<1>4. CASE /\ jobs' = [jobs EXCEPT ![j].pc = "manual",
                                   ![j].tried = @ \cup {Attempt(j, Server(j), 0, FALSE)}]
           /\ UNCHANGED opened
  <2>. DEFINE a == Attempt(j, Server(j), 0, FALSE)
              tried == jobs[j].tried \cup {a}
              q == [jobs[j] EXCEPT !.pc = "manual", !.tried = tried]
  <2>1. a \in Attempts /\ a.call = Server(j) /\ a.pid = 0 /\ ~a.ok /\ a.to = Server(j)
    <3>1. IsAttempt(a, Server(j), Server(j), 0, FALSE)
      BY <1>2, AttemptTyped
    <3>. QED  BY <3>1 DEF IsAttempt
  <2>2. Becomes(q, jobs[j], "manual", jobs[j].pid, jobs[j].way, jobs[j].to, tried)
    <3>. HIDE DEF tried
    <3>. QED  BY <1>2, AttemptSet
  <2>3. jobs' = [jobs EXCEPT ![j] = q]
    <3>. HIDE DEF a
    <3>1. jobs' = [jobs EXCEPT ![j].pc = "manual", ![j].tried = @ \cup {a}]
      BY <1>4 DEF a
    <3>. QED  BY <3>1, <1>2 DEF IsRecord
  <2>4. /\ "manual" \in Ending /\ "manual" \notin {"save", "log", "remember", "alias"}
        /\ opened \subseteq opened'
    BY <1>4 DEF Ending
  <2>. HIDE DEF q, a
  <2>. QED  BY <1>1, <1>2, <2>1, <2>2, <2>3, <2>4, AttemptedStep
<1>5. CASE Raise(j) /\ UNCHANGED opened
  BY <1>1, <1>5, Raises DEF SameTables
<1>. QED  BY <1>3, <1>4, <1>5 DEF TryFallbacks

-----------------------------------------------------------------------------
(* The end of a call. *)

\* Attempts with an id of their own keep it, those without get one.
LEMMA FilledAttempts ==
    ASSUME NEW tried \in SUBSET Attempts, NEW id \in Nat
    PROVE  /\ Filled(tried, id) \subseteq Attempts
           /\ \A b \in Filled(tried, id) : \E a \in tried :
                 /\ b.call = a.call /\ b.to = a.to /\ b.ok = a.ok
                 /\ b.pid = IF a.pid = 0 THEN id ELSE a.pid
           /\ \A a \in tried : \E b \in Filled(tried, id) : b.to = a.to /\ b.ok = a.ok
<1>. DEFINE fill(a) == [a EXCEPT !.pid = IF @ = 0 THEN id ELSE @]
<1>1. ASSUME NEW a \in tried
      PROVE  /\ fill(a) \in Attempts /\ fill(a).call = a.call /\ fill(a).to = a.to
             /\ fill(a).ok = a.ok /\ fill(a).pid = IF a.pid = 0 THEN id ELSE a.pid
  BY DEF Attempts
<1>2. Filled(tried, id) = { fill(a) : a \in tried }
  BY DEF Filled
<1>. HIDE DEF fill
<1>. QED  BY <1>1, <1>2

\* Rows that carry the id of their server's profile may be added to the log.
LEMMA LoggedMore ==
    ASSUME IInv, NEW more \in SUBSET Attempts,
           \A a \in more : a.pid # 0 /\ a.pid = IdOf(a.call),
           logged' = logged \cup more, UNCHANGED <<profiles, opened>>
    PROVE  TablesInv' /\ Grows
  BY DEF IInv, TablesInv, Grows, IdOf

LEMMA ManualLayerKeeps ==
    ASSUME IInv, NEW j \in AllJobs, ManualLayer(j)
    PROVE  IInv'
<1>. DEFINE more == Filled(jobs[j].tried, jobs[j].pid)
<1>1. /\ jobs[j].pid \in Nat /\ jobs[j].pid # 0 /\ jobs[j].pid = IdOf(Server(j))
      /\ jobs[j].tried \subseteq Attempts
      /\ \A a \in jobs[j].tried : a.call = Server(j) /\ (a.pid = 0 \/ a.pid = IdOf(Server(j)))
  BY KnownRecord DEF ManualLayer, JobShape, JobInv, AttemptsInv, Ending
<1>2. more \subseteq Attempts /\ \A a \in more : a.pid # 0 /\ a.pid = IdOf(a.call)
  BY <1>1, FilledAttempts
<1>3. TablesInv' /\ Grows
  <2>. HIDE DEF more
  <2>1. logged' = logged \cup more /\ UNCHANGED <<profiles, opened>>
    BY DEF ManualLayer, more
  <2>. QED  BY <1>2, <2>1, LoggedMore
<1>4. /\ jobs' = [jobs EXCEPT ![j] = Returned("failure", "", tracker)]
      /\ command' = command /\ jobs[j].pc # "absent"
  BY DEF ManualLayer
<1>5. Fails(j)
  BY <1>3, <1>4 DEF Fails
<1>. QED  BY <1>5, FailingStep

LEMMA DatabaseLockedKeeps ==
    ASSUME IInv, NEW j \in AllJobs, DatabaseLocked(j)
    PROVE  IInv'
<1>1. /\ jobs[j].tried \subseteq Attempts
      /\ \A a \in jobs[j].tried : a.call = Server(j) /\ (a.pid = 0 \/ a.pid = IdOf(Server(j)))
      /\ jobs[j].to \in Names \cup {""}
  BY KnownRecord DEF JobShape, JobInv, AttemptsInv
<1>2. PICK more \in SUBSET jobs[j].tried :
         logged' = logged \cup more /\ \A a \in more : a.pid # 0
  <2>1. CASE logged' = logged
    BY <2>1, Zenon
  <2>2. CASE logged' = logged \cup { a \in jobs[j].tried : a.pid # 0 /\ ~a.ok }
    BY <2>2, Zenon
  <2>. QED  BY <2>1, <2>2 DEF DatabaseLocked
<1>3. TablesInv' /\ Grows
  BY <1>1, <1>2, LoggedMore DEF DatabaseLocked
<1>4. /\ jobs' = [jobs EXCEPT ![j] = Returned("failure", jobs[j].to, <<>>)]
      /\ command' = command /\ jobs[j].pc # "absent"
  BY DEF DatabaseLocked, Raise, End
<1>5. Fails(j)
  BY <1>1, <1>3, <1>4 DEF Fails
<1>. QED  BY <1>5, FailingStep

\* Saving under a name that was connected with is earned.
LEMMA SavedTables ==
    ASSUME IInv, NEW name \in Names, NEW way \in TypedWays, <<name, way.port>> \in opened,
           profiles' = Saved(name, way), UNCHANGED <<logged, opened>>
    PROVE  TablesInv' /\ Grows
<1>1. /\ profiles' \in TypedProfiles
      /\ \A n \in Names : profiles[n].id # 0 => profiles'[n].id = profiles[n].id
      /\ profiles'[name].ok /\ profiles'[name].way = way
      /\ \A n \in Names \ {name} : profiles'[n] = profiles[n]
  BY SavedProfiles DEF IInv
<1>2. \A a \in logged : a.call \in Names
  BY DEF IInv, TablesInv, Attempts, Names
<1>. QED  BY <1>1, <1>2 DEF IInv, TablesInv, Grows, IdOf

LEMMA SaveProfileKeeps ==
    ASSUME IInv, NEW j \in AllJobs, SaveProfile(j)
    PROVE  IInv'
<1>. DEFINE r == jobs[j]
            tried == Filled(jobs[j].tried, RowId(jobs[j].to))
            q == [jobs[j] EXCEPT !.pc = "log", !.tried = tried]
<1>1. /\ r.pc = "save" /\ r.to \in Names /\ r.way \in TypedWays /\ r.tried \subseteq Attempts
      /\ <<r.to, r.way.port>> \in opened /\ IsRecord(r) /\ DOMAIN jobs = AllJobs
      /\ r.pid # 0 /\ r.pid = IdOf(Server(j)) /\ r.told # "success"
      /\ \A a \in r.tried : /\ a.call = Server(j)
                            /\ a.pid = 0 \/ a.pid = IdOf(Server(j))
                            /\ a.pid = 0 => r.to = Server(j)
      /\ \E a \in r.tried : a.to = r.to /\ a.ok
  BY KnownRecord DEF SaveProfile, JobShape, JobInv, AttemptsInv, SuccessInv, Ending,
     IInv, ShapeInv
<1>2. TablesInv' /\ Grows
  BY <1>1, SavedTables DEF SaveProfile
<1>3. RowId(r.to) \in Nat /\ (r.to = Server(j) => RowId(r.to) = 0)
  BY <1>1, NextIdPositive DEF RowId, IdOf
<1>4. /\ tried \subseteq Attempts
      /\ \A b \in tried : b.call = Server(j) /\ (b.pid = 0 \/ b.pid = IdOf(Server(j)))
      /\ \E b \in tried : b.to = r.to /\ b.ok
  BY <1>1, <1>3, FilledAttempts
<1>5. Becomes(q, r, "log", r.pid, r.way, r.to, tried)
  <2>. HIDE DEF tried
  <2>. QED  BY <1>1, AttemptSet
<1>6. jobs' = [jobs EXCEPT ![j] = q]
  BY <1>1 DEF SaveProfile, IsRecord
<1>7. jobs'[j] = q /\ Alone(j) /\ DOMAIN jobs' = AllJobs
  BY <1>1, <1>6 DEF Alone
<1>. HIDE DEF q, tried
<1>8. JobShape(q)
  BY <1>1, <1>4, <1>5, KnownRecord DEF Becomes, JobShape
<1>9. IdOf(Server(j))' = IdOf(Server(j)) /\ Server(j)' = Server(j)
  BY <1>1, <1>2, ServerKnown DEF Grows, Server
<1>10. AttemptsInv(jobs[j], Server(j))' /\ SuccessInv(jobs[j], Server(j))'
  <2>1. /\ jobs'[j].pc = "log" /\ jobs'[j].pid = r.pid /\ jobs'[j].way = r.way
        /\ jobs'[j].to = r.to /\ jobs'[j].tried = tried /\ jobs'[j].told # "success"
    BY <1>1, <1>5, <1>7 DEF Becomes
  <2>2. AttemptsInv(jobs[j], Server(j))'
    BY <1>1, <1>4, <1>9, <2>1 DEF AttemptsInv, Ending
  <2>3. SuccessInv(jobs[j], Server(j))'
    BY <1>1, <1>4, <1>9, <2>1 DEF SuccessInv, SaveProfile
  <2>. QED  BY <2>2, <2>3
<1>11. command' = command /\ command # Idle
  BY <1>1, Running DEF SaveProfile
<1>12. Kept(j)
  BY <1>2, <1>5, <1>7, <1>8, <1>10, <1>11 DEF Kept, JobInv, Becomes
<1>. QED  BY <1>12, CallStep

\* A call that returns a success can show for it.
LEMMA SucceedingStep ==
    ASSUME IInv, NEW j \in AllJobs, NEW to \in Names \cup {""},
           jobs[j].pc # "absent", jobs' = [jobs EXCEPT ![j] = Returned("success", to, <<>>)],
           command' = command, TablesInv', Grows,
           \/ \E a \in logged' : a.call = Server(j) /\ a.to = to /\ a.ok
           \/ to = "" /\ (profiles'[Server(j)].ok \/ command.entry = "targets")
    PROVE  IInv'
<1>1. DOMAIN jobs' = AllJobs /\ Alone(j) /\ jobs'[j] = Returned("success", to, <<>>)
  BY DEF IInv, ShapeInv, Alone
<1>2. IsDone(jobs'[j], "success", to)
  <2>1. IsDone(Returned("success", to, <<>>), "success", to)
    BY ReturnedFields, Zenon
  <2>2. jobs'[j] = Returned("success", to, <<>>)
    BY <1>1
  <2>. QED  BY <2>1, <2>2, Zenon
<1>3. JobShape(jobs'[j])
  BY <1>2, DoneShape
<1>4. jobs'[j].pc = "done" /\ jobs'[j].to = to /\ jobs'[j].tried = {}
  BY <1>2 DEF IsDone
<1>5. AttemptsInv(jobs[j], Server(j))' /\ SuccessInv(jobs[j], Server(j))'
  BY <1>4 DEF AttemptsInv, SuccessInv, Connecting, Direct, Ending
<1>6. Kept(j)
  BY <1>1, <1>3, <1>4, <1>5, Running DEF Kept, JobInv
<1>. QED  BY <1>6, CallStep

LEMMA LogAttemptsKeeps ==
    ASSUME IInv, NEW j \in AllJobs, LogAttempts(j)
    PROVE  IInv'
<1>. DEFINE r == jobs[j]
            Good == { a \in jobs[j].tried : a.pid # 0 }
<1>1. /\ r.pc = "log" /\ r.to \in Names /\ r.tried \subseteq Attempts
      /\ <<r.to, r.way.port>> \in opened /\ IsRecord(r) /\ DOMAIN jobs = AllJobs
      /\ r.pid # 0 /\ r.pid = IdOf(Server(j)) /\ r.told # "success"
      /\ \A a \in r.tried : /\ a.call = Server(j)
                            /\ a.pid = 0 \/ a.pid = IdOf(Server(j))
      /\ \E a \in r.tried : a.to = r.to /\ a.ok
  BY KnownRecord DEF LogAttempts, JobShape, JobInv, AttemptsInv, SuccessInv, Ending,
     IInv, ShapeInv
<1>2. Good \in SUBSET Attempts /\ \A a \in Good : a.pid # 0 /\ a.pid = IdOf(a.call)
  BY <1>1
<1>3. /\ logged' = logged \cup Good /\ UNCHANGED <<profiles, opened>> /\ command' = command
      /\ jobs[j].pc # "absent"
  BY DEF LogAttempts
<1>4. TablesInv' /\ Grows
  <2>. HIDE DEF Good
  <2>. QED  BY <1>2, <1>3, LoggedMore
<1>5. CASE Good = r.tried /\ Step(j, "remember")
  <2>. DEFINE q == [jobs[j] EXCEPT !.pc = "remember"]
  <2>1. Becomes(q, r, "remember", r.pid, r.way, r.to, r.tried)
    BY <1>1, PcSet
  <2>2. jobs'[j] = q /\ Alone(j) /\ DOMAIN jobs' = AllJobs
    BY <1>1, <1>5 DEF Step, Alone
  <2>. HIDE DEF q
  <2>3. JobShape(q)
    BY <2>1, KnownRecord DEF Becomes, JobShape
  <2>4. /\ jobs'[j].pc = "remember" /\ jobs'[j].pid = r.pid /\ jobs'[j].way = r.way
        /\ jobs'[j].to = r.to /\ jobs'[j].tried = r.tried /\ jobs'[j].told # "success"
    BY <1>1, <2>1, <2>2 DEF Becomes
  <2>5. \A a \in r.tried : a.pid # 0
    BY <1>5
  <2>6. IdOf(Server(j))' = IdOf(Server(j)) /\ Server(j)' = Server(j)
    BY <1>3 DEF IdOf, Server
  <2>7. AttemptsInv(jobs[j], Server(j))'
    BY <1>1, <2>4, <2>5, <2>6 DEF AttemptsInv
  <2>8. r.tried \subseteq logged'
    BY <1>3, <1>5
  <2>9. SuccessInv(jobs[j], Server(j))'
    BY <1>1, <1>3, <2>4, <2>8 DEF SuccessInv
  <2>10. Kept(j)
    BY <1>1, <1>3, <1>4, <2>2, <2>3, <2>4, <2>7, <2>9, Running DEF Kept, JobInv
  <2>. QED  BY <2>10, CallStep
<1>6. CASE Good = r.tried /\ End(j, "success")
  <2>1. jobs' = [jobs EXCEPT ![j] = Returned("success", r.to, <<>>)]
    BY <1>1, <1>6 DEF End
  <2>2. \E a \in logged' : a.call = Server(j) /\ a.to = r.to /\ a.ok
    BY <1>1, <1>3, <1>6
  <2>. QED  BY <1>1, <1>3, <1>4, <2>1, <2>2, SucceedingStep
<1>7. CASE Raise(j)
  <2>1. jobs' = [jobs EXCEPT ![j] = Returned("failure", r.to, <<>>)]
    BY <1>1, <1>7 DEF Raise, End
  <2>2. Fails(j)
    BY <1>1, <1>3, <1>4, <2>1 DEF Fails
  <2>. QED  BY <2>2, FailingStep
<1>. QED  BY <1>5, <1>6, <1>7 DEF LogAttempts

LEMMA RememberProfileKeeps ==
    ASSUME IInv, NEW j \in AllJobs, RememberProfile(j)
    PROVE  IInv'
<1>. DEFINE r == jobs[j]
<1>1. /\ r.pc = "remember" /\ r.to \in Names /\ r.way \in TypedWays
      /\ <<r.to, r.way.port>> \in opened /\ DOMAIN jobs = AllJobs
      /\ r.tried \subseteq logged
      /\ \A a \in r.tried : a.call = Server(j)
      /\ \E a \in r.tried : a.to = r.to /\ a.ok
  BY KnownRecord DEF RememberProfile, JobShape, JobInv, AttemptsInv, SuccessInv, IInv,
     ShapeInv
<1>2. Remembered(r.way) \in TypedWays /\ Remembered(r.way).port = r.way.port
  BY <1>1 DEF Remembered, Way, TypedWays
<1>3. TablesInv' /\ Grows
  <2>1. CASE profiles' = Saved(r.to, Remembered(r.way))
    BY <1>1, <1>2, <2>1, SavedTables DEF RememberProfile
  <2>2. CASE UNCHANGED profiles
    BY <2>2, SameTablesGrow DEF RememberProfile, SameTables
  <2>. QED  BY <2>1, <2>2 DEF RememberProfile
<1>4. jobs' = [jobs EXCEPT ![j] = Returned("success", r.to, <<>>)] /\ command' = command
  BY <1>1 DEF RememberProfile, End
<1>5. \E a \in logged' : a.call = Server(j) /\ a.to = r.to /\ a.ok
  BY <1>1 DEF RememberProfile
<1>. QED  BY <1>1, <1>3, <1>4, <1>5, SucceedingStep

-----------------------------------------------------------------------------
(* The start of a call. *)

LEMMA EarlyAnswersKeep ==
    ASSUME IInv, NEW j \in AllJobs, UseCache(j) \/ UseProfile(j) \/ NotWindows(j)
    PROVE  IInv'
<1>1. /\ jobs[j].pc = "queued" /\ jobs[j].pc # "absent" /\ command' = command
      /\ SameTables /\ DOMAIN jobs = AllJobs
  BY DEF UseCache, UseProfile, NotWindows, Take, SameTables, IInv, ShapeInv
<1>2. jobs[j].to = ""
  BY <1>1, KnownRecord DEF JobInv, SuccessInv
<1>3. TablesInv' /\ Grows
  BY <1>1, SameTablesGrow
<1>4. CASE End(j, "failure")
  BY <1>1, <1>4, Raises DEF Raise
<1>5. CASE /\ End(j, "success")
           /\ profiles[Server(j)].ok \/ command.entry = "targets"
  <2>1. jobs' = [jobs EXCEPT ![j] = Returned("success", "", <<>>)]
    BY <1>1, <1>2, <1>5 DEF End
  <2>2. profiles' = profiles
    BY <1>1 DEF SameTables
  <2>. QED  BY <1>1, <1>3, <1>5, <2>1, <2>2, SucceedingStep
<1>. QED  BY <1>4, <1>5 DEF UseCache, UseProfile, NotWindows

LEMMA BeginKeeps ==
    ASSUME IInv, NEW j \in AllJobs, Begin(j)
    PROVE  IInv'
<1>. DEFINE r == jobs[j]
            s == Server(j)
            next == IF Server(j) \in Local THEN "begin" ELSE "stored"
            id == Ensured(s)[s].id
            q == [jobs[j] EXCEPT !.pc = next, !.pid = id, !.before = settings]
<1>1. /\ r.pc = "queued" /\ IsRecord(r) /\ DOMAIN jobs = AllJobs
      /\ command' = command /\ profiles' = Ensured(s) /\ UNCHANGED <<logged, opened>>
      /\ s \in Names
  BY KnownRecord, ServerKnown DEF Begin, Take, IInv, ShapeInv
<1>2. /\ profiles' \in TypedProfiles
      /\ profiles'[s].id # 0
      /\ \A n \in Names : profiles[n].id # 0 => profiles'[n].id = profiles[n].id
      /\ \A n \in Names : profiles'[n].ok = profiles[n].ok
      /\ \A n \in Names : profiles'[n].way = profiles[n].way
  BY <1>1, EnsuredProfiles DEF IInv
<1>3. TablesInv' /\ Grows
  <2>1. \A a \in logged : a.call \in Names
    BY DEF IInv, TablesInv, Attempts, Names
  <2>. QED  BY <1>1, <1>2, <2>1 DEF IInv, TablesInv, Grows, IdOf
<1>4. id \in Nat /\ id # 0 /\ id = profiles'[s].id
  BY <1>1, <1>2 DEF TypedProfiles
<1>5. Becomes(q, r, next, id, r.way, r.to, r.tried)
  <2>. HIDE DEF next, id
  <2>. QED  BY <1>1, BeginSet
<1>6. jobs' = [jobs EXCEPT ![j] = q]
  <2>. HIDE DEF next, id
  <2>1. jobs' = [jobs EXCEPT ![j].pc = next, ![j].pid = id, ![j].before = settings]
    BY DEF Begin, next, id
  <2>. QED  BY <2>1, <1>1 DEF IsRecord
<1>7. next \in {"begin", "stored"}
  OBVIOUS
<1>. HIDE DEF q, next, id
<1>8. jobs'[j] = q /\ Alone(j) /\ DOMAIN jobs' = AllJobs
  BY <1>1, <1>6 DEF Alone
<1>9. JobShape(q)
  BY <1>4, <1>5, KnownRecord DEF Becomes, JobShape
<1>10. /\ jobs'[j].pc \in {"begin", "stored"} /\ jobs'[j].pid = id
       /\ jobs'[j].tried = r.tried /\ jobs'[j].told = r.told
  BY <1>5, <1>7, <1>8 DEF Becomes
<1>11. /\ \A a \in r.tried : a.call = s /\ a.pid = IdOf(s) /\ a.pid # 0
       /\ r.told # "success"
  BY <1>1, KnownRecord DEF JobInv, AttemptsInv, SuccessInv, Ending
<1>12. AttemptsInv(jobs[j], Server(j))'
  <2>1. IdOf(s) # 0 => IdOf(s)' = IdOf(s)
    BY <1>1, <1>3 DEF Grows
  <2>2. IdOf(s)' = id /\ Server(j)' = Server(j)
    BY <1>4 DEF IdOf, Server
  <2>. QED  BY <1>4, <1>10, <1>11, <2>1, <2>2 DEF AttemptsInv, Ending
<1>13. SuccessInv(jobs[j], Server(j))'
  BY <1>10, <1>11 DEF SuccessInv
<1>14. Kept(j)
  BY <1>1, <1>3, <1>8, <1>9, <1>10, <1>12, <1>13, Running DEF Kept, JobInv
<1>. QED  BY <1>14, CallStep

LEMMA WorkKeeps ==
    ASSUME IInv, NEW j \in AllJobs, Work(j)
    PROVE  IInv'
<1>1. CASE UseCache(j) \/ UseProfile(j) \/ NotWindows(j)
  BY <1>1, EarlyAnswersKeep
<1>2. CASE Begin(j)
  BY <1>2, BeginKeeps
<1>3. CASE PrepareLocalhost(j)
  BY <1>3, PrepareLocalhostKeeps
<1>4. CASE TryStored(j) \/ DirectAttempts(j) \/ NoDirectAttempts(j)
  BY <1>4, TryStoredKeeps, DirectAttemptsKeeps, NoDirectAttemptsKeeps
<1>5. CASE ReadTrustedHosts(j) \/ ReadClient(j) \/ CapturePolicy(j)
  BY <1>5, ReadsKeep
<1>6. CASE AddTrustedHost(j) \/ ConfigureClient(j) \/ ApplyLocalPolicy(j)
  BY <1>6, AddTrustedHostKeeps, ConfigureClientKeeps, ApplyLocalPolicyKeeps
<1>7. CASE ConfigureTarget(j) \/ EndTarget(j)
  BY <1>7, ConfigureTargetKeeps, EndTargetKeeps
<1>8. CASE TryFallbacks(j) \/ ManualLayer(j)
  BY <1>8, TryFallbacksKeeps, ManualLayerKeeps
<1>9. CASE SaveProfile(j) \/ LogAttempts(j) \/ RememberProfile(j) \/ DatabaseLocked(j)
  BY <1>9, SaveProfileKeeps, LogAttemptsKeeps, RememberProfileKeeps, DatabaseLockedKeeps
<1>. QED  BY <1>1, <1>2, <1>3, <1>4, <1>5, <1>6, <1>7, <1>8, <1>9 DEF Work

-----------------------------------------------------------------------------
(* Commands. *)

\* A call that has not begun.
IsFresh(r) ==
    /\ JobShape(r)
    /\ r.pc \in {"absent", "queued"}
    /\ r.to = ""
    /\ r.tried = {}
    /\ r.told = "none"

LEMMA AbsentFresh == IsFresh(Absent) /\ IsFresh([Absent EXCEPT !.pc = "queued"])
<1>1. IsFresh(Absent)
  BY NoWayTyped DEF Absent, IsRecord, JobShape, IsFresh
<1>2. Becomes([Absent EXCEPT !.pc = "queued"], Absent, "queued", Absent.pid, Absent.way,
              Absent.to, Absent.tried)
  BY AbsentFields, PcSet
<1>. QED  BY <1>1, <1>2 DEF IsFresh, Becomes, JobShape

\* New calls, or none, join those there are, and the tables stay.
LEMMA CommandStep ==
    ASSUME IInv, SameTables, DOMAIN jobs' = AllJobs, IsCommand(command'),
           \A j \in AllJobs : IsFresh(jobs'[j]) \/ jobs'[j] = jobs[j],
           command'.entry = command.entry \/ \A j \in AllJobs : IsFresh(jobs'[j]),
           IdleInv'
    PROVE  IInv'
<1>1. TablesInv'
  BY SameTablesGrow
<1>2. ShapeInv'
  BY DEF IInv, ShapeInv, IsFresh
<1>3. ASSUME NEW j \in AllJobs
      PROVE  AttemptsInv(jobs[j], Server(j))' /\ SuccessInv(jobs[j], Server(j))'
             /\ (jobs'[j].pc = "alias" => Server(j) \in Addresses)
  <2>1. CASE IsFresh(jobs'[j])
    BY <2>1 DEF IsFresh, AttemptsInv, SuccessInv, Connecting, Direct, Ending
  <2>2. CASE jobs'[j] = jobs[j] /\ command'.entry = command.entry
    <3>1. JobInv(jobs[j], Server(j)) /\ Server(j)' = Server(j)
      BY KnownRecord DEF Server
    <3>. QED  BY <2>2, <3>1 DEF JobInv, AttemptsInv, SuccessInv, SameTables, IdOf
  <2>. QED  BY <2>1, <2>2
<1>. QED  BY <1>1, <1>2, <1>3 DEF IInv, JobInv

LEMMA QueuedJobs ==
    ASSUME IInv, NEW S, jobs' = Queued(S)
    PROVE  /\ DOMAIN jobs' = AllJobs
           /\ \A j \in AllJobs : IsFresh(jobs'[j]) \/ jobs'[j] = jobs[j]
  BY AbsentFresh DEF Queued

LEMMA StartCommandKeeps ==
    ASSUME IInv, NEW over, NEW entry \in {"apply", "targets", "run"}, NEW dry, NEW elevated,
           NEW parallel, NEW creds, StartCommand(over, entry, dry, elevated, parallel, creds)
    PROVE  IInv'
<1>1. \A j \in AllJobs : jobs[j] = Absent
  BY DEF StartCommand, IInv, IdleInv
<1>2. jobs' = Queued(JobsOf(entry, over)) /\ SameTables
  BY DEF StartCommand, SameTables
<1>3. DOMAIN jobs' = AllJobs /\ \A j \in AllJobs : IsFresh(jobs'[j])
  BY <1>1, <1>2, QueuedJobs, AbsentFresh
<1>4. IsCommand(command') /\ command'.entry = entry
  BY DEF StartCommand, IsCommand
<1>5. command' # Idle
  BY <1>4 DEF Idle
<1>. QED  BY <1>2, <1>3, <1>4, <1>5, CommandStep DEF IdleInv

LEMMA RerunFailedKeeps ==
    ASSUME IInv, RerunFailed
    PROVE  IInv'
<1>1. jobs' = Queued(Failed) /\ SameTables /\ command.entry = "targets"
  BY DEF RerunFailed, SameTables
<1>2. /\ DOMAIN jobs' = AllJobs
      /\ \A j \in AllJobs : IsFresh(jobs'[j]) \/ jobs'[j] = jobs[j]
  BY <1>1, QueuedJobs
<1>3. IsCommand(command)
  BY DEF IInv, ShapeInv
<1>4. IsCommand(command') /\ command'.entry = command.entry
  BY <1>3 DEF RerunFailed, IsCommand
<1>5. command' # Idle
  BY <1>1, <1>4 DEF Idle
<1>. QED  BY <1>1, <1>2, <1>4, <1>5, CommandStep DEF IdleInv

LEMMA LeaveKeeps ==
    ASSUME IInv, Leave
    PROVE  IInv'
<1>1. /\ DOMAIN jobs' = AllJobs
      /\ \A j \in AllJobs : jobs'[j] = Absent
      /\ SameTables /\ command' = Idle
  BY DEF Leave, SameTables
<1>2. IsCommand(Idle)
  BY DEF Idle, IsCommand
<1>. QED  BY <1>1, <1>2, AbsentFresh, CommandStep DEF IdleInv

LEMMA NextIInv == IInv /\ [Next]_vars => IInv'
<1>. SUFFICES ASSUME IInv, [Next]_vars PROVE IInv'
  OBVIOUS
<1>1. CASE UNCHANGED <<profiles, logged, opened, command, jobs>>
  <2>1. SameTables /\ DOMAIN jobs' = AllJobs /\ IsCommand(command') /\ IdleInv'
    BY <1>1 DEF SameTables, IInv, ShapeInv, IdleInv
  <2>. QED  BY <1>1, <2>1, CommandStep
<1>2. CASE \E over \in SUBSET Targets \ {{}}, entry \in {"apply", "targets", "run"},
              dry, elevated, parallel, creds \in BOOLEAN :
                StartCommand(over, entry, dry, elevated, parallel, creds)
  BY <1>2, StartCommandKeeps
<1>3. CASE RerunFailed
  BY <1>3, RerunFailedKeeps
<1>4. CASE EndCommand \/ Kill
  BY <1>4, LeaveKeeps DEF EndCommand, Kill
<1>5. CASE \E s \in Servers : RevertServer(s) \/ Expire(s)
  BY <1>5, <1>1 DEF RevertServer, Expire
<1>6. CASE \E j \in AllJobs : Work(j)
  BY <1>6, WorkKeeps
<1>. QED  BY <1>1, <1>2, <1>3, <1>4, <1>5, <1>6 DEF Next, vars

LEMMA InitIInv == Init => IInv
<1>. SUFFICES ASSUME Init PROVE IInv
  OBVIOUS
<1>1. /\ DOMAIN jobs = AllJobs /\ \A j \in AllJobs : jobs[j] = Absent
      /\ command = Idle /\ logged = {} /\ opened = {}
      /\ profiles = [n \in Names |-> NoProfile]
  BY DEF Init
<1>2. TablesInv
  BY <1>1, NoWayTyped DEF TablesInv, TypedProfiles, NoProfile
<1>3. IsCommand(command)
  BY <1>1 DEF Idle, IsCommand
<1>4. \A j \in AllJobs : IsFresh(jobs[j])
  BY <1>1, AbsentFresh
<1>5. \A j \in AllJobs : JobInv(jobs[j], Server(j))
  BY <1>4 DEF IsFresh, JobInv, AttemptsInv, SuccessInv, Connecting, Direct, Ending
<1>. QED  BY <1>1, <1>2, <1>3, <1>4, <1>5 DEF IInv, ShapeInv, IdleInv, IsFresh

-----------------------------------------------------------------------------

\* The tables, the calls and what callers are told fit together in every
\* reachable state, for any servers, number of threads and faults.
THEOREM Invariance == Spec => []IInv
  BY InitIInv, NextIInv, PTL DEF Spec

\* Whatever threads save meanwhile, a logged attempt has the profile of the
\* server its call was for.
THEOREM AttemptsAreFiled == Spec => []AttemptsKeepTheirProfile
<1>1. IInv => AttemptsKeepTheirProfile
  BY DEF IInv, TablesInv, AttemptsKeepTheirProfile, IdOf
<1>. QED  BY <1>1, Invariance, PTL

\* A profile that a later command uses untried was connected with once.
THEOREM ProfilesEarned == Spec => []ProfilesAreEarned
<1>1. IInv => ProfilesAreEarned
  BY DEF IInv, TablesInv, ProfilesAreEarned
<1>. QED  BY <1>1, Invariance, PTL

\* Nobody is told of a success that the log does not show, but for the two
\* answers that rest on an earlier one.
THEOREM SuccessRecorded == Spec => []SuccessIsOnRecord
<1>1. IInv => SuccessIsOnRecord
  BY DEF IInv, JobInv, SuccessInv, SuccessIsOnRecord
<1>. QED  BY <1>1, Invariance, PTL

-----------------------------------------------------------------------------
(* Running scripts back. *)

\* Induction over the naturals, for what a set can say.
Inductive(P) == 0 \in P /\ \A n \in Nat : n \in P => n + 1 \in P

LEMMA InductiveCoversNat ==
    ASSUME NEW P, Inductive(P)
    PROVE  Nat \subseteq P
<1>. SUFFICES ASSUME ~ (Nat \subseteq P) PROVE FALSE
  OBVIOUS
<1>. DEFINE Less == { ss \in Nat \X Nat : ss[1] < ss[2] }
            Bad == Nat \ P
<1>1. IsWellFoundedOn(Less, Nat)
  BY NatLessThanWellFounded DEF OpToRel
<1>2. Bad \subseteq Nat /\ Bad # {}
  OBVIOUS
<1>3. PICK n \in Bad : \A m \in Bad : ~ (<<m, n>> \in Less)
  <2>. HIDE DEF Bad, Less
  <2>. QED BY <1>1, <1>2, WFMin
<1>4. n \in Nat /\ n # 0 /\ n - 1 \in Nat /\ <<n - 1, n>> \in Less
  BY <1>3 DEF Inductive
<1>5. n - 1 \in P
  BY <1>3, <1>4
<1>. QED BY <1>3, <1>4, <1>5 DEF Inductive

\* The states on the way, the present one first.
IsRun(back, scripts, state) ==
    /\ back[0] = state
    /\ \A n \in 1 .. Len(scripts) : back[n] = Run(back[n - 1], scripts[Len(scripts) + 1 - n])

LEMMA RunBackSteps ==
    ASSUME NEW scripts, NEW state, Len(scripts) \in Nat
    PROVE  \E back : IsRun(back, scripts, state) /\ RunBack(scripts, state) = back[Len(scripts)]
<1>. DEFINE len == Len(scripts)
            Upto(n, f) == f = [i \in 0 .. n |-> IF i = 0 THEN state
                                                ELSE Run(f[i - 1], scripts[len + 1 - i])]
            P == { n \in Nat : \E f : Upto(n, f) }
<1>1. 0 \in P
  <2>. DEFINE g == [i \in 0 .. 0 |-> state]
  <2>1. \A i \in 0 .. 0 : i = 0
    OBVIOUS
  <2>2. Upto(0, g)
    BY <2>1
  <2>. QED BY <2>2
<1>2. \A n \in Nat : n \in P => n + 1 \in P
  <2>. SUFFICES ASSUME NEW n \in Nat, n \in P PROVE n + 1 \in P
    OBVIOUS
  <2>0. PICK f : Upto(n, f)
    OBVIOUS
  <2>. DEFINE g == [i \in 0 .. (n + 1) |->
                      IF i = n + 1 THEN Run(f[n], scripts[len + 1 - i]) ELSE f[i]]
  <2>1. \A i \in 0 .. n : f[i] = IF i = 0 THEN state ELSE Run(f[i - 1], scripts[len + 1 - i])
    BY <2>0
  <2>2. ASSUME NEW i \in 0 .. (n + 1)
        PROVE  g[i] = IF i = 0 THEN state ELSE Run(g[i - 1], scripts[len + 1 - i])
    <3>1. CASE i = n + 1
      <4>1. i # 0 /\ i - 1 = n /\ n \in 0 .. (n + 1) /\ n # n + 1
        BY <3>1
      <4>2. g[i - 1] = f[n] /\ g[i] = Run(f[n], scripts[len + 1 - i])
        BY <3>1, <4>1
      <4>. QED BY <4>1, <4>2
    <3>2. CASE i \in 0 .. n
      <4>1. g[i] = f[i] /\ (i # 0 => g[i - 1] = f[i - 1])
        BY <3>2
      <4>. QED BY <2>1, <3>2, <4>1
    <3>. QED BY <3>1, <3>2
  <2>3. g = [i \in 0 .. (n + 1) |-> g[i]]
    OBVIOUS
  <2>4. Upto(n + 1, g)
    <3>. HIDE DEF g
    <3>. QED BY <2>2, <2>3
  <2>5. \E h : Upto(n + 1, h)
    <3>. HIDE DEF g
    <3>. QED BY <2>4
  <2>. HIDE DEF Upto
  <2>. QED BY <2>5
<1>3. len \in P
  <2>. HIDE DEF P
  <2>1. Inductive(P)
    BY <1>1, <1>2 DEF Inductive
  <2>. QED BY <2>1, InductiveCoversNat
<1>4. PICK f : f = CHOOSE g : g = [i \in 0 .. len |-> IF i = 0 THEN state
                                                      ELSE Run(g[i - 1], scripts[len + 1 - i])]
  OBVIOUS
<1>5. Upto(len, f)
  BY <1>3, <1>4
<1>6. RunBack(scripts, state) = f[len]
  BY <1>4 DEF RunBack
<1>7. \A i \in 0 .. len : f[i] = IF i = 0 THEN state ELSE Run(f[i - 1], scripts[len + 1 - i])
  BY <1>5
<1>8. 0 \in 0 .. len /\ \A i \in 1 .. len : i \in 0 .. len /\ i # 0
  OBVIOUS
<1>9. IsRun(f, scripts, state)
  BY <1>7, <1>8 DEF IsRun
<1>. QED BY <1>6, <1>9

LEMMA RunAt ==
    ASSUME NEW state, DOMAIN state = Machines, NEW script
    PROVE  /\ DOMAIN Run(state, script) = Machines
           /\ \A m \in Machines, g \in Groups :
                 Run(state, script)[m][g] =
                    IF m = script.at /\ g \in DOMAIN script.put THEN script.put[g] ELSE state[m][g]
  BY DEF Run

\* Two states agree on these settings.
Agree(a, b, P) == \A p \in P : a[p[1]][p[2]] = b[p[1]][p[2]]

LEMMA RunAgrees ==
    ASSUME NEW a, NEW b, DOMAIN a = Machines, DOMAIN b = Machines, NEW script,
           NEW P \in SUBSET (Machines \X Groups), Agree(a, b, P)
    PROVE  Agree(Run(a, script), Run(b, script), P)
<1>1. \A p \in P : p[1] \in Machines /\ p[2] \in Groups
  OBVIOUS
<1>2. SUFFICES ASSUME NEW p \in P PROVE Run(a, script)[p[1]][p[2]] = Run(b, script)[p[1]][p[2]]
  BY DEF Agree
<1>3. a[p[1]][p[2]] = b[p[1]][p[2]]
  BY DEF Agree
<1>4. /\ Run(a, script)[p[1]][p[2]] = IF p[1] = script.at /\ p[2] \in DOMAIN script.put
                                        THEN script.put[p[2]] ELSE a[p[1]][p[2]]
      /\ Run(b, script)[p[1]][p[2]] = IF p[1] = script.at /\ p[2] \in DOMAIN script.put
                                        THEN script.put[p[2]] ELSE b[p[1]][p[2]]
  <2>1. \A m \in Machines, g \in Groups :
            Run(a, script)[m][g] =
                IF m = script.at /\ g \in DOMAIN script.put THEN script.put[g] ELSE a[m][g]
    BY DEF Run
  <2>2. \A m \in Machines, g \in Groups :
            Run(b, script)[m][g] =
                IF m = script.at /\ g \in DOMAIN script.put THEN script.put[g] ELSE b[m][g]
    BY DEF Run
  <2>. QED BY <1>1, <2>1, <2>2
<1>. QED BY <1>3, <1>4

\* A script more, which undoes what happened since, leads back to where the
\* scripts before it led.
LEMMA RunBackAppend ==
    ASSUME NEW S, NEW scripts \in Seq(S), NEW script \in S,
           NEW old, NEW new, DOMAIN old = Machines, DOMAIN new = Machines,
           NEW P \in SUBSET (Machines \X Groups), Agree(Run(new, script), old, P)
    PROVE  Agree(RunBack(Append(scripts, script), new), RunBack(scripts, old), P)
<1>. DEFINE len == Len(scripts)
            more == Append(scripts, script)
<1>1. /\ len \in Nat /\ Len(more) = len + 1 /\ more[len + 1] = script
      /\ \A i \in 1 .. len : more[i] = scripts[i]
  OBVIOUS
<1>2. PICK a : IsRun(a, more, new) /\ RunBack(more, new) = a[len + 1]
  <2>. HIDE DEF more
  <2>1. Len(more) \in Nat
    BY <1>1
  <2>2. PICK a : IsRun(a, more, new) /\ RunBack(more, new) = a[Len(more)]
    BY <2>1, RunBackSteps
  <2>. QED BY <1>1, <2>2
<1>3. PICK b : IsRun(b, scripts, old) /\ RunBack(scripts, old) = b[len]
  BY <1>1, RunBackSteps
<1>. DEFINE Good(n) == DOMAIN a[n + 1] = Machines /\ DOMAIN b[n] = Machines /\ Agree(a[n + 1], b[n], P)
            Q == { n \in Nat : n =< len => Good(n) }
<1>. HIDE DEF len, more, Good
<1>4. 0 \in Q
  <2>1. 1 \in 1 .. len + 1 /\ 1 - 1 = 0 /\ len + 1 + 1 - 1 = len + 1
    BY <1>1
  <2>2. a[1] = Run(new, script) /\ b[0] = old
    BY <1>1, <1>2, <1>3, <2>1 DEF IsRun
  <2>3. DOMAIN a[0 + 1] = Machines /\ DOMAIN b[0] = Machines /\ Agree(a[0 + 1], b[0], P)
    <3>1. 0 + 1 = 1
      OBVIOUS
    <3>2. DOMAIN Run(new, script) = Machines
      BY RunAt
    <3>. QED BY <2>2, <3>1, <3>2
  <2>. QED BY <2>3 DEF Good
<1>5. ASSUME NEW n \in Nat, n \in Q PROVE n + 1 \in Q
  <2>. SUFFICES ASSUME n + 1 =< len PROVE Good(n + 1)
    OBVIOUS
  <2>0. n =< len
    BY <1>1
  <2>1. Good(n)
    BY <2>0, <1>5, Zenon
  <2>2. /\ n + 1 \in 1 .. len /\ n + 2 \in 1 .. len + 1
        /\ n + 1 - 1 = n /\ n + 2 - 1 = n + 1
        /\ len + 1 - (n + 1) = len - n /\ len + 1 + 1 - (n + 2) = len - n
        /\ len - n \in 1 .. len
    BY <1>1
  <2>3. a[n + 2] = Run(a[n + 1], scripts[len - n]) /\ b[n + 1] = Run(b[n], scripts[len - n])
    <3>1. a[n + 2] = Run(a[n + 1], more[len - n])
      BY <1>1, <1>2, <2>2 DEF IsRun
    <3>2. b[n + 1] = Run(b[n], scripts[len - n])
      <4>1. \A i \in 1 .. len : b[i] = Run(b[i - 1], scripts[len + 1 - i])
        BY <1>3 DEF IsRun, len
      <4>. QED BY <2>2, <4>1
    <3>. QED BY <1>1, <2>2, <3>1, <3>2
  <2>4. /\ DOMAIN a[n + 2] = Machines /\ DOMAIN b[n + 1] = Machines
        /\ Agree(a[n + 2], b[n + 1], P)
    <3>1. DOMAIN a[n + 1] = Machines /\ DOMAIN b[n] = Machines /\ Agree(a[n + 1], b[n], P)
      BY <2>1 DEF Good
    <3>2. DOMAIN Run(a[n + 1], scripts[len - n]) = Machines /\ DOMAIN Run(b[n], scripts[len - n]) = Machines
      BY <3>1, RunAt
    <3>3. Agree(Run(a[n + 1], scripts[len - n]), Run(b[n], scripts[len - n]), P)
      BY <3>1, RunAgrees
    <3>. QED BY <2>3, <3>2, <3>3
  <2>5. (n + 1) + 1 = n + 2
    OBVIOUS
  <2>. QED BY <2>4, <2>5 DEF Good
<1>6. len \in Q
  <2>. HIDE DEF Q
  <2>1. Inductive(Q)
    BY <1>4, <1>5 DEF Inductive
  <2>. QED BY <1>1, <2>1, InductiveCoversNat
<1>7. Agree(a[len + 1], b[len], P)
  <2>1. Good(len)
    BY <1>1, <1>6
  <2>. QED BY <2>1 DEF Good
<1>. QED BY <1>2, <1>3, <1>7 DEF more, len

LEMMA RunBackNothing == \A state : RunBack(<<>>, state) = state
<1>. SUFFICES ASSUME NEW state PROVE RunBack(<<>>, state) = state
  OBVIOUS
<1>1. Len(<<>>) = 0
  OBVIOUS
<1>2. PICK back : IsRun(back, <<>>, state) /\ RunBack(<<>>, state) = back[Len(<<>>)]
  BY <1>1, RunBackSteps
<1>. QED BY <1>1, <1>2 DEF IsRun

-----------------------------------------------------------------------------
(* Settings. *)

ValueOf(g) == IF g = "trusted" THEN Hosts ELSE BOOLEAN

\* What a script may put there.
PutValue(g) == IF g \in CredSSP THEN {FALSE} ELSE ValueOf(g)

AllSettings == [Machines -> States]

LEMMA StateIs ==
    ASSUME NEW s \in States
    PROVE  s = [g \in Groups |-> s[g]] /\ \A g \in Groups : s[g] \in ValueOf(g)
  BY DEF States, Groups, CredSSP, ValueOf

LEMMA IsState ==
    ASSUME NEW s, s = [g \in Groups |-> s[g]], \A g \in Groups : s[g] \in ValueOf(g)
    PROVE  s \in States
  BY DEF States, Groups, CredSSP, ValueOf

LEMMA AsFoundTyped == AsFound \in States
<1>1. \A g \in Groups : AsFound[g] \in ValueOf(g)
  BY DEF AsFound, ValueOf, Hosts
<1>2. AsFound = [g \in Groups |-> AsFound[g]]
  BY DEF AsFound
<1>. QED  BY <1>1, <1>2, IsState

Put(state, m, g, v) == [state EXCEPT ![m][g] = v]

\* One setting changes, and no other.
Differs(new, state, m, g, v) ==
    /\ new \in AllSettings
    /\ \A n \in Machines, h \in Groups : new[n][h] = IF n = m /\ h = g THEN v ELSE state[n][h]

LEMMA PutSetting ==
    ASSUME NEW state \in AllSettings, NEW m \in Machines, NEW g \in Groups, NEW v \in ValueOf(g)
    PROVE  Differs(Put(state, m, g, v), state, m, g, v)
<1>. DEFINE s == [state[m] EXCEPT ![g] = v]
<1>1. state[m] \in States
  BY DEF AllSettings
<1>2. /\ s = [h \in Groups |-> s[h]]
      /\ \A h \in Groups : s[h] = IF h = g THEN v ELSE state[m][h]
  BY <1>1, StateIs
<1>3. \A h \in Groups : s[h] \in ValueOf(h)
  BY <1>1, <1>2, StateIs
<1>4. s \in States
  <2>. HIDE DEF s
  <2>. QED  BY <1>2, <1>3, IsState
<1>5. Put(state, m, g, v) = [state EXCEPT ![m] = s]
  BY DEF Put
<1>. HIDE DEF s
<1>6. [state EXCEPT ![m] = s] \in AllSettings
  BY <1>4 DEF AllSettings
<1>7. \A n \in Machines : [state EXCEPT ![m] = s][n] = IF n = m THEN s ELSE state[n]
  BY DEF AllSettings
<1>. QED  BY <1>2, <1>5, <1>6, <1>7 DEF Differs

LEMMA MachineKnown ==
    /\ This \in Machines
    /\ \A s \in Servers : MachineOf(s) \in Machines
    /\ \A s \in Servers : s \notin Local => MachineOf(s) # This
<1>1. \A s \in Servers : s \notin Local => MachineOf(s) \in Names
  BY DEF MachineOf, Names, Range
<1>2. This \in Machines /\ \A s \in Servers : MachineOf(s) \in Machines
  BY DEF Machines
<1>. QED  BY <1>1, <1>2

LEMMA GroupNames ==
    /\ "trusted" \in Groups /\ "auth" \in Groups /\ "svcauth" \in Groups /\ "startup" \in Groups
    /\ "firewall" \in Groups /\ "registry" \in Groups /\ "listener" \in Groups
    /\ "credssp" \in Groups /\ PolicyGroups \subseteq Groups
    /\ "trusted" \notin PolicyGroups /\ "trusted" \notin CredSSP
    /\ ValueOf("trusted") = Hosts /\ \A g \in Groups \ {"trusted"} : ValueOf(g) = BOOLEAN
  BY DEF Groups, CredSSP, PolicyGroups, ValueOf

LEMMA HostsGrow ==
    ASSUME NEW hosts \in Hosts, NEW more \in SUBSET (Servers \cup {Wildcard, This})
    PROVE  hosts \cup more \in Hosts /\ hosts \ more \in Hosts
  BY DEF Hosts

LEMMA ThisHosts ==
    ASSUME settings \in AllSettings
    PROVE  settings[This].trusted \in Hosts
<1>1. settings[This] \in States
  BY MachineKnown DEF AllSettings
<1>. QED  BY <1>1 DEF States

\* The changes of this machine, one setting after the other.
Trusting(more) == Put(settings, This, "trusted", settings[This].trusted \cup more)

LEMMA TrustingTyped ==
    ASSUME settings \in AllSettings, NEW more \in SUBSET (Servers \cup {Wildcard, This})
    PROVE  /\ [settings EXCEPT ![This].trusted = @ \cup more] = Trusting(more)
           /\ Trusting(more) \in AllSettings
           /\ \A n \in Machines, h \in Groups :
                 Trusting(more)[n][h] = IF n = This /\ h = "trusted"
                                          THEN settings[This].trusted \cup more ELSE settings[n][h]
<1>1. [settings EXCEPT ![This].trusted = @ \cup more] = Trusting(more)
  BY DEF Trusting, Put
<1>2. settings[This].trusted \cup more \in ValueOf("trusted")
  BY ThisHosts, HostsGrow, GroupNames
<1>3. This \in Machines /\ "trusted" \in Groups
  BY MachineKnown, GroupNames
<1>. DEFINE hosts == settings[This].trusted \cup more
<1>. HIDE DEF hosts
<1>4. Differs(Put(settings, This, "trusted", hosts), settings, This, "trusted", hosts)
  BY <1>2, <1>3, PutSetting, Zenon DEF hosts
<1>5. Trusting(more) = Put(settings, This, "trusted", hosts)
  BY DEF Trusting, hosts
<1>. QED  BY <1>1, <1>4, <1>5 DEF Differs, hosts

\* Of the settings only groups of this machine are other than before.
OnlyHere(new, groups) ==
    \A n \in Machines, h \in Groups : n # This \/ h \notin groups => new[n][h] = settings[n][h]

\* Two states of a machine differ in these groups only.
AlikeBut(s, t, groups) == \A h \in Groups : h \notin groups => s[h] = t[h]

LEMMA ThisChanged ==
    ASSUME settings \in AllSettings, NEW s \in States, NEW groups,
           AlikeBut(s, settings[This], groups), NEW new, new = [settings EXCEPT ![This] = s]
    PROVE  new \in AllSettings /\ OnlyHere(new, groups)
<1>1. new \in AllSettings /\ \A n \in Machines : new[n] = IF n = This THEN s ELSE settings[n]
  BY MachineKnown DEF AllSettings
<1>. QED  BY <1>1 DEF AlikeBut, OnlyHere

ClientGroups == {"trusted", "auth", "credssp"}

LEMMA ClientTyped ==
    ASSUME settings \in AllSettings, NEW more \in SUBSET (Servers \cup {Wildcard, This}),
           NEW auth \in BOOLEAN, NEW credssp \in BOOLEAN,
           NEW new, new = [settings EXCEPT ![This] = ClientState(@, more, auth, credssp)]
    PROVE  /\ new \in AllSettings
           /\ OnlyHere(new, ClientGroups)
<1>. DEFINE met == settings[This]
            s == ClientState(met, more, auth, credssp)
<1>1. This \in Machines /\ met \in States
  BY MachineKnown DEF AllSettings
<1>2. met.trusted \cup more \in Hosts
  BY ThisHosts, HostsGrow
<1>3. new = [settings EXCEPT ![This] = s]
  OBVIOUS
<1>. HIDE DEF met
<1>4. s \in States
  BY <1>1, <1>2 DEF States, ClientState
<1>5. AlikeBut(s, met, ClientGroups)
  BY <1>1 DEF States, Groups, CredSSP, ClientGroups, ClientState, AlikeBut
<1>. HIDE DEF s
<1>6. AlikeBut(s, settings[This], ClientGroups)
  BY <1>5 DEF met
<1>. QED  BY <1>3, <1>4, <1>6, ThisChanged

LEMMA PolicyTyped ==
    ASSUME settings \in AllSettings,
           NEW new, new = [settings EXCEPT ![This] = Allowing(@)]
    PROVE  /\ new \in AllSettings
           /\ OnlyHere(new, PolicyGroups)
<1>. DEFINE s == Allowing(settings[This])
<1>1. This \in Machines /\ settings[This] \in States
  BY MachineKnown DEF AllSettings
<1>2. /\ s = [h \in Groups |-> s[h]]
      /\ \A h \in Groups : s[h] = IF h \in PolicyGroups THEN TRUE ELSE settings[This][h]
  BY DEF Allowing
<1>3. new = [settings EXCEPT ![This] = s]
  OBVIOUS
<1>. HIDE DEF s
<1>4. \A h \in Groups : s[h] \in ValueOf(h)
  <2>1. \A h \in Groups : settings[This][h] \in ValueOf(h)
    BY <1>1, StateIs
  <2>2. \A h \in PolicyGroups : TRUE \in ValueOf(h)
    BY GroupNames DEF ValueOf
  <2>. QED  BY <1>2, <2>1, <2>2
<1>5. s \in States
  BY <1>2, <1>4, IsState
<1>6. AlikeBut(s, settings[This], PolicyGroups)
  BY <1>2 DEF AlikeBut
<1>. QED  BY <1>3, <1>5, <1>6, ThisChanged

LEMMA AppliedTyped ==
    ASSUME settings \in AllSettings, NEW m \in Machines, NEW step,
           NEW new, new = [settings EXCEPT ![m] = Applied(@, step)]
    PROVE  /\ new \in AllSettings
           /\ \A n \in Machines, h \in Groups :
                 n # m \/ h \notin step.set => new[n][h] = settings[n][h]
<1>. DEFINE s == Applied(settings[m], step)
<1>1. settings[m] \in States /\ This \in Servers \cup {Wildcard, This}
  BY DEF AllSettings
<1>2. /\ s = [h \in Groups |-> s[h]]
      /\ \A h \in Groups : s[h] = IF h \notin step.set THEN settings[m][h]
                                  ELSE IF h = "trusted" THEN settings[m][h] \cup {This} ELSE TRUE
  BY DEF Applied
<1>3. \A h \in Groups : settings[m][h] \in ValueOf(h)
  BY <1>1, StateIs
<1>4. \A h \in Groups : s[h] \in ValueOf(h)
  BY <1>2, <1>3 DEF ValueOf, Hosts
<1>. HIDE DEF s
<1>5. s \in States
  BY <1>2, <1>4, IsState
<1>6. new = [settings EXCEPT ![m] = s]
  BY DEF s
<1>7. new \in AllSettings /\ \A n \in Machines : new[n] = IF n = m THEN s ELSE settings[n]
  BY <1>5, <1>6 DEF AllSettings
<1>. QED  BY <1>2, <1>7

LEMMA LocalhostTyped ==
    ASSUME settings \in AllSettings, NEW new,
           new = [settings EXCEPT ![This] = [@ EXCEPT
                !.startup = TRUE, !.listener = TRUE, !.firewall = TRUE, !.registry = TRUE]]
    PROVE  new \in AllSettings
<1>. DEFINE s == [settings[This] EXCEPT !.startup = TRUE, !.listener = TRUE, !.firewall = TRUE,
                                        !.registry = TRUE]
<1>1. settings[This] \in States
  BY MachineKnown DEF AllSettings
<1>2. s \in States
  BY <1>1 DEF States
<1>3. new = [settings EXCEPT ![This] = s]
  OBVIOUS
<1>. HIDE DEF s
<1>. QED  BY <1>2, <1>3 DEF AllSettings

LEMMA RevertTyped ==
    ASSUME settings \in AllSettings, NEW s \in Servers, RevertServer(s)
    PROVE  settings' \in AllSettings
<1>1. PICK reached \in {{}, {"startup", "firewall", "registry"}} :
            settings' = [settings EXCEPT
                ![MachineOf(s)] = [g \in Groups |-> IF g \in reached THEN FALSE ELSE @[g]],
                ![This].trusted = @ \ {s}]
  BY DEF RevertServer
<1>. DEFINE m == MachineOf(s)
            put == [g \in Groups |-> IF g \in reached THEN FALSE ELSE settings[m][g]]
            one == [settings EXCEPT ![m] = put]
<1>2. m \in Machines /\ settings[m] \in States
  BY MachineKnown DEF AllSettings
<1>3. \A g \in Groups : settings[m][g] \in ValueOf(g)
  BY <1>2, StateIs
<1>4. \A g \in Groups : put[g] \in ValueOf(g)
  BY <1>3 DEF ValueOf
<1>5. put \in States
  <2>1. put = [g \in Groups |-> put[g]]
    OBVIOUS
  <2>. HIDE DEF put
  <2>. QED  BY <1>4, <2>1, IsState
<1>6. one \in AllSettings
  <2>. HIDE DEF put, m
  <2>. QED  BY <1>2, <1>5 DEF AllSettings
<1>7. one[This].trusted \in Hosts
  <2>1. one[This] \in States
    BY <1>6, MachineKnown DEF AllSettings
  <2>. QED  BY <2>1 DEF States
<1>8. settings' = Put(one, This, "trusted", one[This].trusted \ {s})
  BY <1>1 DEF Put
<1>. HIDE DEF one, put, m
<1>9. one[This].trusted \ {s} \in ValueOf("trusted")
  BY <1>7, GroupNames DEF Hosts
<1>10. This \in Machines /\ "trusted" \in Groups
  BY MachineKnown, GroupNames
<1>11. Differs(settings', one, This, "trusted", one[This].trusted \ {s})
  BY <1>6, <1>8, <1>9, <1>10, PutSetting, Zenon
<1>. QED  BY <1>11 DEF Differs

-----------------------------------------------------------------------------
(* Types. *)

AllAttempts == [call : Servers, to : Names, pid : Ids, ok : BOOLEAN]

Ports == {0, 22, 5985, 5986}

Commands == [entry : {"none", "apply", "targets", "run"}, over : SUBSET AllJobs, dry : BOOLEAN,
             elevated : BOOLEAN, parallel : BOOLEAN, creds : BOOLEAN, round : 0 .. 2]

Puts == UNION { [S -> Hosts \cup BOOLEAN] : S \in SUBSET Groups }

Scripts == { c \in [at : Machines, put : Puts] : \A g \in DOMAIN c.put : c.put[g] \in PutValue(g) }

JobType == [pc : Phases, told : Told, clean : BOOLEAN, pid : Ids, way : AllWays,
            to : Names \cup {""}, tried : SUBSET AllAttempts, seen : States, read : SUBSET Groups,
            before : AllSettings, step : 0 .. 7, scripts : Seq(Scripts)]

TablesTyped ==
    /\ profiles \in [Names -> Profiles]
    /\ logged \subseteq AllAttempts
    /\ opened \subseteq Names \X Ports

MachinesTyped == settings \in AllSettings /\ tracker \in Seq(Scripts)

CommandTyped ==
    /\ command \in Commands
    /\ cache \subseteq Servers
    /\ asked \in 0 .. MaxAsked
    /\ faults \in 0 .. MaxFaults

\* Only calls for this machine are where it is configured; the step of a
\* call is 0 between the two client layers only.
PhaseInv(r, s) ==
    /\ r.pc \in {"begin", "local"} => s \in Local
    /\ r.step = 0 => r.pc \in {"capture", "policy"}

TypeInv ==
    /\ TablesTyped
    /\ MachinesTyped
    /\ CommandTyped
    /\ jobs \in [AllJobs -> JobType]
    /\ \A j \in AllJobs : PhaseInv(jobs[j], Server(j))

\* The fields of a call that tell how far it is and what it changed.
Stands(q, pc, step, clean, read, seen, before) ==
    /\ q \in JobType
    /\ q.pc = pc /\ q.step = step /\ q.clean = clean /\ q.read = read
    /\ q.seen = seen /\ q.before = before

LEMMA PcTyped ==
    ASSUME NEW r \in JobType, NEW pc \in Phases
    PROVE  Stands([r EXCEPT !.pc = pc], pc, r.step, r.clean, r.read, r.seen, r.before)
  BY DEF JobType, Stands

LEMMA PcCleanTyped ==
    ASSUME NEW r \in JobType, NEW pc \in Phases, NEW clean \in BOOLEAN
    PROVE  Stands([r EXCEPT !.pc = pc, !.clean = clean], pc, r.step, clean, r.read, r.seen, r.before)
  BY DEF JobType, Stands

LEMMA PcCleanStepTyped ==
    ASSUME NEW r \in JobType, NEW pc \in Phases, NEW clean \in BOOLEAN, NEW step \in 0 .. 7
    PROVE  Stands([r EXCEPT !.pc = pc, !.clean = clean, !.step = step],
                  pc, step, clean, r.read, r.seen, r.before)
  BY DEF JobType, Stands

LEMMA PcStepTyped ==
    ASSUME NEW r \in JobType, NEW pc \in Phases, NEW step \in 0 .. 7
    PROVE  Stands([r EXCEPT !.pc = pc, !.step = step], pc, step, r.clean, r.read, r.seen, r.before)
  BY DEF JobType, Stands

LEMMA PcStepCleanTyped ==
    ASSUME NEW r \in JobType, NEW pc \in Phases, NEW clean \in BOOLEAN, NEW step \in 0 .. 7
    PROVE  Stands([r EXCEPT !.pc = pc, !.step = step, !.clean = clean],
                  pc, step, clean, r.read, r.seen, r.before)
  BY DEF JobType, Stands

LEMMA StepTyped ==
    ASSUME NEW r \in JobType, NEW step \in 0 .. 7
    PROVE  Stands([r EXCEPT !.step = step], r.pc, step, r.clean, r.read, r.seen, r.before)
  BY DEF JobType, Stands

LEMMA StepCleanTyped ==
    ASSUME NEW r \in JobType, NEW clean \in BOOLEAN, NEW step \in 0 .. 7
    PROVE  Stands([r EXCEPT !.step = step, !.clean = clean],
                  r.pc, step, clean, r.read, r.seen, r.before)
  BY DEF JobType, Stands

LEMMA TriedTyped ==
    ASSUME NEW r \in JobType, NEW pc \in Phases, NEW tried \in SUBSET AllAttempts
    PROVE  Stands([r EXCEPT !.pc = pc, !.tried = tried], pc, r.step, r.clean, r.read, r.seen, r.before)
  BY DEF JobType, Stands

LEMMA ConnectedTyped ==
    ASSUME NEW r \in JobType, NEW pc \in Phases, NEW way \in AllWays, NEW to \in Names,
           NEW tried \in SUBSET AllAttempts
    PROVE  Stands([r EXCEPT !.pc = pc, !.way = way, !.to = to, !.tried = tried],
                  pc, r.step, r.clean, r.read, r.seen, r.before)
  BY DEF JobType, Stands

LEMMA BegunTyped ==
    ASSUME NEW r \in JobType, NEW pc \in Phases, NEW pid \in Ids, NEW before \in AllSettings
    PROVE  Stands([r EXCEPT !.pc = pc, !.pid = pid, !.before = before],
                  pc, r.step, r.clean, r.read, r.seen, before)
  BY DEF JobType, Stands

LEMMA AbsentTyped ==
    Stands(Absent, "absent", 1, TRUE, {}, AsFound, [m \in Machines |-> AsFound])
<1>1. [m \in Machines |-> AsFound] \in AllSettings
  BY AsFoundTyped DEF AllSettings
<1>2. NoWay \in AllWays
  BY DEF NoWay, Way, NotSet, AllWays
<1>3. 0 \in Ids
  BY FS_CardinalityType DEF Ids
<1>4. <<>> \in Seq(Scripts) /\ 1 \in 0 .. 7 /\ {} \in SUBSET AllAttempts /\ {} \in SUBSET Groups
  OBVIOUS
<1>5. "absent" \in Phases /\ "none" \in Told
  BY DEF Phases, Told
<1>. QED  BY <1>1, <1>2, <1>3, <1>4, <1>5, AsFoundTyped DEF Absent, JobType, Stands

IsOver(r, scripts) ==
    r \in JobType /\ r.pc = "done" /\ r.step = 1 /\ r.scripts = scripts

LEMMA ReturnedTyped ==
    ASSUME NEW told \in Told, NEW to \in Names \cup {""}, NEW scripts \in Seq(Scripts)
    PROVE  IsOver(Returned(told, to, scripts), scripts)
<1>1. Absent \in JobType /\ Absent.step = 1
  BY AbsentTyped DEF Stands
<1>2. "done" \in Phases
  BY DEF Phases
<1>. QED  BY <1>1, <1>2 DEF Returned, JobType, IsOver

LEMMA RestoreTyped ==
    ASSUME NEW m \in Machines, NEW S \in SUBSET Groups, NEW put \in [S -> Hosts \cup BOOLEAN],
           \A g \in S : put[g] \in PutValue(g)
    PROVE  Restore(m, put) \in Scripts /\ Restore(m, put).at = m /\ Restore(m, put).put = put
<1>1. put \in Puts /\ DOMAIN put = S
  BY DEF Puts
<1>. QED  BY <1>1 DEF Restore, Scripts

-----------------------------------------------------------------------------
(* Where each step takes a call. *)

Moved(j, pc, step, clean, read, seen, before) ==
    /\ Alone(j)
    /\ jobs' \in [AllJobs -> JobType]
    /\ Stands(jobs'[j], pc, step, clean, read, seen, before)

\* Only the place in the code changes.
Went(j, pc) ==
    Moved(j, pc, jobs[j].step, jobs[j].clean, jobs[j].read, jobs[j].seen, jobs[j].before)

Ended(j) ==
    /\ Alone(j)
    /\ jobs' \in [AllJobs -> JobType]
    /\ jobs'[j].pc = "done" /\ jobs'[j].step = 1

JobsTyped == jobs \in [AllJobs -> JobType]

LEMMA MovedBy ==
    ASSUME JobsTyped, NEW j \in AllJobs, NEW q, NEW pc, NEW step, NEW clean, NEW read, NEW seen,
           NEW before, Stands(q, pc, step, clean, read, seen, before), jobs' = [jobs EXCEPT ![j] = q]
    PROVE  Moved(j, pc, step, clean, read, seen, before)
<1>1. q \in JobType
  BY DEF Stands
<1>2. jobs' \in [AllJobs -> JobType] /\ Alone(j) /\ jobs'[j] = q
  BY <1>1 DEF JobsTyped, Alone
<1>. QED  BY <1>2 DEF Moved

LEMMA StepMoves ==
    ASSUME JobsTyped, NEW j \in AllJobs, NEW pc \in Phases, Step(j, pc)
    PROVE  Went(j, pc)
<1>1. jobs[j] \in JobType
  BY DEF JobsTyped
<1>2. jobs' = [jobs EXCEPT ![j] = [jobs[j] EXCEPT !.pc = pc]]
  BY DEF Step
<1>. QED  BY <1>1, <1>2, PcTyped, MovedBy DEF Went

LEMMA EndsWith ==
    ASSUME JobsTyped, NEW j \in AllJobs, NEW told \in Told, NEW to \in Names \cup {""},
           NEW scripts \in Seq(Scripts), jobs' = [jobs EXCEPT ![j] = Returned(told, to, scripts)]
    PROVE  Ended(j) /\ jobs'[j].scripts = scripts
<1>. DEFINE r == Returned(told, to, scripts)
<1>1. IsOver(r, scripts)
  BY ReturnedTyped, Zenon
<1>. HIDE DEF r
<1>2. jobs'[j] = r /\ Alone(j) /\ jobs' \in [AllJobs -> JobType]
  BY <1>1 DEF JobsTyped, Alone, IsOver, r
<1>. QED  BY <1>1, <1>2 DEF Ended, IsOver

LEMMA EndMoves ==
    ASSUME JobsTyped, NEW j \in AllJobs, NEW told \in {"success", "failure"}, End(j, told)
    PROVE  Ended(j)
<1>1. jobs[j].to \in Names \cup {""}
  BY DEF JobsTyped, JobType
<1>2. told \in Told /\ <<>> \in Seq(Scripts)
  BY DEF Told
<1>3. jobs' = [jobs EXCEPT ![j] = Returned(told, jobs[j].to, <<>>)]
  BY DEF End
<1>. QED  BY <1>1, <1>2, <1>3, EndsWith

LEMMA RaiseMoves ==
    ASSUME JobsTyped, NEW j \in AllJobs, Raise(j)
    PROVE  Ended(j)
  BY EndMoves DEF Raise

LEMMA AttemptIn ==
    ASSUME NEW j \in AllJobs, NEW to \in Names, NEW pid \in Ids, NEW ok \in BOOLEAN
    PROVE  Attempt(j, to, pid, ok) \in AllAttempts
  BY ServerKnown DEF Attempt, AllAttempts

LEMMA JobFields ==
    ASSUME JobsTyped, NEW j \in AllJobs
    PROVE  /\ jobs[j] \in JobType
           /\ jobs[j].pid \in Ids /\ jobs[j].tried \in SUBSET AllAttempts /\ jobs[j].way \in AllWays
           /\ jobs[j].seen \in States /\ jobs[j].read \in SUBSET Groups
           /\ jobs[j].before \in AllSettings /\ jobs[j].step \in 0 .. 7
           /\ jobs[j].clean \in BOOLEAN /\ jobs[j].pc \in Phases
  BY DEF JobsTyped, JobType

LEMMA WayPort == \A way \in AllWays : way.port \in Ports
  BY DEF AllWays, Way, Ports

LEMMA ConnectedMoves ==
    ASSUME JobsTyped, NEW j \in AllJobs, NEW name \in Names, NEW way \in AllWays,
           opened \subseteq Names \X Ports, Connected(j, name, way)
    PROVE  /\ opened' \subseteq Names \X Ports
           /\ Went(j, IF jobs[j].pc \in {"stored", "local"} THEN "log" ELSE "save")
<1>. DEFINE next == IF jobs[j].pc \in {"stored", "local"} THEN "log" ELSE "save"
            a == Attempt(j, name, jobs[j].pid, TRUE)
            tried == jobs[j].tried \cup {a}
            q == [jobs[j] EXCEPT !.pc = next, !.way = way, !.to = name, !.tried = tried]
<1>1. jobs[j] \in JobType /\ tried \in SUBSET AllAttempts /\ next \in Phases
  <2>1. a \in AllAttempts
    BY JobFields, AttemptIn
  <2>. QED  BY <2>1, JobFields DEF Phases
<1>2. jobs' = [jobs EXCEPT ![j] = q]
  <2>. HIDE DEF a
  <2>1. jobs' = [jobs EXCEPT ![j].pc = next, ![j].way = way, ![j].to = name,
                             ![j].tried = @ \cup {a}]
    BY DEF Connected, a
  <2>. QED  BY <2>1, <1>1 DEF JobsTyped, JobType
<1>3. Went(j, next)
  <2>. HIDE DEF next, tried
  <2>. QED  BY <1>1, <1>2, ConnectedTyped, MovedBy DEF Went
<1>4. opened' \subseteq Names \X Ports
  BY WayPort DEF Connected
<1>. QED  BY <1>3, <1>4

LEMMA NotConnectedMoves ==
    ASSUME JobsTyped, NEW j \in AllJobs, NEW name \in Names, NEW pc \in Phases, NEW pid \in Ids,
           jobs' = [jobs EXCEPT ![j].pc = pc, ![j].tried = @ \cup {Attempt(j, name, pid, FALSE)}]
    PROVE  Went(j, pc)
<1>. DEFINE a == Attempt(j, name, pid, FALSE)
            tried == jobs[j].tried \cup {a}
            q == [jobs[j] EXCEPT !.pc = pc, !.tried = tried]
<1>1. jobs[j] \in JobType /\ tried \in SUBSET AllAttempts
  <2>1. a \in AllAttempts
    BY AttemptIn
  <2>. QED  BY <2>1, JobFields
<1>2. jobs' = [jobs EXCEPT ![j] = q]
  <2>. HIDE DEF a
  <2>1. jobs' = [jobs EXCEPT ![j].pc = pc, ![j].tried = @ \cup {a}]
    BY DEF a
  <2>. QED  BY <2>1, <1>1 DEF JobsTyped, JobType
<1>. HIDE DEF tried
<1>. QED  BY <1>1, <1>2, TriedTyped, MovedBy DEF Went

SeenOf(read) == [g \in Groups |-> IF g \in read THEN settings[This][g] ELSE AsFound[g]]

LEMMA SeenTyped ==
    ASSUME settings \in AllSettings, NEW read
    PROVE  SeenOf(read) \in States
<1>1. settings[This] \in States
  BY MachineKnown DEF AllSettings
<1>2. \A g \in Groups : settings[This][g] \in ValueOf(g) /\ AsFound[g] \in ValueOf(g)
  BY <1>1, StateIs, AsFoundTyped
<1>3. \A g \in Groups : SeenOf(read)[g] \in ValueOf(g)
  BY <1>2 DEF SeenOf
<1>4. SeenOf(read) = [g \in Groups |-> SeenOf(read)[g]]
  BY DEF SeenOf
<1>. QED  BY <1>3, <1>4, IsState

LEMMA ReadMoves ==
    ASSUME JobsTyped, settings \in AllSettings, NEW j \in AllJobs, NEW from, NEW to \in Phases,
           NEW readable, UNION readable \subseteq Groups, ReadSettings(j, from, to, readable)
    PROVE  \E read \in SUBSET Groups :
              Moved(j, to, jobs[j].step, jobs[j].clean /\ read = UNION readable, read, SeenOf(read),
                    jobs[j].before)
<1>1. PICK read \in readable :
         jobs' = [jobs EXCEPT ![j].pc = to, ![j].read = read,
                ![j].seen = [g \in Groups |-> IF g \in read THEN settings[This][g] ELSE AsFound[g]],
                ![j].clean = @ /\ read = UNION readable]
  BY DEF ReadSettings
<1>. DEFINE clean == jobs[j].clean /\ read = UNION readable
            seen == SeenOf(read)
            q == [jobs[j] EXCEPT !.pc = to, !.read = read, !.seen = seen, !.clean = clean]
<1>2. jobs[j] \in JobType /\ read \in SUBSET Groups /\ clean \in BOOLEAN /\ seen \in States
  BY JobFields, SeenTyped
<1>3. jobs' = [jobs EXCEPT ![j] = q]
  <2>1. jobs' = [jobs EXCEPT ![j].pc = to, ![j].read = read, ![j].seen = SeenOf(read),
                             ![j].clean = @ /\ read = UNION readable]
    BY <1>1 DEF SeenOf
  <2>. QED  BY <2>1, <1>2 DEF JobsTyped, JobType
<1>4. Moved(j, to, jobs[j].step, clean, read, seen, jobs[j].before)
  <2>. HIDE DEF clean, seen
  <2>1. Stands(q, to, jobs[j].step, clean, read, seen, jobs[j].before)
    BY <1>2 DEF JobType, Stands
  <2>. HIDE DEF q
  <2>. QED  BY <1>3, <2>1, MovedBy
<1>. QED  BY <1>2, <1>4

\* A command that fails is not undone.
Spoilt(j, pc, step) ==
    Moved(j, pc, step, FALSE, jobs[j].read, jobs[j].seen, jobs[j].before)

LEMMA AddTrustedHostMoves ==
    ASSUME JobsTyped, NEW j \in AllJobs, AddTrustedHost(j)
    PROVE  \/ Went(j, "retrust") /\ faults' = faults
           \/ Spoilt(j, "readclient", jobs[j].step) /\ Fault
<1>1. "retrust" \in Phases /\ "readclient" \in Phases
  BY DEF Phases, Direct
<1>2. CASE Step(j, "retrust") /\ faults' = faults
  BY <1>1, <1>2, StepMoves
<1>3. CASE Fault /\ jobs' = [jobs EXCEPT ![j].pc = "readclient", ![j].clean = FALSE]
  <2>1. jobs' = [jobs EXCEPT ![j] = [jobs[j] EXCEPT !.pc = "readclient", !.clean = FALSE]]
    BY <1>3
  <2>2. Stands([jobs[j] EXCEPT !.pc = "readclient", !.clean = FALSE], "readclient", jobs[j].step,
               FALSE, jobs[j].read, jobs[j].seen, jobs[j].before)
    BY <1>1, JobFields, PcCleanTyped
  <2>. QED  BY <1>3, <2>1, <2>2, MovedBy DEF Spoilt
<1>. QED  BY <1>2, <1>3 DEF AddTrustedHost

LEMMA ConfigureClientMoves ==
    ASSUME JobsTyped, NEW j \in AllJobs, ConfigureClient(j)
    PROVE  \/ Went(j, "capture") /\ faults' = faults
           \/ Spoilt(j, "capture", 0) /\ Fault
<1>1. "capture" \in Phases /\ 0 \in 0 .. 7
  BY DEF Phases
<1>2. CASE Step(j, "capture") /\ faults' = faults
  BY <1>1, <1>2, StepMoves
<1>3. CASE Fault /\ jobs' = [jobs EXCEPT ![j].pc = "capture", ![j].clean = FALSE, ![j].step = 0]
  <2>. DEFINE q == [jobs[j] EXCEPT !.pc = "capture", !.clean = FALSE, !.step = 0]
  <2>1. jobs' = [jobs EXCEPT ![j] = q]
    BY <1>3
  <2>2. Stands(q, "capture", 0, FALSE, jobs[j].read, jobs[j].seen, jobs[j].before)
    BY <1>1, JobFields, PcCleanStepTyped
  <2>. HIDE DEF q
  <2>. QED  BY <1>3, <2>1, <2>2, MovedBy DEF Spoilt
<1>. QED  BY <1>2, <1>3 DEF ConfigureClient

AfterPolicy(j) == IF jobs[j].step = 0 THEN "target" ELSE "rewinrm"

LEMMA ApplyLocalPolicyMoves ==
    ASSUME JobsTyped, NEW j \in AllJobs, ApplyLocalPolicy(j)
    PROVE  \/ /\ Moved(j, AfterPolicy(j), 1, jobs[j].clean, jobs[j].read, jobs[j].seen, jobs[j].before)
              /\ faults' = faults
           \/ Spoilt(j, AfterPolicy(j), 1) /\ Fault
<1>1. AfterPolicy(j) \in Phases /\ 1 \in 0 .. 7
  BY DEF Phases, Direct, AfterPolicy
<1>2. CASE jobs' = [jobs EXCEPT ![j].pc = AfterPolicy(j), ![j].step = 1] /\ faults' = faults
  <2>. DEFINE q == [jobs[j] EXCEPT !.pc = AfterPolicy(j), !.step = 1]
  <2>1. jobs' = [jobs EXCEPT ![j] = q]
    BY <1>2
  <2>2. Stands(q, AfterPolicy(j), 1, jobs[j].clean, jobs[j].read, jobs[j].seen, jobs[j].before)
    BY <1>1, JobFields, PcStepTyped
  <2>. HIDE DEF q
  <2>. QED  BY <1>2, <2>1, <2>2, MovedBy
<1>3. CASE /\ Fault
           /\ jobs' = [jobs EXCEPT ![j].pc = AfterPolicy(j), ![j].step = 1, ![j].clean = FALSE]
  <2>. DEFINE q == [jobs[j] EXCEPT !.pc = AfterPolicy(j), !.step = 1, !.clean = FALSE]
  <2>1. jobs' = [jobs EXCEPT ![j] = q]
    BY <1>3
  <2>2. Stands(q, AfterPolicy(j), 1, FALSE, jobs[j].read, jobs[j].seen, jobs[j].before)
    BY <1>1, JobFields, PcStepCleanTyped
  <2>. HIDE DEF q
  <2>. QED  BY <1>3, <2>1, <2>2, MovedBy DEF Spoilt
<1>. QED  BY <1>2, <1>3 DEF ApplyLocalPolicy, AfterPolicy

LEMMA ConfigureTargetMoves ==
    ASSUME JobsTyped, NEW j \in AllJobs, ConfigureTarget(j)
    PROVE  \/ /\ Moved(j, "target", jobs[j].step + 1, jobs[j].clean, jobs[j].read, jobs[j].seen,
                       jobs[j].before)
              /\ faults' = faults
           \/ Spoilt(j, "target", jobs[j].step + 1) /\ Fault
<1>. DEFINE next == jobs[j].step + 1
<1>1. next \in 0 .. 7 /\ jobs[j].pc = "target" /\ AfterTarget(j) = next
  BY JobFields DEF ConfigureTarget, TargetSteps, AfterTarget
<1>. HIDE DEF next
<1>2. CASE jobs' = [jobs EXCEPT ![j].step = next] /\ faults' = faults
  <2>. DEFINE q == [jobs[j] EXCEPT !.step = next]
  <2>1. jobs' = [jobs EXCEPT ![j] = q]
    BY <1>2
  <2>2. Stands(q, jobs[j].pc, next, jobs[j].clean, jobs[j].read, jobs[j].seen, jobs[j].before)
    BY <1>1, JobFields, StepTyped
  <2>. HIDE DEF q
  <2>3. Stands(q, "target", next, jobs[j].clean, jobs[j].read, jobs[j].seen, jobs[j].before)
    BY <1>1, <2>2
  <2>. QED  BY <1>2, <2>1, <2>3, MovedBy DEF next
<1>3. CASE Fault /\ jobs' = [jobs EXCEPT ![j].step = next, ![j].clean = FALSE]
  <2>. DEFINE q == [jobs[j] EXCEPT !.step = next, !.clean = FALSE]
  <2>1. jobs' = [jobs EXCEPT ![j] = q]
    BY <1>3
  <2>2. Stands(q, jobs[j].pc, next, FALSE, jobs[j].read, jobs[j].seen, jobs[j].before)
    BY <1>1, JobFields, StepCleanTyped
  <2>. HIDE DEF q
  <2>3. Stands(q, "target", next, FALSE, jobs[j].read, jobs[j].seen, jobs[j].before)
    BY <1>1, <2>2
  <2>. QED  BY <1>3, <2>1, <2>3, MovedBy DEF Spoilt, next
<1>. QED  BY <1>1, <1>2, <1>3 DEF ConfigureTarget

LEMMA EndTargetMoves ==
    ASSUME JobsTyped, NEW j \in AllJobs, EndTarget(j)
    PROVE  Went(j, "retarget") \/ Went(j, "fallback")
<1>1. "retarget" \in Phases /\ "fallback" \in Phases
  BY DEF Phases, Direct
<1>2. Step(j, "retarget") \/ Step(j, "fallback")
  BY DEF EndTarget
<1>. QED  BY <1>1, <1>2, StepMoves

LEMMA NextIdIn ==
    ASSUME NEW s \in Names, profiles[s].id = 0
    PROVE  NextId \in Ids
<1>. DEFINE known == { n \in Names : profiles[n].id # 0 }
<1>1. IsFiniteSet(known) /\ Cardinality(known) =< Cardinality(Names)
      /\ (Cardinality(Names) = Cardinality(known) => Names = known)
  BY FS_Subset
<1>2. s \notin known /\ s \in Names
  OBVIOUS
<1>3. Cardinality(known) \in Nat /\ Cardinality(Names) \in Nat
  BY <1>1, FS_CardinalityType
<1>4. NextId = 1 + Cardinality(known)
  BY DEF NextId
<1>. HIDE DEF known
<1>. QED  BY <1>1, <1>2, <1>3, <1>4 DEF Ids

LEMMA EnsuredIn ==
    ASSUME profiles \in [Names -> Profiles], NEW s \in Names
    PROVE  Ensured(s) \in [Names -> Profiles] /\ Ensured(s)[s].id \in Ids
<1>1. CASE profiles[s].id = 0
  <2>1. NextId \in Ids
    BY <1>1, NextIdIn
  <2>. QED  BY <1>1, <2>1 DEF Ensured, Profiles
<1>2. CASE profiles[s].id # 0
  BY <1>2 DEF Ensured, Profiles
<1>. QED  BY <1>1, <1>2

LEMMA SavedIn ==
    ASSUME profiles \in [Names -> Profiles], NEW name \in Names, NEW way \in AllWays
    PROVE  Saved(name, way) \in [Names -> Profiles]
<1>. DEFINE id == IF profiles[name].id = 0 THEN NextId ELSE profiles[name].id
<1>1. id \in Ids
  BY NextIdIn DEF Profiles
<1>2. [id |-> id, ok |-> TRUE, way |-> way] \in Profiles
  <2>. HIDE DEF id
  <2>. QED  BY <1>1 DEF Profiles
<1>3. Saved(name, way) = [profiles EXCEPT ![name] = [id |-> id, ok |-> TRUE, way |-> way]]
  BY DEF Saved
<1>. HIDE DEF id
<1>. QED  BY <1>2, <1>3

LEMMA RowIdIn ==
    ASSUME NEW name \in Names
    PROVE  RowId(name) \in Ids
<1>1. 0 \in Ids
  BY FS_CardinalityType DEF Ids
<1>. QED  BY <1>1, NextIdIn DEF RowId

LEMMA FilledIn ==
    ASSUME NEW tried \in SUBSET AllAttempts, NEW id \in Ids
    PROVE  Filled(tried, id) \subseteq AllAttempts
  BY DEF Filled, AllAttempts

LEMMA BeginMoves ==
    ASSUME JobsTyped, NEW j \in AllJobs, settings \in AllSettings, profiles \in [Names -> Profiles],
           Begin(j)
    PROVE  /\ profiles' \in [Names -> Profiles]
           /\ Moved(j, IF Server(j) \in Local THEN "begin" ELSE "stored", jobs[j].step, jobs[j].clean,
                    jobs[j].read, jobs[j].seen, settings)
<1>. DEFINE next == IF Server(j) \in Local THEN "begin" ELSE "stored"
            id == Ensured(Server(j))[Server(j)].id
            q == [jobs[j] EXCEPT !.pc = next, !.pid = id, !.before = settings]
<1>1. id \in Ids /\ profiles' \in [Names -> Profiles]
  BY ServerKnown, EnsuredIn DEF Begin
<1>2. jobs[j] \in JobType /\ next \in Phases
  BY JobFields DEF Phases
<1>3. jobs' = [jobs EXCEPT ![j] = q]
  <2>. HIDE DEF next, id
  <2>1. jobs' = [jobs EXCEPT ![j].pc = next, ![j].pid = id, ![j].before = settings]
    BY DEF Begin, next, id
  <2>. QED  BY <2>1, <1>2 DEF JobsTyped, JobType
<1>4. Stands(q, next, jobs[j].step, jobs[j].clean, jobs[j].read, jobs[j].seen, settings)
  <2>. HIDE DEF next, id
  <2>. QED  BY <1>1, <1>2, BegunTyped
<1>. HIDE DEF q
<1>. QED  BY <1>1, <1>3, <1>4, MovedBy

LEMMA TryFallbacksMoves ==
    ASSUME JobsTyped, NEW j \in AllJobs, opened \subseteq Names \X Ports, TryFallbacks(j)
    PROVE  /\ opened' \subseteq Names \X Ports
           /\ Went(j, "save") \/ Went(j, "manual") \/ Ended(j)
<1>1. /\ Server(j) \in Names /\ Fallback \in AllWays /\ 0 \in Ids
      /\ "save" \in Phases /\ "manual" \in Phases
  BY ServerKnown, FS_CardinalityType DEF Fallback, Way, AllWays, Ids, Phases
<1>2. CASE /\ opened' = opened \cup {<<Server(j), Fallback.port>>}
           /\ jobs' = [jobs EXCEPT ![j].pc = "save", ![j].way = Fallback, ![j].to = Server(j),
                                   ![j].tried = @ \cup {Attempt(j, Server(j), 0, TRUE)}]
  <2>. DEFINE a == Attempt(j, Server(j), 0, TRUE)
              tried == jobs[j].tried \cup {a}
              q == [jobs[j] EXCEPT !.pc = "save", !.way = Fallback, !.to = Server(j), !.tried = tried]
  <2>1. jobs[j] \in JobType /\ tried \in SUBSET AllAttempts
    <3>1. a \in AllAttempts
      BY <1>1, AttemptIn
    <3>. QED  BY <3>1, JobFields
  <2>2. jobs' = [jobs EXCEPT ![j] = q]
    <3>. HIDE DEF a
    <3>1. jobs' = [jobs EXCEPT ![j].pc = "save", ![j].way = Fallback, ![j].to = Server(j),
                               ![j].tried = @ \cup {a}]
      BY <1>2 DEF a
    <3>. QED  BY <3>1, <2>1 DEF JobsTyped, JobType
  <2>3. Stands(q, "save", jobs[j].step, jobs[j].clean, jobs[j].read, jobs[j].seen, jobs[j].before)
    <3>. HIDE DEF tried
    <3>. QED  BY <1>1, <2>1, ConnectedTyped
  <2>4. opened' \subseteq Names \X Ports
    BY <1>1, <1>2, WayPort
  <2>. HIDE DEF q
  <2>. QED  BY <2>2, <2>3, <2>4, MovedBy DEF Went
<1>3. CASE /\ jobs' = [jobs EXCEPT ![j].pc = "manual",
                                   ![j].tried = @ \cup {Attempt(j, Server(j), 0, FALSE)}]
           /\ UNCHANGED opened
  BY <1>1, <1>3, NotConnectedMoves
<1>4. CASE Raise(j) /\ UNCHANGED opened
  BY <1>4, RaiseMoves
<1>. QED  BY <1>2, <1>3, <1>4 DEF TryFallbacks

LEMMA ManualLayerMoves ==
    ASSUME JobsTyped, NEW j \in AllJobs, tracker \in Seq(Scripts), ManualLayer(j)
    PROVE  Ended(j) /\ jobs'[j].scripts = tracker
<1>1. "failure" \in Told /\ "" \in Names \cup {""}
  BY DEF Told
<1>2. jobs' = [jobs EXCEPT ![j] = Returned("failure", "", tracker)]
  BY DEF ManualLayer
<1>. QED  BY <1>1, <1>2, EndsWith

LEMMA SaveProfileMoves ==
    ASSUME JobsTyped, NEW j \in AllJobs, jobs[j].to \in Names, SaveProfile(j)
    PROVE  Went(j, "log")
<1>. DEFINE tried == Filled(jobs[j].tried, RowId(jobs[j].to))
            q == [jobs[j] EXCEPT !.pc = "log", !.tried = tried]
<1>1. jobs[j] \in JobType /\ tried \in SUBSET AllAttempts /\ "log" \in Phases
  BY JobFields, RowIdIn, FilledIn DEF Phases
<1>2. jobs' = [jobs EXCEPT ![j] = q]
  BY <1>1 DEF SaveProfile, JobsTyped, JobType
<1>3. Stands(q, "log", jobs[j].step, jobs[j].clean, jobs[j].read, jobs[j].seen, jobs[j].before)
  <2>. HIDE DEF tried
  <2>. QED  BY <1>1, TriedTyped
<1>. HIDE DEF q
<1>. QED  BY <1>2, <1>3, MovedBy DEF Went

LEMMA LogAttemptsMoves ==
    ASSUME JobsTyped, NEW j \in AllJobs, LogAttempts(j)
    PROVE  Went(j, "remember") \/ Ended(j)
<1>1. "remember" \in Phases
  BY DEF Phases
<1>2. Step(j, "remember") \/ End(j, "success") \/ Raise(j)
  BY DEF LogAttempts
<1>. QED  BY <1>1, <1>2, StepMoves, EndMoves, RaiseMoves

LEMMA EarlyMoves ==
    ASSUME JobsTyped, NEW j \in AllJobs, UseCache(j) \/ UseProfile(j) \/ NotWindows(j)
    PROVE  Ended(j)
<1>1. End(j, "success") \/ End(j, "failure")
  BY DEF UseCache, UseProfile, NotWindows
<1>. QED  BY <1>1, EndMoves

LEMMA AfterDirectPhase ==
    ASSUME NEW j \in AllJobs, jobs[j].pc \in Direct
    PROVE  AfterDirect(j) \in Phases /\ AfterDirect(j) \notin {"begin", "local"}
  BY DEF AfterDirect, Direct, Phases

LEMMA NoDirectAttemptsMoves ==
    ASSUME JobsTyped, NEW j \in AllJobs, NoDirectAttempts(j)
    PROVE  Went(j, AfterDirect(j))
<1>1. Step(j, AfterDirect(j)) /\ AfterDirect(j) \in Phases
  BY AfterDirectPhase DEF NoDirectAttempts
<1>. QED  BY <1>1, StepMoves

LEMMA DirectAttemptsMoves ==
    ASSUME IInv, JobsTyped, NEW j \in AllJobs, opened \subseteq Names \X Ports, DirectAttempts(j)
    PROVE  /\ opened' \subseteq Names \X Ports
           /\ Went(j, "log") \/ Went(j, "save") \/ Went(j, AfterDirect(j))
<1>1. jobs[j].pc \in Direct /\ AfterDirect(j) \in Phases
  BY AfterDirectPhase DEF DirectAttempts
<1>2. DirectName(j) \in Names
  BY ServerKnown, KnownRecord DEF DirectName, JobInv, Names, Range
<1>3. Ways \subseteq AllWays
  BY DEF Ways, Way, AllWays
<1>4. CASE \E way \in Ways : Connected(j, DirectName(j), way)
  <2>1. PICK way \in Ways : Connected(j, DirectName(j), way)
    BY <1>4
  <2>2. /\ opened' \subseteq Names \X Ports
        /\ Went(j, IF jobs[j].pc \in {"stored", "local"} THEN "log" ELSE "save")
    BY <1>2, <1>3, <2>1, ConnectedMoves
  <2>. QED  BY <2>2
<1>5. CASE NotConnected(j, DirectName(j), AfterDirect(j))
  BY <1>1, <1>2, <1>5, JobFields, NotConnectedMoves DEF NotConnected
<1>. QED  BY <1>4, <1>5 DEF DirectAttempts

LEMMA TryStoredMoves ==
    ASSUME JobsTyped, NEW j \in AllJobs, opened \subseteq Names \X Ports,
           profiles \in [Names -> Profiles], TryStored(j)
    PROVE  /\ opened' \subseteq Names \X Ports
           /\ Went(j, "log") \/ Went(j, "direct")
<1>1. Server(j) \in Names /\ profiles[Server(j)].way \in AllWays /\ "direct" \in Phases
  BY ServerKnown DEF Profiles, Phases, Direct
<1>2. CASE Connected(j, Server(j), profiles[Server(j)].way)
  <2>1. jobs[j].pc \in {"stored", "local"}
    BY DEF TryStored
  <2>2. /\ opened' \subseteq Names \X Ports
        /\ Went(j, IF jobs[j].pc \in {"stored", "local"} THEN "log" ELSE "save")
    BY <1>1, <1>2, ConnectedMoves
  <2>. QED  BY <2>1, <2>2
<1>3. CASE NotConnected(j, Server(j), "direct")
  BY <1>1, <1>3, JobFields, NotConnectedMoves DEF NotConnected
<1>. QED  BY <1>2, <1>3 DEF TryStored

-----------------------------------------------------------------------------
(* Types are kept. *)

LEMMA TypeStep ==
    ASSUME TypeInv, NEW j \in AllJobs, Alone(j), jobs' \in [AllJobs -> JobType],
           jobs'[j].pc \in {"begin", "local"} => Server(j) \in Local,
           jobs'[j].step = 0 => jobs'[j].pc \in {"capture", "policy"},
           TablesTyped', MachinesTyped', CommandTyped'
    PROVE  TypeInv'
<1>1. \A i \in AllJobs : Server(i)' = Server(i)
  BY DEF Server
<1>2. \A i \in AllJobs \ {j} : PhaseInv(jobs[i], Server(i))'
  BY <1>1 DEF Alone, TypeInv, PhaseInv
<1>3. PhaseInv(jobs[j], Server(j))'
  BY <1>1 DEF PhaseInv
<1>. QED  BY <1>2, <1>3 DEF TypeInv

LEMMA TypeEnded ==
    ASSUME TypeInv, NEW j \in AllJobs, Ended(j), TablesTyped', MachinesTyped', CommandTyped'
    PROVE  TypeInv'
  BY TypeStep DEF Ended

LEMMA TypeMoved ==
    ASSUME TypeInv, NEW j \in AllJobs, NEW pc, NEW step, NEW clean, NEW read, NEW seen, NEW before,
           Moved(j, pc, step, clean, read, seen, before),
           pc \in {"begin", "local"} => Server(j) \in Local,
           step = 0 => pc \in {"capture", "policy"},
           TablesTyped', MachinesTyped', CommandTyped'
    PROVE  TypeInv'
  BY TypeStep DEF Moved, Stands

LEMMA TypeWent ==
    ASSUME TypeInv, NEW j \in AllJobs, NEW pc, Went(j, pc), pc \notin {"begin", "local"},
           jobs[j].pc \notin {"capture", "policy"},
           TablesTyped', MachinesTyped', CommandTyped'
    PROVE  TypeInv'
<1>1. jobs[j].step # 0
  BY DEF TypeInv, PhaseInv
<1>. QED  BY <1>1, TypeMoved DEF Went

LEMMA TypeSpoilt ==
    ASSUME TypeInv, NEW j \in AllJobs, NEW pc, NEW step, Spoilt(j, pc, step),
           pc \notin {"begin", "local"}, step = 0 => pc \in {"capture", "policy"},
           TablesTyped', MachinesTyped', CommandTyped'
    PROVE  TypeInv'
  BY TypeStep DEF Spoilt, Moved, Stands

SameMachines == UNCHANGED <<settings, tracker>>

SameCommand == UNCHANGED <<command, cache, asked>>

LEMMA CommandKept ==
    ASSUME TypeInv, SameCommand, faults' = faults \/ Fault
    PROVE  CommandTyped'
  BY DEF TypeInv, CommandTyped, SameCommand, Fault

LEMMA MachinesKept ==
    ASSUME TypeInv, SameMachines
    PROVE  MachinesTyped'
  BY DEF TypeInv, MachinesTyped, SameMachines

LEMMA TablesKept ==
    ASSUME TypeInv, SameTables
    PROVE  TablesTyped'
  BY DEF TypeInv, TablesTyped, SameTables

LEMMA Known ==
    ASSUME TypeInv
    PROVE  /\ JobsTyped /\ settings \in AllSettings /\ tracker \in Seq(Scripts)
           /\ profiles \in [Names -> Profiles] /\ logged \subseteq AllAttempts
           /\ opened \subseteq Names \X Ports
  BY DEF TypeInv, JobsTyped, MachinesTyped, TablesTyped

LEMMA EarlyTyped ==
    ASSUME TypeInv, NEW j \in AllJobs, UseCache(j) \/ UseProfile(j) \/ NotWindows(j)
    PROVE  TypeInv'
<1>1. SameTables /\ SameMachines /\ SameCommand /\ faults' = faults
  BY DEF UseCache, UseProfile, NotWindows, SameTables, SameMachines, SameCommand
<1>2. Ended(j)
  BY Known, EarlyMoves
<1>. QED  BY <1>1, <1>2, TypeEnded, CommandKept, MachinesKept, TablesKept

LEMMA BeginTyped ==
    ASSUME IInv, TypeInv, NEW j \in AllJobs, Begin(j)
    PROVE  TypeInv'
<1>. DEFINE next == IF Server(j) \in Local THEN "begin" ELSE "stored"
<1>1. /\ profiles' \in [Names -> Profiles]
      /\ Moved(j, next, jobs[j].step, jobs[j].clean, jobs[j].read, jobs[j].seen, settings)
  BY Known, BeginMoves
<1>2. TablesTyped' /\ MachinesTyped' /\ SameCommand /\ faults' = faults
  BY <1>1, Known DEF Begin, TablesTyped, MachinesTyped, SameCommand
<1>3. jobs[j].step # 0 /\ (next \in {"begin", "local"} => Server(j) \in Local)
  BY DEF TypeInv, PhaseInv, Begin, Take
<1>. HIDE DEF next
<1>. QED  BY <1>1, <1>2, <1>3, TypeMoved, CommandKept

LEMMA PrepareLocalhostTyped ==
    ASSUME TypeInv, NEW j \in AllJobs, PrepareLocalhost(j)
    PROVE  TypeInv'
<1>1. /\ jobs[j].pc = "begin" /\ SameTables /\ SameCommand /\ tracker' = tracker
      /\ faults' = faults \/ Fault
  BY DEF PrepareLocalhost, SameTables, SameCommand
<1>2. settings' \in AllSettings
  BY Known, LocalhostTyped DEF PrepareLocalhost
<1>3. MachinesTyped' /\ TablesTyped' /\ CommandTyped'
  BY <1>1, <1>2, Known, TablesKept, CommandKept DEF MachinesTyped
<1>4. CASE Step(j, "local")
  <2>1. "local" \in Phases
    BY DEF Phases, Direct
  <2>2. Went(j, "local")
    BY <1>4, <2>1, Known, StepMoves
  <2>3. Server(j) \in Local /\ jobs[j].step # 0
    BY <1>1 DEF TypeInv, PhaseInv
  <2>. QED  BY <1>3, <2>2, <2>3, TypeMoved DEF Went
<1>5. CASE Raise(j)
  BY <1>3, <1>5, Known, RaiseMoves, TypeEnded
<1>. QED  BY <1>4, <1>5 DEF PrepareLocalhost

LEMMA AttemptsTyped ==
    ASSUME IInv, TypeInv, NEW j \in AllJobs, TryStored(j) \/ DirectAttempts(j) \/ NoDirectAttempts(j)
    PROVE  TypeInv'
<1>1. /\ UNCHANGED <<profiles, logged>> /\ SameMachines /\ SameCommand /\ faults' = faults
      /\ jobs[j].pc \notin {"capture", "policy"}
  BY DEF TryStored, DirectAttempts, NoDirectAttempts, SameMachines, SameCommand, Direct
<1>2. \E pc : Went(j, pc) /\ pc \notin {"begin", "local"}
  <2>1. CASE TryStored(j)
    BY <2>1, Known, TryStoredMoves
  <2>2. CASE DirectAttempts(j)
    BY <2>2, Known, DirectAttemptsMoves, AfterDirectPhase DEF DirectAttempts
  <2>3. CASE NoDirectAttempts(j)
    BY <2>3, Known, NoDirectAttemptsMoves, AfterDirectPhase DEF NoDirectAttempts
  <2>. QED  BY <2>1, <2>2, <2>3
<1>3. opened' \subseteq Names \X Ports
  <2>1. CASE TryStored(j)
    BY <2>1, Known, TryStoredMoves
  <2>2. CASE DirectAttempts(j)
    BY <2>2, Known, DirectAttemptsMoves
  <2>3. CASE NoDirectAttempts(j)
    BY <2>3, Known DEF NoDirectAttempts
  <2>. QED  BY <2>1, <2>2, <2>3
<1>4. TablesTyped'
  BY <1>1, <1>3, Known DEF TablesTyped
<1>. QED  BY <1>1, <1>2, <1>4, TypeWent, MachinesKept, CommandKept

LEMMA ReadingTyped ==
    ASSUME TypeInv, NEW j \in AllJobs, NEW from, NEW to \in {"trust", "winrm", "policy"},
           NEW readable, UNION readable \subseteq Groups, ReadSettings(j, from, to, readable),
           to = "policy" \/ jobs[j].step # 0
    PROVE  TypeInv'
<1>1. SameTables /\ SameMachines /\ SameCommand /\ (faults' = faults \/ Fault)
  BY DEF ReadSettings, SameTables, SameMachines, SameCommand
<1>2. to \in Phases
  BY DEF Phases
<1>3. PICK read \in SUBSET Groups :
         Moved(j, to, jobs[j].step, jobs[j].clean /\ read = UNION readable, read, SeenOf(read),
               jobs[j].before)
  BY <1>2, Known, ReadMoves
<1>4. TablesTyped' /\ MachinesTyped' /\ CommandTyped'
  BY <1>1, CommandKept, MachinesKept, TablesKept
<1>. QED  BY <1>3, <1>4, TypeStep DEF Moved, Stands

LEMMA Readables ==
    /\ UNION (SUBSET {"trusted"}) = {"trusted"}
    /\ UNION (SUBSET {"trusted", "auth"}) = {"trusted", "auth"}
    /\ UNION {{}, {"auth", "svcauth"}} = {"auth", "svcauth"}
    /\ {"trusted"} \subseteq Groups /\ {"trusted", "auth"} \subseteq Groups
    /\ {"auth", "svcauth"} \subseteq Groups
  BY DEF Groups

LEMMA ReadsTyped ==
    ASSUME TypeInv, NEW j \in AllJobs, ReadTrustedHosts(j) \/ ReadClient(j) \/ CapturePolicy(j)
    PROVE  TypeInv'
<1>1. jobs[j].step = 0 => jobs[j].pc \in {"capture", "policy"}
  BY DEF TypeInv, PhaseInv
<1>2. CASE ReadTrustedHosts(j)
  <2>1. ReadSettings(j, "read", "trust", SUBSET {"trusted"}) /\ jobs[j].step # 0
    BY <1>1, <1>2 DEF ReadTrustedHosts, ReadSettings
  <2>. QED  BY <2>1, Readables, ReadingTyped
<1>3. CASE ReadClient(j)
  <2>1. ReadSettings(j, "readclient", "winrm", SUBSET {"trusted", "auth"}) /\ jobs[j].step # 0
    BY <1>1, <1>3 DEF ReadClient, ReadSettings
  <2>2. UNION (SUBSET {"trusted", "auth"}) \subseteq Groups
    BY Readables
  <2>. QED  BY <2>1, <2>2, ReadingTyped
<1>4. CASE CapturePolicy(j)
  <2>1. ReadSettings(j, "capture", "policy", {{}, {"auth", "svcauth"}})
    BY <1>4 DEF CapturePolicy
  <2>2. UNION {{}, {"auth", "svcauth"}} \subseteq Groups
    BY Readables
  <2>. QED  BY <2>1, <2>2, ReadingTyped
<1>. QED  BY <1>2, <1>3, <1>4

LEMMA TrackTyped ==
    ASSUME TypeInv, NEW script \in Scripts, Track(script)
    PROVE  tracker' \in Seq(Scripts)
  BY Known DEF Track

\* The scripts that are recorded put settings back that there are.
LEMMA TrustScript ==
    ASSUME TypeInv, NEW j \in AllJobs
    PROVE  Restore(This, [trusted |-> jobs[j].seen.trusted]) \in Scripts
<1>. DEFINE put == [trusted |-> jobs[j].seen.trusted]
<1>1. jobs[j].seen.trusted \in Hosts
  BY Known, JobFields DEF States
<1>2. put \in [{"trusted"} -> Hosts \cup BOOLEAN] /\ put["trusted"] \in ValueOf("trusted")
  BY <1>1 DEF ValueOf
<1>3. {"trusted"} \in SUBSET Groups
  BY Readables
<1>. HIDE DEF put
<1>4. \A g \in {"trusted"} : put[g] \in PutValue(g)
  BY <1>2, GroupNames DEF PutValue
<1>5. Restore(This, put) \in Scripts
  BY <1>2, <1>3, <1>4, RestoreTyped, MachineKnown
<1>. QED  BY <1>5 DEF put

LEMMA ValuesIn == \A g \in Groups : PutValue(g) \subseteq Hosts \cup BOOLEAN
  BY DEF ValueOf, PutValue

LEMMA StateScript ==
    ASSUME NEW m \in Machines, NEW S \in SUBSET Groups, NEW s \in States
    PROVE  Restore(m, PutBack(s, S)) \in Scripts
<1>. DEFINE put == PutBack(s, S)
<1>1. DOMAIN put = S /\ \A g \in S : put[g] = IF g \in CredSSP THEN FALSE ELSE s[g]
  BY DEF PutBack
<1>2. put = [g \in S |-> put[g]]
  BY DEF PutBack
<1>. HIDE DEF put
<1>3. \A g \in S : put[g] \in PutValue(g)
  BY <1>1, StateIs DEF PutValue
<1>4. put \in [S -> Hosts \cup BOOLEAN]
  BY <1>2, <1>3, ValuesIn
<1>5. Restore(m, put) \in Scripts
  BY <1>3, <1>4, RestoreTyped
<1>. QED  BY <1>5 DEF put

LEMMA HostNames ==
    /\ {} \in SUBSET (Servers \cup {Wildcard, This})
    /\ {Wildcard} \in SUBSET (Servers \cup {Wildcard, This})
    /\ \A j \in AllJobs : {Server(j)} \in SUBSET (Servers \cup {Wildcard, This})
  BY ServerKnown

LEMMA AddTrustedHostTyped ==
    ASSUME TypeInv, NEW j \in AllJobs, AddTrustedHost(j)
    PROVE  TypeInv'
<1>1. SameTables /\ SameCommand /\ (faults' = faults \/ Fault) /\ jobs[j].pc = "trust"
  BY DEF AddTrustedHost, SameTables, SameCommand
<1>2. settings' \in AllSettings /\ tracker' \in Seq(Scripts)
  <2>1. CASE /\ settings' = [settings EXCEPT ![This].trusted = @ \cup {Server(j)}]
             /\ Track(Restore(This, [trusted |-> jobs[j].seen.trusted]))
    <3>1. tracker' \in Seq(Scripts)
      BY <2>1, TrustScript, TrackTyped
    <3>. DEFINE more == {Server(j)}
    <3>2. settings' = [settings EXCEPT ![This].trusted = @ \cup more]
      BY <2>1
    <3>3. more \in SUBSET (Servers \cup {Wildcard, This})
      BY HostNames
    <3>. HIDE DEF more
    <3>4. settings \in AllSettings
      BY Known
    <3>5. /\ [settings EXCEPT ![This].trusted = @ \cup more] = Trusting(more)
          /\ Trusting(more) \in AllSettings
      BY <3>3, <3>4, TrustingTyped
    <3>. QED  BY <3>1, <3>2, <3>5, Zenon
  <2>2. CASE UNCHANGED <<settings, tracker>>
    BY <2>2, Known
  <2>. QED  BY <2>1, <2>2 DEF AddTrustedHost
<1>3. TablesTyped' /\ MachinesTyped' /\ CommandTyped'
  BY <1>1, <1>2, TablesKept, CommandKept DEF MachinesTyped
<1>4. jobs[j].step # 0
  BY <1>1 DEF TypeInv, PhaseInv
<1>5. CASE Went(j, "retrust")
  BY <1>1, <1>3, <1>5, TypeWent
<1>6. CASE Spoilt(j, "readclient", jobs[j].step)
  BY <1>3, <1>4, <1>6, TypeSpoilt
<1>. QED  BY <1>5, <1>6, Known, AddTrustedHostMoves

LEMMA ClientScript ==
    ASSUME TypeInv, NEW j \in AllJobs
    PROVE  Restore(This, PutBack(jobs[j].seen, jobs[j].read \cup {"credssp"})) \in Scripts
<1>1. jobs[j].read \cup {"credssp"} \in SUBSET Groups /\ jobs[j].seen \in States
  BY Known, JobFields, GroupNames
<1>. QED  BY <1>1, MachineKnown, StateScript

LEMMA ConfigureClientTyped ==
    ASSUME TypeInv, NEW j \in AllJobs, ConfigureClient(j)
    PROVE  TypeInv'
<1>1. SameTables /\ SameCommand /\ (faults' = faults \/ Fault) /\ jobs[j].pc = "winrm"
  BY DEF ConfigureClient, SameTables, SameCommand
<1>2. tracker' \in Seq(Scripts)
  BY ClientScript, TrackTyped DEF ConfigureClient
<1>3. settings' \in AllSettings
  <2>1. settings[This].auth \in BOOLEAN /\ settings[This].credssp \in BOOLEAN
    BY Known, MachineKnown DEF AllSettings, States
  <2>2. PICK hosts \in {{}, {Wildcard}}, auth \in {settings[This].auth, TRUE},
             credssp \in {settings[This].credssp, TRUE} :
           settings' = [settings EXCEPT ![This] = ClientState(@, hosts, auth, credssp)]
    BY DEF ConfigureClient
  <2>3. /\ hosts \in SUBSET (Servers \cup {Wildcard, This})
        /\ auth \in BOOLEAN /\ credssp \in BOOLEAN
    BY <2>1, HostNames
  <2>. QED  BY <2>2, <2>3, Known, ClientTyped
<1>4. TablesTyped' /\ MachinesTyped' /\ CommandTyped'
  BY <1>1, <1>2, <1>3, TablesKept, CommandKept DEF MachinesTyped
<1>5. CASE Went(j, "capture")
  BY <1>1, <1>4, <1>5, TypeWent
<1>6. CASE Spoilt(j, "capture", 0)
  BY <1>4, <1>6, TypeSpoilt
<1>. QED  BY <1>5, <1>6, Known, ConfigureClientMoves

LEMMA PolicyScript ==
    ASSUME NEW m \in Machines, NEW s \in States
    PROVE  Restore(m, PolicyPut(s)) \in Scripts
  BY GroupNames, StateScript DEF PolicyPut

LEMMA ApplyLocalPolicyTyped ==
    ASSUME TypeInv, NEW j \in AllJobs, ApplyLocalPolicy(j)
    PROVE  TypeInv'
<1>1. SameTables /\ SameCommand /\ (faults' = faults \/ Fault)
  BY DEF ApplyLocalPolicy, SameTables, SameCommand
<1>2. settings' \in AllSettings
  <2>1. \/ settings' = settings
        \/ settings' = [settings EXCEPT ![This] = Allowing(@)]
    BY DEF ApplyLocalPolicy
  <2>. QED  BY <2>1, Known, PolicyTyped
<1>3. tracker' \in Seq(Scripts)
  <2>1. Restore(This, PolicyPut(jobs[j].seen)) \in Scripts
    BY Known, JobFields, MachineKnown, PolicyScript
  <2>2. Track(Restore(This, PolicyPut(jobs[j].seen))) \/ tracker' = tracker
    BY DEF ApplyLocalPolicy
  <2>. QED  BY <2>1, <2>2, Known, TrackTyped
<1>4. TablesTyped' /\ MachinesTyped' /\ CommandTyped'
  BY <1>1, <1>2, <1>3, TablesKept, CommandKept DEF MachinesTyped
<1>5. AfterPolicy(j) \notin {"begin", "local"}
  BY DEF AfterPolicy
<1>6. CASE Moved(j, AfterPolicy(j), 1, jobs[j].clean, jobs[j].read, jobs[j].seen, jobs[j].before)
  BY <1>4, <1>5, <1>6, TypeMoved
<1>7. CASE Spoilt(j, AfterPolicy(j), 1)
  BY <1>4, <1>5, <1>7, TypeSpoilt
<1>. QED  BY <1>6, <1>7, Known, ApplyLocalPolicyMoves

\* What the scripts of layer 3 save covers what they change of the
\* authentications and of CredSSP.
LEMMA TargetStepsKnown ==
    ASSUME NEW n \in 1 .. 6
    PROVE  \A back \in TargetSteps[n].backs :
              /\ back \in SUBSET Groups
              /\ \A g \in PolicyGroups : g \in TargetSteps[n].set => g \in back
<1>1. \A back \in {{}, {"startup"}, PolicyGroups} : back \in SUBSET Groups
  BY GroupNames
<1>2. \A g \in {"startup", "firewall", "listener", "registry", "trusted"} : g \notin PolicyGroups
  BY DEF PolicyGroups, CredSSP
<1>3. n = 1 \/ n = 2 \/ n = 3 \/ n = 4 \/ n = 5 \/ n = 6
  OBVIOUS
<1>. QED  BY <1>1, <1>2, <1>3 DEF TargetSteps, StartService, OpenFirewall,
   AllowRemoteAdmin, AllowAuthentication, CreateListeners, TrustClient

LEMMA ConfigureTargetTyped ==
    ASSUME TypeInv, NEW j \in AllJobs, ConfigureTarget(j)
    PROVE  TypeInv'
<1>. DEFINE m == MachineOf(Server(j))
            step == TargetSteps[jobs[j].step]
<1>1. /\ SameTables /\ SameCommand /\ (faults' = faults \/ Fault) /\ jobs[j].pc = "target"
      /\ jobs[j].step =< Len(TargetSteps)
  BY DEF ConfigureTarget, SameTables, SameCommand
<1>2. jobs[j].step \in 1 .. 6 /\ jobs[j].step \in Nat
  <2>1. jobs[j].step # 0
    BY <1>1 DEF TypeInv, PhaseInv
  <2>2. jobs[j].step \in 0 .. 7
    BY Known, JobFields
  <2>3. Len(TargetSteps) = 6
    BY DEF TargetSteps
  <2>. QED  BY <1>1, <2>1, <2>2, <2>3
<1>3. m \in Machines /\ settings[m] \in States
  BY Known, ServerKnown, MachineKnown DEF AllSettings
<1>. HIDE DEF m, step
<1>4. settings' \in AllSettings
  <2>1. settings' = settings \/ settings' = [settings EXCEPT ![m] = Applied(@, step)]
    BY DEF ConfigureTarget, m, step
  <2>. QED  BY <1>3, <2>1, Known, AppliedTyped
<1>5. tracker' \in Seq(Scripts)
  <2>1. CASE \E back \in step.backs : Track(Restore(m, PutBack(settings[m], back)))
    <3>1. PICK back \in step.backs : Track(Restore(m, PutBack(settings[m], back)))
      BY <2>1
    <3>2. back \in SUBSET Groups
      BY <1>2, <3>1, TargetStepsKnown DEF step
    <3>3. Restore(m, PutBack(settings[m], back)) \in Scripts
      BY <1>3, <3>2, StateScript
    <3>. QED  BY <3>1, <3>3, TrackTyped
  <2>2. CASE tracker' = tracker
    BY <2>2, Known
  <2>. QED  BY <2>1, <2>2 DEF ConfigureTarget, m, step
<1>6. TablesTyped' /\ MachinesTyped' /\ CommandTyped'
  BY <1>1, <1>4, <1>5, TablesKept, CommandKept DEF MachinesTyped
<1>7. jobs[j].step + 1 # 0
  BY <1>2
<1>8. CASE Moved(j, "target", jobs[j].step + 1, jobs[j].clean, jobs[j].read, jobs[j].seen,
                 jobs[j].before)
  BY <1>6, <1>7, <1>8, TypeMoved
<1>9. CASE Spoilt(j, "target", jobs[j].step + 1)
  BY <1>6, <1>7, <1>9, TypeSpoilt
<1>. QED  BY <1>8, <1>9, Known, ConfigureTargetMoves

LEMMA EndTargetTyped ==
    ASSUME TypeInv, NEW j \in AllJobs, EndTarget(j)
    PROVE  TypeInv'
<1>1. SameTables /\ SameMachines /\ SameCommand /\ faults' = faults /\ jobs[j].pc = "target"
  BY DEF EndTarget, SameTables, SameMachines, SameCommand
<1>2. Went(j, "retarget") \/ Went(j, "fallback")
  BY Known, EndTargetMoves
<1>. QED  BY <1>1, <1>2, TypeWent, TablesKept, MachinesKept, CommandKept

LEMMA TryFallbacksTyped ==
    ASSUME TypeInv, NEW j \in AllJobs, TryFallbacks(j)
    PROVE  TypeInv'
<1>1. /\ UNCHANGED <<profiles, logged>> /\ SameMachines /\ SameCommand /\ faults' = faults
      /\ jobs[j].pc = "fallback"
  BY DEF TryFallbacks, SameMachines, SameCommand
<1>2. /\ opened' \subseteq Names \X Ports
      /\ Went(j, "save") \/ Went(j, "manual") \/ Ended(j)
  BY Known, TryFallbacksMoves
<1>3. TablesTyped' /\ MachinesTyped' /\ CommandTyped'
  BY <1>1, <1>2, Known, MachinesKept, CommandKept DEF TablesTyped
<1>. QED  BY <1>1, <1>2, <1>3, TypeWent, TypeEnded

LEMMA ManualLayerTyped ==
    ASSUME TypeInv, NEW j \in AllJobs, ManualLayer(j)
    PROVE  TypeInv'
<1>1. UNCHANGED <<profiles, opened>> /\ SameMachines /\ SameCommand /\ faults' = faults
  BY DEF ManualLayer, SameMachines, SameCommand
<1>2. logged' \subseteq AllAttempts
  BY Known, JobFields, FilledIn DEF ManualLayer
<1>3. TablesTyped' /\ MachinesTyped' /\ CommandTyped'
  BY <1>1, <1>2, Known, MachinesKept, CommandKept DEF TablesTyped
<1>. QED  BY <1>3, Known, ManualLayerMoves, TypeEnded

LEMMA SaveProfileTyped ==
    ASSUME IInv, TypeInv, NEW j \in AllJobs, SaveProfile(j)
    PROVE  TypeInv'
<1>1. /\ UNCHANGED <<logged, opened>> /\ SameMachines /\ SameCommand /\ faults' = faults
      /\ jobs[j].pc = "save"
  BY DEF SaveProfile, SameMachines, SameCommand
<1>2. jobs[j].to \in Names
  BY <1>1, KnownRecord DEF JobInv, SuccessInv
<1>3. profiles' \in [Names -> Profiles]
  BY <1>2, Known, JobFields, SavedIn DEF SaveProfile
<1>4. TablesTyped' /\ MachinesTyped' /\ CommandTyped'
  BY <1>1, <1>3, Known, MachinesKept, CommandKept DEF TablesTyped
<1>. QED  BY <1>1, <1>2, <1>4, Known, SaveProfileMoves, TypeWent

LEMMA LogAttemptsTyped ==
    ASSUME TypeInv, NEW j \in AllJobs, LogAttempts(j)
    PROVE  TypeInv'
<1>1. /\ UNCHANGED <<profiles, opened>> /\ SameMachines
      /\ UNCHANGED <<command, asked, faults>> /\ jobs[j].pc = "log"
  BY DEF LogAttempts, SameMachines
<1>2. logged' \subseteq AllAttempts
  BY Known, JobFields DEF LogAttempts
<1>3. cache' \subseteq Servers
  <2>1. cache' = cache \/ cache' = cache \cup {Server(j)}
    BY DEF LogAttempts
  <2>. QED  BY <2>1, ServerKnown DEF TypeInv, CommandTyped
<1>4. CommandTyped'
  BY <1>1, <1>3 DEF TypeInv, CommandTyped
<1>5. TablesTyped' /\ MachinesTyped'
  BY <1>1, <1>2, Known, MachinesKept DEF TablesTyped
<1>. QED  BY <1>1, <1>4, <1>5, Known, LogAttemptsMoves, TypeWent, TypeEnded

LEMMA RememberedIn ==
    ASSUME NEW way \in AllWays
    PROVE  Remembered(way) \in AllWays
  BY DEF AllWays, Remembered, Way, NotSet, NoneText

LEMMA RememberProfileTyped ==
    ASSUME IInv, TypeInv, NEW j \in AllJobs, RememberProfile(j)
    PROVE  TypeInv'
<1>1. /\ UNCHANGED <<logged, opened>> /\ SameMachines /\ SameCommand
      /\ (faults' = faults \/ Fault) /\ jobs[j].pc = "remember" /\ End(j, "success")
  BY DEF RememberProfile, SameMachines, SameCommand
<1>2. jobs[j].to \in Names
  BY <1>1, KnownRecord DEF JobInv, SuccessInv
<1>3. profiles' \in [Names -> Profiles]
  BY <1>2, Known, JobFields, RememberedIn, SavedIn DEF RememberProfile
<1>4. TablesTyped' /\ MachinesTyped' /\ CommandTyped'
  BY <1>1, <1>3, Known, MachinesKept, CommandKept DEF TablesTyped
<1>5. Ended(j)
  BY <1>1, Known, EndMoves
<1>. QED  BY <1>4, <1>5, TypeEnded

LEMMA DatabaseLockedTyped ==
    ASSUME TypeInv, NEW j \in AllJobs, DatabaseLocked(j)
    PROVE  TypeInv'
<1>1. UNCHANGED <<profiles, opened>> /\ SameMachines /\ SameCommand /\ Fault /\ Raise(j)
  BY DEF DatabaseLocked, SameMachines, SameCommand
<1>2. logged' \subseteq AllAttempts
  BY Known, JobFields DEF DatabaseLocked
<1>3. TablesTyped' /\ MachinesTyped' /\ CommandTyped'
  BY <1>1, <1>2, Known, MachinesKept, CommandKept DEF TablesTyped
<1>. QED  BY <1>1, <1>3, Known, RaiseMoves, TypeEnded

LEMMA WorkTyped ==
    ASSUME IInv, TypeInv, NEW j \in AllJobs, Work(j)
    PROVE  TypeInv'
<1>1. CASE UseCache(j) \/ UseProfile(j) \/ NotWindows(j)
  BY <1>1, EarlyTyped
<1>2. CASE Begin(j) \/ PrepareLocalhost(j)
  BY <1>2, BeginTyped, PrepareLocalhostTyped
<1>3. CASE TryStored(j) \/ DirectAttempts(j) \/ NoDirectAttempts(j)
  BY <1>3, AttemptsTyped
<1>4. CASE ReadTrustedHosts(j) \/ ReadClient(j) \/ CapturePolicy(j)
  BY <1>4, ReadsTyped
<1>5. CASE AddTrustedHost(j) \/ ConfigureClient(j) \/ ApplyLocalPolicy(j)
  BY <1>5, AddTrustedHostTyped, ConfigureClientTyped, ApplyLocalPolicyTyped
<1>6. CASE ConfigureTarget(j) \/ EndTarget(j)
  BY <1>6, ConfigureTargetTyped, EndTargetTyped
<1>7. CASE TryFallbacks(j) \/ ManualLayer(j)
  BY <1>7, TryFallbacksTyped, ManualLayerTyped
<1>8. CASE SaveProfile(j) \/ LogAttempts(j) \/ RememberProfile(j) \/ DatabaseLocked(j)
  BY <1>8, SaveProfileTyped, LogAttemptsTyped, RememberProfileTyped, DatabaseLockedTyped
<1>. QED  BY <1>1, <1>2, <1>3, <1>4, <1>5, <1>6, <1>7, <1>8 DEF Work

\* A record of a call that is not under way.
IsResting(r) == r \in JobType /\ r.pc \in {"absent", "queued"} /\ r.step = 1

LEMMA RestingRecords == IsResting(Absent) /\ IsResting([Absent EXCEPT !.pc = "queued"])
<1>1. IsResting(Absent)
  BY AbsentTyped DEF Stands, IsResting
<1>2. "queued" \in Phases
  BY DEF Phases
<1>. QED  BY <1>1, <1>2, PcTyped DEF IsResting, Stands

LEMMA TypeCommands ==
    ASSUME TypeInv, jobs' \in [AllJobs -> JobType],
           \A j \in AllJobs : jobs'[j] = jobs[j] \/ IsResting(jobs'[j]),
           TablesTyped', MachinesTyped', CommandTyped'
    PROVE  TypeInv'
<1>1. ASSUME NEW j \in AllJobs PROVE PhaseInv(jobs[j], Server(j))'
  <2>1. Server(j)' = Server(j)
    BY DEF Server
  <2>2. CASE jobs'[j] = jobs[j]
    BY <2>1, <2>2 DEF TypeInv, PhaseInv
  <2>3. CASE IsResting(jobs'[j])
    BY <2>1, <2>3 DEF IsResting, PhaseInv
  <2>. QED  BY <2>2, <2>3
<1>. QED  BY <1>1 DEF TypeInv

LEMMA QueuedTyped ==
    ASSUME JobsTyped, NEW S, jobs' = Queued(S)
    PROVE  /\ jobs' \in [AllJobs -> JobType]
           /\ \A j \in AllJobs : jobs'[j] = jobs[j] \/ IsResting(jobs'[j])
<1>1. \A j \in AllJobs : Queued(S)[j] = jobs[j] \/ IsResting(Queued(S)[j])
  BY RestingRecords DEF Queued
<1>2. \A j \in AllJobs : Queued(S)[j] \in JobType
  BY <1>1 DEF JobsTyped, IsResting
<1>3. Queued(S) = [j \in AllJobs |-> Queued(S)[j]]
  BY DEF Queued
<1>. QED  BY <1>1, <1>2, <1>3

LEMMA JobsOfTyped ==
    ASSUME NEW over \in SUBSET Targets, NEW entry
    PROVE  JobsOf(entry, over) \in SUBSET AllJobs
  BY DEF JobsOf, AllJobs

LEMMA StartCommandTyped ==
    ASSUME TypeInv, NEW over \in SUBSET Targets, NEW entry \in {"apply", "targets", "run"},
           NEW dry \in BOOLEAN, NEW elevated \in BOOLEAN, NEW parallel \in BOOLEAN,
           NEW creds \in BOOLEAN, StartCommand(over, entry, dry, elevated, parallel, creds)
    PROVE  TypeInv'
<1>1. /\ jobs' = Queued(JobsOf(entry, over)) /\ SameTables /\ SameMachines
      /\ UNCHANGED <<cache, faults>> /\ asked' = asked + Cardinality(over)
      /\ asked + Cardinality(over) <= MaxAsked
  BY DEF StartCommand, SameTables, SameMachines
<1>2. Cardinality(over) \in Nat
  BY FS_Subset, FS_CardinalityType
<1>3. asked' \in 0 .. MaxAsked
  BY <1>1, <1>2 DEF TypeInv, CommandTyped
<1>4. command' \in Commands
  <2>. DEFINE jobsOf == JobsOf(entry, over)
  <2>1. jobsOf \in SUBSET AllJobs
    BY JobsOfTyped
  <2>2. command' = [entry |-> entry, over |-> jobsOf, dry |-> dry, elevated |-> elevated,
                    parallel |-> parallel, creds |-> creds, round |-> 1]
    BY DEF StartCommand
  <2>. HIDE DEF jobsOf
  <2>. QED  BY <2>1, <2>2 DEF Commands
<1>5. CommandTyped'
  BY <1>1, <1>3, <1>4 DEF TypeInv, CommandTyped
<1>. QED  BY <1>1, <1>5, Known, QueuedTyped, TypeCommands, TablesKept, MachinesKept

LEMMA RerunFailedTyped ==
    ASSUME TypeInv, RerunFailed
    PROVE  TypeInv'
<1>1. /\ jobs' = Queued(Failed) /\ SameTables /\ SameMachines /\ UNCHANGED <<cache, asked, faults>>
      /\ command' = [command EXCEPT !.round = 2]
  BY DEF RerunFailed, SameTables, SameMachines
<1>2. CommandTyped'
  BY <1>1 DEF TypeInv, CommandTyped, Commands
<1>. QED  BY <1>1, <1>2, Known, QueuedTyped, TypeCommands, TablesKept, MachinesKept

LEMMA IdleTyped == Idle \in Commands
  BY DEF Idle, Commands

LEMMA LeaveTyped ==
    ASSUME TypeInv, Leave, faults' = faults \/ Fault
    PROVE  TypeInv'
<1>1. /\ jobs' = [j \in AllJobs |-> Absent] /\ SameTables /\ settings' = settings
      /\ tracker' = <<>> /\ command' = Idle /\ cache' = {} /\ asked' = asked
  BY DEF Leave, SameTables
<1>2. /\ jobs' \in [AllJobs -> JobType]
      /\ \A j \in AllJobs : IsResting(jobs'[j])
  BY <1>1, RestingRecords DEF IsResting
<1>3. MachinesTyped'
  BY <1>1, Known DEF MachinesTyped
<1>4. CommandTyped'
  BY <1>1, IdleTyped DEF TypeInv, CommandTyped, Fault
<1>. QED  BY <1>1, <1>2, <1>3, <1>4, TypeCommands, TablesKept

LEMMA RevertServerTyped ==
    ASSUME TypeInv, NEW s \in Servers, RevertServer(s)
    PROVE  TypeInv'
<1>1. /\ UNCHANGED <<profiles, logged, opened, tracker, cache, command, jobs, faults>>
      /\ asked' = asked + 1 /\ asked < MaxAsked
  BY DEF RevertServer
<1>2. MachinesTyped'
  BY <1>1, Known, RevertTyped DEF MachinesTyped
<1>3. CommandTyped'
  BY <1>1 DEF TypeInv, CommandTyped
<1>4. SameTables
  BY <1>1 DEF SameTables
<1>. QED  BY <1>1, <1>2, <1>3, <1>4, TablesKept, TypeCommands DEF TypeInv

LEMMA StutterTyped ==
    ASSUME TypeInv, SameTables, SameMachines, cache' \in SUBSET cache,
           UNCHANGED <<command, jobs, asked, faults>>
    PROVE  TypeInv'
<1>1. CommandTyped'
  BY DEF TypeInv, CommandTyped
<1>. QED  BY <1>1, TablesKept, MachinesKept, TypeCommands DEF TypeInv

LEMMA NextTyped == IInv /\ TypeInv /\ [Next]_vars => TypeInv'
<1>. SUFFICES ASSUME IInv, TypeInv, [Next]_vars PROVE TypeInv'
  OBVIOUS
<1>1. CASE UNCHANGED vars
  BY <1>1, StutterTyped DEF vars, SameTables, SameMachines
<1>2. CASE \E over \in SUBSET Targets \ {{}}, entry \in {"apply", "targets", "run"},
              dry, elevated, parallel, creds \in BOOLEAN :
                StartCommand(over, entry, dry, elevated, parallel, creds)
  BY <1>2, StartCommandTyped
<1>3. CASE RerunFailed
  BY <1>3, RerunFailedTyped
<1>4. CASE EndCommand \/ Kill
  BY <1>4, LeaveTyped DEF EndCommand, Kill
<1>5. CASE \E s \in Servers : RevertServer(s)
  BY <1>5, RevertServerTyped
<1>6. CASE \E s \in Servers : Expire(s)
  BY <1>6, StutterTyped DEF Expire, SameTables, SameMachines
<1>7. CASE \E j \in AllJobs : Work(j)
  BY <1>7, WorkTyped
<1>. QED  BY <1>1, <1>2, <1>3, <1>4, <1>5, <1>6, <1>7 DEF Next

LEMMA InitTyped == Init => TypeInv
<1>. SUFFICES ASSUME Init PROVE TypeInv
  OBVIOUS
<1>1. IsResting(Absent) /\ jobs = [j \in AllJobs |-> Absent]
  BY RestingRecords DEF Init
<1>2. jobs \in [AllJobs -> JobType] /\ \A j \in AllJobs : PhaseInv(jobs[j], Server(j))
  BY <1>1 DEF IsResting, PhaseInv
<1>3. MachinesTyped
  BY AsFoundTyped DEF Init, MachinesTyped, AllSettings
<1>4. NoProfile \in Profiles
  BY FS_CardinalityType DEF NoProfile, NoWay, Way, NotSet, Profiles, AllWays, Ids
<1>5. TablesTyped
  BY <1>4 DEF Init, TablesTyped
<1>6. CommandTyped
  BY IdleTyped DEF Init, CommandTyped
<1>. QED  BY <1>2, <1>3, <1>5, <1>6 DEF TypeInv

THEOREM TypeInvariance == Spec => [](IInv /\ TypeInv)
<1>1. Init => IInv /\ TypeInv
  BY InitIInv, InitTyped
<1>2. IInv /\ TypeInv /\ [Next]_vars => (IInv /\ TypeInv)'
  BY NextIInv, NextTyped
<1>. QED  BY <1>1, <1>2, PTL DEF Spec

LEMMA ScriptsAre ==
    ASSUME NEW seq \in Seq(Scripts)
    PROVE  AreScripts(seq)
<1>1. \A i \in DOMAIN seq : seq[i] \in Scripts
  OBVIOUS
<1>2. "trusted" \notin CredSSP
  BY GroupNames
<1>. QED  BY <1>1, <1>2 DEF Scripts, AreScripts, ValueOf, PutValue

\* Every value stays where it belongs: ids below the number of names there
\* are, ports and ways that exist, scripts for settings there are.
THEOREM TypeCorrect == Spec => []TypeOK
<1>1. TypeInv => TypeOK
  <2>. SUFFICES ASSUME TypeInv PROVE TypeOK
    OBVIOUS
  <2>1. Len(TargetSteps) + 1 = 7
    BY DEF TargetSteps
  <2>2. ASSUME NEW j \in AllJobs PROVE IsJob(jobs[j])
    <3>1. jobs[j] \in JobType
      BY DEF TypeInv
    <3>2. AreScripts(jobs[j].scripts)
      BY <3>1, ScriptsAre DEF JobType
    <3>. QED  BY <2>1, <3>1, <3>2 DEF JobType, IsJob, AllAttempts, AllSettings
  <2>3. AreScripts(tracker)
    BY Known, ScriptsAre
  <2>. QED  BY <2>2, <2>3 DEF TypeInv, TypeOK, TablesTyped, MachinesTyped, CommandTyped,
     AllSettings, AllAttempts, Ports, Commands
<1>. QED  BY <1>1, TypeInvariance, PTL

-----------------------------------------------------------------------------
(* What the recorded scripts undo. *)

Working == Connecting \cup {"manual"}

\* Without threads there is one call at a time.
AloneInv == ~command.parallel => \A i, k \in Busy : i = k

\* What a call has read of this machine is still so when it writes there.
AsRead(r) ==
    /\ r.pc = "trust" => r.seen.trusted = settings[This].trusted
    /\ r.pc = "winrm" => /\ r.read = {"trusted", "auth"}
                         /\ r.seen.trusted = settings[This].trusted
                         /\ r.seen.auth = settings[This].auth
    /\ r.pc = "policy" => /\ r.seen.auth = settings[This].auth
                          /\ r.seen.svcauth = settings[This].svcauth

Undone(j) == Agree(RunBack(tracker, settings), jobs[j].before,
                   Restorable(Server(j), jobs[j].before))

\* Wherever a call is, the scripts recorded so far lead back to where it
\* began, if all went well and it is alone.
Undoes(j) ==
    Server(j) \notin Local /\ jobs[j].pc \in Working /\ jobs[j].clean =>
        AsRead(jobs[j]) /\ Undone(j)

UndoInv == ~command.parallel => \A j \in AllJobs : Undoes(j)

\* Scripts turn CredSSP off, and never on.
IsOff(state, m, g) == state[m][g] = FALSE

LEMMA RunBackOff ==
    ASSUME NEW scripts \in Seq(Scripts), NEW state, DOMAIN state = Machines,
           NEW m \in Machines, NEW g \in CredSSP, IsOff(state, m, g)
    PROVE  IsOff(RunBack(scripts, state), m, g)
<1>. DEFINE len == Len(scripts)
<1>1. len \in Nat /\ \A i \in 1 .. len : scripts[i] \in Scripts
  OBVIOUS
<1>2. PICK b : IsRun(b, scripts, state) /\ RunBack(scripts, state) = b[len]
  BY <1>1, RunBackSteps
<1>. DEFINE Good(n) == DOMAIN b[n] = Machines /\ b[n][m][g] = FALSE
            Q == { n \in Nat : n =< len => Good(n) }
<1>. HIDE DEF len, Good
<1>3. 0 \in Q
  <2>1. b[0] = state
    BY <1>2 DEF IsRun
  <2>. QED  BY <2>1 DEF Good, IsOff
<1>4. ASSUME NEW n \in Nat, n \in Q PROVE n + 1 \in Q
  <2>. SUFFICES ASSUME n + 1 =< len PROVE Good(n + 1)
    OBVIOUS
  <2>0. n =< len
    BY <1>1
  <2>1. Good(n)
    BY <2>0, <1>4, Zenon
  <2>2. n + 1 \in 1 .. len /\ n + 1 - 1 = n /\ len + 1 - (n + 1) \in 1 .. len
    BY <1>1
  <2>. DEFINE script == scripts[len + 1 - (n + 1)]
  <2>3. script \in Scripts
    BY <1>1, <2>2
  <2>4. b[n + 1] = Run(b[n], script)
    <3>1. \A i \in 1 .. len : b[i] = Run(b[i - 1], scripts[len + 1 - i])
      BY <1>2 DEF IsRun, len
    <3>. QED BY <2>2, <3>1
  <2>. HIDE DEF script
  <2>5. g \in DOMAIN script.put => script.put[g] = FALSE
    BY <2>3 DEF Scripts, PutValue
  <2>6. DOMAIN b[n] = Machines /\ b[n][m][g] = FALSE
    BY <2>1 DEF Good
  <2>7. /\ DOMAIN Run(b[n], script) = Machines
        /\ Run(b[n], script)[m][g] =
              IF m = script.at /\ g \in DOMAIN script.put THEN script.put[g] ELSE b[n][m][g]
    <3>1. g \in Groups
      BY DEF Groups
    <3>. QED  BY <2>6, <3>1 DEF Run
  <2>. QED  BY <2>4, <2>5, <2>6, <2>7 DEF Good
<1>5. len \in Q
  <2>. HIDE DEF Q
  <2>1. Inductive(Q)
    BY <1>3, <1>4 DEF Inductive
  <2>. QED BY <1>1, <2>1, InductiveCoversNat
<1>6. Good(len)
  BY <1>1, <1>5
<1>. QED  BY <1>2, <1>6 DEF Good, IsOff

LEMMA BusyFinite == IsFiniteSet(Busy)
<1>1. IsFiniteSet(Servers)
  BY FS_Subset DEF Names
<1>2. IsFiniteSet(AllJobs)
  BY <1>1, FS_Union DEF AllJobs
<1>3. Busy \in SUBSET AllJobs
  BY DEF Busy
<1>. QED  BY <1>2, <1>3, FS_Subset

LEMMA TakenAlone ==
    ASSUME NEW j \in AllJobs, Take(j), ~command.parallel
    PROVE  Busy = {}
<1>1. Cardinality(Busy) < 1
  BY DEF Take
<1>2. Cardinality(Busy) \in Nat
  BY BusyFinite, FS_CardinalityType
<1>3. Cardinality(Busy) = 0
  BY <1>1, <1>2
<1>. QED  BY <1>3, BusyFinite, FS_EmptySet

LEMMA WorksOrTakes ==
    ASSUME NEW j \in AllJobs, Work(j)
    PROVE  j \in Busy \/ Take(j)
  BY DEF Work, Busy, UseCache, UseProfile, NotWindows, Begin, PrepareLocalhost, TryStored,
         DirectAttempts, NoDirectAttempts, ReadTrustedHosts, AddTrustedHost, ReadClient,
         ConfigureClient, CapturePolicy, ApplyLocalPolicy, ConfigureTarget, EndTarget,
         TryFallbacks, ManualLayer, SaveProfile, LogAttempts, RememberProfile,
         DatabaseLocked, ReadSettings, Direct

LEMMA SoleWorker ==
    ASSUME AloneInv, NEW j \in AllJobs, Work(j), ~command.parallel
    PROVE  \A i \in AllJobs \ {j} : i \notin Busy
<1>1. CASE j \in Busy
  BY <1>1 DEF AloneInv
<1>2. CASE Take(j)
  BY <1>2, TakenAlone
<1>. QED  BY <1>1, <1>2, WorksOrTakes

\* A step of a call concerns the call alone.
LEMMA UndoStep ==
    ASSUME UndoInv, AloneInv, NEW j \in AllJobs, Work(j), Alone(j), command' = command,
           ~command.parallel => Undoes(j)'
    PROVE  UndoInv' /\ AloneInv'
<1>1. CASE command.parallel
  BY <1>1 DEF UndoInv, AloneInv
<1>2. CASE ~command.parallel
  <2>1. \A i \in AllJobs \ {j} : i \notin Busy /\ jobs'[i] = jobs[i]
    BY <1>2, SoleWorker DEF Alone
  <2>2. \A i \in AllJobs \ {j} : jobs'[i].pc \in {"absent", "queued", "done"}
    BY <2>1 DEF Busy
  <2>3. Busy' \subseteq {j}
    BY <2>2 DEF Busy
  <2>4. \A i \in AllJobs \ {j} : Undoes(i)'
    BY <2>2 DEF Undoes, Working, Connecting, Direct
  <2>. QED  BY <1>2, <2>3, <2>4 DEF UndoInv, AloneInv
<1>. QED  BY <1>1, <1>2

\* A call that ends, or whose command failed, has nothing to show.
LEMMA UndoVoid ==
    ASSUME NEW j \in AllJobs, jobs'[j].pc \notin Working \/ ~jobs'[j].clean
    PROVE  Undoes(j)'
  BY DEF Undoes, Working

\* A step between two changes.
LEMMA UndoQuiet ==
    ASSUME NEW j \in AllJobs, Undoes(j), jobs[j].pc \in Working, NEW pc, Went(j, pc), SameMachines,
           pc \notin {"trust", "winrm", "policy"}
    PROVE  Undoes(j)'
<1>1. /\ jobs'[j].pc = pc /\ jobs'[j].clean = jobs[j].clean /\ jobs'[j].before = jobs[j].before
      /\ Server(j)' = Server(j)
  BY DEF Went, Moved, Stands, Server
<1>2. Restorable(Server(j), jobs[j].before)' = Restorable(Server(j), jobs[j].before)
  BY <1>1 DEF Restorable
<1>3. Undone(j) => Undone(j)'
  BY <1>1, <1>2 DEF Undone, SameMachines
<1>4. AsRead(jobs[j])'
  BY <1>1 DEF AsRead
<1>. QED  BY <1>1, <1>3, <1>4 DEF Undoes

LEMMA UndoBegin ==
    ASSUME TypeInv, NEW j \in AllJobs, Begin(j)
    PROVE  Undoes(j)'
<1>1. /\ jobs'[j].pc \in {"begin", "stored"} /\ jobs'[j].before = settings
      /\ tracker' = <<>> /\ settings' = settings
  BY Known, BeginMoves DEF Begin, Moved, Stands
<1>2. RunBack(tracker', settings') = settings
  BY <1>1, RunBackNothing
<1>3. Undone(j)'
  BY <1>1, <1>2 DEF Undone, Agree
<1>4. AsRead(jobs[j])'
  BY <1>1 DEF AsRead
<1>. QED  BY <1>3, <1>4 DEF Undoes

LEMMA UndoReading ==
    ASSUME TypeInv, NEW j \in AllJobs, NEW from \in Working, NEW to \in Phases, NEW readable,
           UNION readable \subseteq Groups, ReadSettings(j, from, to, readable), Undoes(j),
           to = "trust" => UNION readable = {"trusted"},
           to = "winrm" => UNION readable = {"trusted", "auth"},
           to = "policy" => UNION readable = {"auth", "svcauth"}
    PROVE  Undoes(j)'
<1>1. PICK read \in SUBSET Groups :
         Moved(j, to, jobs[j].step, jobs[j].clean /\ read = UNION readable, read, SeenOf(read),
               jobs[j].before)
  BY Known, ReadMoves
<1>2. SameMachines /\ jobs[j].pc = from
  BY DEF ReadSettings, SameMachines
<1>3. /\ jobs'[j].pc = to /\ jobs'[j].clean = (jobs[j].clean /\ read = UNION readable)
      /\ jobs'[j].read = read /\ jobs'[j].seen = SeenOf(read) /\ jobs'[j].before = jobs[j].before
      /\ Server(j)' = Server(j)
  BY <1>1 DEF Moved, Stands, Server
<1>. SUFFICES ASSUME Server(j) \notin Local, jobs'[j].clean
              PROVE  AsRead(jobs[j])' /\ Undone(j)'
  BY <1>3 DEF Undoes
<1>4. jobs[j].clean /\ read = UNION readable
  BY <1>3
<1>5. Undone(j)
  BY <1>2, <1>4 DEF Undoes
<1>6. Restorable(Server(j), jobs[j].before)' = Restorable(Server(j), jobs[j].before)
  BY <1>3 DEF Restorable
<1>7. Undone(j)'
  BY <1>2, <1>3, <1>5, <1>6 DEF Undone, SameMachines
<1>8. \A g \in Groups : g \in read => jobs'[j].seen[g] = settings'[This][g]
  BY <1>2, <1>3 DEF SeenOf, SameMachines
<1>9. AsRead(jobs[j])'
  <2>1. "trusted" \in Groups /\ "auth" \in Groups /\ "svcauth" \in Groups
    BY GroupNames
  <2>. QED  BY <1>3, <1>4, <1>8, <2>1 DEF AsRead
<1>. QED  BY <1>7, <1>9

LEMMA UndoReads ==
    ASSUME TypeInv, NEW j \in AllJobs, ReadTrustedHosts(j) \/ ReadClient(j) \/ CapturePolicy(j),
           Undoes(j)
    PROVE  Undoes(j)'
<1>1. /\ {"read", "readclient", "capture"} \subseteq Working
      /\ {"trust", "winrm", "policy"} \subseteq Phases
  BY DEF Working, Connecting, Phases
<1>2. CASE ReadTrustedHosts(j)
  <2>. DEFINE readable == SUBSET {"trusted"}
  <2>1. ReadSettings(j, "read", "trust", readable)
    BY <1>2 DEF ReadTrustedHosts
  <2>2. UNION readable = {"trusted"} /\ UNION readable \subseteq Groups
    BY Readables
  <2>. HIDE DEF readable
  <2>. QED  BY <1>1, <2>1, <2>2, UndoReading
<1>3. CASE ReadClient(j)
  <2>. DEFINE readable == SUBSET {"trusted", "auth"}
  <2>1. ReadSettings(j, "readclient", "winrm", readable)
    BY <1>3 DEF ReadClient
  <2>2. UNION readable = {"trusted", "auth"} /\ UNION readable \subseteq Groups
    BY Readables
  <2>. HIDE DEF readable
  <2>. QED  BY <1>1, <2>1, <2>2, UndoReading
<1>4. CASE CapturePolicy(j)
  <2>. DEFINE readable == {{}, {"auth", "svcauth"}}
  <2>1. ReadSettings(j, "capture", "policy", readable)
    BY <1>4 DEF CapturePolicy
  <2>2. UNION readable = {"auth", "svcauth"} /\ UNION readable \subseteq Groups
    BY Readables
  <2>. HIDE DEF readable
  <2>. QED  BY <1>1, <2>1, <2>2, UndoReading
<1>. QED  BY <1>2, <1>3, <1>4

\* The settings that count, and where they are.
Written(s) == {<<This, "trusted">>} \cup ({This, MachineOf(s)} \X PolicyGroups)

LEMMA WrittenKnown ==
    ASSUME NEW s \in Servers, s \notin Local
    PROVE  /\ Written(s) \in SUBSET (Machines \X Groups)
           /\ \A p \in Written(s) :
                 \/ p[1] = This
                 \/ p[1] = MachineOf(s) /\ p[1] # This /\ p[2] \in PolicyGroups
  BY MachineKnown, GroupNames DEF Written

MetOff(p, s, before) ==
    /\ p \in Written(s) /\ p[1] \in Machines /\ p[2] \in Groups /\ p = <<p[1], p[2]>>
    /\ p[2] \in CredSSP => before[p[1]][p[2]] = FALSE

LEMMA RestorableKnown ==
    ASSUME NEW s \in Servers, NEW before \in AllSettings, s \notin Local,
           NEW p \in Restorable(s, before)
    PROVE  MetOff(p, s, before)
<1>1. p \in Written(s) /\ p[1] \in Machines /\ p[2] \in Groups /\ p = <<p[1], p[2]>>
  BY WrittenKnown DEF Restorable, Written
<1>2. before[p[1]] \in States
  BY <1>1 DEF AllSettings
<1>3. before[p[1]][p[2]] \in ValueOf(p[2])
  BY <1>1, <1>2, StateIs
<1>4. p[2] \in CredSSP => ValueOf(p[2]) = BOOLEAN
  BY <1>1, GroupNames
<1>5. p[2] \in CredSSP => ~ before[p[1]][p[2]]
  BY DEF Restorable
<1>. QED  BY <1>1, <1>3, <1>4, <1>5 DEF MetOff

\* The script puts back what the step changed of those settings, but for
\* CredSSP, which it turns off.
Covers(script, s) ==
    \A m \in Machines, g \in Groups : <<m, g>> \in Written(s) =>
        IF m = script.at /\ g \in DOMAIN script.put
          THEN g \in CredSSP \/ script.put[g] = settings[m][g]
          ELSE settings'[m][g] = settings[m][g]

LEMMA UndoTracked ==
    ASSUME TypeInv, settings' \in AllSettings, NEW j \in AllJobs, Server(j) \notin Local,
           NEW script \in Scripts, Track(script), Covers(script, Server(j)),
           Undone(j), jobs'[j].before = jobs[j].before
    PROVE  Undone(j)'
<1>. DEFINE before == jobs[j].before
            P == Restorable(Server(j), before)
            met == Run(settings', script)
<1>1. /\ before \in AllSettings /\ Server(j) \in Servers
      /\ DOMAIN settings = Machines /\ DOMAIN settings' = Machines
      /\ tracker \in Seq(Scripts) /\ tracker' = Append(tracker, script)
  BY Known, JobFields, ServerKnown DEF AllSettings, Track
<1>2. /\ DOMAIN met = Machines
      /\ \A m \in Machines, g \in Groups :
            met[m][g] = IF m = script.at /\ g \in DOMAIN script.put THEN script.put[g]
                                                                  ELSE settings'[m][g]
  BY <1>1 DEF Run
<1>. HIDE DEF before, met
<1>3. ASSUME NEW p \in P
      PROVE  RunBack(tracker', settings')[p[1]][p[2]] = before[p[1]][p[2]]
  <2>. DEFINE m == p[1]
              g == p[2]
              Q == {p}
  <2>1. /\ <<m, g>> \in Written(Server(j)) /\ m \in Machines /\ g \in Groups
        /\ g \in CredSSP => before[m][g] = FALSE
        /\ p \in Machines \X Groups
    <3>1. p \in Restorable(Server(j), before)
      OBVIOUS
    <3>2. MetOff(p, Server(j), before)
      BY <1>1, <3>1, RestorableKnown
    <3>. QED  BY <3>2 DEF MetOff
  <2>2. Q \in SUBSET (Machines \X Groups)
    BY <2>1
  <2>3. CASE met[m][g] = settings[m][g]
    <3>1. Agree(met, settings, Q)
      BY <2>3 DEF Agree
    <3>. HIDE DEF Q
    <3>2. Agree(RunBack(Append(tracker, script), settings'), RunBack(tracker, settings), Q)
      BY <1>1, <2>2, <3>1, RunBackAppend DEF met
    <3>3. RunBack(tracker', settings')[m][g] = RunBack(tracker, settings)[m][g]
      BY <1>1, <3>2 DEF Agree, Q
    <3>4. RunBack(tracker, settings)[m][g] = before[m][g]
      BY DEF Undone, Agree, before
    <3>. QED  BY <3>3, <3>4
  <2>4. CASE met[m][g] # settings[m][g]
    <3>1. g \in CredSSP /\ g \in DOMAIN script.put /\ met[m][g] = script.put[g]
      BY <1>2, <2>1, <2>4 DEF Covers
    <3>2. met[m][g] = FALSE
      BY <3>1 DEF Scripts, PutValue
    <3>3. Agree(met, met, Q)
      BY DEF Agree
    <3>. HIDE DEF Q
    <3>4. Agree(RunBack(Append(tracker, script), settings'), RunBack(tracker, met), Q)
      BY <1>1, <1>2, <2>2, <3>3, RunBackAppend DEF met
    <3>5. RunBack(tracker', settings')[m][g] = RunBack(tracker, met)[m][g]
      BY <1>1, <3>4 DEF Agree, Q
    <3>6. RunBack(tracker, met)[m][g] = FALSE
      <4>1. m \in Machines /\ g \in CredSSP /\ IsOff(met, m, g)
        BY <2>1, <3>1, <3>2 DEF IsOff
      <4>2. tracker \in Seq(Scripts) /\ DOMAIN met = Machines
        BY <1>1, <1>2
      <4>. HIDE DEF m, g
      <4>3. IsOff(RunBack(tracker, met), m, g)
        BY <4>1, <4>2, RunBackOff
      <4>. QED  BY <4>3 DEF IsOff
    <3>. QED  BY <2>1, <3>1, <3>5, <3>6
  <2>. QED  BY <2>3, <2>4
<1>4. Agree(RunBack(tracker', settings'), before, P)
  BY <1>3 DEF Agree
<1>5. jobs'[j].before = before /\ Restorable(Server(j), jobs[j].before)' = P
  BY DEF before, P, Restorable, Server
<1>. QED  BY <1>4, <1>5 DEF Undone

LEMMA NoFault ==
    ASSUME TypeInv, Fault
    PROVE  faults' # faults
  BY DEF TypeInv, CommandTyped, Fault

LEMMA SpoiltUndoes ==
    ASSUME NEW j \in AllJobs, NEW pc, NEW step, Spoilt(j, pc, step)
    PROVE  Undoes(j)'
<1>1. jobs'[j].clean = FALSE
  BY DEF Spoilt, Moved, Stands
<1>. QED  BY <1>1, UndoVoid

\* A change that was recorded, where all went well.
LEMMA UndoChange ==
    ASSUME TypeInv, TypeInv', NEW j \in AllJobs, Undoes(j), jobs[j].pc \in Working,
           jobs'[j].pc \notin {"trust", "winrm", "policy"},
           jobs'[j].clean = jobs[j].clean, jobs'[j].before = jobs[j].before,
           NEW script \in Scripts, Track(script),
           Server(j) \notin Local /\ jobs[j].clean /\ AsRead(jobs[j]) => Covers(script, Server(j))
    PROVE  Undoes(j)'
<1>. SUFFICES ASSUME Server(j) \notin Local, jobs[j].clean
              PROVE  AsRead(jobs[j])' /\ Undone(j)'
  BY DEF Undoes, Server
<1>1. AsRead(jobs[j]) /\ Undone(j)
  BY DEF Undoes
<1>2. settings' \in AllSettings
  BY DEF TypeInv, MachinesTyped
<1>3. Undone(j)'
  BY <1>1, <1>2, UndoTracked
<1>4. AsRead(jobs[j])'
  BY DEF AsRead
<1>. QED  BY <1>3, <1>4

LEMMA UndoAddTrustedHost ==
    ASSUME TypeInv, TypeInv', NEW j \in AllJobs, AddTrustedHost(j), Undoes(j)
    PROVE  Undoes(j)'
<1>1. CASE /\ settings' = [settings EXCEPT ![This].trusted = @ \cup {Server(j)}]
           /\ Track(Restore(This, [trusted |-> jobs[j].seen.trusted]))
           /\ faults' = faults
  <2>. DEFINE script == Restore(This, [trusted |-> jobs[j].seen.trusted])
              more == {Server(j)}
  <2>1. Went(j, "retrust")
    BY <1>1, Known, AddTrustedHostMoves, NoFault
  <2>2. /\ jobs[j].pc = "trust" /\ jobs'[j].pc = "retrust" /\ jobs'[j].clean = jobs[j].clean
        /\ jobs'[j].before = jobs[j].before
    BY <2>1 DEF AddTrustedHost, Went, Moved, Stands
  <2>3. \A m \in Machines, g \in Groups :
           ~ (m = This /\ g = "trusted") => settings'[m][g] = settings[m][g]
    <3>1. settings' = [settings EXCEPT ![This].trusted = @ \cup more]
      BY <1>1
    <3>2. more \in SUBSET (Servers \cup {Wildcard, This}) /\ settings \in AllSettings
      BY HostNames, Known
    <3>. HIDE DEF more
    <3>3. /\ [settings EXCEPT ![This].trusted = @ \cup more] = Trusting(more)
          /\ \A n \in Machines, h \in Groups :
                Trusting(more)[n][h] = IF n = This /\ h = "trusted"
                                         THEN settings[This].trusted \cup more ELSE settings[n][h]
      BY <3>2, TrustingTyped
    <3>. QED  BY <3>1, <3>3, Zenon
  <2>4. script.at = This /\ DOMAIN script.put = {"trusted"}
        /\ script.put["trusted"] = jobs[j].seen.trusted
    BY DEF Restore
  <2>5. AsRead(jobs[j]) => script.put["trusted"] = settings[This]["trusted"]
    BY <2>2, <2>4 DEF AsRead
  <2>6. script \in Scripts /\ Track(script)
    BY <1>1, TrustScript
  <2>. HIDE DEF script
  <2>7. AsRead(jobs[j]) => Covers(script, Server(j))
    BY <2>3, <2>4, <2>5 DEF Covers
  <2>8. jobs[j].pc \in Working
    BY <2>2 DEF Working, Connecting
  <2>. QED  BY <2>2, <2>6, <2>7, <2>8, UndoChange
<1>2. CASE Fault
  <2>1. Spoilt(j, "readclient", jobs[j].step)
    BY <1>2, Known, AddTrustedHostMoves, NoFault
  <2>. QED  BY <2>1, SpoiltUndoes
<1>. QED  BY <1>1, <1>2 DEF AddTrustedHost

LEMMA UndoConfigureClient ==
    ASSUME TypeInv, TypeInv', NEW j \in AllJobs, ConfigureClient(j), Undoes(j)
    PROVE  Undoes(j)'
<1>1. CASE /\ settings' = [settings EXCEPT ![This] = ClientState(@, {Wildcard}, TRUE, TRUE)]
           /\ faults' = faults
  <2>. DEFINE put == PutBack(jobs[j].seen, jobs[j].read \cup {"credssp"})
              script == Restore(This, put)
              more == {Wildcard}
  <2>1. Went(j, "capture")
    BY <1>1, Known, ConfigureClientMoves, NoFault
  <2>2. /\ jobs[j].pc = "winrm" /\ jobs'[j].pc = "capture" /\ jobs'[j].clean = jobs[j].clean
        /\ jobs'[j].before = jobs[j].before
    BY <2>1 DEF ConfigureClient, Went, Moved, Stands
  <2>3. \A m \in Machines, g \in Groups :
           m # This \/ g \notin ClientGroups => settings'[m][g] = settings[m][g]
    <3>1. settings' = [settings EXCEPT ![This] = ClientState(@, more, TRUE, TRUE)]
      BY <1>1
    <3>2. more \in SUBSET (Servers \cup {Wildcard, This}) /\ settings \in AllSettings
      BY HostNames, Known
    <3>. HIDE DEF more
    <3>3. OnlyHere(settings', ClientGroups)
      BY <3>1, <3>2, ClientTyped
    <3>. QED  BY <3>3 DEF OnlyHere
  <2>4. script.at = This /\ script.put = put
    BY DEF Restore
  <2>5. script \in Scripts /\ Track(script)
    BY ClientScript DEF ConfigureClient
  <2>6. AsRead(jobs[j]) => /\ DOMAIN put = ClientGroups
                           /\ put["trusted"] = settings[This]["trusted"]
                           /\ put["auth"] = settings[This]["auth"]
    <3>1. "auth" \notin CredSSP /\ "trusted" \notin CredSSP
      BY DEF CredSSP
    <3>. QED  BY <2>2, <3>1 DEF AsRead, PutBack, ClientGroups
  <2>. HIDE DEF script, put
  <2>7. AsRead(jobs[j]) => Covers(script, Server(j))
    <3>1. \A g \in ClientGroups : g = "trusted" \/ g = "auth" \/ g \in CredSSP
      BY DEF ClientGroups, CredSSP
    <3>. QED  BY <2>3, <2>4, <2>6, <3>1 DEF Covers
  <2>8. jobs[j].pc \in Working
    BY <2>2 DEF Working, Connecting
  <2>. QED  BY <2>2, <2>5, <2>7, <2>8, UndoChange
<1>2. CASE Fault
  <2>1. Spoilt(j, "capture", 0)
    BY <1>2, Known, ConfigureClientMoves, NoFault
  <2>. QED  BY <2>1, SpoiltUndoes
<1>. QED  BY <1>1, <1>2 DEF ConfigureClient

LEMMA UndoApplyLocalPolicy ==
    ASSUME TypeInv, TypeInv', NEW j \in AllJobs, ApplyLocalPolicy(j), Undoes(j)
    PROVE  Undoes(j)'
<1>1. CASE /\ settings' = [settings EXCEPT ![This] = Allowing(@)]
           /\ Track(Restore(This, PolicyPut(jobs[j].seen)))
           /\ faults' = faults
  <2>. DEFINE script == Restore(This, PolicyPut(jobs[j].seen))
  <2>1. Moved(j, AfterPolicy(j), 1, jobs[j].clean, jobs[j].read, jobs[j].seen, jobs[j].before)
    BY <1>1, Known, ApplyLocalPolicyMoves, NoFault
  <2>2. /\ jobs[j].pc = "policy" /\ jobs'[j].clean = jobs[j].clean
        /\ jobs'[j].pc \notin {"trust", "winrm", "policy"}
        /\ jobs'[j].before = jobs[j].before
    BY <2>1 DEF ApplyLocalPolicy, AfterPolicy, Moved, Stands
  <2>3. \A m \in Machines, g \in Groups :
           m # This \/ g \notin PolicyGroups => settings'[m][g] = settings[m][g]
    <3>1. settings \in AllSettings
      BY Known
    <3>2. OnlyHere(settings', PolicyGroups)
      BY <1>1, <3>1, PolicyTyped
    <3>. QED  BY <3>2 DEF OnlyHere
  <2>4. /\ script.at = This /\ DOMAIN script.put = PolicyGroups
        /\ script.put["auth"] = jobs[j].seen.auth /\ script.put["svcauth"] = jobs[j].seen.svcauth
    BY DEF Restore, PolicyPut, PutBack, PolicyGroups, CredSSP
  <2>5. script \in Scripts /\ Track(script)
    BY <1>1, Known, JobFields, MachineKnown, PolicyScript
  <2>6. AsRead(jobs[j]) => /\ script.put["auth"] = settings[This]["auth"]
                           /\ script.put["svcauth"] = settings[This]["svcauth"]
    BY <2>2, <2>4 DEF AsRead
  <2>. HIDE DEF script
  <2>7. AsRead(jobs[j]) => Covers(script, Server(j))
    <3>1. \A g \in PolicyGroups : g = "auth" \/ g = "svcauth" \/ g \in CredSSP
      BY DEF PolicyGroups
    <3>. QED  BY <2>3, <2>4, <2>6, <3>1 DEF Covers
  <2>8. jobs[j].pc \in Working
    BY <2>2 DEF Working, Connecting
  <2>. QED  BY <2>2, <2>5, <2>7, <2>8, UndoChange
<1>2. CASE Fault
  <2>1. Spoilt(j, AfterPolicy(j), 1)
    BY <1>2, Known, ApplyLocalPolicyMoves, NoFault
  <2>. QED  BY <2>1, SpoiltUndoes
<1>. QED  BY <1>1, <1>2 DEF ApplyLocalPolicy

LEMMA UndoConfigureTarget ==
    ASSUME TypeInv, TypeInv', NEW j \in AllJobs, ConfigureTarget(j), Undoes(j)
    PROVE  Undoes(j)'
<1>. DEFINE m == MachineOf(Server(j))
            step == TargetSteps[jobs[j].step]
<1>1. CASE /\ settings' = [settings EXCEPT ![m] = Applied(@, step)]
           /\ \E back \in step.backs : Track(Restore(m, PutBack(settings[m], back)))
           /\ faults' = faults
  <2>1. PICK back \in step.backs : Track(Restore(m, PutBack(settings[m], back)))
    BY <1>1
  <2>2. Moved(j, "target", jobs[j].step + 1, jobs[j].clean, jobs[j].read, jobs[j].seen,
              jobs[j].before)
    BY <1>1, Known, ConfigureTargetMoves, NoFault
  <2>3. /\ jobs[j].pc = "target" /\ jobs'[j].pc = "target" /\ jobs'[j].clean = jobs[j].clean
        /\ jobs'[j].before = jobs[j].before
    BY <2>2 DEF ConfigureTarget, Moved, Stands
  <2>4. jobs[j].step \in 1 .. 6
    <3>1. jobs[j].step # 0
      BY <2>3 DEF TypeInv, PhaseInv
    <3>2. jobs[j].step \in 0 .. 7
      BY Known, JobFields
    <3>3. Len(TargetSteps) = 6 /\ jobs[j].step =< Len(TargetSteps)
      BY DEF TargetSteps, ConfigureTarget
    <3>. QED  BY <3>1, <3>2, <3>3
  <2>5. /\ back \in SUBSET Groups
        /\ \A g \in PolicyGroups : g \in step.set => g \in back
    BY <2>1, <2>4, TargetStepsKnown
  <2>6. m \in Machines /\ settings[m] \in States
    BY Known, ServerKnown, MachineKnown DEF AllSettings
  <2>. DEFINE put == PutBack(settings[m], back)
              script == Restore(m, put)
  <2>7. script \in Scripts /\ Track(script)
    BY <2>1, <2>5, <2>6, StateScript
  <2>8. script.at = m /\ script.put = put /\ DOMAIN put = back
        /\ \A g \in back : g \in CredSSP \/ put[g] = settings[m][g]
    BY DEF Restore, PutBack
  <2>. HIDE DEF script, put, m, step
  <2>9. \A n \in Machines, h \in Groups :
           n # m \/ h \notin step.set => settings'[n][h] = settings[n][h]
    BY <1>1, <2>6, Known, AppliedTyped
  <2>10. Server(j) \notin Local => Covers(script, Server(j))
    <3>. SUFFICES ASSUME Server(j) \notin Local, NEW n \in Machines, NEW g \in Groups,
                         <<n, g>> \in Written(Server(j))
                  PROVE  IF n = script.at /\ g \in DOMAIN script.put
                           THEN g \in CredSSP \/ script.put[g] = settings[n][g]
                           ELSE settings'[n][g] = settings[n][g]
      BY DEF Covers
    <3>1. n = m => g \in PolicyGroups
      <4>1. m # This
        BY ServerKnown, MachineKnown DEF m
      <4>. QED  BY <4>1, ServerKnown, WrittenKnown DEF m
    <3>2. CASE n = m /\ g \in back
      BY <2>8, <3>2
    <3>3. CASE ~ (n = m /\ g \in back)
      <4>1. n # m \/ g \notin step.set
        BY <2>5, <3>1, <3>3
      <4>2. settings'[n][g] = settings[n][g]
        BY <2>9, <4>1
      <4>. QED  BY <2>8, <3>3, <4>2
    <3>. QED  BY <3>2, <3>3
  <2>11. jobs[j].pc \in Working
    BY <2>3 DEF Working, Connecting
  <2>. QED  BY <2>3, <2>7, <2>10, <2>11, UndoChange
<1>2. CASE Fault
  <2>1. Spoilt(j, "target", jobs[j].step + 1)
    BY <1>2, Known, ConfigureTargetMoves, NoFault
  <2>. QED  BY <2>1, SpoiltUndoes
<1>. QED  BY <1>1, <1>2 DEF ConfigureTarget

LEMMA WentAlone ==
    ASSUME NEW j \in AllJobs, NEW pc, Went(j, pc)
    PROVE  Alone(j) /\ jobs'[j].pc = pc
  BY DEF Went, Moved, Stands

LEMMA EndedUndoes ==
    ASSUME NEW j \in AllJobs, Ended(j)
    PROVE  Alone(j) /\ Undoes(j)'
  BY UndoVoid DEF Ended, Working, Connecting, Direct

\* The call is on its way to success: the scripts are not handed over.
LEMMA SavingUndoes ==
    ASSUME NEW j \in AllJobs, NEW pc \in {"save", "log", "remember"}, Went(j, pc)
    PROVE  Alone(j) /\ Undoes(j)'
  BY WentAlone, UndoVoid DEF Working, Connecting, Direct

LEMMA AttemptsUndo ==
    ASSUME IInv, TypeInv, NEW j \in AllJobs, Undoes(j),
           TryStored(j) \/ DirectAttempts(j) \/ NoDirectAttempts(j) \/ EndTarget(j) \/ TryFallbacks(j)
    PROVE  Alone(j) /\ Undoes(j)'
<1>1. SameMachines /\ jobs[j].pc \in Working
  BY DEF TryStored, DirectAttempts, NoDirectAttempts, EndTarget, TryFallbacks,
     SameMachines, Working, Connecting
<1>2. \/ Ended(j) \/ Went(j, "save") \/ Went(j, "log")
      \/ \E pc : Went(j, pc) /\ pc \notin {"trust", "winrm", "policy"}
  <2>1. jobs[j].pc \in Direct => AfterDirect(j) \notin {"trust", "winrm", "policy"}
    BY DEF AfterDirect, Direct
  <2>2. CASE TryStored(j)
    BY <2>2, Known, TryStoredMoves
  <2>3. CASE DirectAttempts(j)
    BY <2>1, <2>3, Known, DirectAttemptsMoves DEF DirectAttempts
  <2>4. CASE NoDirectAttempts(j)
    BY <2>1, <2>4, Known, NoDirectAttemptsMoves DEF NoDirectAttempts
  <2>5. CASE EndTarget(j)
    BY <2>5, Known, EndTargetMoves
  <2>6. CASE TryFallbacks(j)
    BY <2>6, Known, TryFallbacksMoves
  <2>. QED  BY <2>2, <2>3, <2>4, <2>5, <2>6
<1>3. CASE \E pc : Went(j, pc) /\ pc \notin {"trust", "winrm", "policy"}
  BY <1>1, <1>3, WentAlone, UndoQuiet
<1>. QED  BY <1>2, <1>3, EndedUndoes, SavingUndoes

LEMMA ChangesUndo ==
    ASSUME TypeInv, TypeInv', NEW j \in AllJobs, Undoes(j),
           AddTrustedHost(j) \/ ConfigureClient(j) \/ ApplyLocalPolicy(j) \/ ConfigureTarget(j)
    PROVE  Alone(j) /\ Undoes(j)'
<1>1. CASE AddTrustedHost(j)
  BY <1>1, Known, AddTrustedHostMoves, UndoAddTrustedHost DEF Went, Spoilt, Moved
<1>2. CASE ConfigureClient(j)
  BY <1>2, Known, ConfigureClientMoves, UndoConfigureClient DEF Went, Spoilt, Moved
<1>3. CASE ApplyLocalPolicy(j)
  BY <1>3, Known, ApplyLocalPolicyMoves, UndoApplyLocalPolicy DEF Spoilt, Moved
<1>4. CASE ConfigureTarget(j)
  BY <1>4, Known, ConfigureTargetMoves, UndoConfigureTarget DEF Spoilt, Moved
<1>. QED  BY <1>1, <1>2, <1>3, <1>4

LEMMA ReadsAlone ==
    ASSUME NEW j \in AllJobs, NEW from, NEW to, NEW readable, JobsTyped,
           ReadSettings(j, from, to, readable)
    PROVE  Alone(j)
  BY DEF ReadSettings, JobsTyped, Alone

LEMMA PrepareLocalhostUndoes ==
    ASSUME TypeInv, NEW j \in AllJobs, PrepareLocalhost(j)
    PROVE  Alone(j) /\ Undoes(j)'
<1>1. Server(j) \in Local
  BY DEF TypeInv, PhaseInv, PrepareLocalhost
<1>2. Undoes(j)'
  BY <1>1 DEF Undoes, Server
<1>3. Alone(j)
  <2>1. "local" \in Phases
    BY DEF Phases, Direct
  <2>2. CASE Step(j, "local")
    BY <2>1, <2>2, Known, StepMoves, WentAlone
  <2>3. CASE Raise(j)
    BY <2>3, Known, RaiseMoves DEF Ended
  <2>. QED  BY <2>2, <2>3 DEF PrepareLocalhost
<1>. QED  BY <1>2, <1>3

LEMMA SavesUndo ==
    ASSUME IInv, TypeInv, NEW j \in AllJobs,
           \/ UseCache(j) \/ UseProfile(j) \/ NotWindows(j) \/ ManualLayer(j)
           \/ SaveProfile(j) \/ LogAttempts(j) \/ RememberProfile(j) \/ DatabaseLocked(j)
    PROVE  Alone(j) /\ Undoes(j)'
<1>1. CASE UseCache(j) \/ UseProfile(j) \/ NotWindows(j)
  BY <1>1, Known, EarlyMoves, EndedUndoes
<1>2. CASE ManualLayer(j)
  BY <1>2, Known, ManualLayerMoves, EndedUndoes
<1>3. CASE SaveProfile(j)
  <2>1. jobs[j].to \in Names
    BY <1>3, KnownRecord DEF JobInv, SuccessInv, SaveProfile
  <2>. QED  BY <1>3, <2>1, Known, SaveProfileMoves, SavingUndoes
<1>4. CASE LogAttempts(j)
  BY <1>4, Known, LogAttemptsMoves, EndedUndoes, SavingUndoes
<1>5. CASE RememberProfile(j)
  BY <1>5, Known, EndMoves, EndedUndoes DEF RememberProfile
<1>6. CASE DatabaseLocked(j)
  BY <1>6, Known, RaiseMoves, EndedUndoes DEF DatabaseLocked
<1>. QED  BY <1>1, <1>2, <1>3, <1>4, <1>5, <1>6

LEMMA WorkUndoes ==
    ASSUME IInv, TypeInv, NEW j \in AllJobs, Undoes(j), Work(j)
    PROVE  Alone(j) /\ Undoes(j)'
<1>1. TypeInv'
  BY WorkTyped
<1>2. CASE \/ UseCache(j) \/ UseProfile(j) \/ NotWindows(j) \/ ManualLayer(j)
           \/ SaveProfile(j) \/ LogAttempts(j) \/ RememberProfile(j) \/ DatabaseLocked(j)
  BY <1>2, SavesUndo
<1>3. CASE Begin(j)
  BY <1>3, Known, BeginMoves, UndoBegin DEF Moved
<1>4. CASE PrepareLocalhost(j)
  BY <1>4, PrepareLocalhostUndoes
<1>5. CASE TryStored(j) \/ DirectAttempts(j) \/ NoDirectAttempts(j) \/ EndTarget(j) \/ TryFallbacks(j)
  BY <1>5, AttemptsUndo
<1>6. CASE ReadTrustedHosts(j) \/ ReadClient(j) \/ CapturePolicy(j)
  BY <1>6, Known, UndoReads, ReadsAlone DEF ReadTrustedHosts, ReadClient, CapturePolicy
<1>7. CASE AddTrustedHost(j) \/ ConfigureClient(j) \/ ApplyLocalPolicy(j) \/ ConfigureTarget(j)
  BY <1>1, <1>7, ChangesUndo
<1>. QED  BY <1>2, <1>3, <1>4, <1>5, <1>6, <1>7 DEF Work

LEMMA WorkAlone ==
    ASSUME IInv, TypeInv, AloneInv, UndoInv, NEW j \in AllJobs, Work(j)
    PROVE  UndoInv' /\ AloneInv'
<1>1. command' = command
  BY DEF Work, UseCache, UseProfile, NotWindows, Begin, PrepareLocalhost, TryStored,
         DirectAttempts, NoDirectAttempts, ReadTrustedHosts, AddTrustedHost, ReadClient,
         ConfigureClient, CapturePolicy, ApplyLocalPolicy, ConfigureTarget, EndTarget,
         TryFallbacks, ManualLayer, SaveProfile, LogAttempts, RememberProfile,
         DatabaseLocked, ReadSettings
<1>2. CASE ~command.parallel
  <2>1. Undoes(j)
    BY <1>2 DEF UndoInv
  <2>2. Alone(j) /\ Undoes(j)'
    BY <2>1, WorkUndoes
  <2>. QED  BY <1>1, <2>2, UndoStep
<1>3. CASE command.parallel
  BY <1>1, <1>3 DEF UndoInv, AloneInv
<1>. QED  BY <1>2, <1>3

\* Commands start with all calls at rest, or go on with some.
LEMMA CommandsUndo ==
    ASSUME AloneInv, UndoInv,
           \A j \in AllJobs : jobs'[j] = jobs[j] \/ IsResting(jobs'[j]),
           \/ command'.parallel = command.parallel /\ SameMachines
           \/ \A j \in AllJobs : IsResting(jobs'[j])
    PROVE  UndoInv' /\ AloneInv'
<1>1. \A j \in AllJobs : IsResting(jobs'[j]) => Undoes(j)' /\ j \notin Busy'
  BY DEF IsResting, Undoes, Working, Connecting, Direct, Busy
<1>2. CASE \A j \in AllJobs : IsResting(jobs'[j])
  <2>1. Busy' = {}
    BY <1>1, <1>2 DEF Busy
  <2>. QED  BY <1>1, <1>2, <2>1 DEF UndoInv, AloneInv
<1>3. CASE command'.parallel = command.parallel /\ SameMachines
  <2>1. \A j \in AllJobs : jobs'[j] = jobs[j] /\ Undoes(j) => Undoes(j)'
    BY <1>3 DEF Undoes, Undone, AsRead, SameMachines, Server, Restorable
  <2>2. Busy' \subseteq Busy
    BY <1>1 DEF Busy
  <2>. QED  BY <1>1, <1>3, <2>1, <2>2 DEF UndoInv, AloneInv
<1>. QED  BY <1>2, <1>3

LEMMA NextUndoes == IInv /\ TypeInv /\ AloneInv /\ UndoInv /\ [Next]_vars => UndoInv' /\ AloneInv'
<1>. SUFFICES ASSUME IInv, TypeInv, AloneInv, UndoInv, [Next]_vars PROVE UndoInv' /\ AloneInv'
  OBVIOUS
<1>1. CASE UNCHANGED <<settings, tracker, command, jobs>>
  BY <1>1, CommandsUndo DEF SameMachines
<1>2. CASE \E over \in SUBSET Targets \ {{}}, entry \in {"apply", "targets", "run"},
              dry, elevated, parallel, creds \in BOOLEAN :
                StartCommand(over, entry, dry, elevated, parallel, creds)
  <2>1. PICK over, entry, dry, elevated, parallel, creds :
           StartCommand(over, entry, dry, elevated, parallel, creds)
    BY <1>2
  <2>2. \A j \in AllJobs : jobs[j] = Absent
    BY <2>1 DEF StartCommand, IInv, IdleInv
  <2>3. jobs' = Queued(JobsOf(entry, over))
    BY <2>1 DEF StartCommand
  <2>4. \A j \in AllJobs : jobs'[j] = jobs[j] \/ IsResting(jobs'[j])
    BY <2>3, Known, QueuedTyped
  <2>5. \A j \in AllJobs : IsResting(jobs'[j])
    BY <2>2, <2>4, RestingRecords
  <2>. QED  BY <2>5, CommandsUndo
<1>3. CASE RerunFailed
  <2>1. /\ jobs' = Queued(Failed) /\ SameMachines /\ command' = [command EXCEPT !.round = 2]
    BY <1>3 DEF RerunFailed, SameMachines
  <2>2. command'.parallel = command.parallel
    BY <2>1 DEF TypeInv, CommandTyped, Commands
  <2>. QED  BY <2>1, <2>2, Known, QueuedTyped, CommandsUndo
<1>4. CASE EndCommand \/ Kill
  <2>1. jobs' = [j \in AllJobs |-> Absent]
    BY <1>4 DEF EndCommand, Kill, Leave
  <2>2. \A j \in AllJobs : IsResting(jobs'[j])
    BY <2>1, RestingRecords
  <2>. QED  BY <2>2, CommandsUndo
<1>5. CASE \E s \in Servers : RevertServer(s)
  <2>1. command = Idle /\ jobs' = jobs
    BY <1>5 DEF RevertServer
  <2>2. \A j \in AllJobs : IsResting(jobs'[j])
    BY <2>1, RestingRecords DEF IInv, IdleInv
  <2>. QED  BY <2>2, CommandsUndo
<1>6. CASE \E s \in Servers : Expire(s)
  BY <1>1, <1>6 DEF Expire
<1>7. CASE \E j \in AllJobs : Work(j)
  BY <1>7, WorkAlone
<1>. QED  BY <1>1, <1>2, <1>3, <1>4, <1>5, <1>6, <1>7 DEF Next, vars

LEMMA InitUndoes == Init => UndoInv /\ AloneInv
<1>. SUFFICES ASSUME Init PROVE UndoInv /\ AloneInv
  OBVIOUS
<1>1. \A j \in AllJobs : jobs[j].pc = "absent"
  BY AbsentFields DEF Init
<1>. QED  BY <1>1 DEF UndoInv, Undoes, AloneInv, Busy, Working, Connecting, Direct

THEOREM UndoInvariance == Spec => [](IInv /\ TypeInv /\ AloneInv /\ UndoInv)
<1>1. Init => IInv /\ TypeInv /\ AloneInv /\ UndoInv
  BY InitIInv, InitTyped, InitUndoes
<1>2. IInv /\ TypeInv /\ AloneInv /\ UndoInv /\ [Next]_vars => (IInv /\ TypeInv /\ AloneInv /\ UndoInv)'
  BY NextIInv, NextTyped, NextUndoes
<1>. QED  BY <1>1, <1>2, PTL DEF Spec

\* Only the last layer, or a fault, ends a call that has come there.
LEMMA ManualEnds ==
    ASSUME IInv, TypeInv, UndoInv, ~command.parallel, NEW i \in AllJobs, Work(i), NEW j \in AllJobs,
           jobs[j].pc = "manual", jobs'[j].pc = "done", faults' = faults
    PROVE  i = j /\ ManualLayer(j)
<1>1. i = j
  <2>1. Undoes(i)
    BY DEF UndoInv
  <2>2. Alone(i)
    BY <2>1, WorkUndoes
  <2>. QED  BY <2>2 DEF Alone
<1>2. ~ DatabaseLocked(j)
  BY NoFault DEF DatabaseLocked
<1>3. ManualLayer(j)
  BY <1>1, <1>2 DEF Work, UseCache, UseProfile, NotWindows, Begin, Take, PrepareLocalhost,
         TryStored, DirectAttempts, NoDirectAttempts, ReadTrustedHosts, AddTrustedHost,
         ReadClient, ConfigureClient, CapturePolicy, ApplyLocalPolicy, ConfigureTarget,
         EndTarget, TryFallbacks, SaveProfile, LogAttempts, RememberProfile,
         ReadSettings, Direct
<1>. QED  BY <1>1, <1>3

\* No command ends a call by itself.
LEMMA CommandsEndNone ==
    ASSUME TypeInv, NEW j \in AllJobs, jobs[j].pc = "manual", jobs'[j].pc = "done", [Next]_vars
    PROVE  \E i \in AllJobs : Work(i)
<1>1. ASSUME NEW S, jobs' = Queued(S) PROVE FALSE
  BY <1>1, Known, QueuedTyped DEF IsResting
<1>2. jobs' # jobs
  OBVIOUS
<1>3. ~ Leave
  BY AbsentFields DEF Leave
<1>4. ~ \E over \in SUBSET Targets \ {{}}, entry \in {"apply", "targets", "run"},
             dry, elevated, parallel, creds \in BOOLEAN :
               StartCommand(over, entry, dry, elevated, parallel, creds)
  BY <1>1 DEF StartCommand
<1>5. ~ (RerunFailed \/ EndCommand \/ Kill)
  BY <1>1, <1>3 DEF RerunFailed, EndCommand, Kill
<1>6. ~ \E s \in Servers : RevertServer(s) \/ Expire(s)
  BY <1>2 DEF RevertServer, Expire
<1>7. ~ UNCHANGED vars
  BY <1>2 DEF vars
<1>. QED  BY <1>4, <1>5, <1>6, <1>7 DEF Next

\* The scripts that a failed call hands over undo what it did, run from the
\* last to the first, if its commands and readings went well and it had the
\* connection manager for itself; a role in CredSSP that it met on they take
\* away.
THEOREM ScriptsUndo == Spec => ScriptsRestore
<1>1. IInv /\ TypeInv /\ UndoInv /\ [Next]_vars =>
        [\A j \in { k \in AllJobs : Server(k) \notin Local } :
            (/\ jobs[j].pc = "manual"
             /\ jobs'[j].pc = "done"
             /\ faults' = faults
             /\ jobs[j].clean
             /\ ~command.parallel) => Restores(jobs'[j].scripts, jobs[j].before, Server(j))]_vars
  <2>. SUFFICES ASSUME IInv, TypeInv, UndoInv, [Next]_vars,
                       NEW j \in AllJobs, Server(j) \notin Local,
                       jobs[j].pc = "manual", jobs'[j].pc = "done", faults' = faults,
                       jobs[j].clean, ~command.parallel
                PROVE  Restores(jobs'[j].scripts, jobs[j].before, Server(j))
    OBVIOUS
  <2>1. ManualLayer(j)
    BY CommandsEndNone, ManualEnds
  <2>2. jobs'[j].scripts = tracker
    BY <2>1, Known, ManualLayerMoves
  <2>3. Undone(j)
    BY DEF UndoInv, Undoes, Working
  <2>. QED  BY <2>2, <2>3 DEF Undone, Agree, Restores
<1>. QED  BY <1>1, UndoInvariance, PTL DEF Spec, ScriptsRestore

=============================================================================
