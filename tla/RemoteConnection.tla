-------------------------- MODULE RemoteConnection --------------------------
(***************************************************************************)
(* PowerShell remoting: `prepare apply` connects to every server of the    *)
(* target list, in up to five layers, and remembers what worked; a later   *)
(* command of any kind uses what is remembered.                            *)
(*                                                                         *)
(* One connection manager serves all threads of a command: its list of     *)
(* revert scripts is emptied by every call and returned by those that fail.*)
(* The machine the tool runs on is configured by all of them too.  The     *)
(* model interleaves the threads between any two commands they run.        *)
(*                                                                         *)
(* Settings are abstracted to the groups the code saves and restores       *)
(* together; a way to connect is an authentication, a protocol and a port. *)
(*                                                                         *)
(* External: which ways are open, what commands and reads fail (bounded by *)
(* MaxFaults), reverse DNS.  The tool runs on Windows; elsewhere every     *)
(* call fails at once.                                                     *)
(***************************************************************************)
EXTENDS Naturals, FiniteSets, Sequences, SequencesExt

CONSTANTS
    Targets,      \* entries of sql_targets.json
    Servers,      \* the servers they name
    ServerOf,     \* the server of a target
    Addresses,    \* servers that are named by their IP address
    AliasOf,      \* the name that reverse DNS gives for an address
    Local,        \* servers that are this machine: localhost, 127.0.0.1
    MaxWorkers,   \* threads of the pool
    MaxAsked,     \* bound on the targets that all commands together are given
    MaxFaults     \* bound on refused commands, failed reads, locked database, kills

Names == Servers \cup Range(AliasOf)

This == "this machine"

ASSUME ConnectionAssumption ==
    /\ ServerOf \in [Targets -> Servers]
    /\ Addresses \subseteq Servers
    /\ DOMAIN AliasOf = Addresses
    /\ Local \subseteq Servers \ Addresses
    /\ Targets \cap Servers = {}
    /\ This \notin Names
    /\ IsFiniteSet(Targets) /\ IsFiniteSet(Names)
    /\ MaxWorkers \in Nat \ {0}
    /\ MaxAsked \in Nat
    /\ MaxFaults \in Nat

\* An address and its name are one machine.
MachineOf(s) ==
    IF s \in Local THEN This ELSE IF s \in Addresses THEN AliasOf[s] ELSE s

Machines == {This} \cup { MachineOf(s) : s \in Servers }

\* The roles of a machine in CredSSP, on with the delegation of credentials only.
CredSSP == {"credssp", "svccredssp"}

\* TrustedHosts holds names and the wildcard; the other groups are as found
\* or as the tool wants them.
Groups == {"trusted", "auth", "svcauth", "startup", "firewall", "registry", "listener"}
              \cup CredSSP

Wildcard == "*"

Hosts == SUBSET (Servers \cup {Wildcard, This})

States == [trusted : Hosts, auth : BOOLEAN, svcauth : BOOLEAN, startup : BOOLEAN,
           firewall : BOOLEAN, registry : BOOLEAN, listener : BOOLEAN,
           credssp : BOOLEAN, svccredssp : BOOLEAN]

AsFound == [g \in Groups |-> IF g = "trusted" THEN {} ELSE FALSE]

NotSet == "NULL"

\* str(None), a string like any other to the profile and to PowerShell.
NoneText == "None"

Way(auth, protocol, port) == [auth |-> auth, protocol |-> protocol, port |-> port]

NoWay == Way(NotSet, NotSet, 0)

\* Layer 1 tries six authentications over each protocol; Kerberos stands for
\* the five that must be named.
Ways == { Way("Kerberos", "http", 5985), Way("Kerberos", "https", 5986) }

\* The fallbacks: SSH, WMI, PsExec and RPC, none of them a way for New-PSSession.
Fallback == Way("Basic", "ssh", 22)

\* What New-PSSession makes of a profile: Default over http and 5985 where
\* nothing is set; an unknown authentication and a port of the other
\* protocol never connect.
CanConnect(w) ==
    /\ w.auth # NoneText
    /\ w.port \in {0, 5985} => w.protocol # "https"
    /\ w.port = 5986 => w.protocol = "https"
    /\ w.port # 22

AllWays == { Way(a, p, n) : a \in {NotSet, NoneText, "Kerberos", "Basic"},
                            p \in {NotSet, "http", "https", "ssh"},
                            n \in {0, 22, 5985, 5986} }

Ids == 0 .. Cardinality(Names)

Profiles == [id : Ids, ok : BOOLEAN, way : AllWays]

NoProfile == [id |-> 0, ok |-> FALSE, way |-> NoWay]

\* A script puts some groups of one machine back, and turns CredSSP off only.
AreScripts(seq) ==
    \A i \in DOMAIN seq :
        /\ seq[i].at \in Machines
        /\ \A g \in DOMAIN seq[i].put :
              seq[i].put[g] \in (IF g = "trusted" THEN Hosts
                                 ELSE IF g \in CredSSP THEN {FALSE} ELSE BOOLEAN)

VARIABLES
    settings,  \* the settings of every machine
    profiles,  \* psremoting_profiles, by server name
    logged,    \* psremoting_attempts: for which server, to what name, profile id, success
    opened,    \* history: the names and ports that were ever connected to
    tracker,   \* the connection manager's revert scripts
    cache,     \* the servers that the connection cache has as available
    command,   \* the command running and its flags
    jobs,      \* where each server, or target, of the command is
    asked,     \* targets the commands were given so far
    faults     \* what has gone wrong so far

vars == <<settings, profiles, logged, opened, tracker, cache, command, jobs, asked, faults>>

Direct == {"direct", "alias", "retrust", "rewinrm", "retarget", "local"}

Phases == {"absent", "queued", "begin", "stored", "read", "trust", "readclient", "winrm",
           "capture", "policy", "target", "fallback", "manual", "save", "log", "remember",
           "done"} \cup Direct

Told == {"none", "success", "failure"}

Idle == [entry |-> "none", over |-> {}, dry |-> FALSE, elevated |-> FALSE, parallel |-> FALSE,
         creds |-> FALSE, round |-> 0]

Absent == [pc |-> "absent", pid |-> 0, way |-> NoWay, to |-> "", tried |-> {},
           seen |-> AsFound, read |-> {}, step |-> 1, scripts |-> <<>>, told |-> "none",
           before |-> [m \in Machines |-> AsFound], clean |-> TRUE]

AllJobs == Targets \cup Servers

\* `apply` groups the targets by server; prepare_targets takes each by itself.
JobsOf(entry, over) == IF entry = "targets" THEN over ELSE { ServerOf[t] : t \in over }

Server(j) == IF j \in Targets THEN ServerOf[j] ELSE j

Busy == { j \in AllJobs : jobs[j].pc \notin {"absent", "queued", "done"} }

Step(j, pc) == jobs' = [jobs EXCEPT ![j].pc = pc]

\* A call returns: its local variables are gone.
Returned(told, to, scripts) ==
    [Absent EXCEPT !.pc = "done", !.told = told, !.to = to, !.scripts = scripts]

End(j, told) == jobs' = [jobs EXCEPT ![j] = Returned(told, @.to, <<>>)]

\* An exception inside connect_to_server: the caller makes a failure of it.
Raise(j) == End(j, "failure")

Fault == faults < MaxFaults /\ faults' = faults + 1

\* The user's command only applies configuration when it may.
MayConfigure == ~command.dry /\ command.elevated

----------------------------------------------------------------------------
(* Profiles. *)

NextId == 1 + Cardinality({ n \in Names : profiles[n].id # 0 })

\* INSERT OR IGNORE.
Ensured(s) ==
    IF profiles[s].id = 0 THEN [profiles EXCEPT ![s].id = NextId] ELSE profiles

\* The upsert by name.
Saved(name, way) ==
    [profiles EXCEPT ![name] = [id |-> IF @.id = 0 THEN NextId ELSE @.id,
                                ok |-> TRUE, way |-> way]]

\* lastrowid is 0 when the upsert met a row.
RowId(name) == IF profiles[name].id = 0 THEN NextId ELSE 0

Attempt(j, to, pid, ok) == [call |-> Server(j), to |-> to, pid |-> pid, ok |-> ok]

\* Mutant of Filled: every attempt gets the id that is at hand.
FilledAlways(tried, id) == { [a EXCEPT !.pid = id] : a \in tried }

\* log_attempts gives an id to those that have none.
Filled(tried, id) == { [a EXCEPT !.pid = IF @ = 0 THEN id ELSE @] : a \in tried }

----------------------------------------------------------------------------
(* Revert scripts. *)

Restore(m, put) == [at |-> m, put |-> put]

\* Whatever was read, Disable-WSManCredSSP takes a role away.
PutBack(state, groups) == [g \in groups |-> IF g \in CredSSP THEN FALSE ELSE state[g]]

Run(state, script) ==
    [state EXCEPT ![script.at] =
        [g \in Groups |-> IF g \in DOMAIN script.put THEN script.put[g] ELSE @[g]]]

\* What running scripts from the last recorded to the first makes of a state.
RunBack(scripts, state) ==
    LET back[n \in 0 .. Len(scripts)] ==
            IF n = 0 THEN state ELSE Run(back[n - 1], scripts[Len(scripts) + 1 - n])
    IN  back[Len(scripts)]

\* Mutant of Track: the newest script comes first.
TrackFirst(script) == tracker' = <<script>> \o tracker

Track(script) == tracker' = Append(tracker, script)

----------------------------------------------------------------------------
(* Commands. *)

Init ==
    /\ settings = [m \in Machines |-> AsFound]
    /\ profiles = [n \in Names |-> NoProfile]
    /\ logged = {}
    /\ opened = {}
    /\ tracker = <<>>
    /\ cache = {}
    /\ command = Idle
    /\ jobs = [j \in AllJobs |-> Absent]
    /\ asked = 0
    /\ faults = 0

Queued(S) == [j \in AllJobs |-> IF j \in S THEN [Absent EXCEPT !.pc = "queued"] ELSE jobs[j]]

\* prepare_target hands over a reference where a name and a password are
\* expected: it never has credentials.  Only `apply` knows a dry run, which
\* differs from another where it could configure.  CommandExecutor runs one
\* command on one server.
StartCommand(over, entry, dry, elevated, parallel, creds) ==
    /\ command = Idle
    /\ asked + Cardinality(over) <= MaxAsked
    /\ dry => entry = "apply" /\ elevated
    /\ entry = "targets" => ~creds
    /\ entry = "run" => Cardinality(over) = 1
    /\ parallel => entry # "run" /\ Cardinality(over) > 1
    /\ asked' = asked + Cardinality(over)
    /\ command' = [entry |-> entry, over |-> JobsOf(entry, over), dry |-> dry,
                   elevated |-> elevated, parallel |-> parallel, creds |-> creds, round |-> 1]
    /\ jobs' = Queued(JobsOf(entry, over))
    /\ UNCHANGED <<settings, profiles, logged, opened, tracker, cache, faults>>

Failed == { j \in command.over : jobs[j].told = "failure" }

AllDone == \A j \in command.over : jobs[j].pc = "done"

\* prepare_targets tries the failed ones once more.
RerunFailed ==
    /\ command.entry = "targets"
    /\ command.round = 1
    /\ AllDone
    /\ Failed # {}
    /\ command' = [command EXCEPT !.round = 2]
    /\ jobs' = Queued(Failed)
    /\ UNCHANGED <<settings, profiles, logged, opened, tracker, cache, asked, faults>>

\* What the process had in memory goes with it.
Leave ==
    /\ command' = Idle
    /\ jobs' = [j \in AllJobs |-> Absent]
    /\ tracker' = <<>>
    /\ cache' = {}
    /\ UNCHANGED <<settings, profiles, logged, opened, asked>>

EndCommand ==
    /\ command # Idle
    /\ AllDone
    /\ command.entry = "targets" => command.round = 2 \/ Failed = {}
    /\ Leave
    /\ UNCHANGED faults

Kill == command # Idle /\ Fault /\ Leave

\* `prepare revert`: a script of its own, not those that were recorded.  It
\* first stops the service its session runs over, so the rest may not be
\* reached.  Profiles stay as they are.
RevertServer(s) ==
    /\ command = Idle
    /\ asked < MaxAsked
    /\ asked' = asked + 1
    /\ \E reached \in {{}, {"startup", "firewall", "registry"}} :
            settings' = [settings EXCEPT
                ![MachineOf(s)] = [g \in Groups |-> IF g \in reached THEN FALSE ELSE @[g]],
                ![This].trusted = @ \ {s}]
    /\ UNCHANGED <<profiles, logged, opened, tracker, cache, command, jobs, faults>>

----------------------------------------------------------------------------
(* A thread takes a job. *)

Take(j) ==
    /\ jobs[j].pc = "queued"
    /\ Cardinality(Busy) < (IF command.parallel THEN MaxWorkers ELSE 1)

\* A server that was prepared before in this process.
UseCache(j) ==
    /\ Take(j)
    /\ command.entry = "targets"
    /\ Server(j) \in cache
    /\ End(j, "success")
    /\ UNCHANGED <<settings, profiles, logged, opened, tracker, cache, command, asked, faults>>

\* CommandExecutor trusts a successful profile without trying it first, and
\* tries nothing else when the command then fails.
UseProfile(j) ==
    /\ Take(j)
    /\ command.entry = "run"
    /\ profiles[Server(j)].ok
    /\ \E works \in {CanConnect(profiles[Server(j)].way), FALSE} :
            End(j, IF works THEN "success" ELSE "failure")
    /\ UNCHANGED <<settings, profiles, logged, opened, tracker, cache, command, asked, faults>>

\* prepare_server leaves servers alone that do not look like Windows.
NotWindows(j) ==
    /\ Take(j)
    /\ command.entry = "apply"
    /\ End(j, "failure")
    /\ UNCHANGED <<settings, profiles, logged, opened, tracker, cache, command, asked, faults>>

\* A cache entry may expire at any time.
Expire(s) ==
    /\ s \in cache
    /\ cache' = cache \ {s}
    /\ UNCHANGED <<settings, profiles, logged, opened, tracker, command, jobs, asked, faults>>

----------------------------------------------------------------------------
(* connect_to_server. *)

\* The tracker is emptied whoever else is using it, and the profile row is
\* there before it is first read.
Begin(j) ==
    /\ Take(j)
    /\ command.entry = "targets" => Server(j) \notin cache
    /\ command.entry = "run" => ~profiles[Server(j)].ok
    /\ tracker' = <<>>
    /\ profiles' = Ensured(Server(j))
    /\ jobs' = [jobs EXCEPT ![j].pc = IF Server(j) \in Local THEN "begin" ELSE "stored",
                            ![j].pid = Ensured(Server(j))[Server(j)].id,
                            ![j].before = settings]
    /\ UNCHANGED <<settings, logged, opened, cache, command, asked, faults>>

\* This machine is configured whether or not the call may configure, and no
\* script is recorded for it.  Without elevation the commands fail.
PrepareLocalhost(j) ==
    /\ jobs[j].pc = "begin"
    /\ IF command.elevated
         THEN settings' = [settings EXCEPT ![This] = [@ EXCEPT
                !.startup = TRUE, !.listener = TRUE, !.firewall = TRUE, !.registry = TRUE]]
         ELSE UNCHANGED settings
    /\ \/ Step(j, "local") /\ UNCHANGED faults
       \/ Raise(j) /\ Fault  \* a time limit is not caught
    /\ UNCHANGED <<profiles, logged, opened, tracker, cache, command, asked>>

Connected(j, name, way) ==
    /\ opened' = opened \cup {<<name, way.port>>}
    /\ jobs' = [jobs EXCEPT ![j].pc = IF jobs[j].pc \in {"stored", "local"} THEN "log" ELSE "save",
                            ![j].way = way,
                            ![j].to = name,
                            ![j].tried = @ \cup {Attempt(j, name, jobs[j].pid, TRUE)}]

NotConnected(j, name, pc) ==
    /\ jobs' = [jobs EXCEPT ![j].pc = pc,
                            ![j].tried = @ \cup {Attempt(j, name, jobs[j].pid, FALSE)}]
    /\ UNCHANGED opened

\* The profile that is stored, the row that Begin has just made included.
TryStored(j) ==
    /\ jobs[j].pc = "stored"
    /\ \/ /\ CanConnect(profiles[Server(j)].way)
          /\ Connected(j, Server(j), profiles[Server(j)].way)
       \/ NotConnected(j, Server(j), "direct")
    /\ UNCHANGED <<settings, profiles, logged, tracker, cache, command, asked, faults>>

AfterDirect(j) ==
    LET Configure == IF MayConfigure THEN "read" ELSE "manual"
    IN  CASE jobs[j].pc = "direct"   -> IF Server(j) \in Addresses THEN "alias" ELSE Configure
          [] jobs[j].pc = "alias"    -> Configure
          [] jobs[j].pc = "retrust"  -> "readclient"
          [] jobs[j].pc = "rewinrm"  -> "target"
          [] jobs[j].pc = "retarget" -> "fallback"
          [] jobs[j].pc = "local"    -> "manual"

DirectName(j) == IF jobs[j].pc = "alias" THEN AliasOf[Server(j)] ELSE Server(j)

\* Layer 1, and its repetitions after each change.
DirectAttempts(j) ==
    /\ jobs[j].pc \in Direct
    /\ command.creds
    /\ \/ \E way \in Ways : Connected(j, DirectName(j), way)
       \/ NotConnected(j, DirectName(j), AfterDirect(j))
    /\ UNCHANGED <<settings, profiles, logged, tracker, cache, command, asked, faults>>

\* Without credentials there is nothing to try; reverse DNS may know no name.
NoDirectAttempts(j) ==
    /\ jobs[j].pc \in Direct
    /\ ~command.creds \/ jobs[j].pc = "alias"
    /\ Step(j, AfterDirect(j))
    /\ UNCHANGED <<settings, profiles, logged, opened, tracker, cache, command, asked, faults>>

----------------------------------------------------------------------------
(* Layer 2: this machine. *)

\* What could not be read is taken to be as a new machine has it.
ReadSettings(j, from, to, readable) ==
    /\ jobs[j].pc = from
    /\ \E read \in readable :
        /\ jobs' = [jobs EXCEPT ![j].pc = to, ![j].read = read,
                ![j].seen = [g \in Groups |-> IF g \in read THEN settings[This][g] ELSE AsFound[g]],
                ![j].clean = @ /\ read = UNION readable]
        /\ IF read = UNION readable THEN UNCHANGED faults ELSE Fault
    /\ UNCHANGED <<settings, profiles, logged, opened, tracker, cache, command, asked>>

ReadTrustedHosts(j) == ReadSettings(j, "read", "trust", SUBSET {"trusted"})

AddTrustedHost(j) ==
    /\ jobs[j].pc = "trust"
    /\ \/ /\ settings' = [settings EXCEPT ![This].trusted = @ \cup {Server(j)}]
          /\ Track(Restore(This, [trusted |-> jobs[j].seen.trusted]))
          /\ Step(j, "retrust")
          /\ UNCHANGED faults
       \/ /\ Fault
          /\ jobs' = [jobs EXCEPT ![j].pc = "readclient", ![j].clean = FALSE]
          /\ UNCHANGED <<settings, tracker>>
    /\ UNCHANGED <<profiles, logged, opened, cache, command, asked>>

ReadClient(j) == ReadSettings(j, "readclient", "winrm", SUBSET {"trusted", "auth"})

ClientState(state, hosts, auth, credssp) ==
    [state EXCEPT !.trusted = @ \cup hosts, !.auth = auth, !.credssp = credssp]

\* Seven commands.  Scripts are recorded whether or not they succeed, but only
\* for what was read, and for the role of the client in CredSSP, which the last
\* of them takes away; after a failure there is no new attempt.
ConfigureClient(j) ==
    /\ jobs[j].pc = "winrm"
    /\ Track(Restore(This, PutBack(jobs[j].seen, jobs[j].read \cup {"credssp"})))
    /\ \/ /\ settings' = [settings EXCEPT ![This] = ClientState(@, {Wildcard}, TRUE, TRUE)]
          /\ Step(j, "capture")
          /\ UNCHANGED faults
       \/ /\ Fault
          /\ \E hosts \in {{}, {Wildcard}}, auth \in {settings[This].auth, TRUE},
                credssp \in {settings[This].credssp, TRUE} :
                settings' = [settings EXCEPT ![This] = ClientState(@, hosts, auth, credssp)]
          /\ jobs' = [jobs EXCEPT ![j].pc = "capture", ![j].clean = FALSE, ![j].step = 0]
    /\ UNCHANGED <<profiles, logged, opened, cache, command, asked>>

CapturePolicy(j) == ReadSettings(j, "capture", "policy", {{}, {"auth", "svcauth"}})

PolicyGroups == {"auth", "svcauth"} \cup CredSSP

Allowing(state) == [g \in Groups |-> IF g \in PolicyGroups THEN TRUE ELSE state[g]]

\* The values that were captured, and then both roles in CredSSP off.
PolicyPut(state) == PutBack(state, PolicyGroups)

\* The WinRM policy of this machine; a script is recorded only when it went well.
ApplyLocalPolicy(j) ==
    /\ jobs[j].pc = "policy"
    /\ \/ /\ settings' = [settings EXCEPT ![This] = Allowing(@)]
          /\ Track(Restore(This, PolicyPut(jobs[j].seen)))
          /\ jobs' = [jobs EXCEPT ![j].pc = IF jobs[j].step = 0 THEN "target" ELSE "rewinrm",
                                  ![j].step = 1]
          /\ UNCHANGED faults
       \/ /\ Fault
          /\ settings' \in {settings, [settings EXCEPT ![This] = Allowing(@)]}
          /\ jobs' = [jobs EXCEPT ![j].pc = IF jobs[j].step = 0 THEN "target" ELSE "rewinrm",
                                  ![j].step = 1, ![j].clean = FALSE]
          /\ UNCHANGED tracker
    /\ UNCHANGED <<profiles, logged, opened, cache, command, asked>>

----------------------------------------------------------------------------
(* Layer 3: the server, one remote script after another. *)

\* What each script sets, and what the script recorded for it may put back.
\* The prior state is read from the script's output, together with all that
\* the commands in it print: what is not JSON then is answered by a script with
\* a brace too many, which puts nothing back.  So are the scripts for firewall
\* and listeners, which compare with a Python constant, and for TrustedHosts.
StartService == [set |-> {"startup", "firewall", "listener"}, backs |-> {{}, {"startup"}}]

OpenFirewall == [set |-> {"firewall"}, backs |-> {{}}]

AllowRemoteAdmin == [set |-> {"registry"}, backs |-> {{}}]

AllowAuthentication == [set |-> PolicyGroups, backs |-> {PolicyGroups}]

CreateListeners == [set |-> {"listener"}, backs |-> {{}}]

TrustClient == [set |-> {"trusted"}, backs |-> {{}}]

TargetSteps == <<StartService, OpenFirewall, AllowRemoteAdmin, AllowAuthentication,
                 CreateListeners, TrustClient>>

Applied(state, step) ==
    [g \in Groups |-> IF g \notin step.set THEN state[g]
                      ELSE IF g = "trusted" THEN state[g] \cup {This} ELSE TRUE]

AfterTarget(j) == jobs[j].step + 1

\* Names and passwords are needed, and TrustedHosts only for addresses.
EndTarget(j) ==
    /\ jobs[j].pc = "target"
    /\ Step(j, IF command.creds THEN "retarget" ELSE "fallback")
    /\ \/ ~command.creds
       \/ jobs[j].step > Len(TargetSteps)
       \/ jobs[j].step = Len(TargetSteps) /\ Server(j) \notin Addresses
    /\ UNCHANGED <<settings, profiles, logged, opened, tracker, cache, command, asked, faults>>

\* A script that does not answer well may have done its work all the same.
ConfigureTarget(j) ==
    LET m    == MachineOf(Server(j))
        step == TargetSteps[jobs[j].step]
    IN  /\ jobs[j].pc = "target"
        /\ command.creds
        /\ jobs[j].step <= Len(TargetSteps)
        /\ jobs[j].step = Len(TargetSteps) => Server(j) \in Addresses
        /\ \/ /\ settings' = [settings EXCEPT ![m] = Applied(@, step)]
              /\ \E back \in step.backs : Track(Restore(m, PutBack(settings[m], back)))
              /\ jobs' = [jobs EXCEPT ![j].step = AfterTarget(j)]
              /\ UNCHANGED faults
           \/ /\ Fault
              /\ settings' \in {settings, [settings EXCEPT ![m] = Applied(@, step)]}
              /\ jobs' = [jobs EXCEPT ![j].step = AfterTarget(j), ![j].clean = FALSE]
              /\ UNCHANGED tracker
        /\ UNCHANGED <<profiles, logged, opened, cache, command, asked>>

----------------------------------------------------------------------------
(* Layers 4 and 5. *)

\* SSH, WMI, PsExec, RPC.  Their attempts have no profile id and no session;
\* the time limits of the last three are not caught.
TryFallbacks(j) ==
    /\ jobs[j].pc = "fallback"
    /\ \/ /\ opened' = opened \cup {<<Server(j), Fallback.port>>}
          /\ jobs' = [jobs EXCEPT ![j].pc = "save", ![j].way = Fallback, ![j].to = Server(j),
                                  ![j].tried = @ \cup {Attempt(j, Server(j), 0, TRUE)}]
       \/ /\ jobs' = [jobs EXCEPT ![j].pc = "manual",
                                  ![j].tried = @ \cup {Attempt(j, Server(j), 0, FALSE)}]
          /\ UNCHANGED opened
       \/ Raise(j) /\ UNCHANGED opened
    /\ UNCHANGED <<settings, profiles, logged, tracker, cache, command, asked, faults>>

\* The attempts are logged and the recorded scripts handed over.
ManualLayer(j) ==
    /\ jobs[j].pc = "manual"
    /\ logged' = logged \cup Filled(jobs[j].tried, jobs[j].pid)
    /\ jobs' = [jobs EXCEPT ![j] = Returned("failure", "", tracker)]
    /\ UNCHANGED <<settings, profiles, opened, tracker, cache, command, asked, faults>>

----------------------------------------------------------------------------
(* Success. *)

\* Mutant of SaveProfile: the profile is saved under the name asked for, not
\* the one that answered.
SaveAsAsked(j) ==
    /\ jobs[j].pc = "save"
    /\ profiles' = Saved(Server(j), jobs[j].way)
    /\ jobs' = [jobs EXCEPT ![j].pc = "log", ![j].tried = Filled(@, RowId(Server(j)))]
    /\ UNCHANGED <<settings, logged, opened, tracker, cache, command, asked, faults>>

\* _persist_success.  The row's id is lost when the row was there; attempts
\* of a fallback, which have none either, cannot be logged then.
SaveProfile(j) ==
    /\ jobs[j].pc = "save"
    /\ profiles' = Saved(jobs[j].to, jobs[j].way)
    /\ jobs' = [jobs EXCEPT ![j].pc = "log", ![j].tried = Filled(@, RowId(jobs[j].to))]
    /\ UNCHANGED <<settings, logged, opened, tracker, cache, command, asked, faults>>

\* Mutant of LogAttempts: an attempt that cannot be logged is a warning.
LogWhatCanBe(j) ==
    /\ jobs[j].pc = "log"
    /\ logged' = logged \cup { a \in jobs[j].tried : a.pid # 0 }
    /\ cache' = IF command.entry = "targets" THEN cache \cup {Server(j)} ELSE cache
    /\ IF command.entry = "apply" THEN Step(j, "remember") ELSE End(j, "success")
    /\ UNCHANGED <<settings, profiles, opened, tracker, command, asked, faults>>

\* Every attempt is a commit of its own.
LogAttempts(j) ==
    LET Good == { a \in jobs[j].tried : a.pid # 0 }
    IN  /\ jobs[j].pc = "log"
        /\ logged' = logged \cup Good
        /\ IF Good = jobs[j].tried
             THEN /\ IF command.entry = "apply" THEN Step(j, "remember") ELSE End(j, "success")
                  /\ cache' = IF command.entry = "targets" THEN cache \cup {Server(j)} ELSE cache
             ELSE Raise(j) /\ UNCHANGED cache
        /\ UNCHANGED <<settings, profiles, opened, tracker, command, asked, faults>>

\* Mutant of Remembered: the protocol column gets the method's name.
RememberedMethod(way) == [way EXCEPT !.protocol = "powershell_remoting"]

\* prepare_server saves the session's profile again, in its own words.
Remembered(way) ==
    Way(IF way.auth = NotSet THEN NoneText ELSE way.auth, "http", way.port)

\* That this fails is a warning.
RememberProfile(j) ==
    /\ jobs[j].pc = "remember"
    /\ End(j, "success")
    /\ \/ profiles' = Saved(jobs[j].to, Remembered(jobs[j].way)) /\ UNCHANGED faults
       \/ Fault /\ UNCHANGED profiles
    /\ UNCHANGED <<settings, logged, opened, tracker, cache, command, asked>>

\* The threads write to one SQLite file: a commit may find it locked.
DatabaseLocked(j) ==
    /\ jobs[j].pc \in {"save", "log", "manual"}
    /\ Fault
    /\ logged' \in {logged, logged \cup { a \in jobs[j].tried : a.pid # 0 /\ ~a.ok }}
    /\ Raise(j)
    /\ UNCHANGED <<settings, profiles, opened, tracker, cache, command, asked>>

----------------------------------------------------------------------------

Work(j) ==
    \/ UseCache(j) \/ UseProfile(j) \/ NotWindows(j) \/ Begin(j)
    \/ PrepareLocalhost(j)
    \/ TryStored(j) \/ DirectAttempts(j) \/ NoDirectAttempts(j)
    \/ ReadTrustedHosts(j) \/ AddTrustedHost(j)
    \/ ReadClient(j) \/ ConfigureClient(j) \/ CapturePolicy(j) \/ ApplyLocalPolicy(j)
    \/ ConfigureTarget(j) \/ EndTarget(j)
    \/ TryFallbacks(j) \/ ManualLayer(j)
    \/ SaveProfile(j) \/ LogAttempts(j) \/ RememberProfile(j) \/ DatabaseLocked(j)

Next ==
    \/ \E over \in SUBSET Targets \ {{}}, entry \in {"apply", "targets", "run"},
          dry, elevated, parallel, creds \in BOOLEAN :
            StartCommand(over, entry, dry, elevated, parallel, creds)
    \/ RerunFailed \/ EndCommand \/ Kill
    \/ \E s \in Servers : RevertServer(s) \/ Expire(s)
    \/ \E j \in AllJobs : Work(j)

Spec == Init /\ [][Next]_vars

----------------------------------------------------------------------------
(* Properties. *)

IsJob(job) ==
    /\ job.pc \in Phases /\ job.told \in Told /\ job.clean \in BOOLEAN
    /\ job.pid \in Ids /\ job.way \in AllWays /\ job.to \in Names \cup {""}
    /\ job.tried \subseteq [call : Servers, to : Names, pid : Ids, ok : BOOLEAN]
    /\ job.seen \in States /\ job.read \subseteq Groups /\ job.before \in [Machines -> States]
    /\ job.step \in 0 .. Len(TargetSteps) + 1
    /\ AreScripts(job.scripts)

\* Types.
TypeOK ==
    /\ settings \in [Machines -> States]
    /\ profiles \in [Names -> Profiles]
    /\ logged \subseteq [call : Servers, to : Names, pid : Ids, ok : BOOLEAN]
    /\ opened \subseteq Names \X {0, 22, 5985, 5986}
    /\ AreScripts(tracker)
    /\ cache \subseteq Servers
    /\ command \in [entry : {"none", "apply", "targets", "run"}, over : SUBSET AllJobs,
                    dry : BOOLEAN, elevated : BOOLEAN, parallel : BOOLEAN, creds : BOOLEAN, round : 0 .. 2]
    /\ \A j \in AllJobs : IsJob(jobs[j])
    /\ asked \in 0 .. MaxAsked
    /\ faults \in 0 .. MaxFaults

\* The settings whose recorded scripts can be run.  A role in CredSSP that the
\* call met on is not among them: its script turns it off.
Restorable(s, before) ==
    { p \in {<<This, "trusted">>} \cup ({This, MachineOf(s)} \X PolicyGroups) :
        p[2] \in CredSSP => ~before[p[1]][p[2]] }

Restores(scripts, before, s) ==
    LET after == RunBack(scripts, settings)
    IN  \A p \in Restorable(s, before) : after[p[1]][p[2]] = before[p[1]][p[2]]

\* The scripts that a failed call hands over undo what it did: run from the
\* last to the first, they lead from the present settings to those the call
\* met, of this machine and the server, if its commands and readings went
\* well and it had the connection manager for itself.  TrustedHosts and the
\* authentications are written twice by a call; only the order of the
\* recordings tells which script holds the older value.  CredSSP is off again
\* where the call met it off; where it met it on, as after an earlier call
\* that succeeded, the scripts take it away (gpo_enforcer.py:93-94).
\* (revert_tracker.py: the tracker; docs/sync/prepare.md:410.)
ScriptsRestore ==
    [][\A j \in { k \in AllJobs : Server(k) \notin Local } :
        (/\ jobs[j].pc = "manual"
         /\ jobs'[j].pc = "done"
         /\ faults' = faults
         /\ jobs[j].clean
         /\ ~command.parallel) => Restores(jobs'[j].scripts, jobs[j].before, Server(j))]_vars

\* An attempt is logged under the profile of the server the call was for,
\* whatever name it went to and whoever saved which profile meanwhile.
\* (attempts.py: log_attempts fills in missing ids only.)
AttemptsKeepTheirProfile ==
    \A a \in logged : a.pid = profiles[a.call].id

\* A caller that is told of a success got a session, and the attempt that
\* opened it is in the log, unless the answer is the cache's or that of a
\* command run over a remembered profile.  (connect_flow.py, apply_service.py.)
SuccessIsOnRecord ==
    \A j \in AllJobs :
        jobs[j].told = "success" =>
            \/ \E a \in logged : a.call = Server(j) /\ a.to = jobs[j].to /\ a.ok
            \/ jobs[j].to = "" /\ (profiles[Server(j)].ok \/ command.entry = "targets")

\* A profile that says successful, which later commands use untried, was
\* earned: someone connected under its name, on its port.  (profiles.py,
\* prepare_service.py: the session's profile is saved twice.)
ProfilesAreEarned ==
    \A n \in Names : profiles[n].ok => <<n, profiles[n].way.port>> \in opened
=============================================================================
