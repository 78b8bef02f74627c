------------------------- MODULE RemediationProofs -------------------------
(***************************************************************************)
(* What is proved of Remediation for every target list: the executor never *)
(* disables the login it is connected with, if no two targets share host   *)
(* and port; its scripts change the instance they were generated from, if  *)
(* every address leads back to its instance; and what they change is what  *)
(* was found, fixed or as it was before, if they run without an error (the *)
(* policy of the login they run under is not theirs to fix).               *)
(* None of it holds without its condition: see the README, section 6.      *)
(***************************************************************************)
EXTENDS Remediation, WellFoundedInduction, TLAPS

\* No two targets share host and port, the port filled in with 1433.
DistinctEndpoints ==
    \A t, u \in Instances :
      Targets[t].host = Targets[u].host /\ Targets[t].port = Targets[u].port => t = u

\* A script's header, with the port of the main script or with none, leads
\* the executor to the instance that the script was generated from.
WellAddressed ==
    \A i \in Instances : \A p \in {PortFor(i), NoPort} :
      Reached(ConnectTarget(i, p), Targets[i].real) \subseteq {i}

Ended == {"clean", "skipped", "failed", "unconnected", "previewed"}

\* The logins that the generator can take a script's user to be.
Users == { ConnUser(i, logins) : i \in Instances, logins \in [Instances -> Logins] }

\* All the scripts that the generator can write.
AllScripts == { [port |-> p, main |-> MainScript(S, u), undo |-> RollbackScript(S), finds |-> S] :
                p \in Ports, S \in SUBSET Range(Order), u \in Users }

Folders == UNION { [D -> AllScripts] : D \in SUBSET Instances }

Shape(f) == f = [i \in Instances |-> [k \in Items |-> f[i][k]]]

PortsKnown == \A v \in DOMAIN versions : \A i \in DOMAIN versions[v] :
                 versions[v][i].port = PortFor(i)

\* What a running script knows: where it runs, and that the login it was
\* checked for is the one it runs with.
ScriptKnows ==
    pc = "script" =>
      /\ cur.of \in Instances
      /\ cur.at \in Instances
      /\ DistinctEndpoints => cur.user = cur.safe
      /\ WellAddressed => cur.at = cur.of

IInv ==
    /\ Shape(value)
    /\ login \in [Instances -> Logins]
    /\ found \in [Instances -> SUBSET Range(Order)]
    /\ versions \in Seq(Folders)
    /\ todo \subseteq Instances
    /\ pc = "generate" => versions # << >>
    /\ pc = "folder" => versions # << >> /\ todo \subseteq DOMAIN Last(versions)
    /\ pc = "script" => versions # << >> /\ todo \subseteq DOMAIN Last(versions)
    /\ PortsKnown
    /\ ScriptKnows

LEMMA FirstOfOne == ASSUME NEW t \in Nat PROVE FirstOf({t}) = t
  BY DEF FirstOf

\* Every non-empty set of numbers has a first one.
LEMMA FirstOfIn ==
    ASSUME NEW S \in SUBSET Nat, S # {}
    PROVE  FirstOf(S) \in S
<1>1. \E t \in S : \A u \in S : t <= u
  <2>. DEFINE Less == { ss \in Nat \X Nat : ss[1] < ss[2] }
  <2>1. IsWellFoundedOn(Less, Nat)
    BY NatLessThanWellFounded DEF OpToRel
  <2>2. \E t \in S : \A u \in S : ~(<<u, t>> \in Less)
    BY <2>1, WFMin
  <2>3. PICK t \in S : \A u \in S : ~(<<u, t>> \in Less)
    BY <2>2
  <2>4. ASSUME NEW u \in S PROVE t <= u
    <3>1. u \in Nat /\ t \in Nat /\ (<<u, t>> \in Less <=> u < t)
      OBVIOUS
    <3>. QED  BY <3>1, <2>3
  <2>. QED  BY <2>4
<1>. QED  BY <1>1 DEF FirstOf

LEMMA FolderShape ==
    ASSUME NEW f \in Folders
    PROVE  /\ DOMAIN f \subseteq Instances
           /\ f \in [DOMAIN f -> AllScripts]
<1>1. PICK D \in SUBSET Instances : f \in [D -> AllScripts]
  BY DEF Folders
<1>. QED  BY <1>1

LEMMA WithInFolders ==
    ASSUME NEW f \in Folders, NEW i \in Instances, NEW s \in AllScripts
    PROVE  With(f, i, s) \in Folders
<1>1. DOMAIN f \subseteq Instances /\ f \in [DOMAIN f -> AllScripts]
  BY FolderShape
<1>2. With(f, i, s) \in [DOMAIN f \cup {i} -> AllScripts]
  BY <1>1 DEF With
<1>3. DOMAIN f \cup {i} \in SUBSET Instances
  BY <1>1
<1>. QED  BY <1>2, <1>3 DEF Folders

LEMMA EmptyFolder == [i \in {} |-> {}] \in Folders
<1>1. [i \in {} |-> {}] \in [{} -> AllScripts]
  OBVIOUS
<1>. QED  BY <1>1 DEF Folders

\* What the search needs to know of the list of targets.
LEMMA TargetsKnown ==
    /\ Instances \subseteq Nat
    /\ \A t \in Instances : Targets[t] \in TargetRecords
    /\ \A t \in Instances : Targets[t].port \in Nat /\ Targets[t].port # NoPort
<1>1. Targets \in Seq(TargetRecords) /\ Ports \subseteq Nat \ {NoPort}
  BY RemediationAssumption
<1>2. \A t \in Instances : Targets[t] \in TargetRecords
  BY <1>1 DEF Instances
<1>3. \A t \in Instances : Targets[t].port \in Ports
  BY <1>2 DEF TargetRecords
<1>4. Instances \subseteq Nat
  BY <1>1 DEF Instances
<1>. QED  BY <1>1, <1>2, <1>3, <1>4

\* Some rule always applies, since the script's own host is in the list.
LEMMA FindInHost ==
    ASSUME NEW i \in Instances, NEW p, NEW n
    PROVE  FindTarget(Targets[i].host, p, n) \in OnHost(Targets[i].host)
<1>. DEFINE h == Targets[i].host
            M == Matches(h, p, n)
            R == { r \in 1..5 : M[r] # {} }
<1>1. i \in OnHost(h) /\ OnHost(h) \subseteq Nat
  BY TargetsKnown DEF OnHost
<1>2. M[5] = OnHost(h) /\ \A r \in 1..5 : M[r] \subseteq OnHost(h)
  BY DEF Matches
<1>3. R \in SUBSET Nat /\ 5 \in R
  BY <1>1, <1>2
<1>4. FirstOf(R) \in R
  BY <1>3, FirstOfIn
<1>5. M[FirstOf(R)] \in SUBSET OnHost(h) /\ M[FirstOf(R)] # {}
  BY <1>2, <1>4
<1>6. FirstOf(M[FirstOf(R)]) \in M[FirstOf(R)]
  BY <1>1, <1>5, FirstOfIn
<1>. QED  BY <1>5, <1>6 DEF FindTarget

----------------------------------------------------------------------------
\* With distinct endpoints, a search with a port that some target of the host
\* has ends at that target, with or without the instance's name.
LEMMA FindByPort ==
    ASSUME DistinctEndpoints, NEW t \in Instances, NEW n
    PROVE  FindTarget(Targets[t].host, Targets[t].port, n) = t
<1>. DEFINE h == Targets[t].host
            p == Targets[t].port
            M == Matches(h, p, n)
            R == { r \in 1..5 : M[r] # {} }
<1>1. p # NoPort
  BY TargetsKnown
<1>2. { u \in OnHost(h) : Targets[u].port = p } = {t}
  BY DEF DistinctEndpoints, OnHost
<1>3. M[2] = {t}
  BY <1>1, <1>2 DEF Matches
<1>4. M[1] \in {{}, {t}}
  BY <1>1, <1>2 DEF Matches
<1>5. 2 \in R /\ \A r \in R : r = 1 \/ 2 <= r
  BY <1>3
<1>6. FirstOf(R) \in {1, 2} /\ FirstOf(R) \in R
  <2>1. CASE 1 \in R
    <3>1. \A u \in R : 1 <= u
      OBVIOUS
    <3>. QED  BY <2>1, <3>1 DEF FirstOf
  <2>2. CASE 1 \notin R
    <3>1. \A u \in R : 2 <= u
      BY <1>5, <2>2
    <3>. QED  BY <1>5, <2>2, <3>1 DEF FirstOf
  <2>. QED  BY <2>1, <2>2
<1>7. M[FirstOf(R)] = {t}
  BY <1>3, <1>4, <1>6
<1>8. FindTarget(h, p, n) = FirstOf(M[FirstOf(R)])
  BY DEF FindTarget
<1>. QED  BY <1>7, <1>8, FirstOfOne, TargetsKnown

\* When no target of the host has the port or the name, both searches end at
\* the host's first target.
LEMMA FindByHost ==
    ASSUME NEW h, NEW p \in Nat \ {NoPort}, NEW n,
           OnHost(h) # {},
           \A u \in OnHost(h) : Targets[u].port # p /\ (n # NoName => Targets[u].name # n)
    PROVE  FindTarget(h, p, n) = FirstOf(OnHost(h))
<1>. DEFINE M == Matches(h, p, n)
            R == { r \in 1..5 : M[r] # {} }
<1>1. M[1] = {} /\ M[2] = {} /\ M[3] = {} /\ M[4] = {} /\ M[5] = OnHost(h)
  BY DEF Matches
<1>2. R = {5}
  BY <1>1
<1>3. FirstOf(R) = 5
  BY <1>2, FirstOfOne
<1>. QED  BY <1>1, <1>3 DEF FindTarget

LEMMA PortForKnown ==
    ASSUME NEW i \in Instances
    PROVE  PortFor(i) \in Nat \ {NoPort}
<1>. DEFINE fits == { t \in OnHost(Targets[i].host) :
                        \/ Targets[t].name # NoName /\ Targets[t].name = Targets[i].real
                        \/ Targets[t].name = NoName /\ Targets[i].real = Default }
<1>1. CASE fits = {}
  BY <1>1 DEF PortFor, NoPort
<1>2. CASE fits # {}
  <2>1. fits \subseteq Instances
    BY DEF OnHost
  <2>2. FirstOf(fits) \in fits
    BY <1>2, <2>1, TargetsKnown, FirstOfIn
  <2>3. PortFor(i) = Targets[FirstOf(fits)].port
    BY <1>2 DEF PortFor
  <2>. QED  BY <2>1, <2>2, <2>3, TargetsKnown
<1>. QED  BY <1>1, <1>2

\* The executor connects with the login that it checks, for the port of a main
\* script and for the missing port of a rollback script.
LEMMA SameTarget ==
    ASSUME DistinctEndpoints, NEW i \in Instances, NEW p \in {PortFor(i), NoPort}
    PROVE  ConnectTarget(i, p) = CheckedTarget(i, p)
<1>. DEFINE h == Targets[i].host
            n == Targets[i].real
<1>1. i \in OnHost(h) /\ OnHost(h) \subseteq Instances
  BY DEF OnHost
<1>2. CASE p = NoPort
  <2>. DEFINE c == CheckedTarget(i, p)
  <2>1. c \in OnHost(h)
    BY <1>1, FindInHost DEF CheckedTarget
  <2>2. ConnectTarget(i, p) = FindTarget(h, Targets[c].port, NoName)
    BY <1>2 DEF ConnectTarget
  <2>3. c \in Instances /\ Targets[c].host = h
    BY <2>1 DEF OnHost
  <2>. QED  BY <2>2, <2>3, FindByPort
<1>3. CASE p # NoPort
  <2>0. p = PortFor(i)
    BY <1>3
  <2>1. ConnectTarget(i, p) = FindTarget(h, p, NoName)
    BY <1>3 DEF ConnectTarget
  <2>2. CASE \E t \in OnHost(h) : Targets[t].port = p
    <3>1. PICK t \in OnHost(h) : Targets[t].port = p
      BY <2>2
    <3>2. t \in Instances /\ Targets[t].host = h
      BY DEF OnHost
    <3>3. FindTarget(h, p, NoName) = t /\ FindTarget(h, p, n) = t
      BY <3>1, <3>2, FindByPort
    <3>. QED  BY <2>1, <3>3 DEF CheckedTarget
  <2>3. CASE ~ \E t \in OnHost(h) : Targets[t].port = p
    <3>1. \A u \in OnHost(h) : n # NoName => Targets[u].name # n
      <4>1. SUFFICES ASSUME NEW u \in OnHost(h), n # NoName, Targets[u].name = n PROVE FALSE
        OBVIOUS
      <4>. DEFINE fits == { t \in OnHost(h) :
                        \/ Targets[t].name # NoName /\ Targets[t].name = n
                        \/ Targets[t].name = NoName /\ n = Default }
      <4>2. u \in fits
        BY <4>1
      <4>3. FirstOf(fits) \in fits
        BY <4>2, <1>1, TargetsKnown, FirstOfIn
      <4>4. PortFor(i) = Targets[FirstOf(fits)].port
        BY <4>2 DEF PortFor
      <4>. QED  BY <2>0, <2>3, <4>3, <4>4
    <3>2. p \in Nat \ {NoPort}
      BY <2>0, PortForKnown
    <3>3. \A m : (m = NoName \/ m = n) => FindTarget(h, p, m) = FirstOf(OnHost(h))
      BY <1>1, <2>3, <3>1, <3>2, FindByHost
    <3>. QED  BY <2>1, <3>3 DEF CheckedTarget
  <2>. QED  BY <2>2, <2>3
<1>. QED  BY <1>2, <1>3

----------------------------------------------------------------------------
\* The inductive invariant.

LEMMA NewScriptTyped ==
    ASSUME IInv, NEW i \in Instances
    PROVE  NewScript(i) \in AllScripts /\ NewScript(i).port = PortFor(i)
<1>1. PortFor(i) \in Ports
  <2>. DEFINE fits == { t \in OnHost(Targets[i].host) :
                          \/ Targets[t].name # NoName /\ Targets[t].name = Targets[i].real
                          \/ Targets[t].name = NoName /\ Targets[i].real = Default }
  <2>1. CASE fits = {}
    BY <2>1, RemediationAssumption DEF PortFor
  <2>2. CASE fits # {}
    <3>1. fits \in SUBSET Nat /\ fits \subseteq Instances
      BY TargetsKnown DEF OnHost
    <3>2. FirstOf(fits) \in fits
      BY <2>2, <3>1, FirstOfIn
    <3>3. PortFor(i) = Targets[FirstOf(fits)].port
      BY <2>2 DEF PortFor
    <3>4. Targets[FirstOf(fits)] \in TargetRecords
      BY <3>1, <3>2, TargetsKnown
    <3>. QED  BY <3>3, <3>4 DEF TargetRecords
  <2>. QED  BY <2>1, <2>2
<1>2. ConnUser(i, login) \in Users
  BY DEF IInv, Users
<1>3. found[i] \in SUBSET Range(Order)
  BY DEF IInv
<1>. QED  BY <1>1, <1>2, <1>3 DEF NewScript, AllScripts

LEMMA InitIInv == Init => IInv
<1>. SUFFICES ASSUME Init PROVE IInv
  OBVIOUS
<1>1. Shape(value)
  BY DEF Init, Shape
<1>2. versions \in Seq(Folders) /\ PortsKnown
  BY DEF Init, PortsKnown
<1>. QED  BY <1>1, <1>2 DEF Init, IInv, ScriptKnows

\* A statement leaves the shape of the table of values alone.
LEMMA ShapeKept ==
    ASSUME NEW f, Shape(f), NEW a, NEW k, NEW v
    PROVE  Shape([f EXCEPT ![a][k] = v])
  BY DEF Shape

\* The steps that touch neither the version folders nor the running script.
LEMMA QuietSteps ==
    ASSUME IInv, UNCHANGED <<versions, cur>>, Shape(value'),
           login' \in [Instances -> Logins],
           found' \in [Instances -> SUBSET Range(Order)],
           todo' \subseteq Instances,
           pc' \in {"folder", "hooks", "idle"},
           pc' = "folder" => versions # << >> /\ todo' \subseteq DOMAIN Last(versions)
    PROVE  IInv'
<1>1. PortsKnown'
  BY DEF IInv, PortsKnown
<1>2. ScriptKnows'
  BY DEF ScriptKnows
<1>3. versions' = versions
  OBVIOUS
<1>. QED  BY <1>1, <1>2, <1>3 DEF IInv

LEMMA GenerationSteps ==
    ASSUME IInv, CreateRemediationVersion \/ \E i \in Instances : GenerateInstanceScripts(i)
    PROVE  IInv'
<1>1. CASE CreateRemediationVersion
  <2>1. versions' \in Seq(Folders) /\ versions' # << >>
    BY <1>1, EmptyFolder DEF IInv, CreateRemediationVersion
  <2>2. PortsKnown'
    <3>1. ASSUME NEW v \in DOMAIN versions', NEW i \in DOMAIN versions'[v]
          PROVE  versions'[v][i].port = PortFor(i)
      <4>1. v \in 1..Len(versions) + 1
        BY <1>1, <3>1 DEF IInv, CreateRemediationVersion
      <4>2. CASE v = Len(versions) + 1
        <5>1. versions'[v] = [j \in {} |-> {}]
          BY <1>1, <4>2 DEF IInv, CreateRemediationVersion
        <5>. QED  BY <3>1, <5>1
      <4>3. CASE v \in 1..Len(versions)
        <5>1. versions'[v] = versions[v] /\ v \in DOMAIN versions
          BY <1>1, <4>3 DEF IInv, CreateRemediationVersion
        <5>. QED  BY <3>1, <5>1 DEF IInv, PortsKnown
      <4>. QED  BY <4>1, <4>2, <4>3 DEF IInv
    <3>. QED  BY <3>1 DEF PortsKnown
  <2>. QED  BY <1>1, <2>1, <2>2 DEF IInv, CreateRemediationVersion, Fill, ScriptKnows
<1>2. CASE \E i \in Instances : GenerateInstanceScripts(i)
  <2>1. PICK i \in Instances : GenerateInstanceScripts(i)
    BY <1>2
  <2>. DEFINE n == Len(versions)
              g == With(versions[n], i, NewScript(i))
  <2>2. n \in DOMAIN versions /\ versions[n] \in Folders
    BY <2>1 DEF IInv, GenerateInstanceScripts
  <2>3. g \in Folders
    BY <2>2, NewScriptTyped, WithInFolders
  <2>4. versions' = [versions EXCEPT ![n] = g]
    BY <2>1 DEF GenerateInstanceScripts
  <2>5. versions' \in Seq(Folders) /\ versions' # << >> /\ DOMAIN versions' = DOMAIN versions
    BY <2>2, <2>3, <2>4 DEF IInv
  <2>6. PortsKnown'
    <3>1. ASSUME NEW v \in DOMAIN versions', NEW j \in DOMAIN versions'[v]
          PROVE  versions'[v][j].port = PortFor(j)
      <4>1. CASE v = n
        <5>1. versions'[v] = g
          BY <2>2, <2>4, <4>1
        <5>2. CASE j = i
          BY <3>1, <5>1, <5>2, NewScriptTyped DEF With
        <5>3. CASE j # i
          <6>1. j \in DOMAIN versions[n] /\ g[j] = versions[n][j]
            BY <3>1, <5>1, <5>3 DEF With
          <6>. QED  BY <2>2, <5>1, <6>1 DEF IInv, PortsKnown
        <5>. QED  BY <5>2, <5>3
      <4>2. CASE v # n
        <5>1. versions'[v] = versions[v] /\ v \in DOMAIN versions
          BY <2>4, <2>5, <3>1, <4>2
        <5>. QED  BY <3>1, <5>1 DEF IInv, PortsKnown
      <4>. QED  BY <4>1, <4>2
    <3>. QED  BY <3>1 DEF PortsKnown
  <2>. QED  BY <2>1, <2>5, <2>6 DEF IInv, GenerateInstanceScripts, Fill, ScriptKnows
<1>. QED  BY <1>1, <1>2

LEMMA ExecuteStep ==
    ASSUME IInv, NEW i \in Instances, ExecuteScript(i)
    PROVE  IInv'
<1>. DEFINE script == Last(versions)[i]
            port == IF job.mode = "fix" THEN script.port ELSE NoPort
            checked == CheckedTarget(i, port)
            conn == ConnectTarget(i, port)
<1>1. /\ pc = "folder" /\ IsNext(i) /\ pc' = "script" /\ todo' = todo \ {i}
      /\ UNCHANGED <<value, login, found, versions>>
  BY DEF ExecuteScript, Fill
<1>2. PICK s \in Reached(conn, Targets[i].real) :
        cur' = [of |-> i, at |-> s, user |-> login[conn], safe |-> login[checked],
                left |-> IF job.mode = "fix" THEN script.main ELSE script.undo]
  BY DEF ExecuteScript
<1>3. s \in Instances
  BY <1>2 DEF Reached, OnHost
<1>4. port \in {PortFor(i), NoPort}
  <2>1. i \in DOMAIN Last(versions) /\ versions # << >>
    BY <1>1 DEF IInv, IsNext
  <2>2. Last(versions) = versions[Len(versions)] /\ Len(versions) \in DOMAIN versions
    BY <2>1 DEF IInv, Last
  <2>3. script.port = PortFor(i)
    BY <2>1, <2>2 DEF IInv, PortsKnown
  <2>. QED  BY <2>3
<1>5. DistinctEndpoints => login[conn] = login[checked]
  BY <1>4, SameTarget
<1>6. WellAddressed => s = i
  BY <1>2, <1>4 DEF WellAddressed
<1>7. cur'.of = i /\ cur'.at = s /\ cur'.user = login[conn] /\ cur'.safe = login[checked]
  BY <1>2
<1>8. ScriptKnows'
  BY <1>3, <1>5, <1>6, <1>7 DEF ScriptKnows
<1>9. PortsKnown' /\ Shape(value)'
  BY <1>1 DEF IInv, PortsKnown, Shape
<1>10. versions' # << >> /\ todo' \subseteq Instances /\ todo' \subseteq DOMAIN Last(versions')
  BY <1>1 DEF IInv
<1>. QED  BY <1>1, <1>8, <1>9, <1>10 DEF IInv

\* The steps of a running script keep its connection and its checked login.
LEMMA ScriptSteps ==
    ASSUME IInv, SkipBatch \/ RunStatement \/ BatchFails
    PROVE  IInv'
<1>1. /\ pc = "script" /\ UNCHANGED <<pc, login, found, versions, todo>>
  BY DEF SkipBatch, RunStatement, BatchFails
<1>2. \E l : cur' = [cur EXCEPT !.left = l]
  BY DEF SkipBatch, RunStatement, BatchFails
<1>3. UNCHANGED <<cur.of, cur.at, cur.user, cur.safe>>
  BY <1>2
<1>4. Shape(value')
  <2>1. CASE value' = value
    BY <2>1 DEF IInv
  <2>2. CASE RunStatement
    BY <2>2, ShapeKept DEF IInv, RunStatement
  <2>. QED  BY <2>1, <2>2 DEF SkipBatch, BatchFails
<1>5. ScriptKnows'
  BY <1>1, <1>3 DEF IInv, ScriptKnows
<1>6. PortsKnown'
  BY <1>1 DEF IInv, PortsKnown
<1>. QED  BY <1>1, <1>4, <1>5, <1>6 DEF IInv

LEMMA NextIInv == IInv /\ [Next]_vars => IInv'
<1>. SUFFICES ASSUME IInv, [Next]_vars PROVE IInv'
  OBVIOUS
<1>1. CASE Audit
  <2>1. found' \in [Instances -> SUBSET Range(Order)]
    <3>1. PICK reached \in SUBSET Instances, pending \in SUBSET Unsettled :
            found' = [i \in Instances |->
                        IF i \in reached
                        THEN { k \in Range(Order) : value[i][k] # Required[k] } \cup pending
                        ELSE {}]
      BY <1>1 DEF Audit
    <3>2. pending \subseteq Range(Order)
      BY RemediationAssumption
    <3>. QED  BY <3>1, <3>2
  <2>. QED  BY <1>1, <2>1, QuietSteps DEF Audit, IInv
<1>2. CASE CreateRemediationVersion
  BY <1>2, GenerationSteps
<1>3. CASE GenerateEnds
  BY <1>3, QuietSteps DEF GenerateEnds, IInv
<1>4. CASE \E i \in Instances : GenerateInstanceScripts(i)
  BY <1>4, GenerationSteps
<1>5. CASE StartApply
  <2>1. DOMAIN Last(versions) \subseteq Instances
    <3>1. Last(versions) \in Folders
      BY <1>5 DEF IInv, StartApply, Last
    <3>. QED  BY <3>1, FolderShape
  <2>. QED  BY <1>5, <2>1, QuietSteps DEF StartApply, IInv, Fill
<1>6. ASSUME NEW i \in Instances, ExecuteScript(i) \/ ConnectFails(i) \/ DryRunScript(i)
      PROVE  IInv'
  <2>1. CASE ExecuteScript(i)
    BY <2>1, ExecuteStep
  <2>2. CASE ConnectFails(i) \/ DryRunScript(i)
    BY <2>2, QuietSteps DEF ConnectFails, DryRunScript, IInv, Fill
  <2>. QED  BY <1>6, <2>1, <2>2
<1>7. CASE SkipBatch \/ RunStatement \/ BatchFails
  BY <1>7, ScriptSteps
<1>8. CASE ScriptEnds
  <2>1. pc = "script" /\ pc' = "folder" /\ UNCHANGED <<value, login, found, versions, todo>>
    BY <1>8 DEF ScriptEnds
  <2>2. PortsKnown' /\ ScriptKnows' /\ Shape(value')
    BY <2>1 DEF IInv, PortsKnown, ScriptKnows
  <2>. QED  BY <2>1, <2>2 DEF IInv
<1>9. CASE ExecutePs1Scripts \/ RunOsHooks
  BY <1>9, QuietSteps DEF ExecutePs1Scripts, RunOsHooks, IInv
<1>10. CASE Interrupt
  <2>1. pc' = "idle" /\ todo' = {} /\ UNCHANGED <<value, login, found, versions>>
    BY <1>10 DEF Interrupt
  <2>2. PortsKnown' /\ ScriptKnows' /\ Shape(value')
    BY <2>1 DEF IInv, PortsKnown, ScriptKnows
  <2>. QED  BY <2>1, <2>2 DEF IInv
<1>11. CASE EditTargets
  <2>1. login' \in [Instances -> Logins]
    BY <1>11 DEF EditTargets, IInv
  <2>. QED  BY <1>11, <2>1, QuietSteps DEF EditTargets, IInv
<1>12. CASE ChangeServer
  <2>1. Shape(value')
    <3>1. PICK i \in Instances, k \in Items, v \in {0, 1} : value' = [value EXCEPT ![i][k] = v]
      BY <1>12 DEF ChangeServer
    <3>. QED  BY <3>1, ShapeKept DEF IInv
  <2>. QED  BY <1>12, <2>1, QuietSteps DEF ChangeServer, IInv
<1>13. CASE UNCHANGED vars
  <2>1. PortsKnown' /\ ScriptKnows' /\ Shape(value')
    BY <1>13 DEF IInv, PortsKnown, ScriptKnows, vars
  <2>. QED  BY <1>13, <2>1 DEF IInv, vars
<1>. QED
  BY <1>1, <1>2, <1>3, <1>4, <1>5, <1>6, <1>7, <1>8, <1>9, <1>10, <1>11, <1>12,
     <1>13 DEF Next

\* The inductive invariant: the version folders hold scripts with the port that
\* the generator found, and a running script runs where, and as whom, it was
\* checked for.
THEOREM Invariance == Spec => []IInv
  BY InitIInv, NextIInv, PTL DEF Spec

----------------------------------------------------------------------------
\* What follows from it for the values of the servers.

LEMMA OnlyStatementsChange ==
    ASSUME pc = "script", [Next]_vars
    PROVE  RunStatement \/ value' = value
  BY DEF Next, vars, Audit, CreateRemediationVersion, GenerateEnds,
     GenerateInstanceScripts, StartApply, ExecuteScript, ConnectFails, DryRunScript,
     SkipBatch, BatchFails, ScriptEnds, ExecutePs1Scripts, RunOsHooks, Interrupt,
     EditTargets, ChangeServer

\* One statement changes one item of the instance it runs on.
LEMMA StatementEffect ==
    ASSUME IInv, RunStatement, NEW i \in Instances, NEW k \in Items,
           value'[i][k] # value[i][k]
    PROVE  i = cur.at /\ k = Batch[1].item /\ value'[i][k] = Batch[1].to
<1>1. value = [j \in Instances |-> [l \in Items |-> value[j][l]]]
  BY DEF IInv, Shape
<1>2. value' # value
  OBVIOUS
<1>3. value' = [value EXCEPT ![cur.at][Batch[1].item] = Batch[1].to]
  BY <1>2 DEF RunStatement
<1>. QED  BY <1>1, <1>3

\* The executor does not disable the login it is connected with, for any target
\* list without two entries of one host and port (_check_credential_safety).
THEOREM CredentialSafety == DistinctEndpoints /\ Spec => OwnLoginKept
<1>1. ASSUME DistinctEndpoints, IInv, [Next]_vars, pc = "script", cur.user = Sa,
             value[cur.at][Sa] # 0, value'[cur.at][Sa] = 0
      PROVE  FALSE
  <2>1. RunStatement
    BY <1>1, OnlyStatementsChange
  <2>2. cur.at \in Instances /\ cur.safe = Sa
    BY <1>1 DEF IInv, ScriptKnows
  <2>3. Sa \in Items
    BY RemediationAssumption DEF Items
  <2>4. Batch[1].item = Sa /\ Batch[1].to = 0
    BY <1>1, <2>1, <2>2, <2>3, StatementEffect
  <2>. QED  BY <2>1, <2>2, <2>4 DEF RunStatement, Skip, CheckCredentialSafety, AltersLogin
<1>2. DistinctEndpoints /\ IInv /\ [Next]_vars =>
        [pc = "script" /\ cur.user = Sa =>
           ~(value[cur.at][Sa] # 0 /\ value'[cur.at][Sa] = 0)]_vars
  BY <1>1
<1>3. CASE DistinctEndpoints
  BY <1>2, <1>3, Invariance, PTL DEF Spec, OwnLoginKept
<1>. QED  BY <1>3

\* A script changes the instance it was generated from and no other, for any
\* target list whose addresses lead back to their instances.
THEOREM ScriptsStayAtHome == WellAddressed /\ Spec => RightInstance
<1>1. ASSUME WellAddressed, IInv, [Next]_vars, NEW i \in Instances, pc = "script",
             value'[i] # value[i]
      PROVE  i = cur.of
  <2>1. RunStatement
    BY <1>1, OnlyStatementsChange
  <2>2. cur.at = cur.of
    BY <1>1 DEF IInv, ScriptKnows
  <2>3. value = [j \in Instances |-> [l \in Items |-> value[j][l]]]
    BY <1>1 DEF IInv, Shape
  <2>4. value' = value \/ value' = [value EXCEPT ![cur.at][Batch[1].item] = Batch[1].to]
    BY <2>1 DEF RunStatement
  <2>. QED  BY <1>1, <2>2, <2>3, <2>4
<1>2. WellAddressed /\ IInv /\ [Next]_vars =>
        [\A i \in Instances : pc = "script" /\ value'[i] # value[i] => i = cur.of]_vars
  BY <1>1
<1>3. CASE WellAddressed
  BY <1>2, <1>3, Invariance, PTL DEF Spec, RightInstance
<1>. QED  BY <1>3

----------------------------------------------------------------------------
\* Induction over the naturals, for what a set can say.
Inductive(P) == 0 \in P /\ \A n \in Nat : n \in P => n + 1 \in P

LEMMA InductiveCoversNat ==
    ASSUME NEW P, Inductive(P)
    PROVE  Nat \subseteq P
<1>. SUFFICES ASSUME ~ (Nat \subseteq P) PROVE FALSE
  OBVIOUS
<1>. DEFINE Less == { ss \in Nat \X Nat : ss[1] < ss[2] }
            Bad == Nat \ P
<1>1. IsWellFoundedOn(Less, Nat)
  BY NatLessThanWellFounded DEF OpToRel
<1>2. Bad \subseteq Nat /\ Bad # {}
  OBVIOUS
<1>3. PICK n \in Bad : \A m \in Bad : ~ (<<m, n>> \in Less)
  <2>. HIDE DEF Bad, Less
  <2>. QED BY <1>1, <1>2, WFMin
<1>4. n \in Nat /\ n # 0 /\ n - 1 \in Nat /\ <<n - 1, n>> \in Less
  BY <1>3 DEF Inductive
<1>5. n - 1 \in P
  BY <1>3, <1>4
<1>. QED BY <1>3, <1>4, <1>5 DEF Inductive

----------------------------------------------------------------------------
(* Scripts, batch by batch. *)

\* What FlattenSeq computes, step by step.
LEMMA FlattenSteps ==
    ASSUME NEW seqs, NEW len \in Nat \ {0}, Len(seqs) = len
    PROVE  \E f : /\ FlattenSeq(seqs) = f[len]
                  /\ f[1] = seqs[1]
                  /\ \A i \in 2..len : f[i] = f[i - 1] \o seqs[i]
<1>. DEFINE Upto(n, f) == f = [i \in 1..n |-> IF i = 1 THEN seqs[i] ELSE f[i - 1] \o seqs[i]]
            P == { n \in Nat : \E f : Upto(n, f) }
<1>1. 0 \in P
  <2>. DEFINE g == [i \in {} |-> {}]
  <2>1. 1..0 = {}
    OBVIOUS
  <2>2. Upto(0, g)
    BY <2>1
  <2>. QED BY <2>2
<1>2. \A n \in Nat : n \in P => n + 1 \in P
  <2>. SUFFICES ASSUME NEW n \in Nat, n \in P PROVE n + 1 \in P
    OBVIOUS
  <2>0. PICK f : Upto(n, f)
    OBVIOUS
  <2>. DEFINE g == [i \in 1..(n + 1) |->
                      IF i = n + 1 THEN IF i = 1 THEN seqs[i] ELSE f[n] \o seqs[i] ELSE f[i]]
  <2>1. \A i \in 1..n : f[i] = IF i = 1 THEN seqs[i] ELSE f[i - 1] \o seqs[i]
    BY <2>0
  <2>2. ASSUME NEW i \in 1..(n + 1)
        PROVE  g[i] = IF i = 1 THEN seqs[i] ELSE g[i - 1] \o seqs[i]
    <3>1. CASE i = n + 1
      BY <3>1
    <3>2. CASE i \in 1..n
      <4>1. g[i] = f[i] /\ (i # 1 => g[i - 1] = f[i - 1])
        BY <3>2
      <4>. QED BY <2>1, <3>2, <4>1
    <3>. QED BY <3>1, <3>2
  <2>3. g = [i \in 1..(n + 1) |-> g[i]]
    OBVIOUS
  <2>4. Upto(n + 1, g)
    <3>. HIDE DEF g
    <3>. QED BY <2>2, <2>3
  <2>5. \E h : Upto(n + 1, h)
    <3>. HIDE DEF g
    <3>. QED BY <2>4
  <2>. HIDE DEF Upto
  <2>. QED BY <2>5
<1>3. len \in P
  <2>. HIDE DEF P
  <2>1. Inductive(P)
    BY <1>1, <1>2 DEF Inductive
  <2>. QED BY <2>1, InductiveCoversNat
<1>4. PICK f : f = CHOOSE g : g = [i \in 1..len |-> IF i = 1 THEN seqs[i] ELSE g[i - 1] \o seqs[i]]
  OBVIOUS
<1>5. Upto(len, f)
  BY <1>3, <1>4
<1>6. FlattenSeq(seqs) = f[len]
  BY <1>4 DEF FlattenSeq
<1>7. \A i \in 1..len : f[i] = IF i = 1 THEN seqs[i] ELSE f[i - 1] \o seqs[i]
  BY <1>5
<1>8. 1 \in 1..len /\ \A i \in 2..len : i \in 1..len /\ i # 1
  OBVIOUS
<1>9. f[1] = seqs[1]
  BY <1>7, <1>8
<1>10. \A i \in 2..len : f[i] = f[i - 1] \o seqs[i]
  BY <1>7, <1>8
<1>. QED BY <1>6, <1>9, <1>10

\* A kind of sequences that any two together are of again, and a kind that any
\* of the others can be added to.
Closed(G) == \A a, b \in G : a \o b \in G

Absorbs(H, G) == \A h \in H : \A g \in G : h \o g \in H /\ g \o h \in H

\* What a kind of sequences keeps when two are put together, it keeps when all are;
\* what one of them brings in is in the whole.
LEMMA FlattenIn ==
    ASSUME NEW G, << >> \in G, Closed(G), NEW seqs \in Seq(G)
    PROVE  FlattenSeq(seqs) \in G
<1>. DEFINE len == Len(seqs)
<1>1. CASE len = 0
  BY <1>1 DEF FlattenSeq
<1>2. CASE len # 0
  <2>1. PICK f : /\ FlattenSeq(seqs) = f[len]
                 /\ f[1] = seqs[1]
                 /\ \A i \in 2..len : f[i] = f[i - 1] \o seqs[i]
    <3>1. len \in Nat \ {0}
      BY <1>2
    <3>. QED BY <3>1, FlattenSteps
  <2>. DEFINE P == { n \in Nat : n \in 1..len => f[n] \in G }
  <2>2. 0 \in P
    OBVIOUS
  <2>3. \A n \in Nat : n \in P => n + 1 \in P
    <3>. SUFFICES ASSUME NEW n \in Nat, n \in P, n + 1 \in 1..len PROVE f[n + 1] \in G
      OBVIOUS
    <3>1. seqs[n + 1] \in G
      OBVIOUS
    <3>2. CASE n = 0
      BY <2>1, <3>1, <3>2
    <3>3. CASE n # 0
      <4>1. n + 1 \in 2..len /\ n \in 1..len /\ (n + 1) - 1 = n
        BY <3>3
      <4>2. f[n + 1] = f[n] \o seqs[n + 1]
        BY <2>1, <4>1
      <4>. QED BY <3>1, <4>1, <4>2 DEF Closed
    <3>. QED BY <3>2, <3>3
  <2>4. len \in P
    <3>. HIDE DEF P
    <3>1. Inductive(P)
      BY <2>2, <2>3 DEF Inductive
    <3>. QED BY <3>1, InductiveCoversNat
  <2>. QED BY <1>2, <2>1, <2>4
<1>. QED BY <1>1, <1>2

LEMMA FlattenHas ==
    ASSUME NEW G, << >> \in G, Closed(G), NEW seqs \in Seq(G),
           NEW H \in SUBSET G, Absorbs(H, G),
           NEW at \in DOMAIN seqs, seqs[at] \in H
    PROVE  FlattenSeq(seqs) \in H
<1>. DEFINE len == Len(seqs)
<1>1. len \in Nat \ {0} /\ at \in 1..len /\ at \in Nat
  <2>1. seqs \in Seq(G) /\ at \in DOMAIN seqs
    OBVIOUS
  <2>2. len \in Nat /\ DOMAIN seqs = 1..len
    BY <2>1
  <2>. QED BY <2>1, <2>2
<1>7. \A i \in 1..len : seqs[i] \in G
  OBVIOUS
<1>2. PICK f : /\ FlattenSeq(seqs) = f[len]
               /\ f[1] = seqs[1]
               /\ \A i \in 2..len : f[i] = f[i - 1] \o seqs[i]
  BY <1>1, FlattenSteps
<1>. HIDE DEF len
<1>. DEFINE P == { n \in Nat : n \in 1..len => f[n] \in G /\ (at =< n => f[n] \in H) }
<1>3. 0 \in P
  OBVIOUS
<1>4. \A n \in Nat : n \in P => n + 1 \in P
  <2>. SUFFICES ASSUME NEW n \in Nat, n \in P PROVE n + 1 \in P
    OBVIOUS
  <2>0. SUFFICES ASSUME n + 1 \in 1..len
                 PROVE  f[n + 1] \in G /\ (at =< n + 1 => f[n + 1] \in H)
    OBVIOUS
  <2>1. seqs[n + 1] \in G
    BY <1>7, <2>0
  <2>2. CASE n = 0
    <3>1. f[n + 1] = seqs[n + 1] /\ (at =< n + 1 => at = n + 1)
      BY <1>1, <1>2, <2>2
    <3>. QED BY <2>1, <3>1
  <2>3. CASE n # 0
    <3>1. n + 1 \in 2..len /\ n \in 1..len /\ (n + 1) - 1 = n
      BY <1>1, <2>0, <2>3
    <3>2. f[n + 1] = f[n] \o seqs[n + 1]
      BY <1>2, <3>1
    <3>3. f[n] \in G /\ (at =< n => f[n] \in H)
      BY <3>1
    <3>4. at =< n + 1 => at =< n \/ at = n + 1
      BY <1>1
    <3>. QED BY <2>1, <3>2, <3>3, <3>4 DEF Closed, Absorbs
  <2>. QED BY <2>2, <2>3
<1>5. len \in P
  <2>. HIDE DEF P
  <2>1. Inductive(P)
    BY <1>3, <1>4 DEF Inductive
  <2>. QED BY <1>1, <2>1, InductiveCoversNat
<1>6. at =< len /\ len \in 1..len
  BY <1>1
<1>. QED BY <1>2, <1>5, <1>6

LEMMA GatherIn ==
    ASSUME NEW G, << >> \in G, Closed(G), NEW made,
           \A k \in Range(Order) : k \in DOMAIN made => made[k] \in G
    PROVE  Gather(made) \in G
<1>. DEFINE parts == [n \in DOMAIN Order |->
                        IF Order[n] \in DOMAIN made THEN made[Order[n]] ELSE << >>]
<1>1. Order \in Seq(STRING)
  BY RemediationAssumption
<1>2. \A n \in DOMAIN Order : Order[n] \in Range(Order)
  BY DEF Range
<1>3. parts \in Seq(G)
  BY <1>1, <1>2
<1>. HIDE DEF parts
<1>4. FlattenSeq(parts) \in G
  BY <1>3, FlattenIn
<1>. QED BY <1>4 DEF Gather, parts

LEMMA GatherHas ==
    ASSUME NEW G, << >> \in G, Closed(G), NEW made,
           \A k \in Range(Order) : k \in DOMAIN made => made[k] \in G,
           NEW H \in SUBSET G, Absorbs(H, G),
           NEW l \in Range(Order), l \in DOMAIN made, made[l] \in H
    PROVE  Gather(made) \in H
<1>. DEFINE parts == [n \in DOMAIN Order |->
                        IF Order[n] \in DOMAIN made THEN made[Order[n]] ELSE << >>]
<1>1. Order \in Seq(STRING)
  BY RemediationAssumption
<1>2. \A n \in DOMAIN Order : Order[n] \in Range(Order)
  BY DEF Range
<1>3. parts \in Seq(G)
  BY <1>1, <1>2
<1>4. PICK at \in DOMAIN Order : Order[at] = l
  BY DEF Range
<1>5. at \in DOMAIN parts /\ parts[at] \in H
  BY <1>4
<1>. HIDE DEF parts
<1>6. FlattenSeq(parts) \in H
  BY <1>3, <1>5, FlattenHas
<1>. QED BY <1>6 DEF Gather, parts

Batches == Seq(Seq(Statements))

LEMMA BatchesClosed == Closed(Batches) /\ << >> \in Batches
BY DEF Closed, Batches

LEMMA StatementTyped ==
    ASSUME NEW k \in Items, NEW v \in 0..2
    PROVE  Set(k, v) \in Statements /\ Set(k, v).item = k /\ Set(k, v).to = v
BY DEF Set, Statements

LEMMA KnownItems == Range(Order) \subseteq Items /\ Adv \in Items /\ Sa \in Items
BY RemediationAssumption DEF Items

\* Sequences of one, two and three batches.
LEMMA SmallScripts ==
    /\ \A a \in Statements : << <<a>> >> \in Batches
    /\ \A a, b \in Statements : << <<a>>, <<b>> >> \in Batches
    /\ \A a, b, c \in Statements : /\ << <<a>>, <<b, c>> >> \in Batches
                                   /\ << <<a>>, <<b>>, <<c>> >> \in Batches
BY DEF Batches

LEMMA PiecesTyped ==
    ASSUME NEW k \in Range(Order)
    PROVE  FixBatches(k) \in Batches /\ UndoBatches(k) \in Batches
<1>1. \A v \in 0..2 : Set(k, v) \in Statements /\ Set(Adv, v) \in Statements
                        /\ Set(Sa, v) \in Statements
  BY KnownItems, StatementTyped
<1>2. 0 \in 0..2 /\ 1 \in 0..2 /\ 2 \in 0..2
  OBVIOUS
<1>3. /\ ConfigFix(k) \in Batches /\ ConfigUndo(k) \in Batches
      /\ DatabaseFix(k) \in Batches /\ DatabaseUndo(k) \in Batches /\ SaUndo \in Batches
  BY <1>1, <1>2, SmallScripts DEF ConfigFix, ConfigUndo, DatabaseFix, DatabaseUndo, SaUndo
<1>. QED BY <1>3, BatchesClosed DEF FixBatches, UndoBatches

LEMMA ScriptsTyped ==
    ASSUME NEW S \in SUBSET Range(Order), NEW user
    PROVE  MainScript(S, user) \in Batches /\ RollbackScript(S) \in Batches
<1>1. Gather([k \in S |-> FixBatches(k)]) \in Batches
  <2>. DEFINE made == [k \in S |-> FixBatches(k)]
  <2>1. \A k \in Range(Order) : k \in DOMAIN made => made[k] \in Batches
    BY PiecesTyped
  <2>. HIDE DEF made
  <2>2. Gather(made) \in Batches
    BY <2>1, BatchesClosed, GatherIn
  <2>. QED BY <2>2 DEF made
<1>2. RollbackScript(S) \in Batches
  <2>. DEFINE made == [k \in S |-> UndoBatches(k)]
  <2>1. \A k \in Range(Order) : k \in DOMAIN made => made[k] \in Batches
    BY PiecesTyped
  <2>. HIDE DEF made
  <2>2. Gather(made) \in Batches
    BY <2>1, BatchesClosed, GatherIn
  <2>. QED BY <2>2 DEF made, RollbackScript
<1>3. PolicyBatch(S) \in Batches
  <2>. DEFINE made == [k \in S \cap Policies |-> <<Set(k, 1)>>]
  <2>1. \A k \in Range(Order) : k \in DOMAIN made => made[k] \in Seq(Statements)
    BY KnownItems, StatementTyped
  <2>2. Closed(Seq(Statements)) /\ << >> \in Seq(Statements)
    BY DEF Closed
  <2>. HIDE DEF made
  <2>3. Gather(made) \in Seq(Statements)
    BY <2>1, <2>2, GatherIn
  <2>4. << >> \in Batches /\ <<Gather(made)>> \in Batches
    BY <2>3 DEF Batches
  <2>. QED BY <2>4 DEF made, PolicyBatch
<1>4. SaFix(S, user) \in Batches
  BY KnownItems, StatementTyped, SmallScripts, BatchesClosed DEF SaFix
<1>5. MainScript(S, user) \in Batches
  BY <1>1, <1>3, <1>4, BatchesClosed DEF MainScript, Closed
<1>. QED BY <1>2, <1>5

\* The batches that are left set an item to a value, and set it to no other
\* without setting it to that value in a later batch.
Sets(left, k, r) == \E b \in DOMAIN left : \E n \in DOMAIN left[b] : left[b][n] = Set(k, r)

Heals(left, k, r) ==
    \A b \in DOMAIN left : \A n \in DOMAIN left[b] :
      left[b][n].item = k /\ left[b][n].to # r =>
        \E c \in DOMAIN left : b < c /\ \E m \in DOMAIN left[c] : left[c][m] = Set(k, r)

Healing(k, r) == { left \in Batches : Heals(left, k, r) }

Setting(k, r) == { left \in Healing(k, r) : Sets(left, k, r) }

LEMMA ConcatParts ==
    ASSUME NEW s \in Batches, NEW t \in Batches
    PROVE  /\ s \o t \in Batches
           /\ Len(s) \in Nat /\ Len(t) \in Nat
           /\ DOMAIN s = 1..Len(s) /\ DOMAIN t = 1..Len(t)
           /\ DOMAIN (s \o t) = 1..(Len(s) + Len(t))
           /\ \A b \in DOMAIN s : (s \o t)[b] = s[b]
           /\ \A b \in DOMAIN t : (s \o t)[Len(s) + b] = t[b]
BY DEF Batches

LEMMA HealingClosed ==
    ASSUME NEW k, NEW r
    PROVE  << >> \in Healing(k, r) /\ Closed(Healing(k, r))
<1>1. << >> \in Healing(k, r)
  BY BatchesClosed DEF Healing, Heals
<1>2. ASSUME NEW s \in Healing(k, r), NEW t \in Healing(k, r)
      PROVE  s \o t \in Healing(k, r)
  <2>1. s \in Batches /\ t \in Batches /\ Heals(s, k, r) /\ Heals(t, k, r)
    BY DEF Healing
  <2>. DEFINE all == s \o t
              size == Len(s)
  <2>2. /\ all \in Batches
        /\ size \in Nat /\ Len(t) \in Nat
        /\ DOMAIN s = 1..size /\ DOMAIN t = 1..Len(t)
        /\ DOMAIN all = 1..(size + Len(t))
        /\ \A b \in DOMAIN s : all[b] = s[b]
        /\ \A b \in DOMAIN t : all[size + b] = t[b]
    BY <2>1, ConcatParts
  <2>. HIDE DEF all, size
  <2>3. ASSUME NEW b \in DOMAIN all, NEW n \in DOMAIN all[b],
               all[b][n].item = k, all[b][n].to # r
        PROVE  \E c \in DOMAIN all : b < c /\ \E m \in DOMAIN all[c] : all[c][m] = Set(k, r)
    <3>1. CASE b \in DOMAIN s
      <4>1. PICK c \in DOMAIN s : b < c /\ \E m \in DOMAIN s[c] : s[c][m] = Set(k, r)
        BY <2>1, <2>2, <2>3, <3>1 DEF Heals
      <4>2. c \in DOMAIN all /\ all[c] = s[c]
        BY <2>2
      <4>. QED BY <4>1, <4>2
    <3>2. CASE b \notin DOMAIN s
      <4>1. b - size \in DOMAIN t /\ all[b] = t[b - size]
        <5>1. b - size \in DOMAIN t /\ size + (b - size) = b
          BY <2>2, <3>2
        <5>. QED BY <2>2, <5>1
      <4>2. PICK c \in DOMAIN t : b - size < c /\ \E m \in DOMAIN t[c] : t[c][m] = Set(k, r)
        BY <2>1, <2>3, <4>1 DEF Heals
      <4>3. size + c \in DOMAIN all /\ all[size + c] = t[c] /\ b < size + c
        BY <2>2, <4>2
      <4>. QED BY <4>2, <4>3
    <3>. QED BY <3>1, <3>2
  <2>. QED BY <2>2, <2>3 DEF Healing, Heals, all
<1>. QED BY <1>1, <1>2 DEF Closed

LEMMA SettingAbsorbs ==
    ASSUME NEW k, NEW r
    PROVE  Setting(k, r) \in SUBSET Healing(k, r) /\ Absorbs(Setting(k, r), Healing(k, r))
<1>1. Setting(k, r) \subseteq Healing(k, r)
  BY DEF Setting
<1>2. ASSUME NEW s \in Setting(k, r), NEW t \in Healing(k, r)
      PROVE  s \o t \in Setting(k, r) /\ t \o s \in Setting(k, r)
  <2>1. s \o t \in Healing(k, r) /\ t \o s \in Healing(k, r)
    BY <1>1, HealingClosed DEF Closed
  <2>2. s \in Batches /\ t \in Batches
    BY DEF Setting, Healing
  <2>3. PICK b \in DOMAIN s : \E n \in DOMAIN s[b] : s[b][n] = Set(k, r)
    BY DEF Setting, Sets
  <2>4. b \in DOMAIN (s \o t) /\ (s \o t)[b] = s[b]
    <3>1. /\ Len(s) \in Nat /\ Len(t) \in Nat /\ DOMAIN s = 1..Len(s)
          /\ DOMAIN (s \o t) = 1..(Len(s) + Len(t))
          /\ \A c \in DOMAIN s : (s \o t)[c] = s[c]
      BY <2>2, ConcatParts
    <3>. QED BY <3>1
  <2>5. Len(t) + b \in DOMAIN (t \o s) /\ (t \o s)[Len(t) + b] = s[b]
    <3>1. /\ Len(s) \in Nat /\ Len(t) \in Nat /\ DOMAIN s = 1..Len(s)
          /\ DOMAIN (t \o s) = 1..(Len(t) + Len(s))
          /\ \A c \in DOMAIN s : (t \o s)[Len(t) + c] = s[c]
      BY <2>2, ConcatParts
    <3>. QED BY <3>1
  <2>6. Sets(s \o t, k, r) /\ Sets(t \o s, k, r)
    BY <2>3, <2>4, <2>5 DEF Sets
  <2>. QED BY <2>1, <2>6 DEF Setting
<1>. QED BY <1>1, <1>2 DEF Absorbs

Harmless(a, k, r) == a \in Statements /\ (a.item = k => a.to = r)

LEMMA SmallHealing ==
    ASSUME NEW k, NEW r
    PROVE  /\ \A a : Harmless(a, k, r) => << <<a>> >> \in Healing(k, r)
           /\ \A a, b : Harmless(a, k, r) /\ Harmless(b, k, r) => << <<a>>, <<b>> >> \in Healing(k, r)
           /\ \A a, b, c : Harmless(a, k, r) /\ Harmless(b, k, r) /\ Harmless(c, k, r) =>
                /\ << <<a>>, <<b, c>> >> \in Healing(k, r)
                /\ << <<a>>, <<b>>, <<c>> >> \in Healing(k, r)
           /\ \A a, b, c \in Statements : Harmless(b, k, r) /\ c = Set(k, r) =>
                << <<a>>, <<b, c>> >> \in Healing(k, r)
<1>1. ASSUME NEW a, Harmless(a, k, r) PROVE << <<a>> >> \in Healing(k, r)
  <2>1. << <<a>> >> \in Batches
    BY <1>1, SmallScripts DEF Harmless
  <2>. QED BY <1>1, <2>1 DEF Healing, Heals, Harmless
<1>2. ASSUME NEW a, NEW b, Harmless(a, k, r), Harmless(b, k, r)
      PROVE  << <<a>>, <<b>> >> \in Healing(k, r)
  <2>1. << <<a>>, <<b>> >> \in Batches
    BY <1>2, SmallScripts DEF Harmless
  <2>. QED BY <1>2, <2>1 DEF Healing, Heals, Harmless
<1>3. ASSUME NEW a, NEW b, NEW c, Harmless(a, k, r), Harmless(b, k, r), Harmless(c, k, r)
      PROVE  /\ << <<a>>, <<b, c>> >> \in Healing(k, r)
             /\ << <<a>>, <<b>>, <<c>> >> \in Healing(k, r)
  <2>1. << <<a>>, <<b, c>> >> \in Batches /\ << <<a>>, <<b>>, <<c>> >> \in Batches
    BY <1>3, SmallScripts DEF Harmless
  <2>2. Heals(<< <<a>>, <<b, c>> >>, k, r)
    BY <1>3 DEF Heals, Harmless
  <2>3. Heals(<< <<a>>, <<b>>, <<c>> >>, k, r)
    BY <1>3 DEF Heals, Harmless
  <2>. QED BY <2>1, <2>2, <2>3 DEF Healing
<1>4. ASSUME NEW a \in Statements, NEW b \in Statements, NEW c \in Statements,
             Harmless(b, k, r), c = Set(k, r)
      PROVE  << <<a>>, <<b, c>> >> \in Healing(k, r)
  <2>. DEFINE s == << <<a>>, <<b, c>> >>
  <2>1. s \in Batches
    BY SmallScripts
  <2>2. Harmless(c, k, r)
    BY <1>4 DEF Harmless, Set
  <2>3. DOMAIN s = {1, 2} /\ s[1] = <<a>> /\ s[2] = <<b, c>>
    OBVIOUS
  <2>4. s[2][2] = Set(k, r) /\ 2 \in DOMAIN s[2]
    BY <1>4, <2>3
  <2>5. \A n \in DOMAIN s[2] : Harmless(s[2][n], k, r)
    BY <1>4, <2>2, <2>3
  <2>. HIDE DEF s
  <2>6. Heals(s, k, r)
    BY <2>3, <2>4, <2>5 DEF Heals, Harmless
  <2>. QED BY <2>1, <2>6 DEF Healing, s
<1>. QED BY <1>1, <1>2, <1>3, <1>4

----------------------------------------------------------------------------
(* What a script is for. *)

\* What the handlers take for granted of the findings they claim: a setting is
\* compliant when it is 0, a login's policy when it is 1, and sa and the advanced
\* options have handlers of their own.
CodeRequires ==
    /\ KindOf[Sa] = "sa"
    /\ Adv \in Range(Order) => KindOf[Adv] = "config"
    /\ \A k \in Range(Order) :
         /\ KindOf[k] \in {"config", "toggle", "orphan"} => Required[k] = 0
         /\ KindOf[k] = "policy" => Required[k] = 1

Settable(S) == { k \in S : KindOf[k] \in {"config", "toggle", "orphan", "policy"} }

Restorable(S) == { k \in S \ {Adv} : KindOf[k] \in {"config", "toggle"} }

LEMMA SetHarmless ==
    ASSUME NEW l \in Items, NEW v \in 0..2, NEW k, NEW r, l # k \/ v = r
    PROVE  Harmless(Set(l, v), k, r)
BY DEF Harmless, Set, Statements

\* The fix of one finding undoes none of another.
LEMMA FixHeals ==
    ASSUME CodeRequires, NEW k \in Range(Order), k \in Settable(Range(Order)),
           NEW r, r = Required[k], NEW l \in Range(Order)
    PROVE  FixBatches(l) \in Healing(k, r)
<1>1. k \in Items /\ l \in Items /\ Adv \in Items /\ 0 \in 0..2 /\ 1 \in 0..2
  BY KnownItems
<1>2. << >> \in Healing(k, r)
  BY HealingClosed
<1>3. CASE KindOf[l] = "config"
  <2>1. FixBatches(l) = ConfigFix(l)
    BY <1>3 DEF FixBatches
  <2>2. l # k \/ r = 0
    BY <1>3 DEF CodeRequires
  <2>3. Harmless(Set(l, 0), k, r)
    BY <1>1, <2>2, SetHarmless
  <2>4. CASE l = Adv
    <3>1. ConfigFix(l) = << <<Set(l, 0)>> >>
      BY <2>4 DEF ConfigFix
    <3>. QED BY <2>1, <2>3, <3>1, SmallHealing
  <2>5. CASE l # Adv
    <3>1. ConfigFix(l) = << <<Set(Adv, 1)>>, <<Set(l, 0), Set(Adv, 0)>> >>
      BY <2>5 DEF ConfigFix
    <3>2. CASE k = Adv
      <4>1. r = 0
        BY <3>2 DEF CodeRequires
      <4>2. Set(Adv, 0) = Set(k, r)
        BY <3>2, <4>1
      <4>3. Set(Adv, 1) \in Statements /\ Set(l, 0) \in Statements /\ Set(Adv, 0) \in Statements
        BY <1>1, StatementTyped
      <4>. QED BY <2>1, <2>3, <3>1, <4>2, <4>3, SmallHealing
    <3>3. CASE k # Adv
      <4>1. Harmless(Set(Adv, 1), k, r) /\ Harmless(Set(Adv, 0), k, r)
        BY <1>1, <3>3, SetHarmless
      <4>. QED BY <2>1, <2>3, <3>1, <4>1, SmallHealing
    <3>. QED BY <3>2, <3>3
  <2>. QED BY <2>4, <2>5
<1>4. CASE KindOf[l] \in {"toggle", "orphan"}
  <2>1. FixBatches(l) = << <<Set(l, 0)>> >>
    BY <1>4 DEF FixBatches, DatabaseFix
  <2>2. l # k \/ r = 0
    BY <1>4 DEF CodeRequires
  <2>3. Harmless(Set(l, 0), k, r)
    BY <1>1, <2>2, SetHarmless
  <2>. QED BY <2>1, <2>3, SmallHealing
<1>5. CASE KindOf[l] \notin {"config", "toggle", "orphan"}
  <2>1. FixBatches(l) = << >>
    BY <1>5 DEF FixBatches
  <2>. QED BY <1>2, <2>1
<1>. QED BY <1>3, <1>4, <1>5

\* And it sets its own.
LEMMA FixSets ==
    ASSUME CodeRequires, NEW k \in Range(Order), KindOf[k] \in {"config", "toggle", "orphan"}
    PROVE  FixBatches(k) \in Setting(k, Required[k])
<1>1. Required[k] = 0
  BY DEF CodeRequires
<1>2. Sets(FixBatches(k), k, 0)
  <2>1. CASE KindOf[k] = "config" /\ k # Adv
    <3>1. FixBatches(k) = << <<Set(Adv, 1)>>, <<Set(k, 0), Set(Adv, 0)>> >>
      BY <2>1 DEF FixBatches, ConfigFix
    <3>. DEFINE s == FixBatches(k)
    <3>2. 2 \in DOMAIN s /\ 1 \in DOMAIN s[2] /\ s[2][1] = Set(k, 0)
      BY <3>1
    <3>. QED BY <3>2 DEF Sets
  <2>2. CASE KindOf[k] # "config" \/ k = Adv
    <3>1. FixBatches(k) = << <<Set(k, 0)>> >>
      BY <2>2 DEF FixBatches, ConfigFix, DatabaseFix, CodeRequires
    <3>2. /\ 1 \in DOMAIN FixBatches(k) /\ 1 \in DOMAIN FixBatches(k)[1]
          /\ FixBatches(k)[1][1] = Set(k, 0)
      BY <3>1
    <3>. QED BY <3>2 DEF Sets
  <2>. QED BY <2>1, <2>2
<1>3. FixBatches(k) \in Healing(k, 0)
  <2>1. k \in Settable(Range(Order))
    BY DEF Settable
  <2>. QED BY <1>1, <2>1, FixHeals
<1>. QED BY <1>1, <1>2, <1>3 DEF Setting

\* The same of the rollback, except for the advanced options.
LEMMA UndoHeals ==
    ASSUME CodeRequires, NEW k \in Restorable(Range(Order)), NEW l \in Range(Order)
    PROVE  UndoBatches(l) \in Healing(k, 1)
<1>1. /\ k \in Items /\ l \in Items /\ Adv \in Items /\ Sa \in Items
      /\ 0 \in 0..2 /\ 1 \in 0..2 /\ 2 \in 0..2
  BY KnownItems DEF Restorable
<1>2. << >> \in Healing(k, 1)
  BY HealingClosed
<1>3. /\ Harmless(Set(l, 1), k, 1) /\ Harmless(Set(Sa, 1), k, 1)
      /\ Harmless(Set(Adv, 1), k, 1) /\ Harmless(Set(Adv, 0), k, 1)
  BY <1>1, SetHarmless DEF Restorable
<1>4. CASE KindOf[l] = "config"
  <2>1. CASE l = Adv
    <3>1. UndoBatches(l) = << <<Set(l, 1)>> >>
      BY <1>4, <2>1 DEF UndoBatches, ConfigUndo
    <3>. QED BY <1>3, <3>1, SmallHealing
  <2>2. CASE l # Adv
    <3>1. UndoBatches(l) = << <<Set(Adv, 1)>>, <<Set(l, 1)>>, <<Set(Adv, 0)>> >>
      BY <1>4, <2>2 DEF UndoBatches, ConfigUndo
    <3>. QED BY <1>3, <3>1, SmallHealing
  <2>. QED BY <2>1, <2>2
<1>5. CASE KindOf[l] = "toggle"
  <2>1. UndoBatches(l) = << <<Set(l, 1)>> >>
    BY <1>5 DEF UndoBatches, DatabaseUndo
  <2>. QED BY <1>3, <2>1, SmallHealing
<1>6. CASE KindOf[l] = "orphan"
  <2>1. UndoBatches(l) = << <<Set(l, 2)>> >>
    BY <1>6 DEF UndoBatches, DatabaseUndo
  <2>2. l # k
    BY <1>6 DEF Restorable
  <2>3. Harmless(Set(l, 2), k, 1)
    BY <1>1, <2>2, SetHarmless
  <2>. QED BY <2>1, <2>3, SmallHealing
<1>7. CASE KindOf[l] = "sa"
  <2>1. UndoBatches(l) = << <<Set(Sa, 1)>>, <<Set(Sa, 1)>> >>
    BY <1>7 DEF UndoBatches, SaUndo
  <2>. QED BY <1>3, <2>1, SmallHealing
<1>8. CASE KindOf[l] \notin {"config", "toggle", "orphan", "sa"}
  <2>1. UndoBatches(l) = << >>
    BY <1>8 DEF UndoBatches
  <2>. QED BY <1>2, <2>1
<1>. QED BY <1>4, <1>5, <1>6, <1>7, <1>8

LEMMA UndoSets ==
    ASSUME CodeRequires, NEW k \in Restorable(Range(Order))
    PROVE  UndoBatches(k) \in Setting(k, 1)
<1>1. k \in Range(Order) /\ k # Adv /\ KindOf[k] \in {"config", "toggle"}
  BY DEF Restorable
<1>2. Sets(UndoBatches(k), k, 1)
  <2>1. CASE KindOf[k] = "config"
    <3>1. UndoBatches(k) = << <<Set(Adv, 1)>>, <<Set(k, 1)>>, <<Set(Adv, 0)>> >>
      BY <1>1, <2>1 DEF UndoBatches, ConfigUndo
    <3>2. /\ 2 \in DOMAIN UndoBatches(k) /\ 1 \in DOMAIN UndoBatches(k)[2]
          /\ UndoBatches(k)[2][1] = Set(k, 1)
      BY <3>1
    <3>. QED BY <3>2 DEF Sets
  <2>2. CASE KindOf[k] = "toggle"
    <3>1. UndoBatches(k) = << <<Set(k, 1)>> >>
      BY <2>2 DEF UndoBatches, DatabaseUndo
    <3>2. /\ 1 \in DOMAIN UndoBatches(k) /\ 1 \in DOMAIN UndoBatches(k)[1]
          /\ UndoBatches(k)[1][1] = Set(k, 1)
      BY <3>1
    <3>. QED BY <3>2 DEF Sets
  <2>. QED BY <1>1, <2>1, <2>2
<1>3. UndoBatches(k) \in Healing(k, 1)
  BY <1>1, UndoHeals
<1>. QED BY <1>2, <1>3 DEF Setting

\* A batch of statements that each leave an item alone or set it right.
Mild(k, r) == { s \in Seq(Statements) : \A n \in DOMAIN s : Harmless(s[n], k, r) }

MildOnes(k, r) == { s \in Mild(k, r) : \E n \in DOMAIN s : s[n] = Set(k, r) }

LEMMA MildClosed ==
    ASSUME NEW k, NEW r
    PROVE  /\ << >> \in Mild(k, r)
           /\ Closed(Mild(k, r))
           /\ MildOnes(k, r) \in SUBSET Mild(k, r)
           /\ Absorbs(MildOnes(k, r), Mild(k, r))
<1>1. << >> \in Mild(k, r)
  BY DEF Mild
<1>2. ASSUME NEW s \in Seq(Statements), NEW t \in Seq(Statements)
      PROVE  /\ s \o t \in Seq(Statements)
             /\ \A n \in DOMAIN (s \o t) : \/ n \in DOMAIN s /\ (s \o t)[n] = s[n]
                                           \/ n - Len(s) \in DOMAIN t
                                              /\ (s \o t)[n] = t[n - Len(s)]
             /\ \A n \in DOMAIN s : n \in DOMAIN (s \o t) /\ (s \o t)[n] = s[n]
             /\ \A n \in DOMAIN t : /\ Len(s) + n \in DOMAIN (s \o t)
                                    /\ (s \o t)[Len(s) + n] = t[n]
  OBVIOUS
<1>3. Closed(Mild(k, r))
  <2>1. ASSUME NEW s \in Mild(k, r), NEW t \in Mild(k, r) PROVE s \o t \in Mild(k, r)
    <3>1. s \in Seq(Statements) /\ t \in Seq(Statements)
      BY DEF Mild
    <3>2. \A n \in DOMAIN (s \o t) : Harmless((s \o t)[n], k, r)
      <4>. SUFFICES ASSUME NEW n \in DOMAIN (s \o t) PROVE Harmless((s \o t)[n], k, r)
        OBVIOUS
      <4>1. \/ n \in DOMAIN s /\ (s \o t)[n] = s[n]
            \/ n - Len(s) \in DOMAIN t /\ (s \o t)[n] = t[n - Len(s)]
        BY <1>2, <3>1
      <4>. QED BY <4>1 DEF Mild
    <3>. QED BY <1>2, <3>1, <3>2 DEF Mild
  <2>. QED BY <2>1 DEF Closed
<1>4. Absorbs(MildOnes(k, r), Mild(k, r))
  <2>1. ASSUME NEW s \in MildOnes(k, r), NEW t \in Mild(k, r)
        PROVE  s \o t \in MildOnes(k, r) /\ t \o s \in MildOnes(k, r)
    <3>1. s \in Seq(Statements) /\ t \in Seq(Statements) /\ s \in Mild(k, r)
      BY DEF Mild, MildOnes
    <3>2. PICK n \in DOMAIN s : s[n] = Set(k, r)
      BY DEF MildOnes
    <3>3. n \in DOMAIN (s \o t) /\ (s \o t)[n] = Set(k, r)
      BY <1>2, <3>1, <3>2
    <3>4. Len(t) + n \in DOMAIN (t \o s) /\ (t \o s)[Len(t) + n] = Set(k, r)
      BY <1>2, <3>1, <3>2
    <3>5. s \o t \in Mild(k, r) /\ t \o s \in Mild(k, r)
      BY <1>3, <3>1 DEF Closed
    <3>. QED BY <3>3, <3>4, <3>5 DEF MildOnes
  <2>. QED BY <2>1 DEF Absorbs
<1>. QED BY <1>1, <1>3, <1>4 DEF MildOnes

LEMMA OneBatchHeals ==
    ASSUME NEW k, NEW r, NEW s \in Mild(k, r)
    PROVE  /\ <<s>> \in Healing(k, r)
           /\ s \in MildOnes(k, r) => <<s>> \in Setting(k, r)
<1>1. s \in Seq(Statements) /\ <<s>> \in Batches
  BY DEF Mild, Batches
<1>2. Heals(<<s>>, k, r)
  BY DEF Heals, Mild, Harmless
<1>3. s \in MildOnes(k, r) => Sets(<<s>>, k, r)
  <2>. SUFFICES ASSUME s \in MildOnes(k, r) PROVE Sets(<<s>>, k, r)
    OBVIOUS
  <2>1. 1 \in DOMAIN <<s>> /\ <<s>>[1] = s
    OBVIOUS
  <2>2. \E n \in DOMAIN s : s[n] = Set(k, r)
    BY DEF MildOnes
  <2>. QED BY <2>1, <2>2 DEF Sets
<1>. QED BY <1>1, <1>2, <1>3 DEF Healing, Setting

LEMMA PolicyHeals ==
    ASSUME CodeRequires, NEW S \in SUBSET Range(Order), NEW k \in Settable(S),
           NEW r, r = Required[k]
    PROVE  /\ PolicyBatch(S) \in Healing(k, r)
           /\ KindOf[k] = "policy" => PolicyBatch(S) \in Setting(k, r)
<1>. DEFINE made == [l \in S \cap Policies |-> <<Set(l, 1)>>]
            batch == Gather(made)
<1>1. /\ << >> \in Mild(k, r) /\ Closed(Mild(k, r))
      /\ MildOnes(k, r) \in SUBSET Mild(k, r) /\ Absorbs(MildOnes(k, r), Mild(k, r))
  BY MildClosed
<1>2. ASSUME NEW l \in Range(Order), l \in DOMAIN made PROVE made[l] \in Mild(k, r)
  <2>1. made[l] = <<Set(l, 1)>> /\ KindOf[l] = "policy"
    BY <1>2 DEF Policies
  <2>2. l # k \/ 1 = r
    BY <2>1 DEF CodeRequires
  <2>3. Harmless(Set(l, 1), k, r)
    BY <2>2, KnownItems, SetHarmless
  <2>4. Set(l, 1) \in Statements
    BY <2>3 DEF Harmless
  <2>5. <<Set(l, 1)>> \in Mild(k, r)
    BY <2>3, <2>4 DEF Mild
  <2>. QED BY <2>1, <2>5
<1>3. ASSUME KindOf[k] = "policy" PROVE k \in DOMAIN made /\ made[k] \in MildOnes(k, r)
  <2>1. k \in S /\ k \in Range(Order)
    BY DEF Settable
  <2>2. k \in DOMAIN made /\ made[k] = <<Set(k, 1)>>
    BY <1>3, <2>1 DEF Policies
  <2>3. r = 1
    BY <1>3, <2>1 DEF CodeRequires
  <2>4. made[k] \in Mild(k, r)
    BY <1>2, <2>1, <2>2
  <2>. QED BY <2>2, <2>3, <2>4 DEF MildOnes
<1>. HIDE DEF made
<1>4. batch \in Mild(k, r)
  BY <1>1, <1>2, GatherIn
<1>5. KindOf[k] = "policy" => batch \in MildOnes(k, r)
  <2>1. k \in Range(Order)
    BY DEF Settable
  <2>. QED BY <1>1, <1>2, <1>3, <2>1, GatherHas
<1>. HIDE DEF batch
<1>6. PolicyBatch(S) = IF batch = << >> THEN << >> ELSE <<batch>>
  BY DEF PolicyBatch, batch, made
<1>7. << >> \in Healing(k, r) /\ << >> \notin MildOnes(k, r)
  BY HealingClosed DEF MildOnes
<1>. QED BY <1>4, <1>5, <1>6, <1>7, OneBatchHeals

\* The scripts do what they are for, if they run from end to end.
LEMMA MainSets ==
    ASSUME CodeRequires, NEW S \in SUBSET Range(Order), NEW k \in Settable(S), NEW user
    PROVE  MainScript(S, user) \in Setting(k, Required[k])
<1>. DEFINE r == Required[k]
            made == [l \in S |-> FixBatches(l)]
<1>1. k \in S /\ k \in Range(Order) /\ k \in Settable(Range(Order))
  BY DEF Settable
<1>2. /\ << >> \in Healing(k, r) /\ Closed(Healing(k, r))
      /\ Setting(k, r) \in SUBSET Healing(k, r) /\ Absorbs(Setting(k, r), Healing(k, r))
  BY HealingClosed, SettingAbsorbs
<1>3. \A l \in Range(Order) : l \in DOMAIN made => made[l] \in Healing(k, r)
  BY <1>1, FixHeals
<1>4. KindOf[k] # "policy" => k \in DOMAIN made /\ made[k] \in Setting(k, r)
  <2>. SUFFICES ASSUME KindOf[k] # "policy" PROVE k \in DOMAIN made /\ made[k] \in Setting(k, r)
    OBVIOUS
  <2>1. KindOf[k] \in {"config", "toggle", "orphan"}
    BY DEF Settable
  <2>2. FixBatches(k) \in Setting(k, r)
    BY <1>1, <2>1, FixSets
  <2>. QED BY <1>1, <2>2
<1>5. SaFix(S, user) \in Healing(k, r)
  <2>1. k # Sa
    BY DEF CodeRequires, Settable
  <2>2. Harmless(Set(Sa, 0), k, r)
    BY <2>1, KnownItems, SetHarmless
  <2>3. << <<Set(Sa, 0)>>, <<Set(Sa, 0)>> >> \in Healing(k, r)
    BY <2>2, SmallHealing
  <2>. QED BY <1>2, <2>3 DEF SaFix
<1>. HIDE DEF made, r
<1>6. Gather(made) \in Healing(k, r)
  BY <1>2, <1>3, GatherIn
<1>7. KindOf[k] # "policy" => Gather(made) \in Setting(k, r)
  BY <1>1, <1>2, <1>3, <1>4, GatherHas
<1>8. /\ PolicyBatch(S) \in Healing(k, r)
      /\ KindOf[k] = "policy" => PolicyBatch(S) \in Setting(k, r)
  BY PolicyHeals DEF r
<1>9. Gather(made) \o PolicyBatch(S) \in Setting(k, r)
  BY <1>2, <1>6, <1>7, <1>8 DEF Absorbs
<1>10. (Gather(made) \o PolicyBatch(S)) \o SaFix(S, user) \in Setting(k, r)
  BY <1>2, <1>5, <1>9 DEF Absorbs
<1>11. MainScript(S, user) = (Gather(made) \o PolicyBatch(S)) \o SaFix(S, user)
  BY DEF MainScript, made
<1>. QED BY <1>10, <1>11 DEF r

LEMMA RollbackSets ==
    ASSUME CodeRequires, NEW S \in SUBSET Range(Order), NEW k \in Restorable(S)
    PROVE  RollbackScript(S) \in Setting(k, 1)
<1>. DEFINE made == [l \in S |-> UndoBatches(l)]
<1>1. k \in S /\ k \in Range(Order) /\ k \in Restorable(Range(Order))
  BY DEF Restorable
<1>2. /\ << >> \in Healing(k, 1) /\ Closed(Healing(k, 1))
      /\ Setting(k, 1) \in SUBSET Healing(k, 1) /\ Absorbs(Setting(k, 1), Healing(k, 1))
  BY HealingClosed, SettingAbsorbs
<1>3. \A l \in Range(Order) : l \in DOMAIN made => made[l] \in Healing(k, 1)
  BY <1>1, UndoHeals
<1>4. k \in DOMAIN made /\ made[k] \in Setting(k, 1)
  BY <1>1, UndoSets
<1>. HIDE DEF made
<1>5. Gather(made) \in Setting(k, 1)
  BY <1>1, <1>2, <1>3, <1>4, GatherHas
<1>. QED BY <1>5 DEF RollbackScript, made

----------------------------------------------------------------------------
(* Types. *)

Connections == [of : Instances, at : Instances, user : Logins, safe : Logins, left : Batches]

\* Results are those of the newest version's scripts, and only while its folder
\* is being executed; a connection is there only while a script is running.
StateInv ==
    /\ value \in [Instances -> [Items -> 0..2]]
    /\ os \subseteq Instances
    /\ Len(versions) =< MaxVersions
    /\ pc \in {"idle", "generate", "folder", "script", "hooks"}
    /\ job \in [mode : {"fix", "undo"}, dry : BOOLEAN]
    /\ edits \in 0..MaxEdits
    /\ pc \in {"folder", "script", "hooks"} =>
         versions # << >> /\ DOMAIN result \subseteq DOMAIN Last(versions)
    /\ pc \in {"idle", "generate"} => result = << >>
    /\ \A i \in DOMAIN result : result[i] \in Ended
    /\ pc = "script" => cur \in Connections /\ cur.of \in DOMAIN result
    /\ pc # "script" => cur = << >>

LEMMA ScriptFacts ==
    ASSUME NEW s \in AllScripts
    PROVE  /\ s.port \in Ports /\ s.finds \in SUBSET Range(Order)
           /\ s.main \in Batches /\ s.undo \in Batches
           /\ s \in Scripts
<1>1. PICK p \in Ports, S \in SUBSET Range(Order), u \in Users :
        s = [port |-> p, main |-> MainScript(S, u), undo |-> RollbackScript(S), finds |-> S]
  BY DEF AllScripts
<1>2. MainScript(S, u) \in Batches /\ RollbackScript(S) \in Batches
  BY ScriptsTyped
<1>. QED BY <1>1, <1>2 DEF Scripts, Batches

\* The script that a command has at hand.
LEMMA NewestFolder ==
    ASSUME IInv, versions # << >>
    PROVE  /\ Last(versions) \in Folders
           /\ DOMAIN Last(versions) \subseteq Instances
           /\ \A i \in DOMAIN Last(versions) : Last(versions)[i] \in AllScripts
<1>1. Last(versions) \in Folders
  BY DEF IInv, Last
<1>. QED BY <1>1, FolderShape

LEMMA ValueKept ==
    ASSUME NEW f \in [Instances -> [Items -> 0..2]], NEW i, NEW k, NEW v \in 0..2
    PROVE  [f EXCEPT ![i][k] = v] \in [Instances -> [Items -> 0..2]]
OBVIOUS

\* The step that runs one statement leaves the rest of the batches.
Rest(left) == IF Len(Head(left)) = 1 THEN Tail(left) ELSE <<Tail(Head(left))>> \o Tail(left)

LEMMA RestTyped ==
    ASSUME NEW left \in Batches, left # << >>, 1 \in DOMAIN Head(left)
    PROVE  /\ Rest(left) \in Batches
           /\ Tail(left) \in Batches
           /\ Head(left)[1] \in Statements
<1>1. left \in Seq(Seq(Statements)) /\ Head(left) \in Seq(Statements) /\ Tail(left) \in Seq(Seq(Statements))
  BY DEF Batches
<1>2. Head(left) # << >> /\ Head(left)[1] \in Statements
  BY <1>1
<1>3. Tail(Head(left)) \in Seq(Statements)
  BY <1>1, <1>2
<1>4. <<Tail(Head(left))>> \o Tail(left) \in Seq(Seq(Statements))
  BY <1>1, <1>3
<1>. QED BY <1>1, <1>2, <1>4 DEF Rest, Batches

LEMMA ConnectionAt ==
    ASSUME NEW c \in Connections, NEW l \in Batches
    PROVE  /\ [c EXCEPT !.left = l] \in Connections
           /\ [c EXCEPT !.left = l].of = c.of
           /\ [c EXCEPT !.left = l].at = c.at
           /\ [c EXCEPT !.left = l].user = c.user
           /\ [c EXCEPT !.left = l].left = l
BY DEF Connections

LEMMA InitState == Init => StateInv
<1>. SUFFICES ASSUME Init PROVE StateInv
  OBVIOUS
<1>1. value \in [Instances -> [Items -> 0..2]]
  <2>1. {0, 1} \subseteq 0..2
    OBVIOUS
  <2>2. value \in [Instances -> [Items -> {0, 1}]]
    BY DEF Init
  <2>. QED BY <2>1, <2>2
<1>2. MaxVersions \in Nat /\ MaxEdits \in Nat
  BY RemediationAssumption
<1>. QED BY <1>1, <1>2 DEF Init, StateInv

\* The steps of a folder: a result, or the beginning of a script.
LEMMA FolderSteps ==
    ASSUME IInv, StateInv, NEW i \in Instances, ExecuteScript(i) \/ ConnectFails(i) \/ DryRunScript(i)
    PROVE  StateInv'
<1>1. /\ pc = "folder" /\ i \in todo
      /\ UNCHANGED <<value, os, versions, job, edits>>
      /\ pc' \in {"folder", "script"}
      /\ \E v \in Ended : result' = With(result, i, v)
  BY DEF ExecuteScript, ConnectFails, DryRunScript, IsNext, Fill, Ended
<1>2. i \in DOMAIN Last(versions) /\ versions # << >>
  BY <1>1 DEF IInv
<1>3. PICK v \in Ended : result' = With(result, i, v)
  BY <1>1
<1>4. DOMAIN result' = DOMAIN result \cup {i} /\ result'[i] = v
      /\ \A j \in DOMAIN result : j # i => result'[j] = result[j]
  <2>1. /\ DOMAIN With(result, i, v) = DOMAIN result \cup {i}
        /\ With(result, i, v)[i] = v
        /\ \A j \in DOMAIN result : j # i => With(result, i, v)[j] = result[j]
    BY DEF With
  <2>. QED BY <1>3, <2>1
<1>5. DOMAIN result' \subseteq DOMAIN Last(versions) /\ \A j \in DOMAIN result' : result'[j] \in Ended
  BY <1>1, <1>2, <1>4 DEF StateInv
<1>6. pc' = "script" => cur' \in Connections /\ cur'.of \in DOMAIN result'
  <2>. SUFFICES ASSUME pc' = "script" PROVE cur' \in Connections /\ cur'.of \in DOMAIN result'
    OBVIOUS
  <2>1. ExecuteScript(i)
    BY <1>1 DEF ExecuteScript, ConnectFails, DryRunScript, Fill
  <2>. DEFINE script == Last(versions)[i]
              port == IF job.mode = "fix" THEN script.port ELSE NoPort
              checked == CheckedTarget(i, port)
              conn == ConnectTarget(i, port)
  <2>2. PICK s \in Reached(conn, Targets[i].real) :
          cur' = [of |-> i, at |-> s, user |-> login[conn], safe |-> login[checked],
                  left |-> IF job.mode = "fix" THEN script.main ELSE script.undo]
    BY <2>1 DEF ExecuteScript
  <2>3. conn \in Instances /\ checked \in Instances
    BY FindInHost DEF ConnectTarget, CheckedTarget, OnHost
  <2>4. s \in Instances
    BY <2>2 DEF Reached, OnHost
  <2>5. script \in AllScripts
    BY <1>2, NewestFolder
  <2>6. script.main \in Batches /\ script.undo \in Batches
    BY <2>5, ScriptFacts
  <2>7. login[conn] \in Logins /\ login[checked] \in Logins
    BY <2>3 DEF IInv
  <2>. QED BY <1>4, <2>2, <2>4, <2>6, <2>7 DEF Connections
<1>7. pc' # "script" => cur' = << >>
  <2>1. pc' # "script" => ~ ExecuteScript(i)
    BY DEF ExecuteScript, Fill
  <2>. QED BY <1>1, <2>1 DEF ConnectFails, DryRunScript, StateInv
<1>. QED BY <1>1, <1>2, <1>5, <1>6, <1>7 DEF StateInv

\* The steps of a running script.
LEMMA ScriptStates ==
    ASSUME IInv, StateInv, SkipBatch \/ RunStatement \/ BatchFails
    PROVE  StateInv'
<1>1. /\ pc = "script" /\ cur \in Connections /\ cur.of \in DOMAIN result /\ versions # << >>
      /\ DOMAIN result \subseteq DOMAIN Last(versions)
      /\ cur.left # << >>
      /\ UNCHANGED <<os, versions, pc, job, edits>>
  BY DEF StateInv, SkipBatch, RunStatement, BatchFails
<1>2. cur.left \in Batches
  BY <1>1 DEF Connections
<1>3. DOMAIN result' = DOMAIN result /\ \A j \in DOMAIN result' : result'[j] \in Ended
  <2>1. CASE RunStatement
    BY <2>1 DEF RunStatement, StateInv
  <2>2. CASE SkipBatch \/ BatchFails
    <3>1. \E v \in Ended : result' = [result EXCEPT ![cur.of] = v]
      <4>1. result[cur.of] \in Ended
        BY <1>1 DEF StateInv
      <4>. QED BY <2>2, <4>1 DEF SkipBatch, BatchFails, Ended
    <3>. QED BY <3>1 DEF StateInv
  <2>. QED BY <2>1, <2>2
<1>4. cur' \in Connections /\ cur'.of = cur.of
  <2>1. CASE RunStatement
    <3>1. cur' = [cur EXCEPT !.left = Rest(cur.left)] /\ 1 \in DOMAIN Head(cur.left)
      BY <2>1 DEF RunStatement, Rest, Batch
    <3>2. Rest(cur.left) \in Batches
      BY <1>1, <1>2, <3>1, RestTyped
    <3>. QED BY <1>1, <3>1, <3>2, ConnectionAt
  <2>2. CASE SkipBatch \/ BatchFails
    <3>1. cur' = [cur EXCEPT !.left = Tail(cur.left)]
      BY <2>2 DEF SkipBatch, BatchFails
    <3>2. Tail(cur.left) \in Batches
      BY <1>1, <1>2 DEF Batches
    <3>. QED BY <1>1, <3>1, <3>2, ConnectionAt
  <2>. QED BY <2>1, <2>2
<1>5. value' \in [Instances -> [Items -> 0..2]]
  <2>1. CASE RunStatement
    <3>1. 1 \in DOMAIN Head(cur.left)
          /\ \/ value' = value
             \/ value' = [value EXCEPT ![cur.at][Head(cur.left)[1].item] = Head(cur.left)[1].to]
      BY <2>1 DEF RunStatement, Batch
    <3>2. Head(cur.left)[1] \in Statements
      BY <1>1, <1>2, <3>1, RestTyped
    <3>3. Head(cur.left)[1].to \in 0..2
      BY <3>2 DEF Statements
    <3>. QED BY <3>1, <3>3, ValueKept DEF StateInv
  <2>. QED BY <2>1 DEF StateInv, SkipBatch, BatchFails
<1>. QED BY <1>1, <1>3, <1>4, <1>5 DEF StateInv

LEMMA StateStep == IInv /\ StateInv /\ [Next]_vars => StateInv'
<1>. SUFFICES ASSUME IInv, StateInv, [Next]_vars PROVE StateInv'
  OBVIOUS
<1>1. CASE Audit
  BY <1>1 DEF Audit, StateInv
<1>2. CASE CreateRemediationVersion
  <2>1. Len(versions') =< MaxVersions
    BY <1>2, RemediationAssumption DEF CreateRemediationVersion, IInv
  <2>. QED BY <1>2, <2>1 DEF CreateRemediationVersion, StateInv, Fill
<1>3. CASE GenerateEnds
  BY <1>3 DEF GenerateEnds, StateInv
<1>4. CASE \E i \in Instances : GenerateInstanceScripts(i)
  <2>1. Len(versions') = Len(versions)
    BY <1>4 DEF GenerateInstanceScripts, IInv
  <2>. QED BY <1>4, <2>1 DEF GenerateInstanceScripts, StateInv, Fill
<1>5. CASE StartApply
  BY <1>5 DEF StartApply, StateInv, Fill
<1>6. CASE \E i \in Instances : ExecuteScript(i) \/ ConnectFails(i) \/ DryRunScript(i)
  BY <1>6, FolderSteps
<1>7. CASE SkipBatch \/ RunStatement \/ BatchFails
  BY <1>7, ScriptStates
<1>8. CASE ScriptEnds
  BY <1>8 DEF ScriptEnds, StateInv
<1>9. CASE ExecutePs1Scripts \/ RunOsHooks
  <2>1. os' \subseteq Instances
    <3>1. versions # << >>
      BY <1>9 DEF ExecutePs1Scripts, RunOsHooks, StateInv
    <3>2. Windows \subseteq Instances
      BY <3>1, NewestFolder DEF Windows
    <3>. QED BY <1>9, <3>2 DEF ExecutePs1Scripts, RunOsHooks, StateInv
  <2>2. CASE ExecutePs1Scripts
    BY <2>1, <2>2 DEF ExecutePs1Scripts, StateInv
  <2>3. CASE RunOsHooks
    BY <2>1, <2>3 DEF RunOsHooks, StateInv
  <2>. QED BY <1>9, <2>2, <2>3
<1>10. CASE Interrupt
  BY <1>10 DEF Interrupt, StateInv
<1>11. CASE EditTargets
  BY <1>11, RemediationAssumption DEF EditTargets, StateInv
<1>12. CASE ChangeServer
  <2>1. value' \in [Instances -> [Items -> 0..2]]
    <3>1. PICK i \in Instances, k \in Items, v \in {0, 1} : value' = [value EXCEPT ![i][k] = v]
      BY <1>12 DEF ChangeServer
    <3>. QED BY <3>1, ValueKept DEF StateInv
  <2>. QED BY <1>12, <2>1, RemediationAssumption DEF ChangeServer, StateInv
<1>13. CASE UNCHANGED vars
  BY <1>13 DEF vars, StateInv
<1>. QED
  BY <1>1, <1>2, <1>3, <1>4, <1>5, <1>6, <1>7, <1>8, <1>9, <1>10, <1>11, <1>12,
     <1>13 DEF Next

LEMMA StateHolds == Spec => []StateInv
  BY InitState, StateStep, Invariance, PTL DEF Spec

\* Scripts set items to known values only, results belong to scripts, and the
\* executor has a connection exactly while one of its scripts is running.
THEOREM TypeCorrect == Spec => []TypeOK
<1>1. IInv /\ StateInv => TypeOK
  <2>. SUFFICES ASSUME IInv, StateInv PROVE TypeOK
    OBVIOUS
  <2>1. ASSUME NEW v \in DOMAIN versions
        PROVE  /\ DOMAIN versions[v] \subseteq Instances
               /\ \A i \in DOMAIN versions[v] : versions[v][i] \in Scripts
    <3>1. versions[v] \in Folders
      BY DEF IInv
    <3>2. DOMAIN versions[v] \subseteq Instances /\ versions[v] \in [DOMAIN versions[v] -> AllScripts]
      BY <3>1, FolderShape
    <3>. QED BY <3>2, ScriptFacts
  <2>2. DOMAIN result \subseteq Instances
    <3>1. CASE pc \in {"folder", "script", "hooks"}
      BY <3>1, NewestFolder DEF StateInv
    <3>2. CASE pc \in {"idle", "generate"}
      BY <3>2 DEF StateInv
    <3>. QED BY <3>1, <3>2 DEF StateInv
  <2>3. cur = << >> \/ cur \in Connections
    BY DEF StateInv
  <2>. QED BY <2>1, <2>2, <2>3 DEF IInv, StateInv, TypeOK, Connections, Batches, Ended
<1>. QED BY <1>1, Invariance, StateHolds, PTL

----------------------------------------------------------------------------
(* What a script that ran without an error has done. *)

\* What is left after one statement: it sets what was to be set, or the
\* statement has just done so.
LEMMA RestHeals ==
    ASSUME NEW left \in Batches, left # << >>, 1 \in DOMAIN Head(left), NEW k, NEW r,
           Heals(left, k, r)
    PROVE  /\ Heals(Rest(left), k, r)
           /\ Sets(left, k, r) => Sets(Rest(left), k, r) \/ Head(left)[1] = Set(k, r)
           /\ Head(left)[1].item = k /\ Head(left)[1].to # r => Sets(Rest(left), k, r)
<1>. DEFINE rest == Rest(left)
            size == Len(left)
<1>1. /\ left \in Seq(Seq(Statements)) /\ size \in Nat /\ size >= 1
      /\ DOMAIN left = 1..size
      /\ Head(left) = left[1] /\ left[1] \in Seq(Statements)
      /\ DOMAIN left[1] = 1..Len(left[1]) /\ Len(left[1]) \in Nat /\ Len(left[1]) >= 1
  BY DEF Batches
<1>2. CASE Len(left[1]) = 1
  <2>1. rest = Tail(left)
    BY <1>1, <1>2 DEF Rest
  <2>2. DOMAIN rest = 1..(size - 1) /\ \A b \in 1..(size - 1) : rest[b] = left[b + 1]
    BY <1>1, <2>1
  <2>3. DOMAIN left[1] = {1}
    BY <1>1, <1>2
  <2>. HIDE DEF rest, size
  <2>4. \A b \in DOMAIN rest : b \in Nat /\ b + 1 \in DOMAIN left /\ rest[b] = left[b + 1]
    BY <1>1, <2>2
  <2>5. \A b \in DOMAIN left : b # 1 => b - 1 \in DOMAIN rest /\ rest[b - 1] = left[b]
    <3>. SUFFICES ASSUME NEW b \in DOMAIN left, b # 1
                  PROVE  b - 1 \in DOMAIN rest /\ rest[b - 1] = left[b]
      OBVIOUS
    <3>1. b - 1 \in 1..(size - 1) /\ (b - 1) + 1 = b
      BY <1>1
    <3>. QED BY <2>2, <3>1
  <2>6. Heals(rest, k, r)
    <3>. SUFFICES ASSUME NEW b \in DOMAIN rest, NEW n \in DOMAIN rest[b],
                         rest[b][n].item = k, rest[b][n].to # r
                  PROVE  \E c \in DOMAIN rest : b < c /\ \E m \in DOMAIN rest[c] : rest[c][m] = Set(k, r)
      BY DEF Heals
    <3>1. b \in Nat /\ b + 1 \in DOMAIN left /\ rest[b] = left[b + 1]
      BY <2>4
    <3>2. PICK c \in DOMAIN left : b + 1 < c /\ \E m \in DOMAIN left[c] : left[c][m] = Set(k, r)
      BY <3>1 DEF Heals
    <3>3. c \in Nat /\ c # 1 /\ b < c - 1
      BY <1>1, <3>1, <3>2
    <3>4. c - 1 \in DOMAIN rest /\ rest[c - 1] = left[c]
      BY <2>5, <3>3
    <3>. QED BY <3>2, <3>3, <3>4
  <2>7. ASSUME Sets(left, k, r), left[1][1] # Set(k, r) PROVE Sets(rest, k, r)
    <3>1. PICK b \in DOMAIN left : \E n \in DOMAIN left[b] : left[b][n] = Set(k, r)
      BY <2>7 DEF Sets
    <3>2. b # 1
      BY <2>3, <2>7, <3>1
    <3>3. b - 1 \in DOMAIN rest /\ rest[b - 1] = left[b]
      BY <2>5, <3>2
    <3>. QED BY <3>1, <3>3 DEF Sets
  <2>8. ASSUME left[1][1].item = k, left[1][1].to # r PROVE Sets(rest, k, r)
    <3>1. 1 \in DOMAIN left /\ 1 \in DOMAIN left[1]
      BY <1>1
    <3>2. PICK c \in DOMAIN left : 1 < c /\ \E m \in DOMAIN left[c] : left[c][m] = Set(k, r)
      BY <2>8, <3>1 DEF Heals
    <3>3. c - 1 \in DOMAIN rest /\ rest[c - 1] = left[c]
      BY <1>1, <2>5, <3>2
    <3>. QED BY <3>2, <3>3 DEF Sets
  <2>. QED BY <1>1, <2>6, <2>7, <2>8 DEF rest
<1>3. CASE Len(left[1]) # 1
  <2>. DEFINE tail == Tail(left[1])
  <2>1. rest = <<tail>> \o Tail(left)
    BY <1>1, <1>3 DEF Rest
  <2>2. tail \in Seq(Statements) /\ Tail(left) \in Seq(Seq(Statements))
        /\ Len(Tail(left)) = size - 1 /\ \A b \in 1..(size - 1) : Tail(left)[b] = left[b + 1]
    BY <1>1
  <2>3. DOMAIN tail = 1..(Len(left[1]) - 1) /\ \A n \in DOMAIN tail : tail[n] = left[1][n + 1]
    BY <1>1
  <2>. HIDE DEF tail, size
  <2>4. /\ DOMAIN rest = 1..(1 + (size - 1))
        /\ rest[1] = tail
        /\ \A b \in 1..(size - 1) : rest[1 + b] = Tail(left)[b]
    BY <1>1, <2>1, <2>2
  <2>. HIDE DEF rest
  <2>5. DOMAIN rest = DOMAIN left
    BY <1>1, <2>4
  <2>6. \A b \in DOMAIN left : b # 1 => rest[b] = left[b]
    <3>. SUFFICES ASSUME NEW b \in DOMAIN left, b # 1 PROVE rest[b] = left[b]
      OBVIOUS
    <3>1. b - 1 \in 1..(size - 1) /\ (b - 1) + 1 = b /\ 1 + (b - 1) = b
      BY <1>1
    <3>. QED BY <2>2, <2>4, <3>1
  <2>7. \A n \in DOMAIN rest[1] : n + 1 \in DOMAIN left[1] /\ rest[1][n] = left[1][n + 1]
    BY <1>1, <2>3, <2>4
  <2>8. \A n \in DOMAIN left[1] : n # 1 => n - 1 \in DOMAIN rest[1] /\ rest[1][n - 1] = left[1][n]
    <3>. SUFFICES ASSUME NEW n \in DOMAIN left[1], n # 1
                  PROVE  n - 1 \in DOMAIN rest[1] /\ rest[1][n - 1] = left[1][n]
      OBVIOUS
    <3>1. n - 1 \in DOMAIN tail /\ (n - 1) + 1 = n
      BY <1>1, <2>3
    <3>. QED BY <2>3, <2>4, <3>1
  <2>9. ASSUME NEW b \in DOMAIN rest, NEW n \in DOMAIN rest[b],
               rest[b][n].item = k, rest[b][n].to # r
        PROVE  \E c \in DOMAIN rest : b < c /\ \E m \in DOMAIN rest[c] : rest[c][m] = Set(k, r)
    <3>1. \E q \in DOMAIN left[b] : left[b][q].item = k /\ left[b][q].to # r
      BY <2>5, <2>6, <2>7, <2>9
    <3>2. PICK c \in DOMAIN left : b < c /\ \E m \in DOMAIN left[c] : left[c][m] = Set(k, r)
      BY <2>5, <3>1 DEF Heals
    <3>3. c # 1
      BY <1>1, <2>5, <3>2
    <3>. QED BY <2>5, <2>6, <3>2, <3>3
  <2>10. ASSUME Sets(left, k, r), left[1][1] # Set(k, r) PROVE Sets(rest, k, r)
    <3>1. PICK b \in DOMAIN left : \E n \in DOMAIN left[b] : left[b][n] = Set(k, r)
      BY <2>10 DEF Sets
    <3>2. CASE b = 1
      <4>1. PICK n \in DOMAIN left[1] : left[1][n] = Set(k, r)
        BY <3>1, <3>2
      <4>2. n - 1 \in DOMAIN rest[1] /\ rest[1][n - 1] = Set(k, r)
        BY <2>8, <2>10, <4>1
      <4>. QED BY <2>5, <3>2, <4>2 DEF Sets
    <3>3. CASE b # 1
      BY <2>5, <2>6, <3>1, <3>3 DEF Sets
    <3>. QED BY <3>2, <3>3
  <2>11. ASSUME left[1][1].item = k, left[1][1].to # r PROVE Sets(rest, k, r)
    <3>1. 1 \in DOMAIN left /\ 1 \in DOMAIN left[1]
      BY <1>1
    <3>2. PICK c \in DOMAIN left : 1 < c /\ \E m \in DOMAIN left[c] : left[c][m] = Set(k, r)
      BY <2>11, <3>1 DEF Heals
    <3>3. c # 1
      BY <1>1, <3>2
    <3>. QED BY <2>5, <2>6, <3>2, <3>3 DEF Sets
  <2>12. Heals(rest, k, r)
    BY <2>9 DEF Heals
  <2>. QED BY <1>1, <2>10, <2>11, <2>12 DEF rest
<1>. QED BY <1>2, <1>3

\* What the scripts of this folder are to set, and to what.
Goals(i) == IF job.mode = "fix" THEN Fixable(i)
                                ELSE Restorable(Last(versions)[i].finds)

Aim(k) == IF job.mode = "fix" THEN Required[k] ELSE 1

\* A script without an error so far has set everything or will do so with the
\* batches it has left, and a finished one has; no other script touches it.
WorkInv ==
    /\ pc = "script" /\ job.mode = "fix" => cur.user = ConnectedLogin(cur.of)
    /\ \A i \in DOMAIN result :
         result[i] = "clean" /\ ~ (pc = "script" /\ i = cur.of) =>
           \A k \in Goals(i) : value[i][k] = Aim(k)
    /\ pc = "script" /\ result[cur.of] = "clean" =>
         \A k \in Goals(cur.of) :
           /\ Heals(cur.left, k, Aim(k))
           /\ Sets(cur.left, k, Aim(k)) \/ value[cur.of][k] = Aim(k)

\* Nothing is said of a command that has no results yet.
LEMMA NoResults ==
    ASSUME DOMAIN result' = {}, pc' # "script"
    PROVE  WorkInv'
BY DEF WorkInv

\* A target's login changes between commands only, and so do the goals.
LEMMA GoalsKept ==
    ASSUME UNCHANGED <<login, versions, job>>
    PROVE  \A i : Goals(i)' = Goals(i) /\ ConnectedLogin(i)' = ConnectedLogin(i)
BY DEF Goals, Fixable, Restorable, ConnectedLogin

LEMMA ResultsKept ==
    ASSUME WorkInv, UNCHANGED <<value, login, result, versions, job>>,
           pc # "script", pc' # "script"
    PROVE  WorkInv'
<1>1. \A i : Goals(i)' = Goals(i)
  BY GoalsKept
<1>. QED BY <1>1 DEF WorkInv, Aim

LEMMA GoalsKnown ==
    ASSUME IInv, versions # << >>, NEW i \in DOMAIN Last(versions)
    PROVE  Goals(i) \subseteq Range(Order)
<1>1. Last(versions)[i].finds \in SUBSET Range(Order)
  BY NewestFolder, ScriptFacts
<1>. QED BY <1>1 DEF Goals, Fixable, Restorable

\* The policy of the login that a script runs under is none of its goals.
LEMMA SparedIsNoGoal ==
    ASSUME NEW s, Spares(s), job.mode = "fix" => cur.user = ConnectedLogin(cur.of)
    PROVE  s.item \notin Goals(cur.of)
<1>1. KindOf[s.item] = "policy" /\ s.item = cur.user
  BY DEF Spares, Policies
<1>. QED BY <1>1 DEF Goals, Fixable, Restorable

LEMMA ScriptAims ==
    ASSUME CodeRequires, NEW s \in AllScripts
    PROVE  /\ \A k \in Settable(s.finds) : s.main \in Setting(k, Required[k])
           /\ \A k \in Restorable(s.finds) : s.undo \in Setting(k, 1)
<1>1. PICK p \in Ports, S \in SUBSET Range(Order), u \in Users :
        s = [port |-> p, main |-> MainScript(S, u), undo |-> RollbackScript(S), finds |-> S]
  BY DEF AllScripts
<1>2. s.main = MainScript(S, u) /\ s.undo = RollbackScript(S) /\ s.finds = S
  BY <1>1
<1>3. \A k \in Settable(S) : MainScript(S, u) \in Setting(k, Required[k])
  BY MainSets
<1>4. \A k \in Restorable(S) : RollbackScript(S) \in Setting(k, 1)
  BY RollbackSets
<1>. QED BY <1>2, <1>3, <1>4

\* A script begins with all of its batches.
LEMMA WorkBegins ==
    ASSUME CodeRequires, IInv, StateInv, WorkInv, NEW i \in Instances, ExecuteScript(i)
    PROVE  WorkInv'
<1>. DEFINE script == Last(versions)[i]
            port == IF job.mode = "fix" THEN script.port ELSE NoPort
            checked == CheckedTarget(i, port)
            conn == ConnectTarget(i, port)
<1>1. /\ pc = "folder" /\ i \in todo /\ pc' = "script"
      /\ result' = With(result, i, "clean")
      /\ UNCHANGED <<value, login, versions, job>>
  BY DEF ExecuteScript, IsNext, Fill
<1>2. PICK s \in Reached(conn, Targets[i].real) :
        cur' = [of |-> i, at |-> s, user |-> login[conn], safe |-> login[checked],
                left |-> IF job.mode = "fix" THEN script.main ELSE script.undo]
  BY DEF ExecuteScript
<1>3. cur'.of = i /\ cur'.left = IF job.mode = "fix" THEN script.main ELSE script.undo
  BY <1>2
<1>4. i \in DOMAIN Last(versions) /\ versions # << >>
  BY <1>1 DEF IInv
<1>5. script \in AllScripts
  BY <1>4, NewestFolder
<1>6. /\ \A k \in Settable(script.finds) : script.main \in Setting(k, Required[k])
      /\ \A k \in Restorable(script.finds) : script.undo \in Setting(k, 1)
  BY <1>5, ScriptAims
<1>7. \A k \in Goals(i) : cur'.left \in Setting(k, Aim(k))
  BY <1>3, <1>6 DEF Goals, Aim, Fixable, Settable
<1>8. \A k \in Goals(i) : Heals(cur'.left, k, Aim(k)) /\ Sets(cur'.left, k, Aim(k))
  BY <1>7 DEF Setting, Healing
<1>9. /\ DOMAIN result' = DOMAIN result \cup {i}
      /\ \A j \in DOMAIN result : j # i => result'[j] = result[j]
  <2>1. /\ DOMAIN With(result, i, "clean") = DOMAIN result \cup {i}
        /\ \A j \in DOMAIN result : j # i => With(result, i, "clean")[j] = result[j]
    BY DEF With
  <2>. QED BY <1>1, <2>1
<1>10. ASSUME NEW j \in DOMAIN result', result'[j] = "clean", j # i
       PROVE  \A k \in Goals(j) : value[j][k] = Aim(k)
  <2>1. j \in DOMAIN result /\ result[j] = "clean"
    BY <1>9, <1>10
  <2>. QED BY <1>1, <2>1 DEF WorkInv
<1>11. \A j : Goals(j)' = Goals(j) /\ ConnectedLogin(j)' = ConnectedLogin(j)
  BY <1>1, GoalsKept
<1>12. \A k : Aim(k)' = Aim(k)
  BY <1>1 DEF Aim
<1>13. job.mode = "fix" => cur'.user = ConnectedLogin(i)
  BY <1>2 DEF ConnectedLogin
<1>. QED BY <1>1, <1>3, <1>8, <1>10, <1>11, <1>12, <1>13 DEF WorkInv

LEMMA WorkStep ==
    ASSUME WellAddressed, CodeRequires, IInv, StateInv, WorkInv, [Next]_vars
    PROVE  WorkInv'
<1>1. CASE pc \in {"idle", "generate"} /\ Next
  <2>1. DOMAIN result = {}
    BY <1>1 DEF StateInv
  <2>2. pc' # "script" /\ (result' = result \/ result' = << >>)
    BY <1>1 DEF Next, Audit, CreateRemediationVersion, GenerateEnds,
       GenerateInstanceScripts, StartApply, ExecuteScript, ConnectFails, DryRunScript,
       SkipBatch, RunStatement, BatchFails, ScriptEnds, ExecutePs1Scripts, RunOsHooks,
       Interrupt, EditTargets, ChangeServer, Fill
  <2>3. DOMAIN result' = {}
    BY <2>1, <2>2
  <2>. QED BY <2>2, <2>3, NoResults
<1>2. CASE RunOsHooks \/ Interrupt
  <2>1. DOMAIN result' = {} /\ pc' # "script"
    BY <1>2 DEF RunOsHooks, Interrupt
  <2>. QED BY <2>1, NoResults
<1>3. CASE ExecutePs1Scripts
  BY <1>3, ResultsKept DEF ExecutePs1Scripts
<1>4. ASSUME NEW i \in Instances, ExecuteScript(i) \/ ConnectFails(i) \/ DryRunScript(i)
      PROVE  WorkInv'
  <2>1. CASE ExecuteScript(i)
    BY <2>1, WorkBegins
  <2>2. CASE ConnectFails(i) \/ DryRunScript(i)
    <3>1. /\ pc = "folder" /\ pc' = "folder" /\ UNCHANGED <<value, login, versions, job>>
          /\ \E v : v # "clean" /\ result' = With(result, i, v)
      BY <2>2 DEF ConnectFails, DryRunScript, Fill
    <3>2. PICK v : v # "clean" /\ result' = With(result, i, v)
      BY <3>1
    <3>3. \A j \in DOMAIN With(result, i, v) :
            With(result, i, v)[j] = "clean" => j \in DOMAIN result /\ result[j] = "clean"
      BY <3>2 DEF With
    <3>4. \A j \in DOMAIN result' : result'[j] = "clean" => j \in DOMAIN result /\ result[j] = "clean"
      BY <3>2, <3>3
    <3>5. \A j : Goals(j)' = Goals(j)
      BY <3>1, GoalsKept
    <3>. QED BY <3>1, <3>4, <3>5 DEF WorkInv, Aim
  <2>. QED BY <1>4, <2>1, <2>2
<1>5. CASE SkipBatch \/ BatchFails
  <2>1. /\ pc = "script" /\ pc' = "script" /\ UNCHANGED <<value, login, versions, job>>
        /\ cur \in Connections /\ cur.of \in DOMAIN result
        /\ cur' = [cur EXCEPT !.left = Tail(cur.left)]
    BY <1>5 DEF SkipBatch, BatchFails, StateInv
  <2>2. cur'.of = cur.of /\ cur'.user = cur.user
    BY <2>1 DEF Connections
  <2>3. \E v : v # "clean" /\ result' = [result EXCEPT ![cur.of] = v]
    BY <1>5 DEF SkipBatch, BatchFails
  <2>4. PICK v : v # "clean" /\ result' = [result EXCEPT ![cur.of] = v]
    BY <2>3
  <2>5. /\ result'[cur.of] # "clean"
        /\ \A j \in DOMAIN result' : j # cur.of => j \in DOMAIN result /\ result'[j] = result[j]
    BY <2>1, <2>4
  <2>6. \A j : Goals(j)' = Goals(j) /\ ConnectedLogin(j)' = ConnectedLogin(j)
    BY <2>1, GoalsKept
  <2>. QED BY <2>1, <2>2, <2>5, <2>6 DEF WorkInv, Aim
<1>6. CASE RunStatement
  <2>. DEFINE first == Head(cur.left)[1]
  <2>1. /\ pc = "script" /\ pc' = "script" /\ UNCHANGED <<login, result, versions, job>>
        /\ cur \in Connections /\ cur.of \in DOMAIN result /\ cur.at = cur.of
        /\ cur.left # << >> /\ 1 \in DOMAIN Head(cur.left)
        /\ value' = IF Spares(first) THEN value
                    ELSE [value EXCEPT ![cur.at][first.item] = first.to]
        /\ cur' = [cur EXCEPT !.left = Rest(cur.left)]
    BY <1>6 DEF RunStatement, Batch, Rest, StateInv, IInv, ScriptKnows
  <2>2. cur.left \in Batches /\ cur.of \in Instances
    BY <2>1 DEF Connections
  <2>3. first \in Statements /\ Rest(cur.left) \in Batches
    BY <2>1, <2>2, RestTyped
  <2>4. cur'.of = cur.of /\ cur'.user = cur.user /\ cur'.left = Rest(cur.left)
    BY <2>1, <2>3, ConnectionAt
  <2>. HIDE DEF first
  <2>5. \A j \in Instances, k \in Items :
          value'[j][k] = IF j = cur.of /\ k = first.item /\ ~ Spares(first)
                         THEN first.to ELSE value[j][k]
    BY <2>1, <2>2 DEF StateInv
  <2>6. \A j \in DOMAIN result : j \in DOMAIN Last(versions) /\ j \in Instances
    <3>1. versions # << >> /\ DOMAIN result \subseteq DOMAIN Last(versions)
      BY <2>1 DEF StateInv
    <3>. QED BY <3>1, NewestFolder
  <2>7. \A j \in DOMAIN result : Goals(j) \subseteq Items
    <3>1. versions # << >>
      BY <2>1 DEF StateInv
    <3>. QED BY <2>6, <3>1, GoalsKnown, KnownItems
  <2>8. ASSUME NEW j \in DOMAIN result, result[j] = "clean", j # cur.of, NEW k \in Goals(j)
        PROVE  value'[j][k] = Aim(k)
    <3>1. value[j][k] = Aim(k)
      BY <2>8 DEF WorkInv
    <3>. QED BY <2>5, <2>6, <2>7, <2>8, <3>1
  <2>9. ASSUME result[cur.of] = "clean", NEW k \in Goals(cur.of)
        PROVE  /\ Heals(Rest(cur.left), k, Aim(k))
               /\ Sets(Rest(cur.left), k, Aim(k)) \/ value'[cur.of][k] = Aim(k)
    <3>1. /\ Heals(cur.left, k, Aim(k))
          /\ Sets(cur.left, k, Aim(k)) \/ value[cur.of][k] = Aim(k)
      BY <2>1, <2>9 DEF WorkInv
    <3>2. /\ Heals(Rest(cur.left), k, Aim(k))
          /\ Sets(cur.left, k, Aim(k)) => Sets(Rest(cur.left), k, Aim(k)) \/ first = Set(k, Aim(k))
          /\ first.item = k /\ first.to # Aim(k) => Sets(Rest(cur.left), k, Aim(k))
      BY <2>1, <2>2, <3>1, RestHeals DEF first
    <3>3. value'[cur.of][k] = IF k = first.item THEN first.to ELSE value[cur.of][k]
      <4>1. k = first.item => ~ Spares(first)
        <5>1. job.mode = "fix" => cur.user = ConnectedLogin(cur.of)
          BY <2>1 DEF WorkInv
        <5>. QED BY <2>9, <5>1, SparedIsNoGoal
      <4>. QED BY <2>1, <2>2, <2>5, <2>7, <4>1
    <3>4. first = Set(k, Aim(k)) => first.item = k /\ first.to = Aim(k)
      BY DEF Set
    <3>. QED BY <3>1, <3>2, <3>3, <3>4
  <2>10. \A j : Goals(j)' = Goals(j) /\ ConnectedLogin(j)' = ConnectedLogin(j)
    BY <2>1, GoalsKept
  <2>11. \A k : Aim(k)' = Aim(k)
    BY <2>1 DEF Aim
  <2>. QED BY <2>1, <2>4, <2>8, <2>9, <2>10, <2>11 DEF WorkInv
<1>7. CASE ScriptEnds
  <2>1. /\ pc = "script" /\ pc' = "folder" /\ cur.left = << >>
        /\ UNCHANGED <<value, login, result, versions, job>>
    BY <1>7 DEF ScriptEnds
  <2>2. \A k, r : ~ Sets(cur.left, k, r)
    BY <2>1 DEF Sets
  <2>3. \A j \in DOMAIN result : result[j] = "clean" => \A k \in Goals(j) : value[j][k] = Aim(k)
    BY <2>1, <2>2 DEF WorkInv
  <2>4. \A j : Goals(j)' = Goals(j)
    BY <2>1, GoalsKept
  <2>. QED BY <2>1, <2>3, <2>4 DEF WorkInv, Aim
<1>8. CASE UNCHANGED vars
  <2>1. \A j : Goals(j)' = Goals(j) /\ ConnectedLogin(j)' = ConnectedLogin(j)
    BY <1>8, GoalsKept DEF vars
  <2>. QED BY <1>8, <2>1 DEF vars, WorkInv, Aim
<1>9. CASE pc \notin {"idle", "generate"} /\ Next
  <2>1. ~ Audit /\ ~ CreateRemediationVersion /\ ~ GenerateEnds /\ ~ StartApply
        /\ ~ EditTargets /\ ~ ChangeServer /\ \A i \in Instances : ~ GenerateInstanceScripts(i)
    BY <1>9 DEF Audit, CreateRemediationVersion, GenerateEnds, StartApply, EditTargets,
         ChangeServer, GenerateInstanceScripts
  <2>. QED BY <1>2, <1>3, <1>4, <1>5, <1>6, <1>7, <1>9, <2>1 DEF Next
<1>. QED BY <1>1, <1>8, <1>9

LEMMA WorkHolds == WellAddressed /\ CodeRequires /\ Spec => []WorkInv
<1>1. Init => WorkInv
  BY DEF Init, WorkInv
<1>2. CASE WellAddressed /\ CodeRequires
  <2>1. IInv /\ StateInv /\ WorkInv /\ [Next]_vars => WorkInv'
    BY <1>2, WorkStep
  <2>. QED BY <1>1, <2>1, Invariance, StateHolds, PTL DEF Spec
<1>. QED BY <1>2

\* A script that ran without an error and without a skipped batch leaves every
\* finding with an automatic fix compliant, but for the policy of the login it ran
\* under, in whatever order the scripts of a folder run and whatever is edited
\* between the commands, if its address leads back to its instance and the
\* handlers' values are the required ones.
THEOREM AppliedFixes == WellAddressed /\ CodeRequires /\ Spec => []AppliedMeansFixed
<1>1. StateInv /\ WorkInv => AppliedMeansFixed
  BY DEF StateInv, WorkInv, Goals, Aim, AppliedMeansFixed, Done
<1>. QED BY <1>1, StateHolds, WorkHolds, PTL

\* Likewise a rollback puts every setting of its findings but the advanced
\* options back to what was found.
THEOREM RollbackRestores == WellAddressed /\ CodeRequires /\ Spec => []RollbackMeansRestored
<1>1. CodeRequires /\ IInv /\ StateInv /\ WorkInv => RollbackMeansRestored
  <2>. SUFFICES ASSUME CodeRequires, IInv, StateInv, WorkInv, pc \in {"folder", "hooks"},
                       NEW i \in Done("undo"), NEW k \in Last(versions)[i].finds \ {Adv},
                       KindOf[k] \in {"config", "toggle"}
                PROVE  value[i][k] # Required[k]
    BY DEF RollbackMeansRestored
  <2>1. i \in DOMAIN result /\ job.mode = "undo" /\ result[i] = "clean" /\ versions # << >>
        /\ i \in DOMAIN Last(versions)
    BY DEF Done, StateInv
  <2>2. k \in Goals(i)
    BY <2>1 DEF Goals, Restorable
  <2>3. value[i][k] = 1
    BY <2>1, <2>2 DEF WorkInv, Aim
  <2>4. k \in Range(Order)
    BY <2>1, <2>2, GoalsKnown
  <2>. QED BY <2>3, <2>4 DEF CodeRequires
<1>2. CASE CodeRequires
  BY <1>1, <1>2, Invariance, StateHolds, WorkHolds, PTL
<1>. QED BY <1>2
=============================================================================
