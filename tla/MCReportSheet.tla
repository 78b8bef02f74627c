---------------------------- MODULE MCReportSheet ---------------------------
(***************************************************************************)
(* Two instances of one server and one of another.                         *)
(***************************************************************************)
EXTENDS ReportSheet, ServerQueries, TLC

CONSTANTS t1, t2, t3

Servers == (t1 :> "alpha") @@ (t2 :> "alpha") @@ (t3 :> "beta")
Instances == (t1 :> "") @@ (t2 :> "prod") @@ (t3 :> "")
Majors == (t1 :> 10) @@ (t2 :> 15) @@ (t3 :> 13)

\* What a service's instance is called by the query of the target's version.
InstanceOfService(t, s) ==
    IF Is2008(Majors[t]) THEN ServiceInstance2008(s) ELSE ServiceInstance2012(s)

Server(name, is)   == Thing("trigger", Blank, <<"server", name, "logon">>, Blank, is)
Config(name, is)   == Thing("config", name, <<>>, Blank, is)
Login(name, is)    == Thing("login", Blank, <<name>>, Blank, is)
Role(name, is)     == Thing("role", Blank, <<name>>, Blank, is)
Backup(db, is)     == Thing("backup", db, <<>>, Blank, is)
Database(db, is)   == Thing("database", db, <<>>, Blank, is)
User(db, name, is) == Thing("dbUser", db, <<name>>, Blank, is)
Trigger(db, name)  == Thing("trigger", db, <<"database", name, "insert">>, Blank, [server |-> FALSE])
Service(what, of) ==
    Thing("service", what, <<of>>, Blank,
          [account |-> "managed", type |-> ServiceType(what), state |-> "running", start |-> "auto"])
Instance(is)       == Thing("instance", Blank, <<>>, Blank, is)
Grant(db, name, entity) ==
    Thing("permission", db, <<"database", name, "control">>, entity,
          [risky |-> TRUE, sensitive |-> TRUE, state |-> "GRANT"])

\* A thing of this kind with these facts, as a target reports it.
Named(t, kind, h, is) ==
    CASE kind = "instance"      -> Instance(is)
      [] kind = "sa"            -> Thing("sa", Blank, <<IF is.renamed THEN "boss" ELSE "sa">>, Blank, is)
      [] kind = "login"         -> Login("l", is)
      [] kind = "role"          -> Role("m", is)
      [] kind = "service"       -> Thing("service", "svc", <<InstanceOfService(t, h)>>, Blank, is)
      [] kind = "protocol"      -> Thing("protocol", Blank, <<h.protocol>>, Blank, is)
      [] kind = "linked"        -> Thing("linked", "ls", <<"local", "remote">>, Blank, is)
      [] kind \in {"config", "auditSetting"}  -> Thing(kind, "option", <<>>, Blank, is)
      [] kind \in {"backup", "database"}      -> Thing(kind, "db", <<>>, Blank, is)
      [] kind = "dbUser"        -> User("db", "u", is)
      [] kind = "dbRole"        -> Thing("dbRole", "db", <<"m">>, Blank, is)
      [] kind = "trigger"       -> IF is.server THEN Server("tr", is) ELSE Trigger("db", "tr")
      [] kind = "permission"    ->
            IF h.server THEN Thing("permission", "(server)", <<"server", "g", "p">>, "e", is)
            ELSE Thing("permission", "db", <<"database", "g", "p">>, "e", is)
      [] kind = "key"           -> Thing("key", "db", <<"symmetric", "k">>, Blank, is)

ReportedBy(t, kind, h) ==
    LET answers == Reported(Majors[t], Instances[t], kind, h) IN
    IF answers = {} THEN <<>> ELSE << Named(t, kind, h, CHOOSE is \in answers : TRUE) >>

Estate(a, b, c) == (t1 :> a) @@ (t2 :> b) @@ (t3 :> c)

\* One thing of any kind, held by both instances of a server.
Singles ==
    UNION { { Estate(ReportedBy(t1, k, h), ReportedBy(t2, k, h), <<>>) : h \in Holds[k] } : k \in Kinds }

Bad == [running |-> FALSE, configured |-> FALSE]
Orphan == [guest |-> FALSE, connect |-> FALSE, orphaned |-> TRUE, internal |-> FALSE]
Mapped == [Orphan EXCEPT !.orphaned = FALSE]
Old == [outdated |-> TRUE, unnamed |-> TRUE]
Unsafe == [role |-> "sysadmin", disabled |-> FALSE, safe |-> FALSE]

\* Rows of several targets on one sheet.
Mixed == {
    Estate(<<Config("a", Bad), Config("b", Bad)>>, <<Config("a", Bad)>>, <<Config("a", Bad)>>),
    Estate(<<User("d", "u", Orphan), User("d", "v", Orphan), NoOrphans>>, <<>>,
           <<User("d", "u", Mapped), NoOrphans>>),
    Estate(<<>>, <<Grant("d", "g", "e"), Grant("d", "g", Blank)>>, <<Grant("d", "h", "f")>>),
    Estate(<<Server("tr", [server |-> TRUE]), Trigger("d", "tr")>>,
           <<Trigger("d", "tr"), Trigger("d", "ur")>>, <<>>),
    Estate(<<Instance(Old)>>, <<Instance(Old)>>, <<Instance(Old)>>),
    Estate(<<Backup("d", [age |-> "late", dated |-> FALSE, fullRecovery |-> TRUE, log |-> FALSE]),
             Database("d", [system |-> FALSE, trustworthy |-> TRUE])>>,
           <<>>, <<Database("d", [system |-> FALSE, trustworthy |-> TRUE])>>),
    Estate(<<Role("m", Unsafe)>>, <<>>, <<Role("m", Unsafe), Role("n", Unsafe)>>),
    Estate(<<Service("engine", ""), Service("browser", ""), Service("engine", "prod")>>,
           <<Service("agent", "prod")>>, <<Service("agent", "mssqlserver")>>) }

All == Singles \cup Mixed

=============================================================================
