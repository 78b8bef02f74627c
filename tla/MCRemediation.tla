--------------------------- MODULE MCRemediation ---------------------------
(* Small instances of Remediation. *)
EXTENDS Remediation

Target(p, n, r) == [host |-> "h", port |-> p, name |-> n, real |-> r]

\* A default instance and a named one with a port of its own.
MCTargets == << Target(1444, "B", "B"), Target(1433, NoName, Default) >>

MCNames == {"A", "B", Default}

\* "app" is a login without a password policy, and one to connect with.
MCOrder == <<"xp_cmdshell", "sa", "app">>

MCKindOf == [k \in Range(MCOrder) |->
               CASE k = "sa" -> "sa" [] k = "app" -> "policy" [] OTHER -> "config"]

MCRequired == [k \in Range(MCOrder) \cup {Adv} |-> IF k = "app" THEN 1 ELSE 0]

\* A bound: the servers start without the advanced options and without the
\* policy, alike in sa and in the login; an edit, or a script, may change each.
MCInit ==
    /\ Init
    /\ \A i \in Instances : value[i][Adv] = 0 /\ value[i]["app"] = 0
    /\ \A i, j \in Instances : login[i] = login[j] /\ value[i][Sa] = value[j][Sa]

MCSpec == MCInit /\ [][Next]_vars
=============================================================================
