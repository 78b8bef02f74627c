---------------------------- MODULE MCAuditScan ----------------------------
(* Small instances of AuditScan: targets a and b share a host, c has one of *)
(* its own.                                                                 *)
EXTENDS AuditScan

\* One finding, of target b.
MCKeys == {"kb"}

MCInstanceOf == [k \in MCKeys |-> "b"]

MCHosts == {"h1", "h2"}

MCHostOf == [i \in Instances |-> IF i \in {"a", "b"} THEN "h1" ELSE "h2"]

MCOutcomes == {"FAIL", None}
=============================================================================
