------------------------ MODULE MCRemoteConnection -------------------------
(* A small instance of RemoteConnection. *)
EXTENDS RemoteConnection, TLC

CONSTANTS t1, t2, t3

\* Two instances of a server that is named by its address, and one of this
\* machine.
MCServerOf == [t \in {t1, t2, t3} |-> IF t = t3 THEN "localhost" ELSE "10.0.0.1"]

MCAliasOf == [a \in {"10.0.0.1"} |-> "db1"]

\* The two instances of one server are alike.
Symmetry == Permutations({t1, t2})
=============================================================================
