----------------------------- MODULE MCAuditFiles -----------------------------
(* Instances of AuditFiles for TLC.                                        *)
EXTENDS AuditFiles
===============================================================================
