------------------------- MODULE FindingTransitions -------------------------
(***************************************************************************)
(* The pure core of change tracking: how one finding's old and new status  *)
(* become a change type (domain/state_machine.py), which change types are  *)
(* logged and in which priority (domain/change_types.py), how two runs are *)
(* diffed (diff/findings_diff.py) and how several changes of one entity    *)
(* are consolidated (actions/action_detector.py).                          *)
(*                                                                         *)
(* Entity mutations (Added, Removed, Enabled ...) share the priority table *)
(* but no caller passes them to the detector, so they have no rule here.   *)
(***************************************************************************)
EXTENDS Naturals

\* A finding that a run does not hold.
None == "NONE"

Statuses == {"PASS", "FAIL", "WARN"}

Discrepant(status) == status \in {"FAIL", "WARN"}

ChangeTypes == {"FIXED", "REGRESSION", "NEW_ISSUE", "EXCEPTION_ADDED",
                "EXCEPTION_REMOVED", "EXCEPTION_UPDATED",
                "STILL_FAILING", "NO_CHANGE", "UNKNOWN"}

\* Lower is stronger.
Priority(type) ==
    CASE type = "FIXED"             -> 1
      [] type = "REGRESSION"        -> 2
      [] type = "NEW_ISSUE"         -> 3
      [] type = "EXCEPTION_ADDED"   -> 4
      [] type = "EXCEPTION_REMOVED" -> 5
      [] type = "EXCEPTION_UPDATED" -> 6
      [] type = "STILL_FAILING"     -> 100
      [] type = "NO_CHANGE"         -> 101
      [] OTHER                      -> 999

ShouldLog(type) == type \notin {"STILL_FAILING", "NO_CHANGE", "UNKNOWN"}

FindingChange(old, new) ==
    CASE old = None /\ Discrepant(new)         -> "NEW_ISSUE"
      [] Discrepant(old) /\ ~Discrepant(new)   -> "FIXED"
      [] old = "PASS" /\ Discrepant(new)       -> "REGRESSION"
      [] OTHER                                 -> "NO_CHANGE"

ExceptionChange(oldExcepted, newExcepted) ==
    CASE ~oldExcepted /\ newExcepted -> "EXCEPTION_ADDED"
      [] oldExcepted /\ ~newExcepted -> "EXCEPTION_REMOVED"
      [] OTHER                       -> "STILL_FAILING"

\* Mutant: the guard on unscanned instances is forgotten.
ClassifyWithoutScanGuard(old, new, oldExcepted, newExcepted, scanned) ==
    IF Discrepant(old) /\ Discrepant(new)
    THEN ExceptionChange(oldExcepted, newExcepted)
    ELSE FindingChange(old, new)

\* old and new are a status or None; an instance that was not scanned says
\* nothing about its findings.
ClassifyFindingTransition(old, new, oldExcepted, newExcepted, scanned) ==
    CASE ~scanned                               -> IF Discrepant(old)
                                                   THEN "UNKNOWN" ELSE "NO_CHANGE"
      [] scanned /\ Discrepant(old) /\ Discrepant(new) ->
                                     ExceptionChange(oldExcepted, newExcepted)
      [] OTHER                                  -> FindingChange(old, new)

(***************************************************************************)
(* Diffing a baseline against a later run.  old and new map every key to a *)
(* status or None; scanned is the set of keys whose instance counts as     *)
(* scanned.  A key that only the new run holds counts as scanned.  The     *)
(* exception changes found here are dropped: the annotation reader is the  *)
(* authoritative source of those.                                          *)
(***************************************************************************)
DiffFindings(keys, old, new, scanned) ==
    { [key |-> k, type |-> ClassifyFindingTransition(
                               old[k], new[k], FALSE, FALSE,
                               k \in scanned \/ old[k] = None)] : k \in keys }

FindingChangeTypes == {"FIXED", "REGRESSION", "NEW_ISSUE"}

DetectAllActions(findingChanges, exceptionChanges) ==
    { [entity |-> [kind |-> "finding", key |-> c.key], type |-> c.type] :
        c \in { d \in findingChanges : d.type \in FindingChangeTypes } }
    \cup exceptionChanges

\* Mutant: the sort is descending.
ConsolidateWeakest(actions) ==
    { a \in actions : \A b \in actions :
        b.entity = a.entity => Priority(a.type) >= Priority(b.type) }

\* One action per entity: the one of the strongest type.
ConsolidateActions(actions) ==
    { a \in actions : \A b \in actions :
        b.entity = a.entity => Priority(a.type) <= Priority(b.type) }
=============================================================================
