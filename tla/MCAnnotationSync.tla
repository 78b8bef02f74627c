-------------------------- MODULE MCAnnotationSync --------------------------
(***************************************************************************)
(* One row on a named instance over four workbooks with two different      *)
(* justifications.                                                         *)
(***************************************************************************)
EXTENDS AnnotationSync, TLC

CONSTANTS named, text, other, noText, absent

Rows == {named}
Justifications == {noText, text, other}
\* Nothing tells the two justifications apart.
SameTexts == Permutations({text, other})
AllOutcomes == {"PASS", "FAIL", None}
=============================================================================
