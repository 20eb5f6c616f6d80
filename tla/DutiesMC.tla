------------------------------ MODULE DutiesMC ------------------------------
(***************************************************************************)
(* The instance of Duties that TLC checks.                                 *)
(***************************************************************************)
EXTENDS Duties

CONSTANTS q1, w1, w2

\* A coding question needs a turn for the evidence, one to search for a missing
\* structure, one to read it and one to decide; a handoff does all its reads in one.
TurnsOf == [k \in Kinds |-> IF k = "coding_question" THEN 4 ELSE 2]

AllTargets == {"private", "group", "handoff"}
=============================================================================
