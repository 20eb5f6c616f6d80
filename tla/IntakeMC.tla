------------------------------ MODULE IntakeMC ------------------------------
(***************************************************************************)
(* Instances of Intake for TLC.                                            *)
(***************************************************************************)
EXTENDS IntakeProperties, TLC

CONSTANTS m1

OneMessage == {m1}
DelegatedOnly == {"delegated"}
=============================================================================
