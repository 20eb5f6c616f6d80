----------------------------- MODULE NoticesMC -----------------------------
(***************************************************************************)
(* The instance of Notices that TLC checks.                                *)
(***************************************************************************)
EXTENDS Notices

CONSTANT i1
=============================================================================
