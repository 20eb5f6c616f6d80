----------------------------- MODULE WorkQueueMC -----------------------------
(* Values of the constants of WorkQueue for TLC.                             *)
EXTENDS WorkQueueProperties

CONSTANTS w1, w2, k1, k2, d1, d2, c1

OneWork == {w1}
OneWorker == {k1}
TwoWorkers == {k1, k2}
PlainDraft == {d1}
RiskyDraft == {d2}
OneCommand == {c1}
None == {}

ReplyOnly == {"reply"}
ReplyOrIgnore == {"reply", "ignore"}
IgnoreOrNotify == {"ignore", "notify"}
ReplyOrApproval == {"reply", "request_approval"}

=============================================================================
