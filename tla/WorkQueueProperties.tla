-------------------------- MODULE WorkQueueProperties --------------------------
(****************************************************************************)
(* What the durable work queue promises: safety invariants, action          *)
(* properties and liveness of WorkQueue.  The runs of WorkQueueMC check them *)
(* on small instances; WorkQueueProofs, RecoveryProofs and ReplyProofs prove *)
(* for all what is not liveness.                                             *)
(****************************************************************************)
EXTENDS WorkQueue

-----------------------------------------------------------------------------
(* Safety.                                                                   *)

(* A shell command is started at most once per work item, whatever crashes,  *)
(* retries, resumes, approvals and fenced workers come between the audit    *)
(* row and the result (tools.ShellTool, BeginShellAction and                *)
(* ConsumeShellApproval).                                                    *)
ShellAtMostOnce == \A w \in Works, c \in Commands : runs[w][c] <= 1

(* Once recovery is over, every work item that is being processed has the   *)
(* worker that claimed it: a crash at any step leaves none behind           *)
(* (RecoverInterruptedWork, and the paths by which RunOnce ends).            *)
NoOrphanedWork ==
  daemon.pc \in {"recovered", "ready"} \cup Serving =>
    \A w \in Works :
      work[w].status = "processing" =>
        \E k \in Workers : work[w].lease = k /\ job[k].work = w

(* A risky draft reaches the sender only in a generation in which the owner *)
(* approved exactly this draft (ReplyGate, ConsumeReplyApproval): approvals *)
(* do not leak into the generation a resume starts.                          *)
RiskyOnlyWithApproval ==
  \A w \in Works : \A g \in Generations, d \in Risky :
    <<g, d>> \in delivered[w] => <<g, d>> \in approved[w]

(* Work that ends with a reply has one that Lark accepted in the current    *)
(* generation: a completed reply of an earlier generation never closes a    *)
(* later one, and a failed send never counts (ReadyPostReplyNotification,   *)
(* CompleteReplyAction and finishDecisionWithState).                         *)
ReplyClosesWork ==
  \A w \in Works :
    work[w].status = "completed" /\ work[w].decision = "reply" =>
      \E d \in Drafts : <<work[w].gen, d>> \in delivered[w]

(* Delegated work ends with a reply only after the owner was told of one in *)
(* the same generation, whichever of the notice and the reply failed, was   *)
(* retried or was cut short first (ensureOwnerNotification).                 *)
OwnerIsTold ==
  \A w \in Delegated :
    work[w].status = "completed" /\ work[w].decision = "reply" =>
      \E d \in Drafts : attempts[w][NoticeKey(w, d)] = "completed"

-----------------------------------------------------------------------------
(* Action properties.                                                        *)

(* A recorded result is final: no retry, recovery, resume or operator       *)
(* command turns a completed action back into one that may run or be sent.   *)
ResultsAreFinal ==
  [][\A w \in Works, key \in Keys :
       attempts[w][key] = "completed" => attempts'[w][key] = "completed"]_vars

(* A worker that lost its lease changes neither the work row nor the         *)
(* candidate of the work it still runs (the lease token every ...Claim       *)
(* method checks).                                                           *)
FencedWorkerIsHarmless ==
  [][\A k \in Workers :
       job'[k] # job[k] /\ daemon' = daemon /\ job[k].pc # "idle" /\ ~Holds(k) =>
         /\ work'[W(k)] = work[W(k)]
         /\ candidate'[W(k)] = candidate[W(k)]]_vars

(* Work whose interruption caught an action executing is not readmitted: no *)
(* start of the daemon and no resume makes it claimable while that record is *)
(* open, only the owner deciding a pending action of it does                 *)
(* (ConvergeInterruptedWork, ResumeWork, CancelWork, DecideAction).          *)
UncertainNotReadmitted ==
  [][\A w \in Works :
       Uncertain(w) /\ work'[w].status \in Claimable =>
         \E key \in Keys : /\ attempts[w][key] = "awaiting_approval"
                          /\ attempts'[w][key] = "ready"]_vars

(* Delegated context and unsent drafts do not survive a restart into        *)
(* runnable work: convergence and resume make such work claimable only with *)
(* the investigation archived and the draft withdrawn.  Only the owner       *)
(* deciding a pending action of it, of a reply or a command, leaves both.   *)
RestartArchivesContext ==
  [][\A w \in Works :
       /\ work[w].status = "interrupted" /\ work'[w].status \in Claimable
       /\ \A key \in Keys : attempts[w][key] = "awaiting_approval" => attempts'[w][key] # "ready"
       => ~Contextual(w)' /\ ~HasCandidate(w)']_vars

(* A session's work is handed over, never shared: while a daemon serves, no  *)
(* claim is of work another session interrupted or left behind, whatever     *)
(* commands of the CLI came before it.  There is one exception: a CLI that   *)
(* was opened in an earlier session resumes into that session (ResumeWork    *)
(* writes the id that loadActiveSession found), and the daemon claims such   *)
(* work until it is started again.  behavior.md:1291 says of an approval     *)
(* that it never makes work of a superseded session runnable, and the        *)
(* approval does not; of a resume it says nothing.                           *)
ClaimsOwnSession ==
  [][\A w \in Works :
       work[w].status # "processing" /\ work'[w].status = "processing" =>
         work[w].session = session \/ w \in strays]_vars

(* Terminal history stays terminal unless the owner resumes it, which opens *)
(* a new generation (behavior.md).                                           *)
TerminalIsFinal ==
  [][\A w \in Works :
       work[w].status \in Terminal /\ work'[w].status \notin Terminal =>
         work'[w].gen = work[w].gen + 1]_vars

-----------------------------------------------------------------------------
(* Claims of the documentation that the code does not keep.                  *)

(* An approved draft resumes without another model run: the claim that finds *)
(* it goes on to send it (ReadyApprovedReply).                               *)
ApprovedDraftResumes ==
  [][\A k \in Workers :
       /\ job[k].pc = "inspect" /\ job'[k].pc \notin {"inspect", "idle"}
       /\ ApprovedDrafts(W(k)) # {} /\ PostReplyNotices(W(k)) = {}
       => job'[k].granted]_vars

(* Work with an action that was executing at interruption is never replayed. *)
ExecutingNeverReplayed ==
  \A k \in Workers : job[k].pc = "send" => job[k].key \notin doubt[W(k)]

(* Work that waits for an approval has an action the owner can decide.      *)
AwaitingHasAction ==
  \A w \in Works : work[w].status = "awaiting_approval" => Awaiting(w)

-----------------------------------------------------------------------------
(* Liveness.                                                                 *)

(* Workers keep polling, external calls end (each has a timeout), and a     *)
(* daemon that is starting finishes its start.                               *)
Fairness ==
  /\ \A k \in Workers : WF_vars(WorkerStep(k))
  /\ WF_vars(StartupStep)

FairSpec == Spec /\ Fairness

Settled == Terminal \cup {"awaiting_approval", "interrupted"}

Up == {"starting", "recovering", "recovered", "ready", "running"}

(* If the daemon is neither stopped nor killed any more, every admitted work *)
(* item comes to rest: retries and deferrals are bounded, recovery leaves no *)
(* claim behind, and no path of RunOnce loses one.                           *)
EventuallySettled ==
  <>[](daemon.pc \in Up) => \A w \in Works : <>[](work[w].status \in Settled)

=============================================================================
