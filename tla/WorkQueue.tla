------------------------------ MODULE WorkQueue ------------------------------
(****************************************************************************)
(* The daemon that drains the durable queue: the scheduler workers running  *)
(* app.Daemon.RunOnce, the daemon process that starts, recovers, stops and  *)
(* crashes, and the operator commands of a CLI process that share the       *)
(* database.                                                                 *)
(*                                                                           *)
(* One worker action is one Store method or one external call, so a crash,  *)
(* an operator command or another worker may come between any two of them.  *)
(* The model, Lark, the router and the semantic resolver are external:      *)
(* their answers are chosen nondeterministically among what the code        *)
(* distinguishes.                                                            *)
(****************************************************************************)
EXTENDS WorkStore

CONSTANTS
  Delegated,       \* works whose sender addressed the owner (mention or private)
  Private,         \* the delegated works that came as a private message
  Risky,           \* drafts the gate holds for approval (risk, confidence or mode)
  Outcomes,        \* the decision kinds the model may submit
  ShellApproval,   \* options.ApprovalRequired of the shell tool
  Investigates,    \* the resolver may ask for a progress message first
  PolicyMayChange, \* a route recheck may withdraw the right to answer the sender
  NoWork,
  MaxCommands      \* bound: how many operator commands are issued

ASSUME QueueParameters ==
  /\ Private \subseteq Delegated /\ Delegated \subseteq Works
  /\ Risky \subseteq Drafts
  /\ Outcomes \subseteq {"reply", "request_approval", "ignore", "notify"}
  /\ ShellApproval \in BOOLEAN
  /\ Investigates \in BOOLEAN
  /\ PolicyMayChange \in BOOLEAN
  /\ NoWork \notin Works
  /\ MaxCommands \in Nat

VARIABLES
  job,        \* what each worker goroutine is doing
  daemon,     \* the daemon process
  runs,       \* external: how often each shell command was started
  delivered,  \* external: the replies Lark accepted, by idempotency key and text
  doubt,      \* history: rows that were executing when their process ended
  approved,   \* history: the draft approvals the owner gave, by generation
  commands,   \* operator commands issued so far
  strays      \* history: the works resumed into a session that was over, since
              \* the daemon last listed the work other sessions left

queueVars == <<job, daemon, runs, delivered, doubt, approved, commands, strays>>
vars == <<storeVars, queueVars>>

Pcs == {"idle", "inspect", "held", "route", "resolve", "inquire", "stage",
        "stage_send", "stage_sent", "stage_unsent", "investigate", "model",
        "tools", "shell", "shell_ran", "save", "final", "finalizing", "finish",
        "preflight", "notice", "notice_lease", "notify", "notified", "handle",
        "gate", "request", "refused", "begin_reply", "send", "sent", "unsent",
        "settle", "replied", "closing", "close", "defer", "permanent",
        "failed", "terminal"}

DaemonPcs == {"down", "starting", "recovering", "recovered", "ready",
              "running", "draining", "pausing", "paused"}

(* Daemon states in which the process exists and its workers may run.       *)
Serving == {"running", "draining"}

Idle == [pc |-> "idle", work |-> NoWork, active |-> FALSE, opened |-> FALSE,
         granted |-> FALSE, kind |-> "none", draft |-> NoItem, held |-> FALSE,
         notified |-> FALSE, key |-> NoKey, approval |-> NoKey, next |-> "idle"]

Job == [pc : Pcs, work : Works \cup {NoWork}, active : BOOLEAN, opened : BOOLEAN,
        granted : BOOLEAN, kind : DecisionKinds, draft : Drafts \cup {NoItem},
        held : BOOLEAN, notified : BOOLEAN, key : Keys \cup {NoKey},
        approval : Keys \cup {NoKey}, next : {"idle", "close", "handle", "closing"}]

(* What every program counter takes for granted of the rest of the job: the *)
(* job has a work item, a draft where one is sent, and an audit key where    *)
(* one is completed.                                                         *)
JobOK(row) ==
  /\ row \in Job
  /\ IF row.pc = "idle" THEN row = Idle ELSE row.work \in Works
  /\ row.pc = "inspect" => row.kind = "none"
  /\ \/ row.kind \in {"reply", "request_approval"}
     \/ row.pc \in {"held", "save", "preflight", "notice", "notice_lease", "notify",
                    "notified", "handle", "gate", "request", "begin_reply", "send", "sent",
                    "replied"}
     => row.draft \in Drafts
  /\ row.pc \in {"notice", "notice_lease", "notify", "notified"} => row.next # "idle"
  /\ row.pc \in {"stage", "stage_send", "stage_sent", "stage_unsent"} =>
       row.key.kind \in {"investigation_owner_notice", "investigation_progress"}
  /\ row.pc \in {"stage", "stage_send", "stage_sent", "stage_unsent", "shell", "shell_ran",
                 "notice_lease", "notify", "notified", "send", "sent", "unsent"} =>
       row.key \in Keys
  /\ row.pc \in {"shell", "shell_ran"} => \E c \in Commands : row.key = ShellKey(c)
  /\ row.pc = "send" => row.key.gen \in Generations
  /\ row.pc \in {"refused", "settle"} => row.approval \in Keys

QueueTypeOK ==
  /\ job \in [Workers -> Job] /\ \A k \in Workers : JobOK(job[k])
  /\ daemon \in [pc : DaemonPcs, listed : SUBSET Works]
  /\ runs \in [Works -> [Commands -> Nat]]
  /\ delivered \in [Works -> SUBSET (Generations \X Drafts)]
  /\ doubt \in [Works -> SUBSET Keys]
  /\ approved \in [Works -> SUBSET (Generations \X Drafts)]
  /\ commands \in 0..MaxCommands
  /\ strays \subseteq Works

TypeOK == StoreTypeOK /\ QueueTypeOK

(* Open has created and recovered the first session, and intake admitted    *)
(* the works before MarkCurrentSessionReady.                                 *)
Init ==
  /\ StoreInit
  /\ job = [k \in Workers |-> Idle]
  /\ daemon = [pc |-> "recovered", listed |-> {}]
  /\ runs = [w \in Works |-> [c \in Commands |-> 0]]
  /\ delivered = [w \in Works |-> {}]
  /\ doubt = [w \in Works |-> {}]
  /\ approved = [w \in Works |-> {}]
  /\ commands = 0
  /\ strays = {}

-----------------------------------------------------------------------------
(* Worker steps: control.                                                    *)

W(k) == job[k].work
At(k, pc) == daemon.pc \in Serving /\ job[k].pc = pc
Holds(k) == HoldsLease(W(k), k)

(* The worker's context ends at shutdown and when a lease refresh fails.    *)
ContextDone(k) == daemon.pc = "draining" \/ ~Holds(k)

worldVars == <<daemon, runs, delivered, doubt, approved, commands, strays>>

Goto(k, pc) == job' = [job EXCEPT ![k].pc = pc] /\ UNCHANGED worldVars
Become(k, row) == job' = [job EXCEPT ![k] = row] /\ UNCHANGED worldVars
Stop(k) == Become(k, Idle)
Read(k, row) == Become(k, row) /\ UNCHANGED storeVars
Fail(k) == Read(k, [job[k] EXCEPT !.pc = "failed"])

-----------------------------------------------------------------------------
(* Worker steps: claiming and choosing the path of RunOnce.                 *)

Claim(k) ==
  /\ daemon.pc = "running"
  /\ job[k].pc = "idle"
  /\ \E w \in Works :
       /\ ClaimNextForLane(w, k)
       /\ Become(k, [Idle EXCEPT !.pc = "inspect", !.work = w, !.active = Contextual(w)])

(* ReadyPostReplyNotification, ReadyApprovedReply and                       *)
(* ReadyWorkReplyCandidate, in this order; an approved draft of a private   *)
(* message is an error (validReplyApprovalRelevance).                       *)
Inspect(k) ==
  LET w == W(k)
      owed == PostReplyNotices(w)
      ready == ApprovedDrafts(w)
  IN  /\ At(k, "inspect")
      /\ \/ \E d \in owed :
              Read(k, [job[k] EXCEPT !.pc = "notice", !.kind = "reply", !.draft = d,
                                     !.next = "close"])
         \/ /\ owed = {} /\ ready # {}
            /\ IF w \in Private
               THEN Fail(k)
               ELSE \E d \in ready :
                      Read(k, [job[k] EXCEPT !.pc = "finish", !.granted = TRUE,
                                             !.kind = "reply", !.draft = d])
         \/ /\ owed = {} /\ ready = {}
            /\ Read(k, [job[k] EXCEPT !.pc = IF HasCandidate(w) THEN "held" ELSE "route",
                                      !.draft = IF HasCandidate(w) THEN candidate[w].draft
                                                                   ELSE NoItem])

(* What Router.Route returns once the current policy no longer answers the  *)
(* sender: nothing relevant, or an inferred relevance that is only recorded. *)
Withdrawn == IF PolicyMayChange THEN {"ignore", "record"} ELSE {}

(* Router.Route, UpdateWorkItemSchedulingClaim and RefreshLease.  Work that  *)
(* is only recorded still goes to the model; ignored work does not.          *)
Route(k) ==
  /\ At(k, "route")
  /\ \/ /\ Holds(k)
        /\ Read(k, [job[k] EXCEPT
                     !.pc = IF W(k) \in Delegated /\ ~job[k].active
                            THEN "resolve" ELSE "model"])
     \/ /\ Holds(k)
        /\ \E kind \in Withdrawn :
             Read(k, [job[k] EXCEPT
                        !.kind = kind,
                        !.pc = CASE kind = "record" -> "model"
                                 [] kind # "record" /\ job[k].active -> "final"
                                 [] OTHER -> "finish"])
     \/ ~Holds(k) /\ Fail(k)

(* An external call fails, the text of a reply does not render, or a call   *)
(* that takes the worker's context does after the context ended, before     *)
(* anything is stored.                                                       *)
Falter(k) ==
  /\ daemon.pc \in Serving
  /\ \/ job[k].pc \in {"route", "inquire", "model", "tools", "finish",
                       "preflight", "gate", "begin_reply", "closing"}
     \/ /\ job[k].pc \in {"stage", "notice", "request", "refused"}
        /\ ContextDone(k)
  /\ Fail(k)

-----------------------------------------------------------------------------
(* Worker steps: delegated resolution, investigation and held candidates.   *)

(* The first semantic check: defer, drop, give up, investigate or answer.   *)
Resolve(k) ==
  /\ At(k, "resolve")
  /\ \/ Read(k, [job[k] EXCEPT !.pc = "defer"])
     \/ Read(k, [job[k] EXCEPT !.pc = "finish", !.kind = "ignore"])
     \/ Read(k, [job[k] EXCEPT !.pc = "permanent"])
     \/ /\ Holds(k)
        /\ \/ Read(k, [job[k] EXCEPT !.pc = "model"])
           \/ Investigates /\ Read(k, [job[k] EXCEPT !.pc = "inquire"])
     \/ ~Holds(k) /\ Fail(k)

Defer(k) ==
  /\ At(k, "defer")
  /\ \/ /\ DeferWaitingUserClaim(W(k), k)
        /\ Goto(k, "terminal")
     \/ /\ ~Holds(k)
        /\ Read(k, Idle)

(* Controller.Begin: the durable row first, then the owner notice, then the *)
(* progress message, then pending_progress -> investigating.                *)
Inquire(k) ==
  /\ At(k, "inquire")
  /\ BeginDelegatedInvestigation(W(k))
  /\ IF inquiry[W(k)] = "blocked"
     THEN Goto(k, "failed")
     ELSE Become(k, [job[k] EXCEPT
                       !.pc = "stage",
                       !.opened = inquiry[W(k)] \in {"none", "pending_progress"},
                       !.key = StageKey(W(k), "investigation_owner_notice")])

AfterStage(k) ==
  IF job[k].key.kind = "investigation_owner_notice"
  THEN [job[k] EXCEPT !.pc = "stage", !.key = StageKey(W(k), "investigation_progress")]
  ELSE [job[k] EXCEPT !.pc = IF job[k].opened THEN "investigate" ELSE "model",
                      !.key = NoKey, !.active = ~job[k].opened]

StageBegin(k) ==
  /\ At(k, "stage")
  /\ LET w == W(k)
         key == StageKey(w, job[k].key.kind)
     IN  \/ /\ BeginInvestigationMessageAction(w, key.kind)
            /\ Become(k, [job[k] EXCEPT !.pc = "stage_send", !.key = key])
         \/ /\ attempts[w][key] = "completed"
            /\ Read(k, AfterStage(k))
         \/ /\ attempts[w][key] \notin {"none", "blocked", "completed"}
            /\ Fail(k)

StageSend(k) ==
  /\ At(k, "stage_send")
  /\ \E pc \in {"stage_sent", "stage_unsent"} : Read(k, [job[k] EXCEPT !.pc = pc])

(* Nothing but this worker moves the row while it is executing.              *)
StageRecord(k) ==
  LET w == W(k)
      key == job[k].key
  IN  \/ /\ At(k, "stage_sent")
         /\ CompleteAttempt(w, key, "completed")
         /\ Become(k, AfterStage(k))
      \/ /\ At(k, "stage_unsent")
         /\ CompleteAttempt(w, key, "blocked")
         /\ Goto(k, "failed")

Investigate(k) ==
  /\ At(k, "investigate")
  /\ IF inquiry[W(k)] = "pending_progress"
     THEN /\ SetInquiry(W(k), "investigating")
          /\ Become(k, [job[k] EXCEPT !.pc = "model", !.active = TRUE])
     ELSE Fail(k)

(* resolveHeldReplyCandidate: route and resolve again before the held text  *)
(* may go out.  Every outcome but the last one moves the candidate first.   *)
Held(k) ==
  LET w == W(k)
      Settle(status, row) ==
        \/ /\ TransitionWorkReplyCandidate(w, k, status)
           /\ Become(k, row)
        \/ /\ ~(Holds(k) /\ HasCandidate(w))
           /\ Fail(k)
  IN  /\ At(k, "held")
      /\ \/ Settle("held", [job[k] EXCEPT !.pc = "defer"])
         \/ Settle("cancelled", [job[k] EXCEPT !.pc = "defer"])
         \/ Settle("cancelled", [job[k] EXCEPT !.pc = "permanent"])
         \/ Settle("cancelled", [job[k] EXCEPT !.pc = "finish", !.kind = "ignore"])
         \/ \E kind \in Withdrawn :
              Settle("cancelled", [job[k] EXCEPT !.pc = "finish", !.kind = kind])
         \/ Fail(k)
         \/ Read(k, [job[k] EXCEPT !.pc = "finish", !.kind = "reply", !.held = TRUE])

-----------------------------------------------------------------------------
(* Worker steps: the model run and its shell tool.                          *)

StartRun(k) ==
  /\ At(k, "model")
  /\ StartAgentRun(W(k))
  /\ Goto(k, "tools")

(* A command that needs approval is consumed when the owner approved it and *)
(* requested otherwise; any other command runs when it has no audit row.    *)
CallShell(k) ==
  LET w == W(k) IN
  /\ At(k, "tools")
  /\ \E c \in Commands :
       \/ /\ \/ ShellApproval /\ ConsumeShellApproval(w, c)
             \/ ~ShellApproval /\ BeginShellAction(w, c)
          /\ Become(k, [job[k] EXCEPT !.pc = "shell", !.key = ShellKey(c)])
       \/ /\ ShellApproval
          /\ attempts[w][ShellKey(c)] # "ready"
          /\ RequestShellApproval(w, c)
          /\ Goto(k, "tools")

RunShell(k) ==
  /\ At(k, "shell")
  /\ runs' = [runs EXCEPT ![W(k)][job[k].key.item] = @ + 1]
  /\ job' = [job EXCEPT ![k].pc = "shell_ran"]
  /\ UNCHANGED <<storeVars, daemon, delivered, doubt, approved, commands, strays>>

(* The result is recorded with the run's own context.                       *)
RecordShell(k) ==
  LET w == W(k) IN
  /\ At(k, "shell_ran")
  /\ \/ \E status \in {"completed", "blocked"} :
          /\ CompleteAttempt(w, job[k].key, status)
          /\ Become(k, [job[k] EXCEPT !.pc = "tools", !.key = NoKey])
     \/ /\ ContextDone(k) \/ attempts[w][job[k].key] # "executing"
        /\ Fail(k)

(* submit_decision.  An assistant-facing request may not end in notify; a   *)
(* reply of an investigation is saved as a candidate first.                 *)
Decide(k) ==
  /\ At(k, "tools")
  /\ \E kind \in Outcomes, d \in Drafts :
       IF kind = "notify" /\ W(k) \notin Delegated
       THEN Fail(k)
       ELSE Read(k, [job[k] EXCEPT
                       !.kind = kind,
                       !.draft = IF kind \in {"reply", "request_approval"} THEN d ELSE NoItem,
                       !.pc = IF ~job[k].active THEN "finish"
                              ELSE IF kind = "reply" THEN "save" ELSE "final"])

SaveCandidate(k) ==
  /\ At(k, "save")
  /\ \/ /\ SaveWorkReplyCandidate(W(k), k, job[k].draft)
        /\ Become(k, [job[k] EXCEPT !.pc = "final", !.held = TRUE])
     \/ ~Holds(k) /\ Fail(k)

(* The semantic check after the investigation: hold and defer, cancel and   *)
(* drop or give up, or go on with the decision.                             *)
FinalResolve(k) ==
  LET w == W(k)
      Settle(status, row) ==
        IF ~job[k].held THEN Read(k, row)
        ELSE \/ /\ TransitionWorkReplyCandidate(w, k, status)
                /\ Become(k, row)
             \/ /\ ~(Holds(k) /\ HasCandidate(w))
                /\ Fail(k)
  IN  /\ At(k, "final")
      /\ \/ Settle("held", [job[k] EXCEPT !.pc = "defer"])
         \/ Settle("cancelled", [job[k] EXCEPT !.pc = "permanent"])
         \/ Settle("cancelled", [job[k] EXCEPT !.pc = "finalizing", !.kind = "ignore",
                                               !.draft = NoItem, !.held = FALSE])
         \/ Read(k, [job[k] EXCEPT !.pc = "finalizing"])
         \/ ~job[k].held /\ Fail(k)

Finalize(k) ==
  /\ At(k, "finalizing")
  /\ \/ /\ MarkDelegatedInvestigationFinalizing(W(k))
        /\ Goto(k, "finish")
     \/ /\ ~CanFinalize(W(k))
        /\ Fail(k)

-----------------------------------------------------------------------------
(* Worker steps: finishDecisionWithState.                                    *)

SenderFacing(k) == job[k].kind \in {"reply", "request_approval"}

(* The route is checked again before anything faces the sender; a withdrawn *)
(* route blocks the approved draft and drops the decision.                  *)
Finish(k) ==
  LET w == W(k)
      d == job[k].draft
      NoticeFirst == /\ job[k].kind = "reply" /\ w \in Delegated
                     /\ job[k].granted \/ d \notin Risky
  IN  /\ At(k, "finish")
      /\ \/ ~Holds(k) /\ Fail(k)
         \/ /\ Holds(k)
            /\ Read(k, [job[k] EXCEPT !.pc = IF NoticeFirst THEN "preflight"
                                             ELSE IF SenderFacing(k) THEN "handle"
                                             ELSE "closing"])
         \/ /\ Holds(k) /\ SenderFacing(k)
            /\ \E kind \in Withdrawn :
                 LET dropped == [job[k] EXCEPT !.pc = "closing", !.kind = kind]
                 IN  \/ ~job[k].granted /\ Read(k, dropped)
                     \/ /\ job[k].granted
                        /\ \E e \in ApprovedDrafts(w) :
                             /\ BlockReadyReplyApprovalClaim(w, k, e)
                             /\ Become(k, dropped)
                     \/ job[k].granted /\ ApprovedDrafts(w) = {} /\ Fail(k)

(* Preflight asks the gate whether the reply would be sent now.             *)
Preflight(k) ==
  /\ At(k, "preflight")
  /\ \/ Read(k, [job[k] EXCEPT !.pc = "notice", !.next = "handle"])
     \/ Read(k, [job[k] EXCEPT !.pc = "handle"])

(* ensureOwnerNotification: a completed notice is not repeated.             *)
NoticeBegin(k) ==
  LET w == W(k)
      key == NoticeKey(w, job[k].draft)
  IN  /\ At(k, "notice")
      /\ \/ /\ BeginPostReplyNotification(w, job[k].draft)
            /\ Become(k, [job[k] EXCEPT !.pc = "notice_lease", !.key = key])
         \/ /\ attempts[w][key] = "completed"
            /\ Read(k, [job[k] EXCEPT !.pc = job[k].next, !.notified = TRUE])

(* A lost lease leaves the notice executing.                                *)
NoticeLease(k) ==
  /\ At(k, "notice_lease")
  /\ IF ContextDone(k) THEN Fail(k) ELSE Read(k, [job[k] EXCEPT !.pc = "notify"])

Notify(k) ==
  LET w == W(k) IN
  /\ At(k, "notify")
  /\ \/ Read(k, [job[k] EXCEPT !.pc = "notified"])
     \/ /\ CompleteAttempt(w, job[k].key, "blocked")
        /\ Goto(k, "failed")
     \/ attempts[w][job[k].key] # "executing" /\ Fail(k)

Notified(k) ==
  LET w == W(k) IN
  /\ At(k, "notified")
  /\ \/ /\ CompleteAttempt(w, job[k].key, "completed")
        /\ Become(k, [job[k] EXCEPT !.pc = job[k].next, !.notified = TRUE, !.key = NoKey])
     \/ /\ ContextDone(k) \/ attempts[w][job[k].key] # "executing"
        /\ Fail(k)

Handle(k) ==
  /\ At(k, "handle")
  /\ IF ContextDone(k) THEN Fail(k) ELSE Read(k, [job[k] EXCEPT !.pc = "gate"])

(* Mutant: only an explicit request for approval is held.                    *)
VerdictsTrusting(k) ==
  IF job[k].kind = "request_approval"
  THEN {"awaiting_approval", "cancelled"} ELSE {"ready", "cancelled"}

(* What ReplyGate.Prepare may answer: a decision that asks for approval or  *)
(* is risky waits for it, unless the owner approved this exact draft.       *)
Verdicts(k) ==
  IF \/ job[k].kind = "request_approval"
     \/ job[k].draft \in Risky /\ ~job[k].granted
  THEN {"awaiting_approval", "cancelled"}
  ELSE {"ready", "cancelled"}

(* Prepare, then ConsumeReplyApproval; a cancelled verdict consumes only    *)
(* what was decided in approval mode.                                        *)
Gate(k) ==
  LET w == W(k)
      d == job[k].draft
      key == ApprovalKey(w, d)
  IN  /\ At(k, "gate")
      /\ \E verdict \in Verdicts(k) :
           \/ /\ verdict # "cancelled" \/ job[k].granted \/ d \in Risky
              /\ ConsumeReplyApproval(w, d)
              /\ Become(k, [job[k] EXCEPT !.approval = key,
                              !.pc = IF verdict = "cancelled" THEN "refused"
                                                              ELSE "begin_reply"])
           \/ /\ verdict = "cancelled"
              /\ ~job[k].granted \/ attempts[w][key] # "ready"
              /\ Read(k, [job[k] EXCEPT !.pc = "closing", !.kind = "ignore"])
           \/ /\ verdict = "awaiting_approval" /\ attempts[w][key] # "ready"
              /\ Read(k, [job[k] EXCEPT !.pc = "request"])
           \/ /\ verdict = "ready" /\ attempts[w][key] # "ready"
              /\ IF job[k].granted
                 THEN Fail(k)
                 ELSE Read(k, [job[k] EXCEPT !.pc = "begin_reply"])

(* RequestReplyApproval; the approval notice to the owner may still fail.   *)
RequestReply(k) ==
  /\ At(k, "request")
  /\ RequestReplyApproval(W(k), job[k].draft)
  /\ Become(k, [job[k] EXCEPT !.pc = "closing", !.kind = "request_approval"])

Refuse(k) ==
  /\ At(k, "refused")
  /\ \/ /\ CompleteAttempt(W(k), job[k].approval, "blocked")
        /\ Become(k, [job[k] EXCEPT !.pc = "closing", !.kind = "ignore"])
     \/ attempts[W(k)][job[k].approval] # "executing" /\ Fail(k)

(* A reply this generation already delivered is not sent again.             *)
BeginReply(k) ==
  LET w == W(k) IN
  /\ At(k, "begin_reply")
  /\ \/ /\ BeginReplyAction(w)
        /\ Become(k, [job[k] EXCEPT !.pc = "send", !.key = ReplyKey(w)])
     \/ /\ attempts[w][ReplyKey(w)] = "completed"
        /\ Read(k, [job[k] EXCEPT !.pc = "replied", !.kind = "reply"])

(* Lark keeps one message per idempotency key; the answer may be lost.      *)
Send(k) ==
  LET w == W(k)
      gen == job[k].key.gen
      accept == delivered' = [delivered EXCEPT ![w] =
                  IF \E d \in Drafts : <<gen, d>> \in @ THEN @ ELSE @ \cup {<<gen, job[k].draft>>}]
  IN  /\ At(k, "send")
      /\ \/ accept /\ job' = [job EXCEPT ![k].pc = "sent"]
         \/ /\ accept \/ UNCHANGED delivered
            /\ job' = [job EXCEPT ![k].pc = "unsent"]
      /\ UNCHANGED <<storeVars, daemon, runs, doubt, approved, commands, strays>>

RecordSent(k) ==
  LET w == W(k) IN
  /\ At(k, "sent")
  /\ \/ /\ CompleteAttempt(w, job[k].key, "completed")
        /\ Become(k, [job[k] EXCEPT !.pc = IF job[k].approval = NoKey
                                           THEN "replied" ELSE "settle", !.kind = "reply"])
     \/ /\ ContextDone(k) \/ attempts[w][job[k].key] # "executing"
        /\ Fail(k)

RecordUnsent(k) ==
  LET w == W(k)
      next == IF job[k].approval = NoKey THEN "failed" ELSE "settle"
  IN  /\ At(k, "unsent")
      /\ \/ /\ CompleteAttempt(w, job[k].key, "blocked")
            /\ Become(k, [job[k] EXCEPT !.pc = next, !.kind = "none"])
         \/ /\ attempts[w][job[k].key] # "executing"
            /\ Read(k, [job[k] EXCEPT !.pc = next, !.kind = "none"])

(* CompleteReplyApproval, after a send (kind = reply) or a failed one.      *)
Settle(k) ==
  LET w == W(k)
      sent == job[k].kind = "reply"
      next == IF sent THEN "replied" ELSE "failed"
  IN  /\ At(k, "settle")
      /\ \/ /\ CompleteAttempt(w, job[k].approval, IF sent THEN "completed" ELSE "blocked")
            /\ Goto(k, next)
         \/ /\ \/ sent /\ ContextDone(k)
               \/ attempts[w][job[k].approval] # "executing"
            /\ Fail(k)

(* Mutant: the owner is told only where the notice came first.               *)
RepliedSilently(k) ==
  /\ At(k, "replied")
  /\ Read(k, [job[k] EXCEPT !.pc = "closing"])

Replied(k) ==
  /\ At(k, "replied")
  /\ Read(k, [job[k] EXCEPT
                !.pc = IF W(k) \in Delegated /\ ~job[k].notified THEN "notice" ELSE "closing",
                !.next = "closing"])

(* The investigation ends before the work does.                             *)
Closing(k) ==
  LET w == W(k)
      ends == job[k].active /\ job[k].kind \in {"reply", "ignore"}
  IN  /\ At(k, "closing")
      /\ \/ /\ ends
            /\ CompleteDelegatedInvestigation(w)
            /\ Goto(k, "close")
         \/ /\ ends /\ ~CanCompleteInquiry(w)
            /\ Fail(k)
         \/ /\ ~ends
            /\ Read(k, [job[k] EXCEPT !.pc = "close"])

(* A failure here returns without a retry mark.                             *)
Close(k) ==
  LET w == W(k)
      kind == job[k].kind
  IN  /\ At(k, "close")
      /\ \/ /\ ~job[k].held
            /\ CompleteClaim(w, k, kind)
            /\ Stop(k)
         \/ /\ job[k].held /\ kind = "reply"
            /\ CompleteReplyCandidateClaim(w, k, kind)
            /\ Stop(k)
         \/ /\ job[k].held /\ kind # "reply"
            /\ TransitionWorkReplyCandidate(w, k, "cancelled")
            /\ Become(k, [job[k] EXCEPT !.held = FALSE])
         \/ /\ ~Holds(k) \/ (job[k].held /\ ~HasCandidate(w))
            /\ Read(k, Idle)

(* markRetry, or markPermanentFailure for a permanent error; both do        *)
(* nothing without the lease.                                                *)
Failed(k) ==
  LET w == W(k) IN
  /\ At(k, "failed")
  /\ \/ MarkRetryClaim(w, k) /\ Goto(k, "terminal")
     \/ MarkDeadLetterClaim(w, k) /\ Goto(k, "terminal")
     \/ ~Holds(k) /\ Read(k, [job[k] EXCEPT !.pc = "terminal"])

Permanent(k) ==
  /\ At(k, "permanent")
  /\ \/ MarkDeadLetterClaim(W(k), k) /\ Goto(k, "terminal")
     \/ ~Holds(k) /\ Fail(k)

(* notifyTerminalFailure blocks the investigation of dead-letter work.      *)
TerminalFailure(k) ==
  /\ At(k, "terminal")
  /\ IF work[W(k)].status = "dead_letter"
     THEN BlockDelegatedInvestigation(W(k))
     ELSE UNCHANGED storeVars
  /\ Stop(k)

WorkerStep(k) ==
  \/ Claim(k) \/ Inspect(k) \/ Route(k) \/ Resolve(k) \/ Defer(k)
  \/ Inquire(k) \/ StageBegin(k) \/ StageSend(k) \/ StageRecord(k) \/ Investigate(k)
  \/ Held(k) \/ StartRun(k) \/ CallShell(k) \/ RunShell(k) \/ RecordShell(k)
  \/ Decide(k) \/ SaveCandidate(k) \/ FinalResolve(k) \/ Finalize(k)
  \/ Finish(k) \/ Preflight(k) \/ NoticeBegin(k) \/ NoticeLease(k) \/ Notify(k)
  \/ Notified(k) \/ Handle(k) \/ Gate(k) \/ RequestReply(k) \/ Refuse(k)
  \/ BeginReply(k) \/ Send(k) \/ RecordSent(k) \/ RecordUnsent(k) \/ Settle(k)
  \/ Replied(k) \/ Closing(k) \/ Close(k) \/ Failed(k) \/ Permanent(k)
  \/ TerminalFailure(k) \/ Falter(k)

-----------------------------------------------------------------------------
(* The daemon process.                                                       *)

Phase(pc) == /\ daemon' = [daemon EXCEPT !.pc = pc]
             /\ UNCHANGED <<job, runs, delivered, doubt, approved, commands, strays>>

Start ==
  /\ daemon.pc = "down"
  /\ CreateOnlineSession
  /\ Phase("starting")

(* RecoverInterruptedWork lists the works first and writes them afterwards; *)
(* PauseCurrentSessionWork does the same at shutdown.                       *)
ListPriorWork ==
  /\ daemon.pc = "starting"
  /\ ReadmitPristineWaiting
  /\ daemon' = [pc |-> "recovering", listed |-> PriorWork]
  /\ strays' = {}
  /\ UNCHANGED <<job, runs, delivered, doubt, approved, commands>>

ListCurrentWork ==
  /\ daemon.pc = "draining"
  /\ \A k \in Workers : job[k] = Idle
  /\ daemon' = [pc |-> "pausing", listed |-> CurrentWork]
  /\ UNCHANGED <<storeVars, job, runs, delivered, doubt, approved, commands, strays>>

Interrupt ==
  /\ daemon.pc \in {"recovering", "pausing"}
  /\ InterruptSessionWork(daemon.listed)
  /\ daemon' = [pc |-> IF daemon.pc = "recovering" THEN "recovered" ELSE "paused",
                listed |-> {}]
  /\ doubt' = [w \in Works |-> IF w \in daemon.listed
                               THEN doubt[w] \cup {key \in Keys : attempts[w][key] = "executing"}
                               ELSE doubt[w]]
  /\ UNCHANGED <<job, runs, delivered, approved, commands, strays>>

MarkReady == daemon.pc = "recovered" /\ MarkCurrentSessionReady /\ Phase("ready")
Converge  == daemon.pc = "ready" /\ ConvergeInterruptedWork /\ Phase("running")

Shutdown == daemon.pc = "running" /\ Phase("draining") /\ UNCHANGED storeVars

(* The Store is closed on every orderly exit: after the pause, after a      *)
(* shutdown of a daemon that has no lifecycle controller and pauses nothing, *)
(* or because the poll, convergence or a notice failed during the start.     *)
StopSession ==
  /\ \/ daemon.pc \in {"recovered", "ready", "paused"}
     \/ daemon.pc = "draining" /\ \A k \in Workers : job[k] = Idle
  /\ StopCurrentSession
  /\ Phase("down")

(* The process ends between any two steps.                                   *)
Crash ==
  /\ daemon.pc # "down"
  /\ daemon' = [pc |-> "down", listed |-> {}]
  /\ job' = [k \in Workers |-> Idle]
  /\ UNCHANGED <<storeVars, runs, delivered, doubt, approved, commands, strays>>

StartupStep == Start \/ ListPriorWork \/ (Interrupt /\ daemon.pc = "recovering")
               \/ MarkReady \/ Converge
DaemonStep == Start \/ ListPriorWork \/ ListCurrentWork \/ Interrupt \/ MarkReady
              \/ Converge \/ Shutdown \/ StopSession \/ Crash

-----------------------------------------------------------------------------
(* Operator commands of a CLI process (OpenInspection).                     *)

Command == /\ commands < MaxCommands
           /\ commands' = commands + 1
           /\ UNCHANGED <<job, daemon, runs, delivered, doubt>>

Approvable == ApprovalKeys \cup ShellKeys

DecideApproval(w) ==
  \E key \in Approvable, approve \in BOOLEAN :
    /\ DecideAction(w, key, approve)
    /\ approved' = IF approve /\ key \in ApprovalKeys
                   THEN [approved EXCEPT ![w] = @ \cup {<<key.gen, key.item>>}]
                   ELSE approved
    /\ UNCHANGED strays
    /\ Command

(* The session is the one the CLI found when it was opened; it may be over  *)
(* by the time the command runs.                                             *)
ResumeIn(w, s, force) ==
  /\ ResumeWork(w, s, force)
  /\ strays' = IF s = session THEN strays \ {w} ELSE strays \cup {w}
  /\ UNCHANGED approved
  /\ Command

(* Mutant: a resume is not refused when no session is open.                  *)
ResumeUnattached(w) ==
  \E s \in OpenedSessions \cup {ActiveSession}, force \in BOOLEAN : ResumeIn(w, s, force)

Resume(w) == \E s \in OpenedSessions, force \in BOOLEAN : ResumeIn(w, s, force)

Cancel(w) == CancelWork(w) /\ UNCHANGED <<approved, strays>> /\ Command

Retry(w) ==
  /\ \E s \in OpenedSessions : RetryWorkItem(w, s)
  /\ UNCHANGED <<approved, strays>>
  /\ Command

OperatorStep(w) == DecideApproval(w) \/ Resume(w) \/ Cancel(w) \/ Retry(w)

-----------------------------------------------------------------------------

Next == \/ \E k \in Workers : WorkerStep(k)
        \/ DaemonStep
        \/ \E w \in Works : OperatorStep(w)

Spec == Init /\ [][Next]_vars

=============================================================================
