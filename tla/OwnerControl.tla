---------------------------- MODULE OwnerControl ----------------------------
(***************************************************************************)
(* The owner's control plane: commands the owner sends to the assistant as *)
(* private messages, in slash syntax or in plain words, and the queue      *)
(* commands of the CLI, over the work queue of WorkStore.                  *)
(*                                                                         *)
(* A command message is itself claimed, answered and completed like other  *)
(* work; ExecuteOwnerMutation journals and applies its command in one      *)
(* transaction, the answer comes later and may fail.  The works that the   *)
(* commands are about run beside it, reduced to claim, approval request,   *)
(* reply, investigation, held draft and failure; how an investigated work  *)
(* is answered, and the orderly shutdown, are in WorkQueue.                 *)
(***************************************************************************)
EXTENDS WorkStore

TypedNames == {"retry", "resume", "cancel", "acknowledge", "reconcile", "approve", "reject"}
SaidNames == TypedNames \cup {"memory_add", "memory_delete", "memory_confirm", "memory_reject", "show"}

CONSTANTS
    Asks,        \* the command messages of the owner
    Earlier,     \* the message an existing memory entry was taken from
    Given(_),    \* bound: the commands the owner gives in an instance
    Scopes       \* bound: what one behaviour may contain; each is of one scope

\* The messages that are sent and the commands in them, the works that are investigated,
\* the commands typed on the command line and how many, and the sessions of the daemon.
Scope == [asks : SUBSET Asks, said : SUBSET SaidNames, delegated : SUBSET Works,
          typed : SUBSET TypedNames, cli : Nat, starts : SessionIds]

ASSUME OwnerParameters == Earlier \notin Asks /\ Scopes \subseteq Scope

VARIABLES
    scope,       \* the scope of this behaviour
    ask,         \* the command messages: what is done, asked for and answered
    journal,     \* owner_control_commands: the messages whose command is committed
    resolved,    \* owner_work_resolutions of the present version of each work
    memory,      \* memory_entries
    job,         \* what the worker does with each work
    daemon,      \* the daemon process
    listed,      \* the works recovery has listed and not yet interrupted
    notices,     \* the notice about each work that convergence reported, until it is told
    sending,     \* the notice that is on its way to the owner
    applied,     \* history: how often each message changed the store
    cli          \* commands given on the command line so far

ownerVars == <<scope, ask, journal, resolved, memory, job, daemon, listed, notices, sending,
               applied, cli>>
vars == <<storeVars, ownerVars>>

Dispositions == {"completed", "not_completed", "unknown"}
NoCommand == [name |-> "none"]

TaskCommands ==
    [name : {"retry", "cancel", "acknowledge"}, work : Works]
    \cup [name : {"resume"}, work : Works, confirm : BOOLEAN]
    \cup [name : {"reconcile"}, work : Works, disposition : Dispositions]
ApprovalCommands == [name : {"approve", "reject"}, work : Works, key : ApprovalKeys]
MemoryCommands == [name : {"memory_add"}]
                  \cup [name : {"memory_delete", "memory_confirm", "memory_reject"}, of : Asks \cup {Earlier}]
Reports == [name : {"show"}]     \* the commands that only read, as one
OwnerCommands == TaskCommands \cup ApprovalCommands \cup MemoryCommands \cup Reports
CliCommands == TaskCommands \cup ApprovalCommands
Notices == [work : Works, key : ResolutionKeys]

Init ==
    /\ StoreInit
    /\ ask = [a \in Asks |-> [pc |-> "unsent", plain |-> FALSE, command |-> NoCommand, text |-> "",
                              told |-> "", replied |-> FALSE]]
    /\ journal = {}
    /\ resolved = [w \in Works |-> "none"]
    /\ memory = {[of |-> Earlier, status |-> "candidate", live |-> TRUE]}
    /\ job = [w \in Works |-> "idle"]
    /\ daemon = "recovered"
    /\ listed = {}
    /\ notices = [w \in Works |-> NoKey]
    /\ sending = {}
    /\ applied = [a \in Asks |-> 0]
    /\ cli = 0
    /\ scope \in Scopes

-----------------------------------------------------------------------------
(* What the owner sees.                                                      *)

\* Every write of a work item moves updated_at, and a resolution counts only for
\* the version it was recorded for.
Outdated == [w \in Works |-> IF work'[w] = work[w] THEN resolved[w] ELSE "none"]
Touch == resolved' = Outdated

ActionView(w) ==
    /\ work[w].status \in {"awaiting_approval", "interrupted", "dead_letter"}
    /\ resolved[w] \notin {"acknowledged", "completed", "unknown"}

Live(a) == \E row \in memory : row.of = a /\ row.live

\* What the semantic resolver offers the model, and ValidateSemanticCommand
\* accepts back; the first twenty of each list, which bounds here never reach.
Candidate(c) ==
    \/ c \in TaskCommands /\ ActionView(c.work)
    \/ c \in ApprovalCommands /\ attempts[c.work][c.key] = "awaiting_approval"
    \/ c.name \in {"memory_add", "show"}
    \/ c \in MemoryCommands \ [name : {"memory_add"}] /\ Live(c.of)

\* The commands a listed work is shown with.
Offered(w) ==
    CASE Uncertain(w) -> [name : {"reconcile"}, work : {w}, disposition : Dispositions]
      [] ~Uncertain(w) /\ newest[w] \in ApprovalKeys /\ attempts[w][newest[w]] = "awaiting_approval" ->
           [name : {"approve", "reject"}, work : {w}, key : {newest[w]}]
      [] OTHER ->
           CASE work[w].status = "interrupted" ->
                  {[name |-> "resume", work |-> w, confirm |-> FALSE], [name |-> "cancel", work |-> w]}
             [] work[w].status = "dead_letter" ->
                  {[name |-> "resume", work |-> w, confirm |-> TRUE], [name |-> "acknowledge", work |-> w]}
             [] OTHER -> {}

-----------------------------------------------------------------------------
(* One mutation each: the condition under which it is not refused, then the  *)
(* effect.  A refusal rolls the transaction back, the journal row with it.   *)

RetryAccepted(w) ==
    /\ work[w].status = "retry_wait"
    /\ work[w].session = session
    /\ ~HasAttempt(w, {key.kind : key \in Keys}, {"executing", "blocked"})
    /\ ~Uncertain(w)

\* Mutant: the work is made ready, the word for an approved action.
RetryAsReady(w) ==
    SetWork(w, [Unleased(work[w], "ready")
                  EXCEPT !.retry = 0, !.ownerRetry = 0, !.decision = "none"])

RetryOwnerWork(w) ==
    SetWork(w, [Unleased(work[w], "received")
                  EXCEPT !.retry = 0, !.ownerRetry = 0, !.decision = "none"])

ResumeAccepted(w, confirm) ==
    /\ CurrentStatus # "stopped"
    /\ Resumable(w, confirm)

Drop(w, states, row, extra) ==
    /\ attempts' = [attempts EXCEPT ![w] =
         [key \in Keys |-> IF key \in extra THEN "completed"
                           ELSE IF attempts[w][key] \in states THEN "cancelled"
                           ELSE attempts[w][key]]]
    /\ newest' = [newest EXCEPT ![w] = IF extra = {} THEN @ ELSE CancelKey]
    /\ work' = [work EXCEPT ![w] = row]
    /\ snapshots' = [snapshots EXCEPT ![w] = {}]
    /\ UNCHANGED <<ran, candidate, inquiry, sessions, session>>

\* Like CancelWork of the CLI, but the reply candidate and the investigation stay.
CancelAccepted(w) == Cancellable(w)

CancelOwnerWork(w) ==
    Drop(w, {"awaiting_approval", "ready"}, Unleased(work[w], "cancelled"), {CancelKey})

AcknowledgeAccepted(w) == work[w].status \in Terminal \cup {"interrupted"}

\* Mutant: acknowledged work keeps its status and its waiting approvals.
AcknowledgeNoted(w) == UNCHANGED storeVars

AcknowledgeOwnerWork(w) ==
    Drop(w, {"awaiting_approval", "ready"},
         IF work[w].status = "interrupted" THEN Unleased(work[w], "cancelled") ELSE work[w], {})

\* The action is the one written last, and it is executing still although the
\* interruption is recorded: recovery blocks it in the same transaction.
ReconcileAccepted(w) ==
    /\ Uncertain(w)
    /\ Executing(w)

ReconcileOwnerWork(w, disposition) ==
    /\ \E key \in {x \in Keys : attempts[w][x] = "executing"} :
         attempts' = [attempts EXCEPT ![w][key] =
           CASE disposition = "completed" -> "completed"
             [] disposition = "not_completed" -> "cancelled"
             [] OTHER -> "blocked"]
    /\ work' = [work EXCEPT ![w] =
         Unleased(@, CASE disposition = "completed" -> "completed"
                       [] disposition = "not_completed" -> "interrupted"
                       [] OTHER -> "dead_letter")]
    /\ snapshots' = [snapshots EXCEPT ![w] = {}]
    /\ UNCHANGED <<newest, ran, candidate, inquiry, sessions, session>>

\* Unlike DecideAction, an approval closes the interruption in every case.
DecideOwnerApproval(w, key, approve) ==
    LET s == ActiveSession
        ready == s # 0 /\ sessions[IF s = 0 THEN 1 ELSE s] = "ready"
    IN  /\ attempts' = [attempts EXCEPT ![w][key] = IF approve THEN "ready" ELSE "cancelled"]
        /\ work' = [work EXCEPT ![w] =
             IF ~approve THEN Unleased(@, "cancelled")
             ELSE IF ready THEN [Unleased(@, "received") EXCEPT !.session = s]
             ELSE Unleased(@, "interrupted")]
        /\ snapshots' = [snapshots EXCEPT ![w] = IF approve THEN {} ELSE @]
        /\ UNCHANGED <<newest, ran, candidate, inquiry, sessions, session>>

Accepted(c) ==
    \/ c.name = "retry" /\ RetryAccepted(c.work)
    \/ c.name = "resume" /\ ResumeAccepted(c.work, c.confirm)
    \/ c.name = "cancel" /\ CancelAccepted(c.work)
    \/ c.name = "acknowledge" /\ AcknowledgeAccepted(c.work)
    \/ c.name = "reconcile" /\ ReconcileAccepted(c.work)
    \/ c \in ApprovalCommands /\ attempts[c.work][c.key] = "awaiting_approval"
    \/ c.name = "memory_add"
    \/ c.name = "memory_delete" /\ Live(c.of)
    \/ c.name = "memory_reject" /\ Live(c.of)
    \/ c.name = "memory_confirm" /\ \E row \in memory : row.of = c.of

\* Acknowledging and reconciling record a resolution of the version they write.
Resolve(c) ==
    resolved' = CASE c.name = "acknowledge" -> [Outdated EXCEPT ![c.work] = "acknowledged"]
                  [] c.name = "reconcile" -> [Outdated EXCEPT ![c.work] = c.disposition]
                  [] OTHER -> Outdated

MutateWork(c, s) ==
    /\ c.name = "resume" => work[c.work].gen < MaxGeneration
    /\ \/ c.name = "retry" /\ RetryOwnerWork(c.work)
       \/ c.name = "resume" /\ ResumeWork(c.work, s, c.confirm)
       \/ c.name = "cancel" /\ CancelOwnerWork(c.work)
       \/ c.name = "acknowledge" /\ AcknowledgeOwnerWork(c.work)
       \/ c.name = "reconcile" /\ ReconcileOwnerWork(c.work, c.disposition)
       \/ c \in ApprovalCommands /\ DecideOwnerApproval(c.work, c.key, c.name = "approve")
    /\ Resolve(c)
    /\ UNCHANGED memory

\* A deleted entry is confirmed back to life; a candidate is not used until then.
MutateMemory(c, a) ==
    /\ memory' =
         CASE c.name = "memory_add" -> memory \cup {[of |-> a, status |-> "confirmed", live |-> TRUE]}
           [] c.name = "memory_confirm" ->
                {IF row.of = c.of THEN [row EXCEPT !.status = "confirmed", !.live = TRUE] ELSE row :
                   row \in memory}
           [] OTHER -> {IF row.of = c.of THEN [row EXCEPT !.live = FALSE] ELSE row : row \in memory}
    /\ UNCHANGED <<storeVars, resolved>>

-----------------------------------------------------------------------------
(* The command message: claimed, handled, answered.                          *)

Serving == daemon = "running"
Set(a, row) == ask' = [ask EXCEPT ![a] = row]
At(a, pc) == Serving /\ ask[a].pc = pc
daemonVars == <<daemon, listed, notices, sending>>
only == UNCHANGED <<scope, storeVars, journal, resolved, memory, job, daemonVars, applied, cli>>
Goto(a, pc) == Set(a, [ask[a] EXCEPT !.pc = pc]) /\ only

Requeued(a) == [ask[a] EXCEPT !.pc = "queued", !.text = "",
                              !.command = IF ask[a].plain THEN NoCommand ELSE @]
Over(a, pc) == [ask[a] EXCEPT !.pc = pc, !.command = NoCommand, !.text = ""]

Answer(a, text) == Set(a, [ask[a] EXCEPT !.pc = "handled", !.text = text,
                                         !.command = IF ask[a].plain THEN NoCommand ELSE @])

Ask(a) ==
    /\ ask[a].pc = "unsent"
    /\ a \in scope.asks
    /\ \/ \E c \in {x \in OwnerCommands : Given(x) /\ x.name \in scope.said} :
            Set(a, [ask[a] EXCEPT !.pc = "queued", !.command = c])
       \/ Set(a, [ask[a] EXCEPT !.pc = "queued", !.plain = TRUE])
    /\ only

ClaimAsk(a) == At(a, "queued") /\ Goto(a, IF ask[a].plain THEN "plain" ELSE "claimed")

\* The model names a command, which must fit the candidates; or it finds the
\* words ambiguous, or no command at all: then it may propose one memory.
ResolvePlain(a) ==
    /\ At(a, "plain")
    /\ \/ \E c \in OwnerCommands :
            /\ Given(c) /\ c.name \in scope.said /\ Candidate(c)
            /\ Set(a, [ask[a] EXCEPT !.pc = "claimed", !.command = c])
            /\ only
       \/ Answer(a, "ambiguous") /\ only
       \/ Set(a, Requeued(a)) /\ only
       \/ \E proposed \in SUBSET {a} :
            /\ memory' = IF Live(a) THEN memory
                         ELSE memory \cup {[of |-> x, status |-> "candidate", live |-> TRUE] : x \in proposed}
            /\ Set(a, Over(a, "chat"))
            /\ UNCHANGED <<scope, storeVars, journal, resolved, job, daemonVars, applied, cli>>

\* Mutant: the journal row is not consulted.
HandleAgain(a) ==
    LET c == ask[a].command IN
    /\ At(a, "claimed")
    /\ IF c \in Reports \/ ~Accepted(c)
       THEN Answer(a, IF c \in Reports THEN "report" ELSE "refused") /\ only
       ELSE /\ IF c \in MemoryCommands THEN MutateMemory(c, a) ELSE MutateWork(c, session)
            /\ journal' = journal \cup {a}
            /\ applied' = [applied EXCEPT ![a] = @ + 1]
            /\ Answer(a, "applied")
            /\ UNCHANGED <<scope, job, daemonVars, cli>>

\* Mutant: a refusal rolls the transaction back but is not reported as one.
HandleUnchecked(a) ==
    LET c == ask[a].command IN
    /\ At(a, "claimed")
    /\ IF c \in Reports \/ a \in journal \/ ~Accepted(c)
       THEN Answer(a, IF c \in Reports THEN "report" ELSE "applied") /\ only
       ELSE /\ IF c \in MemoryCommands THEN MutateMemory(c, a) ELSE MutateWork(c, session)
            /\ journal' = journal \cup {a}
            /\ applied' = [applied EXCEPT ![a] = @ + 1]
            /\ Answer(a, "applied")
            /\ UNCHANGED <<scope, job, daemonVars, cli>>

\* ExecuteOwnerMutation: a message that is journalled gets its stored result,
\* whatever it is understood to say this time.
Handle(a) ==
    LET c == ask[a].command IN
    /\ At(a, "claimed")
    /\ IF c \in Reports \/ a \in journal \/ ~Accepted(c)
       THEN /\ Answer(a, IF c \in Reports THEN "report" ELSE IF a \in journal THEN "applied" ELSE "refused")
            /\ only
       ELSE /\ IF c \in MemoryCommands THEN MutateMemory(c, a) ELSE MutateWork(c, session)
            /\ journal' = journal \cup {a}
            /\ applied' = [applied EXCEPT ![a] = @ + 1]
            /\ Answer(a, "applied")
            /\ UNCHANGED <<scope, job, daemonVars, cli>>

BeginAnswer(a) == At(a, "handled") /\ Goto(a, IF ask[a].replied THEN "answered" ELSE "begun")

\* Lark keeps the first text sent under an idempotency key.
Deliver(a) ==
    /\ At(a, "begun") /\ ask[a].told = ""
    /\ Set(a, [ask[a] EXCEPT !.told = ask[a].text])
    /\ only

\* A failed send, delivered or not, is blocked and the message is claimed again.
RecordAnswer(a) ==
    \/ At(a, "begun") /\ ask[a].told # ""
       /\ Set(a, [ask[a] EXCEPT !.pc = "answered", !.replied = TRUE]) /\ only
    \/ At(a, "begun") /\ Set(a, Requeued(a)) /\ only

CloseAsk(a) == At(a, "answered") /\ Set(a, Over(a, "done")) /\ only

AskStep(a) == Ask(a) \/ ClaimAsk(a) \/ ResolvePlain(a) \/ Handle(a) \/ BeginAnswer(a)
              \/ Deliver(a) \/ RecordAnswer(a) \/ CloseAsk(a)

-----------------------------------------------------------------------------
(* The work that the commands are about.                                     *)

Working(w, pc) == Serving /\ job[w] = pc
Advance(w, pc) == /\ job' = [job EXCEPT ![w] = pc]
                  /\ Touch
                  /\ UNCHANGED <<scope, ask, journal, memory, daemonVars, applied, cli>>

Claim(w) == \E k \in Workers : Working(w, "idle") /\ ClaimNextForLane(w, k) /\ Advance(w, "claimed")

\* An approved draft is used before a new one is written, a reply candidate is
\* checked again, and an investigation is taken up where it was left.
Granted(w) == ApprovedDrafts(w) # {}
Fresh(w) == Working(w, "claimed") /\ ~Granted(w) /\ ~HasCandidate(w)

Propose(w) ==
    \E d \in Drafts :
      Fresh(w) /\ ~Contextual(w) /\ RequestReplyApproval(w, d) /\ Advance(w, "asked")
Park(w) == \E k \in Workers : Working(w, "asked") /\ CompleteClaim(w, k, "request_approval")
                              /\ Advance(w, "idle")
Consume(w) == \E d \in Drafts : Working(w, "claimed") /\ ConsumeReplyApproval(w, d)
                                /\ Advance(w, "consumed")
Begin(w) ==
    /\ (Fresh(w) /\ ~Contextual(w)) \/ Working(w, "consumed")
    /\ IF attempts[w][ReplyKey(w)] = "completed"
       THEN UNCHANGED storeVars /\ Advance(w, "recorded")
       ELSE BeginReplyAction(w) /\ Advance(w, "begun")
\* The answer of Lark is recorded; whether it was heard shows nowhere else.
Record(w) ==
    \/ Working(w, "begun") /\ CompleteAttempt(w, ReplyKey(w), "completed") /\ Advance(w, "recorded")
    \/ Working(w, "begun") /\ CompleteAttempt(w, ReplyKey(w), "blocked") /\ Advance(w, "refused")
Settle(w) ==
    \E d \in Drafts :
      LET done == job[w] = "recorded" IN
      /\ Working(w, "recorded") \/ Working(w, "refused")
      /\ CompleteAttempt(w, ApprovalKey(w, d), IF done THEN "completed" ELSE "blocked")
      /\ Advance(w, job[w])

\* An investigation that was open when the work was claimed must be final by now.
Finish(w) == \E k \in Workers :
    /\ Working(w, "recorded") /\ ~HasAttempt(w, {"approval"}, {"executing"}) /\ ~Contextual(w)
    /\ CompleteClaim(w, k, "reply") /\ Advance(w, "idle")

\* The two staged messages of an investigation are one here.
StageRow(w) == StageKey(w, "investigation_progress")
Inquire(w) ==
    /\ Fresh(w)
    /\ \/ Contextual(w) /\ UNCHANGED storeVars /\ Advance(w, "investigating")
       \/ w \in scope.delegated /\ inquiry[w] = "none" /\ BeginDelegatedInvestigation(w) /\ Advance(w, "staging")
Stage(w) ==
    \/ Working(w, "staging") /\ BeginInvestigationMessageAction(w, "investigation_progress")
       /\ Advance(w, "staged")
    \/ Working(w, "staging") /\ attempts[w][StageRow(w)] = "completed"
       /\ SetInquiry(w, "investigating") /\ Advance(w, "investigating")
    \/ Working(w, "staged") /\ CompleteAttempt(w, StageRow(w), "completed") /\ Advance(w, "staging")
    \/ Working(w, "staged") /\ CompleteAttempt(w, StageRow(w), "blocked") /\ Advance(w, "failed")
Draft(w) == \E k \in Workers, d \in Drafts :
    Working(w, "investigating") /\ SaveWorkReplyCandidate(w, k, d) /\ Advance(w, "drafted")
\* The semantic check after the investigation, or of a candidate found at the claim.
Hold(w) == \E k \in Workers, status \in {"held", "cancelled"} :
    /\ \/ Working(w, "drafted") /\ status = "held"
       \/ Working(w, "claimed") /\ ~Granted(w)
    /\ TransitionWorkReplyCandidate(w, k, status) /\ Advance(w, "deferring")

\* A dead letter takes its investigation with it (notifyTerminalFailure).
Defer(w) == \E k \in Workers :
    Working(w, "deferring") /\ DeferWaitingUserClaim(w, k) /\ Advance(w, "closing")
Failing(w) ==
    \/ \E pc \in {"claimed", "asked", "consumed", "staging", "investigating", "drafted", "failed"} :
         Working(w, pc)
    \/ /\ Working(w, "recorded") \/ Working(w, "refused")
       /\ ~HasAttempt(w, {"approval"}, {"executing"})
Fail(w) == \E k \in Workers : Failing(w) /\ MarkRetryClaim(w, k) /\ Advance(w, "closing")
\* The lease was taken away: none of the fenced writes above happens.
Yield(w) ==
    /\ Failing(w) \/ Working(w, "deferring")
    /\ \A k \in Workers : ~HoldsLease(w, k)
    /\ UNCHANGED storeVars /\ Advance(w, "closing")
Close(w) ==
    /\ Working(w, "closing")
    /\ IF work[w].status = "dead_letter" THEN BlockDelegatedInvestigation(w) ELSE UNCHANGED storeVars
    /\ Advance(w, "idle")

WorkStep(w) == Claim(w) \/ Propose(w) \/ Park(w) \/ Consume(w) \/ Begin(w) \/ Record(w)
               \/ Settle(w) \/ Finish(w) \/ Inquire(w) \/ Stage(w) \/ Draft(w) \/ Hold(w)
               \/ Defer(w) \/ Fail(w) \/ Yield(w) \/ Close(w)

-----------------------------------------------------------------------------
(* The start of the daemon, and the notices it owes the owner.               *)

Phase(pc) == daemon' = pc /\ Touch /\ UNCHANGED <<scope, journal, memory, applied, cli>>
Quietly == UNCHANGED <<ask, job, sending>>

Start == daemon = "down" /\ session < scope.starts /\ CreateOnlineSession /\ Phase("starting")
         /\ Quietly /\ UNCHANGED <<listed, notices>>

\* RecoverInterruptedWork lists the works first and writes them in a transaction
\* of its own, whatever they have become by then.
List ==
    /\ daemon = "starting"
    /\ ReadmitPristineWaiting
    /\ listed' = PriorWork
    /\ Phase("recovering") /\ Quietly /\ UNCHANGED notices

\* Command messages share the recovery: one whose answer was on its way is
\* uncertain, the others are claimed again.
Interrupt ==
    /\ daemon = "recovering"
    /\ InterruptSessionWork(listed)
    /\ listed' = {}
    /\ ask' = [a \in Asks |->
                 CASE ask[a].pc = "begun" -> Over(a, "dead")
                   [] ask[a].pc \in {"plain", "claimed", "handled", "answered"} -> Requeued(a)
                   [] OTHER -> ask[a]]
    /\ Phase("recovered") /\ UNCHANGED <<job, notices, sending>>

MarkReady == daemon = "recovered" /\ MarkCurrentSessionReady /\ Phase("ready")
             /\ Quietly /\ UNCHANGED <<listed, notices>>

\* What convergence reports about a work that it does not make runnable.
Reported(w) ==
    IF work[w].status # "interrupted" THEN {NoKey}
    ELSE CASE ConvergedStatus(w) = "dead_letter" -> {UncertainKey}
           [] ConvergedStatus(w) = "awaiting_approval" ->
                {ApprovalNotice(key) : key \in {x \in ApprovalKeys \cup ShellKeys :
                                                  attempts[w][x] = "awaiting_approval"}}
           [] ConvergedStatus(w) = "interrupted" -> {ReviewKey}
           [] OTHER -> {NoKey}

Converge ==
    /\ daemon = "ready"
    /\ ConvergeInterruptedWork
    /\ notices' \in [Works -> ResolutionKeys \cup {NoKey}]
    /\ \A w \in Works : notices'[w] \in Reported(w)
    /\ Phase("flushing") /\ Quietly /\ UNCHANGED listed

Send(w, key) == BeginOwnerResolutionNotification(w, key) /\ sending' = {[work |-> w, key |-> key]}
Telling == Touch /\ UNCHANGED <<scope, ask, journal, memory, job, listed, applied, cli>>

\* flushOwnerResolutionNotifications, before the report and after each poll: the
\* notices that failed are sent again.
Retell(w, key) ==
    /\ daemon \in {"flushing", "running"} /\ sending = {}
    /\ attempts[w][key] = "blocked" /\ Send(w, key)
    /\ Telling /\ UNCHANGED <<daemon, notices>>

\* notifyRecoveryConvergence; what was told in an earlier start is not repeated.
Tell(w) ==
    /\ daemon = "telling" /\ sending = {} /\ notices[w] # NoKey
    /\ \/ Send(w, notices[w])
       \/ /\ attempts[w][notices[w]] \notin {"none", "blocked"}
          /\ UNCHANGED <<storeVars, sending>>
    /\ notices' = [notices EXCEPT ![w] = NoKey]
    /\ Telling /\ UNCHANGED daemon

\* executeOwnerResolutionSend records the outcome even while the daemon stops.
Told ==
    /\ \E n \in sending :
         \/ \E status \in {"completed", "blocked"} : CompleteAttempt(n.work, n.key, status)
         \/ attempts[n.work][n.key] # "executing" /\ UNCHANGED storeVars
    /\ sending' = {}
    /\ Telling /\ UNCHANGED <<daemon, notices>>

Flushed == daemon = "flushing" /\ sending = {} /\ UNCHANGED storeVars /\ Phase("telling")
          /\ Quietly /\ UNCHANGED <<listed, notices>>
Online == /\ daemon = "telling" /\ sending = {} /\ \A w \in Works : notices[w] = NoKey
          /\ UNCHANGED storeVars /\ Phase("running") /\ Quietly /\ UNCHANGED <<listed, notices>>

Crash == daemon # "down" /\ UNCHANGED storeVars /\ Phase("down")
         /\ job' = [w \in Works |-> "idle"] /\ UNCHANGED ask
         /\ listed' = {} /\ notices' = [w \in Works |-> NoKey] /\ sending' = {}

-----------------------------------------------------------------------------
(* The command line: `queue` and `approval` commands of a CLI process, which *)
(* resumes and retries in the session it was opened in; acknowledge and      *)
(* reconcile run ExecuteOwnerMutation under an id of their own.              *)

CliEffect(c) ==
    \/ c.name = "retry" /\ \E s \in OpenedSessions : RetryWorkItem(c.work, s)
    \/ c.name = "resume" /\ \E s \in OpenedSessions : ResumeWork(c.work, s, c.confirm)
    \/ c.name = "cancel" /\ CancelWork(c.work)
    \/ c.name = "acknowledge" /\ AcknowledgeAccepted(c.work) /\ AcknowledgeOwnerWork(c.work)
    \/ c.name = "reconcile" /\ ReconcileAccepted(c.work) /\ ReconcileOwnerWork(c.work, c.disposition)
    \/ c \in ApprovalCommands /\ DecideAction(c.work, c.key, c.name = "approve")

Cli ==
    /\ cli < scope.cli
    /\ \E c \in CliCommands : Given(c) /\ c.name \in scope.typed /\ CliEffect(c) /\ Resolve(c)
    /\ cli' = cli + 1
    /\ UNCHANGED <<scope, ask, journal, memory, job, daemonVars, applied>>

DaemonStep == Start \/ List \/ Interrupt \/ MarkReady \/ Converge \/ Flushed \/ Online \/ Crash
NoticeStep == Told \/ \E w \in Works : Tell(w) \/ \E key \in ResolutionKeys : Retell(w, key)

Next == \/ \E a \in Asks : AskStep(a)
        \/ \E w \in Works : WorkStep(w)
        \/ DaemonStep \/ NoticeStep \/ Cli

Spec == Init /\ [][Next]_vars

-----------------------------------------------------------------------------
(* Properties.                                                               *)

\* The states the code can be in.
TypeOK ==
    /\ StoreTypeOK
    /\ ask \in [Asks -> [pc : {"unsent", "queued", "plain", "claimed", "handled", "begun",
                               "answered", "chat", "done", "dead"},
                         plain : BOOLEAN,
                         command : OwnerCommands \cup {NoCommand},
                         text : {"", "applied", "refused", "ambiguous", "report"},
                         told : {"", "applied", "refused", "ambiguous", "report"}, replied : BOOLEAN]]
    /\ journal \subseteq Asks
    /\ resolved \in [Works -> {"none", "acknowledged"} \cup Dispositions]
    /\ memory \subseteq [of : Asks \cup {Earlier}, status : {"candidate", "confirmed"}, live : BOOLEAN]
    /\ job \in [Works -> {"idle", "claimed", "asked", "consumed", "begun", "recorded", "refused",
                         "staging", "staged", "investigating", "drafted", "deferring", "failed",
                         "closing"}]
    /\ daemon \in {"down", "starting", "recovering", "recovered", "ready", "flushing", "telling",
                   "running"}
    /\ listed \subseteq Works
    /\ notices \in [Works -> ResolutionKeys \cup {NoKey}]
    /\ sending \subseteq Notices
    /\ cli \in Nat
    /\ scope \in Scopes

\* One message changes the store at most once, however often it is claimed again:
\* after a crash between the commit and the answer, a failed answer, or another
\* reading of the same words by the model (ExecuteOwnerMutation).
AppliedOnce == \A a \in Asks : applied[a] <= 1

\* The owner is never told of a change that was not made, and no command ends
\* without an answer; an applied slash command was answered as applied, or as
\* refused by an earlier try that failed after its send. (Plain words that are
\* read a second time may be found ambiguous: the command is no candidate then.)
AnswersAreTrue ==
    \A a \in Asks :
        /\ ask[a].told = "applied" => a \in journal
        /\ ask[a].pc = "done" => ask[a].told # ""
        /\ (ask[a].pc = "done" /\ a \in journal /\ ~ask[a].plain) => ask[a].told \in {"applied", "refused"}

\* No dead end: once the start of the daemon is over, one at least of the commands
\* that interrupted or dead work in the action list is shown with would be accepted
\* (ownerTaskCommands of the control handler, against the conditions of the store),
\* however it was interrupted, decided, reconciled or resumed before.  That is so
\* unless a notice about interrupted work is executing: it is on its way, or a crash
\* cut it short, which no later start mends; both resume and cancel are refused then.
\* (Work that is parked over a spent approval is the run spent_approval.)
NoDeadEnd ==
    daemon = "running" =>
        \A w \in Works : (ActionView(w) /\ work[w].status # "awaiting_approval") =>
            \/ \E c \in Offered(w) : Accepted(c)
            \/ work[w].status = "interrupted" /\ HasAttempt(w, ResolutionKinds, {"executing"})

\* What the owner has acknowledged asks for nothing more and does nothing by
\* itself: no worker that still has it in hand takes it up again, and no recovery
\* lists it, only another command of the owner does (resolveOwnerWorkTx).  A
\* recovery that had listed the work before the owner spoke is the exception: it
\* interrupts what it listed, whatever became of it (interruptSessionWork).
AcknowledgedRests ==
    [][\A w \in Works : resolved[w] = "acknowledged" =>
         /\ w \in listed' => w \in listed
         /\ work'[w].status \notin Terminal =>
              journal' # journal \/ cli' # cli \/ w \in listed]_vars
=============================================================================
