------------------------------ MODULE WorkStore ------------------------------
(****************************************************************************)
(* The durable work queue of lark-agent: the SQLite tables of               *)
(* src/agent/storage/storage.go and session.go that decide what may run and *)
(* what may be sent, and one operator per Store method.  SQLite is opened   *)
(* with a single connection, so every method that runs in one transaction   *)
(* is one atomic operator.                                                   *)
(*                                                                           *)
(* An operator is an action over the store's variables.  When a method      *)
(* reports an error without touching the database, the operator is split    *)
(* into the predicate that decides (HoldsLease, Resumable, ...) and the     *)
(* effect, and the caller chooses what the error does.                       *)
(****************************************************************************)
EXTENDS Naturals

CONSTANTS
  Works,             \* rows of work_items: the admitted messages
  Workers,           \* the scheduler workers; a worker's current claim is its token
  Drafts,            \* the texts a model run may want to send for a work item
  Commands,          \* the exact shell commands a model run may execute
  NoLease, NoItem, NoKey,
  MaxRetries,        \* store.maxRetries, 20 by default
  MaxOwnerRetries,   \* store.ownerReplyMaxRetries, 3 by default
  MaxGeneration,     \* bound: how many generations explicit resumes create
  MaxSessions        \* bound: how many daemon sessions are started

ASSUME StoreBounds ==
  /\ MaxRetries \in Nat \ {0}
  /\ MaxOwnerRetries \in Nat \ {0}
  /\ MaxGeneration \in Nat \ {0}
  /\ MaxSessions \in Nat \ {0}

ASSUME StoreNulls ==
  /\ NoLease \notin Workers
  /\ NoItem \notin Drafts \cup Commands

VARIABLES
  work,        \* work_items
  attempts,    \* action_attempts, by idempotency key
  newest,      \* per work, the key of the last inserted action_attempts row
  ran,         \* the works with at least one agent_runs row
  snapshots,   \* work_interruptions with resumed_at IS NULL, by what they record
  candidate,   \* work_reply_candidates
  inquiry,     \* delegated_investigations
  sessions,    \* online_sessions, in the order they were started
  session      \* s.session.ID of the daemon's Store: the session started last

storeVars == <<work, attempts, newest, ran, snapshots, candidate, inquiry,
               sessions, session>>

-----------------------------------------------------------------------------
(* Types.                                                                    *)

WorkStatus == {"received", "waiting_user", "processing", "awaiting_approval",
               "completed", "ignored", "cancelled", "retry_wait",
               "dead_letter", "interrupted"}
Claimable == {"received", "waiting_user", "retry_wait"}
Terminal  == {"completed", "ignored", "cancelled", "dead_letter"}
Active    == WorkStatus \ (Terminal \cup {"interrupted"})

AttemptStatus == {"none", "ready", "awaiting_approval", "executing",
                  "completed", "cancelled", "blocked"}

Generations == 1..MaxGeneration
SessionIds  == 1..MaxSessions

Key(kind, gen, item) == [kind |-> kind, gen |-> gen, item |-> item]

(* Communication keys carry the generation; shell keys do not, and the two  *)
(* audit rows are written with the default generation 1.                     *)
ReplyKeys    == {Key("reply", g, NoItem) : g \in Generations}
ApprovalKeys == {Key("approval", g, d) : g \in Generations, d \in Drafts}
NoticeKeys   == {Key("owner_notification", g, d) : g \in Generations, d \in Drafts}
StageKeys    == {Key("investigation_owner_notice", g, NoItem) : g \in Generations}
                \cup {Key("investigation_progress", g, NoItem) : g \in Generations}
ShellKeys    == {Key("shell", 1, c) : c \in Commands}
RequiredKey  == Key("owner_resolution_required", 1, NoItem)
CancelKey    == Key("operator_cancel", 1, NoItem)

(* The rows of kind 'owner_resolution' that a start of the daemon writes:   *)
(* their key is a digest of the text, which depends on the kind of notice,  *)
(* the work and the action that waits for the owner.                         *)
ResolutionKinds    == {"review_notice", "uncertain_notice", "approval_notice"}
ReviewKey          == Key("review_notice", 1, NoItem)
UncertainKey       == Key("uncertain_notice", 1, NoItem)
ApprovalNotice(key) == Key("approval_notice", key.gen, key.item)
ResolutionKeys     == {ReviewKey, UncertainKey}
                      \cup {ApprovalNotice(key) : key \in ApprovalKeys \cup ShellKeys}

Keys == ReplyKeys \cup ApprovalKeys \cup NoticeKeys \cup StageKeys
        \cup ShellKeys \cup ResolutionKeys \cup {RequiredKey, CancelKey}

ASSUME KeyNull == NoKey \notin Keys

LiveCandidate == {"pending", "held"}
CandidateRow  == [status : {"none"}, draft : {NoItem}]
                 \cup [status : LiveCandidate \cup {"consumed", "cancelled"}, draft : Drafts]

InquiryStatus == {"none", "pending_progress", "investigating", "finalizing",
                  "completed", "blocked"}
ActiveInquiry == {"pending_progress", "investigating", "finalizing"}
SessionStatus == {"unused", "starting", "ready", "stopped"}

DecisionKinds == {"none", "reply", "request_approval", "ignore", "notify", "record"}

WorkRow == [status : WorkStatus, lease : Workers \cup {NoLease},
            gen : Generations, retry : Nat, ownerRetry : Nat,
            session : SessionIds, decision : DecisionKinds]

StoreTypeOK ==
  /\ work \in [Works -> WorkRow]
  /\ attempts \in [Works -> [Keys -> AttemptStatus]]
  /\ newest \in [Works -> Keys \cup {NoKey}]
  /\ ran \subseteq Works
  /\ snapshots \in [Works -> SUBSET {"certain", "uncertain"}]
  /\ candidate \in [Works -> CandidateRow]
  /\ inquiry \in [Works -> InquiryStatus]
  /\ sessions \in [SessionIds -> SessionStatus]
  /\ session \in SessionIds

(* The messages were admitted by the first session, which is starting.      *)
StoreInit ==
  /\ work = [w \in Works |-> [status |-> "received", lease |-> NoLease, gen |-> 1,
                              retry |-> 0, ownerRetry |-> 0, session |-> 1,
                              decision |-> "none"]]
  /\ attempts = [w \in Works |-> [k \in Keys |-> "none"]]
  /\ newest = [w \in Works |-> NoKey]
  /\ ran = {}
  /\ snapshots = [w \in Works |-> {}]
  /\ candidate = [w \in Works |-> [status |-> "none", draft |-> NoItem]]
  /\ inquiry = [w \in Works |-> "none"]
  /\ sessions = [s \in SessionIds |-> IF s = 1 THEN "starting" ELSE "unused"]
  /\ session = 1

-----------------------------------------------------------------------------
(* Reads.                                                                    *)

HoldsLease(w, k) == work[w].status = "processing" /\ work[w].lease = k

HasAttempt(w, kinds, states) ==
  \E key \in Keys : key.kind \in kinds /\ attempts[w][key] \in states

Executing(w) == \E key \in Keys : attempts[w][key] = "executing"
Uncertain(w) == "uncertain" \in snapshots[w]

(* Mutant: any open interruption is unresolved, a certain one as well.       *)
UnresolvedByAny(w) == Executing(w) \/ snapshots[w] # {}

Unresolved(w) == Executing(w) \/ Uncertain(w)
Contextual(w) == inquiry[w] \in ActiveInquiry
HasCandidate(w) == candidate[w].status \in LiveCandidate

(* Nothing of the work was started: no model run and no action row.         *)
Pristine(w) == w \notin ran /\ \A key \in Keys : attempts[w][key] = "none"

ReplyKey(w)       == Key("reply", work[w].gen, NoItem)
ApprovalKey(w, d) == Key("approval", work[w].gen, d)
NoticeKey(w, d)   == Key("owner_notification", work[w].gen, d)
StageKey(w, kind) == Key(kind, work[w].gen, NoItem)
ShellKey(c)       == Key("shell", 1, c)

(* Mutant: a completed reply of any generation counts.                       *)
ReplyCompletedEver(w) ==
  \E key \in ReplyKeys \cup ApprovalKeys : attempts[w][key] = "completed"

(* Both the reply and the reply approvals are rows of kind 'reply'.         *)
ReplyCompleted(w) ==
  \E key \in ReplyKeys \cup ApprovalKeys :
     key.gen = work[w].gen /\ attempts[w][key] = "completed"

PostReplyNotices(w) ==
  {d \in Drafts : /\ attempts[w][NoticeKey(w, d)] \in {"executing", "blocked", "completed"}
                  /\ ReplyCompleted(w)}

ApprovedDrafts(w) == {d \in Drafts : attempts[w][ApprovalKey(w, d)] = "ready"}

-----------------------------------------------------------------------------
(* Leases and completion.                                                    *)

Unleased(row, status) == [row EXCEPT !.status = status, !.lease = NoLease]

SetWork(w, row) ==
  /\ work' = [work EXCEPT ![w] = row]
  /\ UNCHANGED <<attempts, newest, ran, snapshots, candidate, inquiry,
                 sessions, session>>

ClaimNextForLane(w, k) ==
  /\ work[w].status \in Claimable
  /\ SetWork(w, [work[w] EXCEPT !.status = "processing", !.lease = k])

DecisionStatus(kind) ==
  CASE kind = "ignore" -> "ignored"
    [] kind = "request_approval" -> "awaiting_approval"
    [] OTHER -> "completed"

CompleteClaim(w, k, kind) ==
  /\ HoldsLease(w, k)
  /\ SetWork(w, [Unleased(work[w], DecisionStatus(kind)) EXCEPT !.decision = kind])

CompleteReplyCandidateClaim(w, k, kind) ==
  /\ HoldsLease(w, k)
  /\ HasCandidate(w)
  /\ work' = [work EXCEPT ![w] = [Unleased(@, DecisionStatus(kind))
                                    EXCEPT !.decision = kind]]
  /\ candidate' = [candidate EXCEPT ![w].status = "consumed"]
  /\ UNCHANGED <<attempts, newest, ran, snapshots, inquiry, sessions, session>>

(* Mutant: any worker may fail work that is being processed.                 *)
MarkRetryUnfenced(w, k) ==
  /\ work[w].status = "processing"
  /\ LET retry == work[w].retry + 1
     IN  SetWork(w, [Unleased(work[w], IF retry >= MaxRetries THEN "dead_letter"
                                                              ELSE "retry_wait")
                       EXCEPT !.retry = retry, !.decision = "record"])

(* Mutant: the retry count is compared but never advanced.                   *)
MarkRetryUncounted(w, k) ==
  /\ HoldsLease(w, k)
  /\ SetWork(w, [Unleased(work[w], IF work[w].retry + 1 >= MaxRetries THEN "dead_letter"
                                                                     ELSE "retry_wait")
                   EXCEPT !.decision = "record"])

MarkRetryClaim(w, k) ==
  /\ HoldsLease(w, k)
  /\ LET retry == work[w].retry + 1
     IN  SetWork(w, [Unleased(work[w], IF retry >= MaxRetries THEN "dead_letter"
                                                              ELSE "retry_wait")
                       EXCEPT !.retry = retry, !.decision = "record"])

MarkDeadLetterClaim(w, k) ==
  /\ HoldsLease(w, k)
  /\ SetWork(w, [Unleased(work[w], "dead_letter")
                   EXCEPT !.retry = @ + 1, !.decision = "record"])

DeferWaitingUserClaim(w, k) ==
  /\ HoldsLease(w, k)
  /\ LET count == work[w].ownerRetry + 1
         exhausted == count >= MaxOwnerRetries
     IN  /\ work' = [work EXCEPT ![w] =
                       [Unleased(@, IF exhausted THEN "dead_letter" ELSE "waiting_user")
                          EXCEPT !.ownerRetry = count, !.decision = "record"]]
         /\ IF exhausted
            THEN /\ attempts' = [attempts EXCEPT ![w][RequiredKey] = "blocked"]
                 /\ newest' = [newest EXCEPT ![w] = RequiredKey]
            ELSE UNCHANGED <<attempts, newest>>
  /\ UNCHANGED <<ran, snapshots, candidate, inquiry, sessions, session>>

-----------------------------------------------------------------------------
(* External-action audit: action_attempts.                                   *)

onlyAttempts == UNCHANGED <<work, ran, snapshots, candidate, inquiry,
                            sessions, session>>

Move(w, key, status) ==
  /\ attempts' = [attempts EXCEPT ![w][key] = status]
  /\ newest' = [newest EXCEPT ![w] = IF attempts[w][key] = "none" THEN key ELSE @]

SetAttempt(w, key, status) == Move(w, key, status) /\ onlyAttempts

(* INSERT OR IGNORE: an existing row of any status is returned as it is.    *)
RequestAttempt(w, key) ==
  IF attempts[w][key] = "none"
  THEN SetAttempt(w, key, "awaiting_approval")
  ELSE UNCHANGED storeVars

RequestShellApproval(w, c) == RequestAttempt(w, ShellKey(c))
RequestReplyApproval(w, d) == RequestAttempt(w, ApprovalKey(w, d))

(* Mutant: an approved action whose outcome is unknown is consumed again.    *)
ConsumeAgain(w, key) ==
  /\ attempts[w][key] \in {"ready", "blocked"}
  /\ SetAttempt(w, key, "executing")

ConsumeAttempt(w, key) ==
  /\ attempts[w][key] = "ready"
  /\ SetAttempt(w, key, "executing")

ConsumeShellApproval(w, c) == ConsumeAttempt(w, ShellKey(c))
ConsumeReplyApproval(w, d) == ConsumeAttempt(w, ApprovalKey(w, d))

(* BeginShellAction starts a command that has no audit row; every existing  *)
(* row is either a stored result or an uncertain one, and nothing is run.   *)
BeginShellAction(w, c) ==
  /\ attempts[w][ShellKey(c)] = "none"
  /\ SetAttempt(w, ShellKey(c), "executing")

(* CompleteShellApproval, which every Complete... method ends in.            *)
CompleteAttempt(w, key, status) ==
  /\ attempts[w][key] = "executing"
  /\ SetAttempt(w, key, status)

(* Mutant: a completed reply is begun again.                                 *)
BeginReplyAnyway(w) == SetAttempt(w, ReplyKey(w), "executing")

(* A reply row that is not completed is set executing again, whatever it was. *)
BeginReplyAction(w) ==
  /\ attempts[w][ReplyKey(w)] # "completed"
  /\ SetAttempt(w, ReplyKey(w), "executing")

BeginPostReplyNotification(w, d) ==
  /\ attempts[w][NoticeKey(w, d)] # "completed"
  /\ SetAttempt(w, NoticeKey(w, d), "executing")

(* A staged message that is still executing is uncertain and never resent.  *)
BeginInvestigationMessageAction(w, kind) ==
  /\ attempts[w][StageKey(w, kind)] \in {"none", "blocked"}
  /\ SetAttempt(w, StageKey(w, kind), "executing")

BlockReadyReplyApprovalClaim(w, k, d) ==
  /\ work[w].lease = k
  /\ attempts[w][ApprovalKey(w, d)] = "ready"
  /\ SetAttempt(w, ApprovalKey(w, d), "blocked")

(* A notice about a work item is begun once; one whose send failed is begun *)
(* again, and one that is executing is uncertain and never resent.           *)
BeginOwnerResolutionNotification(w, key) ==
  /\ attempts[w][key] \in {"none", "blocked"}
  /\ SetAttempt(w, key, "executing")

StartAgentRun(w) ==
  /\ ran' = ran \cup {w}
  /\ UNCHANGED <<work, attempts, newest, snapshots, candidate, inquiry,
                 sessions, session>>

-----------------------------------------------------------------------------
(* Reply candidates and delegated investigations.                           *)

SetCandidate(w, row) ==
  /\ candidate' = [candidate EXCEPT ![w] = row]
  /\ UNCHANGED <<work, attempts, newest, ran, snapshots, inquiry,
                 sessions, session>>

SaveWorkReplyCandidate(w, k, d) ==
  /\ HoldsLease(w, k)
  /\ SetCandidate(w, [status |-> "pending", draft |-> d])

TransitionWorkReplyCandidate(w, k, status) ==
  /\ HoldsLease(w, k)
  /\ HasCandidate(w)
  /\ SetCandidate(w, [candidate[w] EXCEPT !.status = status])

SetInquiry(w, status) ==
  /\ inquiry' = [inquiry EXCEPT ![w] = status]
  /\ UNCHANGED <<work, attempts, newest, ran, snapshots, candidate,
                 sessions, session>>

BeginDelegatedInvestigation(w) ==
  IF inquiry[w] = "none" THEN SetInquiry(w, "pending_progress")
                         ELSE UNCHANGED storeVars

(* MarkDelegatedInvestigationFinalizing accepts a missing or a completed    *)
(* investigation and one that is finalizing already.                        *)
CanFinalize(w) == inquiry[w] \in {"none", "investigating", "finalizing", "completed"}

MarkDelegatedInvestigationFinalizing(w) ==
  /\ CanFinalize(w)
  /\ IF inquiry[w] = "investigating" THEN SetInquiry(w, "finalizing")
                                     ELSE UNCHANGED storeVars

CanCompleteInquiry(w) == inquiry[w] \in {"none", "finalizing", "completed"}

CompleteDelegatedInvestigation(w) ==
  /\ CanCompleteInquiry(w)
  /\ IF inquiry[w] = "finalizing" THEN SetInquiry(w, "completed")
                                  ELSE UNCHANGED storeVars

BlockDelegatedInvestigation(w) ==
  IF Contextual(w) THEN SetInquiry(w, "blocked") ELSE UNCHANGED storeVars

-----------------------------------------------------------------------------
(* Daemon sessions.  A crash changes no row: the session stays starting or  *)
(* ready for ever.                                                           *)

CurrentStatus == sessions[session]

(* The newest session that is not stopped, as DecideAction looks it up in   *)
(* its own transaction; 0 when there is none.                                *)
ActiveSession ==
  LET open == {s \in SessionIds : sessions[s] \in {"starting", "ready"}}
  IN  IF open = {} THEN 0 ELSE CHOOSE s \in open : \A t \in open : t <= s

(* The sessions the Store of a CLI process may be attached to.  It looks up *)
(* the newest open session when it is opened (loadActiveSession) and keeps  *)
(* that one, whatever is started or stopped before the command runs: each   *)
(* session was the newest open one when it was started.  A Store that found *)
(* no open session is attached to none.                                      *)
OpenedSessions == 1..session

SetSession(s, status) ==
  /\ sessions' = [sessions EXCEPT ![s] = status]
  /\ UNCHANGED <<work, attempts, newest, ran, snapshots, candidate, inquiry>>

CreateOnlineSession ==
  /\ session < MaxSessions
  /\ session' = session + 1
  /\ SetSession(session + 1, "starting")

MarkCurrentSessionReady ==
  /\ CurrentStatus = "starting"
  /\ SetSession(session, "ready")
  /\ UNCHANGED session

StopCurrentSession ==
  /\ SetSession(session, "stopped")
  /\ UNCHANGED session

(* Mutant: work that is being processed is not selected.                     *)
InterruptibleWaiting(w) ==
  /\ work[w].status \in Active \ {"processing"}
  /\ ~(work[w].status = "waiting_user" /\ Pristine(w))

(* The works interruptSessionWork selects: pristine waiting work is left    *)
(* out, and what is already interrupted or terminal is not selected again.  *)
Interruptible(w) ==
  /\ work[w].status \in Active
  /\ ~(work[w].status = "waiting_user" /\ Pristine(w))

PriorWork   == {w \in Works : Interruptible(w) /\ work[w].session # session}
CurrentWork == {w \in Works : Interruptible(w) /\ work[w].session = session}

(* Recovery first moves pristine waiting work into the new session.         *)
ReadmitPristineWaiting ==
  /\ work' = [w \in Works |->
                IF /\ work[w].status = "waiting_user"
                   /\ work[w].session # session
                   /\ Pristine(w)
                THEN [work[w] EXCEPT !.session = session, !.decision = "none"]
                ELSE work[w]]
  /\ UNCHANGED <<attempts, newest, ran, snapshots, candidate, inquiry,
                 sessions, session>>

(* The snapshot records the status of the row inserted last, and no other.  *)
InterruptionSnapshot(w) ==
  IF newest[w] # NoKey /\ attempts[w][newest[w]] = "executing"
  THEN "uncertain" ELSE "certain"

InterruptSessionWork(ws) ==
  /\ work' = [w \in Works |-> IF w \in ws THEN Unleased(work[w], "interrupted")
                                          ELSE work[w]]
  /\ attempts' = [w \in Works |->
                    IF w \in ws
                    THEN [key \in Keys |-> IF attempts[w][key] = "executing"
                                           THEN "blocked" ELSE attempts[w][key]]
                    ELSE attempts[w]]
  /\ snapshots' = [w \in Works |-> IF w \in ws
                                   THEN snapshots[w] \cup {InterruptionSnapshot(w)}
                                   ELSE snapshots[w]]
  /\ UNCHANGED <<newest, ran, candidate, inquiry, sessions, session>>

Awaiting(w) == HasAttempt(w, {"approval", "shell"}, {"awaiting_approval"})
Ready(w)    == HasAttempt(w, {"approval", "shell"}, {"ready"})

(* An approved action supersedes the delegated context of a work item whose *)
(* interruption is certain.                                                  *)
Superseded(w) == ~Uncertain(w) /\ Ready(w) /\ (Contextual(w) \/ HasCandidate(w))

(* Mutant: delegated context and drafts are readmitted with the rest.        *)
ConvergedWithContext(w) ==
  CASE Uncertain(w)                                  -> "dead_letter"
    [] ~Uncertain(w) /\ Awaiting(w) /\ ~Ready(w)     -> "awaiting_approval"
    [] OTHER                                         -> "received"

(* Mutant: the interruption snapshot is not consulted.                       *)
ConvergedBlindly(w) ==
  CASE Awaiting(w) /\ ~Ready(w)                      -> "awaiting_approval"
    [] ~(Awaiting(w) /\ ~Ready(w)) /\ (Contextual(w) \/ HasCandidate(w)) -> "interrupted"
    [] OTHER                                         -> "received"

ConvergedStatus(w) ==
  CASE Uncertain(w)                      -> "dead_letter"
    [] ~Uncertain(w) /\ Awaiting(w) /\ ~Ready(w) -> "awaiting_approval"
    [] ~Uncertain(w) /\ ~(Awaiting(w) /\ ~Ready(w))
       /\ ~Superseded(w) /\ (Contextual(w) \/ HasCandidate(w)) -> "interrupted"
    [] OTHER                             -> "received"

ConvergedDecision(w) ==
  CASE ConvergedStatus(w) = "dead_letter" -> "record"
    [] ConvergedStatus(w) = "received"    -> "none"
    [] OTHER                              -> work[w].decision

(* Mutant: readmitted work stays with the session that left it.              *)
ConvergedInPlace(w) == [Unleased(work[w], ConvergedStatus(w))
                          EXCEPT !.decision = ConvergedDecision(w)]

Converged(w) == [Unleased(work[w], ConvergedStatus(w))
                   EXCEPT !.session = session, !.decision = ConvergedDecision(w)]

ConvergeInterruptedWork ==
  LET found == {w \in Works : work[w].status = "interrupted"}
      moved == {w \in found : ConvergedStatus(w) # "interrupted"}
  IN  /\ CurrentStatus = "ready"
      /\ work' = [w \in Works |-> IF w \in moved THEN Converged(w) ELSE work[w]]
      /\ candidate' = [w \in Works |->
                         IF w \in found /\ HasCandidate(w)
                         THEN [candidate[w] EXCEPT !.status =
                                 IF Superseded(w) THEN "cancelled" ELSE "held"]
                         ELSE candidate[w]]
      /\ inquiry' = [w \in Works |-> IF w \in found /\ Superseded(w)
                                     THEN "none" ELSE inquiry[w]]
      /\ snapshots' = [w \in Works |-> IF w \in moved THEN {} ELSE snapshots[w]]
      /\ UNCHANGED <<attempts, newest, ran, sessions, session>>

-----------------------------------------------------------------------------
(* Operator and owner commands.  They run in a CLI process with its own     *)
(* Store, attached to one of OpenedSessions, or in the daemon.               *)

(* DecideAction: the decision moves the work whatever its status is.        *)
DecideAction(w, key, approve) ==
  /\ attempts[w][key] = "awaiting_approval"
  /\ attempts' = [attempts EXCEPT ![w][key] = IF approve THEN "ready" ELSE "cancelled"]
  /\ LET s == ActiveSession
         live == s # 0 /\ sessions[IF s = 0 THEN 1 ELSE s] = "ready"
     IN  IF ~approve
         THEN /\ work' = [work EXCEPT ![w] = Unleased(@, "cancelled")]
              /\ UNCHANGED snapshots
         ELSE IF live
         THEN /\ work' = [work EXCEPT ![w] = [Unleased(@, "received") EXCEPT !.session = s]]
              /\ snapshots' = [snapshots EXCEPT ![w] = {}]
         ELSE /\ work' = [work EXCEPT ![w] = Unleased(@, "interrupted")]
              /\ UNCHANGED snapshots
  /\ UNCHANGED <<newest, ran, candidate, inquiry, sessions, session>>

CommunicationKinds == {"reply", "approval", "owner_notification",
                       "investigation_owner_notice", "investigation_progress"}

Resumable(w, force) ==
  /\ work[w].status = "interrupted" \/ (force /\ work[w].status \in Terminal)
  /\ ~Unresolved(w)

(* resumeWorkGenerationTx, in session s.                                    *)
ResumeWork(w, s, force) ==
  LET gen == work[w].gen
      Stale(key) ==
        \/ /\ key.kind \in {"owner_resolution_required"} \cup ResolutionKinds
           /\ attempts[w][key] = "blocked"
        \/ /\ key.kind \in CommunicationKinds /\ key.gen = gen
           /\ attempts[w][key] \in {"awaiting_approval", "ready", "blocked"}
  IN  /\ gen < MaxGeneration
      /\ Resumable(w, force)
      /\ inquiry' = [inquiry EXCEPT ![w] = "none"]
      /\ attempts' = [attempts EXCEPT ![w] =
                        [key \in Keys |-> IF Stale(key) THEN "cancelled"
                                                        ELSE attempts[w][key]]]
      /\ work' = [work EXCEPT ![w] =
                    [status |-> "received", lease |-> NoLease, gen |-> gen + 1,
                     retry |-> 0, ownerRetry |-> 0, session |-> s,
                     decision |-> "none"]]
      /\ candidate' = [candidate EXCEPT ![w].status =
                         IF HasCandidate(w) THEN "cancelled" ELSE @]
      /\ snapshots' = [snapshots EXCEPT ![w] = {}]
      /\ UNCHANGED <<newest, ran, sessions, session>>

Cancellable(w) ==
  /\ work[w].status \in {"received", "waiting_user", "awaiting_approval",
                         "retry_wait", "interrupted"}
  /\ ~Unresolved(w)

CancelWork(w) ==
  /\ Cancellable(w)
  /\ attempts' = [attempts EXCEPT ![w] =
                    [key \in Keys |->
                       IF key = CancelKey THEN "completed"
                       ELSE IF attempts[w][key] \in {"awaiting_approval", "ready"}
                       THEN "cancelled" ELSE attempts[w][key]]]
  /\ newest' = [newest EXCEPT ![w] = CancelKey]
  /\ candidate' = [candidate EXCEPT ![w].status =
                     IF HasCandidate(w) THEN "cancelled" ELSE @]
  /\ inquiry' = [inquiry EXCEPT ![w] = IF Contextual(w) THEN "blocked" ELSE @]
  /\ work' = [work EXCEPT ![w] = Unleased(@, "cancelled")]
  /\ snapshots' = [snapshots EXCEPT ![w] = {}]
  /\ UNCHANGED <<ran, sessions, session>>

(* RetryWorkItems, for one exact id, by a Store of session s.               *)
RetryWorkItem(w, s) ==
  /\ work[w].status = "retry_wait"
  /\ work[w].session = s
  /\ ~HasAttempt(w, {key.kind : key \in Keys}, {"executing", "blocked"})
  /\ SetWork(w, [Unleased(work[w], "received")
                   EXCEPT !.retry = 0, !.decision = "none"])

=============================================================================
