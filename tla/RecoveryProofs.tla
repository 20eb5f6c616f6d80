---------------------------- MODULE RecoveryProofs ----------------------------
(****************************************************************************)
(* Claims and sessions over crashes and restarts: work being processed by a *)
(* serving daemon always has its worker, and no worker claims work of       *)
(* another session.  The proofs tie the leases of the database to the       *)
(* workers of the process, over every exit of RunOnce, every crash and      *)
(* every start.  At the end: what a restart readmits, and what it archives. *)
(****************************************************************************)
EXTENDS WorkQueueProofs

Processing(w) == work[w].status = "processing"

(* The steps of RunOnce that give the lease up.                             *)
Ending == {"defer", "permanent", "failed", "terminal"}

(* Where the claims of the database may be, phase by phase: with their      *)
(* worker while the daemon serves, nowhere once recovery is over, and with  *)
(* an earlier session while it is not.                                       *)
Owned == \A w \in Works : Processing(w) => \E k \in Workers : work[w].lease = k /\ job[k].work = w
NoClaims == \A w \in Works : ~Processing(w)
ClaimsAreOld == \A w \in Works : Processing(w) => work[w].session # session
ClaimsAreListed == \A w \in Works : Processing(w) => w \in daemon.listed

ClaimsInv ==
  /\ daemon.pc \in Serving => Owned
  /\ daemon.pc \in {"recovered", "ready", "pausing", "paused"} => NoClaims
  /\ daemon.pc = "starting" => ClaimsAreOld
  /\ daemon.pc = "recovering" => ClaimsAreListed

(* No work item belongs to a session that was not started yet.              *)
SessionInv ==
  /\ \A w \in Works : work[w].session <= session
  /\ \A s \in SessionIds : s > session => sessions[s] = "unused"

(* Workers exist only while the daemon serves; one that is about to leave   *)
(* without a retry mark has given its lease up; and one that relies on a     *)
(* held candidate has it for as long as it has the lease.                    *)
HoldInv(k) ==
  /\ job[k].pc = "terminal" => ~Holds(k)
  /\ job[k].pc \in {"inspect", "held"} => ~job[k].held
  /\ (job[k].pc = "held" \/ job[k].held) /\ job[k].pc \notin Ending /\ Holds(k)
     => HasCandidate(W(k))

JobInv == \A k \in Workers : (daemon.pc \notin Serving => job[k] = Idle) /\ HoldInv(k)

OrphanInv == ClaimsInv /\ SessionInv /\ JobInv

-----------------------------------------------------------------------------
(* Claims shrink: every step but Claim only takes claims away.              *)

LEMMA UnleasedStatus ==
  ASSUME NEW row \in WorkRow, NEW status
  PROVE  /\ Unleased(row, status).status = status
         /\ Unleased(row, status).session = row.session
  BY DEF Unleased, WorkRow

Shrinks == \A w \in Works : work'[w] = work[w] \/ work'[w].status # "processing"

LEMMA SetShrinks ==
  ASSUME StoreTypeOK, NEW w \in Works, NEW row, row.status # "processing",
         row.session = work[w].session, work' = [work EXCEPT ![w] = row]
  PROVE  Shrinks /\ \A v \in Works : work'[v].session = work[v].session
  BY DEF StoreTypeOK, Shrinks

LEMMA MarksShrink ==
  ASSUME StoreTypeOK, NEW w \in Works, NEW k \in Workers, NEW kind,
         \/ MarkRetryClaim(w, k) \/ MarkDeadLetterClaim(w, k) \/ DeferWaitingUserClaim(w, k)
         \/ CompleteClaim(w, k, kind) \/ CompleteReplyCandidateClaim(w, k, kind)
  PROVE  /\ Shrinks /\ \A v \in Works : work'[v].session = work[v].session
         /\ ~HoldsLease(w, k)'
  <1>0. work[w] \in WorkRow /\ work \in [Works -> WorkRow]
    BY DEF StoreTypeOK
  <1>1. PICK row :
          /\ row.status \in WorkStatus \ {"processing"} /\ row.session = work[w].session
          /\ work' = [work EXCEPT ![w] = row]
    <2>1. ASSUME NEW status \in WorkStatus \ {"processing"}, NEW n, NEW m,
                 work' = [work EXCEPT ![w] = [Unleased(work[w], status) EXCEPT !.retry = n,
                                                                              !.decision = m]]
          PROVE  \E row : /\ row.status \in WorkStatus \ {"processing"} /\ row.session = work[w].session
                          /\ work' = [work EXCEPT ![w] = row]
      <3> DEFINE row == [Unleased(work[w], status) EXCEPT !.retry = n, !.decision = m]
      <3>1. row.status = status /\ row.session = work[w].session
        BY <1>0 DEF Unleased, WorkRow
      <3>2. work' = [work EXCEPT ![w] = row]
        BY <2>1
      <3> HIDE DEF row
      <3> QED
        BY <3>1, <3>2
    <2>2. ASSUME NEW status \in WorkStatus \ {"processing"}, NEW n, NEW m,
                 work' = [work EXCEPT ![w] = [Unleased(work[w], status) EXCEPT !.ownerRetry = n,
                                                                              !.decision = m]]
          PROVE  \E row : /\ row.status \in WorkStatus \ {"processing"} /\ row.session = work[w].session
                          /\ work' = [work EXCEPT ![w] = row]
      <3> DEFINE row == [Unleased(work[w], status) EXCEPT !.ownerRetry = n, !.decision = m]
      <3>1. row.status = status /\ row.session = work[w].session
        BY <1>0 DEF Unleased, WorkRow
      <3>2. work' = [work EXCEPT ![w] = row]
        BY <2>2
      <3> HIDE DEF row
      <3> QED
        BY <3>1, <3>2
    <2>3. ASSUME NEW status \in WorkStatus \ {"processing"}, NEW m,
                 work' = [work EXCEPT ![w] = [Unleased(work[w], status) EXCEPT !.decision = m]]
          PROVE  \E row : /\ row.status \in WorkStatus \ {"processing"} /\ row.session = work[w].session
                          /\ work' = [work EXCEPT ![w] = row]
      <3> DEFINE row == [Unleased(work[w], status) EXCEPT !.decision = m]
      <3>1. row.status = status /\ row.session = work[w].session
        BY <1>0 DEF Unleased, WorkRow
      <3>2. work' = [work EXCEPT ![w] = row]
        BY <2>3
      <3> HIDE DEF row
      <3> QED
        BY <3>1, <3>2
    <2>4. /\ {"dead_letter", "retry_wait", "waiting_user"} \subseteq WorkStatus \ {"processing"}
          /\ DecisionStatus(kind) \in WorkStatus \ {"processing"}
      BY DEF WorkStatus, DecisionStatus
    <2>5. CASE MarkRetryClaim(w, k)
      <3> DEFINE status == IF work[w].retry + 1 >= MaxRetries THEN "dead_letter" ELSE "retry_wait"
      <3>1. status \in WorkStatus \ {"processing"}
        BY <2>4
      <3>2. work' = [work EXCEPT ![w] = [Unleased(work[w], status) EXCEPT
                                           !.retry = work[w].retry + 1, !.decision = "record"]]
        BY <2>5 DEF MarkRetryClaim, SetWork
      <3> HIDE DEF status
      <3> QED
        BY <2>1, <3>1, <3>2
    <2>6. CASE MarkDeadLetterClaim(w, k)
      <3>1. Unleased(work[w], "dead_letter").retry = work[w].retry
        BY <1>0 DEF Unleased, WorkRow
      <3>2. work' = [work EXCEPT ![w] = [Unleased(work[w], "dead_letter") EXCEPT
                                           !.retry = work[w].retry + 1, !.decision = "record"]]
        BY <2>6, <3>1 DEF MarkDeadLetterClaim, SetWork
      <3> QED
        BY <2>1, <2>4, <3>2
    <2>7. CASE DeferWaitingUserClaim(w, k)
      <3> DEFINE status == IF work[w].ownerRetry + 1 >= MaxOwnerRetries THEN "dead_letter"
                                                                       ELSE "waiting_user"
      <3>1. status \in WorkStatus \ {"processing"}
        BY <2>4
      <3>2. work' = [work EXCEPT ![w] = [Unleased(work[w], status) EXCEPT
                                   !.ownerRetry = work[w].ownerRetry + 1, !.decision = "record"]]
        BY <2>7 DEF DeferWaitingUserClaim
      <3> HIDE DEF status
      <3> QED
        BY <2>2, <3>1, <3>2
    <2>8. CASE CompleteClaim(w, k, kind) \/ CompleteReplyCandidateClaim(w, k, kind)
      <3>1. work' = [work EXCEPT ![w] = [Unleased(work[w], DecisionStatus(kind)) EXCEPT
                                           !.decision = kind]]
        BY <2>8 DEF CompleteClaim, CompleteReplyCandidateClaim, SetWork
      <3> QED
        BY <2>3, <2>4, <3>1
    <2> QED
      BY <2>5, <2>6, <2>7, <2>8
  <1>2. work'[w] = row
    BY <1>0, <1>1
  <1> QED
    BY <1>1, <1>2, SetShrinks DEF HoldsLease

LEMMA WorkerShrinks ==
  ASSUME TypeOK, NEW k \in Workers, WorkerStep(k), ~Claim(k)
  PROVE  /\ Shrinks /\ \A w \in Works : work'[w].session = work[w].session
         /\ UNCHANGED <<sessions, session>>
  <1>0. StoreTypeOK
    BY DEF TypeOK
  <1>1. CASE UNCHANGED <<work, sessions, session>>
    BY <1>1 DEF Shrinks
  <1>2. CASE Held(k) \/ SaveCandidate(k) \/ FinalResolve(k)
    <2>1. UNCHANGED <<work, sessions, session>>
      BY <1>2 DEF Held, SaveCandidate, FinalResolve, Read, Fail, storeVars, SetCandidate,
                  TransitionWorkReplyCandidate, SaveWorkReplyCandidate
    <2> QED
      BY <1>1, <2>1
  <1>3. CASE Failed(k) \/ Permanent(k) \/ Defer(k) \/ Close(k)
    <2>1. W(k) \in Works
      BY <1>3, AtType DEF Failed, Permanent, Defer, Close, At
    <2>2. \/ UNCHANGED <<work, sessions, session>>
          \/ MarkRetryClaim(W(k), k) \/ MarkDeadLetterClaim(W(k), k)
          \/ DeferWaitingUserClaim(W(k), k)
          \/ CompleteClaim(W(k), k, job[k].kind) \/ CompleteReplyCandidateClaim(W(k), k, job[k].kind)
      BY <1>3 DEF Failed, Permanent, Defer, Close, Read, Fail, storeVars,
                  TransitionWorkReplyCandidate, SetCandidate
    <2>3. UNCHANGED <<sessions, session>>
      BY <2>2 DEF MarkRetryClaim, MarkDeadLetterClaim, DeferWaitingUserClaim, CompleteClaim,
                  CompleteReplyCandidateClaim, SetWork
    <2> QED
      BY <1>0, <1>1, <2>1, <2>2, <2>3, MarksShrink
  <1>4. CASE \/ Inspect(k) \/ Route(k) \/ Falter(k) \/ Resolve(k) \/ Inquire(k) \/ StageBegin(k)
             \/ StageSend(k) \/ StageRecord(k) \/ Investigate(k) \/ StartRun(k) \/ CallShell(k)
             \/ RunShell(k) \/ RecordShell(k) \/ Decide(k) \/ Finalize(k) \/ Finish(k)
             \/ Preflight(k) \/ NoticeBegin(k) \/ NoticeLease(k) \/ Notify(k) \/ Notified(k)
             \/ Handle(k) \/ Gate(k) \/ RequestReply(k) \/ Refuse(k) \/ BeginReply(k) \/ Send(k)
             \/ RecordSent(k) \/ RecordUnsent(k) \/ Settle(k) \/ Replied(k) \/ Closing(k)
             \/ TerminalFailure(k)
    BY <1>1, <1>4, WorkFree
  <1> QED
    BY <1>2, <1>3, <1>4, Zenon DEF WorkerStep

(* The steps of RunOnce that end a job or give its lease up come from these. *)
LEMMA GoOnFrom ==
  ASSUME NEW k \in Workers,
         \/ Route(k) \/ Falter(k) \/ Resolve(k) \/ Inquire(k) \/ StageBegin(k) \/ StageSend(k)
         \/ StageRecord(k) \/ Investigate(k) \/ StartRun(k) \/ RecordShell(k) \/ Decide(k)
         \/ Finalize(k) \/ Finish(k) \/ Preflight(k) \/ NoticeBegin(k) \/ NoticeLease(k)
         \/ Notify(k) \/ Notified(k) \/ Handle(k) \/ Gate(k) \/ RequestReply(k) \/ Refuse(k)
         \/ BeginReply(k) \/ RecordSent(k) \/ RecordUnsent(k) \/ Settle(k) \/ Replied(k)
         \/ Closing(k) \/ Inspect(k) \/ CallShell(k) \/ RunShell(k) \/ Send(k)
         \/ SaveCandidate(k) \/ FinalResolve(k) \/ Held(k) \/ Close(k)
  PROVE  daemon.pc \in Serving /\ job[k].pc \notin Ending
  BY DEF Route, Falter, Resolve, Inquire, StageBegin, StageSend, StageRecord, Investigate,
         StartRun, RecordShell, Decide, Finalize, Finish, Preflight, NoticeBegin, NoticeLease,
         Notify, Notified, Handle, Gate, RequestReply, Refuse, BeginReply, RecordSent,
         RecordUnsent, Settle, Replied, Closing, Inspect, CallShell, RunShell, Send,
         SaveCandidate, FinalResolve, Held, Close, At, Ending

LEMMA WorkerServing ==
  ASSUME NEW k \in Workers, WorkerStep(k)
  PROVE  daemon.pc \in Serving
  <1>1. CASE Claim(k) \/ Defer(k) \/ Failed(k) \/ Permanent(k) \/ TerminalFailure(k)
    BY <1>1 DEF Claim, Defer, Failed, Permanent, TerminalFailure, At, Serving
  <1>2. CASE ~(Claim(k) \/ Defer(k) \/ Failed(k) \/ Permanent(k) \/ TerminalFailure(k))
    BY <1>2, GoOnFrom, Zenon DEF WorkerStep
  <1> QED
    BY <1>1, <1>2

LEMMA OperatorShrinks ==
  ASSUME TypeOK, SessionInv, NEW w \in Works, OperatorStep(w)
  PROVE  /\ UNCHANGED <<job, daemon, sessions, session>>
         /\ \A v \in Works : \/ work'[v] = work[v] /\ candidate'[v] = candidate[v]
                             \/ work'[v].status # "processing" /\ work'[v].session <= session
  <1>0. /\ work \in [Works -> WorkRow] /\ work[w] \in WorkRow /\ candidate \in [Works -> CandidateRow]
        /\ session \in Nat /\ work[w].session <= session /\ sessions \in [SessionIds -> SessionStatus]
    BY GenerationType DEF TypeOK, StoreTypeOK, SessionInv
  <1>1. UNCHANGED <<job, daemon, sessions, session>>
    BY DEF OperatorStep, DecideApproval, Resume, ResumeIn, Cancel, Retry, Command, DecideAction,
           ResumeWork, CancelWork, RetryWorkItem, SetWork
  <1>2. ActiveSession # 0 => ActiveSession <= session
    <2>1. /\ ActiveSession \in SessionIds \cup {0}
          /\ ActiveSession # 0 => sessions[ActiveSession] # "unused"
      BY ActiveSessionType DEF TypeOK
    <2> QED
      BY <1>0, <2>1, GenerationType DEF SessionInv
  <1>3. ASSUME NEW row, row.status # "processing", row.session <= session,
               work' = [work EXCEPT ![w] = row],
               \A v \in Works \ {w} : candidate'[v] = candidate[v]
        PROVE  \A v \in Works : \/ work'[v] = work[v] /\ candidate'[v] = candidate[v]
                                \/ work'[v].status # "processing" /\ work'[v].session <= session
    BY <1>0, <1>3
  <1>4. CASE DecideApproval(w)
    <2>1. PICK key \in Approvable, approve \in BOOLEAN : DecideAction(w, key, approve)
      BY <1>4 DEF DecideApproval
    <2>2. PICK row : /\ work' = [work EXCEPT ![w] = row]
                     /\ row.status # "processing" /\ row.session <= session
      <3> DEFINE s == ActiveSession
                 fresh == [Unleased(work[w], "received") EXCEPT !.session = s]
      <3>1. fresh.status = "received" /\ fresh.session = s
        BY <1>0 DEF Unleased, WorkRow
      <3>2. \/ \E status \in {"cancelled", "interrupted"} :
                  work' = [work EXCEPT ![w] = Unleased(work[w], status)]
            \/ s # 0 /\ work' = [work EXCEPT ![w] = fresh]
        BY <2>1 DEF DecideAction
      <3> HIDE DEF fresh
      <3> QED
        BY <1>0, <1>2, <3>1, <3>2, UnleasedStatus
    <2>3. candidate' = candidate
      BY <2>1 DEF DecideAction
    <2> QED
      BY <1>1, <1>3, <2>2, <2>3
  <1>5. CASE Resume(w)
    <2>0. PICK s \in OpenedSessions, force \in BOOLEAN : ResumeWork(w, s, force)
      BY <1>5 DEF Resume, ResumeIn
    <2> DEFINE row == [status |-> "received", lease |-> NoLease, gen |-> work[w].gen + 1,
                       retry |-> 0, ownerRetry |-> 0, session |-> s,
                       decision |-> "none"]
    <2>1. /\ work' = [work EXCEPT ![w] = row]
          /\ \A v \in Works \ {w} : candidate'[v] = candidate[v]
      BY <1>0, <2>0 DEF ResumeWork
    <2>2. row.status = "received" /\ row.session <= session
      BY <1>0 DEF OpenedSessions
    <2> HIDE DEF row
    <2> QED
      BY <1>1, <1>3, <2>1, <2>2
  <1>6. CASE Cancel(w)
    <2>1. /\ work' = [work EXCEPT ![w] = Unleased(work[w], "cancelled")]
          /\ \A v \in Works \ {w} : candidate'[v] = candidate[v]
      BY <1>0, <1>6 DEF Cancel, CancelWork
    <2> QED
      BY <1>0, <1>1, <1>3, <2>1, UnleasedStatus
  <1>7. CASE Retry(w)
    <2> DEFINE row == [Unleased(work[w], "received") EXCEPT !.retry = 0, !.decision = "none"]
    <2>1. work' = [work EXCEPT ![w] = row] /\ candidate' = candidate
      BY <1>7 DEF Retry, RetryWorkItem, SetWork
    <2>2. row.status = "received" /\ row.session = work[w].session
      BY <1>0 DEF Unleased, WorkRow
    <2> HIDE DEF row
    <2> QED
      BY <1>0, <1>1, <1>3, <2>1, <2>2
  <1> QED
    BY <1>4, <1>5, <1>6, <1>7 DEF OperatorStep

-----------------------------------------------------------------------------
(* Every exit of RunOnce: a worker that ends has given its lease up.        *)

GivenUp(k) == ~(work'[W(k)].status = "processing" /\ work'[W(k)].lease = k)

LEMMA IdleHold ==
  ASSUME NEW k \in Workers, job'[k] = Idle
  PROVE  HoldInv(k)'
  BY DEF HoldInv, Idle

LEMMA HoldKept ==
  ASSUME NEW k \in Workers, HoldInv(k), job'[k].work = W(k), job'[k].held = job[k].held,
         job[k].pc \notin Ending, job'[k].pc \notin {"terminal", "inspect", "held"},
         UNCHANGED <<work, candidate>>
  PROVE  HoldInv(k)'
  BY DEF HoldInv, Holds, HoldsLease, HasCandidate, W

LEMMA MarksGiveUp ==
  ASSUME TypeOK, NEW k \in Workers, Failed(k) \/ Permanent(k) \/ Defer(k)
  PROVE  GivenUp(k)
  <1>1. W(k) \in Works /\ StoreTypeOK
    BY AtType DEF Failed, Permanent, Defer, At, TypeOK
  <1>2. \/ ~Holds(k) /\ work' = work
        \/ MarkRetryClaim(W(k), k) \/ MarkDeadLetterClaim(W(k), k)
        \/ DeferWaitingUserClaim(W(k), k)
    BY DEF Failed, Permanent, Defer, Read, Fail, storeVars
  <1>3. CASE ~Holds(k) /\ work' = work
    BY <1>3 DEF GivenUp, Holds, HoldsLease
  <1>4. CASE \/ MarkRetryClaim(W(k), k) \/ MarkDeadLetterClaim(W(k), k)
             \/ DeferWaitingUserClaim(W(k), k)
    <2>1. ASSUME NEW w \in Works, w = W(k) PROVE GivenUp(k)
      <3>1. ~(work'[w].status = "processing" /\ work'[w].lease = k)
        BY <1>1, <1>4, <2>1, MarksShrink DEF HoldsLease
      <3> QED
        BY <2>1, <3>1 DEF GivenUp
    <2> QED
      BY <1>1, <2>1
  <1> QED
    BY <1>2, <1>3, <1>4

LEMMA WorkerHold ==
  ASSUME TypeOK, NEW k \in Workers, HoldInv(k), WorkerStep(k), ~Claim(k)
  PROVE  HoldInv(k)' /\ (job'[k].work = W(k) \/ GivenUp(k))
  <1>1. CASE \/ Route(k) \/ Falter(k) \/ Resolve(k) \/ Inquire(k) \/ StageBegin(k) \/ StageSend(k)
             \/ StageRecord(k) \/ Investigate(k) \/ StartRun(k) \/ RecordShell(k) \/ Decide(k)
             \/ Finalize(k) \/ Finish(k) \/ Preflight(k) \/ NoticeBegin(k) \/ NoticeLease(k)
             \/ Notify(k) \/ Notified(k) \/ Handle(k) \/ Gate(k) \/ RequestReply(k)
             \/ Refuse(k) \/ BeginReply(k) \/ RecordSent(k) \/ RecordUnsent(k) \/ Settle(k)
             \/ Replied(k) \/ Closing(k)
    <2>1. GoesOn(k)
      BY <1>1, MostGoOn
    <2>2. job[k].pc \notin Ending /\ UNCHANGED <<work, candidate>>
      BY <1>1, GoOnFrom, WorkFree
    <2> QED
      BY <2>1, <2>2, HoldKept DEF GoesOn, Apart
  <1>2. CASE CallShell(k) \/ RunShell(k) \/ Send(k)
    <2>1. /\ job'[k].work = W(k) /\ job'[k].held = job[k].held
          /\ job'[k].pc \notin {"terminal", "inspect", "held"}
      BY <1>2, ShellMoves, RunMoves, OtherMoves DEF Moves
    <2>2. job[k].pc \notin Ending /\ UNCHANGED <<work, candidate>>
      BY <1>2, GoOnFrom, WorkFree
    <2> QED
      BY <2>1, <2>2, HoldKept
  <1>3. CASE Inspect(k)
    <2>1. job[k].pc = "inspect" /\ UNCHANGED <<work, candidate>>
      BY <1>3, WorkFree DEF Inspect, At
    <2>2. /\ job'[k].work = W(k) /\ job'[k].held = job[k].held
          /\ job'[k].pc \notin {"terminal", "inspect"}
          /\ job'[k].pc = "held" => HasCandidate(W(k))
      BY <1>3, InspectMoves DEF Moves
    <2> QED
      BY <2>1, <2>2 DEF HoldInv, HasCandidate, W
  <1>4. CASE Held(k)
    <2>1. job[k].pc = "held"
      BY <1>4 DEF Held, At
    <2>2. /\ job'[k].work = W(k) /\ job'[k].pc \notin {"terminal", "inspect", "held"}
          /\ job'[k].held = job[k].held \/ UNCHANGED <<work, candidate>>
      BY <1>4, HeldMoves DEF Moves, storeVars
    <2>3. "held" \notin Ending
      BY DEF Ending
    <2> QED
      BY <2>1, <2>2, <2>3 DEF HoldInv, Holds, HoldsLease, HasCandidate, W
  <1>5. CASE SaveCandidate(k)
    <2>1. /\ job'[k].work = W(k) /\ job'[k].pc \in {"final", "failed"}
          /\ job'[k].pc = "final" => HasCandidate(W(k))'
      BY <1>5, SaveCandidateMoves DEF Moves
    <2> QED
      BY <2>1 DEF HoldInv, Ending
  <1>6. CASE FinalResolve(k)
    <2>1. /\ job'[k].work = W(k) /\ job'[k].pc \in {"defer", "permanent", "finalizing", "failed"}
          /\ \/ job'[k].pc # "finalizing"
             \/ job'[k].held = FALSE
             \/ job'[k].held = job[k].held /\ UNCHANGED <<work, candidate>>
      BY <1>6, FinalResolveMoves DEF Moves, storeVars
    <2>2. job[k].pc \notin Ending
      BY <1>6, GoOnFrom
    <2>3. CASE job'[k].pc # "finalizing" \/ job'[k].held = FALSE
      BY <2>1, <2>3 DEF HoldInv, Ending
    <2>4. CASE job'[k].held = job[k].held /\ UNCHANGED <<work, candidate>>
      BY <2>1, <2>2, <2>4, HoldKept
    <2> QED
      BY <2>1, <2>3, <2>4
  <1>7. CASE Failed(k) \/ Permanent(k) \/ Defer(k)
    <2>1. GivenUp(k)
      BY <1>7, MarksGiveUp
    <2>2. CASE Lands(k, Idle)
      BY <2>1, <2>2, IdleHold DEF Lands
    <2>3. CASE Moves(k, {"terminal", "failed"})
      BY <2>1, <2>3 DEF HoldInv, GivenUp, Holds, HoldsLease, W, Moves
    <2> QED
      BY <1>7, <2>2, <2>3, FailedMoves
  <1>8. CASE Close(k)
    <2>1. job[k].pc = "close" /\ "close" \notin Ending
      BY <1>8 DEF Close, At, Ending
    <2>2. CASE Moves(k, {"close"}) /\ job'[k].held = FALSE
      BY <2>2 DEF Moves, HoldInv
    <2>3. CASE /\ Lands(k, Idle)
               /\ \/ work'[W(k)].status # "processing"
                  \/ ~Holds(k) /\ UNCHANGED storeVars
                  \/ job[k].held /\ ~HasCandidate(W(k)) /\ UNCHANGED storeVars
      <3>1. GivenUp(k)
        BY <2>1, <2>3 DEF GivenUp, HoldInv, Holds, HoldsLease, storeVars
      <3> QED
        BY <2>3, <3>1, IdleHold DEF Lands
    <2> QED
      BY <1>8, <2>2, <2>3, CloseMoves
  <1>9. CASE TerminalFailure(k)
    <2>1. job[k].pc = "terminal" /\ work' = work /\ Lands(k, Idle)
      BY <1>9, WorkFree, OtherMoves DEF TerminalFailure, At
    <2>2. GivenUp(k)
      BY <2>1 DEF GivenUp, HoldInv, Holds, HoldsLease
    <2> QED
      BY <2>1, <2>2, IdleHold DEF Lands
  <1> QED
    BY <1>1, <1>2, <1>3, <1>4, <1>5, <1>6, <1>7, <1>8, <1>9, Zenon DEF WorkerStep

-----------------------------------------------------------------------------
(* One step of a worker.                                                     *)

LEMMA OthersHold ==
  ASSUME TypeOK, NEW l \in Workers, HoldInv(l), job'[l] = job[l],
         \A w \in Works : \/ work'[w] = work[w] /\ candidate'[w] = candidate[w]
                          \/ work'[w].status # "processing" \/ work'[w].lease # l
  PROVE  HoldInv(l)'
  <1>1. CASE job[l].pc = "idle"
    <2>1. job[l] = Idle
      BY <1>1 DEF TypeOK, QueueTypeOK, JobOK
    <2> QED
      BY <2>1, IdleHold
  <1>2. CASE job[l].pc # "idle"
    <2>1. W(l) \in Works /\ W(l)' = W(l)
      BY <1>2, AtType DEF W
    <2> QED
      BY <2>1 DEF HoldInv, Holds, HoldsLease, HasCandidate
  <1> QED
    BY <1>1, <1>2

LEMMA ServingPhases ==
  Serving \cap {"recovered", "ready", "pausing", "paused", "starting", "recovering", "down"} = {}
  BY DEF Serving

LEMMA ClaimOrphan ==
  ASSUME TypeOK, OrphanInv, NEW k \in Workers, Claim(k)
  PROVE  OrphanInv'
  <1>0. /\ work \in [Works -> WorkRow] /\ candidate \in [Works -> CandidateRow]
        /\ \A w \in Works : work[w] \in WorkRow
    BY DEF TypeOK, StoreTypeOK
  <1> DEFINE c == job'[k].work
  <1>1. /\ \A l \in Workers \ {k} : job'[l] = job[l]
        /\ daemon' = daemon /\ daemon.pc \in Serving
        /\ job'[k].pc = "inspect" /\ job'[k].held = FALSE /\ job[k].pc = "idle"
        /\ c \in Works
    BY ClaimMoves DEF Frame, Serving
  <1> DEFINE row == [work[c] EXCEPT !.status = "processing", !.lease = k]
  <1>2. work' = [work EXCEPT ![c] = row]
    BY ClaimMoves DEF ClaimNextForLane, SetWork
  <1>3. row.lease = k /\ row.session = work[c].session
    BY <1>0, <1>1 DEF WorkRow
  <1>4. work[c].status # "processing" /\ UNCHANGED <<candidate, sessions, session>>
    BY ClaimMoves DEF ClaimNextForLane, SetWork, Claimable
  <1> HIDE DEF row, c
  <1>5. /\ work'[c] = row
        /\ \A w \in Works \ {c} : work'[w] = work[w]
    BY <1>0, <1>1, <1>2
  <1>6. job[k] = Idle
    BY <1>1 DEF TypeOK, QueueTypeOK, JobOK
  <1>7. Owned'
    <2> SUFFICES ASSUME NEW w \in Works, work'[w].status = "processing"
                 PROVE  \E l \in Workers : work'[w].lease = l /\ job'[l].work = w
      BY DEF Owned, Processing
    <2>1. CASE w = c
      BY <1>1, <1>3, <1>5, <2>1 DEF c
    <2>2. CASE w # c
      <3>1. PICK l \in Workers : work[w].lease = l /\ job[l].work = w
        BY <1>1, <1>5, <2>2 DEF OrphanInv, ClaimsInv, Owned, Processing
      <3>2. l # k
        BY <1>6, <3>1, QueueParameters DEF Idle
      <3> QED
        BY <1>1, <1>5, <2>2, <3>1, <3>2
    <2> QED
      BY <2>1, <2>2
  <1>8. ClaimsInv'
    BY <1>1, <1>7, ServingPhases DEF ClaimsInv
  <1>9. SessionInv'
    BY <1>3, <1>4, <1>5 DEF OrphanInv, SessionInv
  <1>10. JobInv'
    <2> SUFFICES ASSUME NEW l \in Workers PROVE HoldInv(l)'
      BY <1>1 DEF JobInv
    <2>1. CASE l = k
      BY <1>1, <2>1 DEF HoldInv
    <2>2. CASE l # k
      <3>1. \A w \in Works : \/ work'[w] = work[w] /\ candidate'[w] = candidate[w]
                             \/ work'[w].lease # l
        BY <1>3, <1>4, <1>5, <2>2
      <3> QED
        BY <1>1, <2>2, <3>1, OthersHold DEF OrphanInv, JobInv
    <2> QED
      BY <2>1, <2>2
  <1> QED
    BY <1>8, <1>9, <1>10 DEF OrphanInv

LEMMA WorkerOrphan ==
  ASSUME TypeOK, OrphanInv, NEW k \in Workers, WorkerStep(k)
  PROVE  OrphanInv'
  <1>1. CASE Claim(k)
    BY <1>1, ClaimOrphan
  <1>2. CASE ~Claim(k)
    <2>1. /\ daemon' = daemon /\ daemon.pc \in Serving
          /\ \A l \in Workers \ {k} : job'[l] = job[l]
      BY WorkerFrame, WorkerServing
    <2>2. /\ Shrinks /\ \A w \in Works : work'[w].session = work[w].session
          /\ UNCHANGED <<sessions, session>>
      BY <1>2, WorkerShrinks
    <2>3. OnlyHeld(k)
      BY <1>2, WorkerOnlyHeld
    <2>4. HoldInv(k)' /\ (job'[k].work = W(k) \/ GivenUp(k))
      BY <1>2, WorkerHold DEF OrphanInv, JobInv
    <2>5. Owned'
      <3> SUFFICES ASSUME NEW w \in Works, work'[w].status = "processing"
                   PROVE  \E l \in Workers : work'[w].lease = l /\ job'[l].work = w
        BY DEF Owned, Processing
      <3>1. work'[w] = work[w]
        BY <2>2 DEF Shrinks
      <3>2. PICK l \in Workers : work[w].lease = l /\ job[l].work = w
        BY <2>1, <3>1 DEF OrphanInv, ClaimsInv, Owned, Processing
      <3>3. l = k => job'[l].work = w
        BY <2>4, <3>1, <3>2 DEF GivenUp, W
      <3> QED
        BY <2>1, <3>1, <3>2, <3>3
    <2>6. ClaimsInv'
      BY <2>1, <2>5, ServingPhases DEF ClaimsInv
    <2>7. SessionInv'
      BY <2>2 DEF OrphanInv, SessionInv
    <2>8. JobInv'
      <3> SUFFICES ASSUME NEW l \in Workers \ {k} PROVE HoldInv(l)'
        BY <2>1, <2>4 DEF JobInv
      <3>1. \A w \in Works : \/ work'[w] = work[w] /\ candidate'[w] = candidate[w]
                             \/ work'[w].status # "processing" \/ work'[w].lease # l
        BY <2>2, <2>3 DEF OnlyHeld, Holds, HoldsLease, Shrinks
      <3> QED
        BY <2>1, <3>1, OthersHold DEF OrphanInv, JobInv
    <2> QED
      BY <2>6, <2>7, <2>8 DEF OrphanInv
  <1> QED
    BY <1>1, <1>2

-----------------------------------------------------------------------------
(* One operator command.                                                     *)

LEMMA OperatorOrphan ==
  ASSUME TypeOK, OrphanInv, NEW w \in Works, OperatorStep(w)
  PROVE  OrphanInv'
  <1>1. /\ UNCHANGED <<job, daemon, sessions, session>>
        /\ \A v \in Works : \/ work'[v] = work[v] /\ candidate'[v] = candidate[v]
                            \/ work'[v].status # "processing" /\ work'[v].session <= session
    BY OperatorShrinks DEF OrphanInv
  <1>2. ClaimsInv'
    BY <1>1 DEF OrphanInv, ClaimsInv, Owned, NoClaims, ClaimsAreOld, ClaimsAreListed, Processing
  <1>3. SessionInv'
    BY <1>1 DEF OrphanInv, SessionInv
  <1>4. JobInv'
    <2> SUFFICES ASSUME NEW l \in Workers PROVE HoldInv(l)'
      BY <1>1 DEF OrphanInv, JobInv
    <2> QED
      BY <1>1, OthersHold DEF OrphanInv, JobInv
  <1> QED
    BY <1>2, <1>3, <1>4 DEF OrphanInv

-----------------------------------------------------------------------------
(* One step of the daemon.                                                   *)

LEMMA IdleJobs ==
  ASSUME \A k \in Workers : job'[k] = Idle
  PROVE  JobInv'
  BY IdleHold DEF JobInv

LEMMA StartOrphan ==
  ASSUME TypeOK, OrphanInv, Start \/ ListPriorWork
  PROVE  OrphanInv'
  <1>0. /\ work \in [Works -> WorkRow] /\ session \in Nat
        /\ sessions \in [SessionIds -> SessionStatus] /\ \A w \in Works : work[w].session \in Nat
    BY GenerationType DEF TypeOK, StoreTypeOK, WorkRow
  <1>1. JobInv'
    <2>1. \A k \in Workers : job[k] = Idle
      BY ServingPhases DEF OrphanInv, JobInv, Start, ListPriorWork
    <2> QED
      BY <2>1, IdleJobs DEF Start, ListPriorWork, Phase
  <1>2. CASE Start
    <2>1. daemon'.pc = "starting" /\ work' = work /\ session' = session + 1
          /\ sessions' = [sessions EXCEPT ![session + 1] = "starting"]
      BY <1>2 DEF Start, Phase, CreateOnlineSession, SetSession, TypeOK, QueueTypeOK
    <2>2. SessionInv'
      BY <1>0, <2>1, GenerationType DEF OrphanInv, SessionInv
    <2>3. ClaimsAreOld'
      BY <1>0, <2>1 DEF OrphanInv, SessionInv, ClaimsAreOld, Processing
    <2> QED
      BY <1>1, <2>1, <2>2, <2>3, ServingPhases DEF OrphanInv, ClaimsInv
  <1>3. CASE ListPriorWork
    <2>1. /\ daemon' = [pc |-> "recovering", listed |-> PriorWork] /\ daemon.pc = "starting"
          /\ UNCHANGED <<sessions, session>>
      BY <1>3 DEF ListPriorWork, ReadmitPristineWaiting
    <2>2. \A w \in Works :
            \/ work'[w] = work[w]
            \/ work'[w].status = "waiting_user" /\ work'[w].session = session
      <3> TAKE w \in Works
      <3> DEFINE row == [work[w] EXCEPT !.session = session, !.decision = "none"]
      <3>1. work'[w] = work[w] \/ (work[w].status = "waiting_user" /\ work'[w] = row)
        BY <1>3 DEF ListPriorWork, ReadmitPristineWaiting
      <3>2. row.status = work[w].status /\ row.session = session
        BY <1>0 DEF WorkRow
      <3> HIDE DEF row
      <3> QED
        BY <3>1, <3>2
    <2>3. SessionInv'
      BY <1>0, <2>1, <2>2 DEF OrphanInv, SessionInv
    <2>4. \A w \in Works : Processing(w) => w \in PriorWork
      BY <2>1 DEF OrphanInv, ClaimsInv, ClaimsAreOld, Processing, PriorWork, Interruptible, Active,
                  WorkStatus, Terminal
    <2>5. ClaimsAreListed'
      BY <2>1, <2>2, <2>4 DEF ClaimsAreListed, Processing
    <2> QED
      BY <1>1, <2>1, <2>3, <2>5, ServingPhases DEF OrphanInv, ClaimsInv
  <1> QED
    BY <1>2, <1>3

LEMMA InterruptOrphan ==
  ASSUME TypeOK, OrphanInv, ListCurrentWork \/ Interrupt
  PROVE  OrphanInv'
  <1>0. /\ work \in [Works -> WorkRow] /\ \A w \in Works : work[w] \in WorkRow
    BY DEF TypeOK, StoreTypeOK
  <1>1. \A k \in Workers : job[k] = Idle
    BY ServingPhases DEF OrphanInv, JobInv, ListCurrentWork, Interrupt
  <1>2. JobInv'
    BY <1>1, IdleJobs DEF ListCurrentWork, Interrupt
  <1>3. CASE ListCurrentWork
    <2>1. daemon.pc = "draining" /\ daemon'.pc = "pausing" /\ UNCHANGED <<work, session, sessions>>
      BY <1>3 DEF ListCurrentWork, storeVars
    <2>2. NoClaims
      BY <1>1, <2>1, QueueParameters DEF OrphanInv, ClaimsInv, Owned, NoClaims, Serving, Idle
    <2>3. SessionInv' /\ NoClaims'
      BY <2>1, <2>2 DEF OrphanInv, SessionInv, NoClaims, Processing
    <2> QED
      BY <1>2, <2>1, <2>3, ServingPhases DEF OrphanInv, ClaimsInv
  <1>4. CASE Interrupt
    <2>1. /\ \A w \in Works : work'[w] = IF w \in daemon.listed
                                         THEN Unleased(work[w], "interrupted") ELSE work[w]
          /\ UNCHANGED <<sessions, session>>
          /\ daemon'.pc \in {"recovered", "paused"}
      BY <1>4 DEF Interrupt, InterruptSessionWork
    <2>2. \A w \in Works : /\ work'[w].session = work[w].session
                           /\ work'[w].status = "interrupted" \/ work'[w] = work[w]
      BY <1>0, <2>1, UnleasedStatus
    <2>3. SessionInv'
      BY <2>1, <2>2 DEF OrphanInv, SessionInv
    <2>4. \A w \in Works : Processing(w) => w \in daemon.listed
      BY <1>4 DEF Interrupt, OrphanInv, ClaimsInv, NoClaims, ClaimsAreListed
    <2>5. NoClaims'
      BY <1>0, <2>1, <2>4, UnleasedStatus DEF NoClaims, Processing
    <2> QED
      BY <1>2, <2>1, <2>3, <2>5, ServingPhases DEF OrphanInv, ClaimsInv
  <1> QED
    BY <1>3, <1>4

LEMMA ConvergeOrphan ==
  ASSUME TypeOK, OrphanInv, Converge
  PROVE  OrphanInv'
  <1>0. /\ work \in [Works -> WorkRow] /\ \A w \in Works : work[w] \in WorkRow
        /\ session \in Nat
    BY GenerationType DEF TypeOK, StoreTypeOK
  <1>1. /\ daemon.pc = "ready" /\ daemon'.pc = "running" /\ job' = job
        /\ UNCHANGED <<sessions, session>>
    BY DEF Converge, Phase, ConvergeInterruptedWork, TypeOK, QueueTypeOK
  <1>2. JobInv'
    BY <1>1, IdleJobs, ServingPhases DEF OrphanInv, JobInv
  <1>3. \A w \in Works : \/ work'[w] = work[w]
                         \/ work'[w].status # "processing" /\ work'[w].session = session
    <2> TAKE w \in Works
    <2> DEFINE row == [Unleased(work[w], ConvergedStatus(w))
                         EXCEPT !.session = session, !.decision = ConvergedDecision(w)]
    <2>1. work'[w] = work[w] \/ work'[w] = row
      BY DEF Converge, ConvergeInterruptedWork, Converged
    <2>2. row.status = ConvergedStatus(w) /\ row.session = session
      BY <1>0 DEF Unleased, WorkRow
    <2>3. ConvergedStatus(w) # "processing"
      BY DEF ConvergedStatus
    <2> HIDE DEF row
    <2> QED
      BY <2>1, <2>2, <2>3
  <1>4. SessionInv'
    BY <1>0, <1>1, <1>3 DEF OrphanInv, SessionInv
  <1>5. Owned'
    BY <1>1, <1>3 DEF OrphanInv, ClaimsInv, NoClaims, Owned, Processing
  <1> QED
    BY <1>1, <1>2, <1>4, <1>5 DEF OrphanInv, ClaimsInv

LEMMA OtherOrphan ==
  ASSUME TypeOK, OrphanInv, MarkReady \/ Shutdown \/ StopSession \/ Crash
  PROVE  OrphanInv'
  <1>0. sessions \in [SessionIds -> SessionStatus] /\ session \in SessionIds
    BY DEF TypeOK, StoreTypeOK
  <1>1. work' = work /\ candidate' = candidate /\ session' = session
    BY DEF MarkReady, Shutdown, StopSession, Crash, MarkCurrentSessionReady, StopCurrentSession,
           SetSession, storeVars
  <1>2. SessionInv'
    <2>1. \/ sessions' = sessions
          \/ \E status : sessions' = [sessions EXCEPT ![session] = status]
      BY DEF MarkReady, Shutdown, StopSession, Crash, MarkCurrentSessionReady,
             StopCurrentSession, SetSession, storeVars
    <2> QED
      BY <1>0, <1>1, <2>1, GenerationType DEF OrphanInv, SessionInv
  <1>3. CASE Shutdown
    <2>1. daemon.pc = "running" /\ daemon'.pc = "draining" /\ job' = job
      BY <1>3 DEF Shutdown, Phase, TypeOK, QueueTypeOK
    <2>2. Owned'
      BY <1>1, <2>1 DEF OrphanInv, ClaimsInv, Owned, Processing, Serving
    <2>3. JobInv'
      BY <1>1, <2>1, OthersHold DEF OrphanInv, JobInv, Serving
    <2> QED
      BY <1>2, <2>1, <2>2, <2>3 DEF OrphanInv, ClaimsInv
  <1>4. CASE MarkReady
    <2>1. daemon.pc = "recovered" /\ daemon'.pc = "ready" /\ job' = job
      BY <1>4 DEF MarkReady, Phase, TypeOK, QueueTypeOK
    <2>2. JobInv'
      BY <2>1, IdleJobs, ServingPhases DEF OrphanInv, JobInv
    <2>3. NoClaims'
      BY <1>1, <2>1 DEF OrphanInv, ClaimsInv, NoClaims, Processing
    <2> QED
      BY <1>2, <2>1, <2>2, <2>3, ServingPhases DEF OrphanInv, ClaimsInv
  <1>5. CASE StopSession \/ Crash
    <2>1. daemon'.pc = "down"
      BY <1>5 DEF StopSession, Crash, Phase, TypeOK, QueueTypeOK
    <2>2. \A k \in Workers : job'[k] = Idle
      BY <1>5, ServingPhases DEF StopSession, Crash, Phase, OrphanInv, JobInv
    <2> QED
      BY <1>2, <2>1, <2>2, IdleJobs, ServingPhases DEF OrphanInv, ClaimsInv
  <1> QED
    BY <1>3, <1>4, <1>5

LEMMA InitOrphan == Init => OrphanInv
  <1> SUFFICES ASSUME Init PROVE OrphanInv
    OBVIOUS
  <1>1. daemon.pc = "recovered" /\ \A k \in Workers : job[k] = Idle
    BY DEF Init
  <1>2. JobInv
    <2>1. ASSUME NEW k \in Workers PROVE HoldInv(k)
      BY <1>1 DEF HoldInv, Idle
    <2> QED
      BY <1>1, <2>1 DEF JobInv
  <1>3. SessionInv
    BY GenerationType DEF Init, StoreInit, SessionInv
  <1>4. NoClaims
    BY DEF Init, StoreInit, NoClaims, Processing
  <1> QED
    BY <1>1, <1>2, <1>3, <1>4, ServingPhases DEF OrphanInv, ClaimsInv

LEMMA OrphanStep == TypeOK /\ OrphanInv /\ [Next]_vars => OrphanInv'
  <1> SUFFICES ASSUME TypeOK, OrphanInv, [Next]_vars PROVE OrphanInv'
    OBVIOUS
  <1>1. CASE UNCHANGED vars
    BY <1>1 DEF vars, storeVars, queueVars, OrphanInv, ClaimsInv, SessionInv, JobInv, HoldInv,
                Owned, NoClaims, ClaimsAreOld, ClaimsAreListed, Processing, Holds, HoldsLease,
                HasCandidate, W
  <1>2. CASE Next
    BY <1>2, WorkerOrphan, OperatorOrphan, StartOrphan, InterruptOrphan, ConvergeOrphan,
       OtherOrphan DEF Next, DaemonStep
  <1> QED
    BY <1>1, <1>2

(* A serving daemon has a worker for every claim: no crash, no restart, no   *)
(* stop and no path out of RunOnce leaves work in processing with nobody to  *)
(* finish it, although nothing in the code ever expires a lease.             *)
THEOREM NoClaimIsOrphaned == Spec => []NoOrphanedWork
  <1>1. OrphanInv => NoOrphanedWork
    BY DEF OrphanInv, ClaimsInv, NoOrphanedWork, Owned, NoClaims, Processing, Serving
  <1> QED
    BY <1>1, OrphanStep, InitOrphan, TypeCorrect, PTL DEF Spec

-----------------------------------------------------------------------------
(* Work that may be claimed belongs to the session that claims it.          *)

(* After recovery all active work is of the present session, but for what a  *)
(* CLI of an older one resumed since recovery listed the works; during       *)
(* recovery what is not has been listed; and an approval readmits into the   *)
(* session of the daemon for as long as there is one.                         *)
SessionWork ==
  /\ daemon.pc \in {"recovered", "ready", "running", "draining", "pausing", "paused"} =>
       \A w \in Works : work[w].status \in Active =>
         work[w].session = session \/ w \in strays
  /\ daemon.pc = "recovering" =>
       \A w \in Works : work[w].status \in Active =>
         work[w].session = session \/ w \in strays \/ w \in daemon.listed
  /\ daemon.pc # "down" => sessions[session] \in {"starting", "ready"}

LEMMA ActiveIsCurrent ==
  ASSUME TypeOK, SessionInv, sessions[session] \in {"starting", "ready"}
  PROVE  ActiveSession = session
  <1> DEFINE open == {s \in SessionIds : sessions[s] \in {"starting", "ready"}}
  <1>1. session \in open
    BY DEF TypeOK, StoreTypeOK
  <1>2. \A t \in open : t <= session
    BY <1>1, GenerationType DEF SessionInv
  <1>3. ActiveSession = CHOOSE s \in open : \A t \in open : t <= s
    BY <1>1 DEF ActiveSession
  <1>4. \A s \in open : (\A t \in open : t <= s) => s = session
    BY <1>1, <1>2, GenerationType
  <1> QED
    BY <1>1, <1>2, <1>3, <1>4

LEMMA ActiveStatus ==
  /\ {"processing", "received", "waiting_user", "retry_wait", "awaiting_approval"} \subseteq Active
  /\ \A s \in {"interrupted"} \cup Terminal : s \notin Active
  /\ Claimable \subseteq Active /\ "cancelled" \in Terminal
  BY DEF Active, WorkStatus, Terminal, Claimable

(* What a step may make of a work row: one that is not active, one of the    *)
(* present session, a stray, or an active one that stays in its session.     *)
StaysInSession ==
  \A w \in Works : \/ work'[w].status \notin Active
                   \/ work'[w].session = session
                   \/ w \in strays'
                   \/ /\ work[w].status \in Active /\ work'[w].session = work[w].session
                      /\ w \notin strays

LEMMA WorkerStrays ==
  ASSUME NEW k \in Workers, WorkerStep(k)
  PROVE  strays' = strays
  <1> USE DEF Read, Fail, Goto, Become, Stop, worldVars
  <1>1. CASE \/ Claim(k) \/ Inspect(k) \/ Route(k) \/ Falter(k) \/ Resolve(k) \/ Defer(k)
             \/ Inquire(k) \/ StageBegin(k) \/ StageSend(k) \/ StageRecord(k)
             \/ Investigate(k) \/ Held(k) \/ StartRun(k) \/ CallShell(k) \/ RunShell(k)
    BY <1>1 DEF Claim, Inspect, Route, Falter, Resolve, Defer, Inquire, StageBegin, StageSend,
                StageRecord, Investigate, Held, StartRun, CallShell, RunShell
  <1>2. CASE \/ RecordShell(k) \/ Decide(k) \/ SaveCandidate(k) \/ FinalResolve(k)
             \/ Finalize(k) \/ Finish(k) \/ Preflight(k) \/ NoticeBegin(k) \/ NoticeLease(k)
             \/ Notify(k) \/ Notified(k) \/ Handle(k)
    BY <1>2 DEF RecordShell, Decide, SaveCandidate, FinalResolve, Finalize, Finish, Preflight,
                NoticeBegin, NoticeLease, Notify, Notified, Handle
  <1>3. CASE \/ Gate(k) \/ RequestReply(k) \/ Refuse(k) \/ BeginReply(k) \/ Send(k)
             \/ RecordSent(k) \/ RecordUnsent(k) \/ Settle(k) \/ Replied(k) \/ Closing(k)
             \/ Close(k) \/ Failed(k) \/ Permanent(k) \/ TerminalFailure(k)
    BY <1>3 DEF Gate, RequestReply, Refuse, BeginReply, Send, RecordSent, RecordUnsent, Settle,
                Replied, Closing, Close, Failed, Permanent, TerminalFailure
  <1> QED
    BY <1>1, <1>2, <1>3, Zenon DEF WorkerStep

LEMMA WorkerStays ==
  ASSUME TypeOK, NEW k \in Workers, WorkerStep(k)
  PROVE  StaysInSession /\ UNCHANGED <<sessions, session>>
  <1>s. strays' = strays
    BY WorkerStrays
  <1>0. work \in [Works -> WorkRow] /\ \A w \in Works : work[w] \in WorkRow
    BY DEF TypeOK, StoreTypeOK
  <1>1. CASE Claim(k)
    <2> DEFINE c == job'[k].work
               row == [work[c] EXCEPT !.status = "processing", !.lease = k]
    <2>1. /\ c \in Works /\ work[c].status \in Claimable
          /\ work' = [work EXCEPT ![c] = row] /\ UNCHANGED <<sessions, session>>
      BY <1>1, ClaimMoves DEF ClaimNextForLane, SetWork
    <2>2. row.session = work[c].session
      BY <1>0, <2>1 DEF WorkRow
    <2> HIDE DEF c, row
    <2>3. \A w \in Works : IF w = c THEN work'[w] = row ELSE work'[w] = work[w]
      BY <1>0, <2>1
    <2> QED
      BY <1>s, <2>1, <2>2, <2>3, ActiveStatus DEF StaysInSession
  <1>2. CASE ~Claim(k)
    <2>1. /\ OnlyHeld(k) /\ UNCHANGED <<sessions, session>>
          /\ \A w \in Works : work'[w].session = work[w].session
      BY <1>2, WorkerOnlyHeld, WorkerShrinks
    <2> QED
      BY <1>s, <2>1, ActiveStatus DEF OnlyHeld, Holds, HoldsLease, StaysInSession
  <1> QED
    BY <1>1, <1>2

LEMMA OperatorStays ==
  ASSUME TypeOK, SessionInv, NEW w \in Works, OperatorStep(w),
         sessions[session] \in {"starting", "ready"}
  PROVE  StaysInSession
  <1>0. work \in [Works -> WorkRow] /\ work[w] \in WorkRow
    BY DEF TypeOK, StoreTypeOK
  <1>1. ActiveSession = session
    BY ActiveIsCurrent
  <1>2. ASSUME NEW row, work' = [work EXCEPT ![w] = row],
               \A v \in Works \ {w} : v \in strays => v \in strays',
               \/ row.status \notin Active
               \/ row.session = session
               \/ w \in strays'
               \/ /\ work[w].status \in Active /\ row.session = work[w].session
                  /\ w \notin strays
        PROVE  StaysInSession
    BY <1>0, <1>2 DEF StaysInSession
  <1>3. CASE DecideApproval(w)
    <2>0. strays' = strays
      BY <1>3 DEF DecideApproval
    <2>1. PICK key \in Approvable, approve \in BOOLEAN : DecideAction(w, key, approve)
      BY <1>3 DEF DecideApproval
    <2> DEFINE fresh == [Unleased(work[w], "received") EXCEPT !.session = ActiveSession]
    <2>2. fresh.session = session
      BY <1>0, <1>1 DEF Unleased, WorkRow
    <2>3. \/ \E status \in {"cancelled", "interrupted"} :
               work' = [work EXCEPT ![w] = Unleased(work[w], status)]
          \/ work' = [work EXCEPT ![w] = fresh]
      BY <2>1 DEF DecideAction
    <2> HIDE DEF fresh
    <2>4. ASSUME NEW status \in {"cancelled", "interrupted"},
                 work' = [work EXCEPT ![w] = Unleased(work[w], status)]
          PROVE  StaysInSession
      <3>1. Unleased(work[w], status).status \notin Active
        BY <1>0, UnleasedStatus, ActiveStatus
      <3> QED
        BY <1>2, <2>0, <2>4, <3>1
    <2> QED
      BY <1>2, <2>0, <2>2, <2>3, <2>4
  <1>4. CASE Resume(w)
    <2>1. PICK s \in OpenedSessions, force \in BOOLEAN : ResumeIn(w, s, force)
      BY <1>4 DEF Resume
    <2> DEFINE row == [status |-> "received", lease |-> NoLease, gen |-> work[w].gen + 1,
                       retry |-> 0, ownerRetry |-> 0, session |-> s,
                       decision |-> "none"]
    <2>2. /\ work' = [work EXCEPT ![w] = row]
          /\ strays' = IF s = session THEN strays \ {w} ELSE strays \cup {w}
      BY <2>1 DEF ResumeIn, ResumeWork
    <2>3. row.session = session \/ w \in strays'
      BY <2>2
    <2> HIDE DEF row
    <2> QED
      BY <1>2, <2>2, <2>3
  <1>5. CASE Cancel(w)
    <2>1. work' = [work EXCEPT ![w] = Unleased(work[w], "cancelled")]
      BY <1>5 DEF Cancel, CancelWork
    <2>2. Unleased(work[w], "cancelled").status \notin Active
      BY <1>0, UnleasedStatus, ActiveStatus
    <2>3. strays' = strays
      BY <1>5 DEF Cancel
    <2> QED
      BY <1>2, <2>1, <2>2, <2>3
  <1>6. CASE Retry(w)
    <2> DEFINE row == [Unleased(work[w], "received") EXCEPT !.retry = 0, !.decision = "none"]
    <2>1. /\ work' = [work EXCEPT ![w] = row] /\ strays' = strays
          /\ work[w].status = "retry_wait"
      BY <1>6 DEF Retry, RetryWorkItem, SetWork
    <2>2. row.session = work[w].session
      BY <1>0 DEF Unleased, WorkRow
    <2> HIDE DEF row
    <2> QED
      BY <1>2, <2>1, <2>2, ActiveStatus
  <1> QED
    BY <1>3, <1>4, <1>5, <1>6 DEF OperatorStep

LEMMA StaysKeeps ==
  ASSUME SessionWork, StaysInSession, UNCHANGED <<daemon, sessions, session>>
  PROVE  SessionWork'
  BY DEF SessionWork, StaysInSession

LEMMA ReadmitSessionWork ==
  ASSUME TypeOK, SessionWork, ListPriorWork
  PROVE  SessionWork'
  <1>0. \A w \in Works : work[w] \in WorkRow
    BY DEF TypeOK, StoreTypeOK
  <1>1. /\ daemon' = [pc |-> "recovering", listed |-> PriorWork] /\ daemon.pc = "starting"
        /\ UNCHANGED <<sessions, session>>
    BY DEF ListPriorWork, ReadmitPristineWaiting
  <1>2. ASSUME NEW w \in Works, work'[w].status \in Active, w \notin PriorWork
        PROVE  work'[w].session = session
    <2> DEFINE row == [work[w] EXCEPT !.session = session, !.decision = "none"]
               pristine == /\ work[w].status = "waiting_user" /\ work[w].session # session
                           /\ Pristine(w)
    <2>1. work'[w] = IF pristine THEN row ELSE work[w]
      BY DEF ListPriorWork, ReadmitPristineWaiting
    <2>2. row.session = session
      BY <1>0 DEF WorkRow
    <2>3. ~pristine => work'[w].session = session
      BY <1>2, <2>1 DEF PriorWork, Interruptible
    <2> HIDE DEF row, pristine
    <2> QED
      BY <2>1, <2>2, <2>3
  <1> QED
    BY <1>1, <1>2 DEF SessionWork

LEMMA DaemonSessionWork ==
  ASSUME TypeOK, OrphanInv, SessionWork, DaemonStep
  PROVE  SessionWork'
  <1>0. /\ work \in [Works -> WorkRow] /\ \A w \in Works : work[w] \in WorkRow
        /\ sessions \in [SessionIds -> SessionStatus] /\ session \in SessionIds
        /\ SessionIds \subseteq Nat /\ session + 1 > session
    BY GenerationType DEF TypeOK, StoreTypeOK
  <1>1. CASE Start
    <2>1. /\ daemon'.pc = "starting" /\ session' = session + 1 /\ session' \in SessionIds
          /\ sessions' = [sessions EXCEPT ![session + 1] = "starting"]
      BY <1>0, <1>1, StoreBounds
         DEF Start, Phase, CreateOnlineSession, SetSession, TypeOK, QueueTypeOK, SessionIds
    <2> QED
      BY <1>0, <2>1 DEF SessionWork
  <1>2. CASE ListPriorWork
    BY <1>2, ReadmitSessionWork
  <1>3. CASE Interrupt
    <2>1. /\ \A w \in Works : work'[w] = IF w \in daemon.listed
                                         THEN Unleased(work[w], "interrupted") ELSE work[w]
          /\ UNCHANGED <<sessions, session, strays>>
          /\ daemon.pc \in {"recovering", "pausing"} /\ daemon'.pc \in {"recovered", "paused"}
      BY <1>3 DEF Interrupt, InterruptSessionWork
    <2>2. \A w \in Works : \/ work'[w].status \notin Active
                           \/ work'[w] = work[w] /\ w \notin daemon.listed
      BY <1>0, <2>1, UnleasedStatus, ActiveStatus
    <2> QED
      BY <2>1, <2>2 DEF SessionWork
  <1>4. CASE ListCurrentWork \/ Shutdown
    <2>1. /\ UNCHANGED <<work, sessions, session, strays>>
          /\ daemon.pc \in Serving /\ daemon'.pc \in {"draining", "pausing"}
      BY <1>4 DEF ListCurrentWork, Shutdown, Phase, storeVars, Serving, TypeOK, QueueTypeOK
    <2> QED
      BY <2>1 DEF SessionWork, Serving
  <1>5. CASE MarkReady
    <2>1. /\ UNCHANGED <<work, session, strays>> /\ daemon.pc = "recovered" /\ daemon'.pc = "ready"
          /\ sessions' = [sessions EXCEPT ![session] = "ready"]
      BY <1>5 DEF MarkReady, MarkCurrentSessionReady, SetSession, Phase, TypeOK, QueueTypeOK
    <2> QED
      BY <1>0, <2>1 DEF SessionWork
  <1>6. CASE Converge
    <2>1. /\ UNCHANGED <<sessions, session, strays>> /\ daemon.pc = "ready" /\ daemon'.pc = "running"
      BY <1>6 DEF Converge, Phase, ConvergeInterruptedWork, TypeOK, QueueTypeOK
    <2>2. \A w \in Works : work'[w] = work[w] \/ work'[w].session = session
      <3> TAKE w \in Works
      <3> DEFINE row == Converged(w)
      <3>1. work'[w] = work[w] \/ work'[w] = row
        BY <1>6 DEF Converge, ConvergeInterruptedWork
      <3>2. row.session = session
        BY <1>0 DEF Converged, Unleased, WorkRow
      <3> HIDE DEF row
      <3> QED
        BY <3>1, <3>2
    <2> QED
      BY <2>1, <2>2 DEF SessionWork
  <1>7. CASE StopSession \/ Crash
    <2>1. daemon'.pc = "down"
      BY <1>7 DEF StopSession, Crash, Phase, TypeOK, QueueTypeOK
    <2> QED
      BY <2>1 DEF SessionWork
  <1> QED
    BY <1>1, <1>2, <1>3, <1>4, <1>5, <1>6, <1>7 DEF DaemonStep

LEMMA SessionWorkStep == TypeOK /\ OrphanInv /\ SessionWork /\ [Next]_vars => SessionWork'
  <1> SUFFICES ASSUME TypeOK, OrphanInv, SessionWork, [Next]_vars PROVE SessionWork'
    OBVIOUS
  <1>1. CASE UNCHANGED vars
    BY <1>1 DEF vars, storeVars, queueVars, SessionWork
  <1>2. ASSUME NEW k \in Workers, WorkerStep(k) PROVE SessionWork'
    BY <1>2, WorkerStays, WorkerFrame, StaysKeeps
  <1>3. ASSUME NEW w \in Works, OperatorStep(w) PROVE SessionWork'
    <2>1. UNCHANGED <<daemon, sessions, session>>
      BY <1>3, OperatorShrinks DEF OrphanInv
    <2>2. CASE daemon.pc = "down"
      BY <2>1, <2>2 DEF SessionWork
    <2>3. CASE daemon.pc # "down"
      BY <1>3, <2>1, <2>3, OperatorStays, StaysKeeps DEF SessionWork, OrphanInv
    <2> QED
      BY <2>2, <2>3
  <1> QED
    BY <1>1, <1>2, <1>3, DaemonSessionWork DEF Next

LEMMA InitSessionWork == Init => SessionWork
  BY GenerationType, StoreBounds DEF Init, StoreInit, SessionWork, SessionIds

(* No step of the daemon and no operator command makes work processing.      *)
LEMMA DaemonClaimsNothing ==
  ASSUME TypeOK, DaemonStep, NEW w \in Works, work'[w].status = "processing"
  PROVE  work[w].status = "processing"
  <1>0. work \in [Works -> WorkRow] /\ work[w] \in WorkRow
    BY DEF TypeOK, StoreTypeOK
  <1>1. CASE work' = work
    BY <1>1
  <1>2. CASE ListPriorWork
    <2> DEFINE row == [work[w] EXCEPT !.session = session, !.decision = "none"]
    <2>1. work'[w] = row \/ work'[w] = work[w]
      BY <1>2 DEF ListPriorWork, ReadmitPristineWaiting
    <2>2. row.status = work[w].status
      BY <1>0 DEF WorkRow
    <2> HIDE DEF row
    <2> QED
      BY <2>1, <2>2
  <1>3. CASE Interrupt
    <2>1. work'[w] = Unleased(work[w], "interrupted") \/ work'[w] = work[w]
      BY <1>3 DEF Interrupt, InterruptSessionWork
    <2> QED
      BY <1>0, <2>1, UnleasedStatus
  <1>4. CASE Converge
    <2> DEFINE row == Converged(w)
    <2>1. work'[w] = work[w] \/ work'[w] = row
      BY <1>4 DEF Converge, ConvergeInterruptedWork
    <2>2. row.status = ConvergedStatus(w)
      BY <1>0 DEF Converged, Unleased, WorkRow
    <2>3. ConvergedStatus(w) # "processing"
      BY DEF ConvergedStatus
    <2> HIDE DEF row
    <2> QED
      BY <2>1, <2>2, <2>3
  <1> QED
    BY <1>1, <1>2, <1>3, <1>4
       DEF DaemonStep, Start, ListCurrentWork, MarkReady, Shutdown, StopSession, Crash,
           CreateOnlineSession, MarkCurrentSessionReady, StopCurrentSession, SetSession, storeVars

(* The claim query does not compare sessions.  Recovery and convergence hand *)
(* every active work item over before the workers start, so what a worker    *)
(* claims is of its session, unless a CLI that found an older session when   *)
(* it was opened resumed it since recovery listed the works.                  *)
THEOREM ClaimsAreOwn == Spec => ClaimsOwnSession
  <1> DEFINE Own == \A w \in Works :
                      work[w].status # "processing" /\ work'[w].status = "processing" =>
                        work[w].session = session \/ w \in strays
  <1>1. TypeOK /\ OrphanInv /\ SessionWork /\ [Next]_vars => [Own]_vars
    <2> SUFFICES ASSUME TypeOK, OrphanInv, SessionWork, Next, NEW w \in Works,
                        work[w].status # "processing", work'[w].status = "processing"
                 PROVE  work[w].session = session \/ w \in strays
      OBVIOUS
    <2>1. ASSUME NEW k \in Workers, WorkerStep(k)
          PROVE  work[w].session = session \/ w \in strays
      <3>1. Claim(k)
        BY <2>1, WorkerShrinks DEF Shrinks
      <3>2. /\ daemon.pc = "running" /\ ClaimNextForLane(job'[k].work, k)
            /\ job'[k].work \in Works
        BY <3>1, ClaimMoves
      <3> DEFINE c == job'[k].work
      <3>3. w = c /\ work[w].status \in Claimable
        BY <3>2 DEF ClaimNextForLane, SetWork, TypeOK, StoreTypeOK
      <3> QED
        BY <3>2, <3>3, ActiveStatus DEF SessionWork
    <2>2. ASSUME NEW v \in Works, OperatorStep(v) PROVE FALSE
      BY <2>2, OperatorShrinks DEF OrphanInv
    <2> QED
      BY <2>1, <2>2, DaemonClaimsNothing DEF Next
  <1> QED
    BY <1>1, TypeCorrect, InitOrphan, OrphanStep, InitSessionWork, SessionWorkStep, PTL
       DEF Spec, ClaimsOwnSession

-----------------------------------------------------------------------------
(* What a restart readmits.                                                  *)

(* A record of an uncertain interruption is open only on work that recovery  *)
(* interrupted, or that the owner cancelled by rejecting an action of it.    *)
UncertainInv == \A w \in Works : Uncertain(w) => work[w].status \in {"interrupted", "cancelled"}

LEMMA WorkerSnapshots ==
  ASSUME NEW k \in Workers, WorkerStep(k)
  PROVE  snapshots' = snapshots
  <1> USE DEF Read, Fail, storeVars, SetWork, SetCandidate
  <1>1. CASE Claim(k)
    BY <1>1 DEF Claim, ClaimNextForLane
  <1>2. CASE \/ Held(k) \/ SaveCandidate(k) \/ FinalResolve(k)
    BY <1>2 DEF Held, SaveCandidate, FinalResolve, TransitionWorkReplyCandidate, SaveWorkReplyCandidate
  <1>3. CASE \/ Failed(k) \/ Permanent(k) \/ Defer(k)
    BY <1>3 DEF Failed, Permanent, Defer, MarkRetryClaim, MarkDeadLetterClaim, DeferWaitingUserClaim
  <1>4. CASE Close(k)
    BY <1>4 DEF Close, CompleteClaim, CompleteReplyCandidateClaim, TransitionWorkReplyCandidate
  <1>5. CASE \/ Inspect(k) \/ Route(k) \/ Falter(k) \/ Resolve(k) \/ Inquire(k) \/ StageBegin(k)
             \/ StageSend(k) \/ StageRecord(k) \/ Investigate(k) \/ StartRun(k) \/ CallShell(k)
             \/ RunShell(k) \/ RecordShell(k) \/ Decide(k) \/ Finalize(k) \/ Finish(k)
             \/ Preflight(k) \/ NoticeBegin(k) \/ NoticeLease(k) \/ Notify(k) \/ Notified(k)
             \/ Handle(k) \/ Gate(k) \/ RequestReply(k) \/ Refuse(k) \/ BeginReply(k) \/ Send(k)
             \/ RecordSent(k) \/ RecordUnsent(k) \/ Settle(k) \/ Replied(k) \/ Closing(k)
             \/ TerminalFailure(k)
    BY <1>5, WorkFree
  <1> QED
    BY <1>1, <1>2, <1>3, <1>4, <1>5, Zenon DEF WorkerStep

(* A worker takes up claimable work and writes work it holds: interrupted    *)
(* and cancelled work is neither.                                            *)
LEMMA WorkerLeaves ==
  ASSUME TypeOK, NEW k \in Workers, WorkerStep(k), NEW w \in Works,
         work[w].status \in {"interrupted", "cancelled"}
  PROVE  work'[w] = work[w]
  <1>1. CASE Claim(k)
    <2>1. job'[k].work \in Works /\ ClaimNextForLane(job'[k].work, k)
      BY <1>1, ClaimMoves
    <2> QED
      BY <2>1 DEF ClaimNextForLane, Claimable, SetWork, TypeOK, StoreTypeOK
  <1>2. CASE ~Claim(k)
    <2>1. OnlyHeld(k)
      BY <1>2, WorkerOnlyHeld
    <2> QED
      BY <2>1 DEF OnlyHeld, Holds, HoldsLease
  <1> QED
    BY <1>1, <1>2

(* The commands of the operator, by what becomes of the work: an approval is *)
(* the one that leaves a record of the interruption behind it.               *)
LEMMA OperatorWork ==
  ASSUME TypeOK, NEW w \in Works, OperatorStep(w)
  PROVE  /\ \A v \in Works \ {w} : /\ work'[v] = work[v] /\ snapshots'[v] = snapshots[v]
                                  /\ candidate'[v] = candidate[v] /\ inquiry'[v] = inquiry[v]
         /\ \/ snapshots'[w] = {} /\ \E key \in Keys : /\ attempts[w][key] = "awaiting_approval"
                                                    /\ attempts'[w][key] = "ready"
            \/ snapshots'[w] = {} /\ ~Uncertain(w) /\ inquiry'[w] = "none" /\ ~HasCandidate(w)'
            \/ snapshots'[w] \in {snapshots[w], {}} /\ work'[w].status \in {"interrupted", "cancelled"}
            \/ snapshots'[w] = snapshots[w] /\ work[w].status = "retry_wait"
  <1>0. /\ work \in [Works -> WorkRow] /\ work[w] \in WorkRow /\ candidate \in [Works -> CandidateRow]
        /\ attempts \in [Works -> [Keys -> AttemptStatus]] /\ inquiry \in [Works -> InquiryStatus]
        /\ snapshots \in [Works -> SUBSET {"certain", "uncertain"}]
    BY DEF TypeOK, StoreTypeOK
  <1>1. CASE DecideApproval(w)
    <2>1. PICK key \in Approvable, approve \in BOOLEAN : DecideAction(w, key, approve)
      BY <1>1 DEF DecideApproval
    <2>2. key \in Keys
      BY DEF Approvable, Keys
    <2>3. \/ work' = [work EXCEPT ![w] = Unleased(work[w], "cancelled")] /\ snapshots' = snapshots
          \/ work' = [work EXCEPT ![w] = Unleased(work[w], "interrupted")] /\ snapshots' = snapshots
          \/ /\ approve = TRUE /\ snapshots' = [snapshots EXCEPT ![w] = {}]
             /\ \E row : work' = [work EXCEPT ![w] = row]
      BY <2>1 DEF DecideAction
    <2>4. /\ attempts[w][key] = "awaiting_approval"
          /\ approve = TRUE => attempts'[w][key] = "ready"
          /\ UNCHANGED <<candidate, inquiry>>
      BY <1>0, <2>1, <2>2 DEF DecideAction
    <2>5. \A status \in {"cancelled", "interrupted"} : Unleased(work[w], status).status = status
      BY <1>0, UnleasedStatus
    <2> QED
      BY <1>0, <2>2, <2>3, <2>4, <2>5
  <1>2. CASE Resume(w)
    <2>1. PICK s \in OpenedSessions, force \in BOOLEAN : ResumeWork(w, s, force)
      BY <1>2 DEF Resume, ResumeIn
    <2>2. /\ ~Uncertain(w) /\ inquiry' = [inquiry EXCEPT ![w] = "none"]
          /\ snapshots' = [snapshots EXCEPT ![w] = {}]
          /\ \E row : work' = [work EXCEPT ![w] = row]
          /\ candidate' = [candidate EXCEPT ![w].status = IF HasCandidate(w) THEN "cancelled" ELSE @]
      BY <2>1 DEF ResumeWork, Resumable, Unresolved
    <2>3. ~HasCandidate(w)'
      BY <1>0, <2>2 DEF HasCandidate, LiveCandidate, CandidateRow
    <2> QED
      BY <1>0, <2>2, <2>3
  <1>3. CASE Cancel(w)
    <2>1. /\ work' = [work EXCEPT ![w] = Unleased(work[w], "cancelled")]
          /\ snapshots' = [snapshots EXCEPT ![w] = {}]
          /\ \A v \in Works \ {w} : candidate'[v] = candidate[v] /\ inquiry'[v] = inquiry[v]
      BY <1>0, <1>3 DEF Cancel, CancelWork
    <2>2. Unleased(work[w], "cancelled").status = "cancelled"
      BY <1>0, UnleasedStatus
    <2> QED
      BY <1>0, <2>1, <2>2
  <1>4. CASE Retry(w)
    <2>1. /\ work[w].status = "retry_wait" /\ UNCHANGED <<snapshots, candidate, inquiry>>
          /\ \E row : work' = [work EXCEPT ![w] = row]
      BY <1>4 DEF Retry, RetryWorkItem, SetWork
    <2> QED
      BY <1>0, <2>1
  <1> QED
    BY <1>1, <1>2, <1>3, <1>4 DEF OperatorStep

(* The steps of the daemon: convergence alone makes interrupted work         *)
(* claimable, none that is uncertain, and with its context archived.         *)
LEMMA DaemonReadmits ==
  ASSUME TypeOK, DaemonStep, NEW w \in Works
  PROVE  \/ work'[w].status = work[w].status /\ snapshots'[w] = snapshots[w]
         \/ work'[w].status = "interrupted"
         \/ /\ snapshots'[w] = {} /\ work[w].status = "interrupted"
            /\ work'[w].status \in Claimable => ~Uncertain(w) /\ ~Contextual(w)' /\ ~HasCandidate(w)'
  <1>0. work \in [Works -> WorkRow] /\ work[w] \in WorkRow /\ candidate \in [Works -> CandidateRow]
    BY DEF TypeOK, StoreTypeOK
  <1>1. CASE Start \/ ListCurrentWork \/ MarkReady \/ Shutdown \/ StopSession \/ Crash
    BY <1>1 DEF Start, ListCurrentWork, MarkReady, Shutdown, StopSession, Crash, CreateOnlineSession,
                MarkCurrentSessionReady, StopCurrentSession, SetSession, storeVars
  <1>2. CASE ListPriorWork
    <2> DEFINE row == [work[w] EXCEPT !.session = session, !.decision = "none"]
    <2>1. (work'[w] = row \/ work'[w] = work[w]) /\ snapshots' = snapshots
      BY <1>2 DEF ListPriorWork, ReadmitPristineWaiting
    <2>2. row.status = work[w].status
      BY <1>0 DEF WorkRow
    <2> HIDE DEF row
    <2> QED
      BY <2>1, <2>2
  <1>3. CASE Interrupt
    <2>1. \/ work'[w] = Unleased(work[w], "interrupted")
          \/ work'[w] = work[w] /\ snapshots'[w] = snapshots[w]
      BY <1>3 DEF Interrupt, InterruptSessionWork
    <2> QED
      BY <1>0, <2>1, UnleasedStatus
  <1>4. CASE Converge
    <2>1. CASE ~(work[w].status = "interrupted" /\ ConvergedStatus(w) # "interrupted")
      BY <1>4, <2>1 DEF Converge, ConvergeInterruptedWork
    <2>2. CASE work[w].status = "interrupted" /\ ConvergedStatus(w) # "interrupted"
      <3> DEFINE row == Converged(w)
      <3>1. /\ work'[w] = row /\ snapshots'[w] = {}
            /\ inquiry'[w] = IF Superseded(w) THEN "none" ELSE inquiry[w]
            /\ candidate'[w] = IF HasCandidate(w)
                               THEN [candidate[w] EXCEPT !.status = IF Superseded(w) THEN "cancelled" ELSE "held"]
                               ELSE candidate[w]
        BY <1>4, <2>2 DEF Converge, ConvergeInterruptedWork
      <3>2. row.status = ConvergedStatus(w)
        BY <1>0 DEF Converged, Unleased, WorkRow
      <3>3. ConvergedStatus(w) \in Claimable => ~Uncertain(w) /\ (Superseded(w) \/ ~(Contextual(w) \/ HasCandidate(w)))
        BY DEF ConvergedStatus, Claimable
      <3>4. CASE Superseded(w)
        <4>1. ~Contextual(w)'
          BY <3>1, <3>4 DEF Contextual, ActiveInquiry
        <4>2. ~HasCandidate(w)'
          BY <1>0, <3>1, <3>4 DEF HasCandidate, LiveCandidate, CandidateRow
        <4> QED
          BY <2>2, <3>1, <3>2, <3>3, <4>1, <4>2
      <3>5. CASE ~Superseded(w)
        <4>1. ~(Contextual(w) \/ HasCandidate(w)) => ~Contextual(w)' /\ ~HasCandidate(w)'
          BY <3>1, <3>5 DEF Contextual, HasCandidate
        <4> QED
          BY <2>2, <3>1, <3>2, <3>3, <3>5, <4>1
      <3> QED
        BY <3>4, <3>5
    <2> QED
      BY <2>1, <2>2
  <1> QED
    BY <1>1, <1>2, <1>3, <1>4 DEF DaemonStep

LEMMA UncertainStep == TypeOK /\ UncertainInv /\ [Next]_vars => UncertainInv'
  <1> SUFFICES ASSUME TypeOK, UncertainInv, [Next]_vars, NEW w \in Works, Uncertain(w)'
               PROVE  work'[w].status \in {"interrupted", "cancelled"}
    BY DEF UncertainInv
  <1>1. Uncertain(w) => work[w].status \in {"interrupted", "cancelled"}
    BY DEF UncertainInv
  <1>2. CASE UNCHANGED vars
    BY <1>1, <1>2 DEF vars, storeVars, Uncertain
  <1>3. ASSUME NEW k \in Workers, WorkerStep(k) PROVE work'[w].status \in {"interrupted", "cancelled"}
    <2>1. Uncertain(w)
      BY <1>3, WorkerSnapshots DEF Uncertain
    <2> QED
      BY <1>1, <1>3, <2>1, WorkerLeaves
  <1>4. ASSUME NEW v \in Works, OperatorStep(v) PROVE work'[w].status \in {"interrupted", "cancelled"}
    BY <1>1, <1>4, OperatorWork DEF Uncertain
  <1>5. CASE DaemonStep
    BY <1>1, <1>5, DaemonReadmits DEF Uncertain
  <1> QED
    BY <1>2, <1>3, <1>4, <1>5 DEF Next

LEMMA UncertainInit == Init => UncertainInv
  BY DEF Init, StoreInit, UncertainInv, Uncertain

(* Work whose interruption caught an action executing stays out of reach of  *)
(* the workers, over any number of restarts, until the owner decides an      *)
(* action of it: convergence sends it to the dead letters, and resume,       *)
(* cancel and retry are refused while the record is open.                    *)
THEOREM UncertainIsKept == Spec => UncertainNotReadmitted
  <1> DEFINE Kept == \A w \in Works :
                       Uncertain(w) /\ work'[w].status \in Claimable =>
                         \E key \in Keys : /\ attempts[w][key] = "awaiting_approval"
                                          /\ attempts'[w][key] = "ready"
  <1>1. TypeOK /\ UncertainInv /\ [Next]_vars => [Kept]_vars
    <2> SUFFICES ASSUME TypeOK, UncertainInv, Next, NEW w \in Works, Uncertain(w),
                        work'[w].status \in Claimable
                 PROVE  \E key \in Keys : /\ attempts[w][key] = "awaiting_approval"
                                         /\ attempts'[w][key] = "ready"
      OBVIOUS
    <2>1. work[w].status \in {"interrupted", "cancelled"}
      BY DEF UncertainInv
    <2>2. {"interrupted", "cancelled"} \cap Claimable = {}
      BY DEF Claimable
    <2>3. ~\E k \in Workers : WorkerStep(k)
      BY <2>1, <2>2, WorkerLeaves
    <2>4. ~DaemonStep
      BY <2>1, <2>2, DaemonReadmits
    <2>5. PICK v \in Works : OperatorStep(v)
      BY <2>3, <2>4 DEF Next
    <2>6. v = w
      BY <2>1, <2>2, <2>5, OperatorWork
    <2> QED
      BY <2>1, <2>2, <2>5, <2>6, OperatorWork
  <1> QED
    BY <1>1, TypeCorrect, UncertainInit, UncertainStep, PTL DEF Spec, UncertainNotReadmitted

(* What was delegated before a restart is not carried on after it: whatever  *)
(* makes interrupted work claimable, other than a decision of the owner on   *)
(* an action of it, archives its investigation and withdraws its draft.      *)
THEOREM ContextIsArchived == Spec => RestartArchivesContext
  <1> DEFINE Archives == \A w \in Works :
                           /\ work[w].status = "interrupted" /\ work'[w].status \in Claimable
                           /\ \A key \in Keys : attempts[w][key] = "awaiting_approval" => attempts'[w][key] # "ready"
                           => ~Contextual(w)' /\ ~HasCandidate(w)'
  <1>1. TypeOK /\ [Next]_vars => [Archives]_vars
    <2> SUFFICES ASSUME TypeOK, Next, NEW w \in Works, work[w].status = "interrupted",
                        work'[w].status \in Claimable,
                        \A key \in Keys : attempts[w][key] = "awaiting_approval" => attempts'[w][key] # "ready"
                 PROVE  ~Contextual(w)' /\ ~HasCandidate(w)'
      OBVIOUS
    <2>1. work'[w].status \notin {"interrupted", "cancelled"}
      BY DEF Claimable
    <2>2. ~\E k \in Workers : WorkerStep(k)
      BY <2>1, WorkerLeaves
    <2>3. CASE DaemonStep
      BY <2>1, <2>3, DaemonReadmits
    <2>4. ASSUME NEW v \in Works, OperatorStep(v) PROVE ~Contextual(w)' /\ ~HasCandidate(w)'
      <3>1. v = w
        BY <2>1, <2>4, OperatorWork
      <3>2. inquiry'[w] = "none" /\ ~HasCandidate(w)'
        BY <2>1, <2>4, <3>1, OperatorWork
      <3> QED
        BY <3>2 DEF Contextual, ActiveInquiry
    <2> QED
      BY <2>2, <2>3, <2>4 DEF Next
  <1> QED
    BY <1>1, TypeCorrect, PTL DEF Spec, RestartArchivesContext

=============================================================================
