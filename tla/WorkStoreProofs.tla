--------------------------- MODULE WorkStoreProofs ---------------------------
(***************************************************************************)
(* The operators of the store keep the types of its tables: for any works, *)
(* workers, drafts, commands and bounds.  WorkQueue and OwnerControl both  *)
(* are built from these operators, and their proofs from these lemmas.     *)
(***************************************************************************)
EXTENDS WorkStore, TLAPS, WellFoundedInduction

-----------------------------------------------------------------------------
(* Type correctness: the operators of the store.                            *)

LEMMA GenerationType == 1 \in Generations /\ Generations \subseteq Nat /\ SessionIds \subseteq Nat
  BY StoreBounds DEF Generations, SessionIds

LEMMA KeyTypes ==
  /\ RequiredKey \in Keys /\ CancelKey \in Keys
  /\ \A g \in Generations :
       /\ Key("reply", g, NoItem) \in Keys
       /\ Key("investigation_owner_notice", g, NoItem) \in Keys
       /\ Key("investigation_progress", g, NoItem) \in Keys
       /\ \A d \in Drafts : Key("approval", g, d) \in Keys /\ Key("owner_notification", g, d) \in Keys
  /\ \A c \in Commands : ShellKey(c) \in Keys
  BY DEF Keys, ReplyKeys, ApprovalKeys, NoticeKeys, StageKeys, ShellKeys,
         RequiredKey, CancelKey, ShellKey

LEMMA WorkKeyTypes ==
  ASSUME StoreTypeOK, NEW w \in Works
  PROVE  /\ ReplyKey(w) \in Keys
         /\ StageKey(w, "investigation_owner_notice") \in Keys
         /\ StageKey(w, "investigation_progress") \in Keys
         /\ \A d \in Drafts : ApprovalKey(w, d) \in Keys /\ NoticeKey(w, d) \in Keys
  <1>1. work[w].gen \in Generations
    BY DEF StoreTypeOK, WorkRow
  <1> QED
    BY <1>1, KeyTypes DEF ReplyKey, StageKey, ApprovalKey, NoticeKey

LEMMA UnleasedType ==
  ASSUME NEW row \in WorkRow, NEW status \in WorkStatus
  PROVE  Unleased(row, status) \in WorkRow
  BY DEF WorkRow, Unleased

LEMMA SetWorkType ==
  ASSUME StoreTypeOK, NEW w \in Works, NEW row \in WorkRow, SetWork(w, row)
  PROVE  StoreTypeOK'
  BY DEF StoreTypeOK, SetWork

LEMMA SetAttemptType ==
  ASSUME StoreTypeOK, NEW w \in Works, NEW key \in Keys, NEW status \in AttemptStatus,
         SetAttempt(w, key, status)
  PROVE  StoreTypeOK'
  BY DEF StoreTypeOK, SetAttempt, Move, onlyAttempts

LEMMA StoreUnchangedType ==
  ASSUME StoreTypeOK, UNCHANGED storeVars
  PROVE  StoreTypeOK'
  BY DEF StoreTypeOK, storeVars

LEMMA Members ==
  /\ \A s \in {"received", "waiting_user", "processing", "awaiting_approval", "retry_wait",
              "completed", "ignored", "cancelled", "dead_letter", "interrupted"} :
       s \in WorkStatus
  /\ \A s \in {"none", "reply", "ignore", "notify", "request_approval", "record"} :
       s \in DecisionKinds
  BY DEF WorkStatus, DecisionKinds

LEMMA CandidateStatusType ==
  ASSUME NEW row \in CandidateRow, row.status \in LiveCandidate,
         NEW status \in LiveCandidate \cup {"consumed", "cancelled"}
  PROVE  [row EXCEPT !.status = status] \in CandidateRow
  BY DEF CandidateRow, LiveCandidate

LEMMA RowSessionType ==
  ASSUME NEW row \in WorkRow, NEW s \in SessionIds, NEW decision \in DecisionKinds
  PROVE  [row EXCEPT !.session = s, !.decision = decision] \in WorkRow
  BY DEF WorkRow

LEMMA RowDecisionType ==
  ASSUME NEW row \in WorkRow, NEW decision \in DecisionKinds
  PROVE  [row EXCEPT !.decision = decision] \in WorkRow
  BY DEF WorkRow

LEMMA ClaimType ==
  ASSUME StoreTypeOK, NEW w \in Works, NEW k \in Workers, ClaimNextForLane(w, k)
  PROVE  StoreTypeOK'
  <1>1. ASSUME NEW row \in WorkRow
        PROVE  [row EXCEPT !.status = "processing", !.lease = k] \in WorkRow
    BY Members DEF WorkRow
  <1>2. work[w] \in WorkRow
    BY DEF StoreTypeOK
  <1> QED
    BY <1>1, <1>2, SetWorkType DEF ClaimNextForLane

LEMMA CompleteClaimType ==
  ASSUME StoreTypeOK, NEW w \in Works, NEW k \in Workers, NEW kind \in DecisionKinds,
         CompleteClaim(w, k, kind) \/ CompleteReplyCandidateClaim(w, k, kind)
  PROVE  StoreTypeOK'
  <1>1. DecisionStatus(kind) \in WorkStatus
    BY DEF DecisionStatus, WorkStatus
  <1>2. [Unleased(work[w], DecisionStatus(kind)) EXCEPT !.decision = kind] \in WorkRow
    <2>1. Unleased(work[w], DecisionStatus(kind)) \in WorkRow
      BY <1>1, UnleasedType DEF StoreTypeOK
    <2> QED
      BY <2>1, RowDecisionType
  <1>3. CASE CompleteClaim(w, k, kind)
    BY <1>2, <1>3, SetWorkType DEF CompleteClaim
  <1>4. CASE CompleteReplyCandidateClaim(w, k, kind)
    <2>1. [candidate[w] EXCEPT !.status = "consumed"] \in CandidateRow
      BY <1>4, CandidateStatusType DEF StoreTypeOK, CompleteReplyCandidateClaim, HasCandidate
    <2>2. work' \in [Works -> WorkRow] /\ candidate' \in [Works -> CandidateRow]
      BY <1>2, <1>4, <2>1 DEF StoreTypeOK, CompleteReplyCandidateClaim
    <2> QED
      BY <1>4, <2>2 DEF StoreTypeOK, CompleteReplyCandidateClaim
  <1> QED
    BY <1>3, <1>4

LEMMA FailedRowType ==
  ASSUME NEW row \in WorkRow, NEW status \in WorkStatus, NEW retry \in Nat
  PROVE  /\ [Unleased(row, status) EXCEPT !.retry = retry, !.decision = "record"] \in WorkRow
         /\ [Unleased(row, status) EXCEPT !.ownerRetry = retry, !.decision = "record"] \in WorkRow
         /\ [Unleased(row, status) EXCEPT !.retry = retry, !.decision = "none"] \in WorkRow
  BY Members DEF WorkRow, Unleased

LEMMA MarkFailedType ==
  ASSUME StoreTypeOK, NEW w \in Works, NEW k \in Workers,
         MarkRetryClaim(w, k) \/ MarkDeadLetterClaim(w, k)
  PROVE  StoreTypeOK'
  <1>1. work[w] \in WorkRow /\ work[w].retry + 1 \in Nat
    BY DEF StoreTypeOK, WorkRow
  <1>2. CASE MarkRetryClaim(w, k)
    <2> DEFINE status == IF work[w].retry + 1 >= MaxRetries THEN "dead_letter" ELSE "retry_wait"
    <2>1. status \in WorkStatus
      BY Members
    <2>2. [Unleased(work[w], status) EXCEPT !.retry = work[w].retry + 1, !.decision = "record"]
            \in WorkRow
      BY <1>1, <2>1, FailedRowType
    <2> QED
      BY <1>2, <2>2, SetWorkType DEF MarkRetryClaim
  <1>3. CASE MarkDeadLetterClaim(w, k)
    <2>1. [Unleased(work[w], "dead_letter") EXCEPT !.retry = @ + 1, !.decision = "record"]
            = [Unleased(work[w], "dead_letter") EXCEPT !.retry = work[w].retry + 1,
                                                       !.decision = "record"]
      BY <1>1, SMTT(30) DEF Unleased, WorkRow
    <2>2. [Unleased(work[w], "dead_letter") EXCEPT !.retry = @ + 1, !.decision = "record"]
            \in WorkRow
      BY <1>1, <2>1, FailedRowType, Members
    <2> QED
      BY <1>3, <2>2, SetWorkType DEF MarkDeadLetterClaim
  <1> QED
    BY <1>2, <1>3

LEMMA DeferType ==
  ASSUME StoreTypeOK, NEW w \in Works, NEW k \in Workers, DeferWaitingUserClaim(w, k)
  PROVE  StoreTypeOK'
  <1> DEFINE count == work[w].ownerRetry + 1
             status == IF count >= MaxOwnerRetries THEN "dead_letter" ELSE "waiting_user"
  <1>1. work[w] \in WorkRow /\ count \in Nat
    BY SMTT(30) DEF StoreTypeOK, WorkRow
  <1>2. [Unleased(work[w], status) EXCEPT !.ownerRetry = count, !.decision = "record"] \in WorkRow
    BY <1>1, Members, FailedRowType
  <1>3. work' \in [Works -> WorkRow]
    BY <1>2 DEF DeferWaitingUserClaim, StoreTypeOK
  <1>4. "blocked" \in AttemptStatus
    BY DEF AttemptStatus
  <1>5. attempts' \in [Works -> [Keys -> AttemptStatus]]
    <2>1. CASE count >= MaxOwnerRetries
      <3>1. attempts' = [attempts EXCEPT ![w][RequiredKey] = "blocked"]
        BY <2>1 DEF DeferWaitingUserClaim
      <3> QED
        BY <1>4, <3>1, KeyTypes DEF StoreTypeOK
    <2>2. CASE ~(count >= MaxOwnerRetries)
      BY <2>2 DEF DeferWaitingUserClaim, StoreTypeOK
    <2> QED
      BY <2>1, <2>2
  <1>6. newest' \in [Works -> Keys \cup {NoKey}]
    BY KeyTypes DEF DeferWaitingUserClaim, StoreTypeOK
  <1> QED
    BY <1>3, <1>5, <1>6 DEF DeferWaitingUserClaim, StoreTypeOK

LEMMA AttemptStatusMembers ==
  \A s \in {"none", "ready", "awaiting_approval", "executing", "completed", "cancelled",
           "blocked"} : s \in AttemptStatus
  BY DEF AttemptStatus

LEMMA AttemptType ==
  ASSUME StoreTypeOK, NEW w \in Works, NEW key \in Keys,
         \/ RequestAttempt(w, key)
         \/ ConsumeAttempt(w, key)
         \/ \E status \in AttemptStatus : CompleteAttempt(w, key, status)
  PROVE  StoreTypeOK'
  <1>1. UNCHANGED storeVars \/ \E status \in AttemptStatus : SetAttempt(w, key, status)
    BY AttemptStatusMembers DEF RequestAttempt, ConsumeAttempt, CompleteAttempt
  <1> QED
    BY <1>1, SetAttemptType, StoreUnchangedType

LEMMA BeginType ==
  ASSUME StoreTypeOK, NEW w \in Works, NEW k \in Workers,
         \/ BeginReplyAction(w)
         \/ \E c \in Commands : BeginShellAction(w, c)
         \/ \E d \in Drafts : \/ BeginPostReplyNotification(w, d)
                             \/ BlockReadyReplyApprovalClaim(w, k, d)
         \/ \E kind \in {"investigation_owner_notice", "investigation_progress"} :
               BeginInvestigationMessageAction(w, kind)
  PROVE  StoreTypeOK'
  <1>1. \E key \in Keys, status \in AttemptStatus : SetAttempt(w, key, status)
    BY AttemptStatusMembers, WorkKeyTypes, KeyTypes
       DEF BeginReplyAction, BeginShellAction, BeginPostReplyNotification,
           BlockReadyReplyApprovalClaim, BeginInvestigationMessageAction
  <1> QED
    BY <1>1, SetAttemptType

LEMMA CandidateType ==
  ASSUME StoreTypeOK, NEW w \in Works, NEW k \in Workers,
         \/ \E d \in Drafts : SaveWorkReplyCandidate(w, k, d)
         \/ \E status \in {"held", "cancelled"} : TransitionWorkReplyCandidate(w, k, status)
  PROVE  StoreTypeOK'
  <1>1. ASSUME NEW row \in CandidateRow, SetCandidate(w, row) PROVE StoreTypeOK'
    BY <1>1 DEF StoreTypeOK, SetCandidate
  <1>2. ASSUME NEW d \in Drafts, SaveWorkReplyCandidate(w, k, d) PROVE StoreTypeOK'
    <2>1. [status |-> "pending", draft |-> d] \in CandidateRow
      BY DEF CandidateRow, LiveCandidate
    <2> QED
      BY <1>1, <1>2, <2>1 DEF SaveWorkReplyCandidate
  <1>3. ASSUME NEW status \in {"held", "cancelled"},
               TransitionWorkReplyCandidate(w, k, status)
        PROVE  StoreTypeOK'
    <2>1. [candidate[w] EXCEPT !.status = status] \in CandidateRow
      BY <1>3 DEF StoreTypeOK, CandidateRow, LiveCandidate, HasCandidate,
                  TransitionWorkReplyCandidate
    <2> QED
      BY <1>1, <1>3, <2>1 DEF TransitionWorkReplyCandidate
  <1> QED
    BY <1>2, <1>3

LEMMA InquiryType ==
  ASSUME StoreTypeOK, NEW w \in Works,
         \/ BeginDelegatedInvestigation(w)
         \/ MarkDelegatedInvestigationFinalizing(w)
         \/ CompleteDelegatedInvestigation(w)
         \/ BlockDelegatedInvestigation(w)
         \/ \E status \in InquiryStatus : SetInquiry(w, status)
  PROVE  StoreTypeOK'
  <1>1. UNCHANGED storeVars \/ \E status \in InquiryStatus : SetInquiry(w, status)
    BY DEF BeginDelegatedInvestigation, MarkDelegatedInvestigationFinalizing,
           CompleteDelegatedInvestigation, BlockDelegatedInvestigation, InquiryStatus
  <1> QED
    BY <1>1, StoreUnchangedType DEF StoreTypeOK, SetInquiry

LEMMA StartAgentRunType ==
  ASSUME StoreTypeOK, NEW w \in Works, StartAgentRun(w)
  PROVE  StoreTypeOK'
  BY DEF StoreTypeOK, StartAgentRun

LEMMA SessionType ==
  ASSUME StoreTypeOK,
         CreateOnlineSession \/ MarkCurrentSessionReady \/ StopCurrentSession
  PROVE  StoreTypeOK'
  <1>1. session' \in SessionIds
    BY StoreBounds DEF StoreTypeOK, SessionIds, CreateOnlineSession, MarkCurrentSessionReady,
                       StopCurrentSession
  <1>2. sessions' \in [SessionIds -> SessionStatus]
    BY <1>1 DEF StoreTypeOK, CreateOnlineSession, MarkCurrentSessionReady,
                StopCurrentSession, SetSession, SessionStatus
  <1> QED
    BY <1>1, <1>2 DEF StoreTypeOK, CreateOnlineSession, MarkCurrentSessionReady,
                      StopCurrentSession, SetSession

LEMMA ReadmitType ==
  ASSUME StoreTypeOK, ReadmitPristineWaiting
  PROVE  StoreTypeOK'
  <1>1. \A w \in Works : [work[w] EXCEPT !.session = session, !.decision = "none"] \in WorkRow
    BY Members, RowSessionType DEF StoreTypeOK
  <1> QED
    BY <1>1 DEF StoreTypeOK, ReadmitPristineWaiting

LEMMA InterruptType ==
  ASSUME StoreTypeOK, NEW ws \in SUBSET Works, InterruptSessionWork(ws)
  PROVE  StoreTypeOK'
  <1>1. \A w \in Works : Unleased(work[w], "interrupted") \in WorkRow
    BY Members, UnleasedType DEF StoreTypeOK
  <1>2. work' \in [Works -> WorkRow]
    BY <1>1 DEF StoreTypeOK, InterruptSessionWork
  <1>3. attempts' \in [Works -> [Keys -> AttemptStatus]]
    BY AttemptStatusMembers DEF StoreTypeOK, InterruptSessionWork
  <1>4. snapshots' \in [Works -> SUBSET {"certain", "uncertain"}]
    BY DEF StoreTypeOK, InterruptSessionWork, InterruptionSnapshot
  <1> QED
    BY <1>2, <1>3, <1>4 DEF StoreTypeOK, InterruptSessionWork

LEMMA ConvergeType ==
  ASSUME StoreTypeOK, ConvergeInterruptedWork
  PROVE  StoreTypeOK'
  <1>1. \A w \in Works : ConvergedStatus(w) \in WorkStatus
    BY Members DEF ConvergedStatus
  <1>2. \A w \in Works : ConvergedDecision(w) \in DecisionKinds
    BY Members DEF ConvergedDecision, StoreTypeOK, WorkRow
  <1>3. \A w \in Works : Converged(w) \in WorkRow
    BY <1>1, <1>2, UnleasedType, RowSessionType DEF StoreTypeOK, Converged
  <1>4. work' \in [Works -> WorkRow]
    BY <1>3 DEF StoreTypeOK, ConvergeInterruptedWork
  <1>5. candidate' \in [Works -> CandidateRow]
    <2>1. \A w \in Works, status \in {"cancelled", "held"} :
            HasCandidate(w) => [candidate[w] EXCEPT !.status = status] \in CandidateRow
      BY CandidateStatusType DEF StoreTypeOK, HasCandidate, LiveCandidate
    <2> QED
      BY <2>1 DEF StoreTypeOK, ConvergeInterruptedWork
  <1>6. inquiry' \in [Works -> InquiryStatus] /\ snapshots' \in [Works -> SUBSET {"certain", "uncertain"}]
    BY DEF StoreTypeOK, ConvergeInterruptedWork, InquiryStatus
  <1> QED
    BY <1>4, <1>5, <1>6 DEF StoreTypeOK, ConvergeInterruptedWork

(* The newest open session exists when there is an open one at all.         *)
LEMMA ActiveSessionType ==
  ASSUME StoreTypeOK
  PROVE  /\ ActiveSession \in SessionIds \cup {0}
         /\ ActiveSession # 0 => sessions[ActiveSession] \in {"starting", "ready"}
  <1> DEFINE open == {s \in SessionIds : sessions[s] \in {"starting", "ready"}}
  <1>1. CASE open = {}
    BY <1>1 DEF ActiveSession
  <1>2. CASE open # {}
    <2> DEFINE age == {MaxSessions - s : s \in open}
    <2>1. age \subseteq Nat /\ age # {}
      BY <1>2, StoreBounds DEF SessionIds
    <2>2. PICK least \in age : \A a \in age : ~(<<a, least>> \in OpToRel(<, Nat))
      BY <2>1, NatLessThanWellFounded, WFMin, Zenon
    <2>3. PICK s \in open : least = MaxSessions - s
      OBVIOUS
    <2>4. \A t \in open : t <= s
      <3> TAKE t \in open
      <3>1. MaxSessions - t \in age /\ ~(MaxSessions - t < least)
        BY <2>1, <2>2 DEF OpToRel
      <3> QED
        BY <2>3, <3>1, StoreBounds DEF SessionIds
    <2>5. ActiveSession = CHOOSE x \in open : \A t \in open : t <= x
      BY <1>2 DEF ActiveSession
    <2>6. ActiveSession \in open
      BY <2>4, <2>5
    <2> QED
      BY <2>6
  <1> QED
    BY <1>1, <1>2

LEMMA DecideType ==
  ASSUME StoreTypeOK, NEW w \in Works, NEW key \in Keys, NEW approve \in BOOLEAN,
         DecideAction(w, key, approve)
  PROVE  StoreTypeOK'
  <1>1. attempts' \in [Works -> [Keys -> AttemptStatus]]
    BY AttemptStatusMembers DEF StoreTypeOK, DecideAction
  <1>2. \A status \in WorkStatus : Unleased(work[w], status) \in WorkRow
    BY UnleasedType DEF StoreTypeOK
  <1>3. ActiveSession # 0 =>
          [Unleased(work[w], "received") EXCEPT !.session = ActiveSession] \in WorkRow
    BY <1>2, Members, ActiveSessionType DEF WorkRow
  <1>4. work' \in [Works -> WorkRow]
    BY <1>2, <1>3, Members DEF StoreTypeOK, DecideAction
  <1>5. snapshots' \in [Works -> SUBSET {"certain", "uncertain"}]
    BY DEF StoreTypeOK, DecideAction
  <1> QED
    BY <1>1, <1>4, <1>5 DEF StoreTypeOK, DecideAction

LEMMA ResumeType ==
  ASSUME StoreTypeOK, NEW w \in Works, NEW s \in SessionIds, NEW force \in BOOLEAN,
         ResumeWork(w, s, force)
  PROVE  StoreTypeOK'
  <1>1. work[w].gen + 1 \in Generations
    BY StoreBounds DEF StoreTypeOK, WorkRow, Generations, ResumeWork
  <1>2. work' \in [Works -> WorkRow]
    BY <1>1, Members DEF StoreTypeOK, WorkRow, ResumeWork
  <1>3. attempts' \in [Works -> [Keys -> AttemptStatus]]
    BY AttemptStatusMembers DEF StoreTypeOK, ResumeWork
  <1>4. candidate' \in [Works -> CandidateRow]
    <2> DEFINE row == candidate[w]
    <2>0. row \in CandidateRow /\ [row EXCEPT !.status = row.status] \in CandidateRow
      BY DEF StoreTypeOK, CandidateRow
    <2>1. [row EXCEPT !.status = IF HasCandidate(w) THEN "cancelled" ELSE row.status]
            \in CandidateRow
      BY <2>0, CandidateStatusType DEF HasCandidate
    <2> QED
      BY <2>1 DEF StoreTypeOK, ResumeWork
  <1>5. inquiry' \in [Works -> InquiryStatus] /\ snapshots' \in [Works -> SUBSET {"certain", "uncertain"}]
    BY DEF StoreTypeOK, ResumeWork, InquiryStatus
  <1> QED
    BY <1>2, <1>3, <1>4, <1>5 DEF StoreTypeOK, ResumeWork

LEMMA CancelType ==
  ASSUME StoreTypeOK, NEW w \in Works, CancelWork(w)
  PROVE  StoreTypeOK'
  <1>1. Unleased(work[w], "cancelled") \in WorkRow
    BY UnleasedType, Members DEF StoreTypeOK
  <1>2. work' \in [Works -> WorkRow]
    BY <1>1 DEF StoreTypeOK, CancelWork
  <1>3. attempts' \in [Works -> [Keys -> AttemptStatus]]
    BY AttemptStatusMembers DEF StoreTypeOK, CancelWork
  <1>4. candidate' \in [Works -> CandidateRow]
    BY SMTT(30) DEF StoreTypeOK, CancelWork, CandidateRow, LiveCandidate, HasCandidate
  <1>5. inquiry' \in [Works -> InquiryStatus] /\ snapshots' \in [Works -> SUBSET {"certain", "uncertain"}]
    BY DEF StoreTypeOK, CancelWork, InquiryStatus
  <1>6. newest' \in [Works -> Keys \cup {NoKey}]
    BY KeyTypes DEF StoreTypeOK, CancelWork
  <1> QED
    BY <1>2, <1>3, <1>4, <1>5, <1>6 DEF StoreTypeOK, CancelWork

LEMMA RetryType ==
  ASSUME StoreTypeOK, NEW w \in Works, NEW s, RetryWorkItem(w, s)
  PROVE  StoreTypeOK'
  <1>1. [Unleased(work[w], "received") EXCEPT !.retry = 0, !.decision = "none"] \in WorkRow
    BY FailedRowType, Members DEF StoreTypeOK
  <1> QED
    BY <1>1, SetWorkType DEF RetryWorkItem

LEMMA StoreInitType == StoreInit => StoreTypeOK
  <1> SUFFICES ASSUME StoreInit PROVE StoreTypeOK
    OBVIOUS
  <1>1. 1 \in SessionIds
    BY StoreBounds DEF SessionIds
  <1>2. work \in [Works -> WorkRow]
    BY <1>1, Members, GenerationType DEF StoreInit, WorkRow
  <1>3. attempts \in [Works -> [Keys -> AttemptStatus]]
    BY AttemptStatusMembers DEF StoreInit
  <1>4. candidate \in [Works -> CandidateRow]
    BY DEF StoreInit, CandidateRow, LiveCandidate, HasCandidate
  <1>5. sessions \in [SessionIds -> SessionStatus]
    BY DEF StoreInit, SessionStatus
  <1> QED
    BY <1>1, <1>2, <1>3, <1>4, <1>5 DEF StoreInit, StoreTypeOK, InquiryStatus
==============================================================================
