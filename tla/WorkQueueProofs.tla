---------------------------- MODULE WorkQueueProofs ----------------------------
(****************************************************************************)
(* Theorems about WorkQueue, for every set of works, workers, drafts and    *)
(* commands and for every value of the bounds.                               *)
(****************************************************************************)
EXTENDS WorkQueueProperties, WorkStoreProofs

-----------------------------------------------------------------------------
(* Type correctness: the workers.                                           *)

LEMMA JobsType ==
  ASSUME TypeOK, NEW k \in Workers, NEW row, JobOK(row), job' = [job EXCEPT ![k] = row]
  PROVE  job' \in [Workers -> Job] /\ \A l \in Workers : JobOK(job'[l])
  BY DEF TypeOK, QueueTypeOK, JobOK

LEMMA BecomeType ==
  ASSUME TypeOK, NEW k \in Workers, NEW row, JobOK(row), Become(k, row), StoreTypeOK'
  PROVE  TypeOK'
  <1>1. job' \in [Workers -> Job] /\ \A l \in Workers : JobOK(job'[l])
    BY JobsType DEF Become
  <1> QED
    BY <1>1 DEF TypeOK, QueueTypeOK, Become, worldVars

LEMMA ReadType ==
  ASSUME TypeOK, NEW k \in Workers, NEW row, JobOK(row), Read(k, row)
  PROVE  TypeOK'
  <1>1. StoreTypeOK'
    BY StoreUnchangedType DEF TypeOK, Read
  <1> QED
    BY <1>1, BecomeType DEF Read

(* Program counters that ask nothing of the job but its work item, and those *)
(* that only ask for a draft.                                                *)
Drafting == {"held", "save", "preflight", "handle", "gate", "request", "begin_reply",
             "replied"}
Plain == {"route", "resolve", "inquire", "investigate", "model", "tools", "final",
          "finalizing", "finish", "closing", "close", "defer", "permanent",
          "failed", "terminal"}

LEMMA PlainMembers ==
  \A pc \in {"route", "resolve", "inquire", "investigate", "model", "tools", "final",
            "finalizing", "finish", "closing", "close", "defer", "permanent",
            "failed", "terminal"} : pc \in Plain /\ pc \in Pcs
  BY DEF Plain, Pcs

LEMMA OtherMembers ==
  /\ \A pc \in {"held", "save", "preflight", "handle", "gate", "request",
               "begin_reply", "replied"} : pc \in Drafting /\ pc \in Pcs
  /\ \A pc \in {"inspect", "notice", "notice_lease", "notify", "notified", "send", "sent", "unsent",
               "stage", "stage_send", "stage_sent", "stage_unsent", "shell", "shell_ran",
               "refused", "settle"} : pc \in Pcs
  BY DEF Drafting, Pcs

(* A job may always go where nothing but its work item is needed.           *)
LEMMA PlainOK ==
  ASSUME NEW row \in Job, row.work \in Works, row.pc \in Plain,
         row.kind \in {"reply", "request_approval"} => row.draft \in Drafts
  PROVE  JobOK(row)
  BY DEF JobOK, Plain

LEMMA DraftOK ==
  ASSUME NEW row \in Job, row.work \in Works, row.draft \in Drafts, row.pc \in Drafting
  PROVE  JobOK(row)
  BY DEF JobOK, Drafting

LEMMA NoticeOK ==
  ASSUME NEW row \in Job, row.work \in Works, row.draft \in Drafts, row.pc = "notice",
         row.next # "idle"
  PROVE  JobOK(row)
  BY DEF JobOK

LEMMA AtType ==
  ASSUME TypeOK, NEW k \in Workers, job[k].pc # "idle"
  PROVE  /\ W(k) \in Works /\ W(k) = job[k].work
         /\ JobOK(job[k]) /\ job[k] \in Job
         /\ StoreTypeOK
         /\ job[k].kind \in {"reply", "request_approval"} => job[k].draft \in Drafts
         /\ job[k].pc \in Drafting => job[k].draft \in Drafts
  BY DEF TypeOK, QueueTypeOK, JobOK, W, Drafting

LEMMA PcUpdate ==
  ASSUME NEW row \in Job, NEW pc \in Pcs
  PROVE  /\ [row EXCEPT !.pc = pc] \in Job
         /\ [row EXCEPT !.pc = pc].pc = pc
         /\ [row EXCEPT !.pc = pc].work = row.work
         /\ [row EXCEPT !.pc = pc].kind = row.kind
         /\ [row EXCEPT !.pc = pc].draft = row.draft
         /\ [row EXCEPT !.pc = pc].key = row.key
         /\ [row EXCEPT !.pc = pc].approval = row.approval
         /\ [row EXCEPT !.pc = pc].next = row.next
  BY DEF Job

LEMMA PlainPcType ==
  ASSUME TypeOK, NEW k \in Workers, job[k].pc # "idle", NEW pc \in Plain
  PROVE  JobOK([job[k] EXCEPT !.pc = pc])
  <1>1. pc \in Pcs
    BY DEF Plain, Pcs
  <1> DEFINE row == [job[k] EXCEPT !.pc = pc]
  <1>2. /\ row \in Job /\ row.pc = pc /\ row.work = job[k].work /\ row.kind = job[k].kind
        /\ row.draft = job[k].draft
    BY <1>1, AtType, PcUpdate
  <1>3. row.kind \in {"reply", "request_approval"} => row.draft \in Drafts
    BY <1>2, AtType
  <1> QED
    BY <1>2, <1>3, AtType, PlainOK

LEMMA IdleType == JobOK(Idle)
  BY Members DEF JobOK, Idle, Job, Pcs

LEMMA GotoIsBecome ==
  ASSUME TypeOK, NEW k \in Workers, NEW pc, Goto(k, pc)
  PROVE  Become(k, [job[k] EXCEPT !.pc = pc])
  BY DEF TypeOK, QueueTypeOK, Goto, Become

LEMMA GotoType ==
  ASSUME TypeOK, NEW k \in Workers, NEW pc, Goto(k, pc), StoreTypeOK',
         JobOK([job[k] EXCEPT !.pc = pc])
  PROVE  TypeOK'
  BY GotoIsBecome, BecomeType

LEMMA GotoPlainType ==
  ASSUME TypeOK, NEW k \in Workers, NEW pc \in Plain, Goto(k, pc), StoreTypeOK',
         job[k].pc # "idle"
  PROVE  TypeOK'
  BY PlainPcType, GotoType

LEMMA ReadPlainType ==
  ASSUME TypeOK, NEW k \in Workers, NEW pc \in Plain, Read(k, [job[k] EXCEPT !.pc = pc]),
         job[k].pc # "idle"
  PROVE  TypeOK'
  BY PlainPcType, ReadType

LEMMA FailTypeOK ==
  ASSUME TypeOK, NEW k \in Workers, job[k].pc # "idle", Fail(k)
  PROVE  TypeOK'
  BY PlainMembers, ReadPlainType DEF Fail

LEMMA StopTypeOK ==
  ASSUME TypeOK, NEW k \in Workers, StoreTypeOK', Stop(k)
  PROVE  TypeOK'
  BY IdleType, BecomeType DEF Stop

LEMMA ClaimRowType ==
  ASSUME NEW w \in Works, NEW active \in BOOLEAN
  PROVE  JobOK([Idle EXCEPT !.pc = "inspect", !.work = w, !.active = active])
  <1> DEFINE row == [Idle EXCEPT !.pc = "inspect", !.work = w, !.active = active]
  <1>1. Idle \in Job /\ Idle.kind = "none"
    BY IdleType DEF JobOK, Idle
  <1>2. row \in Job /\ row.pc = "inspect" /\ row.kind = "none" /\ row.work = w
    BY <1>1, OtherMembers DEF Job
  <1> QED
    BY <1>2 DEF JobOK

LEMMA ClaimStep ==
  ASSUME TypeOK, NEW k \in Workers, Claim(k)
  PROVE  TypeOK'
  <1>1. PICK w \in Works :
          /\ ClaimNextForLane(w, k)
          /\ Become(k, [Idle EXCEPT !.pc = "inspect", !.work = w, !.active = Contextual(w)])
    BY DEF Claim
  <1>2. Contextual(w) \in BOOLEAN
    BY DEF Contextual
  <1>3. StoreTypeOK'
    BY <1>1, ClaimType DEF TypeOK
  <1> QED
    BY <1>1, <1>2, <1>3, ClaimRowType, BecomeType

LEMMA InspectStep ==
  ASSUME TypeOK, NEW k \in Workers, Inspect(k)
  PROVE  TypeOK'
  <1>0. job[k].pc # "idle" /\ job[k].pc = "inspect"
    BY DEF Inspect, At
  <1>1. /\ W(k) \in Works /\ job[k] \in Job /\ job[k].work = W(k)
        /\ job[k].kind = "none"
        /\ HasCandidate(W(k)) => candidate[W(k)].draft \in Drafts
    BY <1>0, AtType DEF StoreTypeOK, CandidateRow, LiveCandidate, HasCandidate, JobOK
  <1>2. ASSUME NEW d \in PostReplyNotices(W(k)),
               Read(k, [job[k] EXCEPT !.pc = "notice", !.kind = "reply", !.draft = d,
                                      !.next = "close"])
        PROVE  TypeOK'
    <2> DEFINE row == [job[k] EXCEPT !.pc = "notice", !.kind = "reply", !.draft = d,
                                     !.next = "close"]
    <2>1. d \in Drafts
      BY DEF PostReplyNotices
    <2>2. /\ row \in Job /\ row.pc = "notice" /\ row.work = W(k) /\ row.draft = d
          /\ row.next = "close"
      BY <1>1, <2>1, OtherMembers, Members DEF Job
    <2> QED
      BY <1>1, <1>2, <2>1, <2>2, NoticeOK, ReadType
  <1>3. ASSUME NEW d \in ApprovedDrafts(W(k)),
               Read(k, [job[k] EXCEPT !.pc = "finish", !.granted = TRUE,
                                      !.kind = "reply", !.draft = d])
        PROVE  TypeOK'
    <2> DEFINE row == [job[k] EXCEPT !.pc = "finish", !.granted = TRUE,
                                     !.kind = "reply", !.draft = d]
    <2>1. d \in Drafts
      BY DEF ApprovedDrafts
    <2>2. row \in Job /\ row.pc = "finish" /\ row.work = W(k) /\ row.draft = d
      BY <1>1, <2>1, PlainMembers, Members DEF Job
    <2> QED
      BY <1>1, <1>3, <2>1, <2>2, PlainMembers, PlainOK, ReadType
  <1>4. ASSUME Read(k, [job[k] EXCEPT
                          !.pc = IF HasCandidate(W(k)) THEN "held" ELSE "route",
                          !.draft = IF HasCandidate(W(k)) THEN candidate[W(k)].draft
                                                          ELSE NoItem])
        PROVE  TypeOK'
    <2> DEFINE row == [job[k] EXCEPT
                          !.pc = IF HasCandidate(W(k)) THEN "held" ELSE "route",
                          !.draft = IF HasCandidate(W(k)) THEN candidate[W(k)].draft
                                                          ELSE NoItem]
    <2>1. /\ row \in Job /\ row.work = W(k) /\ row.kind = "none"
          /\ HasCandidate(W(k)) => row.pc = "held" /\ row.draft \in Drafts
          /\ ~HasCandidate(W(k)) => row.pc = "route"
      BY <1>1, PlainMembers, OtherMembers DEF Job
    <2> QED
      BY <1>1, <1>4, <2>1, PlainMembers, OtherMembers, PlainOK, DraftOK, ReadType
  <1> QED
    BY <1>0, <1>2, <1>3, <1>4, FailTypeOK DEF Inspect

LEMMA DropRowType ==
  ASSUME TypeOK, NEW k \in Workers, job[k].pc # "idle", NEW pc \in Plain,
         NEW kind \in {"none", "ignore", "notify", "record"}
  PROVE  JobOK([job[k] EXCEPT !.pc = pc, !.kind = kind])
  <1> DEFINE row == [job[k] EXCEPT !.pc = pc, !.kind = kind]
  <1>1. pc \in Pcs /\ kind \in DecisionKinds
    BY Members DEF Plain, Pcs
  <1>2. row \in Job /\ row.pc = pc /\ row.work = job[k].work /\ row.kind = kind
    BY <1>1, AtType DEF Job
  <1> QED
    BY <1>2, AtType, PlainOK

LEMMA DraftPcType ==
  ASSUME TypeOK, NEW k \in Workers, job[k].pc # "idle", NEW pc \in Drafting,
         job[k].draft \in Drafts
  PROVE  JobOK([job[k] EXCEPT !.pc = pc])
  <1> DEFINE row == [job[k] EXCEPT !.pc = pc]
  <1>1. pc \in Pcs
    BY DEF Drafting, Pcs
  <1>2. row \in Job /\ row.pc = pc /\ row.work = job[k].work /\ row.draft = job[k].draft
    BY <1>1, AtType, PcUpdate
  <1> QED
    BY <1>2, AtType, DraftOK

LEMMA WithdrawnType == Withdrawn \subseteq {"ignore", "record"}
  BY DEF Withdrawn

LEMMA RouteStep ==
  ASSUME TypeOK, NEW k \in Workers, Route(k)
  PROVE  TypeOK'
  <1>0. job[k].pc # "idle" /\ job[k].pc = "route"
    BY DEF Route, At
  <1>1. ASSUME NEW pc \in {"resolve", "model"}, Read(k, [job[k] EXCEPT !.pc = pc])
        PROVE  TypeOK'
    BY <1>0, <1>1, PlainMembers, ReadPlainType
  <1>2. ASSUME NEW kind \in Withdrawn, NEW pc \in {"model", "final", "finish"},
               Read(k, [job[k] EXCEPT !.kind = kind, !.pc = pc])
        PROVE  TypeOK'
    <2>1. [job[k] EXCEPT !.kind = kind, !.pc = pc] = [job[k] EXCEPT !.pc = pc, !.kind = kind]
      BY <1>0, AtType DEF Job
    <2>2. JobOK([job[k] EXCEPT !.pc = pc, !.kind = kind])
      BY <1>0, WithdrawnType, PlainMembers, DropRowType
    <2> QED
      BY <1>2, <2>1, <2>2, ReadType
  <1> QED
    BY <1>0, <1>1, <1>2, FailTypeOK DEF Route

LEMMA FalterStep ==
  ASSUME TypeOK, NEW k \in Workers, Falter(k)
  PROVE  TypeOK'
  BY FailTypeOK DEF Falter

LEMMA ResolveStep ==
  ASSUME TypeOK, NEW k \in Workers, Resolve(k)
  PROVE  TypeOK'
  <1>0. job[k].pc # "idle"
    BY DEF Resolve, At
  <1>1. ASSUME NEW pc \in {"defer", "permanent", "model", "inquire"},
               Read(k, [job[k] EXCEPT !.pc = pc])
        PROVE  TypeOK'
    BY <1>0, <1>1, PlainMembers, ReadPlainType
  <1>2. ASSUME Read(k, [job[k] EXCEPT !.pc = "finish", !.kind = "ignore"])
        PROVE  TypeOK'
    BY <1>0, <1>2, PlainMembers, DropRowType, ReadType
  <1> QED
    BY <1>0, <1>1, <1>2, FailTypeOK DEF Resolve

LEMMA DeferStep ==
  ASSUME TypeOK, NEW k \in Workers, Defer(k)
  PROVE  TypeOK'
  <1>0. job[k].pc # "idle" /\ W(k) \in Works /\ StoreTypeOK
    BY AtType DEF Defer, At
  <1>1. CASE DeferWaitingUserClaim(W(k), k) /\ Goto(k, "terminal")
    BY <1>0, <1>1, DeferType, PlainMembers, GotoPlainType
  <1>2. CASE Read(k, Idle)
    BY <1>2, IdleType, ReadType
  <1> QED
    BY <1>1, <1>2 DEF Defer

LEMMA StageKeyType ==
  ASSUME StoreTypeOK, NEW w \in Works,
         NEW kind \in {"investigation_owner_notice", "investigation_progress"}
  PROVE  StageKey(w, kind) \in Keys /\ StageKey(w, kind).kind = kind
  BY WorkKeyTypes DEF StageKey, Key

LEMMA StageRowType ==
  ASSUME TypeOK, NEW k \in Workers, job[k].pc # "idle",
         NEW pc \in {"stage", "stage_send", "stage_sent", "stage_unsent"}, NEW key \in Keys,
         key.kind \in {"investigation_owner_notice", "investigation_progress"},
         job[k].kind \notin {"reply", "request_approval"} \/ job[k].draft \in Drafts
  PROVE  /\ JobOK([job[k] EXCEPT !.pc = pc, !.key = key])
         /\ \A opened \in BOOLEAN : JobOK([job[k] EXCEPT !.pc = pc, !.opened = opened, !.key = key])
  <1>1. pc \in Pcs
    BY OtherMembers
  <1>2. ASSUME NEW row \in Job, row.pc = pc, row.work = job[k].work, row.key = key,
               row.kind = job[k].kind, row.draft = job[k].draft
        PROVE  JobOK(row)
    BY <1>2, AtType DEF JobOK
  <1>3. ASSUME NEW row, row = [job[k] EXCEPT !.pc = pc, !.key = key]
        PROVE  JobOK(row)
    <2>1. row.pc = pc /\ row.work = job[k].work /\ row.key = key
      BY <1>1, <1>3, AtType DEF Job
    <2>2. row.kind = job[k].kind /\ row.draft = job[k].draft
      BY <1>1, <1>3, AtType DEF Job
    <2>3. row \in Job
      BY <1>1, <1>3, AtType, ZenonT(60) DEF Job
    <2> QED
      BY <1>2, <2>1, <2>2, <2>3
  <1>4. ASSUME NEW row, NEW opened \in BOOLEAN,
               row = [job[k] EXCEPT !.pc = pc, !.opened = opened, !.key = key]
        PROVE  JobOK(row)
    <2>1. row.pc = pc /\ row.work = job[k].work /\ row.key = key
      BY <1>1, <1>4, AtType DEF Job
    <2>2. row.kind = job[k].kind /\ row.draft = job[k].draft
      BY <1>1, <1>4, AtType DEF Job
    <2>3. row \in Job
      BY <1>1, <1>4, AtType, ZenonT(60) DEF Job
    <2> QED
      BY <1>2, <2>1, <2>2, <2>3
  <1> QED
    BY <1>3, <1>4

LEMMA InquireStep ==
  ASSUME TypeOK, NEW k \in Workers, Inquire(k)
  PROVE  TypeOK'
  <1>0. job[k].pc # "idle" /\ W(k) \in Works /\ StoreTypeOK
    BY AtType DEF Inquire, At
  <1>1. StoreTypeOK'
    BY <1>0, InquiryType DEF Inquire
  <1>2. CASE Goto(k, "failed")
    BY <1>0, <1>1, <1>2, PlainMembers, GotoPlainType
  <1>3. CASE Become(k, [job[k] EXCEPT
                       !.pc = "stage",
                       !.opened = inquiry[W(k)] \in {"none", "pending_progress"},
                       !.key = StageKey(W(k), "investigation_owner_notice")])
    <2>1. (inquiry[W(k)] \in {"none", "pending_progress"}) \in BOOLEAN
      OBVIOUS
    <2>2. job[k].kind \notin {"reply", "request_approval"} \/ job[k].draft \in Drafts
      BY <1>0, AtType
    <2>3. JobOK([job[k] EXCEPT !.pc = "stage",
                               !.opened = inquiry[W(k)] \in {"none", "pending_progress"},
                               !.key = StageKey(W(k), "investigation_owner_notice")])
      BY <1>0, <2>1, <2>2, StageKeyType, StageRowType
    <2> QED
      BY <1>1, <1>3, <2>3, BecomeType
  <1> QED
    BY <1>2, <1>3 DEF Inquire

LEMMA AfterStageType ==
  ASSUME TypeOK, NEW k \in Workers, job[k].pc \in {"stage", "stage_sent"}
  PROVE  JobOK(AfterStage(k))
  <1>0. /\ job[k].pc # "idle" /\ W(k) \in Works /\ StoreTypeOK
        /\ job[k].kind \notin {"reply", "request_approval"} \/ job[k].draft \in Drafts
    BY AtType
  <1>1. CASE job[k].key.kind = "investigation_owner_notice"
    BY <1>0, <1>1, StageKeyType, StageRowType DEF AfterStage
  <1>2. CASE job[k].key.kind # "investigation_owner_notice"
    <2> DEFINE row == [job[k] EXCEPT !.pc = IF job[k].opened THEN "investigate" ELSE "model",
                                     !.key = NoKey, !.active = ~job[k].opened]
    <2>1. job[k].opened \in BOOLEAN /\ (~job[k].opened) \in BOOLEAN
      BY <1>0, AtType DEF Job
    <2>2. \A pc \in {"investigate", "model"}, active \in BOOLEAN :
            JobOK([job[k] EXCEPT !.pc = pc, !.key = NoKey, !.active = active])
      <3> TAKE pc \in {"investigate", "model"}, active \in BOOLEAN
      <3> DEFINE new == [job[k] EXCEPT !.pc = pc, !.key = NoKey, !.active = active]
      <3>1. pc \in Plain /\ pc \in Pcs
        BY PlainMembers
      <3>2. /\ new.pc = pc /\ new.work = job[k].work /\ new.kind = job[k].kind
            /\ new.draft = job[k].draft
        BY <1>0, <3>1, AtType DEF Job
      <3>3. new \in Job
        BY <1>0, <3>1, AtType, ZenonT(60) DEF Job
      <3> HIDE DEF new
      <3>4. JobOK(new)
        BY <1>0, <3>1, <3>2, <3>3, AtType, PlainOK
      <3> QED
        BY <3>4 DEF new
    <2>3. (IF job[k].opened THEN "investigate" ELSE "model") \in {"investigate", "model"}
      OBVIOUS
    <2>4. AfterStage(k) = row
      BY <1>2 DEF AfterStage
    <2> QED
      BY <2>1, <2>2, <2>3, <2>4
  <1> QED
    BY <1>1, <1>2

LEMMA StageBeginStep ==
  ASSUME TypeOK, NEW k \in Workers, StageBegin(k)
  PROVE  TypeOK'
  <1>0. /\ job[k].pc = "stage" /\ W(k) \in Works /\ StoreTypeOK
        /\ job[k].key.kind \in {"investigation_owner_notice", "investigation_progress"}
        /\ job[k].kind \notin {"reply", "request_approval"} \/ job[k].draft \in Drafts
    BY AtType DEF StageBegin, At, JobOK
  <1> DEFINE key == StageKey(W(k), job[k].key.kind)
  <1>1. key \in Keys /\ key.kind = job[k].key.kind
    BY <1>0, StageKeyType
  <1>2. CASE /\ BeginInvestigationMessageAction(W(k), key.kind)
             /\ Become(k, [job[k] EXCEPT !.pc = "stage_send", !.key = key])
    <2>1. StoreTypeOK'
      BY <1>0, <1>1, <1>2, BeginType
    <2>2. JobOK([job[k] EXCEPT !.pc = "stage_send", !.key = key])
      BY <1>0, <1>1, StageRowType
    <2> QED
      BY <1>2, <2>1, <2>2, BecomeType
  <1>3. CASE Read(k, AfterStage(k))
    BY <1>0, <1>3, AfterStageType, ReadType
  <1>4. CASE Fail(k)
    BY <1>0, <1>4, FailTypeOK
  <1> QED
    BY <1>2, <1>3, <1>4 DEF StageBegin

LEMMA SamePcRowType ==
  ASSUME TypeOK, NEW k \in Workers, NEW pc \in Pcs,
         \/ job[k].pc = "stage_send" /\ pc \in {"stage_sent", "stage_unsent"}
         \/ job[k].pc = "notice_lease" /\ pc = "notify"
         \/ job[k].pc = "notify" /\ pc = "notified"
         \/ job[k].pc = "send" /\ pc \in {"sent", "unsent"}
         \/ job[k].pc = "shell" /\ pc = "shell_ran"
  PROVE  JobOK([job[k] EXCEPT !.pc = pc])
  <1> DEFINE row == [job[k] EXCEPT !.pc = pc]
  <1>1. job[k] \in Job /\ JobOK(job[k])
    BY DEF TypeOK, QueueTypeOK
  <1>2. /\ row \in Job /\ row.pc = pc /\ row.work = job[k].work /\ row.kind = job[k].kind
        /\ row.draft = job[k].draft /\ row.key = job[k].key /\ row.approval = job[k].approval
        /\ row.next = job[k].next
    BY <1>1, PcUpdate
  <1> QED
    BY <1>1, <1>2 DEF JobOK

LEMMA StageSendStep ==
  ASSUME TypeOK, NEW k \in Workers, StageSend(k)
  PROVE  TypeOK'
  BY SamePcRowType, ReadType, OtherMembers DEF StageSend, At

LEMMA StageRecordStep ==
  ASSUME TypeOK, NEW k \in Workers, StageRecord(k)
  PROVE  TypeOK'
  <1>0. /\ job[k].pc \in {"stage_sent", "stage_unsent"}
        /\ W(k) \in Works /\ StoreTypeOK /\ job[k].key \in Keys
    BY AtType DEF StageRecord, At, JobOK
  <1>1. ASSUME NEW status \in {"completed", "blocked"},
               CompleteAttempt(W(k), job[k].key, status)
        PROVE  StoreTypeOK'
    BY <1>0, <1>1, AttemptStatusMembers, AttemptType
  <1>2. CASE /\ At(k, "stage_sent")
             /\ CompleteAttempt(W(k), job[k].key, "completed")
             /\ Become(k, AfterStage(k))
    BY <1>0, <1>1, <1>2, AfterStageType, BecomeType DEF At
  <1>3. CASE CompleteAttempt(W(k), job[k].key, "blocked") /\ Goto(k, "failed")
    BY <1>0, <1>1, <1>3, PlainMembers, GotoPlainType
  <1> QED
    BY <1>2, <1>3 DEF StageRecord

LEMMA InvestigateStep ==
  ASSUME TypeOK, NEW k \in Workers, Investigate(k)
  PROVE  TypeOK'
  <1>0. /\ job[k].pc # "idle" /\ W(k) \in Works /\ StoreTypeOK /\ job[k] \in Job
    BY AtType DEF Investigate, At
  <1>1. CASE /\ SetInquiry(W(k), "investigating")
             /\ Become(k, [job[k] EXCEPT !.pc = "model", !.active = TRUE])
    <2> DEFINE row == [job[k] EXCEPT !.pc = "model", !.active = TRUE]
    <2>1. "investigating" \in InquiryStatus
      BY DEF InquiryStatus
    <2>2. StoreTypeOK'
      BY <1>0, <1>1, <2>1, InquiryType
    <2>3. /\ row \in Job /\ row.pc = "model" /\ row.work = job[k].work
          /\ row.kind = job[k].kind /\ row.draft = job[k].draft
      BY <1>0, PlainMembers DEF Job
    <2>4. JobOK(row)
      BY <1>0, <2>3, AtType, PlainMembers, PlainOK
    <2> QED
      BY <1>1, <2>2, <2>4, BecomeType
  <1>2. CASE Fail(k)
    BY <1>0, <1>2, FailTypeOK
  <1> QED
    BY <1>1, <1>2 DEF Investigate

LEMMA HeldStep ==
  ASSUME TypeOK, NEW k \in Workers, Held(k)
  PROVE  TypeOK'
  <1>0. /\ job[k].pc = "held" /\ W(k) \in Works /\ StoreTypeOK /\ job[k] \in Job
        /\ job[k].draft \in Drafts
    BY AtType, OtherMembers DEF Held, At
  <1>1. ASSUME NEW status \in {"held", "cancelled"},
               TransitionWorkReplyCandidate(W(k), k, status)
        PROVE  StoreTypeOK'
    BY <1>0, <1>1, CandidateType
  <1>2. ASSUME NEW status \in {"held", "cancelled"}, NEW pc \in {"defer", "permanent"},
               TransitionWorkReplyCandidate(W(k), k, status),
               Become(k, [job[k] EXCEPT !.pc = pc])
        PROVE  TypeOK'
    BY <1>0, <1>1, <1>2, PlainMembers, PlainPcType, BecomeType
  <1>3. ASSUME NEW kind \in {"ignore", "record"},
               TransitionWorkReplyCandidate(W(k), k, "cancelled"),
               Become(k, [job[k] EXCEPT !.pc = "finish", !.kind = kind])
        PROVE  TypeOK'
    BY <1>0, <1>1, <1>3, PlainMembers, DropRowType, BecomeType
  <1>4. CASE Read(k, [job[k] EXCEPT !.pc = "finish", !.kind = "reply", !.held = TRUE])
    <2> DEFINE row == [job[k] EXCEPT !.pc = "finish", !.kind = "reply", !.held = TRUE]
    <2>1. row \in Job /\ row.pc = "finish" /\ row.work = job[k].work /\ row.draft = job[k].draft
      BY <1>0, PlainMembers, Members DEF Job
    <2>2. JobOK(row)
      BY <1>0, <2>1, AtType, PlainMembers, PlainOK
    <2> QED
      BY <1>4, <2>2, ReadType
  <1>5. CASE Fail(k)
    BY <1>0, <1>5, FailTypeOK
  <1> QED
    BY <1>2, <1>3, <1>4, <1>5, WithdrawnType DEF Held

LEMMA StartRunStep ==
  ASSUME TypeOK, NEW k \in Workers, StartRun(k)
  PROVE  TypeOK'
  BY AtType, StartAgentRunType, PlainMembers, GotoPlainType DEF StartRun, At

LEMMA CallShellStep ==
  ASSUME TypeOK, NEW k \in Workers, CallShell(k)
  PROVE  TypeOK'
  <1>0. /\ job[k].pc # "idle" /\ W(k) \in Works /\ StoreTypeOK /\ job[k] \in Job
    BY AtType DEF CallShell, At
  <1>1. PICK c \in Commands :
          \/ /\ \/ ConsumeShellApproval(W(k), c)
                \/ BeginShellAction(W(k), c)
             /\ Become(k, [job[k] EXCEPT !.pc = "shell", !.key = ShellKey(c)])
          \/ RequestShellApproval(W(k), c) /\ Goto(k, "tools")
    BY DEF CallShell
  <1>2. ShellKey(c) \in Keys
    BY KeyTypes
  <1>3. StoreTypeOK'
    BY <1>0, <1>1, <1>2, AttemptType, BeginType DEF ConsumeShellApproval, RequestShellApproval
  <1>4. CASE Become(k, [job[k] EXCEPT !.pc = "shell", !.key = ShellKey(c)])
    <2> DEFINE row == [job[k] EXCEPT !.pc = "shell", !.key = ShellKey(c)]
    <2>1. /\ row \in Job /\ row.pc = "shell" /\ row.work = job[k].work
          /\ row.kind = job[k].kind /\ row.draft = job[k].draft /\ row.key = ShellKey(c)
      BY <1>0, <1>2, OtherMembers DEF Job
    <2>2. JobOK(row)
      BY <1>0, <1>2, <2>1, AtType DEF JobOK
    <2> QED
      BY <1>3, <1>4, <2>2, BecomeType
  <1>5. CASE Goto(k, "tools")
    BY <1>0, <1>3, <1>5, PlainMembers, GotoPlainType
  <1> QED
    BY <1>1, <1>4, <1>5

LEMMA RunShellStep ==
  ASSUME TypeOK, NEW k \in Workers, RunShell(k)
  PROVE  TypeOK'
  <1>0. /\ job[k].pc = "shell" /\ W(k) \in Works /\ StoreTypeOK /\ job[k] \in Job
    BY AtType DEF RunShell, At
  <1>1. PICK c \in Commands : job[k].key = ShellKey(c)
    BY <1>0, AtType DEF JobOK
  <1>2. job[k].key.item \in Commands
    BY <1>1 DEF ShellKey, Key
  <1>3. runs' \in [Works -> [Commands -> Nat]]
    BY <1>0, <1>2 DEF RunShell, TypeOK, QueueTypeOK
  <1>4. JobOK([job[k] EXCEPT !.pc = "shell_ran"])
    BY <1>0, OtherMembers, SamePcRowType
  <1>5. job' = [job EXCEPT ![k] = [job[k] EXCEPT !.pc = "shell_ran"]]
    BY DEF RunShell, TypeOK, QueueTypeOK
  <1>6. job' \in [Workers -> Job] /\ \A l \in Workers : JobOK(job'[l])
    BY <1>4, <1>5, JobsType
  <1>7. StoreTypeOK'
    BY <1>0, StoreUnchangedType DEF RunShell
  <1> QED
    BY <1>3, <1>6, <1>7 DEF RunShell, TypeOK, QueueTypeOK

LEMMA RecordShellStep ==
  ASSUME TypeOK, NEW k \in Workers, RecordShell(k)
  PROVE  TypeOK'
  <1>0. /\ job[k].pc = "shell_ran" /\ W(k) \in Works /\ StoreTypeOK /\ job[k] \in Job
        /\ job[k].key \in Keys
    BY AtType DEF RecordShell, At, JobOK
  <1>1. ASSUME NEW status \in {"completed", "blocked"},
               CompleteAttempt(W(k), job[k].key, status),
               Become(k, [job[k] EXCEPT !.pc = "tools", !.key = NoKey])
        PROVE  TypeOK'
    <2> DEFINE row == [job[k] EXCEPT !.pc = "tools", !.key = NoKey]
    <2>1. StoreTypeOK'
      BY <1>0, <1>1, AttemptStatusMembers, AttemptType
    <2>2. /\ row \in Job /\ row.pc = "tools" /\ row.work = job[k].work
          /\ row.kind = job[k].kind /\ row.draft = job[k].draft
      BY <1>0, PlainMembers DEF Job
    <2>3. JobOK(row)
      BY <1>0, <2>2, AtType, PlainMembers, PlainOK
    <2> QED
      BY <1>1, <2>1, <2>3, BecomeType
  <1> QED
    BY <1>0, <1>1, FailTypeOK DEF RecordShell

LEMMA DecideStep ==
  ASSUME TypeOK, NEW k \in Workers, Decide(k)
  PROVE  TypeOK'
  <1>0. /\ job[k].pc # "idle" /\ W(k) \in Works /\ StoreTypeOK /\ job[k] \in Job
    BY AtType DEF Decide, At
  <1>1. PICK kind \in Outcomes, d \in Drafts :
          \/ Fail(k)
          \/ \E pc \in {"finish", "save", "final"} :
               /\ pc = "save" => kind = "reply"
               /\ Read(k, [job[k] EXCEPT
                       !.kind = kind,
                       !.draft = IF kind \in {"reply", "request_approval"} THEN d ELSE NoItem,
                       !.pc = pc])
    BY DEF Decide
  <1>2. kind \in {"reply", "request_approval", "ignore", "notify"} /\ kind \in DecisionKinds
    BY QueueParameters, Members
  <1>3. ASSUME NEW pc \in {"finish", "save", "final"},
               pc = "save" => kind = "reply",
               Read(k, [job[k] EXCEPT
                       !.kind = kind,
                       !.draft = IF kind \in {"reply", "request_approval"} THEN d ELSE NoItem,
                       !.pc = pc])
        PROVE  TypeOK'
    <2> DEFINE row == [job[k] EXCEPT
                       !.kind = kind,
                       !.draft = IF kind \in {"reply", "request_approval"} THEN d ELSE NoItem,
                       !.pc = pc]
    <2>1. pc \in Pcs
      BY PlainMembers, OtherMembers
    <2>2. /\ row \in Job /\ row.pc = pc /\ row.work = job[k].work /\ row.kind = kind
          /\ kind \in {"reply", "request_approval"} => row.draft \in Drafts
      BY <1>0, <1>2, <2>1 DEF Job
    <2> HIDE DEF row
    <2>3. JobOK(row)
      BY <1>0, <1>3, <2>2, AtType, PlainMembers, OtherMembers, PlainOK, DraftOK
    <2> USE DEF row
    <2> QED
      BY <1>3, <2>3, ReadType
  <1> QED
    BY <1>0, <1>1, <1>3, FailTypeOK

LEMMA HeldRowType ==
  ASSUME TypeOK, NEW k \in Workers, job[k].pc # "idle", NEW pc \in Plain, NEW held \in BOOLEAN
  PROVE  JobOK([job[k] EXCEPT !.pc = pc, !.held = held])
  <1> DEFINE row == [job[k] EXCEPT !.pc = pc, !.held = held]
  <1>1. pc \in Pcs
    BY DEF Plain, Pcs
  <1>2. row.pc = pc /\ row.work = job[k].work /\ row.kind = job[k].kind /\ row.draft = job[k].draft
    BY <1>1, AtType DEF Job
  <1>3. row \in Job
    BY <1>1, AtType, ZenonT(60) DEF Job
  <1> HIDE DEF row
  <1>4. JobOK(row)
    BY <1>2, <1>3, AtType, PlainOK
  <1> QED
    BY <1>4 DEF row

LEMMA SaveCandidateStep ==
  ASSUME TypeOK, NEW k \in Workers, SaveCandidate(k)
  PROVE  TypeOK'
  <1>0. job[k].pc = "save" /\ W(k) \in Works /\ StoreTypeOK /\ job[k].draft \in Drafts
    BY AtType, OtherMembers DEF SaveCandidate, At
  <1>1. CASE /\ SaveWorkReplyCandidate(W(k), k, job[k].draft)
             /\ Become(k, [job[k] EXCEPT !.pc = "final", !.held = TRUE])
    BY <1>0, <1>1, CandidateType, HeldRowType, PlainMembers, BecomeType
  <1>2. CASE Fail(k)
    BY <1>0, <1>2, FailTypeOK
  <1> QED
    BY <1>1, <1>2 DEF SaveCandidate

LEMMA FinalResolveStep ==
  ASSUME TypeOK, NEW k \in Workers, FinalResolve(k)
  PROVE  TypeOK'
  <1>0. job[k].pc # "idle" /\ W(k) \in Works /\ StoreTypeOK /\ job[k] \in Job
    BY AtType DEF FinalResolve, At
  <1> DEFINE dropped == [job[k] EXCEPT !.pc = "finalizing", !.kind = "ignore",
                                       !.draft = NoItem, !.held = FALSE]
             targets == {[job[k] EXCEPT !.pc = "defer"], [job[k] EXCEPT !.pc = "permanent"],
                         [job[k] EXCEPT !.pc = "finalizing"], dropped}
  <1>1. dropped \in Job /\ dropped.pc = "finalizing" /\ dropped.work = job[k].work
        /\ dropped.kind = "ignore"
    BY <1>0, PlainMembers, Members DEF Job
  <1>2. JobOK(dropped)
    BY <1>0, <1>1, AtType, PlainMembers, PlainOK
  <1>3. \A row \in targets : JobOK(row)
    BY <1>0, <1>2, PlainMembers, PlainPcType
  <1>4. ASSUME NEW row \in targets, Read(k, row)
        PROVE  TypeOK'
    BY <1>3, <1>4, ReadType
  <1>5. ASSUME NEW row \in targets, NEW status \in {"held", "cancelled"},
               TransitionWorkReplyCandidate(W(k), k, status), Become(k, row)
        PROVE  TypeOK'
    BY <1>0, <1>3, <1>5, CandidateType, BecomeType
  <1>6. \/ Fail(k)
        \/ \E row \in targets :
             \/ Read(k, row)
             \/ \E status \in {"held", "cancelled"} :
                  TransitionWorkReplyCandidate(W(k), k, status) /\ Become(k, row)
    BY DEF FinalResolve
  <1> QED
    BY <1>0, <1>4, <1>5, <1>6, FailTypeOK

LEMMA FinalizeStep ==
  ASSUME TypeOK, NEW k \in Workers, Finalize(k)
  PROVE  TypeOK'
  BY AtType, InquiryType, PlainMembers, GotoPlainType, FailTypeOK DEF Finalize, At

LEMMA FinishStep ==
  ASSUME TypeOK, NEW k \in Workers, Finish(k)
  PROVE  TypeOK'
  <1>0. job[k].pc # "idle" /\ W(k) \in Works /\ StoreTypeOK /\ job[k] \in Job
    BY AtType DEF Finish, At
  <1>1. CASE Fail(k)
    BY <1>0, <1>1, FailTypeOK
  <1>2. ASSUME NEW pc \in {"preflight", "handle"}, job[k].kind \in {"reply", "request_approval"},
               Read(k, [job[k] EXCEPT !.pc = pc])
        PROVE  TypeOK'
    BY <1>0, <1>2, AtType, OtherMembers, DraftPcType, ReadType
  <1>3. CASE Read(k, [job[k] EXCEPT !.pc = "closing"])
    BY <1>0, <1>3, PlainMembers, ReadPlainType
  <1>4. ASSUME NEW kind \in Withdrawn,
               \/ Read(k, [job[k] EXCEPT !.pc = "closing", !.kind = kind])
               \/ \E d \in Drafts :
                    /\ BlockReadyReplyApprovalClaim(W(k), k, d)
                    /\ Become(k, [job[k] EXCEPT !.pc = "closing", !.kind = kind])
        PROVE  TypeOK'
    <2>1. JobOK([job[k] EXCEPT !.pc = "closing", !.kind = kind])
      BY <1>0, WithdrawnType, PlainMembers, DropRowType
    <2> QED
      BY <1>0, <1>4, <2>1, BeginType, ReadType, BecomeType
  <1>5. \/ Fail(k)
        \/ /\ job[k].kind \in {"reply", "request_approval"}
           /\ \E pc \in {"preflight", "handle"} : Read(k, [job[k] EXCEPT !.pc = pc])
        \/ Read(k, [job[k] EXCEPT !.pc = "closing"])
        \/ \E kind \in Withdrawn :
             \/ Read(k, [job[k] EXCEPT !.pc = "closing", !.kind = kind])
             \/ \E d \in Drafts :
                  /\ BlockReadyReplyApprovalClaim(W(k), k, d)
                  /\ Become(k, [job[k] EXCEPT !.pc = "closing", !.kind = kind])
    BY DEF Finish, SenderFacing, ApprovedDrafts
  <1> QED
    BY <1>1, <1>2, <1>3, <1>4, <1>5

LEMMA PreflightStep ==
  ASSUME TypeOK, NEW k \in Workers, Preflight(k)
  PROVE  TypeOK'
  <1>0. job[k].pc = "preflight" /\ job[k].draft \in Drafts /\ job[k] \in Job
    BY AtType, OtherMembers DEF Preflight, At
  <1>1. CASE Read(k, [job[k] EXCEPT !.pc = "notice", !.next = "handle"])
    <2> DEFINE row == [job[k] EXCEPT !.pc = "notice", !.next = "handle"]
    <2>1. /\ row \in Job /\ row.pc = "notice" /\ row.work = job[k].work
          /\ row.draft = job[k].draft /\ row.next = "handle"
      BY <1>0, OtherMembers DEF Job
    <2>2. JobOK(row)
      BY <1>0, <2>1, AtType, NoticeOK
    <2> QED
      BY <1>1, <2>2, ReadType
  <1>2. CASE Read(k, [job[k] EXCEPT !.pc = "handle"])
    BY <1>0, <1>2, OtherMembers, DraftPcType, ReadType
  <1> QED
    BY <1>1, <1>2 DEF Preflight

LEMMA NextType ==
  ASSUME TypeOK, NEW k \in Workers, job[k].pc \in {"notice", "notified"}
  PROVE  /\ JobOK([job[k] EXCEPT !.pc = job[k].next, !.notified = TRUE])
         /\ JobOK([job[k] EXCEPT !.pc = job[k].next, !.notified = TRUE, !.key = NoKey])
  <1>0. /\ job[k] \in Job /\ job[k].draft \in Drafts /\ job[k].work \in Works
        /\ job[k].next \in {"close", "handle", "closing"}
    BY DEF TypeOK, QueueTypeOK, JobOK, Job
  <1>1. job[k].next \in Pcs /\ job[k].next \in Plain \cup Drafting
    BY <1>0, PlainMembers, OtherMembers
  <1>2. ASSUME NEW row \in Job, row.pc = job[k].next, row.work = job[k].work,
               row.draft = job[k].draft
        PROVE  JobOK(row)
    BY <1>0, <1>1, <1>2, PlainOK, DraftOK
  <1>3. ASSUME NEW row, \/ row = [job[k] EXCEPT !.pc = job[k].next, !.notified = TRUE]
                        \/ row = [job[k] EXCEPT !.pc = job[k].next, !.notified = TRUE,
                                                !.key = NoKey]
        PROVE  JobOK(row)
    <2>1. row \in Job /\ row.pc = job[k].next /\ row.work = job[k].work /\ row.draft = job[k].draft
      BY <1>0, <1>1, <1>3 DEF Job
    <2> QED
      BY <1>2, <2>1
  <1> QED
    BY <1>3

LEMMA NoticeBeginStep ==
  ASSUME TypeOK, NEW k \in Workers, NoticeBegin(k)
  PROVE  TypeOK'
  <1>0. /\ job[k].pc = "notice" /\ W(k) \in Works /\ StoreTypeOK /\ job[k] \in Job
        /\ job[k].draft \in Drafts /\ job[k].work \in Works /\ job[k].next # "idle"
    BY AtType DEF NoticeBegin, At, JobOK
  <1> DEFINE key == NoticeKey(W(k), job[k].draft)
             row == [job[k] EXCEPT !.pc = "notice_lease", !.key = key]
  <1>1. CASE /\ BeginPostReplyNotification(W(k), job[k].draft)
             /\ Become(k, row)
    <2>1. StoreTypeOK'
      BY <1>0, <1>1, BeginType
    <2>2. key \in Keys
      BY <1>0, WorkKeyTypes
    <2>3. /\ row \in Job /\ row.pc = "notice_lease" /\ row.work = job[k].work
          /\ row.draft = job[k].draft /\ row.key = key /\ row.next = job[k].next
      BY <1>0, <2>2, OtherMembers DEF Job
    <2>4. JobOK(row)
      BY <1>0, <2>2, <2>3 DEF JobOK
    <2> QED
      BY <1>1, <2>1, <2>4, BecomeType
  <1>2. CASE Read(k, [job[k] EXCEPT !.pc = job[k].next, !.notified = TRUE])
    BY <1>0, <1>2, NextType, ReadType
  <1> QED
    BY <1>1, <1>2 DEF NoticeBegin

LEMMA NoticeLeaseStep ==
  ASSUME TypeOK, NEW k \in Workers, NoticeLease(k)
  PROVE  TypeOK'
  BY OtherMembers, SamePcRowType, ReadType, FailTypeOK DEF NoticeLease, At

LEMMA NotifyStep ==
  ASSUME TypeOK, NEW k \in Workers, Notify(k)
  PROVE  TypeOK'
  <1>0. /\ job[k].pc = "notify" /\ W(k) \in Works /\ StoreTypeOK /\ job[k].key \in Keys
    BY AtType DEF Notify, At, JobOK
  <1>1. CASE Read(k, [job[k] EXCEPT !.pc = "notified"])
    BY <1>0, <1>1, OtherMembers, SamePcRowType, ReadType
  <1>2. CASE CompleteAttempt(W(k), job[k].key, "blocked") /\ Goto(k, "failed")
    BY <1>0, <1>2, AttemptStatusMembers, AttemptType, PlainMembers, GotoPlainType
  <1>3. CASE Fail(k)
    BY <1>0, <1>3, FailTypeOK
  <1> QED
    BY <1>1, <1>2, <1>3 DEF Notify

LEMMA NotifiedStep ==
  ASSUME TypeOK, NEW k \in Workers, Notified(k)
  PROVE  TypeOK'
  <1>0. /\ job[k].pc = "notified" /\ W(k) \in Works /\ StoreTypeOK /\ job[k].key \in Keys
    BY AtType DEF Notified, At, JobOK
  <1>1. CASE /\ CompleteAttempt(W(k), job[k].key, "completed")
             /\ Become(k, [job[k] EXCEPT !.pc = job[k].next, !.notified = TRUE, !.key = NoKey])
    BY <1>0, <1>1, AttemptStatusMembers, AttemptType, NextType, BecomeType
  <1>2. CASE Fail(k)
    BY <1>0, <1>2, FailTypeOK
  <1> QED
    BY <1>1, <1>2 DEF Notified

LEMMA HandleStep ==
  ASSUME TypeOK, NEW k \in Workers, Handle(k)
  PROVE  TypeOK'
  BY AtType, OtherMembers, DraftPcType, ReadType, FailTypeOK DEF Handle, At

LEMMA GateStep ==
  ASSUME TypeOK, NEW k \in Workers, Gate(k)
  PROVE  TypeOK'
  <1>0. /\ job[k].pc = "gate" /\ W(k) \in Works /\ StoreTypeOK /\ job[k] \in Job
        /\ job[k].draft \in Drafts
    BY AtType, OtherMembers DEF Gate, At
  <1> DEFINE key == ApprovalKey(W(k), job[k].draft)
  <1>1. key \in Keys
    BY <1>0, WorkKeyTypes
  <1>2. ASSUME NEW pc \in {"refused", "begin_reply"},
               ConsumeReplyApproval(W(k), job[k].draft),
               Become(k, [job[k] EXCEPT !.approval = key, !.pc = pc])
        PROVE  TypeOK'
    <2> DEFINE row == [job[k] EXCEPT !.approval = key, !.pc = pc]
    <2>1. StoreTypeOK'
      BY <1>0, <1>1, <1>2, AttemptType DEF ConsumeReplyApproval
    <2>2. pc \in Pcs
      BY OtherMembers
    <2>3. /\ row \in Job /\ row.pc = pc /\ row.work = job[k].work /\ row.kind = job[k].kind
          /\ row.draft = job[k].draft /\ row.approval = key
      BY <1>0, <1>1, <2>2 DEF Job
    <2>4. JobOK(row)
      BY <1>0, <1>1, <2>3, AtType DEF JobOK
    <2> QED
      BY <1>2, <2>1, <2>4, BecomeType
  <1>3. CASE Read(k, [job[k] EXCEPT !.pc = "closing", !.kind = "ignore"])
    BY <1>0, <1>3, PlainMembers, DropRowType, ReadType
  <1>4. ASSUME NEW pc \in {"request", "begin_reply"}, Read(k, [job[k] EXCEPT !.pc = pc])
        PROVE  TypeOK'
    BY <1>0, <1>4, OtherMembers, DraftPcType, ReadType
  <1>5. CASE Fail(k)
    BY <1>0, <1>5, FailTypeOK
  <1> QED
    BY <1>2, <1>3, <1>4, <1>5 DEF Gate

LEMMA RequestReplyStep ==
  ASSUME TypeOK, NEW k \in Workers, RequestReply(k)
  PROVE  TypeOK'
  <1>0. /\ job[k].pc = "request" /\ W(k) \in Works /\ StoreTypeOK /\ job[k] \in Job
        /\ job[k].draft \in Drafts
    BY AtType, OtherMembers DEF RequestReply, At
  <1> DEFINE row == [job[k] EXCEPT !.pc = "closing", !.kind = "request_approval"]
  <1>1. StoreTypeOK'
    BY <1>0, WorkKeyTypes, AttemptType DEF RequestReply, RequestReplyApproval
  <1>2. row \in Job /\ row.pc = "closing" /\ row.work = job[k].work /\ row.draft = job[k].draft
    BY <1>0, PlainMembers, Members DEF Job
  <1>3. JobOK(row)
    BY <1>0, <1>2, AtType, PlainMembers, PlainOK
  <1> QED
    BY <1>1, <1>3, BecomeType DEF RequestReply

LEMMA RefuseStep ==
  ASSUME TypeOK, NEW k \in Workers, Refuse(k)
  PROVE  TypeOK'
  <1>0. /\ job[k].pc = "refused" /\ W(k) \in Works /\ StoreTypeOK /\ job[k].approval \in Keys
    BY AtType DEF Refuse, At, JobOK
  <1>1. CASE /\ CompleteAttempt(W(k), job[k].approval, "blocked")
             /\ Become(k, [job[k] EXCEPT !.pc = "closing", !.kind = "ignore"])
    BY <1>0, <1>1, AttemptStatusMembers, AttemptType, PlainMembers, DropRowType, BecomeType
  <1>2. CASE Fail(k)
    BY <1>0, <1>2, FailTypeOK
  <1> QED
    BY <1>1, <1>2 DEF Refuse

LEMMA BeginReplyStep ==
  ASSUME TypeOK, NEW k \in Workers, BeginReply(k)
  PROVE  TypeOK'
  <1>0. /\ job[k].pc = "begin_reply" /\ W(k) \in Works /\ StoreTypeOK /\ job[k] \in Job
        /\ job[k].draft \in Drafts
    BY AtType, OtherMembers DEF BeginReply, At
  <1>1. CASE /\ BeginReplyAction(W(k))
             /\ Become(k, [job[k] EXCEPT !.pc = "send", !.key = ReplyKey(W(k))])
    <2> DEFINE row == [job[k] EXCEPT !.pc = "send", !.key = ReplyKey(W(k))]
    <2>1. StoreTypeOK'
      BY <1>0, <1>1, BeginType
    <2>2. ReplyKey(W(k)) \in Keys /\ ReplyKey(W(k)).gen \in Generations
      BY <1>0, WorkKeyTypes DEF ReplyKey, Key, StoreTypeOK, WorkRow
    <2>3. /\ row \in Job /\ row.pc = "send" /\ row.work = job[k].work
          /\ row.draft = job[k].draft /\ row.key = ReplyKey(W(k))
      BY <1>0, <2>2, OtherMembers DEF Job
    <2>4. JobOK(row)
      BY <1>0, <2>2, <2>3, AtType DEF JobOK
    <2> QED
      BY <1>1, <2>1, <2>4, BecomeType
  <1>2. CASE Read(k, [job[k] EXCEPT !.pc = "replied", !.kind = "reply"])
    <2> DEFINE row == [job[k] EXCEPT !.pc = "replied", !.kind = "reply"]
    <2>1. row \in Job /\ row.pc = "replied" /\ row.work = job[k].work /\ row.draft = job[k].draft
      BY <1>0, OtherMembers, Members DEF Job
    <2>2. JobOK(row)
      BY <1>0, <2>1, AtType, OtherMembers, DraftOK
    <2> QED
      BY <1>2, <2>2, ReadType
  <1> QED
    BY <1>1, <1>2 DEF BeginReply

LEMMA SendStep ==
  ASSUME TypeOK, NEW k \in Workers, Send(k)
  PROVE  TypeOK'
  <1>0. /\ job[k].pc = "send" /\ W(k) \in Works /\ StoreTypeOK /\ job[k] \in Job
        /\ job[k].draft \in Drafts /\ job[k].key.gen \in Generations
    BY AtType DEF Send, At, JobOK
  <1>1. delivered' \in [Works -> SUBSET (Generations \X Drafts)]
    <2> DEFINE sent == <<job[k].key.gen, job[k].draft>>
    <2>1. sent \in Generations \X Drafts
      BY <1>0
    <2>2. delivered \in [Works -> SUBSET (Generations \X Drafts)]
      BY DEF TypeOK, QueueTypeOK
    <2>3. \/ delivered' = delivered
          \/ delivered' = [delivered EXCEPT ![W(k)] = @]
          \/ delivered' = [delivered EXCEPT ![W(k)] = @ \cup {sent}]
      BY DEF Send
    <2> QED
      BY <2>1, <2>2, <2>3
  <1>2. PICK pc \in {"sent", "unsent"} : job' = [job EXCEPT ![k].pc = pc]
    BY DEF Send
  <1>3. job' = [job EXCEPT ![k] = [job[k] EXCEPT !.pc = pc]]
    BY <1>2 DEF TypeOK, QueueTypeOK
  <1>4. JobOK([job[k] EXCEPT !.pc = pc])
    BY <1>0, OtherMembers, SamePcRowType
  <1>5. job' \in [Workers -> Job] /\ \A l \in Workers : JobOK(job'[l])
    BY <1>3, <1>4, JobsType
  <1>6. StoreTypeOK'
    BY <1>0, StoreUnchangedType DEF Send
  <1> QED
    BY <1>1, <1>5, <1>6 DEF Send, TypeOK, QueueTypeOK

LEMMA RecordSentStep ==
  ASSUME TypeOK, NEW k \in Workers, RecordSent(k)
  PROVE  TypeOK'
  <1>0. /\ job[k].pc = "sent" /\ W(k) \in Works /\ StoreTypeOK /\ job[k] \in Job
        /\ job[k].draft \in Drafts /\ job[k].key \in Keys
        /\ job[k].approval = NoKey \/ job[k].approval \in Keys
    BY AtType DEF RecordSent, At, JobOK, Job
  <1>1. CASE /\ CompleteAttempt(W(k), job[k].key, "completed")
             /\ Become(k, [job[k] EXCEPT !.pc = IF job[k].approval = NoKey
                                                THEN "replied" ELSE "settle", !.kind = "reply"])
    <2> DEFINE row == [job[k] EXCEPT !.pc = IF job[k].approval = NoKey
                                            THEN "replied" ELSE "settle", !.kind = "reply"]
    <2>1. StoreTypeOK'
      BY <1>0, <1>1, AttemptStatusMembers, AttemptType
    <2>2. /\ row \in Job /\ row.work = job[k].work /\ row.draft = job[k].draft
          /\ row.approval = job[k].approval /\ row.kind = "reply"
          /\ row.pc = IF job[k].approval = NoKey THEN "replied" ELSE "settle"
      BY <1>0, PlainMembers, OtherMembers, Members DEF Job
    <2>3. JobOK(row)
      BY <1>0, <2>2, AtType DEF JobOK
    <2> QED
      BY <1>1, <2>1, <2>3, BecomeType
  <1>2. CASE Fail(k)
    BY <1>0, <1>2, FailTypeOK
  <1> QED
    BY <1>1, <1>2 DEF RecordSent

LEMMA RecordUnsentStep ==
  ASSUME TypeOK, NEW k \in Workers, RecordUnsent(k)
  PROVE  TypeOK'
  <1>0. /\ job[k].pc = "unsent" /\ W(k) \in Works /\ StoreTypeOK /\ job[k] \in Job
        /\ job[k].key \in Keys
        /\ job[k].approval = NoKey \/ job[k].approval \in Keys
    BY AtType DEF RecordUnsent, At, JobOK, Job
  <1> DEFINE next == IF job[k].approval = NoKey THEN "failed" ELSE "settle"
             row == [job[k] EXCEPT !.pc = next, !.kind = "none"]
  <1>1. /\ row \in Job /\ row.work = job[k].work /\ row.approval = job[k].approval
        /\ row.kind = "none" /\ row.pc = next
    BY <1>0, PlainMembers, OtherMembers, Members DEF Job
  <1>2. JobOK(row)
    BY <1>0, <1>1, AtType DEF JobOK
  <1>3. CASE CompleteAttempt(W(k), job[k].key, "blocked") /\ Become(k, row)
    BY <1>0, <1>2, <1>3, AttemptStatusMembers, AttemptType, BecomeType
  <1>4. CASE Read(k, row)
    BY <1>2, <1>4, ReadType
  <1> QED
    BY <1>3, <1>4 DEF RecordUnsent

LEMMA SettleStep ==
  ASSUME TypeOK, NEW k \in Workers, Settle(k)
  PROVE  TypeOK'
  <1>0. /\ job[k].pc = "settle" /\ W(k) \in Works /\ StoreTypeOK /\ job[k].approval \in Keys
    BY AtType DEF Settle, At, JobOK
  <1>1. ASSUME NEW status \in {"completed", "blocked"}, NEW pc \in {"replied", "failed"},
               pc = "replied" => job[k].kind = "reply",
               CompleteAttempt(W(k), job[k].approval, status), Goto(k, pc)
        PROVE  TypeOK'
    <2>1. StoreTypeOK'
      BY <1>0, <1>1, AttemptStatusMembers, AttemptType
    <2>2. JobOK([job[k] EXCEPT !.pc = pc])
      BY <1>0, <1>1, AtType, PlainMembers, OtherMembers, PlainPcType, DraftPcType
    <2> QED
      BY <1>1, <2>1, <2>2, GotoType
  <1> QED
    BY <1>0, <1>1, FailTypeOK DEF Settle

LEMMA RepliedStep ==
  ASSUME TypeOK, NEW k \in Workers, Replied(k)
  PROVE  TypeOK'
  <1>0. job[k].pc = "replied" /\ job[k].draft \in Drafts /\ job[k] \in Job
    BY AtType, OtherMembers DEF Replied, At
  <1> DEFINE row == [job[k] EXCEPT
                !.pc = IF W(k) \in Delegated /\ ~job[k].notified THEN "notice" ELSE "closing",
                !.next = "closing"]
  <1>1. /\ row \in Job /\ row.work = job[k].work /\ row.draft = job[k].draft
        /\ row.next = "closing"
        /\ row.pc = "notice" \/ row.pc = "closing"
    BY <1>0, PlainMembers, OtherMembers DEF Job
  <1> HIDE DEF row
  <1>2. JobOK(row)
    BY <1>0, <1>1, AtType, PlainMembers, PlainOK, NoticeOK
  <1> USE DEF row
  <1> QED
    BY <1>2, ReadType DEF Replied

LEMMA ClosingStep ==
  ASSUME TypeOK, NEW k \in Workers, Closing(k)
  PROVE  TypeOK'
  <1>0. job[k].pc # "idle" /\ W(k) \in Works /\ StoreTypeOK
    BY AtType DEF Closing, At
  <1>1. CASE CompleteDelegatedInvestigation(W(k)) /\ Goto(k, "close")
    BY <1>0, <1>1, InquiryType, PlainMembers, GotoPlainType
  <1>2. CASE Read(k, [job[k] EXCEPT !.pc = "close"])
    BY <1>0, <1>2, PlainMembers, ReadPlainType
  <1>3. CASE Fail(k)
    BY <1>0, <1>3, FailTypeOK
  <1> QED
    BY <1>1, <1>2, <1>3 DEF Closing

LEMMA CloseStep ==
  ASSUME TypeOK, NEW k \in Workers, Close(k)
  PROVE  TypeOK'
  <1>0. /\ job[k].pc = "close" /\ W(k) \in Works /\ StoreTypeOK /\ job[k] \in Job
        /\ job[k].kind \in DecisionKinds
    BY AtType DEF Close, At, Job
  <1>1. CASE /\ \/ CompleteClaim(W(k), k, job[k].kind)
                \/ CompleteReplyCandidateClaim(W(k), k, job[k].kind)
             /\ Stop(k)
    BY <1>0, <1>1, CompleteClaimType, StopTypeOK
  <1>2. CASE /\ TransitionWorkReplyCandidate(W(k), k, "cancelled")
             /\ Become(k, [job[k] EXCEPT !.held = FALSE])
    <2> DEFINE row == [job[k] EXCEPT !.held = FALSE]
    <2>1. StoreTypeOK'
      BY <1>0, <1>2, CandidateType
    <2>2. /\ row \in Job /\ row.pc = "close" /\ row.work = job[k].work
          /\ row.kind = job[k].kind /\ row.draft = job[k].draft
      BY <1>0 DEF Job
    <2>3. JobOK(row)
      BY <1>0, <2>2, AtType, PlainMembers, PlainOK
    <2> QED
      BY <1>2, <2>1, <2>3, BecomeType
  <1>3. CASE Read(k, Idle)
    BY <1>3, IdleType, ReadType
  <1> QED
    BY <1>1, <1>2, <1>3 DEF Close

LEMMA FailedStep ==
  ASSUME TypeOK, NEW k \in Workers, Failed(k) \/ Permanent(k)
  PROVE  TypeOK'
  <1>0. job[k].pc # "idle" /\ W(k) \in Works /\ StoreTypeOK
    BY AtType DEF Failed, Permanent, At
  <1>1. CASE /\ MarkRetryClaim(W(k), k) \/ MarkDeadLetterClaim(W(k), k)
             /\ Goto(k, "terminal")
    BY <1>0, <1>1, MarkFailedType, PlainMembers, GotoPlainType
  <1>2. CASE Read(k, [job[k] EXCEPT !.pc = "terminal"])
    BY <1>0, <1>2, PlainMembers, ReadPlainType
  <1>3. CASE Fail(k)
    BY <1>0, <1>3, FailTypeOK
  <1> QED
    BY <1>1, <1>2, <1>3 DEF Failed, Permanent

LEMMA TerminalFailureStep ==
  ASSUME TypeOK, NEW k \in Workers, TerminalFailure(k)
  PROVE  TypeOK'
  <1>0. W(k) \in Works /\ StoreTypeOK
    BY AtType DEF TerminalFailure, At
  <1>1. StoreTypeOK'
    BY <1>0, InquiryType, StoreUnchangedType DEF TerminalFailure
  <1> QED
    BY <1>1, StopTypeOK DEF TerminalFailure

LEMMA WorkerTypeStep ==
  ASSUME TypeOK, NEW k \in Workers, WorkerStep(k)
  PROVE  TypeOK'
  BY ClaimStep, InspectStep, RouteStep, ResolveStep, DeferStep, InquireStep, StageBeginStep,
     StageSendStep, StageRecordStep, InvestigateStep, HeldStep, StartRunStep, CallShellStep,
     RunShellStep, RecordShellStep, DecideStep, SaveCandidateStep, FinalResolveStep,
     FinalizeStep, FinishStep, PreflightStep, NoticeBeginStep, NoticeLeaseStep, NotifyStep,
     NotifiedStep, HandleStep, GateStep, RequestReplyStep, RefuseStep, BeginReplyStep, SendStep,
     RecordSentStep, RecordUnsentStep, SettleStep, RepliedStep, ClosingStep, CloseStep,
     FailedStep, TerminalFailureStep, FalterStep
     DEF WorkerStep

-----------------------------------------------------------------------------
(* Type correctness: the daemon and the operator.                           *)

LEMMA DaemonTypeStep ==
  ASSUME TypeOK, DaemonStep
  PROVE  TypeOK'
  <1> USE DEF Phase
  <1>0. StoreTypeOK
    BY DEF TypeOK
  <1>1. ASSUME NEW pc \in DaemonPcs, Phase(pc), StoreTypeOK'
        PROVE  TypeOK'
    BY <1>1 DEF TypeOK, QueueTypeOK
  <1>2. CASE Start \/ MarkReady \/ Converge \/ Shutdown \/ StopSession
    <2>1. StoreTypeOK'
      BY <1>0, <1>2, SessionType, ConvergeType, StoreUnchangedType
         DEF Start, MarkReady, Converge, Shutdown, StopSession
    <2> QED
      BY <1>1, <1>2, <2>1 DEF Start, MarkReady, Converge, Shutdown, StopSession, DaemonPcs
  <1>3. CASE ListPriorWork
    <2>1. StoreTypeOK'
      BY <1>0, <1>3, ReadmitType DEF ListPriorWork
    <2>2. PriorWork \subseteq Works
      BY DEF PriorWork
    <2> QED
      BY <1>3, <2>1, <2>2 DEF ListPriorWork, TypeOK, QueueTypeOK, DaemonPcs
  <1>4. CASE ListCurrentWork
    <2>1. StoreTypeOK'
      BY <1>0, <1>4, StoreUnchangedType DEF ListCurrentWork
    <2>2. CurrentWork \subseteq Works
      BY DEF CurrentWork
    <2> QED
      BY <1>4, <2>1, <2>2 DEF ListCurrentWork, TypeOK, QueueTypeOK, DaemonPcs
  <1>5. CASE Interrupt
    <2>1. daemon.listed \in SUBSET Works
      BY DEF TypeOK, QueueTypeOK
    <2>2. StoreTypeOK'
      BY <1>0, <1>5, <2>1, InterruptType DEF Interrupt
    <2>3. doubt' \in [Works -> SUBSET Keys]
      BY <1>5 DEF Interrupt, TypeOK, QueueTypeOK
    <2>4. daemon' \in [pc : DaemonPcs, listed : SUBSET Works]
      BY <1>5 DEF Interrupt, DaemonPcs
    <2> QED
      BY <1>5, <2>2, <2>3, <2>4 DEF Interrupt, TypeOK, QueueTypeOK
  <1>6. CASE Crash
    <2>1. StoreTypeOK'
      BY <1>0, <1>6, StoreUnchangedType DEF Crash
    <2>2. daemon' \in [pc : DaemonPcs, listed : SUBSET Works]
      BY <1>6 DEF Crash, DaemonPcs
    <2>3. job' \in [Workers -> Job] /\ \A k \in Workers : JobOK(job'[k])
      BY <1>6, IdleType DEF Crash, JobOK
    <2> QED
      BY <1>6, <2>1, <2>2, <2>3 DEF Crash, TypeOK, QueueTypeOK
  <1> QED
    BY <1>2, <1>3, <1>4, <1>5, <1>6 DEF DaemonStep

LEMMA ApprovableKeys == Approvable \subseteq Keys
  BY DEF Approvable, Keys

LEMMA OpenedAreSessions ==
  ASSUME StoreTypeOK
  PROVE  OpenedSessions \subseteq SessionIds
  <1>1. session \in 1..MaxSessions /\ MaxSessions \in Nat
    BY StoreBounds DEF StoreTypeOK, SessionIds
  <1> QED
    BY <1>1 DEF OpenedSessions, SessionIds

LEMMA OperatorTypeStep ==
  ASSUME TypeOK, NEW w \in Works, OperatorStep(w)
  PROVE  TypeOK'
  <1>0. StoreTypeOK
    BY DEF TypeOK
  <1>1. ASSUME Command, StoreTypeOK', strays' \subseteq Works,
               approved' \in [Works -> SUBSET (Generations \X Drafts)]
        PROVE  TypeOK'
    <2>1. commands' \in 0..MaxCommands
      BY <1>1, QueueParameters DEF Command, TypeOK, QueueTypeOK
    <2> QED
      BY <1>1, <2>1 DEF Command, TypeOK, QueueTypeOK
  <1>2. CASE DecideApproval(w)
    <2>1. PICK key \in Approvable, approve \in BOOLEAN :
            /\ DecideAction(w, key, approve)
            /\ approved' = IF approve /\ key \in ApprovalKeys
                           THEN [approved EXCEPT ![w] = @ \cup {<<key.gen, key.item>>}]
                           ELSE approved
            /\ strays' = strays
            /\ Command
      BY <1>2 DEF DecideApproval
    <2>2. StoreTypeOK'
      BY <1>0, <2>1, ApprovableKeys, DecideType
    <2>3. key \in ApprovalKeys => <<key.gen, key.item>> \in Generations \X Drafts
      BY DEF ApprovalKeys, Key
    <2>4. approved' \in [Works -> SUBSET (Generations \X Drafts)]
      BY <2>1, <2>3 DEF TypeOK, QueueTypeOK
    <2>5. strays' \subseteq Works
      BY <2>1 DEF TypeOK, QueueTypeOK
    <2> QED
      BY <1>1, <2>1, <2>2, <2>4, <2>5
  <1>3. CASE Resume(w) \/ Cancel(w) \/ Retry(w)
    <2>1. StoreTypeOK'
      BY <1>0, <1>3, OpenedAreSessions, ResumeType, CancelType, RetryType
         DEF Resume, ResumeIn, Cancel, Retry
    <2>2. /\ approved' \in [Works -> SUBSET (Generations \X Drafts)]
          /\ strays' \subseteq Works
          /\ Command
      BY <1>3 DEF Resume, ResumeIn, Cancel, Retry, TypeOK, QueueTypeOK
    <2> QED
      BY <1>1, <2>1, <2>2
  <1> QED
    BY <1>2, <1>3 DEF OperatorStep

LEMMA InitType == Init => TypeOK
  <1> SUFFICES ASSUME Init PROVE TypeOK
    OBVIOUS
  <1>1. StoreTypeOK
    BY StoreInitType DEF Init
  <1>2. daemon \in [pc : DaemonPcs, listed : SUBSET Works]
    BY DEF Init, DaemonPcs
  <1>3. job \in [Workers -> Job] /\ \A k \in Workers : JobOK(job[k])
    BY IdleType DEF Init, JobOK
  <1>4. runs \in [Works -> [Commands -> Nat]] /\ commands \in 0..MaxCommands
    BY QueueParameters DEF Init
  <1>5. /\ delivered \in [Works -> SUBSET (Generations \X Drafts)]
        /\ approved \in [Works -> SUBSET (Generations \X Drafts)]
        /\ doubt \in [Works -> SUBSET Keys]
        /\ strays \subseteq Works
    BY DEF Init
  <1> QED
    BY <1>1, <1>2, <1>3, <1>4, <1>5 DEF TypeOK, QueueTypeOK

LEMMA TypeStep == TypeOK /\ [Next]_vars => TypeOK'
  <1> SUFFICES ASSUME TypeOK, [Next]_vars PROVE TypeOK'
    OBVIOUS
  <1>1. CASE Next
    BY <1>1, WorkerTypeStep, DaemonTypeStep, OperatorTypeStep DEF Next
  <1>2. CASE UNCHANGED vars
    <2>1. StoreTypeOK'
      BY <1>2, StoreUnchangedType DEF TypeOK, vars
    <2> QED
      BY <1>2, <2>1 DEF TypeOK, QueueTypeOK, vars, queueVars
  <1> QED
    BY <1>1, <1>2

(* The store and every worker stay well typed, and a worker only reaches a   *)
(* step with what the step uses: the work item, the draft it sends, the      *)
(* audit row it completes (all of RunOnce and the Store methods it calls).   *)
THEOREM TypeCorrect == Spec => []TypeOK
  BY InitType, TypeStep, PTL DEF Spec

-----------------------------------------------------------------------------
(* The audit rows: what no step may do to a row that was started.           *)

Used == {"executing", "completed", "cancelled", "blocked"}
Untouched == {"none", "blocked", "cancelled"}

(* A started or settled row never returns to what precedes its execution, a  *)
(* completed one stays completed, and the row that tells the owner to        *)
(* resolve is neither executed nor completed here.                           *)
Lawful(key, old, new) ==
  /\ old \in Used => new \in Used
  /\ old = "completed" /\ key # RequiredKey => new = "completed"
  /\ key = RequiredKey /\ old \in Untouched => new \in Untouched

LawfulStep == \A w \in Works, key \in Keys : Lawful(key, attempts[w][key], attempts'[w][key])

LEMMA SameLawful == UNCHANGED attempts => LawfulStep
  BY DEF LawfulStep, Lawful

LEMMA MoveLawful ==
  ASSUME StoreTypeOK, NEW w \in Works, NEW key \in Keys, NEW status,
         attempts' = [attempts EXCEPT ![w][key] = status],
         Lawful(key, attempts[w][key], status)
  PROVE  LawfulStep
  BY DEF StoreTypeOK, LawfulStep, Lawful

LEMMA DistinctKeys ==
  /\ \A g, d : Key("reply", g, d) # RequiredKey /\ Key("approval", g, d) # RequiredKey
               /\ Key("owner_notification", g, d) # RequiredKey /\ Key("shell", g, d) # RequiredKey
               /\ Key("investigation_owner_notice", g, d) # RequiredKey
               /\ Key("investigation_progress", g, d) # RequiredKey
  /\ CancelKey # RequiredKey
  BY DEF Key, RequiredKey, CancelKey

LEMMA CompleteLawful ==
  ASSUME StoreTypeOK, NEW w \in Works, NEW key \in Keys, NEW status \in {"completed", "blocked"},
         CompleteAttempt(w, key, status)
  PROVE  LawfulStep
  BY MoveLawful DEF CompleteAttempt, SetAttempt, Move, Lawful, Used, Untouched

LEMMA RequestLawful ==
  ASSUME StoreTypeOK, NEW w \in Works, NEW key \in Keys \ {RequiredKey}, RequestAttempt(w, key)
  PROVE  LawfulStep
  BY MoveLawful, SameLawful
     DEF RequestAttempt, SetAttempt, Move, storeVars, Lawful, Used, Untouched

LEMMA ConsumeLawful ==
  ASSUME StoreTypeOK, NEW w \in Works, NEW key \in Keys, ConsumeAttempt(w, key)
  PROVE  LawfulStep
  BY MoveLawful DEF ConsumeAttempt, SetAttempt, Move, Lawful, Used, Untouched

LEMMA BeginLawful ==
  ASSUME StoreTypeOK, NEW w \in Works, NEW k \in Workers,
         \/ BeginReplyAction(w)
         \/ \E c \in Commands : BeginShellAction(w, c)
         \/ \E d \in Drafts : \/ BeginPostReplyNotification(w, d)
                             \/ BlockReadyReplyApprovalClaim(w, k, d)
         \/ \E kind \in {"investigation_owner_notice", "investigation_progress"} :
               BeginInvestigationMessageAction(w, kind)
  PROVE  LawfulStep
  <1>1. PICK key \in Keys \ {RequiredKey}, status \in {"executing", "blocked"} :
          SetAttempt(w, key, status) /\ attempts[w][key] # "completed"
    BY WorkKeyTypes, KeyTypes, DistinctKeys
       DEF BeginReplyAction, BeginShellAction, BeginPostReplyNotification, ReplyKey, ShellKey,
           NoticeKey, ApprovalKey, StageKey,
           BlockReadyReplyApprovalClaim, BeginInvestigationMessageAction
  <1> QED
    BY <1>1, MoveLawful DEF SetAttempt, Move, Lawful, Used

LEMMA DeferLawful ==
  ASSUME StoreTypeOK, NEW w \in Works, NEW k \in Workers, DeferWaitingUserClaim(w, k)
  PROVE  LawfulStep
  <1>1. \/ UNCHANGED attempts
        \/ attempts' = [attempts EXCEPT ![w][RequiredKey] = "blocked"]
    BY DEF DeferWaitingUserClaim
  <1>2. Lawful(RequiredKey, attempts[w][RequiredKey], "blocked")
    BY DEF Lawful, Used, Untouched
  <1> QED
    BY <1>1, <1>2, KeyTypes, MoveLawful, SameLawful

(* The steps of a worker that touch no audit row.                           *)
LEMMA AuditFree ==
  ASSUME NEW k \in Workers,
         \/ Claim(k) \/ Inspect(k) \/ Route(k) \/ Falter(k) \/ Resolve(k) \/ Inquire(k)
         \/ StageSend(k) \/ Investigate(k) \/ Held(k) \/ StartRun(k) \/ RunShell(k) \/ Decide(k)
         \/ SaveCandidate(k) \/ FinalResolve(k) \/ Finalize(k) \/ Preflight(k) \/ NoticeLease(k)
         \/ Handle(k) \/ Send(k) \/ Replied(k) \/ Closing(k) \/ Close(k) \/ Failed(k)
         \/ Permanent(k) \/ TerminalFailure(k)
  PROVE  UNCHANGED attempts
  <1> USE DEF Read, Fail, storeVars
  <1>1. CASE \/ Inspect(k) \/ Route(k) \/ Falter(k) \/ Resolve(k) \/ StageSend(k) \/ Decide(k)
             \/ Preflight(k) \/ NoticeLease(k) \/ Handle(k) \/ Replied(k) \/ RunShell(k) \/ Send(k)
    BY <1>1 DEF Inspect, Route, Falter, Resolve, StageSend, Decide, Preflight, NoticeLease,
                Handle, Replied, RunShell, Send
  <1>2. CASE \/ Inquire(k) \/ Investigate(k) \/ Finalize(k) \/ Closing(k) \/ TerminalFailure(k)
    BY <1>2 DEF Inquire, Investigate, Finalize, Closing, TerminalFailure, SetInquiry,
                BeginDelegatedInvestigation, MarkDelegatedInvestigationFinalizing,
                CompleteDelegatedInvestigation, BlockDelegatedInvestigation
  <1>3. CASE \/ Held(k) \/ SaveCandidate(k) \/ FinalResolve(k)
    BY <1>3 DEF Held, SaveCandidate, FinalResolve, SaveWorkReplyCandidate,
                TransitionWorkReplyCandidate, SetCandidate
  <1>4. CASE \/ Claim(k) \/ StartRun(k) \/ Close(k) \/ Failed(k) \/ Permanent(k)
    BY <1>4 DEF Claim, StartRun, Close, Failed, Permanent, ClaimNextForLane, StartAgentRun,
                CompleteClaim, CompleteReplyCandidateClaim, TransitionWorkReplyCandidate,
                SetCandidate, MarkRetryClaim, MarkDeadLetterClaim, SetWork
  <1> QED
    BY <1>1, <1>2, <1>3, <1>4

LEMMA WorkerLawful ==
  ASSUME TypeOK, NEW k \in Workers, WorkerStep(k)
  PROVE  LawfulStep
  <1> USE DEF Read, Fail, storeVars
  <1>0. StoreTypeOK
    BY DEF TypeOK
  <1>1. CASE \/ Claim(k) \/ Inspect(k) \/ Route(k) \/ Falter(k) \/ Resolve(k) \/ Inquire(k)
             \/ StageSend(k) \/ Investigate(k) \/ Held(k) \/ StartRun(k) \/ RunShell(k)
             \/ Decide(k) \/ SaveCandidate(k) \/ FinalResolve(k) \/ Finalize(k) \/ Preflight(k)
             \/ NoticeLease(k) \/ Handle(k) \/ Send(k) \/ Replied(k) \/ Closing(k) \/ Close(k)
             \/ Failed(k) \/ Permanent(k) \/ TerminalFailure(k)
    BY <1>1, AuditFree, SameLawful
  <1>2. CASE Defer(k)
    BY <1>0, <1>2, AtType, DeferLawful, SameLawful DEF Defer, At
  <1>3. CASE StageBegin(k)
    <2>1. /\ W(k) \in Works
          /\ job[k].key.kind \in {"investigation_owner_notice", "investigation_progress"}
      BY <1>3, AtType DEF StageBegin, At, JobOK
    <2>2. StageKey(W(k), job[k].key.kind).kind = job[k].key.kind
      BY <1>0, <2>1, StageKeyType
    <2> QED
      BY <1>0, <1>3, <2>1, <2>2, BeginLawful, SameLawful DEF StageBegin
  <1>4. CASE StageRecord(k) \/ RecordShell(k) \/ Notify(k) \/ Notified(k) \/ RecordSent(k) \/ RecordUnsent(k)
    <2>1. W(k) \in Works /\ job[k].key \in Keys
      BY <1>4, AtType DEF StageRecord, RecordShell, Notify, Notified, RecordSent, RecordUnsent,
                          At, JobOK
    <2>2. \/ UNCHANGED attempts
          \/ \E status \in {"completed", "blocked"} : CompleteAttempt(W(k), job[k].key, status)
      BY <1>4 DEF StageRecord, RecordShell, Notify, Notified, RecordSent, RecordUnsent
    <2> QED
      BY <1>0, <2>1, <2>2, CompleteLawful, SameLawful
  <1>5. CASE Refuse(k) \/ Settle(k)
    <2>1. W(k) \in Works /\ job[k].approval \in Keys
      BY <1>5, AtType DEF Refuse, Settle, At, JobOK
    <2>2. \/ UNCHANGED attempts
          \/ \E status \in {"completed", "blocked"} : CompleteAttempt(W(k), job[k].approval, status)
      BY <1>5 DEF Refuse, Settle
    <2> QED
      BY <1>0, <2>1, <2>2, CompleteLawful, SameLawful
  <1>6. CASE CallShell(k)
    <2>1. W(k) \in Works
      BY <1>6, AtType DEF CallShell, At
    <2>2. PICK c \in Commands : \/ ConsumeAttempt(W(k), ShellKey(c))
                                \/ BeginShellAction(W(k), c)
                                \/ RequestAttempt(W(k), ShellKey(c))
      BY <1>6 DEF CallShell, ConsumeShellApproval, RequestShellApproval
    <2>3. ShellKey(c) \in Keys \ {RequiredKey}
      BY KeyTypes, DistinctKeys DEF ShellKey
    <2> QED
      BY <1>0, <2>1, <2>2, <2>3, ConsumeLawful, BeginLawful, RequestLawful
  <1>7. CASE Finish(k)
    <2>1. W(k) \in Works
      BY <1>7, AtType DEF Finish, At
    <2>2. \/ UNCHANGED attempts
          \/ \E d \in Drafts : BlockReadyReplyApprovalClaim(W(k), k, d)
      BY <1>7 DEF Finish, ApprovedDrafts
    <2> QED
      BY <1>0, <2>1, <2>2, BeginLawful, SameLawful
  <1>8. CASE NoticeBegin(k) \/ BeginReply(k)
    <2>1. W(k) \in Works /\ (NoticeBegin(k) => job[k].draft \in Drafts)
      BY <1>8, AtType DEF NoticeBegin, BeginReply, At, JobOK
    <2>2. \/ UNCHANGED attempts
          \/ BeginReplyAction(W(k))
          \/ NoticeBegin(k) /\ BeginPostReplyNotification(W(k), job[k].draft)
      BY <1>8 DEF NoticeBegin, BeginReply
    <2> QED
      BY <1>0, <2>1, <2>2, BeginLawful, SameLawful
  <1>9. CASE Gate(k) \/ RequestReply(k)
    <2>1. W(k) \in Works /\ job[k].draft \in Drafts
      BY <1>9, AtType DEF Gate, RequestReply, At, JobOK
    <2>2. ApprovalKey(W(k), job[k].draft) \in Keys \ {RequiredKey}
      BY <1>0, <2>1, WorkKeyTypes, DistinctKeys DEF ApprovalKey
    <2>3. \/ UNCHANGED attempts
          \/ ConsumeAttempt(W(k), ApprovalKey(W(k), job[k].draft))
          \/ RequestAttempt(W(k), ApprovalKey(W(k), job[k].draft))
      BY <1>9 DEF Gate, RequestReply, ConsumeReplyApproval, RequestReplyApproval
    <2> QED
      BY <1>0, <2>1, <2>2, <2>3, ConsumeLawful, RequestLawful, SameLawful
  <1> QED
    BY <1>1, <1>2, <1>3, <1>4, <1>5, <1>6, <1>7, <1>8, <1>9 DEF WorkerStep

LEMMA DaemonLawful ==
  ASSUME TypeOK, DaemonStep
  PROVE  LawfulStep
  <1>1. CASE Interrupt
    <2>1. \A w \in Works, key \in Keys :
            \/ attempts'[w][key] = attempts[w][key]
            \/ attempts[w][key] = "executing" /\ attempts'[w][key] = "blocked"
      <3> TAKE w \in Works, key \in Keys
      <3>1. attempts'[w] = IF w \in daemon.listed
                           THEN [x \in Keys |-> IF attempts[w][x] = "executing"
                                                THEN "blocked" ELSE attempts[w][x]]
                           ELSE attempts[w]
        BY <1>1 DEF Interrupt, InterruptSessionWork
      <3>2. w \in daemon.listed =>
              attempts'[w][key] = IF attempts[w][key] = "executing" THEN "blocked"
                                                                  ELSE attempts[w][key]
        BY <3>1, Zenon
      <3>3. w \notin daemon.listed => attempts'[w][key] = attempts[w][key]
        BY <3>1
      <3> QED
        BY <3>2, <3>3
    <2> QED
      BY <2>1 DEF LawfulStep, Lawful, Used, Untouched
  <1>2. CASE ~Interrupt
    <2>1. UNCHANGED attempts
      BY <1>2 DEF DaemonStep, Start, ListPriorWork, ListCurrentWork, MarkReady, Converge, Shutdown,
             StopSession, Crash, CreateOnlineSession, SetSession, ReadmitPristineWaiting,
             MarkCurrentSessionReady, ConvergeInterruptedWork, StopCurrentSession, storeVars
    <2> QED
      BY <2>1, SameLawful
  <1> QED
    BY <1>1, <1>2

LEMMA OperatorLawful ==
  ASSUME TypeOK, NEW w \in Works, OperatorStep(w)
  PROVE  LawfulStep
  <1>0. StoreTypeOK
    BY DEF TypeOK
  <1>1. CASE DecideApproval(w)
    <2>1. PICK key \in Approvable, approve \in BOOLEAN : DecideAction(w, key, approve)
      BY <1>1 DEF DecideApproval
    <2>2. key \in Keys /\ key # RequiredKey
      BY ApprovableKeys, DistinctKeys DEF Approvable, ApprovalKeys, ShellKeys
    <2>3. attempts[w][key] = "awaiting_approval"
          /\ attempts' = [attempts EXCEPT ![w][key] = IF approve THEN "ready" ELSE "cancelled"]
      BY <2>1 DEF DecideAction
    <2> QED
      BY <1>0, <2>2, <2>3, MoveLawful DEF Lawful, Used
  <1>2. CASE Resume(w)
    <2>1. \A key \in Keys : \/ attempts'[w][key] = attempts[w][key]
                            \/ attempts[w][key] # "completed" /\ attempts'[w][key] = "cancelled"
      <3> DEFINE Stale(key) ==
                   \/ /\ key.kind \in {"owner_resolution_required"} \cup ResolutionKinds
                      /\ attempts[w][key] = "blocked"
                   \/ /\ key.kind \in CommunicationKinds /\ key.gen = work[w].gen
                      /\ attempts[w][key] \in {"awaiting_approval", "ready", "blocked"}
      <3>1. attempts' = [attempts EXCEPT ![w] = [key \in Keys |-> IF Stale(key) THEN "cancelled"
                                                                 ELSE attempts[w][key]]]
        BY <1>2 DEF Resume, ResumeIn, ResumeWork
      <3>2. attempts'[w] = [key \in Keys |-> IF Stale(key) THEN "cancelled" ELSE attempts[w][key]]
        BY <1>0, <3>1 DEF StoreTypeOK
      <3>3. \A key \in Keys : Stale(key) => attempts[w][key] # "completed"
        OBVIOUS
      <3> HIDE DEF Stale
      <3>4. \A key \in Keys : attempts'[w][key] = IF Stale(key) THEN "cancelled"
                                                             ELSE attempts[w][key]
        BY <3>2, Zenon
      <3> QED
        BY <3>3, <3>4
    <2>2. \A v \in Works \ {w} : attempts'[v] = attempts[v]
      BY <1>0, <1>2 DEF Resume, ResumeIn, ResumeWork, StoreTypeOK
    <2> QED
      BY <2>1, <2>2 DEF LawfulStep, Lawful, Used, Untouched
  <1>3. CASE Cancel(w)
    <2>1. \A key \in Keys : \/ attempts'[w][key] = attempts[w][key]
                            \/ key = CancelKey /\ attempts'[w][key] = "completed"
                            \/ attempts[w][key] # "completed" /\ attempts'[w][key] = "cancelled"
      <3>1. attempts' = [attempts EXCEPT ![w] =
                           [key \in Keys |->
                              IF key = CancelKey THEN "completed"
                              ELSE IF attempts[w][key] \in {"awaiting_approval", "ready"}
                              THEN "cancelled" ELSE attempts[w][key]]]
        BY <1>3 DEF Cancel, CancelWork
      <3>2. attempts'[w] = [key \in Keys |->
                              IF key = CancelKey THEN "completed"
                              ELSE IF attempts[w][key] \in {"awaiting_approval", "ready"}
                              THEN "cancelled" ELSE attempts[w][key]]
        BY <1>0, <3>1 DEF StoreTypeOK
      <3>3. \A key \in Keys :
              attempts'[w][key] = IF key = CancelKey THEN "completed"
                                  ELSE IF attempts[w][key] \in {"awaiting_approval", "ready"}
                                  THEN "cancelled" ELSE attempts[w][key]
        BY <3>2, Zenon
      <3> QED
        BY <3>3
    <2>2. \A v \in Works \ {w} : attempts'[v] = attempts[v]
      BY <1>0, <1>3 DEF Cancel, CancelWork, StoreTypeOK
    <2> QED
      BY <2>1, <2>2, DistinctKeys DEF LawfulStep, Lawful, Used, Untouched
  <1>4. CASE Retry(w)
    BY <1>4, SameLawful DEF Retry, RetryWorkItem, SetWork
  <1> QED
    BY <1>1, <1>2, <1>3, <1>4 DEF OperatorStep

LEMMA StepLawful == TypeOK /\ [Next]_vars => LawfulStep
  <1> SUFFICES ASSUME TypeOK, [Next]_vars PROVE LawfulStep
    OBVIOUS
  <1>1. CASE Next
    BY <1>1, WorkerLawful, DaemonLawful, OperatorLawful DEF Next
  <1>2. CASE UNCHANGED vars
    BY <1>2, SameLawful DEF vars, storeVars
  <1> QED
    BY <1>1, <1>2

NeverResolved == \A w \in Works : attempts[w][RequiredKey] \in Untouched

(* A result that was recorded is final: whatever crashes, retries, resumes   *)
(* and operator commands come, a completed audit row stays completed.        *)
THEOREM CompletedIsFinal == Spec => ResultsAreFinal
  <1>1. Init => NeverResolved
    <2> SUFFICES ASSUME Init, NEW w \in Works PROVE attempts[w][RequiredKey] = "none"
      BY DEF NeverResolved, Untouched
    <2> QED
      BY KeyTypes DEF Init, StoreInit
  <1>2. NeverResolved /\ TypeOK /\ [Next]_vars => NeverResolved'
    BY StepLawful, KeyTypes DEF NeverResolved, LawfulStep, Lawful
  <1>3. NeverResolved /\ TypeOK /\ [Next]_vars
        => [\A w \in Works, key \in Keys :
              attempts[w][key] = "completed" => attempts'[w][key] = "completed"]_vars
    <2> SUFFICES ASSUME NeverResolved, TypeOK, [Next]_vars,
                        NEW w \in Works, NEW key \in Keys, attempts[w][key] = "completed"
                 PROVE  attempts'[w][key] = "completed"
      OBVIOUS
    <2>1. key # RequiredKey
      BY DEF NeverResolved, Untouched
    <2> QED
      BY <2>1, StepLawful DEF LawfulStep, Lawful
  <1> QED
    BY <1>1, <1>2, <1>3, TypeCorrect, PTL DEF Spec, ResultsAreFinal

-----------------------------------------------------------------------------
(* The jobs: what a worker's step does to its own job and to the others.    *)

Frame(k) == /\ \A l \in Workers \ {k} : job'[l] = job[l]
            /\ daemon' = daemon /\ runs' = runs

(* The job goes on with the same work item and the same claim to a draft,   *)
(* and does not come to one of the steps the invariants below speak of.     *)
Apart == {"shell", "terminal", "held", "inspect"}

GoesOn(k) == /\ Frame(k)
             /\ job'[k].pc \notin Apart
             /\ job'[k].work = W(k) /\ job'[k].held = job[k].held

LEMMA NotApart ==
  /\ "failed" \notin Apart /\ "route" \notin Apart /\ "resolve" \notin Apart /\ "model" \notin Apart
  /\ "tools" \notin Apart /\ "save" \notin Apart /\ "final" \notin Apart /\ "finalizing" \notin Apart
  /\ "finish" \notin Apart /\ "preflight" \notin Apart /\ "notice" \notin Apart /\ "notice_lease" \notin Apart
  /\ "notify" \notin Apart /\ "notified" \notin Apart /\ "handle" \notin Apart /\ "gate" \notin Apart
  /\ "request" \notin Apart /\ "refused" \notin Apart /\ "begin_reply" \notin Apart /\ "send" \notin Apart
  /\ "sent" \notin Apart /\ "unsent" \notin Apart /\ "settle" \notin Apart /\ "replied" \notin Apart
  /\ "closing" \notin Apart /\ "close" \notin Apart /\ "defer" \notin Apart /\ "permanent" \notin Apart
  /\ "stage" \notin Apart /\ "stage_send" \notin Apart /\ "stage_sent" \notin Apart /\ "stage_unsent" \notin Apart
  /\ "inquire" \notin Apart /\ "investigate" \notin Apart /\ "shell_ran" \notin Apart /\ "idle" \notin Apart
  BY DEF Apart

LEMMA GoesOnBy ==
  ASSUME TypeOK, NEW k \in Workers, NEW row, Become(k, row) \/ Read(k, row),
         row.pc \notin Apart, row.work = W(k), row.held = job[k].held
  PROVE  GoesOn(k)
  BY DEF GoesOn, Frame, Read, Become, worldVars, TypeOK, QueueTypeOK

LEMMA GoesOnPc ==
  ASSUME TypeOK, NEW k \in Workers, NEW pc, pc \notin Apart,
         \/ Goto(k, pc)
         \/ Become(k, [job[k] EXCEPT !.pc = pc])
         \/ Read(k, [job[k] EXCEPT !.pc = pc])
  PROVE  GoesOn(k)
  <1> DEFINE row == [job[k] EXCEPT !.pc = pc]
  <1>1. Become(k, row)
    BY GotoIsBecome DEF Read
  <1>2. row.pc = pc /\ row.work = W(k) /\ row.held = job[k].held
    BY DEF TypeOK, QueueTypeOK, Job, W
  <1> QED
    BY <1>1, <1>2, GoesOnBy

LEMMA GoesOnFail ==
  ASSUME TypeOK, NEW k \in Workers, Fail(k)
  PROVE  GoesOn(k)
  BY GoesOnPc, NotApart DEF Fail

LEMMA GoesOnKind ==
  ASSUME TypeOK, NEW k \in Workers, NEW pc, NEW kind, pc \notin Apart,
         \/ Become(k, [job[k] EXCEPT !.pc = pc, !.kind = kind])
         \/ Read(k, [job[k] EXCEPT !.pc = pc, !.kind = kind])
         \/ Read(k, [job[k] EXCEPT !.kind = kind, !.pc = pc])
  PROVE  GoesOn(k)
  <1> DEFINE row == [job[k] EXCEPT !.pc = pc, !.kind = kind]
             wor == [job[k] EXCEPT !.kind = kind, !.pc = pc]
  <1>1. row.pc = pc /\ row.work = W(k) /\ row.held = job[k].held
    BY DEF TypeOK, QueueTypeOK, Job, W
  <1>0. wor = row
    BY DEF TypeOK, QueueTypeOK, Job
  <1>2. Become(k, row) \/ Read(k, row)
    BY <1>0
  <1> HIDE DEF row
  <1> QED
    BY <1>1, <1>2, GoesOnBy

LEMMA AfterStageGoesOn ==
  ASSUME TypeOK, NEW k \in Workers
  PROVE  /\ AfterStage(k).pc \notin Apart /\ AfterStage(k).work = W(k)
         /\ AfterStage(k).held = job[k].held
  BY DEF AfterStage, Apart, TypeOK, QueueTypeOK, Job, W

(* The steps that neither end a job nor begin one, and leave the shell and   *)
(* the reply candidate alone.                                                *)
LEMMA MostGoOn ==
  ASSUME TypeOK, NEW k \in Workers,
         \/ Route(k) \/ Falter(k) \/ Resolve(k) \/ Inquire(k) \/ StageBegin(k) \/ StageSend(k)
         \/ StageRecord(k) \/ Investigate(k) \/ StartRun(k) \/ RecordShell(k) \/ Decide(k)
         \/ Finalize(k) \/ Finish(k) \/ Preflight(k) \/ NoticeBegin(k) \/ NoticeLease(k)
         \/ Notify(k) \/ Notified(k) \/ Handle(k) \/ Gate(k) \/ RequestReply(k) \/ Refuse(k)
         \/ BeginReply(k) \/ RecordSent(k) \/ RecordUnsent(k) \/ Settle(k) \/ Replied(k)
         \/ Closing(k)
  PROVE  GoesOn(k)
  <1>0. job[k] \in Job /\ W(k) = job[k].work /\ job \in [Workers -> Job]
    BY DEF TypeOK, QueueTypeOK, W
  <1> USE NotApart
  <1>1. CASE \/ Falter(k) \/ Resolve(k) \/ StageSend(k) \/ StartRun(k) \/ Finalize(k)
             \/ NoticeLease(k) \/ Notify(k) \/ Handle(k) \/ Refuse(k) \/ Settle(k) \/ Closing(k)
    BY <1>1, GoesOnPc, GoesOnFail, GoesOnKind
       DEF Falter, Resolve, StageSend, StartRun, Finalize, NoticeLease, Notify, Handle, Refuse,
           Settle, Closing
  <1>2. CASE Route(k)
    <2>1. ASSUME NEW pc \in {"resolve", "model"}, Read(k, [job[k] EXCEPT !.pc = pc])
          PROVE  GoesOn(k)
      BY <2>1, GoesOnPc
    <2>2. ASSUME NEW kind, NEW pc \in {"model", "final", "finish"},
                 Read(k, [job[k] EXCEPT !.kind = kind, !.pc = pc])
          PROVE  GoesOn(k)
      BY <2>2, GoesOnKind
    <2> QED
      BY <1>2, <2>1, <2>2, GoesOnFail DEF Route
  <1>3. CASE Finish(k)
    <2>1. ASSUME NEW pc \in {"preflight", "handle", "closing"}, Read(k, [job[k] EXCEPT !.pc = pc])
          PROVE  GoesOn(k)
      BY <2>1, GoesOnPc
    <2>2. ASSUME NEW kind, \/ Read(k, [job[k] EXCEPT !.pc = "closing", !.kind = kind])
                           \/ Become(k, [job[k] EXCEPT !.pc = "closing", !.kind = kind])
          PROVE  GoesOn(k)
      BY <2>2, GoesOnKind
    <2> QED
      BY <1>3, <2>1, <2>2, GoesOnFail DEF Finish
  <1>4. CASE Inquire(k) \/ StageBegin(k) \/ StageRecord(k)
    <2>1. ASSUME NEW opened, NEW key,
                 Become(k, [job[k] EXCEPT !.pc = "stage", !.opened = opened, !.key = key])
          PROVE  GoesOn(k)
      <3> DEFINE row == [job[k] EXCEPT !.pc = "stage", !.opened = opened, !.key = key]
      <3>1. row.pc = "stage" /\ row.work = W(k) /\ row.held = job[k].held
        BY <1>0 DEF Job
      <3> QED
        BY <2>1, <3>1, GoesOnBy
    <2>2. ASSUME NEW key, Become(k, [job[k] EXCEPT !.pc = "stage_send", !.key = key])
          PROVE  GoesOn(k)
      <3> DEFINE row == [job[k] EXCEPT !.pc = "stage_send", !.key = key]
      <3>1. row.pc = "stage_send" /\ row.work = W(k) /\ row.held = job[k].held
        BY <1>0 DEF Job
      <3> QED
        BY <2>2, <3>1, GoesOnBy
    <2>3. ASSUME Become(k, AfterStage(k)) \/ Read(k, AfterStage(k))
          PROVE  GoesOn(k)
      BY <2>3, AfterStageGoesOn, GoesOnBy
    <2>4. ASSUME Goto(k, "failed") PROVE GoesOn(k)
      BY <2>4, GoesOnPc
    <2> QED
      BY <1>4, <2>1, <2>2, <2>3, <2>4, GoesOnFail DEF Inquire, StageBegin, StageRecord
  <1>5. CASE Investigate(k) \/ RecordShell(k)
    <2>1. ASSUME Become(k, [job[k] EXCEPT !.pc = "model", !.active = TRUE])
          PROVE  GoesOn(k)
      <3> DEFINE row == [job[k] EXCEPT !.pc = "model", !.active = TRUE]
      <3>1. row.pc = "model" /\ row.work = W(k) /\ row.held = job[k].held
        BY <1>0 DEF Job
      <3> QED
        BY <2>1, <3>1, GoesOnBy
    <2>2. ASSUME Become(k, [job[k] EXCEPT !.pc = "tools", !.key = NoKey])
          PROVE  GoesOn(k)
      <3> DEFINE row == [job[k] EXCEPT !.pc = "tools", !.key = NoKey]
      <3>1. row.pc = "tools" /\ row.work = W(k) /\ row.held = job[k].held
        BY <1>0 DEF Job
      <3> QED
        BY <2>2, <3>1, GoesOnBy
    <2> QED
      BY <1>5, <2>1, <2>2, GoesOnFail DEF Investigate, RecordShell
  <1>6. CASE Decide(k) \/ Preflight(k) \/ Replied(k)
    <2>1. ASSUME NEW pc \in {"finish", "save", "final"}, NEW kind, NEW d,
                 Read(k, [job[k] EXCEPT !.kind = kind, !.draft = d, !.pc = pc])
          PROVE  GoesOn(k)
      <3> DEFINE row == [job[k] EXCEPT !.kind = kind, !.draft = d, !.pc = pc]
      <3>1. row.pc = pc /\ row.work = W(k) /\ row.held = job[k].held
        BY <1>0 DEF Job
      <3> QED
        BY <2>1, <3>1, GoesOnBy
    <2>2. ASSUME NEW pc \in {"notice", "closing"}, NEW next,
                 Read(k, [job[k] EXCEPT !.pc = pc, !.next = next])
          PROVE  GoesOn(k)
      <3> DEFINE row == [job[k] EXCEPT !.pc = pc, !.next = next]
      <3>1. row.pc = pc /\ row.work = W(k) /\ row.held = job[k].held
        BY <1>0 DEF Job
      <3> QED
        BY <2>2, <3>1, GoesOnBy
    <2>3. ASSUME Read(k, [job[k] EXCEPT !.pc = "handle"]) PROVE GoesOn(k)
      BY <2>3, GoesOnPc
    <2> QED
      BY <1>6, <2>1, <2>2, <2>3, GoesOnFail DEF Decide, Preflight, Replied
  <1>7. CASE NoticeBegin(k) \/ Notified(k)
    <2>1. job[k].next \notin Apart
      BY <1>0 DEF Job
    <2>2. ASSUME NEW key, Become(k, [job[k] EXCEPT !.pc = "notice_lease", !.key = key])
          PROVE  GoesOn(k)
      <3> DEFINE row == [job[k] EXCEPT !.pc = "notice_lease", !.key = key]
      <3>1. row.pc = "notice_lease" /\ row.work = W(k) /\ row.held = job[k].held
        BY <1>0 DEF Job
      <3> QED
        BY <2>2, <3>1, GoesOnBy
    <2>3. ASSUME Read(k, [job[k] EXCEPT !.pc = job[k].next, !.notified = TRUE])
          PROVE  GoesOn(k)
      <3> DEFINE row == [job[k] EXCEPT !.pc = job[k].next, !.notified = TRUE]
      <3>1. row.pc \notin Apart /\ row.work = W(k) /\ row.held = job[k].held
        BY <1>0, <2>1 DEF Job
      <3> QED
        BY <2>3, <3>1, GoesOnBy
    <2>4. ASSUME Become(k, [job[k] EXCEPT !.pc = job[k].next, !.notified = TRUE, !.key = NoKey])
          PROVE  GoesOn(k)
      <3> DEFINE row == [job[k] EXCEPT !.pc = job[k].next, !.notified = TRUE, !.key = NoKey]
      <3>1. row.pc \notin Apart /\ row.work = W(k) /\ row.held = job[k].held
        BY <1>0, <2>1 DEF Job
      <3> QED
        BY <2>4, <3>1, GoesOnBy
    <2> QED
      BY <1>7, <2>2, <2>3, <2>4, GoesOnFail DEF NoticeBegin, Notified
  <1>8. CASE Gate(k) \/ BeginReply(k)
    <2>1. ASSUME NEW key, NEW pc \in {"refused", "begin_reply"},
                 Become(k, [job[k] EXCEPT !.approval = key, !.pc = pc])
          PROVE  GoesOn(k)
      <3> DEFINE row == [job[k] EXCEPT !.approval = key, !.pc = pc]
      <3>1. row.pc = pc /\ row.work = W(k) /\ row.held = job[k].held
        BY <1>0 DEF Job
      <3> QED
        BY <2>1, <3>1, GoesOnBy
    <2>2. ASSUME NEW key, Become(k, [job[k] EXCEPT !.pc = "send", !.key = key])
          PROVE  GoesOn(k)
      <3> DEFINE row == [job[k] EXCEPT !.pc = "send", !.key = key]
      <3>1. row.pc = "send" /\ row.work = W(k) /\ row.held = job[k].held
        BY <1>0 DEF Job
      <3> QED
        BY <2>2, <3>1, GoesOnBy
    <2>3. ASSUME NEW pc \in {"closing", "replied"}, NEW kind,
                 Read(k, [job[k] EXCEPT !.pc = pc, !.kind = kind])
          PROVE  GoesOn(k)
      BY <2>3, GoesOnKind
    <2>4. ASSUME NEW pc \in {"request", "begin_reply"}, Read(k, [job[k] EXCEPT !.pc = pc])
          PROVE  GoesOn(k)
      BY <2>4, GoesOnPc
    <2> QED
      BY <1>8, <2>1, <2>2, <2>3, <2>4, GoesOnFail DEF Gate, BeginReply
  <1>9. CASE RequestReply(k) \/ RecordSent(k) \/ RecordUnsent(k)
    <2>1. ASSUME NEW pc \in {"closing", "replied", "settle", "failed"}, NEW kind,
                 \/ Become(k, [job[k] EXCEPT !.pc = pc, !.kind = kind])
                 \/ Read(k, [job[k] EXCEPT !.pc = pc, !.kind = kind])
          PROVE  GoesOn(k)
      BY <2>1, GoesOnKind
    <2> QED
      BY <1>9, <2>1, GoesOnFail DEF RequestReply, RecordSent, RecordUnsent
  <1> QED
    BY <1>1, <1>2, <1>3, <1>4, <1>5, <1>6, <1>7, <1>8, <1>9

(* What the other steps do to the job, each in its own way.                  *)
Lands(k, row) == Frame(k) /\ job'[k] = row

LEMMA BecomeLands ==
  ASSUME TypeOK, NEW k \in Workers, NEW row, Become(k, row) \/ Read(k, row)
  PROVE  Lands(k, row)
  BY DEF Lands, Frame, Read, Become, worldVars, TypeOK, QueueTypeOK

LEMMA GotoLands ==
  ASSUME TypeOK, NEW k \in Workers, NEW pc, Goto(k, pc)
  PROVE  Lands(k, [job[k] EXCEPT !.pc = pc])
  BY GotoIsBecome, BecomeLands DEF Read

(* The job moves on, with the same work item.                                *)
Moves(k, pcs) == Frame(k) /\ job'[k].pc \in pcs /\ job'[k].work = W(k)

LEMMA MovesPc ==
  ASSUME TypeOK, NEW k \in Workers, NEW pcs, NEW pc \in pcs,
         \/ Goto(k, pc)
         \/ Become(k, [job[k] EXCEPT !.pc = pc])
         \/ Read(k, [job[k] EXCEPT !.pc = pc])
  PROVE  Moves(k, pcs) /\ job'[k].held = job[k].held
  <1>1. Lands(k, [job[k] EXCEPT !.pc = pc])
    BY GotoLands, BecomeLands
  <1>2. job[k] \in Job
    BY DEF TypeOK, QueueTypeOK
  <1> QED
    BY <1>1, <1>2 DEF Lands, Moves, Job, W

LEMMA MovesKind ==
  ASSUME TypeOK, NEW k \in Workers, NEW pcs, NEW pc \in pcs, NEW kind,
         \/ Become(k, [job[k] EXCEPT !.pc = pc, !.kind = kind])
         \/ Read(k, [job[k] EXCEPT !.pc = pc, !.kind = kind])
  PROVE  Moves(k, pcs) /\ job'[k].held = job[k].held
  <1>1. Lands(k, [job[k] EXCEPT !.pc = pc, !.kind = kind])
    BY BecomeLands
  <1>2. job[k] \in Job
    BY DEF TypeOK, QueueTypeOK
  <1> QED
    BY <1>1, <1>2 DEF Lands, Moves, Job, W

LEMMA InspectMoves ==
  ASSUME TypeOK, NEW k \in Workers, Inspect(k)
  PROVE  /\ Moves(k, {"notice", "failed", "finish", "held", "route"})
         /\ job'[k].held = job[k].held
         /\ job'[k].pc = "held" => HasCandidate(W(k))
  <1> DEFINE pcs == {"notice", "failed", "finish", "held", "route"}
             Goal == /\ Moves(k, pcs)
                     /\ job'[k].held = job[k].held
                     /\ job'[k].pc = "held" => HasCandidate(W(k))
  <1>0. job[k] \in Job
    BY DEF TypeOK, QueueTypeOK
  <1>1. ASSUME NEW d, Read(k, [job[k] EXCEPT !.pc = "notice", !.kind = "reply", !.draft = d,
                                             !.next = "close"])
        PROVE  Goal
    <2> DEFINE row == [job[k] EXCEPT !.pc = "notice", !.kind = "reply", !.draft = d,
                                     !.next = "close"]
    <2>1. Lands(k, row)
      BY <1>1, BecomeLands
    <2>2. row.pc = "notice" /\ row.work = job[k].work /\ row.held = job[k].held
      BY <1>0 DEF Job
    <2> HIDE DEF row
    <2> QED
      BY <1>1, <2>1, <2>2 DEF Lands, Moves, W
  <1>2. ASSUME NEW d, Read(k, [job[k] EXCEPT !.pc = "finish", !.granted = TRUE,
                                             !.kind = "reply", !.draft = d])
        PROVE  Goal
    <2> DEFINE row == [job[k] EXCEPT !.pc = "finish", !.granted = TRUE,
                                     !.kind = "reply", !.draft = d]
    <2>1. Lands(k, row)
      BY <1>2, BecomeLands
    <2>2. row.pc = "finish" /\ row.work = job[k].work /\ row.held = job[k].held
      BY <1>0 DEF Job
    <2> HIDE DEF row
    <2> QED
      BY <1>2, <2>1, <2>2 DEF Lands, Moves, W
  <1>3. ASSUME NEW d, NEW pc \in {"held", "route"}, pc = "held" => HasCandidate(W(k)),
               Read(k, [job[k] EXCEPT !.pc = pc, !.draft = d])
        PROVE  Goal
    <2> DEFINE row == [job[k] EXCEPT !.pc = pc, !.draft = d]
    <2>1. Lands(k, row)
      BY <1>3, BecomeLands
    <2>2. row.pc = pc /\ row.work = job[k].work /\ row.held = job[k].held
      BY <1>0 DEF Job
    <2> HIDE DEF row
    <2> QED
      BY <1>3, <2>1, <2>2 DEF Lands, Moves, W
  <1>4. ASSUME Fail(k) PROVE Goal
    <2>1. Moves(k, {"failed"}) /\ job'[k].held = job[k].held
      BY <1>4, MovesPc DEF Fail
    <2> QED
      BY <2>1 DEF Moves
  <1> QED
    BY <1>1, <1>2, <1>3, <1>4 DEF Inspect

LEMMA HeldMoves ==
  ASSUME TypeOK, NEW k \in Workers, Held(k)
  PROVE  /\ Moves(k, {"defer", "permanent", "finish", "failed"})
         /\ \/ job'[k].held = job[k].held
            \/ UNCHANGED storeVars
  <1> DEFINE pcs == {"defer", "permanent", "finish", "failed"}
  <1>1. ASSUME NEW pc \in {"defer", "permanent"}, Become(k, [job[k] EXCEPT !.pc = pc])
        PROVE  Moves(k, pcs) /\ job'[k].held = job[k].held
    BY <1>1, MovesPc
  <1>2. ASSUME NEW kind, Become(k, [job[k] EXCEPT !.pc = "finish", !.kind = kind])
        PROVE  Moves(k, pcs) /\ job'[k].held = job[k].held
    BY <1>2, MovesKind
  <1>3. CASE Read(k, [job[k] EXCEPT !.pc = "finish", !.kind = "reply", !.held = TRUE])
    <2> DEFINE row == [job[k] EXCEPT !.pc = "finish", !.kind = "reply", !.held = TRUE]
    <2>1. Lands(k, row)
      BY <1>3, BecomeLands
    <2>2. row.pc = "finish" /\ row.work = job[k].work
      BY DEF Job, TypeOK, QueueTypeOK
    <2>3. UNCHANGED storeVars
      BY <1>3 DEF Read
    <2> HIDE DEF row
    <2> QED
      BY <2>1, <2>2, <2>3 DEF Lands, Moves, W
  <1>4. CASE Fail(k)
    BY <1>4, MovesPc DEF Fail
  <1> QED
    BY <1>1, <1>2, <1>3, <1>4 DEF Held

LEMMA SaveCandidateMoves ==
  ASSUME TypeOK, NEW k \in Workers, SaveCandidate(k)
  PROVE  /\ Moves(k, {"final", "failed"})
         /\ job'[k].pc = "final" => HasCandidate(W(k))'
  <1>0. /\ job[k] \in Job /\ W(k) \in Works /\ candidate \in [Works -> CandidateRow]
    BY AtType DEF SaveCandidate, At, StoreTypeOK
  <1>1. CASE /\ SaveWorkReplyCandidate(W(k), k, job[k].draft)
             /\ Become(k, [job[k] EXCEPT !.pc = "final", !.held = TRUE])
    <2> DEFINE row == [job[k] EXCEPT !.pc = "final", !.held = TRUE]
    <2>1. Lands(k, row)
      BY <1>1, BecomeLands
    <2>2. row.pc = "final" /\ row.work = job[k].work
      BY <1>0 DEF Job
    <2>3. job'[k].work = W(k) /\ W(k)' = W(k)
      BY <2>1, <2>2 DEF Lands, W
    <2>4. candidate' = [candidate EXCEPT ![W(k)] = [status |-> "pending", draft |-> job[k].draft]]
      BY <1>1 DEF SaveWorkReplyCandidate, SetCandidate
    <2>5. candidate'[W(k)].status = "pending"
      BY <1>0, <2>4
    <2> QED
      BY <2>1, <2>2, <2>3, <2>5 DEF Lands, Moves, HasCandidate, LiveCandidate
  <1>2. CASE Fail(k)
    <2>1. Moves(k, {"failed"})
      BY <1>2, MovesPc DEF Fail
    <2> QED
      BY <2>1 DEF Moves
  <1> QED
    BY <1>1, <1>2 DEF SaveCandidate

LEMMA FinalResolveMoves ==
  ASSUME TypeOK, NEW k \in Workers, FinalResolve(k)
  PROVE  /\ Moves(k, {"defer", "permanent", "finalizing", "failed"})
         /\ \/ job'[k].pc # "finalizing"
            \/ job'[k].held = FALSE
            \/ job'[k].held = job[k].held /\ UNCHANGED storeVars
  <1> DEFINE pcs == {"defer", "permanent", "finalizing", "failed"}
             dropped == [job[k] EXCEPT !.pc = "finalizing", !.kind = "ignore",
                                       !.draft = NoItem, !.held = FALSE]
  <1>1. ASSUME NEW pc \in {"defer", "permanent", "failed"},
               Become(k, [job[k] EXCEPT !.pc = pc]) \/ Read(k, [job[k] EXCEPT !.pc = pc])
        PROVE  Moves(k, pcs) /\ job'[k].pc # "finalizing"
    <2>1. Moves(k, {pc})
      BY <1>1, MovesPc
    <2> QED
      BY <2>1 DEF Moves
  <1>2. ASSUME Become(k, dropped) \/ Read(k, dropped)
        PROVE  Moves(k, pcs) /\ job'[k].held = FALSE
    <2>1. Lands(k, dropped)
      BY <1>2, BecomeLands
    <2>2. dropped.pc = "finalizing" /\ dropped.work = job[k].work /\ dropped.held = FALSE
      BY DEF Job, TypeOK, QueueTypeOK
    <2> HIDE DEF dropped
    <2> QED
      BY <2>1, <2>2 DEF Lands, Moves, W
  <1>3. ASSUME Read(k, [job[k] EXCEPT !.pc = "finalizing"])
        PROVE  Moves(k, pcs) /\ job'[k].held = job[k].held /\ UNCHANGED storeVars
    BY <1>3, MovesPc DEF Read
  <1> QED
    BY <1>1, <1>2, <1>3 DEF FinalResolve, Fail

LEMMA FailedMoves ==
  ASSUME TypeOK, NEW k \in Workers, Failed(k) \/ Permanent(k) \/ Defer(k)
  PROVE  \/ Moves(k, {"terminal", "failed"}) /\ job'[k].held = job[k].held
         \/ Lands(k, Idle) /\ ~Holds(k) /\ UNCHANGED storeVars
  <1>1. ASSUME NEW pc \in {"terminal", "failed"},
               Goto(k, pc) \/ Read(k, [job[k] EXCEPT !.pc = pc])
        PROVE  Moves(k, {"terminal", "failed"}) /\ job'[k].held = job[k].held
    BY <1>1, MovesPc
  <1>2. ASSUME Read(k, Idle) PROVE Lands(k, Idle) /\ UNCHANGED storeVars
    BY <1>2, BecomeLands DEF Read
  <1> QED
    BY <1>1, <1>2 DEF Failed, Permanent, Defer, Fail

LEMMA CloseMoves ==
  ASSUME TypeOK, NEW k \in Workers, Close(k)
  PROVE  \/ /\ Lands(k, Idle)
            /\ \/ work'[W(k)].status # "processing"
               \/ ~Holds(k) /\ UNCHANGED storeVars
               \/ job[k].held /\ ~HasCandidate(W(k)) /\ UNCHANGED storeVars
         \/ Moves(k, {"close"}) /\ job'[k].held = FALSE
  <1>0. job[k].pc = "close" /\ job[k] \in Job /\ W(k) \in Works /\ work \in [Works -> WorkRow]
    BY AtType DEF Close, At, StoreTypeOK
  <1>1. CASE /\ \/ CompleteClaim(W(k), k, job[k].kind)
                \/ CompleteReplyCandidateClaim(W(k), k, job[k].kind)
             /\ Stop(k)
    <2>1. work'[W(k)].status = DecisionStatus(job[k].kind)
      <3> DEFINE row == [Unleased(work[W(k)], DecisionStatus(job[k].kind))
                           EXCEPT !.decision = job[k].kind]
      <3>1. row.status = DecisionStatus(job[k].kind)
        BY <1>0 DEF Unleased, WorkRow
      <3>2. work' = [work EXCEPT ![W(k)] = row]
        BY <1>1 DEF CompleteClaim, CompleteReplyCandidateClaim, SetWork
      <3> HIDE DEF row
      <3> QED
        BY <1>0, <3>1, <3>2
    <2>2. DecisionStatus(job[k].kind) # "processing"
      BY DEF DecisionStatus
    <2>3. Lands(k, Idle)
      BY <1>1, BecomeLands DEF Stop
    <2> QED
      BY <2>1, <2>2, <2>3
  <1>2. CASE Become(k, [job[k] EXCEPT !.held = FALSE])
    <2> DEFINE row == [job[k] EXCEPT !.held = FALSE]
    <2>1. Lands(k, row)
      BY <1>2, BecomeLands
    <2>2. row.pc = "close" /\ row.work = job[k].work /\ row.held = FALSE
      BY <1>0 DEF Job
    <2> HIDE DEF row
    <2> QED
      BY <2>1, <2>2 DEF Lands, Moves, W
  <1>3. CASE Read(k, Idle) /\ (~Holds(k) \/ (job[k].held /\ ~HasCandidate(W(k))))
    BY <1>3, BecomeLands DEF Read
  <1> QED
    BY <1>1, <1>2, <1>3 DEF Close

LEMMA OtherMoves ==
  ASSUME TypeOK, NEW k \in Workers
  PROVE  /\ TerminalFailure(k) => Lands(k, Idle)
         /\ Send(k) => (Moves(k, {"sent", "unsent"}) /\ job'[k].held = job[k].held)
  <1>1. ASSUME TerminalFailure(k) PROVE Lands(k, Idle)
    BY <1>1, BecomeLands DEF TerminalFailure, Stop
  <1>2. ASSUME Send(k)
        PROVE  Moves(k, {"sent", "unsent"}) /\ job'[k].held = job[k].held
    BY <1>2 DEF Send, Moves, Frame, TypeOK, QueueTypeOK, Job, W
  <1> QED
    BY <1>1, <1>2

LEMMA ClaimMoves ==
  ASSUME TypeOK, NEW k \in Workers, Claim(k)
  PROVE  /\ Frame(k) /\ job'[k].pc = "inspect" /\ job'[k].held = FALSE /\ job[k].pc = "idle"
         /\ daemon.pc = "running"
         /\ ClaimNextForLane(job'[k].work, k) /\ job'[k].work \in Works
  <1>1. PICK w \in Works :
          /\ ClaimNextForLane(w, k)
          /\ Become(k, [Idle EXCEPT !.pc = "inspect", !.work = w, !.active = Contextual(w)])
    BY DEF Claim
  <1> DEFINE row == [Idle EXCEPT !.pc = "inspect", !.work = w, !.active = Contextual(w)]
  <1>2. Lands(k, row)
    BY <1>1, BecomeLands
  <1>3. row.pc = "inspect" /\ row.work = w /\ row.held = FALSE
    BY DEF Idle
  <1>4. job[k].pc = "idle" /\ daemon.pc = "running"
    BY DEF Claim
  <1> HIDE DEF row
  <1> QED
    BY <1>1, <1>2, <1>3, <1>4 DEF Lands

LEMMA ShellMoves ==
  ASSUME TypeOK, NEW k \in Workers, CallShell(k)
  PROVE  /\ Moves(k, {"tools", "shell"}) /\ job'[k].held = job[k].held
         /\ \/ job'[k].pc = "tools"
            \/ \E c \in Commands : /\ job'[k].key = ShellKey(c)
                                   /\ attempts[W(k)][ShellKey(c)] \in {"none", "ready"}
                                   /\ SetAttempt(W(k), ShellKey(c), "executing")
  <1>0. job[k] \in Job
    BY DEF TypeOK, QueueTypeOK
  <1>1. ASSUME NEW c \in Commands,
               ConsumeShellApproval(W(k), c) \/ BeginShellAction(W(k), c),
               Become(k, [job[k] EXCEPT !.pc = "shell", !.key = ShellKey(c)])
        PROVE  /\ Moves(k, {"tools", "shell"}) /\ job'[k].held = job[k].held
               /\ job'[k].key = ShellKey(c)
               /\ attempts[W(k)][ShellKey(c)] \in {"none", "ready"}
               /\ SetAttempt(W(k), ShellKey(c), "executing")
    <2> DEFINE row == [job[k] EXCEPT !.pc = "shell", !.key = ShellKey(c)]
    <2>1. Lands(k, row)
      BY <1>1, BecomeLands
    <2>2. /\ row.pc = "shell" /\ row.work = job[k].work /\ row.held = job[k].held
          /\ row.key = ShellKey(c)
      BY <1>0 DEF Job
    <2> HIDE DEF row
    <2>3. Moves(k, {"tools", "shell"}) /\ job'[k].held = job[k].held /\ job'[k].key = ShellKey(c)
      BY <2>1, <2>2 DEF Lands, Moves, W
    <2> QED
      BY <1>1, <2>3 DEF ConsumeShellApproval, BeginShellAction, ConsumeAttempt
  <1>2. ASSUME Goto(k, "tools")
        PROVE  /\ Moves(k, {"tools", "shell"}) /\ job'[k].held = job[k].held
               /\ job'[k].pc = "tools"
    <2>1. Moves(k, {"tools"}) /\ job'[k].held = job[k].held
      BY <1>2, MovesPc
    <2> QED
      BY <2>1 DEF Moves
  <1> QED
    BY <1>1, <1>2 DEF CallShell

LEMMA RunMoves ==
  ASSUME TypeOK, NEW k \in Workers, RunShell(k)
  PROVE  /\ UNCHANGED storeVars /\ daemon' = daemon
         /\ \A l \in Workers \ {k} : job'[l] = job[l]
         /\ job'[k].pc = "shell_ran" /\ job'[k].work = W(k) /\ job'[k].held = job[k].held
  BY DEF RunShell, TypeOK, QueueTypeOK, Job, W

(* The worker steps that move the job on or end it, outside of the shell.    *)
LEMMA AwayFromShell ==
  ASSUME TypeOK, NEW k \in Workers, WorkerStep(k), ~CallShell(k), ~RunShell(k)
  PROVE  Frame(k) /\ job'[k].pc # "shell"
  <1>1. CASE GoesOn(k)
    BY <1>1 DEF GoesOn, Apart
  <1>2. CASE \/ Inspect(k) \/ Held(k) \/ SaveCandidate(k) \/ FinalResolve(k) \/ Send(k)
    BY <1>2, InspectMoves, HeldMoves, SaveCandidateMoves, FinalResolveMoves, OtherMoves DEF Moves
  <1>3. CASE \/ Failed(k) \/ Permanent(k) \/ Defer(k) \/ Close(k) \/ TerminalFailure(k)
    <2>1. Lands(k, Idle) => Frame(k) /\ job'[k].pc # "shell"
      BY DEF Lands, Idle
    <2>2. \A pcs : Moves(k, pcs) /\ "shell" \notin pcs => Frame(k) /\ job'[k].pc # "shell"
      BY DEF Moves
    <2>3. CASE Failed(k) \/ Permanent(k) \/ Defer(k)
      BY <2>1, <2>2, <2>3, FailedMoves
    <2>4. CASE Close(k)
      BY <2>1, <2>2, <2>4, CloseMoves
    <2>5. CASE TerminalFailure(k)
      BY <2>1, <2>5, OtherMoves
    <2> QED
      BY <1>3, <2>3, <2>4, <2>5
  <1>4. CASE Claim(k)
    BY <1>4, ClaimMoves
  <1>5. CASE \/ Route(k) \/ Falter(k) \/ Resolve(k) \/ Inquire(k) \/ StageBegin(k) \/ StageSend(k)
             \/ StageRecord(k) \/ Investigate(k) \/ StartRun(k) \/ RecordShell(k) \/ Decide(k)
             \/ Finalize(k) \/ Finish(k) \/ Preflight(k) \/ NoticeBegin(k) \/ NoticeLease(k)
             \/ Notify(k) \/ Notified(k) \/ Handle(k) \/ Gate(k) \/ RequestReply(k)
             \/ Refuse(k) \/ BeginReply(k) \/ RecordSent(k) \/ RecordUnsent(k) \/ Settle(k)
             \/ Replied(k) \/ Closing(k)
    BY <1>1, <1>5, MostGoOn
  <1> QED
    BY <1>2, <1>3, <1>4, <1>5, Zenon DEF WorkerStep

-----------------------------------------------------------------------------
(* A shell command is started at most once.                                  *)

AtShell(k, c) == job[k].pc = "shell" /\ job[k].key = ShellKey(c)

(* A command that ran has a row that no step makes startable again; one that *)
(* is about to run has such a row already, has not run, and is about to run  *)
(* in a single worker.                                                       *)
ShellInv ==
  /\ \A w \in Works, c \in Commands :
       runs[w][c] <= 1 /\ (runs[w][c] # 0 => attempts[w][ShellKey(c)] \in Used)
  /\ \A k \in Workers, c \in Commands :
       AtShell(k, c) => runs[W(k)][c] = 0 /\ attempts[W(k)][ShellKey(c)] \in Used
  /\ \A k, l \in Workers, c \in Commands :
       AtShell(k, c) /\ AtShell(l, c) /\ W(k) = W(l) => k = l

LEMMA ShellKeys1 ==
  /\ \A c \in Commands : ShellKey(c) \in Keys /\ ShellKey(c).item = c
  /\ \A c, e \in Commands : ShellKey(c) = ShellKey(e) => c = e
  BY KeyTypes DEF ShellKey, Key

LEMMA QuietShell ==
  ASSUME TypeOK, ShellInv, LawfulStep, runs' = runs,
         \A l \in Workers : job'[l] = job[l] \/ job'[l].pc # "shell"
  PROVE  ShellInv'
  <1>1. \A l \in Workers, c \in Commands :
          AtShell(l, c)' => AtShell(l, c) /\ W(l)' = W(l) /\ W(l) \in Works
    BY AtType DEF AtShell, W
  <1>2. \A w \in Works, c \in Commands :
          attempts[w][ShellKey(c)] \in Used => attempts'[w][ShellKey(c)] \in Used
    BY ShellKeys1 DEF LawfulStep, Lawful
  <1>3. (\A w \in Works, c \in Commands :
           runs[w][c] <= 1 /\ (runs[w][c] # 0 => attempts[w][ShellKey(c)] \in Used))'
    BY <1>2 DEF ShellInv, ShellKey
  <1>4. (\A k \in Workers, c \in Commands :
           AtShell(k, c) => runs[W(k)][c] = 0 /\ attempts[W(k)][ShellKey(c)] \in Used)'
    BY <1>1, <1>2 DEF ShellInv, ShellKey
  <1>5. (\A k, l \in Workers, c \in Commands :
           AtShell(k, c) /\ AtShell(l, c) /\ W(k) = W(l) => k = l)'
    BY <1>1 DEF ShellInv
  <1> QED
    BY <1>3, <1>4, <1>5 DEF ShellInv

LEMMA CallShellInv ==
  ASSUME TypeOK, ShellInv, NEW k \in Workers, CallShell(k)
  PROVE  ShellInv'
  <1>0. StoreTypeOK /\ W(k) \in Works
    BY AtType DEF CallShell, At
  <1>1. LawfulStep
    BY WorkerLawful DEF WorkerStep
  <1>2. CASE job'[k].pc = "tools"
    BY <1>1, <1>2, ShellMoves, QuietShell DEF Moves, Frame
  <1>3. ASSUME NEW c \in Commands, job'[k].key = ShellKey(c),
               attempts[W(k)][ShellKey(c)] \in {"none", "ready"},
               SetAttempt(W(k), ShellKey(c), "executing")
        PROVE  ShellInv'
    <2>1. /\ runs' = runs /\ job'[k].work = W(k) /\ W(k)' = W(k)
          /\ \A l \in Workers \ {k} : job'[l] = job[l] /\ W(l)' = W(l)
      BY ShellMoves DEF Moves, Frame, W
    <2>2. attempts'[W(k)][ShellKey(c)] = "executing"
      BY <1>0, <1>3, ShellKeys1 DEF SetAttempt, Move, StoreTypeOK
    <2>3. runs[W(k)][c] = 0
      BY <1>0, <1>3 DEF ShellInv, Used
    <2>4. \A l \in Workers : ~(AtShell(l, c) /\ W(l) = W(k))
      BY <1>3 DEF ShellInv, Used
    <2>5. \A w \in Works, e \in Commands :
            attempts[w][ShellKey(e)] \in Used => attempts'[w][ShellKey(e)] \in Used
      BY <1>1, ShellKeys1 DEF LawfulStep, Lawful
    <2>6. \A l \in Workers \ {k}, e \in Commands :
            AtShell(l, e)' => AtShell(l, e) /\ W(l) \in Works
      BY <2>1, AtType DEF AtShell
    <2>7. \A e \in Commands : AtShell(k, e)' => e = c
      BY <1>3, ShellKeys1 DEF AtShell, ShellKey
    <2>8. (\A w \in Works, e \in Commands :
             runs[w][e] <= 1 /\ (runs[w][e] # 0 => attempts[w][ShellKey(e)] \in Used))'
      BY <2>1, <2>5 DEF ShellInv, ShellKey
    <2>9. (\A l \in Workers, e \in Commands :
             AtShell(l, e) => runs[W(l)][e] = 0 /\ attempts[W(l)][ShellKey(e)] \in Used)'
      <3> SUFFICES ASSUME NEW l \in Workers, NEW e \in Commands, AtShell(l, e)'
                   PROVE  runs'[W(l)'][e] = 0 /\ attempts'[W(l)'][ShellKey(e)] \in Used
        BY DEF ShellKey
      <3>1. CASE l = k
        BY <2>1, <2>2, <2>3, <2>7, <3>1 DEF Used
      <3>2. CASE l # k
        BY <2>1, <2>5, <2>6, <3>2 DEF ShellInv
      <3> QED
        BY <3>1, <3>2
    <2>10. (\A l, m \in Workers, e \in Commands :
             AtShell(l, e) /\ AtShell(m, e) /\ W(l) = W(m) => l = m)'
      BY <2>1, <2>4, <2>6, <2>7 DEF ShellInv
    <2> QED
      BY <2>8, <2>9, <2>10 DEF ShellInv
  <1> QED
    BY <1>2, <1>3, ShellMoves

LEMMA RunShellInv ==
  ASSUME TypeOK, ShellInv, NEW k \in Workers, RunShell(k)
  PROVE  ShellInv'
  <1>0. job[k].pc = "shell" /\ W(k) \in Works /\ runs \in [Works -> [Commands -> Nat]]
    BY AtType DEF RunShell, At, TypeOK, QueueTypeOK
  <1>1. PICK c \in Commands : job[k].key = ShellKey(c)
    BY <1>0, AtType DEF JobOK
  <1>2. runs' = [runs EXCEPT ![W(k)][c] = @ + 1]
    BY <1>1, ShellKeys1 DEF RunShell
  <1>3. AtShell(k, c)
    BY <1>0, <1>1 DEF AtShell
  <1>4. runs'[W(k)][c] = 1 /\ attempts[W(k)][ShellKey(c)] \in Used
    BY <1>0, <1>2, <1>3 DEF ShellInv
  <1>5. \A w \in Works, e \in Commands : (w # W(k) \/ e # c) => runs'[w][e] = runs[w][e]
    BY <1>0, <1>2
  <1>6. attempts' = attempts /\ job'[k].pc # "shell" /\ \A l \in Workers \ {k} : job'[l] = job[l]
    BY RunMoves DEF storeVars
  <1>7. \A l \in Workers, e \in Commands :
          AtShell(l, e)' => l # k /\ AtShell(l, e) /\ W(l)' = W(l) /\ W(l) \in Works
    BY <1>6, AtType DEF AtShell, W
  <1>8. (\A w \in Works, e \in Commands :
           runs[w][e] <= 1 /\ (runs[w][e] # 0 => attempts[w][ShellKey(e)] \in Used))'
    BY <1>4, <1>5, <1>6 DEF ShellInv, ShellKey
  <1>9. (\A l \in Workers, e \in Commands :
           AtShell(l, e) => runs[W(l)][e] = 0 /\ attempts[W(l)][ShellKey(e)] \in Used)'
    BY <1>3, <1>5, <1>6, <1>7 DEF ShellInv, ShellKey
  <1>10. (\A l, m \in Workers, e \in Commands :
            AtShell(l, e) /\ AtShell(m, e) /\ W(l) = W(m) => l = m)'
    BY <1>7 DEF ShellInv
  <1> QED
    BY <1>8, <1>9, <1>10 DEF ShellInv

(* Whatever crashes, retries, resumes and approvals come between the audit  *)
(* row of a shell command and its result, and even when a worker that lost  *)
(* its lease still runs, no command of a work item is started twice.        *)
THEOREM ShellRunsOnce == Spec => []ShellAtMostOnce
  <1>1. Init => ShellInv
    BY DEF Init, ShellInv, AtShell, Idle, W
  <1>2. ASSUME TypeOK, ShellInv, [Next]_vars PROVE ShellInv'
    <2>1. LawfulStep
      BY <1>2, StepLawful
    <2>2. CASE UNCHANGED vars
      BY <1>2, <2>1, <2>2, QuietShell DEF vars, queueVars
    <2>3. ASSUME NEW k \in Workers, WorkerStep(k) PROVE ShellInv'
      <3>1. CASE ~CallShell(k) /\ ~RunShell(k)
        BY <1>2, <2>1, <2>3, <3>1, AwayFromShell, QuietShell DEF Frame
      <3> QED
        BY <1>2, <3>1, CallShellInv, RunShellInv
    <2>4. CASE DaemonStep
      BY <1>2, <2>1, <2>4, QuietShell
         DEF DaemonStep, Start, ListPriorWork, ListCurrentWork, Interrupt, MarkReady, Converge,
             Shutdown, StopSession, Crash, Phase, Idle
    <2>5. ASSUME NEW w \in Works, OperatorStep(w) PROVE ShellInv'
      BY <1>2, <2>1, <2>5, QuietShell
         DEF OperatorStep, DecideApproval, Resume, ResumeIn, Cancel, Retry, Command
    <2> QED
      BY <1>2, <2>2, <2>3, <2>4, <2>5 DEF Next
  <1>3. ShellInv => ShellAtMostOnce
    BY DEF ShellInv, ShellAtMostOnce
  <1> QED
    BY <1>1, <1>2, <1>3, TypeCorrect, PTL DEF Spec

-----------------------------------------------------------------------------
(* The work rows: a worker changes only what it holds the lease of.         *)

OnlyHeld(k) == \A w \in Works : \/ w = W(k) /\ Holds(k)
                                \/ work'[w] = work[w] /\ candidate'[w] = candidate[w]

(* The steps of a worker that touch no work row, interruption, candidate or  *)
(* session.                                                                  *)
LEMMA WorkFree ==
  ASSUME NEW k \in Workers,
         \/ Inspect(k) \/ Route(k) \/ Falter(k) \/ Resolve(k) \/ Inquire(k) \/ StageBegin(k)
         \/ StageSend(k) \/ StageRecord(k) \/ Investigate(k) \/ StartRun(k) \/ CallShell(k)
         \/ RunShell(k) \/ RecordShell(k) \/ Decide(k) \/ Finalize(k) \/ Finish(k)
         \/ Preflight(k) \/ NoticeBegin(k) \/ NoticeLease(k) \/ Notify(k) \/ Notified(k)
         \/ Handle(k) \/ Gate(k) \/ RequestReply(k) \/ Refuse(k) \/ BeginReply(k) \/ Send(k)
         \/ RecordSent(k) \/ RecordUnsent(k) \/ Settle(k) \/ Replied(k) \/ Closing(k)
         \/ TerminalFailure(k)
  PROVE  UNCHANGED <<work, snapshots, candidate, sessions, session>>
  <1> USE DEF Read, Fail, storeVars
  <1>1. CASE \/ Inspect(k) \/ Route(k) \/ Falter(k) \/ Resolve(k) \/ StageSend(k) \/ Decide(k)
             \/ Preflight(k) \/ NoticeLease(k) \/ Handle(k) \/ Replied(k) \/ RunShell(k) \/ Send(k)
    BY <1>1 DEF Inspect, Route, Falter, Resolve, StageSend, Decide, Preflight, NoticeLease,
                Handle, Replied, RunShell, Send
  <1>2. CASE \/ Inquire(k) \/ Investigate(k) \/ Finalize(k) \/ Closing(k) \/ TerminalFailure(k)
             \/ StartRun(k)
    BY <1>2 DEF Inquire, Investigate, Finalize, Closing, TerminalFailure, SetInquiry, StartRun,
                BeginDelegatedInvestigation, MarkDelegatedInvestigationFinalizing,
                CompleteDelegatedInvestigation, BlockDelegatedInvestigation, StartAgentRun
  <1>3. CASE \/ StageBegin(k) \/ StageRecord(k) \/ CallShell(k) \/ RecordShell(k)
    BY <1>3 DEF StageBegin, StageRecord, CallShell, RecordShell, SetAttempt, onlyAttempts,
                BeginInvestigationMessageAction, CompleteAttempt, ConsumeShellApproval,
                ConsumeAttempt, BeginShellAction, RequestShellApproval, RequestAttempt
  <1>4. CASE \/ Finish(k) \/ NoticeBegin(k) \/ Notify(k) \/ Notified(k) \/ Refuse(k) \/ RecordSent(k)
    BY <1>4 DEF Finish, NoticeBegin, Notify, Notified, Refuse, RecordSent, SetAttempt,
                onlyAttempts, BlockReadyReplyApprovalClaim, BeginPostReplyNotification,
                CompleteAttempt
  <1>5. CASE Gate(k) \/ RequestReply(k) \/ BeginReply(k) \/ RecordUnsent(k) \/ Settle(k)
    BY <1>5 DEF Gate, RequestReply, BeginReply, RecordUnsent, Settle, SetAttempt, onlyAttempts,
                ConsumeReplyApproval, ConsumeAttempt, RequestReplyApproval, RequestAttempt,
                BeginReplyAction, CompleteAttempt
  <1> QED
    BY <1>1, <1>2, <1>3, <1>4, <1>5

LEMMA WorkerOnlyHeld ==
  ASSUME TypeOK, NEW k \in Workers, WorkerStep(k), ~Claim(k)
  PROVE  OnlyHeld(k)
  <1>0. work \in [Works -> WorkRow] /\ candidate \in [Works -> CandidateRow]
    BY DEF TypeOK, StoreTypeOK
  <1>1. CASE UNCHANGED <<work, candidate>>
    BY <1>1 DEF OnlyHeld
  <1>2. CASE \/ Held(k) \/ SaveCandidate(k) \/ FinalResolve(k)
    BY <1>0, <1>1, <1>2
       DEF Held, SaveCandidate, FinalResolve, Read, Fail, storeVars, TransitionWorkReplyCandidate,
           SaveWorkReplyCandidate, SetCandidate, Holds, OnlyHeld
  <1>3. CASE \/ Failed(k) \/ Permanent(k)
    BY <1>0, <1>1, <1>3
       DEF Failed, Permanent, Read, Fail, storeVars, MarkRetryClaim, MarkDeadLetterClaim,
           SetWork, Holds, OnlyHeld
  <1>4. CASE Defer(k)
    BY <1>0, <1>1, <1>4 DEF Defer, Read, storeVars, DeferWaitingUserClaim, Holds, OnlyHeld
  <1>5. CASE Close(k)
    BY <1>0, <1>1, <1>5
       DEF Close, Read, storeVars, CompleteClaim, CompleteReplyCandidateClaim, SetWork,
           TransitionWorkReplyCandidate, SetCandidate, Holds, OnlyHeld
  <1>6. CASE \/ Inspect(k) \/ Route(k) \/ Falter(k) \/ Resolve(k) \/ Inquire(k) \/ StageBegin(k)
             \/ StageSend(k) \/ StageRecord(k) \/ Investigate(k) \/ StartRun(k) \/ CallShell(k)
             \/ RunShell(k) \/ RecordShell(k) \/ Decide(k) \/ Finalize(k) \/ Finish(k)
             \/ Preflight(k) \/ NoticeBegin(k) \/ NoticeLease(k) \/ Notify(k) \/ Notified(k)
             \/ Handle(k) \/ Gate(k) \/ RequestReply(k) \/ Refuse(k) \/ BeginReply(k) \/ Send(k)
             \/ RecordSent(k) \/ RecordUnsent(k) \/ Settle(k) \/ Replied(k) \/ Closing(k)
             \/ TerminalFailure(k)
    BY <1>1, <1>6, WorkFree
  <1> QED
    BY <1>2, <1>3, <1>4, <1>5, <1>6, Zenon DEF WorkerStep

LEMMA WorkerFrame ==
  ASSUME TypeOK, NEW k \in Workers, WorkerStep(k)
  PROVE  daemon' = daemon /\ \A l \in Workers \ {k} : job'[l] = job[l]
  <1>1. CASE CallShell(k)
    BY <1>1, ShellMoves DEF Moves, Frame
  <1>2. CASE RunShell(k)
    BY <1>2, RunMoves
  <1>3. CASE ~CallShell(k) /\ ~RunShell(k)
    BY <1>3, AwayFromShell DEF Frame
  <1> QED
    BY <1>1, <1>2, <1>3

(* A worker that lost its lease, to an owner's decision, a restart or a      *)
(* successor, still runs to its end, and changes neither the work row nor    *)
(* the reply candidate of the work it runs.                                  *)
THEOREM FencedIsHarmless == Spec => FencedWorkerIsHarmless
  <1> DEFINE Harmless ==
               \A k \in Workers :
                 job'[k] # job[k] /\ daemon' = daemon /\ job[k].pc # "idle" /\ ~Holds(k) =>
                   /\ work'[W(k)] = work[W(k)]
                   /\ candidate'[W(k)] = candidate[W(k)]
  <1>1. TypeOK /\ [Next]_vars => [Harmless]_vars
    <2> SUFFICES ASSUME TypeOK, Next, NEW k \in Workers, job'[k] # job[k], daemon' = daemon,
                        job[k].pc # "idle", ~Holds(k)
                 PROVE  work'[W(k)] = work[W(k)] /\ candidate'[W(k)] = candidate[W(k)]
      OBVIOUS
    <2>1. ASSUME NEW l \in Workers, WorkerStep(l)
          PROVE  work'[W(k)] = work[W(k)] /\ candidate'[W(k)] = candidate[W(k)]
      <3>1. l = k
        BY <2>1, WorkerFrame
      <3>2. W(k) \in Works /\ ~Claim(k)
        BY AtType DEF Claim
      <3> QED
        BY <2>1, <3>1, <3>2, WorkerOnlyHeld DEF OnlyHeld
    <2>2. ~DaemonStep
      BY DEF DaemonStep, Start, ListPriorWork, ListCurrentWork, Interrupt, MarkReady, Converge,
             Shutdown, StopSession, Crash, Phase, TypeOK, QueueTypeOK
    <2>3. ASSUME NEW w \in Works, OperatorStep(w) PROVE FALSE
      BY <2>3 DEF OperatorStep, DecideApproval, Resume, ResumeIn, Cancel, Retry, Command
    <2> QED
      BY <2>1, <2>2, <2>3 DEF Next
  <1> QED
    BY <1>1, TypeCorrect, PTL DEF Spec, FencedWorkerIsHarmless

=============================================================================
