---------------------------- MODULE ReplyProofs ----------------------------
(****************************************************************************)
(* Replies: what is sent was approved, and what is closed as replied was    *)
(* sent and the owner told of it, for any numbers of workers, work items,   *)
(* drafts and generations.  A job carries what it has done from step to     *)
(* step; the invariant says which audit row or which acceptance at Lark      *)
(* stands behind each thing it carries, whatever the other workers, the     *)
(* operator and recovery do to the rows meanwhile.                          *)
(****************************************************************************)
EXTENDS RecoveryProofs

(* The phases of a job: before the gate, telling the owner, from the gate   *)
(* on, and over.                                                            *)
Noticing == {"notice", "notice_lease", "notify", "notified"}
Consuming == {"refused", "begin_reply", "send", "sent", "unsent", "settle"}
Ended == {"failed", "terminal", "idle"}
PastGate == Consuming \cup {"replied", "closing", "close"} \cup Ended
Early == Pcs \ (PastGate \cup Noticing)

(* The parts of a job that only the sending of a reply changes.             *)
Keeps(new, old) == /\ new.work = old.work /\ new.approval = old.approval
                   /\ new.notified = old.notified

(* What leads to a gate: the job comes to no step that sends, and to a       *)
(* notice only before the gate or after a reply.                             *)
Leads(row, w) ==
  \/ row.pc \in Early
  \/ row.pc = "failed" \/ row.pc = "terminal"
  \/ row.pc = "closing" /\ row.kind # "reply"
  \/ row.pc = "notice" /\ (row.next = "handle" \/ ReplyCompleted(w))

Leading(k) == /\ job'[k].work = W(k) /\ Keeps(job'[k], job[k])
              /\ Leads(job'[k], W(k))

LEMMA Lands1 ==
  ASSUME TypeOK, NEW k \in Workers
  PROVE  /\ \A row : Become(k, row) \/ Read(k, row) => job'[k] = row
         /\ \A pc : Goto(k, pc) => job'[k] = [job[k] EXCEPT !.pc = pc]
         /\ Fail(k) => job'[k] = [job[k] EXCEPT !.pc = "failed"]
  BY BecomeLands, GotoLands DEF Lands, Fail

LEMMA LeadingBy ==
  ASSUME TypeOK, NEW k \in Workers, NEW row, Become(k, row) \/ Read(k, row),
         Keeps(row, job[k]), Leads(row, W(k))
  PROVE  Leading(k)
  BY Lands1 DEF Leading, Keeps, W

LEMMA EarlyPcs ==
  /\ "inspect" \in Early /\ "held" \in Early /\ "route" \in Early /\ "resolve" \in Early
  /\ "inquire" \in Early /\ "stage" \in Early /\ "stage_send" \in Early /\ "stage_sent" \in Early
  /\ "stage_unsent" \in Early /\ "investigate" \in Early /\ "model" \in Early /\ "tools" \in Early
  /\ "shell" \in Early /\ "shell_ran" \in Early /\ "save" \in Early /\ "final" \in Early
  /\ "finalizing" \in Early /\ "finish" \in Early /\ "preflight" \in Early /\ "handle" \in Early
  /\ "gate" \in Early /\ "request" \in Early /\ "defer" \in Early /\ "permanent" \in Early
  BY DEF Early, Pcs, PastGate, Consuming, Noticing, Ended

(* The updates of a job that leave those parts alone.                       *)
LEMMA LeadingPc ==
  ASSUME TypeOK, NEW k \in Workers, NEW pc \in Early \cup {"failed", "terminal"},
         \/ Goto(k, pc)
         \/ Become(k, [job[k] EXCEPT !.pc = pc])
         \/ Read(k, [job[k] EXCEPT !.pc = pc])
  PROVE  Leading(k)
  <1> DEFINE row == [job[k] EXCEPT !.pc = pc]
  <1>1. Become(k, row)
    BY GotoIsBecome DEF Read
  <1>2. Keeps(row, job[k]) /\ row.pc = pc
    BY DEF TypeOK, QueueTypeOK, Job, Keeps
  <1>3. Leads(row, W(k))
    BY <1>2 DEF Leads
  <1> HIDE DEF row
  <1> QED
    BY <1>1, <1>2, <1>3, LeadingBy

LEMMA LeadingFail ==
  ASSUME TypeOK, NEW k \in Workers, Fail(k)
  PROVE  Leading(k)
  BY LeadingPc DEF Fail

LEMMA LeadingKind ==
  ASSUME TypeOK, NEW k \in Workers, NEW pc, NEW kind,
         pc \in Early \/ (pc = "closing" /\ kind # "reply"),
         \/ Become(k, [job[k] EXCEPT !.pc = pc, !.kind = kind])
         \/ Read(k, [job[k] EXCEPT !.pc = pc, !.kind = kind])
         \/ Read(k, [job[k] EXCEPT !.kind = kind, !.pc = pc])
  PROVE  Leading(k)
  <1> DEFINE row == [job[k] EXCEPT !.pc = pc, !.kind = kind]
             wor == [job[k] EXCEPT !.kind = kind, !.pc = pc]
  <1>1. Keeps(row, job[k]) /\ row.pc = pc /\ row.kind = kind
    BY DEF TypeOK, QueueTypeOK, Job, Keeps
  <1>2. wor = row
    BY DEF TypeOK, QueueTypeOK, Job
  <1>3. Become(k, row) \/ Read(k, row)
    BY <1>2
  <1>4. Leads(row, W(k))
    BY <1>1 DEF Leads
  <1> HIDE DEF row
  <1> QED
    BY <1>1, <1>3, <1>4, LeadingBy

(* Everything up to the gate, and every step on which a job gives up.       *)
LEMMA LeadingSteps ==
  ASSUME TypeOK, NEW k \in Workers,
         \/ Inspect(k) \/ Route(k) \/ Falter(k) \/ Resolve(k) \/ Inquire(k)
         \/ StageBegin(k) \/ StageSend(k) \/ StageRecord(k) \/ Investigate(k) \/ Held(k)
         \/ StartRun(k) \/ CallShell(k) \/ RunShell(k) \/ RecordShell(k) \/ Decide(k)
         \/ SaveCandidate(k) \/ FinalResolve(k) \/ Finalize(k) \/ Finish(k) \/ Preflight(k)
         \/ Handle(k) \/ RequestReply(k) \/ Failed(k) \/ Permanent(k)
  PROVE  Leading(k)
  <1>0. job[k] \in Job /\ W(k) = job[k].work
    BY DEF TypeOK, QueueTypeOK, W
  <1> USE EarlyPcs
  <1>1. CASE \/ Falter(k) \/ Resolve(k) \/ StageSend(k) \/ StartRun(k) \/ Finalize(k) \/ Handle(k)
             \/ Failed(k) \/ Permanent(k)
    BY <1>1, LeadingPc, LeadingFail, LeadingKind, ZenonT(40)
       DEF Falter, Resolve, StageSend, StartRun, Finalize, Handle, Failed, Permanent
  <1>2. CASE Route(k)
    <2>1. ASSUME NEW pc \in {"resolve", "model"}, Read(k, [job[k] EXCEPT !.pc = pc])
          PROVE  Leading(k)
      BY <2>1, LeadingPc
    <2>2. ASSUME NEW kind, NEW pc \in {"model", "final", "finish"},
                 Read(k, [job[k] EXCEPT !.kind = kind, !.pc = pc])
          PROVE  Leading(k)
      BY <2>2, LeadingKind
    <2> QED
      BY <1>2, <2>1, <2>2, LeadingFail, ZenonT(40) DEF Route
  <1>3. CASE Finish(k)
    <2>1. ASSUME NEW pc \in {"preflight", "handle"}, Read(k, [job[k] EXCEPT !.pc = pc])
          PROVE  Leading(k)
      BY <2>1, LeadingPc
    <2>2. ASSUME NEW kind \in {"ignore", "record"},
                 \/ Read(k, [job[k] EXCEPT !.pc = "closing", !.kind = kind])
                 \/ Become(k, [job[k] EXCEPT !.pc = "closing", !.kind = kind])
          PROVE  Leading(k)
      BY <2>2, LeadingKind
    <2>3. ASSUME Read(k, [job[k] EXCEPT !.pc = "closing"]), ~SenderFacing(k)
          PROVE  Leading(k)
      <3> DEFINE row == [job[k] EXCEPT !.pc = "closing"]
      <3>1. Keeps(row, job[k]) /\ row.pc = "closing" /\ row.kind # "reply"
        BY <1>0, <2>3 DEF Job, Keeps, SenderFacing
      <3>2. Leads(row, W(k))
        BY <3>1 DEF Leads
      <3> QED
        BY <2>3, <3>1, <3>2, LeadingBy
    <2>4. \/ Fail(k)
          \/ \E pc \in {"preflight", "handle"} : Read(k, [job[k] EXCEPT !.pc = pc])
          \/ Read(k, [job[k] EXCEPT !.pc = "closing"]) /\ ~SenderFacing(k)
          \/ \E kind \in Withdrawn :
                \/ Read(k, [job[k] EXCEPT !.pc = "closing", !.kind = kind])
                \/ Become(k, [job[k] EXCEPT !.pc = "closing", !.kind = kind])
      BY <1>3 DEF Finish
    <2> QED
      BY <2>1, <2>2, <2>3, <2>4, LeadingFail, WithdrawnType
  <1>4. CASE Inquire(k) \/ StageBegin(k) \/ StageRecord(k)
    <2>1. ASSUME NEW opened, NEW key,
                 Become(k, [job[k] EXCEPT !.pc = "stage", !.opened = opened, !.key = key])
          PROVE  Leading(k)
      <3> DEFINE row == [job[k] EXCEPT !.pc = "stage", !.opened = opened, !.key = key]
      <3>1. Keeps(row, job[k]) /\ row.pc = "stage"
        BY <1>0 DEF Job, Keeps
      <3> QED
        BY <2>1, <3>1, LeadingBy DEF Leads
    <2>2. ASSUME NEW key, Become(k, [job[k] EXCEPT !.pc = "stage_send", !.key = key])
          PROVE  Leading(k)
      <3> DEFINE row == [job[k] EXCEPT !.pc = "stage_send", !.key = key]
      <3>1. Keeps(row, job[k]) /\ row.pc = "stage_send"
        BY <1>0 DEF Job, Keeps
      <3> QED
        BY <2>2, <3>1, LeadingBy DEF Leads
    <2>3. ASSUME Become(k, AfterStage(k)) \/ Read(k, AfterStage(k))
          PROVE  Leading(k)
      <3>1. Keeps(AfterStage(k), job[k]) /\ AfterStage(k).pc \in {"stage", "investigate", "model"}
        BY <1>0 DEF AfterStage, Job, Keeps
      <3> QED
        BY <2>3, <3>1, LeadingBy DEF Leads
    <2>4. ASSUME Goto(k, "failed") PROVE Leading(k)
      BY <2>4, LeadingPc
    <2> QED
      BY <1>4, <2>1, <2>2, <2>3, <2>4, LeadingFail DEF Inquire, StageBegin, StageRecord
  <1>5. CASE Investigate(k) \/ RecordShell(k) \/ CallShell(k)
    <2>1. ASSUME Become(k, [job[k] EXCEPT !.pc = "model", !.active = TRUE])
          PROVE  Leading(k)
      <3> DEFINE row == [job[k] EXCEPT !.pc = "model", !.active = TRUE]
      <3>1. Keeps(row, job[k]) /\ row.pc = "model"
        BY <1>0 DEF Job, Keeps
      <3> QED
        BY <2>1, <3>1, LeadingBy DEF Leads
    <2>2. ASSUME NEW pc \in {"tools", "shell"}, NEW key,
                 Become(k, [job[k] EXCEPT !.pc = pc, !.key = key])
          PROVE  Leading(k)
      <3> DEFINE row == [job[k] EXCEPT !.pc = pc, !.key = key]
      <3>1. Keeps(row, job[k]) /\ row.pc = pc
        BY <1>0 DEF Job, Keeps
      <3> QED
        BY <2>2, <3>1, LeadingBy DEF Leads
    <2>3. ASSUME Goto(k, "tools") PROVE Leading(k)
      BY <2>3, LeadingPc
    <2> QED
      BY <1>5, <2>1, <2>2, <2>3, LeadingFail DEF Investigate, RecordShell, CallShell
  <1>6. CASE Decide(k) \/ Preflight(k)
    <2>1. ASSUME NEW pc \in {"finish", "save", "final"}, NEW kind, NEW d,
                 Read(k, [job[k] EXCEPT !.kind = kind, !.draft = d, !.pc = pc])
          PROVE  Leading(k)
      <3> DEFINE row == [job[k] EXCEPT !.kind = kind, !.draft = d, !.pc = pc]
      <3>1. Keeps(row, job[k]) /\ row.pc = pc
        BY <1>0 DEF Job, Keeps
      <3> QED
        BY <2>1, <3>1, LeadingBy DEF Leads
    <2>2. ASSUME Read(k, [job[k] EXCEPT !.pc = "notice", !.next = "handle"])
          PROVE  Leading(k)
      <3> DEFINE row == [job[k] EXCEPT !.pc = "notice", !.next = "handle"]
      <3>1. Keeps(row, job[k]) /\ row.pc = "notice" /\ row.next = "handle"
        BY <1>0 DEF Job, Keeps
      <3> QED
        BY <2>2, <3>1, LeadingBy DEF Leads
    <2>3. ASSUME Read(k, [job[k] EXCEPT !.pc = "handle"]) PROVE Leading(k)
      BY <2>3, LeadingPc
    <2> QED
      BY <1>6, <2>1, <2>2, <2>3, LeadingFail DEF Decide, Preflight
  <1>7. CASE Inspect(k)
    <2>1. ASSUME NEW d \in PostReplyNotices(W(k)),
                 Read(k, [job[k] EXCEPT !.pc = "notice", !.kind = "reply", !.draft = d, !.next = "close"])
          PROVE  Leading(k)
      <3> DEFINE row == [job[k] EXCEPT !.pc = "notice", !.kind = "reply", !.draft = d, !.next = "close"]
      <3>1. Keeps(row, job[k]) /\ row.pc = "notice"
        BY <1>0 DEF Job, Keeps
      <3>2. ReplyCompleted(W(k))
        BY <2>1 DEF PostReplyNotices
      <3> QED
        BY <2>1, <3>1, <3>2, LeadingBy DEF Leads
    <2>2. ASSUME NEW d, Read(k, [job[k] EXCEPT !.pc = "finish", !.granted = TRUE,
                                               !.kind = "reply", !.draft = d])
          PROVE  Leading(k)
      <3> DEFINE row == [job[k] EXCEPT !.pc = "finish", !.granted = TRUE, !.kind = "reply", !.draft = d]
      <3>1. Keeps(row, job[k]) /\ row.pc = "finish"
        BY <1>0 DEF Job, Keeps
      <3> QED
        BY <2>2, <3>1, LeadingBy DEF Leads
    <2>3. ASSUME NEW pc \in {"held", "route"}, NEW d,
                 Read(k, [job[k] EXCEPT !.pc = pc, !.draft = d])
          PROVE  Leading(k)
      <3> DEFINE row == [job[k] EXCEPT !.pc = pc, !.draft = d]
      <3>1. Keeps(row, job[k]) /\ row.pc = pc
        BY <1>0 DEF Job, Keeps
      <3> QED
        BY <2>3, <3>1, LeadingBy DEF Leads
    <2> QED
      BY <1>7, <2>1, <2>2, <2>3, LeadingFail DEF Inspect
  <1>8. CASE Held(k) \/ SaveCandidate(k) \/ FinalResolve(k)
    <2>1. ASSUME NEW pc \in {"defer", "permanent", "finalizing"},
                 \/ Become(k, [job[k] EXCEPT !.pc = pc])
                 \/ Read(k, [job[k] EXCEPT !.pc = pc])
          PROVE  Leading(k)
      BY <2>1, LeadingPc
    <2>2. ASSUME NEW kind, Become(k, [job[k] EXCEPT !.pc = "finish", !.kind = kind])
          PROVE  Leading(k)
      BY <2>2, LeadingKind
    <2>3. ASSUME Read(k, [job[k] EXCEPT !.pc = "finish", !.kind = "reply", !.held = TRUE])
          PROVE  Leading(k)
      <3> DEFINE row == [job[k] EXCEPT !.pc = "finish", !.kind = "reply", !.held = TRUE]
      <3>1. Keeps(row, job[k]) /\ row.pc = "finish"
        BY <1>0 DEF Job, Keeps
      <3> QED
        BY <2>3, <3>1, LeadingBy DEF Leads
    <2>4. ASSUME Become(k, [job[k] EXCEPT !.pc = "final", !.held = TRUE])
          PROVE  Leading(k)
      <3> DEFINE row == [job[k] EXCEPT !.pc = "final", !.held = TRUE]
      <3>1. Keeps(row, job[k]) /\ row.pc = "final"
        BY <1>0 DEF Job, Keeps
      <3> QED
        BY <2>4, <3>1, LeadingBy DEF Leads
    <2>5. ASSUME \/ Become(k, [job[k] EXCEPT !.pc = "finalizing", !.kind = "ignore",
                                             !.draft = NoItem, !.held = FALSE])
                 \/ Read(k, [job[k] EXCEPT !.pc = "finalizing", !.kind = "ignore",
                                             !.draft = NoItem, !.held = FALSE])
          PROVE  Leading(k)
      <3> DEFINE row == [job[k] EXCEPT !.pc = "finalizing", !.kind = "ignore",
                                       !.draft = NoItem, !.held = FALSE]
      <3>1. Keeps(row, job[k]) /\ row.pc = "finalizing"
        BY <1>0 DEF Job, Keeps
      <3> QED
        BY <2>5, <3>1, LeadingBy DEF Leads
    <2> QED
      BY <1>8, <2>1, <2>2, <2>3, <2>4, <2>5, LeadingFail DEF Held, SaveCandidate, FinalResolve
  <1>9. CASE RunShell(k)
    <2>1. job' = [job EXCEPT ![k].pc = "shell_ran"] /\ job \in [Workers -> Job]
      BY <1>9 DEF RunShell, TypeOK, QueueTypeOK
    <2>2. job'[k] = [job[k] EXCEPT !.pc = "shell_ran"]
      BY <2>1
    <2>3. job'[k].pc = "shell_ran" /\ job'[k].work = job[k].work /\ Keeps(job'[k], job[k])
      BY <1>0, <2>2 DEF Job, Keeps
    <2> QED
      BY <1>0, <2>3, ZenonT(40) DEF Leading, Leads
  <1>10. CASE RequestReply(k)
    BY <1>10, LeadingKind DEF RequestReply
  <1> QED
    BY <1>1, <1>2, <1>3, <1>4, <1>5, <1>6, <1>7, <1>8, <1>9, <1>10

-----------------------------------------------------------------------------
(* The world under a worker's step.                                         *)

SameGen == \A w \in Works : work'[w].gen = work[w].gen

(* A row comes to be completed with a reply only by a step that says so.     *)
NoneCloses == \A w \in Works : work'[w] = work[w] \/ work'[w].status # "completed"

LEMMA MarkRows ==
  ASSUME StoreTypeOK, NEW w \in Works, NEW k \in Workers,
         MarkRetryClaim(w, k) \/ MarkDeadLetterClaim(w, k) \/ DeferWaitingUserClaim(w, k)
  PROVE  SameGen /\ NoneCloses
  <1>0. work[w] \in WorkRow /\ work \in [Works -> WorkRow]
    BY DEF StoreTypeOK
  <1>1. ASSUME NEW row, work' = [work EXCEPT ![w] = row], row.gen = work[w].gen,
               row.status # "completed"
        PROVE  SameGen /\ NoneCloses
    BY <1>0, <1>1 DEF SameGen, NoneCloses
  <1>2. CASE MarkRetryClaim(w, k)
    <2> DEFINE status == IF work[w].retry + 1 >= MaxRetries THEN "dead_letter" ELSE "retry_wait"
               row == [Unleased(work[w], status) EXCEPT !.retry = work[w].retry + 1,
                                                        !.decision = "record"]
    <2>1. work' = [work EXCEPT ![w] = row]
      BY <1>2 DEF MarkRetryClaim, SetWork
    <2>2. status # "completed"
      OBVIOUS
    <2> HIDE DEF status
    <2>3. row.gen = work[w].gen /\ row.status = status
      BY <1>0 DEF Unleased, WorkRow
    <2> HIDE DEF row
    <2> QED
      BY <1>1, <2>1, <2>2, <2>3
  <1>3. CASE MarkDeadLetterClaim(w, k)
    <2> DEFINE row == [Unleased(work[w], "dead_letter") EXCEPT !.retry = @ + 1,
                                                               !.decision = "record"]
    <2>1. work' = [work EXCEPT ![w] = row]
      BY <1>3 DEF MarkDeadLetterClaim, SetWork
    <2>2. row.gen = work[w].gen /\ row.status = "dead_letter"
      BY <1>0 DEF Unleased, WorkRow
    <2> HIDE DEF row
    <2> QED
      BY <1>1, <2>1, <2>2
  <1>4. CASE DeferWaitingUserClaim(w, k)
    <2> DEFINE status == IF work[w].ownerRetry + 1 >= MaxOwnerRetries THEN "dead_letter"
                                                                     ELSE "waiting_user"
               row == [Unleased(work[w], status) EXCEPT !.ownerRetry = work[w].ownerRetry + 1,
                                                        !.decision = "record"]
    <2>1. work' = [work EXCEPT ![w] = row]
      BY <1>4 DEF DeferWaitingUserClaim
    <2>2. status # "completed"
      OBVIOUS
    <2> HIDE DEF status
    <2>3. row.gen = work[w].gen /\ row.status = status
      BY <1>0 DEF Unleased, WorkRow
    <2> HIDE DEF row
    <2> QED
      BY <1>1, <2>1, <2>2, <2>3
  <1> QED
    BY <1>2, <1>3, <1>4

LEMMA CompleteRows ==
  ASSUME StoreTypeOK, NEW w \in Works, NEW k \in Workers, NEW kind,
         CompleteClaim(w, k, kind) \/ CompleteReplyCandidateClaim(w, k, kind)
  PROVE  /\ SameGen /\ HoldsLease(w, k) /\ work'[w].decision = kind
         /\ \A v \in Works \ {w} : work'[v] = work[v]
  <1>0. work[w] \in WorkRow /\ work \in [Works -> WorkRow]
    BY DEF StoreTypeOK
  <1> DEFINE row == [Unleased(work[w], DecisionStatus(kind)) EXCEPT !.decision = kind]
  <1>1. work' = [work EXCEPT ![w] = row] /\ HoldsLease(w, k)
    BY DEF CompleteClaim, CompleteReplyCandidateClaim, SetWork
  <1>2. row.gen = work[w].gen /\ row.decision = kind
    BY <1>0 DEF Unleased, WorkRow
  <1> HIDE DEF row
  <1> QED
    BY <1>0, <1>1, <1>2 DEF SameGen

(* Only the last step of finishDecisionWithState completes a work item.      *)
LEMMA WorkerCloses ==
  ASSUME TypeOK, NEW k \in Workers, WorkerStep(k)
  PROVE  /\ SameGen
         /\ \/ NoneCloses
            \/ /\ At(k, "close") /\ Holds(k) /\ job'[k] = Idle
               /\ work'[W(k)].decision = job[k].kind
               /\ \A v \in Works \ {W(k)} : work'[v] = work[v]
  <1>0. StoreTypeOK
    BY DEF TypeOK
  <1>1. CASE UNCHANGED work
    BY <1>1 DEF SameGen, NoneCloses
  <1>2. CASE Held(k) \/ SaveCandidate(k) \/ FinalResolve(k)
    <2>1. UNCHANGED work
      BY <1>2 DEF Held, SaveCandidate, FinalResolve, Read, Fail, storeVars, SetCandidate,
                  TransitionWorkReplyCandidate, SaveWorkReplyCandidate
    <2> QED
      BY <1>1, <2>1
  <1>3. CASE Failed(k) \/ Permanent(k) \/ Defer(k)
    <2>1. W(k) \in Works
      BY <1>3, AtType DEF Failed, Permanent, Defer, At
    <2>2. \/ UNCHANGED work
          \/ MarkRetryClaim(W(k), k) \/ MarkDeadLetterClaim(W(k), k)
          \/ DeferWaitingUserClaim(W(k), k)
      BY <1>3 DEF Failed, Permanent, Defer, Read, Fail, storeVars
    <2> QED
      BY <1>0, <1>1, <2>1, <2>2, MarkRows
  <1>4. CASE Close(k)
    <2>1. W(k) \in Works
      BY <1>4, AtType DEF Close, At
    <2>2. \/ UNCHANGED work
          \/ /\ CompleteClaim(W(k), k, job[k].kind) \/ CompleteReplyCandidateClaim(W(k), k, job[k].kind)
             /\ Become(k, Idle)
      BY <1>4 DEF Close, Read, storeVars, TransitionWorkReplyCandidate, SetCandidate, Stop
    <2>3. At(k, "close")
      BY <1>4 DEF Close
    <2>4. CASE /\ CompleteClaim(W(k), k, job[k].kind) \/ CompleteReplyCandidateClaim(W(k), k, job[k].kind)
               /\ Become(k, Idle)
      <3>1. job'[k] = Idle
        BY <2>4, Lands1
      <3>2. /\ SameGen /\ HoldsLease(W(k), k) /\ work'[W(k)].decision = job[k].kind
            /\ \A v \in Works \ {W(k)} : work'[v] = work[v]
        BY <1>0, <2>1, <2>4, CompleteRows
      <3> QED
        BY <2>3, <3>1, <3>2 DEF Holds
    <2> QED
      BY <1>1, <2>2, <2>4
  <1>5. CASE Claim(k)
    <2>1. PICK w \in Works : ClaimNextForLane(w, k)
      BY <1>5 DEF Claim
    <2> DEFINE row == [work[w] EXCEPT !.status = "processing", !.lease = k]
    <2>2. work' = [work EXCEPT ![w] = row] /\ work \in [Works -> WorkRow] /\ work[w] \in WorkRow
      BY <1>0, <2>1 DEF ClaimNextForLane, SetWork, StoreTypeOK
    <2>3. row.gen = work[w].gen /\ row.status = "processing"
      BY <2>2 DEF WorkRow
    <2> HIDE DEF row
    <2> QED
      BY <2>2, <2>3 DEF SameGen, NoneCloses
  <1>6. CASE \/ Inspect(k) \/ Route(k) \/ Falter(k) \/ Resolve(k) \/ Inquire(k) \/ StageBegin(k)
             \/ StageSend(k) \/ StageRecord(k) \/ Investigate(k) \/ StartRun(k) \/ CallShell(k)
             \/ RunShell(k) \/ RecordShell(k) \/ Decide(k) \/ Finalize(k) \/ Finish(k)
             \/ Preflight(k) \/ NoticeBegin(k) \/ NoticeLease(k) \/ Notify(k) \/ Notified(k)
             \/ Handle(k) \/ Gate(k) \/ RequestReply(k) \/ Refuse(k) \/ BeginReply(k) \/ Send(k)
             \/ RecordSent(k) \/ RecordUnsent(k) \/ Settle(k) \/ Replied(k) \/ Closing(k)
             \/ TerminalFailure(k)
    BY <1>1, <1>6, WorkFree
  <1> QED
    BY <1>2, <1>3, <1>4, <1>5, <1>6, Zenon DEF WorkerStep

(* A claim is never regained by the steps of others.                        *)
LEMMA WorkerLeases ==
  ASSUME TypeOK, NEW k \in Workers, WorkerStep(k)
  PROVE  \A w \in Works, l \in Workers :
           HoldsLease(w, l)' => HoldsLease(w, l) \/ (l = k /\ job'[k].pc = "inspect" /\ Claim(k))
  <1>1. CASE ~Claim(k)
    BY <1>1, WorkerShrinks DEF Shrinks, HoldsLease
  <1>2. CASE Claim(k)
    <2>1. PICK w \in Works : ClaimNextForLane(w, k)
      BY <1>2 DEF Claim
    <2> DEFINE row == [work[w] EXCEPT !.status = "processing", !.lease = k]
    <2>2. work' = [work EXCEPT ![w] = row] /\ work \in [Works -> WorkRow] /\ work[w] \in WorkRow
      BY <2>1 DEF ClaimNextForLane, SetWork, StoreTypeOK, TypeOK
    <2>3. row.lease = k
      BY <2>2 DEF WorkRow
    <2> HIDE DEF row
    <2> QED
      BY <1>2, <2>2, <2>3, ClaimMoves DEF HoldsLease
  <1> QED
    BY <1>1, <1>2

(* What a worker does to the outside world.                                 *)
LEMMA WorkerWorld ==
  ASSUME TypeOK, NEW k \in Workers, WorkerStep(k)
  PROVE  /\ approved' = approved
         /\ delivered' = delivered \/ Send(k)
         /\ \A w \in Works : delivered[w] \subseteq delivered'[w]
  <1>1. CASE Send(k)
    <2>1. W(k) \in Works /\ delivered \in [Works -> SUBSET (Generations \X Drafts)]
      BY <1>1, AtType DEF Send, At, TypeOK, QueueTypeOK
    <2>2. \/ delivered' = delivered
          \/ \E more : delivered' = [delivered EXCEPT ![W(k)] = delivered[W(k)] \cup more]
      BY <1>1, <2>1 DEF Send
    <2>3. \A w \in Works : delivered[w] \subseteq delivered'[w]
      BY <2>1, <2>2
    <2> QED
      BY <1>1, <2>3 DEF Send
  <1>2. CASE RunShell(k)
    BY <1>2 DEF RunShell
  <1>3. CASE \/ Claim(k) \/ Inspect(k) \/ Route(k) \/ Resolve(k) \/ Defer(k)
             \/ Inquire(k) \/ StageBegin(k) \/ StageSend(k) \/ StageRecord(k) \/ Investigate(k)
             \/ Held(k) \/ StartRun(k) \/ CallShell(k) \/ RecordShell(k)
             \/ Decide(k) \/ SaveCandidate(k) \/ FinalResolve(k) \/ Finalize(k)
    BY <1>3, ZenonT(40) DEF Claim, Inspect, Route, Resolve, Defer, Inquire, StageBegin, StageSend, StageRecord,
         Investigate, Held, StartRun, CallShell, RecordShell, Decide, SaveCandidate, FinalResolve,
         Finalize, Fail, Read, Become, Goto, worldVars
  <1>4. CASE \/ Finish(k) \/ Preflight(k) \/ NoticeBegin(k) \/ NoticeLease(k) \/ Notify(k)
             \/ Notified(k) \/ Handle(k) \/ Gate(k) \/ RequestReply(k) \/ Refuse(k)
             \/ BeginReply(k) \/ RecordSent(k) \/ RecordUnsent(k) \/ Settle(k)
             \/ Replied(k) \/ Closing(k) \/ Close(k) \/ Failed(k) \/ Permanent(k)
             \/ TerminalFailure(k) \/ Falter(k)
    BY <1>4, ZenonT(40) DEF Finish, Preflight, NoticeBegin, NoticeLease, Notify, Notified, Handle,
         Gate, RequestReply, Refuse, BeginReply, RecordSent, RecordUnsent, Settle, Replied, Closing,
         Close, Failed, Permanent, TerminalFailure, Falter, Fail, Stop, Read, Become, Goto, worldVars
  <1> QED
    BY <1>1, <1>2, <1>3, <1>4, Zenon DEF WorkerStep

-----------------------------------------------------------------------------
(* The audit rows under a worker's step.                                    *)

Consumes(k) == job[k].pc \in Consuming /\ job[k].approval # NoKey

(* A job past the gate knows the approval it consumed, which is executing    *)
(* for as long as the job has not settled it; no risky draft is sent without *)
(* one.                                                                      *)
SendInv(k) ==
  /\ job[k].approval # NoKey =>
       job[k].pc \in PastGate \/ (job[k].pc \in Noticing /\ job[k].next = "closing")
  /\ Consumes(k) => /\ job[k].approval = ApprovalKey(W(k), job[k].draft)
                    /\ attempts[W(k)][job[k].approval] = "executing"
  /\ job[k].pc = "begin_reply" /\ job[k].draft \in Risky => job[k].approval # NoKey
  /\ job[k].pc = "send" /\ job[k].draft \in Risky =>
       <<job[k].key.gen, job[k].draft>> \in approved[W(k)]

(* The key a job completes is of the kind its step is about.                *)
KindInv(k) ==
  /\ job[k].pc \in {"send", "sent", "unsent"} => job[k].key.kind = "reply"
  /\ job[k].pc \in {"notice_lease", "notify", "notified"} => job[k].key.kind = "owner_notification"

LEMMA AnswerKinds ==
  /\ \A key \in ApprovalKeys : key.kind = "approval" /\ key \in Keys
  /\ \A key \in ReplyKeys : key.kind = "reply" /\ key \in Keys
  /\ \A g, d : Key("approval", g, d).kind = "approval" /\ Key("reply", g, d).kind = "reply"
               /\ Key("shell", g, d).kind = "shell"
               /\ Key("owner_notification", g, d).kind = "owner_notification"
               /\ Key("approval", g, d).gen = g /\ Key("approval", g, d).item = d
               /\ Key("reply", g, d).gen = g
  /\ RequiredKey.kind = "owner_resolution_required"
  BY DEF ApprovalKeys, ReplyKeys, Keys, Key, RequiredKey

(* Neither a reply nor an approval of one is touched.                       *)
AnswersKept == \A w \in Works, key \in ApprovalKeys \cup ReplyKeys :
                 attempts'[w][key] = attempts[w][key]

LEMMA OtherKind ==
  ASSUME StoreTypeOK, NEW w \in Works, NEW key \in Keys, NEW status,
         key.kind \notin {"approval", "reply"},
         attempts' = [attempts EXCEPT ![w][key] = status]
  PROVE  AnswersKept
  BY AnswerKinds DEF AnswersKept, StoreTypeOK

LEMMA OneRow ==
  ASSUME StoreTypeOK, NEW w \in Works, NEW key \in Keys, NEW status, SetAttempt(w, key, status)
  PROVE  /\ attempts'[w][key] = status
         /\ \A v \in Works, other \in Keys :
              v # w \/ other # key => attempts'[v][other] = attempts[v][other]
  BY DEF SetAttempt, Move, StoreTypeOK

LEMMA QuietAudit ==
  ASSUME TypeOK, NEW k \in Workers, KindInv(k), WorkerStep(k), ~Finish(k), ~Gate(k), ~RequestReply(k),
         ~Refuse(k), ~BeginReply(k), ~RecordSent(k), ~RecordUnsent(k), ~Settle(k)
  PROVE  AnswersKept
  <1>0. StoreTypeOK
    BY DEF TypeOK
  <1>1. CASE UNCHANGED attempts
    BY <1>1 DEF AnswersKept
  <1>2. CASE Defer(k)
    <2>1. W(k) \in Works /\ RequiredKey \in Keys
      BY <1>2, AtType, KeyTypes DEF Defer, At
    <2>2. \/ UNCHANGED attempts
          \/ attempts' = [attempts EXCEPT ![W(k)][RequiredKey] = "blocked"]
      BY <1>2 DEF Defer, DeferWaitingUserClaim, Read, storeVars
    <2> QED
      BY <1>0, <1>1, <2>1, <2>2, OtherKind, AnswerKinds
  <1>3. CASE StageBegin(k)
    <2>1. W(k) \in Works /\ job[k].key.kind \in {"investigation_owner_notice", "investigation_progress"}
      BY <1>3, AtType DEF StageBegin, At, JobOK
    <2>2. /\ StageKey(W(k), job[k].key.kind).kind = job[k].key.kind
          /\ StageKey(W(k), job[k].key.kind) \in Keys
      BY <1>0, <2>1, StageKeyType
    <2>3. \/ UNCHANGED attempts
          \/ attempts' = [attempts EXCEPT ![W(k)][StageKey(W(k), job[k].key.kind)] = "executing"]
      BY <1>3, <2>2 DEF StageBegin, BeginInvestigationMessageAction, SetAttempt, Move, Read, Fail, storeVars
    <2> QED
      BY <1>0, <1>1, <2>1, <2>2, <2>3, OtherKind
  <1>4. CASE StageRecord(k) \/ RecordShell(k) \/ Notify(k) \/ Notified(k)
    <2>1. W(k) \in Works /\ job[k].key \in Keys
      BY <1>4, AtType DEF StageRecord, RecordShell, Notify, Notified, At, JobOK
    <2>2. job[k].key.kind \notin {"approval", "reply"}
      <3>1. CASE StageRecord(k)
        BY <3>1, AtType DEF StageRecord, At, JobOK
      <3>2. CASE RecordShell(k)
        <4>1. \E c \in Commands : job[k].key = ShellKey(c)
          BY <3>2, AtType DEF RecordShell, At, JobOK
        <4> QED
          BY <4>1, AnswerKinds DEF ShellKey
      <3>3. CASE Notify(k) \/ Notified(k)
        BY <3>3 DEF Notify, Notified, At, KindInv
      <3> QED
        BY <1>4, <3>1, <3>2, <3>3
    <2>3. \/ UNCHANGED attempts
          \/ \E status : attempts' = [attempts EXCEPT ![W(k)][job[k].key] = status]
      BY <1>4 DEF StageRecord, RecordShell, Notify, Notified, CompleteAttempt, SetAttempt, Move,
                  Read, Fail, storeVars
    <2> QED
      BY <1>0, <1>1, <2>1, <2>2, <2>3, OtherKind
  <1>5. CASE CallShell(k)
    <2>1. W(k) \in Works
      BY <1>5, AtType DEF CallShell, At
    <2>2. PICK c \in Commands : \/ UNCHANGED attempts
                                \/ \E status : attempts' = [attempts EXCEPT ![W(k)][ShellKey(c)] = status]
      BY <1>5 DEF CallShell, ConsumeShellApproval, RequestShellApproval, BeginShellAction,
                  ConsumeAttempt, RequestAttempt, SetAttempt, Move, storeVars
    <2>3. ShellKey(c) \in Keys /\ ShellKey(c).kind = "shell"
      BY KeyTypes, AnswerKinds DEF ShellKey
    <2> QED
      BY <1>0, <1>1, <2>1, <2>2, <2>3, OtherKind
  <1>6. CASE NoticeBegin(k)
    <2>1. W(k) \in Works /\ job[k].draft \in Drafts
      BY <1>6, AtType DEF NoticeBegin, At, JobOK
    <2> DEFINE key == NoticeKey(W(k), job[k].draft)
    <2>2. key \in Keys /\ key.kind = "owner_notification"
      BY <1>0, <2>1, WorkKeyTypes, AnswerKinds DEF NoticeKey
    <2>3. \/ UNCHANGED attempts
          \/ attempts' = [attempts EXCEPT ![W(k)][key] = "executing"]
      BY <1>6 DEF NoticeBegin, BeginPostReplyNotification, SetAttempt, Move, Read, storeVars
    <2> QED
      BY <1>0, <1>1, <2>1, <2>2, <2>3, OtherKind
  <1>7. CASE \/ Claim(k) \/ Inspect(k) \/ Route(k) \/ Falter(k) \/ Resolve(k) \/ Inquire(k)
             \/ StageSend(k) \/ Investigate(k) \/ Held(k) \/ StartRun(k) \/ RunShell(k)
             \/ Decide(k) \/ SaveCandidate(k) \/ FinalResolve(k) \/ Finalize(k) \/ Preflight(k)
             \/ NoticeLease(k) \/ Handle(k) \/ Send(k) \/ Replied(k) \/ Closing(k) \/ Close(k)
             \/ Failed(k) \/ Permanent(k) \/ TerminalFailure(k)
    BY <1>1, <1>7, AuditFree
  <1> QED
    BY <1>2, <1>3, <1>4, <1>5, <1>6, <1>7, Zenon DEF WorkerStep

(* The row of one approval or reply moves, of the work item the job runs.    *)
Moved(k, key, old, new) ==
  /\ attempts[W(k)][key] \in old
  /\ attempts'[W(k)][key] = new
  /\ \A w \in Works, other \in Keys :
       w # W(k) \/ other # key => attempts'[w][other] = attempts[w][other]

LEMMA GateAudit ==
  ASSUME TypeOK, NEW k \in Workers, Finish(k) \/ Gate(k) \/ RequestReply(k)
  PROVE  \/ UNCHANGED attempts
         \/ \E d \in Drafts : \/ Moved(k, ApprovalKey(W(k), d), {"ready"}, "blocked")
                             \/ Moved(k, ApprovalKey(W(k), d), {"none"}, "awaiting_approval")
         \/ /\ Gate(k)
            /\ Moved(k, ApprovalKey(W(k), job[k].draft), {"ready"}, "executing")
            /\ \E pc \in {"refused", "begin_reply"} :
                 job'[k] = [job[k] EXCEPT !.approval = ApprovalKey(W(k), job[k].draft), !.pc = pc]
  <1>0. StoreTypeOK /\ W(k) \in Works
    BY AtType DEF Finish, Gate, RequestReply, At, TypeOK
  <1>1. \A d \in Drafts : ApprovalKey(W(k), d) \in Keys
    BY <1>0, WorkKeyTypes DEF ApprovalKey
  <1>2. CASE Finish(k)
    <2>1. \/ UNCHANGED attempts
          \/ \E d \in Drafts : BlockReadyReplyApprovalClaim(W(k), k, d)
      BY <1>2 DEF Finish, ApprovedDrafts, Read, Fail, storeVars
    <2> QED
      BY <1>0, <1>1, <2>1, OneRow DEF BlockReadyReplyApprovalClaim, Moved
  <1>3. CASE RequestReply(k)
    <2>1. job[k].draft \in Drafts
      BY <1>3, AtType DEF RequestReply, At, JobOK
    <2>2. RequestAttempt(W(k), ApprovalKey(W(k), job[k].draft))
      BY <1>3 DEF RequestReply, RequestReplyApproval
    <2> QED
      BY <1>0, <1>1, <2>1, <2>2, OneRow DEF RequestAttempt, Moved, storeVars
  <1>4. CASE Gate(k)
    <2>1. job[k].draft \in Drafts
      BY <1>4, AtType DEF Gate, At, JobOK
    <2>2. \/ UNCHANGED attempts
          \/ \E verdict \in Verdicts(k) :
               /\ ConsumeAttempt(W(k), ApprovalKey(W(k), job[k].draft))
               /\ Become(k, [job[k] EXCEPT !.approval = ApprovalKey(W(k), job[k].draft),
                               !.pc = IF verdict = "cancelled" THEN "refused" ELSE "begin_reply"])
      BY <1>4 DEF Gate, ConsumeReplyApproval, Read, Fail, storeVars
    <2>4. ASSUME NEW verdict,
                 Become(k, [job[k] EXCEPT !.approval = ApprovalKey(W(k), job[k].draft),
                              !.pc = IF verdict = "cancelled" THEN "refused" ELSE "begin_reply"])
          PROVE  \E pc \in {"refused", "begin_reply"} :
                   job'[k] = [job[k] EXCEPT !.approval = ApprovalKey(W(k), job[k].draft), !.pc = pc]
      <3> DEFINE pc == IF verdict = "cancelled" THEN "refused" ELSE "begin_reply"
      <3>1. pc \in {"refused", "begin_reply"}
        OBVIOUS
      <3>2. job'[k] = [job[k] EXCEPT !.approval = ApprovalKey(W(k), job[k].draft), !.pc = pc]
        BY <2>4, Lands1
      <3> HIDE DEF pc
      <3> QED
        BY <3>1, <3>2
    <2>3. ASSUME ConsumeAttempt(W(k), ApprovalKey(W(k), job[k].draft))
          PROVE  Moved(k, ApprovalKey(W(k), job[k].draft), {"ready"}, "executing")
      BY <1>0, <1>1, <2>1, <2>3, OneRow DEF ConsumeAttempt, Moved
    <2>5. CASE UNCHANGED attempts
      BY <2>5
    <2>6. CASE \E verdict \in Verdicts(k) :
               /\ ConsumeAttempt(W(k), ApprovalKey(W(k), job[k].draft))
               /\ Become(k, [job[k] EXCEPT !.approval = ApprovalKey(W(k), job[k].draft),
                               !.pc = IF verdict = "cancelled" THEN "refused" ELSE "begin_reply"])
      <3>1. \E pc \in {"refused", "begin_reply"} :
              job'[k] = [job[k] EXCEPT !.approval = ApprovalKey(W(k), job[k].draft), !.pc = pc]
        BY <2>4, <2>6
      <3> QED
        BY <1>4, <2>3, <2>6, <3>1
    <2> QED
      BY <2>2, <2>5, <2>6
  <1> QED
    BY <1>2, <1>3, <1>4

LEMMA AnswerAudit ==
  ASSUME TypeOK, NEW k \in Workers, Refuse(k) \/ BeginReply(k) \/ RecordSent(k) \/ RecordUnsent(k) \/ Settle(k)
  PROVE  \/ UNCHANGED attempts
         \/ BeginReply(k) /\ Moved(k, ReplyKey(W(k)), AttemptStatus \ {"completed"}, "executing")
         \/ RecordSent(k) /\ Moved(k, job[k].key, {"executing"}, "completed")
         \/ RecordUnsent(k) /\ Moved(k, job[k].key, {"executing"}, "blocked")
         \/ Refuse(k) /\ Moved(k, job[k].approval, {"executing"}, "blocked")
         \/ /\ Settle(k)
            /\ Moved(k, job[k].approval, {"executing"},
                     IF job[k].kind = "reply" THEN "completed" ELSE "blocked")
  <1>0. StoreTypeOK /\ W(k) \in Works
    BY AtType DEF Refuse, BeginReply, RecordSent, RecordUnsent, Settle, At, TypeOK
  <1>1. CASE BeginReply(k)
    <2>1. ReplyKey(W(k)) \in Keys /\ attempts[W(k)] \in [Keys -> AttemptStatus]
      BY <1>0, WorkKeyTypes DEF ReplyKey, StoreTypeOK
    <2> QED
      BY <1>0, <1>1, <2>1, OneRow DEF BeginReply, BeginReplyAction, Moved, Read, storeVars
  <1>2. CASE RecordSent(k) \/ RecordUnsent(k)
    <2>1. job[k].key \in Keys
      BY <1>2, AtType DEF RecordSent, RecordUnsent, At, JobOK
    <2> QED
      BY <1>0, <1>2, <2>1, OneRow DEF RecordSent, RecordUnsent, CompleteAttempt, Moved, Read, Fail, storeVars
  <1>3. CASE Refuse(k) \/ Settle(k)
    <2>1. job[k].approval \in Keys
      BY <1>3, AtType DEF Refuse, Settle, At, JobOK
    <2> QED
      BY <1>0, <1>3, <2>1, OneRow DEF Refuse, Settle, CompleteAttempt, Moved, Read, Fail, storeVars
  <1> QED
    BY <1>1, <1>2, <1>3

-----------------------------------------------------------------------------
(* The jobs past the gate.                                                  *)

Rest(new, old) == /\ new.work = old.work /\ new.approval = old.approval
                  /\ new.draft = old.draft /\ new.next = old.next
SameKind(new, old) == new.kind = old.kind
SameKey(new, old) == new.key = old.key
Told(new, old) == new.notified = old.notified

NoticeRow(k) ==
  LET new == job'[k]
      old == job[k]
  IN  /\ Rest(new, old) /\ SameKind(new, old)
      /\ \/ /\ new.pc \in {"failed", "notify", "notified"} /\ SameKey(new, old) /\ Told(new, old)
            /\ new.pc = "notify" => old.pc = "notice_lease"
            /\ new.pc = "notified" => old.pc = "notify"
         \/ /\ old.pc = "notice" /\ new.pc = "notice_lease" /\ Told(new, old)
            /\ new.key = NoticeKey(W(k), old.draft)
         \/ /\ old.pc = "notice" /\ new.pc = old.next /\ new.notified = TRUE
            /\ attempts[W(k)][NoticeKey(W(k), old.draft)] = "completed"
         \/ /\ old.pc = "notified" /\ new.pc = old.next /\ new.notified = TRUE
            /\ CompleteAttempt(W(k), old.key, "completed")

LEMMA NoticeRows ==
  ASSUME TypeOK, NEW k \in Workers, NoticeBegin(k) \/ NoticeLease(k) \/ Notify(k) \/ Notified(k)
  PROVE  NoticeRow(k)
  <1>0. job[k] \in Job
    BY DEF TypeOK, QueueTypeOK
  <1>1. CASE NoticeLease(k) \/ Notify(k)
    <2>1. \E pc \in {"failed", "notify", "notified"} :
            /\ job'[k] = [job[k] EXCEPT !.pc = pc]
            /\ pc = "notify" => job[k].pc = "notice_lease"
            /\ pc = "notified" => job[k].pc = "notify"
      BY <1>1, Lands1 DEF NoticeLease, Notify, At
    <2> QED
      BY <1>0, <2>1 DEF NoticeRow, Job, Rest, SameKind, SameKey, Told
  <1>2. CASE NoticeBegin(k)
    <2>1. \/ job'[k] = [job[k] EXCEPT !.pc = "notice_lease", !.key = NoticeKey(W(k), job[k].draft)]
          \/ /\ job'[k] = [job[k] EXCEPT !.pc = job[k].next, !.notified = TRUE]
             /\ attempts[W(k)][NoticeKey(W(k), job[k].draft)] = "completed"
      BY <1>2, Lands1 DEF NoticeBegin
    <2>2. job[k].pc = "notice"
      BY <1>2 DEF NoticeBegin, At
    <2> QED
      BY <1>0, <2>1, <2>2 DEF NoticeRow, Job, Rest, SameKind, SameKey, Told
  <1>3. CASE Notified(k)
    <2>1. \/ job'[k] = [job[k] EXCEPT !.pc = "failed"]
          \/ /\ job'[k] = [job[k] EXCEPT !.pc = job[k].next, !.notified = TRUE, !.key = NoKey]
             /\ CompleteAttempt(W(k), job[k].key, "completed")
      BY <1>3, Lands1 DEF Notified
    <2>2. job[k].pc = "notified"
      BY <1>3 DEF Notified, At
    <2> QED
      BY <1>0, <2>1, <2>2 DEF NoticeRow, Job, Rest, SameKind, SameKey, Told
  <1> QED
    BY <1>1, <1>2, <1>3

(* From the gate on.                                                        *)
ReplyRow(k) ==
  LET new == job'[k]
      old == job[k]
  IN  /\ new.work = old.work /\ new.draft = old.draft /\ Told(new, old)
      /\ \/ /\ new.pc = "failed" /\ new.approval = old.approval
         \/ /\ old.pc = "gate" /\ new.pc \in {"request", "begin_reply"} /\ Rest(new, old)
            /\ new.pc = "begin_reply" => old.draft \notin Risky
         \/ /\ old.pc \in {"gate", "refused"} /\ new.pc = "closing" /\ new.kind = "ignore"
            /\ Rest(new, old)
         \/ /\ old.pc = "gate" /\ new.pc \in {"refused", "begin_reply"} /\ new.next = old.next
            /\ new.approval = ApprovalKey(W(k), old.draft)
            /\ ConsumeAttempt(W(k), new.approval)
         \/ /\ old.pc = "begin_reply" /\ new.pc = "send" /\ Rest(new, old) /\ new.key = ReplyKey(W(k))
         \/ /\ old.pc = "begin_reply" /\ new.pc = "replied" /\ Rest(new, old)
            /\ attempts[W(k)][ReplyKey(W(k))] = "completed"
         \/ /\ old.pc = "sent" /\ new.kind = "reply" /\ Rest(new, old)
            /\ new.pc = IF old.approval = NoKey THEN "replied" ELSE "settle"
         \/ /\ old.pc = "unsent" /\ new.pc = "settle" /\ new.kind = "none" /\ Rest(new, old)
         \/ /\ old.pc = "settle" /\ new.pc = "replied" /\ Rest(new, old) /\ SameKind(new, old)
            /\ old.kind = "reply"
         \/ /\ old.pc = "replied" /\ new.pc = "closing" /\ SameKind(new, old)
            /\ new.approval = old.approval /\ (W(k) \in Delegated => old.notified)
         \/ /\ old.pc = "replied" /\ new.pc = "notice" /\ new.next = "closing"
            /\ new.approval = old.approval /\ SameKind(new, old)
         \/ /\ old.pc \in {"closing", "close"} /\ new.pc = "close" /\ Rest(new, old) /\ SameKind(new, old)

LEMMA GateRow ==
  ASSUME TypeOK, NEW k \in Workers, Gate(k)
  PROVE  ReplyRow(k)
  <1>0. job[k] \in Job /\ job[k].pc = "gate" /\ W(k) = job[k].work
    BY DEF TypeOK, QueueTypeOK, Gate, At, W
  <1> DEFINE key == ApprovalKey(W(k), job[k].draft)
  <1>1. \/ \E verdict \in Verdicts(k) :
             /\ ConsumeAttempt(W(k), key)
             /\ Become(k, [job[k] EXCEPT !.approval = key,
                             !.pc = IF verdict = "cancelled" THEN "refused" ELSE "begin_reply"])
        \/ Read(k, [job[k] EXCEPT !.pc = "closing", !.kind = "ignore"])
        \/ Read(k, [job[k] EXCEPT !.pc = "request"])
        \/ Fail(k)
        \/ "ready" \in Verdicts(k) /\ ~job[k].granted /\ Read(k, [job[k] EXCEPT !.pc = "begin_reply"])
    BY DEF Gate, ConsumeReplyApproval
  <1>2. CASE Fail(k)
    BY <1>0, <1>2, Lands1 DEF ReplyRow, Job, Rest, SameKind, SameKey, Told
  <1>3. CASE Read(k, [job[k] EXCEPT !.pc = "closing", !.kind = "ignore"])
    <2>1. job'[k] = [job[k] EXCEPT !.pc = "closing", !.kind = "ignore"]
      BY <1>3, Lands1
    <2>2. /\ job'[k].pc = "closing" /\ job'[k].kind = "ignore" /\ Rest(job'[k], job[k])
          /\ Told(job'[k], job[k])
      BY <1>0, <2>1 DEF Job, Rest, Told
    <2> QED
      BY <1>0, <2>2 DEF ReplyRow, Rest
  <1>4. CASE Read(k, [job[k] EXCEPT !.pc = "request"])
    <2>1. job'[k] = [job[k] EXCEPT !.pc = "request"]
      BY <1>4, Lands1
    <2>2. /\ job'[k].pc \in {"request", "begin_reply"} /\ Rest(job'[k], job[k])
          /\ job'[k].pc = "begin_reply" => job[k].draft \notin Risky
      BY <1>0, <2>1 DEF Job, Rest
    <2>3. /\ job'[k].work = job[k].work /\ job'[k].draft = job[k].draft
          /\ Told(job'[k], job[k])
      BY <1>0, <2>1 DEF Job, Told
    <2> QED
      BY <1>0, <2>2, <2>3 DEF ReplyRow
  <1>5. CASE "ready" \in Verdicts(k) /\ ~job[k].granted /\ Read(k, [job[k] EXCEPT !.pc = "begin_reply"])
    <2>1. job[k].draft \notin Risky
      BY <1>5 DEF Verdicts
    <2>2. job'[k] = [job[k] EXCEPT !.pc = "begin_reply"]
      BY <1>5, Lands1
    <2>3. /\ job'[k].pc \in {"request", "begin_reply"} /\ Rest(job'[k], job[k])
          /\ job'[k].pc = "begin_reply" => job[k].draft \notin Risky
      BY <1>0, <2>1, <2>2 DEF Job, Rest
    <2>4. /\ job'[k].work = job[k].work /\ job'[k].draft = job[k].draft
          /\ Told(job'[k], job[k])
      BY <1>0, <2>2 DEF Job, Told
    <2> QED
      BY <1>0, <2>3, <2>4 DEF ReplyRow
  <1>6. ASSUME NEW verdict \in Verdicts(k), ConsumeAttempt(W(k), key),
               Become(k, [job[k] EXCEPT !.approval = key,
                            !.pc = IF verdict = "cancelled" THEN "refused" ELSE "begin_reply"])
        PROVE  ReplyRow(k)
    <2> DEFINE pc == IF verdict = "cancelled" THEN "refused" ELSE "begin_reply"
    <2>1. pc \in {"refused", "begin_reply"}
      OBVIOUS
    <2>2. job'[k] = [job[k] EXCEPT !.approval = key, !.pc = pc]
      BY <1>6, Lands1
    <2> HIDE DEF pc, key
    <2>3. /\ job'[k].pc = pc /\ job'[k].approval = key /\ job'[k].work = job[k].work
          /\ job'[k].draft = job[k].draft /\ job'[k].next = job[k].next /\ Told(job'[k], job[k])
      BY <1>0, <2>2 DEF Job, Rest, SameKind, SameKey, Told
    <2> QED
      BY <1>0, <1>6, <2>1, <2>3 DEF ReplyRow, key
  <1> HIDE DEF key
  <1> QED
    BY <1>1, <1>2, <1>3, <1>4, <1>5, <1>6

LEMMA ReplyRows ==
  ASSUME TypeOK, NEW k \in Workers,
         \/ Refuse(k) \/ BeginReply(k) \/ RecordSent(k) \/ RecordUnsent(k)
         \/ Settle(k) \/ Replied(k) \/ Closing(k) \/ (Close(k) /\ job'[k] # Idle)
  PROVE  ReplyRow(k)
  <1>0. job[k] \in Job /\ W(k) = job[k].work
    BY DEF TypeOK, QueueTypeOK, W
  <1>1. ASSUME job'[k] = [job[k] EXCEPT !.pc = "failed"] PROVE ReplyRow(k)
    BY <1>0, <1>1 DEF ReplyRow, Job, Rest, SameKind, SameKey, Told
  <1>2. CASE Refuse(k) \/ BeginReply(k)
    <2>1. \/ job'[k] = [job[k] EXCEPT !.pc = "failed"]
          \/ /\ job[k].pc = "refused"
             /\ job'[k] = [job[k] EXCEPT !.pc = "closing", !.kind = "ignore"]
          \/ /\ job[k].pc = "begin_reply"
             /\ job'[k] = [job[k] EXCEPT !.pc = "send", !.key = ReplyKey(W(k))]
          \/ /\ job[k].pc = "begin_reply" /\ attempts[W(k)][ReplyKey(W(k))] = "completed"
             /\ job'[k] = [job[k] EXCEPT !.pc = "replied", !.kind = "reply"]
      BY <1>2, Lands1 DEF Refuse, BeginReply, At
    <2> QED
      BY <1>0, <1>1, <2>1 DEF ReplyRow, Job, Rest, SameKind, SameKey, Told
  <1>3. CASE RecordSent(k)
    <2> DEFINE pc == IF job[k].approval = NoKey THEN "replied" ELSE "settle"
    <2>1. \/ job'[k] = [job[k] EXCEPT !.pc = "failed"]
          \/ job'[k] = [job[k] EXCEPT !.pc = pc, !.kind = "reply"]
      BY <1>3, Lands1 DEF RecordSent
    <2>2. job[k].pc = "sent"
      BY <1>3 DEF RecordSent, At
    <2>3. CASE job'[k] = [job[k] EXCEPT !.pc = pc, !.kind = "reply"]
      <3> HIDE DEF pc
      <3>1. /\ job'[k].pc = pc /\ job'[k].kind = "reply" /\ Rest(job'[k], job[k])
            /\ Told(job'[k], job[k])
        BY <1>0, <2>3 DEF Job, Rest, SameKind, SameKey, Told
      <3> QED
        BY <2>2, <3>1 DEF ReplyRow, Rest, pc
    <2> QED
      BY <1>1, <2>1, <2>3
  <1>4. CASE RecordUnsent(k)
    <2>1. \/ job'[k] = [job[k] EXCEPT !.pc = "failed", !.kind = "none"]
          \/ job'[k] = [job[k] EXCEPT !.pc = "settle", !.kind = "none"]
      BY <1>4, Lands1 DEF RecordUnsent
    <2>2. job[k].pc = "unsent"
      BY <1>4 DEF RecordUnsent, At
    <2> QED
      BY <1>0, <2>1, <2>2 DEF ReplyRow, Job, Rest, SameKind, SameKey, Told
  <1>5. CASE Settle(k)
    <2>1. \/ job'[k] = [job[k] EXCEPT !.pc = "failed"]
          \/ job[k].kind = "reply" /\ job'[k] = [job[k] EXCEPT !.pc = "replied"]
      BY <1>5, Lands1 DEF Settle
    <2>2. job[k].pc = "settle"
      BY <1>5 DEF Settle, At
    <2> QED
      BY <1>0, <1>1, <2>1, <2>2 DEF ReplyRow, Job, Rest, SameKind, SameKey, Told
  <1>6. CASE Replied(k)
    <2>1. \/ /\ W(k) \in Delegated /\ ~job[k].notified
             /\ job'[k] = [job[k] EXCEPT !.pc = "notice", !.next = "closing"]
          \/ /\ ~(W(k) \in Delegated /\ ~job[k].notified)
             /\ job'[k] = [job[k] EXCEPT !.pc = "closing", !.next = "closing"]
      BY <1>6, Lands1 DEF Replied
    <2>2. job[k].pc = "replied"
      BY <1>6 DEF Replied, At
    <2> QED
      BY <1>0, <2>1, <2>2 DEF ReplyRow, Job, Rest, SameKind, SameKey, Told
  <1>7. CASE Closing(k) \/ (Close(k) /\ job'[k] # Idle)
    <2>1. \/ job'[k] = [job[k] EXCEPT !.pc = "failed"]
          \/ job[k].pc = "closing" /\ job'[k] = [job[k] EXCEPT !.pc = "close"]
          \/ job[k].pc = "close" /\ job'[k] = [job[k] EXCEPT !.held = FALSE]
      BY <1>7, Lands1 DEF Closing, Close, At, Stop
    <2> QED
      BY <1>0, <1>1, <2>1 DEF ReplyRow, Job, Rest, SameKind, SameKey, Told
  <1> QED
    BY <1>2, <1>3, <1>4, <1>5, <1>6, <1>7

-----------------------------------------------------------------------------
(* The inductive invariant.                                                 *)

Accepted(w, g) == \E d \in Drafts : <<g, d>> \in delivered[w]
Holding(k) == job[k].pc # "idle" /\ Holds(k)

(* The job reports its reply, and closes its work item with it.             *)
Closes(row) == \/ row.pc \in {"settle", "replied", "closing", "close"}
               \/ row.pc \in Noticing /\ row.next # "handle"

(* What a job says it sent was accepted; while it has the lease, in the      *)
(* current generation.                                                       *)
AnswerInv(k) ==
  /\ job[k].pc = "sent" => Accepted(W(k), job[k].key.gen)
  /\ job[k].pc \in {"send", "sent"} /\ job[k].approval # NoKey => job[k].approval.gen = job[k].key.gen
  /\ job[k].pc = "settle" /\ job[k].kind = "reply" => Accepted(W(k), job[k].approval.gen)
  /\ Holding(k) /\ job[k].pc \in {"send", "sent"} => job[k].key.gen = work[W(k)].gen
  /\ Holding(k) /\ job[k].kind = "reply" /\ Closes(job[k]) => Accepted(W(k), work[W(k)].gen)

Noticed(w) == \E d \in Drafts : attempts[w][NoticeKey(w, d)] = "completed"

(* And what it says the owner was told of is recorded.                      *)
TellInv(k) ==
  /\ Holding(k) /\ job[k].pc \in {"notice_lease", "notify", "notified"} =>
       \E d \in Drafts : job[k].key = NoticeKey(W(k), d)
  /\ Holding(k) /\ job[k].notified => Noticed(W(k))
  /\ job[k].pc \in {"closing", "close"} /\ job[k].kind = "reply" /\ W(k) \in Delegated
     => job[k].notified

ReplyJob(k) == SendInv(k) /\ KindInv(k) /\ AnswerInv(k) /\ TellInv(k)

(* An approval is consumed by one job at a time.                            *)
OneConsumer == \A k, l \in Workers :
                 /\ Consumes(k) /\ Consumes(l)
                 /\ W(k) = W(l) /\ job[k].approval = job[l].approval
                 => k = l

(* What the audit rows say was approved and accepted.                       *)
GrantInv(w) ==
  /\ \A key \in ApprovalKeys :
       attempts[w][key] \in {"ready", "executing"} => <<key.gen, key.item>> \in approved[w]
  /\ \A g \in Generations, d \in Risky : <<g, d>> \in delivered[w] => <<g, d>> \in approved[w]

AcceptInv(w) ==
  \A key \in ReplyKeys \cup ApprovalKeys : attempts[w][key] = "completed" => Accepted(w, key.gen)

CloseInv(w) ==
  work[w].status = "completed" /\ work[w].decision = "reply" =>
    /\ Accepted(w, work[w].gen)
    /\ w \in Delegated => Noticed(w)

ReplyInv == /\ \A k \in Workers : ReplyJob(k)
            /\ OneConsumer
            /\ \A w \in Works : GrantInv(w) /\ AcceptInv(w) /\ CloseInv(w)

-----------------------------------------------------------------------------
(* Jobs that a step leaves alone, ends or begins.                           *)

(* The world only grows: approvals given, replies accepted, rows completed.  *)
Grows == /\ \A w \in Works : approved[w] \subseteq approved'[w] /\ delivered[w] \subseteq delivered'[w]
         /\ LawfulStep

(* The lease of a work item is not gained, nor its generation changed under  *)
(* it.                                                                       *)
KeepsClaim(w, k) == HoldsLease(w, k)' => HoldsLease(w, k) /\ work'[w].gen = work[w].gen

LEMMA GrowsAccepted ==
  ASSUME Grows, NEW w \in Works, NEW g
  PROVE  Accepted(w, g) => Accepted(w, g)'
  BY DEF Grows, Accepted

LEMMA GrowsNoticed ==
  ASSUME StoreTypeOK, Grows, NEW w \in Works, work'[w].gen = work[w].gen
  PROVE  Noticed(w) => Noticed(w)'
  <1> SUFFICES ASSUME NEW d \in Drafts, attempts[w][NoticeKey(w, d)] = "completed"
               PROVE  attempts'[w][NoticeKey(w, d)'] = "completed"
    BY DEF Noticed
  <1>1. NoticeKey(w, d) \in Keys /\ NoticeKey(w, d) # RequiredKey
    BY WorkKeyTypes, DistinctKeys DEF NoticeKey
  <1>2. NoticeKey(w, d)' = NoticeKey(w, d)
    BY DEF NoticeKey
  <1> QED
    BY <1>1, <1>2 DEF Grows, LawfulStep, Lawful

LEMMA IdleReply ==
  ASSUME NEW k \in Workers, job'[k] = Idle
  PROVE  ReplyJob(k)' /\ ~Consumes(k)'
  BY DEF ReplyJob, SendInv, KindInv, AnswerInv, TellInv, Idle, Consumes, Holding, Consuming, Noticing,
         Closes

LEMMA ReplyKept ==
  ASSUME TypeOK, NEW k \in Workers, job'[k] = job[k], ReplyJob(k), Grows,
         \A w \in Works : KeepsClaim(w, k),
         Consumes(k) => /\ attempts'[W(k)][job[k].approval] = "executing"
                        /\ work'[W(k)].gen = work[W(k)].gen
  PROVE  ReplyJob(k)'
  <1>1. CASE job[k].pc = "idle"
    <2>1. job'[k] = Idle
      BY <1>1 DEF TypeOK, QueueTypeOK, JobOK
    <2> QED
      BY <2>1, IdleReply
  <1>2. CASE job[k].pc # "idle"
    <2>1. W(k) \in Works /\ W(k)' = W(k) /\ StoreTypeOK
      BY <1>2, AtType DEF W
    <2>2. Holding(k)' => Holding(k) /\ work'[W(k)].gen = work[W(k)].gen
      BY <2>1 DEF Holding, Holds, KeepsClaim, HoldsLease
    <2>3. SendInv(k)'
      BY <2>1 DEF ReplyJob, SendInv, Grows, Consumes, ApprovalKey
    <2>4. KindInv(k)'
      BY DEF ReplyJob, KindInv
    <2>5. AnswerInv(k)'
      BY <2>1, <2>2, GrowsAccepted DEF ReplyJob, AnswerInv, Closes
    <2>6. TellInv(k)'
      BY <2>1, <2>2, GrowsNoticed DEF ReplyJob, TellInv, NoticeKey
    <2> QED
      BY <2>3, <2>4, <2>5, <2>6 DEF ReplyJob
  <1> QED
    BY <1>1, <1>2

LEMMA ClaimReply ==
  ASSUME TypeOK, NEW k \in Workers, Claim(k)
  PROVE  ReplyJob(k)' /\ ~Consumes(k)'
  <1>1. PICK w \in Works :
          Become(k, [Idle EXCEPT !.pc = "inspect", !.work = w, !.active = Contextual(w)])
    BY DEF Claim
  <1>2. job'[k] = [Idle EXCEPT !.pc = "inspect", !.work = w, !.active = Contextual(w)]
    BY <1>1, Lands1
  <1>3. job'[k].pc = "inspect" /\ job'[k].approval = NoKey /\ job'[k].notified = FALSE
    BY <1>2 DEF Idle
  <1> QED
    BY <1>3 DEF ReplyJob, SendInv, KindInv, AnswerInv, TellInv, Consumes, Consuming, Noticing, Closes

(* A job that stays with its work item while the world grows.               *)
Stays(k) == /\ W(k) \in Works /\ job'[k].work = W(k)
            /\ KeepsClaim(W(k), k)
            /\ work'[W(k)].gen = work[W(k)].gen
            /\ Grows

LEMMA StaysHolding ==
  ASSUME NEW k \in Workers, Stays(k), job[k].pc # "idle"
  PROVE  W(k)' = W(k) /\ (Holding(k)' => Holding(k))
  BY DEF Stays, W, Holding, Holds, KeepsClaim, HoldsLease

LEMMA StaysTold ==
  ASSUME StoreTypeOK, NEW k \in Workers, Stays(k), job[k].pc # "idle", TellInv(k),
         job'[k].notified = job[k].notified
  PROVE  Holding(k)' /\ job'[k].notified => Noticed(W(k))'
  <1>1. W(k)' = W(k) /\ (Holding(k)' => Holding(k)) /\ W(k) \in Works
    BY StaysHolding DEF Stays
  <1>2. Noticed(W(k)) => Noticed(W(k))'
    <2>1. ASSUME NEW w \in Works, w = W(k) PROVE Noticed(w) => Noticed(w)'
      BY <2>1, GrowsNoticed DEF Stays
    <2>2. ASSUME NEW w \in Works, w = W(k), Noticed(w) => Noticed(w)'
          PROVE  Noticed(W(k)) => Noticed(W(k))'
      BY <2>2, <1>1
    <2> QED
      BY <1>1, <2>1, <2>2
  <1> QED
    BY <1>1, <1>2 DEF TellInv

LEMMA LeadingReply ==
  ASSUME TypeOK, NEW k \in Workers, ReplyJob(k), Stays(k), AcceptInv(W(k)), Leading(k),
         job[k].pc # "idle",
         job[k].pc \in Early \/ job'[k].pc \in {"failed", "terminal"}
  PROVE  ReplyJob(k)' /\ ~Consumes(k)'
  <1>1. W(k)' = W(k) /\ (Holding(k)' => Holding(k)) /\ W(k) \in Works /\ StoreTypeOK
        /\ work'[W(k)].gen = work[W(k)].gen
    BY StaysHolding DEF Stays, TypeOK
  <1>2. /\ job'[k].approval = job[k].approval /\ job'[k].notified = job[k].notified
        /\ Leads(job'[k], W(k))
    BY DEF Leading, Keeps
  <1>3. job[k].pc \in Early => job[k].approval = NoKey
    BY DEF ReplyJob, SendInv, Early
  <1>4. job'[k].pc \notin Consuming /\ job'[k].pc \notin {"notice_lease", "notify", "notified", "close", "replied"}
    BY <1>2 DEF Leads, Early, PastGate, Consuming, Noticing
  <1>5. SendInv(k)' /\ ~Consumes(k)' /\ KindInv(k)'
    BY <1>2, <1>3, <1>4 DEF SendInv, KindInv, Consumes, Consuming, PastGate, Ended
  <1>6. AnswerInv(k)'
    <2>1. job'[k].pc \notin {"send", "sent", "settle"}
      BY <1>4 DEF Consuming
    <2>2. Holding(k)' /\ job'[k].kind = "reply" /\ Closes(job'[k]) => Accepted(W(k), work[W(k)].gen)'
      <3> SUFFICES ASSUME job'[k].kind = "reply", Closes(job'[k])
                   PROVE  Accepted(W(k), work[W(k)].gen)'
        OBVIOUS
      <3>1. ReplyCompleted(W(k))
        BY <1>2, <1>4 DEF Leads, Closes, Early, PastGate, Consuming, Noticing
      <3>2. Accepted(W(k), work[W(k)].gen)
        BY <3>1 DEF ReplyCompleted, AcceptInv
      <3> QED
        BY <1>1, <3>2, GrowsAccepted DEF Stays
    <2> QED
      BY <2>1, <2>2 DEF AnswerInv
  <1>7. TellInv(k)'
    <2>1. Holding(k)' /\ job'[k].notified => Noticed(W(k))'
      BY <1>1, <1>2, StaysTold DEF ReplyJob
    <2>2. ~(job'[k].pc \in {"closing", "close"} /\ job'[k].kind = "reply")
      BY <1>2, <1>4 DEF Leads, Early, PastGate
    <2> QED
      BY <1>4, <2>1, <2>2 DEF TellInv
  <1> QED
    BY <1>5, <1>6, <1>7 DEF ReplyJob

-----------------------------------------------------------------------------
(* Jobs that tell the owner, send and settle.                               *)

LEMMA NoticeReply ==
  ASSUME TypeOK, NEW k \in Workers, ReplyJob(k), Stays(k), NoticeRow(k),
         job[k].pc \in Noticing, AnswersKept
  PROVE  ReplyJob(k)' /\ ~Consumes(k)'
  <1>1. W(k)' = W(k) /\ (Holding(k)' => Holding(k)) /\ W(k) \in Works /\ StoreTypeOK
        /\ work'[W(k)].gen = work[W(k)].gen /\ job[k].pc # "idle"
    BY StaysHolding DEF Stays, TypeOK, Noticing
  <1>2. job[k].next \in {"close", "handle", "closing"} /\ job[k].draft \in Drafts
    BY <1>1, AtType DEF JobOK, Job, Noticing, Drafting
  <1>3. /\ job'[k].approval = job[k].approval /\ job'[k].next = job[k].next /\ job'[k].kind = job[k].kind
        /\ job'[k].pc \in {"failed", "notify", "notified", "notice_lease", "close", "handle", "closing"}
        /\ job'[k].pc \in {"close", "handle", "closing"} => job'[k].pc = job[k].next
    BY <1>2 DEF NoticeRow, Rest, SameKind
  <1>4. job[k].approval # NoKey => job[k].next = "closing"
    BY DEF ReplyJob, SendInv, Noticing, PastGate, Consuming, Ended
  <1>5. SendInv(k)' /\ ~Consumes(k)'
    BY <1>3, <1>4 DEF SendInv, Consumes, Consuming, Noticing, PastGate, Ended
  <1>6. job'[k].pc \in {"notice_lease", "notify", "notified"} =>
          \/ job'[k].key = NoticeKey(W(k), job[k].draft)
          \/ job'[k].key = job[k].key /\ job[k].pc \in {"notice_lease", "notify"}
    BY <1>2 DEF NoticeRow, SameKey
  <1>7. KindInv(k)'
    BY <1>3, <1>6, AnswerKinds DEF ReplyJob, KindInv, NoticeKey
  <1>8. AnswerInv(k)'
    <2>1. Closes(job'[k]) => Closes(job[k])
      BY <1>2, <1>3 DEF Closes, Noticing
    <2>2. Accepted(W(k), work[W(k)].gen) => Accepted(W(k), work[W(k)].gen)'
      BY <1>1, GrowsAccepted DEF Stays
    <2> QED
      BY <1>1, <1>3, <2>1, <2>2 DEF ReplyJob, AnswerInv
  <1>9. TellInv(k)'
    <2>1. CASE job'[k].notified = job[k].notified
      <3>1. Holding(k)' /\ job'[k].notified => Noticed(W(k))'
        BY <1>1, <2>1, StaysTold DEF ReplyJob
      <3>2. job'[k].pc \in {"close", "handle", "closing"} => job'[k].notified = TRUE
        BY <1>2 DEF NoticeRow
      <3>3. NoticeKey(W(k), job[k].draft)' = NoticeKey(W(k), job[k].draft)
            /\ \A d : NoticeKey(W(k), d)' = NoticeKey(W(k), d)
        BY <1>1 DEF NoticeKey, NoticeRow, Rest
      <3>4. Holding(k)' /\ job'[k].pc \in {"notice_lease", "notify", "notified"} =>
              \E d \in Drafts : job'[k].key = NoticeKey(W(k), d)'
        BY <1>1, <1>2, <1>6, <3>3 DEF ReplyJob, TellInv
      <3> QED
        BY <1>1, <3>1, <3>2, <3>4 DEF TellInv
    <2>2. CASE job'[k].notified # job[k].notified
      <3>1. job'[k].pc = job[k].next /\ job'[k].notified = TRUE
        BY <2>2 DEF NoticeRow, Told
      <3>2. Holding(k)' => Noticed(W(k))'
        <4>1. ASSUME Holding(k), NEW d \in Drafts, attempts'[W(k)][NoticeKey(W(k), d)] = "completed"
              PROVE  Noticed(W(k))'
          BY <1>1, <4>1 DEF Noticed, NoticeKey
        <4>2. CASE job[k].pc = "notice"
          <5>1. attempts[W(k)][NoticeKey(W(k), job[k].draft)] = "completed"
            BY <2>2, <4>2 DEF NoticeRow, Told
          <5>2. NoticeKey(W(k), job[k].draft) \in Keys /\ NoticeKey(W(k), job[k].draft) # RequiredKey
            BY <1>1, <1>2, WorkKeyTypes, DistinctKeys DEF NoticeKey
          <5>3. attempts'[W(k)][NoticeKey(W(k), job[k].draft)] = "completed"
            BY <1>1, <5>1, <5>2 DEF Stays, Grows, LawfulStep, Lawful
          <5> QED
            BY <1>1, <1>2, <4>1, <5>3
        <4>3. CASE job[k].pc = "notified"
          <5>1. CompleteAttempt(W(k), job[k].key, "completed")
            BY <2>2, <4>3 DEF NoticeRow, Told
          <5>2. job[k].key \in Keys
            BY <1>1, <4>3, AtType DEF JobOK
          <5>3. attempts'[W(k)][job[k].key] = "completed"
            BY <1>1, <5>1, <5>2, OneRow DEF CompleteAttempt
          <5>4. Holding(k) => \E d \in Drafts : job[k].key = NoticeKey(W(k), d)
            BY <4>3 DEF ReplyJob, TellInv
          <5> QED
            BY <1>1, <4>1, <5>3, <5>4
        <4> QED
          BY <2>2, <4>2, <4>3 DEF NoticeRow, Told
      <3> QED
        BY <1>1, <1>2, <3>1, <3>2 DEF TellInv
    <2> QED
      BY <2>1, <2>2
  <1> QED
    BY <1>5, <1>7, <1>8, <1>9 DEF ReplyJob

(* A job that is past the gate does not touch the approval it consumed      *)
(* until it has settled it.                                                  *)
KeepsApproval(k) ==
  Consumes(k) /\ job'[k].pc \in Consuming =>
    attempts'[W(k)][job[k].approval] = attempts[W(k)][job[k].approval]

LEMMA ReplyReply ==
  ASSUME TypeOK, NEW k \in Workers, ReplyJob(k), Stays(k), ReplyRow(k),
         job[k].pc \in {"gate"} \cup PastGate, job[k].pc # "idle",
         GrantInv(W(k)), AcceptInv(W(k)), approved' = approved, KeepsApproval(k)
  PROVE  ReplyJob(k)'
  <1>1. W(k)' = W(k) /\ (Holding(k)' => Holding(k)) /\ W(k) \in Works /\ StoreTypeOK
        /\ work'[W(k)].gen = work[W(k)].gen /\ W(k) = job[k].work /\ job[k] \in Job
    BY StaysHolding, AtType DEF Stays
  <1>2. /\ job'[k].draft = job[k].draft /\ job'[k].notified = job[k].notified
        /\ job[k].pc = "gate" => job[k].approval = NoKey /\ job[k].draft \in Drafts
        /\ Holding(k)' /\ job'[k].notified => Noticed(W(k))'
    <2>1. job[k].pc = "gate" => job[k].approval = NoKey /\ job[k].draft \in Drafts
      BY AtType DEF ReplyJob, SendInv, PastGate, Consuming, Ended, Noticing, JobOK
    <2>2. job'[k].draft = job[k].draft /\ job'[k].notified = job[k].notified
      BY DEF ReplyRow, Told
    <2> QED
      BY <1>1, <2>1, <2>2, StaysTold DEF ReplyJob
  <1>3. \A g : Accepted(W(k), g) => Accepted(W(k), g)'
    BY <1>1, GrowsAccepted DEF Stays
  <1>4. \A d : ApprovalKey(W(k), d)' = ApprovalKey(W(k), d)
    BY <1>1 DEF ApprovalKey
  <1>5. KindInv(k)'
    BY AnswerKinds DEF ReplyJob, KindInv, ReplyRow, ReplyKey
  <1>6. TellInv(k)'
    BY <1>1, <1>2 DEF ReplyJob, TellInv, ReplyRow, SameKind
  <1>7. SendInv(k)'
    <2>1. job'[k].approval # NoKey =>
            job'[k].pc \in PastGate \/ (job'[k].pc \in Noticing /\ job'[k].next = "closing")
      BY <1>2 DEF ReplyRow, Rest, PastGate, Consuming, Ended, Noticing
    <2>2. Consumes(k)' => /\ job'[k].approval = ApprovalKey(W(k), job'[k].draft)
                         /\ attempts'[W(k)][job'[k].approval] = "executing"
      <3> SUFFICES ASSUME job'[k].pc \in Consuming, job'[k].approval # NoKey
                   PROVE  /\ job'[k].approval = ApprovalKey(W(k), job'[k].draft)
                          /\ attempts'[W(k)][job'[k].approval] = "executing"
        BY DEF Consumes
      <3>1. CASE job'[k].approval = job[k].approval
        <4>1. Consumes(k)
          BY <1>2, <3>1 DEF ReplyRow, Consumes, Consuming
        <4> QED
          BY <1>2, <3>1, <4>1 DEF ReplyJob, SendInv, KeepsApproval
      <3>2. CASE job'[k].approval # job[k].approval
        <4>1. /\ job[k].pc = "gate" /\ job'[k].approval = ApprovalKey(W(k), job[k].draft)
              /\ ConsumeAttempt(W(k), job'[k].approval)
          BY <3>2 DEF ReplyRow, Rest
        <4>2. job'[k].approval \in Keys
          BY <1>1, <1>2, <4>1, WorkKeyTypes DEF ApprovalKey
        <4> QED
          BY <1>1, <1>2, <4>1, <4>2, OneRow DEF ConsumeAttempt
      <3> QED
        BY <3>1, <3>2
    <2>3. job'[k].pc = "begin_reply" /\ job'[k].draft \in Risky => job'[k].approval # NoKey
      <3>1. CASE job'[k].approval = ApprovalKey(W(k), job[k].draft) /\ job[k].pc = "gate"
        BY <1>1, <1>2, <3>1, WorkKeyTypes, KeyNull DEF ApprovalKey
      <3>2. CASE ~(job'[k].approval = ApprovalKey(W(k), job[k].draft) /\ job[k].pc = "gate")
        BY <1>2, <3>2 DEF ReplyRow
      <3> QED
        BY <3>1, <3>2
    <2>4. job'[k].pc = "send" /\ job'[k].draft \in Risky =>
            <<job'[k].key.gen, job'[k].draft>> \in approved'[W(k)]
      <3> SUFFICES ASSUME job'[k].pc = "send", job'[k].draft \in Risky
                   PROVE  <<job'[k].key.gen, job'[k].draft>> \in approved'[W(k)]
        OBVIOUS
      <3>1. job[k].pc = "begin_reply" /\ job'[k].key = ReplyKey(W(k))
        BY DEF ReplyRow
      <3>2. Consumes(k)
        BY <1>2, <3>1 DEF ReplyJob, SendInv, Consumes, Consuming
      <3>3. /\ job[k].approval = ApprovalKey(W(k), job[k].draft)
            /\ attempts[W(k)][job[k].approval] = "executing"
        BY <3>2 DEF ReplyJob, SendInv
      <3>4. job[k].approval \in ApprovalKeys
        <4>1. work[W(k)].gen \in Generations /\ job[k].draft \in Drafts
          BY <1>1, <1>2, QueueParameters DEF StoreTypeOK, WorkRow
        <4> QED
          BY <3>3, <4>1 DEF ApprovalKey, ApprovalKeys
      <3>5. <<job[k].approval.gen, job[k].approval.item>> \in approved[W(k)]
        BY <3>3, <3>4 DEF GrantInv
      <3> QED
        BY <1>2, <3>1, <3>3, <3>5, AnswerKinds DEF ApprovalKey, ReplyKey
    <2> QED
      BY <1>1, <2>1, <2>2, <2>3, <2>4, <1>4 DEF SendInv
  <1>8. AnswerInv(k)'
    <2>1. job'[k].pc # "sent"
      BY DEF ReplyRow
    <2>2. ASSUME job'[k].pc = "send"
          PROVE  /\ job'[k].key.gen = work[W(k)].gen
                 /\ job'[k].approval # NoKey => job'[k].approval.gen = job'[k].key.gen
      <3>1. job[k].pc = "begin_reply" /\ job'[k].key = ReplyKey(W(k)) /\ job'[k].approval = job[k].approval
        BY <2>2 DEF ReplyRow, Rest
      <3>2. job[k].approval # NoKey => job[k].approval = ApprovalKey(W(k), job[k].draft)
        BY <3>1 DEF ReplyJob, SendInv, Consumes, Consuming
      <3> QED
        BY <3>1, <3>2, AnswerKinds DEF ApprovalKey, ReplyKey
    <2>3. job'[k].pc = "settle" /\ job'[k].kind = "reply" => Accepted(W(k), job'[k].approval.gen)
      <3> SUFFICES ASSUME job'[k].pc = "settle", job'[k].kind = "reply"
                   PROVE  Accepted(W(k), job'[k].approval.gen)
        OBVIOUS
      <3>1. job[k].pc = "sent" /\ job[k].approval # NoKey /\ job'[k].approval = job[k].approval
        BY DEF ReplyRow, Rest
      <3> QED
        BY <3>1 DEF ReplyJob, AnswerInv
    <2>4. Holding(k) /\ job'[k].kind = "reply" /\ Closes(job'[k]) => Accepted(W(k), work[W(k)].gen)
      <3> SUFFICES ASSUME Holding(k), job'[k].kind = "reply", Closes(job'[k])
                   PROVE  Accepted(W(k), work[W(k)].gen)
        OBVIOUS
      <3>1. CASE job[k].pc = "begin_reply"
        <4>1. attempts[W(k)][ReplyKey(W(k))] = "completed"
          BY <3>1 DEF ReplyRow, Closes, Noticing
        <4>2. ReplyKey(W(k)) \in ReplyKeys /\ ReplyKey(W(k)).gen = work[W(k)].gen
          BY <1>1, AnswerKinds DEF StoreTypeOK, WorkRow, ReplyKey, ReplyKeys
        <4> QED
          BY <4>1, <4>2 DEF AcceptInv
      <3>2. CASE job[k].pc = "sent"
        BY <3>2 DEF ReplyJob, AnswerInv
      <3>3. CASE job[k].pc \in {"settle", "replied", "closing", "close"}
        <4>1. job[k].kind = "reply"
          BY <3>3 DEF ReplyRow, SameKind, Closes, Noticing
        <4> QED
          BY <3>3, <4>1 DEF ReplyJob, AnswerInv, Closes
      <3> QED
        BY <3>1, <3>2, <3>3 DEF ReplyRow, Closes, Noticing
    <2>5. Holding(k)' /\ job'[k].kind = "reply" /\ Closes(job'[k]) => Accepted(W(k), work[W(k)].gen)'
      BY <1>1, <2>4, GrowsAccepted DEF Stays
    <2>6. job'[k].pc = "settle" /\ job'[k].kind = "reply" => Accepted(W(k), job[k].approval.gen)'
      <3> SUFFICES ASSUME job'[k].pc = "settle", job'[k].kind = "reply"
                   PROVE  \E d \in Drafts : <<job'[k].approval.gen, d>> \in delivered'[W(k)]
        BY <1>1 DEF Accepted
      <3>1. \E d \in Drafts : <<job'[k].approval.gen, d>> \in delivered[W(k)]
        BY <2>3 DEF Accepted
      <3> QED
        BY <1>1, <3>1 DEF Stays, Grows
    <2> QED
      BY <1>1, <2>1, <2>2, <2>5, <2>6 DEF AnswerInv
  <1> QED
    BY <1>5, <1>6, <1>7, <1>8 DEF ReplyJob

LEMMA SendRow ==
  ASSUME TypeOK, NEW k \in Workers, Send(k)
  PROVE  /\ job[k].pc = "send" /\ job'[k].pc \in {"sent", "unsent"}
         /\ Rest(job'[k], job[k]) /\ SameKind(job'[k], job[k]) /\ SameKey(job'[k], job[k])
         /\ Told(job'[k], job[k])
         /\ UNCHANGED storeVars /\ approved' = approved
  <1>0. job[k] \in Job /\ job \in [Workers -> Job]
    BY DEF TypeOK, QueueTypeOK
  <1>1. \E pc \in {"sent", "unsent"} : job' = [job EXCEPT ![k].pc = pc]
    BY DEF Send
  <1> QED
    BY <1>0, <1>1 DEF Send, At, Job, Rest, SameKind, SameKey, Told

LEMMA SendAccepts ==
  ASSUME TypeOK, NEW k \in Workers, Send(k)
  PROVE  /\ job'[k].pc = "sent" => Accepted(W(k), job[k].key.gen)'
         /\ \A w \in Works : \A pair \in delivered'[w] :
              pair \in delivered[w] \/ (w = W(k) /\ pair = <<job[k].key.gen, job[k].draft>>)
  <1>0. /\ W(k) \in Works /\ job[k].draft \in Drafts /\ job \in [Workers -> Job]
        /\ delivered \in [Works -> SUBSET (Generations \X Drafts)]
    BY AtType DEF Send, At, JobOK, TypeOK, QueueTypeOK
  <1> DEFINE gen == job[k].key.gen
             more == IF \E d \in Drafts : <<gen, d>> \in delivered[W(k)] THEN delivered[W(k)]
                     ELSE delivered[W(k)] \cup {<<gen, job[k].draft>>}
             accept == delivered' = [delivered EXCEPT ![W(k)] = more]
  <1>1. \/ accept /\ job' = [job EXCEPT ![k].pc = "sent"]
        \/ (accept \/ UNCHANGED delivered) /\ job' = [job EXCEPT ![k].pc = "unsent"]
    BY <1>0 DEF Send
  <1>2. accept => \E d \in Drafts : <<gen, d>> \in delivered'[W(k)]
    BY <1>0
  <1>3. job'[k].pc = "sent" => accept
    BY <1>0, <1>1 DEF Job
  <1>4. W(k)' = W(k)
    BY <1>0, <1>1 DEF Job, W
  <1>5. job'[k].pc = "sent" => Accepted(W(k), job[k].key.gen)'
    <2>1. job'[k].key = job[k].key
      BY <1>0, <1>1 DEF Job
    <2> QED
      BY <1>2, <1>3, <1>4, <2>1 DEF Accepted
  <1>6. \A w \in Works : \A pair \in delivered'[w] :
              pair \in delivered[w] \/ (w = W(k) /\ pair = <<job[k].key.gen, job[k].draft>>)
    <2>1. accept \/ delivered' = delivered
      BY <1>1
    <2>2. CASE delivered' = delivered
      BY <2>2
    <2>3. CASE accept
      BY <1>0, <2>3
    <2> QED
      BY <2>1, <2>2, <2>3
  <1> QED
    BY <1>5, <1>6

LEMMA SendReply ==
  ASSUME TypeOK, NEW k \in Workers, ReplyJob(k), Stays(k), Send(k)
  PROVE  ReplyJob(k)'
  <1>0. /\ job[k].pc = "send" /\ job'[k].pc \in {"sent", "unsent"}
        /\ Rest(job'[k], job[k]) /\ SameKind(job'[k], job[k]) /\ SameKey(job'[k], job[k])
        /\ Told(job'[k], job[k])
        /\ UNCHANGED storeVars
        /\ job'[k].pc = "sent" => Accepted(W(k), job[k].key.gen)'
    BY SendRow, SendAccepts
  <1>1. W(k)' = W(k) /\ (Holding(k)' => Holding(k)) /\ W(k) \in Works /\ StoreTypeOK
        /\ work'[W(k)].gen = work[W(k)].gen
    BY <1>0, StaysHolding DEF Stays, TypeOK
  <1>2. Holding(k)' /\ job'[k].notified => Noticed(W(k))'
    BY <1>0, <1>1, StaysTold DEF ReplyJob, Told
  <1>3. SendInv(k)'
    BY <1>0, <1>1 DEF ReplyJob, SendInv, Consumes, Consuming, PastGate, Rest, ApprovalKey, storeVars
  <1>4. KindInv(k)'
    BY <1>0 DEF ReplyJob, KindInv, SameKey
  <1>5. AnswerInv(k)'
    BY <1>0, <1>1 DEF ReplyJob, AnswerInv, Rest, SameKey, Closes, Noticing
  <1>6. TellInv(k)'
    BY <1>0, <1>1, <1>2 DEF TellInv
  <1> QED
    BY <1>3, <1>4, <1>5, <1>6 DEF ReplyJob

-----------------------------------------------------------------------------
(* A worker's step.                                                         *)

LEMMA WorkerGrows ==
  ASSUME TypeOK, NEW k \in Workers, WorkerStep(k)
  PROVE  /\ Grows
         /\ \A w \in Works : work'[w].gen = work[w].gen
         /\ \A w \in Works, l \in Workers : l # k \/ ~Claim(k) => KeepsClaim(w, l)
  <1>1. Grows
    BY WorkerWorld, WorkerLawful DEF Grows
  <1>2. \A w \in Works : work'[w].gen = work[w].gen
    BY WorkerCloses DEF SameGen
  <1>3. \A w \in Works, l \in Workers : l # k \/ ~Claim(k) => KeepsClaim(w, l)
    BY <1>2, WorkerLeases DEF KeepsClaim
  <1> QED
    BY <1>1, <1>2, <1>3

LEMMA WorkerStaysOn ==
  ASSUME TypeOK, NEW k \in Workers, WorkerStep(k), ~Claim(k), job[k].pc # "idle",
         job'[k].work = W(k)
  PROVE  Stays(k)
  <1>1. W(k) \in Works
    BY AtType
  <1>2. W(k)' = W(k)
    BY DEF W
  <1>3. /\ Grows
        /\ \A w \in Works : work'[w].gen = work[w].gen
        /\ \A w \in Works : KeepsClaim(w, k)
    BY WorkerGrows
  <1> QED
    BY <1>1, <1>2, <1>3 DEF Stays, KeepsClaim, HoldsLease

LEMMA LeadingFrom ==
  ASSUME TypeOK, NEW k \in Workers,
         \/ Inspect(k) \/ Route(k) \/ Falter(k) \/ Resolve(k) \/ Inquire(k)
         \/ StageBegin(k) \/ StageSend(k) \/ StageRecord(k) \/ Investigate(k) \/ Held(k)
         \/ StartRun(k) \/ CallShell(k) \/ RunShell(k) \/ RecordShell(k) \/ Decide(k)
         \/ SaveCandidate(k) \/ FinalResolve(k) \/ Finalize(k) \/ Finish(k) \/ Preflight(k)
         \/ Handle(k) \/ RequestReply(k) \/ Failed(k) \/ Permanent(k)
  PROVE  job[k].pc # "idle" /\ (job[k].pc \in Early \/ job'[k].pc \in {"failed", "terminal"})
  <1>0. job[k] \in Job
    BY DEF TypeOK, QueueTypeOK
  <1>1. CASE Falter(k)
    <2>1. job'[k].pc = "failed"
      BY <1>0, <1>1, Lands1 DEF Falter, Job
    <2> QED
      BY <1>1, <2>1 DEF Falter
  <1>2. CASE Failed(k)
    <2>1. job'[k] = [job[k] EXCEPT !.pc = "terminal"]
      BY <1>2, Lands1 DEF Failed
    <2>2. job'[k].pc = "terminal"
      BY <1>0, <2>1 DEF Job
    <2> QED
      BY <1>2, <2>2 DEF Failed, At
  <1>3. CASE \/ Inspect(k) \/ Route(k) \/ Resolve(k) \/ Inquire(k)
             \/ StageBegin(k) \/ StageSend(k) \/ StageRecord(k) \/ Investigate(k) \/ Held(k)
             \/ StartRun(k) \/ CallShell(k) \/ RunShell(k) \/ RecordShell(k) \/ Decide(k)
             \/ SaveCandidate(k) \/ FinalResolve(k) \/ Finalize(k) \/ Finish(k) \/ Preflight(k)
             \/ Handle(k) \/ RequestReply(k) \/ Permanent(k)
    <2>1. job[k].pc \in Early
      BY <1>3, EarlyPcs, ZenonT(40) DEF Inspect, Route, Resolve, Inquire, StageBegin, StageSend, StageRecord,
         Investigate, Held, StartRun, CallShell, RunShell, RecordShell, Decide, SaveCandidate,
         FinalResolve, Finalize, Finish, Preflight, Handle, RequestReply, Permanent, At
    <2>2. "idle" \notin Early
      BY DEF Early, PastGate, Ended
    <2> QED
      BY <2>1, <2>2
  <1> QED
    BY <1>1, <1>2, <1>3

LEMMA ConsumedKey ==
  ASSUME TypeOK, NEW k \in Workers, SendInv(k), Consumes(k)
  PROVE  W(k) \in Works /\ job[k].approval \in ApprovalKeys /\ job[k].approval.kind = "approval"
  <1>1. W(k) \in Works /\ job[k].approval \in Keys
    BY AtType DEF Consumes, Consuming, TypeOK, QueueTypeOK, Job
  <1>2. job[k].approval.kind = "approval"
    BY AnswerKinds DEF SendInv, ApprovalKey
  <1> QED
    BY <1>1, <1>2 DEF Keys, Key, ReplyKeys, ApprovalKeys, NoticeKeys, StageKeys, ShellKeys,
                      ResolutionKeys, ReviewKey, UncertainKey, ApprovalNotice, RequiredKey,
                      CancelKey

(* The rows of replies and their approvals, whatever a worker does.         *)
AuditMove(k, key, old, new) ==
  \/ old \in {"none", "ready"} /\ new \in {"blocked", "awaiting_approval"}
  \/ old = "ready" /\ new = "executing"
  \/ key.kind = "reply" /\ new \in {"executing", "blocked"}
  \/ key = job[k].key /\ key.kind = "reply" /\ job[k].pc = "sent" /\ new = "completed"
  \/ /\ key = job[k].approval /\ Consumes(k) /\ job'[k].pc \notin Consuming
     /\ new \in {"blocked", "completed"}
     /\ new = "completed" => job[k].pc = "settle" /\ job[k].kind = "reply"

AuditStep(k) ==
  \A w \in Works, key \in ApprovalKeys \cup ReplyKeys :
    \/ attempts'[w][key] = attempts[w][key]
    \/ w = W(k) /\ AuditMove(k, key, attempts[w][key], attempts'[w][key])

(* One row that moves as it may.                                             *)
LEMMA MovedRow ==
  ASSUME NEW k \in Workers, NEW key, NEW old, NEW new, Moved(k, key, old, new),
         \A was \in old : AuditMove(k, key, was, new)
  PROVE  AuditStep(k)
  <1> SUFFICES ASSUME NEW w \in Works, NEW other \in ApprovalKeys \cup ReplyKeys,
                      attempts'[w][other] # attempts[w][other]
               PROVE  w = W(k) /\ AuditMove(k, other, attempts[w][other], attempts'[w][other])
    BY DEF AuditStep
  <1>1. w = W(k) /\ other = key
    BY AnswerKinds DEF Moved
  <1> QED
    BY <1>1 DEF Moved

LEMMA WorkerAudit ==
  ASSUME TypeOK, NEW k \in Workers, SendInv(k), KindInv(k), WorkerStep(k)
  PROVE  AuditStep(k)
  <1>0. job[k] \in Job
    BY DEF TypeOK, QueueTypeOK
  <1>1. CASE UNCHANGED attempts
    BY <1>1 DEF AuditStep
  <1>2. CASE AnswersKept
    BY <1>2 DEF AnswersKept, AuditStep
  <1>3. CASE Finish(k) \/ Gate(k) \/ RequestReply(k)
    <2>1. ASSUME NEW key, NEW old \in {"ready", "none"}, NEW new \in {"blocked", "awaiting_approval"},
                 Moved(k, key, {old}, new)
          PROVE  AuditStep(k)
      BY <2>1, MovedRow DEF AuditMove
    <2>2. ASSUME NEW key, Moved(k, key, {"ready"}, "executing")
          PROVE  AuditStep(k)
      BY <2>2, MovedRow DEF AuditMove
    <2>3. CASE \E d \in Drafts : \/ Moved(k, ApprovalKey(W(k), d), {"ready"}, "blocked")
                                \/ Moved(k, ApprovalKey(W(k), d), {"none"}, "awaiting_approval")
      BY <2>1, <2>3
    <2>4. CASE Moved(k, ApprovalKey(W(k), job[k].draft), {"ready"}, "executing")
      BY <2>2, <2>4
    <2> QED
      BY <1>1, <1>3, <2>3, <2>4, GateAudit
  <1>4. CASE BeginReply(k) /\ Moved(k, ReplyKey(W(k)), AttemptStatus \ {"completed"}, "executing")
    <2>1. ReplyKey(W(k)).kind = "reply"
      BY AnswerKinds DEF ReplyKey
    <2> QED
      BY <1>4, <2>1, MovedRow DEF AuditMove
  <1>5. CASE RecordSent(k) /\ Moved(k, job[k].key, {"executing"}, "completed")
    <2>1. job[k].key.kind = "reply" /\ job[k].pc = "sent"
      BY <1>5 DEF KindInv, RecordSent, At
    <2> QED
      BY <1>5, <2>1, MovedRow DEF AuditMove
  <1>6. CASE RecordUnsent(k) /\ Moved(k, job[k].key, {"executing"}, "blocked")
    <2>1. job[k].key.kind = "reply"
      BY <1>6 DEF KindInv, RecordUnsent, At
    <2> QED
      BY <1>6, <2>1, MovedRow DEF AuditMove
  <1>7. CASE \/ Refuse(k) /\ Moved(k, job[k].approval, {"executing"}, "blocked")
             \/ /\ Settle(k)
                /\ Moved(k, job[k].approval, {"executing"},
                         IF job[k].kind = "reply" THEN "completed" ELSE "blocked")
    <2>1. job[k].pc \in {"refused", "settle"} /\ (Refuse(k) => job[k].pc = "refused")
          /\ (Settle(k) => job[k].pc = "settle")
      BY <1>7 DEF Refuse, Settle, At
    <2>2. Consumes(k)
      BY <2>1, AtType, KeyNull DEF Consumes, Consuming, JobOK
    <2>3. job'[k].pc \in {"closing", "replied", "failed"}
      <3>1. \E pc \in {"closing", "replied", "failed"} :
              \/ job'[k] = [job[k] EXCEPT !.pc = pc, !.kind = "ignore"]
              \/ job'[k] = [job[k] EXCEPT !.pc = pc]
        BY <1>7, Lands1 DEF Refuse, Settle
      <3> QED
        BY <1>0, <3>1 DEF Job
    <2>4. job'[k].pc \notin Consuming
      BY <2>3 DEF Consuming
    <2>5. PICK new \in {"blocked", "completed"} :
            /\ Moved(k, job[k].approval, {"executing"}, new)
            /\ new = "completed" => job[k].pc = "settle" /\ job[k].kind = "reply"
      BY <1>7, <2>1
    <2>6. AuditMove(k, job[k].approval, "executing", new)
      BY <2>2, <2>4, <2>5 DEF AuditMove
    <2> QED
      BY <2>5, <2>6, MovedRow
  <1>8. CASE Refuse(k) \/ BeginReply(k) \/ RecordSent(k) \/ RecordUnsent(k) \/ Settle(k)
    BY <1>1, <1>4, <1>5, <1>6, <1>7, <1>8, AnswerAudit
  <1> QED
    BY <1>2, <1>3, <1>8, QuietAudit

LEMMA WorkerApproval ==
  ASSUME TypeOK, NEW k \in Workers, SendInv(k), AuditStep(k)
  PROVE  KeepsApproval(k)
  BY ConsumedKey DEF KeepsApproval, AuditStep, AuditMove, SendInv

(* A job comes to hold a consumed approval at the gate only, out of "ready". *)
Taken(k) ==
  Consumes(k)' => /\ job'[k].work = W(k)
                  /\ \/ Consumes(k) /\ job'[k].approval = job[k].approval
                     \/ attempts[W(k)][job'[k].approval] = "ready"

LEMMA ReplyTaken ==
  ASSUME NEW k \in Workers, SendInv(k), ReplyRow(k)
  PROVE  Taken(k)
  <1> SUFFICES ASSUME job'[k].pc \in Consuming, job'[k].approval # NoKey
               PROVE  /\ job'[k].work = W(k)
                      /\ \/ Consumes(k) /\ job'[k].approval = job[k].approval
                         \/ attempts[W(k)][job'[k].approval] = "ready"
    BY DEF Taken, Consumes
  <1>1. job[k].pc = "gate" => job[k].approval = NoKey
    BY DEF SendInv, PastGate, Consuming, Ended, Noticing
  <1>2. job'[k].work = W(k)
    BY DEF ReplyRow, W
  <1>3. \/ job[k].pc \in Consuming /\ job'[k].approval = job[k].approval
        \/ job[k].pc = "gate" /\ Rest(job'[k], job[k])
        \/ ConsumeAttempt(W(k), job'[k].approval)
    BY DEF ReplyRow, Rest, Consuming
  <1> QED
    BY <1>1, <1>2, <1>3 DEF Consumes, ConsumeAttempt, Rest

LEMMA OwnReply ==
  ASSUME TypeOK, NEW k \in Workers, ReplyJob(k), WorkerStep(k),
         \A w \in Works : GrantInv(w) /\ AcceptInv(w)
  PROVE  ReplyJob(k)' /\ Taken(k)
  <1>0. job[k] \in Job
    BY DEF TypeOK, QueueTypeOK
  <1>1. SendInv(k) /\ KindInv(k)
    BY DEF ReplyJob
  <1>2. CASE Claim(k)
    BY <1>2, ClaimReply DEF Taken
  <1>3. CASE job'[k] = Idle
    BY <1>3, IdleReply DEF Taken
  <1>4. ASSUME job[k].pc # "idle", job'[k].work = W(k)
        PROVE  Stays(k) /\ W(k) \in Works
    <2>1. ~Claim(k)
      BY <1>4 DEF Claim
    <2> QED
      BY <1>4, <2>1, WorkerStaysOn DEF Stays
  <1>5. ASSUME Leading(k), job[k].pc # "idle",
               job[k].pc \in Early \/ job'[k].pc \in {"failed", "terminal"}
        PROVE  ReplyJob(k)' /\ Taken(k)
    <2>1. Stays(k) /\ W(k) \in Works
      BY <1>4, <1>5 DEF Leading
    <2> QED
      BY <1>5, <2>1, LeadingReply DEF Taken
  <1>6. CASE Defer(k)
    <2>1. CASE Goto(k, "terminal")
      <3>1. job'[k] = [job[k] EXCEPT !.pc = "terminal"]
        BY <2>1, Lands1
      <3>2. job'[k].pc = "terminal" /\ job[k].pc # "idle"
        BY <1>0, <1>6, <3>1 DEF Job, Defer, At
      <3> QED
        BY <1>5, <2>1, <3>2, LeadingPc
    <2>2. CASE Read(k, Idle)
      BY <1>3, <2>2, Lands1
    <2> QED
      BY <1>6, <2>1, <2>2 DEF Defer
  <1>7. CASE \/ Inspect(k) \/ Route(k) \/ Falter(k) \/ Resolve(k) \/ Inquire(k)
             \/ StageBegin(k) \/ StageSend(k) \/ StageRecord(k) \/ Investigate(k) \/ Held(k)
             \/ StartRun(k) \/ CallShell(k) \/ RunShell(k) \/ RecordShell(k) \/ Decide(k)
             \/ SaveCandidate(k) \/ FinalResolve(k) \/ Finalize(k) \/ Finish(k) \/ Preflight(k)
             \/ Handle(k) \/ RequestReply(k) \/ Failed(k) \/ Permanent(k)
    <2>1. Leading(k)
      BY <1>7, LeadingSteps
    <2>2. job[k].pc # "idle" /\ (job[k].pc \in Early \/ job'[k].pc \in {"failed", "terminal"})
      BY <1>7, LeadingFrom
    <2> QED
      BY <1>5, <2>1, <2>2
  <1>8. CASE NoticeBegin(k) \/ NoticeLease(k) \/ Notify(k) \/ Notified(k)
    <2>1. NoticeRow(k) /\ AnswersKept /\ job[k].pc \in Noticing /\ job[k].pc # "idle"
      <3>1. AnswersKept
        <4>1. job[k].pc \in {"notice", "notice_lease", "notify", "notified"}
          BY <1>8 DEF NoticeBegin, NoticeLease, Notify, Notified, At
        <4>2. ~Finish(k) /\ ~Gate(k) /\ ~RequestReply(k) /\ ~Refuse(k) /\ ~BeginReply(k)
              /\ ~RecordSent(k) /\ ~RecordUnsent(k) /\ ~Settle(k)
          BY <4>1 DEF Finish, Gate, RequestReply, Refuse, BeginReply, RecordSent, RecordUnsent,
                      Settle, At
        <4> QED
          BY <1>1, <4>2, QuietAudit
      <3>2. job[k].pc \in Noticing /\ job[k].pc # "idle"
        BY <1>8 DEF NoticeBegin, NoticeLease, Notify, Notified, At, Noticing
      <3> QED
        BY <1>8, <3>1, <3>2, NoticeRows
    <2>2. Stays(k)
      BY <1>4, <2>1 DEF NoticeRow, Rest, W
    <2> QED
      BY <2>1, <2>2, NoticeReply DEF Taken
  <1>9. CASE /\ \/ Gate(k) \/ Refuse(k) \/ BeginReply(k) \/ RecordSent(k) \/ RecordUnsent(k)
                \/ Settle(k) \/ Replied(k) \/ Closing(k) \/ Close(k)
             /\ job'[k] # Idle
    <2>1. ReplyRow(k)
      BY <1>9, GateRow, ReplyRows
    <2>2. job[k].pc \in {"gate"} \cup PastGate /\ job[k].pc # "idle"
      BY <1>9 DEF Gate, Refuse, BeginReply, RecordSent, RecordUnsent, Settle, Replied, Closing,
                  Close, At, PastGate, Consuming
    <2>3. Stays(k) /\ W(k) \in Works
      BY <1>4, <2>1, <2>2 DEF ReplyRow, W
    <2>4. approved' = approved /\ KeepsApproval(k)
      BY <1>1, WorkerWorld, WorkerAudit, WorkerApproval
    <2> QED
      BY <1>1, <2>1, <2>2, <2>3, <2>4, ReplyReply, ReplyTaken
  <1>10. CASE Send(k)
    <2>1. /\ job[k].pc = "send" /\ job'[k].pc \in {"sent", "unsent"} /\ Rest(job'[k], job[k])
      BY <1>10, SendRow
    <2>2. Stays(k)
      BY <1>4, <2>1 DEF Rest, W
    <2>3. Taken(k)
      BY <2>1 DEF Taken, Consumes, Consuming, Rest, W
    <2> QED
      BY <1>10, <2>2, <2>3, SendReply
  <1>11. CASE TerminalFailure(k)
    BY <1>3, <1>11, Lands1 DEF TerminalFailure, Stop
  <1> QED
    BY <1>2, <1>3, <1>6, <1>7, <1>8, <1>9, <1>10, <1>11, Zenon DEF WorkerStep

(* What a job consumed stays executing whatever the other jobs do.           *)
LEMMA OtherReply ==
  ASSUME TypeOK, NEW k \in Workers, NEW l \in Workers \ {k}, WorkerStep(k),
         ReplyJob(k), ReplyJob(l), OneConsumer
  PROVE  ReplyJob(l)' /\ (Consumes(l)' => Consumes(l))
  <1>1. AuditStep(k) /\ job'[l] = job[l] /\ Grows
        /\ (\A w \in Works : work'[w].gen = work[w].gen /\ KeepsClaim(w, l))
    BY WorkerAudit, WorkerFrame, WorkerGrows DEF ReplyJob
  <1>2. Consumes(l) => attempts'[W(l)][job[l].approval] = "executing" /\ work'[W(l)].gen = work[W(l)].gen
    <2> SUFFICES ASSUME Consumes(l)
                 PROVE  attempts'[W(l)][job[l].approval] = "executing" /\ work'[W(l)].gen = work[W(l)].gen
      OBVIOUS
    <2>1. /\ W(l) \in Works /\ job[l].approval \in ApprovalKeys
          /\ job[l].approval.kind = "approval" /\ attempts[W(l)][job[l].approval] = "executing"
      BY ConsumedKey DEF ReplyJob, SendInv
    <2>2. ~(Consumes(k) /\ W(k) = W(l) /\ job[k].approval = job[l].approval)
      BY DEF OneConsumer
    <2> QED
      BY <1>1, <2>1, <2>2 DEF AuditStep, AuditMove
  <1> QED
    BY <1>1, <1>2, ReplyKept DEF Consumes

LEMMA WorkerConsumer ==
  ASSUME TypeOK, NEW k \in Workers, WorkerStep(k), OneConsumer,
         \A l \in Workers : ReplyJob(l), Taken(k)
  PROVE  OneConsumer'
  <1> SUFFICES ASSUME NEW i \in Workers, NEW j \in Workers, Consumes(i)', Consumes(j)',
                      W(i)' = W(j)', job'[i].approval = job'[j].approval, i # j
               PROVE  FALSE
    BY DEF OneConsumer
  <1>1. \A l \in Workers \ {k} : job'[l] = job[l] /\ (Consumes(l)' = Consumes(l)) /\ W(l)' = W(l)
    BY WorkerFrame DEF Consumes, W
  <1>2. ASSUME NEW l \in Workers \ {k}, Consumes(l)', Consumes(k)', W(l)' = W(k)',
               job'[l].approval = job'[k].approval
        PROVE  FALSE
    <2>1. /\ Consumes(l) /\ job[l].approval = job'[k].approval /\ W(l) = W(k)
          /\ attempts[W(l)][job[l].approval] = "executing"
      BY <1>1, <1>2 DEF Taken, W, ReplyJob, SendInv
    <2>2. Consumes(k) /\ job'[k].approval = job[k].approval
      BY <1>2, <2>1 DEF Taken
    <2> QED
      BY <2>1, <2>2 DEF OneConsumer
  <1>3. CASE i = k \/ j = k
    BY <1>2, <1>3
  <1>4. CASE i # k /\ j # k
    BY <1>1, <1>4 DEF OneConsumer
  <1> QED
    BY <1>3, <1>4

LEMMA WorkerRows ==
  ASSUME TypeOK, NEW k \in Workers, WorkerStep(k), ReplyInv
  PROVE  \A w \in Works : GrantInv(w)' /\ AcceptInv(w)' /\ CloseInv(w)'
  <1> SUFFICES ASSUME NEW w \in Works PROVE GrantInv(w)' /\ AcceptInv(w)' /\ CloseInv(w)'
    OBVIOUS
  <1>1. /\ AuditStep(k) /\ Grows /\ work'[w].gen = work[w].gen /\ approved' = approved
        /\ StoreTypeOK
    BY WorkerAudit, WorkerGrows, WorkerWorld DEF ReplyInv, ReplyJob, TypeOK
  <1>2. \A g : Accepted(w, g) => Accepted(w, g)'
    BY <1>1, GrowsAccepted
  <1>3. GrantInv(w)'
    <2>1. ASSUME NEW key \in ApprovalKeys, attempts'[w][key] \in {"ready", "executing"}
          PROVE  <<key.gen, key.item>> \in approved'[w]
      <3>1. attempts[w][key] \in {"ready", "executing"}
        BY <1>1, <2>1, AnswerKinds DEF AuditStep, AuditMove
      <3> QED
        BY <1>1, <3>1 DEF ReplyInv, GrantInv
    <2>2. ASSUME NEW g \in Generations, NEW d \in Risky, <<g, d>> \in delivered'[w]
          PROVE  <<g, d>> \in approved'[w]
      <3>1. CASE <<g, d>> \in delivered[w]
        BY <1>1, <3>1 DEF ReplyInv, GrantInv
      <3>2. CASE <<g, d>> \notin delivered[w]
        <4>1. Send(k)
          BY <2>2, <3>2, WorkerWorld
        <4>2. w = W(k) /\ g = job[k].key.gen /\ d = job[k].draft /\ job[k].pc = "send"
          BY <2>2, <3>2, <4>1, SendAccepts, SendRow
        <4> QED
          BY <1>1, <4>2 DEF ReplyInv, ReplyJob, SendInv
      <3> QED
        BY <3>1, <3>2
    <2> QED
      BY <2>1, <2>2 DEF GrantInv
  <1>4. AcceptInv(w)'
    <2>1. ASSUME NEW key \in ReplyKeys \cup ApprovalKeys, attempts'[w][key] = "completed"
          PROVE  Accepted(w, key.gen)
      <3>1. CASE attempts[w][key] = "completed"
        BY <3>1 DEF ReplyInv, AcceptInv
      <3>2. CASE attempts[w][key] # "completed"
        <4>1. /\ w = W(k)
              /\ \/ key = job[k].key /\ job[k].pc = "sent"
                 \/ key = job[k].approval /\ job[k].pc = "settle" /\ job[k].kind = "reply"
          BY <1>1, <2>1, <3>2 DEF AuditStep, AuditMove
        <4> QED
          BY <4>1 DEF ReplyInv, ReplyJob, AnswerInv
      <3> QED
        BY <3>1, <3>2
    <2> QED
      BY <1>2, <2>1 DEF AcceptInv
  <1>5. CloseInv(w)'
    <2> SUFFICES ASSUME work'[w].status = "completed", work'[w].decision = "reply"
                 PROVE  Accepted(w, work[w].gen)' /\ (w \in Delegated => Noticed(w)')
      BY DEF CloseInv
    <2>1. Accepted(w, work[w].gen) /\ (w \in Delegated => Noticed(w))
      <3>1. CASE work'[w] = work[w]
        BY <3>1 DEF ReplyInv, CloseInv
      <3>2. CASE work'[w] # work[w]
        <4>1. /\ At(k, "close") /\ Holds(k) /\ w = W(k) /\ job[k].kind = "reply"
          BY <3>2, WorkerCloses DEF NoneCloses
        <4>2. Holding(k) /\ job[k].pc = "close" /\ Closes(job[k])
          BY <4>1 DEF At, Holding, Closes
        <4> QED
          BY <4>1, <4>2 DEF ReplyInv, ReplyJob, AnswerInv, TellInv
      <3> QED
        BY <3>1, <3>2
    <2>2. Noticed(w) => Noticed(w)'
      BY <1>1, GrowsNoticed
    <2>3. Accepted(w, work[w].gen)'
      BY <1>1, <2>1, GrowsAccepted
    <2> QED
      BY <2>1, <2>2, <2>3
  <1> QED
    BY <1>3, <1>4, <1>5

LEMMA WorkerReply ==
  ASSUME TypeOK, NEW k \in Workers, WorkerStep(k), ReplyInv
  PROVE  ReplyInv'
  <1>1. ReplyJob(k)' /\ Taken(k)
    BY OwnReply DEF ReplyInv
  <1>2. \A l \in Workers \ {k} : ReplyJob(l)'
    BY OtherReply DEF ReplyInv
  <1>3. OneConsumer'
    BY <1>1, WorkerConsumer DEF ReplyInv
  <1> QED
    BY <1>1, <1>2, <1>3, WorkerRows DEF ReplyInv

-----------------------------------------------------------------------------
(* The operator's commands and the daemon's steps.                          *)

(* What a step may do that runs no job: it starts and completes no reply,    *)
(* gives no approval back, and leaves the generation of work that has a row *)
(* executing alone.                                                          *)
Bystands ==
  /\ delivered' = delivered
  /\ \A w \in Works : /\ approved[w] \subseteq approved'[w]
                      /\ work'[w] = work[w] \/ work'[w].status \notin {"processing", "completed"}
  /\ \A w \in Works, key \in ApprovalKeys \cup ReplyKeys :
       /\ attempts'[w][key] \in {"ready", "executing"} /\ key \in ApprovalKeys =>
            attempts[w][key] \in {"ready", "executing"} \/ <<key.gen, key.item>> \in approved'[w]
       /\ attempts'[w][key] = "completed" => attempts[w][key] = "completed"

KeepsExecuting ==
  \A w \in Works, key \in Keys :
    attempts[w][key] = "executing" => attempts'[w][key] = "executing" /\ work'[w].gen = work[w].gen

LEMMA BystandRows ==
  ASSUME TypeOK, ReplyInv, Bystands, LawfulStep
  PROVE  \A w \in Works : GrantInv(w)' /\ AcceptInv(w)' /\ CloseInv(w)'
  <1> SUFFICES ASSUME NEW w \in Works PROVE GrantInv(w)' /\ AcceptInv(w)' /\ CloseInv(w)'
    OBVIOUS
  <1>1. Grows
    BY DEF Bystands, Grows
  <1>2. GrantInv(w)'
    BY DEF ReplyInv, GrantInv, Bystands
  <1>3. AcceptInv(w)'
    BY DEF ReplyInv, AcceptInv, Bystands, Accepted
  <1>4. CloseInv(w)'
    <2> SUFFICES ASSUME work'[w].status = "completed", work'[w].decision = "reply"
                 PROVE  Accepted(w, work[w].gen)' /\ (w \in Delegated => Noticed(w)')
      BY DEF CloseInv
    <2>1. work'[w] = work[w]
      BY DEF Bystands
    <2>2. Accepted(w, work[w].gen) /\ (w \in Delegated => Noticed(w))
      BY <2>1 DEF ReplyInv, CloseInv
    <2>3. Noticed(w) => Noticed(w)'
      BY <1>1, <2>1, GrowsNoticed DEF TypeOK
    <2> QED
      BY <2>1, <2>2, <2>3 DEF Accepted, Bystands
  <1> QED
    BY <1>2, <1>3, <1>4

LEMMA BystandReply ==
  ASSUME TypeOK, ReplyInv, Bystands, LawfulStep, KeepsExecuting, job' = job
  PROVE  ReplyInv'
  <1>1. \A w \in Works : GrantInv(w)' /\ AcceptInv(w)' /\ CloseInv(w)'
    BY BystandRows
  <1>2. ASSUME NEW k \in Workers PROVE ReplyJob(k)'
    <2>0. ReplyJob(k) /\ job'[k] = job[k]
      BY DEF ReplyInv
    <2>1. Grows /\ \A w \in Works : KeepsClaim(w, k)
      BY DEF Bystands, Grows, KeepsClaim, HoldsLease
    <2>2. Consumes(k) => attempts'[W(k)][job[k].approval] = "executing" /\ work'[W(k)].gen = work[W(k)].gen
      <3> SUFFICES ASSUME Consumes(k)
                   PROVE  /\ attempts'[W(k)][job[k].approval] = "executing"
                          /\ work'[W(k)].gen = work[W(k)].gen
        OBVIOUS
      <3>1. W(k) \in Works /\ job[k].approval \in Keys
        BY <2>0, ConsumedKey, AnswerKinds DEF ReplyJob
      <3>2. attempts[W(k)][job[k].approval] = "executing"
        BY <2>0 DEF ReplyJob, SendInv
      <3> QED
        BY <3>1, <3>2 DEF KeepsExecuting
    <2> QED
      BY <2>0, <2>1, <2>2, ReplyKept
  <1>3. OneConsumer'
    BY DEF ReplyInv, OneConsumer, Consumes, W
  <1> QED
    BY <1>1, <1>2, <1>3 DEF ReplyInv

LEMMA IdleReplies ==
  ASSUME TypeOK, ReplyInv, Bystands, LawfulStep, \A k \in Workers : job'[k] = Idle
  PROVE  ReplyInv'
  <1>1. \A k \in Workers : ReplyJob(k)' /\ ~Consumes(k)'
    BY IdleReply
  <1> QED
    BY <1>1, BystandRows DEF ReplyInv, OneConsumer

LEMMA OperatorBystands ==
  ASSUME TypeOK, SessionInv, NEW v \in Works, OperatorStep(v)
  PROVE  Bystands /\ KeepsExecuting
  <1>0. /\ work \in [Works -> WorkRow] /\ attempts \in [Works -> [Keys -> AttemptStatus]]
        /\ approved \in [Works -> SUBSET (Generations \X Drafts)] /\ work[v] \in WorkRow
    BY DEF TypeOK, StoreTypeOK, QueueTypeOK
  <1>1. \A w \in Works : work'[w] = work[w] \/ work'[w].status # "processing"
    BY OperatorShrinks
  <1>2. CASE DecideApproval(v)
    <2>1. PICK key \in Approvable, approve \in BOOLEAN :
            /\ DecideAction(v, key, approve)
            /\ approved' = IF approve /\ key \in ApprovalKeys
                           THEN [approved EXCEPT ![v] = @ \cup {<<key.gen, key.item>>}]
                           ELSE approved
            /\ delivered' = delivered
      BY <1>2 DEF DecideApproval, Command
    <2>2. key \in Keys
      BY DEF Approvable, Keys
    <2> DEFINE status == IF approve THEN "ready" ELSE "cancelled"
    <2>3. /\ attempts[v][key] = "awaiting_approval"
          /\ attempts' = [attempts EXCEPT ![v][key] = status]
      BY <2>1 DEF DecideAction
    <2>4. status \in {"ready", "cancelled"} /\ (status = "ready" => approve)
      OBVIOUS
    <2> HIDE DEF status
    <2>5. /\ attempts'[v][key] = status
          /\ \A w \in Works, other \in Keys :
               w # v \/ other # key => attempts'[w][other] = attempts[w][other]
      BY <1>0, <2>2, <2>3
    <2>6. \A w \in Works : approved[w] \subseteq approved'[w]
      BY <1>0, <2>1
    <2>7. status = "ready" /\ key \in ApprovalKeys => <<key.gen, key.item>> \in approved'[v]
      BY <1>0, <2>1, <2>4
    <2>8. \E to \in {"received", "interrupted", "cancelled"}, s \in {work[v].session, ActiveSession} :
            \/ work' = [work EXCEPT ![v] = [Unleased(work[v], to) EXCEPT !.session = s]]
            \/ work' = [work EXCEPT ![v] = Unleased(work[v], to)]
      BY <2>1 DEF DecideAction
    <2>9. /\ work'[v].gen = work[v].gen /\ work'[v].status \in {"received", "interrupted", "cancelled"}
          /\ \A w \in Works \ {v} : work'[w] = work[w]
      <3>1. PICK to \in {"received", "interrupted", "cancelled"}, s \in {work[v].session, ActiveSession} :
              \/ work' = [work EXCEPT ![v] = [Unleased(work[v], to) EXCEPT !.session = s]]
              \/ work' = [work EXCEPT ![v] = Unleased(work[v], to)]
        BY <2>8
      <3> DEFINE row == Unleased(work[v], to)
                 moved == [Unleased(work[v], to) EXCEPT !.session = s]
      <3>2. row.gen = work[v].gen /\ row.status = to /\ moved.gen = work[v].gen /\ moved.status = to
        BY <1>0 DEF Unleased, WorkRow
      <3>3. work' = [work EXCEPT ![v] = row] \/ work' = [work EXCEPT ![v] = moved]
        BY <3>1
      <3> HIDE DEF row, moved
      <3> QED
        BY <1>0, <3>2, <3>3
    <2>10. KeepsExecuting
      BY <2>3, <2>5, <2>9 DEF KeepsExecuting
    <2> QED
      BY <1>1, <2>1, <2>3, <2>4, <2>5, <2>6, <2>7, <2>9, <2>10, AnswerKinds DEF Bystands
  <1>3. CASE Resume(v)
    <2>1. /\ approved' = approved /\ delivered' = delivered /\ ~Executing(v)
          /\ \A key \in Keys : attempts'[v][key] \in {attempts[v][key], "cancelled"}
          /\ work'[v].status = "received"
          /\ \A w \in Works \ {v} : attempts'[w] = attempts[w] /\ work'[w] = work[w]
      BY <1>0, <1>3 DEF Resume, ResumeIn, ResumeWork, Resumable, Unresolved, Command
    <2> QED
      BY <1>0, <1>1, <2>1, AnswerKinds DEF Bystands, KeepsExecuting, Executing
  <1>4. CASE Cancel(v)
    <2>1. /\ approved' = approved /\ delivered' = delivered /\ ~Executing(v)
          /\ \A key \in Keys : key # CancelKey => attempts'[v][key] \in {attempts[v][key], "cancelled"}
          /\ work'[v].status = "cancelled"
          /\ \A w \in Works \ {v} : attempts'[w] = attempts[w] /\ work'[w] = work[w]
      BY <1>0, <1>4 DEF Cancel, CancelWork, Cancellable, Unresolved, Command, Unleased, WorkRow
    <2>2. CancelKey.kind = "operator_cancel"
      BY DEF CancelKey, Key
    <2>3. KeepsExecuting
      BY <2>1 DEF KeepsExecuting, Executing
    <2>4. ASSUME NEW w \in Works, NEW key \in ApprovalKeys \cup ReplyKeys
          PROVE  attempts'[w][key] \in {attempts[w][key], "cancelled"}
      BY <2>1, <2>2, <2>4, AnswerKinds
    <2> QED
      BY <1>1, <2>1, <2>3, <2>4 DEF Bystands
  <1>5. CASE Retry(v)
    <2>1. /\ approved' = approved /\ delivered' = delivered /\ attempts' = attempts
          /\ work' = [work EXCEPT ![v] = [Unleased(work[v], "received")
                                           EXCEPT !.retry = 0, !.decision = "none"]]
      BY <1>5 DEF Retry, RetryWorkItem, SetWork, Command
    <2>2. /\ work'[v].status = "received" /\ work'[v].gen = work[v].gen
          /\ \A w \in Works \ {v} : work'[w] = work[w]
      BY <1>0, <2>1 DEF Unleased, WorkRow
    <2> QED
      BY <1>1, <2>1, <2>2 DEF Bystands, KeepsExecuting
  <1> QED
    BY <1>2, <1>3, <1>4, <1>5 DEF OperatorStep

LEMMA DaemonBystands ==
  ASSUME TypeOK, DaemonStep
  PROVE  Bystands
  <1>0. /\ work \in [Works -> WorkRow] /\ attempts \in [Works -> [Keys -> AttemptStatus]]
    BY DEF TypeOK, StoreTypeOK
  <1>1. approved' = approved /\ delivered' = delivered
    BY DEF DaemonStep, Start, ListPriorWork, ListCurrentWork, Interrupt, MarkReady, Converge,
           Shutdown, StopSession, Crash, Phase
  <1>2. ASSUME UNCHANGED <<work, attempts>> PROVE Bystands
    BY <1>1, <1>2 DEF Bystands
  <1>3. CASE Start \/ ListCurrentWork \/ MarkReady \/ Shutdown \/ StopSession \/ Crash
    BY <1>2, <1>3 DEF Start, CreateOnlineSession, SetSession, ListCurrentWork, MarkReady, MarkCurrentSessionReady,
                      Shutdown, StopSession, StopCurrentSession, Crash, storeVars
  <1>4. CASE ListPriorWork
    <2>1. /\ attempts' = attempts
          /\ \A w \in Works : work'[w] = work[w] \/ work'[w].status = "waiting_user"
      BY <1>0, <1>4 DEF ListPriorWork, ReadmitPristineWaiting, WorkRow
    <2> QED
      BY <1>1, <2>1 DEF Bystands
  <1>5. CASE Interrupt
    <2>1. \A w \in Works : work'[w] = work[w] \/ work'[w].status = "interrupted"
      BY <1>0, <1>5 DEF Interrupt, InterruptSessionWork, Unleased, WorkRow
    <2>2. \A w \in Works, key \in Keys : attempts'[w][key] = attempts[w][key] \/ attempts'[w][key] = "blocked"
      BY <1>0, <1>5 DEF Interrupt, InterruptSessionWork
    <2> QED
      BY <1>1, <2>1, <2>2, AnswerKinds DEF Bystands
  <1>6. CASE Converge
    <2>1. attempts' = attempts
      BY <1>6 DEF Converge, ConvergeInterruptedWork
    <2>2. ASSUME NEW w \in Works PROVE work'[w] = work[w] \/ work'[w].status \notin {"processing", "completed"}
      <3>1. work'[w] = work[w] \/ work'[w] = Converged(w)
        BY <1>0, <1>6 DEF Converge, ConvergeInterruptedWork
      <3>2. Converged(w).status = ConvergedStatus(w)
        BY <1>0 DEF Converged, Unleased, WorkRow
      <3>3. ConvergedStatus(w) \in {"dead_letter", "awaiting_approval", "interrupted", "received"}
        BY DEF ConvergedStatus
      <3> QED
        BY <3>1, <3>2, <3>3
    <2> QED
      BY <1>1, <2>1, <2>2 DEF Bystands
  <1> QED
    BY <1>3, <1>4, <1>5, <1>6 DEF DaemonStep

LEMMA DaemonReply ==
  ASSUME TypeOK, JobInv, ReplyInv, DaemonStep
  PROVE  ReplyInv'
  <1>1. Bystands /\ LawfulStep
    BY DaemonBystands, DaemonLawful
  <1>2. CASE Shutdown
    <2>1. KeepsExecuting /\ job' = job
      BY <1>2 DEF Shutdown, Phase, KeepsExecuting, storeVars
    <2> QED
      BY <1>1, <2>1, BystandReply
  <1>3. CASE ~Shutdown
    <2>1. \A k \in Workers : job'[k] = Idle
      BY <1>3 DEF DaemonStep, Start, ListPriorWork, ListCurrentWork, Interrupt, MarkReady, Converge,
                  StopSession, Crash, Phase, JobInv, Serving
    <2> QED
      BY <1>1, <2>1, IdleReplies
  <1> QED
    BY <1>2, <1>3

LEMMA OperatorReply ==
  ASSUME TypeOK, SessionInv, ReplyInv, NEW w \in Works, OperatorStep(w)
  PROVE  ReplyInv'
  <1>1. Bystands /\ KeepsExecuting
    BY OperatorBystands
  <1>2. LawfulStep /\ job' = job
    BY OperatorLawful, OperatorShrinks
  <1> QED
    BY <1>1, <1>2, BystandReply

LEMMA InitReply == Init => ReplyInv
  <1> SUFFICES ASSUME Init PROVE ReplyInv
    OBVIOUS
  <1>1. \A k \in Workers : job[k] = Idle
    BY DEF Init
  <1>2. \A k \in Workers : ReplyJob(k) /\ ~Consumes(k)
    BY <1>1 DEF ReplyJob, SendInv, KindInv, AnswerInv, TellInv, Idle, Consumes, Holding, Consuming,
                Noticing, Closes
  <1>3. \A w \in Works : GrantInv(w) /\ AcceptInv(w) /\ CloseInv(w)
    BY AnswerKinds DEF Init, StoreInit, GrantInv, AcceptInv, CloseInv
  <1> QED
    BY <1>2, <1>3 DEF ReplyInv, OneConsumer

LEMMA ReplyStep == TypeOK /\ OrphanInv /\ ReplyInv /\ [Next]_vars => ReplyInv'
  <1> SUFFICES ASSUME TypeOK, OrphanInv, ReplyInv, [Next]_vars PROVE ReplyInv'
    OBVIOUS
  <1>1. CASE UNCHANGED vars
    <2>1. Bystands /\ LawfulStep /\ KeepsExecuting /\ job' = job
      BY <1>1, SameLawful DEF vars, storeVars, queueVars, Bystands, KeepsExecuting
    <2> QED
      BY <2>1, BystandReply
  <1>2. CASE Next
    BY <1>2, WorkerReply, DaemonReply, OperatorReply DEF Next, OrphanInv
  <1> QED
    BY <1>1, <1>2

(* No risky draft reaches the sender in a generation in which the owner did *)
(* not approve it: from the gate to the send the job knows the approval it   *)
(* consumed, no other job, command or restart can settle or renew it, and    *)
(* the key it sends under is of the generation the approval is of.           *)
THEOREM RiskyNeedsApproval == Spec => []RiskyOnlyWithApproval
  <1>1. ReplyInv => RiskyOnlyWithApproval
    BY DEF ReplyInv, GrantInv, RiskyOnlyWithApproval
  <1> QED
    BY <1>1, OrphanStep, InitOrphan, ReplyStep, InitReply, TypeCorrect, PTL DEF Spec

(* Work that ends with a reply has a text that Lark accepted in its present  *)
(* generation, on every way to the end: a send just made, one an earlier     *)
(* attempt made, and a notice still owed for it.                             *)
THEOREM RepliesCloseWork == Spec => []ReplyClosesWork
  <1>1. ReplyInv => ReplyClosesWork
    BY DEF ReplyInv, CloseInv, Accepted, ReplyClosesWork
  <1> QED
    BY <1>1, OrphanStep, InitOrphan, ReplyStep, InitReply, TypeCorrect, PTL DEF Spec

(* And a delegated item that ends with a reply has a completed notice to the *)
(* owner in that generation.                                                 *)
THEOREM OwnersAreTold == Spec => []OwnerIsTold
  <1>1. ReplyInv => OwnerIsTold
    BY QueueParameters DEF ReplyInv, CloseInv, Noticed, OwnerIsTold
  <1> QED
    BY <1>1, OrphanStep, InitOrphan, ReplyStep, InitReply, TypeCorrect, PTL DEF Spec
=============================================================================
