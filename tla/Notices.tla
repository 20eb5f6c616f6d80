------------------------------ MODULE Notices ------------------------------
(***************************************************************************)
(* What the assistant tells its owner about itself: that it is online or   *)
(* offline, that a work item died, and what recovery did with the works an *)
(* earlier session left.                                                   *)
(*                                                                         *)
(* A notice is a row that is executing while its message is sent.  It is   *)
(* begun by the main loop of the daemon (at start and after each poll) or  *)
(* by the worker whose work died, which interleave.  A death at the owner- *)
(* wait ceiling also writes a requirement, an outbox entry that outlives   *)
(* the process.  Works are reduced to what the notices read of them.       *)
(***************************************************************************)
EXTENDS Naturals

CONSTANTS
    Items,        \* the work items
    MaxDeaths,    \* bound: deaths of one item at the owner-wait ceiling
    MaxRuns       \* bound: sessions of the daemon

ASSUME NoticeParameters == MaxDeaths \in Nat \ {0} /\ MaxRuns \in Nat \ {0}

VARIABLES
    item,        \* work_items: status, and deaths at the ceiling so far
    required,    \* owner_resolution_required rows, one per such death
    notice,      \* owner_resolution rows, by idempotency key
    transition,  \* lifecycle_actions rows, by session
    run,         \* the session of the daemon
    loop,        \* the main loop: where it is, what is left to do there
    handler,     \* the terminal-failure handler of the worker that has the item
    sender,      \* the send that the main loop or a handler is making
    lost         \* history: notices whose outcome a crash made unknown

noticeVars == <<item, required, notice, transition, run, loop, handler, sender, lost>>

Deaths == 1 .. MaxDeaths
\* The two ways to name a notice: by requirement, or by the digest of its text.
Requirements == [item : Items, death : Deaths]
Texts == [item : Items, text : {"failure", "uncertain", "review"}]
Notes == Requirements \cup Texts
Loop == "loop"
Senders == Items \cup {Loop}
Idle == [stage |-> "idle"]

Init ==
    /\ item = [i \in Items |-> [status |-> "working", deaths |-> 0]]
    /\ required = [r \in Requirements |-> "none"]
    /\ notice = [n \in Notes |-> "none"]
    /\ transition = [s \in 1 .. MaxRuns |-> [online |-> "none", offline |-> "none"]]
    /\ run = 0
    /\ loop = [pc |-> "down", starting |-> TRUE, todo |-> {}, report |-> {}]
    /\ handler = [i \in Items |-> [pc |-> "off", death |-> 0]]
    /\ sender = [p \in Senders |-> Idle]
    /\ lost = {}

-----------------------------------------------------------------------------
(* Sending.                                                                  *)

Free(p) == sender[p].stage = "idle"
Begun(p, n) == sender' = [sender EXCEPT ![p] = [stage |-> "begun", note |-> n]]
AtLoop(pc) == loop.pc = pc /\ Free(Loop)
Goto(pc) == loop' = [loop EXCEPT !.pc = pc]
Handling(i, pc) == handler[i].pc = pc /\ Free(i)
Continue(i, pc) == handler' = [handler EXCEPT ![i].pc = pc]

\* The message goes out; whether it is heard of tells the answer, not the owner.
Transmit(p) ==
    /\ sender[p].stage = "begun"
    /\ \E outcome \in {"accepted", "failed"} : sender' = [sender EXCEPT ![p].stage = outcome]
    /\ UNCHANGED <<item, required, notice, transition, run, loop, handler, lost>>

\* CompleteOwnerResolutionNotification, which only an executing row accepts.
Complete(p) ==
    /\ sender[p].stage \in {"accepted", "failed"}
    /\ LET n == sender[p].note
       IN  notice' = IF notice[n] # "executing" THEN notice
                     ELSE [notice EXCEPT ![n] = IF sender[p].stage = "accepted" THEN "completed" ELSE "blocked"]
    /\ sender' = [sender EXCEPT ![p] = Idle]
    /\ UNCHANGED <<item, required, transition, run, loop, handler, lost>>

\* BeginOwnerResolutionNotification: insert, else read; a blocked row is taken by a
\* second statement, which is taken to have succeeded.
BeginText(p, n) ==
    CASE notice[n] = "none" -> notice' = [notice EXCEPT ![n] = "executing"] /\ Begun(p, n)
      [] notice[n] = "blocked" ->
           sender' = [sender EXCEPT ![p] = [stage |-> "retrying", note |-> n]] /\ UNCHANGED notice
      [] OTHER -> UNCHANGED <<notice, sender>>
RetryText(p) ==
    /\ sender[p].stage = "retrying"
    /\ notice' = [notice EXCEPT ![sender[p].note] = IF @ = "blocked" THEN "executing" ELSE @]
    /\ Begun(p, sender[p].note)
    /\ UNCHANGED <<item, required, transition, run, loop, handler, lost>>

\* Mutant: the requirement is closed but its send not begun in the transaction.
BeginRequirementApart(p, r) ==
    CASE required[r] # "blocked" -> UNCHANGED <<required, notice, sender>>
      [] required[r] = "blocked" /\ item[r.item].status # "dead" ->
           required' = [required EXCEPT ![r] = "cancelled"] /\ UNCHANGED <<notice, sender>>
      [] OTHER ->
           /\ required' = [required EXCEPT ![r] = "completed"]
           /\ UNCHANGED notice
           /\ IF notice[r] \in {"none", "blocked"} THEN Begun(p, r) ELSE UNCHANGED sender

\* Mutant: the rows are not read in the transaction, nor is the result of the update.
BeginRequirementUnfenced(p, r) ==
    /\ required' = [required EXCEPT ![r] = IF item[r.item].status = "dead" THEN "completed" ELSE "cancelled"]
    /\ IF item[r.item].status = "dead"
       THEN notice' = [notice EXCEPT ![r] = "executing"] /\ Begun(p, r)
       ELSE UNCHANGED <<notice, sender>>

\* BeginOwnerResolutionNotificationForRequirement, one transaction.
BeginRequirement(p, r) ==
    CASE required[r] # "blocked" -> UNCHANGED <<required, notice, sender>>
      [] required[r] = "blocked" /\ item[r.item].status # "dead" ->
           required' = [required EXCEPT ![r] = "cancelled"] /\ UNCHANGED <<notice, sender>>
      [] OTHER ->
           /\ required' = [required EXCEPT ![r] = "completed"]
           /\ IF notice[r] \in {"none", "blocked"}
              THEN notice' = [notice EXCEPT ![r] = "executing"] /\ Begun(p, r)
              ELSE UNCHANGED <<notice, sender>>

-----------------------------------------------------------------------------
(* The main loop: start, recovery, notices, lifecycle.                       *)

Start ==
    /\ loop.pc = "down" /\ run < MaxRuns
    /\ run' = run + 1
    /\ loop' = [pc |-> "recover", starting |-> TRUE, todo |-> {}, report |-> {}]
    /\ UNCHANGED <<item, required, notice, transition, handler, sender, lost>>

\* Recovery of the works of earlier sessions: claimed again, held for a review by
\* the owner, or dead because an action of theirs was under way.
Recovered == [working |-> {"queued", "held", "dead"}, queued |-> {"queued"},
              held |-> {"held"}, dead |-> {"dead"}]
Converge ==
    /\ AtLoop("recover")
    /\ \E next \in [Items -> {"queued", "held", "dead"}] :
         /\ \A i \in Items : next[i] \in Recovered[item[i].status]
         /\ item' = [i \in Items |-> [item[i] EXCEPT !.status = next[i]]]
         /\ loop' = [loop EXCEPT !.pc = "converge",
                       !.report = {[item |-> i, text |-> IF next[i] = "dead" THEN "uncertain" ELSE "review"] :
                                     i \in {j \in Items : next[j] # "queued" /\ item[j].status = "working"}}]
    /\ UNCHANGED <<required, notice, transition, run, handler, sender, lost>>

\* Mutant: a notice that was on its way in an earlier session counts as failed.
ConvergeRequirementsAndSends ==
    /\ AtLoop("converge")
    /\ required' = [r \in Requirements |->
         IF required[r] = "blocked" /\ notice[r] # "none" THEN "completed" ELSE required[r]]
    /\ notice' = [n \in Notes |-> IF notice[n] = "executing" THEN "blocked" ELSE notice[n]]
    /\ Goto("pending")
    /\ UNCHANGED <<item, transition, run, handler, sender, lost>>

\* ConvergeOwnerResolutionRequirements.
ConvergeRequirements ==
    /\ AtLoop("converge")
    /\ required' = [r \in Requirements |->
         IF required[r] = "blocked" /\ notice[r] # "none"
         THEN "completed" ELSE required[r]]
    /\ Goto("pending")
    /\ UNCHANGED <<item, notice, transition, run, handler, sender, lost>>

ListPending ==
    /\ AtLoop("pending")
    /\ loop' = [loop EXCEPT !.pc = "retry", !.todo = {n \in Notes : notice[n] = "blocked"}]
    /\ UNCHANGED <<item, required, notice, transition, run, handler, sender, lost>>

\* RetryOwnerResolutionNotification, one transaction for each listed notice.
Retry ==
    /\ AtLoop("retry")
    /\ \E n \in loop.todo :
         /\ loop' = [loop EXCEPT !.todo = @ \ {n}]
         /\ IF notice[n] = "blocked"
            THEN notice' = [notice EXCEPT ![n] = "executing"] /\ Begun(Loop, n)
            ELSE UNCHANGED <<notice, sender>>
    /\ UNCHANGED <<item, required, transition, run, handler, lost>>

ListRequired ==
    /\ AtLoop("retry") /\ loop.todo = {}
    /\ loop' = [loop EXCEPT !.pc = "require", !.todo = {r \in Requirements : required[r] = "blocked"}]
    /\ UNCHANGED <<item, required, notice, transition, run, handler, sender, lost>>

Require ==
    /\ AtLoop("require")
    /\ \E r \in loop.todo :
         /\ loop' = [loop EXCEPT !.todo = @ \ {r}]
         /\ BeginRequirement(Loop, r)
    /\ UNCHANGED <<item, transition, run, handler, lost>>

\* Mutant: the requirements are looked at when the daemon starts only.
FlushedAtStart ==
    /\ AtLoop("require") /\ (loop.todo = {} \/ ~loop.starting)
    /\ Goto(IF loop.starting THEN "report" ELSE "serve")
    /\ UNCHANGED <<item, required, notice, transition, run, handler, sender, lost>>

Flushed ==
    /\ AtLoop("require") /\ loop.todo = {}
    /\ Goto(IF loop.starting THEN "report" ELSE "serve")
    /\ UNCHANGED <<item, required, notice, transition, run, handler, sender, lost>>

\* notifyRecoveryConvergence, for each notice of the recovery report.
Report ==
    /\ AtLoop("report")
    /\ \E n \in loop.report :
         /\ loop' = [loop EXCEPT !.report = @ \ {n}]
         /\ BeginText(Loop, n)
    /\ UNCHANGED <<item, required, transition, run, handler, lost>>

\* Lifecycle notices: a row, the message, its outcome.  A daemon that cannot say
\* that it is online ends, before it has promised to say that it is offline.
Row(t, status) == transition' = [transition EXCEPT ![run][t] = status]
rest == UNCHANGED <<item, required, notice, run, handler, sender, lost>>
Announce ==
    \/ AtLoop("report") /\ loop.report = {} /\ Row("online", "executing") /\ Goto("online") /\ rest
    \/ AtLoop("stopping") /\ (\A i \in Items : handler[i].pc = "off") /\ Row("offline", "executing")
       /\ Goto("offline") /\ rest
\* Mutant: a daemon that could not say that it is online shuts down in order.
AnnouncedOrderly ==
    \/ AtLoop("online") /\ Row("online", "completed") /\ loop' = [loop EXCEPT !.pc = "serve", !.starting = FALSE] /\ rest
    \/ AtLoop("online") /\ Row("online", "blocked") /\ Goto("stopping") /\ rest
    \/ AtLoop("offline") /\ (\E status \in {"completed", "blocked"} : Row("offline", status)) /\ Goto("down") /\ rest

Announced ==
    \/ AtLoop("online") /\ Row("online", "completed") /\ loop' = [loop EXCEPT !.pc = "serve", !.starting = FALSE] /\ rest
    \/ AtLoop("online") /\ Row("online", "blocked") /\ Goto("down") /\ rest
    \/ AtLoop("offline") /\ (\E status \in {"completed", "blocked"} : Row("offline", status)) /\ Goto("down") /\ rest

Serving == loop.pc \notin {"down", "recover", "stopping", "offline"} /\ ~loop.starting
Tick == AtLoop("serve") /\ Goto("converge") /\ UNCHANGED transition /\ rest
Stop == AtLoop("serve") /\ Goto("stopping") /\ UNCHANGED transition /\ rest

Crash ==
    /\ loop.pc # "down"
    /\ loop' = [pc |-> "down", starting |-> TRUE, todo |-> {}, report |-> {}]
    /\ handler' = [i \in Items |-> [pc |-> "off", death |-> 0]]
    /\ lost' = lost \cup {n \in Notes : notice[n] = "executing"}
    /\ sender' = [p \in Senders |-> Idle]
    /\ UNCHANGED <<item, required, notice, transition, run>>

-----------------------------------------------------------------------------
(* The works and their workers.                                              *)

Put(i, status) == item' = [item EXCEPT ![i].status = status]

Work(i) ==
    /\ Serving /\ Handling(i, "off") /\ item[i].status = "queued"
    /\ Put(i, "working")
    /\ UNCHANGED <<required, notice, transition, run, loop, handler, sender, lost>>

\* DeferWaitingUserClaim at its ceiling: the death and its requirement are one
\* transaction.
DieWaiting(i) ==
    /\ Serving /\ Handling(i, "off") /\ item[i].status = "working"
    /\ item[i].deaths < MaxDeaths
    /\ item' = [item EXCEPT ![i] = [status |-> "dead", deaths |-> @.deaths + 1]]
    /\ required' = [required EXCEPT ![[item |-> i, death |-> item[i].deaths + 1]] = "blocked"]
    /\ Continue(i, "list")
    /\ UNCHANGED <<notice, transition, run, loop, sender, lost>>

\* MarkRetryClaim at its ceiling, or a permanent failure: nothing durable says
\* that the owner must be told.
DieFailing(i) ==
    /\ Serving /\ Handling(i, "off") /\ item[i].status = "working"
    /\ Put(i, "dead")
    /\ Continue(i, "list")
    /\ UNCHANGED <<required, notice, transition, run, loop, sender, lost>>

\* HandleTerminalFailure: the oldest requirement of the item if there is one,
\* else a notice by its text if the item is still dead.
Find(i) ==
    /\ Handling(i, "list")
    /\ LET open == {d \in Deaths : required[[item |-> i, death |-> d]] = "blocked"}
       IN  \/ open = {} /\ Continue(i, "text")
           \/ \E d \in open :
                /\ \A e \in open : d <= e
                /\ handler' = [handler EXCEPT ![i] = [pc |-> "requirement", death |-> d]]
    /\ UNCHANGED <<item, required, notice, transition, run, loop, sender, lost>>
TellRequirement(i) ==
    /\ Handling(i, "requirement")
    /\ BeginRequirement(i, [item |-> i, death |-> handler[i].death])
    /\ Continue(i, "end")
    /\ UNCHANGED <<item, transition, run, loop, lost>>
TellText(i) ==
    /\ Handling(i, "text")
    /\ IF item[i].status = "dead" THEN BeginText(i, [item |-> i, text |-> "failure"])
                                  ELSE UNCHANGED <<notice, sender>>
    /\ Continue(i, "end")
    /\ UNCHANGED <<item, required, transition, run, loop, lost>>
End(i) ==
    /\ Handling(i, "end")
    /\ handler' = [handler EXCEPT ![i] = [pc |-> "off", death |-> 0]]
    /\ UNCHANGED <<item, required, notice, transition, run, loop, sender, lost>>

\* An explicit resume cancels what is blocked, and is refused while a notice of
\* the work is executing.
Resume(i) ==
    /\ item[i].status \in {"dead", "held"}
    /\ \A n \in Notes : n.item = i => notice[n] # "executing"
    /\ Put(i, "queued")
    /\ required' = [r \in Requirements |->
         IF r.item = i /\ required[r] = "blocked" THEN "cancelled" ELSE required[r]]
    /\ notice' = [n \in Notes |-> IF n.item = i /\ notice[n] = "blocked" THEN "cancelled" ELSE notice[n]]
    /\ UNCHANGED <<transition, run, loop, handler, sender, lost>>

\* The owner approves an action that dead work left waiting: it is claimed again,
\* its notices stay.
Revive(i) ==
    /\ item[i].status = "dead"
    /\ Put(i, "queued")
    /\ UNCHANGED <<required, notice, transition, run, loop, handler, sender, lost>>

LoopStep == ConvergeRequirements \/ ListPending \/ Retry \/ ListRequired \/ Require \/ Flushed \/ Report
Boot == Start \/ Converge \/ Announce \/ Announced
SendStep == \E p \in Senders : RetryText(p) \/ Transmit(p) \/ Complete(p)
HandlerStep(i) == Find(i) \/ TellRequirement(i) \/ TellText(i) \/ End(i)
WorkStep(i) == Work(i) \/ DieWaiting(i) \/ DieFailing(i) \/ Resume(i) \/ Revive(i)

Next == LoopStep \/ Boot \/ SendStep \/ Tick \/ Stop \/ Crash
        \/ \E i \in Items : HandlerStep(i) \/ WorkStep(i)

\* The loop and a send that is under way go on; the poll ticks.
Fairness == WF_noticeVars(LoopStep) /\ WF_noticeVars(Boot) /\ WF_noticeVars(SendStep) /\ WF_noticeVars(Tick)

Spec == Init /\ [][Next]_noticeVars /\ Fairness

-----------------------------------------------------------------------------
(* Properties.                                                               *)

Status == {"none", "executing", "completed", "blocked", "cancelled"}
NoticeTypeOK ==
    /\ item \in [Items -> [status : {"queued", "working", "held", "dead"}, deaths : 0 .. MaxDeaths]]
    /\ required \in [Requirements -> Status \ {"executing"}]
    /\ notice \in [Notes -> Status]
    /\ transition \in [1 .. MaxRuns -> [online : Status, offline : Status]]
    /\ run \in 0 .. MaxRuns
    /\ loop.todo \subseteq Notes /\ loop.report \subseteq Texts
    /\ lost \subseteq Notes

\* A notice whose outcome a crash made unknown is not sent again, by the flush,
\* by a handler or by a later recovery (ListPendingOwnerResolutionNotifications:
\* "Executing sends remain uncertain and are never blindly replayed").
NeverReplayed == [][\A p \in Senders : (sender[p].stage = "begun" /\ sender'[p].stage # "begun"
                      /\ sender'[p].stage # "idle") => sender[p].note \notin lost]_noticeVars

\* The worker whose work died and the main loop both look for the requirement, and
\* only one of them sends its notice at a time (BeginOwnerResolutionNotification-
\* ForRequirement). Notices by text have no such fence: the second statement of
\* BeginText is not checked.
OneSender ==
    \A p \in Senders, q \in Senders :
        (p # q /\ ~Free(p) /\ ~Free(q) /\ sender[p].note \in Requirements)
            => sender[p].note # sender[q].note

\* A requirement is closed by the notice it asks for, or cancelled because its
\* work is not dead any more; it is never closed over nothing.
ClosedByNotice ==
    \A r \in Requirements : required[r] = "completed" => notice[r] # "none"

\* A daemon says that it is offline only after it said that it is online.
OfflineAfterOnline ==
    \A s \in 1 .. MaxRuns : transition[s].offline # "none" => transition[s].online = "completed"

\* If the daemon stays up, every requirement gets its notice or is cancelled:
\* whatever crashed between the death of the work and the message.
RequirementsAreMet ==
    \A r \in Requirements :
        <>[](loop.pc \notin {"down", "stopping", "offline"}) => (required[r] = "blocked" ~> required[r] # "blocked")
=============================================================================
