# A verification development for lark-agent

lark-agent is a personal assistant that runs as one daemon on its owner's
machine: it admits Lark messages into a durable SQLite queue, lets a language
model decide about each of them, and carries out what was decided (a reply, a
note to the owner, a shell command) under policy and approval. This directory
holds TLA+ modules of the queue and of the daemon that drains it, of the intake
that fills it, and of what the daemon does around it (the owner's commands,
notices, resources, the model's run, the verdict whether a message was answered),
the configurations that model-check them with TLC, and theorems about them that
TLAPS proves for every value of the constants.

| file | what it is |
| --- | --- |
| `WorkStore.tla` | the database: one operator per method of `agent/storage` that decides what may run or be sent |
| `WorkQueue.tla` | the program over it: workers (`app.Daemon.RunOnce`), the daemon process, operator commands |
| `WorkQueueProperties.tla` | what the queue promises: invariants, action properties, liveness, and claims of the documentation that the code does not keep |
| `WorkQueueMC.tla`, `*.cfg` | values of the constants for TLC, one configuration per question |
| `WorkStoreProofs.tla` | lemmas: what each operator of the store keeps of the types |
| `WorkQueueProofs.tla` | types, the audit of actions, the shell, leases: theorems about `Spec` and their proofs |
| `RecoveryProofs.tla` | claims and sessions over crashes and restarts, and what a restart readmits |
| `ReplyProofs.tla` | replies: approved before they are sent, accepted before the work is closed, told to the owner |
| `Intake.tla` | how a message becomes a work item: poller, event stream, backfill, receipts, work rows |
| `IntakeLedger.tla` | the abstract specification that `Intake` implements: at most one work item per message, none forgotten |
| `IntakeProperties.tla`, `IntakeMC.tla`, `IntakeProofs.tla` | its properties with the refinement mapping, its instance, its theorems |
| `OwnerControl.tla`, `OwnerControlMC.tla`, `OwnerControlProofs.tla` | the owner's commands over `WorkStore`, in chat and on the command line |
| `Notices.tla`, `NoticesMC.tla`, `NoticesProofs.tla` | what the owner is told: online, offline, dead and held work |
| `OwnerActivity.tla` | the reaction on a request while a worker is at it |
| `Resources.tla` | how a change of a watched Base record becomes a handoff |
| `ResourceWrites.tla` | a write to a resource: audit, approval, compare and update |
| `ModelLoop.tla` | one run of the model: turns, budgets, evidence, decision |
| `ReplyMatch.tla` | the verdict whether a message still needs an answer |
| `Duties.tla`, `DutiesMC.tla`, `DutiesProofs.tla` | the last five together, their instance, and the theorems about them |
| `PROJECT.json` | the index: components, runs, mutants, the map from definitions to source lines, findings, hazards, theorems |

`WorkQueue` EXTENDS `WorkStore`, `WorkQueueProperties` EXTENDS `WorkQueue`, and
both `WorkQueueMC` and `WorkQueueProofs` EXTEND `WorkQueueProperties`: what TLC
checks and what TLAPS proves is the same text. `RecoveryProofs` EXTENDS
`WorkQueueProofs` for its lemmas, and `ReplyProofs` EXTENDS `RecoveryProofs`.
`OwnerControl` EXTENDS `WorkStore` too: it is a second program over the same tables,
and both `WorkQueueProofs` and `OwnerControlProofs` EXTEND `WorkStoreProofs`.
`IntakeProperties` EXTENDS `Intake` and takes `IntakeLedger` with
`INSTANCE ... WITH`. `Duties` takes five modules with `INSTANCE`, each of which is a
specification of its own: `A` is `OwnerActivity`, `R` `Resources`, `W`
`ResourceWrites`, `L` `ModelLoop` and `M` `ReplyMatch`. `DutiesProofs` EXTENDS
`Duties` and cites them as `A!`, `R!`, `W!`, `L!` and `M!`.

## 1. The system

### Components

Paths are under `src/`.

- **Durable queue** (`agent/storage/storage.go`). State: `work_items` (status,
  lease, generation, retry counters, session), `action_attempts` (the audit of
  every external action, one row per idempotency key), `work_reply_candidates`,
  `delegated_investigations`, `dead_letters`, `agent_runs`. Operations: claim,
  complete, retry, defer, dead-letter, request / decide / consume an approval,
  begin / complete an action. The database has one connection, so a method that
  is one transaction is atomic. *Correct when* a lease has one holder, an action
  is not started twice, and a recorded result is final.
- **Sessions and recovery** (`agent/storage/session.go`). State:
  `online_sessions`, `work_interruptions`, `intake_receipts`. A starting daemon
  interrupts the work the previous session left, converges it into its own
  session (readmit, hold, await or close), and pauses its work at shutdown.
  *Correct when* no claim of a dead process survives, uncertain external results
  are not replayed, and stale context does not run again.
- **Work execution** (`agent/app/app.go`). `RunOnce` claims one work item and
  takes it through resumption, routing, semantic resolution, investigation, the
  model run, the semantic check of the result, the owner notice, the reply and
  the completion. *Correct when* no path loses the work or closes it without
  what closing it promises.
- **Daemon and CLI** (`agent/cmd/root.go`). One daemon process with several
  workers; CLI processes that open the same database to decide approvals and to
  resume, cancel or retry work.
- **Reply controller and policy** (`agent/reply`, `agent/policy`). Gate, consume
  the exact approval, begin, send, record. *Correct when* nothing risky reaches
  a sender without an approval of exactly that text.
- **Delegated investigation** (`agent/investigation`). A staged answer to work
  addressed to the owner: durable row, owner notice, progress message, then the
  model; finalizing before the answer and completed with it.
- **Shell tool** (`agent/tools/shell.go`). Approval, audit, run, record.
- **Intake** (`session.go`, `agent/ingest`, `agent/poll`, `agent/realtime`).
  State: `intake_receipts`, `poll_cursors`, new rows of `work_items`. A message may
  arrive by event, by poll and by backfill, in several versions; a receipt row per
  arrival makes one work item of it. The poller keeps a cursor and looks back a
  little behind it; the stream is supervised and may lose events. *Correct when* a
  message becomes at most one work item, none is passed by, and no older version
  undoes a newer one.
- **Owner control** (`agent/storage/owner_control.go`, `agent/control`). State:
  `owner_control_commands` (the journal), `owner_work_resolutions`,
  `memory_entries`. Commands the owner types, in slash syntax or in words that the
  model resolves against a list of candidates; `queue` commands of the CLI call
  the same functions. *Correct when* a message acts once, its answer is true, and
  what the owner is shown can be acted upon.
- **Lifecycle and owner-resolution notices** (`agent/lifecycle`, `session.go`,
  the main loop of `agent/cmd/root.go`). State: `lifecycle_actions`,
  `owner_resolution_required` and `owner_resolution` rows. *Correct when* a
  requirement gets its notice, once, whoever crashes, and an uncertain send is not
  repeated.
- **Owner activity** (`agent/feedback`, `storage.go`). A reaction on the request,
  added and removed around a run. *Correct when* none is left behind.
- **Resource monitor** (`agent/resource`). State: `resource_subscriptions`,
  `resource_evidence`, handoffs as work items. Reconciliation before each poll,
  the event stream and notifications found by the poller. *Correct when* a change
  is handed over once, what stood there before is not, and no change is missed.
- **Resource writes** (`agent/tools/resource.go`, `internal/lark/resource_service.go`,
  `storage.go`). *Correct when* one exact request is carried out at most once.
- **Model loop** (`agent/runtime`). Turns and tool calls within budgets, sources
  that a decision may cite, evidence a handoff needs, a correction turn, the
  finalizer. *Correct when* a closed run stays closed, a decision cites nothing
  outdated, and a write rests on evidence.
- **Semantic matching** (`agent/replymatch`, `agent/taskrules`, the resolver of
  `agent/cmd/root.go`). Reads rules, reaction and chat one after the other and asks
  the model. *Correct when* silence has a cause in the chat and no answer goes to
  a message that needs none.
- **Smart command** (`agent/smartcmd`), tools, context, rules text, configuration,
  the Lark and GitHub clients, platform support: text, I/O and one-shot runs.

### How they interact, and what is hard

Intake inserts work items, workers and owner commands move them, recovery hands
them from one session to the next, notices report on them, and a handoff of the
resource monitor is one of them. Workers, recovery and CLI processes communicate
only through the database. A
worker makes many short transactions with external calls between them, so
between any two of its steps the process may die, an operator may decide,
resume or cancel, and a decision may take its lease and give the work to another
worker. The hard behaviours follow from that:

- *interleaving*: two workers or a worker and the operator on one work item;
  listing in one query and writing in another (`interruptSessionWork`);
- *crash recovery*: a command ran or a reply was sent and the result is not
  recorded; a session row stays `ready` for ever;
- *protocol sequence*: generations of a work item share its audit rows; an
  approval, an interruption, an investigation and a held draft overlap;
- *unreliable delivery*: events are lost and repeated, searches lag, each source
  holds a copy of a message of another age;
- *stale state*: rows are listed and written back later, the chat goes on while a
  verdict on it is made, a file changes under the run that cites it;
- *partial failure*: of an owner notice, a reply and a completion, any prefix
  may have happened;
- *liveness and bounds*: retries, deferrals and held candidates must end.

`PROJECT.json` lists each of them at its source line under `hazards`, with the
properties that would catch it going wrong or the reason none does yet.

## 2. What is modelled

### `WorkStore`: the database

| variable | code |
| --- | --- |
| `work` | `work_items`: `status`, `lease_by`, `generation`, `retry_count`, `owner_reply_retry_count`, `session_id`, the kind in `decision_json` |
| `attempts` | `action_attempts`: status by idempotency key. A key is a record of its kind, its generation (communication keys carry it, shell keys do not) and the draft or command it is exact about |
| `newest` | the `action_attempts` row with the highest id, which `interruptionSnapshot` reads |
| `ran` | works with a row in `agent_runs` |
| `snapshots` | open `work_interruptions` rows, by whether they record an uncertain action |
| `candidate`, `inquiry` | `work_reply_candidates`, `delegated_investigations` |
| `sessions`, `session` | `online_sessions`, and the session of the daemon's `Store` |

Each operator carries the name of its Go method. A method that fails without
writing is a predicate (`HoldsLease`, `CanFinalize`, `Resumable`) and an effect,
so that the caller chooses what the error does.

### `WorkQueue`: workers, daemon, operator

`job[k]` is the goroutine of worker `k`. Its `pc` names the next Store method or
external call, so every pair of calls can be separated by a crash, by the
operator or by another worker.

| path of `RunOnce` | actions |
| --- | --- |
| claim and resume what is owed | `Claim`, `Inspect` |
| route, resolve, defer | `Route`, `Resolve`, `Defer` |
| investigation | `Inquire`, `StageBegin`, `StageSend`, `StageRecord`, `Investigate` |
| held candidate | `Held` |
| model run and shell | `StartRun`, `CallShell`, `RunShell`, `RecordShell`, `Decide` |
| candidate and second check | `SaveCandidate`, `FinalResolve`, `Finalize` |
| `finishDecisionWithState` | `Finish`, `Preflight`, `NoticeBegin`, `NoticeLease`, `Notify`, `Notified` |
| `reply.Controller.Handle` | `Handle`, `Gate`, `RequestReply`, `Refuse`, `BeginReply`, `Send`, `RecordSent`, `RecordUnsent`, `Settle` |
| completion and failure | `Replied`, `Closing`, `Close`, `Failed`, `Permanent`, `TerminalFailure`, `Falter` |

The daemon goes through `down`, `starting`, `recovering`, `recovered`, `ready`,
`running`, `draining`, `pausing`, `paused`. `ListPriorWork` and `Interrupt` are two
steps because `interruptSessionWork` reads outside its transaction. `StopSession`
is `Store.Close`, on every orderly exit. `Crash` may come in any state: workers
vanish, and every row stays.

Operator commands are `DecideApproval` (`DecideAction`), `Resume`, `Cancel` and
`Retry`, each for a single work item. A CLI process finds its session when it opens
the store (`loadActiveSession`) and keeps it, whatever starts or stops before its
command runs; so a resume or a retry is made in any session that was ever the newest
open one (`OpenedSessions`).

The environment is external and nondeterministic: what the model submits
(`Outcomes`), what the router and the resolver answer, whether a call fails, and
whether Lark accepted a message whose answer was lost. Lark keeps one message
per idempotency key (`Send`), which is what the code relies on when it passes
`PublicMessageUUID`.

`runs`, `delivered`, `doubt`, `approved` and `strays` are not in the code. The first
four record what the outside world saw, for the properties; `strays` the works that
were resumed into a session that was over, since recovery last listed the works.

### `Intake`: messages, receipts, work rows

| variable | code |
| --- | --- |
| `work` | `work_items` as intake writes them, by row id: deduplication key, status, due time, `message_updated_at`, whether the text is empty |
| `receipt` | the newest `intake_receipts` row of each message, with its link to a work item |
| `cursor`, `floor` | `poll_cursors`: `messages:all` and `messages:intake-floor` |
| `job` | for each source the copies it holds, those still to record, and the receipt it has read |
| `resume` | `queue resume` of an offline message between its insert and its link |
| `message`, `now`, `offered` | Lark, the clock and the resource sink (external) |

`FindReceipt` and `Record` are two steps of each source, because
`findIntakeReceipt` reads before the transaction of `recordIntake`. `Record` is the
whole of `recordIntake`: `FirstReceipt`, `RecordDuplicateIntake`,
`AdmitBackfillReceipt` and `CurrentEvent` are its branches. `BeginPoll`,
`ColdStart`, `SearchPoll`, `FinishPoll` and `GiveUp` are `Poller.Poll` from the query
window to the cursor; `Deliver` and `LoseStream` the realtime source; `BeginBackfill`
the command; `Start`, `Stop`, `Claim`, `Send`, `Edit` and `Tick` what happens around.

`IntakeLedger` says in two actions what this is for: a message is observed, and
queued at most once. `Ledger` in `IntakeProperties` maps the tables to it: a message
is observed by a receipt or a work row (`Observed`), and queued as often as it has
work rows (`Queued`).

### `OwnerControl`: commands

`ask` holds the command messages, `journal` the messages whose command is committed,
`resolved` the resolution of the present version of each work, `memory` the entries.
`Ask`, `ClaimAsk`, `ResolvePlain` (the semantic resolver), `Handle`
(`ExecuteOwnerMutation`), `BeginAnswer`, `Deliver`, `RecordAnswer` and `CloseAsk`
take a message through `RunOnce`. One operator per mutation (`RetryOwnerWork`,
`CancelOwnerWork`, `AcknowledgeOwnerWork`, `ReconcileOwnerWork`,
`DecideOwnerApproval`, `ResumeWork`, `MutateMemory`) and one condition for each
(`Accepted`). `Candidate` is what the resolver offers the model, `Offered` what the
list of actions shows. `Cli` is the command line: retry, resume, cancel, acknowledge,
reconcile and the decisions of approvals.

The works that commands are about run beside them: claimed, proposed, parked, sent
and finished, failed and retried, and, if delegated, investigated (`Inquire`,
`Stage`), drafted, held and deferred (`Draft`, `Hold`, `Defer`). How investigated work
is answered in the end, and the orderly shutdown, are left to `WorkQueue`.

The daemon starts as the code does. `List` and `Interrupt` are the two statements of
recovery, with `listed` between them, so a command may come between. `Converge` moves
interrupted work on or leaves it interrupted (work with an investigation or a draft),
and `Reported` is what it tells the owner of each. Those `notices` are owed: `Retell`
flushes the ones that failed in an earlier start, `Tell` begins one and `Told` records
it, with `sending` between them; then the daemon serves (`Online`). A crash may come
in any of these steps.

### `Notices`: what the owner is told

`required` are the outbox rows that a death at the owner-wait ceiling writes,
`notice` the sends by key, `transition` the lifecycle rows by session, `loop` the main
loop of the daemon, `handler` the terminal-failure handler of a worker, `sender` the
send that either has under way. `BeginRequirement` and `RetryText` are the two ways
to begin a send; `Transmit` and `Complete` finish it. The loop goes
`recover, converge, pending, retry, require, report, online, serve`, and back to
`converge` after each poll.

### `Duties`: five parts that share nothing

| part | state | actions |
| --- | --- | --- |
| `OwnerActivity` | `activity` rows, `shown` reactions, `worker` | `Clean`, `ClaimRequest`, `Begin`, `Create`, `Record`, `Work`, `Removed`, `NotRemoved`, `Note`, `Age`, `Crash` |
| `Resources` | `sub`, `evidence`, `handed`, `job` of the loop and the stream | `Sync`, `Fetch`, `Compare`, `Record`, `Handoff`, `Save`, events, `Poll`, `Start`, crash |
| `ResourceWrites` | one `action` row, `caller` of each run, the `field` | `Begin`, `Request`, `Consume`, `CompareField`, `WriteField`, `Verify`, `CompleteAction`, `Decide`, `Restart` |
| `ModelLoop` | budgets, the file's `version`, `allowed` sources, `found` evidence | `StartTurn`, `Calls`, the calls (`HandoffCall` for those of a handoff), `SubmitDecision`, `EndTurn`, `Finalize` |
| `ReplyMatch` | `chat`, `target`, `rules`, `resolver`, `resolution` | `LoadRules`, `ReadReaction`, `ReadContext`, `Classify`, `Record`, and the chat going on |

`Duties` chooses at the start which part moves, and the others stay in an initial
state. This is sound because the five share no row and no variable: what one may do
does not depend on the others, so each behaviour of all five together is one of each
part with stuttering.

### Abstractions

In `WorkStore` and `WorkQueue`:

- Time: `next_attempt_at` and due dates are dropped, so a waiting row may be
  claimed at any time; priority and lanes are dropped, so any claimable row may
  be next. Both allow more than the code does.
- A claim token is the worker's name. The code's token is fresh for each claim;
  a worker has one work item at a time and forgets it before it claims again, so
  the two tell the same claims apart.
- Leases do not expire: `RequeueExpiredLeases` and `RequeueAbandonedRuns` are
  called by tests only. A lease is lost through `DecideAction`, and in recovery.
- Merged steps, where nothing another process does in between is told apart: the
  three resumption reads of `RunOnce` (`Inspect`); the claim and the loading of
  its context; the readmission of untouched waiting work and the listing in
  `ListPriorWork`.
- Which of several approved drafts, or owed notices, is taken is left open
  (the code takes the row with the lowest id).
- A run error is permanent or retryable at will (`Failed`).
- A cancelled context is observed in `draining` or when the lease is lost.
- Errors of SQLite itself, rows of older schema versions, and resource, coding
  goal and owner-activity rows are left out.
- `ShellAtMostOnce` counts starts of the exact command of one work item; a
  command is its own key, as in `shellActionKey`.

In the other modules:

- `Intake`: of the receipts of one message only the newest is kept; seconds are
  `Second` ticks, to keep the rounding of the search window; the connection of the
  stream is folded into a delivery that may or may not happen; when messages are
  sent and edited is bounded by `SendTimes` and `EditTimes`.
- `OwnerControl`: a list is never longer than its first page; commands that only read
  are one; the two staged messages of an investigation are one; a notice that failed
  may be sent again in a flush or not.
- `Notices`: works are their status and the number of deaths at the ceiling; the
  text of a notice is its kind.
- `Resources`: one record per Base. The instance has no configured subscription,
  only one added by the CLI: `bootstrapConfiguredResourceSubscriptions` sets the
  cursor of a configured one back at each start, see below.
- `ModelLoop`: one file, by version, stands for the workspace; a refused search,
  chat context or shell call is a failed call; the quality review of a decision is
  accepted or not (`sound`). A look of a handoff finds what it names as sources, and
  whether it names any is left open, for the history too, which names none in the
  shipped tools (section 5); the lookup of a schema always counts.
- `ReplyMatch`: a message is whose it is and how it is linked, not text; the model
  may answer anything; recalled messages and paging are an incomplete read.

## 3. What is checked

Twelve runs. The bounds of the first four and of the violations are
`MaxGeneration`, `MaxSessions`, `MaxCommands` (operator commands), and
`MaxRetries = MaxOwnerRetries = 2`.

| run | instance | properties |
| --- | --- | --- |
| `queue_shell` | 2 workers, 1 work item, 1 command needing approval, 2 generations, 2 sessions, 2 commands | `ShellAtMostOnce`, `NoOrphanedWork`, `FencedWorkerIsHarmless`, `UncertainNotReadmitted` |
| `queue_reply` | 1 worker, 1 delegated work item, 1 risky draft, 2 generations, 2 sessions, 2 commands | `TypeOK`, `RiskyOnlyWithApproval`, `ClaimsOwnSession` |
| `queue_direct` | 1 worker, 1 delegated work item, 1 draft sent without approval, 2 generations, 2 sessions, 1 command | `ReplyClosesWork`, `OwnerIsTold`, `ResultsAreFinal` |
| `queue_inquiry` | 1 worker, 1 delegated work item with investigation and held candidate, 1 generation, 2 sessions, 1 command, fair | `RestartArchivesContext`, `EventuallySettled` |
| `intake` | 1 message of any of 3 sorts, 3 sources, edits, look-back 2 ticks, 2 ticks to a second, clock to 4, 2 starts, 1 failing call, fair | `TypeOK`, `NothingSlipsPast`, `LedgerKept`, `VersionsMoveForward`, `EventuallyRecorded` |
| `owner_commands` | 1 command message, 1 work item, 1 draft, 2 generations, 3 sessions, in four scopes: a message (resume, cancel or a memory) over a restart; any message beside one typed cancel or acknowledgement; two typed commands over a restart; one that is no resume over two; the last two about delegated work; 1.7 million states | `TypeOK`, `AppliedOnce`, `AnswersAreTrue`, `NoDeadEnd`, `AcknowledgedRests` |
| `notices` | 1 work item, 1 death at the ceiling, 2 sessions, fair | `OneSender`, `ClosedByNotice`, `OfflineAfterOnline`, `NeverReplayed`, `RequirementsAreMet` |
| `duties` | one part at a time: 1 request and 2 workers; 1 Base, 2 edits, 2 starts; 2 runs of one write; 2 kinds of work with 2 or 4 turns; 2 messages after the target and 1 change; fair | `TypeOK` and the twelve properties of the parts |
| `private_approval` | violation | `ApprovedDraftResumes` |
| `replayed_reply` | violation | `ExecutingNeverReplayed` |
| `spent_approval` | violation | `AwaitingHasAction` |
| `cancelled_work` | violation | `TerminalIsFinal` |

**Why the bounds are enough for the question asked.** In `WorkQueue`, rows of different work
items never interact in the code except through a worker's choice of the next
one, and every property speaks of one item at a time, so one item shows what
goes wrong with an item. Two workers are needed, and suffice, for a fenced
worker and its successor. Two sessions give one restart at every step of the
first; two generations give rows left by an earlier one. Two operator commands
give an approval and then one command that crosses it. A ceiling of two retries
gives a retry that is followed by another claim, and one that is the last. The
instances are one path wide on purpose: the shell path needs no draft, the reply
path no command, and a product of both is out of reach. `queue_direct` exists
because a risky draft can be sent only once in a generation (its approval is
spent): that a reply is begun again after a failure, a crash or a resume needs a
draft that waits for nobody.
In `intake` one message suffices because no receipt or row of one message is read for
another, except by the id under which a row is stored, which the theorem
`IntakeTypeCorrect` settles for any number; two ticks to a second give a window that is
rounded down, a delay of two is indexed at the end of the look-back, and an edit at 3
falls between a read and a write. In `owner_commands` one message is one repeated
command: claimed again, read anew, answered again. A message beside two typed commands,
or two messages about one work, are out of reach of TLC; so each behaviour is of one of
the scopes, which `Scopes` names and the initial state chooses. Two typed commands over
a restart give a cancel and an acknowledgement between the two statements of recovery;
two restarts a notice that a crash cut short, and a command after the start that found
it. Every theorem about this module is for any number of messages and commands, and any
scopes. In `notices` the main loop and one handler are the two senders, and a second
session sees what the first left. In `duties` two workers give a clean-up beside a run,
two edits a change beyond the first reconciliation, two runs of one write a call that
is repeated while the first is under way. The budgets of the loop are small enough that
each of them closes a run, and the turns many enough for every step of a coding
investigation.

`CHECK_DEADLOCK FALSE` is set everywhere, because the system really stops when
all work has ended and the bounds on sessions and commands are spent.

**What the passing runs show.** No interleaving of leases, decisions, crashes
and resumes starts a command twice (`ShellAtMostOnce`): the row that was
executing is `blocked` by recovery, and a blocked shell row is never consumed
again. Recovery leaves no claim without its worker (`NoOrphanedWork`), though
`interruptSessionWork` lists before it writes, and though `Close` and `Defer`
return without a retry mark. A risky text is accepted by Lark only in a
generation in which the owner approved it (`RiskyOnlyWithApproval`). A reply that
closes work was accepted in the current generation (`ReplyClosesWork`) and, for
delegated work, the owner was told (`OwnerIsTold`). A completed row never moves
(`ResultsAreFinal`). Work whose snapshot is uncertain becomes runnable only when
the owner approves a pending action of it (`UncertainNotReadmitted`); stale
delegated context is archived first (`RestartArchivesContext`). Claimed work is of
the session that serves (`ClaimsOwnSession`, with the exception below). And every
item comes to rest when the daemon stays up (`EventuallySettled`).

A message becomes one work item and is never forgotten, with every source reading
before it writes (`LedgerKept`); the cursor passes nothing by that Lark made
searchable in time (`NothingSlipsPast`), so that the poll alone suffices
(`EventuallyRecorded`); and an edit is never undone by an older copy
(`VersionsMoveForward`). A command message acts once (`AppliedOnce`), is told of a
change only if there was one (`AnswersAreTrue`), what is interrupted or dead is shown
with a command that would be accepted (`NoDeadEnd`), and acknowledged work rests
(`AcknowledgedRests`), the last two with the exceptions below. A requirement is told by one sender, closed only over a
notice, met if the daemon stays up, and a notice of unknown outcome is not sent
again; offline is said only after online. No reaction is forgotten and each recorded
one goes (`NoneForgotten`, `RecordedIsRemoved`); one content is one handoff, the
first reading none, and a record that names the owner is heard of (`ReconciledOnce`,
`BaselineIsSilent`, `OwnerHears`); a write happens once (`WrittenOnce`); a closed run
stays closed, cites nothing outdated, may correct a wording once, and looks into the
project and writes only on evidence that it has found (`ClosedStaysClosed`,
`NothingOutdatedCited`, `CorrectionIsOffered`, `CallsRestOnEvidence`, which compares
each call with what `src/docs/operations.md:333-340` asks for); silence has a cause and no answer goes to a message that was
closed all along (`SilencedForCause`, `AdmittedOnlyIfOpen`).

Some of these are true only with the exceptions they name, and the exceptions are
worth knowing of:

- `RecordedIsRemoved` leaves out a row behind an older one: the clean-up takes the
  oldest row, and one whose reaction was never created, hence without an id, is an
  error each time and stays in front.
- `BaselineIsSilent` leaves out content that an event had told of before the first
  reconciliation (section 4, "What the proofs changed").
- `OwnerHears` leaves out evidence whose writer died, or failed, before
  `createResourceWork`: the evidence is known then and never handed over
  (`orphaned`, against `src/docs/operations.md:334`).
- `AnswersAreTrue` says nothing of plain words read a second time: the command that
  was applied is no candidate any more, so the owner may be told it is ambiguous. A
  slash command that was refused, and whose answer failed, may be applied by a later
  claim.
- `OneSender` is about notices by requirement; those by text have no fence, because
  the second statement of `BeginOwnerResolutionNotification` is not checked. Only the
  deferral ceiling writes a requirement: other deaths are told by text, or by nobody
  if the process dies first.
- `ClaimsOwnSession` leaves out work that a CLI resumed into a session that was over.
  The CLI finds its session when it opens the store (`session.go:18`) and writes that
  id (`session.go:2120`). If the next daemon has listed and converged by then, it claims
  the work, whose session is not its own, until it is started again.
  `src/spec/behavior.md:1291` forbids the like for an approval, and an approval does
  not do it; of a resume it says nothing.
- `NoDeadEnd` leaves out interrupted work with a notice about it executing. If the
  notice is on its way this passes. If a crash cut it short (`session.go:1204`), no
  later start mends it, because convergence begins a notice only where there is none or
  a failed one: the work stays listed with resume and cancel, and both are refused for
  ever, against `src/spec/behavior.md:1344`, the exact currently valid next command.
  Acknowledging would be accepted and is not shown. And the property asks for one
  accepted command: `ReconcileOwnerWork` wants an action that is executing in
  interrupted work, which recovery, blocking the action in the same transaction, does
  not leave behind. Work that awaits an approval is left out: once the notice of its
  approval is its newest action row, the list shows no decision with it, and the owner
  has to answer the notice; the other way to be stuck there is `spent_approval`.
- `AcknowledgedRests` leaves out work that a recovery had listed before the owner
  cancelled and acknowledged it: the transaction of recovery overwrites it with
  `interrupted`, and it may be readmitted. This is the race of `cancelled_work`.
- `NothingOutdatedCited` is about the edit and write tools. A shell command of the run
  that changes a file counts as an edit by others, as in the code, which invalidates no
  source for it. The run has one edit; the theorem is for any number.
- `OfflineAfterOnline` and `NeverReplayed` are about order and uncertain sends. That a
  lifecycle notice that was told is not sent a second time under another key is stated
  by neither.
- `SilencedForCause` is close to the check of scope that the resolver itself makes; it
  adds that the check still stands when the verdict is recorded, the chat having moved
  on between the reads, whatever the model answered.
- `AdmittedOnlyIfOpen` speaks of what held from the first read to the verdict: what
  the owner does in between may come after the read that would have seen it.

**What the violations show.** Each run checks one sentence of the repository's
documentation or comments and TLC finds a behaviour of the code against it;
`findings` in `PROJECT.json` quotes the sentence.

- `private_approval`: `validReplyApprovalRelevance` misses
  `RelevancePrivateMessage`, so an approved draft that answers a private message
  is an error on every claim and the work ends as a dead letter.
- `replayed_reply`: the interruption snapshot reads the newest audit row only. A
  reply retried under its old row, with a newer row above it, is executing at a
  crash but not recorded as uncertain, and is sent again.
- `spent_approval`: proposing again a draft whose approval was already decided
  in this generation moves the work to `awaiting_approval` with nothing to decide.
- `cancelled_work`: a cancel between the listing and the transaction of recovery
  is overwritten, and convergence readmits the work.

**Mutants.** Every property of a passing run has a variant of one mapped
definition, next to it in its module and marked `Mutant:`, that makes the run
fail: a dropped lease check, an uncounted retry, a snapshot not consulted.

### Fairness

`FairSpec` of `WorkQueue` adds weak fairness of each worker's steps and of the
daemon's startup. Each worker is a goroutine in a loop with a 250 ms ticker, every
external call has a timeout, and `runDaemon` calls the startup steps in sequence.
Nothing is assumed of the operator, of which answer a call gives, or of a crash.
`EventuallySettled` is conditioned on `<>[](daemon.pc \in Up)`: a daemon that is
stopped, or that is killed and started for ever, settles nothing.

`Intake` assumes that the poller, which one ticker drives, takes its next step
(`PollStep`) and that time goes on; nothing of the stream, which need not deliver
anything, nor of the operator. `Notices` assumes the steps of the main loop, of its
start, and of a send that is under way, whose call has a timeout; nothing of the
workers. `Duties` assumes of `OwnerActivity` the steps of each worker, that a
reaction becomes old enough to be cleaned up, and (strongly) that a removal which is
tried again and again succeeds once: without it no removal ends. Of `Resources` it
assumes the loop, the stream and (strongly) the poll, which is enabled again after
each pass. The safety parts have no fairness. In each module the number of failing
calls or crashes is bounded or the liveness property excepts a daemon that does not
stay up.

## 4. What is proved

Every invariant and every action property of a passing run is a theorem, and so is
the refinement of the ledger; what is left to TLC is liveness. The theorems hold for
any numbers of works, workers, drafts, commands, sessions, messages, requests, Bases
and turns, from the assumptions on the constants, which TLC evaluates on each run:
bounds are natural numbers, null values are not members of what they stand in for,
enumerations contain what the code names. Each theorem is about the `Spec` that the
run checks, with every failure, crash and restart in it.

### The queue

`WorkQueueProofs` (the first four), `RecoveryProofs` (the next four) and `ReplyProofs`
(the last three), from `StoreBounds`, `StoreNulls`, `KeyNull` and `QueueParameters`
(bounds are positive, a null is no member, and `NoKey` no key; the delegated and
private works are works).

- `TypeCorrect == Spec => []TypeOK`. `TypeOK` is inductive: `JobOK` says what each
  program counter takes for granted of the rest of the job.
- `CompletedIsFinal == Spec => ResultsAreFinal`. An action property: by `TypeOK`
  and a case per step, a step moves an audit row only along the lawful edges
  (`LawfulStep`), and none leaves `completed`.
- `ShellRunsOnce == Spec => []ShellAtMostOnce`. Not inductive as it stands. The
  invariant `ShellInv` adds that a command that ran has a used row (never `none`,
  `awaiting_approval` or `ready` again), and that a worker about to run one has a
  used row, has not run it, and is the only worker about to.
- `FencedIsHarmless == Spec => FencedWorkerIsHarmless`. By `TypeOK` and the frame
  `WorkerOnlyHeld`: a worker's step writes a work row or a candidate only with
  that row's lease. `TypeOK` is needed for the worker to have a work item at all.
- `NoClaimIsOrphaned == Spec => []NoOrphanedWork`. The invariant `OrphanInv`
  follows the claims through the phases of the daemon (`ClaimsInv`): with their
  worker while it serves, of earlier sessions only while it starts, all listed
  while it recovers, and none afterwards. It needs that a session number is never
  reused (`SessionInv`), and that a worker which leaves `RunOnce` without a retry
  mark has given its lease up (`JobInv`): for `Close` with a held candidate that
  means the candidate is still there for as long as the lease is.
- `ClaimsAreOwn == Spec => ClaimsOwnSession`. An action property, from
  `OrphanInv` and `SessionWork`: after recovery all active work is of the present
  session or was resumed since into one that was over (`strays`). Of the commands only
  a resume can do that: an approval reads the active session in its own transaction,
  and a retry finds only work of the session it is made in. The claim query itself
  compares no sessions.

- `UncertainIsKept == Spec => UncertainNotReadmitted`. `UncertainInv`: the record of
  an uncertain action is open only on work that recovery interrupted, or that was
  cancelled by the rejection of one of its actions. Workers take neither; convergence
  makes the first a dead letter, with its record closed, and recovery does not list
  the second; of the operator's steps only the approval of a pending action makes
  them claimable.
- `ContextIsArchived == Spec => RestartArchivesContext`, an action property from
  `TypeOK`.
- `RiskyNeedsApproval == Spec => []RiskyOnlyWithApproval`,
  `RepliesCloseWork == Spec => []ReplyClosesWork` and
  `OwnersAreTold == Spec => []OwnerIsTold`, all from `ReplyInv`. The three properties
  speak of rows and of what was delivered, but the steps that could break them look
  only at what the worker carries; so `ReplyInv` says which row or acceptance stands
  behind each thing it carries.
  `SendInv`: a worker that is past the gate with a risky draft has consumed an
  approval of exactly this draft. `OneConsumer`: no two workers consume the same
  approval, and `GrantInv`: a row that is ready or executing was approved.
  `AnswerInv`: what a job reports as sent was accepted, in the present generation as
  long as it has the lease. A fenced worker keeps the generation it read and its
  report still counts for that one only. `TellInv`: a job that says the owner was told
  has a completed notice row. `AcceptInv` is the same for the audit: a completed reply
  or approval means an acceptance in its generation. That is what makes the short ways
  sound by which `Handle` closes work on a row it finds completed. With the lawful
  edges of the audit (`LawfulStep`) and the claims (`OrphanInv`: a resume finds no
  worker in the work it resumes) each of these survives the steps of the others, and
  `CloseInv` is the theorem.

The proofs share one set of lemmas, one per kind of step: `Frame` says that a
step of worker `k` leaves the jobs of the others alone, `Apart` names the steps
that touch an audit row in a way of their own, and the `...Moves` lemmas say for
the rest which statuses an audit row may take. A new invariant then has to look
only at the steps that concern it. `WorkerOnlyHeld` is the frame
of the work rows: a worker's step writes only what it holds the lease of.

### Intake

`IntakeProofs`, from `IntakeParameters` and `EnvironmentKnown`:

- `IntakeTypeCorrect == Spec => []TypeOK`, with `LinksAreOwn`: a receipt links to work
  of its own message. `TypeOK` is not inductive: a source holds a receipt it has
  read, and a row is found by its deduplication key. `IntakeInv` adds that what is
  held links to own work too (`HeldOwn`) and that a row's key names the row's message
  (`KeysOwn`).
- `IntakeKeepsLedger == Spec => LedgerKept`, the refinement. `Quiet` steps change
  neither table; every other step changes the rows of one message and appends one row
  or amends one in place (`Appended`, `Amended`). A step that appends finds no row of
  that message before it, because the key was free or the receipt unlinked; so the
  count under the mapping goes from 0 to 1, and that is `Enqueue`. The rest is
  `Observe` or a stutter.
- `VersionsAreKept == Spec => VersionsMoveForward`, by the same classification: each
  step that amends a row compares the versions in the transaction that writes.
- `CursorPassesNothing == Spec => []NothingSlipsPast`. The property is about the cursor
  only; `PollInv` carries it through a poll. What was sent since the floor and up to
  `Lookback` before the cursor is dealt with (`DoneUntil`), and of what came between
  the cursor and the start of the poll under way, all is dealt with or on its list.
  The search takes over the first and gives the second: its window begins, rounded
  down to a second, no later than `Lookback` before the cursor, and Lark has indexed
  by then all it was to find. `FinishPoll` moves the cursor when the list is empty.
  A failed poll, or a crash, leaves the cursor where it was.

### Commands

`OwnerControlProofs`, from `StoreBounds`, `StoreNulls`, `KeyNull` and the constants of
`OwnerControl`:

- `CommandsApplyOnce == Spec => []AppliedOnce`, by `JournalInv`: a message was applied
  at most once, and not at all unless it is in the journal.
- `AnswersHold == Spec => []AnswersAreTrue`, by `AnswerInv`: for each row, by the place
  of the message, what the text held and the text told say of the journal (`RowOK`). A
  failed answer is the reason for the strengthening: the told text outlives the text
  held.
- `ControlType == Spec => []TypeOK`, from the lemmas of the store (`OwnerInv`).
- `CommandsHaveEffect == Spec => []NoDeadEnd`. `DeadEndInv` is what makes the conditions
  of a resume and a cancel true. A daemon that has begun to converge has the newest
  session, ready (`SessionInv`). For each work (`Sound`): an uncertain record is open
  only on interrupted or cancelled work; interrupted work has no action executing but
  notices (`Quiet`), or an approval is to readmit it (`Ready`); convergence leaves
  neither of the two doubts on interrupted work; and no worker has interrupted work in
  hand, so none can begin an action of it. What is then left to refuse a resume of
  interrupted work is a notice that is executing, the exception of the property. Dead
  work is shown with its acknowledgement, which has no other condition.
- `AcknowledgedStays == Spec => AcknowledgedRests`. `AckInv`: an acknowledgement stands
  only on terminal work, because every write of a work item moves `updated_at`, the
  version it was given for. Workers claim what is claimable and recovery lists what is
  active, so neither takes it up; what recovery has listed already it writes without
  looking, the exception of the property.

### Notices

`NoticesProofs`, from `NoticeParameters`: `NoticeSentByOne`, `ClosedOverNotice` and
`UnknownStaysUnsent` from one invariant, `SendInv`. The notice of a requirement is
executing for as long as a sender has it, and a send begins only on a row that is
missing or blocked, so nobody else has it (`SendBegins`); a notice a crash left behind
is executing as well, so nobody can begin it, and nobody has it (`lost`). A notice by
text may be begun by two, which is why the invariant keeps the two kinds apart
(`Kinds`). `OfflineWasOnline` is by `LifeInv`: only a session that has started stops in
order, and it has started when its online row was completed.

### The duties

`DutiesProofs`, from `DutyParameters`, which joins the parameters of the parts. The
theorems are about the specification of `Duties`, the one the run checks: for each part
a lemma (`ActivityMoves`, `MonitorMoves`, `WritesMove`, `LoopMoves`, `VerdictMoves`)
says that a step of the duties is a step of the part or leaves its variables alone, and
then the part's invariant is enough.

- *Reactions*, for finitely many requests (their ids are numbers up to their count):
  `ReactionsAreKnown` by `ActivityInv`. One worker runs a request at a time
  (`RunnersInv`), which the clean-up beside it does not change; who adds a reaction
  finds a row without one, and who removes one removes that of the row (`RowsInv`); so
  what is shown is in the row or about to be written there, and a row is closed only
  after its reaction is gone (`ShownInv`).
- *Resources*, for any number of Bases: `HandedOffOnce` and `BaselineStaysSilent` by
  `WatchInv`. A key names one row and that of a reconciled row its content
  (`KeysInv`); two passes that read at the same edit read the same (`ReadsInv`); once
  a Base is warm, what it held when it was first reconciled is on a row, and a pass
  that found it warm reads no earlier edit (`WarmInv`, `KnownInv`). So a later pass
  that meets that content finds its row, unless the row is an event's, under another
  key (`SilentInv`).
- *Writes*: `WriteRunsOnce` by `WriteInv`: the row is taken once, one run at most is
  between taking it and its result, and while it may still write nothing was written.
- *The model's run*, for all budgets: `CitesAreCurrent` by `SourcesInv` (what may be
  cited lies between the version this run wrote last and the present one),
  `CallsAreGrounded` by `EvidenceInv` (what the code holds to be found was seen, and no
  call so far rested on anything else), `ClosedIsFinal` as an action property, and `CorrectionComes`
  by `CorrectionInv`: until a granted correction has been offered, the turn it added
  is still to come and so is an attempt (`StillToCome`).
- *The verdict*: `SilenceHasCause` by `CauseInv` (a recorded verdict to suppress was
  validated against the part of the chat that was read, which later messages only
  extend) and `OpenIsAdmitted` by `OpenInv` (what held ever since the resolution began
  held at each read that passed).
- `DutiesType == Spec => []TypeOK`: the types of all five. Those of the run of the model
  need how far the limit of turns may grow (`LoopInv`), those of the verdict that it
  names only messages that were read (`MatchInv`).

### What the proofs changed

Two properties held on the instances and not in general; both attempts at a proof
failed at the step that shows why, and TLC finds the behaviour on a larger instance.

- `RestartArchivesContext` left out steps that approve a *reply*. With shell commands
  there is another way: a daemon is killed and its session row stays `ready`, so the
  approval of a command of the interrupted work, decided by the CLI before the next
  start, makes the work `received` with its investigation still active
  (`DecideAction`). The property now leaves out the decision of any pending action.
- `BaselineIsSilent` said that a reconciliation hands nothing off that stood in the Base
  when it was first reconciled. It takes two Bases, a first pass that fails at the
  earlier one, and an event of the later one, which is active but not yet reconciled:
  the event's row stands for the content, so the first reconciliation writes none. If a
  later pass reads the same content, and before it compares another event records
  another content, the pass finds the newest row different, records the first content
  under its own key and hands it off, a second time. The property now excepts content
  that an event had told of.

### What is only model-checked

Liveness, which is out of reach of the prover as soon as it rests on fairness:
`EventuallySettled`, `EventuallyRecorded`, `RequirementsAreMet`, `RecordedIsRemoved` and
`OwnerHears`. The violations need no proof: each is a behaviour. The modules have no
RECURSIVE operator and no claim by induction over data.

## 5. What is not modelled, and the plan

`components` in `PROJECT.json` lists every part with its status. Not modelled:

- coding goals, direct notify decisions without a durable row, batch forms of the
  operator commands, retention, lanes and priorities of the claim query;
- hydration of messages, rate limits and reconnect delays of the sources;
- the grammar of owner commands, prompts, context assembly, locale, policy texts: pure
  text processing that unit tests reach;
- resources other than a Base, and the comments of documents;
- the smart command runner (a run without durable state), configuration, platform
  support, and the clients beyond what their callers see between two calls.

Observations that no property states, because they are about what the code does not
do, or one step shows them:

- `CompareAndUpdateBaseField` compares, then writes: an edit between the two is
  overwritten, and the read-back cannot tell.
- A record that goes back to an earlier content has the key of the earlier evidence
  and is not handed over again. `Reconcile` and `SyncSubscriptions` write back the row
  they listed, whatever changed meanwhile. A configured subscription starts cold at
  each start (`src/docs/operations.md:324`).
- A run of a simple question has two turns and never reaches the finalizer. The
  approval that a workspace edit consumed is discarded
  (`src/agent/tools/workspace_mutate.go:150`). The result of an edit is accepted as a
  source without another read (`src/docs/operations.md:495`).
- A crash between `ConvergeInterruptedWork` and `notifyRecoveryConvergence` loses the
  notice of the recovery (`src/spec/behavior.md:1217`).
- `inspect_git_history` names no source (`src/agent/tools/git.go:75`), and the loop
  counts as history only a look that does (`src/agent/runtime/loop.go:1202`). So with
  the shipped tools the evidence of a handoff is never complete, and each write to the
  Base and each reply in a document is refused, against
  `src/docs/operations.md:333-340`; the test that has one succeed supplies a source of
  its own (`src/agent/runtime/loop_test.go:404`). `ModelLoop` leaves both open, so what
  it shows holds for the shipped tools and for tools that name their source.
- Without the model, a handoff is answered although the owner replied without quoting
  it (`src/spec/behavior.md:2178`). A verdict "answered" may rest on a message of the
  owner that is older than the latest edit of the target.
- An approval given to an action of dead work revives the work.
- A resume of an offline receipt inspects, inserts and links in three statements
  outside a transaction (`src/agent/storage/session.go:1893`): the daemon's intake, or
  a second resume, may come between them. A resume of stored work is one transaction.

Next, most important first:

1. **Reply protocol**: an abstract at-most-once send, with `BeginReplyAction`,
   `CompleteReplyAction` and the approval's own row as its implementation.
2. **Theorems**: that the at-most-once send is implemented, from `ReplyInv`; that
   nothing but the parts named in `RecordedIsRemoved` and `OwnerHears` stands in the way
   of a clean-up or a handoff (the safety halves of the two).
3. **Pure modules**: retry delay, the policy table, lanes and priorities, checked
   against reference definitions over bounded inputs.
