------------------------------- MODULE Intake -------------------------------
(***************************************************************************)
(* How a Lark message becomes a work item: the receipts and work rows that *)
(* agent/storage/session.go writes, and the three sources that offer       *)
(* messages to it, each at its own pace: the poller (agent/poll), the      *)
(* event stream (agent/realtime) and the command `queue backfill`.         *)
(*                                                                         *)
(* A source reads the newest receipt in one call and writes in a           *)
(* transaction afterwards, so the sources interleave between the two.      *)
(* Lark itself (what is sent, when it becomes searchable, which events are *)
(* delivered) is external.                                                 *)
(***************************************************************************)
EXTENDS Integers, Sequences, FiniteSets

CONSTANTS
    Messages,      \* message ids
    Sorts,         \* the sorts of message that are sent in this instance
    Second,        \* clock ticks in the second the search API rounds to
    Lookback,      \* Config.IndexLookback
    OwnerWait,     \* Config.OwnerWait
    Delays,        \* bound: how long after its creation a message may be indexed
    Stamps,        \* bound: whether Lark states the creation time, each way that may occur
    SendTimes,     \* bound: when messages are sent
    EditTimes,     \* bound: when messages are edited
    StartTimes,    \* bound: when the daemon is started
    CommandTimes,  \* bound: when the operator gives a command
    MaxTime,       \* bound: the clock
    MaxStarts,     \* bound: daemon starts
    MaxFailures    \* bound: calls of a source that fail

ASSUME IntakeParameters ==
    /\ Second \in Nat \ {0}
    /\ Lookback \in Nat /\ Lookback >= Second
    /\ OwnerWait \in Nat /\ MaxTime \in Nat /\ MaxStarts \in Nat /\ MaxFailures \in Nat

Unset == -1                                  \* a time that is not set
Time == 0 .. MaxTime
Later(a, b) == IF a > b THEN a ELSE b
Floored(t) == t - (t % Second)               \* RFC3339, whole seconds

\* What the poller tells apart of a message: who wrote it and to whom.
Recorded == {"delegated", "owner_call"}      \* others to the owner; the owner to the assistant
AllSorts == Recorded \cup {"outsider_call", "owner_talk", "application"}

ASSUME EnvironmentKnown ==
    Sorts \subseteq AllSorts /\ Delays \subseteq Nat /\ Stamps \subseteq BOOLEAN

Source == {"poll", "realtime", "backfill"}

VARIABLES
    now,        \* the clock
    message,    \* what Lark holds of each message
    cursor,     \* poll_cursors: messages:all
    floor,      \* poll_cursors: messages:intake-floor
    daemon,     \* whether it runs, how often it was started, when this session started
    work,       \* work_items, by row id
    receipt,    \* the newest intake_receipts row of each message
    failures,   \* how many calls have failed
    offered,    \* application messages handed to the resource sink
    job,        \* what each source is doing
    resume      \* `queue resume` of an offline message, between its two statements

vars == <<now, message, cursor, floor, daemon, work, receipt, failures, offered, job, resume>>

Unsent == [sort |-> "unsent", created |-> 0, stamped |-> FALSE, indexed |-> 0, updated |-> Unset]
NoReceipt == [link |-> 0, disposition |-> "unseen"]
NoJob == [pc |-> "idle", todo |-> {}, copy |-> [m \in Messages |-> Unset],
          found |-> NoReceipt, of |-> {}, until |-> 0]
NoResume == [of |-> {}, newest |-> FALSE, id |-> 0]

Sent(m) == message[m].sort # "unsent"
Kept(m) == message[m].sort \in Recorded
CreatedAt(m) == IF message[m].stamped THEN message[m].created ELSE Unset

-----------------------------------------------------------------------------
(***************************************************************************)
(* The store.                                                              *)
(***************************************************************************)

\* Mutant: one work item per event, as if the message id were not preferred.
DedupByEvent(m, source) == <<IF source = "realtime" THEN "event" ELSE "poll", m>>

\* work_items.dedup_key is unique. The event id of a source would not do: the
\* poller makes up its own ("poll:" and the message id).
DedupKey(m, source) == <<"message", m>>

Holding(key) == {i \in DOMAIN work : work[i].key = key}

\* INSERT OR IGNORE INTO work_items, and the id of the row that holds the key.
InsertOrIgnore(row) == IF Holding(row.key) = {} THEN Append(work, row) ELSE work

\* Mutant: the id of the last insertion is taken although the insertion was ignored.
LocatedLast(key) == Len(work) + 1

Located(key) == IF Holding(key) = {} THEN Len(work) + 1 ELSE CHOOSE i \in Holding(key) : TRUE

\* poll.applyDelegatedWait, for the sources that call it; time.Time zero is Unset.
DueAfterWait(m, updated) ==
    LET start == Later(CreatedAt(m), updated)
    IN (IF start = Unset THEN now ELSE start) + OwnerWait

Row(s, m, updated, blank) ==
    LET waits == s # "realtime" /\ message[m].sort = "delegated"
    IN [of |-> m, key |-> DedupKey(m, s), status |-> IF waits THEN "waiting_user" ELSE "received",
        due |-> IF waits THEN DueAfterWait(m, updated) ELSE Unset,
        updated |-> updated, blank |-> blank]

\* The projected event: the stream fills in the present when Lark states no time.
EventCreatedAt(m) == IF message[m].stamped THEN message[m].created ELSE now

\* The event carries a creation time, and it is not before the session.
CurrentEvent(s, m) ==
    LET created == IF s = "realtime" THEN EventCreatedAt(m) ELSE CreatedAt(m)
    IN created # Unset /\ created >= Floored(daemon.started)

\* A write of another receipt of m: the row a pending resume holds is no longer newest.
Superseded(m) == resume' = IF m \in resume.of THEN [resume EXCEPT !.newest = FALSE] ELSE resume

\* The first receipt of a message, with its work item unless it is old backlog.
FirstReceipt(s, m, row) ==
    IF s = "backfill" \/ CurrentEvent(s, m)
    THEN /\ work' = InsertOrIgnore(row)
         /\ receipt' = [receipt EXCEPT ![m] =
                [link |-> Located(row.key),
                 disposition |-> IF Holding(row.key) = {} THEN "admitted" ELSE "duplicate"]]
    ELSE /\ receipt' = [receipt EXCEPT ![m] = [link |-> 0, disposition |-> "offline_backlog"]]
         /\ UNCHANGED work

\* admitBackfillReceipt: the receipt found is linked to the work item and becomes
\* the newest, because it is given a new observation time.
AdmitBackfillReceipt(m, row) ==
    /\ work' = InsertOrIgnore(row)
    /\ receipt' = [receipt EXCEPT ![m] = [link |-> Located(row.key), disposition |-> "admitted"]]

\* Mutant: whatever was seen last replaces what the work item holds.
AnythingIsNews(w, row) == row.updated # w.updated \/ w.blank # row.blank

\* recordDuplicateIntake: a receipt with the link of the one found, and a newer
\* edit, or the first text, of work that still waits for the owner.
NewsFor(w, row) == \/ row.updated # Unset /\ row.updated > w.updated
                   \/ w.blank /\ ~row.blank

RecordDuplicateIntake(m, found, row) ==
    /\ receipt' = [receipt EXCEPT ![m] = [link |-> found.link, disposition |-> "duplicate"]]
    /\ work' = IF found.link # 0 /\ work[found.link].status = "waiting_user"
                   /\ NewsFor(work[found.link], row)
               THEN [work EXCEPT ![found.link].updated = row.updated,
                                 ![found.link].blank = row.blank,
                                 ![found.link].due = row.due]
               ELSE work

\* recordIntake after its read: found is the newest receipt at that time.
RecordIntake(s, m, found, updated, blank) ==
    LET row == Row(s, m, updated, blank)
    IN /\ CASE found.disposition = "unseen" -> FirstReceipt(s, m, row)
            [] found.disposition # "unseen" /\ s = "backfill" /\ found.link = 0 ->
                 AdmitBackfillReceipt(m, row)
            [] OTHER -> RecordDuplicateIntake(m, found, row)
       /\ Superseded(m)

-----------------------------------------------------------------------------
(***************************************************************************)
(* The sources.                                                            *)
(***************************************************************************)

Goto(s, pc) == job' = [job EXCEPT ![s].pc = pc]
Idle(s) == job' = [job EXCEPT ![s] = NoJob]

Indexed(from, until) ==
    {m \in Messages : /\ Sent(m) /\ message[m].indexed <= now
                      /\ from <= message[m].created /\ message[m].created <= until}
Copies(s, todo) == [m \in Messages |-> IF m \in todo THEN message[m].updated ELSE Unset]

\* Poll up to its first write: the time is taken before anything is searched.
BeginPoll ==
    /\ daemon.up /\ job["poll"].pc = "idle"
    /\ \/ /\ cursor = Unset
          /\ floor' = now
          /\ job' = [job EXCEPT !["poll"].pc = "cold", !["poll"].until = now]
          /\ UNCHANGED cursor
       \/ /\ cursor # Unset
          /\ floor' = IF floor = Unset THEN cursor ELSE floor
          /\ job' = [job EXCEPT !["poll"].pc = "search", !["poll"].until = now]
          /\ UNCHANGED cursor
    /\ UNCHANGED <<now, message, daemon, work, receipt, failures, offered, resume>>

\* The first poll ever only sets the cursor.
ColdStart ==
    /\ job["poll"].pc = "cold"
    /\ cursor' = job["poll"].until
    /\ Idle("poll")
    /\ UNCHANGED <<now, message, floor, daemon, work, receipt, failures, offered, resume>>

\* Mutant: the search starts at the cursor, and what is indexed late is missed.
QueryStartAtCursor == Later(cursor, floor)

QueryStart == Later(cursor - Lookback, floor)

PollWindow(until) == Indexed(Floored(QueryStart), Floored(until))

\* Both searches and the hydration of what they return.
SearchPoll ==
    /\ job["poll"].pc = "search"
    /\ LET todo == PollWindow(job["poll"].until)
       IN job' = [job EXCEPT !["poll"].pc = "loop", !["poll"].todo = todo,
                             !["poll"].copy = Copies("poll", todo)]
    /\ UNCHANGED <<now, message, cursor, floor, daemon, work, receipt, failures, offered, resume>>

\* The loop goes on to the next message; a poll has its cursor to save at the end.
Disposing(s, m) ==
    IF s = "poll" \/ job[s].todo # {m}
    THEN job' = [job EXCEPT ![s].pc = "loop", ![s].of = {}, ![s].found = NoReceipt,
                            ![s].todo = @ \ {m}]
    ELSE Idle(s)

\* What the loop over the results does not record: notifications of applications
\* go to the resource sink, whose errors are only reported; other members' calls
\* of the assistant and the owner's own talk are dropped.
SkipMessage(s) ==
    /\ job[s].pc = "loop"
    /\ \E m \in job[s].todo :
         /\ ~Kept(m)
         /\ offered' = IF s = "poll" /\ message[m].sort = "application"
                       THEN offered \cup {m} ELSE offered
         /\ Disposing(s, m)
    /\ UNCHANGED <<now, message, cursor, floor, daemon, work, receipt, failures, resume>>

\* findIntakeReceipt for the next message of the loop, in no particular order.
FindReceipt(s) ==
    /\ job[s].pc = "loop"
    /\ \E m \in job[s].todo :
         /\ Kept(m)
         /\ job' = [job EXCEPT ![s].pc = "record", ![s].of = {m}, ![s].found = receipt[m]]
    /\ UNCHANGED <<now, message, cursor, floor, daemon, work, receipt, failures, offered, resume>>

\* The transaction of recordIntake. A projection may lack the text.
Record(s) ==
    /\ job[s].pc = "record"
    /\ \E m \in job[s].of, blank \in BOOLEAN :
         /\ blank => s # "realtime"
         /\ RecordIntake(s, m, job[s].found, job[s].copy[m], blank)
         /\ Disposing(s, m)
    /\ UNCHANGED <<now, message, cursor, floor, daemon, failures, offered>>

FinishPoll ==
    /\ job["poll"].pc = "loop" /\ job["poll"].todo = {}
    /\ cursor' = job["poll"].until
    /\ Idle("poll")
    /\ UNCHANGED <<now, message, floor, daemon, work, receipt, failures, offered, resume>>

\* Mutant: a poll that failed half-way saves its cursor all the same.
GiveUpSaving(s) ==
    /\ job[s].pc # "idle"
    /\ failures < MaxFailures /\ failures' = failures + 1
    /\ Idle(s)
    /\ cursor' = IF s = "poll" THEN job[s].until ELSE cursor
    /\ UNCHANGED <<now, message, floor, daemon, work, receipt, offered, resume>>

\* Any call may fail, which ends a poll or a backfill where it is.
GiveUp(s) ==
    /\ job[s].pc # "idle"
    /\ failures < MaxFailures /\ failures' = failures + 1
    /\ Idle(s)
    /\ UNCHANGED <<now, message, cursor, floor, daemon, work, receipt, offered, resume>>

\* The range of time the operator states, in whole seconds and not empty.
BackfillRanges ==
    {range \in {Floored(t) : t \in 0 .. now} \X {Floored(t) : t \in 0 .. now} : range[1] < range[2]}

\* `queue backfill`: at-me messages only, and no cursor.
BeginBackfill ==
    /\ job["backfill"].pc = "idle" /\ now \in CommandTimes
    /\ \E range \in BackfillRanges :
         LET todo == {m \in Indexed(range[1], range[2]) :
                        message[m].sort \in {"delegated", "application"}}
         IN /\ todo # {}
            /\ job' = [job EXCEPT !["backfill"].pc = "loop", !["backfill"].todo = todo,
                                  !["backfill"].copy = Copies("backfill", todo)]
    /\ UNCHANGED <<now, message, cursor, floor, daemon, work, receipt, failures, offered, resume>>

\* An error of the handler, a line that does not parse or a lost connection ends
\* the session of the event stream; Supervise then opens another.
LoseStream == GiveUp("realtime")

\* An event: delivered once, several times, late, or never. Source.accept lets
\* only the owner's calls of the assistant through, one line at a time.
Accepted(m) == message[m].sort = "owner_call"

Deliver ==
    /\ daemon.up /\ job["realtime"].pc = "idle"
    /\ \E m \in Messages :
         /\ Sent(m) /\ Accepted(m)
         /\ job' = [job EXCEPT !["realtime"].pc = "record", !["realtime"].todo = {m},
                               !["realtime"].of = {m}, !["realtime"].found = receipt[m]]
    /\ UNCHANGED <<now, message, cursor, floor, daemon, work, receipt, failures, offered, resume>>

-----------------------------------------------------------------------------
(***************************************************************************)
(* The daemon, the worker, the operator and Lark.                          *)
(***************************************************************************)

Start ==
    /\ ~daemon.up /\ daemon.starts < MaxStarts /\ now \in StartTimes
    /\ daemon' = [up |-> TRUE, starts |-> daemon.starts + 1, started |-> now]
    /\ UNCHANGED <<now, message, cursor, floor, work, receipt, failures, offered, job, resume>>

\* The process ends, in order or not; the database stays.
Stop ==
    /\ daemon.up
    /\ daemon' = [daemon EXCEPT !.up = FALSE]
    /\ job' = [s \in Source |-> IF s = "backfill" THEN job[s] ELSE NoJob]
    /\ UNCHANGED <<now, message, cursor, floor, work, receipt, failures, offered, resume>>

\* A worker claims work that is due and settles it.
Claim(i) ==
    /\ daemon.up
    /\ work[i].status \in {"received", "waiting_user"} /\ work[i].due <= now
    /\ work' = [work EXCEPT ![i].status = "claimed"]
    /\ UNCHANGED <<now, message, cursor, floor, daemon, receipt, failures, offered, job, resume>>

\* ResumeWork of a message without work: the insertion and the link of its
\* receipt are two statements outside a transaction. The row's event is that of
\* the receipt; as the row does not wait, nothing compares its version.
Resumable(m) == receipt[m].link = 0 /\ receipt[m].disposition = "offline_backlog"

ResumeInsert(m) ==
    /\ daemon.up /\ resume.of = {} /\ now \in CommandTimes
    /\ Resumable(m) /\ Holding(DedupKey(m, "poll")) = {}
    /\ work' = Append(work, [of |-> m, key |-> DedupKey(m, "poll"), status |-> "received",
                             due |-> Unset, updated |-> Unset, blank |-> FALSE])
    /\ resume' = [of |-> {m}, newest |-> TRUE, id |-> Len(work) + 1]
    /\ UNCHANGED <<now, message, cursor, floor, daemon, receipt, failures, offered, job>>

ResumeLink ==
    /\ \E m \in resume.of :
         receipt' = IF resume.newest
                    THEN [receipt EXCEPT ![m] = [link |-> resume.id, disposition |-> "admitted"]]
                    ELSE receipt
    /\ resume' = NoResume
    /\ UNCHANGED <<now, message, cursor, floor, daemon, work, failures, offered, job>>

ResumeCrash ==
    /\ resume.of # {}
    /\ resume' = NoResume
    /\ UNCHANGED <<now, message, cursor, floor, daemon, work, receipt, failures, offered, job>>

\* Lark: a message is sent, found by searches some time later, and edited.
Send(m) ==
    /\ ~Sent(m) /\ now \in SendTimes
    /\ \E sort \in Sorts, stamped \in Stamps, delay \in Delays :
         message' = [message EXCEPT ![m] = [sort |-> sort, created |-> now, stamped |-> stamped,
                                            indexed |-> now + delay, updated |-> Unset]]
    /\ UNCHANGED <<now, cursor, floor, daemon, work, receipt, failures, offered, job, resume>>

Edit(m) ==
    /\ Sent(m) /\ now \in EditTimes /\ message[m].created < now /\ message[m].updated < now
    /\ message' = [message EXCEPT ![m].updated = now]
    /\ UNCHANGED <<now, cursor, floor, daemon, work, receipt, failures, offered, job, resume>>

Tick ==
    /\ now < MaxTime
    /\ now' = now + 1
    /\ UNCHANGED <<message, cursor, floor, daemon, work, receipt, failures, offered, job, resume>>

\* A database of an earlier version has a cursor and no floor.
Init ==
    /\ now = 0
    /\ message = [m \in Messages |-> Unsent]
    /\ cursor \in {Unset, 0} /\ floor = Unset
    /\ daemon = [up |-> FALSE, starts |-> 0, started |-> 0]
    /\ work = <<>>
    /\ receipt = [m \in Messages |-> NoReceipt]
    /\ failures = 0
    /\ offered = {}
    /\ job = [s \in Source |-> NoJob]
    /\ resume = NoResume

PollStep == \/ BeginPoll \/ ColdStart \/ SearchPoll \/ SkipMessage("poll")
            \/ FindReceipt("poll") \/ Record("poll") \/ FinishPoll

Next ==
    \/ PollStep \/ GiveUp("poll")
    \/ BeginBackfill \/ SkipMessage("backfill") \/ FindReceipt("backfill")
    \/ Record("backfill") \/ GiveUp("backfill")
    \/ Deliver \/ Record("realtime")
    \/ LoseStream \/ Start \/ Stop
    \/ \E i \in DOMAIN work : Claim(i)
    \/ \E m \in Messages : ResumeInsert(m) \/ Send(m) \/ Edit(m)
    \/ ResumeLink \/ ResumeCrash \/ Tick

Spec == Init /\ [][Next]_vars

\* The poll ticker runs on while the daemon does, and calls do not fail for ever
\* (MaxFailures); Lark need not deliver a single event.
Fairness == WF_vars(PollStep) /\ WF_vars(Tick)

FairSpec == Spec /\ Fairness
=============================================================================
