-------------------------- MODULE IntakeProperties --------------------------
(***************************************************************************)
(* What intake promises, over the actions of Intake.                       *)
(***************************************************************************)
EXTENDS Intake

RowType == [of : Messages, key : {"message", "event", "poll"} \X Messages,
            status : {"received", "waiting_user", "claimed"},
            due : Int, updated : Time \cup {Unset}, blank : BOOLEAN]
ReceiptType == [link : Nat, disposition : {"unseen", "admitted", "duplicate", "offline_backlog"}]

\* A receipt's link is the id of a work item of that very message: what decides
\* whether an edit reaches the work that waits.
LinksAreOwn ==
    \A m \in Messages : receipt[m].link # 0 =>
        receipt[m].link \in DOMAIN work /\ work[receipt[m].link].of = m

\* The states the code can be in: the rows, and the receipts that link to them.
TypeOK ==
    /\ now \in Time
    /\ message \in [Messages -> [sort : AllSorts \cup {"unsent"}, created : Time, stamped : BOOLEAN,
                                 indexed : Nat, updated : Time \cup {Unset}]]
    /\ cursor \in Time \cup {Unset} /\ floor \in Time \cup {Unset}
    /\ daemon \in [up : BOOLEAN, starts : 0 .. MaxStarts, started : Time]
    /\ work \in Seq(RowType)
    /\ receipt \in [Messages -> ReceiptType]
    /\ failures \in 0 .. MaxFailures
    /\ offered \subseteq Messages
    /\ job \in [Source -> [pc : {"idle", "cold", "search", "loop", "record"},
                           todo : SUBSET Messages, copy : [Messages -> Time \cup {Unset}],
                           found : ReceiptType, of : SUBSET Messages, until : Time]]
    /\ resume \in [of : SUBSET Messages, newest : BOOLEAN, id : Nat]
    /\ LinksAreOwn

\* A message that was dealt with: recorded, or offered to the resource sink.
\* Other messages are nothing to the program.
Disposed(m) ==
    /\ Kept(m) => receipt[m].disposition # "unseen"
    /\ message[m].sort = "application" => m \in offered

IntakeFloor == IF floor = Unset THEN cursor ELSE floor
IndexedInTime(m) == message[m].indexed <= message[m].created + Lookback

\* The cursor never passes a message by: what the next poll will no longer ask
\* for, and what Lark made searchable within the lookback, has been dealt with.
\* Polls that fail half-way, a crash between any two calls, late indexing and the
\* rounding of the window to seconds are what could break it (Poller.Poll).
NothingSlipsPast ==
    cursor # Unset =>
        \A m \in Messages :
            (/\ Sent(m) /\ IndexedInTime(m)
             /\ message[m].created >= IntakeFloor
             /\ message[m].created < cursor - Lookback) => Disposed(m)

\* What the tables say of the ledger: a message is observed by a receipt or a work
\* item, and queued as often as it has work items.
WorkOf(m) == {i \in DOMAIN work : work[i].of = m}
Observed == {m \in Messages : receipt[m].disposition # "unseen" \/ WorkOf(m) # {}}
Queued == [m \in Messages |-> Cardinality(WorkOf(m))]

Ledger == INSTANCE IntakeLedger WITH observed <- Observed, queued <- Queued

\* One work item per message, and no message forgotten: recordIntake and
\* ResumeWork implement the ledger, though each source reads before it writes.
LedgerKept == Ledger!Spec

\* A work item that waits for the owner never goes back to an earlier version of
\* its message, unless it had no text: sources hold copies of different age
\* (recordDuplicateIntake).
VersionsMoveForward ==
    [][\A i \in DOMAIN work : work'[i].updated < work[i].updated => work[i].blank]_vars

\* The poll is a fallback that suffices: with no event ever delivered, a message
\* that becomes searchable in time is recorded if the daemon stays up.
EventuallyRecorded ==
    <>[](daemon.up) =>
        \A m \in Messages :
            (/\ Sent(m) /\ Kept(m) /\ IndexedInTime(m) /\ message[m].indexed <= MaxTime
             /\ cursor # Unset /\ message[m].created >= IntakeFloor)
                ~> receipt[m].disposition # "unseen"
=============================================================================
