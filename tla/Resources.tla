----------------------------- MODULE Resources -----------------------------
(***************************************************************************)
(* How a change of a watched Base record becomes a handoff for the owner   *)
(* (agent/resource/monitor.go): evidence rows and work items written by    *)
(* the reconciliation before each poll, by the event stream and by the     *)
(* notifications the poller finds, against subscriptions that each of      *)
(* them lists first and writes back whole afterwards.  Each Base has one   *)
(* record here.  Lark (the Bases, the events) is external.                 *)
(***************************************************************************)
EXTENDS Naturals, Sequences

CONSTANTS
    MaxBase,      \* subscriptions, in the order of their ids
    Configured,   \* the Bases that the configuration file lists
    MaxTold,      \* bound: edits that Lark tells of
    EditedTo,     \* bound: what an edit may make of a record
    MaxEdits,     \* bound: edits of one record
    MaxStarts,    \* bound: starts of the daemon
    MaxFailures   \* bound: calls to Lark that fail

VARIABLES
    base,      \* each record at Lark: its content, edits so far
    sub,       \* resource_subscriptions: status, and whether the cursor is set
    evidence,  \* resource_evidence, in the order of insertion
    handed,    \* the evidence that has its resource_handoff work item
    news,      \* what Lark announced and nobody took yet
    job,       \* what the main loop and the stream do with the monitor
    stage,     \* the daemon: down, starting or up
    spent,     \* starts, announcements and failed calls so far
    baseline,  \* history: the edit at which a Base was first reconciled
    orphaned   \* history: evidence whose writer died before the handoff

resourceVars == <<base, sub, evidence, handed, news, job, stage, spent, baseline, orphaned>>

Bases == 1 .. MaxBase
Mine == {"open", "fixed"}                 \* contents that name the owner
Contents == Mine \cup {"other"}

\* Assumed of the constants by Duties.
ResourceParameters ==
    /\ MaxBase \in Nat /\ MaxEdits \in Nat /\ MaxTold \in Nat /\ MaxStarts \in Nat /\ MaxFailures \in Nat
    /\ Configured \subseteq Bases /\ EditedTo \subseteq Contents

Never == MaxEdits + 1
Actors == {"loop", "stream"}
NoNews == [kind |-> "none", base |-> 0, edit |-> 0]
Free == [pc |-> "idle", todo |-> <<>>, listed |-> [b \in Bases |-> [status |-> "removed", warm |-> FALSE]],
         read |-> [content |-> "other", edit |-> 0], news |-> NoNews]

Init ==
    /\ base = [b \in Bases |-> [content |-> "open", edits |-> 0]]
    /\ sub = [b \in Bases |-> [status |-> "pending", warm |-> FALSE]]
    /\ evidence = <<>> /\ handed = {} /\ news = {}
    /\ job = [a \in Actors |-> Free]
    /\ stage = "down"
    /\ spent = [starts |-> 0, failures |-> 0, told |-> 0]
    /\ baseline = [b \in Bases |-> Never]
    /\ orphaned = {}

At(a, pc) == job[a].pc = pc
Move(a, pc) == job' = [job EXCEPT ![a].pc = pc]
Of(a) == IF job[a].news.kind \in {"record", "notice"} THEN job[a].news.base ELSE Head(job[a].todo)
Fail == spent.failures < MaxFailures /\ spent' = [spent EXCEPT !.failures = @ + 1]
History == <<baseline, orphaned>>

-----------------------------------------------------------------------------
(* Evidence.                                                                 *)

\* The newest row of the record, if it has one: observed_at, then id.
Newest(b) ==
    {e \in DOMAIN evidence :
        /\ evidence[e].base = b
        /\ \A f \in DOMAIN evidence : evidence[f].base = b =>
             evidence[f].edit < evidence[e].edit \/ (evidence[f].edit = evidence[e].edit /\ f <= e)}

\* Mutant: the key of a reconciled row holds the time instead of the content.
KeyByTime(a) ==
    IF job[a].news.kind \in {"record", "notice"} THEN job[a].news
    ELSE [base |-> Of(a), edit |-> job[a].read.edit]

\* dedup_key: the event or message, or the record and the digest of its content.
Key(a) ==
    IF job[a].news.kind \in {"record", "notice"} THEN job[a].news
    ELSE [base |-> Of(a), content |-> job[a].read.content]

Via(a) == IF job[a].news.kind \in {"record", "notice"} THEN job[a].news.kind ELSE "reconcile"
Cold(a) == Via(a) = "reconcile" /\ ~job[a].listed[Of(a)].warm
Row(a) ==
    [base |-> Of(a), content |-> job[a].read.content, key |-> Key(a), via |-> Via(a), cold |-> Cold(a),
     edit |-> IF Via(a) = "reconcile" THEN job[a].read.edit ELSE job[a].news.edit]

After(a) == IF Via(a) = "reconcile" THEN "save" ELSE "done"

\* RecordResourceEvidence: INSERT OR IGNORE by the key.
Record(a) ==
    /\ At(a, "record")
    /\ IF \E e \in DOMAIN evidence : evidence[e].key = Key(a)
       THEN Move(a, After(a)) /\ UNCHANGED evidence
       ELSE /\ evidence' = Append(evidence, Row(a))
            /\ Move(a, IF job[a].read.content \in Mine /\ ~Cold(a) THEN "handoff" ELSE After(a))
    /\ UNCHANGED <<base, sub, handed, news, stage, spent, History>>

\* createResourceWork, for the row that was just inserted.
Handoff(a) ==
    /\ At(a, "handoff")
    /\ handed' = handed \cup {e \in DOMAIN evidence : evidence[e].key = Key(a)}
    /\ Move(a, After(a))
    /\ UNCHANGED <<base, sub, evidence, news, stage, spent, History>>

-----------------------------------------------------------------------------
(* Reconcile: every subscription as it was listed, in order; the first       *)
(* failure ends the pass.                                                    *)

Pass(a) == [Free EXCEPT !.pc = "base", !.todo = [i \in Bases |-> i], !.listed = sub]
Watched(s) == s.status \in {"active", "degraded"}

Skip(a) ==
    /\ At(a, "base") /\ job[a].todo # <<>> /\ ~Watched(job[a].listed[Of(a)])
    /\ job' = [job EXCEPT ![a].todo = Tail(@)]
    /\ UNCHANGED <<base, sub, evidence, handed, news, stage, spent, History>>

\* ListBaseFields and ListBaseRecords.
Fetch(a) ==
    /\ At(a, "base") /\ job[a].todo # <<>> /\ Watched(job[a].listed[Of(a)])
    /\ job' = [job EXCEPT ![a].pc = "compare",
                 ![a].read = [content |-> base[Of(a)].content, edit |-> base[Of(a)].edits]]
    /\ UNCHANGED <<base, sub, evidence, handed, news, stage, spent, History>>

\* Mutant: a failed pass sets the cursor as a successful one does.
DegradedWarm(a, status) == [status |-> status, warm |-> TRUE]

\* degradeSubscription: the row as it was listed, with another status.
Degraded(a, status) == [job[a].listed[Of(a)] EXCEPT !.status = status]

FetchFails(a) ==
    /\ At(a, "base") /\ job[a].todo # <<>> /\ Watched(job[a].listed[Of(a)]) /\ Fail
    /\ \E status \in {"degraded", "forbidden"} : sub' = [sub EXCEPT ![Of(a)] = Degraded(a, status)]
    /\ Move(a, "done")
    /\ UNCHANGED <<base, evidence, handed, news, stage, History>>

\* Mutant: a record that has evidence at all is taken for unchanged.
Known(a) == \E e \in DOMAIN evidence : evidence[e].base = Of(a)

\* The newest evidence has the same digest; that of a notification never has.
Unchanged(a) ==
    \E e \in Newest(Of(a)) : evidence[e].content = job[a].read.content /\ evidence[e].via # "notice"

Compare(a) ==
    /\ At(a, "compare")
    /\ Move(a, IF Unchanged(a) THEN "save" ELSE "record")
    /\ UNCHANGED <<base, sub, evidence, handed, news, stage, spent, History>>

\* The cursor is set and the row written back as it was listed, but active.
Save(a) ==
    /\ At(a, "save")
    /\ sub' = [sub EXCEPT ![Of(a)] = [status |-> "active", warm |-> TRUE]]
    /\ job' = [job EXCEPT ![a].todo = Tail(@), ![a].pc = "base"]
    /\ baseline' = [baseline EXCEPT ![Of(a)] = IF @ = Never THEN job[a].read.edit ELSE @]
    /\ UNCHANGED <<base, evidence, handed, news, stage, spent, orphaned>>

Done(a) ==
    /\ At(a, "done") \/ (At(a, "base") /\ job[a].todo = <<>>)
    /\ job' = [job EXCEPT ![a] = Free]
    /\ stage' = "up"
    /\ UNCHANGED <<base, sub, evidence, handed, news, spent, History>>

-----------------------------------------------------------------------------
(* The daemon and its sources.                                               *)

\* The configured subscriptions are written anew, then SyncSubscriptions begins.
Start ==
    /\ stage = "down" /\ spent.starts < MaxStarts
    /\ spent' = [spent EXCEPT !.starts = @ + 1]
    /\ sub' = [b \in Bases |-> IF b \in Configured THEN [status |-> "pending", warm |-> FALSE] ELSE sub[b]]
    /\ job' = [job EXCEPT !["loop"] = [Free EXCEPT !.pc = "sync", !.todo = [i \in Bases |-> i], !.listed = sub']]
    /\ stage' = "starting"
    /\ UNCHANGED <<base, evidence, handed, news, History>>

\* One resource is resolved, or not; its row is written back.  A failure does not
\* end the pass.
Sync ==
    /\ At("loop", "sync") /\ job["loop"].todo # <<>>
    /\ LET listed == job["loop"].listed[Of("loop")]
       IN  \/ listed.status = "removed" /\ UNCHANGED <<sub, spent>>
           \/ /\ listed.status # "removed"
              /\ sub' = [sub EXCEPT ![Of("loop")] = [listed EXCEPT !.status = "active"]]
              /\ UNCHANGED spent
           \/ /\ listed.status # "removed" /\ Fail
              /\ \E status \in {"degraded", "forbidden"} :
                   sub' = [sub EXCEPT ![Of("loop")] = [listed EXCEPT !.status = status]]
    /\ job' = [job EXCEPT !["loop"].todo = Tail(@)]
    /\ UNCHANGED <<base, evidence, handed, news, stage, History>>
Synced ==
    /\ At("loop", "sync") /\ job["loop"].todo = <<>>
    /\ job' = [job EXCEPT !["loop"] = Pass("loop")]
    /\ UNCHANGED <<base, sub, evidence, handed, news, stage, spent, History>>

\* A poll begins with a reconciliation.
Poll ==
    /\ stage = "up" /\ At("loop", "idle")
    /\ job' = [job EXCEPT !["loop"] = Pass("loop")]
    /\ UNCHANGED <<base, sub, evidence, handed, news, stage, spent, History>>

\* A poll finds a notification (IngestResourceNotification); one that ends in an
\* error is found again.
Ingest ==
    /\ stage = "up" /\ At("loop", "idle")
    /\ \E n \in news :
         /\ n.kind = "notice"
         /\ job' = [job EXCEPT !["loop"] = [Free EXCEPT !.pc = "record", !.news = n,
                      !.read = [content |-> base[n.base].content, edit |-> base[n.base].edits]]]
    /\ UNCHANGED <<base, sub, evidence, handed, news, stage, spent, History>>
Ingested ==
    /\ At("loop", "done") /\ job["loop"].news.kind = "notice"
    /\ news' = news \ {job["loop"].news}
    /\ UNCHANGED <<base, sub, evidence, handed, job, stage, spent, History>>

\* HandleResourceSignal: a changed field reconciles everything; a changed record is
\* read again for an active subscription.
Signal ==
    /\ stage = "up" /\ At("stream", "idle")
    /\ \E n \in news :
         /\ n.kind \in {"record", "field"}
         /\ job' = [job EXCEPT !["stream"] =
              IF n.kind = "field" THEN Pass("stream")
              ELSE [Free EXCEPT !.pc = "event", !.listed = sub, !.news = n]]
         /\ news' = news \ {n}
    /\ UNCHANGED <<base, sub, evidence, handed, stage, spent, History>>
ReadRecord ==
    /\ At("stream", "event")
    /\ LET b == job["stream"].news.base
       IN  \/ /\ job["stream"].listed[b].status # "active"
              /\ Move("stream", "done") /\ UNCHANGED <<sub, spent>>
           \/ /\ job["stream"].listed[b].status = "active"
              /\ job' = [job EXCEPT !["stream"].pc = "record",
                           !["stream"].read = [content |-> base[b].content, edit |-> base[b].edits]]
              /\ UNCHANGED <<sub, spent>>
           \/ /\ job["stream"].listed[b].status = "active" /\ Fail
              /\ \E status \in {"degraded", "forbidden"} : sub' = [sub EXCEPT ![b] = Degraded("stream", status)]
              /\ Move("stream", "done")
    /\ UNCHANGED <<base, evidence, handed, news, stage, History>>

\* The operator's `subscription remove`.
Remove(b) ==
    /\ sub[b].status # "removed"
    /\ sub' = [sub EXCEPT ![b].status = "removed"]
    /\ UNCHANGED <<base, evidence, handed, news, job, stage, spent, History>>

\* Somebody edits the record; Lark may tell of it, here in one way at most.
Edit(b) ==
    /\ base[b].edits < MaxEdits
    /\ \E content \in EditedTo \ {base[b].content} :
         base' = [base EXCEPT ![b] = [content |-> content, edits |-> @.edits + 1]]
    /\ \/ /\ spent.told < MaxTold /\ spent' = [spent EXCEPT !.told = @ + 1]
          /\ \E kind \in {"record", "field", "notice"} :
               news' = news \cup {[kind |-> kind, base |-> b, edit |-> base[b].edits + 1]}
       \/ UNCHANGED <<news, spent>>
    /\ UNCHANGED <<sub, evidence, handed, job, stage, History>>

\* An event that was not handled to its end may be delivered again.
Crash ==
    /\ stage # "down" /\ stage' = "down"
    /\ orphaned' = orphaned \cup
         {e \in DOMAIN evidence : \E a \in Actors : At(a, "handoff") /\ evidence[e].key = Key(a)}
    /\ job' = [a \in Actors |-> Free]
    /\ news' \in {news, news \cup ({job["stream"].news} \ {NoNews})}
    /\ UNCHANGED <<base, sub, evidence, handed, spent, baseline>>

Step(a) == Record(a) \/ Handoff(a) \/ Skip(a) \/ Fetch(a) \/ Compare(a) \/ Save(a) \/ Done(a)
Loop == Sync \/ Synced \/ Poll \/ Ingested

Next ==
    \/ Start \/ Loop \/ Ingest \/ Signal \/ ReadRecord \/ Crash
    \/ \E a \in Actors : Step(a) \/ FetchFails(a)
    \/ \E b \in Bases : Remove(b) \/ Edit(b)

\* The daemon polls on and finishes what it began.
Fairness == WF_resourceVars(Step("loop")) /\ WF_resourceVars(Loop) /\ WF_resourceVars(Step("stream") \/ ReadRecord)
            /\ SF_resourceVars(Poll)

Spec == Init /\ [][Next]_resourceVars /\ Fairness

-----------------------------------------------------------------------------
(* Properties.                                                               *)

Statuses == {"pending", "active", "degraded", "forbidden", "removed"}
ResourceTypeOK ==
    /\ base \in [Bases -> [content : Contents, edits : 0 .. MaxEdits]]
    /\ sub \in [Bases -> [status : Statuses, warm : BOOLEAN]]
    /\ handed \subseteq DOMAIN evidence /\ orphaned \subseteq DOMAIN evidence
    /\ \A a \in Actors : job[a].pc \in {"idle", "sync", "base", "compare", "record", "handoff", "save", "event", "done"}
    /\ stage \in {"down", "starting", "up"}
    /\ baseline \in [Bases -> 0 .. Never]

\* However many passes run at a time, and however often a crash repeats one, one
\* content of a record is reconciled into one handoff.
ReconciledOnce ==
    \A e \in DOMAIN evidence, f \in DOMAIN evidence :
        (e # f /\ evidence[e].via = "reconcile" /\ evidence[f].via = "reconcile")
            => evidence[e].base # evidence[f].base \/ evidence[e].content # evidence[f].content

\* What stood in a Base when it was first reconciled is no handoff of a later pass,
\* of a slow one neither, unless an event had told of it: a pass that failed or
\* died half-way does not count as that first one.
BaselineIsSilent ==
    \A e \in handed : evidence[e].via = "reconcile" =>
        \/ evidence[e].edit > baseline[evidence[e].base]
        \/ \E f \in DOMAIN evidence :
             /\ f < e /\ evidence[f].via = "record"
             /\ evidence[f].base = evidence[e].base /\ evidence[f].content = evidence[e].content

\* A record that names the owner and stays so is heard of, whatever events were
\* lost: it has a handoff, unless it was there at a cold start or the writer of its
\* evidence died before the handoff.
OwnerHears ==
    \A b \in Bases, c \in Mine :
        <>[](stage = "up" /\ sub[b].status = "active" /\ base[b].content = c)
            => <>(\E e \in DOMAIN evidence : evidence[e].base = b /\ evidence[e].content = c
                    /\ (e \in handed \cup orphaned \/ evidence[e].cold))
=============================================================================
