---------------------------- MODULE IntakeProofs ----------------------------
(***************************************************************************)
(* Intake implements its ledger, for any number of messages, of polls,     *)
(* events and backfills, and for any clock: one work item per message, and *)
(* no message forgotten.                                                   *)
(***************************************************************************)
EXTENDS IntakeProperties, FiniteSetTheorems, TLAPS

Updates == Time \cup {Unset}
MessageType == [sort : AllSorts \cup {"unsent"}, created : Time, stamped : BOOLEAN,
                indexed : Nat, updated : Updates]
DaemonType == [up : BOOLEAN, starts : 0 .. MaxStarts, started : Time]
JobType == [pc : {"idle", "cold", "search", "loop", "record"},
            todo : SUBSET Messages, copy : [Messages -> Updates],
            found : ReceiptType, of : SUBSET Messages, until : Time]
ResumeType == [of : SUBSET Messages, newest : BOOLEAN, id : Nat]

\* A link that leads to a work item of m.
LinkOf(link, m) == link # 0 => link \in DOMAIN work /\ work[link].of = m

\* The dedup key is that of the message, and unique.
KeysOwn ==
    /\ \A i \in DOMAIN work : work[i].key = <<"message", work[i].of>>
    /\ \A i, j \in DOMAIN work : work[i].of = work[j].of => i = j

\* What a source or a resume has read still leads to a work item of its message.
HeldOwn ==
    /\ \A s \in Source : \A m \in job[s].of : LinkOf(job[s].found.link, m)
    /\ \A m \in resume.of : LinkOf(resume.id, m)

IntakeInv == TypeOK /\ KeysOwn /\ HeldOwn

\* How a step may change the work table: not at all, by a row for a message that has
\* none, or in fields that say nothing of the message.
Appended(m) ==
    \E row \in RowType : /\ row.of = m /\ row.key = <<"message", m>>
                         /\ Holding(row.key) = {} /\ work' = Append(work, row)
Grown == DOMAIN work \subseteq DOMAIN work' /\ \A i \in DOMAIN work : work'[i].of = work[i].of
Amended ==
    /\ work' \in Seq(RowType) /\ Len(work') = Len(work)
    /\ \A i \in DOMAIN work : work'[i].of = work[i].of /\ work'[i].key = work[i].key

-----------------------------------------------------------------------------
(* The work table.                                                           *)

LEMMA TableAppended ==
  ASSUME work \in Seq(RowType), KeysOwn, NEW m \in Messages, Appended(m)
  PROVE  /\ work' \in Seq(RowType) /\ KeysOwn'
         /\ DOMAIN work \subseteq DOMAIN work'
         /\ \A i \in DOMAIN work : work'[i] = work[i] /\ work[i].of # m
         /\ DOMAIN work' = DOMAIN work \cup {Len(work) + 1} /\ work'[Len(work) + 1].of = m
<1>1. PICK row \in RowType : /\ row.of = m /\ row.key = <<"message", m>>
                             /\ Holding(row.key) = {} /\ work' = Append(work, row)
  BY DEF Appended
<1>2. /\ work' \in Seq(RowType) /\ DOMAIN work \subseteq DOMAIN work'
      /\ \A i \in DOMAIN work : work'[i] = work[i]
      /\ DOMAIN work' = DOMAIN work \cup {Len(work) + 1} /\ work'[Len(work) + 1] = row
  BY <1>1
<1>3. \A i \in DOMAIN work : work[i].of # m
  BY <1>1 DEF KeysOwn, Holding
<1>4. KeysOwn'
  BY <1>1, <1>2, <1>3 DEF KeysOwn
<1> QED
  BY <1>1, <1>2, <1>3, <1>4

LEMMA TableAmended ==
  ASSUME work \in Seq(RowType), KeysOwn, Amended \/ work' = work
  PROVE  /\ work' \in Seq(RowType) /\ KeysOwn' /\ DOMAIN work' = DOMAIN work
         /\ \A i \in DOMAIN work : work'[i].of = work[i].of
<1>1. /\ work' \in Seq(RowType) /\ DOMAIN work' = DOMAIN work
      /\ \A i \in DOMAIN work : work'[i].of = work[i].of /\ work'[i].key = work[i].key
  BY DEF Amended
<1> QED
  BY <1>1 DEF KeysOwn

\* No row is lost, and none becomes a row of another message.
LEMMA RowsStay ==
  ASSUME work \in Seq(RowType), KeysOwn,
         (\E m \in Messages : Appended(m)) \/ Amended \/ work' = work
  PROVE  Grown
<1>1. ASSUME NEW m \in Messages, Appended(m) PROVE Grown
  BY <1>1, TableAppended DEF Grown
<1> QED
  BY <1>1, TableAmended DEF Grown

-----------------------------------------------------------------------------
(* recordIntake.                                                             *)

LEMMA RowTyped ==
  ASSUME TypeOK, NEW s \in Source, NEW m \in Messages, NEW updated \in Updates, NEW blank \in BOOLEAN
  PROVE  /\ Row(s, m, updated, blank) \in RowType
         /\ Row(s, m, updated, blank).of = m /\ Row(s, m, updated, blank).key = <<"message", m>>
<1> DEFINE row == Row(s, m, updated, blank)
<1>1. DueAfterWait(m, updated) \in Int
  <2>1. now \in Int /\ message[m].created \in Int /\ updated \in Int /\ OwnerWait \in Int
    BY IntakeParameters DEF TypeOK, Time, Updates, Unset
  <2>2. CreatedAt(m) \in Int
    BY <2>1 DEF CreatedAt, Unset
  <2>3. Later(CreatedAt(m), updated) \in Int
    BY <2>1, <2>2 DEF Later
  <2> QED
    BY <2>1, <2>3 DEF DueAfterWait
<1>2. \E waits \in BOOLEAN :
        row = [of |-> m, key |-> <<"message", m>>, status |-> IF waits THEN "waiting_user" ELSE "received",
               due |-> IF waits THEN DueAfterWait(m, updated) ELSE Unset, updated |-> updated, blank |-> blank]
  BY DEF Row, DedupKey
<1>3. Unset \in Int
  BY DEF Unset
<1>4. <<"message", m>> \in {"message", "event", "poll"} \X Messages
  OBVIOUS
<1>5. ASSUME NEW waits \in BOOLEAN
      PROVE  [of |-> m, key |-> <<"message", m>>, status |-> IF waits THEN "waiting_user" ELSE "received",
              due |-> IF waits THEN DueAfterWait(m, updated) ELSE Unset, updated |-> updated, blank |-> blank] \in RowType
  <2>1. (IF waits THEN DueAfterWait(m, updated) ELSE Unset) \in Int
    BY <1>1, <1>3
  <2>2. (IF waits THEN "waiting_user" ELSE "received") \in {"received", "waiting_user", "claimed"}
    OBVIOUS
  <2> QED
    BY <1>4, <2>1, <2>2, ZenonT(60) DEF RowType, Updates
<1> QED
  BY <1>2, <1>5

LEMMA RecordStep ==
  ASSUME IntakeInv, NEW s \in Source, NEW m \in Messages, NEW found \in ReceiptType, LinkOf(found.link, m),
         NEW updated \in Updates, NEW blank \in BOOLEAN, RecordIntake(s, m, found, updated, blank)
  PROVE  /\ \E r \in ReceiptType : /\ receipt' = [receipt EXCEPT ![m] = r] /\ r.disposition # "unseen"
                                   /\ r.link # 0 => r.link \in DOMAIN work' /\ work'[r.link].of = m
         /\ Appended(m) \/ Amended \/ work' = work
         /\ resume' \in ResumeType /\ resume'.of = resume.of /\ resume'.id = resume.id
<1> DEFINE row == Row(s, m, updated, blank)
<1>1. row \in RowType /\ row.of = m /\ row.key = <<"message", m>>
  BY RowTyped DEF IntakeInv
<1>2. work \in Seq(RowType) /\ KeysOwn
  BY DEF IntakeInv, TypeOK
<1>3. ASSUME work' = InsertOrIgnore(row)
      PROVE  /\ Appended(m) \/ work' = work
             /\ Located(row.key) \in DOMAIN work' /\ work'[Located(row.key)].of = m
  <2>1. CASE Holding(row.key) = {}
    <3>1. Appended(m)
      BY <1>1, <1>3, <2>1 DEF Appended, InsertOrIgnore
    <3> QED
      BY <1>2, <2>1, <3>1, TableAppended DEF Located
  <2>2. CASE Holding(row.key) # {}
    <3>1. Located(row.key) \in Holding(row.key)
      BY <2>2 DEF Located
    <3>2. work' = work
      BY <1>3, <2>2 DEF InsertOrIgnore
    <3> QED
      BY <1>1, <1>2, <3>1, <3>2 DEF Holding, KeysOwn
  <2> QED
    BY <2>1, <2>2
<1>4. resume' \in ResumeType /\ resume'.of = resume.of /\ resume'.id = resume.id
  <2>1. resume \in ResumeType
    BY DEF IntakeInv, TypeOK, ResumeType
  <2> QED
    BY <2>1 DEF RecordIntake, Superseded, ResumeType
<1> DEFINE Linked(r) == r.link # 0 => r.link \in DOMAIN work' /\ work'[r.link].of = m
<1> DEFINE Received ==
      \E r \in ReceiptType : receipt' = [receipt EXCEPT ![m] = r] /\ r.disposition # "unseen" /\ Linked(r)
<1> HIDE DEF row
<1>9. ASSUME NEW l \in Nat, NEW d \in {"admitted", "duplicate", "offline_backlog"},
             l # 0 => l \in DOMAIN work' /\ work'[l].of = m,
             receipt' = [receipt EXCEPT ![m] = [link |-> l, disposition |-> d]]
      PROVE  Received
  <2>1. [link |-> l, disposition |-> d] \in ReceiptType
    BY DEF ReceiptType
  <2> QED
    BY <1>9, <2>1
<1>10. ASSUME work' = InsertOrIgnore(row) PROVE Located(row.key) \in Nat
  BY <1>2, <1>3, <1>10, TableAppended
<1>5. ASSUME FirstReceipt(s, m, row) PROVE Received /\ (Appended(m) \/ work' = work)
  <2>1. ASSUME work' = InsertOrIgnore(row), NEW d \in {"admitted", "duplicate"},
               receipt' = [receipt EXCEPT ![m] = [link |-> Located(row.key), disposition |-> d]]
        PROVE  Received /\ (Appended(m) \/ work' = work)
    <3>1. Received
      BY <1>3, <1>9, <1>10, <2>1
    <3> QED
      BY <1>3, <2>1, <3>1
  <2>2. CASE receipt' = [receipt EXCEPT ![m] = [link |-> 0, disposition |-> "offline_backlog"]] /\ UNCHANGED work
    <3>1. Received
      BY <1>9, <2>2
    <3> QED
      BY <2>2, <3>1
  <2> QED
    BY <1>5, <2>1, <2>2 DEF FirstReceipt
<1>6. ASSUME AdmitBackfillReceipt(m, row) PROVE Received /\ (Appended(m) \/ work' = work)
  <2>1. Received
    BY <1>3, <1>6, <1>9, <1>10 DEF AdmitBackfillReceipt
  <2> QED
    BY <1>3, <1>6, <2>1 DEF AdmitBackfillReceipt
<1>7. ASSUME RecordDuplicateIntake(m, found, row)
      PROVE  /\ \E r \in ReceiptType : receipt' = [receipt EXCEPT ![m] = r] /\ r.disposition # "unseen" /\ Linked(r)
             /\ Amended \/ work' = work
  <2>1. receipt' = [receipt EXCEPT ![m] = [link |-> found.link, disposition |-> "duplicate"]]
    BY <1>7 DEF RecordDuplicateIntake
  <2>2. Amended \/ work' = work
    <3>1. CASE found.link # 0 /\ work' = [work EXCEPT ![found.link].updated = row.updated,
                                                      ![found.link].blank = row.blank, ![found.link].due = row.due]
      <4>1. found.link \in DOMAIN work
        BY <3>1 DEF LinkOf
      <4> DEFINE old == work[found.link]
      <4> DEFINE new == [old EXCEPT !.updated = row.updated, !.blank = row.blank, !.due = row.due]
      <4>2. work' = [work EXCEPT ![found.link] = new]
        BY <1>2, <3>1, <4>1
      <4>3. old \in RowType
        BY <1>2, <4>1
      <4>4. new \in RowType /\ new.of = old.of /\ new.key = old.key
        BY <1>1, <4>3, ZenonT(60) DEF RowType
      <4> HIDE DEF new
      <4> QED
        BY <1>2, <4>1, <4>2, <4>4 DEF Amended
    <3> QED
      BY <1>7, <3>1 DEF RecordDuplicateIntake
  <2>3. [link |-> found.link, disposition |-> "duplicate"] \in ReceiptType
    BY DEF ReceiptType
  <2>4. found.link # 0 => found.link \in DOMAIN work' /\ work'[found.link].of = m
    BY <1>2, <2>2, RowsStay DEF LinkOf, Grown
  <2> QED
    BY <2>1, <2>2, <2>3, <2>4
<1>8. FirstReceipt(s, m, row) \/ AdmitBackfillReceipt(m, row) \/ RecordDuplicateIntake(m, found, row)
  BY DEF RecordIntake, row
<1> QED
  BY <1>4, <1>5, <1>6, <1>7, <1>8

-----------------------------------------------------------------------------
(* The jobs of the sources.                                                  *)

JobsOK ==
    /\ job \in [Source -> JobType]
    /\ \A s \in Source : \A m \in job[s].of : LinkOf(job[s].found.link, m)

LEMMA NoJobTyped == NoJob \in JobType /\ NoJob.of = {}
<1>1. 0 \in Time /\ [m \in Messages |-> Unset] \in [Messages -> Updates]
  BY IntakeParameters DEF Time, Updates
<1> QED
  BY <1>1 DEF NoJob, NoReceipt, JobType, ReceiptType

LEMMA CopiesTyped ==
  ASSUME TypeOK, NEW s \in Source, NEW todo
  PROVE  Copies(s, todo) \in [Messages -> Updates]
  BY DEF Copies, TypeOK, Updates

\* A source moves to a job that is of its kind and still leads where it should.
LEMMA JobMoves ==
  ASSUME JobsOK, Grown, NEW s \in Source, NEW j \in JobType, job' = [job EXCEPT ![s] = j],
         \A m \in j.of : LinkOf(j.found.link, m)
  PROVE  JobsOK'
  BY DEF JobsOK, LinkOf, Grown

LEMMA JobIdles ==
  ASSUME JobsOK, Grown, NEW s \in Source, Idle(s)
  PROVE  JobsOK'
  BY JobMoves, NoJobTyped DEF Idle

LEMMA JobDisposes ==
  ASSUME JobsOK, Grown, NEW s \in Source, NEW m, Disposing(s, m)
  PROVE  JobsOK'
<1>1. CASE job' = [job EXCEPT ![s].pc = "loop", ![s].of = {}, ![s].found = NoReceipt, ![s].todo = @ \ {m}]
  <2> DEFINE j == [job[s] EXCEPT !.pc = "loop", !.of = {}, !.found = NoReceipt, !.todo = @ \ {m}]
  <2>1. j \in JobType /\ j.of = {} /\ job' = [job EXCEPT ![s] = j]
    BY <1>1, NoJobTyped DEF JobsOK, JobType, NoReceipt, ReceiptType
  <2> QED
    BY <2>1, JobMoves
<1> QED
  BY <1>1, JobIdles DEF Disposing

LEMMA JobStep ==
  ASSUME IntakeInv, JobsOK,
         \/ BeginPoll \/ ColdStart \/ SearchPoll \/ FinishPoll \/ BeginBackfill \/ Deliver \/ Stop
         \/ \E s \in Source : SkipMessage(s) \/ FindReceipt(s) \/ GiveUp(s)
  PROVE  JobsOK'
<1>0. Grown
  BY DEF Grown, BeginPoll, ColdStart, SearchPoll, FinishPoll, BeginBackfill, Deliver, Stop, SkipMessage, FindReceipt, GiveUp
<1> USE <1>0 DEF JobsOK, Source
<1>1. CASE BeginPoll
  <2>1. PICK pc \in {"cold", "search"} : job' = [job EXCEPT !["poll"].pc = pc, !["poll"].until = now]
    BY <1>1 DEF BeginPoll
  <2> DEFINE j == [job["poll"] EXCEPT !.pc = pc, !.until = now]
  <2>2. j \in JobType /\ j.of = job["poll"].of /\ j.found = job["poll"].found /\ job' = [job EXCEPT !["poll"] = j]
    BY <2>1, ZenonT(60) DEF JobType, IntakeInv, TypeOK
  <2> QED
    BY <1>1, <2>2, JobMoves DEF BeginPoll
<1>2. CASE ColdStart \/ FinishPoll
  BY <1>2, JobIdles DEF ColdStart, FinishPoll
<1>3. CASE SearchPoll
  <2> DEFINE todo == PollWindow(job["poll"].until)
  <2> DEFINE j == [job["poll"] EXCEPT !.pc = "loop", !.todo = todo, !.copy = Copies("poll", todo)]
  <2>1. job' = [job EXCEPT !["poll"].pc = "loop", !["poll"].todo = todo, !["poll"].copy = Copies("poll", todo)]
    BY <1>3 DEF SearchPoll
  <2>2. todo \in SUBSET Messages
    BY DEF PollWindow, Indexed
  <2>3. Copies("poll", todo) \in [Messages -> Updates]
    BY CopiesTyped DEF IntakeInv
  <2> HIDE DEF todo
  <2>4. j \in JobType /\ j.of = job["poll"].of /\ j.found = job["poll"].found /\ job' = [job EXCEPT !["poll"] = j]
    BY <2>1, <2>2, <2>3 DEF JobType
  <2> QED
    BY <1>3, <2>4, JobMoves DEF SearchPoll
<1>4. CASE BeginBackfill
  <2>1. PICK todo \in SUBSET Messages :
          job' = [job EXCEPT !["backfill"].pc = "loop", !["backfill"].todo = todo,
                             !["backfill"].copy = Copies("backfill", todo)]
    BY <1>4 DEF BeginBackfill, Indexed
  <2> DEFINE j == [job["backfill"] EXCEPT !.pc = "loop", !.todo = todo, !.copy = Copies("backfill", todo)]
  <2>3. Copies("backfill", todo) \in [Messages -> Updates]
    BY CopiesTyped DEF IntakeInv
  <2>4. j \in JobType /\ j.of = job["backfill"].of /\ j.found = job["backfill"].found
        /\ job' = [job EXCEPT !["backfill"] = j]
    BY <2>1, <2>3 DEF JobType
  <2> QED
    BY <1>4, <2>4, JobMoves, ZenonT(60) DEF BeginBackfill
<1>5. CASE Deliver
  <2>1. PICK m \in Messages :
          job' = [job EXCEPT !["realtime"].pc = "record", !["realtime"].todo = {m},
                             !["realtime"].of = {m}, !["realtime"].found = receipt[m]]
    BY <1>5 DEF Deliver
  <2> DEFINE j == [job["realtime"] EXCEPT !.pc = "record", !.todo = {m}, !.of = {m}, !.found = receipt[m]]
  <2>2. receipt[m] \in ReceiptType /\ LinkOf(receipt[m].link, m)
    BY DEF IntakeInv, TypeOK, LinksAreOwn, LinkOf
  <2>3. job["realtime"] \in JobType
    BY DEF JobsOK, Source
  <2>4. j \in JobType
    BY <2>2, <2>3 DEF JobType
  <2>5. j.of = {m} /\ j.found = receipt[m]
    BY <2>3 DEF JobType
  <2>6. job' = [job EXCEPT !["realtime"] = j]
    BY <2>1, <2>3 DEF JobsOK, Source
  <2>7. \A n \in j.of : LinkOf(j.found.link, n)
    BY <2>2, <2>5
  <2> HIDE DEF j
  <2> QED
    BY <1>5, <2>4, <2>6, <2>7, JobMoves DEF Deliver
<1>6. CASE Stop
  BY <1>6, NoJobTyped DEF Stop, LinkOf
<1>7. ASSUME NEW s \in Source, SkipMessage(s) PROVE JobsOK'
  BY <1>7, JobDisposes, SMTT(30) DEF SkipMessage
<1>8. ASSUME NEW s \in Source, FindReceipt(s) PROVE JobsOK'
  <2>1. PICK m \in job[s].todo : job' = [job EXCEPT ![s].pc = "record", ![s].of = {m}, ![s].found = receipt[m]]
    BY <1>8 DEF FindReceipt
  <2>2. m \in Messages
    BY <2>1 DEF JobType
  <2> DEFINE j == [job[s] EXCEPT !.pc = "record", !.of = {m}, !.found = receipt[m]]
  <2>3. receipt[m] \in ReceiptType /\ LinkOf(receipt[m].link, m)
    BY <2>2 DEF IntakeInv, TypeOK, LinksAreOwn, LinkOf
  <2>4. job[s] \in JobType
    BY DEF JobsOK
  <2>5. j \in JobType
    BY <2>2, <2>3, <2>4 DEF JobType
  <2>6. j.of = {m} /\ j.found = receipt[m]
    BY <2>4 DEF JobType
  <2>7. job' = [job EXCEPT ![s] = j]
    BY <2>1, <2>4 DEF JobsOK
  <2>8. \A n \in j.of : LinkOf(j.found.link, n)
    BY <2>3, <2>6
  <2> HIDE DEF j
  <2> QED
    BY <1>8, <2>5, <2>7, <2>8, JobMoves DEF FindReceipt
<1>9. ASSUME NEW s \in Source, GiveUp(s) PROVE JobsOK'
  BY <1>9, JobIdles DEF GiveUp
<1> QED
  BY <1>1, <1>2, <1>3, <1>4, <1>5, <1>6, <1>7, <1>8, <1>9

-----------------------------------------------------------------------------
(* The invariant.                                                            *)

\* What a step does to the rows of a message: its first work item, or news of it,
\* and a receipt of it that leads to its work item.
Changed(m) ==
    /\ Appended(m) \/ Amended \/ work' = work
    /\ \/ receipt' = receipt
       \/ \E r \in ReceiptType : /\ receipt' = [receipt EXCEPT ![m] = r] /\ r.disposition # "unseen"
                                 /\ r.link # 0 => r.link \in DOMAIN work' /\ work'[r.link].of = m
Quiet == (Amended \/ work' = work) /\ receipt' = receipt

EnvironmentOK ==
    /\ now \in Time
    /\ message \in [Messages -> MessageType]
    /\ cursor \in Updates /\ floor \in Updates
    /\ daemon \in DaemonType
    /\ failures \in 0 .. MaxFailures
    /\ offered \subseteq Messages

LEMMA InvParts ==
  IntakeInv <=> /\ EnvironmentOK /\ JobsOK /\ work \in Seq(RowType) /\ KeysOwn
                /\ receipt \in [Messages -> ReceiptType] /\ \A m \in Messages : LinkOf(receipt[m].link, m)
                /\ resume \in ResumeType /\ \A m \in resume.of : LinkOf(resume.id, m)
  BY DEF IntakeInv, TypeOK, HeldOwn, EnvironmentOK, JobsOK, LinksAreOwn, LinkOf, JobType, ResumeType,
         MessageType, DaemonType, Updates

LEMMA IntakeInit == Init => IntakeInv
<1> SUFFICES ASSUME Init PROVE IntakeInv
  OBVIOUS
<1>1. 0 \in Time /\ 0 \in 0 .. MaxStarts /\ 0 \in 0 .. MaxFailures
  BY IntakeParameters DEF Time
<1>2. EnvironmentOK
  <2>1. message \in [Messages -> MessageType]
    BY <1>1 DEF Init, Unsent, MessageType, Updates
  <2>2. daemon \in DaemonType
    BY <1>1 DEF Init, DaemonType
  <2> QED
    BY <1>1, <2>1, <2>2 DEF Init, EnvironmentOK, Updates
<1>3. JobsOK
  BY NoJobTyped DEF Init, JobsOK
<1>4. receipt \in [Messages -> ReceiptType] /\ \A m \in Messages : LinkOf(receipt[m].link, m)
  BY DEF Init, NoReceipt, ReceiptType, LinkOf
<1>5. resume \in ResumeType /\ \A m \in resume.of : LinkOf(resume.id, m)
  BY DEF Init, NoResume, ResumeType
<1>6. work \in Seq(RowType) /\ KeysOwn
  BY DEF Init, KeysOwn
<1> QED
  BY <1>2, <1>3, <1>4, <1>5, <1>6, InvParts

LEMMA EnvironmentStep == EnvironmentOK /\ JobsOK /\ [Next]_vars => EnvironmentOK'
<1> SUFFICES ASSUME EnvironmentOK, JobsOK, [Next]_vars PROVE EnvironmentOK'
  OBVIOUS
<1> USE DEF EnvironmentOK
<1>1. ASSUME NEW s \in Source, SkipMessage(s) PROVE EnvironmentOK'
  <2>1. job[s].todo \subseteq Messages
    BY DEF JobsOK, JobType
  <2>2. offered' \subseteq Messages
    BY <1>1, <2>1 DEF SkipMessage
  <2> QED
    BY <1>1, <2>2 DEF SkipMessage
<1>2. ASSUME NEW s \in Source, GiveUp(s) PROVE EnvironmentOK'
  BY <1>2, IntakeParameters DEF GiveUp
<1>3. CASE BeginPoll
  BY <1>3 DEF BeginPoll, Updates
<1>4. CASE ColdStart \/ FinishPoll
  <2>1. cursor' \in Time
    BY <1>4 DEF ColdStart, FinishPoll, JobsOK, JobType, Source
  <2> QED
    BY <1>4, <2>1 DEF ColdStart, FinishPoll, Updates
<1>5. CASE Start \/ Stop
  <2>1. daemon' \in DaemonType
    <3>1. CASE Stop
      BY <3>1 DEF Stop, DaemonType
    <3>2. CASE Start
      <4>1. daemon.starts + 1 \in 0 .. MaxStarts
        BY <3>2, IntakeParameters DEF Start, DaemonType
      <4> QED
        BY <3>2, <4>1 DEF Start, DaemonType
    <3> QED
      BY <1>5, <3>1, <3>2
  <2> QED
    BY <1>5, <2>1 DEF Start, Stop
<1>6. ASSUME NEW m \in Messages, Send(m) PROVE EnvironmentOK'
  <2>1. PICK sort \in Sorts, stamped \in Stamps, delay \in Delays :
          message' = [message EXCEPT ![m] = [sort |-> sort, created |-> now, stamped |-> stamped,
                                             indexed |-> now + delay, updated |-> Unset]]
    BY <1>6 DEF Send
  <2>2. sort \in AllSorts /\ stamped \in BOOLEAN /\ now + delay \in Nat
    BY EnvironmentKnown, IntakeParameters DEF Time
  <2>3. [sort |-> sort, created |-> now, stamped |-> stamped, indexed |-> now + delay, updated |-> Unset] \in MessageType
    BY <2>2, ZenonT(60) DEF MessageType, Updates
  <2> QED
    BY <1>6, <2>1, <2>3 DEF Send
<1>7. ASSUME NEW m \in Messages, Edit(m) PROVE EnvironmentOK'
  BY <1>7 DEF Edit, MessageType, Updates
<1>8. CASE Tick
  BY <1>8, IntakeParameters DEF Tick, Time
<1>9. ASSUME NEW s \in Source, FindReceipt(s) \/ Record(s) PROVE EnvironmentOK'
  BY <1>9 DEF FindReceipt, Record
<1>10. ASSUME NEW m \in Messages, ResumeInsert(m) PROVE EnvironmentOK'
  BY <1>10 DEF ResumeInsert
<1>11. ASSUME NEW i \in DOMAIN work, Claim(i) PROVE EnvironmentOK'
  BY <1>11 DEF Claim
<1>12. CASE SearchPoll \/ BeginBackfill \/ Deliver \/ ResumeLink \/ ResumeCrash \/ UNCHANGED vars
  BY <1>12 DEF SearchPoll, BeginBackfill, Deliver, ResumeLink, ResumeCrash, vars
<1> QED
  BY <1>1, <1>2, <1>3, <1>4, <1>5, <1>6, <1>7, <1>8, <1>9, <1>10, <1>11, <1>12
     DEF Next, PollStep, LoseStream, Source

ResumeOK == resume \in ResumeType /\ \A m \in resume.of : LinkOf(resume.id, m)

\* Every step leaves the rows of the messages alone or changes those of one.
LEMMA RowsStep ==
  ASSUME IntakeInv, [Next]_vars
  PROVE  (Quiet \/ \E m \in Messages : Changed(m)) /\ JobsOK' /\ ResumeOK'
<1>0. /\ EnvironmentOK /\ JobsOK /\ work \in Seq(RowType) /\ KeysOwn
      /\ receipt \in [Messages -> ReceiptType] /\ \A m \in Messages : LinkOf(receipt[m].link, m)
      /\ ResumeOK
  BY InvParts DEF ResumeOK
<1>1. CASE \/ BeginPoll \/ ColdStart \/ SearchPoll \/ FinishPoll \/ BeginBackfill \/ Deliver \/ Stop
           \/ \E s \in Source : SkipMessage(s) \/ FindReceipt(s) \/ GiveUp(s)
  <2>1. UNCHANGED <<work, receipt, resume>>
    BY <1>1 DEF BeginPoll, ColdStart, SearchPoll, FinishPoll, BeginBackfill, Deliver, Stop, SkipMessage, FindReceipt, GiveUp
  <2>2. JobsOK'
    BY <1>0, <1>1, JobStep
  <2> QED
    BY <1>0, <2>1, <2>2 DEF Quiet, LinkOf, ResumeOK
<1>2. CASE Start \/ Tick \/ (\E m \in Messages : Send(m) \/ Edit(m)) \/ UNCHANGED vars
  <2>1. UNCHANGED <<work, receipt, resume, job>>
    BY <1>2 DEF Start, Tick, Send, Edit, vars
  <2> QED
    BY <1>0, <2>1 DEF Quiet, LinkOf, ResumeOK, JobsOK
<1>3. CASE ResumeCrash
  <2>1. NoResume \in ResumeType /\ NoResume.of = {}
    BY DEF NoResume, ResumeType
  <2> QED
    BY <1>0, <1>3, <2>1 DEF ResumeCrash, Quiet, LinkOf, ResumeOK, JobsOK
<1>4. ASSUME NEW i \in DOMAIN work, Claim(i) PROVE Quiet /\ JobsOK' /\ ResumeOK'
  <2>1. work' = [work EXCEPT ![i].status = "claimed"] /\ UNCHANGED <<receipt, job, resume>>
    BY <1>4 DEF Claim
  <2>2. \A r \in RowType : LET u == [r EXCEPT !.status = "claimed"]
                           IN  u \in RowType /\ u.of = r.of /\ u.key = r.key
    BY DEF RowType
  <2>3. Amended
    BY <1>0, <2>1, <2>2 DEF Amended
  <2>4. Grown
    BY <1>0, <2>3, RowsStay
  <2> QED
    BY <1>0, <2>1, <2>3, <2>4 DEF Quiet, LinkOf, ResumeOK, JobsOK, Grown
<1>5. ASSUME NEW s \in Source, Record(s) PROVE (\E m \in Messages : Changed(m)) /\ JobsOK' /\ ResumeOK'
  <2>1. PICK m \in job[s].of : \E blank \in BOOLEAN :
          RecordIntake(s, m, job[s].found, job[s].copy[m], blank) /\ Disposing(s, m)
    BY <1>5 DEF Record
  <2>2. PICK blank \in BOOLEAN : RecordIntake(s, m, job[s].found, job[s].copy[m], blank) /\ Disposing(s, m)
    BY <2>1
  <2>3. m \in Messages /\ job[s].found \in ReceiptType /\ job[s].copy[m] \in Updates /\ LinkOf(job[s].found.link, m)
    BY <1>0 DEF JobsOK, JobType
  <2>4. Changed(m) /\ resume' \in ResumeType /\ resume'.of = resume.of /\ resume'.id = resume.id
    BY <2>2, <2>3, RecordStep DEF Changed
  <2>5. Grown
    BY <1>0, <2>3, <2>4, RowsStay DEF Changed
  <2>6. JobsOK'
    BY <1>0, <2>2, <2>5, JobDisposes
  <2> QED
    BY <1>0, <2>3, <2>4, <2>5, <2>6 DEF ResumeOK, LinkOf, Grown
<1>6. ASSUME NEW m \in Messages, ResumeInsert(m) PROVE Changed(m) /\ JobsOK' /\ ResumeOK'
  <2> DEFINE row == [of |-> m, key |-> DedupKey(m, "poll"), status |-> "received",
                     due |-> Unset, updated |-> Unset, blank |-> FALSE]
  <2>1. row \in RowType /\ row.of = m /\ row.key = <<"message", m>> /\ Holding(row.key) = {} /\ work' = Append(work, row)
    BY <1>6 DEF ResumeInsert, DedupKey, RowType, Updates, Unset
  <2> HIDE DEF row
  <2>2. Appended(m)
    BY <2>1 DEF Appended
  <2>3. Grown /\ Len(work) + 1 \in DOMAIN work' /\ work'[Len(work) + 1].of = m
    BY <1>0, <2>2, RowsStay, TableAppended
  <2>4. resume' = [of |-> {m}, newest |-> TRUE, id |-> Len(work) + 1] /\ UNCHANGED <<receipt, job>>
    BY <1>6 DEF ResumeInsert
  <2>5. ResumeOK'
    BY <1>0, <2>3, <2>4 DEF ResumeOK, ResumeType, LinkOf
  <2> QED
    BY <1>0, <2>2, <2>3, <2>4, <2>5 DEF Changed, JobsOK, LinkOf, Grown
<1>7. ASSUME ResumeLink PROVE (Quiet \/ \E m \in Messages : Changed(m)) /\ JobsOK' /\ ResumeOK'
  <2>1. PICK m \in resume.of : receipt' = IF resume.newest
                    THEN [receipt EXCEPT ![m] = [link |-> resume.id, disposition |-> "admitted"]] ELSE receipt
    BY <1>7 DEF ResumeLink
  <2>2. m \in Messages /\ resume.id \in Nat /\ LinkOf(resume.id, m)
    BY <1>0 DEF ResumeOK, ResumeType
  <2>3. work' = work /\ job' = job /\ resume' = NoResume
    BY <1>7 DEF ResumeLink
  <2>4. JobsOK' /\ ResumeOK'
    BY <1>0, <2>3 DEF JobsOK, ResumeOK, NoResume, ResumeType, LinkOf
  <2>5. [link |-> resume.id, disposition |-> "admitted"] \in ReceiptType
    BY <2>2 DEF ReceiptType
  <2>6. Changed(m)
    BY <2>1, <2>2, <2>3, <2>5 DEF Changed, LinkOf
  <2> QED
    BY <2>2, <2>4, <2>6
<1> QED
  BY <1>1, <1>2, <1>3, <1>4, <1>5, <1>6, <1>7 DEF Next, PollStep, LoseStream, Source

\* What a step leaves of the rows keeps the links and the keys.
LEMMA RowsKept ==
  ASSUME work \in Seq(RowType), KeysOwn, receipt \in [Messages -> ReceiptType],
         \A m \in Messages : LinkOf(receipt[m].link, m), Quiet \/ \E m \in Messages : Changed(m)
  PROVE  /\ work' \in Seq(RowType) /\ KeysOwn' /\ receipt' \in [Messages -> ReceiptType]
         /\ (\A m \in Messages : LinkOf(receipt[m].link, m))'
<1>1. CASE Quiet
  BY <1>1, TableAmended DEF Quiet, LinkOf
<1>2. ASSUME NEW m \in Messages, Changed(m)
      PROVE  /\ work' \in Seq(RowType) /\ KeysOwn' /\ receipt' \in [Messages -> ReceiptType]
             /\ (\A n \in Messages : LinkOf(receipt[n].link, n))'
  <2>1. Grown
    BY <1>2, RowsStay DEF Changed
  <2>2. work' \in Seq(RowType) /\ KeysOwn'
    BY <1>2, TableAppended, TableAmended DEF Changed
  <2>3. \A n \in Messages : receipt[n].link # 0 => receipt[n].link \in DOMAIN work' /\ work'[receipt[n].link].of = n
    BY <2>1 DEF LinkOf, Grown
  <2>4. receipt' \in [Messages -> ReceiptType]
    BY <1>2 DEF Changed
  <2>5. \A n \in Messages : receipt'[n].link # 0 => receipt'[n].link \in DOMAIN work' /\ work'[receipt'[n].link].of = n
    BY <1>2, <2>3 DEF Changed
  <2> QED
    BY <2>2, <2>4, <2>5 DEF LinkOf
<1> QED
  BY <1>1, <1>2

LEMMA IntakeStep == IntakeInv /\ [Next]_vars => IntakeInv'
<1> SUFFICES ASSUME IntakeInv, [Next]_vars PROVE IntakeInv'
  OBVIOUS
<1>1. /\ EnvironmentOK /\ JobsOK /\ work \in Seq(RowType) /\ KeysOwn
      /\ receipt \in [Messages -> ReceiptType] /\ \A m \in Messages : LinkOf(receipt[m].link, m)
  BY InvParts
<1>2. EnvironmentOK'
  BY <1>1, EnvironmentStep
<1>3. (Quiet \/ \E m \in Messages : Changed(m)) /\ JobsOK' /\ ResumeOK'
  BY RowsStep
<1>4. /\ work' \in Seq(RowType) /\ KeysOwn' /\ receipt' \in [Messages -> ReceiptType]
      /\ (\A m \in Messages : LinkOf(receipt[m].link, m))'
  BY <1>1, <1>3, RowsKept
<1>5. (/\ EnvironmentOK /\ JobsOK /\ work \in Seq(RowType) /\ KeysOwn
       /\ receipt \in [Messages -> ReceiptType] /\ \A m \in Messages : LinkOf(receipt[m].link, m)
       /\ resume \in ResumeType /\ \A m \in resume.of : LinkOf(resume.id, m))'
  BY <1>2, <1>3, <1>4 DEF ResumeOK
<1> QED
  BY <1>5, InvParts, PTL

\* The rows are what the code can write, and a receipt's link leads to a work item of
\* its own message, though each source reads the receipt before it writes.
THEOREM IntakeTypeCorrect == Spec => []TypeOK
<1>1. IntakeInv => TypeOK
  BY DEF IntakeInv
<1> QED
  BY IntakeInit, IntakeStep, <1>1, PTL DEF Spec

-----------------------------------------------------------------------------
(* The ledger.                                                               *)

LEMMA LedgerInit == Init => Ledger!Init
<1> SUFFICES ASSUME Init PROVE Ledger!Init
  OBVIOUS
<1>1. DOMAIN work = {} /\ \A m \in Messages : receipt[m].disposition = "unseen"
  BY DEF Init, NoReceipt
<1>2. \A m \in Messages : WorkOf(m) = {}
  BY <1>1 DEF WorkOf
<1>3. Observed = {} /\ Queued = [m \in Messages |-> 0]
  BY <1>1, <1>2, FS_EmptySet DEF Observed, Queued
<1> QED
  BY <1>3 DEF Ledger!Init

\* The first work item of a message.
LEMMA EnqueueMaps ==
  ASSUME IntakeInv, NEW m \in Messages, Appended(m)
  PROVE  Queued[m] = 0 /\ Queued' = [Queued EXCEPT ![m] = 1]
<1>1. /\ \A i \in DOMAIN work : work'[i] = work[i] /\ work[i].of # m
      /\ DOMAIN work' = DOMAIN work \cup {Len(work) + 1} /\ work'[Len(work) + 1].of = m
  BY TableAppended DEF IntakeInv, TypeOK
<1>2. WorkOf(m) = {} /\ WorkOf(m)' = {Len(work) + 1}
  BY <1>1 DEF WorkOf
<1>3. \A n \in Messages \ {m} : WorkOf(n)' = WorkOf(n)
  BY <1>1 DEF WorkOf
<1>4. Cardinality({}) = 0 /\ Cardinality({Len(work) + 1}) = 1
  BY FS_EmptySet, FS_Singleton
<1> QED
  BY <1>2, <1>3, <1>4 DEF Queued

LEMMA QueuedKept ==
  ASSUME IntakeInv, Amended \/ work' = work
  PROVE  Queued' = Queued /\ \A m : WorkOf(m)' = WorkOf(m)
<1>1. DOMAIN work' = DOMAIN work /\ \A i \in DOMAIN work : work'[i].of = work[i].of
  BY TableAmended DEF IntakeInv, TypeOK
<1>2. \A m : WorkOf(m)' = WorkOf(m)
  BY <1>1 DEF WorkOf
<1> QED
  BY <1>1, <1>2 DEF Queued

\* Every step of the sources, of the store or of the operator is a step of the
\* ledger or leaves it alone.
LEMMA LedgerStep ==
  ASSUME IntakeInv, [Next]_vars
  PROVE  \/ \E m \in Messages : \/ Observed' = Observed \cup {m} /\ Queued' = Queued
                                \/ /\ Queued[m] = 0 /\ Queued' = [Queued EXCEPT ![m] = 1]
                                   /\ Observed' = Observed \cup {m}
         \/ UNCHANGED <<Observed, Queued>>
<1>0. receipt \in [Messages -> ReceiptType]
  BY DEF IntakeInv, TypeOK
<1>1. CASE Quiet
  <2>1. Queued' = Queued
    BY <1>1, QueuedKept DEF Quiet
  <2>2. Observed' = Observed
    BY <1>1, QueuedKept DEF Quiet, Observed
  <2> QED
    BY <2>1, <2>2
<1>2. ASSUME NEW m \in Messages, Changed(m), ~Quiet
      PROVE  Observed' = Observed \cup {m}
  <2>1. \A n \in Messages : n # m => receipt'[n] = receipt[n]
    BY <1>0, <1>2 DEF Changed
  <2>2. receipt' = receipt \/ receipt'[m].disposition # "unseen"
    BY <1>0, <1>2 DEF Changed
  <2>3. CASE Appended(m)
    <3>1. /\ \A i \in DOMAIN work : work'[i] = work[i] /\ work[i].of # m
          /\ DOMAIN work' = DOMAIN work \cup {Len(work) + 1} /\ work'[Len(work) + 1].of = m
      BY <2>3, TableAppended DEF IntakeInv, TypeOK
    <3>2. (m \in Observed') /\ \A n \in Messages : n # m => (n \in Observed' <=> n \in Observed)
      BY <2>1, <3>1 DEF Observed, WorkOf
    <3> QED
      BY <3>2 DEF Observed
  <2>4. CASE Amended \/ work' = work
    <3>1. (m \in Observed')
      BY <1>2, <2>2, <2>4 DEF Quiet, Observed, WorkOf
    <3>2. \A n \in Messages : n # m => (n \in Observed' <=> n \in Observed)
      BY <2>1, <2>4, QueuedKept DEF Observed, WorkOf
    <3> QED
      BY <3>1, <3>2 DEF Observed
  <2> QED
    BY <1>2, <2>3, <2>4 DEF Changed
<1>3. ASSUME NEW m \in Messages, Changed(m)
      PROVE  (Queued[m] = 0 /\ Queued' = [Queued EXCEPT ![m] = 1]) \/ Queued' = Queued
  BY <1>3, EnqueueMaps, QueuedKept DEF Changed
<1> QED
  BY <1>1, <1>2, <1>3, RowsStep

\* Intake implements its ledger: at most one work item is ever made of a message, and
\* a message that was observed stays observed (recordIntake, ResumeWork).
THEOREM IntakeKeepsLedger == Spec => LedgerKept
<1>1. IntakeInv /\ [Next]_vars => [Ledger!Next]_<<Observed, Queued>>
  BY LedgerStep DEF Ledger!Next, Ledger!Observe, Ledger!Enqueue
<1> QED
  BY IntakeInit, IntakeStep, LedgerInit, <1>1, PTL DEF Spec, LedgerKept, Ledger!Spec

-----------------------------------------------------------------------------
(* Versions.                                                                 *)

VersionsKept == \A i \in DOMAIN work : work'[i].updated < work[i].updated => work[i].blank

LEMMA UpdatedIsTime ==
  ASSUME work \in Seq(RowType) PROVE \A i \in DOMAIN work : work[i] \in RowType /\ work[i].updated \in Int
<1>1. \A i \in DOMAIN work : work[i] \in RowType
  OBVIOUS
<1>2. \A r \in RowType : r.updated \in Time \cup {Unset}
  BY DEF RowType
<1>3. Time \cup {Unset} \subseteq Int
  BY DEF Time, Unset
<1> QED
  BY <1>1, <1>2, <1>3

LEMMA VersionsStay ==
  ASSUME IntakeInv, work' = work \/ \E m \in Messages : Appended(m)
  PROVE  VersionsKept
<1>1. \A i \in DOMAIN work : work'[i] = work[i] /\ work[i].updated \in Int
  <2>1. work \in Seq(RowType) /\ KeysOwn
    BY DEF IntakeInv, TypeOK
  <2>2. \A i \in DOMAIN work : work[i].updated \in Int
    BY <2>1, UpdatedIsTime
  <2> QED
    BY <2>1, <2>2, TableAppended
<1> QED
  BY <1>1 DEF VersionsKept

\* Only a newer edit, or a first text, replaces what a work item holds.
LEMMA DuplicateVersions ==
  ASSUME IntakeInv, NEW m \in Messages, NEW found, NEW row, row.updated \in Int,
         RecordDuplicateIntake(m, found, row)
  PROVE  VersionsKept
<1>1. work \in Seq(RowType)
  BY DEF IntakeInv, TypeOK
<1>2. \A i \in DOMAIN work : work[i].updated \in Int
  BY <1>1, UpdatedIsTime
<1>3. CASE work' = work
  BY <1>3, VersionsStay
<1>4. CASE /\ NewsFor(work[found.link], row)
           /\ work' = [work EXCEPT ![found.link].updated = row.updated,
                                   ![found.link].blank = row.blank, ![found.link].due = row.due]
  <2>1. \A i \in DOMAIN work : i # found.link => work'[i] = work[i]
    BY <1>1, <1>4
  <2>2. ASSUME found.link \in DOMAIN work PROVE work'[found.link].updated = row.updated
    <3>1. work[found.link] \in RowType
      BY <1>1, <2>2
    <3> QED
      BY <1>1, <1>4, <2>2, <3>1 DEF RowType
  <2>3. row.updated > work[found.link].updated \/ work[found.link].blank
    BY <1>4 DEF NewsFor
  <2> QED
    BY <1>2, <2>1, <2>2, <2>3 DEF VersionsKept
<1> QED
  BY <1>3, <1>4 DEF RecordDuplicateIntake

LEMMA VersionStep == ASSUME IntakeInv, [Next]_vars PROVE VersionsKept
<1>0. JobsOK /\ work \in Seq(RowType)
  BY InvParts
<1>1. ASSUME NEW s \in Source, Record(s) PROVE VersionsKept
  <2>1. PICK m \in job[s].of : \E blank \in BOOLEAN : RecordIntake(s, m, job[s].found, job[s].copy[m], blank)
    BY <1>1 DEF Record
  <2>2. PICK blank \in BOOLEAN : RecordIntake(s, m, job[s].found, job[s].copy[m], blank)
    BY <2>1
  <2> DEFINE row == Row(s, m, job[s].copy[m], blank)
  <2>3. m \in Messages /\ job[s].copy[m] \in Updates
    BY <1>0 DEF JobsOK, JobType
  <2>4. row \in RowType /\ row.of = m /\ row.key = <<"message", m>>
    BY <2>3, RowTyped DEF IntakeInv
  <2>5. row.updated \in Int
    BY <2>4 DEF RowType, Time, Unset
  <2>6. \/ work' = InsertOrIgnore(row) \/ work' = work
        \/ RecordDuplicateIntake(m, job[s].found, row)
    BY <2>2 DEF RecordIntake, FirstReceipt, AdmitBackfillReceipt
  <2> HIDE DEF row
  <2>7. CASE work' = InsertOrIgnore(row) \/ work' = work
    BY <2>3, <2>4, <2>7, VersionsStay DEF InsertOrIgnore, Appended
  <2>8. CASE RecordDuplicateIntake(m, job[s].found, row)
    BY <2>3, <2>5, <2>8, DuplicateVersions
  <2> QED
    BY <2>6, <2>7, <2>8
<1>2. ASSUME NEW i \in DOMAIN work, Claim(i) PROVE VersionsKept
  <2>1. work' = [work EXCEPT ![i].status = "claimed"]
    BY <1>2 DEF Claim
  <2>2. \A n \in DOMAIN work : work'[n].updated = work[n].updated /\ work[n].updated \in Int
    <3>1. \A n \in DOMAIN work : work[n] \in RowType /\ work[n].updated \in Int
      BY <1>0, UpdatedIsTime
    <3>2. \A r \in RowType : [r EXCEPT !.status = "claimed"].updated = r.updated
      BY DEF RowType
    <3> QED
      BY <1>0, <2>1, <3>1, <3>2
  <2> QED
    BY <2>2 DEF VersionsKept
<1>3. ASSUME NEW m \in Messages, ResumeInsert(m) PROVE VersionsKept
  <2> DEFINE row == [of |-> m, key |-> DedupKey(m, "poll"), status |-> "received",
                     due |-> Unset, updated |-> Unset, blank |-> FALSE]
  <2>1. row \in RowType /\ row.of = m /\ row.key = <<"message", m>> /\ Holding(row.key) = {} /\ work' = Append(work, row)
    BY <1>3 DEF ResumeInsert, DedupKey, RowType, Unset
  <2> HIDE DEF row
  <2> QED
    BY <2>1, VersionsStay, SMTT(30) DEF Appended
<1>4. CASE \/ BeginPoll \/ ColdStart \/ SearchPoll \/ FinishPoll \/ BeginBackfill \/ Deliver \/ Stop \/ Start \/ Tick
           \/ ResumeLink \/ ResumeCrash \/ UNCHANGED vars \/ (\E m \in Messages : Send(m) \/ Edit(m))
           \/ \E s \in Source : SkipMessage(s) \/ FindReceipt(s) \/ GiveUp(s)
  <2>1. work' = work
    BY <1>4 DEF BeginPoll, ColdStart, SearchPoll, FinishPoll, BeginBackfill, Deliver, Stop, Start, Tick, ResumeLink,
                ResumeCrash, vars, Send, Edit, SkipMessage, FindReceipt, GiveUp
  <2> QED
    BY <2>1, VersionsStay
<1> QED
  BY <1>1, <1>2, <1>3, <1>4 DEF Next, PollStep, LoseStream, Source

\* A work item never goes back to an earlier version of its message, whatever the age
\* of the copies the sources hold (recordDuplicateIntake).
THEOREM VersionsAreKept == Spec => VersionsMoveForward
<1>1. IntakeInv /\ [Next]_vars => [VersionsKept]_vars
  BY VersionStep
<1> QED
  BY IntakeInit, IntakeStep, <1>1, PTL DEF Spec, VersionsMoveForward, VersionsKept

-----------------------------------------------------------------------------
(* The cursor of the poll.                                                   *)

\* What the polls have to answer for up to a time: what was sent before it since the
\* floor, and was found by searches in time, is dealt with or still in the list.
DoneUntil(t, todo) ==
    \A m \in Messages :
        (/\ Sent(m) /\ IndexedInTime(m)
         /\ message[m].created >= IntakeFloor /\ message[m].created < t - Lookback)
            => Disposed(m) \/ m \in todo

\* The poll that runs takes over from the cursor with its search, and answers for all
\* up to its own start from there on; the cursor moves only when its list is done.
PollInv ==
    /\ cursor # Unset => cursor <= now
    /\ job["poll"].pc # "idle" => job["poll"].until <= now
    /\ job["poll"].pc = "cold" => floor = job["poll"].until
    /\ job["poll"].pc \in {"search", "loop", "record"} => cursor # Unset /\ floor # Unset
    /\ job["poll"].pc = "record" => \A m \in job["poll"].of : Kept(m)
    /\ cursor # Unset => DoneUntil(cursor, {})
    /\ job["poll"].pc \in {"loop", "record"} => DoneUntil(job["poll"].until, job["poll"].todo)

\* No step takes a message, its times or what was recorded of it away, and what is
\* sent is sent at its time.
Steady ==
    /\ now \in Nat /\ now' \in Nat /\ now <= now'
    /\ offered \subseteq offered'
    /\ \A m \in Messages :
         /\ Sent(m) => /\ message'[m].sort = message[m].sort /\ message'[m].created = message[m].created
                       /\ message'[m].indexed = message[m].indexed
         /\ ~Sent(m) /\ Sent(m)' => message'[m].created = now
         /\ receipt[m].disposition # "unseen" => receipt'[m].disposition # "unseen"

LEMMA SteadyStep == ASSUME IntakeInv, IntakeInv', [Next]_vars PROVE Steady
<1>0. now \in Time /\ now' \in Time /\ message \in [Messages -> MessageType] /\ receipt \in [Messages -> ReceiptType]
  BY DEF IntakeInv, TypeOK, MessageType, Updates
<1>1. now \in Nat /\ now' \in Nat
  BY <1>0, IntakeParameters DEF Time
<1>2. \A m \in Messages : receipt[m].disposition # "unseen" => receipt'[m].disposition # "unseen"
  BY <1>0, RowsStep DEF Quiet, Changed
<1>3. ASSUME NEW m \in Messages, Send(m) PROVE Steady
  <2>1. ~Sent(m) /\ UNCHANGED <<now, offered>>
    BY <1>3 DEF Send
  <2>2. message'[m].created = now /\ \A n \in Messages : n # m => message'[n] = message[n]
    BY <1>0, <1>3 DEF Send
  <2> QED
    BY <1>1, <1>2, <2>1, <2>2 DEF Steady, Sent
<1>4. ASSUME NEW m \in Messages, Edit(m) PROVE Steady
  <2>1. message' = [message EXCEPT ![m].updated = now] /\ UNCHANGED <<now, offered>>
    BY <1>4 DEF Edit
  <2>2. \A n \in Messages : /\ message'[n].sort = message[n].sort /\ message'[n].created = message[n].created
                            /\ message'[n].indexed = message[n].indexed
    BY <1>0, <2>1 DEF MessageType
  <2> QED
    BY <1>1, <1>2, <2>1, <2>2 DEF Steady, Sent
<1>5. ASSUME UNCHANGED message, now <= now', offered \subseteq offered' PROVE Steady
  BY <1>1, <1>2, <1>5 DEF Steady, Sent
<1>6. CASE Tick
  BY <1>1, <1>5, <1>6 DEF Tick
<1>7. ASSUME NEW s \in Source, SkipMessage(s) \/ FindReceipt(s) \/ GiveUp(s) \/ Record(s) PROVE Steady
  <2>1. UNCHANGED <<now, message>> /\ offered \subseteq offered'
    BY <1>7 DEF SkipMessage, FindReceipt, GiveUp, Record
  <2> QED
    BY <1>1, <1>5, <2>1
<1>8. CASE \/ BeginPoll \/ ColdStart \/ SearchPoll \/ FinishPoll \/ BeginBackfill \/ Deliver \/ Stop \/ Start
           \/ ResumeLink \/ ResumeCrash \/ (\E m \in Messages : ResumeInsert(m)) \/ (\E i \in DOMAIN work : Claim(i))
           \/ UNCHANGED vars
  <2>1. UNCHANGED <<now, message, offered>>
    BY <1>8 DEF BeginPoll, ColdStart, SearchPoll, FinishPoll, BeginBackfill, Deliver, Stop, Start, ResumeLink,
                ResumeCrash, ResumeInsert, Claim, vars
  <2> QED
    BY <1>1, <1>5, <2>1
<1> QED
  BY <1>3, <1>4, <1>6, <1>7, <1>8 DEF Next, PollStep, LoseStream, Source

LEMMA Times ==
  ASSUME IntakeInv
  PROVE  /\ now \in Nat /\ (cursor # Unset => cursor \in Nat) /\ (floor # Unset => floor \in Nat)
         /\ job \in [Source -> JobType] /\ job["poll"].until \in Nat
         /\ \A m \in Messages : message[m].created \in Nat /\ message[m].indexed \in Nat
         /\ Lookback \in Nat /\ Second \in Nat \ {0} /\ Lookback >= Second
<1>1. Time \subseteq Nat
  BY IntakeParameters DEF Time
<1>2. job \in [Source -> JobType] /\ "poll" \in Source
  BY DEF IntakeInv, TypeOK, JobType, Updates, Source
<1> QED
  BY <1>1, <1>2, IntakeParameters DEF IntakeInv, TypeOK, JobType

LEMMA SentTimes == ASSUME IntakeInv' PROVE \A m \in Messages : message'[m].created \in Nat
<1>1. Time \subseteq Nat
  BY IntakeParameters DEF Time
<1> QED
  BY <1>1 DEF IntakeInv, TypeOK

\* What counts for a time that is not to come counted before, and stays dealt with.
LEMMA StaysDone ==
  ASSUME IntakeInv, IntakeInv', Steady, IntakeFloor' = IntakeFloor, NEW t \in Nat, t <= now, NEW m \in Messages,
         Sent(m)', IndexedInTime(m)', message'[m].created >= IntakeFloor', message'[m].created < t - Lookback
  PROVE  /\ Sent(m) /\ IndexedInTime(m) /\ message[m].created >= IntakeFloor /\ message[m].created < t - Lookback
         /\ Disposed(m) => Disposed(m)'
<1>1. Sent(m)
  <2>1. message'[m].created \in Nat /\ Lookback \in Nat /\ now \in Nat
    BY Times, SentTimes
  <2>2. message'[m].created # now
    BY <2>1
  <2> QED
    BY <2>2 DEF Steady
<1>2. message'[m].sort = message[m].sort /\ message'[m].created = message[m].created /\ message'[m].indexed = message[m].indexed
  BY <1>1 DEF Steady
<1> QED
  BY <1>1, <1>2 DEF Steady, IndexedInTime, Disposed, Kept

LEMMA CursorStays ==
  ASSUME IntakeInv, IntakeInv', Steady, PollInv, UNCHANGED <<cursor, IntakeFloor>>
  PROVE  cursor # Unset => cursor' <= now' /\ DoneUntil(cursor, {})'
<1> SUFFICES ASSUME cursor # Unset PROVE cursor' <= now' /\ DoneUntil(cursor, {})'
  OBVIOUS
<1>1. PICK t \in Nat : t = cursor /\ t <= now
  BY Times DEF PollInv
<1>2. DoneUntil(t, {})
  BY <1>1 DEF PollInv
<1>3. ASSUME NEW m \in Messages, Sent(m)', IndexedInTime(m)', message'[m].created >= IntakeFloor', message'[m].created < t - Lookback
      PROVE  Disposed(m)'
  BY <1>1, <1>2, <1>3, StaysDone DEF DoneUntil
<1> QED
  BY <1>1, <1>3 DEF DoneUntil, Steady

\* A step of the others: the poll is where it was.
LEMMA PollRests ==
  ASSUME IntakeInv, IntakeInv', Steady, PollInv, UNCHANGED <<cursor, floor>>, job'["poll"] = job["poll"]
  PROVE  PollInv'
<1>1. IntakeFloor' = IntakeFloor /\ now \in Nat /\ now' \in Nat /\ now <= now'
  BY DEF IntakeFloor, Steady
<1>2. job["poll"].pc \in {"loop", "record"} => DoneUntil(job["poll"].until, job["poll"].todo)'
  <2> SUFFICES ASSUME job["poll"].pc \in {"loop", "record"} PROVE DoneUntil(job["poll"].until, job["poll"].todo)'
    OBVIOUS
  <2>1. PICK t \in Nat : t = job["poll"].until /\ t <= now
    BY Times DEF PollInv
  <2>2. PICK todo : todo = job["poll"].todo
    OBVIOUS
  <2>3. DoneUntil(t, todo)
    BY <2>1, <2>2 DEF PollInv
  <2>4. ASSUME NEW m \in Messages, Sent(m)', IndexedInTime(m)', message'[m].created >= IntakeFloor', message'[m].created < t - Lookback
        PROVE  Disposed(m)' \/ m \in todo
    BY <1>1, <2>1, <2>3, <2>4, StaysDone DEF DoneUntil
  <2> QED
    BY <2>1, <2>2, <2>4 DEF DoneUntil
<1>3. cursor # Unset => cursor' <= now' /\ DoneUntil(cursor, {})'
  BY <1>1, CursorStays
<1>4. job["poll"].pc # "idle" => job'["poll"].until <= now'
  <2>1. job["poll"].until \in Nat
    BY Times
  <2> QED
    BY <1>1, <2>1 DEF PollInv
<1>5. job["poll"].pc = "record" => \A m \in job["poll"].of : Kept(m)'
  <2>1. \A m \in Messages : Kept(m) => Kept(m)'
    BY DEF Steady, Kept, Sent, Recorded
  <2>2. job["poll"].of \subseteq Messages
    BY Times DEF JobType, Source
  <2> QED
    BY <2>1, <2>2 DEF PollInv
<1> QED
  BY <1>2, <1>3, <1>4, <1>5 DEF PollInv

\* The poll ends or has not searched yet.
LEMMA PollAtRest ==
  ASSUME IntakeInv, IntakeInv', Steady, PollInv, UNCHANGED <<cursor, IntakeFloor>>,
         \/ job'["poll"].pc = "idle"
         \/ job'["poll"].pc = "search" /\ job'["poll"].until = now /\ cursor # Unset /\ floor' # Unset
  PROVE  PollInv'
<1>1. now <= now'
  BY DEF Steady
<1> QED
  BY <1>1, CursorStays DEF PollInv

LEMMA BeginPollKeeps == ASSUME IntakeInv, IntakeInv', Steady, PollInv, BeginPoll PROVE PollInv'
<1>1. job \in [Source -> JobType] /\ "poll" \in Source /\ now' = now /\ now \in Nat /\ floor' # Unset
  BY Times DEF BeginPoll, Source, Unset
<1>2. CASE cursor = Unset /\ floor' = now
           /\ job' = [job EXCEPT !["poll"].pc = "cold", !["poll"].until = now] /\ UNCHANGED cursor
  <2>1. job'["poll"].pc = "cold" /\ job'["poll"].until = now
    BY <1>1, <1>2 DEF JobType
  <2> QED
    BY <1>1, <1>2, <2>1 DEF PollInv
<1>3. CASE cursor # Unset /\ floor' = (IF floor = Unset THEN cursor ELSE floor)
           /\ job' = [job EXCEPT !["poll"].pc = "search", !["poll"].until = now] /\ UNCHANGED cursor
  <2>1. job'["poll"].pc = "search" /\ job'["poll"].until = now
    BY <1>1, <1>3 DEF JobType
  <2>2. IntakeFloor' = IntakeFloor
    BY <1>3 DEF IntakeFloor
  <2> QED
    BY <1>1, <1>3, <2>1, <2>2, PollAtRest
<1> QED
  BY <1>2, <1>3 DEF BeginPoll

\* The first poll: the floor is where the cursor is put.
LEMMA ColdStartKeeps == ASSUME IntakeInv, IntakeInv', Steady, PollInv, ColdStart PROVE PollInv'
<1>1. job["poll"].pc = "cold" /\ cursor' = floor' /\ floor' = floor /\ now' = now /\ floor <= now
  BY DEF ColdStart, PollInv
<1>2. job'["poll"] = NoJob
  BY Times DEF ColdStart, Idle, Source
<1>3. \A m \in Messages : ~(message'[m].created >= IntakeFloor' /\ message'[m].created < cursor' - Lookback)
  <2>1. floor \in Nat /\ \A m \in Messages : message'[m].created \in Nat
    BY <1>1, Times, SentTimes DEF PollInv
  <2>2. IntakeFloor' = floor /\ cursor' = floor /\ Lookback \in Nat
    BY <1>1, <2>1, Times DEF IntakeFloor
  <2> QED
    BY <2>1, <2>2
<1> QED
  BY <1>1, <1>2, <1>3 DEF PollInv, DoneUntil, NoJob

\* What the last poll has not answered for is in the window of this one.
LEMMA SearchPollKeeps == ASSUME IntakeInv, IntakeInv', Steady, PollInv, SearchPoll PROVE PollInv'
<1> DEFINE todo == PollWindow(job["poll"].until)
<1>1. /\ job["poll"].pc = "search" /\ UNCHANGED <<now, message, cursor, floor, receipt, offered>>
      /\ cursor # Unset /\ floor # Unset /\ IntakeFloor = floor /\ job["poll"].until <= now
  BY DEF SearchPoll, PollInv, IntakeFloor
<1>2. job'["poll"].pc = "loop" /\ job'["poll"].todo = todo /\ job'["poll"].until = job["poll"].until
  <2>1. job' = [job EXCEPT !["poll"].pc = "loop", !["poll"].todo = todo, !["poll"].copy = Copies("poll", todo)]
    BY DEF SearchPoll
  <2> HIDE DEF todo
  <2> QED
    BY <2>1, Times DEF Source, JobType
<1>3. PICK t \in Nat : t = job["poll"].until
  BY Times
<1>4. \A n \in Nat : Floored(n) \in Int /\ Floored(n) <= n /\ n < Floored(n) + Second
  BY Times DEF Floored
<1>5. ASSUME NEW m \in Messages, Sent(m), IndexedInTime(m), message[m].created >= floor, message[m].created < t - Lookback
      PROVE  Disposed(m) \/ m \in todo
  <2>1. CASE message[m].created < cursor - Lookback
    BY <1>1, <1>5, <2>1 DEF PollInv, DoneUntil
  <2>2. CASE ~(message[m].created < cursor - Lookback)
    <3>1. cursor \in Nat /\ floor \in Nat /\ now \in Nat /\ message[m].created \in Nat /\ message[m].indexed \in Nat
          /\ Lookback \in Nat /\ Second \in Nat /\ Lookback >= Second
      BY <1>1, Times
    <3>2. QueryStart \in Nat /\ QueryStart <= message[m].created
      BY <1>5, <2>2, <3>1 DEF QueryStart, Later
    <3>3. Floored(QueryStart) <= message[m].created
      BY <1>4, <3>1, <3>2
    <3>4. message[m].created <= Floored(t)
      <4>1. Floored(t) \in Int /\ t < Floored(t) + Second
        BY <1>4
      <4> QED
        BY <1>5, <3>1, <4>1
    <3>5. message[m].indexed <= now
      BY <1>1, <1>3, <1>5, <3>1 DEF IndexedInTime
    <3> QED
      BY <1>3, <1>5, <3>3, <3>4, <3>5 DEF PollWindow, Indexed
  <2> QED
    BY <2>1, <2>2
<1>6. DoneUntil(t, todo)
  BY <1>1, <1>5 DEF DoneUntil
<1>7. (cursor # Unset => cursor' <= now' /\ DoneUntil(cursor, {})')
  BY <1>1, CursorStays DEF IntakeFloor
<1>8. DoneUntil(job["poll"].until, job["poll"].todo)'
  BY <1>1, <1>2, <1>3, <1>6 DEF DoneUntil, Sent, IndexedInTime, IntakeFloor, Disposed, Kept
<1> HIDE DEF todo
<1> QED
  BY <1>1, <1>2, <1>7, <1>8 DEF PollInv

\* One message is taken off the list, and dealt with.
LEMMA DisposingKeeps ==
  ASSUME IntakeInv, IntakeInv', Steady, PollInv, UNCHANGED <<cursor, floor>>, job["poll"].pc \in {"loop", "record"},
         NEW m \in Messages, Disposing("poll", m), Disposed(m)' \/ ~Sent(m)
  PROVE  PollInv'
<1>1. IntakeFloor' = IntakeFloor /\ now \in Nat /\ now' \in Nat /\ now <= now'
  BY DEF IntakeFloor, Steady
<1>2. /\ job'["poll"].pc = "loop" /\ job'["poll"].until = job["poll"].until
      /\ job'["poll"].todo = job["poll"].todo \ {m}
  BY Times DEF Disposing, JobType, Source
<1>3. PICK t \in Nat : t = job["poll"].until /\ t <= now
  BY Times DEF PollInv
<1>4. PICK todo : todo = job["poll"].todo
  OBVIOUS
<1>5. DoneUntil(t, todo)
  BY <1>3, <1>4 DEF PollInv
<1>6. ASSUME NEW n \in Messages, Sent(n)', IndexedInTime(n)', message'[n].created >= IntakeFloor', message'[n].created < t - Lookback
      PROVE  Disposed(n)' \/ n \in todo \ {m}
  BY <1>1, <1>3, <1>5, <1>6, StaysDone DEF DoneUntil
<1>7. DoneUntil(job["poll"].until, job["poll"].todo)'
  BY <1>2, <1>3, <1>4, <1>6 DEF DoneUntil
<1>8. (cursor # Unset => cursor' <= now' /\ DoneUntil(cursor, {})')
  BY <1>1, CursorStays
<1> QED
  BY <1>1, <1>2, <1>3, <1>7, <1>8 DEF PollInv

LEMMA SkipKeeps == ASSUME IntakeInv, IntakeInv', Steady, PollInv, SkipMessage("poll") PROVE PollInv'
<1>1. PICK m \in job["poll"].todo :
        /\ ~Kept(m) /\ Disposing("poll", m)
        /\ offered' = IF message[m].sort = "application" THEN offered \cup {m} ELSE offered
  BY DEF SkipMessage
<1>2. m \in Messages
  BY Times DEF JobType, Source
<1>3. Disposed(m)'
  BY <1>1 DEF SkipMessage, Disposed, Kept
<1> QED
  BY <1>1, <1>2, <1>3, DisposingKeeps DEF SkipMessage

LEMMA RecordKeeps == ASSUME IntakeInv, IntakeInv', Steady, PollInv, Record("poll") PROVE PollInv'
<1>1. PICK m \in job["poll"].of : \E blank \in BOOLEAN :
        RecordIntake("poll", m, job["poll"].found, job["poll"].copy[m], blank) /\ Disposing("poll", m)
  BY DEF Record
<1>2. job["poll"] \in JobType /\ m \in Messages /\ "poll" \in Source
  BY Times DEF JobType, Source
<1>3. receipt'[m].disposition # "unseen"
  <2>1. PICK blank \in BOOLEAN : RecordIntake("poll", m, job["poll"].found, job["poll"].copy[m], blank)
    BY <1>1
  <2>2. job["poll"].found \in ReceiptType /\ job["poll"].copy[m] \in Updates /\ LinkOf(job["poll"].found.link, m)
    BY <1>2 DEF JobType, IntakeInv, HeldOwn
  <2>3. PICK r \in ReceiptType : receipt' = [receipt EXCEPT ![m] = r] /\ r.disposition # "unseen"
    BY <1>2, <2>1, <2>2, RecordStep
  <2> QED
    BY <1>2, <2>3 DEF IntakeInv, TypeOK
<1>4. Kept(m) /\ message' = message /\ job["poll"].pc = "record" /\ UNCHANGED <<cursor, floor>>
  BY DEF Record, PollInv
<1>5. Disposed(m)'
  BY <1>3, <1>4 DEF Disposed, Kept, Recorded
<1> QED
  BY <1>1, <1>2, <1>4, <1>5, DisposingKeeps

LEMMA FindKeeps == ASSUME IntakeInv, IntakeInv', Steady, PollInv, FindReceipt("poll") PROVE PollInv'
<1>1. PICK m \in job["poll"].todo :
        Kept(m) /\ job' = [job EXCEPT !["poll"].pc = "record", !["poll"].of = {m}, !["poll"].found = receipt[m]]
  BY DEF FindReceipt
<1>2. /\ job'["poll"].pc = "record" /\ job'["poll"].of = {m} /\ job'["poll"].until = job["poll"].until
      /\ job'["poll"].todo = job["poll"].todo
  BY <1>1, Times DEF Source, JobType
<1>3. job["poll"].pc = "loop" /\ UNCHANGED <<now, message, cursor, floor, receipt, offered>>
  BY DEF FindReceipt
<1>4. IntakeFloor' = IntakeFloor /\ Kept(m)'
  BY <1>1, <1>3 DEF IntakeFloor, Kept
<1>5. DoneUntil(job["poll"].until, job["poll"].todo)'
  BY <1>2, <1>3, <1>4 DEF PollInv, DoneUntil, Sent, IndexedInTime, Disposed, Kept
<1>6. (cursor # Unset => cursor' <= now' /\ DoneUntil(cursor, {})')
  BY <1>3, <1>4, CursorStays
<1> QED
  BY <1>2, <1>3, <1>4, <1>5, <1>6 DEF PollInv

\* The list is done: the cursor moves up to the time that was answered for.
LEMMA FinishKeeps == ASSUME IntakeInv, IntakeInv', Steady, PollInv, FinishPoll PROVE PollInv'
<1>1. /\ job["poll"].pc = "loop" /\ job["poll"].todo = {} /\ cursor' = job["poll"].until
      /\ UNCHANGED <<now, message, floor, receipt, offered>>
  BY DEF FinishPoll
<1>2. job'["poll"] = NoJob
  BY Times DEF FinishPoll, Idle, Source
<1>3. floor # Unset /\ IntakeFloor' = IntakeFloor
  BY <1>1 DEF PollInv, IntakeFloor
<1>4. DoneUntil(cursor, {})'
  BY <1>1, <1>3 DEF PollInv, DoneUntil, Sent, IndexedInTime, Disposed, Kept
<1> QED
  BY <1>1, <1>2, <1>4 DEF PollInv, NoJob

LEMMA PollInit == Init => PollInv
<1> SUFFICES ASSUME Init PROVE PollInv
  OBVIOUS
<1>1. job["poll"].pc = "idle" /\ cursor \in {Unset, 0} /\ now = 0 /\ \A m \in Messages : ~Sent(m)
  BY DEF Init, NoJob, Source, Sent, Unsent
<1> QED
  BY <1>1 DEF PollInv, DoneUntil

LEMMA PollInvStep == ASSUME IntakeInv, PollInv, [Next]_vars PROVE PollInv'
<1>0. IntakeInv' /\ job \in [Source -> JobType] /\ "poll" \in Source /\ "backfill" \in Source /\ "realtime" \in Source
  BY IntakeStep, Times DEF Source
<1>1. Steady
  BY <1>0, SteadyStep
<1>2. CASE GiveUp("poll") \/ Stop
  <2>1. job'["poll"] = NoJob /\ UNCHANGED <<cursor, floor>>
    BY <1>0, <1>2 DEF GiveUp, Idle, Stop
  <2> QED
    BY <1>0, <1>1, <2>1, PollAtRest DEF NoJob, IntakeFloor
<1>3. ASSUME NEW s \in {"backfill", "realtime"}, SkipMessage(s) \/ FindReceipt(s) \/ Record(s) \/ GiveUp(s) PROVE PollInv'
  <2>1. job'["poll"] = job["poll"] /\ UNCHANGED <<cursor, floor>>
    BY <1>0, <1>3 DEF SkipMessage, FindReceipt, Record, GiveUp, Idle, Disposing
  <2> QED
    BY <1>0, <1>1, <2>1, PollRests
<1>4. CASE \/ BeginBackfill \/ Deliver \/ Start \/ Tick \/ ResumeLink \/ ResumeCrash \/ UNCHANGED vars
           \/ (\E m \in Messages : ResumeInsert(m) \/ Send(m) \/ Edit(m)) \/ (\E i \in DOMAIN work : Claim(i))
  <2>1. job'["poll"] = job["poll"] /\ UNCHANGED <<cursor, floor>>
    BY <1>0, <1>4 DEF BeginBackfill, Deliver, Start, Tick, ResumeLink, ResumeCrash, ResumeInsert, Send, Edit, Claim, vars
  <2> QED
    BY <1>0, <1>1, <2>1, PollRests
<1> QED
  BY <1>0, <1>1, <1>2, <1>3, <1>4, BeginPollKeeps, ColdStartKeeps, SearchPollKeeps, SkipKeeps, FindKeeps, RecordKeeps,
     FinishKeeps
  DEF Next, PollStep, LoseStream

\* The cursor never passes a message by that Lark made searchable within the lookback,
\* for any length of it, of the second and of the clock, however many polls fail and
\* whenever the process dies (Poller.Poll).
THEOREM CursorPassesNothing == Spec => []NothingSlipsPast
<1>1. IntakeInv /\ PollInv /\ [Next]_vars => (IntakeInv /\ PollInv)'
  BY IntakeStep, PollInvStep
<1>2. PollInv => NothingSlipsPast
  BY DEF PollInv, DoneUntil, NothingSlipsPast
<1> QED
  BY IntakeInit, PollInit, <1>1, <1>2, PTL DEF Spec
=============================================================================
