------------------------- MODULE OwnerControlProofs -------------------------
(***************************************************************************)
(* A command message changes the store once and is answered for what was   *)
(* done, what stopped has a command that takes effect, and what was        *)
(* acknowledged rests: for any works, drafts, messages and commands.       *)
(***************************************************************************)
EXTENDS OwnerControl, WorkStoreProofs

Texts == {"", "applied", "refused", "ambiguous", "report"}
AskType == [pc : {"unsent", "queued", "plain", "claimed", "handled", "begun", "answered", "chat", "done", "dead"},
            plain : BOOLEAN, command : OwnerCommands \cup {NoCommand},
            text : Texts, told : Texts, replied : BOOLEAN]

\* A message is journalled when its command is committed, and only then.
JournalInv ==
    /\ applied \in [Asks -> {0, 1}]
    /\ \A a \in Asks : a \notin journal => applied[a] = 0

\* What is about to be said, or was said, of a message: "applied" of a journalled one
\* only, "ambiguous" of plain words only, and of a slash command "report" only if it
\* is one, which is never journalled.
RowOK(row, journalled) ==
    /\ row.pc = "unsent" => row.text = "" /\ row.told = "" /\ ~journalled
    /\ row.pc = "plain" => row.plain
    /\ row.text = "applied" \/ row.told = "applied" => journalled
    /\ row.text = "ambiguous" \/ row.told = "ambiguous" => row.plain
    /\ journalled /\ ~row.plain => row.text # "report" /\ row.told # "report" /\ row.command \notin Reports
    /\ ~row.plain /\ (row.text = "report" \/ row.told = "report") =>
            row.command \in Reports \/ row.pc \in {"chat", "done", "dead"}
    /\ row.pc = "handled" => row.text # ""
    /\ row.replied => row.told # ""
    /\ row.pc \in {"answered", "done"} => row.told # ""
    /\ row.pc = "begun" => row.text # ""

AnswerInv ==
    /\ ask \in [Asks -> AskType]
    /\ \A a \in Asks : RowOK(ask[a], a \in journal)

-----------------------------------------------------------------------------
(* The shape of the steps.                                                   *)

Jobs == {"idle", "claimed", "asked", "consumed", "begun", "recorded", "refused", "staging",
         "staged", "investigating", "drafted", "deferring", "failed", "closing"}
Phases == {"down", "starting", "recovering", "recovered", "ready", "flushing", "telling",
           "running"}

LEMMA WorkAdvances ==
  ASSUME NEW w \in Works, WorkStep(w)
  PROVE  daemon = "running" /\ \E pc \in Jobs : Advance(w, pc)
<1>1. CASE Claim(w) \/ Propose(w) \/ Park(w) \/ Consume(w)
  BY <1>1 DEF Claim, Propose, Park, Consume, Fresh, Working, Serving, Jobs
<1>2. CASE Begin(w) \/ Record(w) \/ Settle(w) \/ Finish(w)
  BY <1>2 DEF Begin, Record, Settle, Finish, Fresh, Working, Serving, Jobs
<1>3. CASE Inquire(w) \/ Stage(w) \/ Draft(w) \/ Hold(w)
  BY <1>3 DEF Inquire, Stage, Draft, Hold, Fresh, Working, Serving, Jobs
<1>4. CASE Defer(w) \/ Fail(w) \/ Yield(w) \/ Close(w)
  BY <1>4 DEF Defer, Fail, Failing, Yield, Close, Working, Serving, Jobs
<1> QED
  BY <1>1, <1>2, <1>3, <1>4 DEF WorkStep

LEMMA DaemonPhases == DaemonStep => \E pc \in Phases : Phase(pc)
  BY DEF DaemonStep, Start, List, Interrupt, MarkReady, Converge, Flushed, Online, Crash, Phases

LEMMA NoticesTell == NoticeStep => Telling /\ UNCHANGED daemon
  BY DEF NoticeStep, Told, Tell, Retell

-----------------------------------------------------------------------------
(* The journal.                                                              *)

LEMMA JournalInit == Init => JournalInv
  BY DEF Init, JournalInv

LEMMA JournalStep == JournalInv /\ [Next]_vars => JournalInv'
<1> SUFFICES ASSUME JournalInv, [Next]_vars PROVE JournalInv'
  OBVIOUS
<1>1. ASSUME UNCHANGED <<journal, applied>> PROVE JournalInv'
  BY <1>1 DEF JournalInv
<1>2. ASSUME NEW a \in Asks, Handle(a) PROVE JournalInv'
  <2>1. CASE UNCHANGED <<journal, applied>>
    BY <1>1, <2>1
  <2>2. CASE a \notin journal /\ journal' = journal \cup {a} /\ applied' = [applied EXCEPT ![a] = @ + 1]
    BY <2>2 DEF JournalInv
  <2> QED
    BY <1>2, <2>1, <2>2 DEF Handle, only
<1>3. ASSUME NEW a \in Asks, Ask(a) \/ ClaimAsk(a) \/ ResolvePlain(a) \/ BeginAnswer(a) \/ Deliver(a)
                             \/ RecordAnswer(a) \/ CloseAsk(a)
      PROVE  UNCHANGED <<journal, applied>>
  BY <1>3 DEF Ask, ClaimAsk, ResolvePlain, BeginAnswer, Deliver, RecordAnswer, CloseAsk, Goto, only
<1>4. ASSUME NEW w \in Works, WorkStep(w) PROVE UNCHANGED <<journal, applied>>
  BY <1>4, WorkAdvances DEF Advance
<1>5. CASE DaemonStep \/ NoticeStep \/ Cli
  BY <1>1, <1>5, DaemonPhases, NoticesTell DEF Phase, Telling, Cli
<1>6. CASE UNCHANGED vars
  BY <1>1, <1>6 DEF vars, ownerVars
<1> QED
  BY <1>1, <1>2, <1>3, <1>4, <1>5, <1>6 DEF Next, AskStep

\* One message changes the store at most once, however often it is claimed again or
\* read anew (ExecuteOwnerMutation).
THEOREM CommandsApplyOnce == Spec => []AppliedOnce
<1>1. JournalInv => AppliedOnce
  BY DEF JournalInv, AppliedOnce
<1> QED
  BY JournalInit, JournalStep, <1>1, PTL DEF Spec

-----------------------------------------------------------------------------
(* The answers.                                                              *)

LEMMA AnswerInit == Init => AnswerInv
<1> SUFFICES ASSUME Init PROVE AnswerInv
  OBVIOUS
<1> DEFINE row == [pc |-> "unsent", plain |-> FALSE, command |-> NoCommand, text |-> "", told |-> "", replied |-> FALSE]
<1>1. ask = [a \in Asks |-> row] /\ journal = {}
  BY DEF Init
<1>2. row \in AskType
  BY DEF AskType, Texts
<1>3. \A a \in Asks : RowOK(row, a \in journal)
  BY <1>1 DEF RowOK
<1> HIDE DEF row
<1>4. \A a \in Asks : ask[a] = row
  BY <1>1
<1>5. \A a \in Asks : RowOK(ask[a], a \in journal)
  BY <1>3, <1>4 DEF RowOK
<1> QED
  BY <1>1, <1>2, <1>5 DEF AnswerInv

\* A step that writes the row of one message.
LEMMA OneRow ==
  ASSUME AnswerInv, NEW a \in Asks, NEW row \in AskType, ask' = [ask EXCEPT ![a] = row],
         journal' = journal \/ journal' = journal \cup {a}, RowOK(row, a \in journal')
  PROVE  AnswerInv'
<1>1. ask' \in [Asks -> AskType]
  BY DEF AnswerInv
<1>2. ASSUME NEW b \in Asks PROVE RowOK(ask'[b], b \in journal')
  <2>1. CASE b = a
    BY <2>1 DEF AnswerInv
  <2>2. CASE b # a
    <3>1. ask'[b] = ask[b] /\ (b \in journal' <=> b \in journal)
      BY <2>2 DEF AnswerInv
    <3>2. RowOK(ask[b], b \in journal)
      BY DEF AnswerInv
    <3> QED
      BY <3>1, <3>2 DEF RowOK
  <2> QED
    BY <2>1, <2>2
<1> QED
  BY <1>1, <1>2 DEF AnswerInv

\* A row that is claimed again forgets its text, and its command if that was read
\* from plain words.
LEMMA RowRequeued ==
  ASSUME AnswerInv, NEW a \in Asks, ask[a].pc \notin {"unsent", "chat", "done", "dead"},
         NEW q, q = Requeued(a)
  PROVE  q \in AskType /\ RowOK(q, a \in journal)
<1> DEFINE c == IF ask[a].plain THEN NoCommand ELSE ask[a].command
<1>1. ask[a] \in AskType /\ RowOK(ask[a], a \in journal)
  BY DEF AnswerInv
<1>2. q = [ask[a] EXCEPT !.pc = "queued", !.text = "", !.command = c]
  BY DEF Requeued
<1>3. c \in OwnerCommands \cup {NoCommand} /\ (c # ask[a].command => ask[a].plain)
  BY <1>1 DEF AskType
<1>4. q \in AskType
  BY <1>1, <1>2, <1>3 DEF AskType, Texts
<1>5. q.pc = "queued" /\ q.text = "" /\ q.command = c /\ q.plain = ask[a].plain
      /\ q.told = ask[a].told /\ q.replied = ask[a].replied
  BY <1>1, <1>2 DEF AskType
<1> HIDE DEF c
<1> QED
  BY <1>1, <1>3, <1>4, <1>5 DEF RowOK

\* A row that is over: a conversation, answered, or dead.
LEMMA RowOver ==
  ASSUME AnswerInv, NEW a \in Asks, NEW pc \in {"chat", "done", "dead"},
         pc = "done" => ask[a].pc = "answered", NEW q, q = Over(a, pc)
  PROVE  q \in AskType /\ RowOK(q, a \in journal)
<1>1. ask[a] \in AskType /\ RowOK(ask[a], a \in journal)
  BY DEF AnswerInv
<1>2. q \in AskType
  BY <1>1 DEF Over, AskType, Texts
<1>3. q.pc = pc /\ q.text = "" /\ q.command = NoCommand /\ q.plain = ask[a].plain
      /\ q.told = ask[a].told /\ q.replied = ask[a].replied
  BY <1>1 DEF Over, AskType
<1>4. NoCommand \notin Reports
  BY DEF NoCommand, Reports
<1> QED
  BY <1>1, <1>2, <1>3, <1>4 DEF RowOK

LEMMA AnswerStep == AnswerInv /\ [Next]_vars => AnswerInv'
<1> SUFFICES ASSUME AnswerInv, [Next]_vars PROVE AnswerInv'
  OBVIOUS
<1>1. ASSUME UNCHANGED <<ask, journal>> PROVE AnswerInv'
  BY <1>1 DEF AnswerInv
<1>2. \A a \in Asks : ask[a] \in AskType /\ RowOK(ask[a], a \in journal)
  BY DEF AnswerInv
<1>3. NoCommand \notin Reports
  BY DEF NoCommand, Reports
<1>4. ASSUME NEW a \in Asks, Ask(a) PROVE AnswerInv'
  <2>1. ask[a].pc = "unsent" /\ journal' = journal
    BY <1>4 DEF Ask, only
  <2>2. PICK row : /\ ask' = [ask EXCEPT ![a] = row]
                   /\ \/ \E c \in OwnerCommands : row = [ask[a] EXCEPT !.pc = "queued", !.command = c]
                      \/ row = [ask[a] EXCEPT !.pc = "queued", !.plain = TRUE]
    BY <1>4 DEF Ask, Set
  <2>3. row \in AskType /\ RowOK(row, a \in journal)
    BY <1>2, <2>1, <2>2 DEF AskType, Texts, RowOK
  <2> QED
    BY <2>1, <2>2, <2>3, OneRow
<1>5. ASSUME NEW a \in Asks, ClaimAsk(a) PROVE AnswerInv'
  <2>1. journal' = journal /\ ask[a].pc = "queued" /\
        ask' = [ask EXCEPT ![a] = [ask[a] EXCEPT !.pc = IF ask[a].plain THEN "plain" ELSE "claimed"]]
    BY <1>5 DEF ClaimAsk, Goto, Set, At, only
  <2>2. CASE ask[a].plain
    <3>1. [ask[a] EXCEPT !.pc = "plain"] \in AskType /\ RowOK([ask[a] EXCEPT !.pc = "plain"], a \in journal)
      BY <1>2, <2>1, <2>2 DEF AskType, Texts, RowOK
    <3> QED
      BY <2>1, <2>2, <3>1, OneRow
  <2>3. CASE ~ask[a].plain
    <3>1. [ask[a] EXCEPT !.pc = "claimed"] \in AskType /\ RowOK([ask[a] EXCEPT !.pc = "claimed"], a \in journal)
      BY <1>2, <2>1, <2>3 DEF AskType, Texts, RowOK
    <3> QED
      BY <2>1, <2>3, <3>1, OneRow
  <2> QED
    BY <2>2, <2>3
<1>6. ASSUME NEW a \in Asks, ResolvePlain(a) PROVE AnswerInv'
  <2>1. ask[a].pc = "plain" /\ journal' = journal
    BY <1>6 DEF ResolvePlain, At, only
  <2>2. ask[a].plain
    BY <1>2, <2>1 DEF RowOK
  <2>3. CASE \E c \in OwnerCommands : Set(a, [ask[a] EXCEPT !.pc = "claimed", !.command = c])
    <3>1. PICK c \in OwnerCommands : ask' = [ask EXCEPT ![a] = [ask[a] EXCEPT !.pc = "claimed", !.command = c]]
      BY <2>3 DEF Set
    <3> DEFINE row == [ask[a] EXCEPT !.pc = "claimed", !.command = c]
    <3>2. row \in AskType /\ RowOK(row, a \in journal)
      BY <1>2, <2>1, <2>2 DEF AskType, Texts, RowOK
    <3> HIDE DEF row
    <3> QED
      BY <2>1, <3>1, <3>2, OneRow DEF row
  <2>4. CASE Answer(a, "ambiguous")
    <3> DEFINE row == [ask[a] EXCEPT !.pc = "handled", !.text = "ambiguous", !.command = NoCommand]
    <3>1. ask' = [ask EXCEPT ![a] = row]
      BY <2>2, <2>4 DEF Answer, Set
    <3>2. row \in AskType /\ RowOK(row, a \in journal)
      BY <1>2, <1>3, <2>1, <2>2 DEF AskType, Texts, RowOK
    <3> HIDE DEF row
    <3> QED
      BY <2>1, <3>1, <3>2, OneRow
  <2>5. CASE Set(a, Requeued(a))
    <3>1. ask' = [ask EXCEPT ![a] = Requeued(a)]
      BY <2>5 DEF Set
    <3>2. Requeued(a) \in AskType /\ RowOK(Requeued(a), a \in journal)
      BY <2>1, RowRequeued
    <3> QED
      BY <2>1, <3>1, <3>2, OneRow
  <2>6. CASE Set(a, Over(a, "chat"))
    <3>1. ask' = [ask EXCEPT ![a] = Over(a, "chat")]
      BY <2>6 DEF Set
    <3>2. Over(a, "chat") \in AskType /\ RowOK(Over(a, "chat"), a \in journal)
      BY RowOver
    <3> QED
      BY <2>1, <3>1, <3>2, OneRow
  <2> QED
    BY <1>6, <2>3, <2>4, <2>5, <2>6 DEF ResolvePlain
<1>7. ASSUME NEW a \in Asks, Handle(a) PROVE AnswerInv'
  <2> DEFINE c == IF ask[a].plain THEN NoCommand ELSE ask[a].command
  <2>1. ask[a].pc = "claimed" /\ c \in OwnerCommands \cup {NoCommand}
    BY <1>2, <1>7 DEF Handle, At, AskType
  <2>2. PICK t \in {"applied", "refused", "report"} :
          /\ ask' = [ask EXCEPT ![a] = [ask[a] EXCEPT !.pc = "handled", !.text = t, !.command = c]]
          /\ journal' = journal \/ journal' = journal \cup {a}
          /\ t = "applied" => a \in journal'
          /\ t = "report" => journal' = journal /\ ask[a].command \in Reports
          /\ (a \in journal' /\ a \notin journal) => ask[a].command \notin Reports
    <3>1. CASE ask[a].command \in Reports \/ a \in journal \/ ~Accepted(ask[a].command)
      BY <1>7, <3>1 DEF Handle, Answer, Set, only
    <3>2. CASE ~(ask[a].command \in Reports \/ a \in journal \/ ~Accepted(ask[a].command))
      BY <1>7, <3>2 DEF Handle, Answer, Set
    <3> QED
      BY <3>1, <3>2
  <2> DEFINE row == [ask[a] EXCEPT !.pc = "handled", !.text = t, !.command = c]
  <2>3. row \in AskType
    BY <1>2, <2>1 DEF AskType, Texts
  <2>4. row.pc = "handled" /\ row.text = t /\ row.command = c /\ row.plain = ask[a].plain
        /\ row.told = ask[a].told /\ row.replied = ask[a].replied
    BY <1>2 DEF AskType
  <2> HIDE DEF row
  <2>5. RowOK(row, a \in journal')
    <3>1. CASE ask[a].plain
      BY <1>2, <2>2, <2>4, <3>1 DEF RowOK
    <3>2. CASE ~ask[a].plain
      BY <1>2, <2>1, <2>2, <2>4, <3>2 DEF RowOK
    <3> QED
      BY <3>1, <3>2
  <2> QED
    BY <2>2, <2>3, <2>5, OneRow DEF row
<1>8. ASSUME NEW a \in Asks, BeginAnswer(a) \/ Deliver(a) \/ RecordAnswer(a) \/ CloseAsk(a) PROVE AnswerInv'
  <2>1. journal' = journal
    BY <1>8 DEF BeginAnswer, Deliver, RecordAnswer, CloseAsk, Goto, only
  <2>2. CASE \E row \in AskType : ask' = [ask EXCEPT ![a] = row] /\ RowOK(row, a \in journal)
    BY <2>1, <2>2, OneRow
  <2>3. CASE BeginAnswer(a)
    <3>1. PICK pc \in {"answered", "begun"} : /\ ask' = [ask EXCEPT ![a] = [ask[a] EXCEPT !.pc = pc]]
                                              /\ pc = "answered" => ask[a].replied
      BY <2>3 DEF BeginAnswer, Goto, Set
    <3>2. ask[a].pc = "handled"
      BY <2>3 DEF BeginAnswer, At
    <3>3. [ask[a] EXCEPT !.pc = pc] \in AskType /\ RowOK([ask[a] EXCEPT !.pc = pc], a \in journal)
      BY <1>2, <3>1, <3>2 DEF AskType, Texts, RowOK
    <3> QED
      BY <2>1, <3>1, <3>3, OneRow
  <2>4. CASE Deliver(a)
    <3> DEFINE row == [ask[a] EXCEPT !.told = ask[a].text]
    <3>1. ask[a].pc = "begun" /\ ask' = [ask EXCEPT ![a] = row]
      BY <2>4 DEF Deliver, At, Set
    <3>2. row \in AskType /\ RowOK(row, a \in journal)
      BY <1>2, <3>1 DEF AskType, Texts, RowOK
    <3> HIDE DEF row
    <3> QED
      BY <2>1, <3>1, <3>2, OneRow
  <2>5. CASE RecordAnswer(a)
    <3>1. ask[a].pc = "begun"
      BY <2>5 DEF RecordAnswer, At
    <3> DEFINE row == [ask[a] EXCEPT !.pc = "answered", !.replied = TRUE]
    <3>2. ask[a].told # "" => row \in AskType /\ RowOK(row, a \in journal)
      BY <1>2, <3>1 DEF AskType, Texts, RowOK
    <3>3. Requeued(a) \in AskType /\ RowOK(Requeued(a), a \in journal)
      BY <3>1, RowRequeued
    <3>4. \/ ask[a].told # "" /\ ask' = [ask EXCEPT ![a] = row]
          \/ ask' = [ask EXCEPT ![a] = Requeued(a)]
      BY <2>5 DEF RecordAnswer, Set
    <3> HIDE DEF row
    <3> QED
      BY <2>2, <3>2, <3>3, <3>4
  <2>6. CASE CloseAsk(a)
    <3>1. ask[a].pc = "answered" /\ ask' = [ask EXCEPT ![a] = Over(a, "done")]
      BY <2>6 DEF CloseAsk, At, Set
    <3>2. Over(a, "done") \in AskType /\ RowOK(Over(a, "done"), a \in journal)
      BY <3>1, RowOver
    <3> QED
      BY <2>2, <3>1, <3>2
  <2> QED
    BY <1>8, <2>3, <2>4, <2>5, <2>6
<1>9. CASE (DaemonStep /\ ~Interrupt) \/ NoticeStep
  <2>1. journal' = journal
    BY <1>9, DaemonPhases, NoticesTell DEF Phase, Telling
  <2>2. ask' = ask
    BY <1>9, NoticesTell DEF DaemonStep, Start, List, MarkReady, Converge, Flushed, Online, Crash,
                             Quietly, Telling
  <2> QED
    BY <1>1, <2>1, <2>2
<1>10. CASE Interrupt
  <2>1. journal' = journal
    BY <1>10 DEF Interrupt, Phase
  <2>2. ASSUME NEW a \in Asks PROVE ask'[a] \in AskType /\ RowOK(ask'[a], a \in journal)
    <3>1. \/ ask'[a] = ask[a]
          \/ ask'[a] = Over(a, "dead")
          \/ ask[a].pc \in {"plain", "claimed", "handled", "answered"} /\ ask'[a] = Requeued(a)
      BY <1>10 DEF Interrupt
    <3>2. Over(a, "dead") \in AskType /\ RowOK(Over(a, "dead"), a \in journal)
      BY RowOver
    <3>3. ask[a].pc \in {"plain", "claimed", "handled", "answered"} =>
            Requeued(a) \in AskType /\ RowOK(Requeued(a), a \in journal)
      BY RowRequeued
    <3> QED
      BY <1>2, <3>1, <3>2, <3>3
  <2>3. DOMAIN ask' = Asks /\ ask' = [a \in Asks |-> ask'[a]]
    BY <1>10 DEF Interrupt
  <2>4. ask' \in [Asks -> AskType]
    BY <2>2, <2>3
  <2> QED
    BY <2>1, <2>2, <2>4 DEF AnswerInv
<1>11. ASSUME NEW w \in Works, WorkStep(w) PROVE UNCHANGED <<ask, journal>>
  BY <1>11, WorkAdvances DEF Advance
<1>12. CASE Cli
  BY <1>1, <1>12 DEF Cli
<1>13. CASE UNCHANGED vars
  BY <1>1, <1>13 DEF vars, ownerVars
<1> QED
  BY <1>1, <1>4, <1>5, <1>6, <1>7, <1>8, <1>9, <1>10, <1>11, <1>12, <1>13 DEF Next, AskStep

\* The owner is never told of a change that was not made, no command ends without an
\* answer, and a slash command that was applied was not answered with something else.
THEOREM AnswersHold == Spec => []AnswersAreTrue
<1>1. AnswerInv => AnswersAreTrue
  BY DEF AnswerInv, AnswersAreTrue, RowOK, AskType, Texts
<1> QED
  BY AnswerInit, AnswerStep, <1>1, PTL DEF Spec

-----------------------------------------------------------------------------
(* The types.                                                                *)

MemoryRow == [of : Asks \cup {Earlier}, status : {"candidate", "confirmed"}, live : BOOLEAN]
Resolutions == {"none", "acknowledged"} \cup Dispositions

\* What TypeOK says besides the messages, of which AnswerInv knows more.
ControlTypes ==
    /\ journal \subseteq Asks
    /\ resolved \in [Works -> Resolutions]
    /\ memory \subseteq MemoryRow
    /\ job \in [Works -> Jobs]
    /\ daemon \in Phases
    /\ listed \subseteq Works
    /\ notices \in [Works -> ResolutionKeys \cup {NoKey}]
    /\ sending \subseteq Notices
    /\ cli \in Nat
    /\ scope \in Scopes

OwnerInv == StoreTypeOK /\ ControlTypes /\ AnswerInv

\* What a command carries, by its name.
LEMMA CommandParts ==
  ASSUME NEW c \in OwnerCommands
  PROVE  /\ c.name \in {"retry", "cancel", "acknowledge", "resume", "reconcile"} => c.work \in Works
         /\ c.name = "resume" => c.confirm \in BOOLEAN
         /\ c.name = "reconcile" => c.disposition \in Dispositions
         /\ c \in ApprovalCommands => c.work \in Works /\ c.key \in Keys /\ c.name \in {"approve", "reject"}
<1>1. CASE c \in TaskCommands
  <2>1. c \in [name : {"retry", "cancel", "acknowledge"}, work : Works] => c \notin ApprovalCommands
    BY DEF ApprovalCommands
  <2>2. c \notin ApprovalCommands
    BY <1>1 DEF TaskCommands, ApprovalCommands
  <2> QED
    BY <1>1, <2>2 DEF TaskCommands
<1>2. CASE c \in ApprovalCommands
  <2>1. ApprovalKeys \subseteq Keys
    BY DEF Keys
  <2> QED
    BY <1>2, <2>1 DEF ApprovalCommands
<1>3. CASE c \in MemoryCommands \cup Reports
  <2>1. c.name \in {"memory_add", "memory_delete", "memory_confirm", "memory_reject", "show"}
    BY <1>3 DEF MemoryCommands, Reports
  <2>2. c \notin ApprovalCommands
    BY <2>1 DEF ApprovalCommands
  <2> QED
    BY <2>1, <2>2
<1> QED
  BY <1>1, <1>2, <1>3 DEF OwnerCommands

LEMMA DropType ==
  ASSUME StoreTypeOK, NEW w \in Works, NEW states, NEW row \in WorkRow, NEW extra,
         Drop(w, states, row, extra)
  PROVE  StoreTypeOK'
<1>1. attempts' \in [Works -> [Keys -> AttemptStatus]]
  BY AttemptStatusMembers DEF StoreTypeOK, Drop
<1>2. newest' \in [Works -> Keys \cup {NoKey}]
  BY KeyTypes DEF StoreTypeOK, Drop
<1> QED
  BY <1>1, <1>2 DEF StoreTypeOK, Drop

LEMMA OwnerRetryType ==
  ASSUME StoreTypeOK, NEW w \in Works, RetryOwnerWork(w)
  PROVE  StoreTypeOK'
<1>1. Unleased(work[w], "received") \in WorkRow
  BY UnleasedType, Members DEF StoreTypeOK
<1>2. \A row \in WorkRow : [row EXCEPT !.retry = 0, !.ownerRetry = 0, !.decision = "none"] \in WorkRow
  BY Members DEF WorkRow
<1>3. [Unleased(work[w], "received") EXCEPT !.retry = 0, !.ownerRetry = 0, !.decision = "none"] \in WorkRow
  BY <1>1, <1>2
<1> QED
  BY <1>3, SetWorkType DEF RetryOwnerWork

LEMMA OwnerReconcileType ==
  ASSUME StoreTypeOK, NEW w \in Works, NEW disposition, ReconcileOwnerWork(w, disposition)
  PROVE  StoreTypeOK'
<1>1. attempts' \in [Works -> [Keys -> AttemptStatus]]
  BY AttemptStatusMembers DEF StoreTypeOK, ReconcileOwnerWork
<1>2. \A status \in {"completed", "interrupted", "dead_letter"} : Unleased(work[w], status) \in WorkRow
  BY UnleasedType, Members DEF StoreTypeOK
<1>3. work' \in [Works -> WorkRow]
  BY <1>2 DEF StoreTypeOK, ReconcileOwnerWork
<1> QED
  BY <1>1, <1>3 DEF StoreTypeOK, ReconcileOwnerWork

LEMMA OwnerDecideType ==
  ASSUME StoreTypeOK, NEW w \in Works, NEW key \in Keys, NEW approve, DecideOwnerApproval(w, key, approve)
  PROVE  StoreTypeOK'
<1>1. attempts' \in [Works -> [Keys -> AttemptStatus]]
  BY AttemptStatusMembers DEF StoreTypeOK, DecideOwnerApproval
<1>2. \A status \in WorkStatus : Unleased(work[w], status) \in WorkRow
  BY UnleasedType DEF StoreTypeOK
<1>3. ActiveSession # 0 => [Unleased(work[w], "received") EXCEPT !.session = ActiveSession] \in WorkRow
  BY <1>2, Members, ActiveSessionType DEF WorkRow
<1>4. work' \in [Works -> WorkRow]
  BY <1>2, <1>3, Members DEF StoreTypeOK, DecideOwnerApproval
<1>5. snapshots' \in [Works -> SUBSET {"certain", "uncertain"}]
  BY DEF StoreTypeOK, DecideOwnerApproval
<1> QED
  BY <1>1, <1>4, <1>5 DEF StoreTypeOK, DecideOwnerApproval

LEMMA AcknowledgeType ==
  ASSUME StoreTypeOK, NEW w \in Works, AcknowledgeOwnerWork(w)
  PROVE  StoreTypeOK'
<1>1. Unleased(work[w], "cancelled") \in WorkRow /\ work[w] \in WorkRow
  BY UnleasedType, Members DEF StoreTypeOK
<1>2. PICK row \in WorkRow : Drop(w, {"awaiting_approval", "ready"}, row, {})
  BY <1>1 DEF AcknowledgeOwnerWork
<1> QED
  BY <1>2, DropType

LEMMA MutateType ==
  ASSUME StoreTypeOK, NEW c \in OwnerCommands, NEW s, c.name = "resume" => s \in SessionIds,
         MutateWork(c, s)
  PROVE  StoreTypeOK'
<1>1. CASE c.name = "retry" /\ RetryOwnerWork(c.work)
  BY <1>1, CommandParts, OwnerRetryType
<1>2. CASE c.name = "resume" /\ ResumeWork(c.work, s, c.confirm)
  BY <1>2, CommandParts, ResumeType
<1>3. CASE c.name = "cancel" /\ CancelOwnerWork(c.work)
  <2>1. c.work \in Works
    BY <1>3, CommandParts
  <2>2. Unleased(work[c.work], "cancelled") \in WorkRow
    BY <2>1, UnleasedType, Members DEF StoreTypeOK
  <2> QED
    BY <1>3, <2>1, <2>2, DropType DEF CancelOwnerWork
<1>4. CASE c.name = "acknowledge" /\ AcknowledgeOwnerWork(c.work)
  BY <1>4, CommandParts, AcknowledgeType
<1>5. CASE c.name = "reconcile" /\ ReconcileOwnerWork(c.work, c.disposition)
  BY <1>5, CommandParts, OwnerReconcileType
<1>6. CASE c \in ApprovalCommands /\ DecideOwnerApproval(c.work, c.key, c.name = "approve")
  BY <1>6, CommandParts, OwnerDecideType
<1> QED
  BY <1>1, <1>2, <1>3, <1>4, <1>5, <1>6 DEF MutateWork

\* The resolution that a command records.
LEMMA ResolvedType ==
  ASSUME ControlTypes, NEW c \in OwnerCommands, Resolve(c)
  PROVE  resolved' \in [Works -> Resolutions]
<1>1. Outdated \in [Works -> Resolutions]
  BY DEF Outdated, ControlTypes, Resolutions
<1>2. \/ resolved' = Outdated
      \/ resolved' = [Outdated EXCEPT ![c.work] = "acknowledged"]
      \/ c.name = "reconcile" /\ resolved' = [Outdated EXCEPT ![c.work] = c.disposition]
  BY DEF Resolve
<1>3. c.name = "reconcile" => c.disposition \in Dispositions
  BY CommandParts
<1> HIDE DEF Outdated
<1> QED
  BY <1>1, <1>2, <1>3 DEF Resolutions

LEMMA TouchType == ControlTypes /\ Touch => resolved' \in [Works -> Resolutions]
  BY DEF ControlTypes, Touch, Outdated, Resolutions

LEMMA MemoryType ==
  ASSUME ControlTypes, NEW a \in Asks, NEW c, MutateMemory(c, a)
  PROVE  memory' \subseteq MemoryRow
<1>1. \A row \in MemoryRow : /\ [row EXCEPT !.status = "confirmed", !.live = TRUE] \in MemoryRow
                             /\ [row EXCEPT !.live = FALSE] \in MemoryRow
  BY DEF MemoryRow
<1>2. [of |-> a, status |-> "confirmed", live |-> TRUE] \in MemoryRow
  BY DEF MemoryRow
<1> QED
  BY <1>1, <1>2 DEF ControlTypes, MutateMemory

\* A work step goes through the store's own operators.
LEMMA WorkStepType ==
  ASSUME StoreTypeOK, ControlTypes, NEW w \in Works, WorkStep(w)
  PROVE  StoreTypeOK' /\ ControlTypes'
<1>0. ControlTypes'
  <2>1. PICK pc \in Jobs : Advance(w, pc)
    BY WorkAdvances
  <2> QED
    BY <2>1, TouchType DEF Advance, ControlTypes, daemonVars
<1> SUFFICES StoreTypeOK'
  BY <1>0
<1>1. ASSUME NEW key \in Keys, NEW status \in AttemptStatus, CompleteAttempt(w, key, status)
      PROVE  StoreTypeOK'
  BY <1>1, AttemptType
<1>2. CASE Claim(w) \/ Propose(w) \/ Park(w) \/ Consume(w)
  BY <1>2, ClaimType, WorkKeyTypes, AttemptType, CompleteClaimType, Members
     DEF Claim, Propose, RequestReplyApproval, Park, Consume, ConsumeReplyApproval
<1>3. CASE Begin(w)
  BY <1>3, WorkKeyTypes, SetAttemptType, AttemptStatusMembers, StoreUnchangedType
     DEF Begin, BeginReplyAction
<1>4. CASE Record(w)
  BY <1>1, <1>4, WorkKeyTypes, AttemptStatusMembers DEF Record
<1>5. CASE Settle(w)
  BY <1>1, <1>5, WorkKeyTypes, AttemptStatusMembers DEF Settle
<1>6. CASE Finish(w)
  BY <1>6, CompleteClaimType, Members DEF Finish
<1>7. CASE Inquire(w)
  BY <1>7, InquiryType, StoreUnchangedType DEF Inquire
<1>8. CASE Stage(w)
  <2>1. "investigating" \in InquiryStatus /\ StageRow(w) \in Keys
    BY WorkKeyTypes DEF InquiryStatus, StageRow
  <2>2. CASE BeginInvestigationMessageAction(w, "investigation_progress")
    BY <2>1, <2>2, SetAttemptType, AttemptStatusMembers DEF BeginInvestigationMessageAction, StageRow
  <2>3. CASE SetInquiry(w, "investigating")
    BY <2>1, <2>3, InquiryType
  <2>4. CASE \E status \in {"completed", "blocked"} : CompleteAttempt(w, StageRow(w), status)
    BY <1>1, <2>1, <2>4, AttemptStatusMembers
  <2> QED
    BY <1>8, <2>2, <2>3, <2>4 DEF Stage
<1>9. CASE Draft(w) \/ Hold(w)
  BY <1>9, CandidateType DEF Draft, Hold
<1>10. CASE Defer(w) \/ Fail(w)
  BY <1>10, DeferType, MarkFailedType DEF Defer, Fail
<1>11. CASE Yield(w) \/ Close(w)
  BY <1>11, InquiryType, StoreUnchangedType DEF Yield, Close
<1> QED
  BY <1>2, <1>3, <1>4, <1>5, <1>6, <1>7, <1>8, <1>9, <1>10, <1>11 DEF WorkStep

LEMMA AskStepType ==
  ASSUME OwnerInv, NEW a \in Asks, AskStep(a)
  PROVE  StoreTypeOK' /\ ControlTypes'
<1>1. CASE only
  BY <1>1, StoreUnchangedType DEF OwnerInv, ControlTypes, only, daemonVars
<1>2. CASE ResolvePlain(a) /\ ~only
  <2>1. StoreTypeOK' /\ UNCHANGED <<journal, resolved, job, daemonVars, cli, scope>>
    BY <1>2, StoreUnchangedType DEF ResolvePlain, OwnerInv
  <2>2. PICK proposed \in SUBSET {a} :
          memory' = IF Live(a) THEN memory
                    ELSE memory \cup {[of |-> x, status |-> "candidate", live |-> TRUE] : x \in proposed}
    BY <1>2 DEF ResolvePlain
  <2>3. [of |-> a, status |-> "candidate", live |-> TRUE] \in MemoryRow
    BY DEF MemoryRow
  <2>4. memory' \subseteq MemoryRow
    BY <2>2, <2>3 DEF OwnerInv, ControlTypes
  <2> QED
    BY <2>1, <2>4 DEF OwnerInv, ControlTypes, daemonVars
<1>3. CASE Handle(a) /\ ~only
  <2> DEFINE c == ask[a].command
  <2>1. c \in OwnerCommands \cup {NoCommand} /\ Accepted(c)
    BY <1>3 DEF Handle, OwnerInv, AnswerInv, AskType
  <2>2. c # NoCommand
    <3>1. NoCommand.name = "none" /\ NoCommand \notin ApprovalCommands
      BY DEF NoCommand, ApprovalCommands
    <3> QED
      BY <2>1, <3>1 DEF Accepted
  <2>3. UNCHANGED <<job, daemonVars, cli, scope>> /\ journal' = journal \cup {a}
    BY <1>3 DEF Handle
  <2>4. CASE MutateMemory(c, a)
    <3>1. StoreTypeOK' /\ resolved' = resolved
      BY <2>4, StoreUnchangedType DEF MutateMemory, OwnerInv
    <3> QED
      BY <2>3, <2>4, <3>1, MemoryType DEF OwnerInv, ControlTypes, daemonVars
  <2>5. CASE MutateWork(c, session)
    <3>1. StoreTypeOK'
      BY <2>1, <2>2, <2>5, MutateType DEF OwnerInv, StoreTypeOK
    <3>2. resolved' \in [Works -> Resolutions] /\ memory' = memory
      BY <2>1, <2>2, <2>5, ResolvedType DEF OwnerInv, MutateWork
    <3> QED
      BY <2>3, <3>1, <3>2 DEF OwnerInv, ControlTypes, daemonVars
  <2> QED
    BY <1>3, <2>4, <2>5 DEF Handle
<1> QED
  BY <1>1, <1>2, <1>3 DEF AskStep, Ask, ClaimAsk, BeginAnswer, Deliver, RecordAnswer, CloseAsk, Goto

LEMMA DaemonStepType ==
  ASSUME StoreTypeOK, ControlTypes, DaemonStep
  PROVE  StoreTypeOK' /\ ControlTypes'
<1>1. /\ daemon' \in Phases /\ resolved' \in [Works -> Resolutions]
      /\ UNCHANGED <<scope, journal, memory, cli>>
  BY DaemonPhases, TouchType DEF Phase
<1>2. job' \in [Works -> Jobs]
  <2>1. job' = job \/ job' = [w \in Works |-> "idle"]
    BY DEF DaemonStep, Start, List, Interrupt, MarkReady, Converge, Flushed, Online, Crash, Quietly
  <2> QED
    BY <2>1 DEF ControlTypes, Jobs
<1>3. listed' \subseteq Works
  BY DEF DaemonStep, Start, List, Interrupt, MarkReady, Converge, Flushed, Online, Crash, PriorWork,
         ControlTypes
<1>4. notices' \in [Works -> ResolutionKeys \cup {NoKey}]
  BY DEF DaemonStep, Start, List, Interrupt, MarkReady, Converge, Flushed, Online, Crash, ControlTypes
<1>5. sending' \subseteq Notices
  BY DEF DaemonStep, Start, List, Interrupt, MarkReady, Converge, Flushed, Online, Crash, Quietly,
         ControlTypes
<1>6. StoreTypeOK'
  <2>1. CASE Start \/ MarkReady
    BY <2>1, SessionType DEF Start, MarkReady
  <2>2. CASE List
    BY <2>2, ReadmitType DEF List
  <2>3. CASE Interrupt
    BY <2>3, InterruptType DEF Interrupt, ControlTypes
  <2>4. CASE Converge
    BY <2>4, ConvergeType DEF Converge
  <2>5. CASE Flushed \/ Online \/ Crash
    BY <2>5, StoreUnchangedType DEF Flushed, Online, Crash
  <2> QED
    BY <2>1, <2>2, <2>3, <2>4, <2>5 DEF DaemonStep
<1> QED
  BY <1>1, <1>2, <1>3, <1>4, <1>5, <1>6 DEF ControlTypes

LEMMA NoticeStepType ==
  ASSUME StoreTypeOK, ControlTypes, NoticeStep
  PROVE  StoreTypeOK' /\ ControlTypes'
<1>0. ResolutionKeys \subseteq Keys
  BY DEF Keys
<1>1. /\ resolved' \in [Works -> Resolutions]
      /\ UNCHANGED <<scope, journal, memory, job, listed, cli, daemon>>
  BY NoticesTell, TouchType DEF Telling
<1>2. ASSUME NEW w \in Works, NEW key \in ResolutionKeys, Send(w, key)
      PROVE  StoreTypeOK' /\ sending' \subseteq Notices
  <2>1. StoreTypeOK'
    BY <1>0, <1>2, SetAttemptType, AttemptStatusMembers DEF Send, BeginOwnerResolutionNotification
  <2>2. [work |-> w, key |-> key] \in Notices
    BY DEF Notices
  <2> QED
    BY <1>2, <2>1, <2>2 DEF Send
<1>3. CASE Told
  <2>1. sending' = {} /\ notices' = notices
    BY <1>3 DEF Told
  <2>2. StoreTypeOK'
    <3>1. PICK n \in sending :
            \/ \E status \in {"completed", "blocked"} : CompleteAttempt(n.work, n.key, status)
            \/ UNCHANGED storeVars
      BY <1>3 DEF Told
    <3>2. n.work \in Works /\ n.key \in Keys
      BY <1>0, <3>1 DEF ControlTypes, Notices
    <3> QED
      BY <3>1, <3>2, AttemptType, AttemptStatusMembers, StoreUnchangedType
  <2> QED
    BY <1>1, <2>1, <2>2 DEF ControlTypes
<1>4. ASSUME NEW w \in Works, Tell(w) PROVE StoreTypeOK' /\ ControlTypes'
  <2>1. notices[w] \in ResolutionKeys /\ notices' = [notices EXCEPT ![w] = NoKey]
    BY <1>4 DEF Tell, ControlTypes
  <2>2. Send(w, notices[w]) \/ UNCHANGED <<storeVars, sending>>
    BY <1>4 DEF Tell
  <2>3. StoreTypeOK' /\ sending' \subseteq Notices
    BY <1>2, <2>1, <2>2, StoreUnchangedType DEF ControlTypes
  <2> QED
    BY <1>1, <2>1, <2>3 DEF ControlTypes
<1>5. ASSUME NEW w \in Works, NEW key \in ResolutionKeys, Retell(w, key)
      PROVE  StoreTypeOK' /\ ControlTypes'
  <2>1. Send(w, key) /\ notices' = notices
    BY <1>5 DEF Retell
  <2> QED
    BY <1>1, <1>2, <2>1 DEF ControlTypes
<1> QED
  BY <1>3, <1>4, <1>5 DEF NoticeStep

\* The commands of the command line, as the store applies them.
LEMMA CliCommandParts ==
  ASSUME NEW c \in CliCommands
  PROVE  /\ c \in OwnerCommands /\ c.work \in Works
         /\ c.name \in {"retry", "cancel", "acknowledge", "resume", "reconcile", "approve", "reject"}
<1>1. CASE c \in TaskCommands
  BY <1>1 DEF TaskCommands, OwnerCommands
<1>2. CASE c \in ApprovalCommands
  BY <1>2 DEF ApprovalCommands, OwnerCommands
<1> QED
  BY <1>1, <1>2 DEF CliCommands

LEMMA OpenedAreSessions ==
  ASSUME StoreTypeOK
  PROVE  OpenedSessions \subseteq SessionIds
<1>1. session \in 1..MaxSessions /\ MaxSessions \in Nat
  BY StoreBounds DEF StoreTypeOK, SessionIds
<1> QED
  BY <1>1 DEF OpenedSessions, SessionIds

LEMMA CliType ==
  ASSUME StoreTypeOK, ControlTypes, Cli
  PROVE  StoreTypeOK' /\ ControlTypes'
<1>1. PICK c \in CliCommands : CliEffect(c) /\ Resolve(c)
  BY DEF Cli
<1>2. c \in OwnerCommands /\ c.work \in Works
  BY CliCommandParts
<1>3. StoreTypeOK'
  <2>1. CASE c.name = "retry" /\ \E s \in OpenedSessions : RetryWorkItem(c.work, s)
    BY <1>2, <2>1, RetryType
  <2>2. CASE c.name = "resume" /\ \E s \in OpenedSessions : ResumeWork(c.work, s, c.confirm)
    BY <1>2, <2>2, CommandParts, OpenedAreSessions, ResumeType
  <2>3. CASE c.name = "cancel" /\ CancelWork(c.work)
    BY <1>2, <2>3, CancelType
  <2>4. CASE c.name = "acknowledge" /\ AcknowledgeOwnerWork(c.work)
    BY <1>2, <2>4, AcknowledgeType
  <2>5. CASE c.name = "reconcile" /\ ReconcileOwnerWork(c.work, c.disposition)
    BY <1>2, <2>5, OwnerReconcileType
  <2>6. CASE c \in ApprovalCommands /\ DecideAction(c.work, c.key, c.name = "approve")
    BY <1>2, <2>6, CommandParts, DecideType
  <2> QED
    BY <1>1, <2>1, <2>2, <2>3, <2>4, <2>5, <2>6 DEF CliEffect
<1>4. resolved' \in [Works -> Resolutions]
  BY <1>1, <1>2, ResolvedType
<1>5. cli' \in Nat /\ UNCHANGED <<journal, memory, job, daemonVars, scope>>
  BY DEF Cli, ControlTypes
<1> QED
  BY <1>3, <1>4, <1>5 DEF ControlTypes, daemonVars

LEMMA OwnerInit == Init => OwnerInv
<1> SUFFICES ASSUME Init PROVE OwnerInv
  OBVIOUS
<1>1. StoreTypeOK /\ AnswerInv
  BY StoreInitType, AnswerInit DEF Init
<1>2. [of |-> Earlier, status |-> "candidate", live |-> TRUE] \in MemoryRow
  BY DEF MemoryRow
<1>3. ControlTypes
  <2>1. /\ journal = {} /\ memory = {[of |-> Earlier, status |-> "candidate", live |-> TRUE]}
        /\ resolved = [w \in Works |-> "none"] /\ job = [w \in Works |-> "idle"]
        /\ daemon = "recovered" /\ cli = 0 /\ listed = {} /\ sending = {}
        /\ notices = [w \in Works |-> NoKey] /\ scope \in Scopes
    BY Zenon DEF Init
  <2> QED
    BY <1>2, <2>1 DEF ControlTypes, Jobs, Phases, Resolutions
<1> QED
  BY <1>1, <1>3 DEF OwnerInv

LEMMA OwnerStep == OwnerInv /\ [Next]_vars => OwnerInv'
<1> SUFFICES ASSUME OwnerInv, [Next]_vars PROVE OwnerInv'
  OBVIOUS
<1>1. AnswerInv'
  BY AnswerStep DEF OwnerInv
<1>2. CASE UNCHANGED vars
  <2>1. StoreTypeOK'
    BY <1>2, StoreUnchangedType DEF OwnerInv, vars
  <2>2. ControlTypes'
    BY <1>2 DEF OwnerInv, ControlTypes, vars, ownerVars
  <2> QED
    BY <1>1, <2>1, <2>2 DEF OwnerInv
<1>3. ASSUME NEW a \in Asks, AskStep(a) PROVE OwnerInv'
  BY <1>1, <1>3, AskStepType DEF OwnerInv
<1>4. ASSUME NEW w \in Works, WorkStep(w) PROVE OwnerInv'
  BY <1>1, <1>4, WorkStepType DEF OwnerInv
<1>5. CASE DaemonStep \/ NoticeStep \/ Cli
  BY <1>1, <1>5, DaemonStepType, NoticeStepType, CliType DEF OwnerInv
<1> QED
  BY <1>2, <1>3, <1>4, <1>5 DEF Next

\* The tables, the messages and the works in hand stay in the states the code knows.
THEOREM ControlType == Spec => []TypeOK
<1>1. OwnerInv => TypeOK
  <2> SUFFICES ASSUME OwnerInv PROVE TypeOK
    OBVIOUS
  <2>1. StoreTypeOK /\ ControlTypes /\ ask \in [Asks -> AskType]
    BY DEF OwnerInv, AnswerInv
  <2>2. AskType = [pc : {"unsent", "queued", "plain", "claimed", "handled", "begun", "answered", "chat",
                         "done", "dead"},
                   plain : BOOLEAN, command : OwnerCommands \cup {NoCommand},
                   text : {"", "applied", "refused", "ambiguous", "report"},
                   told : {"", "applied", "refused", "ambiguous", "report"}, replied : BOOLEAN]
    BY Zenon DEF AskType, Texts
  <2> QED
    BY <2>1, <2>2, Zenon DEF TypeOK, ControlTypes, Jobs, Phases, MemoryRow, Resolutions
<1> QED
  BY OwnerInit, OwnerStep, <1>1, PTL DEF Spec

-----------------------------------------------------------------------------
(* No dead end.                                                              *)

Moved == {"flushing", "telling", "running"}

\* Nothing of the work is executing but a notice about it.
Quiet(w) == \A key \in Keys : attempts[w][key] = "executing" => key.kind \in ResolutionKinds

\* The session of a daemon that takes work is the newest one, and ready.
SessionInv ==
    /\ \A s \in SessionIds : s > session => sessions[s] = "unused"
    /\ daemon \in Moved \cup {"ready"} => sessions[session] = "ready"

\* An uncertain interruption is open only on work that is interrupted, or that the
\* owner cancelled by rejecting an action of it.  What interrupted work was doing is
\* recorded, unless an approval is to readmit it; what convergence left interrupted
\* was doing nothing.  And a worker has no interrupted work in hand.
Sound(w) ==
    /\ Uncertain(w) => Quiet(w) /\ work[w].status \in {"interrupted", "cancelled"}
    /\ work[w].status = "interrupted" => Quiet(w) \/ Ready(w)
    /\ daemon \in Moved /\ work[w].status = "interrupted" => ~Uncertain(w) /\ Quiet(w)
    /\ job[w] # "idle" => daemon = "running" /\ work[w].status # "interrupted" /\ ~Uncertain(w)

DeadEndInv == SessionInv /\ \A w \in Works : Sound(w)

\* What a step may do to one work.  It leaves the work no longer interrupted ...
LEMMA Freed ==
  ASSUME NEW w \in Works, work'[w].status # "interrupted", "uncertain" \notin snapshots'[w],
         job'[w] # "idle" => daemon' = "running"
  PROVE  Sound(w)'
  BY DEF Sound, Uncertain

\* ... or settles the interruption ...
LEMMA Settled ==
  ASSUME NEW w \in Works, "uncertain" \notin snapshots'[w], Quiet(w)', job'[w] = "idle"
  PROVE  Sound(w)'
  BY DEF Sound, Uncertain

\* ... or leaves it where it was, or cancels it, and begins notices at most ...
LEMMA Stayed ==
  ASSUME NEW w \in Works, Sound(w), snapshots'[w] = snapshots[w],
         job'[w] = job[w], daemon' = daemon,
         Quiet(w) => Quiet(w)',
         \/ work'[w].status = work[w].status /\ (Ready(w) => Ready(w)')
         \/ work'[w].status = "cancelled"
  PROVE  Sound(w)'
<1>1. Uncertain(w)' <=> Uncertain(w)
  BY DEF Uncertain
<1> HIDE DEF Uncertain
<1> QED
  BY <1>1 DEF Sound

\* ... or leaves it as it is while the daemon goes on to its next phase.
LEMMA Passed ==
  ASSUME NEW w \in Works, Sound(w), work'[w].status = work[w].status,
         snapshots'[w] = snapshots[w], attempts'[w] = attempts[w],
         job'[w] = "idle" \/ (job'[w] = job[w] /\ daemon # "running"),
         daemon' \in Moved => daemon \in Moved \/ work[w].status # "interrupted"
  PROVE  Sound(w)'
<1>1. /\ Uncertain(w)' <=> Uncertain(w)
      /\ Quiet(w)' <=> Quiet(w)
      /\ Ready(w)' <=> Ready(w)
  BY DEF Uncertain, Quiet, Ready, HasAttempt
<1> QED
  BY <1>1 DEF Sound

LEMMA Kept ==
  ASSUME NEW w \in Works, Sound(w), work'[w] = work[w], snapshots'[w] = snapshots[w],
         attempts'[w] = attempts[w], job'[w] = job[w], daemon' = daemon
  PROVE  Sound(w)'
  BY Stayed DEF Quiet, Ready, HasAttempt

LEMMA SessionKept ==
  ASSUME SessionInv, UNCHANGED <<sessions, session, daemon>>
  PROVE  SessionInv'
  BY DEF SessionInv

LEMMA RowStatus ==
  ASSUME NEW row \in WorkRow, NEW status, NEW retry, NEW decision
  PROVE  /\ Unleased(row, status).status = status
         /\ [Unleased(row, status) EXCEPT !.retry = retry, !.decision = decision].status = status
         /\ [Unleased(row, status) EXCEPT !.ownerRetry = retry, !.decision = decision].status = status
         /\ [Unleased(row, status) EXCEPT !.retry = 0, !.ownerRetry = 0, !.decision = decision].status = status
         /\ [Unleased(row, status) EXCEPT !.decision = decision].status = status
         /\ [Unleased(row, status) EXCEPT !.session = retry].status = status
         /\ [row EXCEPT !.status = status, !.lease = retry].status = status
         /\ [row EXCEPT !.session = retry, !.decision = decision].status = row.status
  BY DEF Unleased, WorkRow

\* A work step is about one work: it writes an action of it, or moves it from a state
\* in which it may be claimed or is being processed to another that is not interrupted.
Writes(w) ==
  /\ UNCHANGED <<snapshots, sessions, session>>
  /\ \A v \in Works \ {w} : work'[v] = work[v] /\ attempts'[v] = attempts[v]
  /\ \/ work'[w] = work[w]
     \/ work[w].status \in Claimable \cup {"processing"} /\ work'[w].status # "interrupted"

LEMMA RowWrites ==
  ASSUME StoreTypeOK, NEW w \in Works, NEW row, row.status # "interrupted",
         work[w].status \in Claimable \cup {"processing"},
         work' = [work EXCEPT ![w] = row], UNCHANGED <<attempts, snapshots, sessions, session>>
  PROVE  Writes(w)
  BY DEF Writes, StoreTypeOK

LEMMA AttemptWrites ==
  ASSUME StoreTypeOK, NEW w \in Works, NEW key, NEW status,
         SetAttempt(w, key, status) \/ CompleteAttempt(w, key, status)
  PROVE  Writes(w)
<1>1. attempts' = [attempts EXCEPT ![w][key] = status] /\ UNCHANGED <<work, snapshots, sessions, session>>
  BY DEF CompleteAttempt, SetAttempt, Move, onlyAttempts
<1> QED
  BY <1>1 DEF Writes, StoreTypeOK

LEMMA AsideWrites ==
  ASSUME NEW w \in Works, UNCHANGED <<work, attempts, snapshots, sessions, session>>
  PROVE  Writes(w)
  BY DEF Writes

LEMMA WorkWrites ==
  ASSUME StoreTypeOK, NEW w \in Works, WorkStep(w)
  PROVE  Writes(w) /\ (job[w] = "idle" => work[w].status \in Claimable)
<1>0. work[w] \in WorkRow
  BY DEF StoreTypeOK
<1>1. CASE Claim(w)
  <2>1. PICK k \in Workers : ClaimNextForLane(w, k)
    BY <1>1 DEF Claim
  <2> DEFINE row == [work[w] EXCEPT !.status = "processing", !.lease = k]
  <2>2. row.status = "processing"
    BY <1>0, RowStatus
  <2>3. /\ work' = [work EXCEPT ![w] = row] /\ UNCHANGED <<attempts, snapshots, sessions, session>>
        /\ work[w].status \in Claimable
    BY <2>1 DEF ClaimNextForLane, SetWork
  <2> HIDE DEF row
  <2> QED
    BY <2>2, <2>3, RowWrites
<1>2. CASE Propose(w) \/ Consume(w) \/ Begin(w) \/ Record(w) \/ Settle(w)
  <2>1. UNCHANGED storeVars \/ \E key, status : SetAttempt(w, key, status)
    BY <1>2 DEF Propose, Consume, Begin, Record, Settle, RequestReplyApproval, RequestAttempt,
                ConsumeReplyApproval, ConsumeAttempt, BeginReplyAction, CompleteAttempt
  <2>2. job[w] # "idle"
    BY <1>2 DEF Propose, Consume, Begin, Record, Settle, Fresh, Working
  <2> QED
    BY <2>1, <2>2, AttemptWrites, AsideWrites DEF storeVars
<1>3. CASE Park(w) \/ Finish(w)
  <2>1. PICK k \in Workers, kind \in {"request_approval", "reply"} : CompleteClaim(w, k, kind)
    BY <1>3 DEF Park, Finish
  <2> DEFINE row == [Unleased(work[w], DecisionStatus(kind)) EXCEPT !.decision = kind]
  <2>2. row.status # "interrupted"
    BY <1>0, RowStatus DEF DecisionStatus
  <2>3. /\ work' = [work EXCEPT ![w] = row] /\ UNCHANGED <<attempts, snapshots, sessions, session>>
        /\ work[w].status = "processing"
    BY <2>1 DEF CompleteClaim, HoldsLease, SetWork
  <2>4. job[w] # "idle"
    BY <1>3 DEF Park, Finish, Working
  <2> HIDE DEF row
  <2> QED
    BY <2>2, <2>3, <2>4, RowWrites
<1>4. CASE Inquire(w) \/ Draft(w) \/ Hold(w) \/ Yield(w) \/ Close(w)
  <2>1. UNCHANGED <<work, attempts, snapshots, sessions, session>>
    BY <1>4 DEF Inquire, Draft, Hold, Yield, Close, BeginDelegatedInvestigation, SetInquiry,
                BlockDelegatedInvestigation, SaveWorkReplyCandidate, TransitionWorkReplyCandidate,
                SetCandidate, storeVars
  <2>2. job[w] # "idle"
    BY <1>4 DEF Inquire, Draft, Hold, Yield, Close, Fresh, Failing, Working
  <2> QED
    BY <2>1, <2>2, AsideWrites
<1>5. CASE Stage(w)
  <2>1. \/ UNCHANGED <<work, attempts, snapshots, sessions, session>>
        \/ \E key, status : SetAttempt(w, key, status)
    BY <1>5 DEF Stage, BeginInvestigationMessageAction, CompleteAttempt, SetInquiry
  <2>2. job[w] # "idle"
    BY <1>5 DEF Stage, Working
  <2> QED
    BY <2>1, <2>2, AttemptWrites, AsideWrites
<1>6. CASE Defer(w)
  <2>1. PICK k \in Workers : DeferWaitingUserClaim(w, k)
    BY <1>6 DEF Defer
  <2> DEFINE count == work[w].ownerRetry + 1
             status == IF count >= MaxOwnerRetries THEN "dead_letter" ELSE "waiting_user"
             row == [Unleased(work[w], status) EXCEPT !.ownerRetry = count, !.decision = "record"]
  <2>2. /\ work' = [work EXCEPT ![w] = row] /\ work[w].status = "processing"
        /\ attempts' = attempts \/ attempts' = [attempts EXCEPT ![w][RequiredKey] = "blocked"]
        /\ UNCHANGED <<snapshots, sessions, session>>
    BY <2>1 DEF DeferWaitingUserClaim, HoldsLease
  <2>3. row.status # "interrupted"
    BY <1>0, RowStatus
  <2>4. job[w] # "idle"
    BY <1>6 DEF Defer, Working
  <2> HIDE DEF row
  <2> QED
    BY <2>2, <2>3, <2>4 DEF Writes, StoreTypeOK
<1>7. CASE Fail(w)
  <2>1. PICK k \in Workers : MarkRetryClaim(w, k)
    BY <1>7 DEF Fail
  <2> DEFINE status == IF work[w].retry + 1 >= MaxRetries THEN "dead_letter" ELSE "retry_wait"
             row == [Unleased(work[w], status) EXCEPT !.retry = work[w].retry + 1, !.decision = "record"]
  <2>2. /\ work' = [work EXCEPT ![w] = row] /\ work[w].status = "processing"
        /\ UNCHANGED <<attempts, snapshots, sessions, session>>
    BY <2>1 DEF MarkRetryClaim, HoldsLease, SetWork
  <2>3. row.status # "interrupted"
    BY <1>0, RowStatus
  <2>4. job[w] # "idle"
    BY <1>7 DEF Fail, Failing, Working
  <2> HIDE DEF row
  <2> QED
    BY <2>2, <2>3, <2>4, RowWrites
<1> QED
  BY <1>1, <1>2, <1>3, <1>4, <1>5, <1>6, <1>7 DEF WorkStep

LEMMA WorkDeadEnd ==
  ASSUME OwnerInv, DeadEndInv, NEW w \in Works, WorkStep(w)
  PROVE  DeadEndInv'
<1>0. StoreTypeOK /\ job \in [Works -> Jobs]
  BY DEF OwnerInv, ControlTypes
<1>1. PICK pc \in Jobs : Advance(w, pc)
  BY WorkAdvances
<1>2. daemon = "running" /\ daemon' = daemon /\ job' = [job EXCEPT ![w] = pc]
  BY <1>1, WorkAdvances DEF Advance, daemonVars
<1>3. Writes(w) /\ (job[w] = "idle" => work[w].status \in Claimable)
  BY <1>0, WorkWrites
<1>4. work[w].status # "interrupted" /\ ~Uncertain(w)
  BY <1>3 DEF DeadEndInv, Sound, Claimable
<1>5. Sound(w)'
  BY <1>2, <1>3, <1>4, Freed DEF Writes, Uncertain
<1>6. ASSUME NEW v \in Works, v # w PROVE Sound(v)'
  BY <1>0, <1>2, <1>3, <1>6, Kept DEF Writes, DeadEndInv
<1>7. SessionInv'
  BY <1>2, <1>3, SessionKept DEF Writes, DeadEndInv
<1> QED
  BY <1>5, <1>6, <1>7 DEF DeadEndInv

\* The newest open session is the daemon's own while it is ready.
LEMMA ActiveIsOwn ==
  ASSUME StoreTypeOK, SessionInv, sessions[session] = "ready"
  PROVE  ActiveSession = session
<1> DEFINE open == {s \in SessionIds : sessions[s] \in {"starting", "ready"}}
<1>0. SessionIds \subseteq Nat /\ session \in SessionIds
  BY GenerationType DEF StoreTypeOK
<1>1. session \in open
  BY <1>0
<1>2. ASSUME NEW t \in open PROVE t <= session
  BY <1>0, <1>2 DEF SessionInv
<1>3. ASSUME NEW s \in open, \A t \in open : t <= s PROVE s = session
  BY <1>0, <1>1, <1>2, <1>3
<1>4. ActiveSession = CHOOSE s \in open : \A t \in open : t <= s
  BY <1>1 DEF ActiveSession
<1> QED
  BY <1>1, <1>2, <1>3, <1>4

\* So an approval readmits the work as soon as the session is ready.
LEMMA ReadyIsLive ==
  ASSUME StoreTypeOK, SessionInv, daemon \in Moved \cup {"ready"}
  PROVE  ActiveSession # 0 /\ sessions[IF ActiveSession = 0 THEN 1 ELSE ActiveSession] = "ready"
<1>1. sessions[session] = "ready" /\ session # 0
  BY DEF SessionInv, StoreTypeOK, SessionIds
<1> QED
  BY <1>1, ActiveIsOwn

\* A command or a notice is about one work.
Only(w) ==
  /\ UNCHANGED <<sessions, session, daemon, job>>
  /\ \A v \in Works \ {w} : work'[v] = work[v] /\ attempts'[v] = attempts[v] /\ snapshots'[v] = snapshots[v]

LEMMA OnlyKeeps ==
  ASSUME DeadEndInv, NEW w \in Works, Only(w), Sound(w)'
  PROVE  DeadEndInv'
<1>1. ASSUME NEW v \in Works, v # w PROVE Sound(v)'
  BY <1>1, Kept DEF Only, DeadEndInv
<1>2. SessionInv'
  BY SessionKept DEF Only, DeadEndInv
<1> QED
  BY <1>1, <1>2 DEF DeadEndInv

LEMMA HandsRunning ==
  ASSUME DeadEndInv, NEW w \in Works, UNCHANGED <<daemon, job>>
  PROVE  job'[w] # "idle" => daemon' = "running"
  BY DEF DeadEndInv, Sound

\* The commands that leave the work in another state than interrupted, and certain.
LEMMA FreeingRow ==
  ASSUME StoreTypeOK, DeadEndInv, NEW w \in Works, NEW row, row.status # "interrupted",
         work' = [work EXCEPT ![w] = row],
         \/ snapshots' = [snapshots EXCEPT ![w] = {}]
         \/ snapshots' = snapshots /\ work[w].status \notin {"interrupted", "cancelled"},
         \A v \in Works \ {w} : attempts'[v] = attempts[v],
         UNCHANGED <<sessions, session, daemon, job>>
  PROVE  DeadEndInv'
<1>1. Only(w)
  BY DEF Only, StoreTypeOK
<1>2. work'[w].status # "interrupted"
  BY DEF StoreTypeOK
<1>3. "uncertain" \notin snapshots'[w]
  BY DEF StoreTypeOK, DeadEndInv, Sound, Uncertain
<1> QED
  BY <1>1, <1>2, <1>3, HandsRunning, Freed, OnlyKeeps

LEMMA RetryFrees ==
  ASSUME StoreTypeOK, DeadEndInv, NEW w \in Works, work[w].status = "retry_wait",
         RetryOwnerWork(w) \/ \E s : RetryWorkItem(w, s), UNCHANGED <<daemon, job>>
  PROVE  DeadEndInv'
<1>0. work[w] \in WorkRow
  BY DEF StoreTypeOK
<1> DEFINE owners == [Unleased(work[w], "received") EXCEPT !.retry = 0, !.ownerRetry = 0, !.decision = "none"]
           items == [Unleased(work[w], "received") EXCEPT !.retry = 0, !.decision = "none"]
<1>1. owners.status = "received" /\ items.status = "received"
  BY <1>0, RowStatus
<1>2. SetWork(w, owners) \/ SetWork(w, items)
  BY DEF RetryOwnerWork, RetryWorkItem
<1> HIDE DEF owners, items
<1> QED
  BY <1>1, <1>2, FreeingRow DEF SetWork

LEMMA ResumeFrees ==
  ASSUME StoreTypeOK, DeadEndInv, NEW w \in Works, NEW s, NEW force, ResumeWork(w, s, force),
         UNCHANGED <<daemon, job>>
  PROVE  DeadEndInv'
<1>1. /\ \E row : row.status = "received" /\ work' = [work EXCEPT ![w] = row]
      /\ snapshots' = [snapshots EXCEPT ![w] = {}] /\ UNCHANGED <<sessions, session>>
  BY DEF ResumeWork
<1>2. \A v \in Works \ {w} : attempts'[v] = attempts[v]
  BY DEF ResumeWork, StoreTypeOK
<1> QED
  BY <1>1, <1>2, FreeingRow

LEMMA CancelFrees ==
  ASSUME StoreTypeOK, DeadEndInv, NEW w \in Works, CancelWork(w) \/ CancelOwnerWork(w),
         UNCHANGED <<daemon, job>>
  PROVE  DeadEndInv'
<1>1. Unleased(work[w], "cancelled").status = "cancelled"
  BY RowStatus DEF StoreTypeOK
<1>2. /\ work' = [work EXCEPT ![w] = Unleased(work[w], "cancelled")]
      /\ snapshots' = [snapshots EXCEPT ![w] = {}] /\ UNCHANGED <<sessions, session>>
  BY DEF CancelWork, CancelOwnerWork, Drop
<1>3. \A v \in Works \ {w} : attempts'[v] = attempts[v]
  BY DEF CancelWork, CancelOwnerWork, Drop, StoreTypeOK
<1> QED
  BY <1>1, <1>2, <1>3, FreeingRow

LEMMA AcknowledgeFrees ==
  ASSUME StoreTypeOK, DeadEndInv, NEW w \in Works, AcknowledgeOwnerWork(w), UNCHANGED <<daemon, job>>
  PROVE  DeadEndInv'
<1>1. Unleased(work[w], "cancelled").status = "cancelled"
  BY RowStatus DEF StoreTypeOK
<1>2. PICK row : row.status # "interrupted" /\ Drop(w, {"awaiting_approval", "ready"}, row, {})
  BY <1>1 DEF AcknowledgeOwnerWork
<1>3. \A v \in Works \ {w} : attempts'[v] = attempts[v]
  BY <1>2 DEF Drop, StoreTypeOK
<1> QED
  BY <1>2, <1>3, FreeingRow DEF Drop

\* Reconciling settles what was uncertain, and nothing else of it was executing.
LEMMA ReconcileSettles ==
  ASSUME StoreTypeOK, DeadEndInv, NEW w \in Works, NEW disposition, ReconcileAccepted(w),
         ReconcileOwnerWork(w, disposition), UNCHANGED <<daemon, job>>
  PROVE  DeadEndInv'
<1>1. Uncertain(w) /\ Quiet(w) /\ job[w] = "idle"
  BY DEF ReconcileAccepted, DeadEndInv, Sound
<1>2. PICK key \in Keys : \E status \in {"completed", "cancelled", "blocked"} :
        attempts' = [attempts EXCEPT ![w][key] = status]
  BY DEF ReconcileOwnerWork
<1>3. Only(w)
  BY <1>2 DEF ReconcileOwnerWork, Only, StoreTypeOK
<1>4. Quiet(w)'
  BY <1>1, <1>2 DEF Quiet, StoreTypeOK
<1>5. "uncertain" \notin snapshots'[w]
  BY DEF ReconcileOwnerWork, StoreTypeOK
<1> QED
  BY <1>1, <1>3, <1>4, <1>5, Settled, OnlyKeeps

LEMMA DecisionStays ==
  ASSUME StoreTypeOK, DeadEndInv, NEW w \in Works, NEW key \in ApprovalKeys, NEW approve \in BOOLEAN,
         \/ DecideOwnerApproval(w, key, approve) /\ daemon = "running"
         \/ DecideAction(w, key, approve),
         UNCHANGED <<daemon, job>>
  PROVE  DeadEndInv'
<1> DEFINE live == ActiveSession # 0 /\ sessions[IF ActiveSession = 0 THEN 1 ELSE ActiveSession] = "ready"
           fresh == [Unleased(work[w], "received") EXCEPT !.session = ActiveSession]
<1>0. /\ key \in Keys /\ key.kind = "approval" /\ work[w] \in WorkRow
      /\ Sound(w) /\ SessionInv
  BY DEF Keys, ApprovalKeys, Key, StoreTypeOK, DeadEndInv
<1>1. fresh.status = "received" /\ \A status : Unleased(work[w], status).status = status
  BY <1>0, RowStatus
<1>2. /\ attempts' = [attempts EXCEPT ![w][key] = IF approve THEN "ready" ELSE "cancelled"]
      /\ UNCHANGED <<sessions, session>>
  BY DEF DecideOwnerApproval, DecideAction
<1>3. \A v \in Works \ {w} : attempts'[v] = attempts[v]
  BY <1>2 DEF StoreTypeOK
<1>4. Quiet(w) => Quiet(w)'
  BY <1>0, <1>2 DEF Quiet, StoreTypeOK
<1>5. \/ ~approve /\ work' = [work EXCEPT ![w] = Unleased(work[w], "cancelled")] /\ snapshots' = snapshots
      \/ work' = [work EXCEPT ![w] = fresh] /\ snapshots' = [snapshots EXCEPT ![w] = {}]
      \/ /\ approve /\ ~live /\ work' = [work EXCEPT ![w] = Unleased(work[w], "interrupted")]
         /\ snapshots' = snapshots /\ DecideAction(w, key, approve)
  <2>1. CASE DecideAction(w, key, approve)
    BY <2>1 DEF DecideAction, Unleased
  <2>2. CASE DecideOwnerApproval(w, key, approve) /\ daemon = "running"
    <3>1. live
      BY <1>0, <2>2, ReadyIsLive DEF Moved
    <3>2. CASE approve
      BY <2>2, <3>1, <3>2 DEF DecideOwnerApproval
    <3>3. CASE ~approve
      <4>1. snapshots' = [snapshots EXCEPT ![w] = snapshots[w]]
        BY <2>2, <3>3 DEF DecideOwnerApproval
      <4>2. snapshots' = snapshots
        BY <4>1 DEF StoreTypeOK
      <4> QED
        BY <2>2, <3>3, <4>2 DEF DecideOwnerApproval
    <3> QED
      BY <3>2, <3>3
  <2> QED
    BY <2>1, <2>2
<1>6. CASE work' = [work EXCEPT ![w] = fresh] /\ snapshots' = [snapshots EXCEPT ![w] = {}]
  <2> HIDE DEF fresh
  <2> QED
    BY <1>1, <1>2, <1>3, <1>6, FreeingRow
<1>7. ASSUME NEW row, work' = [work EXCEPT ![w] = row], snapshots' = snapshots, Sound(w)'
      PROVE  DeadEndInv'
  <2>1. Only(w)
    BY <1>2, <1>3, <1>7 DEF Only, StoreTypeOK
  <2> QED
    BY <1>7, <2>1, OnlyKeeps
<1>8. CASE work' = [work EXCEPT ![w] = Unleased(work[w], "cancelled")] /\ snapshots' = snapshots
  <2>1. work'[w].status = "cancelled"
    BY <1>1, <1>8 DEF StoreTypeOK
  <2>2. Sound(w)'
    BY <1>0, <1>4, <1>8, <2>1, Stayed
  <2> QED
    BY <1>7, <1>8, <2>2
<1>9. CASE approve /\ ~live /\ work' = [work EXCEPT ![w] = Unleased(work[w], "interrupted")] /\ snapshots' = snapshots
  <2>1. work'[w].status = "interrupted"
    BY <1>1, <1>9 DEF StoreTypeOK
  <2>2. attempts'[w][key] = "ready"
    BY <1>0, <1>2, <1>9 DEF StoreTypeOK
  <2>3. Ready(w)'
    BY <1>0, <2>2 DEF Ready, HasAttempt
  <2>4. daemon \notin Moved
    BY <1>0, <1>9, ReadyIsLive
  <2>5. job'[w] = "idle" /\ daemon' \notin Moved
    BY <1>0, <2>4 DEF Sound, Moved
  <2>6. Uncertain(w)' => Quiet(w)'
    BY <1>0, <1>4, <1>9 DEF Sound, Uncertain
  <2>7. Sound(w)'
    BY <2>1, <2>3, <2>5, <2>6 DEF Sound
  <2> QED
    BY <1>7, <1>9, <2>7
<1> HIDE DEF fresh, live
<1> QED
  BY <1>5, <1>6, <1>8, <1>9
LEMMA CommandDeadEnd ==
  ASSUME StoreTypeOK, DeadEndInv, NEW c \in OwnerCommands, NEW s, MutateWork(c, s), Accepted(c),
         daemon = "running", UNCHANGED <<daemon, job>>
  PROVE  DeadEndInv'
<1>0. c \in ApprovalCommands => c.name \in {"approve", "reject"} /\ c.work \in Works /\ c.key \in ApprovalKeys
  BY DEF ApprovalCommands
<1>1. CASE c.name = "retry" /\ RetryOwnerWork(c.work)
  <2>1. work[c.work].status = "retry_wait"
    BY <1>0, <1>1 DEF Accepted, RetryAccepted
  <2> QED
    BY <1>1, <2>1, CommandParts, RetryFrees
<1>2. CASE c.name = "resume" /\ ResumeWork(c.work, s, c.confirm)
  BY <1>2, CommandParts, ResumeFrees
<1>3. CASE c.name = "cancel" /\ CancelOwnerWork(c.work)
  BY <1>3, CommandParts, CancelFrees
<1>4. CASE c.name = "acknowledge" /\ AcknowledgeOwnerWork(c.work)
  BY <1>4, CommandParts, AcknowledgeFrees
<1>5. CASE c.name = "reconcile" /\ ReconcileOwnerWork(c.work, c.disposition)
  <2>1. ReconcileAccepted(c.work)
    BY <1>0, <1>5 DEF Accepted
  <2> QED
    BY <1>5, <2>1, CommandParts, ReconcileSettles
<1>6. CASE c \in ApprovalCommands /\ DecideOwnerApproval(c.work, c.key, c.name = "approve")
  BY <1>0, <1>6, DecisionStays
<1> QED
  BY <1>1, <1>2, <1>3, <1>4, <1>5, <1>6 DEF MutateWork

LEMMA CliDeadEnd ==
  ASSUME StoreTypeOK, DeadEndInv, Cli
  PROVE  DeadEndInv'
<1>1. PICK c \in CliCommands : CliEffect(c)
  BY DEF Cli
<1>2. c.work \in Works /\ UNCHANGED <<daemon, job>>
  BY CliCommandParts DEF Cli, daemonVars
<1>3. CASE c.name = "retry" /\ \E s \in OpenedSessions : RetryWorkItem(c.work, s)
  BY <1>2, <1>3, RetryFrees DEF RetryWorkItem
<1>4. CASE c.name = "resume" /\ \E s \in OpenedSessions : ResumeWork(c.work, s, c.confirm)
  BY <1>2, <1>4, ResumeFrees
<1>5. CASE c.name = "cancel" /\ CancelWork(c.work)
  BY <1>2, <1>5, CancelFrees
<1>6. CASE c.name = "acknowledge" /\ AcknowledgeOwnerWork(c.work)
  BY <1>2, <1>6, AcknowledgeFrees
<1>7. CASE c.name = "reconcile" /\ ReconcileAccepted(c.work) /\ ReconcileOwnerWork(c.work, c.disposition)
  BY <1>2, <1>7, ReconcileSettles
<1>8. CASE c \in ApprovalCommands /\ DecideAction(c.work, c.key, c.name = "approve")
  <2>1. c.key \in ApprovalKeys
    BY <1>8 DEF ApprovalCommands
  <2> QED
    BY <1>2, <1>8, <2>1, DecisionStays
<1> QED
  BY <1>1, <1>3, <1>4, <1>5, <1>6, <1>7, <1>8 DEF CliEffect

LEMMA StillKeeps ==
  ASSUME DeadEndInv, UNCHANGED <<work, attempts, snapshots, sessions, session, daemon, job>>
  PROVE  DeadEndInv'
  BY Kept, SessionKept DEF DeadEndInv

LEMMA AskDeadEnd ==
  ASSUME OwnerInv, DeadEndInv, NEW a \in Asks, AskStep(a)
  PROVE  DeadEndInv'
<1>0. UNCHANGED <<daemon, job>>
  BY DEF AskStep, Ask, ClaimAsk, ResolvePlain, Handle, BeginAnswer, Deliver, RecordAnswer, CloseAsk,
         Goto, only, daemonVars
<1>1. CASE UNCHANGED storeVars
  BY <1>0, <1>1, StillKeeps DEF storeVars
<1>2. CASE ~UNCHANGED storeVars
  <2> DEFINE c == ask[a].command
  <2>1. Handle(a)
    BY <1>2 DEF AskStep, Ask, ClaimAsk, ResolvePlain, BeginAnswer, Deliver, RecordAnswer, CloseAsk, Goto, only
  <2>2. Accepted(c) /\ MutateWork(c, session) /\ daemon = "running"
    BY <1>2, <2>1 DEF Handle, only, MutateMemory, At, Serving
  <2>3. c \in OwnerCommands
    <3>1. NoCommand.name = "none" /\ NoCommand \notin ApprovalCommands
      BY DEF NoCommand, ApprovalCommands
    <3>2. c # NoCommand
      BY <2>2, <3>1 DEF Accepted
    <3> QED
      BY <3>2 DEF OwnerInv, AnswerInv, AskType
  <2> HIDE DEF c
  <2> QED
    BY <1>0, <2>2, <2>3, CommandDeadEnd DEF OwnerInv
<1> QED
  BY <1>1, <1>2

\* A notice is begun or recorded; it is no action that is ready.
LEMMA NoticeStays ==
  ASSUME StoreTypeOK, DeadEndInv, NEW w \in Works, NEW key \in ResolutionKeys,
         NEW status \in {"executing", "completed", "blocked"}, attempts[w][key] # "ready",
         SetAttempt(w, key, status), UNCHANGED <<daemon, job>>
  PROVE  DeadEndInv'
<1>1. key \in Keys /\ key.kind \in ResolutionKinds
  BY DEF Keys, ResolutionKeys, ReviewKey, UncertainKey, ApprovalNotice, Key, ResolutionKinds
<1>2. /\ attempts' = [attempts EXCEPT ![w][key] = status]
      /\ UNCHANGED <<work, snapshots, sessions, session>>
  BY DEF SetAttempt, Move, onlyAttempts
<1>3. \A x \in Keys : attempts'[w][x] = IF x = key THEN status ELSE attempts[w][x]
  BY <1>2 DEF StoreTypeOK
<1>4. (Quiet(w) => Quiet(w)') /\ (Ready(w) => Ready(w)')
  BY <1>1, <1>3 DEF Quiet, Ready, HasAttempt
<1>5. Sound(w)'
  BY <1>2, <1>4, Stayed DEF DeadEndInv
<1>6. Only(w)
  BY <1>2 DEF Only, StoreTypeOK
<1> QED
  BY <1>5, <1>6, OnlyKeeps

LEMMA NoticesDeadEnd ==
  ASSUME StoreTypeOK, ControlTypes, DeadEndInv, NoticeStep
  PROVE  DeadEndInv'
<1>0. UNCHANGED <<daemon, job>>
  BY NoticesTell DEF Telling
<1>1. CASE UNCHANGED storeVars
  BY <1>0, <1>1, StillKeeps DEF storeVars
<1>2. ASSUME NEW w \in Works, NEW key \in ResolutionKeys, Send(w, key) PROVE DeadEndInv'
  BY <1>0, <1>2, NoticeStays DEF Send, BeginOwnerResolutionNotification
<1>3. CASE Told /\ ~UNCHANGED storeVars
  <2>1. PICK n \in sending, status \in {"completed", "blocked"} : CompleteAttempt(n.work, n.key, status)
    BY <1>3 DEF Told
  <2>2. n.work \in Works /\ n.key \in ResolutionKeys
    BY DEF ControlTypes, Notices
  <2> QED
    BY <1>0, <2>1, <2>2, NoticeStays DEF CompleteAttempt
<1>4. ASSUME NEW w \in Works, Tell(w), ~UNCHANGED storeVars PROVE DeadEndInv'
  BY <1>2, <1>4 DEF Tell, ControlTypes
<1> QED
  BY <1>1, <1>2, <1>3, <1>4 DEF NoticeStep, Retell

\* Recovery records what was executing as blocked; convergence leaves interrupted only
\* what is certain and has no approval to go on with.
LEMMA InterruptSound ==
  ASSUME StoreTypeOK, ControlTypes, DeadEndInv, Interrupt, NEW w \in Works
  PROVE  Sound(w)'
<1>0. Sound(w) /\ daemon = "recovering" /\ daemon' = "recovered" /\ job' = job /\ listed \subseteq Works
  BY DEF Interrupt, Phase, DeadEndInv, ControlTypes
<1>1. InterruptSessionWork(listed)
  BY DEF Interrupt
<1>2. CASE w \notin listed
  BY <1>0, <1>1, <1>2, Passed DEF InterruptSessionWork, Moved
<1>3. CASE w \in listed
  <2>1. Unleased(work[w], "interrupted").status = "interrupted"
    BY RowStatus DEF StoreTypeOK
  <2>2. work'[w].status = "interrupted"
    BY <1>1, <1>3, <2>1 DEF InterruptSessionWork
  <2>3. Quiet(w)'
    BY <1>1, <1>3 DEF InterruptSessionWork, Quiet
  <2>4. job'[w] = "idle" /\ daemon' \notin Moved
    BY <1>0 DEF Sound, Moved
  <2> QED
    BY <2>2, <2>3, <2>4 DEF Sound
<1> QED
  BY <1>2, <1>3

LEMMA ConvergeSound ==
  ASSUME StoreTypeOK, DeadEndInv, Converge, NEW w \in Works
  PROVE  Sound(w)'
<1>0. Sound(w) /\ daemon = "ready" /\ daemon' = "flushing" /\ job' = job /\ attempts' = attempts
  BY DEF Converge, ConvergeInterruptedWork, Phase, Quietly, DeadEndInv
<1>1. job'[w] = "idle"
  BY <1>0 DEF Sound
<1> DEFINE moved == work[w].status = "interrupted" /\ ConvergedStatus(w) # "interrupted"
<1>2. /\ work'[w] = IF moved THEN Converged(w) ELSE work[w]
      /\ snapshots'[w] = IF moved THEN {} ELSE snapshots[w]
  BY DEF Converge, ConvergeInterruptedWork
<1>3. CASE moved
  <2>1. Converged(w).status = ConvergedStatus(w)
    BY DEF Converged, Unleased, StoreTypeOK, WorkRow
  <2> QED
    BY <1>1, <1>2, <1>3, <2>1, Freed
<1>4. CASE work[w].status # "interrupted"
  BY <1>0, <1>1, <1>2, <1>4, Passed
<1>5. CASE work[w].status = "interrupted" /\ ConvergedStatus(w) = "interrupted"
  <2>1. ~Uncertain(w) /\ ~Ready(w)
    BY <1>5 DEF ConvergedStatus, Superseded
  <2>2. Quiet(w)
    BY <1>0, <1>5, <2>1 DEF Sound
  <2>3. Quiet(w)' /\ "uncertain" \notin snapshots'[w]
    BY <1>0, <1>2, <1>5, <2>1, <2>2 DEF Quiet, Uncertain
  <2> QED
    BY <1>1, <2>3, Settled
<1> QED
  BY <1>3, <1>4, <1>5

LEMMA DaemonDeadEnd ==
  ASSUME StoreTypeOK, ControlTypes, DeadEndInv, DaemonStep
  PROVE  DeadEndInv'
<1>0. session \in SessionIds /\ SessionIds \subseteq Nat /\ SessionInv /\ \A w \in Works : Sound(w)
  BY GenerationType DEF StoreTypeOK, DeadEndInv
<1>1. CASE Start
  <2>1. /\ session' = session + 1 /\ sessions' = [sessions EXCEPT ![session + 1] = "starting"]
        /\ daemon' = "starting" /\ daemon = "down" /\ UNCHANGED <<work, attempts, snapshots, job>>
    BY <1>1 DEF Start, CreateOnlineSession, SetSession, Phase, Quietly
  <2>2. SessionInv'
    BY <1>0, <2>1 DEF SessionInv, Moved, StoreTypeOK
  <2>3. \A w \in Works : Sound(w)'
    BY <1>0, <2>1, Passed DEF Moved
  <2> QED
    BY <2>2, <2>3 DEF DeadEndInv
<1>2. CASE List
  <2>1. /\ daemon = "starting" /\ daemon' = "recovering" /\ UNCHANGED <<attempts, snapshots, sessions, session, job>>
        /\ ReadmitPristineWaiting
    BY <1>2 DEF List, ReadmitPristineWaiting, Phase, Quietly
  <2>2. \A w \in Works : work'[w].status = work[w].status
    <3>1. \A w \in Works : [work[w] EXCEPT !.session = session, !.decision = "none"].status = work[w].status
      BY RowStatus DEF StoreTypeOK
    <3> QED
      BY <2>1, <3>1 DEF ReadmitPristineWaiting
  <2>3. \A w \in Works : Sound(w)'
    BY <1>0, <2>1, <2>2, Passed DEF Moved
  <2>4. SessionInv'
    BY <1>0, <2>1 DEF SessionInv, Moved
  <2> QED
    BY <2>3, <2>4 DEF DeadEndInv
<1>3. CASE Interrupt
  <2>1. daemon' = "recovered" /\ UNCHANGED <<sessions, session>>
    BY <1>3 DEF Interrupt, InterruptSessionWork, Phase
  <2>2. SessionInv'
    BY <1>0, <2>1 DEF SessionInv, Moved
  <2> QED
    BY <1>3, <2>2, InterruptSound DEF DeadEndInv
<1>4. CASE MarkReady
  <2>1. /\ sessions' = [sessions EXCEPT ![session] = "ready"] /\ session' = session
        /\ UNCHANGED <<work, attempts, snapshots, job>> /\ daemon = "recovered" /\ daemon' = "ready"
    BY <1>4 DEF MarkReady, MarkCurrentSessionReady, SetSession, Phase, Quietly
  <2>2. SessionInv'
    BY <1>0, <2>1 DEF SessionInv, StoreTypeOK
  <2>3. \A w \in Works : Sound(w)'
    BY <1>0, <2>1, Passed DEF Moved
  <2> QED
    BY <2>2, <2>3 DEF DeadEndInv
<1>5. CASE Converge
  <2>1. daemon = "ready" /\ daemon' = "flushing" /\ UNCHANGED <<sessions, session>>
    BY <1>5 DEF Converge, ConvergeInterruptedWork, Phase
  <2>2. SessionInv'
    BY <1>0, <2>1 DEF SessionInv, Moved
  <2> QED
    BY <1>5, <2>2, ConvergeSound DEF DeadEndInv
<1>6. CASE Flushed \/ Online
  <2>1. /\ daemon \in {"flushing", "telling"} /\ daemon' \in {"telling", "running"}
        /\ UNCHANGED <<work, attempts, snapshots, sessions, session, job>>
    BY <1>6 DEF Flushed, Online, Phase, Quietly, storeVars
  <2>2. SessionInv'
    BY <1>0, <2>1 DEF SessionInv, Moved
  <2>3. \A w \in Works : Sound(w)'
    BY <1>0, <2>1, Passed DEF Moved
  <2> QED
    BY <2>2, <2>3 DEF DeadEndInv
<1>7. CASE Crash
  <2>1. /\ daemon' = "down" /\ job' = [w \in Works |-> "idle"]
        /\ UNCHANGED <<work, attempts, snapshots, sessions, session>>
    BY <1>7 DEF Crash, Phase, storeVars
  <2>2. SessionInv'
    BY <1>0, <2>1 DEF SessionInv, Moved
  <2>3. \A w \in Works : Sound(w)'
    BY <1>0, <2>1, Passed DEF Moved
  <2> QED
    BY <2>2, <2>3 DEF DeadEndInv
<1> QED
  BY <1>1, <1>2, <1>3, <1>4, <1>5, <1>6, <1>7 DEF DaemonStep

LEMMA DeadEndInit == Init => DeadEndInv
<1> SUFFICES ASSUME Init PROVE DeadEndInv
  OBVIOUS
<1>1. /\ work = [w \in Works |-> [status |-> "received", lease |-> NoLease, gen |-> 1,
                                  retry |-> 0, ownerRetry |-> 0, session |-> 1, decision |-> "none"]]
      /\ snapshots = [w \in Works |-> {}] /\ job = [w \in Works |-> "idle"]
      /\ sessions = [s \in SessionIds |-> IF s = 1 THEN "starting" ELSE "unused"] /\ session = 1
      /\ daemon = "recovered"
  BY Zenon DEF Init, StoreInit
<1>2. SessionInv
  BY <1>1, GenerationType DEF SessionInv, Moved
<1> QED
  BY <1>1, <1>2 DEF DeadEndInv, Sound, Uncertain

LEMMA DeadEndStep == OwnerInv /\ DeadEndInv /\ [Next]_vars => DeadEndInv'
<1> SUFFICES ASSUME OwnerInv, DeadEndInv, [Next]_vars PROVE DeadEndInv'
  OBVIOUS
<1>0. StoreTypeOK /\ ControlTypes
  BY DEF OwnerInv
<1>1. CASE UNCHANGED vars
  BY <1>1, StillKeeps DEF vars, ownerVars, storeVars
<1>2. ASSUME NEW a \in Asks, AskStep(a) PROVE DeadEndInv'
  BY <1>2, AskDeadEnd
<1>3. ASSUME NEW w \in Works, WorkStep(w) PROVE DeadEndInv'
  BY <1>3, WorkDeadEnd
<1>4. CASE DaemonStep \/ NoticeStep \/ Cli
  BY <1>0, <1>4, DaemonDeadEnd, NoticesDeadEnd, CliDeadEnd
<1> QED
  BY <1>1, <1>2, <1>3, <1>4 DEF Next

\* One at least of the commands that interrupted or dead work is shown with would be
\* accepted, however it was interrupted, decided, reconciled or resumed before, unless
\* a notice about interrupted work is executing (ownerTaskCommands of the control
\* handler, against the conditions of the store).  Dead work can be approved or
\* acknowledged.  What is interrupted while the daemon serves is certain and nothing
\* of it is executing but a notice, so it can be approved or cancelled.
THEOREM CommandsHaveEffect == Spec => []NoDeadEnd
<1>1. DeadEndInv => NoDeadEnd
  <2> SUFFICES ASSUME DeadEndInv, daemon = "running", NEW w \in Works, ActionView(w),
                      work[w].status # "awaiting_approval",
                      ~(work[w].status = "interrupted" /\ HasAttempt(w, ResolutionKinds, {"executing"}))
               PROVE  \E c \in Offered(w) : Accepted(c)
    BY DEF NoDeadEnd
  <2>1. /\ work[w].status \in {"interrupted", "dead_letter"} /\ ~Uncertain(w)
        /\ work[w].status = "interrupted" => Quiet(w)
    BY DEF ActionView, DeadEndInv, Sound, Moved
  <2>2. CASE newest[w] \in ApprovalKeys /\ attempts[w][newest[w]] = "awaiting_approval"
    <3> DEFINE c == [name |-> "approve", work |-> w, key |-> newest[w]]
    <3>1. c \in Offered(w)
      BY <2>1, <2>2 DEF Offered
    <3>2. c \in ApprovalCommands
      BY <2>2 DEF ApprovalCommands
    <3>3. Accepted(c)
      BY <2>2, <3>2 DEF Accepted
    <3> QED
      BY <3>1, <3>3
  <2>3. CASE ~(newest[w] \in ApprovalKeys /\ attempts[w][newest[w]] = "awaiting_approval")
    <3>1. CASE work[w].status = "dead_letter"
      <4> DEFINE c == [name |-> "acknowledge", work |-> w]
      <4>1. Offered(w) = {[name |-> "resume", work |-> w, confirm |-> TRUE], c}
        BY <2>1, <2>3, <3>1 DEF Offered
      <4>2. Accepted(c)
        BY <3>1 DEF Accepted, AcknowledgeAccepted, Terminal
      <4> QED
        BY <4>1, <4>2
    <3>2. CASE work[w].status = "interrupted"
      <4> DEFINE c == [name |-> "cancel", work |-> w]
      <4>1. Offered(w) = {[name |-> "resume", work |-> w, confirm |-> FALSE], c}
        BY <2>1, <2>3, <3>2 DEF Offered
      <4>2. ~Executing(w)
        BY <2>1, <3>2 DEF Executing, Quiet, HasAttempt
      <4>3. Accepted(c)
        BY <2>1, <3>2, <4>2 DEF Accepted, CancelAccepted, Cancellable, Unresolved
      <4> QED
        BY <4>1, <4>3
    <3> QED
      BY <2>1, <3>1, <3>2
  <2> QED
    BY <2>2, <2>3
<1> QED
  BY OwnerInit, OwnerStep, DeadEndInit, DeadEndStep, <1>1, PTL DEF Spec

-----------------------------------------------------------------------------
(* What the owner acknowledged rests.                                        *)

\* An acknowledgement stands only as long as the work is as it was then: terminal.
AckInv == \A w \in Works : resolved[w] = "acknowledged" => work[w].status \in Terminal

LEMMA AckInit == Init => AckInv
  BY DEF Init, AckInv

LEMMA TouchAck ==
  ASSUME AckInv, Touch \/ UNCHANGED <<resolved, work>>
  PROVE  AckInv'
  BY DEF AckInv, Touch, Outdated

LEMMA AcknowledgeEnds ==
  ASSUME StoreTypeOK, NEW w \in Works, AcknowledgeAccepted(w), AcknowledgeOwnerWork(w)
  PROVE  work'[w].status \in Terminal
<1>1. Unleased(work[w], "cancelled").status = "cancelled"
  BY RowStatus DEF StoreTypeOK
<1>2. work' = [work EXCEPT ![w] = IF work[w].status = "interrupted" THEN Unleased(work[w], "cancelled") ELSE work[w]]
  BY DEF AcknowledgeOwnerWork, Drop
<1> QED
  BY <1>1, <1>2 DEF AcknowledgeAccepted, StoreTypeOK, Terminal

\* Only an acknowledgement records one.
LEMMA ResolveAck ==
  ASSUME AckInv, NEW c \in OwnerCommands, Resolve(c),
         c.name = "acknowledge" => work'[c.work].status \in Terminal
  PROVE  AckInv'
<1>1. ASSUME NEW v \in Works, resolved'[v] = "acknowledged" PROVE work'[v].status \in Terminal
  <2>1. Outdated[v] = "acknowledged" => work'[v].status \in Terminal
    BY DEF Outdated, AckInv
  <2>2. DOMAIN Outdated = Works
    BY DEF Outdated
  <2>3. CASE c.name = "acknowledge"
    <3>1. resolved' = [Outdated EXCEPT ![c.work] = "acknowledged"]
      BY <2>3 DEF Resolve
    <3> HIDE DEF Outdated
    <3> QED
      BY <1>1, <2>1, <2>2, <2>3, <3>1
  <2>4. CASE c.name = "reconcile"
    <3>1. c.disposition # "acknowledged"
      BY <2>4, CommandParts DEF Dispositions
    <3>2. resolved' = [Outdated EXCEPT ![c.work] = c.disposition]
      BY <2>4 DEF Resolve
    <3> HIDE DEF Outdated
    <3> QED
      BY <1>1, <2>1, <2>2, <3>1, <3>2
  <2>5. CASE c.name \notin {"acknowledge", "reconcile"}
    BY <1>1, <2>1, <2>5 DEF Resolve
  <2> QED
    BY <2>3, <2>4, <2>5
<1> QED
  BY <1>1 DEF AckInv

LEMMA AckStep == OwnerInv /\ AckInv /\ [Next]_vars => AckInv'
<1> SUFFICES ASSUME OwnerInv, AckInv, [Next]_vars PROVE AckInv'
  OBVIOUS
<1>0. StoreTypeOK
  BY DEF OwnerInv
<1>1. ASSUME NEW a \in Asks, AskStep(a) PROVE AckInv'
  <2>1. CASE UNCHANGED <<resolved, work>>
    BY <2>1, TouchAck
  <2>2. CASE ~UNCHANGED <<resolved, work>>
    <3> DEFINE c == ask[a].command
    <3>1. Handle(a)
      BY <1>1, <2>2 DEF AskStep, Ask, ClaimAsk, ResolvePlain, BeginAnswer, Deliver, RecordAnswer, CloseAsk,
                        Goto, only, storeVars
    <3>2. Accepted(c) /\ MutateWork(c, session)
      BY <2>2, <3>1 DEF Handle, only, MutateMemory, storeVars
    <3>3. c \in OwnerCommands
      <4>1. NoCommand.name = "none" /\ NoCommand \notin ApprovalCommands
        BY DEF NoCommand, ApprovalCommands
      <4>2. c # NoCommand
        BY <3>2, <4>1 DEF Accepted
      <4> QED
        BY <4>2 DEF OwnerInv, AnswerInv, AskType
    <3>4. Resolve(c)
      BY <3>2 DEF MutateWork
    <3>5. c \in ApprovalCommands => c.name \in {"approve", "reject"}
      BY DEF ApprovalCommands
    <3>6. ASSUME c.name = "acknowledge" PROVE work'[c.work].status \in Terminal
      <4>1. AcknowledgeAccepted(c.work) /\ AcknowledgeOwnerWork(c.work)
        BY <3>2, <3>5, <3>6 DEF Accepted, MutateWork
      <4> QED
        BY <1>0, <3>3, <3>6, <4>1, CommandParts, AcknowledgeEnds
    <3> HIDE DEF c
    <3> QED
      BY <3>3, <3>4, <3>6, ResolveAck
  <2> QED
    BY <2>1, <2>2
<1>2. CASE (\E w \in Works : WorkStep(w)) \/ DaemonStep \/ NoticeStep
  <2>1. Touch
    BY <1>2, WorkAdvances, DaemonPhases, NoticesTell DEF Advance, Phase, Telling
  <2> QED
    BY <2>1, TouchAck
<1>3. CASE Cli
  <2>1. PICK c \in CliCommands : CliEffect(c) /\ Resolve(c)
    BY <1>3 DEF Cli
  <2>2. c \in ApprovalCommands => c.name \in {"approve", "reject"}
    BY DEF ApprovalCommands
  <2>3. ASSUME c.name = "acknowledge" PROVE work'[c.work].status \in Terminal
    <3>1. AcknowledgeAccepted(c.work) /\ AcknowledgeOwnerWork(c.work)
      BY <2>1, <2>2, <2>3 DEF CliEffect
    <3> QED
      BY <1>0, <3>1, CliCommandParts, AcknowledgeEnds
  <2> QED
    BY <2>1, <2>3, CliCommandParts, ResolveAck
<1>4. CASE UNCHANGED vars
  BY <1>4, TouchAck DEF vars, ownerVars, storeVars
<1> QED
  BY <1>1, <1>2, <1>3, <1>4 DEF Next

\* The daemon leaves terminal work terminal, but for what recovery had listed.
LEMMA DaemonLeaves ==
  ASSUME DaemonStep, NEW w \in Works, work[w].status \in Terminal, StoreTypeOK
  PROVE  /\ w \in listed' => w \in listed
         /\ work'[w].status \notin Terminal => w \in listed
<1>1. CASE Start \/ MarkReady \/ Flushed \/ Online \/ Crash
  BY <1>1 DEF Start, MarkReady, Flushed, Online, Crash, CreateOnlineSession, MarkCurrentSessionReady,
              SetSession, storeVars
<1>2. CASE List
  <2>1. w \notin PriorWork /\ work[w].status # "waiting_user"
    BY DEF PriorWork, Interruptible, Active, Terminal
  <2> QED
    BY <1>2, <2>1 DEF List, ReadmitPristineWaiting
<1>3. CASE Interrupt
  BY <1>3 DEF Interrupt, InterruptSessionWork
<1>4. CASE Converge
  BY <1>4 DEF Converge, ConvergeInterruptedWork, Terminal
<1> QED
  BY <1>1, <1>2, <1>3, <1>4 DEF DaemonStep

LEMMA RestsStep == OwnerInv /\ AckInv /\ [Next]_vars =>
                     [\A w \in Works : resolved[w] = "acknowledged" =>
                        /\ w \in listed' => w \in listed
                        /\ work'[w].status \notin Terminal =>
                             journal' # journal \/ cli' # cli \/ w \in listed]_vars
<1> SUFFICES ASSUME OwnerInv, AckInv, Next, NEW w \in Works, resolved[w] = "acknowledged"
             PROVE  /\ w \in listed' => w \in listed
                    /\ work'[w].status \notin Terminal =>
                         journal' # journal \/ cli' # cli \/ w \in listed
  OBVIOUS
<1>0. work[w].status \in Terminal /\ StoreTypeOK
  BY DEF AckInv, OwnerInv
<1>1. ASSUME NEW a \in Asks, AskStep(a) PROVE listed' = listed /\ (work' = work \/ journal' # journal)
  BY <1>1 DEF AskStep, Ask, ClaimAsk, ResolvePlain, Handle, BeginAnswer, Deliver, RecordAnswer, CloseAsk,
              Goto, only, daemonVars, MutateMemory, storeVars
<1>2. ASSUME NEW v \in Works, WorkStep(v) PROVE listed' = listed /\ work'[w] = work[w]
  <2>1. listed' = listed
    BY <1>2, WorkAdvances DEF Advance, daemonVars
  <2>2. Writes(v)
    BY <1>0, <1>2, WorkWrites
  <2>3. work'[w] = work[w]
    BY <1>0, <2>2 DEF Writes, Claimable, Terminal
  <2> QED
    BY <2>1, <2>3
<1>3. CASE NoticeStep
  <2>1. listed' = listed
    BY <1>3, NoticesTell DEF Telling
  <2>2. work' = work
    BY <1>3 DEF NoticeStep, Told, Tell, Retell, Send, BeginOwnerResolutionNotification, CompleteAttempt,
                SetAttempt, onlyAttempts, storeVars
  <2> QED
    BY <1>0, <2>1, <2>2
<1>4. CASE Cli
  BY <1>4 DEF Cli, daemonVars, OwnerInv, ControlTypes
<1> QED
  BY <1>0, <1>1, <1>2, <1>3, <1>4, DaemonLeaves DEF Next

\* What the owner has acknowledged is taken up again by another command of the owner
\* only, by no worker that had it in hand and by no recovery but one that had listed
\* the work before (resolveOwnerWorkTx).
THEOREM AcknowledgedStays == Spec => AcknowledgedRests
  BY OwnerInit, OwnerStep, AckInit, AckStep, RestsStep, PTL DEF Spec, AcknowledgedRests

=============================================================================
