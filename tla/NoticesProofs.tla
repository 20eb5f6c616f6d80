--------------------------- MODULE NoticesProofs ---------------------------
(***************************************************************************)
(* Proofs about Notices: who may send a notice, what closes a requirement, *)
(* what is never sent again, and when the daemon may say that it is        *)
(* offline.                                                                *)
(*                                                                         *)
(* SendInv ties the rows to the sends that are under way: a requirement's  *)
(* notice is executing while somebody sends it, so that a second sender,   *)
(* which needs a row that is missing or blocked, cannot begin.  A notice   *)
(* that a crash left behind is executing too, and nobody sends it.         *)
(***************************************************************************)
EXTENDS Notices, TLAPS

LoopStages == {"down", "recover", "converge", "pending", "retry", "require", "report",
               "online", "serve", "stopping", "offline"}
HandlerStages == {"off", "list", "text", "requirement", "end"}

\* What the main loop and the handlers hold: lists of rows that exist.
PlaceInv ==
    /\ loop \in [pc : LoopStages, starting : BOOLEAN, todo : SUBSET Notes, report : SUBSET Texts]
    /\ loop.pc = "require" => loop.todo \subseteq Requirements
    /\ handler \in [Items -> [pc : HandlerStages, death : Nat]]
    /\ \A i \in Items : handler[i].pc = "requirement" => handler[i].death \in Deaths

Sends == {Idle} \cup [stage : {"begun", "accepted", "failed", "retrying"}, note : Notes]

SendInv ==
    /\ notice \in [Notes -> Status]
    /\ required \in [Requirements -> Status]
    /\ lost \subseteq Notes
    /\ sender \in [Senders -> Sends]
    /\ \A p \in Senders : sender[p].stage = "retrying" => sender[p].note \in Texts
    /\ \A p \in Senders : ~Free(p) => sender[p].note \notin lost
    /\ \A n \in lost : notice[n] = "executing"
    /\ \A p \in Senders : ~Free(p) /\ sender[p].note \in Requirements => notice[sender[p].note] = "executing"
    /\ OneSender
    /\ ClosedByNotice

-----------------------------------------------------------------------------
(* Notices and senders.                                                      *)

\* A notice by requirement is never one by its text.
LEMMA Kinds == \A r \in Requirements : r \notin Texts
<1> SUFFICES ASSUME NEW r \in Requirements, r \in Texts PROVE FALSE
  OBVIOUS
<1>1. DOMAIN r = {"item", "death"}
  BY DEF Requirements
<1>2. DOMAIN r = {"item", "text"}
  BY DEF Texts
<1>3. "text" \notin {"item", "death"}
  OBVIOUS
<1> QED
  BY <1>1, <1>2, <1>3

LEMMA SendInit == Init => SendInv
  BY Kinds DEF Init, SendInv, Sends, Idle, Status, Senders, Notes, Free, OneSender, ClosedByNotice

LEMMA PlaceInit == Init => PlaceInv
  BY DEF Init, PlaceInv, LoopStages, HandlerStages

\* A sender that does not send is Idle; one that does has a note.
LEMMA Sending ==
  ASSUME SendInv, NEW p \in Senders
  PROVE  /\ Free(p) <=> sender[p] = Idle
         /\ ~Free(p) => sender[p] \in [stage : {"begun", "accepted", "failed", "retrying"}, note : Notes]
  BY DEF SendInv, Sends, Idle, Free

-----------------------------------------------------------------------------
(* Where the loop and the handlers are.                                      *)

LEMMA PlaceStep == PlaceInv /\ [Next]_noticeVars => PlaceInv'
<1> SUFFICES ASSUME PlaceInv, [Next]_noticeVars PROVE PlaceInv'
  OBVIOUS
<1>1. ASSUME UNCHANGED <<loop, handler>> PROVE PlaceInv'
  BY <1>1 DEF PlaceInv
<1>2. ASSUME handler' = handler,
             loop' \in [pc : LoopStages, starting : BOOLEAN, todo : SUBSET Notes, report : SUBSET Texts],
             loop'.pc = "require" => loop'.todo \subseteq Requirements
      PROVE  PlaceInv'
  BY <1>2 DEF PlaceInv
<1>3. ASSUME loop' = loop, NEW i \in Items, NEW h \in [pc : HandlerStages, death : Nat],
             handler' = [handler EXCEPT ![i] = h], h.pc = "requirement" => h.death \in Deaths
      PROVE  PlaceInv'
  BY <1>3 DEF PlaceInv
<1>4. CASE LoopStep
  <2>1. CASE ConvergeRequirements
    BY <1>2, <2>1 DEF ConvergeRequirements, Goto, PlaceInv, LoopStages
  <2>2. CASE ListPending
    BY <1>2, <2>2 DEF ListPending, PlaceInv, LoopStages
  <2>3. CASE Retry
    BY <1>2, <2>3 DEF Retry, PlaceInv, AtLoop, LoopStages
  <2>4. CASE ListRequired
    BY <1>2, <2>4 DEF ListRequired, PlaceInv, LoopStages, Notes
  <2>5. CASE Require
    BY <1>2, <2>5 DEF Require, PlaceInv, LoopStages
  <2>6. CASE Flushed
    BY <1>2, <2>6 DEF Flushed, Goto, PlaceInv, LoopStages
  <2>7. CASE Report
    BY <1>2, <2>7 DEF Report, AtLoop, PlaceInv, LoopStages
  <2> QED
    BY <1>4, <2>1, <2>2, <2>3, <2>4, <2>5, <2>6, <2>7 DEF LoopStep
<1>5. CASE Boot
  <2>1. CASE Start
    BY <1>2, <2>1 DEF Start, PlaceInv, LoopStages
  <2>2. CASE Converge
    <3>1. PICK next \in [Items -> {"queued", "held", "dead"}] :
             loop' = [loop EXCEPT !.pc = "converge",
                       !.report = {[item |-> i, text |-> IF next[i] = "dead" THEN "uncertain" ELSE "review"] :
                                     i \in {j \in Items : next[j] # "queued" /\ item[j].status = "working"}}]
      BY <2>2 DEF Converge
    <3> DEFINE report == {[item |-> i, text |-> IF next[i] = "dead" THEN "uncertain" ELSE "review"] :
                            i \in {j \in Items : next[j] # "queued" /\ item[j].status = "working"}}
    <3>2. report \subseteq Texts
      BY DEF Texts
    <3>3. loop' = [loop EXCEPT !.pc = "converge", !.report = report]
      BY <3>1
    <3> HIDE DEF report
    <3> QED
      BY <1>2, <2>2, <3>2, <3>3 DEF Converge, PlaceInv, LoopStages
  <2>3. CASE Announce
    BY <1>2, <2>3 DEF Announce, Goto, rest, PlaceInv, LoopStages
  <2>4. CASE Announced
    BY <1>2, <2>4 DEF Announced, Goto, rest, PlaceInv, LoopStages
  <2> QED
    BY <1>5, <2>1, <2>2, <2>3, <2>4 DEF Boot
<1>6. CASE SendStep
  BY <1>1, <1>6 DEF SendStep, RetryText, Transmit, Complete
<1>7. CASE Tick \/ Stop
  BY <1>2, <1>7 DEF Tick, Stop, Goto, rest, PlaceInv, LoopStages
<1>8. CASE Crash
  BY <1>8 DEF Crash, PlaceInv, LoopStages, HandlerStages
<1>9. ASSUME NEW i \in Items, HandlerStep(i) PROVE PlaceInv'
  <2>1. CASE Find(i)
    <3>1. PICK h \in [pc : HandlerStages, death : Nat] :
             /\ handler' = [handler EXCEPT ![i] = h]
             /\ h.pc = "requirement" => h.death \in Deaths
      <4>1. CASE Continue(i, "text")
        <5> DEFINE h == [handler[i] EXCEPT !.pc = "text"]
        <5>1. h \in [pc : HandlerStages, death : Nat] /\ h.pc = "text"
          BY DEF PlaceInv, HandlerStages
        <5>2. handler' = [handler EXCEPT ![i] = h] /\ h.pc # "requirement"
          BY <4>1, <5>1 DEF Continue
        <5> HIDE DEF h
        <5> QED
          BY <5>1, <5>2
      <4>2. CASE \E d \in Deaths : handler' = [handler EXCEPT ![i] = [pc |-> "requirement", death |-> d]]
        <5>1. PICK d \in Deaths : handler' = [handler EXCEPT ![i] = [pc |-> "requirement", death |-> d]]
          BY <4>2
        <5>2. [pc |-> "requirement", death |-> d] \in [pc : HandlerStages, death : Nat]
          BY DEF Deaths, HandlerStages
        <5> QED
          BY <5>1, <5>2
      <4> QED
        BY <2>1, <4>1, <4>2 DEF Find
    <3> QED
      BY <1>3, <2>1, <3>1 DEF Find
  <2>2. CASE TellRequirement(i) \/ TellText(i)
    <3> DEFINE h == [handler[i] EXCEPT !.pc = "end"]
    <3>1. h \in [pc : HandlerStages, death : Nat] /\ h.pc = "end"
      BY DEF PlaceInv, HandlerStages
    <3>2. loop' = loop /\ handler' = [handler EXCEPT ![i] = h]
      BY <2>2 DEF TellRequirement, TellText, Continue
    <3> QED
      BY <1>3, <3>1, <3>2
  <2>3. CASE End(i)
    BY <1>3, <2>3 DEF End, HandlerStages
  <2> QED
    BY <1>9, <2>1, <2>2, <2>3 DEF HandlerStep
<1>10. ASSUME NEW i \in Items, WorkStep(i) PROVE PlaceInv'
  <2>1. CASE DieWaiting(i) \/ DieFailing(i)
    <3> DEFINE h == [handler[i] EXCEPT !.pc = "list"]
    <3>1. h \in [pc : HandlerStages, death : Nat] /\ h.pc = "list"
      BY DEF PlaceInv, HandlerStages
    <3>2. loop' = loop /\ handler' = [handler EXCEPT ![i] = h]
      BY <2>1 DEF DieWaiting, DieFailing, Continue
    <3> QED
      BY <1>3, <3>1, <3>2
  <2>2. CASE Work(i) \/ Resume(i) \/ Revive(i)
    BY <1>1, <2>2 DEF Work, Resume, Revive
  <2> QED
    BY <1>10, <2>1, <2>2 DEF WorkStep
<1>11. CASE UNCHANGED noticeVars
  BY <1>1, <1>11 DEF noticeVars
<1> QED
  BY <1>4, <1>5, <1>6, <1>7, <1>8, <1>9, <1>10, <1>11 DEF Next
-----------------------------------------------------------------------------
(* Who sends what.                                                           *)

\* A step that begins no send: rows that are executing stay so, no row vanishes,
\* and a requirement is closed over a notice only.
LEMMA RowsMove ==
  ASSUME SendInv, sender' = sender, lost' = lost,
         notice' \in [Notes -> Status], required' \in [Requirements -> Status],
         \A n \in Notes : notice[n] = "executing" => notice'[n] = "executing",
         \A n \in Notes : notice[n] # "none" => notice'[n] # "none",
         \A r \in Requirements : required'[r] = "completed" => required[r] = "completed" \/ notice'[r] # "none"
  PROVE  SendInv'
<1>1. \A p \in Senders : ~Free(p) => sender[p].note \in Notes
  BY Sending
<1>2. ClosedByNotice'
  BY DEF SendInv, ClosedByNotice, Notes
<1>3. OneSender'
  BY DEF SendInv, OneSender, Free
<1>4. \A p \in Senders : ~Free(p)' /\ (sender[p].note)' \in Requirements => notice'[(sender[p].note)'] = "executing"
  BY <1>1 DEF SendInv, Free
<1>5. \A n \in lost' : notice'[n] = "executing"
  BY DEF SendInv
<1> QED
  BY <1>2, <1>3, <1>4, <1>5 DEF SendInv, Free

\* A send begins on a row that nobody is sending: it was missing or blocked.
LEMMA SendBegins ==
  ASSUME SendInv, NEW p \in Senders, NEW n \in Notes, notice[n] \in {"none", "blocked"},
         Free(p) \/ sender[p].stage = "retrying",
         notice' = [notice EXCEPT ![n] = "executing"], Begun(p, n), lost' = lost,
         required' \in [Requirements -> Status],
         \A r \in Requirements : required'[r] = "completed" => required[r] = "completed" \/ r = n
  PROVE  SendInv'
<1> DEFINE row == [stage |-> "begun", note |-> n]
<1>1. row \in Sends /\ row.note = n /\ row.stage = "begun"
  BY DEF Sends
<1>2. sender' = [sender EXCEPT ![p] = row]
  BY DEF Begun
<1> HIDE DEF row
<1>3. sender'[p] = row /\ \A q \in Senders : q # p => sender'[q] = sender[q]
  BY <1>2 DEF SendInv
<1>4. sender' \in [Senders -> Sends] /\ notice' \in [Notes -> Status]
  BY <1>1, <1>2 DEF SendInv, Status
<1>5. n \notin lost
  BY DEF SendInv
<1>6. \A q \in Senders : ~Free(q) /\ sender[q].note \in Requirements => sender[q].note # n
  BY DEF SendInv
<1>7. \A q \in Senders : ~Free(q) => sender[q].note \in Notes
  BY Sending
<1>8. notice'[n] = "executing" /\ \A m \in Notes : m # n => notice'[m] = notice[m]
  BY DEF SendInv
<1>9. \A q \in Senders : /\ sender'[q].stage = "retrying" => sender'[q].note \in Texts
                         /\ ~Free(q)' => sender'[q].note \notin lost'
  BY <1>1, <1>3, <1>5 DEF SendInv, Free
<1>10. \A m \in lost' : notice'[m] = "executing"
  BY <1>5, <1>8 DEF SendInv
<1>11. \A q \in Senders : ~Free(q)' /\ sender'[q].note \in Requirements => notice'[sender'[q].note] = "executing"
  <2> SUFFICES ASSUME NEW q \in Senders, ~Free(q)', sender'[q].note \in Requirements
               PROVE  notice'[sender'[q].note] = "executing"
    OBVIOUS
  <2>1. CASE q = p
    BY <2>1, <1>1, <1>3, <1>8
  <2>2. CASE q # p
    BY <2>2, <1>3, <1>6, <1>7, <1>8 DEF SendInv, Free
  <2> QED
    BY <2>1, <2>2
<1>12. OneSender'
  <2> SUFFICES ASSUME NEW q \in Senders, NEW t \in Senders, q # t, ~Free(q)', ~Free(t)',
                      sender'[q].note \in Requirements
               PROVE  sender'[q].note # sender'[t].note
    BY DEF OneSender
  <2>1. CASE q = p
    BY <2>1, <1>1, <1>3, <1>6 DEF Free
  <2>2. CASE t = p
    BY <2>2, <1>1, <1>3, <1>6 DEF Free
  <2>3. CASE q # p /\ t # p
    BY <2>3, <1>3 DEF SendInv, OneSender, Free
  <2> QED
    BY <2>1, <2>2, <2>3
<1>13. ClosedByNotice'
  BY <1>8 DEF SendInv, ClosedByNotice, Notes
<1> QED
  BY <1>4, <1>9, <1>10, <1>11, <1>12, <1>13 DEF SendInv

\* A send goes on: its stage moves, its note stays, or it ends.
LEMMA SendGoesOn ==
  ASSUME SendInv, NEW p \in Senders, ~Free(p), NEW row \in Sends, sender' = [sender EXCEPT ![p] = row],
         row # Idle => row.note = sender[p].note /\ row.stage # "retrying",
         notice' = notice \/ (/\ row = Idle \/ sender[p].note \in Texts
                              /\ notice[sender[p].note] # "none"
                              /\ \E s \in Status \ {"none"} : notice' = [notice EXCEPT ![sender[p].note] = s]),
         lost' = lost, required' = required
  PROVE  SendInv'
<1> DEFINE n == sender[p].note
<1>1. n \in Notes /\ n \notin lost
  BY Sending DEF SendInv
<1>2. sender'[p] = row /\ \A q \in Senders : q # p => sender'[q] = sender[q]
  BY DEF SendInv
<1>3. /\ notice' \in [Notes -> Status] /\ \A m \in Notes : m # n => notice'[m] = notice[m]
      /\ notice[n] # "none" => notice'[n] # "none"
  BY <1>1 DEF SendInv
<1>4. row \in Sends /\ (row # Idle => row.stage # "idle")
  BY DEF Sends, Idle
<1>5. sender' \in [Senders -> Sends]
  BY DEF SendInv
<1>6. \A q \in Senders : /\ sender'[q].stage = "retrying" => sender'[q].note \in Texts
                         /\ ~Free(q)' => sender'[q].note \notin lost'
  BY <1>1, <1>2, <1>4 DEF SendInv, Free, Idle
<1>7. \A m \in lost' : notice'[m] = "executing"
  BY <1>1, <1>3 DEF SendInv
<1>8. \A q \in Senders : ~Free(q)' /\ sender'[q].note \in Requirements => notice'[sender'[q].note] = "executing"
  <2> SUFFICES ASSUME NEW q \in Senders, ~Free(q)', sender'[q].note \in Requirements
               PROVE  notice'[sender'[q].note] = "executing"
    OBVIOUS
  <2>1. CASE q = p
    <3>1. row # Idle /\ n \in Requirements /\ sender'[q].note = n
      BY <2>1, <1>2 DEF Free, Idle
    <3>2. notice' = notice
      BY <3>1, Kinds
    <3> QED
      BY <3>1, <3>2 DEF SendInv
  <2>2. CASE q # p
    <3>1. ~Free(q) /\ sender'[q].note = sender[q].note
      BY <2>2, <1>2 DEF Free
    <3>2. sender[q].note # n
      BY <2>2, <3>1 DEF SendInv, OneSender
    <3> QED
      BY <3>1, <3>2, <1>3, Sending DEF SendInv
  <2> QED
    BY <2>1, <2>2
<1>9. OneSender'
  <2> SUFFICES ASSUME NEW q \in Senders, NEW t \in Senders, q # t, ~Free(q)', ~Free(t)',
                      sender'[q].note \in Requirements
               PROVE  sender'[q].note # sender'[t].note
    BY DEF OneSender
  <2>1. ASSUME NEW u \in Senders, ~Free(u)' PROVE ~Free(u) /\ sender'[u].note = sender[u].note
    BY <2>1, <1>2 DEF Free, Idle
  <2> QED
    BY <2>1 DEF SendInv, OneSender
<1>10. ClosedByNotice'
  BY <1>3 DEF SendInv, ClosedByNotice, Notes
<1> QED
  BY <1>3, <1>5, <1>6, <1>7, <1>8, <1>9, <1>10 DEF SendInv
\* BeginRequirement and BeginText, by whoever begins.
LEMMA RequirementBegins ==
  ASSUME SendInv, NEW p \in Senders, Free(p), NEW r \in Requirements, BeginRequirement(p, r), lost' = lost
  PROVE  SendInv'
<1>1. r \in Notes
  BY DEF Notes
<1>2. CASE UNCHANGED <<required, notice, sender>>
  BY <1>2, RowsMove DEF SendInv
<1>3. CASE required' = [required EXCEPT ![r] = "cancelled"] /\ UNCHANGED <<notice, sender>>
  BY <1>3, RowsMove DEF SendInv, Status
<1>4. CASE /\ required' = [required EXCEPT ![r] = "completed"]
           /\ notice[r] \in {"none", "blocked"}
           /\ notice' = [notice EXCEPT ![r] = "executing"] /\ Begun(p, r)
  BY <1>1, <1>4, SendBegins DEF SendInv, Status
<1>5. CASE /\ required' = [required EXCEPT ![r] = "completed"]
           /\ notice[r] \notin {"none", "blocked"} /\ UNCHANGED <<notice, sender>>
  BY <1>5, RowsMove DEF SendInv, Status
<1> QED
  BY <1>2, <1>3, <1>4, <1>5 DEF BeginRequirement

LEMMA TextBegins ==
  ASSUME SendInv, NEW p \in Senders, Free(p), NEW n \in Texts, BeginText(p, n), lost' = lost, required' = required
  PROVE  SendInv'
<1>1. n \in Notes /\ n \notin Requirements
  BY Kinds DEF Notes
<1>2. CASE UNCHANGED <<notice, sender>>
  BY <1>2, RowsMove DEF SendInv
<1>3. CASE notice[n] = "none" /\ notice' = [notice EXCEPT ![n] = "executing"] /\ Begun(p, n)
  BY <1>1, <1>3, SendBegins DEF SendInv
<1>4. CASE notice[n] = "blocked" /\ sender' = [sender EXCEPT ![p] = [stage |-> "retrying", note |-> n]]
           /\ UNCHANGED notice
  <2> DEFINE row == [stage |-> "retrying", note |-> n]
  <2>1. row \in Sends /\ row.note = n /\ row.stage = "retrying"
    BY <1>1 DEF Sends
  <2>2. sender' = [sender EXCEPT ![p] = row]
    BY <1>4
  <2> HIDE DEF row
  <2>3. sender' \in [Senders -> Sends] /\ sender'[p] = row /\ \A q \in Senders : q # p => sender'[q] = sender[q]
    BY <2>1, <2>2 DEF SendInv
  <2>4. n \notin lost
    BY <1>4 DEF SendInv
  <2>5. \A q \in Senders : /\ sender'[q].stage = "retrying" => sender'[q].note \in Texts
                           /\ ~Free(q)' => sender'[q].note \notin lost'
                           /\ ~Free(q)' /\ sender'[q].note \in Requirements => notice'[sender'[q].note] = "executing"
    BY <1>1, <1>4, <2>1, <2>3, <2>4 DEF SendInv, Free
  <2>6. OneSender'
    <3> SUFFICES ASSUME NEW q \in Senders, NEW t \in Senders, q # t, ~Free(q)', ~Free(t)',
                        sender'[q].note \in Requirements
                 PROVE  sender'[q].note # sender'[t].note
      BY DEF OneSender
    <3>1. q # p
      BY <1>1, <2>1, <2>3
    <3>2. CASE t = p
      BY <1>1, <2>1, <2>3, <3>1, <3>2
    <3>3. CASE t # p
      BY <2>3, <3>1, <3>3 DEF SendInv, OneSender, Free
    <3> QED
      BY <3>2, <3>3
  <2>7. ClosedByNotice'
    BY <1>4 DEF SendInv, ClosedByNotice
  <2> QED
    BY <1>4, <2>3, <2>5, <2>6, <2>7 DEF SendInv
<1> QED
  BY <1>2, <1>3, <1>4 DEF BeginText

LEMMA SendMoves == PlaceInv /\ SendInv /\ [Next]_noticeVars => SendInv'
<1> SUFFICES ASSUME PlaceInv, SendInv, [Next]_noticeVars PROVE SendInv'
  OBVIOUS
<1>1. ASSUME UNCHANGED <<notice, required, sender, lost>> PROVE SendInv'
  BY <1>1, RowsMove DEF SendInv
<1>2. Loop \in Senders /\ Items \subseteq Senders
  BY DEF Senders
<1>3. CASE LoopStep
  <2>1. CASE ConvergeRequirements
    <3>1. UNCHANGED <<notice, sender, lost>>
      BY <2>1 DEF ConvergeRequirements
    <3>2. required' \in [Requirements -> Status]
      BY <2>1 DEF ConvergeRequirements, SendInv, Status
    <3>3. \A r \in Requirements : required'[r] = "completed" => required[r] = "completed" \/ notice[r] # "none"
      BY <2>1 DEF ConvergeRequirements
    <3> QED
      BY <3>1, <3>2, <3>3, RowsMove DEF SendInv
  <2>2. CASE ListPending \/ ListRequired \/ Flushed
    BY <1>1, <2>2 DEF ListPending, ListRequired, Flushed
  <2>3. CASE Retry
    <3>1. PICK n \in loop.todo :
             IF notice[n] = "blocked"
             THEN notice' = [notice EXCEPT ![n] = "executing"] /\ Begun(Loop, n)
             ELSE UNCHANGED <<notice, sender>>
      BY <2>3 DEF Retry
    <3>2. n \in Notes /\ Free(Loop) /\ UNCHANGED <<required, lost>>
      BY <2>3 DEF Retry, AtLoop, PlaceInv
    <3>3. CASE notice[n] = "blocked"
      BY <1>2, <3>1, <3>2, <3>3, SendBegins DEF SendInv
    <3>4. CASE notice[n] # "blocked"
      BY <1>1, <3>1, <3>2, <3>4
    <3> QED
      BY <3>3, <3>4
  <2>4. CASE Require
    <3>1. PICK r \in loop.todo : BeginRequirement(Loop, r)
      BY <2>4 DEF Require
    <3>2. r \in Requirements /\ Free(Loop) /\ lost' = lost
      BY <2>4 DEF Require, AtLoop, PlaceInv
    <3> QED
      BY <1>2, <3>1, <3>2, RequirementBegins
  <2>5. CASE Report
    <3>1. PICK n \in loop.report : BeginText(Loop, n)
      BY <2>5 DEF Report
    <3>2. n \in Texts /\ Free(Loop) /\ UNCHANGED <<required, lost>>
      BY <2>5 DEF Report, AtLoop, PlaceInv
    <3> QED
      BY <1>2, <3>1, <3>2, TextBegins
  <2> QED
    BY <1>3, <2>1, <2>2, <2>3, <2>4, <2>5 DEF LoopStep
<1>4. CASE Boot \/ Tick \/ Stop
  BY <1>1, <1>4 DEF Boot, Start, Converge, Announce, Announced, Tick, Stop, rest
<1>5. CASE SendStep
  <2>1. PICK p \in Senders : RetryText(p) \/ Transmit(p) \/ Complete(p)
    BY <1>5 DEF SendStep
  <2> DEFINE n == sender[p].note
  <2>2. ~Free(p) /\ n \in Notes /\ UNCHANGED <<required, lost>>
    BY <2>1, Sending DEF RetryText, Transmit, Complete, Free
  <2>3. CASE RetryText(p)
    <3> DEFINE row == [stage |-> "begun", note |-> n]
    <3>1. row \in Sends /\ row.note = n /\ row.stage = "begun"
      BY <2>2 DEF Sends
    <3>2. sender' = [sender EXCEPT ![p] = row] /\ n \in Texts
      BY <2>3 DEF RetryText, Begun, SendInv
    <3>3. CASE notice[n] = "blocked"
      <4>1. notice' = [notice EXCEPT ![n] = "executing"]
        BY <2>3, <3>3 DEF RetryText
      <4>2. "executing" \in Status \ {"none"}
        BY DEF Status
      <4> HIDE DEF row
      <4> QED
        BY <2>2, <3>1, <3>2, <3>3, <4>1, <4>2, SendGoesOn
    <3>4. CASE notice[n] # "blocked"
      <4>1. notice' = notice
        BY <2>2, <2>3, <3>4 DEF RetryText, SendInv
      <4> HIDE DEF row
      <4> QED
        BY <2>2, <3>1, <3>2, <4>1, SendGoesOn
    <3> QED
      BY <3>3, <3>4
  <2>4. CASE Transmit(p)
    <3>1. PICK outcome \in {"accepted", "failed"} : sender' = [sender EXCEPT ![p].stage = outcome]
      BY <2>4 DEF Transmit
    <3> DEFINE row == [sender[p] EXCEPT !.stage = outcome]
    <3>2. sender' = [sender EXCEPT ![p] = row] /\ notice' = notice
      BY <2>4, <3>1 DEF Transmit
    <3>3. row \in Sends /\ row.note = n /\ row.stage = outcome
      BY <2>2, Sending DEF Sends
    <3> HIDE DEF row
    <3> QED
      BY <2>2, <3>2, <3>3, SendGoesOn
  <2>5. CASE Complete(p)
    <3>1. sender' = [sender EXCEPT ![p] = Idle] /\ Idle \in Sends
      BY <2>5 DEF Complete, Sends
    <3>2. CASE notice[n] # "executing"
      <4>1. notice' = notice
        BY <2>5, <3>2 DEF Complete
      <4> QED
        BY <2>2, <3>1, <4>1, SendGoesOn
    <3>3. CASE notice[n] = "executing"
      <4>1. \E s \in Status \ {"none"} : notice' = [notice EXCEPT ![n] = s]
        BY <2>5, <3>3 DEF Complete, Status
      <4> QED
        BY <2>2, <3>1, <3>3, <4>1, SendGoesOn
    <3> QED
      BY <3>2, <3>3
  <2> QED
    BY <2>1, <2>3, <2>4, <2>5
<1>6. CASE Crash
  <2>1. UNCHANGED <<notice, required>> /\ sender' = [p \in Senders |-> Idle]
        /\ lost' = lost \cup {n \in Notes : notice[n] = "executing"}
    BY <1>6 DEF Crash
  <2>2. \A p \in Senders : sender'[p] = Idle /\ Free(p)'
    BY <2>1 DEF Free, Idle
  <2>3. \A p \in Senders : sender'[p].stage = "idle"
    BY <2>1 DEF Idle
  <2>4. sender' \in [Senders -> Sends]
    BY <2>1 DEF Sends
  <2>5. OneSender' /\ ClosedByNotice'
    BY <2>1, <2>2 DEF SendInv, OneSender, ClosedByNotice
  <2>6. lost' \subseteq Notes /\ \A n \in lost' : notice'[n] = "executing"
    BY <2>1 DEF SendInv
  <2> QED
    BY <2>1, <2>2, <2>3, <2>4, <2>5, <2>6 DEF SendInv
<1>7. ASSUME NEW i \in Items, HandlerStep(i) PROVE SendInv'
  <2>1. CASE Find(i) \/ End(i)
    BY <1>1, <2>1 DEF Find, End
  <2>2. CASE TellRequirement(i)
    <3>1. [item |-> i, death |-> handler[i].death] \in Requirements
      BY <2>2 DEF TellRequirement, Handling, PlaceInv, Requirements
    <3> QED
      BY <1>2, <2>2, <3>1, RequirementBegins DEF TellRequirement, Handling
  <2>3. CASE TellText(i)
    <3>1. [item |-> i, text |-> "failure"] \in Texts
      BY DEF Texts
    <3>2. i \in Senders /\ Free(i) /\ UNCHANGED <<required, lost>>
      BY <1>2, <2>3 DEF TellText, Handling
    <3>3. CASE item[i].status = "dead"
      BY <2>3, <3>1, <3>2, <3>3, TextBegins DEF TellText
    <3>4. CASE item[i].status # "dead"
      BY <1>1, <2>3, <3>2, <3>4 DEF TellText
    <3> QED
      BY <3>3, <3>4
  <2> QED
    BY <1>7, <2>1, <2>2, <2>3 DEF HandlerStep
<1>8. ASSUME NEW i \in Items, WorkStep(i) PROVE SendInv'
  <2>1. CASE Work(i) \/ DieFailing(i) \/ Revive(i)
    BY <1>1, <2>1 DEF Work, DieFailing, Revive
  <2>2. CASE DieWaiting(i)
    <3>1. required' \in [Requirements -> Status]
          /\ \A r \in Requirements : required'[r] = "completed" => required[r] = "completed"
      BY <2>2 DEF DieWaiting, SendInv, Status
    <3> QED
      BY <2>2, <3>1, RowsMove DEF DieWaiting, SendInv
  <2>3. CASE Resume(i)
    <3>1. required' \in [Requirements -> Status]
          /\ \A r \in Requirements : required'[r] = "completed" => required[r] = "completed"
      BY <2>3 DEF Resume, SendInv, Status
    <3>2. notice' \in [Notes -> Status] /\ \A n \in Notes : /\ notice[n] = "executing" => notice'[n] = "executing"
                                                           /\ notice[n] # "none" => notice'[n] # "none"
      BY <2>3 DEF Resume, SendInv, Status
    <3> QED
      BY <2>3, <3>1, <3>2, RowsMove DEF Resume
  <2> QED
    BY <1>8, <2>1, <2>2, <2>3 DEF WorkStep
<1>9. CASE UNCHANGED noticeVars
  BY <1>1, <1>9 DEF noticeVars
<1> QED
  BY <1>3, <1>4, <1>5, <1>6, <1>7, <1>8, <1>9 DEF Next

LEMMA SendHolds == Spec => [](PlaceInv /\ SendInv)
  BY PlaceInit, SendInit, PlaceStep, SendMoves, PTL DEF Spec

\* Two senders never carry the notice of one requirement at the same time: the
\* handler of the worker and the main loop may both have found it.
THEOREM NoticeSentByOne == Spec => []OneSender
<1>1. SendInv => OneSender
  BY DEF SendInv
<1> QED
  BY SendHolds, <1>1, PTL

\* No requirement is closed that never had a notice.
THEOREM ClosedOverNotice == Spec => []ClosedByNotice
<1>1. SendInv => ClosedByNotice
  BY DEF SendInv
<1> QED
  BY SendHolds, <1>1, PTL

\* A notice whose outcome a crash made unknown is never sent again.
THEOREM UnknownStaysUnsent == Spec => NeverReplayed
<1>1. SendInv => \A p \in Senders : (sender[p].stage = "begun" /\ sender'[p].stage # "begun"
                   /\ sender'[p].stage # "idle") => sender[p].note \notin lost
  BY DEF SendInv, Free
<1> QED
  BY SendHolds, <1>1, PTL DEF NeverReplayed

-----------------------------------------------------------------------------
(* Online and offline.                                                       *)

\* A daemon that still starts has no offline row, one that has started has said
\* that it is online, and only one that has started stops in order.
LifeInv ==
    /\ run \in Nat
    /\ transition \in [1 .. MaxRuns -> [online : Status, offline : Status]]
    /\ \A s \in 1 .. MaxRuns : s > run => transition[s].offline = "none"
    /\ loop.pc \in {"recover", "report", "online"} => loop.starting
    /\ loop.pc \in {"serve", "stopping", "offline"} => ~loop.starting
    /\ loop.pc # "down" => run \in 1 .. MaxRuns
    /\ (loop.pc # "down" /\ loop.starting) => transition[run].offline = "none"
    /\ (loop.pc # "down" /\ ~loop.starting) => transition[run].online = "completed"
    /\ OfflineAfterOnline

LEMMA LifeInit == Init => LifeInv
  BY NoticeParameters DEF Init, LifeInv, OfflineAfterOnline, Status

\* A step that announces nothing.
LEMMA LifeQuiet ==
  ASSUME PlaceInv, LifeInv, UNCHANGED <<run, transition>>,
         loop'.pc # "down" => loop.pc # "down" /\ loop'.starting = loop.starting,
         loop'.pc \in {"recover", "report", "online"} => loop'.starting,
         loop'.pc \in {"serve", "stopping", "offline"} => ~loop'.starting
  PROVE  LifeInv'
  BY DEF LifeInv, OfflineAfterOnline

LEMMA LifeStep == PlaceInv /\ LifeInv /\ [Next]_noticeVars => LifeInv'
<1> SUFFICES ASSUME PlaceInv, LifeInv, [Next]_noticeVars PROVE LifeInv'
  OBVIOUS
<1> USE DEF PlaceInv
<1>1. ASSUME UNCHANGED <<run, transition, loop>> PROVE LifeInv'
  BY <1>1, LifeQuiet DEF LifeInv
<1>2. CASE LoopStep
  <2>1. UNCHANGED <<run, transition>>
    BY <1>2 DEF LoopStep, ConvergeRequirements, ListPending, Retry, ListRequired, Require, Flushed, Report
  <2>2. loop.pc # "down" /\ loop'.starting = loop.starting
    BY <1>2 DEF LoopStep, ConvergeRequirements, ListPending, Retry, ListRequired, Require, Flushed, Report,
                AtLoop, Goto, LoopStages
  <2>3. /\ loop'.pc \in {"recover", "report", "online"} => loop.starting
        /\ loop'.pc \in {"serve", "stopping", "offline"} => ~loop.starting
    BY <1>2 DEF LoopStep, ConvergeRequirements, ListPending, Retry, ListRequired, Require, Flushed, Report,
                AtLoop, Goto, LoopStages, LifeInv
  <2> QED
    BY <2>1, <2>2, <2>3, LifeQuiet
<1>3. CASE Start
  BY <1>3, NoticeParameters DEF Start, LifeInv, OfflineAfterOnline
<1>4. CASE Converge
  <2>1. UNCHANGED <<run, transition>> /\ loop.pc = "recover" /\ loop'.pc = "converge" /\ loop'.starting = loop.starting
    BY <1>4 DEF Converge, AtLoop
  <2> QED
    BY <2>1, LifeQuiet
<1>5. CASE Announce \/ Announced
  <2>1. run' = run /\ run \in 1 .. MaxRuns /\ loop.pc \in {"report", "stopping", "online", "offline"}
    BY <1>5 DEF Announce, Announced, rest, AtLoop, LifeInv
  <2>2. CASE loop.pc = "report" /\ Row("online", "executing") /\ Goto("online")
    BY <2>1, <2>2 DEF Row, Goto, LifeInv, OfflineAfterOnline, Status
  <2>3. CASE loop.pc = "stopping" /\ Row("offline", "executing") /\ Goto("offline")
    BY <2>1, <2>3 DEF Row, Goto, LifeInv, OfflineAfterOnline, Status
  <2>4. CASE loop.pc = "online" /\ Row("online", "completed")
             /\ loop' = [loop EXCEPT !.pc = "serve", !.starting = FALSE]
    BY <2>1, <2>4 DEF Row, LifeInv, OfflineAfterOnline, Status
  <2>5. CASE loop.pc = "online" /\ Row("online", "blocked") /\ Goto("down")
    BY <2>1, <2>5 DEF Row, Goto, LifeInv, OfflineAfterOnline, Status
  <2>6. CASE loop.pc = "offline" /\ (\E status \in {"completed", "blocked"} : Row("offline", status)) /\ Goto("down")
    BY <2>1, <2>6 DEF Row, Goto, LifeInv, OfflineAfterOnline, Status
  <2> QED
    BY <1>5, <2>2, <2>3, <2>4, <2>5, <2>6 DEF Announce, Announced, AtLoop
<1>6. CASE Tick \/ Stop
  <2>1. UNCHANGED <<run, transition>> /\ loop.pc = "serve" /\ loop'.pc \in {"converge", "stopping"}
        /\ loop'.starting = loop.starting
    BY <1>6 DEF Tick, Stop, AtLoop, Goto, rest
  <2> QED
    BY <2>1, LifeQuiet DEF LifeInv
<1>7. CASE Crash
  BY <1>7, LifeQuiet DEF Crash
<1>8. CASE SendStep
  BY <1>1, <1>8 DEF SendStep, RetryText, Transmit, Complete
<1>9. ASSUME NEW i \in Items, HandlerStep(i) \/ WorkStep(i) PROVE LifeInv'
  BY <1>1, <1>9 DEF HandlerStep, WorkStep, Find, TellRequirement, TellText, End,
                    Work, DieWaiting, DieFailing, Resume, Revive
<1>10. CASE UNCHANGED noticeVars
  BY <1>1, <1>10 DEF noticeVars
<1> QED
  BY <1>2, <1>3, <1>4, <1>5, <1>6, <1>7, <1>8, <1>9, <1>10 DEF Next, Boot

\* A session that says it is offline has said that it is online.
THEOREM OfflineWasOnline == Spec => []OfflineAfterOnline
<1>1. LifeInv => OfflineAfterOnline
  BY DEF LifeInv
<1> QED
  BY PlaceInit, PlaceStep, LifeInit, LifeStep, <1>1, PTL DEF Spec
=============================================================================
