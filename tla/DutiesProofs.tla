----------------------------- MODULE DutiesProofs -----------------------------
(***************************************************************************)
(* The answers to a message, the reaction on a request, the watch of       *)
(* resources, the writes to them and the runs of the model, each for any   *)
(* numbers of what it deals with and any answers of the model.             *)
(* The parts share no variable, so each has its own invariant over its own *)
(* next-state relation; a step of Duties is one of theirs or leaves them   *)
(* alone.                                                                  *)
(***************************************************************************)
EXTENDS Duties, FiniteSetTheorems, WellFoundedInduction, TLAPS

-----------------------------------------------------------------------------
(* The answers to a message: what it is left unanswered for, and what is     *)
(* never answered.                                                           *)

\* The parts of the state as the actions need them.
TargetType == [is : {"private", "group", "handoff"}, asks : BOOLEAN, edited : {"no", "fresh", "settled"},
               gone : BOOLEAN, acked : BOOLEAN]
ResolverType == [pc : {"idle", "reaction", "context", "classify", "record", "over"},
                 rules : {"off", "ready", "fault"}, length : Nat, asks : BOOLEAN]
Results == {"none", "answered", "unanswered", "no_reply_needed", "ambiguous", "withdrawn"}
Grounds == {"none", "rules", "reaction", "context", "model", "fallback"}
ResolutionType == [result : Results, sure : M!Levels, matched : SUBSET Nat, by : Grounds]
SinceType == [acked : BOOLEAN, gone : BOOLEAN, fresh : BOOLEAN]
StateOK ==
    /\ chat \in Seq(M!Messages)
    /\ target \in TargetType
    /\ resolver \in ResolverType
    /\ resolution \in ResolutionType
    /\ since \in SinceType
    /\ rules \in {"off", "ready", "fault"}

\* A message of the owner in the target's own part of the chat.
OwnPart(i) ==
    /\ i \in 1 .. Len(chat) /\ chat[i] # "mention"
    /\ target.is = "private" \/ chat[i] = "linked" \/ \A j \in 1 .. i : chat[j] # "mention"

\* What the verdict of the model rests on, and what the work does with it.
CauseInv ==
    /\ StateOK
    /\ resolver.length <= Len(chat)
    /\ resolver.pc \in {"idle", "reaction", "context", "classify"} => resolution.by = "none"
    /\ (resolution.by = "model" /\ resolver.asks /\ M!Suppresses(resolution)) =>
            \E i \in resolution.matched : OwnPart(i)
    /\ reaction = "suppress" => resolver.pc = "over" /\ M!Suppresses(resolution)

\* What held since the resolution began still holds of the target, and how far the
\* resolution gets in spite of it.
Standing == since.acked \/ since.gone \/ since.fresh
OpenInv ==
    /\ StateOK
    /\ since.acked => target.acked
    /\ since.gone => target.gone
    /\ since.fresh => target.edited = "fresh"
    /\ resolver.pc = "context" => ~since.acked
    /\ resolver.pc = "classify" => ~Standing
    /\ resolver.pc = "record" /\ resolution.result = "unanswered" => ~Standing
    /\ reaction = "admit" => resolver.pc = "over" /\ ~Standing

-----------------------------------------------------------------------------
(* The state.                                                                *)

\* A step of the duties is one of the verdict or leaves it alone.
LEMMA VerdictMoves == [Next]_dutyVars => [M!Next]_matchVars
  BY DEF Next, OwnerActivity, Resources, ResourceWrites, ModelLoop, ReplyMatch, dutyVars

LEMMA StateInit == M!MatchParameters /\ M!Init => StateOK
<1> SUFFICES ASSUME M!MatchParameters, M!Init PROVE StateOK
  OBVIOUS
<1>1. target \in TargetType
  BY ZenonT(60) DEF M!MatchParameters, M!Init, TargetType
<1>2. since \in SinceType
  BY DEF M!Init, SinceType
<1> QED
  BY <1>1, <1>2 DEF M!Init, StateOK, M!Unread, M!NoResolution, M!Levels, ResolverType, ResolutionType, Results, Grounds

\* The records that the steps build of values of the state.
LEMMA TargetEdited ==
  ASSUME target \in TargetType, NEW asks \in BOOLEAN, target' = [target EXCEPT !.asks = asks, !.edited = "fresh"]
  PROVE  target' \in TargetType /\ target'.is = target.is /\ target'.edited = "fresh"
         /\ target'.gone = target.gone /\ target'.acked = target.acked
  BY ZenonT(60) DEF TargetType
LEMMA SinceRead ==
  ASSUME target \in TargetType, since' = [acked |-> target.acked, gone |-> target.gone, fresh |-> target.edited = "fresh"]
  PROVE  since' \in SinceType /\ since'.acked = target.acked /\ since'.gone = target.gone
         /\ (since'.fresh => target.edited = "fresh")
  BY ZenonT(60) DEF TargetType, SinceType
LEMMA ContextRead ==
  ASSUME target \in TargetType, resolver \in ResolverType, Len(chat) \in Nat,
         resolver' = [resolver EXCEPT !.pc = "classify", !.length = Len(chat), !.asks = target.asks]
  PROVE  resolver' \in ResolverType /\ resolver'.pc = "classify" /\ resolver'.length = Len(chat)
  BY ZenonT(60) DEF TargetType, ResolverType

LEMMA AnswerOK == \A a \in M!Answers : M!Normalized(a).result \in {"answered", "unanswered", "no_reply_needed", "ambiguous"}
                     /\ M!Normalized(a).sure \in M!Levels /\ M!Normalized(a).matched = a.matched
  BY DEF M!Answers, M!Normalized, M!Levels

LEMMA StateStep == StateOK /\ [M!Next]_matchVars => StateOK'
<1> SUFFICES ASSUME StateOK, [M!Next]_matchVars PROVE StateOK'
  OBVIOUS
<1> USE DEF StateOK
<1>1. CASE M!Say
  BY <1>1 DEF M!Say
<1>2. CASE M!Change
  <2>1. ASSUME NEW asks \in BOOLEAN, target' = [target EXCEPT !.asks = asks, !.edited = "fresh"] PROVE target' \in TargetType
    BY <2>1, TargetEdited
  <2>2. target' \in TargetType
    BY <1>2, <2>1 DEF M!Change, TargetType
  <2>3. since' \in SinceType
    BY <1>2 DEF M!Change, SinceType
  <2>4. rules' \in {"off", "ready", "fault"}
    BY <1>2 DEF M!Change
  <2> QED
    BY <1>2, <2>2, <2>3, <2>4 DEF M!Change
<1>3. CASE M!Settle
  <2>1. target' \in TargetType
    BY <1>3 DEF M!Settle, TargetType
  <2>2. since' \in SinceType
    BY <1>3 DEF M!Settle, SinceType
  <2> QED
    BY <1>3, <2>1, <2>2 DEF M!Settle
<1>4. CASE M!LoadRules
  <2>1. since' \in SinceType
    BY <1>4, SinceRead DEF M!LoadRules
  <2>2. resolver' \in ResolverType
    <3>1. M!Unread \in ResolverType
      BY DEF M!Unread, ResolverType
    <3>2. \E place \in {"record", "reaction"} : resolver' = [M!Unread EXCEPT !.pc = place, !.rules = rules]
      BY <1>4 DEF M!LoadRules
    <3> QED
      BY <3>1, <3>2 DEF ResolverType
  <2>3. resolution' \in ResolutionType
    BY <1>4 DEF M!LoadRules, M!NoResolution, ResolutionType, Results, Grounds, M!Levels
  <2> QED
    BY <1>4, <2>1, <2>2, <2>3 DEF M!LoadRules
<1>5. CASE M!ReadReaction
  BY <1>5 DEF M!ReadReaction, M!At, M!Found, M!Levels, ResolverType, ResolutionType, Results, Grounds
<1>6. CASE M!ReadContext
  <2>1. resolver' \in ResolverType
    <3>1. CASE resolver' = [resolver EXCEPT !.pc = "classify", !.length = Len(chat), !.asks = target.asks]
      BY <3>1, ContextRead
    <3>2. CASE resolver' = M!Unread \/ resolver' = [resolver EXCEPT !.pc = "record"]
      <4>1. M!Unread \in ResolverType
        BY DEF M!Unread, ResolverType
      <4>2. [resolver EXCEPT !.pc = "record"] \in ResolverType
        BY DEF ResolverType
      <4> QED
        BY <3>2, <4>1, <4>2
    <3> QED
      BY <1>6, <3>1, <3>2 DEF M!ReadContext, M!Found
  <2>2. resolution' \in ResolutionType
    BY <1>6 DEF M!ReadContext, M!Found, M!Levels, ResolutionType, Results, Grounds
  <2> QED
    BY <1>6, <2>1, <2>2 DEF M!ReadContext
<1>7. CASE M!Classify
  <2>1. PICK r \in {"unanswered", "answered", "no_reply_needed", "ambiguous"}, s \in M!Levels,
             m \in SUBSET Nat, b \in {"model", "fallback"} : M!Found(r, s, m, b)
    <3>1. ASSUME NEW a \in M!Answers,
                 IF M!Valid(M!Normalized(a)) THEN M!Found(M!Normalized(a).result, M!Normalized(a).sure, M!Normalized(a).matched, "model")
                                         ELSE M!Found("ambiguous", "low", {}, "model")
          PROVE  \E r \in {"unanswered", "answered", "no_reply_needed", "ambiguous"}, s \in M!Levels,
                    m \in SUBSET Nat, b \in {"model", "fallback"} : M!Found(r, s, m, b)
      <4>1. a.matched \in SUBSET Nat
        BY DEF M!Answers
      <4> QED
        BY <3>1, <4>1, AnswerOK DEF M!Levels
    <3> QED
      BY <1>7, <3>1 DEF M!Classify, M!Levels
  <2> QED
    BY <1>7, <2>1 DEF M!Classify, M!Found, ResolverType, ResolutionType, Results, Grounds
<1>8. CASE M!Record
  BY <1>8 DEF M!Record, ResolverType
<1>9. CASE M!Again
  BY <1>9 DEF M!Again, M!Unread, M!NoResolution, M!Levels, ResolverType, ResolutionType, Results, Grounds
<1>10. CASE UNCHANGED matchVars
  BY <1>10 DEF matchVars
<1> QED
  BY <1>1, <1>2, <1>3, <1>4, <1>5, <1>6, <1>7, <1>8, <1>9, <1>10 DEF M!Next

-----------------------------------------------------------------------------
(* Nothing is answered that is not open.                                     *)

LEMMA OpenInit == M!MatchParameters /\ M!Init => OpenInv
<1> SUFFICES ASSUME M!MatchParameters, M!Init PROVE OpenInv
  OBVIOUS
<1>1. StateOK
  BY StateInit
<1>2. ~since.acked /\ ~since.gone /\ ~since.fresh
  BY DEF M!Init
<1>3. resolver.pc = "idle" /\ reaction = "none"
  BY DEF M!Init, M!Unread
<1> QED
  BY <1>1, <1>2, <1>3 DEF OpenInv, Standing

LEMMA OpenStep == OpenInv /\ [M!Next]_matchVars => OpenInv'
<1> SUFFICES ASSUME OpenInv, [M!Next]_matchVars PROVE OpenInv'
  OBVIOUS
<1>0. StateOK /\ StateOK'
  BY StateStep DEF OpenInv
<1> USE DEF OpenInv, Standing
<1>1. CASE M!Say \/ UNCHANGED matchVars
  BY <1>0, <1>1 DEF M!Say, matchVars
<1>2. CASE M!Change
  <2>1. UNCHANGED <<resolver, resolution, reaction>>
    BY <1>2 DEF M!Change
  <2>2. ASSUME NEW asks \in BOOLEAN, target' = [target EXCEPT !.asks = asks, !.edited = "fresh"], since' = since
        PROVE  OpenInv'
    BY <1>0, <2>1, <2>2, TargetEdited DEF StateOK
  <2>3. CASE target' = [target EXCEPT !.gone = TRUE] /\ since' = since
    BY <1>0, <2>1, <2>3 DEF StateOK, TargetType
  <2>4. CASE target' = [target EXCEPT !.acked = TRUE] /\ since' = since
    BY <1>0, <2>1, <2>4 DEF StateOK, TargetType
  <2>5. CASE target' = [target EXCEPT !.acked = FALSE] /\ since' = [since EXCEPT !.acked = FALSE]
    BY <1>0, <2>1, <2>5 DEF StateOK, TargetType, SinceType
  <2>6. CASE UNCHANGED <<target, since>>
    BY <1>0, <2>1, <2>6
  <2> QED
    BY <1>2, <2>2, <2>3, <2>4, <2>5, <2>6 DEF M!Change
<1>3. CASE M!Settle
  <2>1. target'.gone = target.gone /\ target'.acked = target.acked
    BY <1>0, <1>3 DEF M!Settle, StateOK, TargetType
  <2>2. since'.gone = since.gone /\ since'.acked = since.acked /\ ~since'.fresh
    BY <1>0, <1>3 DEF M!Settle, StateOK, SinceType
  <2> QED
    BY <1>0, <1>3, <2>1, <2>2 DEF M!Settle
<1>4. CASE M!LoadRules
  <2>1. target' = target /\ reaction' = reaction /\ reaction # "admit"
    BY <1>4 DEF M!LoadRules, M!At
  <2>2. since'.acked = target.acked /\ since'.gone = target.gone /\ (since'.fresh => target.edited = "fresh")
    BY <1>0, <1>4, SinceRead DEF M!LoadRules, StateOK
  <2>3. \/ resolver'.pc = "reaction"
        \/ resolver'.pc = "record" /\ resolution'.result = "ambiguous"
    BY <1>4 DEF M!LoadRules, M!Unread, M!NoResolution
  <2> QED
    BY <1>0, <2>1, <2>2, <2>3
<1>5. CASE M!ReadReaction
  <2>1. UNCHANGED <<target, since, reaction>> /\ reaction # "admit"
    BY <1>5 DEF M!ReadReaction, M!At
  <2>2. \/ resolver'.pc = "context" /\ ~target.acked
        \/ resolver'.pc = "record" /\ resolution'.result \in {"answered", "ambiguous"}
    BY <1>0, <1>5 DEF M!ReadReaction, M!Found, StateOK, ResolverType
  <2> QED
    BY <1>0, <2>1, <2>2
<1>6. CASE M!ReadContext
  <2>1. UNCHANGED <<target, since, reaction>> /\ reaction # "admit" /\ ~since.acked
    BY <1>6 DEF M!ReadContext, M!At
  <2>2. \/ resolver'.pc = "idle"
        \/ resolver'.pc = "record" /\ resolution'.result \in {"withdrawn", "ambiguous"}
        \/ resolver'.pc = "classify" /\ ~target.gone /\ target.edited # "fresh"
    <3>1. CASE resolver' = [resolver EXCEPT !.pc = "classify", !.length = Len(chat), !.asks = target.asks]
               /\ ~target.gone /\ target.edited # "fresh"
      BY <1>0, <3>1, ContextRead DEF StateOK
    <3>2. CASE resolver' = M!Unread
      BY <3>2 DEF M!Unread
    <3>3. CASE M!Found("withdrawn", "high", {}, "context") \/ M!Found("ambiguous", "low", {}, "context")
      BY <1>0, <3>3 DEF M!Found, StateOK, ResolverType
    <3> QED
      BY <1>6, <3>1, <3>2, <3>3 DEF M!ReadContext
  <2> QED
    BY <1>0, <2>1, <2>2
<1>7. CASE M!Classify
  <2>1. ~Standing /\ reaction # "admit"
    BY <1>7 DEF M!Classify, M!At
  <2>2. UNCHANGED <<target, reaction, since>> /\ resolver'.pc = "record"
    BY <1>0, <1>7 DEF M!Classify, M!Found, StateOK, ResolverType
  <2> QED
    BY <1>0, <2>1, <2>2
<1>8. CASE M!Record
  <2>1. reaction' = "admit" => resolution.result = "unanswered"
    BY <1>8 DEF M!Record
  <2>2. resolver.pc = "record" /\ resolver'.pc = "over" /\ UNCHANGED <<target, since>>
    BY <1>0, <1>8 DEF M!Record, M!At, StateOK, ResolverType
  <2> QED
    BY <1>0, <2>1, <2>2
<1>9. CASE M!Again
  <2>1. resolver'.pc = "idle" /\ reaction' = "none" /\ UNCHANGED <<target, since>>
    BY <1>9 DEF M!Again, M!Unread
  <2> QED
    BY <1>0, <2>1
<1> QED
  BY <1>1, <1>2, <1>3, <1>4, <1>5, <1>6, <1>7, <1>8, <1>9 DEF M!Next

\* Nothing is answered that was withdrawn, acknowledged or freshly edited all through
\* its resolution (Resolve), for any kinds of target and lengths of the chat.
THEOREM OpenIsAdmitted == Spec => []AdmittedOnlyIfOpen
<1>1. Init => OpenInv
  BY OpenInit, DutyParameters DEF Init
<1>2. OpenInv /\ [Next]_dutyVars => OpenInv'
  BY OpenStep, VerdictMoves
<1>3. OpenInv => AdmittedOnlyIfOpen
  BY DEF AdmittedOnlyIfOpen, OpenInv, Standing, M!AdmittedOnlyIfOpen
<1> QED
  BY <1>1, <1>2, <1>3, PTL DEF Spec

-----------------------------------------------------------------------------
(* What silences a message that asks for something.                          *)

\* The owner's part of the chat stays his as the chat goes on.
LEMMA OwnPartStays ==
  ASSUME StateOK, [M!Next]_matchVars, NEW i, OwnPart(i)
  PROVE  OwnPart(i)'
<1>1. target'.is = target.is
  <2>1. CASE M!Change
    <3>1. ASSUME NEW asks \in BOOLEAN, target' = [target EXCEPT !.asks = asks, !.edited = "fresh"]
          PROVE  target'.is = target.is
      BY <3>1, TargetEdited DEF StateOK
    <3> QED
      BY <2>1, <3>1 DEF M!Change, StateOK, TargetType
  <2>2. CASE M!Settle
    BY <2>2 DEF M!Settle, StateOK, TargetType
  <2> QED
    BY <2>1, <2>2 DEF M!Next, matchVars, M!Say, M!LoadRules, M!ReadReaction, M!ReadContext, M!Classify, M!Record, M!Again
<1>2. chat' = chat \/ \E m \in M!Messages : chat' = Append(chat, m)
  BY DEF M!Next, matchVars, M!Say, M!Change, M!Settle, M!LoadRules, M!ReadReaction, M!ReadContext, M!Classify, M!Record, M!Again
<1>3. i \in 1 .. Len(chat)' /\ \A j \in 1 .. i : chat'[j] = chat[j]
  BY <1>2 DEF OwnPart, StateOK
<1> QED
  BY <1>1, <1>3 DEF OwnPart

\* A verdict that passes for valid and silences a request names a message of the
\* owner in the target's own part.
LEMMA ValidHasCause ==
  ASSUME StateOK, resolver.length <= Len(chat), resolver.asks,
         NEW a \in M!Answers, M!Valid(M!Normalized(a)),
         M!Normalized(a).result \in {"answered", "no_reply_needed", "withdrawn"}
  PROVE  \E i \in M!Normalized(a).matched : OwnPart(i)
<1>1. M!Kept(a)
  BY DEF M!Kept, M!Explicit
<1>2. M!Normalized(a) = a
  BY <1>1 DEF M!Normalized
<1>3. a.result = "answered"
  BY <1>2, AnswerOK DEF M!Valid, M!Explicit
<1>4. a.matched # {} /\ a.matched \subseteq M!OwnerMessages
  BY <1>2, <1>3 DEF M!Valid
<1>5. PICK i \in a.matched : i \in M!OwnerMessages
  BY <1>4
<1>6. i \in 1 .. resolver.length /\ chat[i] \in {"linked", "loose"}
  BY <1>5 DEF M!OwnerMessages, M!Scoped
<1>7. target.is = "private" \/ chat[i] = "linked" \/ \A j \in M!Mentions : i < j
  BY <1>5 DEF M!OwnerMessages, M!Scoped
<1>8. ASSUME \A j \in M!Mentions : i < j PROVE \A j \in 1 .. i : chat[j] # "mention"
  <2>1. resolver.length \in Nat
    BY DEF StateOK, ResolverType
  <2> QED
    BY <1>6, <1>8, <2>1 DEF M!Mentions
<1>9. i \in 1 .. Len(chat) /\ chat[i] # "mention"
  BY <1>6 DEF StateOK, ResolverType
<1> QED
  BY <1>2, <1>5, <1>7, <1>8, <1>9 DEF OwnPart

LEMMA CauseInit == M!MatchParameters /\ M!Init => CauseInv
<1> SUFFICES ASSUME M!MatchParameters, M!Init PROVE CauseInv
  OBVIOUS
<1>1. StateOK
  BY StateInit
<1> QED
  BY <1>1 DEF M!Init, CauseInv, M!Unread, M!NoResolution, M!Suppresses, StateOK

LEMMA CauseStep == CauseInv /\ [M!Next]_matchVars => CauseInv'
<1> SUFFICES ASSUME CauseInv, [M!Next]_matchVars PROVE CauseInv'
  OBVIOUS
<1>0. StateOK /\ StateOK'
  BY StateStep DEF CauseInv
<1>1. Len(chat) <= Len(chat)'
  <2>1. chat' = chat \/ \E m \in M!Messages : chat' = Append(chat, m)
    BY DEF M!Next, matchVars, M!Say, M!Change, M!Settle, M!LoadRules, M!ReadReaction, M!ReadContext, M!Classify, M!Record, M!Again
  <2> QED
    BY <1>0, <2>1 DEF StateOK
<1>2. ASSUME UNCHANGED resolution, resolver'.asks = resolver.asks, resolver'.length = resolver.length,
             reaction' = "suppress" => resolver'.pc = "over" /\ M!Suppresses(resolution),
             resolution.by = "none" \/ resolver'.pc \in {resolver.pc, "over"}
      PROVE  CauseInv'
  <2>1. M!Suppresses(resolution)' = M!Suppresses(resolution)
    BY <1>2 DEF M!Suppresses
  <2>2. resolver'.length <= Len(chat)'
    BY <1>0, <1>1, <1>2 DEF CauseInv, StateOK, ResolverType
  <2>3. (resolution.by = "model" /\ resolver.asks /\ M!Suppresses(resolution)) =>
            \E i \in resolution.matched : OwnPart(i)'
    BY <1>0, OwnPartStays DEF CauseInv
  <2> QED
    BY <1>0, <1>2, <2>1, <2>2, <2>3 DEF CauseInv
<1>3. ASSUME UNCHANGED <<chat, reaction>>, resolver.pc # "over", resolver'.length <= Len(chat),
             (resolution'.by = "model" /\ resolver'.asks) => ~M!Suppresses(resolution)',
             resolution'.by = "none" \/ resolver'.pc = "record"
      PROVE  CauseInv'
  <2>1. reaction # "suppress"
    BY <1>3 DEF CauseInv
  <2> QED
    BY <1>0, <1>3, <2>1 DEF CauseInv
<1>4. CASE M!Say \/ M!Change \/ M!Settle \/ UNCHANGED matchVars
  BY <1>2, <1>4 DEF M!Say, M!Change, M!Settle, matchVars, CauseInv
<1>5. CASE M!LoadRules
  <2>1. resolver.pc # "over" /\ UNCHANGED <<chat, reaction>>
    BY <1>5 DEF M!LoadRules, M!At
  <2>2. resolver'.length = 0 /\ ~resolver'.asks
    BY <1>5 DEF M!LoadRules, M!Unread
  <2>3. resolution'.by = "none" \/ resolver'.pc = "record"
    BY <1>5 DEF M!LoadRules, M!Unread, M!At, CauseInv
  <2> QED
    BY <1>0, <1>3, <2>1, <2>2, <2>3 DEF StateOK
<1>6. CASE M!ReadReaction
  <2>1. resolver.pc # "over" /\ UNCHANGED <<chat, reaction>>
    BY <1>6 DEF M!ReadReaction, M!At
  <2>2. resolver'.length = resolver.length /\ resolver'.asks = resolver.asks
    BY <1>0, <1>6 DEF M!ReadReaction, M!Found, StateOK, ResolverType
  <2>3. resolution'.by = "none" \/ (resolution'.by = "reaction" /\ resolver'.pc = "record")
    BY <1>0, <1>6 DEF M!ReadReaction, M!Found, StateOK, ResolverType, M!At, CauseInv
  <2> QED
    BY <1>3, <2>1, <2>2, <2>3 DEF CauseInv
<1>7. CASE M!ReadContext
  <2>1. resolver.pc = "context" /\ UNCHANGED <<chat, reaction>>
    BY <1>7 DEF M!ReadContext, M!At
  <2>2. resolver'.length <= Len(chat)
    <3>1. CASE resolver' = [resolver EXCEPT !.pc = "classify", !.length = Len(chat), !.asks = target.asks]
      BY <1>0, <3>1, ContextRead DEF StateOK
    <3>2. CASE resolver' = M!Unread
      BY <1>0, <3>2 DEF M!Unread, StateOK
    <3>3. CASE resolver' = [resolver EXCEPT !.pc = "record"]
      BY <1>0, <3>3 DEF CauseInv, StateOK, ResolverType
    <3> QED
      BY <1>7, <3>1, <3>2, <3>3 DEF M!ReadContext, M!Found
  <2>3. resolution'.by = "none" \/ (resolution'.by = "context" /\ resolver'.pc = "record")
    BY <1>0, <1>7 DEF M!ReadContext, M!Found, CauseInv, M!At, StateOK, ResolverType
  <2> QED
    BY <1>3, <2>1, <2>2, <2>3
<1>8. CASE M!Classify
  <2>1. resolver.pc # "over" /\ UNCHANGED <<chat, reaction, target>> /\ reaction # "suppress"
    BY <1>8 DEF M!Classify, M!At, CauseInv
  <2>2. resolver'.length = resolver.length /\ resolver'.asks = resolver.asks /\ resolver'.pc = "record"
    BY <1>0, <1>8 DEF M!Classify, M!Found, StateOK, ResolverType
  <2>3. CASE M!Found("ambiguous", "low", {}, "model") \/ M!Found("unanswered", "high", {}, "fallback")
    <3>1. ~M!Suppresses(resolution)'
      BY <2>3 DEF M!Found, M!Suppresses
    <3> QED
      BY <1>3, <2>1, <2>2, <3>1 DEF CauseInv
  <2>4. ASSUME NEW a \in M!Answers, M!Valid(M!Normalized(a)),
               M!Found(M!Normalized(a).result, M!Normalized(a).sure, M!Normalized(a).matched, "model")
        PROVE  CauseInv'
    <3>1. resolution'.result = M!Normalized(a).result /\ resolution'.matched = M!Normalized(a).matched
      BY <2>4 DEF M!Found
    <3>2. (resolver.asks /\ M!Suppresses(resolution)') => \E i \in resolution'.matched : OwnPart(i)
      BY <1>0, <2>4, <3>1, ValidHasCause DEF CauseInv, M!Suppresses
    <3>3. \A i : OwnPart(i)' = OwnPart(i)
      BY <2>1 DEF OwnPart
    <3> QED
      BY <1>0, <2>1, <2>2, <3>2, <3>3 DEF CauseInv
  <2> QED
    BY <1>8, <2>3, <2>4 DEF M!Classify
<1>9. CASE M!Record
  <2>1. UNCHANGED resolution /\ resolver' = [resolver EXCEPT !.pc = "over"]
    BY <1>9 DEF M!Record
  <2>2. reaction' = "suppress" => M!Suppresses(resolution)
    BY <1>9 DEF M!Record
  <2>3. resolver'.pc = "over" /\ resolver'.length = resolver.length /\ resolver'.asks = resolver.asks
    BY <1>0, <2>1 DEF StateOK, ResolverType
  <2> QED
    BY <1>2, <2>1, <2>2, <2>3
<1>10. CASE M!Again
  <2>1. reaction' = "none" /\ resolver'.length = 0 /\ ~resolver'.asks /\ resolution'.by = "none"
    BY <1>10 DEF M!Again, M!Unread, M!NoResolution
  <2> QED
    BY <1>0, <1>1, <2>1 DEF CauseInv, StateOK
<1> QED
  BY <1>4, <1>5, <1>6, <1>7, <1>8, <1>9, <1>10 DEF M!Next

\* A message that asks for something is left unanswered on the model's word only if
\* the owner said something in its own part of the chat (validateResolution).
THEOREM SilenceHasCause == Spec => []SilencedForCause
<1>1. Init => CauseInv
  BY CauseInit, DutyParameters DEF Init
<1>2. CauseInv /\ [Next]_dutyVars => CauseInv'
  BY CauseStep, VerdictMoves
<1>3. CauseInv => SilencedForCause
  BY DEF SilencedForCause, CauseInv, M!SilencedForCause, OwnPart
<1> QED
  BY <1>1, <1>2, <1>3, PTL DEF Spec

-----------------------------------------------------------------------------
(* Writes to a resource.                                                     *)


\* Where a run is that has taken the row of the request.
Active == {"compare", "write", "verify", "done", "failed"}
Untaken == {"none", "awaiting", "ready", "cancelled"}

\* The row is taken once: it never comes back to where it can be taken, and the
\* run that took it has not written before it is past the write.
TakenOnce ==
    /\ \A r, s \in Runs : caller[r] \in Active /\ caller[s] \in Active => r = s
    /\ action \in Untaken => writes = 0 /\ \A r \in Runs : caller[r] \notin Active
    /\ \A r \in Runs : caller[r] \in {"compare", "write"} => writes = 0
    /\ writes \in {0, 1}

WriteInv ==
    /\ caller \in [Runs -> {"idle", "request", "over"} \cup Active]
    /\ TakenOnce

LEMMA WriteInit == W!Init => WriteInv
  BY DEF W!Init, WriteInv, TakenOnce, Active, Untaken

LEMMA WriteStep == WriteInv /\ [W!Next]_writeVars => WriteInv'
<1> SUFFICES ASSUME WriteInv, [W!Next]_writeVars PROVE WriteInv'
  OBVIOUS
<1> USE DEF WriteInv, TakenOnce, Active, Untaken, W!At, W!Move
<1>1. CASE W!Decide
  BY <1>1 DEF W!Decide
<1>2. CASE W!OthersEdit
  BY <1>2 DEF W!OthersEdit
<1>3. CASE W!Restart
  BY <1>3 DEF W!Restart
<1>4. ASSUME NEW r \in Runs, W!Begin(r) PROVE WriteInv'
  BY <1>4 DEF W!Begin
<1>5. ASSUME NEW r \in Runs, W!Consume(r) PROVE WriteInv'
  BY <1>5 DEF W!Consume
<1>6. ASSUME NEW r \in Runs, W!Request(r) PROVE WriteInv'
  BY <1>6 DEF W!Request
<1>7. ASSUME NEW r \in Runs, W!CompareField(r) PROVE WriteInv'
  BY <1>7 DEF W!CompareField
<1>8. ASSUME NEW r \in Runs, W!WriteField(r) PROVE WriteInv'
  BY <1>8 DEF W!WriteField
<1>9. ASSUME NEW r \in Runs, W!Verify(r) PROVE WriteInv'
  BY <1>9 DEF W!Verify
<1>10. ASSUME NEW r \in Runs, W!CompleteAction(r) PROVE WriteInv'
  BY <1>10 DEF W!CompleteAction
<1>11. ASSUME NEW r \in Runs, W!CallAgain(r) PROVE WriteInv'
  BY <1>11 DEF W!CallAgain
<1>12. CASE UNCHANGED writeVars
  BY <1>12 DEF writeVars
<1> QED
  BY <1>1, <1>2, <1>3, <1>4, <1>5, <1>6, <1>7, <1>8, <1>9, <1>10, <1>11, <1>12 DEF W!Next

\* A step of the duties is one of the write or leaves it alone.
LEMMA WritesMove == [Next]_dutyVars => [W!Next]_writeVars
  BY DEF Next, OwnerActivity, Resources, ResourceWrites, ModelLoop, ReplyMatch, dutyVars

\* One exact request is written at most once (BeginResourceAction, ConsumeResource-
\* Action), whatever crashed or was called again and in whatever mode.
THEOREM WriteRunsOnce == Spec => []WrittenOnce
<1>1. Init => WriteInv
  BY WriteInit DEF Init
<1>2. WriteInv /\ [Next]_dutyVars => WriteInv'
  BY WriteStep, WritesMove
<1>3. WriteInv => WrittenOnce
  BY DEF WriteInv, TakenOnce, WrittenOnce, W!WrittenOnce
<1> QED
  BY <1>1, <1>2, <1>3, PTL DEF Spec

-----------------------------------------------------------------------------
(* Runs of the model.                                                        *)


\* What may be cited is of the file as this run last wrote it, or later.
SourcesInv ==
    /\ version \in Nat /\ own \in 0 .. version
    /\ allowed \subseteq own .. version
    /\ cited \subseteq Nat /\ (pc # "ended" => cited = {})
    /\ \A v \in cited : v >= own

\* The record that the code keeps of the looks claims no more than was seen.
EvidenceInv == found \subseteq seen /\ lacked = {}

-----------------------------------------------------------------------------
(* Sources.                                                                  *)

\* The variables of the part, as the module of the part groups them.
LEMMA SameVars == UNCHANGED L!loopVars <=> UNCHANGED loopVars
  BY DEF L!loopVars, L!budgetVars, L!fileVars, L!handoffVars, L!endVars, loopVars

\* A step of the duties is one of the run of the model or leaves it alone.
LEMMA LoopMoves == [Next]_dutyVars => [L!Next]_loopVars
  BY DEF Next, OwnerActivity, Resources, ResourceWrites, ModelLoop, ReplyMatch, dutyVars, L!Next

LEMMA SourcesInit == L!Init => SourcesInv
  BY DEF L!Init, SourcesInv

\* A step that leaves the file alone and cites only what may be cited.
LEMMA CitesAllowed ==
  ASSUME SourcesInv, UNCHANGED <<version, allowed, authoritative, own>>,
         \/ cited' = cited /\ (pc # "ended" \/ pc' = pc)
         \/ cited' \subseteq allowed /\ pc' = "ended"
  PROVE  SourcesInv'
<1>1. \A v \in allowed : v \in Nat /\ v >= own
  BY DEF SourcesInv
<1>2. CASE cited' = cited /\ (pc # "ended" \/ pc' = pc)
  BY <1>2 DEF SourcesInv
<1>3. CASE cited' \subseteq allowed /\ pc' = "ended"
  <2>1. cited' \subseteq Nat /\ \A v \in cited' : v >= own
    BY <1>1, <1>3
  <2> QED
    BY <1>3, <2>1 DEF SourcesInv
<1> QED
  BY <1>2, <1>3

LEMMA SourcesStep == SourcesInv /\ [L!Next]_loopVars => SourcesInv'
<1> SUFFICES ASSUME SourcesInv, [L!Next]_loopVars PROVE SourcesInv'
  OBVIOUS
<1>1. ASSUME L!StartTurn \/ L!ExceedTurns \/ L!FailRun \/ L!NoCalls \/ L!Calls \/ L!EndTurn PROVE SourcesInv'
  BY <1>1 DEF L!StartTurn, L!ExceedTurns, L!FailRun, L!NoCalls, L!Calls, L!EndTurn, L!endVars, SourcesInv, L!fileVars
<1>2. ASSUME L!SubmitPlan \/ L!SearchWorkspace PROVE SourcesInv'
  BY <1>2 DEF L!SubmitPlan, L!SearchWorkspace, L!Counted, L!endVars, SourcesInv, L!fileVars
<1>3. CASE L!ReadFile
  BY <1>3 DEF L!ReadFile, L!Counted, L!endVars, SourcesInv
<1>4. CASE L!EditFile
  <2>1. pc # "ended" /\ pc' = pc /\ cited' = cited
    BY <1>4 DEF L!EditFile, L!Counted, L!endVars
  <2>2. CASE version' = version + 1 /\ own' = version + 1 /\ allowed' = L!Withdraw \cup {version + 1}
    BY <2>1, <2>2 DEF SourcesInv, L!Withdraw
  <2>3. CASE allowed' = L!Withdraw /\ UNCHANGED <<version, own>>
    BY <2>1, <2>3 DEF SourcesInv, L!Withdraw
  <2> QED
    BY <1>4, <2>2, <2>3 DEF L!EditFile
<1>5. CASE L!SubmitDecision
  <2>1. UNCHANGED L!fileVars /\ pc = "calls"
    BY <1>5 DEF L!SubmitDecision
  <2>2. PICK named \in SUBSET (0 .. version) :
          \/ pc' = pc /\ cited' = cited
          \/ {L!Canonical(v) : v \in named} \subseteq allowed /\ pc' = "ended"
             /\ (cited' = cited \/ cited' = {L!Canonical(v) : v \in named})
    BY <1>5 DEF L!SubmitDecision, L!Accept, L!Reject, L!endVars
  <2> QED
    BY <2>1, <2>2, CitesAllowed DEF L!fileVars
<1>6. CASE L!Finalize
  <2>1. UNCHANGED L!fileVars /\ pc = "finalizer" /\ pc' = "ended"
    BY <1>6 DEF L!Finalize
  <2>2. cited' = cited \/ \E named \in SUBSET (0 .. version) :
          {L!Canonical(v) : v \in named} \subseteq allowed /\ cited' = {L!Canonical(v) : v \in named}
    BY <1>6 DEF L!Finalize
  <2> QED
    BY <2>1, <2>2, CitesAllowed DEF L!fileVars
<1>7. CASE L!OthersEdit
  BY <1>7 DEF L!OthersEdit, L!endVars, SourcesInv
<1>8. ASSUME NEW t \in L!Tools, L!RefusedCall(t) PROVE SourcesInv'
  BY <1>8 DEF L!RefusedCall, L!endVars, SourcesInv, L!fileVars
<1>9. ASSUME NEW t, L!HandoffCall(t) PROVE SourcesInv'
  BY <1>9 DEF L!HandoffCall, L!Counted, L!endVars, SourcesInv, L!fileVars
<1>10. CASE UNCHANGED loopVars
  BY <1>10 DEF loopVars, SourcesInv, L!fileVars, L!endVars
<1> QED
  BY <1>1, <1>2, <1>3, <1>4, <1>5, <1>6, <1>7, <1>8, <1>9, <1>10, SameVars DEF L!Next, L!LoopStep, L!Done

\* A decision never cites what the file said before the run's own last change of it
\* (invalidateWorkspaceFileSources, canonicalizeDecisionSources).
THEOREM CitesAreCurrent == Spec => []NothingOutdatedCited
<1>1. Init => SourcesInv
  BY SourcesInit DEF Init
<1>2. SourcesInv /\ [Next]_dutyVars => SourcesInv'
  BY SourcesStep, LoopMoves
<1>3. SourcesInv => NothingOutdatedCited
  BY DEF SourcesInv, NothingOutdatedCited, L!NothingOutdatedCited
<1> QED
  BY <1>1, <1>2, <1>3, PTL DEF Spec

-----------------------------------------------------------------------------
(* Evidence of a handoff.                                                    *)

LEMMA EvidenceInit == L!Init => EvidenceInv
  BY DEF L!Init, EvidenceInv

LEMMA EvidenceStep == EvidenceInv /\ [L!Next]_loopVars => EvidenceInv'
<1> SUFFICES ASSUME EvidenceInv, [L!Next]_loopVars PROVE EvidenceInv'
  OBVIOUS
<1>1. ASSUME UNCHANGED L!handoffVars PROVE EvidenceInv'
  BY <1>1 DEF EvidenceInv, L!handoffVars
<1>2. ASSUME NEW t, L!HandoffCall(t) PROVE EvidenceInv'
  <2>1. L!Required(t) \subseteq found
    BY <1>2 DEF L!HandoffCall, L!Counted, L!Permitted
  <2>2. L!Basis(t) \subseteq L!Required(t)
    BY DEF L!Basis, L!Required, L!Writes, L!Evidence, L!Reads, L!ProjectEvidence
  <2>3. lacked' = {}
    BY <1>2, <2>1, <2>2 DEF L!HandoffCall, EvidenceInv
  <2>4. CASE t \in L!Writes
    BY <1>2, <2>3, <2>4 DEF L!HandoffCall, EvidenceInv
  <2>5. CASE t \notin L!Writes
    <3>1. PICK some \in (IF t = "inspect_base_schema" THEN {TRUE} ELSE BOOLEAN) :
            /\ found' = L!Observed(t, some)
            /\ seen' = (seen \ ({t} \ L!Reads)) \cup (IF some THEN {t} ELSE {})
      BY <1>2, <2>5 DEF L!HandoffCall
    <3>2. found' \subseteq seen'
      BY <3>1 DEF L!Observed, EvidenceInv
    <3> QED
      BY <2>3, <3>2 DEF EvidenceInv
  <2> QED
    BY <2>4, <2>5
<1>3. ASSUME \/ L!StartTurn \/ L!ExceedTurns \/ L!FailRun \/ L!NoCalls \/ L!Calls \/ L!SubmitPlan \/ L!SearchWorkspace
             \/ L!ReadFile \/ L!EditFile \/ L!SubmitDecision \/ L!EndTurn \/ L!Finalize \/ L!OthersEdit
             \/ \E t \in L!Tools : L!RefusedCall(t)
      PROVE  UNCHANGED L!handoffVars
  BY <1>3 DEF L!StartTurn, L!ExceedTurns, L!FailRun, L!NoCalls, L!Calls, L!SubmitPlan, L!SearchWorkspace, L!ReadFile,
              L!EditFile, L!SubmitDecision, L!EndTurn, L!Finalize, L!OthersEdit, L!RefusedCall
<1>4. CASE UNCHANGED loopVars
  BY <1>1, <1>4 DEF loopVars, L!handoffVars
<1> QED
  BY <1>1, <1>2, <1>3, <1>4, SameVars DEF L!Next, L!LoopStep, L!Done

\* No look into the project and no write of a handoff is executed while something it
\* rests on was never found, or was gone at the latest look (ValidateMutation, Observe).
THEOREM CallsAreGrounded == Spec => []CallsRestOnEvidence
<1>1. Init => EvidenceInv
  BY EvidenceInit DEF Init
<1>2. EvidenceInv /\ [Next]_dutyVars => EvidenceInv'
  BY EvidenceStep, LoopMoves
<1>3. EvidenceInv => CallsRestOnEvidence
  BY DEF EvidenceInv, CallsRestOnEvidence, L!CallsRestOnEvidence
<1> QED
  BY <1>1, <1>2, <1>3, PTL DEF Spec

-----------------------------------------------------------------------------
(* Budgets.                                                                  *)

\* A call that counts runs in an open investigation only.
LEMMA CountedIsOpen == \A t : \A c : L!Counted(t, c) => ~closed
  BY DEF L!Counted, L!Open

LEMMA ClosedStep ==
  ASSUME closed, [L!Next]_loopVars
  PROVE  closed' /\ UNCHANGED <<toolCalls, plan, own, allowed, authoritative, found, lacked>>
<1> USE DEF L!budgetVars, L!fileVars, L!handoffVars, L!endVars
<1>1. ASSUME L!StartTurn PROVE closed' /\ UNCHANGED <<toolCalls, plan, own, allowed, authoritative, found, lacked>>
  BY <1>1 DEF L!StartTurn, L!Closes
<1>2. ASSUME L!ExceedTurns \/ L!FailRun \/ L!NoCalls \/ L!Calls \/ L!Finalize \/ L!OthersEdit
      PROVE  closed' /\ UNCHANGED <<toolCalls, plan, own, allowed, authoritative, found, lacked>>
  BY <1>2 DEF L!ExceedTurns, L!FailRun, L!NoCalls, L!Calls, L!Finalize, L!OthersEdit
<1>3. ~(L!SubmitPlan \/ L!SearchWorkspace \/ L!ReadFile \/ L!EditFile)
  BY CountedIsOpen DEF L!SubmitPlan, L!SearchWorkspace, L!ReadFile, L!EditFile
<1>4. \A t : ~L!HandoffCall(t)
  BY CountedIsOpen DEF L!HandoffCall
<1>5. ASSUME L!SubmitDecision PROVE closed' /\ UNCHANGED <<toolCalls, plan, own, allowed, authoritative, found, lacked>>
  BY <1>5 DEF L!SubmitDecision, L!Accept, L!Reject, L!Observe
<1>6. ASSUME L!EndTurn PROVE closed' /\ UNCHANGED <<toolCalls, plan, own, allowed, authoritative, found, lacked>>
  BY <1>6 DEF L!EndTurn
<1>7. ASSUME NEW t \in L!Tools, L!RefusedCall(t)
      PROVE  closed' /\ UNCHANGED <<toolCalls, plan, own, allowed, authoritative, found, lacked>>
  BY <1>7 DEF L!RefusedCall, L!Observe
<1>8. CASE UNCHANGED loopVars
  BY <1>8 DEF loopVars
<1> QED
  BY <1>1, <1>2, <1>3, <1>4, <1>5, <1>6, <1>7, <1>8, SameVars DEF L!Next, L!LoopStep, L!Done

\* Once a budget has closed the investigation no tool runs any more, the remaining
\* calls of the message that closed it included (Decide).
THEOREM ClosedIsFinal == Spec => ClosedStaysClosed
<1>1. [Next]_dutyVars =>
        [closed => closed' /\ UNCHANGED <<toolCalls, plan, own, allowed, authoritative, found, lacked>>]_(L!loopVars)
  BY ClosedStep, LoopMoves, SameVars
<1> QED
  BY <1>1, PTL DEF Spec, ClosedStaysClosed, L!ClosedStaysClosed

-----------------------------------------------------------------------------
(* The watch of resources.                                                   *)

\* The types that the rows and the jobs keep.
News == [kind : {"none", "record", "field", "notice"}, base : Nat, edit : Nat]
RowType == [base : R!Bases, content : R!Contents, key : News \cup [base : R!Bases, content : R!Contents],
            via : {"record", "notice", "reconcile"}, cold : BOOLEAN, edit : Nat]
Phases == {"idle", "sync", "base", "compare", "record", "handoff", "save", "event", "done"}
JobType == [pc : Phases, todo : Seq(R!Bases), listed : [R!Bases -> [status : R!Statuses, warm : BOOLEAN]],
            read : [content : R!Contents, edit : 0 .. MaxEdits], news : News]

\* Told of one record, and reconciling one Base.
Told(a) == job[a].news.kind \in {"record", "notice"}
Comparing(a) == job[a].pc \in {"compare", "record", "handoff", "save"} /\ ~Told(a)
Reconciles(a, b) == Comparing(a) /\ R!Of(a) = b

\* What a job may hold beside its type.
JobOK(row) ==
    /\ row.news = R!NoNews \/ (row.news.kind \in {"record", "notice"} /\ row.news.base \in R!Bases)
    /\ row.pc \in {"base", "compare", "save"} => row.news.kind \notin {"record", "notice"}
    /\ row.pc = "event" => row.news.kind = "record"
    /\ row.pc \in {"compare", "record", "handoff", "save"} /\ row.news.kind \notin {"record", "notice"}
       => row.todo # <<>>

ResourcesOK ==
    /\ base \in [R!Bases -> [content : R!Contents, edits : 0 .. MaxEdits]]
    /\ sub \in [R!Bases -> [status : R!Statuses, warm : BOOLEAN]]
    /\ evidence \in Seq(RowType) /\ handed \subseteq DOMAIN evidence /\ orphaned \subseteq DOMAIN evidence
    /\ job \in [R!Actors -> JobType]
    /\ stage \in {"down", "starting", "up"}
    /\ baseline \in [R!Bases -> 0 .. R!Never]
    /\ news \subseteq News /\ \A n \in news : n.base \in R!Bases /\ n.kind # "none"
    /\ \A a \in R!Actors : JobOK(job[a])

\* A key names one row, and that of a reconciled row the content.
KeysInv ==
    /\ \A e \in DOMAIN evidence, f \in DOMAIN evidence : evidence[e].key = evidence[f].key => e = f
    /\ \A e \in DOMAIN evidence :
         /\ evidence[e].via = "reconcile" =>
              evidence[e].key = [base |-> evidence[e].base, content |-> evidence[e].content]
         /\ evidence[e].via # "reconcile" => evidence[e].key \in News

\* What a pass has read stood in the Base, and two of the same edit read the same.
ReadsInv ==
    \A a \in R!Actors : Comparing(a) =>
        /\ job[a].read.edit <= base[R!Of(a)].edits
        /\ job[a].read.edit = base[R!Of(a)].edits => job[a].read.content = base[R!Of(a)].content
        /\ \A c \in R!Actors : Reconciles(c, R!Of(a)) /\ job[c].read.edit = job[a].read.edit
             => job[c].read.content = job[a].read.content

\* A row that stands for the content c of the Base b in a comparison.
Stands(e, b, c) == evidence[e].base = b /\ evidence[e].content = c /\ evidence[e].via # "notice"

\* A Base is warm from its first reconciliation on; what it held then is on a row.
WarmInv ==
    /\ \A b \in R!Bases :
         /\ (sub[b].warm \/ \E a \in R!Actors : job[a].listed[b].warm) => baseline[b] # R!Never
         /\ baseline[b] # R!Never => baseline[b] <= base[b].edits
         /\ baseline[b] # R!Never => \E e \in DOMAIN evidence, c \in R!Contents :
              /\ Stands(e, b, c)
              /\ base[b].edits = baseline[b] => base[b].content = c
              /\ \A a \in R!Actors : Reconciles(a, b) /\ job[a].read.edit = baseline[b] => job[a].read.content = c
    /\ \A a \in R!Actors :
         Comparing(a) /\ job[a].listed[R!Of(a)].warm => job[a].read.edit >= baseline[R!Of(a)]

\* What a pass has compared is on a row.
KnownInv ==
    \A a \in R!Actors : Comparing(a) /\ job[a].pc \in {"handoff", "save"} =>
        \E e \in DOMAIN evidence : Stands(e, R!Of(a), job[a].read.content)

\* A later pass hands off what was not there at the first, or what an event told of.
ToldBefore(e) ==
    \E f \in DOMAIN evidence : f < e /\ evidence[f].via = "record"
        /\ evidence[f].base = evidence[e].base /\ evidence[f].content = evidence[e].content
SilentInv ==
    /\ \A e \in DOMAIN evidence : evidence[e].via = "reconcile" /\ ~evidence[e].cold =>
         /\ baseline[evidence[e].base] # R!Never
         /\ evidence[e].edit > baseline[evidence[e].base] \/ ToldBefore(e)
    /\ \A e \in handed : evidence[e].via = "reconcile" => ~evidence[e].cold
    /\ \A a \in R!Actors : job[a].pc = "handoff" =>
         /\ \E e \in DOMAIN evidence : evidence[e].key = R!Key(a)
         /\ \A e \in DOMAIN evidence : evidence[e].key = R!Key(a) /\ evidence[e].via = "reconcile" => ~evidence[e].cold

-----------------------------------------------------------------------------
(* The rows and the jobs.                                                    *)

\* A step of the duties is one of the monitor or leaves it alone.
LEMMA MonitorMoves == [Next]_dutyVars => [R!Next]_resourceVars
  BY DEF Next, OwnerActivity, Resources, ResourceWrites, ModelLoop, ReplyMatch, dutyVars

LEMMA MonitorBounds ==
  /\ MaxBase \in Nat /\ MaxEdits \in Nat
  /\ EditedTo \subseteq R!Contents
  BY DutyParameters DEF R!ResourceParameters

\* A job at rest, and one that begins a pass.
LEMMA FreeType ==
  /\ R!Free \in JobType /\ R!Free.news = R!NoNews /\ R!Free.pc = "idle"
  /\ \A b \in R!Bases : ~R!Free.listed[b].warm
  BY MonitorBounds DEF R!Free, JobType, Phases, News, R!NoNews, R!Statuses, R!Contents

LEMMA PassType ==
  ASSUME ResourcesOK, NEW a \in R!Actors
  PROVE  /\ R!Pass(a) \in JobType /\ R!Pass(a).news = R!NoNews /\ R!Pass(a).pc = "base"
         /\ R!Pass(a).listed = sub
  <1>1. [i \in R!Bases |-> i] \in Seq(R!Bases)
    BY MonitorBounds DEF R!Bases
  <1>2. R!Pass(a) = [R!Free EXCEPT !.pc = "base", !.todo = [i \in R!Bases |-> i], !.listed = sub]
    BY DEF R!Pass
  <1> QED
    BY <1>1, <1>2, FreeType DEF JobType, Phases, ResourcesOK

\* The jobs stay as they should if the one that changes does.
LEMMA JobsKept ==
  ASSUME ResourcesOK, NEW a \in R!Actors, NEW row \in JobType, JobOK(row),
         job' = [job EXCEPT ![a] = row]
  PROVE  /\ job' \in [R!Actors -> JobType]
         /\ \A c \in R!Actors : JobOK(job'[c])
  BY DEF ResourcesOK

\* The Base a job is at.
LEMMA OfType ==
  ASSUME ResourcesOK, NEW a \in R!Actors,
         Told(a) \/ Comparing(a) \/ (job[a].pc = "base" /\ job[a].todo # <<>>)
  PROVE  R!Of(a) \in R!Bases
  <1>1. job[a].todo \in Seq(R!Bases)
    BY DEF ResourcesOK, JobType
  <1>2. CASE Told(a)
    BY <1>2 DEF ResourcesOK, JobOK, Told, R!Of, R!NoNews
  <1>3. CASE ~Told(a)
    <2>1. job[a].todo # <<>> /\ R!Of(a) = Head(job[a].todo)
      BY <1>3 DEF ResourcesOK, JobOK, Told, R!Of, Comparing
    <2> QED
      BY <1>1, <2>1
  <1> QED
    BY <1>2, <1>3

\* A job that only goes on to another phase.
LEMMA PhaseKept ==
  ASSUME ResourcesOK, NEW a \in R!Actors, NEW next \in Phases, job' = [job EXCEPT ![a].pc = next],
         next \in {"base", "compare", "save"} => ~Told(a),
         next # "event",
         next \in {"compare", "record", "handoff", "save"} /\ ~Told(a) => job[a].todo # <<>>
  PROVE  /\ job' \in [R!Actors -> JobType]
         /\ \A c \in R!Actors : JobOK(job'[c])
  <1> DEFINE row == [job[a] EXCEPT !.pc = next]
  <1>1. job[a] \in JobType /\ JobOK(job[a])
    BY DEF ResourcesOK
  <1>2. row \in JobType
    BY <1>1 DEF JobType
  <1>3. row.pc = next /\ row.news = job[a].news /\ row.todo = job[a].todo
    BY <1>1 DEF JobType
  <1> HIDE DEF row
  <1>4. JobOK(row)
    BY <1>1, <1>3 DEF JobOK, Told
  <1>5. job' = [job EXCEPT ![a] = row]
    BY DEF row
  <1> QED
    BY <1>2, <1>4, <1>5, JobsKept

LEMMA Appended ==
  ASSUME NEW S, NEW s \in Seq(S), NEW x \in S
  PROVE  /\ Append(s, x) \in Seq(S) /\ Len(s) \in Nat
         /\ DOMAIN s = 1 .. Len(s) /\ DOMAIN Append(s, x) = 1 .. Len(s) + 1
         /\ \A i \in 1 .. Len(s) : Append(s, x)[i] = s[i]
         /\ Append(s, x)[Len(s) + 1] = x
  OBVIOUS

LEMMA ResourcesInit == R!Init => ResourcesOK
<1> SUFFICES ASSUME R!Init PROVE ResourcesOK
  OBVIOUS
<1>1. base \in [R!Bases -> [content : R!Contents, edits : 0 .. MaxEdits]]
  BY MonitorBounds DEF R!Init, R!Contents, R!Mine
<1>2. \A a \in R!Actors : job[a] = R!Free
  BY DEF R!Init
<1>3. job \in [R!Actors -> JobType] /\ \A a \in R!Actors : JobOK(job[a])
  BY <1>2, FreeType DEF R!Init, JobOK
<1>4. baseline \in [R!Bases -> 0 .. R!Never]
  BY MonitorBounds DEF R!Init, R!Never
<1> QED
  BY <1>1, <1>3, <1>4 DEF R!Init, ResourcesOK, R!Statuses

\* The row of a subscription as a job lists it, with another status.
LEMMA ListedType ==
  ASSUME ResourcesOK, NEW a \in R!Actors, NEW b \in R!Bases, NEW status \in R!Statuses,
         sub' = [sub EXCEPT ![b] = [job[a].listed[b] EXCEPT !.status = status]]
  PROVE  /\ sub' \in [R!Bases -> [status : R!Statuses, warm : BOOLEAN]]
         /\ sub'[b].warm = job[a].listed[b].warm
         /\ \A c \in R!Bases : c # b => sub'[c] = sub[c]
  <1> DEFINE row == job[a].listed[b]
             new == [row EXCEPT !.status = status]
  <1>1. row \in [status : R!Statuses, warm : BOOLEAN]
    BY DEF ResourcesOK, JobType
  <1>2. new \in [status : R!Statuses, warm : BOOLEAN] /\ new.warm = row.warm
    BY <1>1
  <1>3. sub' = [sub EXCEPT ![b] = new]
    OBVIOUS
  <1> QED
    BY <1>2, <1>3 DEF ResourcesOK

LEMMA RowsTyped ==
  ASSUME ResourcesOK
  PROVE  \A e \in DOMAIN evidence : evidence[e] \in RowType
<1>1. evidence \in Seq(RowType)
  BY DEF ResourcesOK
<1> QED
  BY <1>1

LEMMA RowTyped ==
  ASSUME ResourcesOK, NEW a \in R!Actors, job[a].pc = "record"
  PROVE  R!Row(a) \in RowType /\ R!Of(a) \in R!Bases
<1>1. R!Of(a) \in R!Bases
  BY OfType DEF Told, Comparing
<1>2. /\ job[a].read.content \in R!Contents /\ job[a].read.edit \in Nat
      /\ job[a].news \in News /\ job[a].listed \in [R!Bases -> [status : R!Statuses, warm : BOOLEAN]]
  BY DEF ResourcesOK, JobType
<1>3. R!Key(a) \in News \cup [base : R!Bases, content : R!Contents]
  BY <1>1, <1>2 DEF R!Key
<1>4. R!Via(a) \in {"record", "notice", "reconcile"} /\ R!Cold(a) \in BOOLEAN
  BY <1>1, <1>2 DEF R!Via, R!Cold
<1> DEFINE edit == IF R!Via(a) = "reconcile" THEN job[a].read.edit ELSE job[a].news.edit
<1>5. edit \in Nat
  BY <1>2 DEF News
<1> QED
  BY <1>1, <1>2, <1>3, <1>4, <1>5 DEF R!Row, RowType

LEMMA ResourcesStep == ResourcesOK /\ [R!Next]_resourceVars => ResourcesOK'
<1> SUFFICES ASSUME ResourcesOK, [R!Next]_resourceVars PROVE ResourcesOK'
  OBVIOUS
<1>0. /\ "loop" \in R!Actors /\ "stream" \in R!Actors
      /\ \A a \in R!Actors : job[a] \in JobType /\ JobOK(job[a])
  BY DEF R!Actors, ResourcesOK
<1>1. CASE R!Start
  <2> DEFINE row == [R!Free EXCEPT !.pc = "sync", !.todo = [i \in R!Bases |-> i], !.listed = sub']
  <2>1. sub' \in [R!Bases -> [status : R!Statuses, warm : BOOLEAN]]
    BY <1>1 DEF R!Start, ResourcesOK, R!Statuses
  <2>2. [i \in R!Bases |-> i] \in Seq(R!Bases)
    BY MonitorBounds DEF R!Bases
  <2>3. row \in JobType /\ JobOK(row)
    BY <2>1, <2>2, FreeType DEF JobType, Phases, JobOK
  <2>4. job' = [job EXCEPT !["loop"] = row]
    BY <1>1 DEF R!Start
  <2> QED
    BY <1>0, <1>1, <2>1, <2>3, <2>4, JobsKept DEF R!Start, R!History, ResourcesOK
<1>2. CASE R!Sync
  <2> DEFINE row == [job["loop"] EXCEPT !.todo = Tail(@)]
  <2>1. job["loop"].todo \in Seq(R!Bases) /\ job["loop"].todo # <<>> /\ job["loop"].pc = "sync"
    BY <1>0, <1>2 DEF R!Sync, R!At, JobType
  <2>2. Tail(job["loop"].todo) \in Seq(R!Bases)
    BY <2>1
  <2>3. row \in JobType /\ JobOK(row) /\ job' = [job EXCEPT !["loop"] = row]
    BY <1>0, <1>2, <2>1, <2>2 DEF R!Sync, JobType, JobOK
  <2>4. R!Of("loop") \in R!Bases
    BY <1>0, <2>1, OfType DEF R!Of, JobOK, Told
  <2>5. sub' = sub \/ \E status \in R!Statuses :
          sub' = [sub EXCEPT ![R!Of("loop")] = [job["loop"].listed[R!Of("loop")] EXCEPT !.status = status]]
    BY <1>2 DEF R!Sync, R!Statuses
  <2>6. sub' \in [R!Bases -> [status : R!Statuses, warm : BOOLEAN]]
    BY <1>0, <2>4, <2>5, ListedType DEF ResourcesOK
  <2> QED
    BY <1>0, <1>2, <2>3, <2>6, JobsKept DEF R!Sync, R!History, ResourcesOK
<1>3. CASE R!Synced \/ R!Poll
  <2>1. R!Pass("loop") \in JobType /\ JobOK(R!Pass("loop"))
    BY <1>0, PassType DEF JobOK, R!NoNews
  <2> QED
    BY <1>0, <1>3, <2>1, JobsKept DEF R!Synced, R!Poll, R!History, ResourcesOK
<1>4. CASE R!Ingested
  BY <1>4 DEF R!Ingested, R!History, ResourcesOK
<1>5. CASE R!Ingest
  <2>1. PICK n \in news :
          /\ n.kind = "notice"
          /\ job' = [job EXCEPT !["loop"] = [R!Free EXCEPT !.pc = "record", !.news = n,
                       !.read = [content |-> base[n.base].content, edit |-> base[n.base].edits]]]
    BY <1>5 DEF R!Ingest
  <2> DEFINE row == [R!Free EXCEPT !.pc = "record", !.news = n,
                       !.read = [content |-> base[n.base].content, edit |-> base[n.base].edits]]
  <2>2. n \in News /\ n.base \in R!Bases
    BY DEF ResourcesOK
  <2>3. base[n.base].content \in R!Contents /\ base[n.base].edits \in 0 .. MaxEdits
    BY <2>2 DEF ResourcesOK
  <2>4. row \in JobType /\ JobOK(row)
    BY <2>1, <2>2, <2>3, FreeType DEF JobType, Phases, JobOK
  <2> QED
    BY <1>0, <1>5, <2>1, <2>4, JobsKept DEF R!Ingest, R!History, ResourcesOK
<1>6. CASE R!Signal
  <2>1. PICK n \in news :
          /\ n.kind \in {"record", "field"}
          /\ job' = [job EXCEPT !["stream"] = IF n.kind = "field" THEN R!Pass("stream")
                       ELSE [R!Free EXCEPT !.pc = "event", !.listed = sub, !.news = n]]
          /\ news' = news \ {n}
    BY <1>6 DEF R!Signal
  <2>2. n \in News /\ n.base \in R!Bases
    BY DEF ResourcesOK
  <2>3. R!Pass("stream") \in JobType /\ JobOK(R!Pass("stream"))
    BY <1>0, PassType DEF JobOK, R!NoNews
  <2> DEFINE row == [R!Free EXCEPT !.pc = "event", !.listed = sub, !.news = n]
  <2>4. n.kind # "field" => row \in JobType /\ JobOK(row)
    BY <2>1, <2>2, FreeType DEF JobType, Phases, JobOK, ResourcesOK
  <2> QED
    BY <1>0, <1>6, <2>1, <2>3, <2>4, JobsKept DEF R!Signal, R!History, ResourcesOK
<1>7. CASE R!ReadRecord
  <2> DEFINE b == job["stream"].news.base
  <2>1. b \in R!Bases /\ job["stream"].pc = "event" /\ job["stream"].news.kind = "record"
    BY <1>0, <1>7 DEF R!ReadRecord, R!At, JobOK, R!NoNews
  <2>2. base[b].content \in R!Contents /\ base[b].edits \in 0 .. MaxEdits
    BY <2>1 DEF ResourcesOK
  <2>3. CASE R!Move("stream", "done") /\ (sub' = sub \/ \E status \in {"degraded", "forbidden"} :
               sub' = [sub EXCEPT ![b] = R!Degraded("stream", status)])
    <3> DEFINE row == [job["stream"] EXCEPT !.pc = "done"]
    <3>1. row \in JobType /\ JobOK(row) /\ job' = [job EXCEPT !["stream"] = row]
      BY <1>0, <2>3, ZenonT(40) DEF R!Move, JobType, JobOK, Phases
    <3>2. sub' = sub \/ \E status \in R!Statuses :
            sub' = [sub EXCEPT ![b] = [job["stream"].listed[b] EXCEPT !.status = status]]
      <4>1. R!Of("stream") = b
        BY <2>1 DEF R!Of
      <4> QED
        BY <2>3, <4>1, ZenonT(40) DEF R!Degraded, R!Statuses
    <3> HIDE DEF b
    <3>3. sub' \in [R!Bases -> [status : R!Statuses, warm : BOOLEAN]]
      <4>1. CASE sub' = sub
        BY <4>1 DEF ResourcesOK
      <4> QED
        BY <1>0, <2>1, <3>2, <4>1, ListedType
    <3> QED
      BY <1>0, <1>7, <3>1, <3>3, JobsKept DEF R!ReadRecord, R!History, ResourcesOK
  <2>4. CASE UNCHANGED sub /\ job' = [job EXCEPT !["stream"].pc = "record",
               !["stream"].read = [content |-> base[b].content, edit |-> base[b].edits]]
    <3> DEFINE row == [job["stream"] EXCEPT !.pc = "record",
                         !.read = [content |-> base[b].content, edit |-> base[b].edits]]
    <3>1. row \in JobType /\ JobOK(row) /\ job' = [job EXCEPT !["stream"] = row]
      BY <1>0, <2>1, <2>2, <2>4 DEF JobType, JobOK, Phases
    <3> QED
      BY <1>0, <1>7, <2>4, <3>1, JobsKept, ZenonT(40) DEF R!ReadRecord, R!History, ResourcesOK
  <2> QED
    BY <1>7, <2>3, <2>4 DEF R!ReadRecord
<1>8. CASE R!Crash
  <2>1. job' = [a \in R!Actors |-> R!Free] /\ \A a \in R!Actors : job'[a] = R!Free
    BY <1>8 DEF R!Crash
  <2>2. job' \in [R!Actors -> JobType] /\ \A a \in R!Actors : JobOK(job'[a])
    BY <2>1, FreeType DEF JobOK
  <2>3. \A n \in news' : n \in news \/ (n = job["stream"].news /\ n # R!NoNews)
    BY <1>8 DEF R!Crash
  <2>4. news' \subseteq News /\ \A n \in news' : n.base \in R!Bases /\ n.kind # "none"
    BY <1>0, <2>3 DEF ResourcesOK, JobOK, JobType
  <2> QED
    BY <1>8, <2>2, <2>4 DEF R!Crash, ResourcesOK
<1>9. ASSUME NEW a \in R!Actors, R!Record(a) PROVE ResourcesOK'
  <2> DEFINE pcs == {"handoff", "save", "done"}
  <2>1. job[a].pc = "record" /\ R!After(a) \in pcs
    BY <1>9 DEF R!Record, R!At, R!After
  <2>2. R!After(a) = "save" => job[a].news.kind \notin {"record", "notice"}
    BY DEF R!After, R!Via
  <2>3. R!Row(a) \in RowType
    BY <2>1, RowTyped
  <2>4. evidence' = evidence \/ evidence' = Append(evidence, R!Row(a))
    BY <1>9 DEF R!Record
  <2>5. evidence' \in Seq(RowType) /\ DOMAIN evidence \subseteq DOMAIN evidence'
    <3>1. evidence \in Seq(RowType)
      BY DEF ResourcesOK
    <3> QED
      BY <2>3, <2>4, <3>1, Appended
  <2>6. PICK next \in pcs :
          /\ job' = [job EXCEPT ![a].pc = next]
          /\ next = "save" => job[a].news.kind \notin {"record", "notice"}
    BY <1>9, <2>1, <2>2 DEF R!Record, R!Move
  <2>7. job' \in [R!Actors -> JobType] /\ \A c \in R!Actors : JobOK(job'[c])
    <3>1. ~Told(a) => job[a].todo # <<>>
      BY <1>0, <2>1 DEF Told, JobOK
    <3>2. next \in Phases /\ next # "event" /\ (next \in {"base", "compare", "save"} => ~Told(a))
      BY <2>6 DEF Told, Phases
    <3> QED
      BY <2>6, <3>1, <3>2, PhaseKept
  <2> QED
    BY <1>9, <2>5, <2>7 DEF R!Record, R!History, ResourcesOK
<1>10. ASSUME NEW a \in R!Actors, R!Handoff(a) PROVE ResourcesOK'
  <2>1. job[a].pc = "handoff" /\ handed' \subseteq DOMAIN evidence
    BY <1>10 DEF R!Handoff, R!At, ResourcesOK
  <2>2. /\ R!After(a) \in {"save", "done"}
        /\ R!After(a) = "save" => job[a].news.kind \notin {"record", "notice"}
    BY DEF R!After, R!Via
  <2>3. job' \in [R!Actors -> JobType] /\ \A c \in R!Actors : JobOK(job'[c])
    <3>1. ~Told(a) => job[a].todo # <<>>
      BY <1>0, <2>1 DEF Told, JobOK
    <3>2. /\ R!After(a) \in Phases /\ R!After(a) # "event"
          /\ R!After(a) \in {"base", "compare", "save"} => ~Told(a)
      BY <2>2 DEF Told, Phases
    <3>3. job' = [job EXCEPT ![a].pc = R!After(a)]
      BY <1>10 DEF R!Handoff, R!Move
    <3> QED
      BY <3>1, <3>2, <3>3, PhaseKept
  <2> QED
    BY <1>10, <2>1, <2>3 DEF R!Handoff, R!History, ResourcesOK
<1>11. ASSUME NEW a \in R!Actors, R!Skip(a) PROVE ResourcesOK'
  <2>1. job[a].todo \in Seq(R!Bases) /\ job[a].todo # <<>> /\ job[a].pc = "base"
    BY <1>0, <1>11 DEF R!Skip, R!At, JobType
  <2>2. Tail(job[a].todo) \in Seq(R!Bases)
    BY <2>1
  <2> DEFINE row == [job[a] EXCEPT !.todo = Tail(@)]
  <2>3. row \in JobType /\ JobOK(row) /\ job' = [job EXCEPT ![a] = row]
    BY <1>0, <1>11, <2>1, <2>2 DEF R!Skip, JobType, JobOK
  <2> QED
    BY <1>0, <1>11, <2>3, JobsKept DEF R!Skip, R!History, ResourcesOK
<1>12. ASSUME NEW a \in R!Actors, R!Fetch(a) PROVE ResourcesOK'
  <2>1. job[a].pc = "base" /\ job[a].todo # <<>> /\ R!Of(a) \in R!Bases
    BY <1>12, OfType DEF R!Fetch, R!At
  <2>2. base[R!Of(a)].content \in R!Contents /\ base[R!Of(a)].edits \in 0 .. MaxEdits
    BY <2>1 DEF ResourcesOK
  <2> DEFINE row == [job[a] EXCEPT !.pc = "compare",
                       !.read = [content |-> base[R!Of(a)].content, edit |-> base[R!Of(a)].edits]]
  <2>3. row \in JobType /\ JobOK(row)
    BY <1>0, <2>1, <2>2 DEF JobType, JobOK, Phases
  <2>4. job' = [job EXCEPT ![a] = row]
    BY <1>0, <1>12 DEF R!Fetch
  <2> QED
    BY <1>0, <1>12, <2>3, <2>4, JobsKept DEF R!Fetch, R!History, ResourcesOK
<1>13. ASSUME NEW a \in R!Actors, R!FetchFails(a) PROVE ResourcesOK'
  <2>1. job[a].pc = "base" /\ job[a].todo # <<>> /\ R!Of(a) \in R!Bases
    BY <1>13, OfType DEF R!FetchFails, R!At
  <2>2. \E status \in R!Statuses :
          sub' = [sub EXCEPT ![R!Of(a)] = [job[a].listed[R!Of(a)] EXCEPT !.status = status]]
    BY <1>13 DEF R!FetchFails, R!Degraded, R!Statuses
  <2>3. sub' \in [R!Bases -> [status : R!Statuses, warm : BOOLEAN]]
    BY <2>1, <2>2, ListedType
  <2> DEFINE row == [job[a] EXCEPT !.pc = "done"]
  <2>4. row \in JobType /\ JobOK(row) /\ job' = [job EXCEPT ![a] = row]
    BY <1>0, <1>13 DEF R!FetchFails, R!Move, JobType, JobOK, Phases
  <2> QED
    BY <1>0, <1>13, <2>3, <2>4, JobsKept DEF R!FetchFails, R!History, ResourcesOK
<1>14. ASSUME NEW a \in R!Actors, R!Compare(a) PROVE ResourcesOK'
  <2>1. PICK next \in {"save", "record"} : job' = [job EXCEPT ![a].pc = next]
    BY <1>14 DEF R!Compare, R!Move
  <2>2. job[a].pc = "compare"
    BY <1>14 DEF R!Compare, R!At
  <2> DEFINE row == [job[a] EXCEPT !.pc = next]
  <2>3. row \in JobType /\ JobOK(row) /\ job' = [job EXCEPT ![a] = row]
    BY <1>0, <2>1, <2>2 DEF JobType, JobOK, Phases
  <2> QED
    BY <1>0, <1>14, <2>3, JobsKept DEF R!Compare, R!History, ResourcesOK
<1>15. ASSUME NEW a \in R!Actors, R!Save(a) PROVE ResourcesOK'
  <2>1. job[a].pc = "save" /\ job[a].news.kind \notin {"record", "notice"} /\ job[a].todo # <<>>
    BY <1>0, <1>15 DEF R!Save, R!At, JobOK
  <2>2. R!Of(a) \in R!Bases
    BY <2>1, OfType DEF Comparing, Told
  <2>3. Tail(job[a].todo) \in Seq(R!Bases)
    BY <1>0, <2>1 DEF JobType
  <2> DEFINE row == [job[a] EXCEPT !.todo = Tail(@), !.pc = "base"]
  <2>4. row \in JobType /\ JobOK(row) /\ job' = [job EXCEPT ![a] = row]
    BY <1>0, <1>15, <2>1, <2>3, ZenonT(40) DEF R!Save, JobType, JobOK, Phases
  <2>5. sub' \in [R!Bases -> [status : R!Statuses, warm : BOOLEAN]]
    BY <1>15, <2>2 DEF R!Save, R!Statuses, ResourcesOK
  <2>6. baseline' \in [R!Bases -> 0 .. R!Never]
    <3>1. job[a].read.edit \in 0 .. R!Never
      BY <1>0, MonitorBounds DEF JobType, R!Never
    <3> QED
      BY <1>15, <2>2, <3>1 DEF R!Save, ResourcesOK
  <2> QED
    BY <1>0, <1>15, <2>4, <2>5, <2>6, JobsKept DEF R!Save, ResourcesOK
<1>16. ASSUME NEW a \in R!Actors, R!Done(a) PROVE ResourcesOK'
  <2>1. R!Free \in JobType /\ JobOK(R!Free)
    BY FreeType DEF JobOK
  <2> QED
    BY <1>0, <1>16, <2>1, JobsKept DEF R!Done, R!History, ResourcesOK
<1>17. ASSUME NEW b \in R!Bases, R!Remove(b) PROVE ResourcesOK'
  <2>1. sub' \in [R!Bases -> [status : R!Statuses, warm : BOOLEAN]]
    BY <1>17 DEF R!Remove, R!Statuses, ResourcesOK
  <2> QED
    BY <1>17, <2>1 DEF R!Remove, R!History, ResourcesOK
<1>18. ASSUME NEW b \in R!Bases, R!Edit(b) PROVE ResourcesOK'
  <2>1. PICK content \in EditedTo \ {base[b].content} :
          base' = [base EXCEPT ![b] = [content |-> content, edits |-> base[b].edits + 1]]
    BY <1>18 DEF R!Edit
  <2>2. base[b].edits + 1 \in 0 .. MaxEdits
    BY <1>18, MonitorBounds DEF R!Edit, ResourcesOK
  <2>3. base' \in [R!Bases -> [content : R!Contents, edits : 0 .. MaxEdits]]
    BY <2>1, <2>2, MonitorBounds DEF ResourcesOK
  <2>4. news' = news \/ \E what \in {"record", "field", "notice"} :
          news' = news \cup {[kind |-> what, base |-> b, edit |-> base[b].edits + 1]}
    BY <1>18 DEF R!Edit
  <2>5. news' \subseteq News /\ \A n \in news' : n.base \in R!Bases /\ n.kind # "none"
    BY <2>2, <2>4, MonitorBounds, SMTT(30) DEF ResourcesOK, News, R!Bases
  <2> QED
    BY <1>18, <2>3, <2>5 DEF R!Edit, R!History, ResourcesOK
<1>19. CASE UNCHANGED resourceVars
  BY <1>19 DEF resourceVars, ResourcesOK
<1> QED
  BY <1>1, <1>2, <1>3, <1>4, <1>5, <1>6, <1>7, <1>8, <1>9, <1>10, <1>11, <1>12, <1>13, <1>14, <1>15, <1>16,
     <1>17, <1>18, <1>19 DEF R!Next, R!Loop, R!Step

-----------------------------------------------------------------------------
(* Steps that read nothing.                                                  *)

\* A job that compares is still at what it was.
Keeping(a) ==
  Comparing(a)' => /\ Comparing(a) /\ job'[a].read = job[a].read /\ R!Of(a)' = R!Of(a)
                   /\ job'[a].listed = job[a].listed
\* And no further with it than it was.
Stays(a) ==
  /\ Keeping(a)
  /\ job'[a].pc \in {"handoff", "save"} => job[a].pc \in {"handoff", "save"}
  /\ job'[a].pc = "handoff" => job[a].pc = "handoff" /\ R!Key(a)' = R!Key(a)
Warm(b) == sub[b].warm \/ \E a \in R!Actors : job[a].listed[b].warm
Warms == \A b \in R!Bases : Warm(b)' => Warm(b)
Grows == DOMAIN evidence \subseteq DOMAIN evidence' /\ \A e \in DOMAIN evidence : evidence'[e] = evidence[e]
Quiet ==
  /\ UNCHANGED <<base, evidence, baseline, handed>>
  /\ (\A a \in R!Actors : Stays(a)) /\ Warms

WatchInv == KeysInv /\ ReadsInv /\ WarmInv /\ KnownInv /\ SilentInv

LEMMA KeptReads ==
  ASSUME ReadsInv, base' = base, \A a \in R!Actors : Keeping(a)
  PROVE  ReadsInv'
<1> SUFFICES ASSUME NEW a \in R!Actors, Comparing(a)'
    PROVE  /\ job'[a].read.edit <= base'[R!Of(a)'].edits
           /\ job'[a].read.edit = base'[R!Of(a)'].edits => job'[a].read.content = base'[R!Of(a)'].content
           /\ \A c \in R!Actors : Reconciles(c, R!Of(a))' /\ job'[c].read.edit = job'[a].read.edit
                => job'[c].read.content = job'[a].read.content
  BY DEF ReadsInv
<1>1. Comparing(a) /\ job'[a].read = job[a].read /\ R!Of(a)' = R!Of(a)
  BY DEF Keeping
<1>2. \A c \in R!Actors : Reconciles(c, R!Of(a))' => Reconciles(c, R!Of(a)) /\ job'[c].read = job[c].read
  BY <1>1 DEF Keeping, Reconciles
<1> QED
  BY <1>1, <1>2 DEF ReadsInv

LEMMA KeptWarm ==
  ASSUME WarmInv, UNCHANGED <<base, baseline>>, Grows, Warms, \A a \in R!Actors : Keeping(a)
  PROVE  WarmInv'
<1>1. ASSUME NEW b \in R!Bases
      PROVE  /\ Warm(b)' => baseline[b] # R!Never
             /\ baseline[b] # R!Never => baseline[b] <= base[b].edits
             /\ baseline[b] # R!Never => \E e \in DOMAIN evidence', c \in R!Contents :
                  /\ Stands(e, b, c)'
                  /\ base[b].edits = baseline[b] => base[b].content = c
                  /\ \A a \in R!Actors : Reconciles(a, b)' /\ job'[a].read.edit = baseline[b]
                       => job'[a].read.content = c
  <2>1. \A a \in R!Actors : Reconciles(a, b)' => Reconciles(a, b) /\ job'[a].read = job[a].read
    BY DEF Keeping, Reconciles
  <2>2. \A e \in DOMAIN evidence, c \in R!Contents : Stands(e, b, c) => e \in DOMAIN evidence' /\ Stands(e, b, c)'
    BY DEF Grows, Stands
  <2> QED
    BY <2>1, <2>2 DEF WarmInv, Warms, Warm
<1>2. ASSUME NEW a \in R!Actors
      PROVE  Comparing(a)' /\ job'[a].listed[R!Of(a)'].warm => job'[a].read.edit >= baseline[R!Of(a)']
  BY DEF WarmInv, Keeping
<1> QED
  BY <1>1, <1>2 DEF WarmInv, Warm

LEMMA KeptKnown ==
  ASSUME KnownInv, Grows, NEW a \in R!Actors, Keeping(a),
         job'[a].pc \in {"handoff", "save"} => job[a].pc \in {"handoff", "save"}
  PROVE  Comparing(a)' /\ job'[a].pc \in {"handoff", "save"} =>
           \E e \in DOMAIN evidence' : Stands(e, R!Of(a), job[a].read.content)'
  BY DEF KnownInv, Keeping, Grows, Stands

LEMMA QuietKeepsAll == ResourcesOK /\ WatchInv /\ Quiet => WatchInv'
<1> SUFFICES ASSUME ResourcesOK, WatchInv, Quiet PROVE WatchInv'
  OBVIOUS
<1>1. /\ evidence' = evidence /\ handed' = handed /\ baseline' = baseline /\ base' = base
      /\ Grows /\ Warms /\ \A a \in R!Actors : Stays(a) /\ Keeping(a)
  BY DEF Quiet, Grows, Stays
<1>2. KeysInv'
  BY <1>1 DEF WatchInv, KeysInv
<1>3. SilentInv'
  <2>1. \A a \in R!Actors : job'[a].pc = "handoff" => job[a].pc = "handoff" /\ R!Key(a)' = R!Key(a)
    BY <1>1 DEF Stays
  <2> QED
    BY <1>1, <2>1 DEF WatchInv, SilentInv, ToldBefore
<1>4. KnownInv'
  BY <1>1, KeptKnown DEF WatchInv, Stays, KnownInv
<1>5. ReadsInv' /\ WarmInv'
  BY <1>1, KeptReads, KeptWarm DEF WatchInv
<1> QED
  BY <1>2, <1>3, <1>4, <1>5 DEF WatchInv

LEMMA JobStays ==
  ASSUME ResourcesOK, NEW a \in R!Actors, NEW row, job' = [job EXCEPT ![a] = row],
         row.pc \notin {"compare", "handoff", "save"},
         row.pc = "record" => row.news.kind \in {"record", "notice"}
  PROVE  \A c \in R!Actors : Stays(c)
<1> TAKE c \in R!Actors
<1>1. CASE c = a
  <2>1. job'[c] = row
    BY <1>1 DEF ResourcesOK
  <2>2. ~Comparing(c)' /\ job'[c].pc # "handoff"
    BY <2>1 DEF Comparing, Told
  <2> QED
    BY <2>2 DEF Stays, Keeping
<1>2. CASE c # a
  <2>1. job'[c] = job[c]
    BY <1>2 DEF ResourcesOK
  <2>2. Comparing(c)' = Comparing(c) /\ R!Of(c)' = R!Of(c) /\ R!Key(c)' = R!Key(c)
    BY <2>1 DEF Comparing, Told, R!Of, R!Key
  <2> QED
    BY <2>1, <2>2 DEF Stays, Keeping
<1> QED
  BY <1>1, <1>2

LEMMA JobSame == ASSUME job' = job PROVE \A c \in R!Actors : Stays(c)
  BY DEF Stays, Keeping, Comparing, Told, R!Of, R!Key

LEMMA JobWarms ==
  ASSUME ResourcesOK, NEW a \in R!Actors, NEW row, job' = [job EXCEPT ![a] = row],
         \A b \in R!Bases : sub'[b].warm \/ row.listed[b].warm => Warm(b)
  PROVE  \A b \in R!Bases : Warm(b)' => Warm(b)
<1>1. \A c \in R!Actors : job'[c] = IF c = a THEN row ELSE job[c]
  BY DEF ResourcesOK
<1> QED
  BY <1>1 DEF Warm

LEMMA QuietStep ==
  ASSUME ResourcesOK,
         \/ R!Start \/ R!Sync \/ R!Synced \/ R!Poll \/ R!Ingested \/ R!Ingest \/ R!Signal \/ R!ReadRecord \/ R!Crash
         \/ \E a \in R!Actors : R!Skip(a) \/ R!FetchFails(a) \/ R!Done(a)
         \/ \E b \in R!Bases : R!Remove(b)
         \/ UNCHANGED resourceVars
  PROVE  Quiet
<1>0. /\ "loop" \in R!Actors /\ "stream" \in R!Actors
      /\ \A a \in R!Actors : job[a] \in JobType /\ JobOK(job[a])
  BY SMTT(30) DEF R!Actors, ResourcesOK
<1>1. UNCHANGED <<base, evidence, baseline, handed>>
  BY Zenon DEF R!Start, R!Sync, R!Synced, R!Poll, R!Ingested, R!Ingest, R!Signal, R!ReadRecord, R!Crash,
         R!Skip, R!FetchFails, R!Done, R!Remove, R!History, resourceVars
<1>2. ASSUME NEW a \in R!Actors, NEW row, job' = [job EXCEPT ![a] = row],
             row.pc \notin {"compare", "handoff", "save"},
             row.pc = "record" => row.news.kind \in {"record", "notice"},
             \A b \in R!Bases : sub'[b].warm \/ row.listed[b].warm => Warm(b)
      PROVE  Quiet
  BY <1>1, <1>2, JobStays, JobWarms DEF Quiet, Warms
<1>3. ASSUME job' = job, \A b \in R!Bases : sub'[b].warm => Warm(b)
      PROVE  Quiet
  BY <1>1, <1>3, JobSame DEF Quiet, Warms, Warm
<1>4. \A b \in R!Bases : sub[b].warm => Warm(b)
  BY DEF Warm
<1>5. \A a \in R!Actors, b \in R!Bases : job[a].listed[b].warm => Warm(b)
  BY DEF Warm
<1>6. ASSUME NEW a \in R!Actors, NEW b \in R!Bases, NEW status \in R!Statuses,
             sub' = [sub EXCEPT ![b] = [job[a].listed[b] EXCEPT !.status = status]]
      PROVE  \A c \in R!Bases : sub'[c].warm => Warm(c)
  BY <1>4, <1>5, <1>6, ListedType
<1>7. CASE R!Start
  <2> DEFINE row == [R!Free EXCEPT !.pc = "sync", !.todo = [i \in R!Bases |-> i], !.listed = sub']
  <2>1. row.pc = "sync" /\ row.listed = sub' /\ job' = [job EXCEPT !["loop"] = row]
    BY <1>7 DEF R!Start, R!Free
  <2>2. \A b \in R!Bases : sub'[b].warm => Warm(b)
    BY <1>4, <1>7 DEF R!Start
  <2> HIDE DEF row
  <2> QED
    BY <1>0, <1>2, <2>1, <2>2
<1>8. CASE R!Sync
  <2> DEFINE row == [job["loop"] EXCEPT !.todo = Tail(@)]
  <2>1. job["loop"].pc = "sync" /\ job["loop"].todo # <<>>
    BY <1>8 DEF R!Sync, R!At
  <2>2. row.pc = "sync" /\ row.listed = job["loop"].listed /\ job' = [job EXCEPT !["loop"] = row]
    BY <1>0, <1>8, <2>1 DEF R!Sync, JobType
  <2>3. R!Of("loop") \in R!Bases
    <3>1. job["loop"].todo \in Seq(R!Bases)
      BY <1>0 DEF JobType
    <3> QED
      BY <1>0, <2>1, <3>1 DEF R!Of, JobOK, R!NoNews
  <2>4. sub' = sub \/ \E status \in R!Statuses :
          sub' = [sub EXCEPT ![R!Of("loop")] = [job["loop"].listed[R!Of("loop")] EXCEPT !.status = status]]
    BY <1>8 DEF R!Sync, R!Statuses
  <2>5. \A b \in R!Bases : sub'[b].warm => Warm(b)
    BY <1>0, <1>4, <1>6, <2>3, <2>4
  <2> HIDE DEF row
  <2> QED
    BY <1>0, <1>2, <1>5, <2>2, <2>5
<1>9. CASE R!Synced \/ R!Poll
  <2>1. job' = [job EXCEPT !["loop"] = R!Pass("loop")] /\ sub' = sub
    BY <1>9 DEF R!Synced, R!Poll
  <2> QED
    BY <1>0, <1>2, <1>4, <2>1, PassType
<1>10. CASE R!Ingested
  BY <1>3, <1>4, <1>10 DEF R!Ingested
<1>11. CASE R!Ingest
  <2>1. PICK n \in news :
          /\ n.kind = "notice"
          /\ job' = [job EXCEPT !["loop"] = [R!Free EXCEPT !.pc = "record", !.news = n,
                       !.read = [content |-> base[n.base].content, edit |-> base[n.base].edits]]]
    BY <1>11 DEF R!Ingest
  <2> DEFINE row == [R!Free EXCEPT !.pc = "record", !.news = n,
                       !.read = [content |-> base[n.base].content, edit |-> base[n.base].edits]]
  <2>2. row.pc = "record" /\ row.news = n /\ row.listed = R!Free.listed
    BY DEF R!Free
  <2>3. sub' = sub /\ job' = [job EXCEPT !["loop"] = row]
    BY <1>11, <2>1 DEF R!Ingest
  <2> HIDE DEF row
  <2> QED
    BY <1>0, <1>2, <1>4, <2>1, <2>2, <2>3, FreeType
<1>12. CASE R!Signal
  <2>1. PICK n \in news :
          job' = [job EXCEPT !["stream"] = IF n.kind = "field" THEN R!Pass("stream")
                       ELSE [R!Free EXCEPT !.pc = "event", !.listed = sub, !.news = n]]
    BY <1>12 DEF R!Signal
  <2> DEFINE row == [R!Free EXCEPT !.pc = "event", !.listed = sub, !.news = n]
  <2>2. row.pc = "event" /\ row.listed = sub
    BY DEF R!Free
  <2>3. sub' = sub /\ (job' = [job EXCEPT !["stream"] = row] \/ job' = [job EXCEPT !["stream"] = R!Pass("stream")])
    BY <1>12, <2>1 DEF R!Signal
  <2> HIDE DEF row
  <2> QED
    BY <1>0, <1>2, <1>4, <2>2, <2>3, PassType
<1>13. CASE R!ReadRecord
  <2> DEFINE b == job["stream"].news.base
             done == [job["stream"] EXCEPT !.pc = "done"]
             row == [job["stream"] EXCEPT !.pc = "record",
                         !.read = [content |-> base[b].content, edit |-> base[b].edits]]
  <2>1. b \in R!Bases /\ job["stream"].news.kind = "record" /\ R!Of("stream") = b
    <3>1. job["stream"].pc = "event"
      BY <1>13 DEF R!ReadRecord, R!At
    <3> QED
      BY <1>0, <3>1 DEF JobOK, R!NoNews, R!Of
  <2>2. /\ done.pc = "done" /\ done.listed = job["stream"].listed
        /\ row.pc = "record" /\ row.news.kind = "record" /\ row.listed = job["stream"].listed
    BY <1>0, <2>1, SMTT(30) DEF JobType
  <2>3. \/ sub' = sub
        \/ \E status \in R!Statuses : sub' = [sub EXCEPT ![b] = [job["stream"].listed[b] EXCEPT !.status = status]]
    BY <1>13, <2>1, ZenonT(40) DEF R!ReadRecord, R!Degraded, R!Statuses
  <2>4. job' = [job EXCEPT !["stream"] = done] \/ job' = [job EXCEPT !["stream"] = row]
    BY <1>0, <1>13 DEF R!ReadRecord, R!Move
  <2> HIDE DEF b, done, row
  <2>5. \A c \in R!Bases : sub'[c].warm => Warm(c)
    BY <1>0, <1>4, <1>6, <2>1, <2>3
  <2> QED
    BY <1>0, <1>2, <1>5, <2>2, <2>4, <2>5
<1>14. CASE R!Crash
  <2>1. \A a \in R!Actors : job'[a] = R!Free
    BY <1>14 DEF R!Crash
  <2>2. \A a \in R!Actors : Stays(a)
    BY <2>1, FreeType DEF Stays, Keeping, Comparing
  <2>3. \A b \in R!Bases : Warm(b)' => Warm(b)
    BY <1>14, <2>1, FreeType DEF Warm, R!Crash
  <2> QED
    BY <1>1, <2>2, <2>3 DEF Quiet, Warms
<1>15. ASSUME NEW a \in R!Actors, R!Skip(a) PROVE Quiet
  <2> DEFINE row == [job[a] EXCEPT !.todo = Tail(@)]
  <2>1. row.pc = "base" /\ row.listed = job[a].listed /\ job' = [job EXCEPT ![a] = row] /\ sub' = sub
    BY <1>0, <1>15 DEF R!Skip, R!At, JobType
  <2> HIDE DEF row
  <2> QED
    BY <1>2, <1>4, <1>5, <2>1
<1>16. ASSUME NEW a \in R!Actors, R!FetchFails(a) PROVE Quiet
  <2>1. R!Of(a) \in R!Bases
    BY <1>16, OfType DEF R!FetchFails, R!At
  <2>2. \E status \in R!Statuses :
          sub' = [sub EXCEPT ![R!Of(a)] = [job[a].listed[R!Of(a)] EXCEPT !.status = status]]
    BY <1>16 DEF R!FetchFails, R!Degraded, R!Statuses
  <2>4. \A b \in R!Bases : sub'[b].warm => Warm(b)
    BY <1>6, <2>1, <2>2
  <2> DEFINE row == [job[a] EXCEPT !.pc = "done"]
  <2>3. row.pc = "done" /\ row.listed = job[a].listed /\ job' = [job EXCEPT ![a] = row]
    BY <1>0, <1>16 DEF R!FetchFails, R!Move, JobType
  <2> HIDE DEF row
  <2> QED
    BY <1>2, <1>5, <2>3, <2>4
<1>17. ASSUME NEW a \in R!Actors, R!Done(a) PROVE Quiet
  <2>1. job' = [job EXCEPT ![a] = R!Free] /\ sub' = sub
    BY <1>17 DEF R!Done
  <2> QED
    BY <1>2, <1>4, <2>1, FreeType
<1>18. ASSUME NEW b \in R!Bases, R!Remove(b) PROVE Quiet
  <2>1. \A c \in R!Bases : sub'[c].warm = sub[c].warm
    BY <1>18 DEF R!Remove, ResourcesOK
  <2> QED
    BY <1>3, <1>4, <1>18, <2>1 DEF R!Remove
<1>19. CASE UNCHANGED resourceVars
  BY <1>3, <1>4, <1>19 DEF resourceVars
<1> QED
  BY <1>7, <1>8, <1>9, <1>10, <1>11, <1>12, <1>13, <1>14, <1>15, <1>16, <1>17, <1>18, <1>19

-----------------------------------------------------------------------------
(* Edits, and the steps of a pass.                                           *)

LEMMA EditKeeps ==
  ASSUME ResourcesOK, WatchInv, NEW b \in R!Bases, R!Edit(b)
  PROVE  WatchInv'
<1>1. /\ UNCHANGED <<sub, evidence, handed, job, baseline>>
      /\ \A c \in R!Bases : c # b => base'[c] = base[c]
      /\ base'[b].edits = base[b].edits + 1 /\ base[b].edits \in Nat
  BY DEF R!Edit, R!History, ResourcesOK
<1>2. \A a \in R!Actors : Comparing(a) => R!Of(a) \in R!Bases
  BY OfType
<1>3. \A a \in R!Actors : job[a].read.edit \in Nat
  BY DEF ResourcesOK, JobType
<1>4. ReadsInv'
  <2> SUFFICES ASSUME NEW a \in R!Actors, Comparing(a)
      PROVE  /\ job[a].read.edit <= base'[R!Of(a)].edits
             /\ job[a].read.edit = base'[R!Of(a)].edits => job[a].read.content = base'[R!Of(a)].content
             /\ \A c \in R!Actors : Reconciles(c, R!Of(a)) /\ job[c].read.edit = job[a].read.edit
                  => job[c].read.content = job[a].read.content
    BY <1>1 DEF ReadsInv, Comparing, Told, Reconciles, R!Of
  <2>1. /\ job[a].read.edit <= base[R!Of(a)].edits
        /\ job[a].read.edit = base[R!Of(a)].edits => job[a].read.content = base[R!Of(a)].content
        /\ \A c \in R!Actors : Reconciles(c, R!Of(a)) /\ job[c].read.edit = job[a].read.edit
             => job[c].read.content = job[a].read.content
    BY DEF WatchInv, ReadsInv
  <2>2. CASE R!Of(a) = b
    BY <1>1, <1>3, <2>1, <2>2
  <2>3. CASE R!Of(a) # b
    BY <1>1, <1>2, <2>1, <2>3
  <2> QED
    BY <2>2, <2>3
<1>5. WarmInv'
  <2>1. \A c \in R!Bases : baseline[c] # R!Never =>
          /\ baseline[c] <= base'[c].edits
          /\ base'[c].edits = baseline[c] => base'[c] = base[c]
    <3> TAKE c \in R!Bases
    <3>1. baseline[c] \in Nat /\ (baseline[c] # R!Never => baseline[c] <= base[c].edits)
      BY MonitorBounds DEF WatchInv, WarmInv, ResourcesOK, R!Never
    <3> QED
      BY <1>1, <3>1
  <2> QED
    BY <1>1, <2>1 DEF WatchInv, WarmInv, Stands, Reconciles, Comparing, Told, R!Of
<1>6. KeysInv' /\ KnownInv' /\ SilentInv'
  BY <1>1 DEF WatchInv, KeysInv, KnownInv, SilentInv, ToldBefore, Stands, Comparing, Told, R!Of, R!Key
<1> QED
  BY <1>4, <1>5, <1>6 DEF WatchInv

\* A job in a pass that goes on to another phase of the comparison.
LEMMA PhaseKeeping ==
  ASSUME ResourcesOK, NEW a \in R!Actors, job[a].pc \in {"compare", "record", "handoff"},
         NEW next \in Phases, job' = [job EXCEPT ![a].pc = next]
  PROVE  /\ \A c \in R!Actors : Keeping(c)
         /\ \A c \in R!Actors : R!Key(c)' = R!Key(c) /\ (c # a => job'[c].pc = job[c].pc)
         /\ job'[a].pc = next /\ (Comparing(a)' => Comparing(a))
         /\ R!Of(a)' = R!Of(a) /\ job'[a].read = job[a].read
         /\ sub' = sub => Warms
<1>1. ASSUME NEW c \in R!Actors
      PROVE  /\ job'[c].read = job[c].read /\ job'[c].listed = job[c].listed
             /\ job'[c].news = job[c].news /\ job'[c].todo = job[c].todo
             /\ job'[c].pc = IF c = a THEN next ELSE job[c].pc
  BY DEF ResourcesOK, JobType
<1>2. \A c \in R!Actors : R!Of(c)' = R!Of(c) /\ R!Key(c)' = R!Key(c) /\ (Comparing(c)' => Comparing(c))
  BY <1>1 DEF R!Of, R!Key, Comparing, Told
<1>3. sub' = sub => Warms
  BY <1>1 DEF Warms, Warm
<1> QED
  BY <1>1, <1>2, <1>3 DEF Keeping

LEMMA CompareKeeps ==
  ASSUME ResourcesOK, WatchInv, NEW a \in R!Actors, R!Compare(a)
  PROVE  WatchInv'
<1>1. PICK next \in {"save", "record"} :
        /\ job' = [job EXCEPT ![a].pc = next]
        /\ next = "save" => R!Unchanged(a)
  BY DEF R!Compare, R!Move
<1>2. /\ UNCHANGED <<base, sub, evidence, handed, baseline>> /\ job[a].pc = "compare"
      /\ next \in Phases /\ Grows
  BY DEF R!Compare, R!History, R!At, Phases, Grows
<1>3. ReadsInv' /\ WarmInv'
  BY <1>1, <1>2, PhaseKeeping, KeptReads, KeptWarm DEF WatchInv
<1>4. KnownInv'
  <2>1. ASSUME R!Unchanged(a)
        PROVE  \E e \in DOMAIN evidence : Stands(e, R!Of(a), job[a].read.content)
    BY <2>1 DEF R!Unchanged, R!Newest, Stands
  <2>2. Comparing(a)' /\ job'[a].pc \in {"handoff", "save"} =>
          \E e \in DOMAIN evidence' : Stands(e, R!Of(a), job[a].read.content)'
    <3>1. /\ job'[a].pc = next /\ R!Of(a)' = R!Of(a) /\ job'[a].read = job[a].read
          /\ evidence' = evidence
      BY <1>1, <1>2, PhaseKeeping
    <3> QED
      BY <1>1, <2>1, <3>1 DEF Stands
  <2>3. ASSUME NEW c \in R!Actors, c # a
        PROVE  Comparing(c)' /\ job'[c].pc \in {"handoff", "save"} =>
                 \E e \in DOMAIN evidence' : Stands(e, R!Of(c), job[c].read.content)'
    BY <1>1, <1>2, <2>3, PhaseKeeping, KeptKnown DEF WatchInv
  <2> QED
    BY <2>2, <2>3 DEF KnownInv
<1>5. KeysInv' /\ SilentInv'
  <2>1. \A c \in R!Actors : job'[c].pc = "handoff" => job[c].pc = "handoff" /\ R!Key(c)' = R!Key(c)
    BY <1>1, <1>2, PhaseKeeping
  <2> QED
    BY <1>2, <2>1 DEF WatchInv, KeysInv, SilentInv, ToldBefore
<1> QED
  BY <1>3, <1>4, <1>5 DEF WatchInv

LEMMA HandoffKeeps ==
  ASSUME ResourcesOK, WatchInv, NEW a \in R!Actors, R!Handoff(a)
  PROVE  WatchInv'
<1>1. /\ UNCHANGED <<base, sub, evidence, baseline>> /\ job[a].pc = "handoff" /\ Grows
      /\ job' = [job EXCEPT ![a].pc = R!After(a)]
      /\ R!After(a) \in Phases /\ R!After(a) # "handoff"
      /\ handed' = handed \cup {e \in DOMAIN evidence : evidence[e].key = R!Key(a)}
  BY DEF R!Handoff, R!Move, R!History, R!At, R!After, Phases, Grows
<1>2. ReadsInv' /\ WarmInv'
  BY <1>1, PhaseKeeping, KeptReads, KeptWarm DEF WatchInv
<1>3. KnownInv'
  BY <1>1, PhaseKeeping, KeptKnown, ZenonT(40) DEF WatchInv, KnownInv
<1>4. SilentInv'
  <2>1. \A c \in R!Actors : job'[c].pc = "handoff" => job[c].pc = "handoff" /\ R!Key(c)' = R!Key(c)
    BY <1>1, PhaseKeeping
  <2>2. \A e \in handed' : evidence[e].via = "reconcile" => ~evidence[e].cold
    BY <1>1 DEF WatchInv, SilentInv
  <2> QED
    BY <1>1, <2>1, <2>2 DEF WatchInv, SilentInv, ToldBefore
<1>5. KeysInv'
  BY <1>1 DEF WatchInv, KeysInv
<1> QED
  BY <1>2, <1>3, <1>4, <1>5 DEF WatchInv

LEMMA FetchKeeps ==
  ASSUME ResourcesOK, WatchInv, NEW a \in R!Actors, R!Fetch(a)
  PROVE  WatchInv'
<1>0. job[a] \in JobType /\ job[a].pc = "base" /\ job[a].todo # <<>> /\ ~Told(a)
  BY DEF R!Fetch, R!At, ResourcesOK, JobOK, Told
<1>1. R!Of(a) \in R!Bases
  BY <1>0, OfType
<1>2. UNCHANGED <<base, sub, evidence, handed, baseline>>
  BY DEF R!Fetch, R!History
<1>3. /\ job'[a].pc = "compare" /\ job'[a].todo = job[a].todo /\ job'[a].news = job[a].news
      /\ job'[a].listed = job[a].listed
      /\ job'[a].read.content = base[R!Of(a)].content /\ job'[a].read.edit = base[R!Of(a)].edits
      /\ \A c \in R!Actors : c # a => job'[c] = job[c]
  BY <1>0 DEF R!Fetch, ResourcesOK, JobType
<1>4. /\ R!Of(a)' = R!Of(a) /\ ~Told(a)' /\ Comparing(a)'
      /\ \A c \in R!Actors : c # a =>
           /\ Comparing(c)' = Comparing(c) /\ R!Of(c)' = R!Of(c) /\ R!Key(c)' = R!Key(c)
  BY <1>0, <1>3 DEF Comparing, Told, R!Of, R!Key
<1>5. ReadsInv'
  <2>1. \A c \in R!Actors : Comparing(c)' =>
          /\ job'[c].read.edit <= base[R!Of(c)'].edits
          /\ job'[c].read.edit = base[R!Of(c)'].edits => job'[c].read.content = base[R!Of(c)'].content
    <3>1. base[R!Of(a)].edits <= base[R!Of(a)].edits
      BY <1>1 DEF ResourcesOK
    <3> QED
      BY <1>3, <1>4, <3>1 DEF WatchInv, ReadsInv
  <2>2. \A c, d \in R!Actors :
          /\ Comparing(c)' /\ Reconciles(d, R!Of(c))' /\ job'[d].read.edit = job'[c].read.edit
          => job'[d].read.content = job'[c].read.content
    <3> SUFFICES ASSUME NEW c \in R!Actors, NEW d \in R!Actors,
                        Comparing(c)', Comparing(d)', R!Of(d)' = R!Of(c)',
                        job'[d].read.edit = job'[c].read.edit
        PROVE  job'[d].read.content = job'[c].read.content
      BY DEF Reconciles
    <3>1. CASE c = a \/ d = a
      BY <1>3, <1>4, <2>1, <3>1
    <3>2. CASE c # a /\ d # a
      BY <1>3, <1>4, <3>2 DEF WatchInv, ReadsInv, Reconciles
    <3> QED
      BY <3>1, <3>2
  <2> QED
    BY <1>2, <2>1, <2>2 DEF ReadsInv
<1>6. WarmInv'
  <2>1. \A b \in R!Bases : Warm(b)' => Warm(b)
    BY <1>2, <1>3 DEF Warm
  <2>2. ASSUME NEW b \in R!Bases, baseline[b] # R!Never
        PROVE  /\ baseline[b] <= base[b].edits
               /\ \E e \in DOMAIN evidence, c \in R!Contents :
                    /\ Stands(e, b, c)
                    /\ base[b].edits = baseline[b] => base[b].content = c
                    /\ \A d \in R!Actors : Reconciles(d, b)' /\ job'[d].read.edit = baseline[b]
                         => job'[d].read.content = c
    <3>1. PICK e \in DOMAIN evidence, c \in R!Contents :
            /\ Stands(e, b, c)
            /\ base[b].edits = baseline[b] => base[b].content = c
            /\ \A d \in R!Actors : Reconciles(d, b) /\ job[d].read.edit = baseline[b] => job[d].read.content = c
      BY <2>2 DEF WatchInv, WarmInv
    <3>2. \A d \in R!Actors : Reconciles(d, b)' /\ job'[d].read.edit = baseline[b] => job'[d].read.content = c
      BY <1>3, <1>4, <3>1 DEF Reconciles
    <3> QED
      BY <2>2, <3>1, <3>2 DEF WatchInv, WarmInv
  <2>3. ASSUME NEW c \in R!Actors
        PROVE  Comparing(c)' /\ job'[c].listed[R!Of(c)'].warm => job'[c].read.edit >= baseline[R!Of(c)']
    <3>1. CASE c = a
      <4>1. job[a].listed[R!Of(a)].warm => baseline[R!Of(a)] <= base[R!Of(a)].edits
        BY <1>1 DEF WatchInv, WarmInv
      <4>2. base[R!Of(a)].edits \in Nat /\ baseline[R!Of(a)] \in Nat
        BY <1>1, MonitorBounds DEF ResourcesOK, R!Never
      <4> QED
        BY <1>3, <1>4, <3>1, <4>1, <4>2
    <3>2. CASE c # a
      BY <1>3, <1>4, <3>2 DEF WatchInv, WarmInv
    <3> QED
      BY <3>1, <3>2
  <2> QED
    BY <1>2, <2>1, <2>2, <2>3 DEF WatchInv, WarmInv, Warm, Stands
<1>7. KnownInv' /\ KeysInv' /\ SilentInv'
  BY <1>2, <1>3, <1>4 DEF WatchInv, KnownInv, KeysInv, SilentInv, ToldBefore, Stands
<1> QED
  BY <1>5, <1>6, <1>7 DEF WatchInv

LEMMA SaveKeeps ==
  ASSUME ResourcesOK, WatchInv, NEW a \in R!Actors, R!Save(a)
  PROVE  WatchInv'
<1> DEFINE b == R!Of(a)
<1>0. job[a] \in JobType /\ job[a].pc = "save" /\ Comparing(a)
  BY DEF R!Save, R!At, ResourcesOK, JobOK, Comparing, Told
<1>1. b \in R!Bases
  BY <1>0, OfType
<1>2. /\ UNCHANGED <<base, evidence, handed>>
      /\ sub' = [sub EXCEPT ![b] = [status |-> "active", warm |-> TRUE]]
      /\ baseline' = [baseline EXCEPT ![b] = IF @ = R!Never THEN job[a].read.edit ELSE @]
  BY DEF R!Save
<1>3. /\ job'[a].pc = "base" /\ job'[a].listed = job[a].listed
      /\ \A c \in R!Actors : c # a => job'[c] = job[c]
  BY <1>0 DEF R!Save, ResourcesOK, JobType
<1>4. /\ ~Comparing(a)'
      /\ \A c \in R!Actors : c # a =>
           /\ Comparing(c)' = Comparing(c) /\ R!Of(c)' = R!Of(c) /\ R!Key(c)' = R!Key(c)
  BY <1>3 DEF Comparing, Told, R!Of, R!Key
<1>5. \A c \in R!Actors : Keeping(c) /\ (job'[c].pc \in {"handoff", "save"} => job[c].pc \in {"handoff", "save"})
  BY <1>3, <1>4 DEF Keeping
<1>6. ReadsInv'
  BY <1>2, <1>5, KeptReads DEF WatchInv
<1> HIDE DEF b
<1>7. /\ baseline'[b] = IF baseline[b] = R!Never THEN job[a].read.edit ELSE baseline[b]
      /\ \A c \in R!Bases : c # b => baseline'[c] = baseline[c] /\ sub'[c] = sub[c]
      /\ job[a].read.edit # R!Never
  BY <1>0, <1>1, <1>2, MonitorBounds DEF ResourcesOK, JobType, R!Never
<1>8. \A c \in R!Bases : baseline[c] # R!Never => baseline'[c] = baseline[c]
  BY <1>7
<1>9. WarmInv'
  <2>1. ASSUME NEW c \in R!Bases, Warm(c)' PROVE baseline'[c] # R!Never
    <3>1. c # b => Warm(c)
      BY <1>3, <1>7, <2>1 DEF Warm
    <3> QED
      BY <1>7, <1>8, <3>1 DEF WatchInv, WarmInv, Warm
  <2>2. ASSUME NEW c \in R!Bases, baseline'[c] # R!Never
        PROVE  /\ baseline'[c] <= base[c].edits
               /\ \E e \in DOMAIN evidence, x \in R!Contents :
                    /\ Stands(e, c, x)
                    /\ base[c].edits = baseline'[c] => base[c].content = x
                    /\ \A d \in R!Actors : Reconciles(d, c)' /\ job'[d].read.edit = baseline'[c]
                         => job'[d].read.content = x
    <3>1. \A d \in R!Actors : Reconciles(d, c)' => Reconciles(d, c) /\ job'[d].read = job[d].read
      BY <1>5 DEF Keeping, Reconciles
    <3>2. CASE baseline[c] # R!Never
      <4>1. baseline'[c] = baseline[c] /\ baseline[c] <= base[c].edits
        BY <1>8, <3>2 DEF WatchInv, WarmInv
      <4>2. PICK e \in DOMAIN evidence, x \in R!Contents :
              /\ Stands(e, c, x)
              /\ base[c].edits = baseline[c] => base[c].content = x
              /\ \A d \in R!Actors : Reconciles(d, c) /\ job[d].read.edit = baseline[c] => job[d].read.content = x
        BY <3>2 DEF WatchInv, WarmInv
      <4> QED
        BY <3>1, <4>1, <4>2
    <3>3. CASE baseline[c] = R!Never
      <4>1. c = b /\ baseline'[c] = job[a].read.edit
        BY <1>7, <2>2, <3>3
      <4>2. PICK e \in DOMAIN evidence : Stands(e, b, job[a].read.content)
        BY <1>0 DEF WatchInv, KnownInv, b
      <4>3. job[a].read.content \in R!Contents
        BY <1>0 DEF JobType
      <4>4. /\ job[a].read.edit <= base[b].edits
            /\ job[a].read.edit = base[b].edits => job[a].read.content = base[b].content
            /\ \A d \in R!Actors : Reconciles(d, b) /\ job[d].read.edit = job[a].read.edit
                 => job[d].read.content = job[a].read.content
        BY <1>0 DEF WatchInv, ReadsInv, b
      <4> QED
        BY <3>1, <4>1, <4>2, <4>3, <4>4
    <3> QED
      BY <3>2, <3>3
  <2>3. ASSUME NEW c \in R!Actors, Comparing(c)', job'[c].listed[R!Of(c)'].warm
        PROVE  job'[c].read.edit >= baseline'[R!Of(c)']
    <3>1. /\ Comparing(c) /\ job'[c].read = job[c].read /\ R!Of(c)' = R!Of(c)
          /\ job[c].listed[R!Of(c)].warm
      BY <1>5, <2>3 DEF Keeping
    <3>2. R!Of(c) \in R!Bases
      BY <3>1, OfType
    <3>3. baseline[R!Of(c)] # R!Never /\ job[c].read.edit >= baseline[R!Of(c)]
      BY <3>1, <3>2 DEF WatchInv, WarmInv
    <3> QED
      BY <1>8, <3>1, <3>2, <3>3
  <2> QED
    BY <1>2, <2>1, <2>2, <2>3 DEF WarmInv, Warm, Stands
<1>10. SilentInv'
  <2>1. \A e \in DOMAIN evidence : evidence[e].base \in R!Bases
    BY RowsTyped DEF RowType
  <2>2. \A c \in R!Actors : job'[c].pc = "handoff" => job[c].pc = "handoff" /\ R!Key(c)' = R!Key(c)
    BY <1>3, <1>4
  <2> QED
    BY <1>2, <1>8, <2>1, <2>2 DEF WatchInv, SilentInv, ToldBefore
<1>11. KeysInv'
  BY <1>2 DEF WatchInv, KeysInv
<1>12. KnownInv'
  BY <1>2, <1>5, KeptKnown DEF WatchInv, KnownInv, Grows
<1> QED
  BY <1>6, <1>9, <1>10, <1>11, <1>12 DEF WatchInv

\* The key of an event or a notification is never that of a content.
LEMMA KeysDiffer ==
  ASSUME NEW x \in News, NEW b, NEW c
  PROVE  x # [base |-> b, content |-> c]
<1>1. "kind" \in DOMAIN x /\ "kind" \notin DOMAIN [base |-> b, content |-> c]
  BY DEF News
<1> QED
  BY <1>1

LEMMA RecordKeeps ==
  ASSUME ResourcesOK, WatchInv, NEW a \in R!Actors, R!Record(a)
  PROVE  WatchInv'
<1> DEFINE b == R!Of(a)
<1>0. job[a] \in JobType /\ job[a].pc = "record" /\ UNCHANGED <<base, sub, handed, baseline>>
  BY DEF R!Record, R!At, R!History, ResourcesOK
<1>1. b \in R!Bases /\ R!Row(a) \in RowType /\ evidence \in Seq(RowType)
  BY <1>0, RowTyped DEF ResourcesOK
<1>2. /\ R!Row(a).base = b /\ R!Row(a).content = job[a].read.content /\ R!Row(a).key = R!Key(a)
      /\ R!Row(a).via = R!Via(a) /\ R!Row(a).cold = R!Cold(a)
      /\ R!Via(a) = "reconcile" => R!Row(a).edit = job[a].read.edit
  BY DEF R!Row
<1>3. /\ Comparing(a) <=> R!Via(a) = "reconcile"
      /\ R!Via(a) = "reconcile" => R!Key(a) = [base |-> b, content |-> job[a].read.content]
  BY <1>0 DEF Comparing, Told, R!Via, R!Key
<1>4. R!After(a) = (IF R!Via(a) = "reconcile" THEN "save" ELSE "done")
  BY DEF R!After
<1> HIDE DEF b
<1>5. CASE evidence' = evidence
  <2>1. job' = [job EXCEPT ![a].pc = R!After(a)] /\ \E e \in DOMAIN evidence : evidence[e].key = R!Key(a)
    <3>1. Len(Append(evidence, R!Row(a))) # Len(evidence)
      BY <1>1
    <3> QED
      BY <1>5, <3>1 DEF R!Record, R!Move
  <2>2. R!After(a) \in Phases /\ R!After(a) # "handoff"
    BY <1>4 DEF Phases
  <2>3. Grows
    BY <1>5 DEF Grows
  <2>4. ReadsInv' /\ WarmInv'
    BY <1>0, <2>1, <2>2, <2>3, PhaseKeeping, KeptReads, KeptWarm DEF WatchInv
  <2>5. Comparing(a) => \E e \in DOMAIN evidence : Stands(e, b, job[a].read.content)
    <3> SUFFICES ASSUME Comparing(a) PROVE \E e \in DOMAIN evidence : Stands(e, b, job[a].read.content)
      OBVIOUS
    <3>1. PICK e \in DOMAIN evidence : evidence[e].key = [base |-> b, content |-> job[a].read.content]
      BY <1>3, <2>1
    <3>2. evidence[e].via = "reconcile"
      BY <3>1, KeysDiffer DEF WatchInv, KeysInv
    <3>3. evidence[e].key = [base |-> evidence[e].base, content |-> evidence[e].content]
      BY <3>2 DEF WatchInv, KeysInv
    <3>4. evidence[e].base = b /\ evidence[e].content = job[a].read.content
      BY <3>1, <3>3
    <3> QED
      BY <3>2, <3>4 DEF Stands
  <2>6. KnownInv'
    <3>1. Comparing(a)' /\ job'[a].pc \in {"handoff", "save"} =>
            \E e \in DOMAIN evidence' : Stands(e, R!Of(a), job[a].read.content)'
      <4>1. /\ R!Of(a)' = R!Of(a) /\ job'[a].read = job[a].read
            /\ Comparing(a)' => Comparing(a)
        BY <1>0, <2>1, <2>2, PhaseKeeping
      <4> QED
        BY <1>5, <2>5, <4>1 DEF Stands, b
    <3>2. ASSUME NEW c \in R!Actors, c # a
          PROVE  Comparing(c)' /\ job'[c].pc \in {"handoff", "save"} =>
                   \E e \in DOMAIN evidence' : Stands(e, R!Of(c), job[c].read.content)'
      <4>1. Keeping(c) /\ job'[c].pc = job[c].pc
        BY <1>0, <2>1, <2>2, <3>2, PhaseKeeping
      <4> QED
        BY <2>3, <4>1, KeptKnown DEF WatchInv
    <3> QED
      BY <3>1, <3>2 DEF KnownInv
  <2>7. KeysInv' /\ SilentInv'
    <3>1. \A c \in R!Actors : job'[c].pc = "handoff" => job[c].pc = "handoff" /\ R!Key(c)' = R!Key(c)
      BY <1>0, <2>1, <2>2, PhaseKeeping
    <3> QED
      BY <1>0, <1>5, <3>1 DEF WatchInv, KeysInv, SilentInv, ToldBefore
  <2> QED
    BY <2>4, <2>6, <2>7 DEF WatchInv
<1>6. CASE evidence' # evidence
  <2>1. /\ evidence' = Append(evidence, R!Row(a))
        /\ \A e \in DOMAIN evidence : evidence[e].key # R!Key(a)
    BY <1>6 DEF R!Record
  <2>2. PICK next \in {"handoff", "save", "done"} :
          /\ job' = [job EXCEPT ![a].pc = next]
          /\ next = "handoff" => ~R!Cold(a)
          /\ next = "save" => R!Via(a) = "reconcile"
    BY <1>4, <1>6 DEF R!Record, R!Move
  <2>3. next \in Phases
    BY DEF Phases
  <2> PICK n \in Nat : n = Len(evidence) + 1
    BY <1>1
  <2>4. /\ DOMAIN evidence = 1 .. Len(evidence) /\ Len(evidence) \in Nat
        /\ DOMAIN evidence' = 1 .. n /\ evidence'[n] = R!Row(a)
        /\ \A e \in 1 .. Len(evidence) : evidence'[e] = evidence[e]
    BY <1>1, <2>1, Appended
  <2>5. Grows /\ \A e \in DOMAIN evidence' : e \in DOMAIN evidence \/ e = n
    BY <2>4 DEF Grows
  <2>6. ReadsInv' /\ WarmInv'
    BY <1>0, <2>2, <2>3, <2>5, PhaseKeeping, KeptReads, KeptWarm DEF WatchInv
  <2>7. /\ R!Of(a)' = R!Of(a) /\ job'[a].read = job[a].read /\ (Comparing(a)' => Comparing(a))
        /\ \A c \in R!Actors : Keeping(c) /\ R!Key(c)' = R!Key(c) /\ (c # a => job'[c].pc = job[c].pc)
    BY <1>0, <2>2, <2>3, PhaseKeeping
  <2> DEFINE row == R!Row(a)
  <2>8. row = evidence'[n] /\ n \in DOMAIN evidence' /\ n \notin DOMAIN evidence
    BY <2>4
  <2> HIDE DEF row
  <2>9. KnownInv'
    <3>1. Comparing(a)' => Stands(n, R!Of(a), job[a].read.content)'
      BY <1>2, <1>3, <2>7, <2>8 DEF Stands, b, row
    <3>2. ASSUME NEW c \in R!Actors, c # a
          PROVE  Comparing(c)' /\ job'[c].pc \in {"handoff", "save"} =>
                   \E e \in DOMAIN evidence' : Stands(e, R!Of(c), job[c].read.content)'
      BY <2>5, <2>7, <3>2, KeptKnown DEF WatchInv
    <3> QED
      BY <2>8, <3>1, <3>2 DEF KnownInv
  <2>10. KeysInv'
    <3>1. row.via = "reconcile" => row.key = [base |-> row.base, content |-> row.content]
      BY <1>2, <1>3 DEF row
    <3>2. row.via # "reconcile" => row.key \in News
      <4>1. job[a].news \in News
        BY <1>0 DEF JobType
      <4>2. R!Via(a) # "reconcile" => R!Key(a) = job[a].news
        BY DEF R!Via, R!Key
      <4> QED
        BY <1>2, <4>1, <4>2 DEF row
    <3>3. \A e \in DOMAIN evidence : evidence'[e] = evidence[e] /\ evidence[e].key # row.key
      BY <1>2, <2>1, <2>4 DEF row
    <3>4. \A e \in DOMAIN evidence', f \in DOMAIN evidence' : evidence'[e].key = evidence'[f].key => e = f
      <4>1. evidence'[n].key = row.key
        BY <2>8
      <4>2. \A e \in DOMAIN evidence, f \in DOMAIN evidence : evidence[e].key = evidence[f].key => e = f
        BY DEF WatchInv, KeysInv
      <4>3. \A e \in DOMAIN evidence : evidence'[e].key = evidence[e].key /\ evidence'[e].key # row.key
        BY <3>3
      <4> QED
        BY <2>5, <4>1, <4>2, <4>3, Zenon
    <3>5. \A e \in DOMAIN evidence' :
            /\ evidence'[e].via = "reconcile" =>
                 evidence'[e].key = [base |-> evidence'[e].base, content |-> evidence'[e].content]
            /\ evidence'[e].via # "reconcile" => evidence'[e].key \in News
      <4> SUFFICES ASSUME NEW e \in DOMAIN evidence'
          PROVE  /\ evidence'[e].via = "reconcile" =>
                      evidence'[e].key = [base |-> evidence'[e].base, content |-> evidence'[e].content]
                 /\ evidence'[e].via # "reconcile" => evidence'[e].key \in News
        OBVIOUS
      <4>1. CASE e \in DOMAIN evidence
        <5>1. evidence'[e] = evidence[e]
          BY <3>3, <4>1
        <5> QED
          BY <4>1, <5>1 DEF WatchInv, KeysInv
      <4>2. CASE e = n
        BY <2>8, <3>1, <3>2, <4>2
      <4> QED
        BY <2>5, <4>1, <4>2
    <3> QED
      BY <3>4, <3>5 DEF KeysInv
  <2>11. SilentInv'
    <3>1. \A e \in DOMAIN evidence : evidence'[e] = evidence[e] /\ (ToldBefore(e) => ToldBefore(e)')
      BY <2>4 DEF ToldBefore
    <3>2. ASSUME row.via = "reconcile", ~row.cold
          PROVE  /\ baseline[row.base] # R!Never
                 /\ row.edit > baseline[row.base] \/ ToldBefore(n)'
      <4>1. /\ row.base = b /\ row.content = job[a].read.content /\ row.edit = job[a].read.edit
            /\ row.key = [base |-> b, content |-> job[a].read.content]
            /\ Comparing(a) /\ job[a].listed[b].warm
        BY <1>2, <1>3, <3>2 DEF row, R!Cold, b
      <4>2. baseline[b] # R!Never /\ job[a].read.edit >= baseline[b]
        BY <1>1, <4>1 DEF WatchInv, WarmInv, b
      <4>3. baseline[b] \in Nat /\ job[a].read.edit \in Nat
        BY <1>0, <1>1, MonitorBounds DEF ResourcesOK, JobType, R!Never
      <4>4. CASE job[a].read.edit = baseline[b]
        <5>1. PICK e \in DOMAIN evidence, c \in R!Contents :
                /\ Stands(e, b, c)
                /\ \A d \in R!Actors : Reconciles(d, b) /\ job[d].read.edit = baseline[b] => job[d].read.content = c
          BY <1>1, <4>2 DEF WatchInv, WarmInv
        <5>2. c = job[a].read.content
          BY <4>1, <4>4, <5>1 DEF Reconciles, b
        <5>3. evidence[e].base = b /\ evidence[e].content = job[a].read.content /\ evidence[e].via # "notice"
          BY <5>1, <5>2 DEF Stands
        <5>4. evidence[e].via # "reconcile"
          BY <1>2, <2>1, <4>1, <5>3 DEF WatchInv, KeysInv, row
        <5>5. evidence[e].via = "record"
          BY <5>3, <5>4, RowsTyped DEF RowType
        <5>6. e < n
          BY <2>4
        <5> QED
          BY <2>5, <2>8, <3>1, <4>1, <4>2, <5>3, <5>5, <5>6 DEF ToldBefore, Grows
      <4> QED
        BY <4>1, <4>2, <4>3, <4>4
    <3>3. \A e \in DOMAIN evidence' : evidence'[e].via = "reconcile" /\ ~evidence'[e].cold =>
            /\ baseline[evidence'[e].base] # R!Never
            /\ evidence'[e].edit > baseline[evidence'[e].base] \/ ToldBefore(e)'
      BY <2>5, <2>8, <3>1, <3>2 DEF WatchInv, SilentInv
    <3>4. \A e \in handed : evidence'[e].via = "reconcile" => ~evidence'[e].cold
      <4>1. \A e \in handed : e \in DOMAIN evidence
        BY DEF ResourcesOK
      <4> QED
        BY <3>1, <4>1 DEF WatchInv, SilentInv
    <3>5. ASSUME NEW c \in R!Actors, job'[c].pc = "handoff", NEW e \in DOMAIN evidence',
                 evidence'[e].key = R!Key(c)', evidence'[e].via = "reconcile"
          PROVE  ~evidence'[e].cold
      <4>1. R!Key(c)' = R!Key(c)
        BY <2>7
      <4>2. CASE c # a
        <5>1. job[c].pc = "handoff"
          BY <2>7, <3>5, <4>2
        <5>2. /\ \E f \in DOMAIN evidence : evidence[f].key = R!Key(c)
              /\ \A f \in DOMAIN evidence :
                   evidence[f].key = R!Key(c) /\ evidence[f].via = "reconcile" => ~evidence[f].cold
          BY <5>1 DEF WatchInv, SilentInv
        <5>3. e # n
          BY <1>2, <2>1, <2>8, <3>5, <4>1, <5>2 DEF row
        <5>4. e \in DOMAIN evidence /\ evidence'[e] = evidence[e]
          BY <2>5, <3>1, <5>3
        <5> QED
          BY <3>5, <4>1, <5>2, <5>4
      <4>3. CASE c = a
        <5>1. e = n
          BY <1>2, <2>1, <2>5, <3>1, <3>5, <4>1, <4>3
        <5>2. ~R!Cold(a)
          BY <1>0, <2>2, <3>5, <4>3 DEF ResourcesOK
        <5> QED
          BY <1>2, <2>8, <5>1, <5>2 DEF row
      <4> QED
        BY <4>2, <4>3
    <3>6. ASSUME NEW c \in R!Actors, job'[c].pc = "handoff"
          PROVE  \E e \in DOMAIN evidence' : evidence'[e].key = R!Key(c)'
      <4>1. CASE c = a
        BY <1>2, <2>7, <2>8, <4>1 DEF row
      <4>2. CASE c # a
        <5>1. \E e \in DOMAIN evidence : evidence[e].key = R!Key(c)
          BY <2>7, <3>6, <4>2 DEF WatchInv, SilentInv
        <5> QED
          <6>1. PICK e \in DOMAIN evidence : evidence[e].key = R!Key(c)
            BY <5>1
          <6>2. e \in DOMAIN evidence' /\ evidence'[e] = evidence[e] /\ R!Key(c)' = R!Key(c)
            BY <2>5, <2>7, <3>1 DEF Grows
          <6> QED
            BY <6>1, <6>2
      <4> QED
        BY <4>1, <4>2
    <3> QED
      BY <1>0, <3>3, <3>4, <3>5, <3>6 DEF SilentInv
  <2> QED
    BY <2>6, <2>9, <2>10, <2>11 DEF WatchInv
<1> QED
  BY <1>5, <1>6

LEMMA WatchInit == R!Init => WatchInv
<1> SUFFICES ASSUME R!Init PROVE WatchInv
  OBVIOUS
<1>1. DOMAIN evidence = {} /\ handed = {}
  BY DEF R!Init
<1>2. \A a \in R!Actors : job[a].pc = "idle" /\ \A b \in R!Bases : ~job[a].listed[b].warm
  BY FreeType DEF R!Init
<1>3. \A b \in R!Bases : ~sub[b].warm /\ baseline[b] = R!Never
  BY DEF R!Init
<1>4. \A a \in R!Actors : ~Comparing(a)
  BY <1>2 DEF Comparing
<1> QED
  BY <1>1, <1>2, <1>3, <1>4 DEF WatchInv, KeysInv, ReadsInv, WarmInv, KnownInv, SilentInv

LEMMA WatchStep == ResourcesOK /\ WatchInv /\ [R!Next]_resourceVars => WatchInv'
<1> SUFFICES ASSUME ResourcesOK, WatchInv, [R!Next]_resourceVars PROVE WatchInv'
  OBVIOUS
<1> DEFINE Calm ==
      \/ R!Start \/ R!Sync \/ R!Synced \/ R!Poll \/ R!Ingested \/ R!Ingest \/ R!Signal \/ R!ReadRecord \/ R!Crash
      \/ \E a \in R!Actors : R!Skip(a) \/ R!FetchFails(a) \/ R!Done(a)
      \/ \E b \in R!Bases : R!Remove(b)
      \/ UNCHANGED resourceVars
<1>1. CASE Calm
  BY <1>1, QuietStep, QuietKeepsAll
<1>2. ASSUME NEW a \in R!Actors,
             R!Record(a) \/ R!Handoff(a) \/ R!Fetch(a) \/ R!Compare(a) \/ R!Save(a)
      PROVE  WatchInv'
  BY <1>2, RecordKeeps, HandoffKeeps, FetchKeeps, CompareKeeps, SaveKeeps
<1>3. ASSUME NEW b \in R!Bases, R!Edit(b) PROVE WatchInv'
  BY <1>3, EditKeeps
<1>4. \/ Calm
      \/ \E a \in R!Actors : R!Record(a) \/ R!Handoff(a) \/ R!Fetch(a) \/ R!Compare(a) \/ R!Save(a)
      \/ \E b \in R!Bases : R!Edit(b)
  BY Zenon DEF R!Next, R!Loop, R!Step
<1> QED
  BY <1>1, <1>2, <1>3, <1>4

\* The watch keeps its types and the invariant of its rows.
LEMMA WatchKept == Spec => [](ResourcesOK /\ WatchInv)
<1>1. Init => ResourcesOK /\ WatchInv
  BY ResourcesInit, WatchInit DEF Init
<1>2. (ResourcesOK /\ WatchInv) /\ [Next]_dutyVars => (ResourcesOK /\ WatchInv)'
  BY ResourcesStep, WatchStep, MonitorMoves
<1> QED
  BY <1>1, <1>2, PTL DEF Spec

\* One content of a record is reconciled into one handoff, however many passes of
\* Reconcile (resource/monitor.go) run at a time and wherever a crash cuts one off.
THEOREM HandedOffOnce == Spec => []ReconciledOnce
<1>1. ResourcesOK /\ WatchInv => ReconciledOnce
  <2> SUFFICES ASSUME KeysInv, NEW e \in DOMAIN evidence, NEW f \in DOMAIN evidence, e # f,
                      evidence[e].via = "reconcile", evidence[f].via = "reconcile",
                      evidence[e].base = evidence[f].base, evidence[e].content = evidence[f].content
               PROVE  FALSE
    BY DEF ReconciledOnce, R!ReconciledOnce, WatchInv
  <2> QED
    BY DEF KeysInv
<1> QED
  BY <1>1, WatchKept, PTL

\* What stood in a Base at its first whole reconciliation is no handoff of a later
\* or slower pass, but of an event (Reconcile and projectRecord, monitor.go).
THEOREM BaselineStaysSilent == Spec => []BaselineIsSilent
<1>1. ResourcesOK /\ WatchInv => BaselineIsSilent
  <2> SUFFICES ASSUME ResourcesOK, SilentInv, NEW e \in handed, evidence[e].via = "reconcile"
               PROVE  \/ evidence[e].edit > baseline[evidence[e].base]
                      \/ ToldBefore(e)
    BY DEF BaselineIsSilent, R!BaselineIsSilent, WatchInv, ToldBefore
  <2>1. e \in DOMAIN evidence
    BY DEF ResourcesOK
  <2> QED
    BY <2>1 DEF SilentInv
<1> QED
  BY <1>1, WatchKept, PTL

-----------------------------------------------------------------------------
(* The correction of a decision.                                             *)

\* Until the correction has been offered it is still to come: the turn it was granted
\* for is left, and an attempt, which only a decision uses up.
StillToCome ==
    \/ pc = "calls" /\ gain # "none" /\ turn + 1 < limit
    \/ pc = "turn" /\ turn < limit
    \/ pc = "ended" /\ outcome \in {"none", "decided", "failed"}
CorrectionInv ==
    /\ turn \in Nat /\ limit \in Nat /\ attempts \in Nat
    /\ pc \in {"model", "calls"} => turn < limit
    /\ pc # "ended" => outcome = "none"
    /\ ~granted => attempts <= MaxTerminalOnlyAttempts
    /\ granted => closed
    /\ granted /\ ~again => StillToCome /\ attempts <= MaxTerminalOnlyAttempts

LEMMA CorrectionInit == L!Init => CorrectionInv
  BY DutyParameters DEF L!Init, L!LoopParameters, CorrectionInv

LEMMA CorrectionStep == CorrectionInv /\ [L!Next]_loopVars => CorrectionInv'
<1> SUFFICES ASSUME CorrectionInv, [L!Next]_loopVars PROVE CorrectionInv'
  OBVIOUS
<1> USE DEF L!budgetVars, L!endVars
<1>0. MaxTerminalOnlyAttempts \in Nat
  BY DutyParameters DEF L!LoopParameters
<1>1. CASE L!StartTurn
  <2>1. /\ pc = "turn" /\ pc' \in {"model", "finalizer"} /\ turn < limit
        /\ UNCHANGED <<turn, limit, granted, outcome>>
        /\ closed => closed'
    BY <1>1 DEF L!StartTurn, L!Closes
  <2>2. CASE ~closed'
    <3>1. pc' = "model" /\ UNCHANGED <<attempts, again>> /\ ~granted
      BY <1>1, <2>1, <2>2 DEF L!StartTurn, CorrectionInv
    <3> QED
      BY <2>1, <2>2, <3>1 DEF CorrectionInv
  <2>3. CASE closed' /\ attempts >= L!AttemptLimit
    <3>1. pc' = "finalizer" /\ UNCHANGED <<attempts, again>>
      BY <1>1, <2>3 DEF L!StartTurn
    <3>2. granted => again
      BY <1>0, <2>3 DEF CorrectionInv, L!AttemptLimit
    <3> QED
      BY <2>1, <2>3, <3>1, <3>2 DEF CorrectionInv
  <2>4. CASE closed' /\ ~(attempts >= L!AttemptLimit)
    <3>1. pc' = "model" /\ attempts' = attempts + 1 /\ again' = granted
      BY <1>1, <2>4 DEF L!StartTurn
    <3>2. ~granted => attempts + 1 <= MaxTerminalOnlyAttempts
      BY <1>0, <2>4 DEF CorrectionInv, L!AttemptLimit
    <3> QED
      BY <2>1, <2>4, <3>1, <3>2 DEF CorrectionInv
  <2> QED
    BY <2>2, <2>3, <2>4
<1>2. CASE L!ExceedTurns
  BY <1>2 DEF L!ExceedTurns, CorrectionInv, StillToCome
<1>3. CASE L!FailRun \/ L!NoCalls \/ L!Calls
  BY <1>3 DEF L!FailRun, L!NoCalls, L!Calls, CorrectionInv, StillToCome
<1>4. ASSUME NEW t, NEW c, L!Counted(t, c) PROVE CorrectionInv'
  BY <1>4, CountedIsOpen DEF L!Counted, L!Observe, CorrectionInv
<1>5. CASE L!SubmitPlan \/ L!SearchWorkspace \/ L!ReadFile \/ L!EditFile
  BY <1>4, <1>5 DEF L!SubmitPlan, L!SearchWorkspace, L!ReadFile, L!EditFile
<1>6. ASSUME NEW t, L!HandoffCall(t) PROVE CorrectionInv'
  BY <1>4, <1>6 DEF L!HandoffCall
<1>7. ASSUME NEW t, L!RefusedCall(t) PROVE CorrectionInv'
  <2>1. gain' # "none" /\ (closed => closed')
    BY <1>7 DEF L!RefusedCall, L!Observe
  <2>2. pc = "calls" /\ UNCHANGED <<pc, turn, again, limit, attempts, granted, outcome>>
    BY <1>7 DEF L!RefusedCall
  <2> QED
    BY <2>1, <2>2 DEF CorrectionInv, StillToCome
<1>8. CASE L!SubmitDecision
  <2>1. pc = "calls" /\ gain = "none" /\ UNCHANGED <<turn, again, attempts>> /\ turn < limit
    BY <1>8 DEF L!SubmitDecision, CorrectionInv
  <2>2. granted => again
    BY <2>1 DEF CorrectionInv, StillToCome
  <2>3. CASE UNCHANGED <<pc, outcome, limit, granted>> /\ (closed => closed')
    BY <2>1, <2>2, <2>3 DEF CorrectionInv
  <2>4. CASE UNCHANGED <<pc, outcome>> /\ closed' /\ gain' # "none" /\ limit' = L!Extended /\ granted'
    BY <2>1, <2>2, <2>4 DEF CorrectionInv, StillToCome, L!Extended
  <2>5. CASE pc' = "ended" /\ UNCHANGED <<limit, granted, closed>>
    BY <2>1, <2>2, <2>5 DEF CorrectionInv
  <2> QED
    BY <1>8, <2>1, <2>3, <2>4, <2>5 DEF L!SubmitDecision, L!Reject, L!Accept, L!Observe
<1>9. CASE L!EndTurn
  <2>1. /\ pc = "calls" /\ pc' = "turn" /\ turn' = turn + 1
        /\ UNCHANGED <<again, limit, attempts, granted, outcome>> /\ (closed => closed')
    BY <1>9, Zenon DEF L!EndTurn
  <2> QED
    BY <2>1 DEF CorrectionInv, StillToCome
<1>10. CASE L!Finalize
  BY <1>10 DEF L!Finalize, CorrectionInv, StillToCome
<1>11. CASE L!OthersEdit
  BY <1>11 DEF L!OthersEdit, CorrectionInv, StillToCome
<1>12. CASE UNCHANGED loopVars
  BY <1>12 DEF loopVars, CorrectionInv, StillToCome
<1> QED
  BY <1>1, <1>2, <1>3, <1>5, <1>6, <1>7, <1>8, <1>9, <1>10, <1>11, <1>12, SameVars
  DEF L!Next, L!LoopStep, L!Done

\* A run whose decision failed only by its wording submits once more before it is
\* given up, however few turns and attempts were left (groundingCorrectionGranted).
THEOREM CorrectionComes == Spec => []CorrectionIsOffered
<1>1. Init => CorrectionInv
  BY CorrectionInit DEF Init
<1>2. CorrectionInv /\ [Next]_dutyVars => CorrectionInv'
  BY CorrectionStep, LoopMoves
<1>3. CorrectionInv => CorrectionIsOffered
  BY DEF CorrectionInv, StillToCome, CorrectionIsOffered, L!CorrectionIsOffered
<1> QED
  BY <1>1, <1>2, <1>3, PTL DEF Spec

-----------------------------------------------------------------------------
(* The reaction on a request.                                                *)

\* Who runs a request, who is about to show a reaction on it, and who takes one away.
Adding == {"create", "refused", "record"}
Running == {"begin", "work"} \cup Adding
Leaving == {"ending", "ended", "end_failed", "cleaning", "cleaned", "clean_failed"}
WorkerRow == [pc : {"clean", "claim"} \cup Running \cup Leaving, on : Requests \cup {"none"},
              reaction : {A!Nothing} \cup A!Reactions]

RowStatus == {"none", "executing", "completed", "blocked"}
ActivityRow == [status : RowStatus, id : 0 .. Cardinality(Requests),
                reaction : {A!Nothing} \cup A!Reactions, fresh : BOOLEAN]
RequestRow == [status : {"queued", "working"} \cup A!Over, attempts : 0 .. MaxAttempts]

\* Runs left, and a run under way.
RequestOK(row) ==
    /\ row.status = "queued" => row.attempts < MaxAttempts
    /\ row.status = "working" => row.attempts # 0
ActivityOK ==
    /\ request \in [Requests -> RequestRow] /\ \A i \in Requests : RequestOK(request[i])
    /\ activity \in [Requests -> ActivityRow]
    /\ \A i \in Requests : activity[i].status = "none" => activity[i].reaction = A!Nothing
    /\ shown \in [Requests -> SUBSET A!Reactions] /\ unheard \in [Requests -> SUBSET A!Reactions]
    /\ crashes \in 0 .. MaxCrashes
    /\ worker \in [Workers -> WorkerRow]

\* One worker runs a request, and only a queued one is taken.
RunnersInv ==
    \A w \in Workers : worker[w].pc \in Running =>
        /\ worker[w].on \in Requests /\ request[worker[w].on].status = "working"
        /\ \A v \in Workers : worker[v].pc \in Running /\ worker[v].on = worker[w].on => v = w

\* Nobody shows a second reaction, and nobody takes away another than that of the row.
RowsInv ==
    \A w \in Workers :
        /\ worker[w].pc \in Adding =>
             activity[worker[w].on].status = "executing" /\ activity[worker[w].on].reaction = A!Nothing
        /\ worker[w].pc \in {"begin", "create", "refused"} => worker[w].reaction = A!Nothing
        /\ worker[w].pc = "record" => worker[w].reaction # A!Nothing
        /\ worker[w].pc = "work" => worker[w].reaction \in {A!Nothing, activity[worker[w].on].reaction}
        /\ worker[w].pc \in Leaving =>
             /\ worker[w].on \in Requests /\ worker[w].reaction # A!Nothing
             /\ activity[worker[w].on].reaction = worker[w].reaction

\* What is shown is in the row or about to be, and a row is closed only after it is gone.
ShownInv ==
    /\ \A i \in Requests : \A x \in shown[i] \ unheard[i] :
         activity[i].reaction = x
         \/ \E w \in Workers : worker[w].pc = "record" /\ worker[w].on = i /\ worker[w].reaction = x
    /\ \A i \in Requests : activity[i].status = "completed" => activity[i].reaction \notin shown[i]
    /\ \A w \in Workers : worker[w].pc \in {"ended", "cleaned"} => worker[w].reaction \notin shown[worker[w].on]

ActivityInv == ActivityOK /\ RunnersInv /\ RowsInv /\ ShownInv

\* A step of the duties is one of the reaction or leaves it alone.
LEMMA ActivityMoves == [Next]_dutyVars => [A!Next]_activityVars
  BY DEF Next, OwnerActivity, Resources, ResourceWrites, ModelLoop, ReplyMatch, dutyVars

LEMMA ActivityBounds ==
  /\ MaxAttempts \in Nat \ {0} /\ MaxCrashes \in Nat /\ IsFiniteSet(Requests)
  BY DutyParameters DEF A!ActivityParameters, A!IsFiniteSet, IsFiniteSet

LEMMA SameCount == \A S : A!Cardinality(S) = Cardinality(S)
  BY Zenon DEF A!Cardinality, Cardinality

LEMMA ActivityTypes == ActivityOK => A!ActivityTypeOK
<1>1. A!Cardinality(Requests) = Cardinality(Requests)
  BY SameCount, Zenon
<1> QED
  BY <1>1, Zenon DEF ActivityOK, A!ActivityTypeOK, RequestRow, ActivityRow, RowStatus

LEMMA ActivityInit == A!Init => ActivityInv
<1> SUFFICES ASSUME A!Init PROVE ActivityInv
  OBVIOUS
<1>1. Cardinality(Requests) \in Nat
  BY ActivityBounds, FS_CardinalityType
<1>2. A!Rested \in WorkerRow /\ A!Rested.pc = "clean"
  BY DEF A!Rested, WorkerRow
<1>3. \A w \in Workers : worker[w].pc = "clean"
  BY <1>2 DEF A!Init
<1>4. ActivityOK
  <2>1. request \in [Requests -> RequestRow] /\ \A i \in Requests : RequestOK(request[i])
    BY ActivityBounds DEF A!Init, RequestRow, RequestOK
  <2>2. activity \in [Requests -> ActivityRow]
    BY <1>1 DEF A!Init, ActivityRow, RowStatus
  <2>3. worker \in [Workers -> WorkerRow] /\ crashes \in 0 .. MaxCrashes
    BY <1>2, ActivityBounds DEF A!Init
  <2> QED
    BY <2>1, <2>2, <2>3 DEF A!Init, ActivityOK
<1>5. RunnersInv /\ RowsInv
  BY <1>3 DEF RunnersInv, RowsInv, Running, Adding, Leaving
<1>6. ShownInv
  BY <1>3 DEF A!Init, ShownInv
<1> QED
  BY <1>4, <1>5, <1>6 DEF ActivityInv

\* One worker goes on.
LEMMA WorkerGoes ==
  ASSUME ActivityOK, NEW w \in Workers, NEW row \in WorkerRow, worker' = [worker EXCEPT ![w] = row]
  PROVE  /\ worker' \in [Workers -> WorkerRow] /\ worker'[w] = row
         /\ \A v \in Workers : v # w => worker'[v] = worker[v]
  BY DEF ActivityOK

LEMMA WorkerMoves ==
  ASSUME ActivityOK, NEW w \in Workers, NEW next \in {"clean", "claim"} \cup Running \cup Leaving, A!Move(w, next)
  PROVE  /\ worker' \in [Workers -> WorkerRow]
         /\ worker'[w].pc = next /\ worker'[w].on = worker[w].on /\ worker'[w].reaction = worker[w].reaction
         /\ \A v \in Workers : v # w => worker'[v] = worker[v]
<1> DEFINE row == [worker[w] EXCEPT !.pc = next]
<1>1. row \in WorkerRow /\ row.pc = next /\ row.on = worker[w].on /\ row.reaction = worker[w].reaction
  BY DEF ActivityOK, WorkerRow
<1>2. worker' = [worker EXCEPT ![w] = row]
  BY DEF A!Move
<1> HIDE DEF row
<1> QED
  BY <1>1, <1>2, WorkerGoes

\* One row is written.
LEMMA RowWritten ==
  ASSUME ActivityOK, NEW i \in Requests, NEW status \in RowStatus, NEW x \in {A!Nothing} \cup A!Reactions,
         A!Write(i, status, x)
  PROVE  /\ activity' \in [Requests -> ActivityRow]
         /\ activity'[i].status = status /\ activity'[i].reaction = x
         /\ \A j \in Requests : j # i => activity'[j] = activity[j]
<1> DEFINE row == [activity[i] EXCEPT !.status = status, !.reaction = x, !.fresh = TRUE]
<1>1. activity \in [Requests -> ActivityRow]
  BY DEF ActivityOK
<1>2. row \in ActivityRow /\ row.status = status /\ row.reaction = x
  BY <1>1 DEF ActivityRow
<1>3. activity' = [activity EXCEPT ![i] = row]
  BY DEF A!Write
<1> HIDE DEF row
<1> QED
  BY <1>1, <1>2, <1>3

\* The worker that runs a request goes on with it, or none does.
LEMMA RunnersKept ==
  ASSUME ActivityOK, RunnersInv, NEW w \in Workers,
         \A v \in Workers : v # w => worker'[v] = worker[v],
         worker'[w].pc \in Running => worker[w].pc \in Running /\ worker'[w].on = worker[w].on,
         \A i \in Requests : request[i].status = "working" => request'[i].status = "working"
  PROVE  RunnersInv'
<1>1. \A v \in Workers : worker'[v].pc \in Running => worker[v].pc \in Running /\ worker'[v].on = worker[v].on
  OBVIOUS
<1> QED
  BY <1>1 DEF RunnersInv

\* A row keeps its reaction, and its status while one is being added to it.
LEMMA RowsKept ==
  ASSUME RowsInv, RunnersInv, NEW w \in Workers,
         \A v \in Workers : v # w => worker'[v] = worker[v],
         \A i \in Requests : activity'[i].reaction = activity[i].reaction,
         \A i \in Requests : activity[i].status = "executing" /\ activity[i].reaction = A!Nothing =>
           \/ activity'[i].status = "executing"
           \/ worker[w].pc \in Running /\ worker[w].on = i,
         /\ worker'[w].pc \in Adding =>
              activity'[worker'[w].on].status = "executing" /\ activity'[worker'[w].on].reaction = A!Nothing
         /\ worker'[w].pc \in {"begin", "create", "refused"} => worker'[w].reaction = A!Nothing
         /\ worker'[w].pc = "record" => worker'[w].reaction # A!Nothing
         /\ worker'[w].pc = "work" => worker'[w].reaction \in {A!Nothing, activity'[worker'[w].on].reaction}
         /\ worker'[w].pc \in Leaving =>
              /\ worker'[w].on \in Requests /\ worker'[w].reaction # A!Nothing
              /\ activity'[worker'[w].on].reaction = worker'[w].reaction
  PROVE  RowsInv'
<1>1. ASSUME NEW v \in Workers, v # w
      PROVE  /\ worker[v].pc \in Adding =>
                  activity'[worker[v].on].status = "executing" /\ activity'[worker[v].on].reaction = A!Nothing
             /\ worker[v].pc \in {"begin", "create", "refused"} => worker[v].reaction = A!Nothing
             /\ worker[v].pc = "record" => worker[v].reaction # A!Nothing
             /\ worker[v].pc = "work" => worker[v].reaction \in {A!Nothing, activity'[worker[v].on].reaction}
             /\ worker[v].pc \in Leaving =>
                  /\ worker[v].on \in Requests /\ worker[v].reaction # A!Nothing
                  /\ activity'[worker[v].on].reaction = worker[v].reaction
  <2>1. worker[v].pc \in Running => worker[v].on \in Requests
    BY DEF RunnersInv
  <2>2. worker[v].pc \in Adding => worker[v].pc \in Running
    BY DEF Running
  <2>3. worker[v].pc = "work" => worker[v].pc \in Running
    BY DEF Running
  <2>4. worker[v].pc \in Adding => activity'[worker[v].on].status = "executing"
    BY <1>1, <2>1, <2>2 DEF RowsInv, RunnersInv
  <2> QED
    BY <2>1, <2>2, <2>3, <2>4 DEF RowsInv
<1> QED
  BY <1>1 DEF RowsInv

\* What a step that shows nothing leaves of what is shown.
LEMMA ShownKept ==
  ASSUME ShownInv, NEW w \in Workers,
         \A v \in Workers : v # w => worker'[v] = worker[v],
         \A i \in Requests : shown'[i] \subseteq shown[i],
         unheard' = unheard,
         \A i \in Requests : activity[i].reaction # A!Nothing => activity'[i].reaction = activity[i].reaction,
         \A i \in Requests : A!Nothing \notin shown[i],
         worker[w].pc = "record" => activity'[worker[w].on].reaction = worker[w].reaction,
         \A i \in Requests : activity'[i].status = "completed" =>
           \/ activity[i].status = "completed" /\ activity'[i].reaction = activity[i].reaction
           \/ activity'[i].reaction \notin shown'[i],
         worker'[w].pc \in {"ended", "cleaned"} => worker'[w].reaction \notin shown'[worker'[w].on],
         \A v \in Workers : worker[v].pc \in Leaving => worker[v].on \in Requests
  PROVE  ShownInv'
<1>1. ASSUME NEW i \in Requests, NEW x \in shown'[i] \ unheard'[i]
      PROVE  \/ activity'[i].reaction = x
             \/ \E v \in Workers : worker'[v].pc = "record" /\ worker'[v].on = i /\ worker'[v].reaction = x
  <2>1. x \in shown[i] \ unheard[i] /\ x # A!Nothing
    OBVIOUS
  <2>2. CASE activity[i].reaction = x
    BY <2>1, <2>2
  <2>3. ASSUME NEW v \in Workers, worker[v].pc = "record", worker[v].on = i, worker[v].reaction = x
        PROVE  \/ activity'[i].reaction = x
               \/ worker'[v].pc = "record" /\ worker'[v].on = i /\ worker'[v].reaction = x
    BY <2>3
  <2> QED
    BY <2>1, <2>2, <2>3 DEF ShownInv
<1>2. ASSUME NEW i \in Requests, activity'[i].status = "completed"
      PROVE  activity'[i].reaction \notin shown'[i]
  BY <1>2 DEF ShownInv
<1>3. ASSUME NEW v \in Workers, v # w, worker[v].pc \in {"ended", "cleaned"}
      PROVE  worker[v].reaction \notin shown'[worker[v].on]
  <2>1. worker[v].on \in Requests
    BY <1>3 DEF Leaving
  <2> QED
    BY <1>3, <2>1 DEF ShownInv
<1> QED
  BY <1>1, <1>2, <1>3 DEF ShownInv

\* A place of a row is free while one request has none.
LEMMA RowPlace ==
  ASSUME ActivityOK, NEW i \in Requests, activity[i].status = "none"
  PROVE  1 + A!Cardinality({j \in Requests : activity[j].status # "none"}) \in 0 .. Cardinality(Requests)
<1> DEFINE some == {j \in Requests : activity[j].status # "none"}
<1>1. some \subseteq Requests /\ some # Requests
  OBVIOUS
<1>2. IsFiniteSet(some) /\ Cardinality(some) <= Cardinality(Requests) /\ Cardinality(some) # Cardinality(Requests)
  BY <1>1, ActivityBounds, FS_Subset, Zenon
<1>3. Cardinality(some) \in Nat /\ Cardinality(Requests) \in Nat
  BY <1>2, ActivityBounds, FS_CardinalityType, Zenon
<1>4. A!Cardinality(some) = Cardinality(some)
  BY SameCount, Zenon
<1> HIDE DEF some
<1>5. 1 + A!Cardinality(some) \in 0 .. Cardinality(Requests)
  BY <1>2, <1>3, <1>4
<1> QED
  BY <1>5 DEF some

\* The oldest of some rows.
LEMMA OldestRow ==
  ASSUME ActivityOK, NEW waiting \in SUBSET Requests, waiting # {}
  PROVE  (CHOOSE i \in waiting : \A j \in waiting : activity[i].id <= activity[j].id) \in waiting
<1> DEFINE ids == {activity[i].id : i \in waiting}
<1>0. \A i \in Requests : activity[i].id \in Nat
  <2>1. Cardinality(Requests) \in Nat /\ activity \in [Requests -> ActivityRow]
    BY ActivityBounds, FS_CardinalityType DEF ActivityOK
  <2> QED
    BY <2>1 DEF ActivityRow
<1>1. ids \subseteq Nat /\ ids # {}
  BY <1>0
<1>2. PICK least \in ids : \A id \in ids : ~(<<id, least>> \in OpToRel(<, Nat))
  BY <1>1, NatLessThanWellFounded, WFMin, Zenon
<1>3. PICK i \in waiting : least = activity[i].id
  OBVIOUS
<1>4. \A j \in waiting : activity[i].id <= activity[j].id
  <2> TAKE j \in waiting
  <2>1. activity[j].id \in ids /\ ~(activity[j].id < least)
    BY <1>1, <1>2 DEF OpToRel
  <2> QED
    BY <1>0, <1>3, <2>1
<1> QED
  BY <1>4

\* A closed row is completed only for what was removed.
LEMMA Closed ==
  ASSUME ActivityOK, NEW i \in Requests, NEW x \in {A!Nothing} \cup A!Reactions, NEW deleted \in BOOLEAN,
         A!Close(i, x, deleted)
  PROVE  /\ activity' \in [Requests -> ActivityRow]
         /\ \A j \in Requests : j # i => activity'[j] = activity[j]
         /\ activity'[i].reaction = x \/ activity'[i] = activity[i]
         /\ activity'[i].status = "completed" => activity[i].status = "completed" \/ (deleted /\ activity'[i].reaction = x)
         /\ activity[i].status = "completed" => activity'[i] = activity[i]
<1>1. CASE activity[i].status = "executing"
  <2>1. PICK status \in {"completed", "blocked"} :
          A!Write(i, status, x) /\ (status = "completed" => deleted)
    BY <1>1 DEF A!Close
  <2> QED
    BY <1>1, <2>1, RowWritten DEF RowStatus
<1>2. CASE activity[i].status # "executing"
  BY <1>2 DEF A!Close, ActivityOK
<1> QED
  BY <1>1, <1>2

\* No reaction is shown without an id.
LEMMA ShownHasId == ASSUME ActivityOK PROVE \A i \in Requests : A!Nothing \notin shown[i]
<1>1. shown \in [Requests -> SUBSET A!Reactions]
  BY DEF ActivityOK
<1> QED
  BY <1>1 DEF A!Nothing, A!Reactions

LEMMA CleanKeeps ==
  ASSUME ActivityInv, NEW w \in Workers, A!Clean(w)
  PROVE  ActivityInv'
<1>0. ActivityOK /\ RunnersInv /\ RowsInv /\ ShownInv
  BY DEF ActivityInv
<1>1. worker[w].pc = "clean" /\ UNCHANGED <<request, shown, crashes, unheard>>
  BY DEF A!Clean, A!At
<1>2. \A i \in Requests : A!Nothing \notin shown[i]
  BY <1>0, ShownHasId
<1>3. \A v \in Workers : worker[v].pc \in Leaving => worker[v].on \in Requests
  BY <1>0 DEF RowsInv
<1>4. CASE A!Move(w, "claim") /\ UNCHANGED activity
  <2>1. /\ worker' \in [Workers -> WorkerRow] /\ worker'[w].pc = "claim"
        /\ \A v \in Workers : v # w => worker'[v] = worker[v]
    BY <1>0, <1>4, WorkerMoves
  <2>2. ActivityOK'
    BY <1>0, <1>1, <1>4, <2>1 DEF ActivityOK
  <2>3. RunnersInv'
    BY <1>0, <1>1, <2>1, RunnersKept DEF Running, Adding
  <2>4. RowsInv'
    BY <1>0, <1>1, <1>4, <2>1, RowsKept DEF Running, Adding, Leaving
  <2>5. ShownInv'
    BY <1>0, <1>1, <1>2, <1>3, <1>4, <2>1, ShownKept
  <2> QED
    BY <2>2, <2>3, <2>4, <2>5 DEF ActivityInv
<1>5. CASE ~(A!Move(w, "claim") /\ UNCHANGED activity)
  <2> DEFINE waiting == {i \in Requests : A!Claimable(i)}
             oldest == CHOOSE i \in waiting : \A j \in waiting : activity[i].id <= activity[j].id
             row == [pc |-> "cleaning", on |-> oldest, reaction |-> activity[oldest].reaction]
  <2>1. /\ waiting # {} /\ activity[oldest].reaction # A!Nothing
        /\ A!Write(oldest, "executing", activity[oldest].reaction)
        /\ worker' = [worker EXCEPT ![w] = row]
    BY <1>5 DEF A!Clean
  <2>2. oldest \in waiting
    <3>1. waiting \in SUBSET Requests
      BY ZenonT(40)
    <3> HIDE DEF waiting
    <3> QED
      BY <1>0, <2>1, <3>1, OldestRow
  <2>3. oldest \in Requests /\ activity[oldest].status \in {"executing", "blocked"}
    BY <2>2 DEF A!Claimable
  <2> HIDE DEF oldest
  <2>4. activity[oldest].reaction \in {A!Nothing} \cup A!Reactions
    BY <1>0, <2>3 DEF ActivityRow, ActivityOK
  <2>5. row \in WorkerRow /\ row.pc = "cleaning" /\ row.on = oldest /\ row.reaction = activity[oldest].reaction
    BY <2>3, <2>4 DEF WorkerRow, Leaving
  <2> HIDE DEF row
  <2>6. /\ worker' \in [Workers -> WorkerRow] /\ worker'[w] = row
        /\ \A v \in Workers : v # w => worker'[v] = worker[v]
    BY <1>0, <2>1, <2>5, WorkerGoes
  <2>7. /\ activity' \in [Requests -> ActivityRow]
        /\ activity'[oldest].status = "executing" /\ activity'[oldest].reaction = activity[oldest].reaction
        /\ \A j \in Requests : j # oldest => activity'[j] = activity[j]
    BY <1>0, <2>1, <2>3, <2>4, RowWritten DEF RowStatus
  <2>8. ActivityOK'
    BY <1>0, <1>1, <2>6, <2>7 DEF ActivityOK
  <2>9. RunnersInv'
    BY <1>0, <1>1, <2>5, <2>6, RunnersKept DEF Running, Adding
  <2>10. RowsInv'
    BY <1>0, <1>1, <2>1, <2>3, <2>5, <2>6, <2>7, RowsKept DEF Running, Adding, Leaving
  <2>11. ShownInv'
    BY <1>0, <1>1, <1>2, <1>3, <2>3, <2>5, <2>6, <2>7, ShownKept
  <2> QED
    BY <2>8, <2>9, <2>10, <2>11 DEF ActivityInv
<1> QED
  BY <1>4, <1>5

LEMMA ClaimKeeps ==
  ASSUME ActivityInv, NEW w \in Workers, A!ClaimRequest(w) \/ A!NothingToDo(w)
  PROVE  ActivityInv'
<1>0. ActivityOK /\ RunnersInv /\ RowsInv /\ ShownInv
  BY DEF ActivityInv
<1>1. worker[w].pc = "claim" /\ UNCHANGED <<activity, shown, crashes, unheard>>
  BY DEF A!ClaimRequest, A!NothingToDo, A!At
<1>2. \A i \in Requests : A!Nothing \notin shown[i]
  BY <1>0, ShownHasId
<1>3. \A v \in Workers : worker[v].pc \in Leaving => worker[v].on \in Requests
  BY <1>0 DEF RowsInv
<1>4. CASE A!NothingToDo(w)
  <2>1. request' = request /\ worker' = [worker EXCEPT ![w] = A!Rested]
    BY <1>4 DEF A!NothingToDo
  <2>2. A!Rested \in WorkerRow /\ A!Rested.pc = "clean"
    BY DEF A!Rested, WorkerRow
  <2>3. /\ worker' \in [Workers -> WorkerRow] /\ worker'[w].pc = "clean"
        /\ \A v \in Workers : v # w => worker'[v] = worker[v]
    BY <1>0, <2>1, <2>2, WorkerGoes
  <2>4. ActivityOK'
    BY <1>0, <1>1, <2>1, <2>3 DEF ActivityOK
  <2>5. RunnersInv'
    BY <1>0, <2>1, <2>3, RunnersKept DEF Running, Adding
  <2>6. RowsInv'
    BY <1>0, <1>1, <2>3, RowsKept DEF Running, Adding, Leaving
  <2>7. ShownInv'
    BY <1>0, <1>1, <1>2, <1>3, <2>3, ShownKept
  <2> QED
    BY <2>4, <2>5, <2>6, <2>7 DEF ActivityInv
<1>5. CASE A!ClaimRequest(w)
  <2>1. PICK i \in Requests :
          /\ request[i].status = "queued"
          /\ request' = [request EXCEPT ![i] = [status |-> "working", attempts |-> request[i].attempts + 1]]
          /\ worker' = [worker EXCEPT ![w] = [pc |-> "begin", on |-> i, reaction |-> A!Nothing]]
    BY <1>5 DEF A!ClaimRequest
  <2> DEFINE row == [pc |-> "begin", on |-> i, reaction |-> A!Nothing]
             new == [status |-> "working", attempts |-> request[i].attempts + 1]
  <2>2. row \in WorkerRow /\ row.pc = "begin" /\ row.on = i /\ row.reaction = A!Nothing
    BY DEF WorkerRow, Running
  <2>3. new \in RequestRow /\ RequestOK(new) /\ new.status = "working"
    <3>1. request[i] \in RequestRow /\ RequestOK(request[i])
      BY <1>0 DEF ActivityOK
    <3>2. request[i].attempts \in Nat /\ request[i].attempts < MaxAttempts
      BY <2>1, <3>1, ActivityBounds DEF RequestRow, RequestOK
    <3> QED
      BY <3>2, ActivityBounds DEF RequestRow, RequestOK
  <2> HIDE DEF row, new
  <2>4. /\ worker' \in [Workers -> WorkerRow] /\ worker'[w] = row
        /\ \A v \in Workers : v # w => worker'[v] = worker[v]
    BY <1>0, <2>1, <2>2, WorkerGoes DEF row
  <2>5. /\ request' \in [Requests -> RequestRow] /\ request'[i] = new
        /\ \A j \in Requests : j # i => request'[j] = request[j]
    BY <1>0, <2>1, <2>3 DEF ActivityOK, new
  <2>6. ActivityOK'
    BY <1>0, <1>1, <2>3, <2>4, <2>5 DEF ActivityOK
  <2>7. RunnersInv'
    <3>1. \A v \in Workers : worker[v].pc \in Running => worker[v].on # i
      BY <1>0, <2>1 DEF RunnersInv
    <3>2. ~(worker[w].pc \in Running)
      BY <1>1 DEF Running, Adding
    <3>3. ASSUME NEW v \in Workers, v # w, worker'[v].pc \in Running
          PROVE  /\ worker'[v].on \in Requests /\ request'[worker'[v].on].status = "working"
                 /\ \A u \in Workers : worker'[u].pc \in Running /\ worker'[u].on = worker'[v].on => u = v
      BY <1>0, <2>2, <2>4, <2>5, <3>1, <3>3 DEF RunnersInv
    <3>4. /\ worker'[w].on \in Requests /\ request'[worker'[w].on].status = "working"
          /\ \A u \in Workers : worker'[u].pc \in Running /\ worker'[u].on = worker'[w].on => u = w
      BY <2>2, <2>3, <2>4, <2>5, <3>1
    <3> QED
      BY <3>3, <3>4 DEF RunnersInv
  <2>8. RowsInv'
    BY <1>0, <1>1, <2>2, <2>4, RowsKept DEF Running, Adding, Leaving
  <2>9. ShownInv'
    BY <1>0, <1>1, <1>2, <1>3, <2>2, <2>4, ShownKept
  <2> QED
    BY <2>6, <2>7, <2>8, <2>9 DEF ActivityInv
<1> QED
  BY <1>4, <1>5

LEMMA BeginKeeps ==
  ASSUME ActivityInv, NEW w \in Workers, A!Begin(w)
  PROVE  ActivityInv'
<1> DEFINE i == worker[w].on
<1>0. ActivityOK /\ RunnersInv /\ RowsInv /\ ShownInv
  BY DEF ActivityInv
<1>1. worker[w].pc = "begin" /\ UNCHANGED <<request, shown, crashes, unheard>>
  BY DEF A!Begin, A!At
<1>2. \A j \in Requests : A!Nothing \notin shown[j]
  BY <1>0, ShownHasId
<1>3. \A v \in Workers : worker[v].pc \in Leaving => worker[v].on \in Requests
  BY <1>0 DEF RowsInv
<1>4. i \in Requests /\ worker[w].pc \in Running /\ worker[w].reaction = A!Nothing
  BY <1>0, <1>1 DEF RunnersInv, RowsInv, Running
<1>5. activity[i] \in ActivityRow /\ activity \in [Requests -> ActivityRow]
  BY <1>0, <1>4 DEF ActivityOK
<1> HIDE DEF i
\* What the three cases have in common.
<1>6. ASSUME worker' \in [Workers -> WorkerRow], \A v \in Workers : v # w => worker'[v] = worker[v],
             worker'[w].pc \in {"create", "work"}, worker'[w].on = i, worker'[w].reaction = activity'[i].reaction
               \/ worker'[w].reaction = A!Nothing,
             worker'[w].pc = "create" => worker'[w].reaction = A!Nothing
               /\ activity'[i].status = "executing" /\ activity'[i].reaction = A!Nothing,
             activity' \in [Requests -> ActivityRow],
             activity'[i] = activity[i] \/ activity'[i].status = "executing",
             activity'[i].reaction = activity[i].reaction,
             \A j \in Requests : j # i => activity'[j] = activity[j]
      PROVE  ActivityInv'
  <2>1. \A j \in Requests : activity'[j].reaction = activity[j].reaction
    BY <1>6
  <2>2. ActivityOK'
    BY <1>0, <1>1, <1>6 DEF ActivityOK
  <2>3. RunnersInv'
    BY <1>0, <1>1, <1>4, <1>6, RunnersKept DEF i
  <2>4. RowsInv'
    BY <1>0, <1>4, <1>6, <2>1, RowsKept DEF i, Adding, Leaving
  <2>5. ShownInv'
    BY <1>0, <1>1, <1>2, <1>3, <1>6, <2>1, ShownKept
  <2> QED
    BY <2>2, <2>3, <2>4, <2>5 DEF ActivityInv
<1>7. CASE activity[i].status = "none"
  <2> DEFINE row == [status |-> "executing", reaction |-> A!Nothing, fresh |-> TRUE,
                     id |-> 1 + A!Cardinality({j \in Requests : activity[j].status # "none"})]
  <2>1. activity' = [activity EXCEPT ![i] = row] /\ A!Move(w, "create")
    BY <1>7 DEF A!Begin, i
  <2>2. row \in ActivityRow /\ row.status = "executing" /\ row.reaction = A!Nothing
    BY <1>0, <1>4, <1>7, RowPlace DEF ActivityRow, RowStatus
  <2> HIDE DEF row
  <2>3. /\ activity' \in [Requests -> ActivityRow] /\ activity'[i] = row
        /\ \A j \in Requests : j # i => activity'[j] = activity[j]
    BY <1>4, <1>5, <2>1, <2>2
  <2>4. /\ worker' \in [Workers -> WorkerRow] /\ worker'[w].pc = "create" /\ worker'[w].on = i
        /\ worker'[w].reaction = A!Nothing /\ \A v \in Workers : v # w => worker'[v] = worker[v]
    BY <1>0, <1>4, <2>1, WorkerMoves DEF i, Running, Adding
  <2>5. activity[i].reaction = A!Nothing
    BY <1>0, <1>4, <1>7 DEF ActivityOK
  <2> QED
    BY <1>6, <1>7, <2>2, <2>3, <2>4, <2>5
<1>8. CASE activity[i].status = "completed"
  <2>1. A!Move(w, "work") /\ activity' = activity
    BY <1>8 DEF A!Begin, i
  <2>2. /\ worker' \in [Workers -> WorkerRow] /\ worker'[w].pc = "work" /\ worker'[w].on = i
        /\ worker'[w].reaction = A!Nothing /\ \A v \in Workers : v # w => worker'[v] = worker[v]
    BY <1>0, <1>4, <2>1, WorkerMoves DEF i, Running
  <2> QED
    BY <1>5, <1>6, <2>1, <2>2
<1>9. CASE activity[i].status \in {"executing", "blocked"}
  <2> DEFINE x == activity[i].reaction
             next == IF x = A!Nothing THEN "create" ELSE "work"
             row == [worker[w] EXCEPT !.reaction = x, !.pc = next]
  <2>1. A!Write(i, "executing", x) /\ worker' = [worker EXCEPT ![w] = row]
    BY <1>9 DEF A!Begin, i
  <2>2. x \in {A!Nothing} \cup A!Reactions /\ next \in Running
    BY <1>5 DEF ActivityRow, Running, Adding
  <2>3. row \in WorkerRow /\ row.reaction = x /\ row.pc = next /\ row.on = i
    BY <1>0, <2>2 DEF ActivityOK, WorkerRow, i
  <2>4. next \in {"create", "work"} /\ (next = "create" => x = A!Nothing)
    OBVIOUS
  <2> HIDE DEF row, next
  <2>5. /\ worker' \in [Workers -> WorkerRow] /\ worker'[w] = row
        /\ \A v \in Workers : v # w => worker'[v] = worker[v]
    BY <1>0, <2>1, <2>3, WorkerGoes
  <2>6. /\ activity' \in [Requests -> ActivityRow]
        /\ activity'[i].status = "executing" /\ activity'[i].reaction = x
        /\ \A j \in Requests : j # i => activity'[j] = activity[j]
    BY <1>0, <1>4, <2>1, <2>2, RowWritten DEF RowStatus
  <2> QED
    BY <1>6, <2>3, <2>4, <2>5, <2>6
<1> QED
  BY <1>5, <1>7, <1>8, <1>9 DEF ActivityRow, RowStatus

LEMMA CreateKeeps ==
  ASSUME ActivityInv, NEW w \in Workers, A!Create(w)
  PROVE  ActivityInv'
<1> DEFINE i == worker[w].on
           new == request[i].attempts
<1>0. ActivityOK /\ RunnersInv /\ RowsInv /\ ShownInv
  BY DEF ActivityInv
<1>1. worker[w].pc = "create" /\ UNCHANGED <<request, activity, crashes>>
  BY DEF A!Create, A!At
<1>2. i \in Requests /\ worker[w].pc \in Running /\ request[i].status = "working" /\ worker[w].reaction = A!Nothing
  BY <1>0, <1>1 DEF RunnersInv, RowsInv, Running, Adding
<1>3. activity[i].status = "executing" /\ activity[i].reaction = A!Nothing
  BY <1>0, <1>1 DEF RowsInv, Adding
<1>4. new \in A!Reactions /\ new # A!Nothing
  <2>1. request[i] \in RequestRow /\ RequestOK(request[i])
    BY <1>0, <1>2 DEF ActivityOK
  <2> QED
    BY <1>2, <2>1, ActivityBounds DEF RequestRow, RequestOK, A!Reactions, A!Nothing
<1> HIDE DEF i, new
\* What the three cases have in common.
<1>5. ASSUME worker' \in [Workers -> WorkerRow], \A v \in Workers : v # w => worker'[v] = worker[v],
             worker'[w].on = i,
             \/ worker'[w].pc = "record" /\ worker'[w].reaction = new
             \/ worker'[w].pc = "refused" /\ worker'[w].reaction = A!Nothing
                /\ (shown'[i] \subseteq shown[i] \/ new \in unheard'[i]),
             shown' \in [Requests -> SUBSET A!Reactions], unheard' \in [Requests -> SUBSET A!Reactions],
             shown'[i] \subseteq shown[i] \cup {new}, \A j \in Requests : j # i => shown'[j] = shown[j],
             \A j \in Requests : unheard[j] \subseteq unheard'[j]
      PROVE  ActivityInv'
  <2>1. ActivityOK'
    BY <1>0, <1>1, <1>5 DEF ActivityOK
  <2>2. RunnersInv'
    BY <1>0, <1>1, <1>2, <1>5, RunnersKept DEF i
  <2>3. RowsInv'
    BY <1>0, <1>1, <1>3, <1>4, <1>5, RowsKept DEF Leaving
  <2>4. ASSUME NEW j \in Requests, NEW x \in shown'[j] \ unheard'[j]
        PROVE  \/ activity[j].reaction = x
               \/ \E v \in Workers : worker'[v].pc = "record" /\ worker'[v].on = j /\ worker'[v].reaction = x
    <3>1. CASE x \in shown[j]
      <4>1. x \in shown[j] \ unheard[j]
        BY <1>5, <2>4, <3>1
      <4>2. ASSUME NEW v \in Workers, worker[v].pc = "record" PROVE worker'[v] = worker[v]
        BY <1>1, <1>5, <4>2
      <4> QED
        BY <1>0, <4>1, <4>2 DEF ShownInv
    <3>2. CASE x \notin shown[j]
      <4>1. j = i /\ x = new
        BY <1>5, <2>4, <3>2
      <4>2. worker'[w].pc = "record" /\ worker'[w].reaction = new
        BY <1>5, <2>4, <3>2, <4>1
      <4> QED
        BY <1>5, <4>1, <4>2
    <3> QED
      BY <3>1, <3>2
  <2>5. ASSUME NEW j \in Requests, activity[j].status = "completed" PROVE activity[j].reaction \notin shown'[j]
    BY <1>0, <1>3, <1>5, <2>5 DEF ShownInv
  <2>6. ASSUME NEW v \in Workers, worker'[v].pc \in {"ended", "cleaned"}
        PROVE  worker'[v].reaction \notin shown'[worker'[v].on]
    <3>1. v # w /\ worker'[v] = worker[v]
      BY <1>5, <2>6
    <3>2. /\ worker[v].on \in Requests /\ worker[v].reaction # A!Nothing
          /\ activity[worker[v].on].reaction = worker[v].reaction
      BY <1>0, <2>6, <3>1 DEF RowsInv, Leaving
    <3>3. worker[v].on # i
      BY <1>3, <3>2
    <3> QED
      BY <1>0, <1>5, <2>6, <3>1, <3>2, <3>3 DEF ShownInv
  <2>7. ShownInv'
    BY <1>1, <2>4, <2>5, <2>6 DEF ShownInv
  <2> QED
    BY <2>1, <2>2, <2>3, <2>7 DEF ActivityInv
<1>6. /\ shown \in [Requests -> SUBSET A!Reactions] /\ unheard \in [Requests -> SUBSET A!Reactions]
      /\ worker[w] \in WorkerRow
  BY <1>0 DEF ActivityOK
<1>7. CASE /\ shown' = [shown EXCEPT ![i] = @ \cup {new}]
           /\ worker' = [worker EXCEPT ![w].pc = "record", ![w].reaction = new]
           /\ UNCHANGED unheard
  <2> DEFINE row == [worker[w] EXCEPT !.pc = "record", !.reaction = new]
  <2>1. row \in WorkerRow /\ row.pc = "record" /\ row.reaction = new /\ row.on = i
    BY <1>4, <1>6 DEF WorkerRow, Running, Adding, i
  <2>2. worker' = [worker EXCEPT ![w] = row]
    BY <1>7
  <2> HIDE DEF row
  <2>3. /\ worker' \in [Workers -> WorkerRow] /\ worker'[w] = row
        /\ \A v \in Workers : v # w => worker'[v] = worker[v]
    BY <1>0, <2>1, <2>2, WorkerGoes
  <2> QED
    BY <1>2, <1>4, <1>5, <1>6, <1>7, <2>1, <2>3
<1>8. CASE A!Move(w, "refused") /\ UNCHANGED unheard /\ UNCHANGED shown
  <2>1. /\ worker' \in [Workers -> WorkerRow] /\ worker'[w].pc = "refused" /\ worker'[w].on = i
        /\ worker'[w].reaction = A!Nothing /\ \A v \in Workers : v # w => worker'[v] = worker[v]
    BY <1>0, <1>2, <1>8, WorkerMoves DEF i, Running, Adding
  <2> QED
    BY <1>5, <1>6, <1>8, <2>1
<1>9. CASE /\ shown' = [shown EXCEPT ![i] = @ \cup {new}]
           /\ unheard' = [unheard EXCEPT ![i] = @ \cup {new}]
           /\ A!Move(w, "refused")
  <2>1. /\ worker' \in [Workers -> WorkerRow] /\ worker'[w].pc = "refused" /\ worker'[w].on = i
        /\ worker'[w].reaction = A!Nothing /\ \A v \in Workers : v # w => worker'[v] = worker[v]
    BY <1>0, <1>2, <1>9, WorkerMoves DEF i, Running, Adding
  <2> QED
    BY <1>2, <1>4, <1>5, <1>6, <1>9, <2>1
<1> QED
  BY <1>7, <1>8, <1>9 DEF A!Create, i, new

LEMMA RefusedKeeps ==
  ASSUME ActivityInv, NEW w \in Workers, A!Refused(w)
  PROVE  ActivityInv'
<1> DEFINE i == worker[w].on
<1>0. ActivityOK /\ RunnersInv /\ RowsInv /\ ShownInv
  BY DEF ActivityInv
<1>1. worker[w].pc = "refused" /\ UNCHANGED <<request, shown, crashes, unheard>>
      /\ A!Close(i, A!Nothing, FALSE) /\ A!Move(w, "work")
  BY DEF A!Refused, A!At
<1>2. i \in Requests /\ worker[w].pc \in Running /\ worker[w].reaction = A!Nothing
  BY <1>0, <1>1 DEF RunnersInv, RowsInv, Running, Adding
<1>3. activity[i].status = "executing" /\ activity[i].reaction = A!Nothing
  BY <1>0, <1>1 DEF RowsInv, Adding
<1>4. /\ worker' \in [Workers -> WorkerRow] /\ worker'[w].pc = "work" /\ worker'[w].on = i
      /\ worker'[w].reaction = A!Nothing /\ \A v \in Workers : v # w => worker'[v] = worker[v]
  BY <1>0, <1>1, <1>2, WorkerMoves DEF Running
<1> HIDE DEF i
<1>5. /\ activity' \in [Requests -> ActivityRow]
      /\ activity'[i].reaction = activity[i].reaction /\ activity'[i].status # "completed"
      /\ \A j \in Requests : j # i => activity'[j] = activity[j]
  BY <1>0, <1>1, <1>2, <1>3, Closed
<1>6. \A j \in Requests : activity'[j].reaction = activity[j].reaction
  BY <1>5
<1>7. ActivityOK'
  BY <1>0, <1>1, <1>3, <1>4, <1>5 DEF ActivityOK
<1>8. RunnersInv'
  BY <1>0, <1>1, <1>2, <1>4, RunnersKept DEF i
<1>9. RowsInv'
  BY <1>0, <1>2, <1>4, <1>5, <1>6, RowsKept DEF i, Adding, Leaving
<1>10. ShownInv'
  <2>1. \A j \in Requests : A!Nothing \notin shown[j]
    BY <1>0, ShownHasId
  <2>2. \A v \in Workers : worker[v].pc \in Leaving => worker[v].on \in Requests
    BY <1>0 DEF RowsInv
  <2> QED
    BY <1>0, <1>1, <1>4, <1>5, <1>6, <2>1, <2>2, ShownKept
<1> QED
  BY <1>7, <1>8, <1>9, <1>10 DEF ActivityInv

LEMMA RecordReactionKeeps ==
  ASSUME ActivityInv, NEW w \in Workers, A!Record(w)
  PROVE  ActivityInv'
<1> DEFINE i == worker[w].on
           x == worker[w].reaction
<1>0. ActivityOK /\ RunnersInv /\ RowsInv /\ ShownInv
  BY DEF ActivityInv
<1>1. worker[w].pc = "record" /\ UNCHANGED <<request, shown, crashes, unheard>>
  BY DEF A!Record, A!At
<1>2. i \in Requests /\ worker[w].pc \in Running /\ x # A!Nothing
  BY <1>0, <1>1 DEF RunnersInv, RowsInv, Running, Adding
<1>3. activity[i].status = "executing" /\ activity[i].reaction = A!Nothing
  BY <1>0, <1>1 DEF RowsInv, Adding
<1>4. A!Write(i, "executing", x) /\ A!Move(w, "work")
  BY <1>3 DEF A!Record
<1>5. x \in {A!Nothing} \cup A!Reactions
  BY <1>0 DEF ActivityOK, WorkerRow
<1> HIDE DEF i, x
<1>6. /\ worker' \in [Workers -> WorkerRow] /\ worker'[w].pc = "work" /\ worker'[w].on = i
      /\ worker'[w].reaction = x /\ \A v \in Workers : v # w => worker'[v] = worker[v]
  BY <1>0, <1>4, WorkerMoves DEF Running, i, x
<1>7. /\ activity' \in [Requests -> ActivityRow]
      /\ activity'[i].reaction = x /\ activity'[i].status = "executing"
      /\ \A j \in Requests : j # i => activity'[j] = activity[j]
  BY <1>0, <1>2, <1>4, <1>5, RowWritten DEF RowStatus
<1>8. ActivityOK'
  BY <1>0, <1>1, <1>6, <1>7 DEF ActivityOK
<1>9. RunnersInv'
  BY <1>0, <1>1, <1>2, <1>6, RunnersKept DEF i
\* Who else looks at this row holds a reaction it does not have.
<1>10. ASSUME NEW v \in Workers, v # w, worker[v].pc \in Running \cup Leaving
       PROVE  worker[v].on \in Requests /\ worker[v].on # i
  BY <1>0, <1>2, <1>3, <1>10 DEF RunnersInv, RowsInv, i
<1>11. RowsInv'
  <2>1. ASSUME NEW v \in Workers, v # w
        PROVE  /\ worker'[v] = worker[v]
               /\ worker[v].pc \in Running \cup Leaving => activity'[worker[v].on] = activity[worker[v].on]
    BY <1>6, <1>7, <1>10, <2>1
  <2>2. \A v \in Workers : worker[v].pc \in Adding \cup {"work"} => worker[v].pc \in Running
    BY DEF Running
  <2> QED
    BY <1>0, <1>6, <1>7, <2>1, <2>2 DEF RowsInv, Adding, Leaving
<1>12. ShownInv'
  <2>1. \A j \in Requests : A!Nothing \notin shown[j]
    BY <1>0, ShownHasId
  <2>2. \A v \in Workers : worker[v].pc \in Leaving => worker[v].on \in Requests
    BY <1>0 DEF RowsInv
  <2> QED
    BY <1>0, <1>1, <1>3, <1>6, <1>7, <2>1, <2>2, ShownKept DEF i, x
<1> QED
  BY <1>8, <1>9, <1>11, <1>12 DEF ActivityInv

LEMMA WorkKeeps ==
  ASSUME ActivityInv, NEW w \in Workers, A!Work(w)
  PROVE  ActivityInv'
<1> DEFINE i == worker[w].on
<1>0. ActivityOK /\ RunnersInv /\ RowsInv /\ ShownInv
  BY DEF ActivityInv
<1>1. worker[w].pc = "work" /\ UNCHANGED <<activity, shown, crashes, unheard>>
  BY DEF A!Work, A!At
<1>2. /\ i \in Requests /\ worker[w].pc \in Running
      /\ \A v \in Workers : worker[v].pc \in Running /\ worker[v].on = i => v = w
  BY <1>0, <1>1 DEF RunnersInv, Running
<1>3. PICK status \in {"completed", "dead", "parked", "queued"} :
        /\ status = "queued" => request[i].attempts < MaxAttempts
        /\ request' = [request EXCEPT ![i].status = status]
  BY DEF A!Work
<1>4. PICK row \in WorkerRow :
        /\ worker' = [worker EXCEPT ![w] = row]
        /\ \/ row.pc = "clean"
           \/ row.pc = "ending" /\ row.on = i /\ row.reaction = worker[w].reaction /\ row.reaction # A!Nothing
  <2>1. CASE worker[w].reaction = A!Nothing
    <3>1. A!Rested \in WorkerRow /\ A!Rested.pc = "clean"
      BY DEF A!Rested, WorkerRow
    <3>2. worker' = [worker EXCEPT ![w] = A!Rested]
      BY <2>1 DEF A!Work
    <3> QED
      BY <3>1, <3>2
  <2>2. CASE worker[w].reaction # A!Nothing
    <3> DEFINE row == [worker[w] EXCEPT !.pc = "ending"]
    <3>1. row \in WorkerRow /\ row.pc = "ending" /\ row.on = i /\ row.reaction = worker[w].reaction
      BY <1>0 DEF ActivityOK, WorkerRow, Leaving
    <3>2. worker' = [worker EXCEPT ![w] = row]
      BY <2>2 DEF A!Work
    <3> HIDE DEF row
    <3> QED
      BY <2>2, <3>1, <3>2
  <2> QED
    BY <2>1, <2>2
<1> HIDE DEF i
<1>5. /\ worker' \in [Workers -> WorkerRow] /\ worker'[w] = row
      /\ \A v \in Workers : v # w => worker'[v] = worker[v]
  BY <1>0, <1>4, WorkerGoes
<1>6. /\ request' \in [Requests -> RequestRow] /\ RequestOK(request'[i])
      /\ \A j \in Requests : j # i => request'[j] = request[j]
  <2> DEFINE new == [request[i] EXCEPT !.status = status]
  <2>1. request[i] \in RequestRow
    BY <1>0, <1>2 DEF ActivityOK
  <2>2. new \in RequestRow /\ new.status = status /\ new.attempts = request[i].attempts
    BY <2>1 DEF RequestRow, A!Over
  <2> HIDE DEF new
  <2>3. request' = [request EXCEPT ![i] = new]
    BY <1>3 DEF new
  <2> QED
    BY <1>0, <1>2, <1>3, <2>2, <2>3 DEF ActivityOK, RequestOK
<1>7. ActivityOK'
  BY <1>0, <1>1, <1>5, <1>6 DEF ActivityOK
<1>8. ~(worker'[w].pc \in Running)
  BY <1>4, <1>5 DEF Running, Adding
<1>9. RunnersInv'
  BY <1>0, <1>2, <1>5, <1>6, <1>8 DEF RunnersInv
<1>10. RowsInv'
  <2>1. worker[w].reaction \in {A!Nothing, activity[i].reaction}
    BY <1>0, <1>1 DEF RowsInv, i
  <2> QED
    BY <1>0, <1>1, <1>2, <1>4, <1>5, <2>1, RowsKept DEF Running, Adding, Leaving
<1>11. ShownInv'
  <2>1. \A j \in Requests : A!Nothing \notin shown[j]
    BY <1>0, ShownHasId
  <2>2. \A v \in Workers : worker[v].pc \in Leaving => worker[v].on \in Requests
    BY <1>0 DEF RowsInv
  <2> QED
    BY <1>0, <1>1, <1>4, <1>5, <2>1, <2>2, ShownKept
<1> QED
  BY <1>7, <1>9, <1>10, <1>11 DEF ActivityInv

LEMMA ResumeKeeps ==
  ASSUME ActivityInv, NEW i \in Requests, A!ResumeRequest(i)
  PROVE  ActivityInv'
<1>0. ActivityOK /\ RunnersInv /\ RowsInv /\ ShownInv
  BY DEF ActivityInv
<1>1. UNCHANGED <<activity, shown, worker, crashes, unheard>>
  BY DEF A!ResumeRequest
<1>2. /\ request[i].status \in {"dead", "parked"} /\ request[i].attempts < MaxAttempts
      /\ request' = [request EXCEPT ![i].status = "queued"]
  BY DEF A!ResumeRequest
<1> DEFINE new == [request[i] EXCEPT !.status = "queued"]
<1>3. request[i] \in RequestRow
  BY <1>0 DEF ActivityOK
<1>4. new \in RequestRow /\ RequestOK(new)
  BY <1>2, <1>3 DEF RequestRow, RequestOK
<1>5. request' = [request EXCEPT ![i] = new]
  BY <1>2
<1> HIDE DEF new
<1>6. ActivityOK'
  BY <1>0, <1>1, <1>4, <1>5 DEF ActivityOK
<1>7. RunnersInv'
  <2>1. \A w \in Workers : worker[w].pc \in Running => worker[w].on # i
    BY <1>0, <1>2 DEF RunnersInv
  <2>2. request \in [Requests -> RequestRow]
    BY <1>0 DEF ActivityOK
  <2>3. \A j \in Requests : j # i => request'[j] = request[j]
    BY <1>5, <2>2
  <2> QED
    BY <1>0, <1>1, <2>1, <2>3 DEF RunnersInv
<1>8. RowsInv' /\ ShownInv'
  BY <1>0, <1>1 DEF RowsInv, ShownInv
<1> QED
  BY <1>6, <1>7, <1>8 DEF ActivityInv

LEMMA RemovalKeeps ==
  ASSUME ActivityInv, NEW w \in Workers, A!Removed(w) \/ A!NotRemoved(w)
  PROVE  ActivityInv'
<1> DEFINE i == worker[w].on
           x == worker[w].reaction
<1>0. ActivityOK /\ RunnersInv /\ RowsInv /\ ShownInv
  BY DEF ActivityInv
<1>1. worker[w].pc \in A!Removing /\ UNCHANGED <<request, activity, crashes, unheard>>
  BY DEF A!Removed, A!NotRemoved
<1>2. worker[w].pc \in {"ending", "cleaning"}
  BY <1>0, <1>1 DEF A!Removing, ActivityOK, WorkerRow, Running, Adding, Leaving
<1>3. i \in Requests /\ x # A!Nothing /\ activity[i].reaction = x
  BY <1>0, <1>2 DEF RowsInv, Leaving
<1>4. PICK next \in {"ended", "cleaned", "end_failed", "clean_failed"}, gone \in {{}, {x}} :
        /\ A!Move(w, next) /\ shown' = [shown EXCEPT ![i] = @ \ gone]
        /\ next \in {"ended", "cleaned"} => gone = {x}
  <2>1. CASE A!Removed(w)
    <3>1. PICK next \in {"ended", "cleaned"} : A!Move(w, next)
      BY <1>2, <2>1 DEF A!Removed, A!At
    <3>2. shown' = [shown EXCEPT ![i] = @ \ {x}]
      BY <2>1 DEF A!Removed
    <3> QED
      BY <3>1, <3>2
  <2>2. CASE A!NotRemoved(w)
    <3>1. PICK next \in {"end_failed", "clean_failed"} : A!Move(w, next)
      BY <1>2, <2>2 DEF A!NotRemoved, A!At
    <3>2. PICK gone \in {{}, {x}} : shown' = [shown EXCEPT ![i] = @ \ gone]
      BY <2>2 DEF A!NotRemoved
    <3> QED
      BY <3>1, <3>2
  <2> QED
    BY <2>1, <2>2
<1> HIDE DEF i, x
<1>5. /\ worker' \in [Workers -> WorkerRow] /\ worker'[w].pc = next /\ worker'[w].on = i
      /\ worker'[w].reaction = x /\ \A v \in Workers : v # w => worker'[v] = worker[v]
  BY <1>0, <1>4, WorkerMoves DEF Leaving, i, x
<1>6. /\ shown' \in [Requests -> SUBSET A!Reactions]
      /\ \A j \in Requests : shown'[j] \subseteq shown[j]
      /\ next \in {"ended", "cleaned"} => x \notin shown'[i]
  BY <1>0, <1>3, <1>4 DEF ActivityOK
<1>7. ActivityOK'
  BY <1>0, <1>1, <1>5, <1>6 DEF ActivityOK
<1>8. RunnersInv'
  BY <1>0, <1>1, <1>5, RunnersKept DEF Running, Adding
<1>9. RowsInv'
  BY <1>0, <1>1, <1>3, <1>5, RowsKept DEF Adding
<1>10. ShownInv'
  <2>1. \A j \in Requests : A!Nothing \notin shown[j]
    BY <1>0, ShownHasId
  <2>2. \A v \in Workers : worker[v].pc \in Leaving => worker[v].on \in Requests
    BY <1>0 DEF RowsInv
  <2> QED
    BY <1>0, <1>1, <1>2, <1>5, <1>6, <2>1, <2>2, ShownKept
<1> QED
  BY <1>7, <1>8, <1>9, <1>10 DEF ActivityInv

LEMMA NoteKeeps ==
  ASSUME ActivityInv, NEW w \in Workers, A!Note(w)
  PROVE  ActivityInv'
<1> DEFINE i == worker[w].on
           x == worker[w].reaction
           deleted == worker[w].pc \in {"ended", "cleaned"}
<1>0. ActivityOK /\ RunnersInv /\ RowsInv /\ ShownInv
  BY DEF ActivityInv
<1>1. worker[w].pc \in {"ended", "end_failed", "cleaned", "clean_failed"}
      /\ UNCHANGED <<request, shown, crashes, unheard>>
  BY <1>0 DEF A!Note, ActivityOK, WorkerRow, Running, Adding, Leaving
<1>2. i \in Requests /\ x # A!Nothing /\ activity[i].reaction = x
  BY <1>0, <1>1 DEF RowsInv, Leaving
<1>3. x \in {A!Nothing} \cup A!Reactions
  BY <1>0 DEF ActivityOK, WorkerRow
<1>4. A!Close(i, x, deleted)
  BY DEF A!Note
<1>5. PICK row \in WorkerRow : worker' = [worker EXCEPT ![w] = row] /\ row.pc \in {"clean", "claim"}
  <2> DEFINE idle == IF worker[w].pc \in {"cleaned", "clean_failed"} THEN [A!Rested EXCEPT !.pc = "claim"] ELSE A!Rested
  <2>1. worker' = [worker EXCEPT ![w] = idle]
    BY <1>1 DEF A!Note
  <2>2. idle \in WorkerRow /\ idle.pc \in {"clean", "claim"}
    BY DEF A!Rested, WorkerRow
  <2> HIDE DEF idle
  <2> QED
    BY <2>1, <2>2
<1>6. deleted => x \notin shown[i]
  BY <1>0 DEF ShownInv
<1>7. deleted \in BOOLEAN
  OBVIOUS
<1> HIDE DEF i, x, deleted
<1>8. /\ activity' \in [Requests -> ActivityRow]
      /\ activity'[i].reaction = x
      /\ activity'[i].status = "completed" => activity[i].status = "completed" \/ deleted
      /\ \A j \in Requests : j # i => activity'[j] = activity[j]
  BY <1>0, <1>2, <1>3, <1>4, <1>7, Closed
<1>9. /\ worker' \in [Workers -> WorkerRow] /\ worker'[w].pc \in {"clean", "claim"}
      /\ \A v \in Workers : v # w => worker'[v] = worker[v]
  BY <1>0, <1>5, WorkerGoes
<1>10. \A j \in Requests : activity'[j].reaction = activity[j].reaction
  BY <1>2, <1>8
<1>11. ActivityOK'
  <2>1. activity'[i].status # "none"
    <3>1. activity[i].status # "none"
      BY <1>0, <1>2 DEF ActivityOK
    <3> QED
      <4>1. CASE activity[i].status = "executing"
        <5>1. PICK status \in {"completed", "blocked"} : A!Write(i, status, x)
          BY <1>4, <4>1 DEF A!Close
        <5> QED
          BY <1>0, <1>2, <1>3, <5>1, RowWritten DEF RowStatus
      <4>2. CASE activity[i].status # "executing"
        BY <1>4, <3>1, <4>2 DEF A!Close
      <4> QED
        BY <4>1, <4>2
  <2> QED
    BY <1>0, <1>1, <1>8, <1>9, <2>1 DEF ActivityOK
<1>12. RunnersInv'
  BY <1>0, <1>1, <1>9, RunnersKept DEF Running, Adding
<1>13. RowsInv'
  BY <1>0, <1>2, <1>8, <1>9, <1>10, RowsKept DEF Adding, Leaving
<1>14. ShownInv'
  <2>1. \A j \in Requests : A!Nothing \notin shown[j]
    BY <1>0, ShownHasId
  <2>2. \A v \in Workers : worker[v].pc \in Leaving => worker[v].on \in Requests
    BY <1>0 DEF RowsInv
  <2>3. worker[w].pc # "record" /\ ~(worker'[w].pc \in {"ended", "cleaned"})
    BY <1>1, <1>9
  <2> QED
    BY <1>0, <1>1, <1>2, <1>6, <1>8, <1>9, <1>10, <2>1, <2>2, <2>3, ShownKept
<1> QED
  BY <1>11, <1>12, <1>13, <1>14 DEF ActivityInv

LEMMA AgeKeeps ==
  ASSUME ActivityInv, NEW i \in Requests, A!Age(i)
  PROVE  ActivityInv'
<1>0. ActivityOK /\ RunnersInv /\ RowsInv /\ ShownInv
  BY DEF ActivityInv
<1>1. UNCHANGED <<request, shown, worker, crashes, unheard>>
  BY DEF A!Age
<1>2. activity' = [activity EXCEPT ![i].fresh = FALSE]
  BY DEF A!Age
<1> DEFINE row == [activity[i] EXCEPT !.fresh = FALSE]
<1>3. activity[i] \in ActivityRow
  BY <1>0 DEF ActivityOK
<1>4. row \in ActivityRow /\ row.status = activity[i].status /\ row.reaction = activity[i].reaction
  BY <1>3 DEF ActivityRow
<1>5. activity' = [activity EXCEPT ![i] = row]
  BY <1>2
<1> HIDE DEF row
<1>6. activity' \in [Requests -> ActivityRow]
  BY <1>0, <1>4, <1>5 DEF ActivityOK
<1>7. \A j \in Requests : activity'[j].status = activity[j].status /\ activity'[j].reaction = activity[j].reaction
  BY <1>0, <1>4, <1>5 DEF ActivityOK
<1>8. ActivityOK'
  BY <1>0, <1>1, <1>6, <1>7 DEF ActivityOK
<1>9. RunnersInv'
  BY <1>0, <1>1 DEF RunnersInv
<1>10. RowsInv'
  <2>1. \A w \in Workers : worker[w].pc \in Adding \cup {"work"} => worker[w].on \in Requests
    BY <1>0 DEF RunnersInv, Running
  <2> QED
    BY <1>0, <1>1, <1>7, <2>1 DEF RowsInv
<1>11. ShownInv'
  BY <1>0, <1>1, <1>7 DEF ShownInv
<1> QED
  BY <1>8, <1>9, <1>10, <1>11 DEF ActivityInv

LEMMA ActivityCrashKeeps ==
  ASSUME ActivityInv, A!Crash
  PROVE  ActivityInv'
<1>0. ActivityOK /\ RunnersInv /\ RowsInv /\ ShownInv
  BY DEF ActivityInv
<1>1. /\ crashes < MaxCrashes /\ crashes' = crashes + 1 /\ UNCHANGED <<activity, shown>>
      /\ worker' = [w \in Workers |-> A!Rested]
  BY DEF A!Crash
<1>2. PICK next \in [Requests -> {"queued", "dead"}] :
        /\ \A i \in Requests : next[i] = "queued" => request[i].attempts < MaxAttempts
        /\ request' = [i \in Requests |-> IF request[i].status = "working"
                         THEN [request[i] EXCEPT !.status = next[i]] ELSE request[i]]
  BY DEF A!Crash
<1>3. unheard' = [i \in Requests |-> unheard[i] \cup
        {worker[w].reaction : w \in {v \in Workers : worker[v].on = i /\ worker[v].pc = "record"}}]
  BY DEF A!Crash
<1>4. A!Rested \in WorkerRow /\ A!Rested.pc = "clean"
  BY DEF A!Rested, WorkerRow
<1>5. worker' \in [Workers -> WorkerRow] /\ \A w \in Workers : worker'[w].pc = "clean"
  BY <1>1, <1>4
<1>6. ASSUME NEW i \in Requests PROVE request'[i] \in RequestRow /\ RequestOK(request'[i])
  <2>1. request[i] \in RequestRow /\ RequestOK(request[i])
    BY <1>0 DEF ActivityOK
  <2> DEFINE new == [request[i] EXCEPT !.status = next[i]]
  <2>2. new \in RequestRow /\ new.status = next[i] /\ new.attempts = request[i].attempts
    BY <2>1 DEF RequestRow, A!Over
  <2>3. RequestOK(new)
    BY <1>2, <2>2 DEF RequestOK
  <2>4. request'[i] = new \/ request'[i] = request[i]
    BY <1>2
  <2> HIDE DEF new
  <2> QED
    BY <2>1, <2>2, <2>3, <2>4
<1>7. \A i \in Requests : unheard'[i] \in SUBSET A!Reactions
  <2>1. \A w \in Workers : worker[w].pc = "record" => worker[w].reaction \in A!Reactions
    BY <1>0 DEF ActivityOK, RowsInv, WorkerRow
  <2> QED
    BY <1>0, <1>3, <2>1 DEF ActivityOK
<1>8. ActivityOK'
  <2>1. request' \in [Requests -> RequestRow] /\ unheard' \in [Requests -> SUBSET A!Reactions]
    BY <1>2, <1>3, <1>6, <1>7
  <2>2. crashes' \in 0 .. MaxCrashes
    BY <1>0, <1>1, ActivityBounds DEF ActivityOK
  <2> QED
    BY <1>0, <1>1, <1>5, <1>6, <2>1, <2>2 DEF ActivityOK
<1>9. RunnersInv' /\ RowsInv'
  BY <1>5 DEF RunnersInv, RowsInv, Running, Adding, Leaving
<1>10. ShownInv'
  <2>1. ASSUME NEW i \in Requests, NEW x \in shown[i] \ unheard'[i]
        PROVE  activity[i].reaction = x
    BY <1>0, <1>3, <2>1 DEF ShownInv
  <2> QED
    BY <1>0, <1>1, <1>5, <2>1 DEF ShownInv
<1> QED
  BY <1>8, <1>9, <1>10 DEF ActivityInv

LEMMA ActivityStep == ActivityInv /\ [A!Next]_activityVars => ActivityInv'
<1> SUFFICES ASSUME ActivityInv, [A!Next]_activityVars PROVE ActivityInv'
  OBVIOUS
<1>1. ASSUME NEW w \in Workers, A!RunStep(w) PROVE ActivityInv'
  BY <1>1, CleanKeeps, ClaimKeeps, BeginKeeps, CreateKeeps, RefusedKeeps, RecordReactionKeeps, WorkKeeps,
     RemovalKeeps, NoteKeeps DEF A!RunStep
<1>2. ASSUME NEW i \in Requests, A!Age(i) \/ A!ResumeRequest(i) PROVE ActivityInv'
  BY <1>2, AgeKeeps, ResumeKeeps
<1>3. CASE A!Crash
  BY <1>3, ActivityCrashKeeps
<1>4. CASE UNCHANGED activityVars
  BY <1>4 DEF activityVars, ActivityInv, ActivityOK, RunnersInv, RowsInv, ShownInv
<1> QED
  BY <1>1, <1>2, <1>3, <1>4 DEF A!Next

LEMMA ActivityKept == Spec => []ActivityInv
<1>1. Init => ActivityInv
  BY ActivityInit DEF Init
<1>2. ActivityInv /\ [Next]_dutyVars => ActivityInv'
  BY ActivityStep, ActivityMoves
<1> QED
  BY <1>1, <1>2, PTL DEF Spec

\* No interleaving of a run's end, the clean-up and another run forgets a reaction:
\* what Lark shows is on an open row or held by the worker that adds it
\* (BeginOwnerActivity, RecordOwnerActivityReaction, CompleteOwnerActivity).
THEOREM ReactionsAreKnown == Spec => []NoneForgotten
<1>1. ActivityInv => NoneForgotten
  <2> SUFFICES ASSUME ActivityInv, NEW i \in Requests, NEW x \in shown[i] \ unheard[i]
               PROVE  \/ activity[i].reaction = x /\ activity[i].status # "completed"
                      \/ \E w \in Workers : worker[w].on = i /\ worker[w].reaction = x
    BY DEF NoneForgotten, A!NoneForgotten
  <2> QED
    BY DEF ActivityInv, ShownInv
<1> QED
  BY <1>1, ActivityKept, PTL

-----------------------------------------------------------------------------
(* The types of all five parts.                                              *)

LEMMA WriteTypesInit == W!Init => W!WriteTypeOK
  BY DutyParameters DEF W!WriteParameters, W!Init, W!WriteTypeOK
LEMMA WriteTypesStep == W!WriteTypeOK /\ [W!Next]_writeVars => W!WriteTypeOK'
<1> SUFFICES ASSUME W!WriteTypeOK, [W!Next]_writeVars PROVE W!WriteTypeOK'
  OBVIOUS
<1>0. MaxStarts \in Nat /\ MaxWrites \in Nat
  BY DutyParameters DEF W!WriteParameters
<1> USE DEF W!WriteTypeOK
<1>1. CASE W!Decide \/ W!OthersEdit
  BY <1>1 DEF W!Decide, W!OthersEdit
<1>2. CASE W!Restart
  BY <1>0, <1>2 DEF W!Restart
<1>3. ASSUME NEW r \in Runs, W!Begin(r) \/ W!Consume(r) \/ W!Request(r) PROVE W!WriteTypeOK'
  BY <1>3 DEF W!Begin, W!Consume, W!Request
<1>4. ASSUME NEW r \in Runs, W!WriteField(r) PROVE W!WriteTypeOK'
  BY <1>0, <1>4 DEF W!WriteField
<1>5. ASSUME NEW r \in Runs, W!CompareField(r) \/ W!Verify(r) \/ W!CompleteAction(r) \/ W!CallAgain(r)
      PROVE  W!WriteTypeOK'
  BY <1>5 DEF W!CompareField, W!Verify, W!CompleteAction, W!CallAgain
<1>6. CASE UNCHANGED writeVars
  BY <1>6 DEF writeVars
<1> QED
  BY <1>1, <1>2, <1>3, <1>4, <1>5, <1>6 DEF W!Next

\* The limit has grown by the one turn of the correction, if that was granted, and a
\* turn under way is within it.
LoopInv ==
    /\ L!LoopTypeOK
    /\ limit = IF granted THEN MaxTurns[kind] + 1 ELSE MaxTurns[kind]
    /\ pc \in {"model", "calls"} => turn < limit

LEMMA LoopBounds == \A k \in Kinds : MaxTurns[k] \in Nat
  BY DutyParameters DEF L!LoopParameters
LEMMA LoopTypesInit == L!Init => LoopInv
<1> SUFFICES ASSUME L!Init PROVE LoopInv
  OBVIOUS
<1>1. /\ kind \in Kinds /\ pc = "turn" /\ turn = 0 /\ limit = MaxTurns[kind] /\ mode = "open" /\ gain = "none"
      /\ toolCalls = 0 /\ attempts = 0 /\ granted = FALSE /\ {closed, granted, tried, again} \subseteq BOOLEAN
      /\ version = 0 /\ authoritative = {} /\ found = {} /\ outcome = "none"
  BY DEF L!Init
<1>2. allowed \subseteq 0 .. version
  BY <1>1 DEF L!Init
<1>3. MaxTurns[kind] \in Nat /\ MaxToolCalls \in Nat /\ MaxTerminalOnlyAttempts \in Nat /\ MaxVersions \in Nat
  BY <1>1, LoopBounds, DutyParameters DEF L!LoopParameters
<1>4. L!LoopTypeOK
  BY <1>1, <1>2, <1>3 DEF L!LoopTypeOK, L!Outcomes
<1> QED
  BY <1>1, <1>4 DEF LoopInv

\* What an observation makes of the turn.
LEMMA ObservedType ==
  ASSUME NEW n, NEW closing, NEW progress, L!Observe(n, closing, progress), gain \in {"none", "idle", "made"}
  PROVE  closed' \in BOOLEAN /\ gain' \in {"none", "idle", "made"}
<1>1. closed' \in BOOLEAN
  BY Zenon DEF L!Observe
<1> QED
  BY <1>1 DEF L!Observe

LEMMA LoopTypesStep == LoopInv /\ [L!Next]_loopVars => LoopInv'
<1> SUFFICES ASSUME LoopInv, [L!Next]_loopVars PROVE LoopInv'
  OBVIOUS
<1> USE DEF L!budgetVars, L!endVars, L!fileVars, L!handoffVars
<1>0. /\ MaxTurns[kind] \in Nat /\ MaxToolCalls \in Nat /\ MaxTerminalOnlyAttempts \in Nat /\ MaxVersions \in Nat
      /\ turn \in Nat /\ limit \in Nat /\ toolCalls \in Nat /\ attempts \in Nat /\ version \in Nat
  BY LoopBounds, DutyParameters DEF L!LoopParameters, LoopInv, L!LoopTypeOK
<1>1. CASE L!StartTurn
  <2>1. closed' \in BOOLEAN
    <3>1. PICK opaque : closed' = L!Closes(opaque)
      BY <1>1, Zenon DEF L!StartTurn
    <3> QED
      BY <3>1, Zenon DEF L!Closes
  <2>2. mode' \in {"open", "search", "read", "complete", "submit"} /\ pc' \in {"model", "finalizer"}
    BY <1>1 DEF L!StartTurn
  <2>3. attempts' \in 0 .. MaxTerminalOnlyAttempts + 1 /\ again' \in BOOLEAN
    BY <1>0, <1>1 DEF L!StartTurn, L!AttemptLimit, LoopInv, L!LoopTypeOK
  <2>4. /\ turn < limit /\ UNCHANGED <<kind, turn, limit, toolCalls, granted, version, allowed, authoritative, found, outcome>>
        /\ gain' = "none" /\ tried' = FALSE
    BY <1>1 DEF L!StartTurn
  <2> QED
    BY <1>0, <2>1, <2>2, <2>3, <2>4 DEF LoopInv, L!LoopTypeOK
<1>2. CASE L!ExceedTurns \/ L!FailRun
  <2>1. /\ pc' = "ended" /\ outcome' \in L!Outcomes
        /\ UNCHANGED <<kind, turn, mode, gain, tried, again, limit, toolCalls, closed, attempts, granted, version,
                       allowed, authoritative, found>>
    BY <1>2 DEF L!ExceedTurns, L!FailRun, L!Outcomes
  <2> QED
    BY <2>1 DEF LoopInv, L!LoopTypeOK
<1>3. CASE L!NoCalls \/ L!Calls
  <2>1. /\ pc = "model"
        /\ (pc' = "turn" /\ turn' = turn + 1) \/ (pc' = "calls" /\ turn' = turn)
        /\ UNCHANGED <<kind, mode, gain, tried, again, limit, toolCalls, closed, attempts, granted, version,
                       allowed, authoritative, found, outcome>>
    BY <1>3 DEF L!NoCalls, L!Calls
  <2> QED
    BY <1>0, <2>1 DEF LoopInv, L!LoopTypeOK
<1>4. ASSUME NEW t, NEW c, L!Counted(t, c)
      PROVE  /\ closed' \in BOOLEAN /\ gain' \in {"none", "idle", "made"} /\ tried' \in BOOLEAN
             /\ toolCalls' \in 0 .. MaxToolCalls
             /\ pc = "calls" /\ UNCHANGED <<kind, pc, turn, mode, again, limit, attempts, granted, outcome>>
  <2>1. closed' \in BOOLEAN /\ gain' \in {"none", "idle", "made"}
    BY <1>4, ObservedType DEF L!Counted, LoopInv, L!LoopTypeOK
  <2>2. tried' \in BOOLEAN
    <3>1. tried' = L!Recovering
      BY <1>4, Zenon DEF L!Counted
    <3>2. L!Recovering \in BOOLEAN
      BY DEF L!Recovering
    <3> QED
      BY <3>1, <3>2
  <2> QED
    BY <1>0, <1>4, <2>1, <2>2 DEF L!Counted, L!Open, LoopInv, L!LoopTypeOK
<1>5. ASSUME NEW t, NEW c, L!Counted(t, c), found' \subseteq L!Evidence \cup L!Reads,
             version' \in 0 .. MaxVersions, allowed' \subseteq 0 .. version', authoritative' \subseteq allowed'
      PROVE  LoopInv'
  BY <1>0, <1>4, <1>5 DEF LoopInv, L!LoopTypeOK
<1>6. CASE L!SubmitPlan \/ L!SearchWorkspace
  BY <1>5, <1>6 DEF L!SubmitPlan, L!SearchWorkspace, LoopInv, L!LoopTypeOK
<1>7. CASE L!ReadFile
  <2>1. PICK c : L!Counted("read_workspace", c)
    BY <1>7 DEF L!ReadFile
  <2>2. /\ allowed' = allowed \cup {version} /\ authoritative' \subseteq authoritative \cup {version}
        /\ UNCHANGED <<version, found>>
    BY <1>7 DEF L!ReadFile
  <2>3. allowed' \subseteq 0 .. version' /\ authoritative' \subseteq allowed'
    BY <1>0, <2>2 DEF LoopInv, L!LoopTypeOK
  <2> QED
    BY <1>5, <2>1, <2>2, <2>3 DEF LoopInv, L!LoopTypeOK
<1>8. CASE L!EditFile
  <2>1. /\ version < MaxVersions /\ L!Counted("edit_workspace", FALSE) /\ authoritative' = {} /\ UNCHANGED found
        /\ version' \in {version, version + 1} /\ allowed' \subseteq {version'}
    BY <1>8 DEF L!EditFile, L!Withdraw
  <2>2. version' \in 0 .. MaxVersions /\ allowed' \subseteq 0 .. version'
    BY <1>0, <2>1
  <2> QED
    BY <1>5, <2>1, <2>2 DEF LoopInv, L!LoopTypeOK
<1>9. ASSUME NEW t, L!HandoffCall(t) PROVE LoopInv'
  <2>1. found' \subseteq L!Evidence \cup L!Reads
    <3>1. t \in L!Writes => UNCHANGED found
      BY <1>9 DEF L!HandoffCall
    <3>2. t \notin L!Writes => t \in L!Evidence \cup L!Reads /\ \E some \in BOOLEAN : found' = L!Observed(t, some)
      BY <1>9 DEF L!HandoffCall
    <3> QED
      BY <3>1, <3>2 DEF L!Observed, LoopInv, L!LoopTypeOK
  <2> QED
    BY <1>5, <1>9, <2>1 DEF L!HandoffCall, L!fileVars, LoopInv, L!LoopTypeOK
<1>11. ASSUME NEW t, L!RefusedCall(t) PROVE LoopInv'
  <2>1. closed' \in BOOLEAN /\ gain' \in {"none", "idle", "made"}
    BY <1>11, ObservedType DEF L!RefusedCall, LoopInv, L!LoopTypeOK
  <2>2. tried' \in BOOLEAN
    BY <1>11, Zenon DEF L!RefusedCall
  <2>3. UNCHANGED <<kind, pc, turn, mode, again, limit, toolCalls, attempts, granted, version, allowed, authoritative,
                    found, outcome>>
    BY <1>11 DEF L!RefusedCall
  <2> QED
    BY <1>0, <2>1, <2>2, <2>3 DEF LoopInv, L!LoopTypeOK
<1>12. CASE L!SubmitDecision
  <2>1. /\ turn < limit
        /\ UNCHANGED <<kind, turn, mode, tried, again, toolCalls, attempts, version, allowed, authoritative, found>>
    BY <1>12 DEF L!SubmitDecision, LoopInv
  <2>2. CASE \E n, closing : L!Observe(n, closing, FALSE)
    <3>1. closed' \in BOOLEAN /\ gain' \in {"none", "idle", "made"}
      BY <2>2, ObservedType DEF LoopInv, L!LoopTypeOK
    <3>2. /\ granted' \in BOOLEAN /\ limit' = IF granted' THEN MaxTurns[kind] + 1 ELSE MaxTurns[kind]
          /\ limit' \in Nat /\ limit' >= limit
      <4>1. UNCHANGED <<limit, granted>> \/ (limit' = L!Extended /\ granted' = TRUE)
        BY <1>12, Zenon DEF L!SubmitDecision, L!Accept
      <4>2. CASE UNCHANGED <<limit, granted>>
        BY <1>0, <4>2 DEF LoopInv, L!LoopTypeOK
      <4>3. CASE limit' = L!Extended /\ granted' = TRUE
        BY <1>0, <4>3 DEF L!Extended, LoopInv, L!LoopTypeOK
      <4> QED
        BY <4>1, <4>2, <4>3
    <3>3. (pc' = pc \/ pc' = "ended") /\ outcome' \in {outcome, "decided", "failed"}
      BY <1>12 DEF L!SubmitDecision, L!Accept, L!Reject
    <3> QED
      BY <1>0, <2>1, <3>1, <3>2, <3>3 DEF LoopInv, L!LoopTypeOK, L!Outcomes
  <2>3. CASE \E s : L!Accept(s)
    BY <1>0, <2>1, <2>3 DEF L!Accept, LoopInv, L!LoopTypeOK, L!Outcomes
  <2> QED
    BY <1>12, <2>2, <2>3 DEF L!SubmitDecision, L!Reject
<1>13. CASE L!EndTurn
  <2>1. closed' \in BOOLEAN
    BY <1>13, Zenon DEF L!EndTurn
  <2>2. /\ pc = "calls" /\ pc' = "turn" /\ turn' = turn + 1
        /\ UNCHANGED <<kind, mode, gain, tried, again, limit, toolCalls, attempts, granted, version, allowed,
                       authoritative, found, outcome>>
    BY <1>13 DEF L!EndTurn
  <2> QED
    BY <1>0, <2>1, <2>2 DEF LoopInv, L!LoopTypeOK
<1>14. CASE L!Finalize
  BY <1>0, <1>14 DEF L!Finalize, LoopInv, L!LoopTypeOK, L!Outcomes
<1>15. CASE L!OthersEdit
  BY <1>0, <1>15 DEF L!OthersEdit, LoopInv, L!LoopTypeOK
<1>16. CASE UNCHANGED loopVars
  BY <1>16 DEF loopVars, LoopInv, L!LoopTypeOK
<1> QED
  BY <1>1, <1>2, <1>3, <1>6, <1>7, <1>8, <1>9, <1>11, <1>12, <1>13, <1>14, <1>15, <1>16, SameVars
  DEF L!Next, L!LoopStep, L!Done

\* What the verdict names lies in what was read of the chat, and nothing is named yet
\* while it is read.
MatchInv ==
    /\ StateOK
    /\ Len(chat) <= MaxChat /\ target.is \in Targets
    /\ resolution.matched \subseteq 1 .. resolver.length
    /\ resolver.pc \in {"idle", "reaction", "context", "classify"} => resolution.matched = {}
    /\ reaction \in {"none", "suppress", "defer", "admit", "fail"}

LEMMA MatchInit == M!Init => MatchInv
<1> SUFFICES ASSUME M!Init PROVE MatchInv
  OBVIOUS
<1>1. M!MatchParameters
  BY DutyParameters
<1>2. StateOK
  BY <1>1, StateInit
<1>3. target.is \in Targets
  BY ZenonT(60) DEF M!Init
<1>4. chat = <<>> /\ MaxChat \in Nat /\ reaction = "none" /\ resolution.matched = {}
  BY <1>1 DEF M!Init, M!MatchParameters, M!NoResolution
<1> QED
  BY <1>2, <1>3, <1>4 DEF MatchInv

LEMMA MatchStep == MatchInv /\ [M!Next]_matchVars => MatchInv'
<1> SUFFICES ASSUME MatchInv, [M!Next]_matchVars PROVE MatchInv'
  OBVIOUS
<1>0. StateOK /\ StateOK'
  BY StateStep DEF MatchInv
<1>1. CASE M!Say
  <2>1. /\ Len(chat) < MaxChat /\ \E m \in M!Messages : chat' = Append(chat, m)
        /\ UNCHANGED <<target, resolver, resolution, reaction>>
    BY <1>1 DEF M!Say
  <2>2. Len(chat') = Len(chat) + 1 /\ Len(chat) \in Nat /\ MaxChat \in Nat
    BY <1>0, <2>1, DutyParameters DEF StateOK, M!MatchParameters
  <2> QED
    BY <1>0, <2>1, <2>2 DEF MatchInv
<1>2. CASE M!Change \/ M!Settle
  <2>1. UNCHANGED <<chat, resolver, resolution, reaction>>
    BY <1>2 DEF M!Change, M!Settle
  <2>2. target'.is = target.is
    <3>1. CASE M!Settle
      BY <1>0, <3>1 DEF M!Settle, StateOK, TargetType
    <3>2. ASSUME NEW asks \in BOOLEAN, target' = [target EXCEPT !.asks = asks, !.edited = "fresh"] PROVE target'.is = target.is
      BY <1>0, <3>2, TargetEdited DEF StateOK
    <3>3. CASE target' = [target EXCEPT !.gone = TRUE] \/ target' = [target EXCEPT !.acked = TRUE]
               \/ target' = [target EXCEPT !.acked = FALSE]
      BY <1>0, <3>3 DEF StateOK, TargetType
    <3> QED
      BY <1>2, <3>1, <3>2, <3>3 DEF M!Change
  <2> QED
    BY <1>0, <2>1, <2>2 DEF MatchInv
<1>3. CASE M!LoadRules
  <2>1. UNCHANGED <<chat, target, reaction>> /\ resolver.pc = "idle"
    BY <1>3 DEF M!LoadRules, M!At
  <2>2. resolution'.matched = {}
    BY <1>3, <2>1 DEF M!LoadRules, M!NoResolution, MatchInv
  <2> QED
    BY <1>0, <2>1, <2>2 DEF MatchInv
<1>4. CASE M!ReadReaction \/ M!ReadContext
  <2>1. UNCHANGED <<chat, target, reaction>> /\ resolver.pc \in {"reaction", "context"}
    BY <1>4 DEF M!ReadReaction, M!ReadContext, M!At
  <2>2. resolution'.matched = {}
    BY <1>4, <2>1 DEF M!ReadReaction, M!ReadContext, M!Found, MatchInv
  <2> QED
    BY <1>0, <2>1, <2>2 DEF MatchInv
<1>5. CASE M!Classify
  <2>1. UNCHANGED <<chat, target, reaction>> /\ resolver' = [resolver EXCEPT !.pc = "record"]
    BY <1>5 DEF M!Classify, M!Found
  <2>2. resolver'.pc = "record" /\ resolver'.length = resolver.length
    BY <1>0, <2>1 DEF StateOK, ResolverType
  <2>3. resolution'.matched \subseteq 1 .. resolver.length
    <3>1. ASSUME NEW a \in M!Answers,
                 IF M!Valid(M!Normalized(a)) THEN M!Found(M!Normalized(a).result, M!Normalized(a).sure, M!Normalized(a).matched, "model")
                                         ELSE M!Found("ambiguous", "low", {}, "model")
          PROVE  resolution'.matched \subseteq 1 .. resolver.length
      <4>1. a.matched \subseteq 1 .. resolver.length
        BY DEF M!Answers
      <4> QED
        BY <3>1, <4>1, AnswerOK DEF M!Found
    <3> QED
      BY <1>5, <3>1 DEF M!Classify, M!Found
  <2> QED
    BY <1>0, <2>1, <2>2, <2>3 DEF MatchInv
<1>6. CASE M!Record
  <2>1. UNCHANGED <<chat, target, resolution>> /\ reaction' \in {"none", "suppress", "defer", "admit", "fail"}
    BY <1>6 DEF M!Record
  <2>2. resolver'.pc = "over" /\ resolver'.length = resolver.length
    BY <1>0, <1>6 DEF M!Record, StateOK, ResolverType
  <2> QED
    BY <1>0, <2>1, <2>2 DEF MatchInv
<1>7. CASE M!Again
  <2>1. UNCHANGED <<chat, target>> /\ reaction' = "none" /\ resolution'.matched = {}
    BY <1>7 DEF M!Again, M!NoResolution
  <2> QED
    BY <1>0, <2>1 DEF MatchInv
<1>8. CASE UNCHANGED matchVars
  BY <1>0, <1>8 DEF matchVars, MatchInv
<1> QED
  BY <1>1, <1>2, <1>3, <1>4, <1>5, <1>6, <1>7, <1>8 DEF M!Next

LEMMA MatchTypes == MatchInv => M!MatchTypeOK
<1> SUFFICES ASSUME MatchInv PROVE M!MatchTypeOK
  OBVIOUS
<1>1. target \in [is : Targets, asks : BOOLEAN, edited : {"no", "fresh", "settled"}, gone : BOOLEAN, acked : BOOLEAN]
  BY ZenonT(60) DEF MatchInv, StateOK, TargetType
<1> QED
  BY <1>1 DEF MatchInv, StateOK, ResolverType, ResolutionType, M!MatchTypeOK

PartInv == part \in {"activity", "resources", "writes", "loop", "match"}
LEMMA PartStep == PartInv /\ [Next]_dutyVars => PartInv'
  BY DEF PartInv, Next, OwnerActivity, Resources, ResourceWrites, ModelLoop, ReplyMatch, dutyVars

\* Each part keeps to its types, and the budgets of a run to their bounds
\* (MaxTurns, MaxToolCalls, MaxTerminalOnlyAttempts), for any values of them.
THEOREM DutiesType == Spec => []TypeOK
<1>1. Spec => []W!WriteTypeOK
  <2>1. Init => W!WriteTypeOK
    BY WriteTypesInit DEF Init
  <2>2. W!WriteTypeOK /\ [Next]_dutyVars => W!WriteTypeOK'
    BY WriteTypesStep, WritesMove
  <2> QED
    BY <2>1, <2>2, PTL DEF Spec
<1>2. Spec => []LoopInv
  <2>1. Init => LoopInv
    BY LoopTypesInit DEF Init
  <2>2. LoopInv /\ [Next]_dutyVars => LoopInv'
    BY LoopTypesStep, LoopMoves
  <2> QED
    BY <2>1, <2>2, PTL DEF Spec
<1>3. Spec => [](MatchInv /\ PartInv)
  <2>1. Init => MatchInv /\ PartInv
    BY MatchInit DEF Init, PartInv
  <2>2. MatchInv /\ PartInv /\ [Next]_dutyVars => (MatchInv /\ PartInv)'
    BY MatchStep, VerdictMoves, PartStep
  <2> QED
    BY <2>1, <2>2, PTL DEF Spec
<1>4. /\ ActivityInv /\ ResourcesOK /\ W!WriteTypeOK /\ LoopInv /\ MatchInv /\ PartInv
      => TypeOK
  <2> SUFFICES ASSUME ActivityInv, ResourcesOK, W!WriteTypeOK, LoopInv, MatchInv, PartInv PROVE TypeOK
    OBVIOUS
  <2>1. A!ActivityTypeOK
    BY ActivityTypes DEF ActivityInv
  <2>2. R!ResourceTypeOK
    <3>1. ASSUME NEW a \in R!Actors PROVE job[a].pc \in Phases
      BY DEF ResourcesOK, JobType
    <3> QED
      BY <3>1 DEF ResourcesOK, R!ResourceTypeOK, Phases
  <2>3. L!LoopTypeOK /\ M!MatchTypeOK
    BY MatchTypes DEF LoopInv
  <2> QED
    BY <2>1, <2>2, <2>3 DEF TypeOK, PartInv
<1> QED
  BY <1>1, <1>2, <1>3, <1>4, ActivityKept, WatchKept, PTL
=============================================================================
