----------------------------- MODULE ReplyMatch -----------------------------
(***************************************************************************)
(* Whether a message to the owner still needs an answer on his behalf      *)
(* (agent/replymatch, and the resolver of agent/cmd around it): what is    *)
(* read of the chat, one thing after the other while the chat goes on, how *)
(* the model's verdict is normalised and validated, and what work is done  *)
(* upon it.  The chat and the model are external: the model may say        *)
(* anything, and the messages are those that came after the target.        *)
(***************************************************************************)
EXTENDS Naturals, Sequences

CONSTANTS
    Targets,      \* what the target is: "private", "group", "handoff"
    MaxChat,      \* bound: messages after the target
    MaxChanges    \* bound: other changes of the chat and of the rules

\* Assumed of the constants by Duties.
MatchParameters == Targets \subseteq {"private", "group", "handoff"} /\ {MaxChat, MaxChanges} \subseteq Nat

VARIABLES
    chat,        \* the messages after the target, in order of time
    target,      \* the target: what it is, whether it asks, what happened to it
    rules,       \* the owner's task rules: off, ready or at fault
    changes,     \* how many changes there were
    resolver,    \* where Resolve is, and what it has read
    resolution,  \* what it found: owner_reply_resolutions
    outcome,     \* what the work does upon it
    since        \* history: what held of the target ever since Resolve began

matchVars == <<chat, target, rules, changes, resolver, resolution, outcome, since>>

\* A message of the owner linked to the target, one that stands alone, or another
\* sender's mention of the owner that stands alone.
Messages == {"linked", "loose", "mention"}
Levels == {"low", "floor", "high"}   \* confidence: below 0.70, enough to suppress, enough to answer
NoResolution == [result |-> "none", sure |-> "low", matched |-> {}, by |-> "none"]
Unread == [pc |-> "idle", rules |-> "off", length |-> 0, asks |-> FALSE]

Init ==
    /\ chat = <<>>
    /\ target \in [is : Targets, asks : BOOLEAN, edited : {"no"}, gone : {FALSE}, acked : {FALSE}]
    /\ target.is = "handoff" => target.asks
    /\ rules \in {"off", "ready"} /\ changes = 0
    /\ resolver = Unread /\ resolution = NoResolution /\ outcome = "none"
    /\ since = [acked |-> FALSE, gone |-> FALSE, fresh |-> FALSE]

-----------------------------------------------------------------------------
(* The chat goes on.                                                         *)

Say ==
    /\ Len(chat) < MaxChat
    /\ \E m \in Messages : chat' = Append(chat, m)
    /\ UNCHANGED <<target, rules, changes, resolver, resolution, outcome, since>>
Change ==
    /\ changes < MaxChanges /\ changes' = changes + 1
    /\ \/ \E asks \in BOOLEAN : target' = [target EXCEPT !.asks = asks, !.edited = "fresh"] /\ UNCHANGED <<rules, since>>
       \/ ~target.gone /\ target' = [target EXCEPT !.gone = TRUE] /\ UNCHANGED <<rules, since>>
       \/ ~target.acked /\ target' = [target EXCEPT !.acked = TRUE] /\ UNCHANGED <<rules, since>>
       \/ /\ target.acked /\ target' = [target EXCEPT !.acked = FALSE]
          /\ since' = [since EXCEPT !.acked = FALSE] /\ UNCHANGED rules
       \/ rules' \in {"off", "ready", "fault"} \ {rules} /\ UNCHANGED <<target, since>>
    /\ UNCHANGED <<chat, resolver, resolution, outcome>>
\* The wait after an edit is over.
Settle ==
    /\ target.edited = "fresh"
    /\ target' = [target EXCEPT !.edited = "settled"] /\ since' = [since EXCEPT !.fresh = FALSE]
    /\ UNCHANGED <<chat, rules, changes, resolver, resolution, outcome>>

-----------------------------------------------------------------------------
(* What Resolve reads.                                                       *)

At(pc) == resolver.pc = pc
Found(result, sure, matched, by) ==
    /\ resolution' = [result |-> result, sure |-> sure, matched |-> matched, by |-> by]
    /\ resolver' = [resolver EXCEPT !.pc = "record"]

\* One snapshot of the rules; rules at fault end the matter.
LoadRules ==
    /\ At("idle")
    /\ since' = [acked |-> target.acked, gone |-> target.gone, fresh |-> target.edited = "fresh"]
    /\ IF rules = "fault"
       THEN resolution' = [NoResolution EXCEPT !.result = "ambiguous", !.sure = "high", !.by = "rules"]
            /\ resolver' = [Unread EXCEPT !.pc = "record", !.rules = rules]
       ELSE resolver' = [Unread EXCEPT !.pc = "reaction", !.rules = rules] /\ UNCHANGED resolution
    /\ UNCHANGED <<chat, target, rules, changes, outcome>>

\* Mutant: reactions that cannot be read count as none.
ReadReactionHopefully ==
    /\ At("reaction")
    /\ \/ resolver' = [resolver EXCEPT !.pc = "context"] /\ UNCHANGED resolution
       \/ target.acked /\ Found("answered", "high", {}, "reaction")
    /\ UNCHANGED <<chat, target, rules, changes, outcome, since>>

\* FindOwnerAckReaction: found, none, or the read failed.
ReadReaction ==
    /\ At("reaction")
    /\ \/ ~target.acked /\ resolver' = [resolver EXCEPT !.pc = "context"] /\ UNCHANGED resolution
       \/ target.acked /\ Found("answered", "high", {}, "reaction")
       \/ Found("ambiguous", "low", {}, "reaction")
    /\ UNCHANGED <<chat, target, rules, changes, outcome, since>>

\* GetSemanticReplyContext, then what the resolver makes of it without the model; a
\* window that does not reach back to the target is incomplete.
ReadContext ==
    /\ At("context")
    /\ \/ target.gone /\ Found("withdrawn", "high", {}, "context")
       \/ ~target.gone /\ target.edited = "fresh" /\ Found("ambiguous", "low", {}, "context")
       \/ ~target.gone /\ target.edited # "fresh" /\ Found("ambiguous", "low", {}, "context")
       \/ /\ ~target.gone /\ target.edited # "fresh"
          /\ resolver' = [resolver EXCEPT !.pc = "classify", !.length = Len(chat), !.asks = target.asks]
          /\ UNCHANGED resolution
       \/ resolver' = Unread /\ UNCHANGED resolution          \* an error: the work is deferred
    /\ UNCHANGED <<chat, target, rules, changes, outcome, since>>

-----------------------------------------------------------------------------
(* The verdict.                                                              *)

Mentions == {i \in 1 .. resolver.length : chat[i] = "mention"}

\* Mutant: the whole chat belongs to the target.
SameChat == 1 .. resolver.length

\* scopeTargetRequest: in a group another sender's mention begins a new segment, and
\* what follows belongs to the target only if it is linked to it.
Scoped ==
    {i \in 1 .. resolver.length :
        target.is = "private" \/ chat[i] = "linked" \/ \A j \in Mentions : i < j}
OwnerMessages == {i \in Scoped : chat[i] \in {"linked", "loose"}}

\* What the model answers: a verdict, the messages it names, and what its own words
\* read as: a request, a quotation of the rules, or the update of a status.
Answers == [result : {"answered", "unanswered", "no_reply_needed", "ambiguous"}, sure : Levels,
            matched : SUBSET (1 .. resolver.length), words : {"plain", "request", "rule", "status"}]

Explicit(a) == resolver.asks \/ a.words = "request"                    \* hasExplicitResponseObligation
Ruled(a) == a.words = "rule" /\ resolver.rules = "ready"             \* hasTaskRuleObligation

\* normalizeTargetDirection: without an obligation a verdict comes to "no reply needed".
Kept(a) ==
    \/ Explicit(a) \/ (a.result = "unanswered" /\ (Ruled(a) \/ a.words = "status"))
    \/ a.result = "answered" /\ a.matched # {} /\ a.sure # "low"
Normalized(a) ==
    IF Kept(a) THEN a
    ELSE [a EXCEPT !.result = "no_reply_needed", !.sure = IF @ = "high" THEN "high" ELSE "floor"]

\* validateResolution, besides the form of the answer.
Valid(a) ==
    /\ a.matched \subseteq OwnerMessages
    /\ a.result = "answered" => a.matched # {}
    /\ a.result = "unanswered" => a.matched = {} /\ (Explicit(a) \/ Ruled(a))
    /\ a.result = "no_reply_needed" => ~Explicit(a)

\* deterministicStatusHandoffFallback: without the model, a handoff of a linked record
\* needs an answer unless the owner replied to it.
Fallback == target.is = "handoff" /\ resolver.asks /\ \A i \in OwnerMessages : chat[i] # "linked"

Classify ==
    /\ At("classify")
    /\ \/ \E a \in Answers :
            LET r == Normalized(a)
            IN  IF Valid(r) THEN Found(r.result, r.sure, r.matched, "model") ELSE Found("ambiguous", "low", {}, "model")
       \/ IF Fallback THEN Found("unanswered", "high", {}, "fallback") ELSE Found("ambiguous", "low", {}, "model")
    /\ UNCHANGED <<chat, target, rules, changes, outcome, since>>

\* semanticSuppressesDelegatedReply.
Suppresses(r) ==
    /\ r.sure \in {"floor", "high"}
    /\ \/ r.result = "answered" /\ (r.matched # {} \/ r.by = "reaction")
       \/ r.result \in {"no_reply_needed", "withdrawn"}

\* The row is written, or the write fails; then the work ends without an answer, waits
\* to be looked at again, or goes on to answer.
Record ==
    /\ At("record")
    /\ outcome' \in {IF resolution.by = "rules" THEN "fail"
                     ELSE IF Suppresses(resolution) THEN "suppress"
                     ELSE IF resolution.sure # "high" \/ resolution.result # "unanswered" THEN "defer"
                     ELSE "admit", "defer"}
    /\ resolver' = [resolver EXCEPT !.pc = "over"]
    /\ UNCHANGED <<chat, target, rules, changes, resolution, since>>

\* The work is claimed again, or its draft is about to be sent.
Again ==
    /\ At("over") /\ outcome \in {"defer", "admit"}
    /\ resolver' = Unread /\ resolution' = NoResolution /\ outcome' = "none"
    /\ UNCHANGED <<chat, target, rules, changes, since>>

Next == Say \/ Change \/ Settle \/ LoadRules \/ ReadReaction \/ ReadContext \/ Classify \/ Record \/ Again

Spec == Init /\ [][Next]_matchVars

-----------------------------------------------------------------------------
(* Properties.                                                               *)

MatchTypeOK ==
    /\ chat \in Seq(Messages) /\ Len(chat) <= MaxChat
    /\ target \in [is : Targets, asks : BOOLEAN, edited : {"no", "fresh", "settled"}, gone : BOOLEAN, acked : BOOLEAN]
    /\ resolver.pc \in {"idle", "reaction", "context", "classify", "record", "over"}
    /\ resolution.sure \in Levels /\ resolution.matched \subseteq 1 .. resolver.length
    /\ outcome \in {"none", "suppress", "defer", "admit", "fail"}

\* A message that asks for something is left unanswered only because the owner
\* reacted to it or said something in its own part of the chat, whatever the model
\* claims: what the owner said in a conversation that somebody else began later
\* silences nothing (scopeTargetRequest, validateResolution).
SilencedForCause ==
    (outcome = "suppress" /\ resolution.by = "model" /\ resolver.asks) =>
        \E i \in resolution.matched :
            /\ chat[i] # "mention"
            /\ target.is = "private" \/ chat[i] = "linked" \/ \A j \in 1 .. i : chat[j] # "mention"

\* Nothing is answered that, from the first read of the resolution to its outcome,
\* was withdrawn, acknowledged by the owner's reaction or freshly edited, although
\* each of the reads may fail.
AdmittedOnlyIfOpen == outcome = "admit" => ~since.acked /\ ~since.gone /\ ~since.fresh
=============================================================================
