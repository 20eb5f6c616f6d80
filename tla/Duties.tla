------------------------------- MODULE Duties -------------------------------
(***************************************************************************)
(* Five duties of the daemon: the reaction on a request, the watch of      *)
(* resources, the writes to them, the model's runs and the verdict on      *)
(* whether a message was answered.  They share no row and no variable, so  *)
(* what one of them may do does not depend on how far another is: a        *)
(* behaviour here is one of one part, chosen at the start, and the other   *)
(* parts rest in an initial state.                                         *)
(***************************************************************************)
EXTENDS Naturals, Sequences, FiniteSets

CONSTANTS
    Requests, Workers, MaxAttempts, MaxCrashes,
    MaxBase, Configured, MaxTold, EditedTo, MaxEdits, MaxStarts, MaxFailures,
    Runs, MaxWrites,
    Kinds, MaxTurns, MaxToolCalls, MaxRepeatedCalls, MaxNoProgress, MaxTerminalOnlyAttempts, MaxVersions,
    Targets, MaxChat, MaxChanges

VARIABLES
    part,  \* the duty that this behaviour is about
    request, activity, shown, worker, crashes, unheard,
    base, sub, evidence, handed, news, job, stage, spent, baseline, orphaned,
    action, writeMode, caller, field, starts, writes,
    kind, pc, turn, limit, mode, toolCalls, closed, attempts, granted, streak, same, gain, tried, plan,
    found, version, allowed, authoritative, outcome, cited, own, seen, lacked, again,
    chat, target, rules, changes, resolver, resolution, reaction, since

A == INSTANCE OwnerActivity
R == INSTANCE Resources
W == INSTANCE ResourceWrites WITH mode <- writeMode
L == INSTANCE ModelLoop
M == INSTANCE ReplyMatch WITH outcome <- reaction

ASSUME DutyParameters ==
    /\ A!ActivityParameters /\ R!ResourceParameters /\ W!WriteParameters
    /\ L!LoopParameters /\ M!MatchParameters

activityVars == <<request, activity, shown, worker, crashes, unheard>>
resourceVars == <<base, sub, evidence, handed, news, job, stage, spent, baseline, orphaned>>
writeVars == <<action, writeMode, caller, field, starts, writes>>
loopVars == <<kind, pc, turn, limit, mode, toolCalls, closed, attempts, granted, streak, same, gain, tried, plan,
              found, version, allowed, authoritative, outcome, cited, own, seen, lacked, again>>
matchVars == <<chat, target, rules, changes, resolver, resolution, reaction, since>>
dutyVars == <<part, activityVars, resourceVars, writeVars, loopVars, matchVars>>

Init ==
    /\ part \in {"activity", "resources", "writes", "loop", "match"}
    /\ A!Init /\ R!Init /\ W!Init /\ L!Init /\ M!Init
    /\ part # "writes" => writeMode = "auto"
    /\ part # "loop" => kind = (CHOOSE k \in Kinds : TRUE) /\ allowed = {}
    /\ part # "match" => target.is = (CHOOSE t \in Targets : TRUE) /\ target.asks /\ rules = "off"

OwnerActivity ==
    /\ part = "activity" /\ A!Next
    /\ UNCHANGED <<part, resourceVars, writeVars, loopVars, matchVars>>
Resources ==
    /\ part = "resources" /\ R!Next
    /\ UNCHANGED <<part, activityVars, writeVars, loopVars, matchVars>>
ResourceWrites ==
    /\ part = "writes" /\ W!Next
    /\ UNCHANGED <<part, activityVars, resourceVars, loopVars, matchVars>>
ModelLoop ==
    /\ part = "loop" /\ L!LoopStep
    /\ UNCHANGED <<part, activityVars, resourceVars, writeVars, matchVars>>
ReplyMatch ==
    /\ part = "match" /\ M!Next
    /\ UNCHANGED <<part, activityVars, resourceVars, writeVars, loopVars>>

Next == OwnerActivity \/ Resources \/ ResourceWrites \/ ModelLoop \/ ReplyMatch

\* The fairness of each part, of its own steps while it is the one that runs.
Fairness ==
    /\ \A w \in Workers : WF_activityVars(part = "activity" /\ A!RunStep(w))
    /\ \A i \in Requests :
         SF_activityVars(part = "activity" /\ \E w \in Workers : worker[w].on = i /\ A!Removed(w))
    /\ \A i \in Requests : WF_activityVars(part = "activity" /\ A!Age(i))
    /\ WF_resourceVars(part = "resources" /\ R!Step("loop")) /\ WF_resourceVars(part = "resources" /\ R!Loop)
    /\ WF_resourceVars(part = "resources" /\ (R!Step("stream") \/ R!ReadRecord))
    /\ SF_resourceVars(part = "resources" /\ R!Poll)

Spec == Init /\ [][Next]_dutyVars /\ Fairness

-----------------------------------------------------------------------------
(* Properties, each stated in the module of its part.                        *)

\* The type invariants of the parts.
TypeOK ==
    CASE part = "activity" -> A!ActivityTypeOK
      [] part = "resources" -> R!ResourceTypeOK
      [] part = "writes" -> W!WriteTypeOK
      [] part = "loop" -> L!LoopTypeOK
      [] part = "match" -> M!MatchTypeOK

\* No interleaving of a run's end, the clean-up and another run forgets a reaction.
NoneForgotten == A!NoneForgotten
\* A recorded reaction is removed in the end.
RecordedIsRemoved == A!RecordedIsRemoved

\* One content of a record is reconciled into one handoff.
ReconciledOnce == R!ReconciledOnce
\* What stood in a Base when it was first reconciled is no handoff of a later pass,
\* unless an event had told of it.
BaselineIsSilent == R!BaselineIsSilent
\* A record that names the owner and stays so is heard of, whatever events were lost.
OwnerHears == R!OwnerHears

\* One exact request to write to a resource is carried out at most once.
WrittenOnce == W!WrittenOnce

\* A run that a budget has closed stays closed and executes no tool any more.
ClosedStaysClosed == L!ClosedStaysClosed
\* A decision never cites what a file said before this run changed it.
NothingOutdatedCited == L!NothingOutdatedCited
\* A decision that failed only by its wording may be submitted once more.
CorrectionIsOffered == L!CorrectionIsOffered
\* A handoff looks into the project and writes only on evidence that it has found.
CallsRestOnEvidence == L!CallsRestOnEvidence

\* A message that asks for something is left unanswered only because the owner
\* reacted to it or said something in its own part of the chat.
SilencedForCause == M!SilencedForCause
\* Nothing is answered that was withdrawn, acknowledged or freshly edited all along.
AdmittedOnlyIfOpen == M!AdmittedOnlyIfOpen
=============================================================================
