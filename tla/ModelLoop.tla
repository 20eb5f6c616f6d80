----------------------------- MODULE ModelLoop -----------------------------
(***************************************************************************)
(* One run of the model over a work item (agent/runtime/loop.go, Decide):  *)
(* the turns, the budgets of turns, tool calls, repeats and terminal       *)
(* attempts that close an investigation, the evidence a decision may cite  *)
(* and what a resource handoff must have read before it writes.  The       *)
(* model's messages and the results of the tools are external; one file    *)
(* of the workspace, by version, stands for all of them.                   *)
(***************************************************************************)
EXTENDS Naturals, FiniteSets

CONSTANTS
    Kinds,              \* work kinds: "coding_question", "resource_handoff"
    MaxTurns,           \* turns of each kind of work (maxTurnsForWorkKind)
    MaxToolCalls,       \* successful calls before only a decision is accepted
    MaxRepeatedCalls,   \* equal results before the run is closed
    MaxNoProgress,      \* turns without progress before the run is closed
    MaxTerminalOnlyAttempts,
    MaxVersions         \* bound: versions of the file

\* Assumed of the constants by Duties.
LoopParameters ==
    /\ {MaxToolCalls, MaxRepeatedCalls, MaxNoProgress, MaxTerminalOnlyAttempts} \subseteq Nat \ {0}
    /\ MaxTurns \in [Kinds -> Nat \ {0}] /\ MaxVersions \in Nat

VARIABLES
    kind,       \* the kind of the work item
    pc,         \* "turn", "model", "calls", "finalizer" or "ended"
    turn,       \* the turn, from 0
    limit,      \* l.MaxTurns: one more after the first grounding rejection
    mode,       \* what this turn offers the model
    toolCalls,  \* successful calls that count
    closed,     \* forceDecision
    attempts,   \* terminalOnlyAttempts
    granted,    \* groundingCorrectionGranted
    streak,     \* noProgressStreak
    same,       \* the count of the most repeated fingerprint
    gain,       \* this turn: no call yet, "idle" calls only, or progress "made"
    tried,      \* this turn: the one call of a structural recovery was made
    plan,       \* the steps of a coding investigation that have been taken
    found,      \* resourceHandoffProgress
    version,    \* the file in the workspace
    allowed,    \* versions of the file that a decision may cite
    authoritative,  \* those of them that read_workspace returned
    outcome,    \* how the run ended
    cited,      \* what the accepted decision cites
    own,        \* history: the version this run wrote last
    seen,       \* history: evidence found at the latest look; code and tests in any read
    lacked,     \* history: what an executed call of a handoff rested on and had not been seen
    again       \* history: a decision could be submitted after the first grounding rejection

budgetVars == <<limit, toolCalls, closed, attempts, granted, streak, same>>
fileVars == <<version, allowed, authoritative, own>>
handoffVars == <<found, seen, lacked>>
endVars == <<outcome, cited>>
loopVars == <<kind, pc, turn, mode, gain, tried, plan, again, budgetVars, fileVars, handoffVars, endVars>>

Outcomes == {"none", "decided", "finalized", "failed", "turns", "nonconvergence"}
Evidence == {"get_resource_evidence", "inspect_base_schema", "read_workspace_rules", "inspect_git_history"}
Reads == {"read_workspace", "read_tests"}  \* one tool: production code or tests
ProjectEvidence == Reads \cup {"inspect_git_history"}
Writes == {"update_base_status", "reply_resource_comment"}
Edits == {"edit_workspace"}
Coding == kind = "coding_question"
Tools == IF Coding THEN {"submit_investigation_plan", "search_workspace", "read_workspace"} \cup Edits
                   ELSE Evidence \cup Reads \cup Writes

\* The sources in the bundle may already hold the file.
Init ==
    /\ kind \in Kinds /\ pc = "turn" /\ turn = 0 /\ limit = MaxTurns[kind] /\ mode = "open"
    /\ toolCalls = 0 /\ closed = FALSE /\ attempts = 0 /\ granted = FALSE /\ streak = 0 /\ same = 0
    /\ gain = "none" /\ tried = FALSE /\ plan = {} /\ found = {}
    /\ version = 0 /\ allowed \in SUBSET {0} /\ authoritative = {}
    /\ outcome = "none" /\ cited = {} /\ own = 0 /\ seen = {} /\ lacked = {} /\ again = FALSE

-----------------------------------------------------------------------------
(* The start of a turn.                                                      *)

RemainingTurns == limit - (turn + 1)
RemainingToolCalls == MaxToolCalls - toolCalls
OutOfTurns == RemainingTurns <= 0

\* A read or search that recovers a missing structural fact: opaque says that the
\* sources read so far hide the structure, named that a field name can be searched.
ReadRecovery(opaque) ==
    /\ opaque /\ ~closed /\ ~OutOfTurns /\ RemainingToolCalls > 0
    /\ "candidates" \in plan /\ "recovery_read" \notin plan
SearchRecovery(opaque, named) ==
    /\ opaque /\ named /\ ~closed /\ ~ReadRecovery(opaque) /\ "recovery_search" \notin plan
    /\ RemainingTurns >= 2 /\ RemainingToolCalls >= 2
Completion(opaque) ==
    opaque /\ ~closed /\ RemainingTurns = 1 /\ RemainingToolCalls > 0 /\ ~ReadRecovery(opaque)

\* With production evidence at hand the last two turns are for the decision.
EvidenceCloses(opaque) ==
    /\ Coding /\ "evidence" \in plan /\ RemainingTurns <= 1
    /\ ~ReadRecovery(opaque) /\ ~Completion(opaque)
Closes(opaque) == closed \/ OutOfTurns \/ EvidenceCloses(opaque) \/ toolCalls >= MaxToolCalls

\* Mutant: the correction turn is granted, the attempt it needs is not.
AttemptsOnly == MaxTerminalOnlyAttempts
AttemptLimit == IF granted THEN MaxTerminalOnlyAttempts + 1 ELSE MaxTerminalOnlyAttempts

StartTurn ==
    /\ pc = "turn" /\ turn < limit
    /\ \E opaque \in (IF Coding /\ "evidence" \in plan THEN BOOLEAN ELSE {FALSE}), named \in BOOLEAN :
         /\ closed' = Closes(opaque)
         /\ mode' = IF Closes(opaque) THEN "submit"
                    ELSE IF SearchRecovery(opaque, named) THEN "search"
                    ELSE IF ReadRecovery(opaque) THEN "read"
                    ELSE IF Completion(opaque) THEN "complete" ELSE "open"
         /\ IF ~Closes(opaque) THEN pc' = "model" /\ UNCHANGED <<attempts, again>>
            ELSE IF attempts >= AttemptLimit THEN pc' = "finalizer" /\ UNCHANGED <<attempts, again>>
            ELSE pc' = "model" /\ attempts' = attempts + 1 /\ again' = granted
    /\ gain' = "none" /\ tried' = FALSE
    /\ UNCHANGED <<kind, turn, plan, limit, toolCalls, granted, streak, same, fileVars, handoffVars, endVars>>

\* "agent loop exceeded maximum turns"
ExceedTurns ==
    /\ pc = "turn" /\ turn >= limit
    /\ pc' = "ended" /\ outcome' = "turns"
    /\ UNCHANGED <<kind, turn, mode, gain, tried, plan, again, budgetVars, fileVars, handoffVars, cited>>

\* The deadline, the context limit, the model, a record of a step, a message that
\* mixes a decision with other calls or has a call without id or name.
FailRun ==
    /\ pc \in {"turn", "model", "calls"}
    /\ pc' = "ended" /\ outcome' = "failed"
    /\ UNCHANGED <<kind, turn, mode, gain, tried, plan, again, budgetVars, fileVars, handoffVars, cited>>

\* Plain text, or calls cut off at the output limit: nothing runs, the turn is spent.
NoCalls ==
    /\ pc = "model" /\ pc' = "turn" /\ turn' = turn + 1
    /\ UNCHANGED <<kind, mode, gain, tried, plan, again, budgetVars, fileVars, handoffVars, endVars>>

Calls ==
    /\ pc = "model" /\ pc' = "calls"
    /\ UNCHANGED <<kind, turn, mode, gain, tried, plan, again, budgetVars, fileVars, handoffVars, endVars>>

-----------------------------------------------------------------------------
(* The calls of one message, in order.                                       *)

\* The fingerprint of the call is new, or one that was seen before.
Repeats(n) == n \in {IF same = 0 THEN 1 ELSE same, same + 1}
Closing(n) == n >= MaxRepeatedCalls \/ n >= MaxNoProgress
Observe(n, closing, progress) ==
    /\ same' = IF Closing(n) THEN same ELSE n
    /\ closed' = (closed \/ closing \/ Closing(n))
    /\ gain' = IF progress \/ gain = "made" THEN "made" ELSE "idle"

Recovering == mode \in {"search", "read", "complete"}
Offered == IF mode = "open" THEN Tools
           ELSE IF mode = "search" THEN {"search_workspace"}
           ELSE IF mode \in {"read", "complete"} THEN {"read_workspace"} ELSE {}

\* Mutant: what this turn offered is checked, not what an earlier call of it closed.
OpenInTurn(t) ==
    /\ t \in Offered /\ ~tried
    /\ toolCalls < MaxToolCalls
    /\ (Coding /\ t = "search_workspace" /\ mode # "search") => "plan" \in plan

\* The guards before a tool other than submit_decision is executed.
Open(t) ==
    /\ t \in Offered /\ ~tried
    /\ ~closed /\ toolCalls < MaxToolCalls
    /\ (Coding /\ t = "search_workspace" /\ mode # "search") => "plan" \in plan

\* ValidateMutation: resource handoffs only.
Required(t) ==
    IF t = "update_base_status" THEN Evidence \cup Reads
    ELSE IF t = "reply_resource_comment" THEN (Evidence \ {"inspect_base_schema"}) \cup Reads
    ELSE IF t \in ProjectEvidence THEN {"read_workspace_rules"} ELSE {}
Permitted(t) == Coding \/ Required(t) \subseteq found

\* Mutant: a look that found something counts for good.
ObservedOnce(t, some) == IF some THEN found \cup {t} ELSE found
\* resourceHandoffProgress.Observe: the schema and the reads are never taken back.
Observed(t, some) ==
    IF some \/ t = "inspect_base_schema" THEN found \cup {t}
    ELSE IF t \in Reads THEN found ELSE found \ {t}

\* A call that is refused or whose tool fails.  Evidence that the bot may not read
\* closes the run, as does a call beyond the budget.
RefusedCall(t) ==
    /\ pc = "calls"
    /\ \E n \in 1 .. same + 1, denied \in BOOLEAN :
         /\ Repeats(n)
         /\ denied => ~Coding /\ t = "get_resource_evidence" /\ t \notin found /\ Open(t)
         /\ Observe(n, denied \/ (t \in Offered /\ toolCalls >= MaxToolCalls), FALSE)
    /\ tried' = (tried \/ (Recovering /\ t \in Offered))
    /\ UNCHANGED <<kind, pc, turn, mode, plan, again, limit, toolCalls, attempts, granted, streak,
                   fileVars, handoffVars, endVars>>

\* What a successful call counts for; the same answer as the last call is no progress.
Counted(t, closing) ==
    /\ pc = "calls" /\ Open(t) /\ Permitted(t)
    /\ toolCalls' = IF t = "submit_investigation_plan" THEN toolCalls ELSE toolCalls + 1
    /\ tried' = Recovering
    /\ \E n \in 1 .. same + 1, progress \in BOOLEAN : Repeats(n) /\ Observe(n, closing, progress)
    /\ UNCHANGED <<kind, pc, turn, mode, again, limit, attempts, granted, streak, endVars>>

SubmitPlan ==
    /\ Coding /\ Counted("submit_investigation_plan", FALSE)
    /\ plan' = plan \cup {"plan"}
    /\ UNCHANGED <<fileVars, handoffVars>>
SearchWorkspace ==
    /\ Coding /\ Counted("search_workspace", FALSE)
    /\ \E some \in BOOLEAN :
         plan' = IF mode # "search" THEN plan
                 ELSE (IF some THEN plan \cup {"candidates"} ELSE plan \ {"candidates"}) \cup {"recovery_search"}
    /\ UNCHANGED <<fileVars, handoffVars>>

\* read_workspace: production code is evidence for a definite claim about code.
ReadFile ==
    /\ \E production \in BOOLEAN :
         /\ Coding /\ Counted("read_workspace", production /\ RemainingTurns <= 1)
         /\ allowed' = allowed \cup {version}
         /\ authoritative' = IF production THEN authoritative \cup {version} ELSE authoritative
         /\ plan' = plan \cup (IF production THEN {"evidence"} ELSE {})
                         \cup (IF mode = "read" THEN {"recovery_read"} ELSE {})
    /\ UNCHANGED <<version, own, handoffVars>>

\* Mutant: only what makes a definite claim is withdrawn.
WithdrawReads == allowed
\* invalidateWorkspaceFileSources: nothing of the file may be cited.
Withdraw == {}

\* edit_workspace or write_workspace, or its request for an approval: what was seen
\* of the file is withdrawn, and the result of the edit may be cited.
EditFile ==
    /\ Coding /\ version < MaxVersions /\ Counted("edit_workspace", FALSE)
    /\ authoritative' = {}
    /\ \/ version' = version + 1 /\ own' = version + 1 /\ allowed' = Withdraw \cup {version + 1}
       \/ allowed' = Withdraw /\ UNCHANGED <<version, own>>
    /\ UNCHANGED <<plan, handoffVars>>

\* What a call rests on by docs/operations.md:333-340: a look into the project on the
\* rules, a write on everything, a reply on all of it but the fields of the base.
Basis(t) ==
    IF t \in Writes THEN {e \in Evidence \cup Reads : e = "inspect_base_schema" => t = "update_base_status"}
    ELSE IF t \in ProjectEvidence THEN {"read_workspace_rules"} ELSE {}

\* A call of a handoff: a look at the linked record, the schema, the rules, the code,
\* the tests or the history, or a write to the resource.  A look finds what it names
\* as sources; that inspect_git_history never names one is among its outcomes here.
HandoffCall(t) ==
    /\ ~Coding /\ t \in Evidence \cup Reads \cup Writes /\ Counted(t, FALSE)
    /\ lacked' = lacked \cup (Basis(t) \ seen)
    /\ IF t \in Writes THEN UNCHANGED <<found, seen>>
       ELSE \E some \in (IF t = "inspect_base_schema" THEN {TRUE} ELSE BOOLEAN) :
              /\ found' = Observed(t, some)
              /\ seen' = (seen \ ({t} \ Reads)) \cup (IF some THEN {t} ELSE {})
    /\ UNCHANGED <<plan, fileVars>>

\* canonicalizeDecisionSources: an outdated digest stands for the only one seen.
Canonical(v) == IF v \notin allowed /\ Cardinality(allowed) = 1 THEN CHOOSE a \in allowed : TRUE ELSE v

\* Mutant: the rejection that finds the grounding at fault grants one turn each time.
EachTime == limit + 1
Extended == IF granted THEN limit ELSE limit + 1

Accept(sources) ==
    /\ pc' = "ended"
    /\ \/ outcome' = "decided" /\ cited' = sources
       \/ outcome' = "failed" /\ UNCHANGED cited   \* FinishAgentRun
    /\ UNCHANGED <<limit, granted, same, closed, gain>>
Reject(closing) ==
    /\ \E n \in 1 .. same + 1 : Repeats(n) /\ Observe(n, closing, FALSE)
    /\ UNCHANGED <<pc, endVars>>

\* The only call of its message.  A definite claim about code needs a current read.
SubmitDecision ==
    /\ pc = "calls" /\ gain = "none"
    /\ \E named \in SUBSET (0 .. version), sound \in BOOLEAN, definite \in BOOLEAN, grounded \in BOOLEAN :
         LET sources == {Canonical(v) : v \in named}
             backed == (Coding /\ definite) => sources \cap authoritative # {}
         IN  IF ~(sound /\ ~Recovering /\ sources \subseteq allowed /\ backed) THEN Reject(FALSE) /\ UNCHANGED <<limit, granted>>
             ELSE IF definite /\ ~grounded THEN Reject(TRUE) /\ limit' = Extended /\ granted' = TRUE
             ELSE Accept(sources)
    /\ UNCHANGED <<kind, turn, mode, tried, plan, again, toolCalls, attempts, streak, fileVars, handoffVars>>

EndTurn ==
    /\ pc = "calls" /\ gain # "none"
    /\ pc' = "turn" /\ turn' = turn + 1
    /\ streak' = IF gain = "made" THEN 0 ELSE streak + 1
    /\ closed' = (closed \/ streak' >= MaxNoProgress)
    /\ UNCHANGED <<kind, mode, gain, tried, plan, again, limit, toolCalls, attempts, granted, same,
                   fileVars, handoffVars, endVars>>

\* runTerminalFinalizer: one answer without tools, held to the same checks.
Finalize ==
    /\ pc = "finalizer" /\ pc' = "ended"
    /\ \/ outcome' = "nonconvergence" /\ UNCHANGED cited
       \/ outcome' = "failed" /\ UNCHANGED cited
       \/ \E named \in SUBSET (0 .. version), definite \in BOOLEAN :
            LET sources == {Canonical(v) : v \in named}
            IN  /\ sources \subseteq allowed
                /\ (Coding /\ definite) => sources \cap authoritative # {}
                /\ outcome' = "finalized" /\ cited' = sources
    /\ UNCHANGED <<kind, turn, mode, gain, tried, plan, again, budgetVars, fileVars, handoffVars>>

\* Another run, a shell command or the owner changes the file.
OthersEdit ==
    /\ Coding /\ pc \notin {"ended"} /\ version < MaxVersions /\ version' = version + 1
    /\ UNCHANGED <<kind, pc, turn, mode, gain, tried, plan, again, budgetVars, allowed, authoritative, own,
                   handoffVars, endVars>>

LoopStep ==
    \/ StartTurn \/ ExceedTurns \/ FailRun \/ NoCalls \/ Calls \/ SubmitPlan \/ SearchWorkspace
    \/ ReadFile \/ EditFile \/ SubmitDecision \/ EndTurn \/ Finalize \/ OthersEdit
    \/ \E t \in Tools : RefusedCall(t)
    \/ \E t \in Evidence \cup Reads \cup Writes : HandoffCall(t)
Done == pc = "ended" /\ UNCHANGED loopVars
Next == LoopStep \/ Done

Spec == Init /\ [][Next]_loopVars

-----------------------------------------------------------------------------
(* Properties.                                                               *)

LoopTypeOK ==
    /\ kind \in Kinds /\ pc \in {"turn", "model", "calls", "finalizer", "ended"}
    /\ turn \in 0 .. limit /\ limit \in MaxTurns[kind] .. MaxTurns[kind] + 1
    /\ mode \in {"open", "search", "read", "complete", "submit"} /\ gain \in {"none", "idle", "made"}
    /\ toolCalls \in 0 .. MaxToolCalls
    /\ attempts \in 0 .. MaxTerminalOnlyAttempts + 1
    /\ {closed, granted, tried, again} \subseteq BOOLEAN
    /\ version \in 0 .. MaxVersions /\ allowed \subseteq 0 .. version /\ authoritative \subseteq allowed
    /\ found \subseteq Evidence \cup Reads /\ outcome \in Outcomes

\* Once a budget has closed the investigation it stays closed, and no tool runs any
\* more, the remaining calls of the message that closed it included.
ClosedStaysClosed ==
    [][closed => closed' /\ UNCHANGED <<toolCalls, plan, own, allowed, authoritative, found, lacked>>]_loopVars

\* A decision never cites what the file said before this run itself changed it,
\* in whatever order the reads and the edits came.
NothingOutdatedCited == \A v \in cited : v >= own

\* A run whose decision failed only by its wording gets to submit once more before
\* it is given up, however few turns and attempts were left.
CorrectionIsOffered ==
    (granted /\ outcome \in {"turns", "finalized", "nonconvergence"}) => again

\* A handoff looks into the project, and writes to a resource, only when it has found
\* everything the call rests on: the record, the rules and the history when it last
\* looked at them, the code and the tests in some read, and the schema once looked up.
CallsRestOnEvidence == lacked = {}
=============================================================================
