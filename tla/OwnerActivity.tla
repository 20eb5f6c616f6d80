--------------------------- MODULE OwnerActivity ---------------------------
(***************************************************************************)
(* The keyboard reaction on a request while the assistant works on it      *)
(* (agent/feedback): added when a worker begins, removed when it ends, and *)
(* removed by the next run of any worker where that failed.  The row of    *)
(* the reaction, the reaction at Lark and the work item change one by one. *)
(***************************************************************************)
EXTENDS Naturals, FiniteSets

CONSTANTS
    Requests,      \* work items that ask the assistant for something
    Workers,       \* scheduler lanes, each a loop over RunOnce
    MaxAttempts,   \* bound: runs of one work item
    MaxCrashes     \* bound: deaths of the process

\* Assumed of the constants by Duties.
ActivityParameters == MaxAttempts \in Nat \ {0} /\ MaxCrashes \in Nat /\ IsFiniteSet(Requests)

VARIABLES
    request,   \* work_items: status, runs so far
    activity,  \* owner_activity rows, one per request, ids in the order of insertion
    shown,     \* the reactions on the request's message at Lark
    worker,    \* each worker: where it is, on which request, with which reaction
    crashes,   \* how often the process died
    unheard    \* history: reactions whose creation the process never heard of

activityVars == <<request, activity, shown, worker, crashes, unheard>>

Nothing == 0                                  \* no reaction id
Reactions == 1 .. MaxAttempts
Rested == [pc |-> "clean", on |-> "none", reaction |-> Nothing]

Init ==
    /\ request = [i \in Requests |-> [status |-> "queued", attempts |-> 0]]
    /\ activity = [i \in Requests |-> [status |-> "none", id |-> 0, reaction |-> Nothing, fresh |-> FALSE]]
    /\ shown = [i \in Requests |-> {}]
    /\ worker = [w \in Workers |-> Rested]
    /\ crashes = 0
    /\ unheard = [i \in Requests |-> {}]

At(w, pc) == worker[w].pc = pc
Move(w, pc) == worker' = [worker EXCEPT ![w].pc = pc]
Write(i, status, reaction) ==
    activity' = [activity EXCEPT ![i] = [@ EXCEPT !.status = status, !.reaction = reaction, !.fresh = TRUE]]

\* Mutant: whether the row is still executing is not looked at, nor the outcome.
CloseBlindly(i, reaction, deleted) == Write(i, "completed", reaction)

\* CompleteOwnerActivity: an executing row only.
Close(i, reaction, deleted) ==
    IF activity[i].status = "executing"
    THEN Write(i, IF deleted THEN "completed" ELSE "blocked", reaction)
    ELSE UNCHANGED activity

-----------------------------------------------------------------------------
(* Cleaning up, at the start of every run.                                   *)

Over == {"completed", "dead", "parked"}

\* Mutant: a row is left to its work item, whether that ended or not.
BlockedOnly(i) == ~activity[i].fresh /\ activity[i].status = "blocked"

Claimable(i) ==
    /\ ~activity[i].fresh
    /\ activity[i].status = "blocked" \/ (activity[i].status = "executing" /\ request[i].status \in Over)

\* ClaimOwnerActivityCleanup: the oldest row, or an error if it names no reaction.
Clean(w) ==
    /\ At(w, "clean")
    /\ LET waiting == {i \in Requests : Claimable(i)}
           oldest == CHOOSE i \in waiting : \A j \in waiting : activity[i].id <= activity[j].id
       IN  IF waiting = {} \/ activity[oldest].reaction = Nothing
           THEN Move(w, "claim") /\ UNCHANGED activity
           ELSE /\ Write(oldest, "executing", activity[oldest].reaction)
                /\ worker' = [worker EXCEPT ![w] =
                     [pc |-> "cleaning", on |-> oldest, reaction |-> activity[oldest].reaction]]
    /\ UNCHANGED <<request, shown, crashes, unheard>>

-----------------------------------------------------------------------------
(* A run over one request.                                                   *)

ClaimRequest(w) ==
    /\ At(w, "claim")
    /\ \E i \in Requests :
         /\ request[i].status = "queued"
         /\ request' = [request EXCEPT ![i] = [status |-> "working", attempts |-> @.attempts + 1]]
         /\ worker' = [worker EXCEPT ![w] = [pc |-> "begin", on |-> i, reaction |-> Nothing]]
    /\ UNCHANGED <<activity, shown, crashes, unheard>>
NothingToDo(w) ==
    /\ At(w, "claim") /\ (\A i \in Requests : request[i].status # "queued")
    /\ worker' = [worker EXCEPT ![w] = Rested]
    /\ UNCHANGED <<request, activity, shown, crashes, unheard>>

\* BeginOwnerActivity: a reaction is shown once, and one that is known is kept.
Begin(w) ==
    /\ At(w, "begin")
    /\ LET i == worker[w].on
           row == activity[i]
       IN  \/ /\ row.status = "none"
              /\ activity' = [activity EXCEPT ![i] = [status |-> "executing", reaction |-> Nothing, fresh |-> TRUE,
                                id |-> 1 + Cardinality({j \in Requests : activity[j].status # "none"})]]
              /\ Move(w, "create")
           \/ row.status = "completed" /\ Move(w, "work") /\ UNCHANGED activity
           \/ /\ row.status \in {"executing", "blocked"}
              /\ Write(i, "executing", row.reaction)
              /\ worker' = [worker EXCEPT ![w].reaction = row.reaction,
                              ![w].pc = IF row.reaction = Nothing THEN "create" ELSE "work"]
    /\ UNCHANGED <<request, shown, crashes, unheard>>

\* CreateReactionAsBot: created, refused, or created and not heard of.
Create(w) ==
    /\ At(w, "create")
    /\ LET i == worker[w].on
           new == request[i].attempts
       IN  \/ /\ shown' = [shown EXCEPT ![i] = @ \cup {new}]
              /\ worker' = [worker EXCEPT ![w].pc = "record", ![w].reaction = new]
              /\ UNCHANGED unheard
           \/ Move(w, "refused") /\ UNCHANGED <<shown, unheard>>
           \/ /\ shown' = [shown EXCEPT ![i] = @ \cup {new}]
              /\ unheard' = [unheard EXCEPT ![i] = @ \cup {new}]
              /\ Move(w, "refused")
    /\ UNCHANGED <<request, activity, crashes>>
Refused(w) ==
    /\ At(w, "refused")
    /\ Close(worker[w].on, Nothing, FALSE) /\ Move(w, "work")
    /\ UNCHANGED <<request, shown, crashes, unheard>>

\* RecordOwnerActivityReaction: an executing row only; else the reaction goes again.
Record(w) ==
    /\ At(w, "record")
    /\ LET i == worker[w].on
       IN  IF activity[i].status = "executing"
           THEN Write(i, "executing", worker[w].reaction) /\ Move(w, "work")
           ELSE Move(w, "withdraw") /\ UNCHANGED activity
    /\ UNCHANGED <<request, shown, crashes, unheard>>

\* The work ends: done, to be tried again, parked or given up. Then End, if there
\* is a reaction.
Work(w) ==
    /\ At(w, "work")
    /\ LET i == worker[w].on
       IN  \E status \in {"completed", "dead", "parked", "queued"} :
             /\ status = "queued" => request[i].attempts < MaxAttempts
             /\ request' = [request EXCEPT ![i].status = status]
    /\ worker' = [worker EXCEPT ![w] = IF @.reaction = Nothing THEN Rested ELSE [@ EXCEPT !.pc = "ending"]]
    /\ UNCHANGED <<activity, shown, crashes, unheard>>

\* The owner resumes parked or dead work.
ResumeRequest(i) ==
    /\ request[i].status \in {"dead", "parked"} /\ request[i].attempts < MaxAttempts
    /\ request' = [request EXCEPT ![i].status = "queued"]
    /\ UNCHANGED <<activity, shown, worker, crashes, unheard>>

-----------------------------------------------------------------------------
(* Removing a reaction: the call to Lark, then its outcome in the row.       *)

Removing == {"ending", "cleaning", "withdraw"}
Removed(w) ==
    /\ worker[w].pc \in Removing
    /\ shown' = [shown EXCEPT ![worker[w].on] = @ \ {worker[w].reaction}]
    /\ Move(w, IF At(w, "ending") THEN "ended" ELSE IF At(w, "cleaning") THEN "cleaned" ELSE "withdrawn")
    /\ UNCHANGED <<request, activity, crashes, unheard>>
\* Refused three times, or the removal not heard of.
NotRemoved(w) ==
    /\ worker[w].pc \in Removing
    /\ \E gone \in {{}, {worker[w].reaction}} : shown' = [shown EXCEPT ![worker[w].on] = @ \ gone]
    /\ Move(w, IF At(w, "ending") THEN "end_failed" ELSE IF At(w, "cleaning") THEN "clean_failed" ELSE "withdrawn")
    /\ UNCHANGED <<request, activity, crashes, unheard>>
Note(w) ==
    /\ worker[w].pc \in {"ended", "end_failed", "cleaned", "clean_failed", "withdrawn"}
    /\ Close(worker[w].on, worker[w].reaction, worker[w].pc \in {"ended", "cleaned"})
    /\ worker' = [worker EXCEPT ![w] =
         IF @.pc \in {"cleaned", "clean_failed"} THEN [Rested EXCEPT !.pc = "claim"]
         ELSE IF @.pc = "withdrawn" THEN [@ EXCEPT !.pc = "work", !.reaction = Nothing]
         ELSE Rested]
    /\ UNCHANGED <<request, shown, crashes, unheard>>

\* cleanupRetryDelay passes.
Age(i) ==
    /\ activity[i].fresh
    /\ activity' = [activity EXCEPT ![i].fresh = FALSE]
    /\ UNCHANGED <<request, shown, worker, crashes, unheard>>

\* The process dies and starts again: interrupted work is claimed again or dead.
Crash ==
    /\ crashes < MaxCrashes /\ crashes' = crashes + 1
    /\ \E next \in [Requests -> {"queued", "dead"}] :
         /\ \A i \in Requests : next[i] = "queued" => request[i].attempts < MaxAttempts
         /\ request' = [i \in Requests |-> IF request[i].status = "working"
                          THEN [request[i] EXCEPT !.status = next[i]] ELSE request[i]]
    /\ unheard' = [i \in Requests |-> unheard[i] \cup
                     {worker[w].reaction : w \in {v \in Workers : worker[v].on = i /\ worker[v].pc = "record"}}]
    /\ worker' = [w \in Workers |-> Rested]
    /\ UNCHANGED <<activity, shown>>

RunStep(w) ==
    Clean(w) \/ ClaimRequest(w) \/ NothingToDo(w) \/ Begin(w) \/ Create(w) \/ Refused(w)
    \/ Record(w) \/ Work(w) \/ Removed(w) \/ NotRemoved(w) \/ Note(w)

Next == Crash \/ (\E w \in Workers : RunStep(w)) \/ \E i \in Requests : Age(i) \/ ResumeRequest(i)

\* Workers go round and time passes; Lark does not refuse every removal of one
\* reaction.
Fairness ==
    /\ \A w \in Workers : WF_activityVars(RunStep(w))
    /\ \A i \in Requests : SF_activityVars(\E w \in Workers : worker[w].on = i /\ Removed(w))
    /\ \A i \in Requests : WF_activityVars(Age(i))

Spec == Init /\ [][Next]_activityVars /\ Fairness

-----------------------------------------------------------------------------
(* Properties.                                                               *)

ActivityTypeOK ==
    /\ request \in [Requests -> [status : {"queued", "working"} \cup Over, attempts : 0 .. MaxAttempts]]
    /\ activity \in [Requests -> [status : {"none", "executing", "completed", "blocked"},
                       id : 0 .. Cardinality(Requests), reaction : {Nothing} \cup Reactions, fresh : BOOLEAN]]
    /\ shown \in [Requests -> SUBSET Reactions] /\ unheard \in [Requests -> SUBSET Reactions]
    /\ crashes \in 0 .. MaxCrashes

\* A reaction that Lark shows is one that a row that is not closed, or the worker
\* that just added it, knows of; the exceptions are those whose creation was never
\* heard of. So no interleaving of End, Recover and a second run loses one.
NoneForgotten ==
    \A i \in Requests : \A x \in shown[i] \ unheard[i] :
        \/ activity[i].reaction = x /\ activity[i].status # "completed"
        \/ \E w \in Workers : worker[w].on = i /\ worker[w].reaction = x

\* A recorded reaction is removed in the end, whatever removal failed and whoever
\* died, unless an older row is still open: the clean-up takes the oldest row only,
\* and one that names no reaction (its creation failed) stays in front for good.
RecordedIsRemoved ==
    \A i \in Requests : activity[i].reaction \in shown[i] ~>
        \/ activity[i].reaction \notin shown[i]
        \/ \E j \in Requests : activity[j].status \in {"executing", "blocked"} /\ activity[j].id < activity[i].id
=============================================================================
