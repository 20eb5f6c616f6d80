--------------------------- MODULE ResourceWrites ---------------------------
(***************************************************************************)
(* One write to a watched resource by a handoff (agent/tools/resource.go): *)
(* the audited action, the owner's approval where the mode asks for it,    *)
(* and the read, the write and the read of the update at Lark.  Two runs   *)
(* of the work may call the tool, the second while the first still runs.   *)
(***************************************************************************)
EXTENDS Naturals

CONSTANTS
    Runs,       \* runs of the work item that call the tool
    MaxStarts,  \* bound: starts of the process, each with a mode
    MaxWrites   \* bound: what the history counts up to

\* Assumed of the constants by Duties.
WriteParameters == MaxStarts \in Nat /\ MaxWrites \in Nat \ {0}

VARIABLES
    action,    \* action_attempts: the row of this exact request
    mode,      \* the mode the process was started with
    caller,    \* where each run is in executeResourceMutation
    field,     \* the Base field: as expected, as desired, or something else
    starts,    \* starts so far
    writes     \* history: how often Lark carried the write out

writeVars == <<action, mode, caller, field, starts, writes>>

Init ==
    /\ action = "none" /\ mode \in {"auto", "approval"}
    /\ caller = [r \in Runs |-> "idle"]
    /\ field = "expected" /\ starts = 0 /\ writes = 0

At(r, pc) == caller[r] = pc
Move(r, pc) == caller' = [caller EXCEPT ![r] = pc]

\* Mutant: an action that failed or was interrupted may be begun again.
BeginAgain(r) ==
    /\ At(r, "idle") /\ mode = "auto"
    /\ IF action \in {"none", "blocked"} THEN action' = "executing" /\ Move(r, "compare")
                                         ELSE Move(r, "over") /\ UNCHANGED action
    /\ UNCHANGED <<mode, field, starts, writes>>

\* BeginResourceAction: a new row only; the answer of a completed one is repeated.
Begin(r) ==
    /\ At(r, "idle") /\ mode = "auto"
    /\ IF action = "none" THEN action' = "executing" /\ Move(r, "compare")
                          ELSE Move(r, "over") /\ UNCHANGED action
    /\ UNCHANGED <<mode, field, starts, writes>>

\* ConsumeResourceAction: an approved row, taken by the run whose update counts.
Consume(r) ==
    /\ At(r, "idle") /\ mode = "approval"
    /\ IF action = "ready" THEN action' = "executing" /\ Move(r, "compare")
                           ELSE Move(r, "request") /\ UNCHANGED action
    /\ UNCHANGED <<mode, field, starts, writes>>
\* RequestResourceAction: INSERT OR IGNORE; the run is told that it must wait.
Request(r) ==
    /\ At(r, "request") /\ Move(r, "over")
    /\ action' = IF action = "none" THEN "awaiting" ELSE action
    /\ UNCHANGED <<mode, field, starts, writes>>

\* CompareAndUpdateBaseField: the field is read, written, and read again.
CompareField(r) ==
    /\ At(r, "compare")
    /\ Move(r, IF field = "expected" THEN "write" ELSE "failed")
    /\ UNCHANGED <<action, mode, field, starts, writes>>
WriteField(r) ==
    /\ At(r, "write")
    /\ \/ /\ field' = "desired"
          /\ writes' = IF writes < MaxWrites THEN writes + 1 ELSE writes
          /\ \E heard \in BOOLEAN : Move(r, IF heard THEN "verify" ELSE "failed")
       \/ Move(r, "failed") /\ UNCHANGED <<field, writes>>
    /\ UNCHANGED <<action, mode, starts>>
Verify(r) ==
    /\ At(r, "verify")
    /\ Move(r, IF field = "desired" THEN "done" ELSE "failed")
    /\ UNCHANGED <<action, mode, field, starts, writes>>

\* CompleteResourceAction: an executing row only.
CompleteAction(r) ==
    /\ caller[r] \in {"done", "failed"}
    /\ action' = IF action # "executing" THEN action ELSE IF At(r, "done") THEN "completed" ELSE "blocked"
    /\ Move(r, "over")
    /\ UNCHANGED <<mode, field, starts, writes>>

\* The model calls the tool once more, in this run or a later one.
CallAgain(r) ==
    /\ At(r, "over") /\ Move(r, "idle")
    /\ UNCHANGED <<action, mode, field, starts, writes>>

\* The owner decides; anyone may edit the field at any time.
Decide ==
    /\ action = "awaiting"
    /\ action' \in {"ready", "cancelled"}
    /\ UNCHANGED <<mode, caller, field, starts, writes>>
OthersEdit ==
    /\ field' \in {"expected", "other"} \ {field}
    /\ UNCHANGED <<action, mode, caller, starts, writes>>

\* The process dies; the next blocks what was executing (interruptSessionWork).
Restart ==
    /\ starts < MaxStarts /\ starts' = starts + 1
    /\ mode' \in {"auto", "approval", "paused"}
    /\ caller' = [r \in Runs |-> "idle"]
    /\ action' = IF action = "executing" THEN "blocked" ELSE action
    /\ UNCHANGED <<field, writes>>

Next ==
    \/ Decide \/ OthersEdit \/ Restart
    \/ \E r \in Runs : Begin(r) \/ Consume(r) \/ Request(r) \/ CompareField(r) \/ WriteField(r)
                       \/ Verify(r) \/ CompleteAction(r) \/ CallAgain(r)

Spec == Init /\ [][Next]_writeVars

-----------------------------------------------------------------------------
(* Properties.                                                               *)

WriteTypeOK ==
    /\ action \in {"none", "awaiting", "ready", "executing", "completed", "blocked", "cancelled"}
    /\ mode \in {"auto", "approval", "paused"}
    /\ field \in {"expected", "desired", "other"}
    /\ starts \in 0 .. MaxStarts /\ writes \in 0 .. MaxWrites

\* One exact request is written at most once, whatever crashed, timed out or was
\* called again, and though the mode changed in between.
WrittenOnce == writes <= 1
=============================================================================
