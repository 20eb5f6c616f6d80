---------------------------- MODULE IntakeLedger ----------------------------
(***************************************************************************)
(* What intake promises, whatever the number of sources and however their  *)
(* calls interleave: a message that was observed stays observed, and at    *)
(* most one work item is ever made of it.                                  *)
(***************************************************************************)
EXTENDS Naturals

CONSTANT Messages
VARIABLES observed,   \* messages with a receipt or a work item
          queued      \* how many work items each message has

Init == observed = {} /\ queued = [m \in Messages |-> 0]

Observe(m) == observed' = observed \cup {m} /\ UNCHANGED queued

Enqueue(m) == /\ queued[m] = 0
              /\ queued' = [queued EXCEPT ![m] = 1]
              /\ observed' = observed \cup {m}

Next == \E m \in Messages : Observe(m) \/ Enqueue(m)

Spec == Init /\ [][Next]_<<observed, queued>>
=============================================================================
