--------------------------- MODULE OwnerControlMC ---------------------------
(* Values of the constants of OwnerControl for TLC. *)
EXTENDS OwnerControl

CONSTANTS w1, k1, d1, a1

OneWork == {w1}
OneWorker == {k1}
OneDraft == {d1}
OneAsk == {a1}
None == {}

\* Approvals of the first generation; not_completed is the disposition that does not
\* end the work, and unknown stands for the two that do.
EveryKind(c) ==
    /\ "key" \in DOMAIN c => c.key.gen = 1
    /\ "disposition" \in DOMAIN c => c.disposition # "completed"
    /\ "of" \in DOMAIN c => c.of = Earlier /\ c.name # "memory_reject"
    /\ "confirm" \in DOMAIN c => c.confirm

\* A message over a restart; any message beside one typed command; two typed commands
\* over a restart; and one over two, the last two about delegated work.
Spoken == [asks |-> {a1}, said |-> {"resume", "cancel", "memory_add"}, delegated |-> {},
           typed |-> {}, cli |-> 0, starts |-> 2]
Mixed == [Spoken EXCEPT !.said = SaidNames, !.typed = {"cancel", "acknowledge"}, !.cli = 1,
                        !.starts = 1]
Typed == [asks |-> {}, said |-> {}, delegated |-> {w1}, typed |-> TypedNames, cli |-> 2,
          starts |-> 2]
Restarted == [Typed EXCEPT !.typed = {"cancel", "acknowledge", "approve", "reject"}, !.cli = 1,
                           !.starts = 3]
FourScopes == {Spoken, Mixed, Typed, Restarted}
=============================================================================
