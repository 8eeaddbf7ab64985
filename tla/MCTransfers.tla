----------------------------- MODULE MCTransfers -----------------------------
(* Small instances of Transfers: constants only. A budget is a scenario.    *)
EXTENDS Transfers

CONSTANTS w, b, c

MCGuess == [l \in Locations |-> IF l = w THEN "holds" ELSE "sells"]
MCOpening == [l \in Locations |-> [p \in Products |-> 2]]
B(c1, a, f, n, e, r) ==
    [changes |-> c1, answers |-> a, faults |-> f, plans |-> n, edits |-> e, resizes |-> r]
\* the figures: a change of the store, a request that dies, two members;
\* the plan: edits, resizes, both, a fault, moving stock
MCBudgets == {B(1, 1, 0, 0, 0, 0), B(0, 1, 1, 0, 0, 0), B(1, 0, 1, 0, 0, 0), B(0, 2, 0, 0, 0, 0),
              B(0, 0, 0, 1, 3, 0), B(0, 0, 0, 1, 0, 2), B(0, 0, 0, 1, 1, 1),
              B(0, 0, 1, 1, 1, 0), B(0, 0, 1, 1, 0, 1), B(1, 0, 0, 1, 1, 0)}
=============================================================================
