--------------------------- MODULE OrderedRollout ---------------------------
(***************************************************************************)
(* What a canary rollout promises about its order: its batches, numbered   *)
(* from 1 to Count, are attempted one after the other from the first.      *)
(* Whether an attempt succeeds is left open.                               *)
(***************************************************************************)
EXTENDS Naturals

CONSTANT Count

VARIABLE attempted  \* the batches that have been attempted

Init == attempted = {}

\* The next batch is attempted.
Attempt(b) ==
    /\ b \notin attempted
    /\ 1 .. b - 1 \subseteq attempted
    /\ attempted' = attempted \cup {b}

Next == \E b \in 1 .. Count : Attempt(b)

Spec == Init /\ [][Next]_attempted
=============================================================================
