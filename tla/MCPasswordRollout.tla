------------------------- MODULE MCPasswordRollout -------------------------
(***************************************************************************)
(* Instances of PasswordRollout for TLC: a canary of one device followed   *)
(* by a batch of two, and two batches of one device each, with or without  *)
(* a canary that the driver does not support.                              *)
(***************************************************************************)
EXTENDS PasswordRollout, CanaryPlan, TLC

CONSTANTS t1, t2, t3

\* The batches of three devices with the requested plan [1], and of two devices
\* with the plan [1, 1].
BatchesFor(ids, requested) ==
    [t \in Tasks |-> BatchIndex(ids, NormalizeCanaryPlan(Len(ids), requested), t)]
OneThenTwo  == BatchesFor(<<t1, t2, t3>>, <<1>>)
OnePerBatch == BatchesFor(<<t1, t2>>, <<1, 1>>)

AllOpen     == [t \in Tasks |-> "open"]

RequestSymmetry == Permutations(Requests)
=============================================================================
