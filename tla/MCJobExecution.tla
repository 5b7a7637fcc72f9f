--------------------------- MODULE MCJobExecution ---------------------------
(***************************************************************************)
(* Instances of JobExecution for TLC: two jobs that compete for the same   *)
(* two devices, and one job on one device.                                 *)
(***************************************************************************)
EXTENDS JobExecution, TLC

CONSTANTS j1, j2, d1, d2, d3

\* Both jobs target every device and all tasks pass their checks.
SharedTargets == [j \in Jobs |-> Devices]
AllOpen       == [t \in Jobs \X Devices |-> "open"]

\* Both jobs target two devices; the second has one more, which its driver does
\* not support.
ContendedTargets == (j1 :> {d1, d2}) @@ (j2 :> {d1, d2, d3})
OneUnsupported   == [t \in Tasks |-> IF t = <<j2, d3>> THEN "unsupported" ELSE "open"]

RequestSymmetry == Permutations(Requests)
=============================================================================
