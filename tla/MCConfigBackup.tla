--------------------------- MODULE MCConfigBackup ---------------------------
(***************************************************************************)
(* Instances of ConfigBackup for TLC.                                      *)
(***************************************************************************)
EXTENDS ConfigBackup, TLC

CONSTANTS j1, j2, i1, i2, i3, i4, d1, d2

\* The first job lists a device twice; the second has it too, and a device that
\* cannot be backed up.
RepeatedDevice == (j1 :> {i1, i2}) @@ (j2 :> {i3, i4})
DeviceOfItem == (i1 :> d1) @@ (i2 :> d1) @@ (i3 :> d1) @@ (i4 :> d2)

WorkerSymmetry == Permutations(Workers)
=============================================================================
