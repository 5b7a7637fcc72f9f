----------------------------- MODULE MCExcelLab -----------------------------
(***************************************************************************)
(* Instances of ExcelLab for TLC.  Processes, devices and plans are        *)
(* interchangeable: every device is eligible.                              *)
(***************************************************************************)
EXTENDS ExcelLab, TLC

LabSymmetry == Permutations(Procs) \cup Permutations(Devices) \cup Permutations(Plans)
=============================================================================
