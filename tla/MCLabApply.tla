----------------------------- MODULE MCLabApply -----------------------------
(***************************************************************************)
(* Instances of ChangeExecution and LabApply for TLC, on one device and    *)
(* with one session: two orchestrated executions, or one of them beside    *)
(* the command line and with every change of what the gates read.          *)
(***************************************************************************)
EXTENDS LabApply

CONSTANTS e1, e2, p, d

\* Every execution has the same target.
SameTarget == [e \in Executions |-> {d}]

\* Bound: what the gates read is as at first, but for one of validation, secret and
\* backup at a time; no property of this run relates two of them.
OneDiffers ==
    /\ validation.status = "pending" \/ (active /\ backup = "none")
    /\ active \/ backup = "none"

\* Bound: beside a second orchestrated execution all of it is as at first, and the
\* command line is not used.
SecondIsAlone ==
    /\ validation.status = "pending" /\ active /\ backup = "none"
    /\ status[p] = "absent"

\* The states from which the run goes on.  Its properties do not look at the source
\* of an execution.
Bounds ==
    /\ source[e1] = "vlan_workflow" /\ source[e2] = "vlan_workflow"
    /\ OneDiffers
    /\ status[e2] = "absent" \/ SecondIsAlone
=============================================================================
