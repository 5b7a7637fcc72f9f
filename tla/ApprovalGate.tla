---------------------------- MODULE ApprovalGate ----------------------------
(***************************************************************************)
(* What the change execution orchestrator promises about its gates: only a *)
(* planned change is approved, and only an approved one is simulated.      *)
(***************************************************************************)
CONSTANT Changes

VARIABLES
    planned,   \* changes with a plan
    approved,  \* changes that have been approved
    simulated  \* changes that have been simulated

Init ==
    /\ planned \in SUBSET Changes
    /\ approved \in SUBSET planned
    /\ simulated \in SUBSET approved

Plan(c) ==
    /\ planned' = planned \cup {c}
    /\ UNCHANGED <<approved, simulated>>

Approve(c) ==
    /\ c \in planned
    /\ approved' = approved \cup {c}
    /\ UNCHANGED <<planned, simulated>>

Simulate(c) ==
    /\ c \in approved
    /\ simulated' = simulated \cup {c}
    /\ UNCHANGED <<planned, approved>>

Next == \E c \in Changes : Plan(c) \/ Approve(c) \/ Simulate(c)

Spec == Init /\ [][Next]_<<planned, approved, simulated>>
=============================================================================
