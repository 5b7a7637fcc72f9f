------------------------------ MODULE LabGates ------------------------------
(***************************************************************************)
(* What each part of the lab says of an operation on a device, as far as   *)
(* that depends on the runtime decision and the vendor contract alone: the *)
(* reports of the Excel lab, its safety service, the check that the        *)
(* executor repeats, the certification, the backup runner, and the apply   *)
(* safety kernel of the database.  Environment, allowlist, credential and  *)
(* the evidence in files and tables are given.                             *)
(***************************************************************************)
EXTENDS DriverDecision

ConfigOperations == CandidateOperations \ {"read_backup"}

NoCommandLine(decision) == decision.transport \in {"unsupported", "icmp_only"}
ReadsConfig(decision)   == Contracts[decision.family].reads # None
IsCandidate(decision)   == Contracts[decision.family].level = "lab_apply_candidate"
Supports(decision, operation) == operation \in Contracts[decision.family].operations

-----------------------------------------------------------------------------
(* What an operator is told                                                *)

\* _backup_status, of a device whose latest backup is "none", "old" or "fresh".
BackupStatus(decision, latest) ==
    IF NoCommandLine(decision) \/ ~ReadsConfig(decision) THEN "unsupported"
    ELSE CASE latest = "fresh" -> "present"
           [] latest = "old"   -> "stale"
           [] latest = "none"  -> "missing"

\* _apply_status
ApplyStatus(decision) ==
    CASE decision.family \in {"unknown", "icmp", "generic_ssh", "limited_web", "non_switch"}
                                                        -> "unsupported"
      [] decision.family \in {"qtech", "eltex", "bulat"} -> "blocked_until_certified"
      [] OTHER                                          -> "candidate_gated"

\* _runtime_report, and what _list_devices and _check_runtime show of it.
RuntimeReport(decision, latest) ==
    [family |-> decision.family, transport |-> decision.transport,
     backup |-> BackupStatus(decision, latest), apply |-> ApplyStatus(decision),
     level  |-> Contracts[decision.family].level]

\* _list_devices looks at no backups.
Listed(decision) ==
    LET report == RuntimeReport(decision, "none")
    IN  [report |-> report, backupSupported |-> report.backup # "unsupported"]

-----------------------------------------------------------------------------
(* The Excel lab                                                           *)

\* The gates runtime_decision, vendor_contract and command_safety of
\* ExcelLabSafetyService.evaluate.
RuntimeGate(decision, operation) ==
    /\ ~NoCommandLine(decision)
    /\ operation \in ConfigOperations =>
          decision.family \notin {"unknown", "icmp", "generic_ssh", "limited_web", "non_switch",
                                  "eltex", "bulat", "qtech"}
ContractGate(decision, operation) ==
    IsCandidate(decision) \/ (operation = "read_backup" /\ ReadsConfig(decision))
EvaluateAllows(decision, operation) ==
    /\ RuntimeGate(decision, operation)
    /\ ContractGate(decision, operation)
    /\ Renders(decision.family, operation)

\* ExcelLabApplyExecutor._current_state_gate_error
RecheckAllows(decision, operation) ==
    operation \in ConfigOperations =>
        /\ decision.family \notin {"unknown", "icmp", "generic_ssh", "limited_web", "non_switch",
                                   "eltex", "bulat", "qtech"}
        /\ Supports(decision, operation)
        /\ IsCandidate(decision)

\* Mutant: an operation of the contract is certified, whether it can be run or not.
CertificationOfSupported(decision, operation) ==
    /\ ~NoCommandLine(decision)
    /\ IF operation = "read_backup" THEN ReadsConfig(decision)
       ELSE /\ decision.family \notin {"unknown", "generic_ssh", "icmp", "limited_web",
                                       "non_switch", "qtech", "eltex", "bulat"}
            /\ Supports(decision, operation)

\* _assert_certification_allowed
CertificationAllows(decision, operation) ==
    /\ ~NoCommandLine(decision)
    /\ IF operation = "read_backup" THEN ReadsConfig(decision)
       ELSE /\ decision.family \notin {"unknown", "generic_ssh", "icmp", "limited_web",
                                       "non_switch", "qtech", "eltex", "bulat"}
            /\ Supports(decision, operation)
            /\ operation \in Contracts[decision.family].templates

\* ExcelLabBackupRunner.backup_device, up to its transport.
BackupRuns(decision) ==
    /\ ~NoCommandLine(decision) /\ decision.family # "unknown"
    /\ ReadsConfig(decision)
    /\ LabTransport(decision, TRUE) # None

-----------------------------------------------------------------------------
(* The database: the gates of ApplySafetyKernel.evaluate with those names  *)

KernelAllows(decision, operation, allowCandidate) ==
    /\ IsCandidate(decision) /\ allowCandidate
    /\ ~NoCommandLine(decision)
    /\ decision.family \notin {"unknown", "icmp", "generic_ssh", "eltex", "bulat"}
    /\ Renders(decision.family, operation)
=============================================================================
