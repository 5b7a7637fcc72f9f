------------------------------ MODULE LabApply ------------------------------
(***************************************************************************)
(* Lab apply (LabApplyService and its ApplySafetyKernel) on one device,    *)
(* together with what its gates read: the change executions with their     *)
(* steps, locks and approvals, the lab validation, the vault secret and    *)
(* the latest backup of the device, and the records that the prototype     *)
(* command line writes for itself, with its automatic gates or with --lock *)
(* alone.                                                                  *)
(*                                                                         *)
(* Settings, permissions, contract and command plan are those that allow   *)
(* an apply; the gates below are the ones that read the database.  Every   *)
(* request and command is a database session; those added here are one     *)
(* step each, so the module is meant for sessions that do not overlap      *)
(* (Workers with one element).                                             *)
(***************************************************************************)
EXTENDS ChangeExecution

CONSTANTS
    Device,     \* the device that is applied to
    Prototypes  \* executions that scripts/lab_prototype.py creates

ASSUME LabApplyAssumption ==
    /\ Device \in Scope
    /\ Prototypes \subseteq Executions
    /\ \A p \in Prototypes : Targets[p] = {Device}

Sources    == {"vlan_workflow", "password_rollout", "config_backup_job", "prototype"}
Operations == {"read_backup", "password_change", "vlan_create", "vlan_assign_port"}

VARIABLES
    source,     \* source[e]: column source_type of execution e
    authorised, \* executions with an approval row approved a short time ago
    validation, \* the lab validation of the device's driver: its status, and whether
                \* it expires never, later or in the past
    active,     \* column active of the vault secret
    backup,     \* the latest sanitized snapshot: none, stale or fresh
    stub,       \* whether the command line has written an approved validation
    unchecked,  \* prototypes made with --lock alone, without automatic gates
    applied     \* what has been sent to the device: execution and operation

evidenceVars  == <<validation, active, backup>>
prototypeVars == <<stub, unchecked>>
labVars       == <<source, authorised, evidenceVars, prototypeVars, applied>>

LabInit ==
    /\ Init
    /\ source \in [Executions -> Sources]
    /\ \A e \in Executions : source[e] = "prototype" <=> e \in Prototypes
    /\ \A p \in Prototypes : status[p] = "absent" /\ p \notin evidence
    /\ authorised = {}
    /\ validation = [status |-> "pending", expires |-> "never"]
    /\ active = TRUE
    /\ backup = "none"
    /\ stub = FALSE
    /\ unchecked = {}
    /\ applied = {}

-----------------------------------------------------------------------------
(* Step metadata, a record per dictionary: its fields are the keys         *)

\* planned_action of the steps that build_plan makes for the device.
PlannedAction(e) ==
    CASE source[e] = "vlan_workflow"    -> [operation |-> "create_vlan",
                                            planned_commands |-> "commands",
                                            rollback_commands |-> "rollback"]
      [] source[e] = "password_rollout" -> [job_id |-> "job", commands |-> "commands"]
      [] OTHER                          -> [job_id |-> "job", collection |-> "not_started"]

\* dry_run_output that the simulation adds to them.
DryRunOutput(e) ==
    IF source[e] = "vlan_workflow" THEN [PlannedAction(e) EXCEPT !.planned_commands = "masked"]
                                   ELSE [job_id |-> "job", change_type |-> "simulated"]

HashKeys    == {"command_hash", "simulation_hash", "dry_run_hash"}
BindingKeys == {"operation", "rollback_commands"} \cup HashKeys

Matches(m, key, value) == key \in DOMAIN m /\ m[key] = value

BindingSources(e) ==
    {m \in {PlannedAction(e)} \cup (IF e \in completed THEN {DryRunOutput(e)} ELSE {}) :
        DOMAIN m \cap BindingKeys # {}}

\* Every binding dictionary names the operation and the hash of the commands and,
\* if asked for, the rollback commands.
AllBind(e, op, rollback) ==
    \A m \in BindingSources(e) :
        /\ Matches(m, "operation", op)
        /\ \E key \in HashKeys : Matches(m, key, "hash")
        /\ rollback => Matches(m, "rollback_commands", "rollback")

\* _execution_has_bound_step, _step_metadata_bound
HasBoundStep(e, op, rollback) ==
    steps[e] # {} /\ BindingSources(e) # {} /\ AllBind(e, op, rollback)

-----------------------------------------------------------------------------
(* The gates                                                               *)

\* _bound_lock: the lock that the request names is a reserved one of e.
LockBound(e) == Device \in Targets[e] /\ Reserved(e) # {}

Usable(v) == v.status = "approved" /\ v.expires # "past"

\* _lab_validation_satisfied: the row of the driver, or the one that the command
\* line has written, on which nobody decides.
Validates == Usable(validation) \/ stub

\* _approval_satisfied: the approval named belongs to the execution of the lock.
ApprovalBound(e, approval, op) ==
    /\ approval = e
    /\ approval \in authorised
    /\ HasBoundStep(e, op, FALSE)

\* _rollback_satisfied
RollbackBound(e, op) == op = "read_backup" \/ HasBoundStep(e, op, TRUE)

\* ApplySafetyKernel.evaluate for the lock of e and the approval of an execution.
Allowed(e, approval, op) ==
    /\ LockBound(e)
    /\ active
    /\ backup = "fresh"
    /\ Validates
    /\ ApprovalBound(e, approval, op)
    /\ RollbackBound(e, op)

\* LabApplyService.execute: nothing is decrypted or sent unless allowed.
Sends(e, approval, op) ==
    applied' = IF Allowed(e, approval, op) THEN applied \cup {<<e, op>>} ELSE applied

-----------------------------------------------------------------------------
(* Requests and commands                                                   *)

\* The requests of ChangeExecution.  approve_execution decides the approval row
\* that the submission has made.
Orchestrate(w) ==
    /\ Request(w)
    /\ authorised' = authorised \cup
         {e \in Executions : status[e] = "pending_approval" /\ status'[e] = "approved"}
    /\ UNCHANGED <<source, evidenceVars, prototypeVars, applied>>

\* POST /change-executions, and what changes around an execution.  A source of
\* type prototype does not exist for the validation.
Surround(e) ==
    /\ e \notin Prototypes
    /\ Create(e) \/ EvidenceChanges(e)
    /\ UNCHANGED labVars

\* POST /lab-apply/execute.
Execute(w, e, approval, op) ==
    /\ session[w] = None
    /\ Sends(e, approval, op)
    /\ UNCHANGED <<vars, source, authorised, evidenceVars, prototypeVars>>

\* Mutant: the command line does not look for a reserved lock.
AutoGatesUnlocked == backup # "none"

\* _assert_prototype_auto_gates_allowed
AutoGates == backup # "none" /\ \A e \in Executions : ~LockBound(e)

\* evaluate-apply or execute-apply with --prototype-auto-gates or with --lock
\* alone: a draft execution with a reserved lock, committed whatever the kernel
\* decides.  Only automatic gates ask for a backup and for the locks of others,
\* and add a lab validation if none is named.  The approval named is no row.
Prototype(w, p, op, auto) ==
    /\ session[w] = None
    /\ status[p] = "absent"
    /\ auto => AutoGates
    /\ active
    /\ status' = [status EXCEPT ![p] = "draft"]
    /\ lockRows' = [lockRows EXCEPT ![p][w] = "reserved"]
    /\ stub' \in {stub, stub \/ auto}
    /\ unchecked' = IF auto THEN unchecked ELSE unchecked \cup {p}
    /\ Sends(p, None, op)
    /\ UNCHANGED <<steps, approved, completed, evidence, session>>
    /\ UNCHANGED <<source, authorised, evidenceVars>>

\* mark_approved: without a date the old one stays.
ApproveValidation(date) ==
    validation' = [status |-> "approved",
                   expires |-> IF date = "none" THEN validation.expires ELSE date]

RejectValidation == validation' = [validation EXCEPT !.status = "rejected"]

ExpireValidation == validation' = [status |-> "expired", expires |-> "past"]

\* Requests about the lab validation, from whatever status.
DecideValidation ==
    /\ \/ \E date \in {"none", "later"} : ApproveValidation(date)
       \/ RejectValidation
       \/ ExpireValidation
    /\ UNCHANGED <<vars, source, authorised, active, backup, prototypeVars, applied>>

\* disable and rotate: only a rotation makes the secret usable again.
DisableSecret == active' = FALSE
RotateSecret  == active' = TRUE

Vault ==
    /\ DisableSecret \/ RotateSecret
    /\ UNCHANGED <<vars, source, authorised, validation, backup, prototypeVars, applied>>

\* LabBackupRunner or an import stores a snapshot.
TakeBackup ==
    /\ backup' = "fresh"
    /\ UNCHANGED <<vars, source, authorised, validation, active, prototypeVars, applied>>

\* lab_backup_max_age_hours, the age of an approval and the date of a
\* validation are reached.
TimePasses ==
    /\ \/ backup = "fresh" /\ backup' = "stale" /\ UNCHANGED <<authorised, validation>>
       \/ \E e \in authorised :
            authorised' = authorised \ {e} /\ UNCHANGED <<backup, validation>>
       \/ /\ validation.expires = "later"
          /\ validation' = [validation EXCEPT !.expires = "past"]
          /\ UNCHANGED <<backup, authorised>>
    /\ UNCHANGED <<vars, source, active, prototypeVars, applied>>

LabNext ==
    \/ \E w \in Workers :
         \/ Orchestrate(w)
         \/ \E p \in Prototypes, op \in Operations, auto \in BOOLEAN : Prototype(w, p, op, auto)
         \/ \E e, approval \in Executions, op \in Operations : Execute(w, e, approval, op)
    \/ \E e \in Executions : Surround(e)
    \/ DecideValidation \/ Vault \/ TakeBackup \/ TimePasses

LabSpec == LabInit /\ [][LabNext]_<<vars, labVars>>

-----------------------------------------------------------------------------
(* Properties                                                              *)

\* An execution is given its locks only while no other execution holds one of its
\* targets, though the orchestrator (validate_locks) and the automatic gates of the
\* command line (_assert_prototype_auto_gates_allowed) look for the locks of one
\* another in ways of their own; only --lock alone takes a device that is held.
TakenOnlyIfFree ==
    [][\A e \in Executions : Reserved(e) = {} /\ Reserved(e)' # {} /\ e \notin unchecked' =>
          \A f \in Executions \ {e} : Reserved(f) # {} => Targets[e] \cap Targets[f] = {}]_lockRows

\* The gates of the database as the documents list them: a device lock, a credential,
\* a fresh backup, an approved lab validation, an approval, and a stored dry-run.
DocumentedGates(e) ==
    /\ LockBound(e)
    /\ active
    /\ backup = "fresh"
    /\ Validates
    /\ e \in authorised
    /\ e \in completed

\* An execution for which every documented gate holds may apply some operation:
\* /lab-apply/execute denies "unless every gate passes", and the test of the kernel
\* allows an apply with all gates.
GatesOpenTheDevice ==
    \A e \in Executions : DocumentedGates(e) => \E op \in Operations : Allowed(e, e, op)

\* No step carries the hash of the commands, as no service writes one, so that with
\* the rows that the program makes itself nothing is ever sent to a device.
NothingIsApplied == applied = {}
=============================================================================
