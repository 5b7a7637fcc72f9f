-------------------------- MODULE DeviceReadiness ---------------------------
(***************************************************************************)
(* What is known of a device before it is changed: its configuration       *)
(* snapshots and the lab validations of its driver.  The VLAN workflow,    *)
(* the change executions and the lab validation service decide by them,    *)
(* each with queries of its own; the operator console and the compliance   *)
(* reports show them, each with calculations of their own.  Time is in     *)
(* hours.                                                                  *)
(***************************************************************************)
EXTENDS Integers, FiniteSets

CONSTANTS
    Never,      \* no date of expiry
    NoSnapshot  \* a device without a snapshot

Freshness == 24

-----------------------------------------------------------------------------
(* Snapshots and validations                                               *)

\* list_snapshots_for_device, get_latest_snapshot_for_device
Latest(snapshots, id) ==
    LET own == {s \in snapshots : s.device = id}
    IN  IF own = {} THEN NoSnapshot ELSE CHOOSE s \in own : \A t \in own : t.at <= s.at

IsStale(snapshot, now) == snapshot.at < now - Freshness

\* A name is what it says and how it is written.
Normal(name) == name.text

ModelMatches(pattern, model) == pattern \in {"any", model}

InForce(validation, now) ==
    /\ validation.status = "approved"
    /\ validation.expires = Never \/ validation.expires > now

\* Mutant: the driver is compared as its vendor is, whatever the device has.
FindApprovedOfVendor(validations, device, capability, now) ==
    {v \in validations : /\ v.capability = capability
                         /\ InForce(v, now)
                         /\ Normal(v.vendor) = Normal(device.vendor)}

\* The rows that find_approved may return; the driver's name is compared as it is
\* written.
FindApproved(validations, device, capability, now) ==
    {v \in validations : /\ v.driver = device.driver
                         /\ v.capability = capability
                         /\ InForce(v, now)
                         /\ Normal(v.vendor) = Normal(device.vendor)
                         /\ ModelMatches(v.pattern, device.model)}

-----------------------------------------------------------------------------
(* The services that decide                                                *)

\* validate_fresh_backup of a VLAN request
HasFreshBackup(device, snapshots, now) ==
    LET latest == Latest(snapshots, device.id)
    IN  latest # NoSnapshot /\ ~IsStale(latest, now)

\* validate_lab_validation of a VLAN request
VlanValidated(device, operation, validations, now) ==
    \E c \in {operation, "vlan_management", "vlan_change"} :
        FindApproved(validations, device, c, now) # {}

\* A change execution: what it changes, and the VLAN request behind it.
RequiredCapabilities(change) ==
    CASE change.type = "password_change" -> {"password_change"}
      [] change.type = "vlan_change"     ->
            {"vlan_management", "vlan_change"}
            \cup (IF change.source = "vlan_workflow" THEN {change.operation} ELSE {})
      [] change.type = "config_backup"   -> {"config_backup", "backup_collection"}
      [] OTHER                           -> {"change_execution"}

\* validate_lab_validations of a change execution
ChangeValidated(change, device, validations, now) ==
    \E c \in RequiredCapabilities(change) : FindApproved(validations, device, c, now) # {}

\* assert_real_apply_allowed: why the capability may not be applied to a device,
\* or that it may.
RealApply(device, capability, validations, now) ==
    LET ofDriver == {v \in validations : /\ v.driver = device.driver /\ v.status = "approved"
                                         /\ Normal(v.vendor) = Normal(device.vendor)}
        able     == {v \in ofDriver : v.capability = capability}
        current  == {v \in able : InForce(v, now)}
    IN  IF FindApproved(validations, device, capability, now) # {} THEN "allowed"
        ELSE IF ofDriver = {} THEN "none for the driver"
        ELSE IF able = {} THEN "capability not validated"
        ELSE IF current = {} THEN "expired"
        ELSE IF \A v \in current : ~ModelMatches(v.pattern, device.model) THEN "other model"
        ELSE "unexplained"

-----------------------------------------------------------------------------
(* The reports                                                             *)

CredentialIsValid(status)   == status \in {"valid", "verified", "assigned", "ok", "success"}
CredentialIsInvalid(status) == status \in {"invalid", "failed", "error", "unauthorized"}

IsUnreachable(device) == device.status = "unreachable" \/ device.discovery = "unreachable"
IsActive(device) ==
    device.status \in {"known", "active", "reachable"} \/ device.discovery = "reachable" \/ device.seen

\* Validations that count for a device in both reports: of any capability, and
\* with the driver's name in whatever case.
LabOf(device, validations, now) ==
    {v \in validations : /\ InForce(v, now)
                         /\ Normal(v.vendor) = Normal(device.vendor)
                         /\ Normal(v.driver) = Normal(device.driver)
                         /\ ModelMatches(v.pattern, device.model)}

\* latest_backup_status
LatestBackup(device, snapshots, now) ==
    LET latest == Latest(snapshots, device.id)
    IN  IF latest = NoSnapshot THEN "missing"
        ELSE IF IsStale(latest, now) THEN "stale"
        ELSE "recent"

BackupReasons(backup) == IF backup = "recent" THEN {} ELSE {backup}
LabReasons(labs)      == IF labs = {} THEN {"no validation"} ELSE {}

\* A row of the operator console: the risk is set anew by each reason, so that
\* the order of the checks matters.
HealthRow(device, snapshots, validations, now) ==
    LET refused == CredentialIsInvalid(device.credential)
        backup  == LatestBackup(device, snapshots, now)
        labs    == LabOf(device, validations, now)
        first   == IF refused \/ backup # "recent" THEN "high" ELSE "low"
        second  == IF labs = {} /\ first # "high" THEN "medium" ELSE first
    IN  [risk    |-> IF IsUnreachable(device) THEN "critical" ELSE second,
         reasons |-> (IF refused THEN {"credential"} ELSE {}) \cup BackupReasons(backup)
                       \cup LabReasons(labs)
                       \cup (IF IsUnreachable(device) THEN {"unreachable"} ELSE {})]

\* _device_readiness_record of the compliance reports
Readiness(device, snapshots, validations, now) ==
    LET backup   == LatestBackup(device, snapshots, now)
        labs     == LabOf(device, validations, now)
        refused  == CredentialIsInvalid(device.credential)
        first    == IF backup = "recent" THEN "low" ELSE "high"
        second   == IF labs = {} /\ first # "high" THEN "medium" ELSE first
        third    == IF refused THEN "high" ELSE second
        blockers == BackupReasons(backup) \cup LabReasons(labs)
                      \cup (IF refused THEN {"credential"} ELSE {})
                      \cup (IF IsUnreachable(device) THEN {"unreachable"} ELSE {})
        doubtful == blockers = {} /\ ~CredentialIsValid(device.credential)
    IN  [backup  |-> backup,
         lab     |-> IF labs = {} THEN "missing" ELSE "approved",
         status  |-> IF doubtful THEN "warning"
                     ELSE IF blockers = {} THEN "ready" ELSE "blocked",
         reasons |-> IF doubtful THEN {"not verified"} ELSE blockers,
         risk    |-> IF doubtful THEN "medium"
                     ELSE IF IsUnreachable(device) THEN "critical" ELSE third]

\* get_device_health_summary: counters over all devices, with queries of its own
HealthSummary(devices, snapshots, validations, now) ==
    LET Number(P(_)) == Cardinality({d \in devices : P(d)})
    IN  [active        |-> Number(IsActive),
         unreachable   |-> Number(IsUnreachable),
         invalid       |-> Number(LAMBDA d : CredentialIsInvalid(d.credential)),
         withoutBackup |-> Number(LAMBDA d : ~HasFreshBackup(d, snapshots, now)),
         withoutLab    |-> Number(LAMBDA d : LabOf(d, validations, now) = {})]

\* _device_compliance_checks: the checks that do not pass
FailedChecks(device, snapshots, validations, now) ==
    LET record == Readiness(device, snapshots, validations, now)
    IN  (IF CredentialIsValid(device.credential) THEN {} ELSE {"credentials"})
        \cup (IF record.backup = "recent" THEN {} ELSE {"backup"})
        \cup (IF record.lab = "approved" THEN {} ELSE {"validation"})
        \cup (IF record.status # "blocked" THEN {} ELSE {"workflows"})
=============================================================================
