---------------------------- MODULE LegacyPlans -----------------------------
(***************************************************************************)
(* The netops_orchestrator library and its command line: the driver of a   *)
(* device, the plans it renders, the transport a plan may use, and how a   *)
(* plan is run and a backup reported.                                      *)
(*                                                                         *)
(* A device is a record of DriverDecision with the family that its row     *)
(* gives.  A step of a plan is what the gates and the transports look at:  *)
(* its phase and whether it is marked as one that only reads.              *)
(***************************************************************************)
EXTENDS DriverDecision

-----------------------------------------------------------------------------
(* Drivers                                                                 *)

\* The row itself says that the device is not to be configured: what is stored
\* with it is not looked at.
RuntimeForDevice(device) ==
    IF Shows(Words(device), {"unknown product", "icmp"})
    THEN Decide([device EXCEPT !.driver = None], None)
    ELSE Decide(device, device.family)

\* driver_for, without the branches that no family reaches.
DriverFor(device) ==
    LET family == RuntimeForDevice(device).family
        qtech  == device.vendor = "qtech" \/ Shows(device.model, {"qsw-3750", "qsw-2800"})
    IN  IF family = "qtech" THEN "qtech_qsw"
        ELSE IF family \in {"unknown", "icmp", "generic_ssh", "limited_web", "non_switch"}
             THEN IF qtech THEN "qtech_qsw" ELSE "unsupported_cli"
        ELSE IF Shows(device.model, {"1620"}) THEN "unsupported_cli"
        ELSE CASE family = "huawei_vrp"                               -> "huawei_vrp"
               [] family \in {"cisco_ios", "cisco_nxos", "cisco_asa"} -> "cisco_ios"
               [] family = "hpe_comware" ->
                    IF device.vendor = "3com" THEN "comware_legacy"
                    ELSE IF Shows(device.model, {"5130"}) THEN "comware7" ELSE "comware_smb"
               [] family \in {"hpe_procurve", "aruba_os_switch"}      -> "hpe_procurve"
               [] family = "bulat"                                    -> "bulat_bs"
               [] family = "eltex"                                    -> "eltex_mes"
               [] family = "dell_os"                                  -> "dell_powerconnect"

\* netmiko_device_type; Bulat, QTECH and the unsupported driver have none.
PlanTypes ==
    [huawei_vrp |-> "huawei_vrp", cisco_ios |-> "cisco_ios", comware_smb |-> "hp_comware",
     comware_legacy |-> "hp_comware", comware7 |-> "hp_comware", hpe_procurve |-> "hp_procurve",
     eltex_mes |-> "eltex", dell_powerconnect |-> "dell_powerconnect"]

\* None is no device type.
ASSUME LegacyPlansAssumption == None \notin {PlanTypes[driver] : driver \in DOMAIN PlanTypes}

PlanType(driver) == IF driver \in DOMAIN PlanTypes THEN PlanTypes[driver] ELSE None

LegacyOperations == {"password", "acl", "vlan", "port", "backup"}

Step(phase, readOnly) == [phase |-> phase, readOnly |-> readOnly]
Steps(n, phase, readOnly) == [i \in 1 .. n |-> Step(phase, readOnly)]

\* The commands of a driver's plans: a password for a level below "enable"; one
\* rule; a VLAN with a name; a port with a description.
Commands(password, acl, vlan, port) ==
    [password |-> password, acl |-> acl, vlan |-> vlan, port |-> port, backup |-> 2]

HuaweiVrpDriver    == Commands(5, 3, 3, 3)
CiscoIosDriver     == Commands(1, 3, 3, 3)
ComwareSmbDriver   == Commands(5, 3, 3, 3)
ComwareLegacyDriver == [ComwareSmbDriver EXCEPT !.password = 4]
Comware7Driver     == ComwareSmbDriver
HpeProcurveDriver  == Commands(1, 0, 3, 3)
EltexMesDriver     == Commands(1, 3, 4, 3)
DellPowerConnectDriver == CiscoIosDriver

\* Bulat and QTECH enter and leave the configuration mode by commands of the plan.
BulatBsDriver      == Commands(3, 5, 5, 5)
QtechQswDriver     == Commands(3, 5, 5, 5)
UnsupportedDriver  == [operation \in LegacyOperations |-> 0]

Drivers ==
    [huawei_vrp |-> HuaweiVrpDriver, cisco_ios |-> CiscoIosDriver, comware_smb |-> ComwareSmbDriver,
     comware_legacy |-> ComwareLegacyDriver, comware7 |-> Comware7Driver,
     hpe_procurve |-> HpeProcurveDriver, eltex_mes |-> EltexMesDriver,
     dell_powerconnect |-> DellPowerConnectDriver, bulat_bs |-> BulatBsDriver,
     qtech_qsw |-> QtechQswDriver, unsupported_cli |-> UnsupportedDriver]

\* CliDriver.plan: commands, then saving unless the plan only reads, then a check
\* of what was set.
Plan(device, driver, operation) ==
    LET n     == Drivers[driver][operation]
        reads == n = 0 \/ operation = "backup"
        check == IF operation \in {"acl", "vlan", "port"} THEN <<Step("verify", TRUE)>> ELSE <<>>
    IN  [device |-> device, driver |-> driver, operation |-> operation,
         readOnly |-> reads, type |-> PlanType(driver),
         steps |-> IF reads THEN Steps(n, "exec", TRUE)
                   ELSE Steps(n, "config", FALSE) \o <<Step("save", FALSE)>> \o check]

-----------------------------------------------------------------------------
(* The runtime decision of a plan                                          *)

\* LEGACY_DRIVER_TO_FAMILY
PlanFamilies ==
    [cisco_ios |-> "cisco_ios", huawei_vrp |-> "huawei_vrp", comware_smb |-> "hpe_comware",
     comware_legacy |-> "hpe_comware", comware7 |-> "hpe_comware",
     hpe_procurve |-> "hpe_procurve", dell_powerconnect |-> "dell_os", eltex_mes |-> "eltex",
     bulat_bs |-> "bulat", unsupported_cli |-> "unknown"]

\* runtime_decision_for_plan: the driver's family, QTECH's only for a plan that
\* reads, then the family of the device.
RuntimeForPlan(plan) ==
    LET own    == RuntimeForDevice(plan.device).family
        family == CASE plan.driver \in DOMAIN PlanFamilies          -> PlanFamilies[plan.driver]
                    [] plan.driver = "qtech_qsw" /\ plan.readOnly   -> "qtech"
                    [] OTHER -> IF own = "unknown" THEN None ELSE own
    IN  Decide([plan.device EXCEPT !.driver = None], family)

\* _plan_requires_config_apply
RequiresApply(plan, operation) ==
    \/ operation # "backup" /\ ~plan.readOnly
    \/ \E i \in DOMAIN plan.steps :
          \/ plan.steps[i].phase \in {"config", "save"}
          \/ ~plan.steps[i].readOnly /\ operation # "backup"

\* assert_plan_runtime_safe passes; d is the decision for the plan.
RuntimeSafe(plan, d, operation) ==
    /\ d.transport \notin {"unsupported", "icmp_only"}
    /\ ~RequiresApply(plan, operation)
    /\ d.reads

\* Mutant: the plan's steps are not looked at.
TransportUnchecked(plan, preference) ==
    LET d == RuntimeForPlan(plan) IN
    IF d.transport = "unsupported" THEN None
    ELSE IF preference = "paramiko" \/ plan.type = None THEN "paramiko"
    ELSE "netmiko"

\* The transport for a decision, or None when it raises.
TransportOf(plan, d, preference) ==
    LET netmiko  == d.transport = "netmiko" /\ plan.type # None
        paramiko == IF preference = "paramiko" THEN "paramiko" \in {d.transport, d.fallback}
                    ELSE \/ d.transport = "paramiko"
                         \/ d.transport = "custom_cli" /\ d.fallback = "paramiko"
    IN  IF ~RuntimeSafe(plan, d, plan.operation) THEN None
        ELSE IF preference # "paramiko" /\ netmiko THEN "netmiko"
        ELSE IF preference # "netmiko" /\ paramiko THEN "paramiko"
        ELSE None

\* transport_for_plan; the function has the one decision looked up once.
TransportForPlan(plan, preference) ==
    LET chosen == [d \in {RuntimeForPlan(plan)} |-> TransportOf(plan, d, preference)]
    IN  chosen[RuntimeForPlan(plan)]

\* selected_transport_label
TransportLabel(plan, preference) ==
    LET d == RuntimeForPlan(plan) IN
    IF preference = "netmiko" THEN "netmiko"
    ELSE IF preference = "paramiko" THEN "paramiko"
    ELSE IF d.transport = "netmiko" /\ plan.type # None THEN "netmiko"
    ELSE IF d.transport \in {"icmp_only", "unsupported"} THEN d.transport
    ELSE "paramiko"

-----------------------------------------------------------------------------
(* Running a plan                                                          *)

\* What a device does with a step: it answers in full, rejects the command,
\* says nothing, or loses the connection.  A cut answer seems to end before
\* its end: at a pause for Netmiko, at a line like a prompt for Paramiko.
StepReplies == {"whole", "rejected", "silent", "cut", "lost"}

\* CommandResult.failed: Netmiko takes silence for an empty answer; where it raises
\* instead, the reply is "lost".
Failed(transport, reply) ==
    reply = "rejected" \/ (reply = "silent" /\ transport = "paramiko")

\* The steps that one result is for: a run of configuration commands with
\* Netmiko, which _run_config_block sends together.
BlockEnd(transport, steps, i) ==
    IF transport # "netmiko" \/ steps[i].phase # "config" THEN i
    ELSE CHOOSE j \in i .. Len(steps) :
            /\ \A k \in i .. j : steps[k].phase = "config"
            /\ j < Len(steps) => steps[j + 1].phase # "config"

\* Mutant: a block has failed if its last command has.
RunStepsByLast(transport, steps, replies, stop) ==
    LET step(run, i) ==
            LET last == BlockEnd(transport, steps, i)
                bad  == Failed(transport, replies[last])
            IN  IF i <= run.sent \/ run.over THEN run
                ELSE [sent |-> last, failed |-> run.failed \/ bad, lost |-> replies[last] = "lost",
                      over |-> replies[last] = "lost" \/ (bad /\ stop)]
    IN  FoldLeft(step, [sent |-> 0, failed |-> FALSE, lost |-> FALSE, over |-> FALSE],
                 [i \in DOMAIN steps |-> i])

\* run_steps: how many steps are sent when step i gets replies[i], whether a result
\* is a failure, and whether the connection is lost; stop is stop_on_error.
RunSteps(transport, steps, replies, stop) ==
    LET step(run, i) ==
            LET last == BlockEnd(transport, steps, i)
                lost == \E k \in i .. last : replies[k] = "lost"
                bad  == \E k \in i .. last : Failed(transport, replies[k])
            IN  IF i <= run.sent \/ run.over THEN run
                ELSE [sent |-> last, failed |-> run.failed \/ bad, lost |-> lost,
                      over |-> lost \/ (bad /\ stop)]
    IN  FoldLeft(step, [sent |-> 0, failed |-> FALSE, lost |-> FALSE, over |-> FALSE],
                 [i \in DOMAIN steps |-> i])

\* What backup_config leaves: the file is written after a run that was not lost,
\* failed or not; a failed result is an exception all the same.
BackupFile(transport, steps, replies) ==
    LET run == RunSteps(transport, steps, replies, FALSE)
    IN  [exists |-> ~run.lost, raises |-> run.lost \/ run.failed,
         whole  |-> ~run.lost /\ \A i \in DOMAIN steps : replies[i] = "whole"]

NoFile == [exists |-> FALSE, raises |-> FALSE, whole |-> FALSE]

\* One device of the backup command: its plan may be empty, its transport refused.
BackupOf(plan, preference, replies) ==
    LET over == [transport \in {None, "netmiko", "paramiko"} |->
                    IF plan.steps = <<>> \/ transport = None THEN [NoFile EXCEPT !.raises = TRUE]
                    ELSE BackupFile(transport, plan.steps, replies)]
    IN  over[TransportForPlan(plan, preference)]

\* Device after device, up to the first that fails unless the command is to
\* continue; the exit code tells whether one has failed.
Summary(backups, continue) ==
    LET one(s, b) ==
            IF s.stopped THEN [s EXCEPT !.files = Append(@, NoFile)]
            ELSE [files   |-> Append(s.files, b),
                  exit    |-> IF b.raises THEN 1 ELSE s.exit,
                  stopped |-> b.raises /\ ~continue]
    IN  FoldLeft(one, [files |-> <<>>, exit |-> 0, stopped |-> FALSE], backups)

\* Mutant: a device without a backup plan is passed over.
BackupAllSkipping(plans, preference, replies, continue) ==
    Summary([i \in DOMAIN plans |-> IF plans[i].steps = <<>> THEN NoFile
                                    ELSE BackupOf(plans[i], preference, replies[i])],
            continue)

\* _backup
BackupAll(plans, preference, replies, continue) ==
    Summary([i \in DOMAIN plans |-> BackupOf(plans[i], preference, replies[i])], continue)
=============================================================================
