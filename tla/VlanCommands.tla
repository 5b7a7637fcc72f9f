---------------------------- MODULE VlanCommands ----------------------------
(***************************************************************************)
(* The commands that VlanPlanService renders for a device, the rollback it *)
(* derives from a config snapshot, and the risk VlanImpactService reports. *)
(* A list of commands stands for the one operation it performs; what it    *)
(* does to a device is the meaning of its CLI lines in each vendor family. *)
(*                                                                         *)
(* A configuration is what matters to one VLAN and one interface: the name *)
(* the VLAN has (NoVlan, or NoName), the mode of the interface, its access *)
(* VLAN (NoVlan: the default one), whether its trunk carries the VLAN, and *)
(* what the service finds in its text for the name and the access VLAN.    *)
(***************************************************************************)
EXTENDS Integers

CONSTANTS NoVlan, NoName, NoCommands

Families == {"huawei", "cisco", "comware", "procurve"}

\* The driver names that _renderer_family knows, and the family of each.
FamilyOf == [HuaweiVRPDriver |-> "huawei", CiscoIOSDriver |-> "cisco",
             HPComwareDriver |-> "comware", HPEProCurveDriver |-> "procurve",
             DellPowerConnectDriver |-> "cisco"]

Operations == {"create_vlan", "rename_vlan", "delete_vlan", "assign_access_vlan",
               "remove_access_vlan", "add_trunk_vlan", "remove_trunk_vlan"}
InterfaceOperations == {"assign_access_vlan", "remove_access_vlan",
                        "add_trunk_vlan", "remove_trunk_vlan"}

\* validate_vlan_id accepts the identifier.
ValidVlan(v) == v \in 2 .. 4094 /\ v \notin 1002 .. 1005

Command(operation, vlan, name) == [operation |-> operation, vlan |-> vlan, name |-> name]

-----------------------------------------------------------------------------
(* What the service reads off a snapshot                                   *)

\* _detect_vlan_name: the first line with a name or a description after the VLAN's
\* header and before the next VLAN or interface, which need not be the name that
\* the commands set, nor of this VLAN; NoName if there is none.
DetectedName(config) == config.text.name

\* Mutant: the section of the interface is not found.
AccessNotFound(family, config) == NoVlan

\* _detect_access_vlan: what the first section says whose header begins like that of
\* the interface; it may be another one (Ethernet1/1 for Ethernet1).  ProCurve lists
\* untagged ports in the section of the VLAN, where it does not look.
DetectedAccess(family, config) ==
    IF family = "procurve" THEN NoVlan ELSE config.text.access

\* build_device_rollback_plan
Rollback(operation, vlan, family, config) ==
    LET name   == DetectedName(config)
        access == DetectedAccess(family, config)
    IN  CASE operation = "create_vlan"  -> Command("delete_vlan", vlan, NoName)
          [] operation = "rename_vlan"  ->
               IF name = NoName THEN NoCommands ELSE Command("rename_vlan", vlan, name)
          [] operation = "delete_vlan"  -> Command("create_vlan", vlan, name)
          [] operation = "assign_access_vlan" ->
               IF access = NoVlan THEN Command("remove_access_vlan", vlan, NoName)
               ELSE Command("assign_access_vlan", access, NoName)
          [] operation = "remove_access_vlan" ->
               IF access = NoVlan THEN NoCommands
               ELSE Command("assign_access_vlan", access, NoName)
          [] operation = "add_trunk_vlan"     -> Command("remove_trunk_vlan", vlan, NoName)
          [] operation = "remove_trunk_vlan"  -> Command("add_trunk_vlan", vlan, NoName)

-----------------------------------------------------------------------------
(* What a device makes of the commands                                     *)

\* The name of the VLAN once its section is entered: NoName for a VLAN that is new.
KeptName(config) == IF config.name = NoVlan THEN NoName ELSE config.name

\* create_vlan and rename_vlan are rendered alike: the VLAN section is entered,
\* which creates the VLAN, and a name line follows if there is a name.
\* remove_access_vlan takes the port out of its access VLAN, ProCurve's only out
\* of the VLAN it names; the other families make the port an access port first.
Applied(command, vlan, family, config) ==
    CASE command.operation \in {"create_vlan", "rename_vlan"} ->
           [config EXCEPT !.name = IF command.name # NoName THEN command.name
                                   ELSE KeptName(config)]
      [] command.operation = "delete_vlan" -> [config EXCEPT !.name = NoVlan]
      [] command.operation = "assign_access_vlan" ->
           [config EXCEPT !.access = command.vlan,
                          !.mode = IF family = "procurve" THEN @ ELSE "access"]
      [] command.operation = "remove_access_vlan" ->
           [config EXCEPT !.access = IF family = "procurve" /\ @ # command.vlan
                                     THEN @ ELSE NoVlan]
      [] command.operation = "add_trunk_vlan"    -> [config EXCEPT !.trunk = TRUE]
      [] command.operation = "remove_trunk_vlan" -> [config EXCEPT !.trunk = FALSE]

\* The change has nothing to change.
InPlace(operation, config) ==
    CASE operation = "create_vlan"       -> config.name # NoVlan
      [] operation = "delete_vlan"       -> config.name = NoVlan
      [] operation = "add_trunk_vlan"    -> config.trunk
      [] operation = "remove_trunk_vlan" -> ~config.trunk
      [] OTHER                           -> FALSE

-----------------------------------------------------------------------------
(* Impact                                                                  *)

\* Mutant: the two first branches are swapped.
RiskSwapped(operation, access, trunk) ==
    IF operation \in {"delete_vlan", "add_trunk_vlan", "remove_trunk_vlan"} THEN "high"
    ELSE IF operation = "remove_access_vlan" /\ access > 0 THEN "critical" ELSE "medium"

\* _detect_ports: how many ports are in the VLAN, untagged and tagged.
AccessPorts(vlan, config) == IF config.access = vlan THEN 1 ELSE 0
TrunkPorts(config)        == IF config.trunk THEN 1 ELSE 0

\* estimate_risk, from the ports that the snapshots show in the VLAN.
Risk(operation, access, trunk) ==
    IF operation \in {"delete_vlan", "remove_access_vlan"} /\ access > 0 THEN "critical"
    ELSE IF operation \in {"delete_vlan", "add_trunk_vlan", "remove_trunk_vlan"} THEN "high"
    ELSE IF operation = "rename_vlan" THEN "medium"
    ELSE IF access = 0 /\ trunk = 0 THEN "low" ELSE "medium"
=============================================================================
