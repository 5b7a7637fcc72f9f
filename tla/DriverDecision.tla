--------------------------- MODULE DriverDecision ---------------------------
(***************************************************************************)
(* How a device record becomes a driver, a runtime family and a transport: *)
(* the capability matrix, the resolver of the device table, the hints of   *)
(* the Excel inventory, and the contracts whose templates are rendered.    *)
(*                                                                         *)
(* A record's vendor and platform are one mark each, its model the set of  *)
(* marks that some test of the code looks for in the text.  Marks that the *)
(* code tests alike are one ("s5720" is any model that begins like it);    *)
(* marks of one test ("hpe 1910") stand next to each other in the text.    *)
(* What a record has stored, by hand or by an earlier import, may be None. *)
(***************************************************************************)
EXTENDS SequencesExt

CONSTANT None

Words(device) == {device.vendor} \cup device.model
Text(device)  == Words(device) \cup {device.platform}

Shows(text, marks) == text \cap marks # {}

\* f @@ g, which has no definition that the proofs could expand.
Joined(f, g) == [x \in DOMAIN f \cup DOMAIN g |-> IF x \in DOMAIN f THEN f[x] ELSE g[x]]

-----------------------------------------------------------------------------
(* The capability matrix                                                   *)

CliPlanning == {"read_only", "prompt_detection", "privilege_mode", "config_mode",
                "config_staging", "commit_or_save", "rollback_prepare",
                "supports_dry_run", "requires_lab_certification"}
CustomPlanning == CliPlanning \ {"config_mode", "commit_or_save", "rollback_prepare"}
ReadOnly == {"read_only", "supports_dry_run"}

\* DriverRuntimeProfile: apply is config_apply_supported, reads is read_only_supported.
Profile(driver, transport, fallback, capabilities, apply, reads, models, platforms) ==
    [driver |-> driver, transport |-> transport, fallback |-> fallback,
     capabilities |-> capabilities, apply |-> apply, reads |-> reads,
     models |-> models, platforms |-> platforms]

Configurable(driver, fallback, models, platforms) ==
    Profile(driver, "netmiko", fallback, CliPlanning, TRUE, TRUE, models, platforms)
OwnCli(driver, capabilities, models, platforms) ==
    Profile(driver, "custom_cli", "paramiko", capabilities, FALSE, TRUE, models, platforms)
NoCli(driver, models, platforms) ==
    Profile(driver, "unsupported", None, {}, FALSE, FALSE, models, platforms)

MainProfiles ==
    [cisco_ios       |-> Configurable("CiscoIOSDriver", "paramiko", {"catalyst"}, {"ios"}),
     cisco_nxos      |-> Configurable("CiscoNXOSDriver", "paramiko", {"nexus"}, {"nxos"}),
     cisco_asa       |-> Configurable("CiscoASADriver", "custom_cli", {"asa"}, {"asa"}),
     huawei_vrp      |-> Configurable("HuaweiVRPDriver", "paramiko", {"s5720", "vrp"}, {"vrp"}),
     limited_web     |-> NoCli("LimitedWebInventoryDriver", {"1620", "des1100", "unmanaged"},
                               {"limited_web"}),
     hpe_comware     |-> Configurable("HPComwareDriver", "custom_cli",
                                      {"1910", "1950", "5130", "s4210"}, {"comware"}),
     hpe_procurve    |-> Configurable("HPEProCurveDriver", "custom_cli", {"2530", "procurve"},
                                      {"procurve"}),
     aruba_os_switch |-> Configurable("HPEProCurveDriver", "custom_cli", {"aruba"},
                                      {"aruba_os_switch"})]

OtherProfiles ==
    [qtech       |-> OwnCli("QtechQswDriver", ReadOnly, {"qsw-3750"}, {"qtech", "qsw"}),
     dell_os     |-> Configurable("DellPowerConnectDriver", "custom_cli", {"powerconnect"},
                                  {"dell", "powerconnect"}),
     eltex       |-> OwnCli("EltexMESDriver", CustomPlanning, {"mes2348"}, {"eltex-mes", "mes"}),
     bulat       |-> OwnCli("BulatBSDriver", CustomPlanning, {"bs2500", "bk-a837"},
                            {"bulat", "bulat-bs"}),
     non_switch  |-> NoCli("NonSwitchInventoryDriver",
                           {"securitycode", "continent", "security appliance"}, {"non_switch"}),
     generic_ssh |-> Profile("GenericSSHDriver", "paramiko", "custom_cli", ReadOnly, FALSE, TRUE,
                             {"unknown product", "generic"}, {"generic", "ssh"}),
     icmp        |-> Profile("ReadOnlyICMPDriver", "icmp_only", None, {"read_only"}, FALSE, TRUE,
                             {"icmp"}, {"icmp", "icmp-only"}),
     unknown     |-> NoCli("UnsupportedDriver", {}, {})]

Profiles == Joined(MainProfiles, OtherProfiles)
DeviceFamilies == DOMAIN Profiles

\* The order of the profiles that a text is matched against.
Order == <<"cisco_ios", "cisco_nxos", "cisco_asa", "huawei_vrp", "limited_web",
           "hpe_comware", "hpe_procurve", "aruba_os_switch", "qtech", "dell_os",
           "eltex", "bulat", "non_switch", "generic_ssh", "icmp">>

\* DRIVER_NAME_TO_FAMILY has none of the names that are not listed.
DriverFamily ==
    [CiscoIOSDriver |-> "cisco_ios", HuaweiVRPDriver |-> "huawei_vrp",
     HPComwareDriver |-> "hpe_comware", HPEProCurveDriver |-> "hpe_procurve",
     DellPowerConnectDriver |-> "dell_os", QtechQswDriver |-> "qtech",
     EltexMESDriver |-> "eltex", BulatBSDriver |-> "bulat",
     LimitedWebInventoryDriver |-> "limited_web", NonSwitchInventoryDriver |-> "non_switch",
     GenericSSHDriver |-> "generic_ssh", ReadOnlyICMPDriver |-> "icmp"]

\* The family that the text alone decides, before anything stored is looked at.
FamilyByText(device) ==
    LET text == Text(device) IN
    IF Shows(text, {"icmp", "icmp-only"}) THEN "icmp"
    ELSE IF device.vendor = "unknown" THEN "unknown"
    ELSE IF Shows(text, {"unknown product"}) THEN "unknown"
    ELSE IF Shows(text, {"securitycode", "continent"}) THEN "non_switch"
    ELSE IF Shows(text, {"des1100"}) THEN "limited_web"
    ELSE IF Shows(text, {"generic"}) THEN "generic_ssh"
    ELSE None

\* The first profile whose patterns find something.
FamilyByPattern(device) ==
    LET found(family) == \/ Shows(Words(device), Profiles[family].models)
                         \/ device.platform \in Profiles[family].platforms
        i == SelectInSeq(Order, found)
    IN  IF i = 0 THEN "unknown" ELSE Order[i]

\* What is stored: a family that is given, or that of a driver name.
FamilyStored(device, family) ==
    IF family \in DeviceFamilies THEN family
    ELSE IF device.driver \in DOMAIN DriverFamily THEN DriverFamily[device.driver] ELSE None

\* Mutant: what is stored is looked at first.
MatchStoredFirst(device, family) ==
    LET stored == FamilyStored(device, family)
        byText == FamilyByText(device)
    IN  IF stored # None THEN stored
        ELSE IF byText # None THEN byText ELSE FamilyByPattern(device)

\* DriverCapabilityMatrix._match_profile
Match(device, family) ==
    LET stored == FamilyStored(device, family)
        byText == FamilyByText(device)
    IN  IF byText # None THEN byText
        ELSE IF stored # None THEN stored
        ELSE FamilyByPattern(device)

\* TransportDecision of a profile; no decision allows configuration.
Decision(family, driver) ==
    LET p == Profiles[family]
    IN  [family |-> family, driver |-> IF driver = None THEN p.driver ELSE driver,
         transport |-> p.transport, fallback |-> p.fallback,
         capabilities |-> p.capabilities, reads |-> p.reads, applyAllowed |-> FALSE]

\* DriverCapabilityMatrix.decide
Decide(device, family) == Decision(Match(device, family), device.driver)

-----------------------------------------------------------------------------
(* Where the stored driver comes from                                      *)

\* Mutant: the switches of other series are Comware too.
ResolveWider(device) ==
    LET text == Words(device) IN
    IF Shows(text, {"icmp"}) THEN "ReadOnlyICMPDriver"
    ELSE IF Shows(text, {"unknown product"}) THEN "GenericSSHDriver"
    ELSE IF device.vendor = "huawei" \/ Shows(text, {"s5720"}) THEN "HuaweiVRPDriver"
    ELSE IF Shows(text, {"hpe", "3com"}) THEN "HPComwareDriver"
    ELSE IF device.vendor = "eltex" \/ Shows(text, {"mes2348"}) THEN "EltexMESDriver"
    ELSE IF device.vendor = "bulat" \/ Shows(text, {"bs2500"}) THEN "BulatBSDriver"
    ELSE IF device.vendor = "cisco" \/ Shows(text, {"catalyst"}) THEN "CiscoIOSDriver"
    ELSE IF device.vendor = "dell" \/ Shows(text, {"powerconnect"}) THEN "DellPowerConnectDriver"
    ELSE "GenericSSHDriver"

\* DriverResolver.resolve, which the import of a device list stores.
Resolve(device) ==
    LET text == Words(device)
        hpe(marks) == "hpe" \in text /\ Shows(text, marks)
    IN  IF Shows(text, {"icmp"}) THEN "ReadOnlyICMPDriver"
        ELSE IF Shows(text, {"unknown product"}) THEN "GenericSSHDriver"
        ELSE IF device.vendor = "huawei" \/ Shows(text, {"s5720"}) THEN "HuaweiVRPDriver"
        ELSE IF hpe({"1910", "5130"}) \/ {"3com", "s4210"} \subseteq text THEN "HPComwareDriver"
        ELSE IF hpe({"2530"}) THEN "HPEProCurveDriver"
        ELSE IF device.vendor = "eltex" \/ Shows(text, {"mes2348"}) THEN "EltexMESDriver"
        ELSE IF device.vendor = "bulat" \/ Shows(text, {"bs2500"}) THEN "BulatBSDriver"
        ELSE IF device.vendor = "cisco" \/ Shows(text, {"catalyst"}) THEN "CiscoIOSDriver"
        ELSE IF device.vendor = "dell" \/ Shows(text, {"powerconnect"}) THEN "DellPowerConnectDriver"
        ELSE "GenericSSHDriver"

\* normalize_vendor: the vendor that an import stores.
NormalVendor(device) ==
    LET text == Words(device)
        marks == <<<<{"huawei", "s5720"}, "huawei">>, <<{"bulat", "bs2500"}, "bulat">>,
                   <<{"eltex", "mes2348"}, "eltex">>, <<{"qtech", "qsw-3750", "qsw-2800"}, "qsw">>,
                   <<{"3com"}, "3com">>, <<{"hpe"}, "hpe">>, <<{"dell", "powerconnect"}, "dell">>,
                   <<{"cisco", "catalyst"}, "cisco">>, <<{"d-link", "des1100"}, "d-link">>,
                   <<{"continent"}, "continent">>, <<{"icmp"}, "icmp">>>>
        shown(m) == Shows(text, m[1])
        i == SelectInSeq(marks, shown)
    IN  IF i = 0 THEN device.vendor ELSE marks[i][2]

\* infer_platform, of a vendor that is normal.
InferPlatform(vendor, model) ==
    CASE vendor = "huawei"                                      -> "vrp"
      [] vendor = "hpe" /\ Shows(model, {"1910", "5130"})       -> "comware"
      [] vendor = "3com" /\ Shows(model, {"s4210"})             -> "comware"
      [] vendor = "hpe" /\ Shows(model, {"2530"})               -> "procurve"
      [] vendor = "cisco"                                       -> "ios"
      [] vendor = "dell"                                        -> "powerconnect"
      [] vendor = "bulat"                                       -> "bulat-bs"
      [] vendor = "eltex"                                       -> "eltex-mes"
      [] vendor = "icmp"                                        -> "icmp-only"
      [] OTHER                                                  -> vendor

\* The record that an import makes of a row: the vendor stays as it was given, the
\* driver and the platform are those of the normal vendor.
Imported(device) ==
    LET normal == [device EXCEPT !.vendor = NormalVendor(device)]
    IN  [device EXCEPT !.platform = IF @ = None THEN InferPlatform(normal.vendor, device.model)
                                    ELSE @,
                       !.driver   = Resolve(normal)]

\* infer_runtime_hints: driver and platform of a row of the Excel inventory.
Hints(device) ==
    LET text == Words(device) IN
    IF Shows(text, {"icmp"}) THEN <<"ReadOnlyICMPDriver", "icmp">>
    ELSE IF Shows(text, {"unknown product"}) THEN <<None, None>>
    ELSE IF Shows(text, {"securitycode", "continent", "security appliance"})
         THEN <<"NonSwitchInventoryDriver", "non_switch">>
    ELSE IF Shows(text, {"des1100", "unmanaged"})
         THEN <<"LimitedWebInventoryDriver", "limited_web">>
    ELSE IF Shows(text, {"generic"}) THEN <<"GenericSSHDriver", "generic">>
    ELSE IF Shows(text, {"qsw-3750"}) THEN <<"QtechQswDriver", "qtech">>
    ELSE IF Shows(text, {"s5720", "vrp"}) THEN <<"HuaweiVRPDriver", "vrp">>
    ELSE IF Shows(text, {"catalyst"}) THEN <<"CiscoIOSDriver", "ios">>
    ELSE IF Shows(text, {"1620"}) THEN <<"LimitedWebInventoryDriver", "limited_web">>
    ELSE IF Shows(text, {"procurve", "2530"}) THEN <<"HPEProCurveDriver", "procurve">>
    ELSE IF Shows(text, {"1910", "1950", "5130", "s4210"}) THEN <<"HPComwareDriver", "comware">>
    ELSE IF Shows(text, {"mes2348"}) THEN <<"EltexMESDriver", "mes">>
    ELSE IF Shows(text, {"bs2500", "bk-a837"}) THEN <<"BulatBSDriver", "bulat">>
    ELSE IF Shows(text, {"powerconnect"}) THEN <<"DellPowerConnectDriver", "dell">>
    ELSE <<None, None>>

\* _normalize_vendor of the Excel inventory
ExcelVendor(device) ==
    IF device.vendor \in {"hpe", "3com"} THEN "hpe"
    ELSE IF device.vendor = "qtech" \/ Shows(device.model, {"qsw-3750", "qsw-2800"}) THEN "qtech"
    ELSE IF device.vendor = "d-link" THEN "d-link"
    ELSE IF Shows(Words(device), {"securitycode", "continent"}) THEN "securitycode"
    ELSE device.vendor

\* _device_from_row, without the category of the device, which hints look at too.
ReadFromExcel(device) ==
    LET row == [device EXCEPT !.vendor = ExcelVendor(device)]
    IN  [row EXCEPT !.driver = Hints(row)[1], !.platform = Hints(row)[2]]

-----------------------------------------------------------------------------
(* Contracts and templates                                                 *)

CandidateOperations == {"read_backup", "password_change", "vlan_create", "vlan_assign_port",
                        "port_description", "port_enable_disable", "acl_update"}

\* VendorDriverContract: what is not supported is forbidden; reads is the command
\* that shows the whole configuration, level the apply_support_level.  No contract
\* is certified.
Contract(transport, fallback, operations, templates, reads, level) ==
    [transport |-> transport, fallback |-> fallback, operations |-> operations,
     templates |-> templates, reads |-> reads, level |-> level]

LabCandidate(fallback, templates, reads) ==
    Contract("netmiko", fallback, CandidateOperations, templates, reads, "lab_apply_candidate")
BackupOnly(transport, fallback, level) ==
    Contract(transport, fallback, {"read_backup"}, {}, "show running-config", level)
Nothing(transport, level) == Contract(transport, None, {}, {}, None, level)

CiscoContracts ==
    [cisco_ios  |-> LabCandidate("paramiko", {"password_change", "vlan_create", "vlan_assign_port"},
                              "show running-config"),
     cisco_nxos |-> LabCandidate("paramiko", {}, "show running-config"),
     cisco_asa  |-> BackupOnly("netmiko", "custom_cli", "dry_run_only")]

HuaweiAndHpeContracts ==
    [huawei_vrp      |-> LabCandidate("paramiko", {"password_change", "vlan_create"},
                                   "display current-configuration"),
     hpe_comware     |-> LabCandidate("custom_cli", {"vlan_create", "vlan_assign_port"},
                                   "display current-configuration"),
     hpe_procurve    |-> LabCandidate("custom_cli", {"vlan_create", "vlan_assign_port"},
                                   "show running-config"),
     aruba_os_switch |-> LabCandidate("custom_cli", {}, "show running-config")]

QtechToNonSwitchContracts ==
    [qtech       |-> BackupOnly("custom_cli", "paramiko", "read_only_only"),
     dell_os     |-> LabCandidate("custom_cli", {"vlan_create"}, "show running-config"),
     limited_web |-> Nothing("unsupported", "unsupported"),
     non_switch  |-> Nothing("unsupported", "unsupported")]

EltexToUnknownContracts ==
    [eltex       |-> BackupOnly("custom_cli", "paramiko", "read_only_only"),
     bulat       |-> BackupOnly("custom_cli", "paramiko", "read_only_only"),
     generic_ssh |-> BackupOnly("paramiko", "custom_cli", "read_only_only"),
     icmp        |-> Nothing("icmp_only", "read_only_only"),
     unknown     |-> Nothing("unsupported", "unsupported")]

Contracts == Joined(Joined(CiscoContracts, HuaweiAndHpeContracts),
                    Joined(QtechToNonSwitchContracts, EltexToUnknownContracts))

\* None is no family, driver or platform, no mark of a text, no transport and no command.
ASSUME DriverDecisionAssumption ==
    /\ None \notin DeviceFamilies \cup {"unknown product", "continent", "securitycode", "des1100"}
                   \cup {"netmiko", "paramiko"}
                   \cup {"show running-config", "display current-configuration"}
    /\ None \notin DOMAIN DriverFamily
    /\ \A f \in DeviceFamilies : None \notin Profiles[f].platforms

\* VendorCommandTemplateService.render finds commands for the operation.
Renders(family, operation) ==
    LET c == Contracts[family]
    IN  operation \in c.operations /\ (operation = "read_backup" \/ operation \in c.templates)

-----------------------------------------------------------------------------
(* Sessions                                                                *)

\* _netmiko_device_type, by the driver of the decision and not by its family.
NetmikoTypes ==
    [CiscoIOSDriver |-> "cisco_ios", CiscoNXOSDriver |-> "cisco_nxos",
     CiscoASADriver |-> "cisco_asa", HuaweiVRPDriver |-> "huawei_vrp",
     HPComwareDriver |-> "hp_comware", HPEProCurveDriver |-> "hp_procurve",
     DellPowerConnectDriver |-> "dell_powerconnect"]
NetmikoType(decision) ==
    IF decision.driver \in DOMAIN NetmikoTypes THEN NetmikoTypes[decision.driver]
    ELSE decision.family

\* LabSshTransportFactory.create, None when it refuses.
LabTransport(decision, readOnly) ==
    CASE decision.transport \in {"netmiko", "paramiko"} -> decision.transport
      [] decision.transport = "custom_cli" /\ decision.fallback = "paramiko" /\ readOnly
                                                        -> "paramiko"
      [] OTHER                                          -> None
=============================================================================
