----------------------------- MODULE MCPlanning -----------------------------
(***************************************************************************)
(* Checks the calculations of the services for every small input: the      *)
(* batches of a password rollout, the rollback and the risk of a VLAN      *)
(* change, the next run of a backup schedule, the output that a reader     *)
(* takes for the whole configuration, the import of a device list, the     *)
(* driver and the session of a device, the runs of the command line, and   *)
(* what the services and the reports make of a device's evidence.          *)
(***************************************************************************)
EXTENDS CanaryPlan, VlanCommands, BackupSchedule, LabSession, CleanOutput, InventoryImport,
        PlanFiles, LabGates, DeviceReadiness

-----------------------------------------------------------------------------
(* One call of one of the calculations                                     *)

CONSTANTS
    MaxCount,    \* bound of the number of devices
    MaxSize,     \* bound of a requested batch size
    MaxBatches,  \* bound of the number of requested sizes
    Names,       \* names a VLAN may have
    Vlan, Other, \* the VLAN of the request, and another one
    CronMinutes, \* minute fields tried
    CronHours,   \* hour fields tried
    CronDates,   \* day, month and weekday fields tried
    NearMinutes, \* the minutes of the hour at which a schedule is calculated
    MaxChunks,   \* bound of the chunks before the last of a reply
    MaxLines,    \* bound of the lines of a configuration
    MaxRows,     \* bound of the rows of an imported list
    NotYet       \* no answer yet

\* The expressions of five fields that are tried.
CronFields ==
    [minute : {Star} \cup CronMinutes, hour : {Star} \cup CronHours,
     day : {Star} \cup CronDates, month : {Star} \cup CronDates, weekday : {Star} \cup CronDates]

ASSUME PlanningAssumption ==
    /\ {MaxCount, MaxSize, MaxBatches, MaxChunks, MaxLines, MaxRows} \subseteq Nat
    \* What stands for the absence of something is not one of the things.
    /\ NoVlan \notin {NoName, Vlan} \cup Names
    \* A datetime is made of fields in their ranges.
    /\ CronMinutes \subseteq Minutes /\ CronHours \subseteq Hours
    /\ Star \notin Minutes /\ Hourly # Daily
    /\ {cron \in CronFields : cron \in {Hourly, Daily}} = {}
    \* The prompt that ends a reply looks like one.
    /\ "<sw>" \in PromptLines

\* The requested plans: none, or sizes from 1.
SmallRequests == UNION {[1 .. n -> 1 .. MaxSize] : n \in 0 .. MaxBatches}

\* What is found in a snapshot for the name of the VLAN and the access VLAN of the port.
Findings == [name : {NoName} \cup Names, access : {NoVlan, Vlan, Other}]

Configs == [name : {NoVlan, NoName} \cup Names, mode : {"access", "trunk"},
            access : {NoVlan, Vlan, Other}, trunk : BOOLEAN, text : Findings]

Preferences == {"auto", "netmiko", "paramiko"}

\* The answer to a command: the prompt comes last, or the device falls silent.
Answers(command, endings, n) ==
    UNION {[1 .. k -> Chunks(command, endings)] : k \in 0 .. n}
Ended(command, answers) == {a \o <<[of |-> command, ends |-> "prompt", slow |-> TRUE]>> : a \in answers}

SetupReplies == Ended("setup", Answers("setup", {"text", "lookalike"}, 1))
Replies == LET open == Answers("backup", {"text", "lookalike", "marker"}, MaxChunks)
           IN  {a \in open : a = <<>> \/ a[Len(a)].slow} \cup Ended("backup", open)

\* Answers to the commands of a change: they end in a prompt, or do not end.
AnswerStarts == {<<>>} \cup {<<c>> : c \in AnswerChunk({"text", "lookalike"})}
EndedWith(start, error) == start \o <<[ends |-> "prompt", slow |-> TRUE, error |-> error]>>
CommandAnswers == AnswerStarts \cup {EndedWith(a, e) : a \in AnswerStarts, e \in BOOLEAN}
Greetings == {<<>>, <<[ends |-> "prompt", slow |-> TRUE, error |-> FALSE]>>}

\* Configurations as a device prints them: no blank line at an end, or after another.
Printed == {c \in UNION {[1 .. n -> {"a", "b", "#", "[x]", "blank"}] : n \in 0 .. MaxLines} :
              SingleBlanks(c) = c}
Blanks(n) == [i \in 1 .. n |-> "blank"]

UniqueNames(table) ==
    \A a, b \in DOMAIN table :
        (/\ table[a] # NoDevice /\ table[b] # NoDevice
         /\ table[a].name = table[b].name /\ table[a].name # NoHostname) => a = b

\* Devices as earlier imports leave them.
Known == [name : Names \cup {NoHostname}, credential : {"missing"}, assignments : {0}]
         \cup [name : Names \cup {NoHostname}, credential : {"assigned"}, assignments : {1}]
Tables == {t \in [Addresses -> {NoDevice} \cup Known] : UniqueNames(t)}
Lists  == UNION {[1 .. n -> Rows(Names)] : n \in 1 .. MaxRows}

\* The products of each vendor, as its model texts show them: those that the code
\* knows, and for some vendors one that no pattern finds.
ProductsOf(vendor) ==
    CASE vendor = "cisco"   -> {"catalyst", "nexus", "asa"}
      [] vendor = "huawei"  -> {"s5720", "s9300"}
      [] vendor = "hpe"     -> {"1620", "1910", "1950", "5130", "2530", "procurve"}
      [] vendor = "3com"    -> {"s4210"}
      [] vendor = "qtech"   -> {"qsw-3750", "qsw-2800"}
      [] vendor = "dell"    -> {"powerconnect", "n1500"}
      [] vendor = "eltex"   -> {"mes2348"}
      [] vendor = "bulat"   -> {"bs2500", "bk-a837"}
      [] vendor = "d-link"  -> {"des1100", "des3200"}
      [] OTHER              -> {}
Vendors == {"cisco", "huawei", "hpe", "3com", "qtech", "dell", "eltex", "bulat", "d-link",
            "aruba", "securitycode", "unknown"}
Notes == {"icmp", "unknown product", "continent", "security appliance", "generic", "unmanaged"}

Singles(marks) == {{}} \cup {{m} : m \in marks}
Models == {p \cup n : p \in Singles(UNION {ProductsOf(v) : v \in Vendors}), n \in Singles(Notes)}

\* A device, another one that is known by name only, and what is stored of them.
Now == 100
Written == [text : {"vendor"}, upper : BOOLEAN]
Evidenced == [id : {1}, vendor : {[text |-> "vendor", upper |-> FALSE]}, driver : Written,
              model : {"model"}, status : {"known", "unreachable", "new"},
              discovery : {"unknown"}, seen : {FALSE},
              credential : {"unknown", "assigned", "invalid"}]
Bare == [id |-> 2, vendor |-> [text |-> "other", upper |-> FALSE],
         driver |-> [text |-> "other", upper |-> FALSE], model |-> "other", status |-> "known",
         discovery |-> "unreachable", seen |-> FALSE, credential |-> "missing"]
SnapshotSets == LET rows == [device : 1 .. 2, at : {Now - Freshness - 1, Now - Freshness, Now}]
                IN  {s \in SUBSET rows : Cardinality(s) <= 2}
ValidationRows ==
    [vendor : {[text |-> "vendor", upper |-> TRUE], [text |-> "other", upper |-> FALSE]},
     driver : {[text |-> "vendor", upper |-> FALSE]}, pattern : {"any", "model", "other"},
     capability : {"create_vlan", "vlan_change", "password_change"},
     status : {"approved", "rejected"}, expires : {Never, Now, Now + 1}]
ValidationSets == Singles(ValidationRows)

\* Records of every vendor with every model, and whatever is stored with them.
Records == [vendor : Vendors, model : Models, platform : {None, "ios", "icmp"},
            driver : {None, "CiscoIOSDriver", "HuaweiVRPDriver", "CiscoNXOSDriver"},
            family : {None, "hpe_comware"}]

\* Devices of the command line: with a Netmiko type, with Paramiko only, with
\* another vendor's stored driver, and without a plan.
Lab == {[vendor |-> "cisco", model |-> {"catalyst"}, platform |-> None, driver |-> None,
         family |-> None],
        [vendor |-> "bulat", model |-> {"bs2500"}, platform |-> None, driver |-> None,
         family |-> None],
        [vendor |-> "d-link", model |-> {"des1100"}, platform |-> None, driver |-> None,
         family |-> None]}

\* The inputs of each calculation.
CanaryProblems == [kind : {"canary"}, count : 1 .. MaxCount, requested : SmallRequests]

VlanProblems ==
    [kind : {"vlan"}, operation : Operations, family : Families,
     name : {NoName} \cup Names, config : Configs]

Moments == {t \in 0 .. MinutesPerDay - 1 : MinuteOf(t) \in NearMinutes}
ScheduleProblems ==
    [kind : {"schedule"}, now : Moments, cron : {Hourly, Daily} \cup CronFields]

BackupProblems ==
    [kind : {"backup"}, transport : Transports, setup : SetupReplies, reply : Replies,
     setupDeadline : 0 .. 2, deadline : {0, 2, 9}]

SessionProblems ==
    [kind : {"session"}, transport : Transports, accepted : BOOLEAN, greeting : Greetings,
     answers : [1 .. 2 -> CommandAnswers], deadline : 1 .. 3]

CleanProblems ==
    [kind : {"clean"}, config : Printed, echo : BOOLEAN, prompt : BOOLEAN, gap : {0, 2},
     tail : {0, 2}, break : {"none", "marker", "erased"}, page : 0 .. MaxLines]

ImportProblems ==
    [kind : {"import"}, table : Tables, rows : Lists, strict : BOOLEAN, dryRun : BOOLEAN]

DriverProblems == [kind : {"driver"}, device : Records]

CaptureProblems ==
    [kind : {"capture"}, devices : Lab \X Lab, preference : Preferences,
     replies : [1 .. 2 -> [1 .. 2 -> StepReplies]], continue : BOOLEAN]

ApplyProblems ==
    [kind : {"apply"}, driver : DOMAIN PlanTypes \cup {"bulat_bs"}, operation : {"password", "vlan"},
     replies : [1 .. 4 -> {"whole", "rejected", "silent"}]]

FileProblems ==
    [kind : {"file"}, driver : DOMAIN Drivers, operation : LegacyOperations, bare : BOOLEAN,
     redact : BOOLEAN, version : {1, 2}, canary : {None, 0, 1, 3}, dryRun : BOOLEAN,
     showSecrets : BOOLEAN]

EvidenceProblems ==
    [kind : {"evidence"}, device : Evidenced, snapshots : SnapshotSets,
     validations : ValidationSets]

Problems ==
    CanaryProblems \cup VlanProblems \cup ScheduleProblems \cup BackupProblems
    \cup SessionProblems \cup CleanProblems \cup ImportProblems \cup DriverProblems
    \cup CaptureProblems \cup ApplyProblems \cup FileProblems \cup EvidenceProblems

VARIABLES problem, answer

vars == <<problem, answer>>

Init == problem \in Problems /\ answer = NotYet

Solve(kind, solution) ==
    /\ answer = NotYet
    /\ problem.kind = kind
    /\ answer' = solution
    /\ UNCHANGED problem

Batches == NormalizeCanaryPlan(problem.count, problem.requested)
Change  == [rollback |-> Rollback(problem.operation, Vlan, problem.family, problem.config),
            risk     |-> Risk(problem.operation, AccessPorts(Vlan, problem.config),
                              TrunkPorts(problem.config))]
Due     == NextRun(problem.cron, problem.now)
Backup  == Collect(problem.transport, problem.setup, problem.reply,
                   problem.setupDeadline, problem.deadline)
Session ==
    LET session == ApplyPlan(problem.transport, problem.accepted, problem.greeting,
                             problem.answers, problem.deadline)
    IN  [sent |-> session.sent, result |-> ApplyResult(session)]

\* The reply of a device, with at most one page break.
Raw ==
    LET k    == IF problem.page > Len(problem.config) THEN Len(problem.config) ELSE problem.page
        page == SubSeq(problem.config, 1, k)
        rest == SubSeq(problem.config, k + 1, Len(problem.config))
    IN  (IF problem.echo THEN <<"echo">> ELSE <<>>) \o Blanks(problem.gap)
        \o page \o (IF problem.break = "none" THEN <<>> ELSE <<problem.break>>) \o rest
        \o Blanks(problem.tail) \o (IF problem.prompt THEN <<"<sw>">> ELSE <<>>)
Cleaned  == Clean(Raw)
Imports  == Import(problem.table, problem.rows, problem.strict, problem.dryRun)

\* The same record as the device table, the Excel inventory and the command line
\* read it, and with what is stored.
Decisions ==
    LET device == problem.device
    IN  [stored |-> Decide(device, device.family),
         table  |-> Decide(Imported(device), None),
         excel  |-> Decide(ReadFromExcel(device), None),
         legacy |-> DriverFor(device)]
Captured ==
    BackupAll([i \in 1 .. 2 |->
                 Plan(problem.devices[i], DriverFor(problem.devices[i]), "backup")],
              problem.preference, problem.replies, problem.continue)

\* The replies of a plan's steps: the fourth one is that of the save.
Answered == LET plan == Plan(NotYet, problem.driver, problem.operation) IN
            [i \in DOMAIN plan.steps |->
               CASE plan.steps[i].phase = "save"   -> problem.replies[4]
                 [] plan.steps[i].phase = "verify" -> "whole"
                 [] OTHER                          -> problem.replies[1 + (i % 3)]]
Applies ==
    LET plan == Plan(NotYet, problem.driver, problem.operation)
    IN  RunSteps(IF plan.type = None THEN "paramiko" ELSE "netmiko", plan.steps, Answered, TRUE)

\* A plan as a driver makes it, or without its steps, as a file may have it.
Made == LET plan == Texted(Plan(NotYet, problem.driver, problem.operation))
        IN  IF problem.bare THEN [plan EXCEPT !.steps = <<>>] ELSE plan
Filed ==
    LET document  == Document(Made, problem.redact)
        documents == <<document, document>>
    IN  [document |-> document, rejected |-> RejectsRedacted(documents),
         applied  |-> ApplyFile(problem.version, documents, problem.canary,
                                problem.dryRun, problem.showSecrets)]

Reported ==
    LET snapshots   == problem.snapshots
        validations == problem.validations
        device      == problem.device
    IN  [health    |-> HealthRow(device, snapshots, validations, Now),
         readiness |-> Readiness(device, snapshots, validations, Now),
         summary   |-> HealthSummary({device, Bare}, snapshots, validations, Now),
         failed    |-> FailedChecks(device, snapshots, validations, Now),
         apply     |-> RealApply(device, "create_vlan", validations, Now)]

Next ==
    \/ Solve("canary", Batches)    \/ Solve("vlan", Change)      \/ Solve("schedule", Due)
    \/ Solve("backup", Backup)     \/ Solve("session", Session)  \/ Solve("clean", Cleaned)
    \/ Solve("import", Imports)    \/ Solve("driver", Decisions) \/ Solve("capture", Captured)
    \/ Solve("apply", Applies)     \/ Solve("file", Filed)       \/ Solve("evidence", Reported)

Spec == Init /\ [][Next]_vars

Solved(kind) == answer # NotYet /\ problem.kind = kind

-----------------------------------------------------------------------------
(* Batches                                                                 *)

TaskIds == [i \in 1 .. problem.count |-> i]

\* The reference: device i belongs to the first requested batch that reaches it,
\* or to one more batch when none does.
FirstReached(i) ==
    LET sizes  == IF problem.requested = <<>> THEN DefaultPlan ELSE problem.requested
        enough == {k \in DOMAIN sizes : Offset(sizes, k + 1) >= i}
    IN  IF enough = {} THEN Len(sizes) + 1
        ELSE CHOOSE k \in enough : \A m \in enough : k <= m

\* Every task is in exactly the batch that the request gives it, so no device
\* is left out, changed in two batches, or moved into an earlier canary
\* (normalize_canary_plan, create_batches).
BatchesAreAsRequested ==
    Solved("canary") =>
        \A i \in 1 .. problem.count :
            {k \in DOMAIN answer : InSlice(i, TaskIds, answer, k)} = {FirstReached(i)}

-----------------------------------------------------------------------------
(* Rollback and risk of a VLAN change                                      *)

Planned == Applied(Command(problem.operation, Vlan, problem.name),
                   Vlan, problem.family, problem.config)
RolledBack == Applied(answer.rollback, Vlan, problem.family, Planned)

\* The name and the access VLAN found in the snapshot are those of the device.
TextIsRight(c) == c.text = [name |-> KeptName(c), access |-> c.access]

\* Changes whose rollback does not depend on what the service leaves out or finds
\* wrongly: the change is not in place already, an access change finds an access
\* port, on ProCurve in the default VLAN, a VLAN that is deleted has no ports.
Restorable ==
    LET c == problem.config IN
    /\ TextIsRight(c)
    /\ ~InPlace(problem.operation, c)
    /\ problem.operation \in {"assign_access_vlan", "remove_access_vlan"} =>
          /\ c.mode = "access" \/ problem.family = "procurve"
          /\ problem.family = "procurve" => c.access = NoVlan
    /\ problem.operation = "delete_vlan" => c.access # Vlan /\ ~c.trunk

\* The rollback of build_device_rollback_plan, run after the change, puts back
\* the configuration of the snapshot.
RollbackRestores ==
    Solved("vlan") /\ Restorable /\ answer.rollback # NoCommands =>
        RolledBack = problem.config

\* A change that takes the VLAN away from an access port, or from a trunk, is
\* of high risk at least (estimate_risk): its approver is told.
LossIsFlagged ==
    Solved("vlan") =>
        LET c == problem.config
            cut == c.name # NoVlan /\ Planned.name = NoVlan
        IN  /\ c.access = Vlan /\ (cut \/ Planned.access = NoVlan) => answer.risk = "critical"
            /\ c.trunk /\ (cut \/ ~Planned.trunk) => answer.risk \in {"high", "critical"}

-----------------------------------------------------------------------------
(* Schedules                                                               *)

\* The times that the minute and the hour of an expression name, every day.
NamesTime(cron, t) ==
    CASE cron = Hourly -> MinuteOf(t) = 0
      [] cron = Daily  -> MinuteOf(t) = 0 /\ HourOf(t) = 0
      [] OTHER -> cron.minute \in {Star, MinuteOf(t)} /\ cron.hour \in {Star, HourOf(t)}

NamesMinute(cron) == cron \in {Hourly, Daily} \/ cron.minute # Star

\* calculate_next_run returns a time strictly after now, at most a day away, that
\* the minute and the hour of the expression name; the first such time when the
\* minute is named.  It need not be the first when the minute is "*", and it is of
\* any day, month and weekday, whatever the other three fields of the expression name.
NextRunIsDue ==
    Solved("schedule") =>
        /\ answer > problem.now
        /\ answer <= problem.now + MinutesPerDay
        /\ NamesTime(problem.cron, answer)
        /\ NamesMinute(problem.cron) =>
              \A t \in problem.now + 1 .. answer - 1 : ~NamesTime(problem.cron, t)

-----------------------------------------------------------------------------
(* Backup output                                                           *)

EndsInPrompt(chunks) == chunks # <<>> /\ chunks[Len(chunks)].ends = "prompt"

\* What the readers count on: Paramiko's on a configuration in which no chunk
\* ends like a prompt, Netmiko's on a device that answers and does not pause, and both
\* on a setup command that is answered before its deadline.
AsExpected ==
    LET odd == {i \in DOMAIN problem.reply :
                  IF problem.transport = "paramiko" THEN problem.reply[i].ends = "lookalike"
                  ELSE ~Waits(problem.reply[i]) /\ problem.reply[i].slow}
    IN  /\ odd = {}
        /\ problem.transport = "netmiko" => problem.reply # <<>>
        /\ SetupReads(problem.transport, problem.setup, problem.setupDeadline).chunks
             = Len(problem.setup)

\* The output that is stored as the configuration is the whole answer to the
\* backup command and nothing else, however it is paged and cut into chunks; every
\* page is asked for once, so that no key is left for the command that follows; and
\* an answer that comes in full and in time is collected, up to max_pages and
\* max_bytes (_read_backup_until_prompt_with_pager).
OutputIsWhole ==
    Solved("backup") /\ AsExpected =>
        LET reply   == problem.reply
            markers == Cardinality({i \in DOMAIN reply : reply[i].ends = "marker"})
        IN  /\ answer.success => /\ answer.output = reply /\ EndsInPrompt(answer.output)
                                 /\ answer.keys = markers
            /\ EndsInPrompt(reply) /\ markers <= MaxPages
               /\ Len(reply) <= MaxBytes /\ Len(reply) <= problem.deadline => answer.success

NotBlank(lines) ==
    FoldLeft(LAMBDA shown, line : IF line = "blank" THEN shown ELSE Append(shown, line),
             <<>>, lines)

\* What is stored of an output is the configuration, so that its hash is the same
\* whenever it is collected (clean_backup_output); but a marker that the device
\* erases, or a blank line after the echo of the command, leaves a blank line.  No
\* line of the configuration is lost, unless one that looks like a prompt comes
\* last and the transport has taken the prompt away.
CleanIsStable ==
    Solved("clean")
    /\ (problem.prompt \/ problem.config = <<>>
        \/ problem.config[Len(problem.config)] \notin PromptLines) =>
        /\ NotBlank(answer) = NotBlank(problem.config)
        /\ problem.break # "erased" /\ (problem.echo => problem.gap = 0) =>
              answer = problem.config

\* Answers in which Paramiko finds no prompt before the end, and Netmiko no pause.
NoFalseEnd ==
    \A k \in DOMAIN problem.answers :
        LET a == problem.answers[k] IN
        IF problem.transport = "paramiko" THEN \A i \in DOMAIN a : a[i].ends # "lookalike"
        ELSE EndsInPrompt(a) /\ \A i \in DOMAIN a : a[i].slow => a[i].ends = "prompt"

\* A change is reported as executed exactly if the device has answered every command
\* in full, in time and without an error; and nothing is sent after the first
\* command that it has not (RealLabApplyRunner.execute).
AppliedIsAccepted ==
    Solved("session") /\ NoFalseEnd =>
        LET connected == /\ problem.accepted
                         /\ problem.transport = "paramiko" => problem.greeting # <<>>
            accepted(k) == /\ EndsInPrompt(problem.answers[k])
                           /\ Len(problem.answers[k]) <= problem.deadline
                           /\ \A i \in DOMAIN problem.answers[k] : ~problem.answers[k][i].error
        IN  /\ answer.result.executed <=> connected /\ \A k \in DOMAIN problem.answers : accepted(k)
            /\ \A k \in 1 .. answer.sent - 1 : accepted(k)

-----------------------------------------------------------------------------
(* Inventory                                                               *)

\* An import never gives one hostname to two devices, whichever rows precede
\* which, so that find_by_hostname has one answer (_process_row).
NamesStayUnique == Solved("import") => UniqueNames(answer.table)

Metadata(table) ==
    [a \in DOMAIN table |->
        IF table[a] = NoDevice THEN NoDevice
        ELSE [name |-> table[a].name, credential |-> table[a].credential]]

\* As docs/inventory-onboarding.md has it, an import is idempotent: the same list
\* once more changes no device (import_inventory).
ReimportChangesNothing ==
    Solved("import") =>
        Metadata(Import(answer.table, problem.rows, problem.strict, problem.dryRun).table)
            = Metadata(answer.table)

-----------------------------------------------------------------------------
(* Drivers and sessions                                                    *)

\* The text says that the device is not one to log in to.
InventoryOnly(text) ==
    Shows(text, {"icmp", "unknown product", "continent", "securitycode", "des1100"})

\* A record whose text says that the device is not one to log in to gets no session,
\* whichever driver, family or platform is stored with it, and by whichever
\* inventory it comes; but the Excel inventory takes a QSW model for the vendor
\* (_match_profile, LabSshTransportFactory.create, transport_for_plan).
InventoryOnlyHasNoSession ==
    Solved("driver") =>
        /\ InventoryOnly(Words(problem.device)) /\ ExcelVendor(problem.device) # "qtech" =>
              LabTransport(answer.excel, TRUE) = None
        /\ InventoryOnly(Text(problem.device)) =>
              /\ \A d \in {answer.stored, answer.table} : LabTransport(d, TRUE) = None
              /\ \A preference \in Preferences :
                  TransportForPlan(Plan(problem.device, answer.legacy, "backup"), preference) = None

\* The vendor is the one of the product, and nothing is stored yet.
Genuine(device) ==
    /\ device.model \subseteq ProductsOf(device.vendor) \cup Notes
    /\ device.driver = None /\ device.platform = None

\* The family in which VlanPlanService renders for a configurable family.
Dialect(family) ==
    CASE family = "huawei_vrp"                     -> "huawei"
      [] family = "hpe_comware"                    -> "comware"
      [] family = "hpe_procurve"                   -> "procurve"
      [] family \in {"cisco_ios", "dell_os"}       -> "cisco"

Specific(decision) == LabTransport(decision, TRUE) # None /\ decision.family # "generic_ssh"

\* The tables that are kept apart agree: a device that both inventories give a
\* driver is asked for its configuration by the same command; the session in
\* which a template is run is that of the template's family; and VLAN commands
\* are rendered in the language of the family that runs them.
TablesAgree ==
    Solved("driver") /\ Genuine(problem.device) =>
        /\ Specific(answer.table) /\ Specific(answer.excel) =>
              Contracts[answer.table.family].reads = Contracts[answer.excel.family].reads
        /\ answer.table.driver \in DOMAIN FamilyOf /\ Renders(answer.table.family, "vlan_create") =>
              FamilyOf[answer.table.driver] = Dialect(answer.table.family)
        /\ \A d \in {answer.table, answer.excel}, op \in CandidateOperations \ {"read_backup"} :
              Renders(d.family, op) =>
                  /\ Profiles[d.family].apply /\ LabTransport(d, FALSE) = "netmiko"
                  /\ Contracts[d.family].fallback = d.fallback
                  /\ NetmikoType(d) = NetmikoTypes[Profiles[d.family].driver]

\* The parts of the lab agree on what may be done to a device, though each keeps its
\* own list of families: what is evaluated as possible can be certified, is possible
\* still when it is checked again, reported as a candidate, and has a session to run
\* in; and a backup is reported, run and certified for the same devices
\* (ExcelLabSafetyService.evaluate, _assert_certification_allowed,
\* _current_state_gate_error, ApplySafetyKernel.evaluate).
GatesAgree ==
    Solved("driver") =>
        \A d \in {answer.stored, answer.table, answer.excel} :
            /\ \A op \in ConfigOperations :
                  /\ EvaluateAllows(d, op) <=> CertificationAllows(d, op)
                  /\ EvaluateAllows(d, op) <=> RecheckAllows(d, op) /\ Renders(d.family, op)
                  /\ EvaluateAllows(d, op) <=> KernelAllows(d, op, TRUE)
                  /\ EvaluateAllows(d, op) =>
                        /\ Listed(d).report.apply = "candidate_gated"
                        /\ LabTransport(d, FALSE) # None
            /\ BackupRuns(d) <=> Listed(d).backupSupported
            /\ BackupRuns(d) <=> CertificationAllows(d, "read_backup")
            /\ BackupRuns(d) <=> EvaluateAllows(d, "read_backup")

\* A transport is made only for a plan whose every step reads, for a device that the
\* matrix has something to say of, and of the kind that the label tells; and there is
\* one for every device that the inventory command counts as backed up, unless the
\* matrix rules it out (assert_plan_runtime_safe, transport_for_plan,
\* selected_transport_label, _inventory).
LegacySessionOnlyReads ==
    Solved("driver") =>
        \A operation \in LegacyOperations, preference \in Preferences :
            \A plan \in {Plan(problem.device, answer.legacy, operation)} :
            \A made \in {TransportForPlan(plan, preference)} :
                /\ made # None =>
                      /\ \A i \in DOMAIN plan.steps : plan.steps[i].readOnly
                      /\ made = TransportLabel(plan, preference)
                      /\ RuntimeForDevice(problem.device).transport # "unsupported"
                         \/ answer.legacy = "qtech_qsw"
                /\ (/\ operation = "backup" /\ preference = "auto" /\ Report(problem.device).backup
                    /\ ~NoCommandLine(RuntimeForDevice(problem.device))) => made # None

-----------------------------------------------------------------------------
(* The command line                                                        *)

\* What tells the end of an answer is not mistaken, and a Netmiko device is not silent.
NoneIsCut ==
    \A i, k \in 1 .. 2 : problem.replies[i][k] \notin {"cut", "silent"}

\* The exit code of the backup command is 0 exactly if it leaves the whole
\* configuration of every device, and with continue-on-error a failure costs no
\* other device its file (_backup, backup_config, run_steps).
CaptureIsReported ==
    Solved("capture") /\ NoneIsCut =>
        LET alone(i) == BackupOf(Plan(problem.devices[i], DriverFor(problem.devices[i]), "backup"),
                                 problem.preference, problem.replies[i])
        IN  /\ answer.exit = 0 <=> \A i \in 1 .. 2 : answer.files[i].exists /\ answer.files[i].whole
            /\ problem.continue => \A i \in 1 .. 2 : answer.files[i] = alone(i)

\* apply_plan sends the command that saves the configuration only if no command
\* before it was rejected, though Netmiko learns of that once for all of them.
SavedIsAccepted ==
    Solved("apply") =>
        LET steps == Plan(NotYet, problem.driver, problem.operation).steps
        IN  \A i \in 1 .. answer.sent :
                steps[i].phase = "save" => \A k \in 1 .. i - 1 : Answered[k] # "rejected"

\* A plan that is written with its secrets and read again runs the same steps, past
\* the same gates.  Written without them the file has the secret nowhere, though it
\* holds every command twice, the other steps are the same, and what is read of it
\* is rejected before it could be sent with the secret missing; and no listing
\* shows a secret that was not asked for (plan_to_dict, read_plans,
\* _reject_redacted_secret_steps, _print_plans).
PlanFileIsFaithful ==
    Solved("file") =>
        LET before  == ExecutionSteps(Made)
            after   == ExecutionSteps(answer.document)
            secrets == {i \in DOMAIN before : before[i].secret}
            hidden  == {before[i].command : i \in secrets}
        IN  /\ ~problem.redact => after = before
            /\ problem.redact =>
                  /\ \A i \in DOMAIN after : after[i].command \notin hidden
                  /\ \A i \in DOMAIN answer.document.commands :
                        answer.document.commands[i] \notin hidden
                  /\ \A i \in DOMAIN before \ secrets : after[i] = before[i]
                  /\ answer.rejected <=> secrets # {}
            /\ ~problem.showSecrets =>
                  \A k \in DOMAIN answer.applied.shown : \A i \in secrets :
                      answer.applied.shown[k][i] = Redacted

-----------------------------------------------------------------------------
(* Evidence and reports                                                    *)

Severity(reason) ==
    CASE reason = "unreachable"                       -> 3
      [] reason \in {"credential", "missing", "stale"} -> 2
      [] OTHER                                        -> 1
Level(reasons) == LET worst == {Severity(r) : r \in reasons} \cup {0}
                  IN  CHOOSE n \in worst : \A m \in worst : m <= n
Risks == <<"low", "medium", "high", "critical">>
RiskOf(reasons) == Risks[Level(reasons) + 1]

\* The services and the reports read the same rows alike: what a VLAN request was
\* validated with stands for the change execution made of it; a refusal of real
\* apply names what is missing; a device that the services accept is not shown
\* without backup or validation; and console, readiness record, counters and
\* compliance checks give one device the same reasons, and the risk of the worst of
\* them (find_approved, _device_health_row, _device_readiness_record).
EvidenceIsReadAlike ==
    Solved("evidence") =>
        LET device      == problem.device
            validations == problem.validations
            health      == answer.health
            record      == answer.readiness
            summary     == answer.summary
            fresh(d)    == HasFreshBackup(d, problem.snapshots, Now)
            change      == [type |-> "vlan_change", source |-> "vlan_workflow",
                            operation |-> "create_vlan"]
            accepted    == VlanValidated(device, "create_vlan", validations, Now)
            Tally(reason, other) == (IF reason THEN 1 ELSE 0) + (IF other THEN 1 ELSE 0)
        IN  /\ accepted <=> ChangeValidated(change, device, validations, Now)
            /\ answer.apply # "unexplained"
            /\ answer.apply = "allowed" => accepted
            /\ accepted => record.lab = "approved"
            /\ fresh(device) <=> record.backup = "recent"
            /\ health.reasons = record.reasons \ {"not verified"}
            /\ health.risk = RiskOf(health.reasons)
            /\ record.risk = RiskOf(record.reasons)
            /\ summary.unreachable = Tally("unreachable" \in health.reasons, TRUE)
            /\ summary.invalid = Tally("credential" \in health.reasons, FALSE)
            /\ summary.withoutBackup = Tally(record.backup # "recent", ~fresh(Bare))
            /\ summary.withoutLab = Tally(record.lab = "missing", TRUE)
            /\ answer.failed = {} <=> record.status = "ready"
=============================================================================
