----------------------------- MODULE PlanFiles ------------------------------
(***************************************************************************)
(* The plans of netops_orchestrator outside of a session: the file that a  *)
(* plan command writes, with or without its secrets, the plans that apply  *)
(* reads from it, and the report of the inventory command.                 *)
(*                                                                         *)
(* The text of a step is its number in the plan; Redacted stands in the    *)
(* place of a text that was not to be written.  The answers of a step to   *)
(* prompts are left out: a driver has them for the commands that save      *)
(* only, and none is hidden, so that a file has all of them as they are.   *)
(***************************************************************************)
EXTENDS LegacyPlans

CONSTANT Redacted

\* Redacted is no text of a command.
ASSUME PlanFilesAssumption == Redacted \notin Nat

\* change_password: which command of a driver has the new password in it.
SecretCommand(driver) ==
    IF driver \in {"huawei_vrp", "comware_smb", "comware_legacy", "comware7", "bulat_bs",
                   "qtech_qsw"}
    THEN 2 ELSE 1
IsSecret(plan, i) == plan.operation = "password" /\ i = SecretCommand(plan.driver)

\* The numbers of the steps that are in one of the phases.
OfPhase(steps, phases) ==
    FoldLeft(LAMBDA chosen, i : IF steps[i].phase \in phases THEN Append(chosen, i) ELSE chosen,
             <<>>, [i \in DOMAIN steps |-> i])

\* CommandPlan with the texts of its steps; beside the steps it has the commands
\* themselves, those that save and those that check apart.
Texted(plan) ==
    [driver |-> plan.driver, operation |-> plan.operation, type |-> plan.type,
     readOnly |-> plan.readOnly,
     steps    |-> [i \in DOMAIN plan.steps |->
                     [command |-> i, phase |-> plan.steps[i].phase,
                      readOnly |-> plan.steps[i].readOnly, secret |-> IsSecret(plan, i)]],
     commands |-> OfPhase(plan.steps, {"exec", "config"}),
     saves    |-> OfPhase(plan.steps, {"save"}),
     checks   |-> OfPhase(plan.steps, {"verify"})]

\* execution_steps: a plan without steps runs its commands, and none is secret.
ExecutionSteps(plan) ==
    LET made(commands, phase, readOnly) ==
            [i \in DOMAIN commands |->
                [command |-> commands[i], phase |-> phase, readOnly |-> readOnly, secret |-> FALSE]]
    IN  IF plan.steps # <<>> THEN plan.steps
        ELSE made(plan.commands, "exec", plan.readOnly) \o made(plan.saves, "save", FALSE)
             \o made(plan.checks, "verify", TRUE)

-----------------------------------------------------------------------------
(* Plan files                                                              *)

\* Mutant: the commands beside the steps are written as they are.
DocumentWithCommands(plan, redact) ==
    [plan EXCEPT
        !.steps = [i \in DOMAIN ExecutionSteps(plan) |->
                     LET step == ExecutionSteps(plan)[i]
                     IN  IF redact /\ step.secret THEN [step EXCEPT !.command = Redacted] ELSE step]]

\* plan_to_dict, _step_to_dict, _redacted_legacy_commands
Document(plan, redact) ==
    LET steps   == ExecutionSteps(plan)
        secrets == {steps[i].command : i \in {k \in DOMAIN steps : steps[k].secret}}
    IN  [plan EXCEPT
            !.steps    = [i \in DOMAIN steps |->
                            IF redact /\ steps[i].secret THEN [steps[i] EXCEPT !.command = Redacted]
                            ELSE steps[i]],
            !.commands = [i \in DOMAIN plan.commands |->
                            IF redact /\ plan.commands[i] \in secrets THEN Redacted
                            ELSE plan.commands[i]]]

\* read_plans, _plan_from_dict: a file of another version is refused; a list without
\* a version is of version 1.
ReadPlans(version, documents) == IF version # 1 THEN None ELSE documents

\* _reject_redacted_secret_steps
RejectsRedacted(plans) ==
    \E k \in DOMAIN plans : \E i \in DOMAIN ExecutionSteps(plans[k]) :
        LET step == ExecutionSteps(plans[k])[i] IN step.secret /\ step.command = Redacted

\* _print_plans
Shown(plan, showSecrets) ==
    [i \in DOMAIN ExecutionSteps(plan) |->
        LET step == ExecutionSteps(plan)[i]
        IN  IF step.secret /\ ~showSecrets THEN Redacted ELSE step.command]

\* --canary of apply, which _limit does for an inventory.
Canaries(plans, n) == IF n = None \/ n > Len(plans) THEN plans ELSE SubSeq(plans, 1, n)

\* _apply with a plan file: without --dry-run it is refused before the file is read
\* (assert_legacy_cli_apply_blocked), so that what follows is never reached.
ApplyFile(version, documents, canary, dryRun, showSecrets) ==
    LET plans   == ReadPlans(version, documents)
        refused == ~dryRun \/ plans = None \/ canary = 0
    IN  IF refused THEN [exit |-> 1, shown |-> <<>>]
        ELSE [exit |-> 0, shown |-> [k \in DOMAIN Canaries(plans, canary) |->
                                        Shown(plans[k], showSecrets)]]

-----------------------------------------------------------------------------
(* _inventory: what the report says of a device                            *)

Report(device) ==
    LET of == [driver \in DOMAIN Drivers |->
                  LET backup == Plan(device, driver, "backup")
                  IN  [backup   |-> backup.steps # <<>>,
                       password |-> Plan(device, driver, "password").steps # <<>>,
                       netmiko  |-> backup.type # None]]
    IN  of[DriverFor(device)]
=============================================================================
