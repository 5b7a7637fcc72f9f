# TLA+ verification of the switch fleet platform

This directory is a formal model of the network operations platform in this
repository: TLA+ modules translated from the source, TLC configurations that check
them on small instances, and proofs checked by TLAPS. Source paths are relative to the
repository root.

- [1. The system](#1-the-system)
- [2. What is modelled](#2-what-is-modelled)
- [3. Runs](#3-runs)
- [4. Proofs](#4-proofs)
- [5. Where the code and its documentation disagree](#5-where-the-code-and-its-documentation-disagree)
- [6. Not modelled](#6-not-modelled)
- [7. Plan](#7-plan)

## 1. The system

The platform plans, approves and executes configuration changes on network switches.
It has two faces: a FastAPI service over a relational database (`app/api`,
`app/services`, `app/repositories`, `app/db`), and file-based tools for a lab without
a database (`scripts/excel_lab.py`, `app/local_web.py`). An older library and CLI,
`src/netops_orchestrator`, renders and applies command plans for one device after
another.

### Components, their state and their operations

| Component | State | Operations | Hard behaviour |
|---|---|---|---|
| VLAN change jobs (`services/job_service.py`, `jobs/executors.py`) | `jobs`, `job_tasks`, `backups` rows | create, approve, cancel, run | concurrent requests decide on what they read and overwrite later; a request that dies rolls the database back and not the device |
| Device locks (`services/lock_service.py`, `repositories/locks.py`) | `device_locks` rows | acquire, release | check-then-insert; rows only visible at commit; deadlocks between jobs |
| Request sessions (`api/deps.py`, `db/session.py`) | one transaction per request | commit, rollback | stale objects, deferred visibility |
| Password rollout (`services/password_change_service.py`, `services/password_rollout_service.py`, `jobs/executors.py`) | rollout job, ordered batches, tasks, encrypted secret | create, approve, run next batch, pause, resume, cancel | canary order, stop on first failure, secret lifetime, pause and resume racing a batch |
| Change executions (`services/change_execution_*.py`) | execution, steps, locks, approvals | validate, plan, submit, approve, reject, reserve locks, mark ready, simulate, cancel | overlapping requests: two executions reserving one device, cancelled executions that keep or regain a lock |
| VLAN workflows (`services/vlan_*_service.py`) | workflow, plans, validation, approval | validate, plan, submit, approve, reject, cancel | operations allowed from unexpected states |
| Configuration backups (`services/config_backup_service.py`) | schedules, jobs, job items, snapshots | schedule, run, cancel, diff, restore preview | next-run calculation, re-runs that skip what was done |
| Lab validations (`services/lab_validation_service.py`) | validation records with expiry | request, approve, reject, expire, find approved | expiry racing use; unguarded transitions |
| Apply safety kernel and lab apply (`services/apply_safety_kernel.py`, `lab_apply_service.py`, `real_lab_apply_runner.py`) | decisions, lab device session | evaluate gates, backup, apply, verify, save | every gate must hold when the device is touched; first failing command stops |
| File lab state (`services/file_lab_state.py`) | JSON files, lock guard files | reserve, release, record approvals and backups | several processes, crash between guard and record, lost updates |
| Excel lab (`services/excel_lab_*.py`, `scripts/excel_lab.py`, `local_web.py`) | workbook rows, file lab state | validate, plan, approve, execute | gates checked when planning and again when executing |
| Credential vaults (`services/credential_vault_service.py`, `file_credential_vault.py`) | encrypted secrets with version and enabled flag | create, rotate, disable, use | lost update of a rotation |
| Inventory onboarding (`services/inventory_*.py`, `device_normalizer.py`, `device_discovery_service.py`) | import batches and rows, devices | import, dry-run, validate, resolve drivers | repeated validation of a batch |
| Access control (`core/rbac.py`) | none | permission check per endpoint | - |
| Audit, observability, operator console | audit rows (append), reports (read-only) | record, query, export | audit rows of a failed request are rolled back with it |
| Drivers, templates, capability matrix, transports | none | render commands, choose a transport | - |
| `src/netops_orchestrator` | plan files, JSONL audit | render, apply, backup | stop on error, connection always closed |

### How they interact

Every endpoint opens one session (`app/api/deps.py`), calls one service, and the
session is committed once when the endpoint returns or rolled back when it raises.
FastAPI runs the endpoints in a thread pool and PostgreSQL runs them at its default
READ COMMITTED level, so the components meet in the database: two requests interleave
statement by statement, each keeping in memory the rows it loaded.
`JobExecutionService` calls `LockService`, `BackupService`, the drivers and the
transport; the password rollout calls the same executor for each of its tasks. The
change-execution orchestrator refers to jobs, VLAN workflows and rollouts by id and
only simulates. The lab apply path calls the safety kernel, which reads lab
validations, backups, locks and approvals. The Excel lab has the same gates over files
instead of tables.

### What makes each component correct

- *Jobs*: a device is changed only by one request at a time, only for an approved and
  not cancelled job, only after a backup; the recorded statuses say what really
  happened; a lost request leaves nothing locked.
- *Locks*: at most one holder per device; acquire never succeeds twice without a
  release; every lock is given up.
- *Password rollout*: later batches wait for the earlier ones, a failed canary stops
  the rollout, credentials are saved on a device only after the new ones were
  verified, the secret lives as long as a batch may need it and no longer.
- *Change executions*: ready implies validated, planned, approved and locked; no two
  executions hold one device; a cancelled execution holds nothing.
- *VLAN workflows, lab validations*: no status is reached around its approval.
- *Backups*: a next run is in the future, a re-run repeats only what failed.
- *Safety kernel, lab apply, Excel lab*: no command is sent unless every gate holds,
  and it is sent when they do; nothing is saved after a failed verification.
- *File lab state*: the guard file excludes a second reservation; a crash never lets
  two processes in.
- *Vaults*: each successful rotation is the newest version.

## 2. What is modelled

State machines, each with its abstract specification where one is worth stating:

| Module | Models | Proofs | Instances |
|---|---|---|---|
| `JobExecution`, over `DeviceMutex` | VLAN change jobs, device locks, request transactions | `JobExecutionProofs` | `MCJobExecution` |
| `PasswordRollout`, over `OrderedRollout` | password jobs and their canary batches | `PasswordRolloutProofs` | `MCPasswordRollout` |
| `ChangeExecution`, over `ApprovalGate` | the change execution orchestrator | `ChangeExecutionProofs` | `MCLabApply` |
| `VlanWorkflow`, with `VlanCommands` | a VLAN change request from draft to ready | `VlanWorkflowProofs` | `MCVlanWorkflow` |
| `ConfigBackup` | backup jobs, imports and lab backups | `ConfigBackupProofs` | `MCConfigBackup` |
| `LabApply`, on top of `ChangeExecution` | the safety kernel, its evidence, the prototype commands | `LabApplyProofs` | `MCLabApply` |
| `ExcelLab` with `FileLabState`, over `DeviceMutex` | the lab tools on JSON files | `ExcelLabProofs` | `MCExcelLab` |

"Over" names the abstract specification that the module implements. Calculations
without state are operators, all checked by `MCPlanning` and proved about in
`PlanningProofs`:

| Module | Calculates | Code |
|---|---|---|
| `CanaryPlan` | which device goes into which batch | `password_change_service.py`, `repositories/password_rollout.py` |
| `VlanCommands` | commands, rollback and risk of a VLAN change | `vlan_plan_service.py`, `vlan_impact_service.py` |
| `BackupSchedule` | the next run of a schedule | `config_backup_service.py` |
| `CliReader`, `CleanOutput` | the output of a backup command, read in chunks and pages and then cleaned | `real_lab_apply_runner.py`, `lab_backup_runner.py` |
| `LabSession` | the session in which commands are applied | `real_lab_apply_runner.py`, `excel_lab_runtime.py` |
| `InventoryImport` | the device table after the import of a list | `inventory_validation_service.py` |
| `DriverDecision`, `LabGates` | driver, family, transport and contract of a record; what each part of the lab allows on it | `driver_capability_matrix.py`, `drivers/registry.py`, `excel_lab_runtime.py`, `apply_safety_kernel.py` |
| `LegacyPlans`, `PlanFiles` | plans, transports, runs and plan files of the command line | `netops_orchestrator` |
| `DeviceReadiness` | what services and reports make of snapshots and validations | `vlan_validation_service.py`, `change_execution_validation_service.py`, `lab_validation_service.py`, `operator_console.py`, `observability.py` |

### Requests and transactions

`JobExecution`, `PasswordRollout`, `ChangeExecution`, `VlanWorkflow` and
`ConfigBackup` share one view of a request:

- *One transaction.* Nothing a request writes is visible before the commit at its end
  (`app/api/deps.py`), and a request that dies is rolled back. What a transport did to
  a device stays.
- *Stale objects.* SQLAlchemy's identity map keeps the object of the first read
  (`view`), so a second read of the same row inside a request sees the same object. An
  update writes only the columns whose value differs from the loaded one (`Assigned`).
  The sessions are made with `autoflush=False`, so writes happen where the code
  flushes.
- *Later statements see later commits* (READ COMMITTED): each query of a list of
  tasks, batches or locks is a step of its own.
- *Waiting.* An `UPDATE` of a row that another open transaction has updated waits and
  then overwrites it. An `INSERT` waits for an open transaction that has inserted the
  same primary key, even if that transaction has deleted the row again.

An action is one step of a request that another request can tell apart.

### `JobExecution` - jobs, locks and the transactions they run in

The constants are the rows of `jobs` and `devices` (`Jobs`, `Devices`), which devices
each job targets (`Targets`, one job task each), what the checks before the lock make
of a task (`Gate`: unsupported by the driver, refused, or open), and the HTTP calls
(`Requests`), each made at most once with any operation on any job.

| State | Code |
|---|---|
| `job[j]` | columns `status` and `approval_status` of a `jobs` row, as committed |
| `task[t]`, `backup` | committed `job_tasks.status`, and tasks whose `backup_id` is set |
| `lockRow[d]` | committed `device_locks` row of a device |
| `jobTxn`, `lockTxn` | which open transaction has written a job's row or inserted a lock's primary key |
| `view`, `seen`, `todo`, `cur`, `wrote`, `saved`, `rows` | one request's session: the loaded job object, tasks found pending, tasks to do, the current task, flushed statuses, stored backups, lock rows inserted |
| `applied`, `persisted` | devices: how often a task's commands were sent, and saved |

| Actions | Code |
|---|---|
| `CreateJob`, `ApproveLoad`/`ApproveWrite`, `CancelLoad`/`CancelReadTasks`/`CancelWrite` | `JobService` |
| `RunLoad`, `RunUpdate` | `JobExecutionService.execute_job`: load and check, then flush `running` |
| `StartTask` | the loop over tasks and the checks of `execute_vlan_change_task` before the lock |
| `Acquire`, `Backup`, `Apply`, `Verify`, `Save` | the stages of a task; each may fail, and then the failure is recorded and the lock released (the `finally`) |
| `Commit` | final status, flush, commit |
| `Abort` | the transaction dies at any point: exception, killed worker, lost connection |
| `DeadlockVictim` | the database aborts one transaction of a cycle of waits |

Locks on `job_tasks` rows are not modelled: a transaction writes the job's row first,
which excludes the others. `Backup` may fail as well, as `create_backup` may raise;
the task is then failed and its lock released like after any other stage. Stages may
fail although `DummyTransport` always succeeds today, because the code has an error
path for each of them and these must be right when a real transport is connected.

`DeviceMutex` says what locks promise: `holders[d]` is the set of clients at a device;
`Enter` needs it to be empty, `Leave` gives it up. Rows, waits and crashes do not
appear.

### `PasswordRollout` and `CanaryPlan` - canary batches

`CanaryPlan` is the pure part: `NormalizeCanaryPlan` (requested sizes cut to the
number of devices, the rest as a last batch) and `BatchSlice` (the slices of
`create_batches`). `PasswordRollout` takes its result as `BatchOf` and models the
requests on one rollout.

| State | Code |
|---|---|
| `job`, `task[t]`, `batch[b]` | committed `jobs`, `job_tasks`, `password_rollout_batches` columns |
| `secret` | the `password_change_secrets` row exists |
| `jobTxn` | which open transaction has updated the job's row |
| `view`, `seen`, `sel`, `todo`, `cur`, `wrote` | one request's session; `sel` is the batch it has selected |
| `changed`, `verified`, `saved` | devices: password commands sent, reached with the password last sent, configuration saved |

| Actions | Code |
|---|---|
| `CreateJob`, `Approve*`, `Cancel*` | `JobService` |
| `PauseLoad`/`PauseWrite`, `ResumeLoad`/`ResumeWrite` | `PasswordRolloutService.pause`, `resume` |
| `RunLoad`, `RunSelect`, `RunStart` | `run_next_batch`: check the job as read, select the first pending batch, flush `running` |
| `CompleteRead`, `CompleteWrite` | `run_next_batch` without a pending batch |
| `StartTask`, `Apply`, `Verify`, `Save` | `execute_password_change_task` for each task of the batch |
| `Commit` | results of the batch and of the job, deletion of the secret |
| `Abort` | as above |

The rows of a batch and its tasks are written after the job's row, so its lock stands
for theirs. Locks on devices held by other jobs are the subject of `JobExecution`;
here they can only fail a task or end the transaction, which both are possible at any
time.

`OrderedRollout` says what a canary promises: batches are attempted one by one from
the first.

### `ChangeExecution` - validation, approval, locks, simulation

| State | Code |
|---|---|
| `status[e]` | `change_executions.status` |
| `steps[e]` | the sessions that have stored a step graph of `e` (one each at most) |
| `lockRows[e]` | status of the lock rows that each session has stored for `e` |
| `approved`, `completed` | executions whose `approved_at`, `completed_at` is set |
| `evidence` | executions whose source workflow, snapshots and lab validations are in order; changes at any time |
| `session[w]` | one request: what it has read, and where it is |

A request is `Begin` (the execution row), `Validation` (the report, or the search for
conflicting locks), `ReadRows` (own steps and locks), and one of `Validate`,
`BuildPlan`, `Submit`, `Approve`, `Reject`, `ReserveLocks`, `MarkReady`, `Simulate`,
`Cancel`, which writes and commits; `Create` inserts an execution. `Admits` is the
status each service method insists on; `validate_execution`, `build_plan` and
`submit_for_approval` insist on none. All writes come last and lock rows in one order,
so no request sees another one half written or waits for ever; that is why write and
commit are one step. A session serves one request after another, so one session stands
for requests that do not overlap.

`ApprovalGate` says what the orchestrator promises: only planned changes are approved,
only approved ones are simulated.

### `FileLabState` and `ExcelLab` - the lab without a database

Processes are command lines and threads of the local web server. Every JSON file is
read, changed and replaced (`os.replace`) without a lock, so updates may be lost; the
lock file of a device is created with `O_EXCL`.

| State | Code |
|---|---|
| `disk` | `locks.json` (reserved rows), `dry_runs.json`, `evaluations.json`, `lab_validations.json`, `backups/index.json`, as far as later checks look at them |
| `guards` | the lock files |
| `copy[p]` | file content that `p` has read in order to write it back |
| `op`, `plan`, `dev`, `found`, `pc` | the command, its plan and device, the dry-run it relies on, where it is |
| `sent` | plans sent to devices |
| `ever` | history: evidence that has ever been stored (used by properties only) |

| Actions | Code |
|---|---|
| `CreateGuard`, `CheckActiveLock`, `ReserveRead`/`ReserveWrite`, `ReserveFails` | `FileLabState.reserve_lock` |
| `ReleaseRead`/`ReleaseWrite`, `Unlink` | `release_locks` |
| `BackupGate`, `ValidationGate`, `PlanGate`, `LockGate`, `PlanNotChosen` | `ExcelLabSafetyService.evaluate`, one file read each |
| `RecheckPlan`, `RecheckBackup`, `RecheckValidation`, `RunSession` | `ExcelLabApplyExecutor.execute` |
| `CertifyBackup`, `CertifyPlan`, `CertifyEvaluation` | `certify` in `scripts/excel_lab.py` |
| `KeepPlan`, `ReadRecords`, `Store*` | what `backup`, `dry-run`, `evaluate-apply` and `certify` record |

`Plans` are command plans with the same public text and different secrets: the public
hash of a dry-run does not tell them apart, the private one does. Checks on the
inventory, the environment and the credential are the constant `Eligible`. A process
that is killed is one that takes no further step, so nothing in this module is fair.
The initial states are those left by any completed stage of the documented order
backup, dry-run, evaluate, certify.

### `VlanWorkflow` and `VlanCommands` - a VLAN change request

`VlanCommands` gives the meaning of the rendered commands on a configuration: the name
of the VLAN, the mode and the access VLAN of one interface, and whether its trunk
carries the VLAN. A configuration has in addition what the regular expressions of the
plan service find in its text, which may belong to another section (`text`).
`VlanWorkflow` is one request row and its device rows, for a scope that lists each of
its devices once.

| State | Code |
|---|---|
| `status`, `decisions` | the row of `vlan_change_requests`, and the approval rows in order |
| `row[d]` | `vlan_change_devices`: status, errors, backup, lab, plan, rollback |
| `snapshots[d]`, `evidence[d]` | the latest snapshot, and what a validation would find in order; other services change them at any time |
| `session[w]` | one request: status and rows as read, rows as they shall be |

| Actions | Code |
|---|---|
| `Begin`, `ReadRows` | the status check of each service method; `get_request_devices` and what is computed from it |
| `Validate`, `BuildPlan`, `Submit`, `Approve`, `Reject`, `Cancel` | the writes of `validate_vlan_request`, `build_vlan_change_plan`, `submit_for_approval`, `approve_request` (which marks ready in the same transaction), `reject_request`, `cancel_request` |
| `Abort` | a refusal or a lost request |
| `TakeSnapshot`, `EvidenceChanges` | backups, aging, lab validations, devices |

Things the model shows and a reader should know: `approval_required` is stored and
never looked at; with nothing required, draft, plan, submit and approve pass without a
validation; a plan may be made again on a ready request, from a newer snapshot and
without a trace in its status; a cancelled request can be validated again; freshness
is checked by the validation only. The plan detects no untagged port of ProCurve.

### `ConfigBackup` - backup jobs

| State | Code |
|---|---|
| `status[j]`, `counters[j]` | the row of `config_backup_jobs` |
| `items[j][i]` | the columns of item `i` in `config_backup_job_items`; the constants `ItemsOf` and `DeviceOf` are its `job_id` and `device_id` |
| `snapshots` | `config_snapshots`, with a number for the id |
| `session[w]` | one request: the counters as read, items to do, rows inserted |

| Actions | Code |
|---|---|
| `BeginRun`, `StartRun` | `run_backup_job`: load, then flush `running` (which may wait), then read the items |
| `BackUp`, `NotBackedUp` | `backup_device_config`: a snapshot; no driver, or an error |
| `FinishRun` | `update_job_counters`, final status, commit |
| `Import`, `CommitImport` | `import_snapshot` and `LabBackupRunner.backup_device` |
| `Abort` | the transaction dies |

A scope of `device_ids` is stored as it is given, and nothing makes an item unique
(`config_backup_service.py:231`, `repositories/config_backups.py:63`): a device that
is listed twice has two items and gets two snapshots. The properties are therefore
about items, and the instance has such a job.

`failed_devices` and `skipped_devices` may be wrong after runs that overlap: a run
that has read the counters early does not write a value that it believes to be there
already. Only `successful_devices`, which never falls, comes out right, and this is
what is stated.

### `LabApply` - the apply safety kernel

`LabApply` extends `ChangeExecution` with what the gates read besides it: the kind of
source of an execution, approvals that are recent, the lab validation, the vault
secret, the latest backup. What `build_plan` and the simulation write into a step is a
record whose fields are the keys of the JSON column (`PlannedAction`, `DryRunOutput`),
because the kernel decides by which keys there are.

| Actions | Code |
|---|---|
| `Orchestrate` | every request of `ChangeExecution` |
| `Execute` | `LabApplyService.execute` with any execution, approval and operation |
| `Prototype` | `evaluate-apply` and `execute-apply` of `scripts/lab_prototype.py`, with automatic gates or with `--lock` alone, which create an execution and its lock |
| `DecideValidation`, `Vault`, `TakeBackup` | approve, reject and expire a lab validation; disable and rotate a secret; a new snapshot |
| `TimePasses` | a backup, an approval or a validation gets too old |

The gates on settings, permissions, the vendor contract and the command plan are taken
as passed, so that a denial cannot rest on them. `DocumentedGates` are the gates on
the database as the documents list them; the run `lab_gates` asks whether an execution
for which they all hold may be applied, and the answer is no (section 5): no service
writes a `command_hash`, `simulation_hash` or `dry_run_hash` into a step, which the
kernel wants to see (`NothingIsApplied`, a theorem).

The prototype names an approval, `prototype-approved`, that is no row. It commits even
when it is denied (`lab_prototype.py:99`): its reserved lock and an approved lab
validation (`stub`) stay, and the `execute-apply` that `README.md` lists next is
refused for the lock of the `evaluate-apply`. With `--lock` and no automatic gates it
takes a lock without looking for any other (`lab_prototype.py:479`), also of a device
that is held; the executions made so are in `unchecked`, and `TakenOnlyIfFree`, the
property about both ways of looking for locks, leaves them out.

### The calculations

`MCPlanning` is one state machine for all of them: `problem` is one call with its
arguments, out of the set of problems of its kind, and one disjunct of `Next` per kind
stores the result in `answer`. The properties compare the answer with a definition
that does not follow the code: the batch that first reaches a device, the
configuration after commands and rollback, the minutes that an expression names, the
whole reply of a device, the rows that a report should show. Most bugs here would be
in how two of the calculations fit, so many of the properties relate several: five
tables of families (`TablesAgree`), five places that allow or refuse an operation
(`GatesAgree`), services and reports on the same rows (`EvidenceIsReadAlike`).

Where a property holds only on part of the inputs, the condition is an operator with a
comment (`Restorable`, `AsExpected`, `NoFalseEnd`, `Genuine`, `NoneIsCut`). Outside of
it:

- *Rollback.* Assigning or removing an access VLAN on a trunk port is not undone. Nor
  is a change whose snapshot is read wrongly: the header that is looked for also
  matches one that goes on (`Ethernet1` finds `Ethernet1/1`), and the first line with
  a name or a description is taken for the name.
- *Schedules.* An expression has five fields, of which the last three are ignored, and
  with a minute `*` the next run need not be the first minute that is named (section
  5).
- *Reading.* A chunk that ends like a prompt, or a late answer to the setup command,
  ends a Paramiko backup early and the part is stored as a complete one. Netmiko takes
  a pause for the end of an answer, and an empty answer is stored as an empty backup.
- *Cleaning.* A paging marker that the device erases leaves a blank line, and a blank
  line after the echo stays, so the hash differs. With Netmiko a last line of the
  configuration that looks like a prompt is lost.
- *Drivers.* With several products (HPE 1620, 1820 and 1905, HPE 1950, Aruba, QTECH)
  the device table and the Excel inventory arrive at different drivers: the former
  gives them `GenericSSHDriver` with a read-only session, the latter a profile of
  their own, in part one without any session. The table stores `CiscoIOSDriver` for
  Nexus and ASA. Huawei and Dell models without a profile are configurable by the
  table and unknown by Excel. A vendor of security appliances with a QSW model is read
  as QTECH by Excel.
- *Gates.* `_apply_status` shows `candidate_gated` for ASA and for families without
  templates although no change can pass their gates.
- *Command line.* `assert_legacy_cli_apply_blocked` refuses every apply without
  `--dry-run`, so `_reject_redacted_secret_steps` and the run of a plan after it are
  not reached today; they are checked as functions. Legacy plans save before they
  verify. The inventory command counts devices as backed up that the matrix refuses.
- *Evidence.* Reports count a validation of any capability and compare driver names
  without case, `find_approved` does not: a device may be shown as approved and still
  be refused.
- *Imports.* Each import adds a row of the credential's assignment again. A dry run
  does not foretell rows that depend on earlier rows.

## 3. Runs

| Run | Instance | Asks |
|---|---|---|
| `job_contention` | 3 requests, 2 jobs that share two of three devices | Are executions of a job serialised, are statuses true, is nothing changed without lock, backup and approval, does the lock table implement a mutex, whatever overlaps, fails or dies? |
| `job_answered` | 2 requests, 2 jobs, 2 shared devices, fairness | Is every request answered, deadlocks included? |
| `rollout_order` | 4 requests, batches of 1 and 2 devices | Are canaries first, is a success real, does the secret live as long as needed? |
| `change_sequence` | 1 session, 2 orchestrated executions and a prototype on one device | Do all sequences of requests and commands, with every change of what the gates read, take a device only while it is free, and keep ready executions backed and approved plans fixed? |
| `vlan` | 1 session, 2 devices, plan and backup required | Is what waits for approval or is ready backed on every device, does a decision stand until the next one? |
| `config_backup` | 2 sessions, 2 jobs with a common device that one lists twice, one device unsupported, 4 snapshots | Does an item store one snapshot at most, is a completed job complete, is its count right? |
| `excel_evidence` | 3 processes, 2 devices, 2 plans | Is a device worked on by one process, and only with backup, recorded plan and certification, despite lost updates? |
| `planning` | every problem within the bounds below | Is each calculation what it should be? |
| `job_cancel_during_run`, `rollout_stop`, `lab_gates`, `import_again` | smallest instance that shows it | The disagreements of section 5 |

*Bounds.* Database requests on jobs and rollouts are single calls, so their number
bounds a behaviour. Three calls on jobs are two executions with an approve or cancel,
or a chain of waits for locks; two shared devices give lock-order deadlocks, and the
third, unsupported one every final status. Four calls on a rollout are both batches
with a pause, a repetition or an approval between, or three batches at once. The
change executions, VLAN requests, backups, lab apply and Excel lab have no bound on
the number of requests of a session; two executions are one conflict.
`change_sequence` goes on from states in which only one of validation, secret and
backup differs from the first (`OneDiffers`), and the second orchestrated execution
exists only while none does and there is no prototype (`SecondIsAlone`): the conflicts
are between two executions at a time, no property of the run relates two of the three,
and only the prototype asks for one of them. Three processes let one lose an update
between the read and the write of another while a third relies on it. `MaxSnapshots`
is one per device in `vlan`, enough for a plan without a snapshot and one made again
with it, and four in `config_backup`, one for each item that can have one and one for
an import; `MaxSubmits` is two, a submission after a former decision. `vlan` uses the
operation whose rollback depends on the snapshot.

`planning`: up to 30 devices reach past the default sizes 1, 5, 20, with up to 3
requested sizes up to 4; every configuration of one port with two names and two VLANs;
schedules of five fields, each `*` or named, at the minutes around those they name;
replies of up to 3 chunks before the last, with limits of 2 pages and 3 chunks, so
that each limit is passed; configurations of up to 3 lines; lists of up to 2 rows over
2 addresses, which is what a hostname needs to move; every vendor with each of its
products and marks; two devices on the command line; two snapshots and one validation
at, before and after the hour at which they end.

Requests, sessions and processes are symmetry sets in the runs that check safety; the
liveness run has none. `CHECK_DEADLOCK FALSE` is set where the calls, the processes or
the problems run out; `change_sequence`, `vlan` and `config_backup` check for
deadlocks.

*Fairness* (`FairSpec` of `JobExecution`, only in `job_answered`). Weak fairness on
the steps of a request that has arrived: its thread is running. Weak fairness on
`DeadlockVictim`: PostgreSQL's detector resolves each cycle. None on the arrival of a
call and none on `Abort`. Without the detector's fairness `Answered` is false, because
`execute_job` takes locks in an order that its query does not fix.

Each property has a mutant in `PROJECT.json`: an operator beside the definition it
changes (comment "Mutant:"), with which TLC finds the property violated.

## 4. Proofs

Assumptions are those named in the modules (`JobExecutionAssumption` and so on): the
functions have the right domains, `None` is none of the values it stands beside (no
driver or platform in `DriverDecisionAssumption`), a redacted text is no text
(`PlanFilesAssumption`), a prototype execution targets the device
(`LabApplyAssumption`), limits and bounds are numbers, the fields of a schedule are in
their ranges, and the prompt that ends a reply looks like one (`CliReaderAssumption`,
`PlanningAssumption`). Every theorem holds for all sets of devices, jobs, requests,
processes, plans and batches.

| Module | Theorems |
|---|---|
| `JobExecutionProofs` | `TypeCorrect`, `DeviceExclusion`, `RunsOfAJobSerialised`, `StatusAgrees`, `RecordedIsReal`, `GuardedChange`, `MutexImplemented` |
| `PasswordRolloutProofs` | `TypeCorrect`, `CanariesFirst`, `SecretLifetime`, `RecordedBatches`, `ApprovedFirst`, `SavesAreVerified`, `CanaryImplemented` |
| `ChangeExecutionProofs` | `TypeCorrect`, `GateImplemented`; for one session `LocksExclude`, `ReadyBacked`, `CancelReleases`, `PlanFixed` |
| `VlanWorkflowProofs` | `TypeCorrect`; for one session `ReadyBacked`, `LastDecision` |
| `ConfigBackupProofs` | `TypeCorrect`, `OneSnapshot`, `BackedUp` |
| `LabApplyProofs` | `LabInductive`, `NothingApplied`; for one session `TakenIfFree` |
| `ExcelLabProofs` | `TypeCorrect`, `Exclusion`, `Evidenced`, `MutexImplemented` |
| `PlanningProofs` | `ScheduleIsDue`, `RollbackUndoes`, `RollbackIsRestored`, `LossIsReported`, `BatchesFollowRequest`, `WholeOutput`, `AppliedAccepted`, `NamesAreUnique`, `SavedAccepted`, `CaptureReported`, `LabGatesAgree`, `InventoryOnlyIsNotReached`, `LegacyOnlyReads`, `EvidenceReadAlike`, `PlanFileFaithful`, `TablesAreOne`, `CleanedStable` |

Each theorem about a state machine rests on an inductive invariant (`IInv`; in
`JobExecution` `SerialInv` and `FInv`), with a lemma per kind of step and a named step
per action. Type invariants are proved and therefore in no run.

- *Jobs.* That two requests are not on one device does not say why the second cannot
  enter. `Ownership` does: from acquire to release a request *is* the transaction that
  inserted the device's key, and from its first flush to its commit the one that wrote
  its job's row. A key and a row have one owner. `FInv` says what a request may have
  done by the place it is at: every task that it has attempted has a flushed status, a
  success only after backup, apply and save; and a cancel that has written ends as
  cancelled.
- *Rollouts.* `SelectionIsNext`: batches before a selected one have been attempted and
  never become pending again, so a selection that is stale is still in order.
  `BatchInProgress`: a request in a batch owns the job's row, so what it has flushed
  is what it did. `RequestsAreBacked` and `NothingBeforeCreation` give the approval
  and the secret.
- *Change executions.* `RowsAreBacked` and `SessionsAreBacked`: plan and approval only
  ever appear, so a stale `pending_approval` or `approved` still stands for them. The
  gates therefore need no isolation. Locks come and go: `SessionIsCurrent` says that a
  single session writes on what is still true, and the lock theorems assume
  `OneSession`. `LocksExclude` is about the orchestrator alone.
- *VLAN requests.* `Sound`: what the one session has read is still stored, a
  submission and an approval have found every row in order, and a plan that is made
  again leaves a row in order or blocks it. `Unaddressed` is the one error that the
  plan discovers by itself; such a request never gets a rollback and so never past the
  submission.
- *Backups.* The row of the job lets one run past its first write (`RunsExclude`), and
  the items are read after it, so they are as stored and a run takes snapshots only of
  items that had no success, each named by one item (`FaithfulRun`). The count that a
  session has read is at most the stored one, which is at most the new one: if the new
  one equals what was read, the stored one is right.
- *Lab apply.* No dictionary of a step has a hash among its keys, whatever overlaps
  (`NothingApplied`). A step of `LabApply` is one of `ChangeExecution`, a prototype
  command that creates an execution and its lock, or leaves the executions alone; each
  keeps the `IInv` of `ChangeExecutionProofs` (`LabInductive`), and with one session
  `SerialInv`, from which a reservation finds its target free (`LocksTaken`); the
  automatic gates of a prototype look for themselves (`TakenIfFree`). That no two
  executions hold a device is not an invariant here, because of `--lock`.
- *Excel lab.* `ProcessesAreEntitled` lists the evidence that a process has seen at
  each place (`Entitled`), and `FilesAreEvidenced` that a file, or a copy that will be
  written back, never holds what was not stored before: a lost update loses evidence
  and makes up none. Exclusion rests on the lock file alone.

The calculations have one invariant, that an answer is the solution of its problem
(`AnswerIsSolution`); the rest is about their operators. The library's induction
theorems have an operator as a parameter and cannot be used, so the induction is over
sets of numbers: a set of numbers has a least element (`LeastElement`, from the
well-foundedness of `<`), and a set with 0 and every successor has them all
(`SetInduction`). That a recursive function or a fold *has* the values of its equation
is proved first, by building the function up to each length (`RunExists`,
`FoldExists`); then an invariant of its steps is carried along.

- *Schedules.* A time is a day, an hour and a minute (`Clock`), and the run is the
  candidate of now, or the same an hour or a day later (`NextRunOfFields`), whatever
  the fields of day, month and weekday.
- *Rollback and risk.* Case by case over operations and families, for every VLAN, name
  and configuration that is read rightly and for which the change is undoable at all
  (`Undoable`).
- *Batches.* `CutTo` says what has become of the first n sizes: each is as requested,
  or cut to what remains, and nothing follows once nothing remains. The offsets rise,
  so each device lies in one batch.
- *Readers and sessions.* `ReadOf` and its like say what has been taken after n
  chunks, for replies and deadlines of any length; what ends the loop is then the end
  of the reply or a limit.
- *Imports.* A row that is accepted gives a device a name that no other one holds, and
  a table with unique names stays so over any number of rows.
- *Command line.* `RunTo` says of a run that has come past n steps what has been sent,
  failed and lost. A capture is the fold of the devices' files.
- *Drivers and gates.* Per family: each profile and contract is looked up once
  (`ProfilesAre`), and the gates are compared on what they say.
- *Evidence.* Both services read the validations through one operator, whose
  capabilities cover those of the workflow; the reports' reasons are compared set by
  set, with the risk that the worst of them has.
- *Plan files.* A plan has steps, whatever its driver and operation (`StepsOfPlan`),
  and its commands are the numbers of those in a phase, which a fold chooses
  (`OfPhase`). Whether it has steps or only commands, what is run of the file is what
  is run of the plan, but for the secrets; and a redacted text is no command.
- *Tables.* A genuine device is a vendor with at most one product and note. The
  decisions of both inventories are compared product by product, and each family's
  command, template and session are read off the five tables (`ContractsAre`,
  `TemplateSession`).
- *Cleaned output.* Each pass over the lines is a fold, so what it makes of a text is
  determined by what it makes of the first part and of each further line
  (`UnmarkedNext`, `SingleNext`, `VisibleNext`, `LinesInduction`). A reply is cut into
  echo, blank lines, the page before and after the mark, blank lines and prompt
  (`RawParts`), for configurations and pages of any length. No pass loses what is
  shown (`ShownIsKept`); where the device has overwritten no page and sent no blank
  line after the echo, the blank lines stay too (`AnswerSingle`, `AnswerStripped`).

Every invariant and every action property of the passing runs, and the refinements
that they check, are proved, those marked above for one session. Only model-checked is
liveness (`Answered`): ENABLED and fairness are out of the prover's reach.

## 5. Where the code and its documentation disagree

Four runs end in a counterexample. Each checks a sentence of the documentation.

- `job_cancel_during_run` - "job must not be cancelled" is to hold before and during
  execution (`docs/enterprise-platform.md`); a run that has read the job flushes
  `running` over a committed cancel and goes on to the devices. The check inside a
  task looks at the same stale object.
- `rollout_stop` - after a failed canary "later batches cannot start"; a second
  `run-next-batch` that has read the job before waits for the row, and then starts the
  next batch.
- `lab_gates` - `/lab-apply/execute` "denies requests unless every gate passes"
  (`README.md:351`), and the test of the kernel allows an apply with all gates
  (`tests/enterprise/test_apply_safety_kernel.py:31`), on a step made by the test that
  has a `command_hash`. No service writes one, and the VLAN steps name the operation
  `create_vlan` where a request names `vlan_create`: with lock, credential, backup,
  validation, approval and dry-run all there, every operation is denied.
- `import_again` - an import "idempotently creates or updates device metadata"
  (`docs/inventory-onboarding.md`); a row that takes the name of a device which a
  later row renames is refused, and accepted when the same list is imported again.

The models show more, for which there is no run:

- Two `run-next-batch` calls that overlap select one batch, and the second sends the
  password to its devices again. Without `stop_on_first_failure` the last batch alone
  decides, so a rollout with a failed batch is `succeeded` and its secret gone.
- `calculate_next_run` accepts five cron fields and looks at two: `0 2 * * 0` runs
  every day, and for `* 5` or `* *` the next run is a minute that is named but not the
  next one. `docs/config-backup-scheduling.md:42` says that `next_run_at` is
  calculated from the cron expression.
- With two sessions on change executions, two reservations both find no conflicting
  lock and both insert; a reservation commits after the cancel that did not see it;
  mark-ready overwrites a cancel. TLC then refutes `LockExclusion`,
  `CancelledHoldsNoLocks` and `ReadyIsBacked`. `--lock` of the prototype needs no
  overlap to take a device that is held.
- With two sessions on a VLAN request an approval overwrites a cancel.
- `reserve_lock` of the file lab, having read `locks.json` before a release of another
  device, writes the released row back.
- `cancel` of a job marks tasks as skipped that a batch it waited for has executed
  (`job_service.py:138`); `evaluate-apply` of the Excel lab may record its result with
  a dry-run that replaced the evaluated one (`excel_lab.py:355`); a simulated
  execution keeps its locks, and cancel ignores it
  (`change_execution_simulation_service.py:34`). No document says what should happen,
  so no property judges them.

In those that need an overlap, decision and write are separate statements with no
version column, `SELECT ... FOR UPDATE`, unique constraint or condition in the
`UPDATE`.

## 6. Not modelled

- *Generic device backups*: the action `Backup` of `JobExecution`; the read API has no
  state.
- *Change planner, sanitizers and masking*: pure functions on strings. The planner's
  result is the set of tasks and checks of a job (`Targets`, `Gate`).
- *Access control*: one membership test per endpoint; no state.
- *Audit log*: rows are appended in the same transaction and nothing decides by them.
- *Celery* (`app/jobs/celery_app.py`, `tasks.py`): a stub, nothing is enqueued.
- *Schema migrations*: run once, offline.

Left out of components that are modelled in part:

- *Configuration backups*: diffs (under overlap one may be missed), restore plans
  (approve and reject look at no status), the rows of schedules,
  `delete_old_snapshots`, which nothing calls.
- *Lab validations, vault*: transcripts and checklists; versions under concurrent
  rotation, where an update may be lost; the file vault `credentials.json`, read,
  changed and replaced without a lock, in which a reference matches id or name,
  whichever comes first.
- *Lab apply*: overlap of its own requests; the transport, which `LabSession` has.
- *VLAN workflows*: scopes by site, tag and query, whose devices may change between
  validations; a device listed twice.
- *Terminal reader*: a configuration with the text of a paging marker in one of its
  lines, which would be answered with a key.
- *Excel lab*: checks on inventory, environment and credential are the constant
  `Eligible`; reports, summaries and web pages are left out.
- *Inventory*: discovery and metadata; overlapping imports; `validate_import_batch`,
  `resolve_drivers` and `validate_credentials`, which no endpoint calls.
- *Operator console and observability*: lists of events and workflows, exports.
- *Drivers and templates*: the texts of commands, the simulated sessions of
  `app/drivers`.
- *`netops_orchestrator`*: reading of device lists and arguments.

## 7. Plan

Next, in this order:

1. `CredentialVault` (`credential_vault_service.py`, `file_credential_vault.py`):
   versions under concurrent rotation, a disable that races a rotation, the JSON
   variant over the operators of `FileLabState`.
2. Diffs and restore plans in `ConfigBackup`: which two snapshots a diff compares when
   runs overlap, and the decisions on a restore plan.
3. The refinement of `ApprovalGate` by `VlanWorkflow`, and what of it remains when
   sessions overlap.
4. Inventory imports that overlap, and the order of evaluation and record in the Excel
   lab.
