---------------------------- MODULE JobExecution ----------------------------
(***************************************************************************)
(* VLAN change jobs: their life cycle (JobService: create, approve,        *)
(* cancel) and their execution (JobExecutionService.execute_job), one HTTP *)
(* request per call, every request one database transaction.               *)
(*                                                                         *)
(* app/api/deps.py opens a SQLAlchemy session per request, commits it once *)
(* after the endpoint returns and rolls it back on any exception.  FastAPI *)
(* runs the endpoints in a thread pool, so requests interleave.  The model *)
(* keeps what PostgreSQL's default READ COMMITTED level gives them:        *)
(*   - a session reads the committed row once and keeps that object (view) *)
(*     for the whole request; flushes are invisible to the others;         *)
(*   - an UPDATE waits until no other open transaction has written the row *)
(*     (jobTxn) and then overwrites only the columns it assigns;           *)
(*   - an INSERT of a device_locks row waits until no other open           *)
(*     transaction has inserted that primary key (lockTxn), even when the  *)
(*     other one has deleted its row again.                                *)
(* A transaction that dies (process kill, lost connection, deadlock        *)
(* victim) is rolled back; what its transport did to a device stays.       *)
(***************************************************************************)
EXTENDS Naturals, FiniteSets

CONSTANTS
    Jobs,      \* rows of the jobs table
    Devices,   \* rows of the devices table
    Requests,  \* HTTP calls; each one is made at most once
    Targets,   \* Targets[j]: the devices of job j, one job task for each
    Gate,      \* Gate[t]: what the checks before the lock make of task t
    None       \* no request, no job, no task

Tasks == {t \in Jobs \X Devices : t[2] \in Targets[t[1]]}

ASSUME JobExecutionAssumption ==
    /\ Targets \in [Jobs -> SUBSET Devices]
    /\ Gate \in [Tasks -> {"open", "unsupported", "refused"}]
    /\ None \notin Jobs \cup Requests \cup Tasks

JobStatus      == {"absent", "pending_approval", "approved", "succeeded",
                   "partially_failed", "failed", "cancelled"}
ApprovalStatus == {"pending", "approved", "cancelled"}
JobRow         == [status : JobStatus \cup {"running"}, approval : ApprovalStatus]
TaskStatus     == {"pending", "succeeded", "failed", "skipped"}
Ops            == {"create", "approve", "cancel", "run"}

VARIABLES
    \* committed database
    job,      \* job[j]: status and approval_status of job j
    task,     \* task[t]: status of job task t
    backup,   \* the tasks whose backup_id refers to a stored backup
    lockRow,  \* lockRow[d]: the job in the device_locks row of d, or None
    \* database locks of open transactions
    jobTxn,   \* jobTxn[j]: the transaction that has updated row j, or None
    lockTxn,  \* lockTxn[d]: the transaction that has inserted key d, or None
    \* requests
    call,     \* call[r]: the operation and the job of request r
    pc,       \* pc[r]: where request r is; inside a task, the task's status
    view,     \* view[r]: the job object in the session of r
    seen,     \* seen[r]: the tasks a cancel found pending
    todo,     \* todo[r]: the tasks a run has not attempted yet
    cur,      \* cur[r]: the task a run is executing, or None
    wrote,    \* wrote[r][t]: the status r has flushed for t, or "unset"
    saved,    \* saved[r]: the tasks for which r has stored a backup
    rows,     \* rows[r]: the device_locks rows r has inserted and not deleted
    \* devices
    applied,  \* applied[t]: how often the config commands of t were sent
    persisted \* persisted[t]: how often the save commands of t succeeded

dbVars  == <<job, task, backup, lockRow>>
txVars  == <<jobTxn, lockTxn>>
reqVars == <<call, pc, view, seen, todo, cur, wrote, saved, rows>>
devVars == <<applied, persisted>>
vars    == <<dbVars, txVars, reqVars, devVars>>

JobOf(r)    == call[r].job
TasksOf(j)  == {t \in Tasks : t[1] = j}
DeviceOf(t) == t[2]
Unset       == [t \in Tasks |-> "unset"]

Goto(r, label) == pc' = [pc EXCEPT ![r] = label]

-----------------------------------------------------------------------------
(* A job may have been created and approved before the calls of interest.  *)

Init ==
    /\ job \in [Jobs -> {[status |-> "absent", approval |-> "pending"],
                         [status |-> "pending_approval", approval |-> "pending"],
                         [status |-> "approved", approval |-> "approved"]}]
    /\ task = [t \in Tasks |-> "pending"]
    /\ backup = {}
    /\ lockRow = [d \in Devices |-> None]
    /\ jobTxn = [j \in Jobs |-> None]
    /\ lockTxn = [d \in Devices |-> None]
    /\ call \in [Requests -> [op : Ops, job : Jobs]]
    /\ pc = [r \in Requests |-> "idle"]
    /\ view = [r \in Requests |-> [status |-> "absent", approval |-> "pending"]]
    /\ seen = [r \in Requests |-> {}]
    /\ todo = [r \in Requests |-> {}]
    /\ cur = [r \in Requests |-> None]
    /\ wrote = [r \in Requests |-> Unset]
    /\ saved = [r \in Requests |-> {}]
    /\ rows = [r \in Requests |-> {}]
    /\ applied = [t \in Tasks |-> 0]
    /\ persisted = [t \in Tasks |-> 0]

-----------------------------------------------------------------------------
(* Transactions                                                            *)

\* UPDATE of the row of job j by r: waits for the other open transaction.
CanUpdateJob(r, j) == jobTxn[j] \in {None, r}

\* Mutant: a rollback that leaves the inserted keys behind.
ReleaseTxnKeepsKeys(r) ==
    /\ jobTxn' = [j \in Jobs |-> IF jobTxn[j] = r THEN None ELSE jobTxn[j]]
    /\ UNCHANGED lockTxn

\* The end of the transaction of r gives up every database lock it holds.
ReleaseTxn(r) ==
    /\ jobTxn' = [j \in Jobs |-> IF jobTxn[j] = r THEN None ELSE jobTxn[j]]
    /\ lockTxn' = [d \in Devices |-> IF lockTxn[d] = r THEN None ELSE lockTxn[d]]

\* The session is closed: its objects and unwritten changes are gone.
CloseSession(r) ==
    /\ Goto(r, "done")
    /\ seen' = [seen EXCEPT ![r] = {}]
    /\ todo' = [todo EXCEPT ![r] = {}]
    /\ cur' = [cur EXCEPT ![r] = None]
    /\ wrote' = [wrote EXCEPT ![r] = Unset]
    /\ saved' = [saved EXCEPT ![r] = {}]
    /\ rows' = [rows EXCEPT ![r] = {}]
    /\ UNCHANGED <<call, view>>

\* The inserted and not deleted device_locks rows of r become visible.
CommittedLockRows(r) ==
    [d \in Devices |-> IF lockTxn[d] # r THEN lockRow[d]
                       ELSE IF d \in rows[r] THEN JobOf(r) ELSE None]

\* The task statuses r has flushed become visible.
CommittedTasks(r) ==
    [t \in Tasks |-> IF wrote[r][t] = "unset" THEN task[t] ELSE wrote[r][t]]

\* An assigned column reaches the UPDATE only if it differs from the loaded one.
Assigned(stored, loaded, new) == IF loaded = new THEN stored ELSE new

-----------------------------------------------------------------------------
(* JobService                                                              *)

\* POST /jobs/vlan-change: the job waits for approval, its tasks are pending.
CreateJob(r) ==
    LET j == JobOf(r) IN
    /\ call[r].op = "create" /\ pc[r] = "idle"
    /\ job[j].status = "absent"
    /\ job' = [job EXCEPT ![j] = [status |-> "pending_approval", approval |-> "pending"]]
    /\ Goto(r, "done")
    /\ UNCHANGED <<task, backup, lockRow, txVars, call, view, seen, todo, cur,
                   wrote, saved, rows, devVars>>

\* POST /jobs/{id}/approve reads the job: an unknown or a cancelled job is an
\* error, an approved one is returned unchanged.
ApproveLoad(r) ==
    LET row == job[JobOf(r)] IN
    /\ call[r].op = "approve" /\ pc[r] = "idle"
    /\ view' = [view EXCEPT ![r] = row]
    /\ Goto(r, IF row.status \in {"absent", "cancelled"} \/ row.approval = "approved"
               THEN "done" ELSE "write")
    /\ UNCHANGED <<dbVars, txVars, call, seen, todo, cur, wrote, saved, rows, devVars>>

\* The UPDATE of both columns and the commit.
ApproveWrite(r) ==
    LET j == JobOf(r) IN
    /\ call[r].op = "approve" /\ pc[r] = "write"
    /\ CanUpdateJob(r, j)
    /\ job' = [job EXCEPT ![j] =
                 [status   |-> Assigned(@.status, view[r].status, "approved"),
                  approval |-> Assigned(@.approval, view[r].approval, "approved")]]
    /\ CloseSession(r)
    /\ UNCHANGED <<task, backup, lockRow, txVars, devVars>>

\* POST /jobs/{id}/cancel reads the job: a cancelled one is returned
\* unchanged, a running or succeeded one is a conflict.
CancelLoad(r) ==
    LET row == job[JobOf(r)] IN
    /\ call[r].op = "cancel" /\ pc[r] = "idle"
    /\ view' = [view EXCEPT ![r] = row]
    /\ Goto(r, IF row.status \in {"absent", "cancelled", "running", "succeeded"}
               THEN "done" ELSE "readTasks")
    /\ UNCHANGED <<dbVars, txVars, call, seen, todo, cur, wrote, saved, rows, devVars>>

\* tasks.list_by_job: a later statement, so it may see a later commit.
CancelReadTasks(r) ==
    /\ call[r].op = "cancel" /\ pc[r] = "readTasks"
    /\ seen' = [seen EXCEPT ![r] = {t \in TasksOf(JobOf(r)) : task[t] = "pending"}]
    /\ Goto(r, "write")
    /\ UNCHANGED <<dbVars, txVars, call, view, todo, cur, wrote, saved, rows, devVars>>

\* The flush of the job and of the tasks found pending, and the commit.
CancelWrite(r) ==
    LET j == JobOf(r) IN
    /\ call[r].op = "cancel" /\ pc[r] = "write"
    /\ CanUpdateJob(r, j)
    /\ job' = [job EXCEPT ![j] =
                 [status   |-> Assigned(@.status, view[r].status, "cancelled"),
                  approval |-> Assigned(@.approval, view[r].approval, "cancelled")]]
    /\ task' = [t \in Tasks |-> IF t \in seen[r] THEN "skipped" ELSE task[t]]
    /\ CloseSession(r)
    /\ UNCHANGED <<backup, lockRow, txVars, devVars>>

-----------------------------------------------------------------------------
(* JobExecutionService.execute_job                                         *)

\* Mutant: the approval is not checked.
MayRunUnapproved(row) == row.status \notin {"absent", "cancelled"}

\* The job must exist, not be cancelled, and be approved.
MayRun(row) ==
    /\ row.status \notin {"absent", "cancelled"}
    /\ row.approval = "approved"

RunLoad(r) ==
    LET row == job[JobOf(r)] IN
    /\ call[r].op = "run" /\ pc[r] = "idle"
    /\ view' = [view EXCEPT ![r] = row]
    /\ Goto(r, IF MayRun(row) THEN "update" ELSE "done")
    /\ UNCHANGED <<dbVars, txVars, call, seen, todo, cur, wrote, saved, rows, devVars>>

\* Mutant: "running" is assigned and not flushed before the tasks.
FlushRunningLate(r, j) == UNCHANGED jobTxn

\* The UPDATE to "running" keeps the row locked until the transaction ends.
FlushRunning(r, j) == jobTxn' = [jobTxn EXCEPT ![j] = r]

\* job.status = "running", flushed, and the ids of the job's tasks.
RunUpdate(r) ==
    LET j == JobOf(r) IN
    /\ pc[r] = "update"
    /\ CanUpdateJob(r, j)
    /\ FlushRunning(r, j)
    /\ view' = [view EXCEPT ![r].status = "running"]
    /\ todo' = [todo EXCEPT ![r] = TasksOf(j)]
    /\ Goto(r, "next")
    /\ UNCHANGED <<dbVars, lockTxn, call, seen, cur, wrote, saved, rows, devVars>>

\* What the checks before lock_service.acquire decide.
GateOf(r, t) == IF view[r].status = "cancelled" THEN "refused" ELSE Gate[t]

\* execute_job_task begins; a task that fails a check ends at once.
StartTask(r) ==
    /\ pc[r] = "next"
    /\ \E t \in todo[r] :
        /\ todo' = [todo EXCEPT ![r] = @ \ {t}]
        /\ \/ /\ GateOf(r, t) = "open"
              /\ cur' = [cur EXCEPT ![r] = t]
              /\ Goto(r, "acquire")
              /\ UNCHANGED wrote
           \/ /\ GateOf(r, t) # "open"
              /\ wrote' = [wrote EXCEPT ![r][t] =
                            IF GateOf(r, t) = "unsupported" THEN "skipped" ELSE "failed"]
              /\ UNCHANGED <<cur, pc>>
    /\ UNCHANGED <<dbVars, txVars, call, view, seen, saved, rows, devVars>>

\* Mutant: the lock row is added to the session and not flushed.
InsertLockUnflushed(r, d) ==
    /\ UNCHANGED lockTxn
    /\ rows' = [rows EXCEPT ![r] = @ \cup {d}]

\* DeviceLockRepository.create: the row is added and flushed.
InsertLock(r, d) ==
    /\ lockTxn' = [lockTxn EXCEPT ![d] = r]
    /\ rows' = [rows EXCEPT ![r] = @ \cup {d}]

\* LockService.acquire: a visible unexpired lock fails the task, otherwise the
\* row is inserted, which waits for a transaction that inserted the same key.
Acquire(r) ==
    LET d == DeviceOf(cur[r]) IN
    /\ pc[r] = "acquire"
    /\ lockTxn[d] \in {None, r}
    /\ \E expired \in BOOLEAN :
        IF lockRow[d] # None /\ ~expired
        THEN /\ wrote' = [wrote EXCEPT ![r][cur[r]] = "failed"]
             /\ cur' = [cur EXCEPT ![r] = None]
             /\ Goto(r, "next")
             /\ UNCHANGED <<lockTxn, rows>>
        ELSE /\ InsertLock(r, d)
             /\ Goto(r, "backing_up")
             /\ UNCHANGED <<wrote, cur>>
    /\ UNCHANGED <<dbVars, jobTxn, call, view, seen, todo, saved, devVars>>

\* LockService.release deletes the row of the device.
ReleaseLock(r, d) == rows' = [rows EXCEPT ![r] = @ \ {d}]

\* The end of a task: its final status, and the lock released (finally).
EndTask(r, status) ==
    /\ wrote' = [wrote EXCEPT ![r][cur[r]] = status]
    /\ ReleaseLock(r, DeviceOf(cur[r]))
    /\ cur' = [cur EXCEPT ![r] = None]
    /\ Goto(r, "next")

\* The next stage of the task, or the end of the task on a failure.
StageResult(r, ok, next) ==
    \/ ok /\ Goto(r, next) /\ UNCHANGED <<wrote, rows, cur>>
    \/ ~ok /\ EndTask(r, "failed")

\* Mutant: an error of the backup is swallowed and the task goes on.
BackupErrorIgnored(r) ==
    /\ pc[r] = "backing_up"
    /\ \E ok \in BOOLEAN : saved' = [saved EXCEPT ![r] = IF ok THEN @ \cup {cur[r]} ELSE @]
    /\ Goto(r, "applying")
    /\ UNCHANGED <<dbVars, txVars, call, view, seen, todo, cur, wrote, rows, devVars>>

\* BackupService.create_backup stores the backup and backup_id is set, or it
\* raises (the device is unknown, the configuration cannot be encrypted), which
\* fails the task.
Backup(r) ==
    /\ pc[r] = "backing_up"
    /\ \E ok \in BOOLEAN :
        /\ saved' = [saved EXCEPT ![r] = IF ok THEN @ \cup {cur[r]} ELSE @]
        /\ StageResult(r, ok, "applying")
    /\ UNCHANGED <<dbVars, txVars, call, view, seen, todo, devVars>>

\* transport.send_config(config_commands); a failure may come half way.
Apply(r) ==
    /\ pc[r] = "applying"
    /\ applied' = [applied EXCEPT ![cur[r]] = @ + 1]
    /\ \E ok \in BOOLEAN : StageResult(r, ok, "verifying")
    /\ UNCHANGED <<dbVars, txVars, call, view, seen, todo, saved, persisted>>

\* transport.send_command for every verification command.
Verify(r) ==
    /\ pc[r] = "verifying"
    /\ \E ok \in BOOLEAN : StageResult(r, ok, "saving")
    /\ UNCHANGED <<dbVars, txVars, call, view, seen, todo, saved, devVars>>

\* Mutant: the result of the save commands is not looked at.
SaveOutcomeIgnored(ok) == "succeeded"

\* The task succeeds exactly when its last stage does.
SaveOutcome(ok) == IF ok THEN "succeeded" ELSE "failed"

\* transport.send_config(save_commands).
Save(r) ==
    /\ pc[r] = "saving"
    /\ \E ok \in BOOLEAN :
        /\ EndTask(r, SaveOutcome(ok))
        /\ persisted' = [persisted EXCEPT ![cur[r]] = IF ok THEN @ + 1 ELSE @]
    /\ UNCHANGED <<dbVars, txVars, call, view, seen, todo, saved, applied>>

\* Mutant: one success is enough.
FinalStatusLenient(statuses) == IF "succeeded" \in statuses THEN "succeeded" ELSE "failed"

\* The job's status from the statuses of the tasks it has just attempted.
FinalStatus(statuses) ==
    IF statuses \subseteq {"succeeded"} THEN "succeeded"
    ELSE IF "succeeded" \in statuses THEN "partially_failed" ELSE "failed"

\* The last flush and the commit: only the status column of the job was
\* assigned, so approval_status keeps what is in the database.
Commit(r) ==
    LET j == JobOf(r) IN
    /\ pc[r] = "next" /\ todo[r] = {}
    /\ job' = [job EXCEPT ![j].status = FinalStatus({wrote[r][t] : t \in TasksOf(j)})]
    /\ task' = CommittedTasks(r)
    /\ backup' = backup \cup saved[r]
    /\ lockRow' = CommittedLockRows(r)
    /\ ReleaseTxn(r)
    /\ CloseSession(r)
    /\ UNCHANGED devVars

-----------------------------------------------------------------------------
(* The transaction of r dies: get_db's rollback, or the server's when the  *)
(* process or the connection is gone.  Nothing undoes the device.          *)

Rollback(r) ==
    /\ ReleaseTxn(r)
    /\ CloseSession(r)
    /\ UNCHANGED <<dbVars, devVars>>

InTransaction(r) == pc[r] \notin {"idle", "done"}

Abort(r) == InTransaction(r) /\ Rollback(r)

\* r waits for the key of its device, held by another transaction.
Blocked(r) == pc[r] = "acquire" /\ lockTxn[DeviceOf(cur[r])] \notin {None, r}
Blocker(r) == lockTxn[DeviceOf(cur[r])]

\* r is on a cycle of waiting transactions.
InCycle(r) ==
    \E S \in SUBSET Requests :
        /\ r \in S
        /\ \A x \in S : Blocked(x) /\ Blocker(x) \in S
        /\ \A x \in S : \E y \in S : Blocker(y) = x

\* PostgreSQL's deadlock detector aborts a member of the cycle; the error
\* leaves the session unusable, so execute_job_task's own flush raises too.
DeadlockVictim(r) == InCycle(r) /\ Rollback(r)

-----------------------------------------------------------------------------
RunStep(r) ==
    \/ RunUpdate(r) \/ StartTask(r) \/ Acquire(r) \/ Backup(r)
    \/ Apply(r) \/ Verify(r) \/ Save(r) \/ Commit(r)

OtherStep(r) == ApproveWrite(r) \/ CancelReadTasks(r) \/ CancelWrite(r)

Arrive(r) == CreateJob(r) \/ ApproveLoad(r) \/ CancelLoad(r) \/ RunLoad(r)

Next ==
    \E r \in Requests :
        \/ Arrive(r) \/ RunStep(r) \/ OtherStep(r)
        \/ Abort(r) \/ DeadlockVictim(r)

Spec == Init /\ [][Next]_vars

\* A request that has arrived is executed by its thread, and the database
\* resolves a deadlock; nobody is obliged to call the API.
Fairness == \A r \in Requests :
                /\ WF_vars(RunStep(r) \/ OtherStep(r))
                /\ WF_vars(DeadlockVictim(r))

FairSpec == Spec /\ Fairness

-----------------------------------------------------------------------------
(* Properties                                                              *)

TypeOK ==
    /\ job \in [Jobs -> JobRow]
    /\ task \in [Tasks -> TaskStatus]
    /\ backup \subseteq Tasks
    /\ lockRow \in [Devices -> Jobs \cup {None}]
    /\ jobTxn \in [Jobs -> Requests \cup {None}]
    /\ lockTxn \in [Devices -> Requests \cup {None}]
    /\ call \in [Requests -> [op : Ops, job : Jobs]]
    /\ pc \in [Requests -> {"idle", "readTasks", "write", "update", "next", "acquire",
                            "backing_up", "applying", "verifying", "saving", "done"}]
    /\ view \in [Requests -> JobRow]
    /\ seen \in [Requests -> SUBSET Tasks]
    /\ todo \in [Requests -> SUBSET Tasks]
    /\ cur \in [Requests -> Tasks \cup {None}]
    /\ wrote \in [Requests -> [Tasks -> TaskStatus \cup {"unset"}]]
    /\ saved \in [Requests -> SUBSET Tasks]
    /\ rows \in [Requests -> SUBSET Devices]
    /\ applied \in [Tasks -> Nat]
    /\ persisted \in [Tasks -> Nat]

\* r holds the device of its current task: between acquire and release.
InSession(r) == pc[r] \in {"backing_up", "applying", "verifying", "saving"}

\* r executes its job: the job's row has been updated and not yet committed.
Executing(r) == InSession(r) \/ pc[r] \in {"next", "acquire"}

\* Two requests never work on one device at the same time, whichever jobs they
\* run (LockService.acquire and release around execute_vlan_change_task).
DeviceExclusive ==
    \A r, s \in Requests :
        r # s /\ InSession(r) /\ InSession(s) => DeviceOf(cur[r]) # DeviceOf(cur[s])

\* The same promise as an abstract specification: a device has at most one
\* holder and a request holds one device at a time.
Mutex == INSTANCE DeviceMutex WITH
    Clients <- Requests,
    holders <- [d \in Devices |-> {r \in Requests : InSession(r) /\ DeviceOf(cur[r]) = d}]

ImplementsMutex == Mutex!Spec

\* Two executions of one job never overlap.  execute_job has no check for it:
\* the flush of "running" before the tasks is what serialises them.
OneRunPerJob ==
    \A r, s \in Requests :
        r # s /\ Executing(r) /\ Executing(s) => JobOf(r) # JobOf(s)

\* What the job says agrees with what its tasks say, whatever approvals,
\* cancellations and runs were interleaved (execute_job's final status).
StatusAgreesWithTasks ==
    \A j \in Jobs :
        LET done == {t \in TasksOf(j) : task[t] = "succeeded"} IN
        /\ job[j].status = "succeeded" => done = TasksOf(j)
        /\ job[j].status = "partially_failed" => done # {} /\ done # TasksOf(j)
        /\ job[j].status = "failed" => done = {}

\* A task recorded as succeeded was sent to its device and saved there, after a
\* backup whose record exists, also when other executions of it were lost.
RecordedSuccessIsReal ==
    \A t \in Tasks :
        task[t] = "succeeded" => t \in backup /\ applied[t] > 0 /\ persisted[t] > 0

\* Config commands reach a device only from a request that holds the key of
\* the device's lock, has stored the backup and saw the job approved.
ChangeIsGuarded ==
    [][\A t \in Tasks : applied'[t] # applied[t] =>
        \E r \in Requests :
            /\ cur[r] = t /\ t \in saved[r]
            /\ lockTxn[DeviceOf(t)] = r
            /\ view[r].approval = "approved"]_vars

\* Every request that has arrived is answered: no cycle of lock waits and no
\* lock left behind keeps a worker thread for ever.
Answered == \A r \in Requests : pc[r] # "idle" ~> pc[r] = "done"

-----------------------------------------------------------------------------
(* The inductive invariant behind the safety properties                    *)

\* What a request in the middle of a job owns: its tasks belong to its job, the
\* key of the device's lock is its own from acquire to release, and so is the
\* row of the job from the first flush to the commit.
Ownership ==
    \A r \in Requests :
        /\ todo[r] \subseteq TasksOf(JobOf(r))
        /\ pc[r] = "acquire" \/ InSession(r) => cur[r] \in TasksOf(JobOf(r))
        /\ InSession(r) => lockTxn[DeviceOf(cur[r])] = r
        /\ Executing(r) => jobTxn[JobOf(r)] = r

IInv == TypeOK /\ Ownership

\* What a request keeps for the end of its transaction: a run has an approved
\* job, the backup and the commands of its task behind it, a status for every
\* task it has attempted, a success only of what it has backed up, sent and
\* saved; a cancel has a job that was not cancelled, and tasks of its own.
Faithful(r) ==
    LET own == TasksOf(JobOf(r)) IN
    /\ pc[r] = "update" \/ Executing(r) => view[r].approval = "approved"
    /\ pc[r] \in {"applying", "verifying", "saving"} => cur[r] \in saved[r]
    /\ pc[r] \in {"verifying", "saving"} => applied[cur[r]] > 0
    /\ Executing(r) => \A t \in own \ todo[r] :
                          wrote[r][t] # "unset" \/ (pc[r] # "next" /\ t = cur[r])
    /\ \A t \in Tasks :
         /\ wrote[r][t] # "unset" => t \in own
         /\ wrote[r][t] = "succeeded" => t \in saved[r] /\ applied[t] > 0 /\ persisted[t] > 0
    /\ call[r].op = "cancel" /\ pc[r] \in {"readTasks", "write"} => view[r].status # "cancelled"
    /\ seen[r] \subseteq own

FInv == RecordedSuccessIsReal /\ StatusAgreesWithTasks /\ \A r \in Requests : Faithful(r)

-----------------------------------------------------------------------------
(* What the documentation says of cancellation and approval                *)

\* "job must not be cancelled": no device is changed for a cancelled job.
CancelledJobIsNotExecuted ==
    [][\A t \in Tasks : applied'[t] # applied[t] =>
        job[t[1]].status # "cancelled" /\ job[t[1]].approval # "cancelled"]_vars
=============================================================================
