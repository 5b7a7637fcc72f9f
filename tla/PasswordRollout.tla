--------------------------- MODULE PasswordRollout ---------------------------
(***************************************************************************)
(* A password-change job and its canary rollout: JobService.approve and    *)
(* cancel, PasswordRolloutService.run_next_batch, pause and resume, and    *)
(* the execution of one password task on one device, as concurrent HTTP    *)
(* requests.  Sessions and transactions behave as in JobExecution: a       *)
(* request decides on the job object it has read, an UPDATE waits for the  *)
(* transaction that has written the row and then overwrites the assigned   *)
(* columns, and all that a request has written appears at its commit.      *)
(*                                                                         *)
(* The batches are those create_batches has stored for the job's canary    *)
(* plan, in order (module CanaryPlan).  The rows of a batch are written    *)
(* only by a request that has written the job's row before, so the row of  *)
(* the job is the only one to wait for.  Devices shared with other jobs    *)
(* are the subject of JobExecution; what their locks can do to a task here *)
(* is to fail it or to end the transaction.                                *)
(***************************************************************************)
EXTENDS Naturals, FiniteSets

CONSTANTS
    Tasks,              \* job tasks of the rollout, one per device
    BatchCount,         \* number of rollout batches
    BatchOf,            \* BatchOf[t]: the batch of task t
    Gate,               \* Gate[t]: what the checks before the lock make of t
    StopOnFirstFailure, \* the payload's stop_on_first_failure
    Requests,           \* HTTP calls; each one is made at most once
    None                \* no request, no task

Batches == 1 .. BatchCount

ASSUME PasswordRolloutAssumption ==
    /\ BatchCount \in Nat
    /\ BatchOf \in [Tasks -> Batches]
    /\ Gate \in [Tasks -> {"open", "unsupported", "refused"}]
    /\ StopOnFirstFailure \in BOOLEAN
    /\ None \notin Requests \cup Tasks

BatchTasks(b) == {t \in Tasks : BatchOf[t] = b}

JobStatus      == {"absent", "pending_approval", "approved", "paused", "succeeded",
                   "partially_failed", "failed", "cancelled"}
ApprovalStatus == {"pending", "approved", "cancelled"}
JobRow         == [status : JobStatus \cup {"running"}, approval : ApprovalStatus]
BatchStatus    == {"pending", "succeeded", "failed"}
TaskStatus     == {"pending", "succeeded", "failed", "skipped"}
Ops            == {"create", "approve", "cancel", "pause", "resume", "run"}

VARIABLES
    \* committed database
    job,      \* status and approval_status of the job
    batch,    \* batch[b]: status of rollout batch b
    task,     \* task[t]: status of job task t
    secret,   \* the encrypted new password is stored
    \* database lock of an open transaction
    jobTxn,   \* the transaction that has updated the job's row, or None
    \* requests
    call,     \* call[r]: the operation of request r
    pc,       \* pc[r]: where request r is
    view,     \* view[r]: the job object in the session of r
    seen,     \* seen[r]: the tasks a cancel found pending
    sel,      \* sel[r]: the batch a run has selected, or 0
    todo,     \* todo[r]: the tasks of the batch not attempted yet
    cur,      \* cur[r]: the task r is executing, or None
    wrote,    \* wrote[r][t]: the status r has flushed for t, or "unset"
    \* devices
    changed,  \* tasks whose password commands were sent
    verified, \* tasks whose device was reached with the password last sent
    saved     \* tasks whose device has saved the new password

dbVars  == <<job, batch, task, secret>>
runVars == <<sel, todo, cur, wrote>>
devVars == <<changed, verified, saved>>
vars    == <<dbVars, jobTxn, call, pc, view, seen, runVars, devVars>>

Unset == [t \in Tasks |-> "unset"]

Pending == {b \in Batches : batch[b] = "pending"}

Goto(r, label) == pc' = [pc EXCEPT ![r] = label]

-----------------------------------------------------------------------------
(* The job may have been created and approved before the calls of interest *)

Init ==
    /\ \/ /\ job = [status |-> "absent", approval |-> "pending"]
          /\ secret = FALSE
       \/ /\ job \in {[status |-> "pending_approval", approval |-> "pending"],
                      [status |-> "approved", approval |-> "approved"]}
          /\ secret = TRUE
    /\ batch = [b \in Batches |-> "pending"]
    /\ task = [t \in Tasks |-> "pending"]
    /\ jobTxn = None
    /\ call \in [Requests -> Ops]
    /\ pc = [r \in Requests |-> "idle"]
    /\ view = [r \in Requests |-> [status |-> "absent", approval |-> "pending"]]
    /\ seen = [r \in Requests |-> {}]
    /\ sel = [r \in Requests |-> 0]
    /\ todo = [r \in Requests |-> {}]
    /\ cur = [r \in Requests |-> None]
    /\ wrote = [r \in Requests |-> Unset]
    /\ changed = {} /\ verified = {} /\ saved = {}

-----------------------------------------------------------------------------
(* Transactions                                                            *)

CanUpdateJob(r) == jobTxn \in {None, r}

\* The end of the transaction of r gives up the row it has written.
ReleaseTxn(r) == jobTxn' = IF jobTxn = r THEN None ELSE jobTxn

\* The session is closed: its objects and unwritten changes are gone.
CloseSession(r) ==
    /\ Goto(r, "done")
    /\ seen' = [seen EXCEPT ![r] = {}]
    /\ sel' = [sel EXCEPT ![r] = 0]
    /\ todo' = [todo EXCEPT ![r] = {}]
    /\ cur' = [cur EXCEPT ![r] = None]
    /\ wrote' = [wrote EXCEPT ![r] = Unset]
    /\ UNCHANGED <<call, view>>

\* An assigned column reaches the UPDATE only if it differs from the loaded one.
Assigned(stored, loaded, new) == IF loaded = new THEN stored ELSE new

\* r reads the job's row and goes on if the operation is allowed on it.
Load(r, op, allowed, label) ==
    /\ call[r] = op /\ pc[r] = "idle"
    /\ view' = [view EXCEPT ![r] = job]
    /\ Goto(r, IF allowed THEN label ELSE "done")
    /\ UNCHANGED <<dbVars, jobTxn, call, seen, runVars, devVars>>

\* r writes the assigned columns of the job and commits.
WriteJob(r, op, status, approval) ==
    /\ call[r] = op /\ pc[r] = "write"
    /\ CanUpdateJob(r)
    /\ job' = [status   |-> Assigned(job.status, view[r].status, status),
               approval |-> Assigned(job.approval, view[r].approval, approval)]
    /\ CloseSession(r)
    /\ UNCHANGED <<batch, secret, jobTxn, devVars>>

-----------------------------------------------------------------------------
(* Creation, approval, cancellation, pause and resume                      *)

\* PasswordChangeService.create_password_change_job: the job waits for
\* approval, the secret is stored, every batch and task is pending.
CreateJob(r) ==
    /\ call[r] = "create" /\ pc[r] = "idle"
    /\ job.status = "absent"
    /\ job' = [status |-> "pending_approval", approval |-> "pending"]
    /\ secret' = TRUE
    /\ Goto(r, "done")
    /\ UNCHANGED <<batch, task, jobTxn, call, view, seen, runVars, devVars>>

\* JobService.approve: no error for an approved job, which stays as it is.
ApproveLoad(r) ==
    Load(r, "approve", job.status \notin {"absent", "cancelled"} /\ job.approval # "approved",
         "write")

ApproveWrite(r) ==
    WriteJob(r, "approve", "approved", "approved") /\ UNCHANGED task

\* JobService.cancel; the list of the tasks is a statement of its own.
CancelLoad(r) ==
    Load(r, "cancel", job.status \notin {"absent", "cancelled", "running", "succeeded"},
         "readTasks")

CancelReadTasks(r) ==
    /\ pc[r] = "readTasks"
    /\ seen' = [seen EXCEPT ![r] = {t \in Tasks : task[t] = "pending"}]
    /\ Goto(r, "write")
    /\ UNCHANGED <<dbVars, jobTxn, call, view, runVars, devVars>>

CancelWrite(r) ==
    /\ WriteJob(r, "cancel", "cancelled", "cancelled")
    /\ task' = [t \in Tasks |-> IF t \in seen[r] THEN "skipped" ELSE task[t]]

\* pause_rollout; a job that is paused already is not written.
PauseLoad(r) ==
    Load(r, "pause", job.status \notin {"absent", "succeeded", "failed", "cancelled", "paused"},
         "write")

PauseWrite(r) == WriteJob(r, "pause", "paused", view[r].approval) /\ UNCHANGED task

\* resume_rollout
ResumeLoad(r) == Load(r, "resume", job.status = "paused", "write")

ResumeWrite(r) == WriteJob(r, "resume", "approved", view[r].approval) /\ UNCHANGED task

-----------------------------------------------------------------------------
(* PasswordRolloutService.run_next_batch                                   *)

\* Mutant: the approval is not checked.
MayRunUnapproved(row) ==
    row.status \notin {"absent", "cancelled", "paused", "succeeded", "failed"}

\* Not cancelled, paused or ended, and approved; partially_failed goes on.
MayRun(row) ==
    /\ row.status \notin {"absent", "cancelled", "paused", "succeeded", "failed"}
    /\ row.approval = "approved"

RunLoad(r) == Load(r, "run", MayRun(job), "select")

\* Mutant: the pending batches come in any order.
NextPendingUnordered(b) == b \in Pending

\* get_next_pending_batch: the pending batch with the lowest index.
NextPending(b) == b \in Pending /\ \A c \in Pending : b <= c

RunSelect(r) ==
    /\ pc[r] = "select"
    /\ \/ /\ \E b \in Batches : NextPending(b) /\ sel' = [sel EXCEPT ![r] = b]
          /\ Goto(r, "start")
       \/ /\ Pending = {}
          /\ Goto(r, "complete")
          /\ UNCHANGED sel
    /\ UNCHANGED <<dbVars, jobTxn, call, view, seen, todo, cur, wrote, devVars>>

\* _complete_if_done reads the batches.
CompleteRead(r) ==
    /\ pc[r] = "complete"
    /\ Goto(r, IF \A b \in Batches : batch[b] = "succeeded" THEN "completeWrite" ELSE "done")
    /\ UNCHANGED <<dbVars, jobTxn, call, view, seen, runVars, devVars>>

\* ... and ends the rollout; a secret that is gone already is no error.
CompleteWrite(r) ==
    /\ pc[r] = "completeWrite"
    /\ CanUpdateJob(r)
    /\ job' = [job EXCEPT !.status = Assigned(@, view[r].status, "succeeded")]
    /\ secret' = FALSE
    /\ CloseSession(r)
    /\ UNCHANGED <<batch, task, jobTxn, devVars>>

\* The batch and the job become "running" in one flush, which keeps the row of
\* the job locked until the transaction ends; then the tasks are listed.
RunStart(r) ==
    /\ pc[r] = "start"
    /\ CanUpdateJob(r)
    /\ jobTxn' = r
    /\ view' = [view EXCEPT ![r].status = "running"]
    /\ todo' = [todo EXCEPT ![r] = BatchTasks(sel[r])]
    /\ Goto(r, "next")
    /\ UNCHANGED <<dbVars, call, seen, sel, cur, wrote, devVars>>

-----------------------------------------------------------------------------
(* JobExecutionService.execute_password_change_task                        *)

\* What the checks, the look-up of the secret, the lock and the backup can
\* make of task t: its final status, or "open" for the device session.
PreparedAs(t) ==
    CASE Gate[t] = "unsupported" -> {"skipped"}
      [] Gate[t] = "refused" -> {"failed"}
      [] Gate[t] = "open" /\ ~secret -> {"failed"}
      [] OTHER -> {"open", "failed"}

StartTask(r) ==
    /\ pc[r] = "next"
    /\ \E t \in todo[r] :
        /\ todo' = [todo EXCEPT ![r] = @ \ {t}]
        /\ \/ /\ "open" \in PreparedAs(t)
              /\ cur' = [cur EXCEPT ![r] = t]
              /\ Goto(r, "applying")
              /\ UNCHANGED wrote
           \/ /\ \E status \in PreparedAs(t) \ {"open"} :
                    wrote' = [wrote EXCEPT ![r][t] = status]
              /\ UNCHANGED <<cur, pc>>
    /\ UNCHANGED <<dbVars, jobTxn, call, view, seen, sel, devVars>>

\* The end of a task: its final status, the lock released.
EndTask(r, status) ==
    /\ wrote' = [wrote EXCEPT ![r][cur[r]] = status]
    /\ cur' = [cur EXCEPT ![r] = None]
    /\ Goto(r, "next")

\* The next stage of the device session, or the end of the task on a failure.
StageResult(r, ok, next) ==
    \/ ok /\ Goto(r, next) /\ UNCHANGED <<wrote, cur>>
    \/ ~ok /\ EndTask(r, "failed")

\* transport.send_config(plan.commands); a failure may come half way, and the
\* password on the device is not a verified one from here on.
Apply(r) ==
    /\ pc[r] = "applying"
    /\ changed' = changed \cup {cur[r]}
    /\ verified' = verified \ {cur[r]}
    /\ \E ok \in BOOLEAN : StageResult(r, ok, "verifying")
    /\ UNCHANGED <<dbVars, jobTxn, call, view, seen, sel, todo, saved>>

\* verifier.verify_new_credential
Verify(r) ==
    /\ pc[r] = "verifying"
    /\ \E ok \in BOOLEAN :
        /\ StageResult(r, ok, "saving")
        /\ verified' = IF ok THEN verified \cup {cur[r]} ELSE verified
    /\ UNCHANGED <<dbVars, jobTxn, call, view, seen, sel, todo, changed, saved>>

\* transport.send_config(save_commands)
Save(r) ==
    /\ pc[r] = "saving"
    /\ \E ok \in BOOLEAN :
        /\ EndTask(r, IF ok THEN "succeeded" ELSE "failed")
        /\ saved' = IF ok THEN saved \cup {cur[r]} ELSE saved
    /\ UNCHANGED <<dbVars, jobTxn, call, view, seen, sel, todo, changed, verified>>

-----------------------------------------------------------------------------
(* The end of a batch                                                      *)

\* Mutant: one success is enough.
BatchResultLenient(r) ==
    IF \E t \in BatchTasks(sel[r]) : wrote[r][t] = "succeeded" THEN "succeeded" ELSE "failed"

\* A batch succeeds when every task of it does.
BatchResult(r) ==
    IF \A t \in BatchTasks(sel[r]) : wrote[r][t] = "succeeded" THEN "succeeded" ELSE "failed"

\* The job's status after a batch; last: no other batch is pending.
StatusAfter(result, last) ==
    IF result = "failed"
    THEN IF StopOnFirstFailure THEN "failed" ELSE "partially_failed"
    ELSE IF last THEN "succeeded" ELSE "approved"

\* Mutant: the secret goes with the first successful batch.
SecretAfterEager(result, last) == secret /\ result # "succeeded"

\* _cleanup_secret after the last batch, if it succeeded.
SecretAfter(result, last) == secret /\ ~(result = "succeeded" /\ last)

Commit(r) ==
    LET result == BatchResult(r)
        last   == Pending \ {sel[r]} = {}
    IN
    /\ pc[r] = "next" /\ todo[r] = {}
    /\ batch' = [batch EXCEPT ![sel[r]] = result]
    /\ job' = [job EXCEPT !.status = StatusAfter(result, last)]
    /\ secret' = SecretAfter(result, last)
    /\ task' = [t \in Tasks |-> IF wrote[r][t] = "unset" THEN task[t] ELSE wrote[r][t]]
    /\ ReleaseTxn(r)
    /\ CloseSession(r)
    /\ UNCHANGED devVars

\* The transaction of r dies; nothing undoes the device.
Abort(r) ==
    /\ pc[r] \notin {"idle", "done"}
    /\ ReleaseTxn(r)
    /\ CloseSession(r)
    /\ UNCHANGED <<dbVars, devVars>>

-----------------------------------------------------------------------------
LoadStep(r) ==
    \/ ApproveLoad(r) \/ CancelLoad(r) \/ PauseLoad(r) \/ ResumeLoad(r) \/ RunLoad(r)

WriteStep(r) ==
    \/ ApproveWrite(r) \/ CancelReadTasks(r) \/ CancelWrite(r)
    \/ PauseWrite(r) \/ ResumeWrite(r)

BatchStep(r) ==
    \/ RunSelect(r) \/ CompleteRead(r) \/ CompleteWrite(r) \/ RunStart(r)
    \/ StartTask(r) \/ Apply(r) \/ Verify(r) \/ Save(r) \/ Commit(r)

Next == \E r \in Requests :
            CreateJob(r) \/ LoadStep(r) \/ WriteStep(r) \/ BatchStep(r) \/ Abort(r)

Spec == Init /\ [][Next]_vars

-----------------------------------------------------------------------------
(* Properties                                                              *)

TypeOK ==
    /\ job \in JobRow
    /\ batch \in [Batches -> BatchStatus]
    /\ task \in [Tasks -> TaskStatus]
    /\ secret \in BOOLEAN
    /\ jobTxn \in Requests \cup {None}
    /\ call \in [Requests -> Ops]
    /\ pc \in [Requests -> {"idle", "write", "readTasks", "select", "complete",
                            "completeWrite", "start", "next", "applying", "verifying",
                            "saving", "done"}]
    /\ view \in [Requests -> JobRow]
    /\ seen \in [Requests -> SUBSET Tasks]
    /\ sel \in [Requests -> Batches \cup {0}]
    /\ todo \in [Requests -> SUBSET Tasks]
    /\ cur \in [Requests -> Tasks \cup {None}]
    /\ wrote \in [Requests -> [Tasks -> TaskStatus \cup {"unset"}]]
    /\ changed \subseteq Tasks /\ verified \subseteq Tasks /\ saved \subseteq Tasks

InSession(r) == pc[r] \in {"applying", "verifying", "saving"}
Executing(r) == InSession(r) \/ pc[r] = "next"

\* A device is changed only after every earlier batch has been attempted, so a
\* wide batch never overtakes its canaries (get_next_pending_batch), whatever
\* requests are paused, repeated or lost.
CanaryOrder ==
    \A t \in changed : \A b \in Batches : b < BatchOf[t] => batch[b] # "pending"

\* The order as an abstract specification: batches are completed one by one
\* from the first.
Canary == INSTANCE OrderedRollout WITH
    Count <- BatchCount,
    attempted <- {b \in Batches : batch[b] # "pending"}

ImplementsCanary == Canary!Spec

\* The new password is available as long as a batch may still need it.
SecretWhileNeeded == job.status # "absent" /\ Pending # {} => secret

\* A rollout that has succeeded has no batch left and keeps no secret.
SuccessIsFinal == job.status = "succeeded" => Pending = {} /\ ~secret

\* A batch recorded as succeeded has changed and saved every device of it,
\* also when the batch was executed twice or an execution was lost.
BatchSuccessIsReal ==
    \A t \in Tasks : batch[BatchOf[t]] = "succeeded" => t \in changed /\ t \in saved

\* No device is changed for a rollout that nobody has ever approved.
ChangeWasApproved == changed # {} => job.approval # "pending"

\* "If verification fails, do not save config": a device saves the password
\* that it was last sent only after it was reached with that password.
SaveAfterVerify == [][\A t \in saved' \ saved : t \in verified]_vars

-----------------------------------------------------------------------------
(* The inductive invariant behind the safety properties                    *)

\* Only a job that exists is worked on, and only an approved one is executed.
RequestsAreBacked ==
    \A r \in Requests :
        /\ pc[r] \notin {"idle", "done"} => job.status # "absent"
        /\ pc[r] \in {"select", "complete", "completeWrite", "start"} \/ Executing(r)
              => job.approval # "pending"
        /\ pc[r] = "completeWrite" => Pending = {}

\* A selected batch stays the next one: the earlier ones have been attempted.
SelectionIsNext ==
    \A r \in Requests : pc[r] = "start" \/ Executing(r) =>
        sel[r] \in Batches /\ \A b \in Batches : b < sel[r] => batch[b] # "pending"

\* What a request in the middle of a batch owns and has done.
BatchInProgress ==
    \A r \in Requests :
        /\ Executing(r) => jobTxn = r /\ todo[r] \subseteq BatchTasks(sel[r])
        /\ InSession(r) => cur[r] \in BatchTasks(sel[r])
        /\ pc[r] \in {"verifying", "saving"} => cur[r] \in changed
        /\ pc[r] = "saving" => cur[r] \in verified
        /\ \A t \in Tasks : wrote[r][t] = "succeeded" => t \in changed /\ t \in saved

NothingBeforeCreation == job.status = "absent" => changed = {}

IInv ==
    /\ TypeOK
    /\ RequestsAreBacked /\ SelectionIsNext /\ BatchInProgress /\ NothingBeforeCreation
    /\ CanaryOrder /\ SecretWhileNeeded /\ SuccessIsFinal /\ BatchSuccessIsReal
    /\ ChangeWasApproved

-----------------------------------------------------------------------------
(* What the documentation and the tests say of failure and pause           *)

\* "If any canary task fails and stop_on_first_failure=true, the rollout job
\* becomes failed and later batches cannot start."
StopsOnFailure ==
    [][\A t \in changed' \ changed : \A b \in Batches :
        StopOnFirstFailure /\ b < BatchOf[t] => batch[b] # "failed"]_vars

=============================================================================
