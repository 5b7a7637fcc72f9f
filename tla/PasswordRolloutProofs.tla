----------------------- MODULE PasswordRolloutProofs -----------------------
(***************************************************************************)
(* Theorems about PasswordRollout for every set of tasks and requests,     *)
(* every number of batches and every distribution of the tasks over them.  *)
(***************************************************************************)
EXTENDS PasswordRollout, TLAPS

USE DEF Executing, InSession, Pending

\* The places a request can be at.
LEMMA ClosedSession ==
  ASSUME TypeOK, NEW r \in Requests, CloseSession(r)
  PROVE  /\ call' = call /\ view' = view
         /\ pc' = [pc EXCEPT ![r] = "done"]
         /\ seen' \in [Requests -> SUBSET Tasks]
         /\ sel' = [sel EXCEPT ![r] = 0]
         /\ todo' = [todo EXCEPT ![r] = {}]
         /\ cur' = [cur EXCEPT ![r] = None]
         /\ wrote' = [wrote EXCEPT ![r] = Unset]
         /\ sel' \in [Requests -> Batches \cup {0}]
         /\ todo' \in [Requests -> SUBSET Tasks]
         /\ cur' \in [Requests -> Tasks \cup {None}]
         /\ wrote' \in [Requests -> [Tasks -> TaskStatus \cup {"unset"}]]
  BY DEF TypeOK, CloseSession, Goto, Unset

PcTyped  == pc \in [Requests -> {"idle", "write", "readTasks", "select", "complete",
                                 "completeWrite", "start", "next", "applying",
                                 "verifying", "saving", "done"}]
CurTyped == cur \in [Requests -> Tasks \cup {None}]

\* A request that goes on to another label, and one that takes a task or leaves it.
LEMMA PcGoes ==
  ASSUME PcTyped, NEW r \in Requests, NEW next \in {"next", "applying", "verifying", "saving"},
         pc' = [pc EXCEPT ![r] = next]
  PROVE  PcTyped'
  BY DEF PcTyped

LEMMA CurGoes ==
  ASSUME CurTyped, NEW r \in Requests, NEW t \in Tasks \cup {None},
         cur' = [cur EXCEPT ![r] = t]
  PROVE  CurTyped'
  BY DEF CurTyped

\* A status written to a task of the session keeps the type of wrote, and is
\* the only thing that changes in it.
LEMMA WroteType ==
  ASSUME TypeOK, NEW r \in Requests, NEW t \in Tasks, NEW status \in TaskStatus,
         wrote' = [wrote EXCEPT ![r][t] = status]
  PROVE  /\ wrote' \in [Requests -> [Tasks -> TaskStatus \cup {"unset"}]]
         /\ \A s \in Requests, u \in Tasks :
              wrote'[s][u] = IF s = r /\ u = t THEN status ELSE wrote[s][u]
  <1>1. wrote[r] \in [Tasks -> TaskStatus \cup {"unset"}]
    BY DEF TypeOK
  <1>2. [wrote[r] EXCEPT ![t] = status] \in [Tasks -> TaskStatus \cup {"unset"}]
    BY <1>1
  <1>3. QED BY <1>1, <1>2 DEF TypeOK

LEMMA InitInv == Init => IInv
  <1> SUFFICES ASSUME Init PROVE IInv  OBVIOUS
  <1>1. TypeOK
    <2>1. job \in {[status |-> "absent", approval |-> "pending"],
                  [status |-> "pending_approval", approval |-> "pending"],
                  [status |-> "approved", approval |-> "approved"]}
      BY Zenon DEF Init
    <2>5. job \in JobRow
      BY <2>1 DEF JobRow, JobStatus, ApprovalStatus
    <2>6. secret \in BOOLEAN
      BY Zenon DEF Init
    <2>2. view \in [Requests -> JobRow]
      BY DEF Init, JobRow, JobStatus, ApprovalStatus
    <2>3. /\ batch \in [Batches -> BatchStatus] /\ task \in [Tasks -> TaskStatus]
          /\ wrote \in [Requests -> [Tasks -> TaskStatus \cup {"unset"}]]
      BY DEF Init, BatchStatus, TaskStatus, Unset
    <2>4. QED BY <2>2, <2>3, <2>5, <2>6 DEF Init, TypeOK
  <1>2. RequestsAreBacked /\ SelectionIsNext /\ BatchInProgress /\ NothingBeforeCreation
    BY DEF Init, RequestsAreBacked, SelectionIsNext, BatchInProgress,
           NothingBeforeCreation, Unset
  <1>3. CanaryOrder /\ SecretWhileNeeded /\ SuccessIsFinal /\ BatchSuccessIsReal
        /\ ChangeWasApproved
    BY PasswordRolloutAssumption
    DEF Init, CanaryOrder, SecretWhileNeeded, SuccessIsFinal, BatchSuccessIsReal,
        ChangeWasApproved
  <1>4. QED BY <1>1, <1>2, <1>3 DEF IInv

LEMMA CreateInv == ASSUME IInv, NEW r \in Requests, CreateJob(r) PROVE IInv'
  <1> USE DEF IInv, CreateJob, Goto, runVars, devVars
  <1>1. TypeOK'
    BY DEF TypeOK, JobRow, JobStatus, ApprovalStatus
  <1>2. RequestsAreBacked' /\ SelectionIsNext' /\ BatchInProgress' /\ NothingBeforeCreation'
    BY DEF TypeOK, RequestsAreBacked, SelectionIsNext, BatchInProgress, NothingBeforeCreation
  <1>3. CanaryOrder' /\ SecretWhileNeeded' /\ SuccessIsFinal' /\ BatchSuccessIsReal'
        /\ ChangeWasApproved'
    BY DEF CanaryOrder, SecretWhileNeeded, SuccessIsFinal, BatchSuccessIsReal,
           ChangeWasApproved, NothingBeforeCreation
  <1>4. QED BY <1>1, <1>2, <1>3

\* Reading the job keeps the invariant when the operation is only allowed on a
\* job that exists, and a run only on one that has been approved.
LEMMA LoadInv ==
  ASSUME IInv, NEW r \in Requests, NEW op, NEW allowed \in BOOLEAN,
         NEW label \in {"write", "readTasks", "select"},
         allowed => job.status # "absent",
         allowed /\ label = "select" => job.approval # "pending",
         Load(r, op, allowed, label)
  PROVE  IInv'
  <1> USE DEF IInv, Load, Goto, dbVars, runVars, devVars
  <1>1. TypeOK'
    BY DEF TypeOK
  <1>2. RequestsAreBacked' /\ SelectionIsNext' /\ BatchInProgress' /\ NothingBeforeCreation'
    BY DEF TypeOK, RequestsAreBacked, SelectionIsNext, BatchInProgress, NothingBeforeCreation
  <1>3. CanaryOrder' /\ SecretWhileNeeded' /\ SuccessIsFinal' /\ BatchSuccessIsReal'
        /\ ChangeWasApproved'
    BY DEF CanaryOrder, SecretWhileNeeded, SuccessIsFinal, BatchSuccessIsReal,
           ChangeWasApproved
  <1>4. QED BY <1>1, <1>2, <1>3

LEMMA LoadStepInv == ASSUME IInv, NEW r \in Requests, LoadStep(r) PROVE IInv'
  <1>1. CASE ApproveLoad(r)  BY <1>1, LoadInv DEF ApproveLoad
  <1>2. CASE CancelLoad(r)   BY <1>2, LoadInv DEF CancelLoad
  <1>3. CASE PauseLoad(r)    BY <1>3, LoadInv DEF PauseLoad
  <1>4. CASE ResumeLoad(r)   BY <1>4, LoadInv DEF ResumeLoad
  <1>5. CASE RunLoad(r)      BY <1>5, LoadInv DEF RunLoad, MayRun
  <1>6. QED BY <1>1, <1>2, <1>3, <1>4, <1>5 DEF LoadStep

\* Overwriting the columns of the job keeps the invariant: the new status is
\* none that promises an end, and no approval is taken back to pending.
LEMMA WriteJobInv ==
  ASSUME IInv, NEW r \in Requests, NEW op,
         NEW status \in {"approved", "cancelled", "paused"}, NEW approval \in ApprovalStatus,
         approval = "pending" => approval = view[r].approval,
         task' \in [Tasks -> TaskStatus],
         WriteJob(r, op, status, approval)
  PROVE  IInv'
  <1> USE DEF IInv, WriteJob, devVars
  <1>1. /\ job' \in JobRow
        /\ job'.status \in {job.status, status}
        /\ job'.approval \in {job.approval, approval}
        /\ job'.approval = "pending" => job.approval = "pending"
        /\ job.status # "absent"
    BY DEF TypeOK, JobRow, JobStatus, Assigned, RequestsAreBacked
  <1>2. TypeOK'
    BY <1>1, ClosedSession DEF TypeOK
  <1>3. RequestsAreBacked'
    <2>1. Pending' = Pending
      BY DEF Pending
    <2>2. \A q \in Requests : q # r => pc'[q] = pc[q] /\ (Executing(q)' <=> Executing(q))
      BY ClosedSession DEF TypeOK
    <2>3. pc'[r] \in {"idle", "done"} /\ ~Executing(r)'
      BY ClosedSession DEF TypeOK
    <2>4. QED
      BY <1>1, <2>1, <2>2, <2>3 DEF RequestsAreBacked
  <1>4. SelectionIsNext' /\ NothingBeforeCreation'
    BY <1>1, ClosedSession DEF TypeOK, SelectionIsNext, NothingBeforeCreation
  <1>5. BatchInProgress'
    BY ClosedSession DEF TypeOK, BatchInProgress, Unset
  <1>6. CanaryOrder' /\ SecretWhileNeeded' /\ SuccessIsFinal' /\ BatchSuccessIsReal'
        /\ ChangeWasApproved'
    BY <1>1 DEF CanaryOrder, SecretWhileNeeded, SuccessIsFinal, BatchSuccessIsReal,
                ChangeWasApproved
  <1>7. QED BY <1>2, <1>3, <1>4, <1>5, <1>6

LEMMA WriteStepInv == ASSUME IInv, NEW r \in Requests, WriteStep(r) PROVE IInv'
  <1> task \in [Tasks -> TaskStatus] /\ view[r].approval \in ApprovalStatus
    BY DEF IInv, TypeOK, JobRow
  <1>1. CASE ApproveWrite(r)
    BY <1>1, WriteJobInv DEF ApproveWrite, ApprovalStatus
  <1>2. CASE CancelWrite(r)
    <2>1. task' \in [Tasks -> TaskStatus]
      BY <1>2 DEF CancelWrite, TaskStatus
    <2>2. QED BY <1>2, <2>1, WriteJobInv DEF CancelWrite, ApprovalStatus
  <1>3. CASE PauseWrite(r)
    BY <1>3, WriteJobInv DEF PauseWrite
  <1>4. CASE ResumeWrite(r)
    BY <1>4, WriteJobInv DEF ResumeWrite
  <1>5. CASE CancelReadTasks(r)
    <2> USE <1>5 DEF IInv, CancelReadTasks, Goto, dbVars, runVars, devVars
    <2>1. TypeOK'
      BY DEF TypeOK
    <2>2. RequestsAreBacked' /\ SelectionIsNext' /\ BatchInProgress' /\ NothingBeforeCreation'
      BY DEF TypeOK, RequestsAreBacked, SelectionIsNext, BatchInProgress,
             NothingBeforeCreation
    <2>3. CanaryOrder' /\ SecretWhileNeeded' /\ SuccessIsFinal' /\ BatchSuccessIsReal'
          /\ ChangeWasApproved'
      BY DEF CanaryOrder, SecretWhileNeeded, SuccessIsFinal, BatchSuccessIsReal,
             ChangeWasApproved
    <2>4. QED BY <2>1, <2>2, <2>3
  <1>6. QED BY <1>1, <1>2, <1>3, <1>4, <1>5 DEF WriteStep

-----------------------------------------------------------------------------
(* The steps of run_next_batch                                             *)

LEMMA SelectInv == ASSUME IInv, NEW r \in Requests, RunSelect(r) PROVE IInv'
  <1> USE DEF IInv, RunSelect, Goto, dbVars, devVars
  <1>1. TypeOK'
    BY DEF TypeOK
  <1>2. RequestsAreBacked' /\ BatchInProgress' /\ NothingBeforeCreation'
    BY DEF TypeOK, RequestsAreBacked, BatchInProgress, NothingBeforeCreation
  <1>3. SelectionIsNext'
    BY DEF TypeOK, SelectionIsNext, NextPending, Batches
  <1>4. CanaryOrder' /\ SecretWhileNeeded' /\ SuccessIsFinal' /\ BatchSuccessIsReal'
        /\ ChangeWasApproved'
    BY DEF CanaryOrder, SecretWhileNeeded, SuccessIsFinal, BatchSuccessIsReal,
           ChangeWasApproved
  <1>5. QED BY <1>1, <1>2, <1>3, <1>4

LEMMA CompleteReadInv == ASSUME IInv, NEW r \in Requests, CompleteRead(r) PROVE IInv'
  <1> USE DEF IInv, CompleteRead, Goto, dbVars, runVars, devVars
  <1>1. TypeOK'
    BY DEF TypeOK
  <1>2. RequestsAreBacked' /\ SelectionIsNext' /\ BatchInProgress' /\ NothingBeforeCreation'
    BY DEF TypeOK, RequestsAreBacked, SelectionIsNext, BatchInProgress, NothingBeforeCreation
  <1>3. CanaryOrder' /\ SecretWhileNeeded' /\ SuccessIsFinal' /\ BatchSuccessIsReal'
        /\ ChangeWasApproved'
    BY DEF CanaryOrder, SecretWhileNeeded, SuccessIsFinal, BatchSuccessIsReal,
           ChangeWasApproved
  <1>4. QED BY <1>1, <1>2, <1>3

LEMMA CompleteWriteInv == ASSUME IInv, NEW r \in Requests, CompleteWrite(r) PROVE IInv'
  <1> USE DEF IInv, CompleteWrite, devVars
  <1>1. /\ Pending = {} /\ job.status # "absent"
        /\ job' \in JobRow /\ job'.approval = job.approval
        /\ job'.status \in {job.status, "succeeded"}
    BY DEF TypeOK, JobRow, JobStatus, Assigned, RequestsAreBacked
  <1>2. TypeOK'
    BY <1>1, ClosedSession DEF TypeOK
  <1>3. RequestsAreBacked' /\ SelectionIsNext' /\ NothingBeforeCreation'
    BY <1>1, ClosedSession DEF TypeOK, RequestsAreBacked, SelectionIsNext,
                               NothingBeforeCreation
  <1>4. BatchInProgress'
    BY ClosedSession DEF TypeOK, BatchInProgress, Unset
  <1>5. CanaryOrder' /\ SecretWhileNeeded' /\ SuccessIsFinal' /\ BatchSuccessIsReal'
        /\ ChangeWasApproved'
    BY <1>1 DEF CanaryOrder, SecretWhileNeeded, SuccessIsFinal, BatchSuccessIsReal,
                ChangeWasApproved
  <1>6. QED BY <1>2, <1>3, <1>4, <1>5

LEMMA StartInv == ASSUME IInv, NEW r \in Requests, RunStart(r) PROVE IInv'
  <1> USE DEF IInv, RunStart, Goto, dbVars, devVars
  <1>1. jobTxn \in {None, r} /\ r # None
    BY PasswordRolloutAssumption DEF CanUpdateJob
  <1>2. [view[r] EXCEPT !.status = "running"] \in JobRow
    BY DEF TypeOK, JobRow
  <1>3. TypeOK'
    BY <1>2 DEF TypeOK, BatchTasks
  <1>4. RequestsAreBacked' /\ SelectionIsNext' /\ NothingBeforeCreation'
    BY DEF TypeOK, RequestsAreBacked, SelectionIsNext, NothingBeforeCreation
  <1>5. BatchInProgress'
    BY <1>1, PasswordRolloutAssumption DEF TypeOK, BatchInProgress, BatchTasks
  <1>6. CanaryOrder' /\ SecretWhileNeeded' /\ SuccessIsFinal' /\ BatchSuccessIsReal'
        /\ ChangeWasApproved'
    BY DEF CanaryOrder, SecretWhileNeeded, SuccessIsFinal, BatchSuccessIsReal,
           ChangeWasApproved
  <1>7. QED BY <1>3, <1>4, <1>5, <1>6

LEMMA StartTaskInv == ASSUME IInv, NEW r \in Requests, StartTask(r) PROVE IInv'
  <1> USE DEF IInv, StartTask, Goto, dbVars, devVars
  <1>1. PICK t \in todo[r] :
          /\ todo' = [todo EXCEPT ![r] = @ \ {t}]
          /\ \/ /\ cur' = [cur EXCEPT ![r] = t]
                /\ pc' = [pc EXCEPT ![r] = "applying"]
                /\ wrote' = wrote
             \/ /\ \E status \in {"skipped", "failed"} :
                     wrote' = [wrote EXCEPT ![r][t] = status]
                /\ cur' = cur /\ pc' = pc
    BY DEF PreparedAs
  <1>2. pc[r] = "next" /\ t \in BatchTasks(sel[r]) /\ t \in Tasks
    BY DEF BatchInProgress, BatchTasks
  <1>3. /\ wrote' \in [Requests -> [Tasks -> TaskStatus \cup {"unset"}]]
        /\ \A s \in Requests, u \in Tasks :
             wrote'[s][u] = "succeeded" => wrote[s][u] = "succeeded"
    <2>1. CASE wrote' = wrote
      BY <2>1 DEF TypeOK
    <2>2. CASE \E status \in {"skipped", "failed"} : wrote' = [wrote EXCEPT ![r][t] = status]
      <3>1. PICK status \in {"skipped", "failed"} : wrote' = [wrote EXCEPT ![r][t] = status]
        BY <2>2
      <3>2. TypeOK /\ status \in TaskStatus /\ status # "succeeded"
        BY DEF TaskStatus
      <3>3. QED BY <3>1, <3>2, <1>2, WroteType
    <2>3. QED BY <1>1, <2>1, <2>2
  <1>4. TypeOK'
    <2>1. /\ todo' \in [Requests -> SUBSET Tasks]
          /\ cur' \in [Requests -> Tasks \cup {None}]
      BY <1>1, <1>2 DEF TypeOK
    <2>2. PcTyped'
      <3>1. PcTyped /\ (pc' = pc \/ pc' = [pc EXCEPT ![r] = "applying"])
        BY <1>1 DEF TypeOK, PcTyped
      <3>2. QED BY <3>1, PcGoes DEF PcTyped
    <2>3. QED BY <2>1, <2>2, <1>3 DEF TypeOK, PcTyped
  <1>5. /\ \A s \in Requests : pc'[s] = pc[s] \/ (s = r /\ pc[s] = "next" /\ pc'[s] = "applying")
        /\ job' = job /\ batch' = batch /\ sel' = sel /\ call' = call
    BY <1>1, <1>2 DEF TypeOK
  <1>9. RequestsAreBacked'
    BY <1>5 DEF RequestsAreBacked
  <1>10. SelectionIsNext'
    BY <1>5 DEF SelectionIsNext
  <1>11. NothingBeforeCreation'
    BY <1>5 DEF NothingBeforeCreation
  <1>6. BatchInProgress'
    BY <1>1, <1>2, <1>3 DEF TypeOK, BatchInProgress, BatchTasks
  <1>7. CanaryOrder' /\ SecretWhileNeeded' /\ SuccessIsFinal' /\ BatchSuccessIsReal'
        /\ ChangeWasApproved'
    BY DEF CanaryOrder, SecretWhileNeeded, SuccessIsFinal, BatchSuccessIsReal,
           ChangeWasApproved
  <1>8. QED BY <1>4, <1>6, <1>7, <1>9, <1>10, <1>11

\* Only one request is in the middle of a batch.
LEMMA OneExecution ==
  ASSUME IInv, NEW r \in Requests, NEW s \in Requests, Executing(r), Executing(s)
  PROVE  r = s
  BY DEF IInv, BatchInProgress

\* What a request in its device session knows of its task.
LEMMA SessionFacts ==
  ASSUME IInv, NEW r \in Requests, InSession(r)
  PROVE  /\ cur[r] \in Tasks /\ BatchOf[cur[r]] = sel[r]
         /\ sel[r] \in Batches /\ job.status # "absent" /\ job.approval # "pending"
         /\ \A b \in Batches : b < BatchOf[cur[r]] => batch[b] # "pending"
  BY DEF IInv, BatchInProgress, SelectionIsNext, RequestsAreBacked, BatchTasks

\* A task ends with success only if its device has been changed and saved.
LEMMA WroteEnd ==
  ASSUME TypeOK, BatchInProgress, NEW r \in Requests, NEW t \in Tasks,
         NEW status \in {"succeeded", "failed"}, wrote' = [wrote EXCEPT ![r][t] = status],
         changed \subseteq changed', saved \subseteq saved', t \in changed',
         wrote'[r][t] = "succeeded" => t \in saved'
  PROVE  \A s \in Requests, u \in Tasks :
           wrote'[s][u] = "succeeded" => u \in changed' /\ u \in saved'
  <1>1. status \in TaskStatus
    BY DEF TaskStatus
  <1>2. \A s \in Requests, u \in Tasks :
          wrote'[s][u] = IF s = r /\ u = t THEN status ELSE wrote[s][u]
    BY <1>1, WroteType
  <1>3. QED BY <1>2 DEF BatchInProgress

\* The steps of the device session: the task goes on to the next stage or ends,
\* the sets of devices grow, and only a session at its own task shrinks verified.
LEMMA SessionInv ==
  ASSUME IInv, NEW r \in Requests, InSession(r), NEW next \in {"verifying", "saving"},
         \/ pc' = [pc EXCEPT ![r] = next] /\ wrote' = wrote /\ cur' = cur
         \/ \E status \in {"succeeded", "failed"} : EndTask(r, status),
         UNCHANGED <<dbVars, jobTxn, call, view, seen, sel, todo>>,
         changed \subseteq changed', changed' \subseteq changed \cup {cur[r]},
         verified' \subseteq Tasks, saved \subseteq saved', saved' \subseteq Tasks,
         cur[r] \in changed',
         pc'[r] = "saving" => cur[r] \in verified',
         wrote' # wrote /\ wrote'[r][cur[r]] = "succeeded" => cur[r] \in saved'
  PROVE  IInv'
  <1> DEFINE t == cur[r]
  <1>1. t \in Tasks
    BY SessionFacts
  <1>2. /\ wrote' \in [Requests -> [Tasks -> TaskStatus \cup {"unset"}]]
        /\ CurTyped' /\ PcTyped'
    <2>1. TypeOK /\ PcTyped /\ CurTyped
      BY DEF IInv, TypeOK, PcTyped, CurTyped
    <2>2. CASE pc' = [pc EXCEPT ![r] = next] /\ wrote' = wrote /\ cur' = cur
      <3>1. PcTyped'
        BY <2>1, <2>2, PcGoes
      <3>2. CurTyped'
        BY <2>1, <2>2 DEF CurTyped
      <3>3. wrote' \in [Requests -> [Tasks -> TaskStatus \cup {"unset"}]]
        BY <2>1, <2>2 DEF TypeOK
      <3>4. QED BY <3>1, <3>2, <3>3
    <2>3. ASSUME NEW status \in {"succeeded", "failed"}, EndTask(r, status)
          PROVE  /\ wrote' \in [Requests -> [Tasks -> TaskStatus \cup {"unset"}]]
                 /\ CurTyped' /\ PcTyped'
      <3>1. /\ wrote' = [wrote EXCEPT ![r][t] = status]
            /\ cur' = [cur EXCEPT ![r] = None] /\ pc' = [pc EXCEPT ![r] = "next"]
        BY <2>3 DEF EndTask, Goto
      <3>2. status \in TaskStatus
        BY DEF TaskStatus
      <3>3. wrote' \in [Requests -> [Tasks -> TaskStatus \cup {"unset"}]]
        BY <2>1, <3>1, <3>2, <1>1, WroteType
      <3>4. CurTyped'
        BY <2>1, <3>1, CurGoes
      <3>5. PcTyped'
        BY <2>1, <3>1, PcGoes
      <3>6. QED BY <3>3, <3>4, <3>5
    <2>4. QED BY <2>2, <2>3
  <1>3. \A s \in Requests, u \in Tasks :
          wrote'[s][u] = "succeeded" => u \in changed' /\ u \in saved'
    <2>1. CASE wrote' = wrote
      BY <2>1 DEF IInv, BatchInProgress
    <2>2. CASE wrote' # wrote
      <3>1. PICK status \in {"succeeded", "failed"} : wrote' = [wrote EXCEPT ![r][t] = status]
        BY <2>2 DEF EndTask
      <3>2. TypeOK /\ BatchInProgress
        BY DEF IInv
      <3>3. wrote'[r][t] = "succeeded" => t \in saved'
        BY <2>2
      <3>4. QED BY <3>1, <3>2, <3>3, <1>1, WroteEnd
    <2>3. QED BY <2>1, <2>2
  <1>4. /\ pc'[r] \in {next, "next"}
        /\ pc'[r] = next => cur'[r] = cur[r]
        /\ \A s \in Requests : s # r => pc'[s] = pc[s] /\ cur'[s] = cur[s] /\ ~Executing(s)
    BY OneExecution DEF EndTask, Goto, IInv, TypeOK
  <1>5. TypeOK'
    BY <1>1, <1>2 DEF IInv, TypeOK, PcTyped, CurTyped, dbVars
  <1>6. RequestsAreBacked' /\ SelectionIsNext'
    BY <1>4 DEF IInv, RequestsAreBacked, SelectionIsNext, dbVars
  <1>7. NothingBeforeCreation' /\ CanaryOrder' /\ ChangeWasApproved'
    BY SessionFacts DEF IInv, NothingBeforeCreation, CanaryOrder, ChangeWasApproved, dbVars
  <1>8. BatchInProgress'
    BY <1>3, <1>4 DEF IInv, BatchInProgress, BatchTasks, dbVars
  <1>9. SecretWhileNeeded' /\ SuccessIsFinal' /\ BatchSuccessIsReal'
    BY DEF IInv, SecretWhileNeeded, SuccessIsFinal, BatchSuccessIsReal, dbVars
  <1>10. QED BY <1>5, <1>6, <1>7, <1>8, <1>9 DEF IInv

LEMMA ApplyInv == ASSUME IInv, NEW r \in Requests, Apply(r) PROVE IInv'
  <1>1. cur[r] \in Tasks
    BY SessionFacts DEF Apply
  <1>2. changed \subseteq Tasks /\ verified \subseteq Tasks /\ saved \subseteq Tasks
    BY DEF IInv, TypeOK
  <1>3. \/ pc' = [pc EXCEPT ![r] = "verifying"] /\ wrote' = wrote /\ cur' = cur
        \/ EndTask(r, "failed")
    BY DEF Apply, StageResult, Goto
  <1>4. /\ pc'[r] # "saving"
        /\ wrote' # wrote => wrote'[r][cur[r]] # "succeeded"
    BY <1>1, <1>3 DEF EndTask, Goto, IInv, TypeOK
  <1>5. QED BY <1>1, <1>2, <1>3, <1>4, SessionInv DEF Apply

LEMMA VerifyInv == ASSUME IInv, NEW r \in Requests, Verify(r) PROVE IInv'
  <1>1. cur[r] \in Tasks /\ cur[r] \in changed
    BY SessionFacts DEF Verify, IInv, BatchInProgress
  <1>2. changed \subseteq Tasks /\ verified \subseteq Tasks /\ saved \subseteq Tasks
    BY DEF IInv, TypeOK
  <1>3. PICK ok \in BOOLEAN :
          /\ StageResult(r, ok, "saving")
          /\ verified' = IF ok THEN verified \cup {cur[r]} ELSE verified
    BY DEF Verify
  <1>4. CASE ok
    <2>1. pc' = [pc EXCEPT ![r] = "saving"] /\ wrote' = wrote /\ cur' = cur
      BY <1>3, <1>4 DEF StageResult, Goto
    <2>2. QED BY <2>1, <1>1, <1>2, <1>3, <1>4, SessionInv DEF Verify
  <1>5. CASE ~ok
    <2>1. EndTask(r, "failed")
      BY <1>3, <1>5 DEF StageResult
    <2>2. pc'[r] # "saving" /\ wrote'[r][cur[r]] # "succeeded"
      BY <2>1, <1>1 DEF EndTask, Goto, IInv, TypeOK
    <2>3. QED BY <2>1, <2>2, <1>1, <1>2, <1>3, <1>5, SessionInv DEF Verify
  <1>6. QED BY <1>4, <1>5

LEMMA SaveInv == ASSUME IInv, NEW r \in Requests, Save(r) PROVE IInv'
  <1>1. cur[r] \in Tasks /\ cur[r] \in changed
    BY SessionFacts DEF Save, IInv, BatchInProgress
  <1>2. changed \subseteq Tasks /\ verified \subseteq Tasks /\ saved \subseteq Tasks
    BY DEF IInv, TypeOK
  <1>3. PICK ok \in BOOLEAN :
          /\ EndTask(r, IF ok THEN "succeeded" ELSE "failed")
          /\ saved' = IF ok THEN saved \cup {cur[r]} ELSE saved
    BY DEF Save
  <1>4. pc'[r] # "saving" /\ (wrote'[r][cur[r]] = "succeeded" => ok)
    BY <1>1, <1>3 DEF EndTask, Goto, IInv, TypeOK
  <1>5. QED BY <1>1, <1>2, <1>3, <1>4, SessionInv DEF Save

\* The end of a transaction leaves the other requests what they had.
LEMMA CloseInv ==
  ASSUME IInv, NEW r \in Requests, ReleaseTxn(r), CloseSession(r),
         UNCHANGED <<changed, verified, saved>>,
         \A b \in Batches : batch[b] # "pending" => batch'[b] # "pending",
         job.status # "absent" => job'.status # "absent",
         job.approval # "pending" => job'.approval # "pending"
  PROVE  RequestsAreBacked' /\ SelectionIsNext' /\ BatchInProgress'
  <1> USE DEF IInv
  <1>1. RequestsAreBacked'
    BY ClosedSession DEF TypeOK, RequestsAreBacked
  <1>2. SelectionIsNext'
    <2>1. /\ TypeOK /\ pc' = [pc EXCEPT ![r] = "done"]
          /\ sel' = [sel EXCEPT ![r] = 0]
      BY ClosedSession
    <2>2. \A s \in Requests : pc'[s] = "start" \/ Executing(s)' =>
             /\ s # r /\ sel'[s] = sel[s]
             /\ pc[s] = "start" \/ Executing(s)
      BY <2>1 DEF TypeOK
    <2>3. QED BY <2>2 DEF SelectionIsNext
  <1>3. BatchInProgress'
    BY ClosedSession DEF TypeOK, BatchInProgress, ReleaseTxn, Unset, BatchTasks
  <1>4. QED BY <1>1, <1>2, <1>3

LEMMA CommitInv == ASSUME IInv, NEW r \in Requests, Commit(r) PROVE IInv'
  <1> USE DEF IInv, Commit, devVars
  <1> DEFINE b == sel[r]
             result == BatchResult(r)
             last == Pending \ {b} = {}
  <1>1. b \in Batches /\ job.status # "absent" /\ job.approval # "pending"
    BY DEF SelectionIsNext, RequestsAreBacked
  <1>2. result \in {"succeeded", "failed"}
    BY DEF BatchResult
  <1>3. /\ batch' \in [Batches -> BatchStatus]
        /\ Pending' = Pending \ {b}
        /\ \A c \in Batches : batch'[c] = IF c = b THEN result ELSE batch[c]
    BY <1>1, <1>2 DEF TypeOK, BatchStatus
  <1>4. /\ StatusAfter(result, last) \in {"failed", "partially_failed", "succeeded", "approved"}
        /\ StatusAfter(result, last) = "succeeded" => result = "succeeded" /\ last
    BY <1>2 DEF StatusAfter
  <1>5. /\ job' \in JobRow
        /\ job'.status = StatusAfter(result, last) /\ job'.approval = job.approval
    BY <1>4 DEF TypeOK, JobRow, JobStatus
  <1>6. secret' = SecretAfter(result, last) /\ secret \in BOOLEAN
    BY DEF TypeOK
  <1>7. TypeOK'
    <2>1. task' \in [Tasks -> TaskStatus]
      BY DEF TypeOK
    <2>2. jobTxn' \in Requests \cup {None}
      BY DEF TypeOK, ReleaseTxn
    <2>3. secret' \in BOOLEAN
      BY <1>6 DEF SecretAfter
    <2>4. pc' \in [Requests -> {"idle", "write", "readTasks", "select", "complete",
                               "completeWrite", "start", "next", "applying",
                               "verifying", "saving", "done"}]
      <3>1. TypeOK /\ pc' = [pc EXCEPT ![r] = "done"]
        BY ClosedSession
      <3>2. QED BY <3>1 DEF TypeOK
    <2>5. QED BY <2>1, <2>2, <2>3, <2>4, <1>3, <1>5, ClosedSession DEF TypeOK
  <1>8. RequestsAreBacked' /\ SelectionIsNext' /\ BatchInProgress'
    <2>1. /\ \A c \in Batches : batch[c] # "pending" => batch'[c] # "pending"
          /\ job'.status # "absent" /\ job'.approval # "pending"
      BY <1>1, <1>2, <1>3, <1>4, <1>5
    <2>2. QED BY <2>1, CloseInv
  <1>9. NothingBeforeCreation' /\ ChangeWasApproved'
    BY <1>1, <1>4, <1>5 DEF NothingBeforeCreation, ChangeWasApproved
  <1>10. CanaryOrder'
    BY <1>2, <1>3 DEF CanaryOrder
  <1>11. SecretWhileNeeded'
    BY <1>1, <1>3, <1>6 DEF SecretWhileNeeded, SecretAfter
  <1>12. SuccessIsFinal'
    BY <1>3, <1>4, <1>5, <1>6 DEF SuccessIsFinal, SecretAfter
  <1>13. BatchSuccessIsReal'
    <2>1. result = "succeeded" => \A t \in BatchTasks(b) : t \in changed /\ t \in saved
      BY DEF BatchResult, BatchInProgress, BatchTasks
    <2>2. QED BY <2>1, <1>3, PasswordRolloutAssumption DEF BatchSuccessIsReal, BatchTasks
  <1>14. QED BY <1>7, <1>8, <1>9, <1>10, <1>11, <1>12, <1>13

LEMMA AbortInv == ASSUME IInv, NEW r \in Requests, Abort(r) PROVE IInv'
  <1> USE DEF IInv, Abort, dbVars, devVars
  <1>1. TypeOK'
    BY ClosedSession DEF TypeOK, ReleaseTxn
  <1>2. RequestsAreBacked' /\ SelectionIsNext' /\ BatchInProgress'
    BY CloseInv
  <1>3. NothingBeforeCreation' /\ CanaryOrder' /\ SecretWhileNeeded' /\ SuccessIsFinal'
        /\ BatchSuccessIsReal' /\ ChangeWasApproved'
    BY DEF NothingBeforeCreation, CanaryOrder, SecretWhileNeeded, SuccessIsFinal,
           BatchSuccessIsReal, ChangeWasApproved
  <1>4. QED BY <1>1, <1>2, <1>3

LEMMA BatchStepInv == ASSUME IInv, NEW r \in Requests, BatchStep(r) PROVE IInv'
  BY SelectInv, CompleteReadInv, CompleteWriteInv, StartInv, StartTaskInv, ApplyInv,
     VerifyInv, SaveInv, CommitInv DEF BatchStep

LEMMA StutterInv == ASSUME IInv, UNCHANGED vars PROVE IInv'
  <1> USE DEF IInv, vars, dbVars, runVars, devVars
  <1>1. TypeOK'
    BY DEF TypeOK
  <1>2. RequestsAreBacked' /\ SelectionIsNext' /\ BatchInProgress' /\ NothingBeforeCreation'
    BY DEF RequestsAreBacked, SelectionIsNext, BatchInProgress, NothingBeforeCreation
  <1>3. CanaryOrder' /\ SecretWhileNeeded' /\ SuccessIsFinal' /\ BatchSuccessIsReal'
        /\ ChangeWasApproved'
    BY DEF CanaryOrder, SecretWhileNeeded, SuccessIsFinal, BatchSuccessIsReal,
           ChangeWasApproved
  <1>4. QED BY <1>1, <1>2, <1>3

\* The inductive invariant holds in every reachable state.
THEOREM Inductive == Spec => []IInv
  <1>1. Init => IInv  BY InitInv
  <1>2. IInv /\ [Next]_vars => IInv'
    BY CreateInv, LoadStepInv, WriteStepInv, BatchStepInv, AbortInv, StutterInv DEF Next
  <1>3. QED BY <1>1, <1>2, PTL DEF Spec

\* Every variable keeps its type.
THEOREM TypeCorrect == Spec => []TypeOK
  BY Inductive, PTL DEF IInv

\* A wide batch never overtakes its canaries.
THEOREM CanariesFirst == Spec => []CanaryOrder
  BY Inductive, PTL DEF IInv

\* The new password is stored as long as a batch is pending, and a rollout that
\* has succeeded keeps none and has no batch left.
THEOREM SecretLifetime == Spec => [](SecretWhileNeeded /\ SuccessIsFinal)
  BY Inductive, PTL DEF IInv

\* A batch recorded as succeeded has changed and saved every device of it.
THEOREM RecordedBatches == Spec => []BatchSuccessIsReal
  BY Inductive, PTL DEF IInv

\* No device is changed for a rollout that nobody has ever approved.
THEOREM ApprovedFirst == Spec => []ChangeWasApproved
  BY Inductive, PTL DEF IInv

-----------------------------------------------------------------------------
(* What a step may do                                                      *)

\* Only Save adds to saved, and it comes after the verification.
LEMMA StepSavesVerified ==
  IInv /\ [Next]_vars => \A t \in saved' \ saved : t \in verified
  <1> SUFFICES ASSUME IInv, [Next]_vars, NEW t \in saved' \ saved PROVE t \in verified
    OBVIOUS
  <1>1. PICK r \in Requests : Save(r)
    BY DEF Next, LoadStep, WriteStep, BatchStep, CreateJob, Load, ApproveLoad, CancelLoad,
           PauseLoad, ResumeLoad, RunLoad, WriteJob, ApproveWrite, CancelReadTasks,
           CancelWrite, PauseWrite, ResumeWrite, RunSelect, CompleteRead, CompleteWrite,
           RunStart, StartTask, Apply, Verify, Commit, Abort, vars, devVars
  <1>2. QED BY <1>1 DEF Save, IInv, BatchInProgress

\* A device saves the password it was last sent only after it was reached with it.
THEOREM SavesAreVerified == Spec => SaveAfterVerify
  <1>1. IInv /\ [Next]_vars => [\A t \in saved' \ saved : t \in verified]_vars
    BY StepSavesVerified
  <1>2. QED BY <1>1, Inductive, PTL DEF Spec, SaveAfterVerify

LEMMA InitRefines == Init => Canary!Init
  BY DEF Init, Canary!Init

\* A commit attempts the selected batch, or has attempted it before.
LEMMA StepRefines ==
  IInv /\ [Next]_vars => [Canary!Next]_({b \in Batches : batch[b] # "pending"})
  <1> DEFINE attempted == {b \in Batches : batch[b] # "pending"}
  <1> SUFFICES ASSUME IInv, [Next]_vars PROVE attempted' = attempted \/ Canary!Next
    OBVIOUS
  <1>1. CASE batch' = batch
    BY <1>1
  <1>2. CASE batch' # batch
    <2>1. PICK r \in Requests : Commit(r)
      BY <1>2 DEF Next, LoadStep, WriteStep, BatchStep, CreateJob, Load, ApproveLoad,
         CancelLoad, PauseLoad, ResumeLoad, RunLoad, WriteJob, ApproveWrite,
         CancelReadTasks, CancelWrite, PauseWrite, ResumeWrite, RunSelect, CompleteRead,
         CompleteWrite, RunStart, StartTask, Apply, Verify, Save, Abort, vars, dbVars
    <2>2. /\ sel[r] \in Batches
          /\ \A b \in Batches : b < sel[r] => b \in attempted
      BY <2>1 DEF IInv, SelectionIsNext, Commit
    <2>3. BatchResult(r) # "pending"
      BY DEF BatchResult
    <2>4. attempted' = attempted \cup {sel[r]}
      BY <2>1, <2>2, <2>3 DEF Commit, IInv, TypeOK
    <2>5. CASE sel[r] \in attempted
      BY <2>4, <2>5
    <2>6. CASE sel[r] \notin attempted
      <3>1. 1 .. sel[r] - 1 \subseteq attempted
        BY <2>2, PasswordRolloutAssumption DEF Batches
      <3>2. QED BY <3>1, <2>2, <2>4, <2>6 DEF Canary!Next, Canary!Attempt, Batches
    <2>7. QED BY <2>5, <2>6
  <1>3. QED BY <1>1, <1>2

\* Seen through the batches that have been attempted, every rollout goes
\* through its batches one by one from the first.
THEOREM CanaryImplemented == Spec => ImplementsCanary
  <1>1. Init => Canary!Init  BY InitRefines
  <1>2. IInv /\ [Next]_vars => [Canary!Next]_({b \in Batches : batch[b] # "pending"})
    BY StepRefines
  <1>3. QED BY <1>1, <1>2, Inductive, PTL DEF Spec, ImplementsCanary, Canary!Spec
=============================================================================
