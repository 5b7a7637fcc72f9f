------------------------- MODULE JobExecutionProofs -------------------------
(***************************************************************************)
(* Theorems about JobExecution for every set of jobs, devices, requests    *)
(* and every choice of targets and gates.                                  *)
(***************************************************************************)
EXTENDS JobExecution, TLAPS

\* A task is a pair of a job and one of the devices, and DeviceOf is its second.
LEMMA TaskDevice == ASSUME NEW t \in Tasks PROVE DeviceOf(t) \in Devices
  BY DEF Tasks, DeviceOf

\* The end of a transaction keeps the two lock tables well typed.
LEMMA ReleaseTxnType ==
  ASSUME TypeOK, NEW r \in Requests, ReleaseTxn(r)
  PROVE  /\ jobTxn' \in [Jobs -> Requests \cup {None}]
         /\ lockTxn' \in [Devices -> Requests \cup {None}]
  BY DEF TypeOK, ReleaseTxn

\* Closing a session keeps the request variables well typed.
LEMMA CloseSessionType ==
  ASSUME TypeOK, NEW r \in Requests, CloseSession(r)
  PROVE  /\ call' \in [Requests -> [op : Ops, job : Jobs]]
         /\ pc' \in [Requests -> {"idle", "readTasks", "write", "update", "next", "acquire",
                            "backing_up", "applying", "verifying", "saving", "done"}]
         /\ view' \in [Requests -> JobRow]
         /\ seen' \in [Requests -> SUBSET Tasks]
         /\ todo' \in [Requests -> SUBSET Tasks]
         /\ cur' \in [Requests -> Tasks \cup {None}]
         /\ wrote' \in [Requests -> [Tasks -> TaskStatus \cup {"unset"}]]
         /\ saved' \in [Requests -> SUBSET Tasks]
         /\ rows' \in [Requests -> SUBSET Devices]
  BY DEF TypeOK, CloseSession, Goto, Unset

\* A status written to a task of the session keeps the type of wrote.
LEMMA WroteType ==
  ASSUME TypeOK, NEW r \in Requests, NEW t \in Tasks, NEW status \in TaskStatus
  PROVE  [wrote EXCEPT ![r][t] = status] \in [Requests -> [Tasks -> TaskStatus \cup {"unset"}]]
  <1>1. wrote[r] \in [Tasks -> TaskStatus \cup {"unset"}]
    BY DEF TypeOK
  <1>2. [wrote[r] EXCEPT ![t] = status] \in [Tasks -> TaskStatus \cup {"unset"}]
    BY <1>1
  <1>3. QED BY <1>2 DEF TypeOK

\* The end of a task keeps the types of what it assigns.
LEMMA EndTaskType ==
  ASSUME TypeOK, NEW r \in Requests, cur[r] \in Tasks, NEW status \in TaskStatus,
         EndTask(r, status)
  PROVE  /\ wrote' \in [Requests -> [Tasks -> TaskStatus \cup {"unset"}]]
         /\ rows' \in [Requests -> SUBSET Devices]
         /\ cur' \in [Requests -> Tasks \cup {None}]
         /\ pc' = [pc EXCEPT ![r] = "next"]
  BY WroteType DEF EndTask, ReleaseLock, Goto, TypeOK

\* Assigning the status of a job row keeps its type.
LEMMA StatusType ==
  ASSUME NEW row \in JobRow, NEW status \in JobStatus \cup {"running"}
  PROVE  [row EXCEPT !.status = status] \in JobRow
  BY DEF JobRow

LEMMA InitInv == Init => IInv
  <1> SUFFICES ASSUME Init PROVE IInv  OBVIOUS
  <1>1. TypeOK
    BY JobExecutionAssumption
    DEF Init, TypeOK, JobRow, JobStatus, ApprovalStatus, TaskStatus, Unset
  <1>2. Ownership
    BY DEF Init, Ownership, InSession, Executing
  <1>3. QED BY <1>1, <1>2 DEF IInv

\* A transaction that ends takes nothing away from the others.
LEMMA EndOwnership ==
  ASSUME IInv, NEW r \in Requests, ReleaseTxn(r), CloseSession(r)
  PROVE  Ownership'
  <1> SUFFICES ASSUME NEW s \in Requests
               PROVE  /\ todo'[s] \subseteq TasksOf(JobOf(s)')
                      /\ pc'[s] = "acquire" \/ InSession(s)' => cur'[s] \in TasksOf(JobOf(s)')
                      /\ InSession(s)' => lockTxn'[DeviceOf(cur'[s])] = s
                      /\ Executing(s)' => jobTxn'[JobOf(s)'] = s
    BY DEF Ownership, TasksOf, DeviceOf
  <1>1. CASE s = r
    BY <1>1 DEF IInv, TypeOK, CloseSession, Goto, InSession, Executing
  <1>2. CASE s # r
    <2>1. /\ pc'[s] = pc[s] /\ cur'[s] = cur[s] /\ todo'[s] = todo[s]
          /\ JobOf(s)' = JobOf(s) /\ JobOf(s) \in Jobs
      BY <1>2 DEF IInv, TypeOK, CloseSession, Goto, JobOf
    <2>2. pc[s] = "acquire" \/ InSession(s) => DeviceOf(cur[s]) \in Devices
      BY TaskDevice DEF IInv, Ownership, TasksOf
    <2>3. \A d \in Devices : lockTxn[d] = s => lockTxn'[d] = s
      BY <1>2 DEF ReleaseTxn
    <2>4. \A j \in Jobs : jobTxn[j] = s => jobTxn'[j] = s
      BY <1>2 DEF ReleaseTxn
    <2>5. QED
      BY <2>1, <2>2, <2>3, <2>4 DEF IInv, Ownership, InSession, Executing
  <1>3. QED BY <1>1, <1>2

LEMMA ArriveInv ==
  ASSUME IInv, NEW r \in Requests, Arrive(r) PROVE IInv'
  <1>1. CASE CreateJob(r)
    <2>1. TypeOK'
      BY <1>1 DEF IInv, TypeOK, CreateJob, JobOf, JobRow, JobStatus, ApprovalStatus,
                  Goto, txVars, devVars
    <2>2. Ownership'
      BY <1>1 DEF IInv, TypeOK, Ownership, CreateJob, JobOf, TasksOf, InSession,
                  Executing, Goto, txVars, devVars
    <2>3. QED BY <2>1, <2>2 DEF IInv
  <1>2. CASE ApproveLoad(r)
    <2>1. TypeOK'
      BY <1>2 DEF IInv, TypeOK, ApproveLoad, JobOf, Goto, dbVars, txVars, devVars
    <2>2. Ownership'
      BY <1>2 DEF IInv, TypeOK, Ownership, ApproveLoad, JobOf, TasksOf, InSession,
                  Executing, Goto, txVars
    <2>3. QED BY <2>1, <2>2 DEF IInv
  <1>3. CASE CancelLoad(r)
    <2>1. TypeOK'
      BY <1>3 DEF IInv, TypeOK, CancelLoad, JobOf, Goto, dbVars, txVars, devVars
    <2>2. Ownership'
      BY <1>3 DEF IInv, TypeOK, Ownership, CancelLoad, JobOf, TasksOf, InSession,
                  Executing, Goto, txVars
    <2>3. QED BY <2>1, <2>2 DEF IInv
  <1>4. CASE RunLoad(r)
    <2>1. TypeOK'
      BY <1>4 DEF IInv, TypeOK, RunLoad, JobOf, Goto, dbVars, txVars, devVars
    <2>2. Ownership'
      BY <1>4 DEF IInv, TypeOK, Ownership, RunLoad, JobOf, TasksOf, InSession,
                  Executing, Goto, txVars
    <2>3. QED BY <2>1, <2>2 DEF IInv
  <1>5. QED BY <1>1, <1>2, <1>3, <1>4 DEF Arrive

LEMMA OtherStepInv ==
  ASSUME IInv, NEW r \in Requests, OtherStep(r) PROVE IInv'
  <1>1. CASE ApproveWrite(r)
    <2>1. TypeOK'
      BY <1>1, CloseSessionType
      DEF IInv, TypeOK, ApproveWrite, JobOf, JobRow, JobStatus, ApprovalStatus, Assigned,
          txVars, devVars
    <2>2. Ownership'
      BY <1>1 DEF IInv, TypeOK, Ownership, ApproveWrite, CloseSession, JobOf, TasksOf,
                  InSession, Executing, Goto, txVars
    <2>3. QED BY <2>1, <2>2 DEF IInv
  <1>2. CASE CancelReadTasks(r)
    <2>1. TypeOK'
      BY <1>2 DEF IInv, TypeOK, CancelReadTasks, TasksOf, Goto, dbVars, txVars, devVars
    <2>2. Ownership'
      BY <1>2 DEF IInv, TypeOK, Ownership, CancelReadTasks, JobOf, TasksOf, InSession,
                  Executing, Goto, txVars
    <2>3. QED BY <2>1, <2>2 DEF IInv
  <1>3. CASE CancelWrite(r)
    <2>1. TypeOK'
      BY <1>3, CloseSessionType
      DEF IInv, TypeOK, CancelWrite, JobOf, JobRow, JobStatus, ApprovalStatus, Assigned,
          TaskStatus, txVars, devVars
    <2>2. Ownership'
      BY <1>3 DEF IInv, TypeOK, Ownership, CancelWrite, CloseSession, JobOf, TasksOf,
                  InSession, Executing, Goto, txVars
    <2>3. QED BY <2>1, <2>2 DEF IInv
  <1>4. QED BY <1>1, <1>2, <1>3 DEF OtherStep

LEMMA RunStepInv ==
  ASSUME IInv, NEW r \in Requests, RunStep(r) PROVE IInv'
  <1> USE DEF IInv
  <1>0. /\ TypeOK /\ Ownership
        /\ pc[r] = "acquire" \/ InSession(r) => cur[r] \in Tasks /\ DeviceOf(cur[r]) \in Devices
    BY TaskDevice DEF Ownership, TasksOf
  <1>1. CASE RunUpdate(r)
    <2>1. view' \in [Requests -> JobRow]
      BY <1>1, <1>0, StatusType DEF TypeOK, RunUpdate
    <2>2. TypeOK'
      BY <1>1, <1>0, <2>1
      DEF TypeOK, RunUpdate, FlushRunning, JobOf, TasksOf, Goto, dbVars, devVars
    <2>3. Ownership'
      BY <1>1, <1>0, JobExecutionAssumption
      DEF TypeOK, Ownership, RunUpdate, CanUpdateJob, FlushRunning, JobOf, TasksOf,
          InSession, Executing, Goto
    <2>4. QED BY <2>2, <2>3
  <1>2. CASE StartTask(r)
    <2>1. PICK t \in todo[r] :
            /\ todo' = [todo EXCEPT ![r] = @ \ {t}]
            /\ \/ /\ cur' = [cur EXCEPT ![r] = t]
                  /\ Goto(r, "acquire")
                  /\ UNCHANGED wrote
               \/ /\ wrote' = [wrote EXCEPT ![r][t] =
                                IF GateOf(r, t) = "unsupported" THEN "skipped" ELSE "failed"]
                  /\ UNCHANGED <<cur, pc>>
      BY <1>2 DEF StartTask
    <2>2. t \in TasksOf(JobOf(r)) /\ t \in Tasks
      BY <1>0 DEF Ownership, TasksOf
    <2> DEFINE status == IF GateOf(r, t) = "unsupported" THEN "skipped" ELSE "failed"
    <2>3. wrote' \in [Requests -> [Tasks -> TaskStatus \cup {"unset"}]]
      <3>1. status \in TaskStatus
        BY DEF TaskStatus
      <3>2. [wrote EXCEPT ![r][t] = status] \in [Requests -> [Tasks -> TaskStatus \cup {"unset"}]]
        BY <1>0, <2>2, <3>1, WroteType
      <3>3. wrote \in [Requests -> [Tasks -> TaskStatus \cup {"unset"}]]
        BY <1>0 DEF TypeOK
      <3>4. QED BY <2>1, <3>2, <3>3
    <2>4. TypeOK'
      <3>1. /\ todo' \in [Requests -> SUBSET Tasks]
            /\ cur' \in [Requests -> Tasks \cup {None}]
        BY <1>0, <2>1, <2>2 DEF TypeOK
      <3>2. pc' \in [Requests -> {"idle", "readTasks", "write", "update", "next", "acquire",
                            "backing_up", "applying", "verifying", "saving", "done"}]
        BY <1>0, <2>1 DEF TypeOK, Goto
      <3>3. QED
        BY <1>2, <1>0, <2>3, <3>1, <3>2 DEF TypeOK, StartTask, dbVars, txVars, devVars
    <2>5. Ownership'
      BY <1>2, <1>0, <2>1, <2>2
      DEF TypeOK, Ownership, StartTask, JobOf, TasksOf, InSession, Executing, Goto, txVars
    <2>6. QED BY <2>4, <2>5
  <1>3. CASE Acquire(r)
    <2>1. CASE UNCHANGED <<lockTxn, rows>> /\ cur' = [cur EXCEPT ![r] = None] /\ Goto(r, "next")
               /\ wrote' = [wrote EXCEPT ![r][cur[r]] = "failed"]
      <3>1. wrote' \in [Requests -> [Tasks -> TaskStatus \cup {"unset"}]]
        BY <1>0, <1>3, <2>1, WroteType DEF Acquire, TaskStatus
      <3>2. TypeOK'
        BY <1>0, <1>3, <2>1, <3>1 DEF TypeOK, Acquire, Goto, dbVars, devVars
      <3>3. Ownership'
        BY <1>0, <1>3, <2>1
        DEF TypeOK, Ownership, Acquire, JobOf, TasksOf, InSession, Executing, Goto
      <3>4. QED BY <3>2, <3>3
    <2>2. CASE InsertLock(r, DeviceOf(cur[r])) /\ Goto(r, "backing_up") /\ UNCHANGED <<wrote, cur>>
      <3>1. TypeOK'
        BY <1>0, <1>3, <2>2 DEF TypeOK, Acquire, InsertLock, Goto, dbVars, devVars
      <3>2. Ownership'
        BY <1>0, <1>3, <2>2, JobExecutionAssumption
        DEF TypeOK, Ownership, Acquire, InsertLock, JobOf, TasksOf, InSession, Executing, Goto
      <3>3. QED BY <3>1, <3>2
    <2>3. QED BY <1>3, <2>1, <2>2 DEF Acquire
  <1>4. ASSUME InSession(r), NEW label \in {"next", "verifying", "saving"},
               Goto(r, label),
               \/ label # "next" /\ UNCHANGED <<wrote, rows, cur>>
               \/ \E status \in TaskStatus : label = "next" /\ EndTask(r, status),
               applied' \in [Tasks -> Nat], persisted' \in [Tasks -> Nat],
               UNCHANGED <<dbVars, txVars, call, view, seen, todo, saved>>
        PROVE  IInv'
    <2>1. /\ wrote' \in [Requests -> [Tasks -> TaskStatus \cup {"unset"}]]
          /\ rows' \in [Requests -> SUBSET Devices]
          /\ cur' \in [Requests -> Tasks \cup {None}]
          /\ \A s \in Requests : s # r \/ label # "next" => cur'[s] = cur[s]
      <3>1. CASE UNCHANGED <<wrote, rows, cur>>
        BY <3>1, <1>0 DEF TypeOK
      <3>2. CASE \E status \in TaskStatus : label = "next" /\ EndTask(r, status)
        BY <3>2, <1>0, <1>4, EndTaskType DEF EndTask, TypeOK
      <3>3. QED BY <1>4, <3>1, <3>2
    <2>2. TypeOK'
      BY <1>0, <1>4, <2>1 DEF TypeOK, Goto, dbVars, txVars
    <2>3. Ownership'
      BY <1>0, <1>4, <2>1
      DEF TypeOK, Ownership, JobOf, TasksOf, InSession, Executing, Goto, txVars
    <2>4. QED BY <2>2, <2>3
  <1>5. CASE Backup(r)
    <2>1. PICK ok \in BOOLEAN :
            /\ saved' = [saved EXCEPT ![r] = IF ok THEN @ \cup {cur[r]} ELSE @]
            /\ StageResult(r, ok, "applying")
      BY <1>5 DEF Backup
    <2>2. /\ InSession(r) /\ applied' \in [Tasks -> Nat] /\ persisted' \in [Tasks -> Nat]
          /\ UNCHANGED <<dbVars, txVars, devVars, call, view, seen, todo>>
      BY <1>5, <1>0 DEF Backup, TypeOK, InSession, devVars
    <2>3. CASE ok
      <3>1. /\ saved' = [saved EXCEPT ![r] = @ \cup {cur[r]}]
            /\ Goto(r, "applying") /\ UNCHANGED <<wrote, rows, cur>>
        BY <2>1, <2>3 DEF StageResult
      <3>2. TypeOK'
        BY <1>0, <2>2, <3>1 DEF TypeOK, Goto, dbVars, txVars, devVars
      <3>3. Ownership'
        BY <1>0, <2>2, <3>1
        DEF TypeOK, Ownership, JobOf, TasksOf, InSession, Executing, Goto, txVars
      <3>4. QED BY <3>2, <3>3
    <2>4. CASE ~ok
      <3>1. saved' = saved /\ EndTask(r, "failed")
        BY <1>0, <2>1, <2>4 DEF StageResult, TypeOK
      <3>2. Goto(r, "next") /\ "failed" \in TaskStatus
        BY <3>1 DEF EndTask, TaskStatus
      <3>3. QED BY <1>4, <2>2, <3>1, <3>2
    <2>5. QED BY <2>3, <2>4
  <1>6. CASE Apply(r)
    <2>1. applied' \in [Tasks -> Nat] /\ persisted' \in [Tasks -> Nat]
      BY <1>0, <1>6 DEF Apply, TypeOK, InSession
    <2>2. QED
      BY <1>4, <1>6, <2>1 DEF Apply, StageResult, EndTask, InSession, TaskStatus
  <1>7. CASE Verify(r)
    <2>1. applied' \in [Tasks -> Nat] /\ persisted' \in [Tasks -> Nat]
      BY <1>0, <1>7 DEF Verify, TypeOK, devVars
    <2>2. QED
      BY <1>4, <1>7, <2>1 DEF Verify, StageResult, EndTask, InSession, TaskStatus
  <1>8. CASE Save(r)
    <2>1. applied' \in [Tasks -> Nat] /\ persisted' \in [Tasks -> Nat]
      BY <1>0, <1>8 DEF Save, TypeOK, InSession
    <2>2. QED
      BY <1>4, <1>8, <2>1 DEF Save, SaveOutcome, EndTask, InSession, TaskStatus
  <1>9. CASE Commit(r)
    <2>1. FinalStatus({wrote[r][t] : t \in TasksOf(JobOf(r))}) \in JobStatus
      BY DEF FinalStatus, JobStatus
    <2>2. job' \in [Jobs -> JobRow]
      BY <1>9, <1>0, <2>1, StatusType DEF Commit, TypeOK, JobOf
    <2>3. task' \in [Tasks -> TaskStatus]
      BY <1>9, <1>0 DEF Commit, CommittedTasks, TypeOK
    <2>4. lockRow' \in [Devices -> Jobs \cup {None}]
      BY <1>9, <1>0 DEF Commit, CommittedLockRows, TypeOK, JobOf
    <2>5. TypeOK'
      BY <1>9, <1>0, <2>2, <2>3, <2>4, ReleaseTxnType, CloseSessionType
      DEF Commit, TypeOK, devVars
    <2>6. Ownership'
      BY <1>9, EndOwnership DEF Commit
    <2>7. QED BY <2>5, <2>6
  <1>10. QED
    BY <1>1, <1>2, <1>3, <1>5, <1>6, <1>7, <1>8, <1>9 DEF RunStep

LEMMA RollbackInv ==
  ASSUME IInv, NEW r \in Requests, Rollback(r) PROVE IInv'
  <1>1. TypeOK'
    BY ReleaseTxnType, CloseSessionType DEF IInv, TypeOK, Rollback, dbVars, devVars
  <1>2. Ownership'
    BY EndOwnership DEF Rollback
  <1>3. QED BY <1>1, <1>2 DEF IInv

LEMMA StutterInv == ASSUME IInv, UNCHANGED vars PROVE IInv'
  BY DEF IInv, TypeOK, Ownership, InSession, Executing, JobOf, TasksOf, vars, dbVars, txVars,
         reqVars, devVars

\* The inductive invariant holds in every reachable state.
THEOREM Inductive == Spec => []IInv
  <1>1. Init => IInv
    BY InitInv
  <1>2. IInv /\ [Next]_vars => IInv'
    <2> SUFFICES ASSUME IInv, [Next]_vars PROVE IInv'
      OBVIOUS
    <2>1. ASSUME NEW r \in Requests, Arrive(r) PROVE IInv'
      BY <2>1, ArriveInv
    <2>2. ASSUME NEW r \in Requests, RunStep(r) PROVE IInv'
      BY <2>2, RunStepInv
    <2>3. ASSUME NEW r \in Requests, OtherStep(r) PROVE IInv'
      BY <2>3, OtherStepInv
    <2>4. ASSUME NEW r \in Requests, Abort(r) \/ DeadlockVictim(r) PROVE IInv'
      BY <2>4, RollbackInv DEF Abort, DeadlockVictim
    <2>5. CASE UNCHANGED vars
      BY <2>5, StutterInv
    <2>6. QED BY <2>1, <2>2, <2>3, <2>4, <2>5 DEF Next
  <1>3. QED BY <1>1, <1>2, PTL DEF Spec

\* Every variable keeps its type.
THEOREM TypeCorrect == Spec => []TypeOK
  BY Inductive, PTL DEF IInv

\* No two requests work on one device at a time: both would own the key of the
\* device's lock.
THEOREM DeviceExclusion == Spec => []DeviceExclusive
  <1>1. IInv => DeviceExclusive
    BY DEF IInv, Ownership, DeviceExclusive
  <1>2. QED BY <1>1, Inductive, PTL

\* No two executions of one job overlap: both would own the row of the job.
THEOREM RunsOfAJobSerialised == Spec => []OneRunPerJob
  <1>1. IInv => OneRunPerJob
    BY DEF IInv, Ownership, OneRunPerJob
  <1>2. QED BY <1>1, Inductive, PTL

-----------------------------------------------------------------------------
(* JobExecution implements DeviceMutex                                     *)

\* The device r works on, seen from outside: the mapping of Mutex.
Holders == [d \in Devices |-> {r \in Requests : InSession(r) /\ DeviceOf(cur[r]) = d}]

\* A step of r moves nobody else, and r gets into a session only by acquiring
\* the key of the device of its task.
LEMMA StepShape ==
  ASSUME IInv, NEW r \in Requests,
         Arrive(r) \/ RunStep(r) \/ OtherStep(r) \/ Abort(r) \/ DeadlockVictim(r)
  PROVE  /\ \A s \in Requests : s # r => pc'[s] = pc[s] /\ cur'[s] = cur[s]
         /\ InSession(r)' =>
              /\ cur'[r] = cur[r]
              /\ \/ InSession(r)
                 \/ pc[r] = "acquire" /\ lockTxn[DeviceOf(cur[r])] \in {None, r}
  <1> USE DEF IInv, TypeOK, InSession, Goto
  <1>1. CASE Arrive(r)
    BY <1>1 DEF Arrive, CreateJob, ApproveLoad, CancelLoad, RunLoad
  <1>2. CASE OtherStep(r)
    BY <1>2 DEF OtherStep, ApproveWrite, CancelReadTasks, CancelWrite, CloseSession
  <1>3. CASE Abort(r) \/ DeadlockVictim(r)
    BY <1>3 DEF Abort, DeadlockVictim, Rollback, CloseSession
  <1>4. CASE RunUpdate(r) \/ Commit(r)
    BY <1>4 DEF RunUpdate, Commit, CloseSession
  <1>5. CASE StartTask(r)
    BY <1>5 DEF StartTask
  <1>6. CASE Acquire(r)
    BY <1>6 DEF Acquire
  <1>7. CASE Backup(r) \/ Apply(r) \/ Verify(r) \/ Save(r)
    BY <1>7 DEF Backup, Apply, Verify, Save, StageResult, EndTask
  <1>8. QED BY <1>1, <1>2, <1>3, <1>4, <1>5, <1>6, <1>7 DEF RunStep

\* Every step of a request is a step of the abstract mutex, or none.
LEMMA StepRefinesMutex ==
  ASSUME IInv, NEW r \in Requests,
         Arrive(r) \/ RunStep(r) \/ OtherStep(r) \/ Abort(r) \/ DeadlockVictim(r)
  PROVE  Mutex!Next \/ UNCHANGED Holders
  <1>1. /\ \A s \in Requests : s # r => pc'[s] = pc[s] /\ cur'[s] = cur[s]
        /\ InSession(r)' =>
              /\ cur'[r] = cur[r]
              /\ \/ InSession(r)
                 \/ pc[r] = "acquire" /\ lockTxn[DeviceOf(cur[r])] \in {None, r}
    BY StepShape
  <1>2. \A s \in Requests : s # r => (InSession(s)' <=> InSession(s))
    BY <1>1 DEF InSession
  <1>3. CASE InSession(r)' <=> InSession(r)
    <2>1. \A d \in Devices :
            {s \in Requests : InSession(s)' /\ DeviceOf(cur'[s]) = d}
              = {s \in Requests : InSession(s) /\ DeviceOf(cur[s]) = d}
      BY <1>1, <1>2, <1>3
    <2>2. QED BY <2>1 DEF Holders, DeviceOf
  <1>4. CASE InSession(r)' /\ ~InSession(r)
    <2> DEFINE e == DeviceOf(cur[r])
    <2>1. e \in Devices /\ cur'[r] = cur[r] /\ lockTxn[e] \in {None, r}
      BY <1>1, <1>4, TaskDevice DEF IInv, Ownership, TasksOf
    <2>2. \A s \in Requests : ~(InSession(s) /\ DeviceOf(cur[s]) = e)
      BY <1>4, <2>1, JobExecutionAssumption DEF IInv, Ownership
    <2>3. \A d \in Devices : r \notin {s \in Requests : InSession(s) /\ DeviceOf(cur[s]) = d}
      BY <1>4
    <2>4. {s \in Requests : InSession(s) /\ DeviceOf(cur[s]) = e} = {}
      BY <2>2
    <2>5. \A d \in Devices :
            {s \in Requests : InSession(s)' /\ DeviceOf(cur'[s]) = d}
              = IF d = e THEN {r} ELSE {s \in Requests : InSession(s) /\ DeviceOf(cur[s]) = d}
      <3> SUFFICES ASSUME NEW d \in Devices
                   PROVE {s \in Requests : InSession(s)' /\ DeviceOf(cur'[s]) = d}
                     = IF d = e THEN {r}
                       ELSE {s \in Requests : InSession(s) /\ DeviceOf(cur[s]) = d}
        OBVIOUS
      <3>1. CASE d = e
        BY <3>1, <1>1, <1>2, <1>4, <2>1, <2>2
      <3>2. CASE d # e
        BY <3>2, <1>1, <1>2, <1>4, <2>1
      <3>3. QED BY <3>1, <3>2
    <2>6. Holders' = [Holders EXCEPT ![e] = {r}]
      BY <2>1, <2>5 DEF Holders, DeviceOf
    <2>7. Mutex!Enter(r, e)
      BY <2>1, <2>3, <2>4, <2>6 DEF Mutex!Enter, Holders
    <2>8. QED BY <2>1, <2>7 DEF Mutex!Next
  <1>5. CASE InSession(r) /\ ~InSession(r)'
    <2> DEFINE e == DeviceOf(cur[r])
    <2>1. e \in Devices
      BY <1>5, TaskDevice DEF IInv, Ownership, TasksOf
    <2>2. r \in {s \in Requests : InSession(s) /\ DeviceOf(cur[s]) = e}
      BY <1>5
    <2>3. \A d \in Devices :
            {s \in Requests : InSession(s)' /\ DeviceOf(cur'[s]) = d}
              = {s \in Requests : InSession(s) /\ DeviceOf(cur[s]) = d}
                \ (IF d = e THEN {r} ELSE {})
      BY <1>1, <1>2, <1>5
    <2>4. Holders' = [Holders EXCEPT ![e] = @ \ {r}]
      BY <2>1, <2>3 DEF Holders, DeviceOf
    <2>5. Mutex!Leave(r, e)
      BY <2>1, <2>2, <2>4 DEF Mutex!Leave, Holders
    <2>6. QED BY <2>1, <2>5 DEF Mutex!Next
  <1>6. QED BY <1>3, <1>4, <1>5

\* The rows of device_locks implement the abstract mutex over devices.
THEOREM MutexImplemented == Spec => ImplementsMutex
  <1>1. Init => Mutex!Init
    BY DEF Init, Mutex!Init, InSession
  <1>2. IInv /\ [Next]_vars => [Mutex!Next]_Holders
    <2> SUFFICES ASSUME IInv, [Next]_vars PROVE Mutex!Next \/ UNCHANGED Holders
      OBVIOUS
    <2>1. CASE Next
      BY <2>1, StepRefinesMutex DEF Next
    <2>2. CASE UNCHANGED vars
      BY <2>2 DEF vars, reqVars, Holders, InSession, DeviceOf
    <2>3. QED BY <2>1, <2>2
  <1>3. QED
    BY <1>1, <1>2, Inductive, PTL DEF Spec, ImplementsMutex, Mutex!Spec, Holders

-----------------------------------------------------------------------------
(* What is recorded                                                        *)

Step(r) == Arrive(r) \/ RunStep(r) \/ OtherStep(r) \/ Abort(r) \/ DeadlockVictim(r)

\* A step changes the session of its own request only, and what has been sent to
\* a device stays sent.
LEMMA StepLocal ==
  ASSUME IInv, NEW r \in Requests, Step(r)
  PROVE  /\ \A s \in Requests \ {r} :
              /\ pc'[s] = pc[s] /\ view'[s] = view[s] /\ seen'[s] = seen[s]
              /\ todo'[s] = todo[s] /\ cur'[s] = cur[s] /\ wrote'[s] = wrote[s]
              /\ saved'[s] = saved[s]
         /\ call' = call
         /\ \A t \in Tasks : applied'[t] >= applied[t] /\ persisted'[t] >= persisted[t]
  <1> USE DEF IInv, TypeOK, Goto
  <1>1. CASE Arrive(r)
    BY <1>1 DEF Arrive, CreateJob, ApproveLoad, CancelLoad, RunLoad, devVars
  <1>2. CASE OtherStep(r)
    BY <1>2 DEF OtherStep, ApproveWrite, CancelReadTasks, CancelWrite, CloseSession, devVars
  <1>3. CASE Abort(r) \/ DeadlockVictim(r)
    BY <1>3 DEF Abort, DeadlockVictim, Rollback, CloseSession, devVars
  <1>4. CASE RunUpdate(r) \/ Commit(r)
    BY <1>4 DEF RunUpdate, Commit, CloseSession, devVars
  <1>5. CASE StartTask(r)
    BY <1>5 DEF StartTask, devVars
  <1>6. CASE Acquire(r)
    BY <1>6 DEF Acquire, devVars
  <1>7. CASE Backup(r) \/ Apply(r) \/ Verify(r) \/ Save(r)
    <2>1. InSession(r) => cur[r] \in Tasks
      BY DEF Ownership, TasksOf
    <2>2. CASE Apply(r)
      BY <2>1, <2>2 DEF Apply, StageResult, EndTask, InSession
    <2>3. CASE Verify(r)
      BY <2>3 DEF Verify, StageResult, EndTask, devVars
    <2>4. CASE Save(r)
      BY <2>1, <2>4 DEF Save, EndTask, InSession
    <2>5. CASE Backup(r)
      BY <2>5 DEF Backup, StageResult, EndTask, devVars
    <2>6. QED BY <1>7, <2>2, <2>3, <2>4, <2>5
  <1>8. QED BY <1>1, <1>2, <1>3, <1>4, <1>5, <1>6, <1>7 DEF Step, RunStep

LEMMA OthersFaithful ==
  ASSUME IInv, NEW r \in Requests, Step(r), NEW s \in Requests \ {r}, Faithful(s)
  PROVE  Faithful(s)'
  <1>1. /\ pc'[s] = pc[s] /\ view'[s] = view[s] /\ seen'[s] = seen[s] /\ todo'[s] = todo[s]
        /\ cur'[s] = cur[s] /\ wrote'[s] = wrote[s] /\ saved'[s] = saved[s]
        /\ call' = call /\ JobOf(s)' = JobOf(s) /\ TasksOf(JobOf(s))' = TasksOf(JobOf(s))
        /\ \A t \in Tasks : applied'[t] >= applied[t] /\ persisted'[t] >= persisted[t]
    BY StepLocal DEF JobOf, TasksOf
  <1>2. \A t \in Tasks : /\ applied[t] > 0 => applied'[t] > 0
                         /\ persisted[t] > 0 => persisted'[t] > 0
    <2>1. \A t \in Tasks : applied[t] \in Nat /\ persisted[t] \in Nat
      BY DEF IInv, TypeOK
    <2>2. \A t \in Tasks : applied'[t] \in Nat /\ persisted'[t] \in Nat
      BY RunStepInv, ArriveInv, OtherStepInv, RollbackInv
         DEF Step, Abort, DeadlockVictim, IInv, TypeOK
    <2>3. QED BY <1>1, <2>1, <2>2
  <1>3. pc[s] \in {"verifying", "saving"} => cur[s] \in Tasks
    BY DEF IInv, Ownership, InSession, TasksOf
  <1>4. QED BY <1>1, <1>2, <1>3 DEF Faithful, Executing, InSession

\* A session that is closed has nothing to keep.
LEMMA ClosedIsFaithful ==
  ASSUME TypeOK, NEW r \in Requests, CloseSession(r)
  PROVE  Faithful(r)'
  BY DEF TypeOK, CloseSession, Goto, Faithful, Executing, InSession, Unset

LEMMA ArriveFaithful ==
  ASSUME IInv, NEW r \in Requests, Arrive(r), Faithful(r)
  PROVE  Faithful(r)'
  <1> USE DEF IInv, TypeOK, Goto, Faithful, Executing, InSession, JobOf, TasksOf, devVars
  <1>1. CASE CreateJob(r)
    BY <1>1 DEF CreateJob
  <1>2. CASE ApproveLoad(r)
    BY <1>2 DEF ApproveLoad
  <1>3. CASE CancelLoad(r)
    BY <1>3 DEF CancelLoad
  <1>4. CASE RunLoad(r)
    BY <1>4 DEF RunLoad, MayRun
  <1>5. QED BY <1>1, <1>2, <1>3, <1>4 DEF Arrive

LEMMA OtherStepFaithful ==
  ASSUME IInv, NEW r \in Requests, OtherStep(r), Faithful(r)
  PROVE  Faithful(r)'
  <1>1. CASE CancelReadTasks(r)
    BY <1>1 DEF IInv, TypeOK, Goto, Faithful, Executing, InSession, JobOf, TasksOf, devVars,
                CancelReadTasks
  <1>2. CASE ApproveWrite(r) \/ CancelWrite(r)
    BY <1>2, ClosedIsFaithful DEF IInv, ApproveWrite, CancelWrite
  <1>3. QED BY <1>1, <1>2 DEF OtherStep

\* A task ends: its status is what it has earned.
LEMMA EndTaskFaithful ==
  ASSUME IInv, NEW r \in Requests, InSession(r), Faithful(r), NEW status \in TaskStatus,
         EndTask(r, status), UNCHANGED <<call, view, seen, todo, saved>>,
         \A t \in Tasks : /\ applied[t] > 0 => applied'[t] > 0
                          /\ persisted[t] > 0 => persisted'[t] > 0,
         status = "succeeded" =>
            cur[r] \in saved[r] /\ applied'[cur[r]] > 0 /\ persisted'[cur[r]] > 0
  PROVE  Faithful(r)'
  <1> DEFINE own == TasksOf(JobOf(r))
  <1>1. cur[r] \in own /\ cur[r] \in Tasks /\ Executing(r)
    BY DEF IInv, Ownership, TasksOf, Executing
  <1>2. wrote[r] \in [Tasks -> TaskStatus \cup {"unset"}]
    BY DEF IInv, TypeOK
  <1>3. /\ pc'[r] = "next" /\ wrote'[r] = [wrote[r] EXCEPT ![cur[r]] = status]
        /\ own' = own /\ TasksOf(JobOf(r))' = own
    BY DEF IInv, TypeOK, EndTask, Goto, TasksOf, JobOf
  <1>4. \A t \in Tasks : wrote'[r][t] = IF t = cur[r] THEN status ELSE wrote[r][t]
    BY <1>1, <1>2, <1>3
  <1>5. status # "unset"
    BY DEF TaskStatus
  <1>6. \A t \in own : t \in Tasks
    BY DEF TasksOf
  <1>7. \A t \in own \ todo[r] : wrote'[r][t] # "unset"
    BY <1>1, <1>4, <1>5, <1>6 DEF Faithful
  <1>8. \A t \in Tasks :
          /\ wrote'[r][t] # "unset" => t \in own
          /\ wrote'[r][t] = "succeeded" => t \in saved[r] /\ applied'[t] > 0 /\ persisted'[t] > 0
    <2>1. SUFFICES ASSUME NEW t \in Tasks
                   PROVE  /\ wrote'[r][t] # "unset" => t \in own
                          /\ wrote'[r][t] = "succeeded" =>
                               t \in saved[r] /\ applied'[t] > 0 /\ persisted'[t] > 0
      OBVIOUS
    <2>2. CASE t = cur[r]
      BY <1>1, <1>4, <2>2
    <2>3. CASE t # cur[r]
      <3>1. wrote'[r][t] = wrote[r][t]
        BY <1>4, <2>3
      <3>2. /\ wrote[r][t] # "unset" => t \in own
            /\ wrote[r][t] = "succeeded" => t \in saved[r] /\ applied[t] > 0 /\ persisted[t] > 0
        BY DEF Faithful
      <3>3. QED BY <3>1, <3>2
    <2>4. QED BY <2>2, <2>3
  <1>9. view[r].approval = "approved" /\ seen[r] \subseteq own
    BY <1>1 DEF Faithful
  <1>10. QED BY <1>3, <1>7, <1>8, <1>9 DEF Faithful, Executing, InSession

LEMMA CountsOfRun ==
  ASSUME IInv, NEW r \in Requests, RunStep(r)
  PROVE  \A t \in Tasks : /\ applied[t] > 0 => applied'[t] > 0
                          /\ persisted[t] > 0 => persisted'[t] > 0
  <1>1. \A t \in Tasks : applied'[t] >= applied[t] /\ persisted'[t] >= persisted[t]
    BY StepLocal DEF Step
  <1>2. \A t \in Tasks : /\ applied[t] \in Nat /\ persisted[t] \in Nat
                         /\ applied'[t] \in Nat /\ persisted'[t] \in Nat
    BY RunStepInv DEF IInv, TypeOK
  <1>3. QED BY <1>1, <1>2

LEMMA RunStepFaithful ==
  ASSUME IInv, NEW r \in Requests, RunStep(r), Faithful(r)
  PROVE  Faithful(r)'
  <1> DEFINE own == TasksOf(JobOf(r))
  <1>1. /\ TypeOK /\ call' = call /\ JobOf(r)' = JobOf(r) /\ TasksOf(JobOf(r))' = own
        /\ own \subseteq Tasks /\ wrote[r] \in [Tasks -> TaskStatus \cup {"unset"}]
        /\ todo[r] \subseteq own
        /\ pc[r] = "acquire" \/ InSession(r) => cur[r] \in own
    BY StepLocal DEF Step, JobOf, TasksOf, IInv, TypeOK, Ownership
  <1>2. \A t \in Tasks : /\ applied[t] > 0 => applied'[t] > 0
                         /\ persisted[t] > 0 => persisted'[t] > 0
    BY CountsOfRun
  <1>3. CASE RunUpdate(r)
    <2>1. /\ pc'[r] = "next" /\ todo'[r] = own /\ view'[r].approval = view[r].approval
          /\ seen'[r] = seen[r] /\ wrote'[r] = wrote[r] /\ saved'[r] = saved[r]
      BY <1>1, <1>3 DEF RunUpdate, Goto, TypeOK, JobRow
    <2>2. pc[r] = "update"
      BY <1>3 DEF RunUpdate
    <2>3. QED BY <1>1, <1>2, <2>1, <2>2 DEF Faithful, Executing, InSession
  <1>4. CASE StartTask(r)
    <2>1. PICK t \in todo[r] :
            /\ todo' = [todo EXCEPT ![r] = @ \ {t}]
            /\ \/ /\ cur' = [cur EXCEPT ![r] = t]
                  /\ Goto(r, "acquire")
                  /\ UNCHANGED wrote
               \/ /\ wrote' = [wrote EXCEPT ![r][t] =
                                IF GateOf(r, t) = "unsupported" THEN "skipped" ELSE "failed"]
                  /\ UNCHANGED <<cur, pc>>
      BY <1>4 DEF StartTask
    <2>2. /\ pc[r] = "next" /\ view' = view /\ seen' = seen /\ saved' = saved
          /\ todo'[r] = todo[r] \ {t} /\ t \in own
      BY <1>1, <1>4, <2>1 DEF StartTask, TypeOK
    <2>3. CASE /\ cur' = [cur EXCEPT ![r] = t] /\ Goto(r, "acquire") /\ UNCHANGED wrote
      <3>1. pc'[r] = "acquire" /\ cur'[r] = t
        BY <1>1, <2>3 DEF TypeOK, Goto
      <3>2. QED BY <1>1, <1>2, <2>2, <2>3, <3>1 DEF Faithful, Executing, InSession
    <2>4. CASE /\ wrote' = [wrote EXCEPT ![r][t] =
                             IF GateOf(r, t) = "unsupported" THEN "skipped" ELSE "failed"]
               /\ UNCHANGED <<cur, pc>>
      <3>1. PICK status \in {"skipped", "failed"} : wrote' = [wrote EXCEPT ![r][t] = status]
        BY <2>4
      <3>2. \A u \in Tasks : wrote'[r][u] = IF u = t THEN status ELSE wrote[r][u]
        BY <1>1, <3>1 DEF TypeOK
      <3>3. QED BY <1>1, <1>2, <2>2, <2>4, <3>2 DEF Faithful, Executing, InSession
    <2>5. QED BY <2>1, <2>3, <2>4
  <1>5. CASE Acquire(r)
    <2>1. /\ pc[r] = "acquire" /\ view' = view /\ seen' = seen /\ todo' = todo /\ saved' = saved
      BY <1>5 DEF Acquire
    <2>2. CASE cur' = [cur EXCEPT ![r] = None] /\ Goto(r, "next")
               /\ wrote' = [wrote EXCEPT ![r][cur[r]] = "failed"]
      <3>1. pc'[r] = "next"
        BY <1>1, <2>2 DEF TypeOK, Goto
      <3>2. \A u \in Tasks : wrote'[r][u] = IF u = cur[r] THEN "failed" ELSE wrote[r][u]
        BY <1>1, <2>1, <2>2 DEF TypeOK
      <3>3. QED BY <1>1, <1>2, <2>1, <3>1, <3>2 DEF Faithful, Executing, InSession
    <2>3. CASE Goto(r, "backing_up") /\ UNCHANGED <<wrote, cur>>
      <3>1. pc'[r] = "backing_up"
        BY <1>1, <2>3 DEF TypeOK, Goto
      <3>2. QED BY <1>1, <1>2, <2>1, <2>3, <3>1 DEF Faithful, Executing, InSession
    <2>4. QED BY <1>5, <2>2, <2>3 DEF Acquire
  <1>6. CASE Backup(r)
    <2>1. PICK ok \in BOOLEAN :
            /\ saved' = [saved EXCEPT ![r] = IF ok THEN @ \cup {cur[r]} ELSE @]
            /\ StageResult(r, ok, "applying")
      BY <1>6 DEF Backup
    <2>2. pc[r] = "backing_up" /\ InSession(r) /\ UNCHANGED <<call, view, seen, todo>>
      BY <1>6 DEF Backup, InSession
    <2>3. CASE ok
      <3>1. /\ pc'[r] = "applying" /\ saved'[r] = saved[r] \cup {cur[r]}
            /\ UNCHANGED <<cur, wrote>>
        BY <1>1, <2>1, <2>3 DEF StageResult, TypeOK, Goto
      <3>2. QED BY <1>1, <1>2, <2>2, <3>1 DEF Faithful, Executing, InSession
    <2>4. CASE ~ok
      <3>1. saved' = saved /\ EndTask(r, "failed")
        BY <1>1, <2>1, <2>4 DEF StageResult, TypeOK
      <3>2. QED BY <1>2, <2>2, <3>1, EndTaskFaithful DEF TaskStatus
    <2>5. QED BY <2>3, <2>4
  \* A stage of the device session that goes on to the next.
  <1>7. ASSUME NEW next \in {"verifying", "saving"}, InSession(r), pc[r] # "backing_up",
               Goto(r, next), applied'[cur[r]] > 0,
               UNCHANGED <<view, seen, todo, saved, cur, wrote>>
        PROVE  Faithful(r)'
    <2>1. pc'[r] = next
      BY <1>1, <1>7 DEF TypeOK, Goto
    <2>2. QED BY <1>1, <1>2, <1>7, <2>1 DEF Faithful, Executing, InSession
  <1>8. CASE Apply(r)
    <2>1. pc[r] = "applying" /\ InSession(r) /\ UNCHANGED <<call, view, seen, todo, saved>>
      BY <1>8 DEF Apply, InSession
    <2>2. applied'[cur[r]] > 0
      BY <1>1, <1>8, <2>1 DEF Apply, TypeOK
    <2>3. CASE Goto(r, "verifying") /\ UNCHANGED <<wrote, rows, cur>>
      BY <1>7, <2>1, <2>2, <2>3
    <2>4. CASE EndTask(r, "failed")
      BY <1>2, <2>1, <2>4, EndTaskFaithful DEF TaskStatus
    <2>5. QED BY <1>8, <2>3, <2>4 DEF Apply, StageResult
  <1>9. CASE Verify(r)
    <2>1. pc[r] = "verifying" /\ InSession(r) /\ UNCHANGED <<call, view, seen, todo, saved>>
      BY <1>9 DEF Verify, InSession
    <2>2. applied'[cur[r]] > 0
      BY <1>1, <1>2, <2>1 DEF Faithful
    <2>3. CASE Goto(r, "saving") /\ UNCHANGED <<wrote, rows, cur>>
      BY <1>7, <2>1, <2>2, <2>3
    <2>4. CASE EndTask(r, "failed")
      BY <1>2, <2>1, <2>4, EndTaskFaithful DEF TaskStatus
    <2>5. QED BY <1>9, <2>3, <2>4 DEF Verify, StageResult
  <1>10. CASE Save(r)
    <2>1. PICK ok \in BOOLEAN :
            /\ EndTask(r, SaveOutcome(ok))
            /\ persisted' = [persisted EXCEPT ![cur[r]] = IF ok THEN @ + 1 ELSE @]
      BY <1>10 DEF Save
    <2>2. pc[r] = "saving" /\ InSession(r) /\ UNCHANGED <<call, view, seen, todo, saved>>
      BY <1>10 DEF Save, InSession
    <2>3. cur[r] \in Tasks /\ cur[r] \in saved[r] /\ applied'[cur[r]] > 0
      BY <1>1, <1>2, <2>2 DEF Faithful
    <2>4. ok => persisted'[cur[r]] > 0
      BY <1>1, <2>1, <2>3 DEF TypeOK
    <2>5. SaveOutcome(ok) \in TaskStatus /\ (SaveOutcome(ok) = "succeeded" => ok)
      BY DEF SaveOutcome, TaskStatus
    <2>6. QED BY <1>2, <2>1, <2>2, <2>3, <2>4, <2>5, EndTaskFaithful
  <1>11. CASE Commit(r)
    BY <1>1, <1>11, ClosedIsFaithful DEF Commit
  <1>12. QED
    BY <1>3, <1>4, <1>5, <1>6, <1>8, <1>9, <1>10, <1>11 DEF RunStep

\* The rows of the database that nobody writes stay in agreement.
LEMMA RecordsStay ==
  ASSUME FInv, UNCHANGED <<task, backup>>,
         \A t \in Tasks : /\ applied[t] > 0 => applied'[t] > 0
                          /\ persisted[t] > 0 => persisted'[t] > 0,
         \A j \in Jobs : \/ job'[j].status = job[j].status
                         \/ job'[j].status \notin {"succeeded", "partially_failed", "failed"}
  PROVE  RecordedSuccessIsReal' /\ StatusAgreesWithTasks'
  <1>1. RecordedSuccessIsReal'
    BY DEF FInv, RecordedSuccessIsReal
  <1>2. StatusAgreesWithTasks'
    <2>1. \A j \in Jobs : /\ TasksOf(j)' = TasksOf(j)
                          /\ {t \in TasksOf(j) : task'[t] = "succeeded"}
                              = {t \in TasksOf(j) : task[t] = "succeeded"}
      BY DEF TasksOf
    <2>2. StatusAgreesWithTasks
      BY DEF FInv
    <2>3. QED BY <2>1, <2>2 DEF StatusAgreesWithTasks
  <1>3. QED BY <1>1, <1>2

LEMMA CommitAgrees ==
  ASSUME IInv, FInv, NEW r \in Requests, Commit(r)
  PROVE  RecordedSuccessIsReal' /\ StatusAgreesWithTasks'
  <1> DEFINE j == JobOf(r)
             own == TasksOf(j)
             statuses == {wrote[r][t] : t \in own}
  <1>1. /\ TypeOK /\ Faithful(r) /\ j \in Jobs /\ own \subseteq Tasks
        /\ pc[r] = "next" /\ todo[r] = {} /\ Executing(r) /\ UNCHANGED <<applied, persisted>>
        /\ job' = [job EXCEPT ![j].status = FinalStatus(statuses)]
        /\ task' = CommittedTasks(r) /\ backup' = backup \cup saved[r]
    BY DEF IInv, TypeOK, FInv, Commit, Executing, JobOf, TasksOf, devVars
  <1>2. \A t \in Tasks : task'[t] = IF wrote[r][t] = "unset" THEN task[t] ELSE wrote[r][t]
    BY <1>1 DEF CommittedTasks
  <1>3. RecordedSuccessIsReal'
    BY <1>1, <1>2 DEF FInv, Faithful, RecordedSuccessIsReal
  <1>4. \A t \in own : wrote[r][t] # "unset" /\ task'[t] = wrote[r][t]
    BY <1>1, <1>2 DEF Faithful
  <1>5. \A t \in Tasks \ own : task'[t] = task[t]
    BY <1>1, <1>2 DEF Faithful
  <1>6. job'[j].status = FinalStatus(statuses) /\ \A i \in Jobs \ {j} : job'[i] = job[i]
    BY <1>1 DEF TypeOK, JobRow
  <1>7. StatusAgreesWithTasks'
    <2>1. SUFFICES ASSUME NEW i \in Jobs
                   PROVE  LET done == {t \in TasksOf(i) : task'[t] = "succeeded"} IN
                          /\ job'[i].status = "succeeded" => done = TasksOf(i)
                          /\ job'[i].status = "partially_failed" => done # {} /\ done # TasksOf(i)
                          /\ job'[i].status = "failed" => done = {}
      BY DEF StatusAgreesWithTasks, TasksOf
    <2>2. CASE i # j
      <3>1. \A t \in TasksOf(i) : t \in Tasks \ own
        BY <2>2 DEF TasksOf
      <3>2. {t \in TasksOf(i) : task'[t] = "succeeded"} = {t \in TasksOf(i) : task[t] = "succeeded"}
        BY <1>5, <3>1
      <3>3. job'[i].status = job[i].status
        BY <1>6, <2>2
      <3>4. QED BY <3>2, <3>3 DEF FInv, StatusAgreesWithTasks
    <2>3. CASE i = j
      <3>1. statuses \subseteq {"succeeded"} => \A t \in own : task'[t] = "succeeded"
        BY <1>4
      <3>2. "succeeded" \in statuses <=> \E t \in own : task'[t] = "succeeded"
        BY <1>4
      <3>3. ~(statuses \subseteq {"succeeded"}) => \E t \in own : task'[t] # "succeeded"
        BY <1>4
      <3>4. QED BY <1>6, <2>3, <3>1, <3>2, <3>3 DEF FinalStatus
    <2>4. QED BY <2>2, <2>3
  <1>8. QED BY <1>3, <1>7

\* A cancel ends with the status cancelled: the job that it has read was not.
LEMMA CancelAgrees ==
  ASSUME IInv, FInv, NEW r \in Requests, CancelWrite(r)
  PROVE  RecordedSuccessIsReal' /\ StatusAgreesWithTasks'
  <1> DEFINE j == JobOf(r)
  <1>1. /\ TypeOK /\ Faithful(r) /\ j \in Jobs /\ UNCHANGED <<backup, applied, persisted>>
        /\ view[r].status # "cancelled" /\ seen[r] \subseteq TasksOf(j)
        /\ task' = [t \in Tasks |-> IF t \in seen[r] THEN "skipped" ELSE task[t]]
    BY DEF IInv, TypeOK, FInv, Faithful, CancelWrite, JobOf, devVars
  <1>2. job'[j].status = "cancelled" /\ \A i \in Jobs \ {j} : job'[i] = job[i]
    BY <1>1 DEF CancelWrite, Assigned, TypeOK, JobRow
  <1>3. RecordedSuccessIsReal'
    BY <1>1 DEF FInv, RecordedSuccessIsReal
  <1>4. \A i \in Jobs \ {j} : \A t \in TasksOf(i) : task'[t] = task[t]
    BY <1>1 DEF TasksOf
  <1>5. StatusAgreesWithTasks'
    <2>1. SUFFICES ASSUME NEW i \in Jobs \ {j}
                   PROVE  LET done == {t \in TasksOf(i) : task'[t] = "succeeded"} IN
                          /\ job'[i].status = "succeeded" => done = TasksOf(i)
                          /\ job'[i].status = "partially_failed" => done # {} /\ done # TasksOf(i)
                          /\ job'[i].status = "failed" => done = {}
      BY <1>2 DEF StatusAgreesWithTasks, TasksOf
    <2>2. {t \in TasksOf(i) : task'[t] = "succeeded"} = {t \in TasksOf(i) : task[t] = "succeeded"}
      BY <1>4, <2>1
    <2>3. QED BY <1>2, <2>2 DEF FInv, StatusAgreesWithTasks
  <1>6. QED BY <1>3, <1>5

LEMMA StepFaithful ==
  ASSUME IInv, FInv, NEW r \in Requests, Step(r)
  PROVE  FInv'
  <1>1. \A t \in Tasks : /\ applied[t] > 0 => applied'[t] > 0
                         /\ persisted[t] > 0 => persisted'[t] > 0
    <2>1. CASE RunStep(r)
      BY <2>1, CountsOfRun
    <2>2. CASE ~RunStep(r)
      BY <2>2 DEF Step, Arrive, CreateJob, ApproveLoad, CancelLoad, RunLoad, OtherStep,
                  ApproveWrite, CancelReadTasks, CancelWrite, Abort, DeadlockVictim, Rollback, devVars
    <2>3. QED BY <2>1, <2>2
  <1>2. Faithful(r)'
    BY ArriveFaithful, OtherStepFaithful, RunStepFaithful, ClosedIsFaithful
       DEF FInv, IInv, Step, Abort, DeadlockVictim, Rollback
  <1>3. \A s \in Requests : Faithful(s)'
    BY <1>2, OthersFaithful DEF FInv
  <1>4. RecordedSuccessIsReal' /\ StatusAgreesWithTasks'
    <2>1. CASE Commit(r)
      BY <2>1, CommitAgrees
    <2>2. CASE CancelWrite(r)
      BY <2>2, CancelAgrees
    <2>3. CASE CreateJob(r)
      BY <1>1, <2>3, RecordsStay DEF CreateJob, IInv, TypeOK, JobRow
    <2>4. CASE ApproveWrite(r)
      BY <1>1, <2>4, RecordsStay DEF ApproveWrite, Assigned, IInv, TypeOK, JobRow
    <2>5. CASE UNCHANGED <<job, task, backup>>
      BY <1>1, <2>5, RecordsStay
    <2>6. QED
      BY <2>1, <2>2, <2>3, <2>4, <2>5
         DEF Step, Arrive, ApproveLoad, CancelLoad, RunLoad, OtherStep, CancelReadTasks, Abort,
             DeadlockVictim, Rollback, RunStep, RunUpdate, StartTask, Acquire, Backup, Apply,
             Verify, Save, dbVars
  <1>5. QED BY <1>3, <1>4 DEF FInv

LEMMA InitFaithful == Init => FInv
  <1> SUFFICES ASSUME Init PROVE FInv  OBVIOUS
  <1>1. RecordedSuccessIsReal /\ StatusAgreesWithTasks
    BY DEF Init, RecordedSuccessIsReal, StatusAgreesWithTasks
  <1>2. \A r \in Requests : Faithful(r)
    BY DEF Init, Faithful, Executing, InSession, Unset
  <1>3. QED BY <1>1, <1>2 DEF FInv

LEMMA StutterFaithful == ASSUME FInv, UNCHANGED vars PROVE FInv'
  BY DEF FInv, RecordedSuccessIsReal, StatusAgreesWithTasks, Faithful, Executing, InSession,
         JobOf, TasksOf, vars, dbVars, txVars, reqVars, devVars

LEMMA InductiveFaithful == Spec => []FInv
  <1>1. IInv /\ FInv /\ [Next]_vars => FInv'
    BY StepFaithful, StutterFaithful DEF Next, Step
  <1>2. QED BY <1>1, InitFaithful, Inductive, PTL DEF Spec

\* What a job says agrees with what its tasks say, whatever approvals, cancels and
\* runs were interleaved (JobExecutionService.execute_job, JobService).
THEOREM StatusAgrees == Spec => []StatusAgreesWithTasks
  <1>1. FInv => StatusAgreesWithTasks
    BY DEF FInv
  <1>2. QED BY <1>1, InductiveFaithful, PTL

\* A task recorded as succeeded has its backup, and was sent and saved.
THEOREM RecordedIsReal == Spec => []RecordedSuccessIsReal
  <1>1. FInv => RecordedSuccessIsReal
    BY DEF FInv
  <1>2. QED BY <1>1, InductiveFaithful, PTL

\* Commands reach a device only under the key of its lock, after a backup, for a
\* job that was read as approved (execute_job_task).
THEOREM GuardedChange == Spec => ChangeIsGuarded
  <1>1. IInv /\ FInv /\ [Next]_vars =>
          [\A t \in Tasks : applied'[t] # applied[t] =>
             \E r \in Requests :
               /\ cur[r] = t /\ t \in saved[r]
               /\ lockTxn[DeviceOf(t)] = r
               /\ view[r].approval = "approved"]_vars
    <2> SUFFICES ASSUME IInv, FInv, Next, NEW t \in Tasks, applied'[t] # applied[t]
                 PROVE  \E r \in Requests : /\ cur[r] = t /\ t \in saved[r]
                                            /\ lockTxn[DeviceOf(t)] = r
                                            /\ view[r].approval = "approved"
      OBVIOUS
    <2>1. PICK r \in Requests : Apply(r)
      BY DEF Next, Arrive, CreateJob, ApproveLoad, CancelLoad, RunLoad, OtherStep, ApproveWrite,
             CancelReadTasks, CancelWrite, Abort, DeadlockVictim, Rollback, RunStep, RunUpdate,
             StartTask, Acquire, Backup, Verify, Save, Commit, devVars
    <2>2. pc[r] = "applying" /\ InSession(r) /\ Executing(r) /\ cur[r] = t
      BY <2>1 DEF Apply, InSession, Executing, IInv, TypeOK
    <2>3. t \in saved[r] /\ view[r].approval = "approved"
      BY <2>2 DEF FInv, Faithful
    <2>4. QED BY <2>2, <2>3 DEF IInv, Ownership
  <1>2. QED BY <1>1, Inductive, InductiveFaithful, PTL DEF Spec, ChangeIsGuarded
=============================================================================
