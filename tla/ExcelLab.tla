------------------------------ MODULE ExcelLab ------------------------------
(***************************************************************************)
(* The commands of the Excel lab that lead to a configuration change, as   *)
(* concurrent processes over the files of FileLabState: backup, dry-run,   *)
(* evaluate-apply, certify, and execute-apply with (execute) or without    *)
(* (rehearse) --real-lab.                                                  *)
(*                                                                         *)
(* What depends only on the inventory, the environment and the credential  *)
(* (allowlist, vendor contract, runtime decision, usable credential) is    *)
(* the constant Eligible.  Whether a backup is still fresh is a choice at  *)
(* each check.                                                             *)
(***************************************************************************)
EXTENDS FileLabState, Sequences, Naturals

CONSTANT Eligible  \* devices for which the checks outside the files succeed

ASSUME ExcelLabAssumption == Eligible \subseteq Devices

\* The plans that dry-runs have recorded and evaluations have been made of (None
\* in one that was denied), and the devices certified and backed up.
Evidence == [planned   : SUBSET (Devices \X Plans),
             evaluated : SUBSET (Devices \X (Plans \cup {None})),
             certified : SUBSET Devices,
             backedUp  : SUBSET Devices]

Ops == {"backup", "dryRun", "evaluate", "certify", "execute", "rehearse"}

VARIABLES
    op,    \* op[p]: the command of p
    plan,  \* plan[p]: the plan that the arguments of p render to
    found, \* found[p]: the plan of the dry-run record that p relies on
    ever,  \* which evidence has ever been stored
    sent   \* the plans that were sent to devices

labVars == <<op, plan, found, ever, sent>>
vars    == <<disk, guards, copy, dev, pc, labVars>>

\* A state directory in which the first n stages have been completed, for the
\* eligible devices and with plan q, by commands that ran one after another.
Stages == <<"backup", "dryRun", "evaluate", "certify">>
StateAfter(n, q) ==
    LET Has(stage) == \E i \in 1 .. n : Stages[i] = stage
        PlanIf(stage) == [d \in Devices |-> IF Has(stage) /\ d \in Eligible THEN q ELSE None]
        EligibleIf(stage) == IF Has(stage) THEN Eligible ELSE {}
    IN  /\ disk = [locks       |-> {},
                   dryRuns     |-> PlanIf("dryRun"),
                   evaluations |-> PlanIf("evaluate"),
                   validations |-> EligibleIf("certify"),
                   backups     |-> EligibleIf("backup")]
        /\ ever = [planned   |-> EligibleIf("dryRun") \X {q},
                   evaluated |-> EligibleIf("evaluate") \X {q},
                   certified |-> EligibleIf("certify"),
                   backedUp  |-> EligibleIf("backup")]

Init ==
    /\ \E n \in 0 .. Len(Stages), q \in Plans : StateAfter(n, q)
    /\ guards = {}
    /\ copy  = [p \in Procs |-> None]
    /\ pc    = [p \in Procs |-> "idle"]
    /\ dev   = [p \in Procs |-> None]
    /\ op    = [p \in Procs |-> None]
    /\ plan  = [p \in Procs |-> None]
    /\ found = [p \in Procs |-> None]
    /\ sent  = {}

-----------------------------------------------------------------------------
(* Starting a command                                                      *)

FirstStep(o) ==
    CASE o \in {"backup", "dryRun"} -> "read"
      [] o = "certify" -> "certifyBackup"
      [] OTHER -> "backupGate"

\* Outside of Eligible, a dry-run may still render a plan, an evaluation records
\* that it was denied, and every other command ends without a trace.
Start(p, o, d, q) ==
    /\ pc[p] = "idle"
    /\ d \in Eligible \/ o \in {"dryRun", "evaluate"}
    /\ dev'  = [dev EXCEPT ![p] = d]
    /\ op'   = [op EXCEPT ![p] = o]
    /\ plan' = [plan EXCEPT ![p] = q]
    /\ Goto(p, IF d \notin Eligible THEN "read" ELSE FirstStep(o))
    /\ UNCHANGED <<disk, guards, copy, found, ever, sent>>

-----------------------------------------------------------------------------
(* ExcelLabSafetyService.evaluate: each gate reads a file of its own.  A   *)
(* denied gate ends an execution without a trace; an evaluation goes on to *)
(* record that it was denied.                                              *)

Gate(p, label, open, next) ==
    /\ pc[p] = label
    /\ Goto(p, IF open THEN next
               ELSE IF op[p] = "evaluate" THEN "read" ELSE "done")
    /\ UNCHANGED <<disk, guards, copy, dev, labVars>>

HasFreshBackup(p, fresh) == fresh /\ dev[p] \in disk.backups

\* Mutant: any dry-run with the public command hash will do.
DryRunExists(p) == disk.dryRuns[dev[p]] # None

\* The stored private hash is the one of the plan.
DryRunMatches(p) == disk.dryRuns[dev[p]] = plan[p]

\* An evaluation that lacks nothing but the certification lets the device be
\* certified: the gate matters to an execution only.
IsCertified(p) == op[p] = "evaluate" \/ dev[p] \in disk.validations

BackupGate(p) ==
    \E fresh \in BOOLEAN : Gate(p, "backupGate", HasFreshBackup(p, fresh), "validationGate")
ValidationGate(p) == Gate(p, "validationGate", IsCertified(p), "planGate")
PlanGate(p)       == Gate(p, "planGate", DryRunMatches(p), "lockGate")
LockGate(p)       ==
    Gate(p, "lockGate", dev[p] \notin disk.locks,
         IF op[p] = "evaluate" THEN "recordedPlan" ELSE "recheckPlan")

\* The commands without --simulation-hash take the latest dry-run of the device;
\* the gate is closed if there was none, even when it has been stored since.
PlanNotChosen(p) ==
    /\ op[p] # "execute"
    /\ Gate(p, "planGate", FALSE, "done")

-----------------------------------------------------------------------------
(* ExcelLabApplyExecutor._current_state_gate_error: the files once more    *)

RecheckPlan(p)   == Gate(p, "recheckPlan", DryRunMatches(p), "recheckBackup")
RecheckBackup(p) ==
    \E fresh \in BOOLEAN : Gate(p, "recheckBackup", HasFreshBackup(p, fresh), "recheckValidation")
RecheckValidation(p) == Gate(p, "recheckValidation", IsCertified(p), "guard")

\* The transport runs the plan, up to the command that fails; a rehearsal runs
\* it on FakeLabTransport.  Success or not, the lock is released.
RunSession(p) ==
    /\ pc[p] = "session"
    /\ sent' = IF op[p] = "execute" THEN sent \cup {<<dev[p], plan[p]>>} ELSE sent
    /\ Goto(p, "release")
    /\ UNCHANGED <<disk, guards, copy, dev, op, plan, found, ever>>

-----------------------------------------------------------------------------
(* _assert_certification_allowed                                           *)

CertifyBackup(p) ==
    \E fresh \in BOOLEAN : Gate(p, "certifyBackup", HasFreshBackup(p, fresh), "certifyPlan")

\* Both the certification and the record of an evaluation keep the dry-run.
KeepPlan(p, next) ==
    /\ found' = [found EXCEPT ![p] = disk.dryRuns[dev[p]]]
    /\ Goto(p, next)
    /\ UNCHANGED <<disk, guards, copy, dev, op, plan, ever, sent>>

RecordedPlan(p) == pc[p] = "recordedPlan" /\ KeepPlan(p, "read")
CertifyPlan(p)  ==
    /\ pc[p] = "certifyPlan"
    /\ KeepPlan(p, IF disk.dryRuns[dev[p]] = None THEN "done" ELSE "certifyEvaluation")

\* The latest evaluation must be about the dry-run that was found.
HasPreCertificationEvaluation(p) == disk.evaluations[dev[p]] = found[p]

CertifyEvaluation(p) ==
    Gate(p, "certifyEvaluation", HasPreCertificationEvaluation(p), "read")

-----------------------------------------------------------------------------
(* Storing a record: the file is read, and written with the record added   *)

FileOf(p) ==
    CASE op[p] = "backup" -> "backups"
      [] op[p] = "dryRun" -> "dryRuns"
      [] op[p] = "evaluate" -> "evaluations"
      [] OTHER -> "validations"

ReadRecords(p) ==
    /\ pc[p] = "read"
    /\ ReadFile(p, disk[FileOf(p)], "write")
    /\ UNCHANGED <<dev, labVars>>

\* evidence: the field of ever that the record adds item to.
Store(p, command, content, evidence, item) ==
    /\ pc[p] = "write"
    /\ op[p] = command
    /\ WriteFile(p, FileOf(p), content, "done")
    /\ ever' = [ever EXCEPT ![evidence] = @ \cup {item}]
    /\ UNCHANGED <<guards, dev, op, plan, found, sent>>

\* save_backup, save_dry_run (which replaces the record of the same public
\* command hash), save_evaluation and save_lab_validation
StoreBackup(p)     == Store(p, "backup", copy[p] \cup {dev[p]}, "backedUp", dev[p])
StoreDryRun(p)     ==
    Store(p, "dryRun", [copy[p] EXCEPT ![dev[p]] = plan[p]], "planned", <<dev[p], plan[p]>>)
StoreEvaluation(p) ==
    Store(p, "evaluate", [copy[p] EXCEPT ![dev[p]] = found[p]], "evaluated",
          <<dev[p], found[p]>>)
StoreValidation(p) == Store(p, "certify", copy[p] \cup {dev[p]}, "certified", dev[p])

-----------------------------------------------------------------------------
Prepare(p) ==
    \/ \E o \in Ops, d \in Devices, q \in Plans : Start(p, o, d, q)
    \/ BackupGate(p) \/ ValidationGate(p) \/ PlanGate(p) \/ PlanNotChosen(p) \/ LockGate(p)
    \/ RecheckPlan(p) \/ RecheckBackup(p) \/ RecheckValidation(p)
    \/ CertifyBackup(p) \/ CertifyPlan(p) \/ CertifyEvaluation(p) \/ RecordedPlan(p)

Record(p) ==
    \/ ReadRecords(p)
    \/ StoreBackup(p) \/ StoreDryRun(p) \/ StoreEvaluation(p) \/ StoreValidation(p)

LockSteps(p) ==
    /\ \/ CreateGuard(p) \/ CheckActiveLock(p) \/ ReserveRead(p) \/ ReserveWrite(p)
       \/ ReserveFails(p)
       \/ ReleaseRead(p) \/ ReleaseWrite(p) \/ Unlink(p)
    /\ UNCHANGED <<dev, labVars>>

Next == \E p \in Procs : Prepare(p) \/ Record(p) \/ LockSteps(p) \/ RunSession(p)

Spec == Init /\ [][Next]_vars

-----------------------------------------------------------------------------
(* Properties                                                              *)

Labels == {"idle", "backupGate", "validationGate", "planGate", "lockGate", "recheckPlan",
           "recheckBackup", "recheckValidation", "certifyBackup", "certifyPlan",
           "certifyEvaluation", "recordedPlan", "read", "write", "guard", "active",
           "readLocks", "writeLocks", "session", "release", "writeReleased", "unlink",
           "done"}

\* Every variable stays in its type; in particular a process writes only content
\* of the kind that the file holds.
TypeOK ==
    /\ disk \in Disk
    /\ guards \subseteq Devices
    /\ pc \in [Procs -> Labels]
    /\ dev \in [Procs -> Devices \cup {None}]
    /\ op \in [Procs -> Ops \cup {None}]
    /\ plan \in [Procs -> Plans \cup {None}]
    /\ found \in [Procs -> Plans \cup {None}]
    /\ ever \in Evidence
    /\ sent \subseteq Devices \X Plans

\* An existing guard fails closed rather than allowing a concurrent apply for the
\* same device (FileLabState.reserve_lock): while a process works under the lock
\* of a device its guard exists and no other process has the lock, whatever
\* becomes of the rows of locks.json that processes overwrite.
OneExecutionPerDevice ==
    \A p \in Procs : Holding(p) =>
        /\ dev[p] \in guards
        /\ \A r \in Procs \ {p} : Holding(r) => dev[r] # dev[p]

\* A configuration is sent only to a device with a sanitized backup, with the very
\* plan, secrets included, that a dry-run has recorded for it, after a
\* certification, which itself came after an evaluation of a recorded plan
\* (ExcelLabSafetyService.evaluate, _assert_certification_allowed): lost updates
\* of the files lose evidence but never make it up.
ChangeIsEvidenced ==
    /\ sent \subseteq ever.planned
    /\ \A change \in sent :
        /\ change[1] \in ever.certified
        /\ change[1] \in ever.backedUp
    /\ \A d \in ever.certified : \E q \in Plans : <<d, q>> \in ever.planned \cap ever.evaluated

\* The lock files implement the exclusion of the processes per device.
Mutex == INSTANCE DeviceMutex WITH
    Clients <- Procs,
    holders <- [d \in Devices |-> {p \in Procs : Holding(p) /\ dev[p] = d}]
ImplementsMutex == Mutex!Spec

=============================================================================
