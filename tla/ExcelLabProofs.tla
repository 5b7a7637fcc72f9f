--------------------------- MODULE ExcelLabProofs ---------------------------
(***************************************************************************)
(* Theorems about ExcelLab for every set of processes, devices, eligible   *)
(* devices and plans.                                                      *)
(***************************************************************************)
EXTENDS ExcelLab, TLAPS

Locked    == {"active", "readLocks", "writeLocks", "session", "release",
              "writeReleased", "unlink"}
Certified == {"guard"} \cup Locked
BackedUp  == {"recheckValidation"} \cup Certified
Planned   == {"recheckBackup"} \cup BackedUp
Allowed   == {"recheckPlan"} \cup Planned

SafetyGates == {"backupGate", "validationGate", "planGate", "lockGate"}

\* Dry-runs or evaluations of which every plan is in evidence.
PlansIn(records, evidence) ==
    /\ records \in [Devices -> Plans \cup {None}]
    /\ \A d \in Devices : records[d] # None => <<d, records[d]>> \in evidence

\* What the files say has been stored at some time.
FilesAreEvidenced ==
    /\ PlansIn(disk.dryRuns, ever.planned)
    /\ PlansIn(disk.evaluations, ever.planned \cap ever.evaluated)
    /\ disk.validations \subseteq ever.certified
    /\ disk.backups \subseteq ever.backedUp

\* So does the content that process p is going to write back.
CopyIsEvidenced(p) ==
    /\ op[p] = "backup" => copy[p] \subseteq ever.backedUp
    /\ op[p] = "dryRun" => PlansIn(copy[p], ever.planned)
    /\ op[p] = "evaluate" => PlansIn(copy[p], ever.planned \cap ever.evaluated)
    /\ op[p] = "certify" => copy[p] \subseteq ever.certified

\* What process p has established when it is at a place.
Entitled(p, place) ==
    /\ place # "idle" => dev[p] \in Devices /\ op[p] \in Ops /\ plan[p] \in Plans
    /\ found[p] # None => place # "idle" /\ <<dev[p], found[p]>> \in ever.planned
    /\ place = "certifyEvaluation" => found[p] # None
    /\ place \in SafetyGates => op[p] \in {"evaluate", "execute", "rehearse"}
    /\ place = "recordedPlan" => op[p] = "evaluate"
    /\ place \in Allowed => op[p] \in {"execute", "rehearse"}
    /\ place \in Planned => <<dev[p], plan[p]>> \in ever.planned
    /\ place \in BackedUp => dev[p] \in ever.backedUp
    /\ place \in Certified => dev[p] \in ever.certified
    /\ place \in {"read", "write"} /\ op[p] = "certify" =>
         \E q \in Plans : <<dev[p], q>> \in ever.planned \cap ever.evaluated
    /\ place = "write" => CopyIsEvidenced(p)
    /\ place \in {"writeLocks", "writeReleased"} => copy[p] \subseteq Devices

ProcessesAreEntitled == \A p \in Procs : Entitled(p, pc[p])

CopyTotal == copy = [p \in Procs |-> copy[p]]

IInv ==
    /\ TypeOK
    /\ CopyTotal
    /\ FilesAreEvidenced
    /\ ProcessesAreEntitled
    /\ ChangeIsEvidenced
    /\ OneExecutionPerDevice

-----------------------------------------------------------------------------
\* Evidence is never withdrawn.
Grows ==
    /\ ever.planned \subseteq ever'.planned
    /\ ever.evaluated \subseteq ever'.evaluated
    /\ ever.certified \subseteq ever'.certified
    /\ ever.backedUp \subseteq ever'.backedUp

\* Process p moves to a place, and the variables of the others do not change.
Moves(p, place) ==
    /\ pc' = [pc EXCEPT ![p] = place]
    /\ copy'  = [copy EXCEPT ![p] = copy'[p]]
    /\ dev'   = [dev EXCEPT ![p] = dev'[p]]
    /\ op'    = [op EXCEPT ![p] = op'[p]]
    /\ plan'  = [plan EXCEPT ![p] = plan'[p]]
    /\ found' = [found EXCEPT ![p] = found'[p]]

\* More evidence serves as well.
LEMMA PlansInGrow ==
  ASSUME NEW records, NEW more, NEW evidence, evidence \subseteq more,
         PlansIn(records, evidence)
  PROVE  PlansIn(records, more)
  BY DEF PlansIn

\* What the other processes have established stays established.
LEMMA OthersStay ==
  ASSUME IInv, NEW p \in Procs, NEW place, Moves(p, place), Grows,
         NEW r \in Procs \ {p}
  PROVE  Entitled(r, pc[r])'
  <1>1. /\ pc'[r] = pc[r] /\ copy'[r] = copy[r] /\ dev'[r] = dev[r] /\ op'[r] = op[r]
        /\ plan'[r] = plan[r] /\ found'[r] = found[r]
    BY DEF IInv, TypeOK, CopyTotal, Moves
  <1>2. Entitled(r, pc[r])
    BY DEF IInv, ProcessesAreEntitled
  <1>3. CopyIsEvidenced(r) => CopyIsEvidenced(r)'
    BY <1>1, PlansInGrow DEF CopyIsEvidenced, Grows
  <1>4. QED BY <1>1, <1>2, <1>3 DEF Entitled, Grows

\* A step of p keeps all processes entitled if p is where it goes.
LEMMA AllStay ==
  ASSUME IInv, NEW p \in Procs, NEW place, Moves(p, place), Grows, Entitled(p, place)'
  PROVE  ProcessesAreEntitled'
  <1>1. pc'[p] = place
    BY DEF IInv, TypeOK, Moves
  <1>2. Entitled(p, pc[p])'
    BY <1>1 DEF Entitled
  <1>3. QED BY <1>2, OthersStay DEF ProcessesAreEntitled

\* A step that keeps the guards and neither takes nor leaves a lock keeps the
\* exclusion.
LEMMA ExclusionStays ==
  ASSUME IInv, NEW p \in Procs, NEW place, Moves(p, place), guards' = guards,
         Holding(p) => place \in Locked /\ dev'[p] = dev[p],
         place \in Locked => Holding(p)
  PROVE  OneExecutionPerDevice'
  <1>1. \A r \in Procs : Holding(r)' => Holding(r) /\ dev'[r] = dev[r]
    BY DEF IInv, TypeOK, Moves, Holding, Locked
  <1>2. QED BY <1>1 DEF IInv, OneExecutionPerDevice

\* The types of what a move changes.
LEMMA MoveTypes ==
  ASSUME IInv, NEW p \in Procs, NEW place \in Labels, Moves(p, place),
         dev'[p] \in Devices \cup {None}, op'[p] \in Ops \cup {None},
         plan'[p] \in Plans \cup {None}, found'[p] \in Plans \cup {None}
  PROVE  /\ pc' \in [Procs -> Labels]
         /\ dev' \in [Procs -> Devices \cup {None}]
         /\ op' \in [Procs -> Ops \cup {None}]
         /\ plan' \in [Procs -> Plans \cup {None}]
         /\ found' \in [Procs -> Plans \cup {None}]
         /\ CopyTotal'
  BY DEF IInv, TypeOK, CopyTotal, Moves

-----------------------------------------------------------------------------
\* A step that changes neither files nor lock files nor history, nor the command.
Quiet(p, place) ==
    /\ pc' = [pc EXCEPT ![p] = place]
    /\ found' = [found EXCEPT ![p] = found'[p]]
    /\ copy' = [copy EXCEPT ![p] = copy'[p]]
    /\ UNCHANGED <<disk, guards, dev, op, plan, ever, sent>>

LEMMA QuietMoves ==
  ASSUME IInv, NEW p \in Procs, NEW place, Quiet(p, place)
  PROVE  /\ Moves(p, place) /\ Grows
         /\ dev'[p] = dev[p] /\ op'[p] = op[p] /\ plan'[p] = plan[p]
  BY DEF IInv, TypeOK, CopyTotal, Quiet, Moves, Grows

\* Such a step keeps the invariant if its process may be where it goes.
LEMMA QuietInv ==
  ASSUME IInv, NEW p \in Procs, NEW place \in Labels, Quiet(p, place),
         Holding(p) <=> place \in Locked,
         found'[p] \in Plans \cup {None},
         Entitled(p, place)'
  PROVE  IInv'
  <1>1. Moves(p, place) /\ Grows /\ dev'[p] = dev[p] /\ op'[p] = op[p] /\ plan'[p] = plan[p]
    BY QuietMoves
  <1>2. ProcessesAreEntitled'
    BY <1>1, AllStay
  <1>3. OneExecutionPerDevice'
    BY <1>1, ExclusionStays DEF Quiet
  <1>4. /\ dev[p] \in Devices \cup {None} /\ op[p] \in Ops \cup {None}
        /\ plan[p] \in Plans \cup {None}
    BY DEF IInv, TypeOK
  <1>5. TypeOK' /\ CopyTotal'
    BY <1>1, <1>4, MoveTypes DEF IInv, TypeOK, Quiet
  <1>6. FilesAreEvidenced' /\ ChangeIsEvidenced'
    BY DEF IInv, FilesAreEvidenced, PlansIn, ChangeIsEvidenced, Quiet
  <1>7. QED BY <1>2, <1>3, <1>5, <1>6 DEF IInv

-----------------------------------------------------------------------------
(* The gates                                                               *)

LEMMA GateInv ==
  ASSUME IInv, NEW p \in Procs, NEW label \in Labels \ ({"idle"} \cup Locked), NEW open,
         NEW next \in Labels \ Locked, Gate(p, label, open, next),
         open => Entitled(p, next)
  PROVE  IInv'
  <1>1. PICK place \in Labels \ Locked :
           place = IF open THEN next ELSE IF op[p] = "evaluate" THEN "read" ELSE "done"
    BY DEF Labels, Locked
  <1>2. Quiet(p, place)
    BY <1>1 DEF Gate, Goto, Quiet, labVars, IInv, TypeOK, CopyTotal
  <1>3. Entitled(p, pc[p]) /\ pc[p] = label
    BY DEF IInv, ProcessesAreEntitled, Gate
  <1>4. Entitled(p, place)
    BY <1>1, <1>3 DEF Entitled, SafetyGates, Allowed, Planned, BackedUp, Certified, Locked
  <1>5. Entitled(p, place)'
    BY <1>4 DEF Gate, labVars, Entitled, CopyIsEvidenced, PlansIn
  <1>6. ~Holding(p) /\ found'[p] \in Plans \cup {None}
    BY <1>3 DEF Holding, Locked, IInv, TypeOK, Gate, labVars
  <1>7. QED BY <1>2, <1>5, <1>6, QuietInv

LEMMA PrepareGates ==
  ASSUME IInv, NEW p \in Procs,
         \/ BackupGate(p) \/ ValidationGate(p) \/ PlanGate(p) \/ PlanNotChosen(p) \/ LockGate(p)
         \/ RecheckPlan(p) \/ RecheckBackup(p) \/ RecheckValidation(p)
         \/ CertifyBackup(p) \/ CertifyEvaluation(p)
  PROVE  IInv'
  <1> USE DEF Labels, Locked, SafetyGates
  <1>1. Entitled(p, pc[p])
    BY DEF IInv, ProcessesAreEntitled
  <1>2. FilesAreEvidenced /\ None \notin Plans
    BY FileLabStateAssumption DEF IInv
  <1>3. CASE BackupGate(p)
    <2>1. PICK fresh \in BOOLEAN :
             Gate(p, "backupGate", HasFreshBackup(p, fresh), "validationGate")
      BY <1>3 DEF BackupGate
    <2>2. Entitled(p, "validationGate")
      BY <1>1, <2>1 DEF Gate, Entitled, Allowed, Planned, BackedUp, Certified
    <2>3. QED BY <2>1, <2>2, GateInv
  <1>4. CASE ValidationGate(p)
    <2>1. Entitled(p, "planGate")
      BY <1>1, <1>4 DEF ValidationGate, Gate, Entitled, Allowed, Planned, BackedUp, Certified
    <2>2. QED BY <1>4, <2>1, GateInv DEF ValidationGate
  <1>5. CASE PlanGate(p)
    <2>1. Entitled(p, "lockGate")
      BY <1>1, <1>5 DEF PlanGate, Gate, Entitled, Allowed, Planned, BackedUp, Certified
    <2>2. QED BY <1>5, <2>1, GateInv DEF PlanGate
  <1>6. CASE PlanNotChosen(p)
    BY <1>6, GateInv DEF PlanNotChosen
  <1>7. CASE LockGate(p)
    <2> DEFINE next == IF op[p] = "evaluate" THEN "recordedPlan" ELSE "recheckPlan"
    <2>1. Gate(p, "lockGate", dev[p] \notin disk.locks, next)
      BY <1>7 DEF LockGate
    <2>2. op[p] \in {"evaluate", "execute", "rehearse"}
      BY <1>1, <2>1 DEF Gate, Entitled
    <2>3. Entitled(p, next)
      BY <1>1, <2>1, <2>2 DEF Gate, Entitled, Allowed, Planned, BackedUp, Certified
    <2>4. QED BY <2>1, <2>3, GateInv
  <1>8. CASE RecheckPlan(p)
    <2>1. DryRunMatches(p) => Entitled(p, "recheckBackup")
      BY <1>1, <1>2, <1>8
      DEF RecheckPlan, Gate, Entitled, DryRunMatches, FilesAreEvidenced, PlansIn,
          Allowed, Planned, BackedUp, Certified
    <2>2. QED BY <1>8, <2>1, GateInv DEF RecheckPlan
  <1>9. CASE RecheckBackup(p)
    <2>1. PICK fresh \in BOOLEAN :
             Gate(p, "recheckBackup", HasFreshBackup(p, fresh), "recheckValidation")
      BY <1>9 DEF RecheckBackup
    <2>2. HasFreshBackup(p, fresh) => Entitled(p, "recheckValidation")
      BY <1>1, <1>2, <2>1
      DEF Gate, Entitled, HasFreshBackup, FilesAreEvidenced,
          Allowed, Planned, BackedUp, Certified
    <2>3. QED BY <2>1, <2>2, GateInv
  <1>10. CASE RecheckValidation(p)
    <2>1. IsCertified(p) => Entitled(p, "guard")
      BY <1>1, <1>2, <1>10
      DEF RecheckValidation, Gate, Entitled, IsCertified, FilesAreEvidenced,
          Allowed, Planned, BackedUp, Certified
    <2>2. QED BY <1>10, <2>1, GateInv DEF RecheckValidation
  <1>11. CASE CertifyBackup(p)
    <2>1. PICK fresh \in BOOLEAN :
             Gate(p, "certifyBackup", HasFreshBackup(p, fresh), "certifyPlan")
      BY <1>11 DEF CertifyBackup
    <2>2. Entitled(p, "certifyPlan")
      BY <1>1, <2>1 DEF Gate, Entitled, Allowed, Planned, BackedUp, Certified
    <2>3. QED BY <2>1, <2>2, GateInv
  <1>12. CASE CertifyEvaluation(p)
    <2>1. HasPreCertificationEvaluation(p) => Entitled(p, "read")
      BY <1>1, <1>2, <1>12
      DEF CertifyEvaluation, Gate, Entitled, HasPreCertificationEvaluation,
          FilesAreEvidenced, PlansIn, Allowed, Planned, BackedUp, Certified
    <2>2. QED BY <1>12, <2>1, GateInv DEF CertifyEvaluation
  <1>13. QED BY <1>3, <1>4, <1>5, <1>6, <1>7, <1>8, <1>9, <1>10, <1>11, <1>12

-----------------------------------------------------------------------------
(* Starting a command, keeping a plan, reading and storing records         *)

LEMMA StartInv ==
  ASSUME IInv, NEW p \in Procs, NEW o \in Ops, NEW d \in Devices, NEW q \in Plans,
         Start(p, o, d, q)
  PROVE  IInv'
  <1>1. PICK place \in Labels \ Locked :
           place = IF d \notin Eligible THEN "read" ELSE FirstStep(o)
    BY DEF Labels, Locked, FirstStep
  <1>2. /\ Moves(p, place) /\ Grows /\ ~Holding(p)
        /\ dev'[p] = d /\ op'[p] = o /\ plan'[p] = q /\ found'[p] = found[p]
    BY <1>1 DEF Start, Goto, Moves, Grows, Holding, IInv, TypeOK, CopyTotal
  <1>3. Entitled(p, "idle")
    BY DEF IInv, ProcessesAreEntitled, Start
  <1>4. place \in {"read", "certifyBackup", "backupGate"} /\ (place = "read" => o # "certify")
    BY <1>1 DEF FirstStep, Start, Ops
  <1>5. place = "backupGate" => o \in {"evaluate", "execute", "rehearse"}
    BY <1>1 DEF FirstStep, Ops
  <1>6. Entitled(p, place)'
    BY <1>2, <1>3, <1>4, <1>5
    DEF Entitled, SafetyGates, Allowed, Planned, BackedUp, Certified, Locked
  <1>7. ProcessesAreEntitled'
    BY <1>2, <1>6, AllStay
  <1>8. OneExecutionPerDevice'
    BY <1>2, ExclusionStays DEF Start
  <1>9. found[p] \in Plans \cup {None}
    BY DEF IInv, TypeOK
  <1>10. TypeOK' /\ CopyTotal'
    BY <1>2, <1>9, MoveTypes DEF IInv, TypeOK, Start
  <1>11. FilesAreEvidenced' /\ ChangeIsEvidenced'
    BY DEF IInv, FilesAreEvidenced, PlansIn, ChangeIsEvidenced, Start
  <1>12. QED BY <1>7, <1>8, <1>10, <1>11 DEF IInv

LEMMA KeepPlanInv ==
  ASSUME IInv, NEW p \in Procs, RecordedPlan(p) \/ CertifyPlan(p)
  PROVE  IInv'
  <1>1. Entitled(p, pc[p]) /\ FilesAreEvidenced
    BY DEF IInv, ProcessesAreEntitled
  <1>2. PICK place \in {"read", "done", "certifyEvaluation"} :
          /\ KeepPlan(p, place)
          /\ place = "certifyEvaluation" => disk.dryRuns[dev[p]] # None
          /\ place = "read" => pc[p] = "recordedPlan"
          /\ pc[p] \in {"recordedPlan", "certifyPlan"}
    BY DEF RecordedPlan, CertifyPlan
  <1>3. Quiet(p, place) /\ found'[p] = disk.dryRuns[dev[p]]
    BY <1>2 DEF KeepPlan, Goto, Quiet, IInv, TypeOK, CopyTotal
  <1>4. /\ dev[p] \in Devices /\ found'[p] \in Plans \cup {None}
        /\ found'[p] # None => <<dev[p], found'[p]>> \in ever.planned
    BY <1>1, <1>2, <1>3 DEF Entitled, FilesAreEvidenced, PlansIn
  <1>5. Entitled(p, place)'
    BY <1>1, <1>2, <1>3, <1>4
    DEF Quiet, Entitled, SafetyGates, Allowed, Planned, BackedUp, Certified, Locked
  <1>6. Holding(p) <=> place \in Locked
    BY <1>2 DEF Holding, Locked
  <1>7. QED BY <1>2, <1>3, <1>4, <1>5, <1>6, QuietInv DEF Labels

LEMMA ReadRecordsInv ==
  ASSUME IInv, NEW p \in Procs, ReadRecords(p)
  PROVE  IInv'
  <1>1. Entitled(p, "read") /\ FilesAreEvidenced
    BY DEF IInv, ProcessesAreEntitled, ReadRecords
  <1>2. Quiet(p, "write") /\ copy'[p] = disk[FileOf(p)] /\ found' = found
    BY DEF ReadRecords, ReadFile, labVars, Goto, Quiet, IInv, TypeOK, CopyTotal
  <1>3. CopyIsEvidenced(p)'
    BY <1>1, <1>2 DEF CopyIsEvidenced, FilesAreEvidenced, PlansIn, FileOf, Quiet
  <1>4. Entitled(p, "write")'
    BY <1>1, <1>2, <1>3
    DEF Quiet, Entitled, SafetyGates, Allowed, Planned, BackedUp, Certified, Locked
  <1>5. ~Holding(p) /\ found'[p] \in Plans \cup {None}
    BY <1>2 DEF ReadRecords, Holding, IInv, TypeOK
  <1>6. QED BY <1>2, <1>4, <1>5, QuietInv DEF Labels, Locked

\* The effect of storing a record, and what its process relies on.
LEMMA StoreEffect ==
  ASSUME IInv, NEW p \in Procs, NEW command, NEW content, NEW evidence, NEW item,
         Store(p, command, content, evidence, item)
  PROVE  /\ pc[p] = "write" /\ op[p] = command
         /\ Entitled(p, "write") /\ CopyIsEvidenced(p)
         /\ disk \in Disk /\ disk' = [disk EXCEPT ![FileOf(p)] = content]
         /\ ever \in Evidence
         /\ ever' = [ever EXCEPT ![evidence] = ever[evidence] \cup {item}]
         /\ dev[p] \in Devices /\ plan[p] \in Plans /\ found[p] \in Plans \cup {None}
  <1>1. pc[p] = "write" /\ Entitled(p, "write")
    BY DEF Store, IInv, ProcessesAreEntitled
  <1>2. CopyIsEvidenced(p) /\ dev[p] \in Devices /\ plan[p] \in Plans
    BY <1>1 DEF Entitled
  <1>3. disk \in Disk /\ ever \in Evidence /\ found[p] \in Plans \cup {None}
    BY DEF IInv, TypeOK
  <1>4. /\ op[p] = command /\ disk' = [disk EXCEPT ![FileOf(p)] = content]
        /\ ever' = [ever EXCEPT ![evidence] = ever[evidence] \cup {item}]
    BY DEF Store, WriteFile
  <1>5. QED BY <1>1, <1>2, <1>3, <1>4

\* Such a step keeps the invariant if files and evidence still agree.
LEMMA StoreInv ==
  ASSUME IInv, NEW p \in Procs, NEW command, NEW content, NEW evidence, NEW item,
         Store(p, command, content, evidence, item),
         disk' \in Disk, ever' \in Evidence, Grows, FilesAreEvidenced', ChangeIsEvidenced'
  PROVE  IInv'
  <1>1. pc[p] = "write" /\ Entitled(p, "write")
    BY StoreEffect
  <1>2. /\ Moves(p, "done") /\ ~Holding(p)
        /\ dev' = dev /\ op' = op /\ plan' = plan /\ found' = found /\ guards' = guards
    BY <1>1 DEF Store, WriteFile, Goto, Moves, Holding, IInv, TypeOK, CopyTotal
  <1>3. Entitled(p, "done")'
    BY <1>1, <1>2
    DEF Entitled, Grows, SafetyGates, Allowed, Planned, BackedUp, Certified, Locked
  <1>4. ProcessesAreEntitled'
    BY <1>2, <1>3, AllStay
  <1>5. OneExecutionPerDevice'
    BY <1>2, ExclusionStays DEF Locked
  <1>6. /\ dev'[p] \in Devices \cup {None} /\ op'[p] \in Ops \cup {None}
        /\ plan'[p] \in Plans \cup {None} /\ found'[p] \in Plans \cup {None}
        /\ "done" \in Labels
    BY <1>2 DEF IInv, TypeOK, Labels
  <1>7. TypeOK' /\ CopyTotal'
    BY <1>2, <1>6, MoveTypes DEF IInv, TypeOK, Store
  <1>8. QED BY <1>4, <1>5, <1>7 DEF IInv

LEMMA StoreBackupInv ==
  ASSUME IInv, NEW p \in Procs, StoreBackup(p)
  PROVE  IInv'
  <1>1. PICK content, item :
          /\ content = copy[p] \cup {dev[p]}
          /\ item = dev[p]
          /\ Store(p, "backup", content, "backedUp", item)
    BY DEF StoreBackup
  <1>2. /\ op[p] = "backup" /\ Entitled(p, "write") /\ CopyIsEvidenced(p)
        /\ disk \in Disk /\ ever \in Evidence
        /\ dev[p] \in Devices /\ plan[p] \in Plans /\ found[p] \in Plans \cup {None}
        /\ disk' = [disk EXCEPT ![FileOf(p)] = content]
        /\ ever' = [ever EXCEPT !.backedUp = ever.backedUp \cup {item}]
    BY <1>1, StoreEffect
  <1>3. disk' = [disk EXCEPT !.backups = content]
    BY <1>2 DEF FileOf
  <1>4. /\ disk'.dryRuns = disk.dryRuns /\ disk'.evaluations = disk.evaluations
        /\ disk'.validations = disk.validations /\ disk'.backups = content
        /\ ever'.planned = ever.planned /\ ever'.evaluated = ever.evaluated
        /\ ever'.certified = ever.certified /\ ever'.backedUp = ever.backedUp \cup {item}
    BY <1>2, <1>3 DEF Disk, Evidence
  <1>5. content \subseteq ever.backedUp \cup {item} /\ item \in Devices /\ content \subseteq Devices
    BY <1>1, <1>2 DEF CopyIsEvidenced, Evidence
  <1>6. disk' \in Disk /\ ever' \in Evidence
    <2>1. disk' \in Disk
      BY <1>1, <1>2, <1>3, <1>5 DEF Disk
    <2>2. ever' \in Evidence
      BY <1>1, <1>2, <1>3, <1>5 DEF Evidence
    <2>3. QED BY <2>1, <2>2
  <1>7. FilesAreEvidenced /\ ChangeIsEvidenced /\ sent' = sent
    BY <1>1 DEF IInv, Store
  <1>8. Grows /\ FilesAreEvidenced' /\ ChangeIsEvidenced'
    BY <1>4, <1>5, <1>7 DEF Grows, FilesAreEvidenced, PlansIn, ChangeIsEvidenced
  <1>9. QED BY <1>1, <1>6, <1>8, StoreInv

LEMMA StoreDryRunInv ==
  ASSUME IInv, NEW p \in Procs, StoreDryRun(p)
  PROVE  IInv'
  <1>1. PICK content, item :
          /\ content = [copy[p] EXCEPT ![dev[p]] = plan[p]]
          /\ item = <<dev[p], plan[p]>>
          /\ Store(p, "dryRun", content, "planned", item)
    BY DEF StoreDryRun
  <1>2. /\ op[p] = "dryRun" /\ Entitled(p, "write") /\ CopyIsEvidenced(p)
        /\ disk \in Disk /\ ever \in Evidence
        /\ dev[p] \in Devices /\ plan[p] \in Plans /\ found[p] \in Plans \cup {None}
        /\ disk' = [disk EXCEPT ![FileOf(p)] = content]
        /\ ever' = [ever EXCEPT !.planned = ever.planned \cup {item}]
    BY <1>1, StoreEffect
  <1>3. disk' = [disk EXCEPT !.dryRuns = content]
    BY <1>2 DEF FileOf
  <1>4. /\ disk'.dryRuns = content /\ disk'.evaluations = disk.evaluations
        /\ disk'.validations = disk.validations /\ disk'.backups = disk.backups
        /\ ever'.planned = ever.planned \cup {item} /\ ever'.evaluated = ever.evaluated
        /\ ever'.certified = ever.certified /\ ever'.backedUp = ever.backedUp
    BY <1>2, <1>3 DEF Disk, Evidence
  <1>5. PlansIn(content, ever.planned \cup {item}) /\ item \in Devices \X Plans
    BY <1>1, <1>2 DEF CopyIsEvidenced, PlansIn
  <1>6. disk' \in Disk /\ ever' \in Evidence
    BY <1>1, <1>2, <1>3, <1>5 DEF Disk, Evidence, PlansIn
  <1>7. FilesAreEvidenced /\ ChangeIsEvidenced /\ sent' = sent
    BY <1>1 DEF IInv, Store
  <1>8. Grows /\ FilesAreEvidenced' /\ ChangeIsEvidenced'
    BY <1>4, <1>5, <1>7 DEF Grows, FilesAreEvidenced, PlansIn, ChangeIsEvidenced
  <1>9. QED BY <1>1, <1>6, <1>8, StoreInv

LEMMA StoreEvaluationInv ==
  ASSUME IInv, NEW p \in Procs, StoreEvaluation(p)
  PROVE  IInv'
  <1>1. PICK content, item :
          /\ content = [copy[p] EXCEPT ![dev[p]] = found[p]]
          /\ item = <<dev[p], found[p]>>
          /\ Store(p, "evaluate", content, "evaluated", item)
    BY DEF StoreEvaluation
  <1>2. /\ op[p] = "evaluate" /\ Entitled(p, "write") /\ CopyIsEvidenced(p)
        /\ disk \in Disk /\ ever \in Evidence
        /\ dev[p] \in Devices /\ plan[p] \in Plans /\ found[p] \in Plans \cup {None}
        /\ disk' = [disk EXCEPT ![FileOf(p)] = content]
        /\ ever' = [ever EXCEPT !.evaluated = ever.evaluated \cup {item}]
    BY <1>1, StoreEffect
  <1>3. disk' = [disk EXCEPT !.evaluations = content]
    BY <1>2 DEF FileOf
  <1>4. /\ disk'.dryRuns = disk.dryRuns /\ disk'.evaluations = content
        /\ disk'.validations = disk.validations /\ disk'.backups = disk.backups
        /\ ever'.planned = ever.planned /\ ever'.evaluated = ever.evaluated \cup {item}
        /\ ever'.certified = ever.certified /\ ever'.backedUp = ever.backedUp
    BY <1>2, <1>3 DEF Disk, Evidence
  <1>5. /\ PlansIn(content, ever.planned \cap (ever.evaluated \cup {item}))
        /\ item \in Devices \X (Plans \cup {None})
    BY <1>1, <1>2 DEF CopyIsEvidenced, Entitled, PlansIn
  <1>6. disk' \in Disk /\ ever' \in Evidence
    BY <1>1, <1>2, <1>3, <1>5 DEF Disk, Evidence, PlansIn
  <1>7. FilesAreEvidenced /\ ChangeIsEvidenced /\ sent' = sent
    BY <1>1 DEF IInv, Store
  <1>8. Grows /\ FilesAreEvidenced' /\ ChangeIsEvidenced'
    BY <1>4, <1>5, <1>7 DEF Grows, FilesAreEvidenced, PlansIn, ChangeIsEvidenced
  <1>9. QED BY <1>1, <1>6, <1>8, StoreInv

LEMMA StoreValidationInv ==
  ASSUME IInv, NEW p \in Procs, StoreValidation(p)
  PROVE  IInv'
  <1>1. PICK content, item :
          /\ content = copy[p] \cup {dev[p]}
          /\ item = dev[p]
          /\ Store(p, "certify", content, "certified", item)
    BY DEF StoreValidation
  <1>2. /\ op[p] = "certify" /\ Entitled(p, "write") /\ CopyIsEvidenced(p)
        /\ disk \in Disk /\ ever \in Evidence
        /\ dev[p] \in Devices /\ plan[p] \in Plans /\ found[p] \in Plans \cup {None}
        /\ disk' = [disk EXCEPT ![FileOf(p)] = content]
        /\ ever' = [ever EXCEPT !.certified = ever.certified \cup {item}]
    BY <1>1, StoreEffect
  <1>3. disk' = [disk EXCEPT !.validations = content]
    BY <1>2 DEF FileOf
  <1>4. /\ disk'.dryRuns = disk.dryRuns /\ disk'.evaluations = disk.evaluations
        /\ disk'.validations = content /\ disk'.backups = disk.backups
        /\ ever'.planned = ever.planned /\ ever'.evaluated = ever.evaluated
        /\ ever'.certified = ever.certified \cup {item} /\ ever'.backedUp = ever.backedUp
    BY <1>2, <1>3 DEF Disk, Evidence
  <1>5. /\ content \subseteq ever.certified \cup {item} /\ content \subseteq Devices
        /\ item \in Devices
        /\ \E q \in Plans : <<item, q>> \in ever.planned \cap ever.evaluated
    BY <1>1, <1>2 DEF CopyIsEvidenced, Entitled, Evidence
  <1>6. disk' \in Disk /\ ever' \in Evidence
    <2>1. disk' \in Disk
      BY <1>1, <1>2, <1>3, <1>5 DEF Disk
    <2>2. ever' \in Evidence
      BY <1>1, <1>2, <1>3, <1>5 DEF Evidence
    <2>3. QED BY <2>1, <2>2
  <1>7. FilesAreEvidenced /\ ChangeIsEvidenced /\ sent' = sent
    BY <1>1 DEF IInv, Store
  <1>8. Grows /\ FilesAreEvidenced' /\ ChangeIsEvidenced'
    BY <1>4, <1>5, <1>7 DEF Grows, FilesAreEvidenced, PlansIn, ChangeIsEvidenced
  <1>9. QED BY <1>1, <1>6, <1>8, StoreInv

-----------------------------------------------------------------------------
(* The lock of a device and the session under it                           *)

\* What the steps of a lock and the session have in common: p goes to a place,
\* keeps its command, and of the files only locks.json may change.
UnderLock(p, place) ==
    /\ pc' = [pc EXCEPT ![p] = place]
    /\ copy' = [copy EXCEPT ![p] = copy'[p]]
    /\ disk' = [disk EXCEPT !.locks = disk'.locks]
    /\ disk'.locks \subseteq Devices
    /\ UNCHANGED <<dev, op, plan, found, ever>>

LEMMA UnderLockInv ==
  ASSUME IInv, NEW p \in Procs, NEW place \in Labels, UnderLock(p, place),
         guards' \subseteq Devices, sent' \subseteq Devices \X Plans,
         ChangeIsEvidenced', OneExecutionPerDevice', Entitled(p, place)'
  PROVE  IInv'
  <1>1. Moves(p, place) /\ Grows
    BY DEF UnderLock, Moves, Grows, IInv, TypeOK
  <1>2. ProcessesAreEntitled'
    BY <1>1, AllStay
  <1>3. /\ dev'[p] \in Devices \cup {None} /\ op'[p] \in Ops \cup {None}
        /\ plan'[p] \in Plans \cup {None} /\ found'[p] \in Plans \cup {None}
    BY DEF IInv, TypeOK, UnderLock
  <1>4. disk \in Disk
    BY DEF IInv, TypeOK
  <1>5. disk' \in Disk
    BY <1>4 DEF UnderLock, Disk
  <1>6. TypeOK' /\ CopyTotal'
    BY <1>1, <1>3, <1>5, MoveTypes DEF IInv, TypeOK, UnderLock
  <1>7. /\ disk'.dryRuns = disk.dryRuns /\ disk'.evaluations = disk.evaluations
        /\ disk'.validations = disk.validations /\ disk'.backups = disk.backups
    BY <1>4 DEF UnderLock, Disk
  <1>8. FilesAreEvidenced'
    BY <1>7 DEF IInv, FilesAreEvidenced, PlansIn, UnderLock
  <1>9. QED BY <1>2, <1>6, <1>8 DEF IInv

\* What a process is entitled to at one place under the lock it keeps at the next,
\* and when it is done.
LEMMA EntitledUnderLock ==
  ASSUME IInv, NEW p \in Procs, pc[p] \in Certified,
         NEW place \in Locked \cup {"done"}, UnderLock(p, place),
         place \in {"writeLocks", "writeReleased"} => copy'[p] \subseteq Devices
  PROVE  Entitled(p, place)'
  <1>1. Entitled(p, pc[p])
    BY DEF IInv, ProcessesAreEntitled
  <1>2. QED
    BY <1>1 DEF UnderLock, Entitled, SafetyGates, Allowed, Planned, BackedUp, Certified, Locked

\* The lock file is created only where there is none, so no process has the lock.
LEMMA CreateGuardInv ==
  ASSUME IInv, NEW p \in Procs, CreateGuard(p), UNCHANGED <<dev, labVars>>
  PROVE  IInv'
  <1>1. PICK place \in {"active", "done"} :
          /\ pc' = [pc EXCEPT ![p] = place]
          /\ \/ /\ place = "active"
                /\ dev[p] \notin guards
                /\ guards' = guards \cup {dev[p]}
             \/ /\ place = "done"
                /\ guards' = guards
    BY DEF CreateGuard, Goto
  <1>2. pc[p] = "guard" /\ dev[p] \in Devices /\ disk.locks \subseteq Devices
    BY DEF CreateGuard, IInv, ProcessesAreEntitled, Entitled, TypeOK, Disk
  <1>3. UnderLock(p, place)
    <2>1. disk \in Disk
      BY DEF IInv, TypeOK
    <2>2. disk' = [disk EXCEPT !.locks = disk'.locks]
      BY <2>1 DEF CreateGuard, Disk
    <2>3. QED BY <1>1, <1>2, <2>2 DEF CreateGuard, UnderLock, labVars, IInv, CopyTotal
  <1>4. Entitled(p, place)'
    BY <1>1, <1>2, <1>3, EntitledUnderLock DEF Certified, Locked
  <1>5. \A r \in Procs : Holding(r)' <=> Holding(r) \/ (r = p /\ place = "active")
    BY <1>1, <1>2 DEF Holding, IInv, TypeOK
  <1>6. OneExecutionPerDevice'
    BY <1>1, <1>5 DEF IInv, OneExecutionPerDevice, labVars
  <1>7. guards' \subseteq Devices /\ sent' \subseteq Devices \X Plans /\ ChangeIsEvidenced'
    BY <1>1, <1>2 DEF IInv, TypeOK, ChangeIsEvidenced, labVars
  <1>8. QED BY <1>1, <1>3, <1>4, <1>6, <1>7, UnderLockInv DEF Labels

\* The own lock file is removed together with the lock; those of the others stay.
LEMMA GiveUpInv ==
  ASSUME IInv, NEW p \in Procs, GiveUpGuard(p) \/ Unlink(p), Holding(p),
         UNCHANGED <<dev, labVars>>
  PROVE  IInv'
  <1>1. pc' = [pc EXCEPT ![p] = "done"] /\ guards' = guards \ {dev[p]} /\ disk' = disk
    BY DEF GiveUpGuard, Unlink, Goto
  <1>2. UnderLock(p, "done")
    <2>1. disk \in Disk
      BY DEF IInv, TypeOK
    <2>2. disk' = [disk EXCEPT !.locks = disk'.locks] /\ disk'.locks \subseteq Devices
      BY <1>1, <2>1 DEF Disk
    <2>3. copy' = [copy EXCEPT ![p] = copy'[p]]
      BY DEF GiveUpGuard, Unlink, IInv, CopyTotal
    <2>4. QED BY <1>1, <2>2, <2>3 DEF UnderLock, labVars
  <1>3. Entitled(p, "done")'
    BY <1>2, EntitledUnderLock DEF Holding, Certified, Locked
  <1>4. \A r \in Procs : Holding(r)' => Holding(r) /\ r # p
    BY <1>1 DEF Holding, IInv, TypeOK
  <1>5. OneExecutionPerDevice'
    BY <1>1, <1>4 DEF IInv, OneExecutionPerDevice, labVars
  <1>6. guards' \subseteq Devices /\ sent' \subseteq Devices \X Plans /\ ChangeIsEvidenced'
    BY <1>1 DEF IInv, TypeOK, ChangeIsEvidenced, labVars
  <1>7. QED BY <1>2, <1>3, <1>5, <1>6, UnderLockInv DEF Labels

\* A step between two places under the lock leaves the lock files alone.
LEMMA WithinLockInv ==
  ASSUME IInv, NEW p \in Procs, Holding(p), NEW place \in Locked, UnderLock(p, place),
         guards' = guards, sent' \subseteq Devices \X Plans, ChangeIsEvidenced',
         place \in {"writeLocks", "writeReleased"} => copy'[p] \subseteq Devices
  PROVE  IInv'
  <1>1. Entitled(p, place)'
    BY EntitledUnderLock DEF Holding, Certified, Locked
  <1>2. Moves(p, place) /\ dev' = dev
    BY DEF UnderLock, Moves, IInv, TypeOK
  <1>3. OneExecutionPerDevice'
    BY <1>2, ExclusionStays
  <1>4. guards' \subseteq Devices
    BY DEF IInv, TypeOK
  <1>5. QED BY <1>1, <1>3, <1>4, UnderLockInv DEF Labels, Locked

LEMMA LockStepsInv ==
  ASSUME IInv, NEW p \in Procs, LockSteps(p)
  PROVE  IInv'
  <1>1. UNCHANGED <<dev, labVars>>
    BY DEF LockSteps
  <1>2. /\ disk \in Disk /\ disk.locks \subseteq Devices /\ copy = [r \in Procs |-> copy[r]]
        /\ sent' \subseteq Devices \X Plans /\ ChangeIsEvidenced' /\ Entitled(p, pc[p])
    BY <1>1 DEF IInv, TypeOK, Disk, CopyTotal, ChangeIsEvidenced, labVars, ProcessesAreEntitled
  <1>3. CASE CreateGuard(p)
    BY <1>1, <1>3, CreateGuardInv
  <1>4. CASE CheckActiveLock(p) /\ ~GiveUpGuard(p)
    <2>1. UnderLock(p, "readLocks") /\ guards' = guards
      BY <1>1, <1>2, <1>4 DEF CheckActiveLock, Goto, UnderLock, labVars, Disk
    <2>2. QED BY <1>2, <1>4, <2>1, WithinLockInv DEF CheckActiveLock, Holding, Locked
  <1>5. CASE (CheckActiveLock(p) \/ ReserveFails(p)) /\ GiveUpGuard(p)
    BY <1>1, <1>5, GiveUpInv DEF CheckActiveLock, ReserveFails, Holding
  <1>6. CASE ReserveRead(p)
    <2>1. UnderLock(p, "writeLocks") /\ guards' = guards /\ copy'[p] \subseteq Devices
      BY <1>1, <1>2, <1>6 DEF ReserveRead, ReadFile, Goto, UnderLock, labVars, Disk
    <2>2. QED BY <1>2, <1>6, <2>1, WithinLockInv DEF ReserveRead, Holding, Locked
  <1>7. CASE ReserveWrite(p)
    <2>1. copy[p] \subseteq Devices /\ dev[p] \in Devices
      BY <1>2, <1>7 DEF ReserveWrite, Entitled
    <2>2. UnderLock(p, "session") /\ guards' = guards
      BY <1>1, <1>2, <1>7, <2>1 DEF ReserveWrite, WriteFile, Goto, UnderLock, labVars, Disk
    <2>3. QED BY <1>2, <1>7, <2>2, WithinLockInv DEF ReserveWrite, Holding, Locked
  <1>8. CASE ReleaseRead(p)
    <2>1. UnderLock(p, "writeReleased") /\ guards' = guards /\ copy'[p] \subseteq Devices
      BY <1>1, <1>2, <1>8 DEF ReleaseRead, ReadFile, Goto, UnderLock, labVars, Disk
    <2>2. QED BY <1>2, <1>8, <2>1, WithinLockInv DEF ReleaseRead, Holding, Locked
  <1>9. CASE ReleaseWrite(p)
    <2>1. copy[p] \subseteq Devices
      BY <1>2, <1>9 DEF ReleaseWrite, Entitled
    <2>2. UnderLock(p, "unlink") /\ guards' = guards
      BY <1>1, <1>2, <1>9, <2>1 DEF ReleaseWrite, WriteFile, Goto, UnderLock, labVars, Disk
    <2>3. QED BY <1>2, <1>9, <2>2, WithinLockInv DEF ReleaseWrite, Holding, Locked
  <1>10. CASE Unlink(p)
    BY <1>1, <1>10, GiveUpInv DEF Unlink, Holding
  <1>11. QED
    BY <1>3, <1>4, <1>5, <1>6, <1>7, <1>8, <1>9, <1>10
    DEF LockSteps, CheckActiveLock, ReserveFails

\* The session sends a plan for which its process has all the evidence.
LEMMA RunSessionInv ==
  ASSUME IInv, NEW p \in Procs, RunSession(p)
  PROVE  IInv'
  <1>1. pc[p] = "session" /\ Entitled(p, "session") /\ disk \in Disk /\ ChangeIsEvidenced
    BY DEF RunSession, IInv, ProcessesAreEntitled, TypeOK
  <1>2. /\ dev[p] \in Devices /\ plan[p] \in Plans
        /\ <<dev[p], plan[p]>> \in ever.planned
        /\ dev[p] \in ever.backedUp /\ dev[p] \in ever.certified
    BY <1>1 DEF Entitled, Planned, BackedUp, Certified, Locked
  <1>3. sent' \subseteq sent \cup {<<dev[p], plan[p]>>} /\ ever' = ever
    BY DEF RunSession
  <1>4. ChangeIsEvidenced'
    BY <1>1, <1>2, <1>3 DEF ChangeIsEvidenced
  <1>5. sent' \subseteq Devices \X Plans
    BY <1>2, <1>3 DEF IInv, TypeOK
  <1>6. UnderLock(p, "release") /\ guards' = guards
    BY <1>1 DEF RunSession, Goto, UnderLock, Disk, IInv, CopyTotal
  <1>7. QED BY <1>1, <1>4, <1>5, <1>6, WithinLockInv DEF Holding, Locked

-----------------------------------------------------------------------------
(* The theorems                                                            *)

\* In a state directory where commands ran one after another, a later stage comes
\* with the earlier ones.
LEMMA InitInv == Init => IInv
  <1> SUFFICES ASSUME Init PROVE IInv  OBVIOUS
  <1>1. PICK n \in 0 .. Len(Stages), q \in Plans : StateAfter(n, q)
    BY DEF Init
  <1> DEFINE Has(stage) == \E i \in 1 .. n : Stages[i] = stage
  <1>2. /\ Has("evaluate") => Has("dryRun")
        /\ Has("certify") => Has("evaluate")
    BY <1>1 DEF Stages
  <1> HIDE DEF Has
  <1>3. /\ disk = [locks       |-> {},
                   dryRuns     |-> [d \in Devices |->
                                      IF Has("dryRun") /\ d \in Eligible THEN q ELSE None],
                   evaluations |-> [d \in Devices |->
                                      IF Has("evaluate") /\ d \in Eligible THEN q ELSE None],
                   validations |-> IF Has("certify") THEN Eligible ELSE {},
                   backups     |-> IF Has("backup") THEN Eligible ELSE {}]
        /\ ever = [planned   |-> (IF Has("dryRun") THEN Eligible ELSE {}) \X {q},
                   evaluated |-> (IF Has("evaluate") THEN Eligible ELSE {}) \X {q},
                   certified |-> IF Has("certify") THEN Eligible ELSE {},
                   backedUp  |-> IF Has("backup") THEN Eligible ELSE {}]
    BY <1>1 DEF StateAfter, Has
  <1>4. Eligible \subseteq Devices
    BY ExcelLabAssumption
  <1>5. disk \in Disk /\ ever \in Evidence
    BY <1>3, <1>4 DEF Disk, Evidence
  <1>6. TypeOK /\ CopyTotal
    BY <1>5 DEF Init, TypeOK, CopyTotal, Labels
  <1>7. FilesAreEvidenced
    BY <1>2, <1>3 DEF FilesAreEvidenced, PlansIn
  <1>8. ChangeIsEvidenced
    BY <1>2, <1>3 DEF Init, ChangeIsEvidenced
  <1>9. ProcessesAreEntitled
    BY DEF Init, ProcessesAreEntitled, Entitled, SafetyGates, Allowed, Planned, BackedUp,
           Certified, Locked
  <1>10. OneExecutionPerDevice
    BY DEF Init, OneExecutionPerDevice, Holding
  <1>11. QED BY <1>6, <1>7, <1>8, <1>9, <1>10 DEF IInv

LEMMA StepInv == IInv /\ [Next]_vars => IInv'
  <1> SUFFICES ASSUME IInv, [Next]_vars PROVE IInv'  OBVIOUS
  <1>1. CASE UNCHANGED vars
    <2>1. IInv /\ UNCHANGED <<vars, labVars>>
      BY <1>1 DEF vars
    <2>2. TypeOK' /\ CopyTotal'
      BY <2>1 DEF vars, labVars, IInv, TypeOK, CopyTotal
    <2>3. FilesAreEvidenced' /\ ChangeIsEvidenced'
      BY <2>1 DEF vars, labVars, IInv, FilesAreEvidenced, PlansIn, ChangeIsEvidenced
    <2>4. ProcessesAreEntitled'
      BY <2>1 DEF vars, labVars, IInv, ProcessesAreEntitled, Entitled, CopyIsEvidenced, PlansIn
    <2>5. OneExecutionPerDevice'
      BY <2>1 DEF vars, labVars, IInv, OneExecutionPerDevice, Holding
    <2>6. QED BY <2>2, <2>3, <2>4, <2>5 DEF IInv
  <1>2. ASSUME NEW p \in Procs, Prepare(p) PROVE IInv'
    BY <1>2, StartInv, PrepareGates, KeepPlanInv DEF Prepare
  <1>3. ASSUME NEW p \in Procs, Record(p) PROVE IInv'
    BY <1>3, ReadRecordsInv, StoreBackupInv, StoreDryRunInv, StoreEvaluationInv,
       StoreValidationInv DEF Record
  <1>4. ASSUME NEW p \in Procs, LockSteps(p) \/ RunSession(p) PROVE IInv'
    BY <1>4, LockStepsInv, RunSessionInv
  <1>5. QED BY <1>1, <1>2, <1>3, <1>4 DEF Next

\* IInv is inductive: lost updates of the files never make up evidence.
THEOREM Inductive == Spec => []IInv
  BY InitInv, StepInv, PTL DEF Spec

\* Every variable of the Excel lab stays in its type.
THEOREM TypeCorrect == Spec => []TypeOK
  <1>1. IInv => TypeOK
    BY DEF IInv
  <1>2. QED BY <1>1, Inductive, PTL

\* An existing guard fails closed: one execution per device.
THEOREM Exclusion == Spec => []OneExecutionPerDevice
  <1>1. IInv => OneExecutionPerDevice
    BY DEF IInv
  <1>2. QED BY <1>1, Inductive, PTL

\* Nothing is sent without a backup, the recorded plan and a certification.
THEOREM Evidenced == Spec => []ChangeIsEvidenced
  <1>1. IInv => ChangeIsEvidenced
    BY DEF IInv
  <1>2. QED BY <1>1, Inductive, PTL

-----------------------------------------------------------------------------
(* The lock files implement DeviceMutex                                    *)

HolderOf(d) == {p \in Procs : Holding(p) /\ dev[p] = d}

\* A step in which no process takes or leaves a lock is a stutter.
LEMMA HoldersStay ==
  ASSUME \A p \in Procs : /\ Holding(p)' <=> Holding(p)
                          /\ Holding(p) => dev'[p] = dev[p]
  PROVE  [d \in Devices |-> HolderOf(d)]' = [d \in Devices |-> HolderOf(d)]
  BY DEF HolderOf

\* A process that creates a lock file enters.
LEMMA EnterMapped ==
  ASSUME IInv, NEW p \in Procs, CreateGuard(p), dev' = dev, pc'[p] = "active"
  PROVE  Mutex!Next
  <1>1. /\ pc[p] = "guard" /\ dev[p] \notin guards /\ pc' = [pc EXCEPT ![p] = "active"]
        /\ dev[p] \in Devices
    BY DEF CreateGuard, Goto, IInv, TypeOK, ProcessesAreEntitled, Entitled
  <1>2. PICK d \in Devices : d = dev[p]
    BY <1>1
  <1>3. ~Holding(p) /\ \A r \in Procs : Holding(r)' <=> Holding(r) \/ r = p
    BY <1>1 DEF Holding, IInv, TypeOK
  <1>4. HolderOf(d) = {} /\ \A e \in Devices : p \notin HolderOf(e)
    BY <1>1, <1>2, <1>3 DEF HolderOf, IInv, OneExecutionPerDevice
  <1>5. \A e \in Devices : HolderOf(e)' = IF e = d THEN {p} ELSE HolderOf(e)
    BY <1>2, <1>3, <1>4 DEF HolderOf
  <1>6. Mutex!Enter(p, d)
    BY <1>4, <1>5 DEF Mutex!Enter, HolderOf
  <1>7. QED BY <1>6 DEF Mutex!Next

LEMMA LeaveIs ==
  ASSUME NEW p, NEW d, NEW h, h = [e \in Devices |-> HolderOf(e)], p \in h[d],
         [e \in Devices |-> HolderOf(e)]' = [h EXCEPT ![d] = @ \ {p}]
  PROVE  Mutex!Leave(p, d)
  BY DEF Mutex!Leave, HolderOf

\* A process that removes its lock file leaves.
LEMMA LeaveMapped ==
  ASSUME IInv, NEW p \in Procs, Holding(p), dev' = dev, pc' = [pc EXCEPT ![p] = "done"]
  PROVE  Mutex!Next
  <1>1. PICK d \in Devices : d = dev[p]
    BY DEF Holding, IInv, ProcessesAreEntitled, Entitled
  <1>2. \A r \in Procs : Holding(r)' <=> Holding(r) /\ r # p
    BY DEF Holding, IInv, TypeOK
  <1>3. p \in HolderOf(d)
    BY <1>1 DEF HolderOf
  <1>4. \A e \in Devices : HolderOf(e)' = IF e = d THEN HolderOf(e) \ {p} ELSE HolderOf(e)
    BY <1>1, <1>2 DEF HolderOf
  <1>5. [e \in Devices |-> HolderOf(e)']
          = [e \in Devices |-> IF e = d THEN HolderOf(e) \ {p} ELSE HolderOf(e)]
    BY <1>4
  <1>6. Mutex!Leave(p, d)
    <2> PICK h : h = [e \in Devices |-> HolderOf(e)]
      OBVIOUS
    <2>1. /\ h[d] = HolderOf(d)
          /\ [h EXCEPT ![d] = @ \ {p}]
               = [e \in Devices |-> IF e = d THEN HolderOf(e) \ {p} ELSE HolderOf(e)]
      OBVIOUS
    <2>2. h[d] = HolderOf(d) /\ [e \in Devices |-> HolderOf(e)]' = [h EXCEPT ![d] = @ \ {p}]
      BY <1>5, <2>1
    <2>3. QED BY <1>3, <2>2, LeaveIs
  <1>7. QED BY <1>6 DEF Mutex!Next

LEMMA LockStepsMapped ==
  ASSUME IInv, NEW p \in Procs, LockSteps(p)
  PROVE  [Mutex!Next]_([d \in Devices |-> HolderOf(d)])
  <1>1. dev' = dev /\ pc \in [Procs -> Labels]
    BY DEF LockSteps, IInv, TypeOK
  <1>2. CASE CreateGuard(p) /\ pc'[p] = "active"
    BY <1>1, <1>2, EnterMapped
  <1>3. CASE ((CheckActiveLock(p) \/ ReserveFails(p)) /\ GiveUpGuard(p)) \/ Unlink(p)
    <2>1. Holding(p) /\ pc' = [pc EXCEPT ![p] = "done"]
      BY <1>3 DEF CheckActiveLock, ReserveFails, GiveUpGuard, Unlink, Goto, Holding
    <2>2. QED BY <1>1, <2>1, LeaveMapped
  <1>4. CASE CreateGuard(p) /\ pc'[p] # "active"
    <2>1. \A r \in Procs : Holding(r)' <=> Holding(r)
      BY <1>1, <1>4 DEF CreateGuard, Goto, Holding
    <2>2. QED BY <1>1, <2>1, HoldersStay
  <1>5. CASE \/ CheckActiveLock(p) /\ ~GiveUpGuard(p)
             \/ ReserveRead(p) \/ ReserveWrite(p) \/ ReleaseRead(p) \/ ReleaseWrite(p)
    <2>1. \A r \in Procs : Holding(r)' <=> Holding(r)
      BY <1>1, <1>5
      DEF CheckActiveLock, ReserveRead, ReserveWrite, ReleaseRead, ReleaseWrite,
          ReadFile, WriteFile, Goto, Holding
    <2>2. QED BY <1>1, <2>1, HoldersStay
  <1>6. QED BY <1>2, <1>3, <1>4, <1>5 DEF LockSteps, CheckActiveLock, ReserveFails

\* Every other step neither takes nor leaves a lock.
LEMMA OthersMapped ==
  ASSUME IInv, NEW p \in Procs, Prepare(p) \/ Record(p) \/ RunSession(p)
  PROVE  [d \in Devices |-> HolderOf(d)]' = [d \in Devices |-> HolderOf(d)]
  <1>1. PICK place \in Labels :
          /\ pc' = [pc EXCEPT ![p] = place]
          /\ \/ pc[p] \notin Locked /\ place \notin Locked
             \/ dev' = dev /\ pc[p] = "session" /\ place = "release"
          /\ dev' = [dev EXCEPT ![p] = dev'[p]]
    <2>1. CASE RunSession(p)
      BY <2>1 DEF RunSession, Goto, Labels, Locked, IInv, TypeOK
    <2>2. CASE Record(p)
      BY <2>2
      DEF Record, ReadRecords, StoreBackup, StoreDryRun, StoreEvaluation, StoreValidation,
          Store, ReadFile, WriteFile, Goto, Labels, Locked, IInv, TypeOK
    <2>3. CASE \E o \in Ops, d \in Devices, q \in Plans : Start(p, o, d, q)
      BY <2>3 DEF Start, FirstStep, Goto, Labels, Locked, IInv, TypeOK
    <2>4. CASE RecordedPlan(p) \/ CertifyPlan(p)
      BY <2>4 DEF RecordedPlan, CertifyPlan, KeepPlan, Goto, Labels, Locked, IInv, TypeOK
    <2>5. ASSUME NEW label \in Labels \ Locked, NEW open, NEW next \in Labels \ Locked,
                 Gate(p, label, open, next)
          PROVE  /\ dev' = dev /\ pc[p] \notin Locked
                 /\ \E l \in Labels \ Locked : pc' = [pc EXCEPT ![p] = l]
      BY <2>5 DEF Gate, Goto, Labels, Locked
    <2>6. CASE /\ dev' = dev /\ pc[p] \notin Locked
               /\ \E l \in Labels \ Locked : pc' = [pc EXCEPT ![p] = l]
      BY <2>6 DEF IInv, TypeOK
    <2>7. CASE BackupGate(p) \/ RecheckBackup(p) \/ CertifyBackup(p)
      BY <2>5, <2>6, <2>7 DEF BackupGate, RecheckBackup, CertifyBackup, Labels, Locked
    <2>8. CASE \/ ValidationGate(p) \/ PlanGate(p) \/ PlanNotChosen(p) \/ LockGate(p)
               \/ RecheckPlan(p) \/ RecheckValidation(p) \/ CertifyEvaluation(p)
      BY <2>5, <2>6, <2>8
      DEF ValidationGate, PlanGate, PlanNotChosen, LockGate, RecheckPlan, RecheckValidation,
          CertifyEvaluation, Labels, Locked
    <2>9. QED BY <2>1, <2>2, <2>3, <2>4, <2>7, <2>8 DEF Prepare
  <1>2. \A r \in Procs : /\ Holding(r)' <=> Holding(r)
                         /\ Holding(r) => dev'[r] = dev[r]
    BY <1>1 DEF Holding, Locked, IInv, TypeOK
  <1>3. QED BY <1>2, HoldersStay

\* The lock files implement the abstract exclusion.
THEOREM MutexImplemented == Spec => ImplementsMutex
  <1>1. Init => Mutex!Init
    BY DEF Init, Mutex!Init, Holding
  <1>2. IInv /\ [Next]_vars => [Mutex!Next]_([d \in Devices |-> HolderOf(d)])
    <2> SUFFICES ASSUME IInv, [Next]_vars
                 PROVE  [Mutex!Next]_([d \in Devices |-> HolderOf(d)])
      OBVIOUS
    <2>1. CASE UNCHANGED vars
      BY <2>1, HoldersStay DEF vars, Holding
    <2>2. CASE Next
      BY <2>2, LockStepsMapped, OthersMapped DEF Next
    <2>3. QED BY <2>1, <2>2
  <1>3. [d \in Devices |-> HolderOf(d)]
          = [d \in Devices |-> {p \in Procs : Holding(p) /\ dev[p] = d}]
    BY DEF HolderOf
  <1>4. QED BY <1>1, <1>2, Inductive, PTL DEF Spec, ImplementsMutex, Mutex!Spec, HolderOf
=============================================================================
