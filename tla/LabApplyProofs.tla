--------------------------- MODULE LabApplyProofs ---------------------------
(***************************************************************************)
(* Lab apply sends nothing to a device, for any executions, prototypes,    *)
(* targets and sessions, overlapping or not: the gates ask for a step that *)
(* is bound to a hash, and no service writes one.  And an execution takes  *)
(* its locks only while no other holds one of its targets, for sessions    *)
(* that do not overlap, unless the command line is given --lock alone.     *)
(***************************************************************************)
EXTENDS LabApply, ChangeExecutionProofs

\* Only a VLAN execution has dictionaries that count as bindings, and none of
\* its dictionaries has a hash.
LEMMA NoHash ==
  ASSUME NEW e, NEW m \in BindingSources(e), NEW key \in HashKeys
  PROVE  key \notin DOMAIN m
  <1>1. CASE source[e] = "vlan_workflow"
    <2>1. /\ DOMAIN PlannedAction(e) = {"operation", "planned_commands", "rollback_commands"}
          /\ DOMAIN DryRunOutput(e) = {"operation", "planned_commands", "rollback_commands"}
      BY <1>1 DEF PlannedAction, DryRunOutput
    <2>2. QED BY <2>1 DEF BindingSources, HashKeys
  <1>2. CASE source[e] # "vlan_workflow"
    <2>1. /\ DOMAIN PlannedAction(e) \subseteq {"job_id", "commands", "collection"}
          /\ DOMAIN DryRunOutput(e) = {"job_id", "change_type"}
      BY <1>2 DEF PlannedAction, DryRunOutput
    <2>2. QED BY <2>1 DEF BindingSources, HashKeys
  <1>3. QED BY <1>1, <1>2

LEMMA NeverAllowed ==
  ASSUME NEW e, NEW approval, NEW op
  PROVE  ~Allowed(e, approval, op)
  <1>1. ~HasBoundStep(e, op, FALSE)
    BY NoHash DEF HasBoundStep, AllBind, Matches
  <1>2. QED BY <1>1 DEF Allowed, ApprovalBound

LEMMA StepAppliesNothing == [LabNext]_<<vars, labVars>> => applied' = applied
  <1> SUFFICES ASSUME [LabNext]_<<vars, labVars>> PROVE applied' = applied
    OBVIOUS
  <1>1. ASSUME NEW e, NEW approval, NEW op, Sends(e, approval, op) PROVE applied' = applied
    BY <1>1, NeverAllowed DEF Sends
  <1>2. QED BY <1>1 DEF LabNext, Orchestrate, Prototype, Execute, Surround, DecideValidation,
               Vault, TakeBackup, TimePasses, labVars

\* No apply passes the gates of the kernel (ApplySafetyKernel.evaluate), so that
\* execute never reaches the runner.
THEOREM NothingApplied == LabSpec => []NothingIsApplied
  <1>1. LabInit => NothingIsApplied
    BY DEF LabInit, NothingIsApplied
  <1>2. NothingIsApplied /\ [LabNext]_<<vars, labVars>> => NothingIsApplied'
    BY StepAppliesNothing DEF NothingIsApplied
  <1>3. QED BY <1>1, <1>2, PTL DEF LabSpec

-----------------------------------------------------------------------------
(* Locks beside the command line                                           *)

\* Around an execution the lab only adds executions of the prototype command;
\* everything else is a step of ChangeExecution.
LEMMA StepIsNext ==
  ASSUME [LabNext]_<<vars, labVars>>
  PROVE  \/ [Next]_vars
         \/ \E w \in Workers, p \in Prototypes, op \in Operations, auto \in BOOLEAN :
              Prototype(w, p, op, auto)
  BY DEF LabNext, Orchestrate, Execute, Surround, DecideValidation, Vault, TakeBackup,
         TimePasses, Next

\* What the prototype command writes: a draft that holds the lock of the device.
LEMMA PrototypeRows ==
  ASSUME IInv, NEW w \in Workers, NEW p \in Prototypes, NEW op,
         NEW auto \in BOOLEAN, Prototype(w, p, op, auto)
  PROVE  /\ p \in Executions /\ Targets[p] = {Device} /\ status[p] = "absent"
         /\ session[w] = None
         /\ status' = [status EXCEPT ![p] = "draft"]
         /\ lockRows' \in [Executions -> LockRows]
         /\ Reserved(p)' # {}
         /\ \A e \in Executions \ {p} : Reserved(e)' = Reserved(e)
         /\ p \notin unchecked' => \A e \in Executions : Device \in Targets[e] => Reserved(e) = {}
         /\ UNCHANGED <<steps, approved, completed, evidence, session>>
  <1>1. p \in Executions /\ Targets[p] = {Device}
    BY LabApplyAssumption
  <1>2. lockRows' = [lockRows EXCEPT ![p][w] = "reserved"] /\ lockRows \in [Executions -> LockRows]
    BY DEF Prototype, IInv, TypeOK
  <1>3. lockRows' \in [Executions -> LockRows]
    BY <1>1, <1>2 DEF LockRows
  <1>4. Reserved(p)' # {}
    BY <1>1, <1>2 DEF LockRows, Reserved
  <1>5. \A e \in Executions \ {p} : Reserved(e)' = Reserved(e)
    BY <1>2 DEF Reserved
  <1>6. p \notin unchecked' => \A e \in Executions : Device \in Targets[e] => Reserved(e) = {}
    BY DEF Prototype, AutoGates, LockBound
  <1>7. QED BY <1>1, <1>3, <1>4, <1>5, <1>6 DEF Prototype

LEMMA PrototypeInv ==
  ASSUME IInv, NEW w \in Workers, NEW p \in Prototypes, NEW op,
         NEW auto \in BOOLEAN, Prototype(w, p, op, auto)
  PROVE  IInv'
  <1>1. TypeOK'
    BY PrototypeRows DEF IInv, TypeOK, Status
  <1>2. RowsAreBacked'
    BY PrototypeRows DEF IInv, TypeOK, RowsAreBacked
  <1>3. SessionsAreBacked'
    BY PrototypeRows DEF IInv, SessionsAreBacked
  <1>4. QED BY <1>1, <1>2, <1>3 DEF IInv

LEMMA PrototypeSerial ==
  ASSUME OneSession, IInv, SerialInv, NEW w \in Workers, NEW p \in Prototypes, NEW op,
         NEW auto \in BOOLEAN, Prototype(w, p, op, auto)
  PROVE  SerialInv'
  <1>1. SessionIsCurrent'
    BY PrototypeRows DEF OneSession, SessionIsCurrent
  <1>2. ReadyIsBacked' /\ CancelledHoldsNoLocks'
    BY PrototypeRows DEF SerialInv, ReadyIsBacked, CancelledHoldsNoLocks, IInv, TypeOK
  <1>3. QED BY <1>1, <1>2 DEF SerialInv

\* The gates of the executions keep their invariant in the lab, for any sessions.
THEOREM LabInductive == LabSpec => []IInv
  <1>1. LabInit => IInv
    BY InitInv DEF LabInit
  <1>2. IInv /\ [LabNext]_<<vars, labVars>> => IInv'
    BY StepIsNext, StepInv, PrototypeInv
  <1>3. QED BY <1>1, <1>2, PTL DEF LabSpec

\* Requests and commands that do not overlap never take a device that is held, but
\* for --lock alone, though validate_locks and _assert_prototype_auto_gates_allowed
\* look for locks in different ways.
THEOREM TakenIfFree ==
  ASSUME OneSession
  PROVE  LabSpec => TakenOnlyIfFree
  <1>1. LabInit => SerialInv
    BY SerialInit DEF LabInit
  <1>2. IInv /\ SerialInv /\ [LabNext]_<<vars, labVars>> => SerialInv'
    BY StepIsNext, SerialStep, PrototypeSerial
  <1>3. IInv /\ SerialInv /\ [LabNext]_<<vars, labVars>> =>
          [\A e \in Executions : Reserved(e) = {} /\ Reserved(e)' # {} /\ e \notin unchecked' =>
             \A f \in Executions \ {e} :
                Reserved(f) # {} => Targets[e] \cap Targets[f] = {}]_lockRows
    <2> SUFFICES ASSUME IInv, SerialInv, [LabNext]_<<vars, labVars>>, NEW e \in Executions,
                        Reserved(e) = {}, Reserved(e)' # {}, e \notin unchecked',
                        NEW f \in Executions \ {e}, Reserved(f) # {}
                 PROVE  Targets[e] \cap Targets[f] = {}
      OBVIOUS
    <2>1. CASE [Next]_vars
      BY <2>1, LocksTaken DEF Conflict
    <2>2. CASE \E w \in Workers, p \in Prototypes, op \in Operations, auto \in BOOLEAN :
                 Prototype(w, p, op, auto)
      <3>1. PICK w \in Workers, p \in Prototypes, op \in Operations, auto \in BOOLEAN :
               Prototype(w, p, op, auto)
        BY <2>2
      <3>2. e = p /\ Targets[p] = {Device}
        BY <3>1, PrototypeRows
      <3>3. Device \notin Targets[f]
        BY <3>1, <3>2, PrototypeRows
      <3>4. QED BY <3>2, <3>3
    <2>3. QED BY <2>1, <2>2, StepIsNext
  <1>4. QED BY <1>1, <1>2, <1>3, LabInductive, PTL DEF LabSpec, TakenOnlyIfFree
=============================================================================
