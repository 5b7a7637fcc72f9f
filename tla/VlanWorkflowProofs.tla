------------------------- MODULE VlanWorkflowProofs -------------------------
(***************************************************************************)
(* Theorems about VlanWorkflow: the types for any number of sessions, and, *)
(* when no two requests overlap, that what waits for approval or is ready  *)
(* is backed on every device and that decisions stand.                     *)
(***************************************************************************)
EXTENDS VlanWorkflow, TLAPS

LEMMA SessionParts ==
  ASSUME TypeOK, NEW w \in Workers, session[w] # None
  PROVE  /\ session[w] \in Session
         /\ session[w].at \in {"rows", "write"} /\ session[w].op \in Ops
         /\ session[w].view \in Status
         /\ session[w].old \in [Devices -> Row] /\ session[w].new \in [Devices -> Row]
  BY DEF TypeOK, Session

-----------------------------------------------------------------------------
(* What the services compute is a row                                      *)

\* The rollback is empty or one of the commands of the instance.
LEMMA RollbackType ==
  ASSUME TypeOK, NEW d \in Devices
  PROVE  RollbackOf(d) \in {NoCommands} \cup Commands
  <1> DEFINE config == IF snapshots[d].number = 0 THEN NoConfig ELSE snapshots[d].config
             Names  == {NoName} \cup {DetectedName(c) : c \in Configs}
             Vlans  == {Vlan} \cup {c.text.access : c \in Configs}
  <1>1. config = NoConfig \/ config \in Configs
    BY DEF TypeOK
  <1>2. RollbackOf(d) = Rollback(Operation, Vlan, Family[d], config)
    BY DEF RollbackOf
  <1>3. NoConfig.text.name = NoName /\ NoConfig.text.access = NoVlan
    BY DEF NoConfig
  <1> HIDE DEF config
  <1>4. DetectedName(config) \in Names
    <2>1. CASE config = NoConfig
      BY <1>3, <2>1 DEF DetectedName
    <2>2. CASE config \in Configs
      BY <2>2
    <2>3. QED BY <1>1, <2>1, <2>2
  <1>5. DetectedAccess(Family[d], config) \in {NoVlan} \cup {c.text.access : c \in Configs}
    <2>1. DetectedAccess(Family[d], config) \in {NoVlan, config.text.access}
      BY DEF DetectedAccess
    <2>2. config.text.access \in {NoVlan} \cup {c.text.access : c \in Configs}
      BY <1>1, <1>3
    <2>3. QED BY <2>1, <2>2
  <1>6. \A o \in Operations, v \in Vlans, n \in Names : Command(o, v, n) \in Commands
    BY DEF Command, Commands
  <1>7. QED BY <1>2, <1>4, <1>5, <1>6, VlanWorkflowAssumption DEF Rollback, Operations

LEMMA ErrorsType ==
  ASSUME NEW d \in Devices
  PROVE  Errors(d) \in SUBSET (Evidence \cup {"vlan", "interface"})
  BY DEF Errors, RequestErrors, Evidence

LEMMA ValidatedRowType ==
  ASSUME TypeOK, NEW d \in Devices, NEW r \in Row, NEW bad \in Closed
  PROVE  ValidatedRow(d, r, bad) \in Row
  <1>1. snapshots[d].number \in 0 .. MaxSnapshots /\ 0 \in 0 .. MaxSnapshots
    BY VlanWorkflowAssumption DEF TypeOK
  <1>2. QED BY <1>1, ErrorsType DEF ValidatedRow, Row, Closed

LEMMA PlannedRowType ==
  ASSUME TypeOK, NEW d \in Devices, NEW r \in Row
  PROVE  PlannedRow(d, r) \in Row
  <1>1. CASE r.status \in Closed
    BY <1>1 DEF PlannedRow, Row
  <1>2. CASE r.status \notin Closed /\ "interface" \in RequestErrors
    BY <1>2 DEF PlannedRow, Row
  <1>3. CASE r.status \notin Closed /\ "interface" \notin RequestErrors
    <2> DEFINE rendered == Family[d] \in Families
               rollback == IF rendered THEN RollbackOf(d) ELSE NoCommands
               state    == IF rendered /\ rollback # NoCommands THEN "ready" ELSE "blocked"
    <2>1. PlannedRow(d, r) = [r EXCEPT !.status = state, !.plan = rendered, !.rollback = rollback]
      BY <1>3 DEF PlannedRow
    <2>2. rollback \in {NoCommands} \cup Commands /\ rendered \in BOOLEAN
          /\ state \in {"ready", "blocked"}
      BY RollbackType
    <2> HIDE DEF rendered, rollback, state
    <2>3. QED BY <2>1, <2>2 DEF Row
  <1>4. QED BY <1>1, <1>2, <1>3

LEMMA MergedType ==
  ASSUME TypeOK, NEW w \in Workers, session[w] # None, NEW d \in Devices
  PROVE  /\ Merged(session[w], d) \in Row
         /\ session[w].old = row => Merged(session[w], d) = session[w].new[d]
  <1> DEFINE r   == row[d]
             old == session[w].old[d]
             new == session[w].new[d]
             Columns == {"status", "errors", "backup", "lab", "plan", "rollback"}
  <1>1. r \in Row /\ old \in Row /\ new \in Row
    BY SessionParts DEF TypeOK
  <1>2. DOMAIN r = Columns
    BY <1>1 DEF Row
  <1>3. Merged(session[w], d) = [c \in Columns |-> Assigned(r[c], old[c], new[c])]
    BY <1>2 DEF Merged
  <1>4. Merged(session[w], d) = [status |-> Assigned(r.status, old.status, new.status),
                                 errors |-> Assigned(r.errors, old.errors, new.errors),
                                 backup |-> Assigned(r.backup, old.backup, new.backup),
                                 lab    |-> Assigned(r.lab, old.lab, new.lab),
                                 plan   |-> Assigned(r.plan, old.plan, new.plan),
                                 rollback |-> Assigned(r.rollback, old.rollback, new.rollback)]
    BY <1>3
  <1>5. Merged(session[w], d) \in Row
    BY <1>1, <1>4 DEF Assigned, Row
  <1>6. session[w].old = row => Merged(session[w], d) = new
    BY <1>1, <1>4 DEF Assigned, Row
  <1>7. QED BY <1>5, <1>6

\* Every row that a session makes, as a function of the rows it has read.
LEMMA NewRowsType ==
  ASSUME TypeOK, NEW op \in Ops, NEW bad \in Closed
  PROVE  (CASE op = "validate" -> [d \in Devices |-> ValidatedRow(d, row[d], bad)]
            [] op = "plan"     -> [d \in Devices |-> PlannedRow(d, row[d])]
            [] OTHER           -> row) \in [Devices -> Row]
  <1>1. [d \in Devices |-> ValidatedRow(d, row[d], bad)] \in [Devices -> Row]
    BY ValidatedRowType DEF TypeOK
  <1>2. [d \in Devices |-> PlannedRow(d, row[d])] \in [Devices -> Row]
    BY PlannedRowType DEF TypeOK
  <1>3. row \in [Devices -> Row]
    BY DEF TypeOK
  <1>4. QED BY <1>1, <1>2, <1>3

LEMMA DecidedType ==
  ASSUME TypeOK, NEW decision \in Decision
  PROVE  /\ Decided(decision) \in Seq(Decision)
         /\ Len(Decided(decision)) = Len(decisions)
         /\ decisions # <<>> =>
              /\ Decided(decision) # <<>>
              /\ Decided(decision)[Len(Decided(decision))] = decision
  <1> DEFINE n == Len(decisions)
             s == [decisions EXCEPT ![n] = decision]
  <1>1. decisions \in Seq(Decision) /\ n \in Nat /\ decisions \in [1 .. n -> Decision]
    BY DEF TypeOK
  <1>2. s \in [1 .. n -> Decision] /\ (n \in 1 .. n => s[n] = decision)
    BY <1>1
  <1>3. s \in Seq(Decision) /\ Len(s) = n
    BY <1>1, <1>2
  <1>4. decisions # <<>> => n \in 1 .. n
    BY <1>1
  <1>5. s # <<>> \/ n = 0
    BY <1>1, <1>3
  <1>6. Decided(decision) = s
    BY DEF Decided
  <1> HIDE DEF s
  <1>7. QED BY <1>1, <1>2, <1>3, <1>4, <1>5, <1>6

-----------------------------------------------------------------------------
(* Types                                                                   *)

LEMMA InitType == Init => TypeOK
  <1> SUFFICES ASSUME Init PROVE TypeOK  OBVIOUS
  <1>1. NewRow \in Row
    BY VlanWorkflowAssumption DEF NewRow, Row
  <1>2. snapshots \in [Devices -> [number : 0 .. MaxSnapshots, config : Configs]]
    BY VlanWorkflowAssumption DEF Init
  <1>3. QED BY <1>1, <1>2 DEF Init, TypeOK, Status, Evidence

LEMMA StepType == TypeOK /\ [Next]_vars => TypeOK'
  <1> SUFFICES ASSUME TypeOK, [Next]_vars PROVE TypeOK'  OBVIOUS
  <1>1. CASE UNCHANGED vars
    BY <1>1 DEF TypeOK, vars, rowVars, envVars
  <1>2. ASSUME NEW w \in Workers, NEW op \in Ops, Begin(w, op) PROVE TypeOK'
    <2>1. [at |-> IF op \in {"reject", "cancel"} THEN "write" ELSE "rows",
           op |-> op, view |-> status, old |-> row, new |-> row] \in Session
      BY DEF TypeOK, Session
    <2>2. QED BY <1>2, <2>1 DEF Begin, TypeOK, rowVars, envVars
  <1>3. ASSUME NEW w \in Workers, ReadRows(w) PROVE TypeOK'
    <2> DEFINE s == session[w]
               New(bad) == CASE s.op = "validate" -> [d \in Devices |-> ValidatedRow(d, row[d], bad)]
                             [] s.op = "plan" -> [d \in Devices |-> PlannedRow(d, row[d])]
                             [] OTHER -> row
    <2>1. PICK bad \in Closed :
            session' = [session EXCEPT ![w] = [s EXCEPT !.at = "write", !.old = row, !.new = New(bad)]]
      BY <1>3 DEF ReadRows
    <2>2. s \in Session /\ s.op \in Ops
      BY <1>3, SessionParts DEF ReadRows, At
    <2>3. New(bad) \in [Devices -> Row] /\ row \in [Devices -> Row]
      BY <2>2, NewRowsType DEF TypeOK
    <2> HIDE DEF New
    <2>4. [s EXCEPT !.at = "write", !.old = row, !.new = New(bad)] \in Session
      BY <2>2, <2>3 DEF Session
    <2>5. QED BY <1>3, <2>1, <2>4 DEF ReadRows, TypeOK, rowVars, envVars
  <1>4. ASSUME NEW w \in Workers, Abort(w) PROVE TypeOK'
    BY <1>4 DEF Abort, TypeOK, rowVars, envVars
  \* A request commits: its session ends, and what it has written has its type.
  <1>5. ASSUME NEW w \in Workers, NEW op, Commits(w, op), status' \in Status,
               decisions' \in Seq(Decision), row' \in [Devices -> Row]
        PROVE  TypeOK'
    BY <1>5 DEF Commits, TypeOK, envVars
  <1>6. ASSUME NEW w \in Workers, NEW op, Commits(w, op), NEW new \in Status, SetStatus(w, new)
        PROVE  status' \in Status
    BY <1>6 DEF SetStatus, Assigned, TypeOK
  <1>7. ASSUME NEW w \in Workers, NEW op, Commits(w, op)
        PROVE  [d \in Devices |-> Merged(session[w], d)] \in [Devices -> Row]
    BY <1>7, MergedType DEF Commits, At
  <1>8. ASSUME NEW w \in Workers, Validate(w) PROVE TypeOK'
    <2>1. Commits(w, "validate") /\ row' = [d \in Devices |-> Merged(session[w], d)]
          /\ decisions' = decisions
      BY <1>8 DEF Validate
    <2>2. status' \in Status
      BY <1>6, <1>8 DEF Validate, Status
    <2>3. QED BY <1>5, <1>7, <2>1, <2>2 DEF TypeOK
  <1>9. ASSUME NEW w \in Workers, BuildPlan(w) PROVE TypeOK'
    <2>1. Commits(w, "plan") /\ row' = [d \in Devices |-> Merged(session[w], d)]
          /\ decisions' = decisions /\ status' = status
      BY <1>9 DEF BuildPlan
    <2>2. QED BY <1>5, <1>7, <2>1 DEF TypeOK
  <1>10. ASSUME NEW w \in Workers, Submit(w) PROVE TypeOK'
    <2>1. Commits(w, "submit") /\ row' = row /\ SetStatus(w, "pending_approval")
          /\ decisions' = Append(decisions, "pending")
      BY <1>10 DEF Submit
    <2>2. status' \in Status
      BY <1>6, <2>1 DEF Status
    <2>3. decisions' \in Seq(Decision)
      BY <2>1 DEF TypeOK, Decision
    <2>4. QED BY <1>5, <2>1, <2>2, <2>3 DEF TypeOK
  <1>11. ASSUME NEW w \in Workers, Approve(w) PROVE TypeOK'
    <2>1. Commits(w, "approve") /\ row' = row /\ status' = "ready" /\ decisions' = Decided("approved")
      BY <1>11 DEF Approve
    <2>2. QED BY <1>5, <2>1, DecidedType DEF TypeOK, Status, Decision
  <1>12. ASSUME NEW w \in Workers, Reject(w) PROVE TypeOK'
    <2>1. Commits(w, "reject") /\ row' = row /\ SetStatus(w, "rejected")
          /\ decisions' = Decided("rejected")
      BY <1>12 DEF Reject
    <2>2. status' \in Status
      BY <1>6, <2>1 DEF Status
    <2>3. QED BY <1>5, <2>1, <2>2, DecidedType DEF TypeOK, Decision
  <1>13. ASSUME NEW w \in Workers, Cancel(w) PROVE TypeOK'
    <2>1. Commits(w, "cancel") /\ row' = row /\ SetStatus(w, "cancelled") /\ decisions' = decisions
      BY <1>13 DEF Cancel
    <2>2. status' \in Status
      BY <1>6, <2>1 DEF Status
    <2>3. QED BY <1>5, <2>1, <2>2 DEF TypeOK
  <1>14. ASSUME NEW d \in Devices, TakeSnapshot(d) PROVE TypeOK'
    <2>1. PICK c \in Configs :
            snapshots' = [snapshots EXCEPT ![d] = [number |-> @.number + 1, config |-> c]]
      BY <1>14 DEF TakeSnapshot
    <2>2. snapshots[d].number + 1 \in 0 .. MaxSnapshots
      BY <1>14, VlanWorkflowAssumption DEF TakeSnapshot, TypeOK
    <2>3. snapshots' \in [Devices -> [number : 0 .. MaxSnapshots, config : Configs]]
      BY <2>1, <2>2 DEF TypeOK
    <2>4. evidence' \in [Devices -> SUBSET Evidence]
      BY <1>14 DEF TakeSnapshot, TypeOK, Evidence
    <2>5. QED BY <1>14, <2>3, <2>4 DEF TakeSnapshot, TypeOK, rowVars
  <1>15. ASSUME NEW d \in Devices, EvidenceChanges(d) PROVE TypeOK'
    BY <1>15 DEF EvidenceChanges, TypeOK, Evidence, rowVars
  <1>16. QED BY <1>1, <1>2, <1>3, <1>4, <1>8, <1>9, <1>10, <1>11, <1>12, <1>13, <1>14, <1>15
            DEF Next, Request

\* The columns of the request, its approvals and its device rows hold the values
\* that the services write, whatever requests overlap.
THEOREM TypeCorrect == Spec => []TypeOK
  BY InitType, StepType, PTL DEF Spec

-----------------------------------------------------------------------------
(* Requests that do not overlap                                            *)

LEMMA InitInv == Init => IInv
  <1> SUFFICES ASSUME Init PROVE IInv  OBVIOUS
  <1>1. ReadyIsBacked /\ DecisionStands
    BY DEF Init, ReadyIsBacked, DecisionStands
  <1>2. \A d \in Devices : row[d].rollback = NoCommands
    BY DEF Init, NewRow
  <1>3. QED BY <1>1, <1>2, InitType DEF Init, IInv

\* ReadyIsBacked asks of a device row what a submission asks.
LEMMA BackedIsReady ==
  ASSUME \/ status \notin {"pending_approval", "ready"}
         \/ TypeOK /\ \A d \in Devices : ReadyRow(row[d])
  PROVE  ReadyIsBacked
  <1>1. CASE status \notin {"pending_approval", "ready"}
    BY <1>1 DEF ReadyIsBacked
  <1>2. CASE TypeOK /\ \A d \in Devices : ReadyRow(row[d])
    BY <1>2, VlanWorkflowAssumption DEF ReadyIsBacked, ReadyRow, Backed
  <1>3. QED BY <1>1, <1>2

LEMMA ReadyIsReady ==
  ASSUME TypeOK, ReadyIsBacked, status \in {"pending_approval", "ready"}, NEW d \in Devices
  PROVE  ReadyRow(row[d])
  BY VlanWorkflowAssumption DEF ReadyIsBacked, ReadyRow, Backed, TypeOK, Row

\* A plan that is made again keeps a device row in order, and has no rollback
\* without the interface it needs.
LEMMA PlanKeepsReady ==
  ASSUME NEW d \in Devices, NEW r \in Row, TypeOK
  PROVE  /\ ReadyRow(r) /\ ~Unaddressed => ReadyRow(PlannedRow(d, r))
         /\ Unaddressed /\ r.rollback = NoCommands => PlannedRow(d, r).rollback = NoCommands
  <1> DEFINE p == PlannedRow(d, r)
  <1>1. p \in Row
    BY PlannedRowType
  <1>2. CASE r.status \in Closed
    <2>1. p = [r EXCEPT !.plan = FALSE, !.rollback = NoCommands]
      BY <1>2 DEF PlannedRow
    <2>2. p.status = r.status /\ p.errors = r.errors /\ p.rollback = NoCommands
      BY <2>1 DEF Row
    <2>3. QED BY <1>2, <2>2 DEF ReadyRow, Actionable
  <1>3. CASE r.status \notin Closed /\ Unaddressed
    <2>1. p = [r EXCEPT !.status = "blocked", !.errors = {"interface"}]
      BY <1>3 DEF PlannedRow, Unaddressed
    <2>2. p.rollback = r.rollback
      BY <2>1 DEF Row
    <2>3. QED BY <1>3, <2>2
  <1>4. CASE r.status \notin Closed /\ ~Unaddressed
    <2> DEFINE rendered == Family[d] \in Families
               rollback == IF rendered THEN RollbackOf(d) ELSE NoCommands
               state    == IF rendered /\ rollback # NoCommands THEN "ready" ELSE "blocked"
    <2>1. p = [r EXCEPT !.status = state, !.plan = rendered, !.rollback = rollback]
      BY <1>4 DEF PlannedRow, Unaddressed
    <2>2. state # "blocked" => rendered /\ rollback # NoCommands
      OBVIOUS
    <2>3. state \in {"ready", "blocked"}
      OBVIOUS
    <2> HIDE DEF rendered, rollback, state
    <2>4. /\ p.status = state /\ p.plan = rendered /\ p.rollback = rollback
          /\ p.errors = r.errors /\ p.backup = r.backup /\ p.lab = r.lab
      BY <2>1 DEF Row
    <2>5. Actionable(p) => rendered /\ rollback # NoCommands /\ Actionable(r)
      BY <1>4, <2>2, <2>4 DEF Actionable, Closed
    <2> HIDE DEF p
    <2>6. ASSUME ReadyRow(r) PROVE ReadyRow(p)
      BY <2>4, <2>5, <2>6 DEF ReadyRow, Backed
    <2>7. QED BY <1>4, <2>6 DEF p
  <1>5. QED BY <1>2, <1>3, <1>4

\* Nothing is stored: the session of w, the only one, is what counts.
LEMMA SessionInv ==
  ASSUME IInv, OneSession, NEW w \in Workers, UNCHANGED rowVars, TypeOK',
         NEW s, session' = [session EXCEPT ![w] = s], s # None => Sound(s)
  PROVE  IInv'
  <1>1. ReadyIsBacked' /\ DecisionStands'
    BY DEF IInv, rowVars, ReadyIsBacked, DecisionStands
  <1>2. Unaddressed' <=> Unaddressed
    BY DEF Unaddressed, RequestErrors
  <1>3. \A v \in Workers : session'[v] # None => Sound(session[v])'
    <2>1. SUFFICES ASSUME NEW v \in Workers, session'[v] # None PROVE Sound(session[v])'
      OBVIOUS
    <2>2. session'[v] = s
      BY DEF OneSession, IInv, TypeOK
    <2>3. Sound(s)
      BY <2>1, <2>2
    <2>4. QED BY <1>2, <2>2, <2>3 DEF Sound, rowVars
  <1>4. QED BY <1>1, <1>2, <1>3 DEF IInv, rowVars

\* A request commits: no session is left.
LEMMA CommitInv ==
  ASSUME IInv, OneSession, NEW w \in Workers, NEW op, Commits(w, op), TypeOK',
         ReadyIsBacked', DecisionStands',
         Unaddressed => /\ status' \notin {"pending_approval", "ready"}
                        /\ \A d \in Devices : row'[d].rollback = NoCommands
  PROVE  IInv'
  <1>1. \A v \in Workers : session'[v] = None
    BY DEF Commits, OneSession, IInv, TypeOK
  <1>2. Unaddressed' <=> Unaddressed
    BY DEF Unaddressed, RequestErrors
  <1>3. QED BY <1>1, <1>2 DEF IInv

\* What a commit finds: the request and its rows as the session has read them.
LEMMA AtCommit ==
  ASSUME IInv, NEW w \in Workers, NEW op, Commits(w, op)
  PROVE  /\ session[w].op = op /\ session[w].view = status /\ Sound(session[w])
         /\ session[w].at = "write" /\ session[w].old = row /\ Admits(op, status)
         /\ \A d \in Devices : Merged(session[w], d) = session[w].new[d]
         /\ \A new : SetStatus(w, new) => status' = new
  <1>1. session[w] # None /\ session[w].op = op /\ session[w].at = "write" /\ Sound(session[w])
    BY DEF Commits, At, IInv
  <1>2. session[w].view = status /\ session[w].old = row /\ Admits(op, status)
    BY <1>1 DEF Sound
  <1>3. \A d \in Devices : Merged(session[w], d) = session[w].new[d]
    BY <1>1, <1>2, MergedType DEF IInv
  <1>4. \A new : SetStatus(w, new) => status' = new
    BY <1>2 DEF SetStatus, Assigned
  <1>5. QED BY <1>1, <1>2, <1>3, <1>4

LEMMA BeginInv ==
  ASSUME IInv, OneSession, NEW w \in Workers, NEW op \in Ops, Begin(w, op), TypeOK'
  PROVE  IInv'
  <1> DEFINE s == [at |-> IF op \in {"reject", "cancel"} THEN "write" ELSE "rows",
                   op |-> op, view |-> status, old |-> row, new |-> row]
  <1>1. Sound(s)
    BY DEF Begin, Sound, IInv
  <1>2. session' = [session EXCEPT ![w] = s] /\ UNCHANGED rowVars
    BY DEF Begin
  <1> HIDE DEF s
  <1>3. QED BY <1>1, <1>2, SessionInv

LEMMA ReadRowsInv ==
  ASSUME IInv, OneSession, NEW w \in Workers, ReadRows(w), TypeOK'
  PROVE  IInv'
  <1> DEFINE s == session[w]
             New(bad) == CASE s.op = "validate" -> [d \in Devices |-> ValidatedRow(d, row[d], bad)]
                           [] s.op = "plan" -> [d \in Devices |-> PlannedRow(d, row[d])]
                           [] OTHER -> row
             r(bad) == [s EXCEPT !.at = "write", !.old = row, !.new = New(bad)]
  <1>1. PICK bad \in Closed : session' = [session EXCEPT ![w] = r(bad)]
    BY DEF ReadRows
  <1>2. /\ s \in Session /\ s.op \in Ops /\ Sound(s) /\ TypeOK /\ UNCHANGED rowVars
        /\ s.op \in {"submit", "approve"} => MaySubmit(row)
    BY SessionParts DEF ReadRows, At, IInv
  <1>3. /\ r(bad).at = "write" /\ r(bad).op = s.op /\ r(bad).view = s.view
        /\ r(bad).old = row /\ r(bad).new = New(bad)
    BY <1>2 DEF Session
  <1>4. \A d \in Devices : row[d] \in Row
    BY <1>2 DEF TypeOK
  <1>5. s.op \in {"submit", "approve"} => ~Unaddressed /\ \A d \in Devices : ReadyRow(row[d])
    BY <1>2 DEF MaySubmit, NoErrors, ReadyRow, Backed, IInv
  <1>6. s.op = "plan" /\ status \in {"pending_approval", "ready"} =>
          \A d \in Devices : ReadyRow(New(bad)[d])
    <2>1. SUFFICES ASSUME s.op = "plan", status \in {"pending_approval", "ready"},
                          NEW d \in Devices
                   PROVE  ReadyRow(PlannedRow(d, row[d]))
      OBVIOUS
    <2>2. ReadyRow(row[d]) /\ ~Unaddressed
      BY <2>1, ReadyIsReady DEF IInv
    <2>3. QED BY <1>2, <1>4, <2>2, PlanKeepsReady
  <1>7. Unaddressed => \A d \in Devices : New(bad)[d].rollback = NoCommands
    <2>1. SUFFICES ASSUME Unaddressed, NEW d \in Devices PROVE New(bad)[d].rollback = NoCommands
      OBVIOUS
    <2>2. row[d].rollback = NoCommands /\ row[d] \in Row
      BY <1>4, <2>1 DEF IInv
    <2>3. ValidatedRow(d, row[d], bad).rollback = NoCommands
      BY <2>2 DEF ValidatedRow, Row
    <2>4. PlannedRow(d, row[d]).rollback = NoCommands
      BY <1>2, <2>1, <2>2, PlanKeepsReady
    <2>5. QED BY <2>2, <2>3, <2>4
  <1> HIDE DEF New, r
  <1>8. Sound(r(bad))
    BY <1>2, <1>3, <1>5, <1>6, <1>7 DEF Sound
  <1>9. QED BY <1>1, <1>2, <1>8, SessionInv

LEMMA ValidateInv ==
  ASSUME IInv, OneSession, NEW w \in Workers, Validate(w), TypeOK'
  PROVE  IInv'
  <1>1. Commits(w, "validate") /\ row' = [d \in Devices |-> session[w].new[d]]
        /\ status' \in {"validated", "blocked"} /\ decisions' = decisions
    BY AtCommit DEF Validate
  <1>2. ReadyIsBacked' /\ DecisionStands'
    BY <1>1 DEF ReadyIsBacked, DecisionStands
  <1>3. Unaddressed => \A d \in Devices : row'[d].rollback = NoCommands
    BY <1>1, AtCommit DEF Sound
  <1>4. QED BY <1>1, <1>2, <1>3, CommitInv

LEMMA BuildPlanInv ==
  ASSUME IInv, OneSession, NEW w \in Workers, BuildPlan(w), TypeOK'
  PROVE  IInv'
  <1>1. Commits(w, "plan") /\ row' = [d \in Devices |-> session[w].new[d]]
        /\ status' = status /\ decisions' = decisions
    BY AtCommit DEF BuildPlan
  <1>2. ReadyIsBacked'
    <2>1. status \in {"pending_approval", "ready"} => \A d \in Devices : ReadyRow(row'[d])
      BY <1>1, AtCommit DEF Sound
    <2>2. QED BY <1>1, <2>1, BackedIsReady, VlanWorkflowAssumption
               DEF ReadyIsBacked, ReadyRow, Backed
  <1>3. DecisionStands'
    BY <1>1 DEF IInv, DecisionStands
  <1>4. Unaddressed => \A d \in Devices : row'[d].rollback = NoCommands
    BY <1>1, AtCommit DEF Sound
  <1>5. QED BY <1>1, <1>2, <1>3, <1>4, CommitInv DEF IInv

LEMMA SubmitInv ==
  ASSUME IInv, OneSession, NEW w \in Workers, Submit(w), TypeOK'
  PROVE  IInv'
  <1>1. Commits(w, "submit") /\ row' = row /\ status' = "pending_approval"
        /\ decisions' = Append(decisions, "pending")
    BY AtCommit DEF Submit
  <1>2. ~Unaddressed /\ \A d \in Devices : ReadyRow(row[d])
    BY <1>1, AtCommit DEF Sound
  <1>3. ReadyIsBacked'
    BY <1>1, <1>2, VlanWorkflowAssumption DEF ReadyIsBacked, ReadyRow, Backed
  <1>4. DecisionStands'
    <2>1. decisions \in Seq(Decision)
      BY DEF IInv, TypeOK
    <2>2. decisions' # <<>> /\ decisions'[Len(decisions')] = "pending"
      BY <1>1, <2>1 DEF Decision
    <2>3. QED BY <1>1, <2>2 DEF DecisionStands
  <1>5. QED BY <1>1, <1>2, <1>3, <1>4, CommitInv

LEMMA ApproveInv ==
  ASSUME IInv, OneSession, NEW w \in Workers, Approve(w), TypeOK'
  PROVE  IInv'
  <1>1. Commits(w, "approve") /\ row' = row /\ status' = "ready"
        /\ decisions' = Decided("approved")
    BY DEF Approve
  <1>2. ~Unaddressed /\ \A d \in Devices : ReadyRow(row[d])
    BY <1>1, AtCommit DEF Sound
  <1>3. ReadyIsBacked'
    BY <1>1, <1>2, VlanWorkflowAssumption DEF ReadyIsBacked, ReadyRow, Backed
  <1>4. DecisionStands'
    <2>1. status = "pending_approval"
      BY <1>1, AtCommit DEF Admits
    <2>2. decisions # <<>>
      BY <2>1 DEF IInv, DecisionStands
    <2>3. QED BY <1>1, <2>2, DecidedType DEF DecisionStands, Decision, IInv
  <1>5. QED BY <1>1, <1>2, <1>3, <1>4, CommitInv

LEMMA RejectInv ==
  ASSUME IInv, OneSession, NEW w \in Workers, Reject(w), TypeOK'
  PROVE  IInv'
  <1>1. Commits(w, "reject") /\ row' = row /\ status' = "rejected"
        /\ decisions' = Decided("rejected")
    BY AtCommit DEF Reject
  <1>2. ReadyIsBacked'
    BY <1>1 DEF ReadyIsBacked
  <1>3. DecisionStands'
    <2>1. status = "pending_approval"
      BY <1>1, AtCommit DEF Admits
    <2>2. decisions # <<>>
      BY <2>1 DEF IInv, DecisionStands
    <2>3. QED BY <1>1, <2>2, DecidedType DEF DecisionStands, Decision, IInv
  <1>4. QED BY <1>1, <1>2, <1>3, CommitInv DEF IInv

LEMMA CancelInv ==
  ASSUME IInv, OneSession, NEW w \in Workers, Cancel(w), TypeOK'
  PROVE  IInv'
  <1>1. Commits(w, "cancel") /\ row' = row /\ status' = "cancelled" /\ decisions' = decisions
    BY AtCommit DEF Cancel
  <1>2. ReadyIsBacked' /\ DecisionStands'
    BY <1>1 DEF ReadyIsBacked, DecisionStands
  <1>3. QED BY <1>1, <1>2, CommitInv DEF IInv

\* Backups and evidence change no row of the request.
LEMMA EnvironmentInv ==
  ASSUME IInv, UNCHANGED <<rowVars, session>>, TypeOK'
  PROVE  IInv'
  <1>1. ReadyIsBacked' /\ DecisionStands'
    BY DEF IInv, ReadyIsBacked, DecisionStands, rowVars
  <1>2. Unaddressed' <=> Unaddressed
    BY DEF Unaddressed, RequestErrors
  <1>3. \A w \in Workers : session'[w] # None => Sound(session[w])'
    BY <1>2 DEF IInv, Sound, rowVars
  <1>4. QED BY <1>1, <1>2, <1>3 DEF IInv, rowVars

LEMMA StepInv == OneSession /\ IInv /\ [Next]_vars => IInv'
  <1> SUFFICES ASSUME OneSession, IInv, [Next]_vars PROVE IInv'  OBVIOUS
  <1>1. TypeOK'
    BY StepType DEF IInv
  <1>2. CASE UNCHANGED vars
    BY <1>1, <1>2, EnvironmentInv DEF vars
  <1>3. CASE Next
    <2>1. ASSUME NEW d \in Devices, TakeSnapshot(d) \/ EvidenceChanges(d) PROVE IInv'
      BY <1>1, <2>1, EnvironmentInv DEF TakeSnapshot, EvidenceChanges
    <2>2. ASSUME NEW w \in Workers, Abort(w) PROVE IInv'
      BY <1>1, <2>2, SessionInv DEF Abort
    <2>3. QED BY <1>1, <1>3, <2>1, <2>2, BeginInv, ReadRowsInv, ValidateInv, BuildPlanInv,
                 SubmitInv, ApproveInv, RejectInv, CancelInv DEF Next, Request
  <1>4. QED BY <1>2, <1>3

LEMMA SerialInductive ==
  ASSUME OneSession
  PROVE  Spec => []IInv
  <1>1. IInv /\ [Next]_vars => IInv'
    BY StepInv
  <1>2. QED BY <1>1, InitInv, PTL DEF Spec

\* Whatever is validated, planned, submitted, decided and cancelled in turn, a
\* request that waits for approval or is ready is backed on every device
\* (validate_request, build_plan, submit_for_approval, approve_request).
THEOREM ReadyBacked ==
  ASSUME OneSession
  PROVE  Spec => []ReadyIsBacked
  <1>1. IInv => ReadyIsBacked
    BY DEF IInv
  <1>2. QED BY <1>1, SerialInductive, PTL

\* The status tells the last decision (submit_for_approval, approve_request,
\* reject_request).
THEOREM LastDecision ==
  ASSUME OneSession
  PROVE  Spec => []DecisionStands
  <1>1. IInv => DecisionStands
    BY DEF IInv
  <1>2. QED BY <1>1, SerialInductive, PTL
=============================================================================
