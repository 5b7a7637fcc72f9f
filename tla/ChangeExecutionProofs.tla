----------------------- MODULE ChangeExecutionProofs ------------------------
(***************************************************************************)
(* Theorems about ChangeExecution: the gates for every number of           *)
(* overlapping requests, the locks for every sequence of requests that do  *)
(* not overlap; for all executions and targets.                            *)
(***************************************************************************)
EXTENDS ChangeExecution, TLAPS

\* The parts of an open session have their types.
LEMMA SessionParts ==
  ASSUME TypeOK, NEW w \in Workers, session[w] # None
  PROVE  /\ session[w] \in Session
         /\ session[w].ex \in Executions /\ session[w].op \in Ops
         /\ session[w].view \in Status /\ session[w].locks \in LockRows
         /\ session[w].planned \in BOOLEAN
  BY DEF TypeOK, Session

LEMMA InitInv == Init => IInv
  <1> SUFFICES ASSUME Init PROVE IInv  OBVIOUS
  <1>1. TypeOK
    <2>1. lockRows \in [Executions -> LockRows]
      BY DEF Init, LockRows, NoLocks
    <2>2. QED BY <2>1 DEF Init, TypeOK, Status
  <1>2. RowsAreBacked /\ SessionsAreBacked
    BY DEF Init, RowsAreBacked, SessionsAreBacked
  <1>3. QED BY <1>1, <1>2 DEF IInv

-----------------------------------------------------------------------------
(* The shapes of the actions                                               *)

\* A read changes the session of w only.
LEMMA ReadInv ==
  ASSUME IInv, NEW w \in Workers, UNCHANGED <<rowVars, evidence>>,
         NEW s \in Session, session' = [session EXCEPT ![w] = s],
         Admits(s.op, s.view),
         s.view = "pending_approval" => steps[s.ex] # {},
         s.view \in {"approved", "ready"} => s.ex \in approved,
         s.planned => steps[s.ex] # {}
  PROVE  IInv'
  <1>1. TypeOK'
    BY DEF IInv, TypeOK, rowVars
  <1>2. RowsAreBacked'
    BY DEF IInv, RowsAreBacked, rowVars
  <1>3. SessionsAreBacked'
    BY DEF IInv, SessionsAreBacked, TypeOK, rowVars, Admits
  <1>4. QED BY <1>1, <1>2, <1>3 DEF IInv

\* A commit closes the session of w and adds to steps, approved and completed.
LEMMA CommitInv ==
  ASSUME IInv, NEW w \in Workers, session' = [session EXCEPT ![w] = None],
         UNCHANGED evidence,
         status' \in [Executions -> Status], steps' \in [Executions -> SUBSET Workers],
         lockRows' \in [Executions -> LockRows],
         approved' \subseteq Executions, approved \subseteq approved',
         \A e \in Executions : steps[e] # {} => steps'[e] # {},
         RowsAreBacked'
  PROVE  IInv'
  <1>1. TypeOK'
    BY DEF IInv, TypeOK, RowsAreBacked
  <1>2. SessionsAreBacked'
    <2> SUFFICES ASSUME NEW v \in Workers, session'[v] # None
                 PROVE  /\ session'[v] = session[v] /\ session[v] # None
                        /\ session[v].ex \in Executions
      BY DEF IInv, SessionsAreBacked, Admits
    <2>1. QED BY SessionParts DEF IInv, TypeOK
  <1>3. QED BY <1>1, <1>2 DEF IInv

\* What SetStatus does to the columns.
LEMMA SetStatusRows ==
  ASSUME IInv, NEW s \in Session, NEW new \in Status \ {"absent"}, SetStatus(s, new),
         steps' = steps,
         s.view = "pending_approval" => steps[s.ex] # {},
         new \in {"pending_approval", "approved"} => steps[s.ex] # {},
         new \in {"ready", "simulated"} => s.ex \in approved
  PROVE  /\ status' \in [Executions -> Status]
         /\ approved' \subseteq Executions /\ approved \subseteq approved'
         /\ RowsAreBacked'
  <1>1. s.ex \in Executions
    BY DEF Session
  <1>2. status' = [status EXCEPT ![s.ex] = IF new = s.view THEN status[s.ex] ELSE new]
    BY DEF SetStatus, Assigned
  <1>3. QED BY <1>1, <1>2 DEF SetStatus, IInv, TypeOK, RowsAreBacked

LEMMA RequestInv ==
  ASSUME IInv, NEW w \in Workers, Request(w)
  PROVE  IInv'
  <1> PICK s : s = session[w]
    OBVIOUS
  <1>0. session[w] # None =>
          /\ Admits(s.op, s.view)
          /\ s.view = "pending_approval" => steps[s.ex] # {}
          /\ s.view \in {"approved", "ready"} => s.ex \in approved
          /\ s.planned => steps[s.ex] # {}
    BY DEF IInv, SessionsAreBacked
  <1>1. ASSUME NEW op \in Ops, NEW e \in Executions, Begin(w, op, e)
        PROVE  IInv'
    <2> PICK r : r = [at |-> FirstQuery(op), op |-> op, ex |-> e, view |-> status[e],
                      valid |-> FALSE, planned |-> FALSE, locks |-> NoLocks]
      OBVIOUS
    <2>1. FirstQuery(op) \in {"validation", "rows", "write"} /\ NoLocks \in LockRows
      BY DEF FirstQuery, NoLocks, LockRows
    <2>2. r \in Session
      BY <2>1 DEF Session, IInv, TypeOK
    <2>3. Admits(r.op, r.view) /\ session' = [session EXCEPT ![w] = r]
      BY <1>1 DEF Begin
    <2>4. QED BY <1>1, <2>2, <2>3, ReadInv DEF Begin, IInv, RowsAreBacked
  <1>2. CASE Validation(w)
    <2>1. s \in Session /\ session[w] # None
      BY <1>2, SessionParts DEF Validation, At, IInv
    <2> PICK r : r = [s EXCEPT !.valid = NoErrors(s.ex),
                               !.at = IF s.op = "validate" THEN "write" ELSE "rows"]
      OBVIOUS
    <2>2. NoErrors(s.ex) \in BOOLEAN
      BY DEF NoErrors
    <2>3. r \in Session /\ r.op = s.op /\ r.view = s.view /\ r.ex = s.ex
            /\ r.planned = s.planned
      BY <2>1, <2>2 DEF Session
    <2>4. session' = [session EXCEPT ![w] = r]
      BY <1>2, <2>1, <2>2 DEF Validation, IInv, TypeOK, Session
    <2>5. /\ Admits(r.op, r.view)
          /\ r.view = "pending_approval" => steps[r.ex] # {}
          /\ r.view \in {"approved", "ready"} => r.ex \in approved
          /\ r.planned => steps[r.ex] # {}
      BY <1>0, <2>1, <2>3
    <2>6. UNCHANGED <<rowVars, evidence>>
      BY <1>2 DEF Validation
    <2>7. QED BY <2>3, <2>4, <2>5, <2>6, ReadInv
  <1>3. CASE ReadRows(w)
    <2>1. s \in Session /\ session[w] # None
      BY <1>3, SessionParts DEF ReadRows, At, IInv
    <2> PICK r : r = [s EXCEPT !.planned = steps[s.ex] # {},
                               !.locks = lockRows[s.ex], !.at = "write"]
      OBVIOUS
    <2>2. (steps[s.ex] # {}) \in BOOLEAN /\ lockRows[s.ex] \in LockRows
      BY <2>1 DEF IInv, TypeOK, Session
    <2>3. r \in Session /\ r.op = s.op /\ r.view = s.view /\ r.ex = s.ex
            /\ (r.planned <=> steps[s.ex] # {})
      BY <2>1, <2>2 DEF Session
    <2>4. session' = [session EXCEPT ![w] = r]
      BY <1>3, <2>1, <2>2 DEF ReadRows, IInv, TypeOK, Session
    <2>5. r.planned => steps[r.ex] # {}
      BY <2>3
    <2>6. /\ Admits(r.op, r.view)
          /\ r.view = "pending_approval" => steps[r.ex] # {}
          /\ r.view \in {"approved", "ready"} => r.ex \in approved
      BY <1>0, <2>1, <2>3
    <2>7. UNCHANGED <<rowVars, evidence>>
      BY <1>3 DEF ReadRows
    <2>8. QED BY <2>3, <2>4, <2>5, <2>6, <2>7, ReadInv
  <1>4. CASE Abort(w)
    BY <1>4, CommitInv DEF Abort, rowVars, IInv, TypeOK, RowsAreBacked
  <1>5. ASSUME NEW op \in Ops, Commits(w, op)
        PROVE  /\ s \in Session /\ session[w] # None /\ s.op = op
               /\ session' = [session EXCEPT ![w] = None] /\ UNCHANGED evidence
               /\ Admits(op, s.view)
               /\ s.view = "pending_approval" => steps[s.ex] # {}
               /\ s.view \in {"approved", "ready"} => s.ex \in approved
               /\ s.planned => steps[s.ex] # {}
    BY <1>0, <1>5, SessionParts DEF Commits, At, IInv
  <1>6. ASSUME NEW op \in Ops, Commits(w, op), NEW new \in Status \ {"absent"},
               SetStatus(s, new), steps' = steps, lockRows' \in [Executions -> LockRows],
               new \in {"pending_approval", "approved"} => steps[s.ex] # {},
               new \in {"ready", "simulated"} => s.ex \in approved
        PROVE  IInv'
    <2>1. /\ s \in Session /\ session' = [session EXCEPT ![w] = None]
          /\ UNCHANGED evidence
          /\ s.view = "pending_approval" => steps[s.ex] # {}
      BY <1>5, <1>6
    <2>2. /\ status' \in [Executions -> Status]
          /\ approved' \subseteq Executions /\ approved \subseteq approved'
          /\ RowsAreBacked'
      BY <1>6, <2>1, SetStatusRows
    <2>3. steps' \in [Executions -> SUBSET Workers]
      BY <1>6 DEF IInv, TypeOK
    <2>4. QED BY <1>6, <2>1, <2>2, <2>3, CommitInv
  <1>7. lockRows \in [Executions -> LockRows]
    BY DEF IInv, TypeOK
  <1>8. CASE Validate(w)
    BY <1>5, <1>6, <1>7, <1>8 DEF Validate, Ops, Status
  <1>9. CASE BuildPlan(w)
    <2>1. s.ex \in Executions
      BY <1>5, <1>9 DEF BuildPlan, Ops, Session
    <2>2. /\ steps' \in [Executions -> SUBSET Workers]
          /\ \A e \in Executions : steps[e] # {} => steps'[e] # {}
      BY <1>9, <2>1 DEF BuildPlan, IInv, TypeOK
    <2>3. RowsAreBacked'
      BY <1>9, <2>2 DEF BuildPlan, IInv, TypeOK, RowsAreBacked
    <2>4. QED BY <1>5, <1>9, <2>2, <2>3, CommitInv DEF BuildPlan, Ops, IInv, TypeOK
  <1>10. CASE Submit(w)
    BY <1>5, <1>6, <1>7, <1>10 DEF Submit, Ops, Status
  <1>11. CASE Approve(w)
    BY <1>5, <1>6, <1>7, <1>11 DEF Approve, Ops, Status, Admits
  <1>12. CASE Reject(w)
    BY <1>5, <1>6, <1>7, <1>12 DEF Reject, Ops, Status
  <1>13. CASE ReserveLocks(w)
    <2>1. s \in Session
      BY <1>5, <1>13 DEF ReserveLocks, Ops
    <2>2. lockRows' \in [Executions -> LockRows]
      BY <1>7, <1>13, <2>1 DEF ReserveLocks, LockRows, Session
    <2>3. RowsAreBacked'
      BY <1>13 DEF ReserveLocks, IInv, RowsAreBacked
    <2>4. QED BY <1>5, <1>13, <2>2, <2>3, CommitInv DEF ReserveLocks, Ops, IInv, TypeOK
  <1>14. CASE MarkReady(w)
    BY <1>5, <1>6, <1>7, <1>14 DEF MarkReady, Ops, Status, Admits
  <1>15. CASE Simulate(w)
    BY <1>5, <1>6, <1>7, <1>15 DEF Simulate, Ops, Status, Admits
  <1>16. CASE Cancel(w)
    <2>1. s \in Session
      BY <1>5, <1>16 DEF Cancel, Ops
    <2>2. lockRows' \in [Executions -> LockRows]
      BY <1>7, <1>16, <2>1 DEF Cancel, LockRows, Session
    <2>3. QED BY <1>5, <1>6, <1>16, <2>2 DEF Cancel, Ops, Status
  <1>17. QED
    BY <1>1, <1>2, <1>3, <1>4, <1>8, <1>9, <1>10, <1>11, <1>12, <1>13, <1>14, <1>15, <1>16
    DEF Request

LEMMA StepInv ==
  ASSUME IInv, [Next]_vars
  PROVE  IInv'
  <1>1. CASE UNCHANGED vars
    BY <1>1 DEF vars, rowVars, IInv, TypeOK, RowsAreBacked, SessionsAreBacked, Admits
  <1>2. ASSUME NEW e \in Executions, Create(e)
        PROVE  IInv'
    <2>1. TypeOK'
      BY <1>2 DEF Create, IInv, TypeOK, Status
    <2>2. RowsAreBacked' /\ SessionsAreBacked'
      BY <1>2 DEF Create, IInv, TypeOK, RowsAreBacked, SessionsAreBacked, Admits
    <2>3. QED BY <2>1, <2>2 DEF IInv
  <1>3. ASSUME NEW e \in Executions, EvidenceChanges(e)
        PROVE  IInv'
    BY <1>3 DEF EvidenceChanges, rowVars, IInv, TypeOK, RowsAreBacked, SessionsAreBacked,
                Admits
  <1>4. QED BY <1>1, <1>2, <1>3, RequestInv DEF Next

\* The inductive invariant behind the gates.
THEOREM Inductive == Spec => []IInv
  <1>1. IInv /\ [Next]_vars => IInv'
    BY StepInv
  <1>2. QED BY <1>1, InitInv, PTL DEF Spec

\* The columns of the executions and their locks stay in their types.
THEOREM TypeCorrect == Spec => []TypeOK
  BY Inductive, PTL DEF IInv

-----------------------------------------------------------------------------
(* The gates                                                               *)

\* The steps of the services map to steps of the gate, or to none.
LEMMA RequestMapped ==
  ASSUME IInv, NEW w \in Workers, Request(w)
  PROVE  \/ \E c \in Executions : Gate!Plan(c) \/ Gate!Approve(c) \/ Gate!Simulate(c)
         \/ UNCHANGED <<{e \in Executions : steps[e] # {}}, approved, completed>>
  <1> PICK s : s = session[w]
    OBVIOUS
  <1>1. ASSUME NEW op \in Ops, Commits(w, op)
        PROVE  /\ s.ex \in Executions /\ Admits(op, s.view)
               /\ s.view = "pending_approval" => steps[s.ex] # {}
               /\ s.view \in {"approved", "ready"} => s.ex \in approved
               /\ s.planned => steps[s.ex] # {}
    BY <1>1, SessionParts DEF Commits, At, IInv, SessionsAreBacked
  <1>2. ASSUME NEW new \in Status, SetStatus(s, new), steps' = steps, s.ex \in Executions,
               new = "approved" => steps[s.ex] # {},
               new = "simulated" => s.ex \in approved
        PROVE  \/ Gate!Approve(s.ex) \/ Gate!Simulate(s.ex)
               \/ UNCHANGED <<{e \in Executions : steps[e] # {}}, approved, completed>>
    <2>1. {e \in Executions : steps'[e] # {}} = {e \in Executions : steps[e] # {}}
      BY <1>2
    <2>2. CASE new = "approved"
      BY <1>2, <2>1, <2>2 DEF SetStatus, Gate!Approve
    <2>3. CASE new = "simulated"
      BY <1>2, <2>1, <2>3 DEF SetStatus, Gate!Simulate
    <2>4. CASE new \notin {"approved", "simulated"}
      BY <1>2, <2>1, <2>4 DEF SetStatus
    <2>5. QED BY <2>2, <2>3, <2>4
  <1>3. CASE \/ Validation(w) \/ ReadRows(w) \/ Abort(w) \/ ReserveLocks(w)
             \/ \E op \in Ops, e \in Executions : Begin(w, op, e)
    BY <1>3 DEF Validation, ReadRows, Abort, Begin, ReserveLocks, rowVars
  <1>4. CASE Validate(w)
    BY <1>1, <1>2, <1>4 DEF Validate, Ops, Status
  <1>5. CASE BuildPlan(w)
    <2>1. s.ex \in Executions
      BY <1>1, <1>5 DEF BuildPlan, Ops
    <2>2. CASE steps' = steps
      BY <1>5, <2>2 DEF BuildPlan
    <2>3. CASE steps' = [steps EXCEPT ![s.ex] = @ \cup {w}]
      <3>1. {e \in Executions : steps'[e] # {}} = {e \in Executions : steps[e] # {}} \cup {s.ex}
        BY <2>1, <2>3 DEF IInv, TypeOK
      <3>2. QED BY <1>5, <2>1, <3>1 DEF BuildPlan, Gate!Plan
    <2>4. QED BY <1>5, <2>2, <2>3 DEF BuildPlan
  <1>6. CASE Submit(w)
    BY <1>1, <1>2, <1>6 DEF Submit, Ops, Status
  <1>7. CASE Approve(w)
    BY <1>1, <1>2, <1>7 DEF Approve, Ops, Status, Admits
  <1>8. CASE Reject(w)
    BY <1>1, <1>2, <1>8 DEF Reject, Ops, Status
  <1>9. CASE MarkReady(w)
    BY <1>1, <1>2, <1>9 DEF MarkReady, Ops, Status
  <1>10. CASE Simulate(w)
    BY <1>1, <1>2, <1>10 DEF Simulate, Ops, Status, Admits
  <1>11. CASE Cancel(w)
    <2>1. SetStatus(s, "cancelled") /\ steps' = steps /\ s.ex \in Executions
      BY <1>1, <1>11 DEF Cancel, Ops
    <2>2. QED BY <1>2, <2>1 DEF Status
  <1>12. QED
    BY <1>3, <1>4, <1>5, <1>6, <1>7, <1>8, <1>9, <1>10, <1>11 DEF Request

\* The orchestrator implements the gates, whatever requests overlap.
THEOREM GateImplemented == Spec => ImplementsGate
  <1>1. Init => Gate!Init
    BY DEF Init, Gate!Init
  <1>2. IInv /\ [Next]_vars =>
          [Gate!Next]_<<{e \in Executions : steps[e] # {}}, approved, completed>>
    <2> SUFFICES ASSUME IInv, [Next]_vars
                 PROVE  \/ Gate!Next
                        \/ UNCHANGED <<{e \in Executions : steps[e] # {}}, approved, completed>>
      OBVIOUS
    <2>1. CASE UNCHANGED vars
      BY <2>1 DEF vars, rowVars
    <2>2. CASE \E e \in Executions : Create(e) \/ EvidenceChanges(e)
      BY <2>2 DEF Create, EvidenceChanges, rowVars
    <2>3. QED BY <2>1, <2>2, RequestMapped DEF Next, Gate!Next
  <1>3. QED BY <1>1, <1>2, Inductive, PTL DEF Spec, ImplementsGate, Gate!Spec

-----------------------------------------------------------------------------
(* One request at a time                                                   *)

\* The session that commits, when it is the only one.
LEMMA CurrentSession ==
  ASSUME IInv, SessionIsCurrent, NEW w \in Workers, NEW op \in Ops, Commits(w, op)
  PROVE  /\ session[w] \in Session /\ session[w].ex \in Executions
         /\ Admits(op, session[w].view)
         /\ session[w].view = status[session[w].ex]
         /\ op = "reserve" => ~Conflict(session[w].ex)
         /\ op \notin {"validate", "approve", "reject"} =>
              /\ session[w].planned <=> steps[session[w].ex] # {}
              /\ session[w].locks = lockRows[session[w].ex]
  BY SessionParts DEF Commits, At, IInv, SessionsAreBacked, SessionIsCurrent

\* A session that is up to date sets the status it means to set.
LEMMA StatusSet ==
  ASSUME IInv, NEW s \in Session, s.view = status[s.ex], NEW new, SetStatus(s, new)
  PROVE  status' = [status EXCEPT ![s.ex] = new]
  BY DEF SetStatus, Assigned, IInv, TypeOK, Session

\* A change of status that leaves the lock rows alone.
LEMMA StatusInv ==
  ASSUME SerialInv, IInv, NEW e \in Executions, NEW new,
         status' = [status EXCEPT ![e] = new], UNCHANGED <<steps, lockRows>>,
         new # "cancelled",
         new \in {"ready", "simulated"} =>
           /\ steps[e] # {}
           /\ Targets[e] # {} => Reserved(e) # {}
  PROVE  ReadyIsBacked' /\ CancelledHoldsNoLocks'
  BY DEF SerialInv, IInv, TypeOK, ReadyIsBacked, CancelledHoldsNoLocks, Reserved

LEMMA CommitSerial ==
  ASSUME OneSession, IInv, SerialInv, NEW w \in Workers, NEW op \in Ops, Commits(w, op)
  PROVE  SessionIsCurrent'
  <1>1. session' = [session EXCEPT ![w] = None]
    BY DEF Commits
  <1>2. \A v \in Workers : session'[v] = None
    BY <1>1 DEF OneSession, IInv, TypeOK
  <1>3. QED BY <1>2 DEF SessionIsCurrent

LEMMA ReadSerial ==
  ASSUME OneSession, IInv, SerialInv, NEW w \in Workers,
         \/ \E op \in Ops, e \in Executions : Begin(w, op, e)
         \/ Validation(w) \/ ReadRows(w) \/ Abort(w)
  PROVE  SerialInv'
  <1>1. UNCHANGED rowVars
    BY DEF Begin, Validation, ReadRows, Abort
  <1>2. ReadyIsBacked' /\ CancelledHoldsNoLocks'
    BY <1>1 DEF rowVars, SerialInv, ReadyIsBacked, CancelledHoldsNoLocks, Reserved
  <1>3. \A e \in Executions : Conflict(e)' <=> Conflict(e)
    BY <1>1 DEF rowVars, Conflict, Reserved
  <1>4. ASSUME NEW s, session' = [session EXCEPT ![w] = s], s \in Session,
               s.view = status[s.ex],
               s.op = "reserve" /\ s.at # "validation" => ~Conflict(s.ex),
               s.at = "write" /\ s.op \notin {"validate", "approve", "reject"} =>
                 (s.planned <=> steps[s.ex] # {}) /\ s.locks = lockRows[s.ex]
        PROVE  SessionIsCurrent'
    <2>1. \A v \in Workers : session'[v] = s
      BY <1>4 DEF OneSession, IInv, TypeOK
    <2>2. s.ex \in Executions
      BY <1>4 DEF Session
    <2>3. QED BY <1>1, <1>3, <1>4, <2>1, <2>2 DEF SessionIsCurrent, rowVars
  <1>5. ASSUME NEW op \in Ops, NEW e \in Executions, Begin(w, op, e)
        PROVE  SessionIsCurrent'
    <2> PICK s : s = [at |-> FirstQuery(op), op |-> op, ex |-> e, view |-> status[e],
                      valid |-> FALSE, planned |-> FALSE, locks |-> NoLocks]
      OBVIOUS
    <2>1. FirstQuery(op) \in {"validation", "rows", "write"} /\ NoLocks \in LockRows
      BY DEF FirstQuery, NoLocks, LockRows
    <2>2. s \in Session
      BY <2>1 DEF Session, IInv, TypeOK
    <2>3. /\ op = "reserve" => s.at = "validation"
          /\ s.at = "write" => op \in {"approve", "reject"}
      BY DEF FirstQuery
    <2>4. session' = [session EXCEPT ![w] = s]
      BY <1>5 DEF Begin
    <2>5. QED BY <1>4, <2>2, <2>3, <2>4
  <1>6. CASE Validation(w)
    <2> PICK s : s = session[w]
      OBVIOUS
    <2>1. s \in Session /\ session[w] # None /\ s.at = "validation" /\ Validated(w)
      BY <1>6, SessionParts DEF Validation, At, IInv
    <2>2. s.view = status[s.ex]
      BY <2>1 DEF SerialInv, SessionIsCurrent
    <2> PICK r : r = [s EXCEPT !.valid = NoErrors(s.ex),
                               !.at = IF s.op = "validate" THEN "write" ELSE "rows"]
      OBVIOUS
    <2>3. NoErrors(s.ex) \in BOOLEAN
      BY DEF NoErrors
    <2>4. /\ r \in Session /\ r.op = s.op /\ r.view = s.view /\ r.ex = s.ex
          /\ r.at = IF s.op = "validate" THEN "write" ELSE "rows"
      BY <2>1, <2>3 DEF Session
    <2>5. session' = [session EXCEPT ![w] = r]
      BY <1>6, <2>1, <2>3 DEF Validation, IInv, TypeOK, Session
    <2>6. s.op = "reserve" => ~Conflict(s.ex)
      BY <2>1 DEF Validated
    <2>7. r.view = status[r.ex] /\ ~(r.at = "write" /\ r.op # "validate")
      BY <2>2, <2>4
    <2>8. r.op = "reserve" /\ r.at # "validation" => ~Conflict(r.ex)
      BY <2>4, <2>6
    <2>9. SessionIsCurrent'
      BY <1>4, <2>4, <2>5, <2>7, <2>8
    <2>10. QED BY <1>2, <2>9 DEF SerialInv
  <1>7. CASE ReadRows(w)
    <2> PICK s : s = session[w]
      OBVIOUS
    <2>1. s \in Session /\ session[w] # None /\ s.at = "rows"
      BY <1>7, SessionParts DEF ReadRows, At, IInv
    <2>2. s.view = status[s.ex] /\ (s.op = "reserve" => ~Conflict(s.ex))
      BY <2>1 DEF SerialInv, SessionIsCurrent
    <2> PICK r : r = [s EXCEPT !.planned = steps[s.ex] # {},
                               !.locks = lockRows[s.ex], !.at = "write"]
      OBVIOUS
    <2>3. (steps[s.ex] # {}) \in BOOLEAN /\ lockRows[s.ex] \in LockRows
      BY <2>1 DEF IInv, TypeOK, Session
    <2>4. /\ r \in Session /\ r.op = s.op /\ r.view = s.view /\ r.ex = s.ex
          /\ (r.planned <=> steps[s.ex] # {}) /\ r.locks = lockRows[s.ex]
      BY <2>1, <2>3 DEF Session
    <2>5. session' = [session EXCEPT ![w] = r]
      BY <1>7, <2>1, <2>3 DEF ReadRows, IInv, TypeOK, Session
    <2>6. (r.planned <=> steps[r.ex] # {}) /\ r.locks = lockRows[r.ex]
      BY <2>4
    <2>7. r.view = status[r.ex] /\ (r.op = "reserve" => ~Conflict(r.ex))
      BY <2>2, <2>4
    <2>8. SessionIsCurrent'
      BY <1>4, <2>4, <2>5, <2>6, <2>7
    <2>9. QED BY <1>2, <2>8 DEF SerialInv
  <1>8. CASE Abort(w)
    <2>1. \A v \in Workers : session'[v] = None
      BY <1>8 DEF Abort, OneSession, IInv, TypeOK
    <2>2. QED BY <1>2, <2>1 DEF SerialInv, SessionIsCurrent
  <1>9. QED BY <1>2, <1>5, <1>6, <1>7, <1>8 DEF SerialInv

LEMMA RequestSerial ==
  ASSUME OneSession, IInv, SerialInv, NEW w \in Workers, Request(w)
  PROVE  SerialInv'
  <1> PICK s : s = session[w]
    OBVIOUS
  <1>1. ASSUME NEW op \in Ops, Commits(w, op)
        PROVE  /\ s \in Session /\ s.ex \in Executions /\ Admits(op, s.view)
               /\ s.view = status[s.ex] /\ SessionIsCurrent'
               /\ op = "reserve" => ~Conflict(s.ex)
               /\ op \notin {"validate", "approve", "reject"} =>
                    (s.planned <=> steps[s.ex] # {}) /\ s.locks = lockRows[s.ex]
    BY <1>1, CurrentSession, CommitSerial DEF SerialInv
  <1>2. ASSUME NEW op \in Ops, Commits(w, op), NEW new, SetStatus(s, new),
               UNCHANGED <<steps, lockRows>>, new # "cancelled",
               new \in {"ready", "simulated"} =>
                 /\ steps[s.ex] # {}
                 /\ Targets[s.ex] # {} => Reserved(s.ex) # {}
        PROVE  SerialInv'
    <2>1. status' = [status EXCEPT ![s.ex] = new]
      BY <1>1, <1>2, StatusSet
    <2>2. QED BY <1>1, <1>2, <2>1, StatusInv DEF SerialInv
  <1>3. CASE \/ \E op \in Ops, e \in Executions : Begin(w, op, e)
             \/ Validation(w) \/ ReadRows(w) \/ Abort(w)
    BY <1>3, ReadSerial
  <1>4. CASE Validate(w)
    BY <1>2, <1>4 DEF Validate, Ops
  <1>5. CASE BuildPlan(w)
    <2>1. /\ \A e \in Executions : steps[e] # {} => steps'[e] # {}
          /\ UNCHANGED <<status, lockRows>> /\ SessionIsCurrent'
      BY <1>1, <1>5 DEF BuildPlan, Ops, IInv, TypeOK
    <2>2. QED
      BY <2>1 DEF SerialInv, ReadyIsBacked, CancelledHoldsNoLocks, Reserved
  <1>6. CASE Submit(w)
    BY <1>2, <1>6 DEF Submit, Ops
  <1>7. CASE Approve(w)
    BY <1>2, <1>7 DEF Approve, Ops
  <1>8. CASE Reject(w)
    BY <1>2, <1>8 DEF Reject, Ops
  <1>9. CASE ReserveLocks(w)
    <2>1. /\ s \in Session /\ s.ex \in Executions /\ ~Conflict(s.ex) /\ SessionIsCurrent'
          /\ status[s.ex] \in {"approved", "ready"}
      BY <1>1, <1>9 DEF ReserveLocks, Ops, Admits
    <2>2. UNCHANGED <<status, steps>>
      BY <1>9 DEF ReserveLocks
    <2>3. \A e \in Executions : /\ Reserved(e) # {} => Reserved(e)' # {}
                                /\ e # s.ex => Reserved(e)' = Reserved(e)
      BY <1>9, <2>1 DEF ReserveLocks, Reserved, IInv, TypeOK, LockRows
    <2>4. ReadyIsBacked' /\ CancelledHoldsNoLocks'
      BY <2>1, <2>2, <2>3 DEF SerialInv, ReadyIsBacked, CancelledHoldsNoLocks
    <2>5. QED BY <2>1, <2>4 DEF SerialInv
  <1>10. CASE MarkReady(w)
    <2>1. Commits(w, "markReady") /\ s.planned /\ HasRequiredLocks(s) /\ SetStatus(s, "ready")
      BY <1>10 DEF MarkReady
    <2>2. (s.planned <=> steps[s.ex] # {}) /\ s.locks = lockRows[s.ex]
      BY <1>1, <2>1 DEF Ops
    <2>3. Targets[s.ex] # {} => Reserved(s.ex) # {}
      BY <2>1, <2>2 DEF HasRequiredLocks, Reserved
    <2>4. steps[s.ex] # {}
      BY <2>1, <2>2
    <2>5. QED BY <1>2, <1>10, <2>1, <2>3, <2>4 DEF MarkReady, Ops
  <1>11. CASE Simulate(w)
    <2>1. s.ex \in Executions /\ status[s.ex] = "ready"
      BY <1>1, <1>11 DEF Simulate, Ops, Admits
    <2>2. steps[s.ex] # {} /\ (Targets[s.ex] # {} => Reserved(s.ex) # {})
      BY <2>1 DEF SerialInv, ReadyIsBacked
    <2>3. QED BY <1>2, <1>11, <2>2 DEF Simulate, Ops
  <1>12. CASE Cancel(w)
    <2>1. /\ s \in Session /\ s.ex \in Executions /\ SessionIsCurrent'
          /\ s.view = status[s.ex] /\ s.locks = lockRows[s.ex]
      BY <1>1, <1>12 DEF Cancel, Ops
    <2>2. status' = [status EXCEPT ![s.ex] = "cancelled"] /\ steps' = steps
      BY <1>12, <2>1, StatusSet DEF Cancel
    <2>3. \A e \in Executions : Reserved(e)' = IF e = s.ex THEN {} ELSE Reserved(e)
      BY <1>12, <2>1 DEF Cancel, Reserved, IInv, TypeOK, LockRows
    <2>4. ReadyIsBacked' /\ CancelledHoldsNoLocks'
      BY <2>1, <2>2, <2>3 DEF SerialInv, ReadyIsBacked, CancelledHoldsNoLocks, IInv, TypeOK
    <2>5. QED BY <2>1, <2>4 DEF SerialInv
  <1>13. QED
    BY <1>3, <1>4, <1>5, <1>6, <1>7, <1>8, <1>9, <1>10, <1>11, <1>12 DEF Request

LEMMA SerialInit == Init => SerialInv
  BY DEF Init, SerialInv, SessionIsCurrent, ReadyIsBacked, CancelledHoldsNoLocks, Reserved, NoLocks

LEMMA SerialStep ==
  ASSUME OneSession, IInv, SerialInv, [Next]_vars
  PROVE  SerialInv'
  <1>1. ASSUME UNCHANGED <<rowVars, session>>
        PROVE  SerialInv'
    <2>1. UNCHANGED <<status, steps, lockRows, session>>
      BY <1>1 DEF rowVars
    <2>2. QED BY <2>1 DEF SerialInv, SessionIsCurrent, ReadyIsBacked,
                          CancelledHoldsNoLocks, Reserved, Conflict
  <1>2. ASSUME NEW e \in Executions, Create(e)
        PROVE  SerialInv'
    <2>1. UNCHANGED <<steps, lockRows, session>> /\ status[e] = "absent"
          /\ status' = [status EXCEPT ![e] = "draft"]
      BY <1>2 DEF Create
    <2>2. ReadyIsBacked' /\ CancelledHoldsNoLocks'
      BY <2>1, StatusInv
    <2>3. ASSUME NEW w \in Workers, session[w] # None
          PROVE  session[w].ex \in Executions /\ session[w].ex # e
      BY <2>1, <2>3, SessionParts
      DEF IInv, SessionsAreBacked, Admits, SerialInv, SessionIsCurrent
    <2>4. SessionIsCurrent'
      BY <2>1, <2>3 DEF SerialInv, SessionIsCurrent, IInv, TypeOK, Conflict, Reserved
    <2>5. QED BY <2>2, <2>4 DEF SerialInv
  <1>3. ASSUME NEW e \in Executions, EvidenceChanges(e)
        PROVE  SerialInv'
    BY <1>1, <1>3 DEF EvidenceChanges
  <1>4. QED BY <1>1, <1>2, <1>3, RequestSerial DEF Next, vars

\* With one session, what a request has read is still so when it writes.
THEOREM SerialInductive ==
  ASSUME OneSession
  PROVE  Spec => []SerialInv
  <1>1. IInv /\ SerialInv /\ [Next]_vars => SerialInv'
    BY SerialStep
  <1>2. QED BY <1>1, SerialInit, Inductive, PTL DEF Spec

\* Locks are taken by one execution at a time, while no other has a common target.
LEMMA LocksTaken ==
  ASSUME OneSession, IInv, SerialInv, [Next]_vars,
         NEW e \in Executions, Reserved(e) = {}, Reserved(e)' # {}
  PROVE  ~Conflict(e) /\ \A f \in Executions \ {e} : Reserved(f)' = Reserved(f)
  <1>1. lockRows' # lockRows
    BY DEF Reserved
  <1>2. PICK w \in Workers : ReserveLocks(w) \/ Cancel(w)
    BY <1>1 DEF Next, Request, vars, rowVars, Begin, Validation, ReadRows, Abort, Validate,
           BuildPlan, Submit, Approve, Reject, MarkReady, Simulate, Create, EvidenceChanges
  <1> PICK s : s = session[w]
    OBVIOUS
  <1>3. CASE ReserveLocks(w)
    <2>1. s.ex \in Executions /\ ~Conflict(s.ex)
      BY <1>3, CurrentSession DEF ReserveLocks, Ops, SerialInv
    <2>2. \A f \in Executions \ {s.ex} : Reserved(f)' = Reserved(f)
      BY <1>3 DEF ReserveLocks, Reserved
    <2>3. e = s.ex
      BY <2>2
    <2>4. QED BY <2>1, <2>2, <2>3
  <1>4. CASE Cancel(w)
    <2>1. s.ex \in Executions /\ s.locks = lockRows[s.ex]
      BY <1>4, CurrentSession DEF Cancel, Ops, SerialInv
    <2>2. \A f \in Executions : Reserved(f)' = IF f = s.ex THEN {} ELSE Reserved(f)
      BY <1>4, <2>1 DEF Cancel, Reserved, IInv, TypeOK, LockRows
    <2>3. QED BY <2>2
  <1>5. QED BY <1>2, <1>3, <1>4

\* Requests that do not overlap never give two executions a common lock.
THEOREM LocksExclude ==
  ASSUME OneSession
  PROVE  Spec => []LockExclusion
  <1>1. Init => LockExclusion
    BY DEF Init, LockExclusion, Reserved, NoLocks
  <1>2. IInv /\ SerialInv /\ LockExclusion /\ [Next]_vars => LockExclusion'
    <2> SUFFICES ASSUME IInv, SerialInv, LockExclusion, [Next]_vars,
                        NEW e \in Executions, NEW f \in Executions, e # f,
                        Reserved(e)' # {}, Reserved(f)' # {}
                 PROVE  Targets[e] \cap Targets[f] = {}
      BY DEF LockExclusion
    <2>1. ASSUME NEW g \in Executions, NEW h \in Executions \ {g}, Reserved(g) = {},
                 Reserved(g)' # {}, Reserved(h)' # {}
          PROVE  Targets[g] \cap Targets[h] = {}
      <3>1. ~Conflict(g) /\ Reserved(h) # {}
        BY <2>1, LocksTaken
      <3>2. QED BY <3>1 DEF Conflict
    <2>2. CASE Reserved(e) = {}
      BY <2>1, <2>2
    <2>3. CASE Reserved(f) = {}
      <3>1. Targets[f] \cap Targets[e] = {}
        BY <2>1, <2>3
      <3>2. QED BY <3>1
    <2>4. CASE Reserved(e) # {} /\ Reserved(f) # {}
      BY <2>4 DEF LockExclusion
    <2>5. QED BY <2>2, <2>3, <2>4
  <1>3. QED BY <1>1, <1>2, SerialInductive, Inductive, PTL DEF Spec

\* Requests that do not overlap leave no execution ready without its locks and
\* its steps.
THEOREM ReadyBacked ==
  ASSUME OneSession
  PROVE  Spec => []ReadyIsBacked
  BY SerialInductive, PTL DEF SerialInv

\* Requests that do not overlap leave no cancelled execution with a lock.
THEOREM CancelReleases ==
  ASSUME OneSession
  PROVE  Spec => []CancelledHoldsNoLocks
  BY SerialInductive, PTL DEF SerialInv

\* Requests that do not overlap never change a plan that has been approved.
THEOREM PlanFixed ==
  ASSUME OneSession
  PROVE  Spec => ApprovedPlanIsFixed
  <1>1. IInv /\ SerialInv /\ [Next]_vars => [\A e \in approved : steps'[e] = steps[e]]_steps
    <2> SUFFICES ASSUME IInv, SerialInv, [Next]_vars, steps' # steps, NEW e \in approved
                 PROVE  steps'[e] = steps[e]
      OBVIOUS
    <2>1. PICK w \in Workers : BuildPlan(w)
      BY DEF Next, Request, vars, rowVars, Begin, Validation, ReadRows, Abort, Validate, Submit,
             Approve, Reject, ReserveLocks, MarkReady, Simulate, Cancel, Create, EvidenceChanges
    <2>2. /\ steps' = [steps EXCEPT ![session[w].ex] = @ \cup {w}]
          /\ ~session[w].planned /\ Commits(w, "plan")
      BY <2>1 DEF BuildPlan
    <2>3. session[w].planned <=> steps[session[w].ex] # {}
      BY <2>2, CurrentSession DEF Ops, SerialInv
    <2>4. steps[session[w].ex] = {}
      BY <2>2, <2>3
    <2>5. e # session[w].ex
      BY <2>4 DEF IInv, RowsAreBacked
    <2>6. QED BY <2>2, <2>5 DEF IInv, TypeOK
  <1>2. QED BY <1>1, Inductive, SerialInductive, PTL DEF Spec, ApprovedPlanIsFixed
=============================================================================
