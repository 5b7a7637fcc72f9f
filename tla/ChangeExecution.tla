-------------------------- MODULE ChangeExecution ---------------------------
(***************************************************************************)
(* The change execution orchestrator (ChangeExecutionService and its       *)
(* validation, plan and simulation services): executions that are          *)
(* validated, planned, submitted, approved, given locks, marked ready and  *)
(* simulated, each by one HTTP request in one database transaction.        *)
(*                                                                         *)
(* As in JobExecution, a session reads the row of its execution once and   *)
(* keeps it (view); every further query sees what is committed by then.    *)
(* All writes of a request come after its reads, and every request takes   *)
(* its row locks in the same order (lock rows, execution, steps), so that  *)
(* writing and committing are one step.  An UPDATE assigns only columns    *)
(* whose value differs from the row that was read.                         *)
(*                                                                         *)
(* A request that is refused changes nothing, its audit event included:    *)
(* the exception rolls the transaction back.                               *)
(***************************************************************************)
CONSTANTS
    Executions,    \* rows of change_executions
    Workers,       \* database sessions; each serves one request after another
    Targets,       \* Targets[e]: the target devices and the source workflow of e
    Scope,         \* devices and source workflows
    NeedsApproval, \* executions with requires_approval
    None           \* no session

ASSUME ChangeExecutionAssumption ==
    /\ Targets \in [Executions -> SUBSET Scope]
    /\ NeedsApproval \subseteq Executions

Status == {"absent", "draft", "validated", "blocked", "pending_approval", "approved",
           "rejected", "ready", "simulated", "cancelled"}
LockRows == [Workers -> {"none", "reserved", "released"}]
Ops == {"validate", "plan", "submit", "approve", "reject", "reserve", "markReady",
        "simulate", "cancel"}

\* A session: the next statement, the request, the execution as it was read,
\* whether validation found no error, and what was read of the execution's
\* steps and locks.
Session == [at : {"validation", "rows", "write"}, op : Ops, ex : Executions,
            view : Status, valid : BOOLEAN, planned : BOOLEAN, locks : LockRows]

VARIABLES
    status,    \* status[e]: column status of execution e
    evidence,  \* executions whose source, backups and lab validations are in order
    steps,     \* steps[e]: the sessions that have stored a step graph for e
    lockRows,  \* lockRows[e]: status of the lock rows each session has stored for e
    approved,  \* executions with approved_at
    completed, \* executions with completed_at
    session    \* session[w]: the request that w serves, or None

rowVars == <<status, steps, lockRows, approved, completed>>
vars    == <<rowVars, evidence, session>>

NoLocks == [w \in Workers |-> "none"]

\* An execution may have been created, planned and approved before.
Init ==
    /\ status \in [Executions -> {"absent", "approved"}]
    /\ evidence \in SUBSET Executions
    /\ \E w \in Workers :
         steps = [e \in Executions |-> IF status[e] = "absent" THEN {} ELSE {w}]
    /\ lockRows = [e \in Executions |-> NoLocks]
    /\ approved = {e \in Executions : status[e] = "approved"}
    /\ completed = {}
    /\ session = [w \in Workers |-> None]

-----------------------------------------------------------------------------
(* What the services ask the database                                      *)

Reserved(e) == {w \in Workers : lockRows[e][w] = "reserved"}

\* validate_locks: another execution has a reserved lock on one of the targets.
Conflict(e) == \E f \in Executions \ {e} :
                 Reserved(f) # {} /\ Targets[e] \cap Targets[f] # {}

NoErrors(e) == e \in evidence /\ ~Conflict(e)

\* Mutant: a lock row counts whatever its status.
HasLockRows(s) == Targets[s.ex] # {} => \E w \in Workers : s.locks[w] # "none"

\* _has_required_locks
HasRequiredLocks(s) == Targets[s.ex] # {} => \E w \in Workers : s.locks[w] = "reserved"

\* Mutant: approve and reject act whatever the status is.
AnyStatus(op, st) == st # "absent"

\* The status a request insists on; any other is a ConflictError or returned
\* unchanged.
Admits(op, st) ==
    /\ st # "absent"
    /\ op \in {"approve", "reject"}     => st = "pending_approval"
    /\ op \in {"reserve", "markReady"}  => st \in {"approved", "ready"}
    /\ op = "simulate"                  => st = "ready"
    /\ op = "cancel"                    => st \notin {"simulated", "cancelled"}

\* The first query after the execution row.
FirstQuery(op) == CASE op \in {"approve", "reject"}  -> "write"
                    [] op \in {"simulate", "cancel"} -> "rows"
                    [] OTHER                         -> "validation"

\* The value of a column that was read as old and is set to new.
Assigned(current, old, new) == IF new = old THEN current ELSE new

-----------------------------------------------------------------------------
(* Reading                                                                 *)

\* POST .../{execution_id}/...: the execution row is read.
Begin(w, op, e) ==
    /\ session[w] = None
    /\ Admits(op, status[e])
    /\ session' = [session EXCEPT ![w] =
                     [at |-> FirstQuery(op), op |-> op, ex |-> e, view |-> status[e],
                      valid |-> FALSE, planned |-> FALSE, locks |-> NoLocks]]
    /\ UNCHANGED <<rowVars, evidence>>

At(w, label) == session[w] # None /\ session[w].at = label

\* Requests that an error of the report does not stop.
Validated(w) == LET s == session[w] IN
    CASE s.op = "validate" -> TRUE
      [] s.op = "reserve"  -> ~Conflict(s.ex)
      [] OTHER             -> NoErrors(s.ex)

\* build_validation_report, or validate_locks alone in reserve_locks.
Validation(w) ==
    /\ At(w, "validation")
    /\ Validated(w)
    /\ session' = [session EXCEPT
                     ![w].valid = NoErrors(session[w].ex),
                     ![w].at = IF session[w].op = "validate" THEN "write" ELSE "rows"]
    /\ UNCHANGED <<rowVars, evidence>>

\* get_steps and get_locks of the execution itself.
ReadRows(w) ==
    /\ At(w, "rows")
    /\ session' = [session EXCEPT
                     ![w].planned = steps[session[w].ex] # {},
                     ![w].locks = lockRows[session[w].ex],
                     ![w].at = "write"]
    /\ UNCHANGED <<rowVars, evidence>>

\* The request ends without a write: refused, or its process is gone.
Abort(w) ==
    /\ session[w] # None
    /\ session' = [session EXCEPT ![w] = None]
    /\ UNCHANGED <<rowVars, evidence>>

-----------------------------------------------------------------------------
(* Writing; s is the session that commits                                  *)

Commits(w, op) ==
    /\ At(w, "write")
    /\ session[w].op = op
    /\ session' = [session EXCEPT ![w] = None]
    /\ UNCHANGED evidence

\* update_execution_status
SetStatus(s, new) ==
    /\ status' = [status EXCEPT ![s.ex] = Assigned(@, s.view, new)]
    /\ approved' = IF new = "approved" THEN approved \cup {s.ex} ELSE approved
    /\ completed' = IF new = "simulated" THEN completed \cup {s.ex} ELSE completed

\* create_execution
Create(e) ==
    /\ status[e] = "absent"
    /\ status' = [status EXCEPT ![e] = "draft"]
    /\ UNCHANGED <<steps, lockRows, approved, completed, evidence, session>>

\* validate_execution, from whatever status.
Validate(w) ==
    /\ Commits(w, "validate")
    /\ SetStatus(session[w], IF session[w].valid THEN "validated" ELSE "blocked")
    /\ UNCHANGED <<steps, lockRows>>

\* build_plan: an execution that has steps keeps them.
BuildPlan(w) ==
    LET s == session[w] IN
    /\ Commits(w, "plan")
    /\ steps' = IF s.planned THEN steps ELSE [steps EXCEPT ![s.ex] = @ \cup {w}]
    /\ UNCHANGED <<status, lockRows, approved, completed>>

\* Mutant: submit_for_approval does not ask for a plan.
SubmitUnplanned(w) ==
    LET s == session[w] IN
    /\ Commits(w, "submit")
    /\ SetStatus(s, IF s.ex \in NeedsApproval THEN "pending_approval" ELSE "approved")
    /\ UNCHANGED <<steps, lockRows>>

\* submit_for_approval, from whatever status.
Submit(w) ==
    LET s == session[w] IN
    /\ Commits(w, "submit")
    /\ s.planned
    /\ SetStatus(s, IF s.ex \in NeedsApproval THEN "pending_approval" ELSE "approved")
    /\ UNCHANGED <<steps, lockRows>>

Approve(w) ==
    /\ Commits(w, "approve")
    /\ SetStatus(session[w], "approved")
    /\ UNCHANGED <<steps, lockRows>>

Reject(w) ==
    /\ Commits(w, "reject")
    /\ SetStatus(session[w], "rejected")
    /\ UNCHANGED <<steps, lockRows>>

\* reserve_locks: an execution that has lock rows, released ones included,
\* gets no new ones.
ReserveLocks(w) ==
    LET s == session[w] IN
    /\ Commits(w, "reserve")
    /\ lockRows' = IF s.locks = NoLocks /\ Targets[s.ex] # {}
                   THEN [lockRows EXCEPT ![s.ex][w] = "reserved"] ELSE lockRows
    /\ UNCHANGED <<status, steps, approved, completed>>

\* mark_ready: ready from ready only without requires_approval.
MarkReady(w) ==
    LET s == session[w] IN
    /\ Commits(w, "markReady")
    /\ s.planned
    /\ HasRequiredLocks(s)
    /\ s.ex \in NeedsApproval => s.view = "approved"
    /\ SetStatus(s, "ready")
    /\ UNCHANGED <<steps, lockRows>>

\* simulate_execution: ready, simulating and simulated in one transaction.
Simulate(w) ==
    /\ Commits(w, "simulate")
    /\ session[w].planned
    /\ SetStatus(session[w], "simulated")
    /\ UNCHANGED <<steps, lockRows>>

\* Mutant: cancel_execution keeps the locks.
CancelKeepsLocks(w) ==
    /\ Commits(w, "cancel")
    /\ SetStatus(session[w], "cancelled")
    /\ UNCHANGED <<steps, lockRows>>

\* cancel_execution releases the locks it has read.
Cancel(w) ==
    LET s == session[w] IN
    /\ Commits(w, "cancel")
    /\ SetStatus(s, "cancelled")
    /\ lockRows' = [lockRows EXCEPT ![s.ex] =
                      [v \in Workers |-> IF s.locks[v] = "reserved" THEN "released" ELSE @[v]]]
    /\ UNCHANGED steps

\* Source workflows, snapshots and lab validations change, and snapshots age.
EvidenceChanges(e) ==
    /\ evidence' \in {evidence \cup {e}, evidence \ {e}}
    /\ UNCHANGED <<rowVars, session>>

Request(w) ==
    \/ \E op \in Ops, e \in Executions : Begin(w, op, e)
    \/ Validation(w) \/ ReadRows(w) \/ Abort(w)
    \/ Validate(w) \/ BuildPlan(w) \/ Submit(w) \/ Approve(w) \/ Reject(w)
    \/ ReserveLocks(w) \/ MarkReady(w) \/ Simulate(w) \/ Cancel(w)

Next ==
    \/ \E w \in Workers : Request(w)
    \/ \E e \in Executions : Create(e) \/ EvidenceChanges(e)

Spec == Init /\ [][Next]_vars

-----------------------------------------------------------------------------
(* Properties                                                              *)

\* The columns hold the values the services write, and a session only what it
\* can have read.
TypeOK ==
    /\ status \in [Executions -> Status]
    /\ evidence \subseteq Executions
    /\ steps \in [Executions -> SUBSET Workers]
    /\ lockRows \in [Executions -> LockRows]
    /\ approved \subseteq Executions
    /\ completed \subseteq Executions
    /\ session \in [Workers -> {None} \cup Session]

\* A change is approved only with a plan and simulated only after an approval,
\* whatever requests overlap with submit, approve, mark-ready and simulate.
Gate == INSTANCE ApprovalGate
          WITH Changes   <- Executions,
               planned   <- {e \in Executions : steps[e] # {}},
               approved  <- approved,
               simulated <- completed

ImplementsGate == Gate!Spec

-----------------------------------------------------------------------------
(* What holds when no two requests overlap, as the queries of the services *)
(* are not protected against each other.                                   *)

OneSession == \A v, w \in Workers : v = w

\* Executions with a target in common do not hold locks at the same time: what
\* validate_locks and reserve_locks are for.
LockExclusion ==
    \A e, f \in Executions :
        e # f /\ Reserved(e) # {} /\ Reserved(f) # {} => Targets[e] \cap Targets[f] = {}

\* An execution that is ready, or simulated, has its steps and holds all its
\* locks, whatever validations, cancellations and repeated submissions led here.
ReadyIsBacked ==
    \A e \in Executions : status[e] \in {"ready", "simulated"} =>
        /\ steps[e] # {}
        /\ Targets[e] # {} => Reserved(e) # {}

\* cancel_execution leaves no lock behind, so that the devices of a cancelled
\* execution are free for the others.
CancelledHoldsNoLocks ==
    \A e \in Executions : status[e] = "cancelled" => Reserved(e) = {}

\* The step graph that has been approved is the one that is simulated.
ApprovedPlanIsFixed == [][\A e \in approved : steps'[e] = steps[e]]_steps

-----------------------------------------------------------------------------
(* Inductive invariants                                                    *)

\* Rows: a status comes with the plan and the approval it stands for.
RowsAreBacked ==
    /\ \A e \in Executions :
         /\ status[e] = "pending_approval"    => steps[e] # {}
         /\ status[e] \in {"approved", "ready"} => e \in approved
    /\ \A e \in approved : steps[e] # {}
    /\ completed \subseteq approved

\* Sessions: what an open session has read stays true of plan and approval.
SessionsAreBacked ==
    \A w \in Workers : session[w] # None => LET s == session[w] IN
        /\ Admits(s.op, s.view)
        /\ s.view = "pending_approval"       => steps[s.ex] # {}
        /\ s.view \in {"approved", "ready"} => s.ex \in approved
        /\ s.planned                         => steps[s.ex] # {}

IInv == TypeOK /\ RowsAreBacked /\ SessionsAreBacked

\* With one session, what it has read is still so when it writes.
SessionIsCurrent ==
    \A w \in Workers : session[w] # None => LET s == session[w] IN
        /\ s.view = status[s.ex]
        /\ s.op = "reserve" /\ s.at # "validation" => ~Conflict(s.ex)
        /\ s.at = "write" /\ s.op \notin {"validate", "approve", "reject"} =>
              (s.planned <=> steps[s.ex] # {}) /\ s.locks = lockRows[s.ex]

SerialInv == SessionIsCurrent /\ ReadyIsBacked /\ CancelledHoldsNoLocks
=============================================================================
