---------------------------- MODULE VlanWorkflow ----------------------------
(***************************************************************************)
(* One VLAN change request (VlanWorkflowService and its validation and     *)
(* plan services): validated, planned, submitted, approved, rejected and   *)
(* cancelled, each by one HTTP request in one database transaction.  An    *)
(* approval makes the request ready in its own transaction.                *)
(*                                                                         *)
(* As in ChangeExecution, a session reads the row of the request once and  *)
(* keeps it (view), reads the device rows later, and writes at its end     *)
(* only the columns that it gives a new value.  approve alone writes, and  *)
(* so locks, the row of the request before it reads the device rows.       *)
(*                                                                         *)
(* The scope lists each of its devices once (scope_type device_ids): the   *)
(* validation resolves it again and finds the same, which all have a row.  *)
(* The impact preview writes no column that the workflow reads.            *)
(***************************************************************************)
EXTENDS VlanCommands, Sequences, FiniteSets

CONSTANTS
    Devices,      \* the devices in the scope of the request
    Workers,      \* database sessions; each serves one request after another
    Operation,    \* column operation
    Vlan,         \* column vlan_id
    NameAllowed,  \* whether validate_vlan_name accepts column vlan_name
    Interface,    \* whether scope_filter has an interface
    Required,     \* the columns dry_run_, backup_, lab_validation_required that are set
    Family,       \* Family[d]: the family of the renderer of d
    Configs,      \* configurations that snapshots show
    None,         \* no session
    MaxSnapshots, \* bound of the snapshots of a device
    MaxSubmits    \* bound of the rows of vlan_change_approvals

ASSUME VlanWorkflowAssumption ==
    /\ Operation \in Operations
    /\ Required \subseteq {"plan", "backup", "lab"}
    /\ {Interface, NameAllowed} \subseteq BOOLEAN
    /\ MaxSnapshots \in Nat
    /\ MaxSubmits \in Nat

Status == {"draft", "validated", "blocked", "pending_approval", "ready", "rejected",
           "cancelled"}
Decision == {"pending", "approved", "rejected"}
Ops == {"validate", "plan", "submit", "approve", "reject", "cancel"}
Evidence == {"device", "backup", "lab"}
Commands == [operation : Operations, vlan : {Vlan} \cup {c.text.access : c \in Configs},
             name : {NoName} \cup {DetectedName(c) : c \in Configs}]

\* A row of vlan_change_devices; backup is backup_snapshot_id, 0 without one.
Row == [status : {"pending", "validated", "ready", "blocked", "unsupported"},
        errors : SUBSET (Evidence \cup {"vlan", "interface"}),
        backup : 0 .. MaxSnapshots, lab : BOOLEAN,
        plan : BOOLEAN, rollback : {NoCommands} \cup Commands]

\* A session: the next statement, the request, the status and the device rows
\* as read, and the device rows as they shall be.
Session == [at : {"rows", "write"}, op : Ops, view : Status,
            old : [Devices -> Row], new : [Devices -> Row]]

VARIABLES
    status,    \* column status of the request
    decisions, \* the rows of vlan_change_approvals, in order of creation
    row,       \* row[d]: the device row of d
    snapshots, \* snapshots[d]: the latest snapshot: its number and what it shows
    evidence,  \* evidence[d]: what a validation of d finds in order now
    session    \* session[w]: the request that w serves, or None

rowVars == <<status, decisions, row>>
envVars == <<snapshots, evidence>>
vars    == <<rowVars, envVars, session>>

NewRow == [status |-> "pending", errors |-> {}, backup |-> 0, lab |-> FALSE,
           plan |-> FALSE, rollback |-> NoCommands]

\* create_vlan_change_request; the devices have no snapshot yet.
Init ==
    /\ status = "draft"
    /\ decisions = <<>>
    /\ row = [d \in Devices |-> NewRow]
    /\ \E c \in Configs : snapshots = [d \in Devices |-> [number |-> 0, config |-> c]]
    /\ evidence \in [Devices -> {{}, {"device"}}]
    /\ session = [w \in Workers |-> None]

-----------------------------------------------------------------------------
(* What the services compute from a device row                             *)

\* validate_vlan_id, validate_vlan_name, and the interface that the operation asks for.
RequestErrors ==
    (IF ValidVlan(Vlan) /\ NameAllowed THEN {} ELSE {"vlan"})
      \cup (IF Operation \in InterfaceOperations /\ ~Interface THEN {"interface"} ELSE {})

\* validate_device_support, validate_fresh_backup, validate_lab_validation
Errors(d) ==
    RequestErrors \cup (({"device"} \cup ({"backup", "lab"} \cap Required)) \ evidence[d])

\* The row of d after validate_vlan_request: a stale snapshot is recorded too,
\* and the plan stays.  (The driver decides between blocked and unsupported.)
ValidatedRow(d, r, bad) ==
    [r EXCEPT !.status = IF Errors(d) = {} THEN "validated" ELSE bad,
              !.errors = Errors(d),
              !.backup = IF "backup" \in Required THEN snapshots[d].number ELSE 0,
              !.lab    = "lab" \in Required /\ "lab" \in evidence[d]]

\* build_device_rollback_plan: without a snapshot the text is empty.
NoConfig == [name |-> NoVlan, mode |-> "access", access |-> NoVlan, trunk |-> FALSE,
             text |-> [name |-> NoName, access |-> NoVlan]]

RollbackOf(d) ==
    Rollback(Operation, Vlan, Family[d],
             IF snapshots[d].number = 0 THEN NoConfig ELSE snapshots[d].config)

Closed == {"blocked", "unsupported"}

\* The row of d after build_device_plan, whatever a validation said of it: a
\* pending row is made ready as well.
PlannedRow(d, r) ==
    IF r.status \in Closed THEN [r EXCEPT !.plan = FALSE, !.rollback = NoCommands]
    ELSE IF "interface" \in RequestErrors
    THEN [r EXCEPT !.status = "blocked", !.errors = {"interface"}]
    ELSE LET rendered == Family[d] \in Families
             rollback == IF rendered THEN RollbackOf(d) ELSE NoCommands
         IN  [r EXCEPT !.status = IF rendered /\ rollback # NoCommands THEN "ready" ELSE "blocked",
                       !.plan = rendered, !.rollback = rollback]

Actionable(r) == r.status \notin Closed

\* What _assert_has_plan_and_rollback asks of a device row.
Backed(r) ==
    /\ "plan" \in Required   => r.plan
    /\ r.rollback # NoCommands
    /\ "backup" \in Required => r.backup # 0
    /\ "lab" \in Required    => r.lab

NoErrors(rows) == \A d \in Devices : rows[d].errors = {}

\* The validation report has no errors and counts a ready device.
IsReady(rows) ==
    NoErrors(rows) /\ \E d \in Devices : rows[d].status \in {"validated", "ready"}

\* Mutant: one device that is backed is enough.
MaySubmitSome(rows) ==
    NoErrors(rows) /\ \E d \in Devices : Actionable(rows[d]) /\ Backed(rows[d])

\* The checks before a submission, and again within an approval, which does not
\* ask for the ready device.
MaySubmit(rows) ==
    /\ NoErrors(rows)
    /\ \E d \in Devices : Actionable(rows[d])
    /\ \A d \in Devices : Actionable(rows[d]) => Backed(rows[d])

-----------------------------------------------------------------------------
(* Reading                                                                 *)

\* The status a request insists on; any other is a ConflictError or returned
\* unchanged.
Admits(op, st) ==
    /\ op \in {"approve", "reject"} => st = "pending_approval"
    /\ op = "cancel"                => st # "cancelled"

\* POST .../requests/{request_id}/...: the row of the request is read.
Begin(w, op) ==
    /\ session[w] = None
    /\ Admits(op, status)
    /\ session' = [session EXCEPT ![w] =
                     [at |-> IF op \in {"reject", "cancel"} THEN "write" ELSE "rows",
                      op |-> op, view |-> status, old |-> row, new |-> row]]
    /\ UNCHANGED <<rowVars, envVars>>

At(w, label) == session[w] # None /\ session[w].at = label

\* An approval that has written its decision holds the row of the request.
RequestRowFree(w) == \A v \in Workers \ {w} : At(v, "write") => session[v].op # "approve"

\* get_request_devices, and what becomes of the rows.
ReadRows(w) ==
    LET s == session[w] IN
    /\ At(w, "rows")
    /\ s.op = "submit"  => IsReady(row) /\ MaySubmit(row)
    /\ s.op = "approve" => MaySubmit(row) /\ RequestRowFree(w)
    /\ \E bad \in Closed :
         session' = [session EXCEPT ![w] =
           [s EXCEPT !.at = "write", !.old = row,
                     !.new = CASE s.op = "validate" ->
                                    [d \in Devices |-> ValidatedRow(d, row[d], bad)]
                               [] s.op = "plan" -> [d \in Devices |-> PlannedRow(d, row[d])]
                               [] OTHER -> row]]
    /\ UNCHANGED <<rowVars, envVars>>

\* The request ends without a write: refused, or its process is gone.
Abort(w) ==
    /\ session[w] # None
    /\ session' = [session EXCEPT ![w] = None]
    /\ UNCHANGED <<rowVars, envVars>>

-----------------------------------------------------------------------------
(* Writing                                                                 *)

\* A column keeps what others have written unless the session changes it.
Assigned(current, old, new) == IF new = old THEN current ELSE new

Merged(s, d) == [c \in DOMAIN row[d] |-> Assigned(row[d][c], s.old[d][c], s.new[d][c])]

Commits(w, op) ==
    /\ At(w, "write")
    /\ session[w].op = op
    /\ session' = [session EXCEPT ![w] = None]
    /\ UNCHANGED envVars

\* update_request_status
SetStatus(w, new) ==
    /\ RequestRowFree(w)
    /\ status' = Assigned(status, session[w].view, new)

\* update_device_validation of every device, then the status of the request.
Validate(w) ==
    /\ Commits(w, "validate")
    /\ row' = [d \in Devices |-> Merged(session[w], d)]
    /\ SetStatus(w, IF IsReady(session[w].new) THEN "validated" ELSE "blocked")
    /\ UNCHANGED decisions

\* build_vlan_change_plan, from whatever status, which it keeps.
BuildPlan(w) ==
    /\ Commits(w, "plan")
    /\ row' = [d \in Devices |-> Merged(session[w], d)]
    /\ UNCHANGED <<status, decisions>>

\* Mutant: a new submission takes over the last decision.
SubmitAgain(w) ==
    /\ Commits(w, "submit")
    /\ Len(decisions) < MaxSubmits
    /\ decisions' = IF decisions = <<>> THEN <<"pending">> ELSE decisions
    /\ SetStatus(w, "pending_approval")
    /\ UNCHANGED row

\* submit_for_approval, from whatever status.
Submit(w) ==
    /\ Commits(w, "submit")
    /\ Len(decisions) < MaxSubmits
    /\ decisions' = Append(decisions, "pending")
    /\ SetStatus(w, "pending_approval")
    /\ UNCHANGED row

Decided(decision) == [decisions EXCEPT ![Len(decisions)] = decision]

\* approve_request: approved, then ready; both columns are always written.
Approve(w) ==
    /\ Commits(w, "approve")
    /\ decisions' = Decided("approved")
    /\ status' = "ready"
    /\ UNCHANGED row

\* reject_request
Reject(w) ==
    /\ Commits(w, "reject")
    /\ decisions' = Decided("rejected")
    /\ SetStatus(w, "rejected")
    /\ UNCHANGED row

\* cancel_request
Cancel(w) ==
    /\ Commits(w, "cancel")
    /\ SetStatus(w, "cancelled")
    /\ UNCHANGED <<row, decisions>>

-----------------------------------------------------------------------------
(* The other services                                                      *)

\* A backup: a new latest snapshot, fresh.
TakeSnapshot(d) ==
    /\ snapshots[d].number < MaxSnapshots
    /\ \E c \in Configs :
         snapshots' = [snapshots EXCEPT ![d] = [number |-> @.number + 1, config |-> c]]
    /\ evidence' = [evidence EXCEPT ![d] = @ \cup {"backup"}]
    /\ UNCHANGED <<rowVars, session>>

\* A snapshot grows old, a lab validation is approved or ends, and what is known
\* of the device changes.
EvidenceChanges(d) ==
    /\ \/ evidence' = [evidence EXCEPT ![d] = @ \ {"backup"}]
       \/ \E e \in {"device"} \cup ({"lab"} \cap Required) :
            evidence' = [evidence EXCEPT ![d] = IF e \in @ THEN @ \ {e} ELSE @ \cup {e}]
    /\ UNCHANGED <<rowVars, snapshots, session>>

Request(w) ==
    \/ \E op \in Ops : Begin(w, op)
    \/ ReadRows(w) \/ Abort(w)
    \/ Validate(w) \/ BuildPlan(w) \/ Submit(w) \/ Approve(w) \/ Reject(w) \/ Cancel(w)

Next ==
    \/ \E w \in Workers : Request(w)
    \/ \E d \in Devices : TakeSnapshot(d) \/ EvidenceChanges(d)

Spec == Init /\ [][Next]_vars

-----------------------------------------------------------------------------
(* Properties; those after TypeOK are what holds when no two requests       *)
(* overlap.                                                                *)

OneSession == \A v, w \in Workers : v = w

\* The columns hold the values the services write, and a session only what it
\* can have read.
TypeOK ==
    /\ status \in Status
    /\ decisions \in Seq(Decision)
    /\ row \in [Devices -> Row]
    /\ snapshots \in [Devices -> [number : 0 .. MaxSnapshots, config : Configs]]
    /\ evidence \in [Devices -> SUBSET Evidence]
    /\ session \in [Workers -> {None} \cup Session]

\* A request that waits for its approval, or is ready, stands on device rows
\* without errors, and each that is not taken out has its plan, its rollback and
\* the evidence it requires, whatever was validated or planned again since
\* (validate_request, build_plan, submit_for_approval, approve_request).
ReadyIsBacked ==
    status \in {"pending_approval", "ready"} =>
        \A d \in Devices :
            /\ row[d].errors = {}
            /\ Actionable(row[d]) =>
                 /\ row[d].rollback # NoCommands
                 /\ Required \subseteq (IF row[d].plan THEN {"plan"} ELSE {})
                                  \cup (IF row[d].backup # 0 THEN {"backup"} ELSE {})
                                  \cup (IF row[d].lab THEN {"lab"} ELSE {})

\* The status tells what the last approval row says: a decision of a former
\* submission never passes for one of the current (_latest_approval).
DecisionStands ==
    LET last(decision) == decisions # <<>> /\ decisions[Len(decisions)] = decision IN
    /\ status = "pending_approval" => last("pending")
    /\ status = "ready"            => last("approved")
    /\ status = "rejected"         => last("rejected")

-----------------------------------------------------------------------------
(* The inductive invariant, of requests that do not overlap                *)

ReadyRow(r) == r.errors = {} /\ (Actionable(r) => Backed(r))

\* The request lacks the interface that its operation asks for.
Unaddressed == "interface" \in RequestErrors

\* What a request has read is what is stored.  A submission and an approval
\* have found the device rows in order, and a plan that is made again keeps
\* them so.
Sound(s) ==
    /\ s.view = status /\ Admits(s.op, status)
    /\ s.at = "write" =>
         /\ s.old = row
         /\ s.op \in {"submit", "approve"} => ~Unaddressed /\ \A d \in Devices : ReadyRow(row[d])
         /\ s.op = "plan" /\ status \in {"pending_approval", "ready"} =>
              \A d \in Devices : ReadyRow(s.new[d])
         /\ Unaddressed => \A d \in Devices : s.new[d].rollback = NoCommands

IInv ==
    /\ TypeOK /\ ReadyIsBacked /\ DecisionStands
    /\ Unaddressed => /\ status \notin {"pending_approval", "ready"}
                      /\ \A d \in Devices : row[d].rollback = NoCommands
    /\ \A w \in Workers : session[w] # None => Sound(session[w])
=============================================================================
