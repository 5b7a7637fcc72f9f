---------------------------- MODULE ConfigBackup ----------------------------
(***************************************************************************)
(* Configuration backups (ConfigBackupService): jobs that take a snapshot  *)
(* of each of their devices, may be run again, and may run while           *)
(* other jobs, imports and lab backups store snapshots of the same devices.*)
(*                                                                         *)
(* Each request is one database transaction of its own session.  A run     *)
(* reads the job, writes its status, which takes the row of the job until  *)
(* the end, and only then reads the items.  Nothing of it is visible to    *)
(* others before it commits.  A column whose value is the one the session  *)
(* has read is not written.  The diffs between snapshots are left out.     *)
(*                                                                         *)
(* A job has an item for each device of its scope, and for a scope of      *)
(* device_ids an item for each id of the list: a device that is listed     *)
(* twice has two items, each backed up on its own.                         *)
(***************************************************************************)
EXTENDS Integers, FiniteSets

CONSTANTS
    Jobs,        \* rows of config_backup_jobs
    Items,       \* rows of config_backup_job_items
    Devices,
    ItemsOf,     \* ItemsOf[j]: the items of job j
    DeviceOf,    \* DeviceOf[i]: the device of item i
    Unsupported, \* devices whose driver allows no read-only backup
    Workers,     \* database sessions; each serves one request after another
    None,        \* no session, no job, no snapshot
    MaxSnapshots \* bound of the snapshots

ASSUME ConfigBackupAssumption ==
    /\ IsFiniteSet(Items)
    /\ ItemsOf \in [Jobs -> SUBSET Items] /\ DeviceOf \in [Items -> Devices]
    /\ Unsupported \subseteq Devices
    /\ MaxSnapshots \in Nat
    /\ None \notin Jobs \cup Nat

Status == {"pending", "running", "completed", "completed_with_errors", "failed"}
ItemStatus == {"pending", "success", "failed", "unsupported"}
Numbers == 1 .. MaxSnapshots

\* Rows: a snapshot has a number of its own, its id.
Item == [status : ItemStatus, snapshot : {None} \cup Numbers]
Counters == [ok : Nat, failed : Nat, skipped : Nat]
Snapshot == [number : Numbers, device : Devices, job : {None} \cup Jobs]

\* A session: the next statement, the job (None for an import), the columns of
\* the job as read, the items as it has changed them, the items to do, and the
\* rows it has inserted.
Session == [at : {"start", "items", "commit"}, job : {None} \cup Jobs, seen : Counters,
            items : [Items -> Item], todo : SUBSET Items,
            snapshots : SUBSET Snapshot]

VARIABLES
    status,    \* status[j]: column status of job j
    counters,  \* counters[j]: its columns successful_, failed_, skipped_devices
    items,     \* items[j][i]: item i of job j
    snapshots, \* rows of config_snapshots
    session    \* session[w]: the request that w serves, or None

rowVars == <<status, counters, items, snapshots>>
vars    == <<rowVars, session>>

\* create_backup_job for every job.
Init ==
    /\ status = [j \in Jobs |-> "pending"]
    /\ counters = [j \in Jobs |-> [ok |-> 0, failed |-> 0, skipped |-> 0]]
    /\ items = [j \in Jobs |-> [i \in Items |-> [status |-> "pending", snapshot |-> None]]]
    /\ snapshots = {}
    /\ session = [w \in Workers |-> None]

-----------------------------------------------------------------------------
(* Snapshots                                                               *)

\* The numbers of all rows, visible or not.
Inserted == UNION {session[w].snapshots : w \in {v \in Workers : session[v] # None}}
Taken    == {s.number : s \in snapshots \cup Inserted}

\* The id of a new snapshot is the id of no row; numbers are given out in order.
IsNew(n) == Taken \subseteq 1 .. n - 1 /\ n - 1 \in Taken \cup {0}

\* create_snapshot
WithSnapshot(s, d, n) ==
    [s EXCEPT !.snapshots = @ \cup {[number |-> n, device |-> d, job |-> s.job]}]

-----------------------------------------------------------------------------
(* POST /config-backups/jobs/{job_id}/run                                  *)

\* The row of the job is read.
BeginRun(w, j) ==
    /\ session[w] = None
    /\ session' = [session EXCEPT ![w] =
                     [at |-> "start", job |-> j, seen |-> counters[j], items |-> items[j],
                      todo |-> {}, snapshots |-> {}]]
    /\ UNCHANGED rowVars

At(w, label) == session[w] # None /\ session[w].at = label

\* A run holds the row of its job from the first write to the commit.
JobRowFree(w, j) == \A v \in Workers \ {w} : At(v, "items") => session[v].job # j

\* Items of an earlier run that had success are skipped.
Todo(j, rows) == {i \in ItemsOf[j] : rows[i].status # "success"}

\* Mutant: the items are those that were read with the job.
StartOnOldItems(w) ==
    LET s == session[w] IN
    /\ At(w, "start")
    /\ JobRowFree(w, s.job)
    /\ session' = [session EXCEPT ![w] = [s EXCEPT !.at = "items", !.todo = Todo(s.job, s.items)]]
    /\ UNCHANGED rowVars

\* Status running is written, perhaps after waiting for another run of the job,
\* and the items are read.
StartRun(w) ==
    LET s == session[w] IN
    /\ At(w, "start")
    /\ JobRowFree(w, s.job)
    /\ session' = [session EXCEPT ![w] =
                     [s EXCEPT !.at = "items", !.items = items[s.job],
                               !.todo = Todo(s.job, items[s.job])]]
    /\ UNCHANGED rowVars

\* backup_device_config for the next item.
Working(w, i) == At(w, "items") /\ i \in session[w].todo

ItemDone(s, i, outcome, snapshot) ==
    [s EXCEPT !.items[i] = [status |-> outcome, snapshot |-> snapshot], !.todo = @ \ {i}]

BackUp(w, i) ==
    LET s == session[w] IN
    /\ Working(w, i) /\ DeviceOf[i] \notin Unsupported
    /\ \E n \in Numbers :
         /\ IsNew(n)
         /\ session' = [session EXCEPT ![w] =
                          ItemDone(WithSnapshot(s, DeviceOf[i], n), i, "success", n)]
    /\ UNCHANGED rowVars

\* The driver does not allow a backup, or the device cannot be read; the
\* snapshot column stays.
NotBackedUp(w, i) ==
    LET s == session[w] IN
    /\ Working(w, i)
    /\ session' = [session EXCEPT ![w] =
                     ItemDone(s, i, IF DeviceOf[i] \in Unsupported THEN "unsupported" ELSE "failed",
                              s.items[i].snapshot)]
    /\ UNCHANGED rowVars

\* update_job_counters
Count(j, rows, st) == Cardinality({i \in ItemsOf[j] : rows[i].status = st})

Assigned(current, old, new) == IF new = old THEN current ELSE new

\* Mutant: only failed items make the job end with errors.
FinalStatusOfFailures(ok, failed, skipped) ==
    IF failed = 0 THEN "completed" ELSE IF ok = 0 THEN "failed" ELSE "completed_with_errors"

FinalStatus(ok, failed, skipped) ==
    IF failed > 0 /\ ok = 0 THEN "failed"
    ELSE IF failed + skipped > 0 THEN "completed_with_errors" ELSE "completed"

\* Rows that the session has inserted become visible.
Commit(w) ==
    /\ session' = [session EXCEPT ![w] = None]
    /\ snapshots' = snapshots \cup session[w].snapshots

\* The counters, the final status, and the commit.
FinishRun(w) ==
    LET s  == session[w]
        ok == Count(s.job, s.items, "success")
        failed  == Count(s.job, s.items, "failed")
        skipped == Count(s.job, s.items, "unsupported")
    IN
    /\ At(w, "items") /\ s.todo = {}
    /\ Commit(w)
    /\ items' = [items EXCEPT ![s.job] = s.items]
    /\ counters' = [counters EXCEPT ![s.job] =
                      [ok      |-> Assigned(@.ok, s.seen.ok, ok),
                       failed  |-> Assigned(@.failed, s.seen.failed, failed),
                       skipped |-> Assigned(@.skipped, s.seen.skipped, skipped)]]
    /\ status' = [status EXCEPT ![s.job] = FinalStatus(ok, failed, skipped)]

-----------------------------------------------------------------------------
(* The other ways to a snapshot                                            *)

\* import_snapshot and LabBackupRunner.backup_device, up to the commit.
Import(w, d) ==
    LET empty == [at |-> "commit", job |-> None, seen |-> [ok |-> 0, failed |-> 0, skipped |-> 0],
                  items |-> [i \in Items |-> [status |-> "pending", snapshot |-> None]],
                  todo |-> {}, snapshots |-> {}]
    IN
    /\ session[w] = None
    /\ \E n \in Numbers :
         IsNew(n) /\ session' = [session EXCEPT ![w] = WithSnapshot(empty, d, n)]
    /\ UNCHANGED rowVars

CommitImport(w) ==
    /\ At(w, "commit")
    /\ Commit(w)
    /\ UNCHANGED <<status, counters, items>>

\* The request ends without a commit: an error, or its process is gone.
Abort(w) ==
    /\ session[w] # None
    /\ session' = [session EXCEPT ![w] = None]
    /\ UNCHANGED rowVars

Request(w) ==
    \/ \E j \in Jobs : BeginRun(w, j)
    \/ StartRun(w) \/ FinishRun(w) \/ CommitImport(w) \/ Abort(w)
    \/ \E i \in Items : BackUp(w, i) \/ NotBackedUp(w, i)
    \/ \E d \in Devices : Import(w, d)

Next == \E w \in Workers : Request(w)

Spec == Init /\ [][Next]_vars

-----------------------------------------------------------------------------
(* Properties                                                              *)

\* The columns hold the values the services write, and a session only what it
\* can have read.
TypeOK ==
    /\ status \in [Jobs -> Status]
    /\ counters \in [Jobs -> Counters]
    /\ items \in [Jobs -> [Items -> Item]]
    /\ snapshots \subseteq Snapshot
    /\ session \in [Workers -> {None} \cup Session]

\* The items of job j that name snapshot n.
Naming(j, rows, n) == {i \in ItemsOf[j] : rows[i] = [status |-> "success", snapshot |-> n]}

\* However often a job is run, and by however many requests at a time, each of its
\* items stores one snapshot at most, also of a device that is listed twice: a
\* snapshot of the job is the one of an item of its device, and of no other item
\* (run_backup_job skips an item that has success).
OneSnapshotPerItem ==
    \A s \in snapshots : s.job # None =>
        \E i \in ItemsOf[s.job] :
            DeviceOf[i] = s.device /\ Naming(s.job, items[s.job], s.number) = {i}

\* A job that is completed has a snapshot of its own for each of its items; an
\* item with success has one whatever the status (mark_item_success).  And
\* successful_devices is the number of items with success, though runs that
\* overlap write it from what they have read before (update_job_counters).
CompletedIsBackedUp ==
    \A j \in Jobs :
        /\ counters[j].ok = Count(j, items[j], "success")
        /\ \A i \in ItemsOf[j] :
             LET item == items[j][i] IN
             /\ status[j] = "completed" => item.status = "success"
             /\ item.status = "success" =>
                  \E s \in snapshots :
                     s.number = item.snapshot /\ s.device = DeviceOf[i] /\ s.job = j

-----------------------------------------------------------------------------
(* The inductive invariant                                                 *)

\* The row of a job lets one run at a time past its first write.
RunsExclude ==
    \A v, w \in Workers :
        At(v, "items") /\ At(w, "items") /\ session[v].job = session[w].job => v = w

\* What a run has in hand: items that had success are as they are stored, an item
\* to do has none, an item that it is done with names the snapshot there is, and
\* the snapshots of the job, its own included, are each named by one item.
FaithfulRun(s) ==
    /\ s.todo \subseteq ItemsOf[s.job]
    /\ \A i \in Items : items[s.job][i].status = "success" =>
          s.items[i] = items[s.job][i] /\ i \notin s.todo
    /\ \A i \in s.todo : s.items[i].status # "success"
    /\ \A t \in s.snapshots : t.job = s.job
    /\ \A t \in snapshots \cup s.snapshots : t.job = s.job =>
          \E i \in ItemsOf[s.job] \ s.todo :
              DeviceOf[i] = t.device /\ Naming(s.job, s.items, t.number) = {i}
    /\ \A i \in ItemsOf[s.job] \ s.todo :
          /\ s.items[i].status # "pending"
          /\ s.items[i].status = "success" =>
               \E t \in snapshots \cup s.snapshots :
                   t.number = s.items[i].snapshot /\ t.device = DeviceOf[i] /\ t.job = s.job

Faithful(s) ==
    /\ s.at = "commit" => \A t \in s.snapshots : t.job = None
    /\ s.at # "commit" => s.job \in Jobs /\ s.seen.ok <= counters[s.job].ok
    /\ s.at = "start"  => s.snapshots = {}
    /\ s.at = "items"  => FaithfulRun(s)

IInv ==
    /\ TypeOK /\ OneSnapshotPerItem /\ CompletedIsBackedUp /\ RunsExclude
    /\ \A w \in Workers : session[w] # None => Faithful(session[w])
=============================================================================
