------------------------- MODULE ConfigBackupProofs -------------------------
(***************************************************************************)
(* Theorems about ConfigBackup: whatever requests run, abort and overlap,  *)
(* for any jobs, items and devices, an item stores one snapshot at most,   *)
(* and items, counters and status tell of the snapshots that are stored.   *)
(***************************************************************************)
EXTENDS ConfigBackup, FiniteSetTheorems, TLAPS

\* The parts of an open session have their types.
LEMMA SessionParts ==
  ASSUME TypeOK, NEW w \in Workers, session[w] # None
  PROVE  /\ session[w] \in Session
         /\ session[w].at \in {"start", "items", "commit"}
         /\ session[w].job \in {None} \cup Jobs /\ session[w].seen \in Counters
         /\ session[w].items \in [Items -> Item] /\ session[w].todo \subseteq Items
         /\ session[w].snapshots \subseteq Snapshot
  BY DEF TypeOK, Session

\* The number of items with a status is a natural number, and grows with the items.
LEMMA CountIsNat ==
  ASSUME NEW j \in Jobs, NEW rows, NEW st
  PROVE  Count(j, rows, st) \in Nat
  <1>1. {i \in ItemsOf[j] : rows[i].status = st} \in SUBSET Items
    BY ConfigBackupAssumption
  <1>2. IsFiniteSet({i \in ItemsOf[j] : rows[i].status = st})
    BY <1>1, ConfigBackupAssumption, FS_Subset
  <1>3. QED BY <1>2, FS_CardinalityType DEF Count

LEMMA CountGrows ==
  ASSUME NEW j \in Jobs, NEW old, NEW new, NEW st,
         \A i \in ItemsOf[j] : old[i].status = st => new[i].status = st
  PROVE  Count(j, old, st) <= Count(j, new, st)
  <1> DEFINE Old == {i \in ItemsOf[j] : old[i].status = st}
             New == {i \in ItemsOf[j] : new[i].status = st}
  <1>1. New \in SUBSET Items /\ Old \in SUBSET New
    BY ConfigBackupAssumption
  <1>2. IsFiniteSet(New)
    BY <1>1, ConfigBackupAssumption, FS_Subset
  <1>3. QED BY <1>1, <1>2, FS_Subset DEF Count

\* Nothing is counted exactly if no item has the status.
LEMMA CountOfNone ==
  ASSUME NEW j \in Jobs, NEW rows, NEW st, Count(j, rows, st) = 0
  PROVE  \A i \in ItemsOf[j] : rows[i].status # st
  <1> DEFINE Those == {i \in ItemsOf[j] : rows[i].status = st}
  <1>1. IsFiniteSet(Those)
    <2>1. Those \in SUBSET Items  BY ConfigBackupAssumption
    <2>2. QED BY <2>1, ConfigBackupAssumption, FS_Subset
  <1>2. Those = {}
    BY <1>1, FS_EmptySet DEF Count
  <1>3. QED BY <1>2

LEMMA InitInv == Init => IInv
  <1> SUFFICES ASSUME Init PROVE IInv  OBVIOUS
  <1>1. TypeOK
    BY DEF Init, TypeOK, Status, Counters, Item, ItemStatus
  <1>2. CompletedIsBackedUp
    <2>1. SUFFICES ASSUME NEW j \in Jobs PROVE Count(j, items[j], "success") = 0
      BY ConfigBackupAssumption DEF Init, CompletedIsBackedUp
    <2>2. {i \in ItemsOf[j] : items[j][i].status = "success"} = {}
      BY ConfigBackupAssumption DEF Init
    <2>3. QED BY <2>2, FS_EmptySet DEF Count
  <1>3. OneSnapshotPerItem /\ RunsExclude
    BY DEF Init, OneSnapshotPerItem, RunsExclude, At
  <1>4. QED BY <1>1, <1>2, <1>3 DEF Init, IInv

-----------------------------------------------------------------------------
(* The shapes of the actions                                               *)

\* A statement before the commit changes the session of w only.
LEMMA SessionInv ==
  ASSUME IInv, NEW w \in Workers, UNCHANGED rowVars,
         NEW s \in {None} \cup Session, session' = [session EXCEPT ![w] = s],
         s # None => Faithful(s),
         s # None /\ s.at = "items" => \A v \in Workers \ {w} : At(v, "items") => session[v].job # s.job
  PROVE  IInv'
  <1> USE DEF IInv
  <1>1. TypeOK'
    BY DEF TypeOK, rowVars
  <1>2. OneSnapshotPerItem'
    BY DEF OneSnapshotPerItem, Naming, rowVars
  <1>3. CompletedIsBackedUp'
    BY DEF CompletedIsBackedUp, Count, rowVars
  <1>4. RunsExclude'
    BY DEF RunsExclude, At, TypeOK
  <1>5. \A v \in Workers : session'[v] # None => Faithful(session[v])'
    <2>1. SUFFICES ASSUME NEW v \in Workers, session'[v] # None PROVE Faithful(session[v])'
      OBVIOUS
    <2>2. session'[v] = IF v = w THEN s ELSE session[v]
      BY DEF TypeOK
    <2>3. Faithful(session'[v])
      BY <2>1, <2>2
    <2>4. QED BY <2>3 DEF Faithful, FaithfulRun, Naming, rowVars
  <1>6. QED BY <1>1, <1>2, <1>3, <1>4, <1>5

\* What items name once one of them has changed.
LEMMA NamingAfter ==
  ASSUME NEW j, NEW rows \in [Items -> Item], NEW i \in Items, NEW item \in Item, NEW n,
         ItemsOf[j] \subseteq Items
  PROVE  Naming(j, [rows EXCEPT ![i] = item], n)
           = (Naming(j, rows, n) \ {i})
             \cup {k \in ItemsOf[j] \cap {i} : item = [status |-> "success", snapshot |-> n]}
  BY DEF Naming

\* An item that a run is done with: with a snapshot of its own, or with none.
LEMMA WorkInv ==
  ASSUME IInv, NEW w \in Workers, NEW i \in Items, Working(w, i), UNCHANGED rowVars,
         NEW item \in Item, NEW new \in SUBSET Snapshot,
         session' = [session EXCEPT ![w] =
           [session[w] EXCEPT !.items[i] = item, !.todo = @ \ {i},
                              !.snapshots = @ \cup new]],
         \/ item.status \in {"failed", "unsupported"} /\ new = {}
         \/ /\ item.status = "success" /\ item.snapshot \notin Taken
            /\ new = {[number |-> item.snapshot, device |-> DeviceOf[i], job |-> session[w].job]}
  PROVE  IInv'
  <1> DEFINE s == session[w]
             j == s.job
             r == [s EXCEPT !.items[i] = item, !.todo = @ \ {i}, !.snapshots = @ \cup new]
  <1>1. s \in Session /\ s.at = "items" /\ s # None /\ i \in s.todo /\ Faithful(s)
    BY SessionParts DEF IInv, Working, At
  <1>2. /\ FaithfulRun(s) /\ j \in Jobs /\ s.seen.ok <= counters[j].ok
        /\ ItemsOf[j] \subseteq Items /\ i \in ItemsOf[j]
    BY <1>1, ConfigBackupAssumption DEF Faithful, FaithfulRun
  <1>3. r \in Session /\ r.at = "items" /\ r.job = j /\ r.seen = s.seen
        /\ r.todo = s.todo \ {i} /\ r.snapshots = s.snapshots \cup new
        /\ r.items = [s.items EXCEPT ![i] = item]
        /\ s.items \in [Items -> Item]
    <2>1. s.items \in [Items -> Item] /\ s.todo \subseteq Items /\ s.snapshots \subseteq Snapshot
      BY <1>1 DEF Session
    <2>2. /\ [s.items EXCEPT ![i] = item] \in [Items -> Item]
          /\ s.todo \ {i} \subseteq Items /\ s.snapshots \cup new \subseteq Snapshot
      BY <2>1
    <2>3. QED BY <1>1, <2>1, <2>2 DEF Session
  <1>4. \A k \in Items : r.items[k] = IF k = i THEN item ELSE s.items[k]
    BY <1>3
  \* The numbers of the rows that there are, and of the new one.
  <1>5. /\ \A t \in snapshots \cup s.snapshots : t.number \in Taken
        /\ \A k \in ItemsOf[j] : s.items[k].status = "success" => s.items[k].snapshot \in Taken
    <2>1. \A t \in snapshots \cup s.snapshots : t.number \in Taken
      BY <1>1 DEF Taken, Inserted
    <2>2. \A k \in ItemsOf[j] : s.items[k].status = "success" => s.items[k].snapshot \in Taken
      BY <1>2, <2>1 DEF FaithfulRun
    <2>3. QED BY <2>1, <2>2
  <1>6. \A n : Naming(j, r.items, n)
                 = (Naming(j, s.items, n) \ {i})
                   \cup {k \in ItemsOf[j] \cap {i} : item = [status |-> "success", snapshot |-> n]}
    <2>1. \A n : Naming(j, [s.items EXCEPT ![i] = item], n)
                   = (Naming(j, s.items, n) \ {i})
                     \cup {k \in ItemsOf[j] \cap {i} : item = [status |-> "success", snapshot |-> n]}
      <3> HIDE DEF s, j
      <3>1. QED BY <1>2, <1>3, NamingAfter
    <2>2. QED BY <1>3, <2>1
  <1>7. FaithfulRun(r)
    <2>1. r.todo \subseteq ItemsOf[r.job]
      BY <1>2, <1>3 DEF FaithfulRun
    <2>2. \A k \in Items : items[r.job][k].status = "success" =>
             r.items[k] = items[r.job][k] /\ k \notin r.todo
      BY <1>1, <1>2, <1>3, <1>4 DEF FaithfulRun
    <2>3. \A k \in r.todo : r.items[k].status # "success"
      BY <1>2, <1>3, <1>4 DEF FaithfulRun
    <2>4. \A t \in r.snapshots : t.job = r.job
      BY <1>2, <1>3 DEF FaithfulRun
    <2>5. ASSUME NEW t \in snapshots \cup r.snapshots, t.job = j
          PROVE  \E k \in ItemsOf[j] \ r.todo :
                    DeviceOf[k] = t.device /\ Naming(j, r.items, t.number) = {k}
      <3>1. CASE t \in snapshots \cup s.snapshots
        <4>1. PICK k \in ItemsOf[j] \ s.todo :
                 DeviceOf[k] = t.device /\ Naming(j, s.items, t.number) = {k}
          BY <1>2, <2>5, <3>1 DEF FaithfulRun
        <4>2. k # i /\ k \notin r.todo
          BY <1>1, <1>3
        <4>3. item # [status |-> "success", snapshot |-> t.number]
          <5>1. t.number \in Taken
            BY <1>5, <3>1
          <5>2. QED BY <5>1
        <4>4. Naming(j, r.items, t.number) = {k}
          BY <1>6, <4>1, <4>2, <4>3
        <4>5. QED BY <4>1, <4>2, <4>4
      <3>2. CASE t \in new
        <4>1. /\ item.status = "success" /\ item.snapshot \notin Taken
              /\ t = [number |-> item.snapshot, device |-> DeviceOf[i], job |-> j]
          BY <3>2
        <4>2. item = [status |-> "success", snapshot |-> t.number] /\ t.device = DeviceOf[i]
          BY <4>1 DEF Item
        <4>3. Naming(j, s.items, t.number) = {}
          BY <1>5, <4>1 DEF Naming
        <4>4. Naming(j, r.items, t.number) = {i}
          BY <1>2, <1>6, <4>2, <4>3
        <4>5. QED BY <1>2, <1>3, <4>2, <4>4
      <3>3. QED BY <1>3, <3>1, <3>2
    <2>6. \A k \in ItemsOf[j] \ r.todo :
             /\ r.items[k].status # "pending"
             /\ r.items[k].status = "success" =>
                  \E t \in snapshots \cup r.snapshots :
                      t.number = r.items[k].snapshot /\ t.device = DeviceOf[k] /\ t.job = j
      <3>1. SUFFICES ASSUME NEW k \in ItemsOf[j] \ r.todo
                     PROVE  /\ r.items[k].status # "pending"
                            /\ r.items[k].status = "success" =>
                                 \E t \in snapshots \cup r.snapshots :
                                     /\ t.number = r.items[k].snapshot
                                     /\ t.device = DeviceOf[k] /\ t.job = j
        OBVIOUS
      <3>2. CASE k = i
        <4>1. r.items[k] = item
          BY <1>4, <3>2
        <4>2. CASE item.status \in {"failed", "unsupported"}
          BY <4>1, <4>2
        <4>3. CASE /\ item.status = "success"
                   /\ new = {[number |-> item.snapshot, device |-> DeviceOf[i], job |-> j]}
          <5>1. [number |-> item.snapshot, device |-> DeviceOf[i], job |-> j] \in r.snapshots
            BY <1>3, <4>3
          <5>2. QED BY <3>2, <4>1, <4>3, <5>1
        <4>4. QED BY <4>2, <4>3
      <3>3. CASE k # i
        <4>1. k \in ItemsOf[j] \ s.todo /\ r.items[k] = s.items[k]
          BY <1>2, <1>3, <1>4, <3>3
        <4>2. QED BY <1>2, <1>3, <4>1 DEF FaithfulRun
      <3>4. QED BY <3>2, <3>3
    <2>7. r.job = j
      BY <1>3
    <2> HIDE DEF s, j, r
    <2>8. /\ \A t \in snapshots \cup r.snapshots : t.job = r.job =>
                \E k \in ItemsOf[r.job] \ r.todo :
                    DeviceOf[k] = t.device /\ Naming(r.job, r.items, t.number) = {k}
          /\ \A k \in ItemsOf[r.job] \ r.todo :
                /\ r.items[k].status # "pending"
                /\ r.items[k].status = "success" =>
                     \E t \in snapshots \cup r.snapshots :
                         t.number = r.items[k].snapshot /\ t.device = DeviceOf[k] /\ t.job = r.job
      BY <2>5, <2>6, <2>7
    <2>9. QED BY <2>1, <2>2, <2>3, <2>4, <2>8 DEF FaithfulRun
  <1>8. Faithful(r)
    BY <1>2, <1>3, <1>7 DEF Faithful
  <1>9. \A v \in Workers \ {w} : At(v, "items") => session[v].job # r.job
    BY <1>1, <1>3 DEF IInv, RunsExclude, At
  <1>10. QED BY <1>3, <1>8, <1>9, SessionInv

\* A commit ends the session of w and makes its snapshots visible.  Rows that
\* only grow keep the other sessions, of other jobs, faithful.
LEMMA OthersStayFaithful ==
  ASSUME IInv, NEW w \in Workers, NEW v \in Workers \ {w}, session'[v] = session[v],
         session[v] # None, snapshots \subseteq snapshots',
         \A j \in Jobs : counters[j].ok <= counters'[j].ok,
         \A j \in Jobs : counters[j].ok \in Nat /\ counters'[j].ok \in Nat,
         At(v, "items") => /\ items'[session[v].job] = items[session[v].job]
                           /\ \A t \in snapshots' \ snapshots : t.job # session[v].job
  PROVE  Faithful(session[v])'
  <1> DEFINE s == session[v]
  <1>1. Faithful(s) /\ s.seen \in Counters
    BY SessionParts DEF IInv
  <1>2. s.at # "commit" => s.job \in Jobs /\ s.seen.ok <= counters'[s.job].ok
    <2>1. s.seen.ok \in Nat
      BY <1>1 DEF Counters
    <2>2. QED BY <1>1, <2>1 DEF Faithful
  <1>3. s.at = "items" => FaithfulRun(s)'
    <2>1. SUFFICES ASSUME s.at = "items" PROVE FaithfulRun(s)'
      OBVIOUS
    <2>2. /\ items'[s.job] = items[s.job] /\ FaithfulRun(s)
          /\ \A t \in snapshots' \ snapshots : t.job # s.job
      BY <1>1, <2>1 DEF At, Faithful
    <2>3. QED BY <2>2 DEF FaithfulRun, Naming
  <1>4. QED BY <1>1, <1>2, <1>3 DEF Faithful

LEMMA CommitImportInv ==
  ASSUME IInv, NEW w \in Workers, CommitImport(w)
  PROVE  IInv'
  <1> USE DEF CommitImport, Commit
  <1> DEFINE s == session[w]
  <1>1. s # None /\ s.snapshots \subseteq Snapshot /\ \A t \in s.snapshots : t.job = None
    BY SessionParts DEF At, IInv, Faithful
  <1>2. TypeOK'
    BY <1>1 DEF IInv, TypeOK
  <1>3. OneSnapshotPerItem'
    BY <1>1 DEF IInv, OneSnapshotPerItem, Naming
  <1>4. CompletedIsBackedUp'
    BY <1>1 DEF IInv, CompletedIsBackedUp, Count
  <1>5. RunsExclude'
    BY DEF IInv, TypeOK, RunsExclude, At
  <1>6. \A v \in Workers : session'[v] # None => Faithful(session[v])'
    <2>1. SUFFICES ASSUME NEW v \in Workers, session'[v] # None PROVE Faithful(session[v])'
      OBVIOUS
    <2>2. v \in Workers \ {w} /\ session'[v] = session[v]
      BY <2>1 DEF IInv, TypeOK
    <2>3. \A j \in Jobs : counters[j].ok \in Nat
      BY DEF IInv, TypeOK, Counters
    <2>4. At(v, "items") => session[v].job # None
      BY <2>2, ConfigBackupAssumption DEF IInv, At, Faithful
    <2>5. QED BY <1>1, <2>1, <2>2, <2>3, <2>4, OthersStayFaithful
  <1>7. QED BY <1>2, <1>3, <1>4, <1>5, <1>6 DEF IInv

LEMMA FinishRunInv ==
  ASSUME IInv, NEW w \in Workers, FinishRun(w)
  PROVE  IInv'
  <1> DEFINE s  == session[w]
             j  == s.job
             ok == Count(j, s.items, "success")
             failed  == Count(j, s.items, "failed")
             skipped == Count(j, s.items, "unsupported")
  <1>1. /\ s \in Session /\ s.at = "items" /\ s # None /\ s.todo = {}
        /\ s.items \in [Items -> Item] /\ s.snapshots \subseteq Snapshot /\ s.seen \in Counters
        /\ j \in Jobs /\ s.seen.ok <= counters[j].ok /\ FaithfulRun(s)
    BY SessionParts DEF IInv, FinishRun, At, Faithful
  <1>2. ok \in Nat /\ failed \in Nat /\ skipped \in Nat
    BY <1>1, CountIsNat
  <1>3. /\ session' = [session EXCEPT ![w] = None]
        /\ snapshots' = snapshots \cup s.snapshots
        /\ items' = [items EXCEPT ![j] = s.items]
        /\ status' = [status EXCEPT ![j] = FinalStatus(ok, failed, skipped)]
        /\ counters' = [counters EXCEPT ![j] =
                          [ok      |-> Assigned(@.ok, s.seen.ok, ok),
                           failed  |-> Assigned(@.failed, s.seen.failed, failed),
                           skipped |-> Assigned(@.skipped, s.seen.skipped, skipped)]]
    BY DEF FinishRun, Commit
  <1>4. counters[j].ok = Count(j, items[j], "success") /\ counters[j].ok <= ok
    <2>1. counters[j].ok = Count(j, items[j], "success")
      BY <1>1 DEF IInv, CompletedIsBackedUp
    <2>2. \A i \in ItemsOf[j] : items[j][i].status = "success" => s.items[i].status = "success"
      BY <1>1, ConfigBackupAssumption DEF FaithfulRun
    <2>3. QED BY <1>1, <2>1, <2>2, CountGrows
  \* The count that is read at the start is never above the count of now.
  <1>5. /\ \A i \in Jobs : counters[i] \in Counters /\ counters'[i] \in Counters
        /\ counters'[j].ok = ok
        /\ \A i \in Jobs \ {j} : counters'[i] = counters[i]
    <2>1. counters \in [Jobs -> Counters]
      BY DEF IInv, TypeOK
    <2>2. counters[j] \in Counters /\ s.seen \in Counters
      BY <1>1, <2>1
    <2>3. Assigned(counters[j].ok, s.seen.ok, ok) = ok
      BY <1>1, <1>2, <1>4, <2>2 DEF Assigned, Counters
    <2>4. [ok      |-> Assigned(counters[j].ok, s.seen.ok, ok),
           failed  |-> Assigned(counters[j].failed, s.seen.failed, failed),
           skipped |-> Assigned(counters[j].skipped, s.seen.skipped, skipped)] \in Counters
      BY <1>2, <2>2 DEF Assigned, Counters
    <2>5. QED BY <1>1, <1>3, <2>1, <2>3, <2>4
  <1>6. /\ items'[j] = s.items /\ \A i \in Jobs \ {j} : items'[i] = items[i]
        /\ status'[j] = FinalStatus(ok, failed, skipped)
        /\ \A i \in Jobs \ {j} : status'[i] = status[i]
    BY <1>1, <1>3 DEF IInv, TypeOK
  <1>7. TypeOK'
    <2>1. FinalStatus(ok, failed, skipped) \in Status
      BY DEF FinalStatus, Status
    <2>2. counters' \in [Jobs -> Counters]
      BY <1>3, <1>5 DEF IInv, TypeOK
    <2>3. QED BY <1>1, <1>3, <2>1, <2>2 DEF IInv, TypeOK
  <1>8. OneSnapshotPerItem'
    <2>1. SUFFICES ASSUME NEW t \in snapshots', t.job # None
                   PROVE  \E i \in ItemsOf[t.job] :
                             /\ DeviceOf[i] = t.device
                             /\ Naming(t.job, items'[t.job], t.number) = {i}
      BY DEF OneSnapshotPerItem, Naming
    <2>2. CASE t.job = j
      <3>1. t \in snapshots \cup s.snapshots
        BY <1>3, <2>1
      <3>2. PICK i \in ItemsOf[j] :
               DeviceOf[i] = t.device /\ Naming(j, s.items, t.number) = {i}
        BY <1>1, <2>2, <3>1 DEF FaithfulRun
      <3>3. QED BY <1>6, <2>2, <3>2
    <2>3. CASE t.job # j
      <3>1. t \in snapshots
        BY <1>1, <1>3, <2>1, <2>3 DEF FaithfulRun
      <3>2. t.job \in Jobs \ {j}
        BY <2>1, <2>3, <3>1 DEF IInv, TypeOK, Snapshot
      <3>3. QED BY <1>6, <2>1, <3>1, <3>2 DEF IInv, OneSnapshotPerItem
    <2>4. QED BY <2>2, <2>3
  <1>9. CompletedIsBackedUp'
    <2>1. SUFFICES ASSUME NEW k \in Jobs
                   PROVE  /\ counters'[k].ok = Count(k, items'[k], "success")
                          /\ \A i \in ItemsOf[k] :
                               /\ status'[k] = "completed" => items'[k][i].status = "success"
                               /\ items'[k][i].status = "success" =>
                                    \E t \in snapshots' : /\ t.number = items'[k][i].snapshot
                                                          /\ t.device = DeviceOf[i] /\ t.job = k
      BY DEF CompletedIsBackedUp, Count
    <2>2. CASE k # j
      <3>1. /\ items'[k] = items[k] /\ status'[k] = status[k] /\ counters'[k] = counters[k]
            /\ snapshots \subseteq snapshots'
        BY <1>3, <1>5, <1>6, <2>2
      <3>2. CompletedIsBackedUp
        BY DEF IInv
      <3>3. QED BY <3>1, <3>2 DEF CompletedIsBackedUp
    <2>3. CASE k = j
      <3>1. ASSUME NEW i \in ItemsOf[j], FinalStatus(ok, failed, skipped) = "completed"
            PROVE  s.items[i].status = "success"
        <4>1. failed = 0 /\ skipped = 0
          BY <1>2, <3>1 DEF FinalStatus
        <4>2. s.items[i].status # "failed" /\ s.items[i].status # "unsupported"
          BY <1>1, <4>1, CountOfNone
        <4>3. s.items[i].status # "pending"
          BY <1>1 DEF FaithfulRun
        <4>4. s.items[i].status \in ItemStatus
          BY <1>1, ConfigBackupAssumption DEF Item
        <4>5. QED BY <4>2, <4>3, <4>4 DEF ItemStatus
      <3>2. \A i \in ItemsOf[j] : s.items[i].status = "success" =>
               \E t \in snapshots' : t.number = s.items[i].snapshot /\ t.device = DeviceOf[i] /\ t.job = j
        BY <1>1, <1>3 DEF FaithfulRun
      <3>3. QED BY <1>5, <1>6, <2>3, <3>1, <3>2
    <2>4. QED BY <2>2, <2>3
  <1>10. RunsExclude'
    BY <1>3 DEF IInv, TypeOK, RunsExclude, At
  <1>11. \A v \in Workers : session'[v] # None => Faithful(session[v])'
    <2>1. SUFFICES ASSUME NEW v \in Workers, session'[v] # None PROVE Faithful(session[v])'
      OBVIOUS
    <2>2. v \in Workers \ {w} /\ session'[v] = session[v] /\ session[v] # None
      BY <1>3, <2>1 DEF IInv, TypeOK
    <2>3. \A i \in Jobs : /\ counters[i].ok \in Nat /\ counters'[i].ok \in Nat
                          /\ counters[i].ok <= counters'[i].ok
      BY <1>4, <1>5 DEF Counters
    <2>4. At(v, "items") => session[v].job \in Jobs \ {j}
      BY <1>1, <2>2 DEF IInv, Faithful, RunsExclude, At
    <2>5. At(v, "items") => items'[session[v].job] = items[session[v].job]
      BY <1>6, <2>4
    <2>6. At(v, "items") => \A t \in snapshots' \ snapshots : t.job # session[v].job
      BY <1>1, <1>3, <2>4 DEF FaithfulRun
    <2>7. QED BY <1>3, <2>2, <2>3, <2>5, <2>6, OthersStayFaithful
  <1>12. QED BY <1>7, <1>8, <1>9, <1>10, <1>11 DEF IInv

-----------------------------------------------------------------------------
(* The actions                                                             *)

LEMMA BeginRunInv ==
  ASSUME IInv, NEW w \in Workers, NEW j \in Jobs, BeginRun(w, j)
  PROVE  IInv'
  <1> DEFINE s == [at |-> "start", job |-> j, seen |-> counters[j], items |-> items[j],
                   todo |-> {}, snapshots |-> {}]
  <1>1. s \in Session
    BY DEF IInv, TypeOK, Session
  <1>2. Faithful(s)
    BY DEF Faithful, IInv, TypeOK, Counters
  <1>3. UNCHANGED rowVars /\ session' = [session EXCEPT ![w] = s]
    BY DEF BeginRun
  <1>4. QED BY <1>1, <1>2, <1>3, SessionInv

LEMMA StartRunInv ==
  ASSUME IInv, NEW w \in Workers, StartRun(w)
  PROVE  IInv'
  <1> DEFINE s == session[w]
             j == s.job
             r == [s EXCEPT !.at = "items", !.items = items[j], !.todo = Todo(j, items[j])]
  <1>1. /\ s \in Session /\ s # None /\ s.at = "start" /\ Faithful(s)
        /\ JobRowFree(w, j) /\ UNCHANGED rowVars /\ session' = [session EXCEPT ![w] = r]
    BY SessionParts DEF StartRun, IInv, At
  <1>2. j \in Jobs /\ s.snapshots = {} /\ s.seen.ok <= counters[j].ok
    BY <1>1 DEF Faithful
  <1>3. Todo(j, items[j]) \subseteq Items /\ items[j] \in [Items -> Item]
    BY <1>2, ConfigBackupAssumption DEF Todo, IInv, TypeOK
  <1>4. /\ r \in Session /\ r.at = "items" /\ r.job = j /\ r.seen = s.seen
        /\ r.items = items[j] /\ r.todo = Todo(j, items[j]) /\ r.snapshots = {}
    BY <1>1, <1>2, <1>3 DEF Session
  <1>5. FaithfulRun(r)
    <2>1. /\ \A i \in ItemsOf[j] \ r.todo : items[j][i].status = "success"
          /\ \A i \in r.todo : items[j][i].status # "success"
      BY <1>4 DEF Todo
    <2>2. \A i \in ItemsOf[j] \ r.todo :
             \E t \in snapshots :
                t.number = items[j][i].snapshot /\ t.device = DeviceOf[i] /\ t.job = j
      BY <1>2, <2>1 DEF IInv, CompletedIsBackedUp
    <2>3. \A i \in ItemsOf[j] \ r.todo :
             /\ r.items[i].status # "pending"
             /\ \E t \in snapshots \cup r.snapshots :
                   t.number = r.items[i].snapshot /\ t.device = DeviceOf[i] /\ t.job = r.job
      BY <1>4, <2>1, <2>2
    <2>4. /\ r.todo \subseteq ItemsOf[r.job]
          /\ \A i \in Items : items[r.job][i].status = "success" =>
                r.items[i] = items[r.job][i] /\ i \notin r.todo
      BY <1>4 DEF Todo
    <2>5. ASSUME NEW t \in snapshots, t.job = j
          PROVE  \E i \in ItemsOf[j] \ r.todo :
                    DeviceOf[i] = t.device /\ Naming(j, r.items, t.number) = {i}
      <3>1. PICK i \in ItemsOf[j] :
               DeviceOf[i] = t.device /\ Naming(j, items[j], t.number) = {i}
        BY <1>2, <2>5, ConfigBackupAssumption DEF IInv, OneSnapshotPerItem
      <3>2. items[j][i].status = "success"
        BY <3>1 DEF Naming
      <3>3. i \in ItemsOf[j] \ r.todo
        <4>1. i \notin Todo(j, items[j])
          BY <3>2 DEF Todo
        <4>2. QED BY <1>4, <4>1
      <3>4. Naming(j, r.items, t.number) = {i}
        BY <1>4, <3>1
      <3> HIDE DEF r, j
      <3>5. QED BY <3>1, <3>3, <3>4
    <2>6. \A t \in r.snapshots : t.job = r.job
      BY <1>4
    <2>7. r.job = j /\ r.snapshots = {}
      BY <1>4
    <2> HIDE DEF s, j, r
    <2>8. \A t \in snapshots \cup r.snapshots : t.job = r.job =>
             \E i \in ItemsOf[r.job] \ r.todo :
                 DeviceOf[i] = t.device /\ Naming(r.job, r.items, t.number) = {i}
      BY <2>5, <2>7
    <2>9. \A i \in r.todo : r.items[i].status # "success"
      BY <1>4, <2>1
    <2>10. QED BY <2>3, <2>4, <2>6, <2>7, <2>8, <2>9 DEF FaithfulRun
  <1>6. Faithful(r)
    BY <1>2, <1>4, <1>5 DEF Faithful
  <1>7. \A v \in Workers \ {w} : At(v, "items") => session[v].job # r.job
    BY <1>1, <1>4 DEF JobRowFree
  <1>8. QED BY <1>1, <1>4, <1>6, <1>7, SessionInv

LEMMA BackUpInv ==
  ASSUME IInv, NEW w \in Workers, NEW i \in Items, BackUp(w, i)
  PROVE  IInv'
  <1> DEFINE s == session[w]
             row(n)  == [number |-> n, device |-> DeviceOf[i], job |-> s.job]
             item(n) == [status |-> "success", snapshot |-> n]
  <1>1. s \in Session
    BY SessionParts DEF IInv, BackUp, Working, At
  <1>2. PICK n \in Numbers :
          /\ IsNew(n)
          /\ session' = [session EXCEPT ![w] =
                           ItemDone(WithSnapshot(s, DeviceOf[i], n), i, "success", n)]
    BY DEF BackUp
  <1>3. ItemDone(WithSnapshot(s, DeviceOf[i], n), i, "success", n)
          = [s EXCEPT !.items[i] = item(n), !.todo = @ \ {i}, !.snapshots = @ \cup {row(n)}]
    BY <1>1 DEF ItemDone, WithSnapshot, Session
  <1>4. item(n) \in Item /\ {row(n)} \in SUBSET Snapshot
    BY <1>1, <1>2, ConfigBackupAssumption DEF Item, ItemStatus, Snapshot, Session
  <1>5. item(n).status = "success" /\ item(n).snapshot = n /\ n \notin Taken
    <2>1. n \in Nat
      BY <1>2, ConfigBackupAssumption DEF Numbers
    <2>2. QED BY <1>2, <2>1 DEF IsNew
  <1>6. Working(w, i) /\ UNCHANGED rowVars
    BY DEF BackUp
  <1>7. /\ session' = [session EXCEPT ![w] =
                           [s EXCEPT !.items[i] = item(n), !.todo = @ \ {i},
                                     !.snapshots = @ \cup {row(n)}]]
        /\ {row(n)} = {[number |-> item(n).snapshot, device |-> DeviceOf[i], job |-> s.job]}
    BY <1>2, <1>3
  <1>8. QED BY <1>4, <1>5, <1>6, <1>7, WorkInv

LEMMA NotBackedUpInv ==
  ASSUME IInv, NEW w \in Workers, NEW i \in Items, NotBackedUp(w, i)
  PROVE  IInv'
  <1> DEFINE s == session[w]
             outcome == IF DeviceOf[i] \in Unsupported THEN "unsupported" ELSE "failed"
             item == [status |-> outcome, snapshot |-> s.items[i].snapshot]
  <1>1. s \in Session /\ s.items \in [Items -> Item]
    BY SessionParts DEF IInv, NotBackedUp, Working, At
  <1>2. Working(w, i) /\ UNCHANGED rowVars
        /\ session' = [session EXCEPT ![w] = ItemDone(s, i, outcome, s.items[i].snapshot)]
    BY DEF NotBackedUp
  <1>3. ItemDone(s, i, outcome, s.items[i].snapshot)
          = [s EXCEPT !.items[i] = item, !.todo = @ \ {i}, !.snapshots = @ \cup {}]
    BY <1>1 DEF ItemDone, Session
  <1>4. item \in Item /\ item.status \in {"failed", "unsupported"} /\ {} \in SUBSET Snapshot
    BY <1>1 DEF Item, ItemStatus
  <1> HIDE DEF item
  <1>5. QED BY <1>2, <1>3, <1>4, WorkInv

LEMMA ImportInv ==
  ASSUME IInv, NEW w \in Workers, NEW d \in Devices, Import(w, d)
  PROVE  IInv'
  <1> DEFINE empty == [at |-> "commit", job |-> None,
                       seen |-> [ok |-> 0, failed |-> 0, skipped |-> 0],
                       items |-> [i \in Items |-> [status |-> "pending", snapshot |-> None]],
                       todo |-> {}, snapshots |-> {}]
  <1>1. PICK n \in Numbers : session' = [session EXCEPT ![w] = WithSnapshot(empty, d, n)]
    BY DEF Import
  <1> DEFINE row  == [number |-> n, device |-> d, job |-> None]
             full == [at |-> "commit", job |-> None,
                      seen |-> [ok |-> 0, failed |-> 0, skipped |-> 0],
                      items |-> [i \in Items |-> [status |-> "pending", snapshot |-> None]],
                      todo |-> {}, snapshots |-> {row}]
  <1>2. WithSnapshot(empty, d, n) = full
    <2>1. empty.job = None /\ empty.snapshots \cup {row} = {row}
      OBVIOUS
    <2>2. WithSnapshot(empty, d, n) = [empty EXCEPT !.snapshots = {row}]
      BY <2>1 DEF WithSnapshot
    <2>3. QED BY <2>2
  <1>3. row \in Snapshot
    BY <1>1 DEF Snapshot
  <1>4. full \in Session
    BY <1>3 DEF Session, Counters, Item, ItemStatus
  <1>5. Faithful(full) /\ full.at = "commit"
    BY DEF Faithful
  <1>6. UNCHANGED rowVars
    BY DEF Import
  <1>7. session' = [session EXCEPT ![w] = full]
    BY <1>1, <1>2
  <1> HIDE DEF full
  <1>8. QED BY <1>4, <1>5, <1>6, <1>7, SessionInv

LEMMA StepInv == IInv /\ [Next]_vars => IInv'
  <1> SUFFICES ASSUME IInv, [Next]_vars PROVE IInv'  OBVIOUS
  <1>1. CASE UNCHANGED vars
    <2> USE <1>1 DEF vars, rowVars
    <2>1. TypeOK'                BY DEF IInv, TypeOK
    <2>2. OneSnapshotPerItem'    BY DEF IInv, OneSnapshotPerItem, Naming
    <2>3. CompletedIsBackedUp'   BY DEF IInv, CompletedIsBackedUp, Count
    <2>4. RunsExclude'           BY DEF IInv, RunsExclude, At
    <2>5. \A w \in Workers : session'[w] # None => Faithful(session[w])'
      BY DEF IInv, Faithful, FaithfulRun, Naming
    <2>6. QED BY <2>1, <2>2, <2>3, <2>4, <2>5 DEF IInv
  <1>2. CASE Next
    <2>1. PICK w \in Workers : Request(w)
      BY <1>2 DEF Next
    <2>2. CASE Abort(w)
      BY <2>2, SessionInv DEF Abort
    <2>3. QED BY <2>1, <2>2, BeginRunInv, StartRunInv, FinishRunInv, CommitImportInv,
                 BackUpInv, NotBackedUpInv, ImportInv DEF Request
  <1>3. QED BY <1>1, <1>2

LEMMA Inductive == Spec => []IInv
  BY InitInv, StepInv, PTL DEF Spec

-----------------------------------------------------------------------------
(* The results                                                             *)

\* The columns of jobs and items hold the values that the services write, the
\* counters are natural numbers, and a session holds what it can have read.
THEOREM TypeCorrect == Spec => []TypeOK
  <1>1. IInv => TypeOK
    BY DEF IInv
  <1>2. QED BY <1>1, Inductive, PTL

\* However often and by however many requests at a time run_backup_job runs a
\* job, each item stores one snapshot at most, also when the job lists a device
\* twice: a snapshot of the job is the one of one item, which is of its device.
THEOREM OneSnapshot == Spec => []OneSnapshotPerItem
  <1>1. IInv => OneSnapshotPerItem
    BY DEF IInv
  <1>2. QED BY <1>1, Inductive, PTL

\* A completed job has a snapshot of its own for each of its items, and
\* successful_devices counts the items with success, though runs that overlap
\* write only the columns that differ from what they have read.
THEOREM BackedUp == Spec => []CompletedIsBackedUp
  <1>1. IInv => CompletedIsBackedUp
    BY DEF IInv
  <1>2. QED BY <1>1, Inductive, PTL
=============================================================================
