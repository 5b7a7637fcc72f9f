----------------------------- MODULE CanaryPlan -----------------------------
(***************************************************************************)
(* How the devices of a password rollout are distributed over batches:     *)
(* normalize_canary_plan turns the requested batch sizes into sizes that   *)
(* use up the devices, PasswordRolloutRepository.create_batches cuts the   *)
(* list of job tasks accordingly.  PasswordChangeService has refused sizes *)
(* below one before, and an empty request is replaced by the default.      *)
(***************************************************************************)
EXTENDS SequencesExt

Least(m, n) == IF m < n THEN m ELSE n

DefaultPlan == <<1, 5, 20>>

\* Mutant: the devices that the request leaves over get no batch.
NormalizeDroppingRest(count, requested) ==
    LET take(acc, size) == LET n == Least(size, acc.remaining) IN
            IF n = 0 THEN acc
            ELSE [plan |-> Append(acc.plan, n), remaining |-> acc.remaining - n]
    IN  FoldLeft(take, [plan |-> <<>>, remaining |-> count], requested).plan

\* Each requested size is cut to the devices that remain; those that remain
\* after all of them form a last batch.
NormalizeCanaryPlan(count, requested) ==
    LET sizes == IF requested = <<>> THEN DefaultPlan ELSE requested
        take(acc, size) == LET n == Least(size, acc.remaining) IN
            IF n = 0 THEN acc
            ELSE [plan |-> Append(acc.plan, n), remaining |-> acc.remaining - n]
        done == FoldLeft(take, [plan |-> <<>>, remaining |-> count], sizes)
    IN  IF done.remaining > 0 THEN Append(done.plan, done.remaining) ELSE done.plan

\* The running offset of the batch with index k.
Offset(plan, k) ==
    LET end[n \in 0 .. Len(plan)] == IF n = 0 THEN 0 ELSE end[n - 1] + plan[n]
    IN  end[k - 1]

\* create_batches: the tasks of batch k, a slice of the list.
BatchSlice(ids, plan, k) ==
    SubSeq(ids, Offset(plan, k) + 1, Least(Offset(plan, k) + plan[k], Len(ids)))

InSlice(id, ids, plan, k) == \E i \in DOMAIN BatchSlice(ids, plan, k) :
                                BatchSlice(ids, plan, k)[i] = id

\* The batch that create_batches puts task id into.
BatchIndex(ids, plan, id) == CHOOSE k \in DOMAIN plan : InSlice(id, ids, plan, k)
=============================================================================
