--------------------------- MODULE PlanningProofs ---------------------------
(***************************************************************************)
(* The calculations of MCPlanning, for every value of its constants and,   *)
(* in the lemmas, for every input: the next run of a schedule, the         *)
(* rollback and the risk of a VLAN change, the batches of a rollout, what  *)
(* is read of a terminal, the commands a session sends, the import of a    *)
(* device list, a run of the command line, the families, drivers and       *)
(* plans, the lab's two gates, the sessions of the inventory and of the    *)
(* library, what the services and the reports make of a device's           *)
(* evidence, the files of plans, the tables of vendors and families, and   *)
(* the configurations that are left of a terminal's output.                *)
(*                                                                         *)
(* The library's induction theorems have an operator as a parameter, so    *)
(* the induction here is over sets of numbers (LeastElement and            *)
(* SetInduction): RunExists gives a recursive function its values and      *)
(* FoldExists a fold.                                                      *)
(***************************************************************************)
EXTENDS MCPlanning, FiniteSetTheorems, WellFoundedInduction, TLAPS

\* The answer to a problem is the solution of its kind.
AnswerIsSolution ==
    /\ problem \in Problems
    /\ Solved("canary")   => answer = Batches
    /\ Solved("vlan")     => answer = Change
    /\ Solved("schedule") => answer = Due
    /\ Solved("backup")   => answer = Backup
    /\ Solved("session")  => answer = Session
    /\ Solved("clean")    => answer = Cleaned
    /\ Solved("import")   => answer = Imports
    /\ Solved("driver")   => answer = Decisions
    /\ Solved("capture")  => answer = Captured
    /\ Solved("apply")    => answer = Applies
    /\ Solved("file")     => answer = Filed
    /\ Solved("evidence") => answer = Reported

\* A solution is a function of the problem.
LEMMA SameSolutions ==
  ASSUME problem' = problem
  PROVE  /\ Batches' = Batches /\ Change' = Change /\ Due' = Due /\ Imports' = Imports
         /\ Backup' = Backup /\ Session' = Session /\ Captured' = Captured /\ Cleaned' = Cleaned
         /\ Decisions' = Decisions /\ Applies' = Applies /\ Filed' = Filed /\ Reported' = Reported
  <1>1. Batches' = Batches /\ Change' = Change /\ Due' = Due /\ Imports' = Imports
    BY DEF Batches, Change, Due, Imports
  <1>2. Decisions' = Decisions /\ Reported' = Reported
    BY DEF Decisions, Reported
  <1>3. Applies' = Applies
    <2>1. Answered' = Answered
      BY Zenon DEF Answered
    <2>2. QED BY <2>1 DEF Applies
  <1>4. Filed' = Filed
    <2>1. Made' = Made
      BY DEF Made
    <2>2. QED BY <2>1 DEF Filed
  <1>5. Backup' = Backup /\ Session' = Session
    BY DEF Backup, Session
  <1>6. Captured' = Captured
    BY DEF Captured
  <1>7. Cleaned' = Cleaned
    <2>1. Raw' = Raw
      BY DEF Raw
    <2>2. QED BY <2>1 DEF Cleaned
  <1>8. QED BY <1>1, <1>2, <1>3, <1>4, <1>5, <1>6, <1>7

LEMMA Solutions == Spec => []AnswerIsSolution
  <1>1. Init => AnswerIsSolution
    BY DEF Init, AnswerIsSolution, Solved
  <1>2. AnswerIsSolution /\ [Next]_vars => AnswerIsSolution'
    <2> SUFFICES ASSUME AnswerIsSolution, [Next]_vars PROVE AnswerIsSolution'
      OBVIOUS
    <2>1. problem' = problem
      BY DEF Next, Solve, vars
    <2>2. QED BY <2>1, SameSolutions DEF Next, vars, Solve, Solved, AnswerIsSolution
  <1>3. QED BY <1>1, <1>2, PTL DEF Spec


-----------------------------------------------------------------------------
(* Induction                                                               *)

\* A set of natural numbers has a least element.
LEMMA LeastElement ==
  ASSUME NEW T, T \subseteq Nat, T # {}
  PROVE  \E x \in T : \A y \in T : x <= y
  <1> DEFINE R == OpToRel(<, Nat)
  <1>1. \A x, y \in Nat : x < y => <<x, y>> \in R
    BY DEF OpToRel
  <1>2. IsWellFoundedOn(R, Nat)
    BY NatLessThanWellFounded
  <1> HIDE DEF R
  <1>3. PICK x \in T : \A y \in T : ~(<<y, x>> \in R)
    BY <1>2, WFMin
  <1>4. \A y \in T : ~(y < x)
    BY <1>1, <1>3
  <1>5. QED BY <1>4

\* A set that holds zero and, with a number, the next one, holds all of them.
LEMMA SetInduction ==
  ASSUME NEW S, 0 \in S, \A n \in Nat : n \in S => n + 1 \in S
  PROVE  Nat \subseteq S
  <1> SUFFICES ASSUME Nat \ S # {} PROVE FALSE
    OBVIOUS
  <1>1. PICK x \in Nat \ S : \A y \in Nat \ S : x <= y
    BY LeastElement
  <1>2. x # 0
    OBVIOUS
  <1>3. x - 1 \in Nat /\ x - 1 \in S
    BY <1>1, <1>2
  <1>4. QED BY <1>3

\* Functions that take one step for each number up to N, on a set S.
StepsOn(S, N) == [1 .. N -> [S -> S]]

\* What these steps lead to, one after another.
IsRun(g, S, base, N, step) ==
    /\ g \in [0 .. N -> S]
    /\ g[0] = base
    /\ \A n \in 1 .. N : g[n] = step[n][g[n - 1]]

\* From a first value on, a function takes one from step to step.
LEMMA RunExists ==
  ASSUME NEW S, NEW base \in S, NEW N \in Nat, NEW step \in StepsOn(S, N)
  PROVE  \E g : IsRun(g, S, base, N, step)
  <1> DEFINE IsRunTo(g, k) == /\ g \in [0 .. k -> S]
                              /\ g[0] = base
                              /\ \A n \in 1 .. k : g[n] = step[n][g[n - 1]]
             Good == {k \in Nat : k <= N => \E g : IsRunTo(g, k)}
  <1>1. 0 \in Good
    <2>1. IsRunTo([i \in 0 .. 0 |-> base], 0)
      OBVIOUS
    <2>2. QED BY <2>1
  <1>2. ASSUME NEW k \in Nat, k + 1 <= N, NEW g, IsRunTo(g, k)
        PROVE  \E h : IsRunTo(h, k + 1)
    <2> DEFINE last == step[k + 1][g[k]]
               h == [n \in 0 .. k + 1 |-> IF n = k + 1 THEN last ELSE g[n]]
    <2>1. k + 1 \in 1 .. N /\ g \in [0 .. k -> S] /\ g[0] = base /\ g[k] \in S
      BY <1>2
    <2>2. last \in S
      <3>1. step[k + 1] \in [S -> S]
        BY <2>1 DEF StepsOn
      <3>2. QED BY <2>1, <3>1
    <2> HIDE DEF last
    <2>3. h \in [0 .. k + 1 -> S]
      BY <2>1, <2>2
    <2>4. h[0] = base
      BY <2>1
    <2>5. ASSUME NEW n \in 1 .. k + 1 PROVE h[n] = step[n][h[n - 1]]
      <3>1. CASE n = k + 1
        <4>1. h[n] = last /\ h[n - 1] = g[k]
          BY <3>1
        <4>2. QED BY <3>1, <4>1 DEF last
      <3>2. CASE n # k + 1
        <4>1. n \in 1 .. k /\ h[n] = g[n] /\ h[n - 1] = g[n - 1]
          BY <3>2
        <4>2. QED BY <1>2, <4>1
      <3>3. QED BY <3>1, <3>2
    <2> HIDE DEF h
    <2>6. QED BY <2>3, <2>4, <2>5
  <1>3. \A k \in Nat : k \in Good => k + 1 \in Good
    <2> HIDE DEF IsRunTo
    <2> SUFFICES ASSUME NEW k \in Nat, k \in Good, k + 1 <= N
                 PROVE  \E h : IsRunTo(h, k + 1)
      OBVIOUS
    <2>1. PICK g : IsRunTo(g, k)
      OBVIOUS
    <2>2. QED BY <1>2, <2>1
  <1> HIDE DEF IsRunTo
  <1>4. N \in Good
    <2> HIDE DEF Good
    <2>1. QED BY <1>1, <1>3, SetInduction
  <1>5. PICK g : IsRunTo(g, N)
    BY <1>4
  <1>6. QED BY <1>5 DEF IsRunTo, IsRun

\* A function on an interval from 1 is a sequence.
LEMMA FunctionIsSeq ==
  ASSUME NEW S, NEW n \in Nat, NEW f \in [1 .. n -> S]
  PROVE  f \in Seq(S) /\ Len(f) = n
  OBVIOUS

-----------------------------------------------------------------------------
(* Folds                                                                   *)

LEMMA GreatestIs ==
  ASSUME NEW T, T \subseteq Int, NEW m \in T, \A x \in T : x <= m
  PROVE  Max(T) = m
  <1>1. \A y \in T : (\A x \in T : y >= x) => y = m
    OBVIOUS
  <1>2. QED BY <1>1 DEF Max

LEMMA GreatestIn ==
  ASSUME NEW N \in Nat, NEW T \in SUBSET (1 .. N), T # {}
  PROVE  Max(T) \in 1 .. N
  <1> DEFINE rest == {N - x : x \in T}
  <1>1. rest \subseteq Nat /\ rest # {}
    OBVIOUS
  <1> HIDE DEF rest
  <1>2. PICK r \in rest : \A q \in rest : r <= q
    BY <1>1, LeastElement
  <1>3. PICK m \in T : r = N - m
    BY <1>2 DEF rest
  <1>4. \A x \in T : x <= m
    <2>1. \A x \in T : N - x \in rest
      BY DEF rest
    <2>2. QED BY <1>2, <1>3, <2>1
  <1>5. T \subseteq Int
    OBVIOUS
  <1>6. Max(T) = m
    BY ONLY <1>3, <1>4, <1>5, GreatestIs
  <1>7. QED BY <1>3, <1>6

\* What folds the subsets of 1 .. N by those steps, from the greatest element down.
IsFold(f, S, base, N, step) ==
    /\ f \in [SUBSET (1 .. N) -> S]
    /\ \A T \in SUBSET (1 .. N) :
          f[T] = IF T = {} THEN base ELSE step[Max(T)][f[T \ {Max(T)}]]

\* A function that folds the subsets of a sequence's domain, by their greatest element.
LEMMA FoldExists ==
  ASSUME NEW S, NEW base \in S, NEW N \in Nat, NEW step \in StepsOn(S, N)
  PROVE  \E f : IsFold(f, S, base, N, step)
  <1> DEFINE IsFoldTo(g, k) ==
                /\ g \in [SUBSET (1 .. k) -> S]
                /\ \A T \in SUBSET (1 .. k) :
                      g[T] = IF T = {} THEN base ELSE step[Max(T)][g[T \ {Max(T)}]]
             Good == {k \in Nat : k <= N => \E g : IsFoldTo(g, k)}
  <1>1. 0 \in Good
    <2>1. IsFoldTo([T \in SUBSET (1 .. 0) |-> base], 0)
      <3>1. \A T \in SUBSET (1 .. 0) : T = {}
        OBVIOUS
      <3>2. QED BY <3>1
    <2>2. QED BY <2>1
  <1>2. ASSUME NEW k \in Nat, k + 1 <= N, NEW g, IsFoldTo(g, k)
        PROVE  \E h : IsFoldTo(h, k + 1)
    <2> DEFINE h == [T \in SUBSET (1 .. k + 1) |->
                       IF k + 1 \in T THEN step[k + 1][g[T \ {k + 1}]] ELSE g[T]]
    <2>1. \A T \in SUBSET (1 .. k + 1) : /\ k + 1 \notin T => T \in SUBSET (1 .. k)
                                        /\ T \ {k + 1} \in SUBSET (1 .. k)
      OBVIOUS
    <2>0. step[k + 1] \in [S -> S]
      <3>1. k + 1 \in 1 .. N
        BY <1>2
      <3>2. QED BY <3>1 DEF StepsOn
    <2>2. /\ g \in [SUBSET (1 .. k) -> S]
          /\ \A T \in SUBSET (1 .. k) :
                g[T] = IF T = {} THEN base ELSE step[Max(T)][g[T \ {Max(T)}]]
      BY <1>2
    <2>3. h \in [SUBSET (1 .. k + 1) -> S]
      <3>1. ASSUME NEW T \in SUBSET (1 .. k + 1)
            PROVE  (IF k + 1 \in T THEN step[k + 1][g[T \ {k + 1}]] ELSE g[T]) \in S
        <4>1. CASE k + 1 \in T
          <5>1. g[T \ {k + 1}] \in S
            BY <2>1, <2>2
          <5>2. QED BY <2>0, <4>1, <5>1
        <4>2. CASE k + 1 \notin T
          BY <2>1, <2>2, <4>2
        <4>3. QED BY <4>1, <4>2
      <3>2. QED BY <3>1
    <2>4. ASSUME NEW T \in SUBSET (1 .. k + 1)
          PROVE  h[T] = IF T = {} THEN base ELSE step[Max(T)][h[T \ {Max(T)}]]
      <3>1. CASE k + 1 \in T
        <4>1. Max(T) = k + 1
          <5>1. T \subseteq Int /\ k + 1 \in T /\ \A x \in T : x <= k + 1
            BY <3>1
          <5>2. QED BY ONLY <5>1, GreatestIs
        <4>2. h[T] = step[k + 1][g[T \ {k + 1}]]
          BY <3>1
        <4>3. h[T \ {k + 1}] = g[T \ {k + 1}]
          OBVIOUS
        <4>4. QED BY <3>1, <4>1, <4>2, <4>3
      <3>2. CASE k + 1 \notin T
        <4>1. T \in SUBSET (1 .. k) /\ h[T] = g[T]
          BY <2>1, <3>2
        <4>2. h[T \ {Max(T)}] = g[T \ {Max(T)}]
          BY <3>2
        <4> HIDE DEF h
        <4>3. QED BY <2>2, <4>1, <4>2
      <3>3. QED BY <3>1, <3>2
    <2> HIDE DEF h
    <2>5. QED BY <2>3, <2>4
  <1>3. \A k \in Nat : k \in Good => k + 1 \in Good
    <2> HIDE DEF IsFoldTo
    <2> SUFFICES ASSUME NEW k \in Nat, k \in Good, k + 1 <= N
                 PROVE  \E h : IsFoldTo(h, k + 1)
      OBVIOUS
    <2>1. PICK g : IsFoldTo(g, k)
      OBVIOUS
    <2>2. QED BY <1>2, <2>1
  <1> HIDE DEF IsFoldTo
  <1>4. N \in Good
    <2> HIDE DEF Good
    <2>1. QED BY <1>1, <1>3, SetInduction
  <1>5. PICK g : IsFoldTo(g, N)
    BY <1>4
  <1>6. QED BY <1>5 DEF IsFoldTo, IsFold

\* The fold of a sequence is made of the folds of its beginnings.
LEMMA FoldOfNext ==
  ASSUME NEW n \in Nat
  PROVE  1 .. n + 1 # {} /\ Max(1 .. n + 1) = n + 1 /\ (1 .. n + 1) \ {n + 1} = 1 .. n
  <1> DEFINE T == 1 .. n + 1
  <1>1. T \subseteq Int /\ n + 1 \in T /\ (\A x \in T : x <= n + 1) /\ T \ {n + 1} = 1 .. n
    OBVIOUS
  <1> HIDE DEF T
  <1>2. Max(T) = n + 1
    BY <1>1, GreatestIs
  <1>3. QED BY <1>1, <1>2 DEF T

-----------------------------------------------------------------------------
(* Schedules                                                               *)

\* A time is its day, its hour and its minute.
LEMMA Clock ==
  ASSUME NEW t \in Nat
  PROVE  /\ MinuteOf(t) \in Minutes /\ HourOf(t) \in Hours /\ DayOf(t) \in Nat
         /\ t = DayOf(t) * MinutesPerDay + HourOf(t) * MinutesPerHour + MinuteOf(t)
  BY DEF MinuteOf, HourOf, DayOf, Minutes, Hours, MinutesPerDay, MinutesPerHour

LEMMA ClockOf ==
  ASSUME NEW d \in Nat, NEW h \in Hours, NEW m \in Minutes, NEW t,
         t = d * MinutesPerDay + h * MinutesPerHour + m
  PROVE  t \in Nat /\ MinuteOf(t) = m /\ HourOf(t) = h /\ DayOf(t) = d
  BY DEF MinuteOf, HourOf, DayOf, Minutes, Hours, MinutesPerDay, MinutesPerHour

\* Two times with the same minute, or with the same time of day, are an hour or
\* a day apart.
LEMMA Spaced ==
  ASSUME NEW a \in Nat, NEW b \in Nat, a < b
  PROVE  /\ MinuteOf(a) = MinuteOf(b) => a + MinutesPerHour <= b
         /\ MinuteOf(a) = MinuteOf(b) /\ HourOf(a) = HourOf(b) => a + MinutesPerDay <= b
  <1>1. MinuteOf(a) = MinuteOf(b) => a + MinutesPerHour <= b
    BY DEF MinuteOf, MinutesPerHour
  <1>2. ASSUME MinuteOf(a) = MinuteOf(b), HourOf(a) = HourOf(b)
        PROVE  a + MinutesPerDay <= b
    <2>1. /\ a = DayOf(a) * 1440 + HourOf(a) * 60 + MinuteOf(a)
          /\ b = DayOf(b) * 1440 + HourOf(b) * 60 + MinuteOf(b)
          /\ DayOf(a) \in Nat /\ DayOf(b) \in Nat
          /\ HourOf(a) \in 0 .. 23 /\ MinuteOf(a) \in 0 .. 59
      BY Clock DEF MinutesPerDay, MinutesPerHour, Hours, Minutes
    <2> HIDE DEF MinuteOf, HourOf, DayOf
    <2>2. b - a = (DayOf(b) - DayOf(a)) * 1440
      BY <1>2, <2>1
    <2>3. DayOf(b) - DayOf(a) >= 1
      BY <2>1, <2>2
    <2>4. QED BY <2>1, <2>2, <2>3 DEF MinutesPerDay, MinutesPerHour
  <1>3. QED BY <1>1, <1>2

LEMMA NextRunOfFields ==
  ASSUME NEW now \in Nat, NEW cron,
         cron.minute \in {Star} \cup Minutes, cron.hour \in {Star} \cup Hours,
         NEW next, next = Later(Candidate(cron, now), cron, now)
  PROVE  /\ next \in Nat /\ next > now /\ next <= now + MinutesPerDay
         /\ cron.minute \in {Star, MinuteOf(next)}
         /\ cron.hour \in {Star, HourOf(next)}
         /\ cron.hour = Star => next <= now + MinutesPerHour
  <1> DEFINE d  == DayOf(now)
             h0 == HourOf(now)
             m0 == MinuteOf(now)
             h  == CronNumber(cron.hour, h0)
             m  == CronNumber(cron.minute, m0)
             c  == Candidate(cron, now)
  <1>1. d \in Nat /\ h0 \in 0 .. 23 /\ m0 \in 0 .. 59 /\ h \in 0 .. 23 /\ m \in 0 .. 59
    BY Clock DEF CronNumber, Hours, Minutes, MinutesPerHour
  <1>2. now = d * 1440 + h0 * 60 + m0
    BY Clock DEF MinutesPerDay, MinutesPerHour
  <1>3. c = d * 1440 + h * 60 + m
    BY DEF Candidate, MinutesPerDay, MinutesPerHour
  <1>4. \A n : \A e \in Nat : n = e * 1440 + h * 60 + m => n \in Nat /\ MinuteOf(n) = m /\ HourOf(n) = h
    <2>1. h \in Hours /\ m \in Minutes
      BY <1>1 DEF Hours, Minutes, MinutesPerHour
    <2> HIDE DEF h, m
    <2>2. SUFFICES ASSUME NEW e \in Nat, NEW n, n = e * 1440 + h * 60 + m
                   PROVE  n \in Nat /\ MinuteOf(n) = m /\ HourOf(n) = h
      OBVIOUS
    <2>3. n = e * MinutesPerDay + h * MinutesPerHour + m
      BY <2>2 DEF MinutesPerDay, MinutesPerHour
    <2>4. QED BY <2>1, <2>3, ClockOf
  <1>5. /\ cron.minute # Star => m = cron.minute
        /\ cron.hour # Star => h = cron.hour
        /\ cron.hour = Star => h = h0
    BY DEF CronNumber
  <1>6. c \in Nat /\ MinuteOf(c) = m /\ HourOf(c) = h
    BY <1>1, <1>3, <1>4
  <1> HIDE DEF d, h0, m0, h, m, c
  <1>7. c < now + 1440 /\ now < c + 1440
    BY <1>1, <1>2, <1>3
  <1>8. CASE c > now
    <2>1. next = c
      BY <1>8 DEF Later, c
    <2>2. cron.hour = Star => c <= now + 60
      BY <1>1, <1>2, <1>3, <1>5
    <2>3. QED BY <1>5, <1>6, <1>7, <1>8, <2>1, <2>2 DEF MinutesPerDay, MinutesPerHour
  <1>9. CASE ~(c > now) /\ cron.hour = Star
    <2>1. next = c + 60
      BY <1>9 DEF Later, c, MinutesPerHour
    <2>2. next > now /\ next <= now + 1440 /\ next \in Nat
      <3>1. h = h0
        BY <1>5, <1>9
      <3>2. now < c + 60
        BY <1>1, <1>2, <1>3, <3>1
      <3>3. QED BY <1>6, <1>9, <2>1, <3>2
    <2>3. MinuteOf(next) = m
      BY <1>6, <2>1 DEF MinuteOf, MinutesPerHour
    <2>4. next <= now + 60
      BY <1>6, <1>9, <2>1
    <2>5. QED BY <1>5, <1>9, <2>2, <2>3, <2>4 DEF MinutesPerDay, MinutesPerHour
  <1>10. CASE ~(c > now) /\ cron.hour # Star
    <2>1. next = c + 1440
      BY <1>10 DEF Later, c, MinutesPerDay, MinutesPerHour
    <2>2. next > now /\ next <= now + 1440
      BY <1>6, <1>7, <1>10, <2>1
    <2>3. next = (d + 1) * 1440 + h * 60 + m /\ d + 1 \in Nat
      BY <1>1, <1>3, <2>1
    <2>4. next \in Nat /\ MinuteOf(next) = m /\ HourOf(next) = h
      BY <1>4, <2>3
    <2>5. QED BY <1>5, <1>10, <2>2, <2>4 DEF MinutesPerDay, MinutesPerHour
  <1>11. QED BY <1>8, <1>9, <1>10

LEMMA NextRunOfShorthands ==
  ASSUME NEW now \in Nat
  PROVE  LET hour == (now \div MinutesPerHour + 1) * MinutesPerHour
             day  == (DayOf(now) + 1) * MinutesPerDay
         IN  /\ hour \in Nat /\ hour > now /\ hour <= now + MinutesPerHour
             /\ MinuteOf(hour) = 0
             /\ day \in Nat /\ day > now /\ day <= now + MinutesPerDay
             /\ MinuteOf(day) = 0 /\ HourOf(day) = 0
  BY DEF MinuteOf, HourOf, DayOf, MinutesPerDay, MinutesPerHour

\* For every expression and every time, the next run is in the future, at most a
\* day away, at a minute and an hour that the expression names, and the first of
\* these when the minute is named; the other three fields of a cron expression
\* change nothing (calculate_next_run).
THEOREM ScheduleIsDue == Spec => []NextRunIsDue
  <1>1. AnswerIsSolution => NextRunIsDue
    <2> SUFFICES ASSUME AnswerIsSolution, Solved("schedule")
                 PROVE  NextRunIsDue
      BY DEF NextRunIsDue
    <2>1. problem \in ScheduleProblems
      BY DEF AnswerIsSolution, Solved, Problems, CanaryProblems, VlanProblems, BackupProblems,
             SessionProblems, CleanProblems, ImportProblems, DriverProblems, CaptureProblems,
             ApplyProblems, FileProblems, EvidenceProblems
    <2>2. /\ problem.now \in Nat
          /\ problem.cron \in {Hourly, Daily} \cup CronFields
          /\ answer = NextRun(problem.cron, problem.now)
      BY <2>1 DEF ScheduleProblems, Moments, AnswerIsSolution, Due
    <2>3. CASE problem.cron = Hourly
      <3>1. answer = (problem.now \div MinutesPerHour + 1) * MinutesPerHour
        BY <2>2, <2>3, PlanningAssumption DEF NextRun
      <3>2. /\ answer \in Nat /\ answer > problem.now
            /\ answer <= problem.now + MinutesPerHour /\ MinuteOf(answer) = 0
        BY <2>2, <3>1, NextRunOfShorthands
      <3>3. \A t \in problem.now + 1 .. answer - 1 : MinuteOf(t) # 0
        <4>1. SUFFICES ASSUME NEW t \in problem.now + 1 .. answer - 1, MinuteOf(t) = 0
                       PROVE  FALSE
          OBVIOUS
        <4>2. t \in Nat /\ t < answer /\ problem.now < t
          BY <2>2, <3>2
        <4>3. t + MinutesPerHour <= answer
          BY <3>2, <4>1, <4>2, Spaced
        <4>4. QED BY <2>2, <3>2, <4>2, <4>3 DEF MinutesPerHour
      <3>4. answer <= problem.now + MinutesPerDay
        BY <2>2, <3>2 DEF MinutesPerDay, MinutesPerHour
      <3>5. \A t : NamesTime(problem.cron, t) <=> MinuteOf(t) = 0
        BY <2>3, PlanningAssumption DEF NamesTime
      <3>6. QED BY <3>2, <3>3, <3>4, <3>5 DEF NextRunIsDue
    <2>4. CASE problem.cron = Daily
      <3>1. problem.cron # Hourly
        BY <2>4, PlanningAssumption
      <3>2. answer = (DayOf(problem.now) + 1) * MinutesPerDay
        BY <2>2, <2>4, <3>1 DEF NextRun
      <3>3. /\ answer \in Nat /\ answer > problem.now
            /\ answer <= problem.now + MinutesPerDay
            /\ MinuteOf(answer) = 0 /\ HourOf(answer) = 0
        BY <2>2, <3>2, NextRunOfShorthands
      <3>4. \A t \in problem.now + 1 .. answer - 1 : ~(MinuteOf(t) = 0 /\ HourOf(t) = 0)
        <4>1. SUFFICES ASSUME NEW t \in problem.now + 1 .. answer - 1,
                              MinuteOf(t) = 0, HourOf(t) = 0
                       PROVE  FALSE
          OBVIOUS
        <4>2. t \in Nat /\ t < answer /\ problem.now < t
          BY <2>2, <3>3
        <4>3. t + MinutesPerDay <= answer
          BY <3>3, <4>1, <4>2, Spaced
        <4>4. QED BY <2>2, <3>3, <4>2, <4>3 DEF MinutesPerDay, MinutesPerHour
      <3>5. \A t : NamesTime(problem.cron, t) <=> MinuteOf(t) = 0 /\ HourOf(t) = 0
        BY <2>4, <3>1 DEF NamesTime
      <3>6. QED BY <3>3, <3>4, <3>5 DEF NextRunIsDue
    <2>5. CASE problem.cron \in CronFields
      <3> DEFINE cron == problem.cron
                 now  == problem.now
      <3>1. cron \notin {Hourly, Daily}
        BY <2>5, PlanningAssumption
      <3>2. cron.minute \in {Star} \cup Minutes /\ cron.hour \in {Star} \cup Hours
        BY <2>5, PlanningAssumption DEF CronFields
      <3>3. answer = Later(Candidate(cron, now), cron, now)
        BY <2>2, <3>1 DEF NextRun
      <3>4. /\ answer \in Nat /\ answer > now /\ answer <= now + MinutesPerDay
            /\ cron.minute \in {Star, MinuteOf(answer)}
            /\ cron.hour \in {Star, HourOf(answer)}
            /\ cron.hour = Star => answer <= now + MinutesPerHour
        BY <2>2, <3>2, <3>3, NextRunOfFields
      <3>5. ASSUME cron.minute # Star, NEW t \in now + 1 .. answer - 1,
                   cron.minute \in {Star, MinuteOf(t)}, cron.hour \in {Star, HourOf(t)}
            PROVE  FALSE
        <4> HIDE DEF cron, now
        <4>1. t \in Nat /\ now \in Nat /\ t < answer /\ now < t
          BY <2>2, <3>4 DEF now
        <4>2. MinuteOf(t) = MinuteOf(answer)
          BY <3>4, <3>5
        <4>3. CASE cron.hour = Star
          <5>1. t + MinutesPerHour <= answer
            BY <3>4, <4>1, <4>2, Spaced
          <5>2. QED BY <3>4, <4>1, <4>3, <5>1 DEF MinutesPerHour
        <4>4. CASE cron.hour # Star
          <5>1. t + MinutesPerDay <= answer
            BY <3>4, <3>5, <4>1, <4>2, <4>4, Spaced
          <5>2. QED BY <3>4, <4>1, <5>1 DEF MinutesPerDay, MinutesPerHour
        <4>5. QED BY <4>3, <4>4
      <3>6. QED BY <3>1, <3>4, <3>5 DEF NextRunIsDue, NamesTime, NamesMinute
    <2>6. QED BY <2>2, <2>3, <2>4, <2>5
  <1>2. QED BY <1>1, Solutions, PTL

-----------------------------------------------------------------------------
(* The rollback of a VLAN change                                           *)

\* The snapshot is read rightly, the change is not in place already, and an access
\* change finds an access port, on ProCurve in the default VLAN: Restorable of
\* MCPlanning asks for more.
Undoable(operation, family, config) ==
    /\ TextIsRight(config)
    /\ ~InPlace(operation, config)
    /\ operation \in {"assign_access_vlan", "remove_access_vlan"} =>
         /\ config.mode = "access" \/ family = "procurve"
         /\ family = "procurve" => config.access = NoVlan

\* The two kinds of operations: those on a VLAN, and those on a port.
LEMMA VlanOperationUndone ==
  ASSUME NEW operation \in {"create_vlan", "rename_vlan", "delete_vlan"}, NEW vlan, NEW name,
         NEW family, NEW names, NEW vlans,
         NEW config \in [name : names, mode : {"access", "trunk"}, access : vlans, trunk : BOOLEAN,
                         text : [name : names, access : vlans]],
         Undoable(operation, family, config),
         Rollback(operation, vlan, family, config) # NoCommands
  PROVE  Applied(Rollback(operation, vlan, family, config), vlan, family,
                 Applied(Command(operation, vlan, name), vlan, family, config)) = config
  <1> DEFINE first    == Command(operation, vlan, name)
             rollback == Rollback(operation, vlan, family, config)
             planned  == Applied(first, vlan, family, config)
  <1>1. first.operation = operation /\ first.name = name
    BY DEF Command
  <1>2. \A n : [[config EXCEPT !.name = n] EXCEPT !.name = config.name] = config
    OBVIOUS
  <1>7. DetectedName(config) = KeptName(config)
    BY DEF Undoable, TextIsRight, DetectedName
  <1>3. CASE operation = "create_vlan"
    <2>1. config.name = NoVlan
      BY <1>3 DEF Undoable, InPlace
    <2>2. PICK n : planned = [config EXCEPT !.name = n]
      BY <1>1, <1>3 DEF Applied
    <2>3. rollback # NoCommands /\ rollback.operation = "delete_vlan"
      BY <1>3 DEF Rollback, Command
    <2>4. Applied(rollback, vlan, family, planned) = [planned EXCEPT !.name = NoVlan]
      BY <2>3 DEF Applied
    <2>5. QED BY <1>2, <2>1, <2>2, <2>4
  <1>4. CASE operation = "rename_vlan"
    <2>1. DetectedName(config) # NoName
      BY <1>4 DEF Rollback
    <2>2. DetectedName(config) = config.name
      BY <1>7, <2>1 DEF KeptName
    <2>3. PICK n : planned = [config EXCEPT !.name = n]
      BY <1>1, <1>4 DEF Applied
    <2>4. rollback # NoCommands /\ rollback.operation = "rename_vlan" /\ rollback.name = config.name
      BY <1>4, <2>1, <2>2 DEF Rollback, Command
    <2>5. Applied(rollback, vlan, family, planned) = [planned EXCEPT !.name = config.name]
      BY <2>1, <2>2, <2>4 DEF Applied
    <2>6. QED BY <1>2, <2>3, <2>5
  <1>5. CASE operation = "delete_vlan"
    <2>1. config.name # NoVlan
      BY <1>5 DEF Undoable, InPlace
    <2>2. planned = [config EXCEPT !.name = NoVlan]
      BY <1>1, <1>5 DEF Applied
    <2>3. rollback # NoCommands /\ rollback.operation = "create_vlan" /\ rollback.name = config.name
      BY <1>5, <1>7, <2>1 DEF Rollback, Command, KeptName
    <2>4. KeptName(planned) = NoName
      BY <2>2 DEF KeptName
    <2>5. Applied(rollback, vlan, family, planned) = [planned EXCEPT !.name = config.name]
      BY <2>3, <2>4 DEF Applied
    <2>6. QED BY <1>2, <2>2, <2>5
  <1>6. QED BY <1>3, <1>4, <1>5

LEMMA PortOperationUndone ==
  ASSUME NEW operation \in InterfaceOperations, NEW vlan, NEW name, NEW family,
         NEW names, NEW vlans,
         NEW config \in [name : names, mode : {"access", "trunk"}, access : vlans, trunk : BOOLEAN,
                         text : [name : names, access : vlans]],
         Undoable(operation, family, config),
         Rollback(operation, vlan, family, config) # NoCommands
  PROVE  Applied(Rollback(operation, vlan, family, config), vlan, family,
                 Applied(Command(operation, vlan, name), vlan, family, config)) = config
  <1> DEFINE first    == Command(operation, vlan, name)
             rollback == Rollback(operation, vlan, family, config)
             planned  == Applied(first, vlan, family, config)
             mode     == IF family = "procurve" THEN config.mode ELSE "access"
  <1>1. first.operation = operation /\ first.vlan = vlan
    BY DEF Command
  <1>2. rollback # NoCommands
    OBVIOUS
  <1>9. DetectedAccess(family, config) = IF family = "procurve" THEN NoVlan ELSE config.access
    BY DEF Undoable, TextIsRight, DetectedAccess
  <1>3. \A a : [[config EXCEPT !.access = a, !.mode = config.mode]
                  EXCEPT !.access = config.access] = config
    OBVIOUS
  <1>4. CASE operation = "assign_access_vlan"
    <2>1. mode = config.mode /\ (family = "procurve" => config.access = NoVlan)
      BY <1>4 DEF Undoable
    <2>2. planned = [config EXCEPT !.access = vlan, !.mode = config.mode]
      BY <1>1, <1>4, <2>1 DEF Applied
    <2>3. planned.access = vlan /\ planned.mode = config.mode
      BY <2>2
    <2>4. CASE DetectedAccess(family, config) = NoVlan
      <3>1. config.access = NoVlan
        BY <1>9, <2>1, <2>4
      <3>2. rollback.operation = "remove_access_vlan" /\ rollback.vlan = vlan
        BY <1>4, <2>4 DEF Rollback, Command
      <3>3. Applied(rollback, vlan, family, planned) = [planned EXCEPT !.access = NoVlan]
        BY <1>2, <2>3, <3>2 DEF Applied
      <3>4. Applied(rollback, vlan, family, planned)
              = [[config EXCEPT !.access = vlan, !.mode = config.mode] EXCEPT !.access = config.access]
        BY <2>2, <3>1, <3>3
      <3>5. QED BY <1>3, <3>4
    <2>5. CASE DetectedAccess(family, config) # NoVlan
      <3>1. DetectedAccess(family, config) = config.access /\ family # "procurve"
        BY <1>9, <2>5
      <3>2. rollback.operation = "assign_access_vlan" /\ rollback.vlan = config.access
        BY <1>4, <2>5, <3>1 DEF Rollback, Command
      <3>3. Applied(rollback, vlan, family, planned)
              = [planned EXCEPT !.access = config.access, !.mode = config.mode]
        BY <1>2, <2>1, <3>1, <3>2 DEF Applied
      <3>4. QED BY <2>2, <3>3
    <2>6. QED BY <2>4, <2>5
  <1>5. CASE operation = "remove_access_vlan"
    <2>1. DetectedAccess(family, config) # NoVlan
      BY <1>2, <1>5 DEF Rollback
    <2>2. DetectedAccess(family, config) = config.access /\ family # "procurve"
      BY <1>9, <2>1
    <2>3. config.mode = "access"
      BY <1>5, <2>2 DEF Undoable
    <2>4. planned = [config EXCEPT !.access = NoVlan]
      BY <1>1, <1>5, <2>2 DEF Applied
    <2>5. rollback.operation = "assign_access_vlan" /\ rollback.vlan = config.access
      BY <1>5, <2>1, <2>2 DEF Rollback, Command
    <2>6. Applied(rollback, vlan, family, planned)
            = [planned EXCEPT !.access = config.access, !.mode = "access"]
      BY <1>2, <2>2, <2>5 DEF Applied
    <2>7. Applied(rollback, vlan, family, planned)
            = [[config EXCEPT !.access = NoVlan] EXCEPT !.access = config.access, !.mode = config.mode]
      BY <2>3, <2>4, <2>6
    <2>8. [[config EXCEPT !.access = NoVlan] EXCEPT !.access = config.access, !.mode = config.mode]
            = config
      OBVIOUS
    <2>9. QED BY <2>7, <2>8
  <1>6. CASE operation = "add_trunk_vlan"
    <2>1. config.trunk = FALSE
      BY <1>6 DEF Undoable, InPlace
    <2>2. planned = [config EXCEPT !.trunk = TRUE]
      BY <1>1, <1>6 DEF Applied
    <2>3. rollback.operation = "remove_trunk_vlan"
      BY <1>6 DEF Rollback, Command
    <2>4. Applied(rollback, vlan, family, planned) = [planned EXCEPT !.trunk = FALSE]
      BY <1>2, <2>3 DEF Applied
    <2>5. [[config EXCEPT !.trunk = TRUE] EXCEPT !.trunk = config.trunk] = config
      OBVIOUS
    <2>6. QED BY <2>1, <2>2, <2>4, <2>5
  <1>7. CASE operation = "remove_trunk_vlan"
    <2>1. config.trunk = TRUE
      BY <1>7 DEF Undoable, InPlace
    <2>2. planned = [config EXCEPT !.trunk = FALSE]
      BY <1>1, <1>7 DEF Applied
    <2>3. rollback.operation = "add_trunk_vlan"
      BY <1>7 DEF Rollback, Command
    <2>4. Applied(rollback, vlan, family, planned) = [planned EXCEPT !.trunk = TRUE]
      BY <1>2, <2>3 DEF Applied
    <2>5. [[config EXCEPT !.trunk = FALSE] EXCEPT !.trunk = config.trunk] = config
      OBVIOUS
    <2>6. QED BY <2>1, <2>2, <2>4, <2>5
  <1>8. QED BY <1>4, <1>5, <1>6, <1>7 DEF InterfaceOperations

\* The rollback that build_device_rollback_plan derives from a snapshot, run after
\* the change, puts the configuration back.
THEOREM RollbackUndoes ==
  ASSUME NEW operation \in Operations, NEW vlan, NEW name, NEW family, NEW names, NEW vlans,
         NEW config \in [name : names, mode : {"access", "trunk"}, access : vlans, trunk : BOOLEAN,
                         text : [name : names, access : vlans]],
         Undoable(operation, family, config),
         Rollback(operation, vlan, family, config) # NoCommands
  PROVE  Applied(Rollback(operation, vlan, family, config), vlan, family,
                 Applied(Command(operation, vlan, name), vlan, family, config)) = config
  <1>1. CASE operation \in {"create_vlan", "rename_vlan", "delete_vlan"}
    BY <1>1, VlanOperationUndone
  <1>2. CASE operation \in InterfaceOperations
    BY <1>2, PortOperationUndone
  <1>3. QED BY <1>1, <1>2 DEF Operations, InterfaceOperations

-----------------------------------------------------------------------------
(* Changes on the VLAN                                                     *)

\* What a solved VLAN problem is made of.
LEMMA VlanProblem ==
  ASSUME AnswerIsSolution, Solved("vlan")
  PROVE  /\ problem.operation \in Operations /\ problem.family \in Families
         /\ problem.name \in {NoName} \cup Names
         /\ problem.config \in Configs
         /\ answer = Change
  BY DEF AnswerIsSolution, Solved, Problems, CanaryProblems, VlanProblems, ScheduleProblems,
         BackupProblems, SessionProblems, CleanProblems, ImportProblems, DriverProblems,
         CaptureProblems, ApplyProblems, FileProblems, EvidenceProblems

\* The rollback of build_device_rollback_plan, run after the change, puts back the
\* configuration of the snapshot, for every change that is Restorable.
THEOREM RollbackIsRestored == Spec => []RollbackRestores
  <1>1. AnswerIsSolution => RollbackRestores
    <2> SUFFICES ASSUME AnswerIsSolution, Solved("vlan"), Restorable,
                        answer.rollback # NoCommands
                 PROVE  RolledBack = problem.config
      BY DEF RollbackRestores
    <2>1. /\ problem.operation \in Operations /\ problem.name \in {NoName} \cup Names
          /\ problem.config \in Configs
      BY VlanProblem
    <2>2. answer.rollback = Rollback(problem.operation, Vlan, problem.family, problem.config)
      BY VlanProblem DEF Change
    <2>3. Undoable(problem.operation, problem.family, problem.config)
      BY DEF Restorable, Undoable
    <2>4. PICK names, vlans :
            problem.config \in [name : names, mode : {"access", "trunk"},
                               access : vlans, trunk : BOOLEAN,
                               text : [name : names, access : vlans]]
      <3> DEFINE names == {NoVlan, NoName} \cup Names
                 vlans == {NoVlan, Vlan, Other}
      <3>1. problem.config.text \in [name : names, access : vlans]
        BY <2>1 DEF Configs, Findings
      <3>2. problem.config \in [name : names, mode : {"access", "trunk"}, access : vlans,
                               trunk : BOOLEAN, text : [name : names, access : vlans]]
        BY <2>1, <3>1 DEF Configs
      <3>3. QED BY <3>2
    <2>5. Applied(Rollback(problem.operation, Vlan, problem.family, problem.config),
                  Vlan, problem.family, Planned) = problem.config
      BY <2>1, <2>2, <2>3, <2>4, RollbackUndoes DEF Planned
    <2>6. QED BY <2>2, <2>5 DEF RolledBack
  <1>2. QED BY <1>1, Solutions, PTL

\* A change that takes the VLAN away from an access port is reported as critical, and
\* one that takes it from a trunk as of high risk at least (estimate_risk).
THEOREM LossIsReported == Spec => []LossIsFlagged
  <1>1. AnswerIsSolution => LossIsFlagged
    <2> SUFFICES ASSUME AnswerIsSolution, Solved("vlan") PROVE LossIsFlagged
      BY DEF LossIsFlagged
    <2> DEFINE op      == problem.operation
               c       == problem.config
               command == Command(op, Vlan, problem.name)
               cut     == c.name # NoVlan /\ Planned.name = NoVlan
    <2>1. /\ op \in Operations /\ problem.name \in {NoName} \cup Names
          /\ c \in [name : {NoVlan, NoName} \cup Names, mode : {"access", "trunk"},
                    access : {NoVlan, Vlan, Other}, trunk : BOOLEAN, text : Findings]
      BY VlanProblem DEF Configs
    <2>2. answer.risk = Risk(op, AccessPorts(Vlan, c), TrunkPorts(c))
      BY VlanProblem DEF Change
    <2>3. /\ command.operation = op
          /\ command.name = problem.name /\ command.vlan = Vlan
      BY DEF Command
    <2>4. NoVlan # NoName /\ problem.name # NoVlan /\ Vlan # NoVlan
      BY <2>1, PlanningAssumption
    <2>5. c.access = Vlan => AccessPorts(Vlan, c) = 1
      BY DEF AccessPorts
    <2>6. cut => op = "delete_vlan"
      <3>1. CASE op \in {"create_vlan", "rename_vlan"}
        <4>1. Planned.name = IF problem.name # NoName THEN problem.name ELSE KeptName(c)
          BY <2>1, <2>3, <3>1 DEF Planned, Applied
        <4>2. c.name # NoVlan => KeptName(c) = c.name
          BY DEF KeptName
        <4>3. QED BY <2>4, <4>1, <4>2
      <3>2. CASE op \in InterfaceOperations
        <4>1. Planned.name = c.name
          BY <2>1, <2>3, <3>2 DEF Planned, Applied, InterfaceOperations
        <4>2. QED BY <4>1
      <3>3. QED BY <2>1, <3>1, <3>2 DEF Operations, InterfaceOperations
    <2>7. c.access = Vlan /\ Planned.access = NoVlan => op = "remove_access_vlan"
      <3>1. CASE op \in {"create_vlan", "rename_vlan", "delete_vlan", "add_trunk_vlan",
                         "remove_trunk_vlan"}
        <4>1. Planned.access = c.access
          BY <2>1, <2>3, <3>1 DEF Planned, Applied
        <4>2. QED BY <2>4, <4>1
      <3>2. CASE op = "assign_access_vlan"
        <4>1. Planned.access = Vlan
          BY <2>1, <2>3, <3>2 DEF Planned, Applied
        <4>2. QED BY <2>4, <4>1
      <3>3. QED BY <2>1, <3>1, <3>2 DEF Operations
    <2>8. c.trunk /\ ~Planned.trunk => op = "remove_trunk_vlan"
      <3>1. op # "remove_trunk_vlan" => Planned.trunk \in {c.trunk, TRUE}
        BY <2>1, <2>3 DEF Planned, Applied, Operations
      <3>2. QED BY <3>1
    <2>9. c.access = Vlan /\ (cut \/ Planned.access = NoVlan) => answer.risk = "critical"
      <3>1. c.access = Vlan /\ op \in {"delete_vlan", "remove_access_vlan"}
              => Risk(op, AccessPorts(Vlan, c), TrunkPorts(c)) = "critical"
        BY <2>5 DEF Risk
      <3>2. QED BY <2>2, <2>6, <2>7, <3>1
    <2>10. c.trunk /\ (cut \/ ~Planned.trunk) => answer.risk \in {"high", "critical"}
      BY <2>2, <2>6, <2>8 DEF Risk
    <2>11. QED BY <2>9, <2>10 DEF LossIsFlagged
  <1>2. QED BY <1>1, Solutions, PTL

-----------------------------------------------------------------------------
(* The batches of a rollout                                                *)

\* The offset of a batch is the sum of the sizes before it.
LEMMA OffsetsAdd ==
  ASSUME NEW plan \in Seq(Nat)
  PROVE  /\ Offset(plan, 1) = 0
         /\ \A k \in 1 .. Len(plan) + 1 : Offset(plan, k) \in Nat
         /\ \A k \in 1 .. Len(plan) : Offset(plan, k + 1) = Offset(plan, k) + plan[k]
  <1> DEFINE N       == Len(plan)
             step    == [n \in 1 .. N |-> [s \in Nat |-> s + plan[n]]]
             next(g) == [n \in 0 .. N |-> IF n = 0 THEN 0 ELSE g[n - 1] + plan[n]]
             end     == CHOOSE g : g = next(g)
  <1>1. N \in Nat /\ \A n \in 1 .. N : plan[n] \in Nat
    OBVIOUS
  <1>2. \A k : Offset(plan, k) = end[k - 1]
    BY DEF Offset
  <1>3. \A n \in 1 .. N : step[n] \in [Nat -> Nat] /\ \A s \in Nat : step[n][s] = s + plan[n]
    BY <1>1
  <1> HIDE DEF N
  <1>4. \E g : g = next(g)
    <2>1. step \in StepsOn(Nat, N)
      BY <1>3 DEF StepsOn
    <2> HIDE DEF step
    <2>2. PICK g : IsRun(g, Nat, 0, N, step)
      BY ONLY <1>1, <2>1, RunExists
    <2>3. \A n \in 0 .. N : g[n] = IF n = 0 THEN 0 ELSE g[n - 1] + plan[n]
      <3> TAKE n \in 0 .. N
      <3>1. CASE n = 0
        BY <2>2, <3>1 DEF IsRun
      <3>2. CASE n # 0
        <4>1. n \in 1 .. N /\ n - 1 \in 0 .. N
          BY <1>1, <3>2
        <4>2. g[n] = step[n][g[n - 1]] /\ g[n - 1] \in Nat
          BY <2>2, <4>1 DEF IsRun
        <4>3. QED BY <1>3, <3>2, <4>1, <4>2
      <3>3. QED BY <3>1, <3>2
    <2>4. g = next(g)
      BY <2>2, <2>3 DEF IsRun
    <2>5. QED BY <2>4
  <1>5. end = next(end)
    BY <1>4
  <1> HIDE DEF end, step
  <1>6. end[0] = 0 /\ \A n \in 1 .. N : end[n] = end[n - 1] + plan[n]
    BY <1>1, <1>5
  <1> DEFINE Good == {n \in Nat : n <= N => end[n] \in Nat}
  <1>7. 0 \in Good
    BY <1>6
  <1>8. \A n \in Nat : n \in Good => n + 1 \in Good
    <2> SUFFICES ASSUME NEW n \in Nat, n \in Good, n + 1 <= N PROVE end[n + 1] \in Nat
      OBVIOUS
    <2>1. end[n] \in Nat /\ n + 1 \in 1 .. N
      BY <1>1
    <2>2. QED BY <1>1, <1>6, <2>1
  <1>9. Nat \subseteq Good
    <2> HIDE DEF Good
    <2>1. QED BY <1>7, <1>8, SetInduction
  <1>10. \A n \in 0 .. N : end[n] \in Nat
    BY <1>1, <1>9
  <1>11. \A k \in 1 .. N : Offset(plan, k + 1) = end[k] /\ Offset(plan, k) = end[k - 1]
    BY <1>1, <1>2
  <1>12. Offset(plan, 1) = 0 /\ \A k \in 1 .. N + 1 : Offset(plan, k) \in Nat
    BY <1>1, <1>2, <1>6, <1>10
  <1>13. \A k \in 1 .. N : Offset(plan, k + 1) = Offset(plan, k) + plan[k]
    BY <1>6, <1>11
  <1>14. QED BY <1>12, <1>13 DEF N

Sizes == Seq(Nat \ {0})

\* The offsets rise.
LEMMA OffsetsRise ==
  ASSUME NEW plan \in Sizes
  PROVE  /\ plan \in Seq(Nat)
         /\ \A j, k \in 1 .. Len(plan) + 1 : j <= k => Offset(plan, j) <= Offset(plan, k)
  <1>1. plan \in Seq(Nat)
    BY DEF Sizes
  <1> DEFINE N == Len(plan)
             Good == {n \in Nat : n <= N => \A j \in 1 .. n + 1 : Offset(plan, j) <= Offset(plan, n + 1)}
  <1>2. N \in Nat /\ \A n \in 1 .. N : plan[n] \in Nat
    BY <1>1
  <1>3. /\ \A k \in 1 .. N + 1 : Offset(plan, k) \in Nat
        /\ \A k \in 1 .. N : Offset(plan, k + 1) = Offset(plan, k) + plan[k]
    BY <1>1, OffsetsAdd
  <1> HIDE DEF N
  <1>4. 0 \in Good
    <2>1. \A j \in 1 .. 0 + 1 : j = 1
      OBVIOUS
    <2>2. Offset(plan, 1) \in Nat
      BY <1>2, <1>3
    <2>3. QED BY <2>1, <2>2
  <1>5. \A n \in Nat : n \in Good => n + 1 \in Good
    <2> SUFFICES ASSUME NEW n \in Nat, n \in Good, n + 1 <= N, NEW j \in 1 .. (n + 1) + 1
                 PROVE  Offset(plan, j) <= Offset(plan, (n + 1) + 1)
      OBVIOUS
    <2>1. /\ n + 1 \in 1 .. N /\ (n + 1) + 1 \in 1 .. N + 1 /\ j \in 1 .. N + 1
      BY <1>2
    <2>2. Offset(plan, (n + 1) + 1) = Offset(plan, n + 1) + plan[n + 1]
      BY <1>3, <2>1
    <2>3. Offset(plan, n + 1) \in Nat /\ plan[n + 1] \in Nat /\ Offset(plan, j) \in Nat
      BY <1>2, <1>3, <2>1
    <2>4. CASE j = (n + 1) + 1
      BY <2>2, <2>3, <2>4
    <2>5. CASE j # (n + 1) + 1
      <3>1. j \in 1 .. n + 1
        BY <2>5
      <3>2. Offset(plan, j) <= Offset(plan, n + 1)
        BY <1>2, <3>1
      <3>3. QED BY <2>2, <2>3, <3>2
    <2>6. QED BY <2>4, <2>5
  <1>6. Nat \subseteq Good
    <2> HIDE DEF Good
    <2>1. QED BY <1>4, <1>5, SetInduction
  <1>7. ASSUME NEW j \in 1 .. N + 1, NEW k \in 1 .. N + 1, j <= k
        PROVE  Offset(plan, j) <= Offset(plan, k)
    <2>1. k - 1 \in Good /\ k - 1 <= N /\ j \in 1 .. (k - 1) + 1
      BY <1>2, <1>6, <1>7
    <2>2. Offset(plan, j) <= Offset(plan, (k - 1) + 1)
      BY <2>1
    <2>3. QED BY <2>2
  <1>8. QED BY <1>1, <1>7 DEF N

\* What is planned of the first n sizes, cut to a number of devices.
CutTo(count, sizes, n, acc) ==
    /\ acc \in [plan : Sizes, remaining : Nat]
    /\ Len(acc.plan) <= n
    /\ acc.remaining > 0 => Len(acc.plan) = n /\ acc.remaining = count - Offset(sizes, n + 1)
    /\ acc.remaining = 0 => count <= Offset(sizes, Len(acc.plan) + 1)
    /\ \A k \in 1 .. Len(acc.plan) :
          /\ Offset(sizes, k) < count
          /\ acc.plan[k] = Least(Offset(sizes, k + 1), count) - Offset(sizes, k)

\* A size more: it is taken, cut to what remains, or left out if nothing does.
LEMMA SizeIsTaken ==
  ASSUME NEW sizes \in Sizes, NEW count \in Nat, NEW n \in Nat, n + 1 <= Len(sizes),
         NEW acc, CutTo(count, sizes, n, acc)
  PROVE  LET m == Least(sizes[n + 1], acc.remaining) IN
         CutTo(count, sizes, n + 1,
               IF m = 0 THEN acc
               ELSE [plan |-> Append(acc.plan, m), remaining |-> acc.remaining - m])
  <1> DEFINE size == sizes[n + 1]
             left == acc.remaining
             m    == Least(size, left)
             plan == acc.plan
             o(k) == Offset(sizes, k)
  <1>1. sizes \in Seq(Nat) /\ n + 1 \in 1 .. Len(sizes)
    BY OffsetsRise DEF Sizes
  <1>2. size \in Nat \ {0}
    BY <1>1 DEF Sizes
  <1>3. /\ plan \in Sizes /\ left \in Nat /\ Len(plan) \in Nat /\ Len(plan) <= n
        /\ acc = [plan |-> plan, remaining |-> left]
    BY DEF CutTo, Sizes
  <1>4. /\ o(n + 1) \in Nat /\ o((n + 1) + 1) = o(n + 1) + size
    BY <1>1, OffsetsAdd
  <1>5. CASE left = 0
    <2>1. m = 0
      BY <1>2, <1>5 DEF Least
    <2>2. QED BY <1>3, <1>5, <2>1 DEF CutTo
  <1>6. CASE left > 0
    <2>1. m \in Nat \ {0} /\ m = IF size < left THEN size ELSE left
      BY <1>2, <1>3, <1>6 DEF Least
    <2>2. Len(plan) = n /\ left = count - o(n + 1)
      BY <1>6 DEF CutTo
    <2> DEFINE q == Append(plan, m)
    <2>3. /\ q \in Sizes /\ Len(q) = n + 1 /\ q[n + 1] = m
          /\ \A k \in 1 .. n : q[k] = plan[k]
      BY <1>3, <2>1, <2>2 DEF Sizes
    <2> HIDE DEF m, q, size
    <2>4. m = Least(o((n + 1) + 1), count) - o(n + 1)
      BY <1>2, <1>3, <1>4, <2>1, <2>2 DEF Least
    <2>5. left - m \in Nat /\ o(n + 1) < count
      BY <1>2, <1>3, <1>4, <1>6, <2>1, <2>2
    <2>6. /\ left - m > 0 => left - m = count - o((n + 1) + 1)
          /\ left - m = 0 => count <= o((n + 1) + 1)
      BY <1>2, <1>3, <1>4, <1>6, <2>1, <2>2
    <2>7. \A k \in 1 .. n + 1 : /\ o(k) < count
                               /\ q[k] = Least(o(k + 1), count) - o(k)
      <3> TAKE k \in 1 .. n + 1
      <3>1. CASE k = n + 1
        BY <2>3, <2>4, <2>5, <3>1
      <3>2. CASE k \in 1 .. n
        BY <2>2, <2>3, <3>2 DEF CutTo
      <3>3. QED BY <3>1, <3>2
    <2>8. CutTo(count, sizes, n + 1, [plan |-> q, remaining |-> left - m])
      BY <2>3, <2>5, <2>6, <2>7 DEF CutTo
    <2>9. QED BY <2>1, <2>8 DEF m, q, size
  <1>7. QED BY <1>3, <1>5, <1>6

\* The sizes of a request, or those of the default plan.
SizesOf(requested) == IF requested = <<>> THEN DefaultPlan ELSE requested

LEMMA SizesAreTaken ==
  ASSUME NEW count \in Nat \ {0}, NEW requested, SizesOf(requested) \in Sizes
  PROVE  \E acc : /\ CutTo(count, SizesOf(requested), Len(SizesOf(requested)), acc)
                  /\ NormalizeCanaryPlan(count, requested)
                       = IF acc.remaining > 0 THEN Append(acc.plan, acc.remaining) ELSE acc.plan
  <1> DEFINE sizes == SizesOf(requested)
             N     == Len(sizes)
             S     == [plan : Sizes, remaining : Nat]
             base  == [plan |-> <<>>, remaining |-> count]
             more(acc, size) == LET m == Least(size, acc.remaining) IN
                                IF m = 0 THEN acc
                                ELSE [plan |-> Append(acc.plan, m), remaining |-> acc.remaining - m]
             step    == [n \in 1 .. N |-> [s \in S |-> more(s, sizes[n])]]
             next(f) == [s \in SUBSET DOMAIN sizes |->
                           IF s = {} THEN base ELSE more(f[s \ {Max(s)}], sizes[Max(s)])]
             fold    == CHOOSE f : f = next(f)
  <1>1. N \in Nat /\ DOMAIN sizes = 1 .. N /\ \A n \in 1 .. N : sizes[n] \in Nat \ {0}
    BY DEF Sizes
  <1>2. NormalizeCanaryPlan(count, requested)
          = LET done == fold[DOMAIN sizes] IN
            IF done.remaining > 0 THEN Append(done.plan, done.remaining) ELSE done.plan
    BY Zenon DEF NormalizeCanaryPlan, FoldLeft, MapThenFoldSet, SizesOf
  <1>3. ASSUME NEW s \in S, NEW size \in Nat \ {0} PROVE more(s, size) \in S
    <2> DEFINE m == Least(size, s.remaining)
    <2>1. s.plan \in Sizes /\ s.remaining \in Nat /\ m \in Nat /\ m <= s.remaining
      BY DEF Least
    <2> HIDE DEF m
    <2>2. m # 0 => Append(s.plan, m) \in Sizes /\ s.remaining - m \in Nat
      BY <2>1 DEF Sizes
    <2>3. QED BY <2>2 DEF m
  <1>4. base \in S
    BY DEF Sizes
  <1>5. \A n \in 1 .. N : step[n] \in [S -> S] /\ \A s \in S : step[n][s] = more(s, sizes[n])
    BY <1>1, <1>3
  <1> HIDE DEF sizes, N, S, more, base
  <1>6. \E f : f = next(f)
    <2>1. step \in StepsOn(S, N)
      BY <1>5 DEF StepsOn
    <2> HIDE DEF step
    <2>2. PICK f : IsFold(f, S, base, N, step)
      BY ONLY <1>1, <1>4, <2>1, FoldExists
    <2>3. \A s \in SUBSET (1 .. N) : s # {} =>
            step[Max(s)][f[s \ {Max(s)}]] = more(f[s \ {Max(s)}], sizes[Max(s)])
      <3> TAKE s \in SUBSET (1 .. N)
      <3>1. s # {} => Max(s) \in 1 .. N
        BY <1>1, GreatestIn
      <3>2. f[s \ {Max(s)}] \in S
        BY <2>2 DEF IsFold
      <3>3. QED BY <1>5, <3>1, <3>2
    <2>4. f = next(f)
      BY <1>1, <2>2, <2>3 DEF IsFold
    <2>5. QED BY <2>4
  <1>7. fold = next(fold)
    BY <1>6
  <1> HIDE DEF fold, step
  <1> DEFINE TakenTo(n) == CutTo(count, sizes, n, fold[1 .. n])
             Good       == {n \in Nat : n <= N => TakenTo(n)}
  <1>8. 0 \in Good
    <2>1. fold[1 .. 0] = base
      BY <1>1, <1>7
    <2>2. Offset(sizes, 0 + 1) = 0
      <3>1. sizes \in Seq(Nat)
        BY OffsetsRise DEF sizes
      <3>2. QED BY <3>1, OffsetsAdd
    <2>3. /\ base \in [plan : Sizes, remaining : Nat] /\ Len(base.plan) = 0
          /\ base.remaining = count
      BY <1>4 DEF base, S
    <2>4. CutTo(count, sizes, 0, base)
      BY <2>2, <2>3 DEF CutTo
    <2>5. QED BY <2>1, <2>4
  <1>9. \A n \in Nat : n \in Good => n + 1 \in Good
    <2> SUFFICES ASSUME NEW n \in Nat, n \in Good, n + 1 <= N PROVE TakenTo(n + 1)
      OBVIOUS
    <2>1. TakenTo(n) /\ n + 1 \in 1 .. N
      BY <1>1
    <2>2. fold[1 .. n + 1] = more(fold[1 .. n], sizes[n + 1])
      <3>1. 1 .. n + 1 # {} /\ Max(1 .. n + 1) = n + 1 /\ (1 .. n + 1) \ {n + 1} = 1 .. n
        BY FoldOfNext
      <3>2. 1 .. n + 1 \in SUBSET DOMAIN sizes
        BY <1>1
      <3>3. QED BY <1>7, <3>1, <3>2
    <2>3. sizes \in Sizes /\ n + 1 <= Len(sizes)
      BY DEF sizes, N
    <2>4. CutTo(count, sizes, n + 1, more(fold[1 .. n], sizes[n + 1]))
      BY <2>1, <2>3, SizeIsTaken DEF more
    <2>5. QED BY <2>2, <2>4
  <1>10. N \in Good
    <2> HIDE DEF Good
    <2>1. QED BY <1>1, <1>8, <1>9, SetInduction
  <1>11. TakenTo(N)
    BY <1>1, <1>10
  <1> DEFINE done == fold[1 .. N]
  <1>12. CutTo(count, sizes, N, done)
    BY <1>11
  <1>13. NormalizeCanaryPlan(count, requested)
           = IF done.remaining > 0 THEN Append(done.plan, done.remaining) ELSE done.plan
    BY <1>1, <1>2
  <1> HIDE DEF done
  <1>14. QED BY <1>12, <1>13 DEF sizes, N

\* The last device of batch k of a plan for a number of devices.
EndOf(count, sizes, k) ==
    IF k \in DOMAIN sizes THEN Least(Offset(sizes, k + 1), count) ELSE count

\* A batch has the devices that the sizes before it leave, up to its own size.
LEMMA BatchesOf ==
  ASSUME NEW count \in Nat \ {0}, NEW requested, SizesOf(requested) \in Sizes
  PROVE  LET sizes == SizesOf(requested)
             p     == NormalizeCanaryPlan(count, requested)
         IN  /\ p \in Sizes /\ Len(p) <= Len(sizes) + 1
             /\ \A k \in 1 .. Len(p) : /\ Offset(sizes, k) < count
                                       /\ Offset(p, k) = Offset(sizes, k)
                                       /\ Offset(p, k) + p[k] = EndOf(count, sizes, k)
             /\ \A k \in 1 .. Len(sizes) : Offset(sizes, k) < count => k <= Len(p)
             /\ Offset(sizes, Len(sizes) + 1) < count => Len(p) = Len(sizes) + 1
  <1> DEFINE sizes == SizesOf(requested)
             p     == NormalizeCanaryPlan(count, requested)
             N     == Len(sizes)
             o(k)  == Offset(sizes, k)
  <1>1. PICK acc : /\ CutTo(count, sizes, N, acc)
                   /\ p = IF acc.remaining > 0 THEN Append(acc.plan, acc.remaining) ELSE acc.plan
    BY SizesAreTaken
  <1>2. sizes \in Sizes /\ N \in Nat /\ DOMAIN sizes = 1 .. N /\ sizes \in Seq(Nat)
    BY DEF Sizes
  <1>3. /\ o(1) = 0 /\ \A k \in 1 .. N + 1 : o(k) \in Nat
        /\ \A k \in 1 .. N : o(k + 1) = o(k) + sizes[k]
        /\ \A j, k \in 1 .. N + 1 : j <= k => o(j) <= o(k)
    BY <1>2, OffsetsAdd, OffsetsRise
  <1> HIDE DEF sizes, N, p
  <1> DEFINE m == Len(acc.plan)
             e(k) == EndOf(count, sizes, k)
  <1>4. /\ acc.plan \in Sizes /\ acc.remaining \in Nat /\ m \in Nat /\ m <= N
        /\ acc.remaining > 0 => m = N /\ acc.remaining = count - o(N + 1)
        /\ acc.remaining = 0 => count <= o(m + 1)
        /\ \A k \in 1 .. m : o(k) < count /\ acc.plan[k] = Least(o(k + 1), count) - o(k)
    BY <1>1 DEF CutTo, Sizes
  <1>5. /\ p \in Sizes
        /\ Len(p) = IF acc.remaining > 0 THEN N + 1 ELSE m
        /\ \A k \in 1 .. Len(p) : p[k] = e(k) - o(k) /\ o(k) < count
    <2>1. \A k \in 1 .. m : e(k) = Least(o(k + 1), count)
      BY <1>2, <1>4 DEF EndOf
    <2>2. CASE acc.remaining > 0
      <3>1. p = Append(acc.plan, acc.remaining) /\ m = N
        BY <1>1, <1>4, <2>2
      <3>2. /\ p \in Sizes /\ Len(p) = N + 1 /\ p[N + 1] = acc.remaining
            /\ \A k \in 1 .. N : p[k] = acc.plan[k]
        BY <1>4, <2>2, <3>1 DEF Sizes
      <3>3. e(N + 1) = count
        BY <1>2 DEF EndOf
      <3>4. o(N + 1) \in Nat /\ acc.remaining = count - o(N + 1)
        BY <1>2, <1>3, <1>4, <2>2
      <3>5. \A k \in 1 .. N + 1 : p[k] = e(k) - o(k) /\ o(k) < count
        <4> TAKE k \in 1 .. N + 1
        <4>1. CASE k = N + 1
          BY <2>2, <3>2, <3>3, <3>4, <4>1
        <4>2. CASE k \in 1 .. N
          BY <1>4, <2>1, <3>1, <3>2, <4>2
        <4>3. QED BY <1>2, <4>1, <4>2
      <3>6. QED BY <2>2, <3>2, <3>5
    <2>3. CASE ~(acc.remaining > 0)
      <3>1. p = acc.plan
        BY <1>1, <2>3
      <3>2. QED BY <1>4, <2>1, <2>3, <3>1
    <2>4. QED BY <2>2, <2>3
  <1>6. /\ Offset(p, 1) = 0
        /\ \A k \in 1 .. Len(p) : Offset(p, k + 1) = Offset(p, k) + p[k]
    <2>1. p \in Seq(Nat)
      BY <1>5, OffsetsRise
    <2>2. QED BY <2>1, OffsetsAdd
  <1>7. Len(p) \in Nat /\ Len(p) <= N + 1
    BY <1>2, <1>4, <1>5
  <1>8. \A k \in 1 .. Len(p) : e(k) \in Int
    <2> TAKE k \in 1 .. Len(p)
    <2>1. CASE k \in 1 .. N
      <3>1. k + 1 \in 1 .. N + 1
        BY <1>2, <2>1
      <3>2. QED BY <1>2, <1>3, <2>1, <3>1 DEF EndOf, Least
    <2>2. CASE k \notin 1 .. N
      BY <1>2, <2>2 DEF EndOf
    <2>3. QED BY <2>1, <2>2
  <1> DEFINE Good == {n \in Nat : n + 1 <= Len(p) => Offset(p, n + 1) = o(n + 1)}
  <1>9. 0 \in Good
    BY <1>3, <1>6
  <1>10. \A n \in Nat : n \in Good => n + 1 \in Good
    <2> SUFFICES ASSUME NEW n \in Nat, n \in Good, (n + 1) + 1 <= Len(p)
                 PROVE  Offset(p, (n + 1) + 1) = o((n + 1) + 1)
      OBVIOUS
    <2>1. /\ n + 1 \in 1 .. Len(p) /\ (n + 1) + 1 \in 1 .. Len(p) /\ n + 1 \in 1 .. N
          /\ (n + 1) + 1 \in 1 .. N + 1 /\ n + 1 \in 1 .. N + 1
      BY <1>2, <1>7
    <2>2. Offset(p, n + 1) = o(n + 1)
      BY <1>7, <2>1
    <2>3. Offset(p, (n + 1) + 1) = Offset(p, n + 1) + p[n + 1]
      BY <1>6, <2>1
    <2>4. p[n + 1] = e(n + 1) - o(n + 1)
      BY <1>5, <2>1
    <2>5. e(n + 1) = Least(o((n + 1) + 1), count)
      BY <1>2, <2>1 DEF EndOf
    <2>6. o((n + 1) + 1) < count /\ o((n + 1) + 1) \in Nat /\ o(n + 1) \in Nat
      BY <1>3, <1>5, <2>1
    <2>7. e(n + 1) = o((n + 1) + 1)
      BY <2>5, <2>6 DEF Least
    <2>8. QED BY <2>2, <2>3, <2>4, <2>6, <2>7
  <1>11. \A k \in 1 .. Len(p) : Offset(p, k) = o(k)
    <2>1. Nat \subseteq Good
      <3> HIDE DEF Good
      <3>1. QED BY <1>9, <1>10, SetInduction
    <2>2. \A k \in 1 .. Len(p) : k - 1 \in Nat /\ (k - 1) + 1 = k
      BY <1>7
    <2>3. QED BY <1>7, <2>1, <2>2
  <1>12. \A k \in 1 .. Len(p) : Offset(p, k) + p[k] = e(k)
    <2> TAKE k \in 1 .. Len(p)
    <2>1. k \in 1 .. N + 1
      BY <1>2, <1>7
    <2>2. o(k) \in Nat /\ e(k) \in Int
      BY <1>3, <1>8, <2>1
    <2>3. QED BY <1>5, <1>11, <2>2
  <1>13. \A k \in 1 .. N : o(k) < count => k <= Len(p)
    <2> SUFFICES ASSUME NEW k \in 1 .. N, o(k) < count, ~(k <= Len(p)) PROVE FALSE
      OBVIOUS
    <2>1. acc.remaining = 0 /\ m < k
      BY <1>2, <1>4, <1>5
    <2>2. count <= o(m + 1)
      BY <1>4, <2>1
    <2>3. m + 1 \in 1 .. N + 1 /\ k \in 1 .. N + 1 /\ m + 1 <= k
      BY <1>2, <1>4, <2>1
    <2>4. o(m + 1) <= o(k) /\ o(m + 1) \in Nat /\ o(k) \in Nat
      BY <1>3, <2>3
    <2>5. QED BY <2>2, <2>4
  <1>14. o(N + 1) < count => Len(p) = N + 1
    <2> SUFFICES ASSUME o(N + 1) < count, acc.remaining = 0 PROVE FALSE
      BY <1>4, <1>5
    <2>1. count <= o(m + 1)
      BY <1>4
    <2>2. m + 1 \in 1 .. N + 1 /\ N + 1 \in 1 .. N + 1 /\ m + 1 <= N + 1
      BY <1>2, <1>4
    <2>3. o(m + 1) <= o(N + 1) /\ o(m + 1) \in Nat /\ o(N + 1) \in Nat
      BY <1>3, <2>2
    <2>4. QED BY <2>1, <2>3
  <1>15. QED BY <1>5, <1>7, <1>11, <1>12, <1>13, <1>14 DEF sizes, p, N

\* A device is in the batch of a plan that its number falls into.
LEMMA SliceOf ==
  ASSUME NEW count \in Nat \ {0}, NEW p \in Sizes, NEW k \in 1 .. Len(p), NEW i \in 1 .. count,
         Offset(p, k) \in Nat, Offset(p, k) + p[k] <= count
  PROVE  InSlice(i, [n \in 1 .. count |-> n], p, k)
            <=> Offset(p, k) < i /\ i <= Offset(p, k) + p[k]
  <1> DEFINE ids  == [n \in 1 .. count |-> n]
             from == Offset(p, k)
             size == p[k]
             slice == BatchSlice(ids, p, k)
  <1>1. /\ ids \in Seq(1 .. count) /\ Len(ids) = count
        /\ \A j \in 1 .. count : ids[j] = j
    <2>1. ids \in [1 .. count -> 1 .. count] /\ \A j \in 1 .. count : ids[j] = j
      OBVIOUS
    <2> HIDE DEF ids
    <2>2. QED BY <2>1, FunctionIsSeq
  <1> HIDE DEF ids
  <1>2. from \in Nat /\ size \in Nat /\ from + size <= count
    BY DEF Sizes
  <1>3. slice = SubSeq(ids, from + 1, from + size)
    <2>1. Least(from + size, Len(ids)) = from + size
      BY <1>1, <1>2 DEF Least
    <2>2. QED BY <2>1 DEF BatchSlice
  <1> HIDE DEF from, size
  <1>4. DOMAIN slice = 1 .. size /\ \A j \in 1 .. size : slice[j] = from + j
    <2>1. slice \in Seq(1 .. count) /\ Len(slice) = size
      BY <1>1, <1>2, <1>3
    <2>2. \A j \in 1 .. size : slice[j] = ids[from + j]
      BY <1>1, <1>2, <1>3
    <2>3. \A j \in 1 .. size : from + j \in 1 .. count
      BY <1>2
    <2> HIDE DEF slice
    <2>4. QED BY <1>1, <2>1, <2>2, <2>3
  <1> HIDE DEF slice
  <1>5. (\E j \in 1 .. size : from + j = i) <=> from < i /\ i <= from + size
    <2>1. from < i /\ i <= from + size => i - from \in 1 .. size /\ from + (i - from) = i
      BY <1>2
    <2>2. QED BY <1>2, <2>1
  <1>6. InSlice(i, ids, p, k) <=> \E j \in DOMAIN slice : slice[j] = i
    BY DEF InSlice, slice
  <1>7. QED BY <1>4, <1>5, <1>6 DEF from, size, ids

\* Every device of a rollout is in the batch that the request gives it, and in no other
\* (normalize_canary_plan, create_batches).
THEOREM BatchesFollowRequest == Spec => []BatchesAreAsRequested
  <1>1. AnswerIsSolution => BatchesAreAsRequested
    <2> SUFFICES ASSUME AnswerIsSolution, Solved("canary"), NEW i \in 1 .. problem.count
                 PROVE  {k \in DOMAIN answer : InSlice(i, TaskIds, answer, k)} = {FirstReached(i)}
      BY DEF BatchesAreAsRequested
    <2> DEFINE count == problem.count
               sizes == SizesOf(problem.requested)
               N     == Len(sizes)
               o(k)  == Offset(sizes, k)
               first == FirstReached(i)
               enough == {k \in 1 .. N : o(k + 1) >= i}
    <2>1. problem \in CanaryProblems /\ answer = NormalizeCanaryPlan(count, problem.requested)
      BY DEF AnswerIsSolution, Solved, Problems, CanaryProblems, VlanProblems, ScheduleProblems,
             BackupProblems, SessionProblems, CleanProblems, ImportProblems, DriverProblems,
             CaptureProblems, ApplyProblems, FileProblems, EvidenceProblems, Batches
    <2>2. count \in Nat \ {0}
      BY <2>1, PlanningAssumption DEF CanaryProblems
    <2>3. sizes \in Sizes
      <3>1. MaxSize \in Nat /\ MaxBatches \in Nat
        BY PlanningAssumption
      <3>2. PICK n \in 0 .. MaxBatches : problem.requested \in [1 .. n -> 1 .. MaxSize]
        BY <2>1 DEF CanaryProblems, SmallRequests
      <3>3. problem.requested \in Sizes
        <4>1. n \in Nat /\ 1 .. MaxSize \subseteq Nat \ {0}
          BY <3>1
        <4>2. problem.requested \in [1 .. n -> Nat \ {0}]
          BY <3>2, <4>1
        <4>3. QED BY <4>1, <4>2, FunctionIsSeq DEF Sizes
      <3>4. DefaultPlan \in Sizes
        BY DEF DefaultPlan, Sizes
      <3>5. QED BY <3>3, <3>4 DEF SizesOf
    <2>4. N \in Nat /\ DOMAIN sizes = 1 .. N /\ sizes \in Seq(Nat)
      BY <2>3 DEF Sizes
    <2>5. /\ answer \in Sizes /\ Len(answer) <= N + 1
          /\ \A k \in 1 .. Len(answer) : /\ o(k) < count
                                         /\ Offset(answer, k) = o(k)
                                         /\ Offset(answer, k) + answer[k] = EndOf(count, sizes, k)
          /\ \A k \in 1 .. N : o(k) < count => k <= Len(answer)
          /\ o(N + 1) < count => Len(answer) = N + 1
      BY <2>1, <2>2, <2>3, BatchesOf
    <2>6. /\ o(1) = 0 /\ \A k \in 1 .. N + 1 : o(k) \in Nat
          /\ \A j, k \in 1 .. N + 1 : j <= k => o(j) <= o(k)
      BY <2>3, <2>4, OffsetsAdd, OffsetsRise
    <2>7. first = IF enough = {} THEN N + 1
                  ELSE CHOOSE k \in enough : \A m \in enough : k <= m
      <3>1. enough = {k \in DOMAIN sizes : o(k + 1) >= i}
        BY <2>4
      <3> HIDE DEF enough
      <3>2. QED BY <3>1 DEF FirstReached, SizesOf
    <2> HIDE DEF count, sizes, N, first
    <2>8. Len(answer) \in Nat /\ DOMAIN answer = 1 .. Len(answer)
      BY <2>5 DEF Sizes
    <2>9. \A k \in 1 .. Len(answer) : k \in 1 .. N + 1 /\ o(k) \in Nat
      <3>1. Len(answer) <= N + 1
        BY <2>5
      <3>2. \A k \in 1 .. Len(answer) : k \in 1 .. N + 1
        BY <2>4, <2>8, <3>1
      <3>3. QED BY <2>6, <3>2
    <2>10. \A k \in 1 .. Len(answer) :
             InSlice(i, TaskIds, answer, k) <=> o(k) < i /\ i <= EndOf(count, sizes, k)
      <3> TAKE k \in 1 .. Len(answer)
      <3>1. k \in 1 .. N + 1 /\ o(k) \in Nat
        BY <2>9
      <3>2. Offset(answer, k) \in Nat /\ Offset(answer, k) + answer[k] = EndOf(count, sizes, k)
        BY <2>5, <3>1
      <3>3. EndOf(count, sizes, k) <= count
        <4>1. CASE k \in 1 .. N
          <5>1. k + 1 \in 1 .. N + 1
            BY <2>4, <4>1
          <5>2. o(k + 1) \in Nat
            BY <2>6, <5>1
          <5>3. QED BY <2>2, <2>4, <4>1, <5>2 DEF EndOf, Least
        <4>2. CASE k \notin 1 .. N
          BY <2>2, <2>4, <4>2 DEF EndOf
        <4>3. QED BY <4>1, <4>2
      <3>4. TaskIds = [n \in 1 .. count |-> n] /\ i \in 1 .. count
        BY DEF TaskIds, count
      <3>5. Offset(answer, k) + answer[k] <= count
        BY <3>2, <3>3
      <3>6. InSlice(i, [n \in 1 .. count |-> n], answer, k)
              <=> Offset(answer, k) < i /\ i <= Offset(answer, k) + answer[k]
        BY <2>2, <2>5, <3>2, <3>4, <3>5, SliceOf
      <3>7. QED BY <2>5, <3>2, <3>4, <3>6
    <2>11. i \in Nat \ {0} /\ i <= count
      BY <2>2 DEF count
    <2>12. first \in 1 .. Len(answer) /\ o(first) < i /\ i <= EndOf(count, sizes, first)
           /\ \A k \in 1 .. Len(answer) : o(k) < i /\ i <= EndOf(count, sizes, k) => k = first
      <3>1. CASE enough = {}
        <4>1. \A k \in 1 .. N : o(k + 1) < i
          <5> TAKE k \in 1 .. N
          <5>1. k \notin enough /\ k + 1 \in 1 .. N + 1
            <6>1. k + 1 \in 1 .. N + 1
              BY <2>4
            <6> HIDE DEF enough
            <6>2. QED BY <3>1, <6>1
          <5>2. QED BY <2>6, <2>11, <5>1
        <4>2. o(N + 1) < i
          <5>1. CASE N = 0
            BY <2>6, <2>11, <5>1
          <5>2. CASE N # 0
            <6>1. N \in 1 .. N
              BY <2>4, <5>2
            <6>2. QED BY <4>1, <6>1
          <5>3. QED BY <5>1, <5>2
        <4>3. o(N + 1) \in Nat
          BY <2>4, <2>6
        <4>4. first = N + 1 /\ Len(answer) = N + 1
          BY <2>2, <2>5, <2>7, <2>11, <3>1, <4>2, <4>3
        <4>5. EndOf(count, sizes, N + 1) = count
          BY <2>4 DEF EndOf
        <4>6. ASSUME NEW k \in 1 .. Len(answer), i <= EndOf(count, sizes, k), k # N + 1 PROVE FALSE
          <5>1. k \in 1 .. N /\ k + 1 \in 1 .. N + 1
            BY <2>4, <4>4, <4>6
          <5>2. EndOf(count, sizes, k) = Least(o(k + 1), count) /\ o(k + 1) \in Nat /\ o(k + 1) < i
            BY <2>4, <2>6, <4>1, <5>1 DEF EndOf
          <5>3. QED BY <2>2, <2>11, <4>6, <5>2 DEF Least
        <4>7. QED BY <2>4, <2>11, <4>2, <4>4, <4>5, <4>6
      <3>2. CASE enough # {}
        <4>1. PICK x \in enough : \A y \in enough : x <= y
          <5>1. enough \subseteq Nat
            OBVIOUS
          <5> HIDE DEF enough
          <5>2. QED BY <3>2, <5>1, LeastElement
        <4>2. first \in enough /\ \A y \in enough : first <= y
          <5> HIDE DEF enough
          <5>1. QED BY <2>7, <3>2, <4>1
        <4>3. first \in 1 .. N /\ o(first + 1) >= i /\ first + 1 \in 1 .. N + 1 /\ first \in 1 .. N + 1
          BY <2>4, <4>2
        <4>4. o(first) < i
          <5>1. CASE first = 1
            BY <2>6, <2>11, <5>1
          <5>2. CASE first # 1
            <6>1. first - 1 \in 1 .. N /\ (first - 1) + 1 = first
              BY <2>4, <4>3, <5>2
            <6>2. first - 1 \notin enough
              BY <4>2, <4>3
            <6>3. ~(o((first - 1) + 1) >= i)
              BY <6>1, <6>2
            <6>4. QED BY <2>6, <2>11, <4>3, <6>1, <6>3
          <5>3. QED BY <5>1, <5>2
        <4>5. first <= Len(answer)
          <5>1. o(first) < count /\ o(first) \in Nat
            BY <2>2, <2>6, <2>11, <4>3, <4>4
          <5>2. QED BY <2>5, <4>3, <5>1
        <4>6. i <= EndOf(count, sizes, first)
          <5>1. EndOf(count, sizes, first) = Least(o(first + 1), count) /\ o(first + 1) \in Nat
            BY <2>4, <2>6, <4>3 DEF EndOf
          <5>2. QED BY <2>2, <2>11, <4>3, <5>1 DEF Least
        <4>7. ASSUME NEW k \in 1 .. Len(answer), o(k) < i, i <= EndOf(count, sizes, k), k # first
              PROVE  FALSE
          <5>1. k \in 1 .. N + 1 /\ o(k) \in Nat /\ o(first + 1) \in Nat
            BY <2>6, <2>9, <4>3
          <5>2. CASE k > first
            <6>1. first + 1 <= k
              BY <4>3, <5>1, <5>2
            <6>2. o(first + 1) <= o(k)
              BY <2>6, <4>3, <5>1, <6>1
            <6>3. QED BY <2>11, <4>3, <4>7, <5>1, <6>2
          <5>3. CASE k < first
            <6>1. k \in 1 .. N /\ k + 1 \in 1 .. N + 1
              BY <2>4, <4>3, <5>1, <5>3
            <6>2. EndOf(count, sizes, k) = Least(o(k + 1), count) /\ o(k + 1) \in Nat
              BY <2>4, <2>6, <6>1 DEF EndOf
            <6>3. i <= o(k + 1)
              BY <2>2, <2>11, <4>7, <6>2 DEF Least
            <6>4. k \in enough
              BY <6>1, <6>2, <6>3, <2>11
            <6>5. QED BY <4>2, <4>3, <5>1, <5>3, <6>4
          <5>4. QED BY <4>3, <4>7, <5>1, <5>2, <5>3
        <4>8. QED BY <4>3, <4>4, <4>5, <4>6, <4>7
      <3>3. QED BY <3>1, <3>2
    <2>13. QED BY <2>8, <2>10, <2>12 DEF first
  <1>2. QED BY <1>1, Solutions, PTL

-----------------------------------------------------------------------------
(* What is read of a terminal                                              *)

\* What SetupReads has read of the first n chunks.
ReadOf(transport, channel, deadline, n, read) ==
    /\ read \in [chunks : Nat, done : BOOLEAN]
    /\ read.chunks <= n /\ read.chunks <= deadline
    /\ \A i \in 1 .. read.chunks - 1 : ~Returns(transport, channel[i])
    /\ read.done => read.chunks > 0 /\ Returns(transport, channel[read.chunks])
    /\ ~read.done => /\ read.chunks = n \/ read.chunks = deadline
                     /\ read.chunks > 0 => ~Returns(transport, channel[read.chunks])

LEMMA ReturnsOrNot ==
  ASSUME NEW transport, NEW chunk
  PROVE  Returns(transport, chunk) \in BOOLEAN
  <1>1. CASE transport = "paramiko"
    <2>1. Returns(transport, chunk) = (chunk.ends \in {"lookalike", "prompt"})
      BY <1>1 DEF Returns, LooksLikePrompt
    <2>2. QED BY <2>1
  <1>2. CASE transport # "paramiko"
    <2>1. Returns(transport, chunk) = (chunk.slow \/ chunk.ends \in {"marker", "prompt"})
      BY <1>2 DEF Returns, Waits
    <2>2. QED BY <2>1
  <1>3. QED BY <1>1, <1>2

\* A command is read up to the first chunk that returns, the end, or the deadline.
LEMMA SetupIsRead ==
  ASSUME NEW T, NEW channel \in Seq(T), NEW transport, NEW deadline \in Nat
  PROVE  ReadOf(transport, channel, deadline, Len(channel),
                SetupReads(transport, channel, deadline))
  <1> DEFINE S       == [chunks : Nat, done : BOOLEAN]
             base    == [chunks |-> 0, done |-> FALSE]
             N       == Len(channel)
             more(r, chunk) == IF r.done \/ r.chunks = deadline THEN r
                               ELSE [chunks |-> r.chunks + 1, done |-> Returns(transport, chunk)]
             step    == [n \in 1 .. N |-> [r \in S |-> more(r, channel[n])]]
             next(f) == [s \in SUBSET DOMAIN channel |->
                           IF s = {} THEN base ELSE more(f[s \ {Max(s)}], channel[Max(s)])]
             fold    == CHOOSE f : f = next(f)
  <1>1. N \in Nat /\ DOMAIN channel = 1 .. N
    OBVIOUS
  <1>2. SetupReads(transport, channel, deadline) = fold[1 .. N]
    BY DEF SetupReads, FoldLeft, MapThenFoldSet
  <1>3. \A r \in S : \A chunk : more(r, chunk) \in S
    BY ReturnsOrNot
  <1>4. \A n \in 1 .. N : step[n] \in [S -> S] /\ \A r \in S : step[n][r] = more(r, channel[n])
    BY <1>3
  <1>5. base \in S
    OBVIOUS
  <1> HIDE DEF S, base, more
  <1>6. \E f : f = next(f)
    <2>1. step \in StepsOn(S, N)
      BY <1>4 DEF StepsOn
    <2> HIDE DEF step, N
    <2>2. PICK f : IsFold(f, S, base, N, step)
      BY ONLY <1>1, <1>5, <2>1, FoldExists
    <2>3. \A s \in SUBSET (1 .. N) : s # {} =>
            step[Max(s)][f[s \ {Max(s)}]] = more(f[s \ {Max(s)}], channel[Max(s)])
      <3> TAKE s \in SUBSET (1 .. N)
      <3>1. s # {} => Max(s) \in 1 .. N
        BY <1>1, GreatestIn
      <3>2. f[s \ {Max(s)}] \in S
        BY <2>2 DEF IsFold
      <3>3. QED BY <1>4, <3>1, <3>2
    <2>4. f = next(f)
      BY <1>1, <2>2, <2>3 DEF IsFold
    <2>5. QED BY <2>4
  <1>7. fold = next(fold)
    BY <1>6
  <1> HIDE DEF fold, step
  <1> DEFINE Good == {n \in Nat : n <= N => ReadOf(transport, channel, deadline, n, fold[1 .. n])}
  <1>8. 0 \in Good
    <2>1. fold[1 .. 0] = base
      BY <1>1, <1>7
    <2>2. base.chunks = 0 /\ base.done = FALSE /\ base \in [chunks : Nat, done : BOOLEAN]
      BY DEF base
    <2>3. ReadOf(transport, channel, deadline, 0, base)
      BY <2>2 DEF ReadOf
    <2>4. QED BY <2>1, <2>3
  <1>9. \A n \in Nat : n \in Good => n + 1 \in Good
    <2> SUFFICES ASSUME NEW n \in Nat, n \in Good, n + 1 <= N
                 PROVE  ReadOf(transport, channel, deadline, n + 1, fold[1 .. n + 1])
      OBVIOUS
    <2> DEFINE r == fold[1 .. n]
    <2>1. ReadOf(transport, channel, deadline, n, r)
      BY <1>1
    <2>2. fold[1 .. n + 1] = more(r, channel[n + 1])
      <3>1. 1 .. n + 1 # {} /\ Max(1 .. n + 1) = n + 1 /\ (1 .. n + 1) \ {n + 1} = 1 .. n
        BY FoldOfNext
      <3>2. 1 .. n + 1 \in SUBSET DOMAIN channel
        BY <1>1
      <3>3. QED BY <1>7, <3>1, <3>2
    <2> HIDE DEF r
    <2>3. CASE r.done \/ r.chunks = deadline
      BY <2>1, <2>2, <2>3 DEF ReadOf, more
    <2>4. CASE ~(r.done \/ r.chunks = deadline)
      <3>1. fold[1 .. n + 1] = [chunks |-> n + 1, done |-> Returns(transport, channel[n + 1])]
        BY <2>1, <2>2, <2>4 DEF ReadOf, more
      <3>2. Returns(transport, channel[n + 1]) \in BOOLEAN
        BY ReturnsOrNot
      <3>3. n < deadline /\ \A i \in 1 .. n : ~Returns(transport, channel[i])
        BY <2>1, <2>4 DEF ReadOf
      <3>4. QED BY <3>1, <3>2, <3>3 DEF ReadOf
    <2>5. QED BY <2>3, <2>4
  <1>10. N \in Good
    <2> HIDE DEF Good
    <2>1. QED BY <1>1, <1>8, <1>9, SetInduction
  <1>11. QED BY <1>1, <1>2, <1>10

\* How many of the first n chunks end in a paging marker.
Markers(channel, n) == Cardinality({i \in 1 .. n : channel[i].ends = "marker"})

LEMMA MarkersOf ==
  ASSUME NEW channel, NEW n \in Nat
  PROVE  /\ Markers(channel, n) \in Nat /\ Markers(channel, 0) = 0
         /\ Markers(channel, n + 1) = IF channel[n + 1].ends = "marker" THEN Markers(channel, n) + 1
                                      ELSE Markers(channel, n)
         /\ \A m \in 0 .. n : Markers(channel, m) <= Markers(channel, n)
  <1> DEFINE M(k) == {i \in 1 .. k : channel[i].ends = "marker"}
  <1>1. \A k \in Nat : IsFiniteSet(M(k))
    <2> TAKE k \in Nat
    <2>1. IsFiniteSet(1 .. k)
      BY FS_Interval
    <2>2. M(k) \subseteq 1 .. k
      OBVIOUS
    <2>3. QED BY <2>1, <2>2, FS_Subset
  <1>2. M(0) = {}
    OBVIOUS
  <1>3. Markers(channel, n) \in Nat /\ Markers(channel, 0) = 0
    BY <1>1, <1>2, FS_CardinalityType, FS_EmptySet DEF Markers
  <1>4. Markers(channel, n + 1) = IF channel[n + 1].ends = "marker" THEN Markers(channel, n) + 1
                                  ELSE Markers(channel, n)
    <2>1. CASE channel[n + 1].ends = "marker"
      <3>1. M(n + 1) = M(n) \cup {n + 1} /\ n + 1 \notin M(n)
        BY <2>1
      <3>2. Cardinality(M(n) \cup {n + 1}) = Cardinality(M(n)) + 1
        BY <1>1, <3>1, FS_AddElement
      <3>3. QED BY <2>1, <3>1, <3>2 DEF Markers
    <2>2. CASE channel[n + 1].ends # "marker"
      <3>1. M(n + 1) = M(n)
        BY <2>2
      <3>2. QED BY <2>2, <3>1 DEF Markers
    <2>3. QED BY <2>1, <2>2
  <1>5. ASSUME NEW m \in 0 .. n PROVE Markers(channel, m) <= Markers(channel, n)
    <2>1. M(m) \subseteq M(n)
      OBVIOUS
    <2>2. QED BY <1>1, <2>1, FS_Subset DEF Markers
  <1>6. QED BY <1>3, <1>4, <1>5

LEMMA MarkersGrow ==
  ASSUME NEW channel, NEW n \in Nat, NEW m \in 0 .. n
  PROVE  /\ Markers(channel, m) <= Markers(channel, n)
         /\ Markers(channel, m) \in Nat /\ Markers(channel, n) \in Nat
  <1>1. m \in Nat
    OBVIOUS
  <1>2. QED BY <1>1, MarkersOf

\* What ReadBackup has made of the first n chunks: every marker before the last chunk
\* read has had its key; an answer is complete with a chunk that returns, and like a
\* prompt if there were pages; and it has failed at a bound, or at a pause after a page.
BackupReadOf(transport, channel, deadline, n, s) ==
    /\ s \in [state : {"reading", "complete", "failed"}, read : Nat, keys : Nat]
    /\ s.read <= n /\ s.read <= deadline
    /\ s.state = "reading" =>
          /\ s.read = n \/ s.read = deadline
          /\ s.keys = Markers(channel, s.read)
          /\ \A i \in 1 .. s.read : channel[i].ends # "marker" => ~Returns(transport, channel[i])
    /\ s.state = "complete" =>
          /\ s.read > 0 /\ channel[s.read].ends # "marker" /\ Returns(transport, channel[s.read])
          /\ s.keys = Markers(channel, s.read)
    /\ s.state = "failed" =>
          /\ s.read > 0
          /\ \/ s.read > MaxBytes
             \/ Markers(channel, s.read) > MaxPages
             \/ channel[s.read].ends # "marker" /\ ~LooksLikePrompt(channel[s.read])
                /\ Returns(transport, channel[s.read])

\* One more chunk, for a reader that has read all of those before it.
LEMMA ChunkIsTaken ==
  ASSUME NEW channel, NEW transport, NEW deadline \in Nat, NEW n \in Nat, NEW s,
         BackupReadOf(transport, channel, deadline, n, s), s.state = "reading",
         s.read = n, n # deadline
  PROVE  BackupReadOf(transport, channel, deadline, n + 1, Take(transport, s, channel[n + 1]))
  <1> DEFINE chunk == channel[n + 1]
             t     == [s EXCEPT !.read = @ + 1]
             u     == Take(transport, s, chunk)
             m     == Markers(channel, n)
  <1>1. /\ s \in [state : {"reading", "complete", "failed"}, read : Nat, keys : Nat]
        /\ s.keys = m /\ n + 1 <= deadline
        /\ \A i \in 1 .. n : channel[i].ends # "marker" => ~Returns(transport, channel[i])
    BY DEF BackupReadOf
  <1>2. /\ t \in [state : {"reading", "complete", "failed"}, read : Nat, keys : Nat]
        /\ t.read = n + 1 /\ t.keys = m /\ t.state = "reading"
    BY <1>1
  <1>3. /\ m \in Nat
        /\ Markers(channel, n + 1) = IF chunk.ends = "marker" THEN m + 1 ELSE m
    BY MarkersOf
  <1>4. MaxPages \in Nat /\ MaxBytes \in Nat
    BY CliReaderAssumption
  <1>5. u = IF t.read > MaxBytes THEN [t EXCEPT !.state = "failed"]
            ELSE IF chunk.ends = "marker" THEN Continue(t)
            ELSE IF Returns(transport, chunk)
                 THEN [t EXCEPT !.state = IF t.keys > 0 => LooksLikePrompt(chunk)
                                          THEN "complete" ELSE "failed"]
            ELSE t
    BY DEF Take
  <1> HIDE DEF chunk, t, u, m
  <1>6. chunk = channel[n + 1]
    BY DEF chunk
  <1>7. CASE t.read > MaxBytes
    BY <1>1, <1>2, <1>5, <1>7 DEF BackupReadOf, u, chunk
  <1>8. CASE t.read <= MaxBytes /\ chunk.ends = "marker"
    <2>1. u = Continue(t)
      BY <1>2, <1>4, <1>5, <1>8
    <2>2. CASE m + 1 > MaxPages
      <3>1. u = [t EXCEPT !.state = "failed"]
        BY <1>2, <2>1, <2>2 DEF Continue
      <3>2. QED BY <1>1, <1>2, <1>3, <1>8, <2>2, <3>1 DEF BackupReadOf, u, chunk
    <2>3. CASE ~(m + 1 > MaxPages)
      <3>1. u = [t EXCEPT !.keys = @ + 1]
        BY <1>2, <2>1, <2>3 DEF Continue
      <3>2. \A i \in 1 .. n + 1 : channel[i].ends # "marker" => ~Returns(transport, channel[i])
        BY <1>1, <1>6, <1>8
      <3>3. u.state = "reading" /\ u.read = n + 1 /\ u.keys = m + 1
        BY <1>2, <3>1
      <3>4. u \in [state : {"reading", "complete", "failed"}, read : Nat, keys : Nat]
        BY <1>2, <1>3, <3>1
      <3>5. QED BY <1>1, <1>3, <1>8, <3>2, <3>3, <3>4 DEF BackupReadOf, u, chunk
    <2>4. QED BY <2>2, <2>3
  <1>9. CASE t.read <= MaxBytes /\ chunk.ends # "marker" /\ Returns(transport, chunk)
    <2>1. u = [t EXCEPT !.state = IF t.keys > 0 => LooksLikePrompt(chunk)
                                  THEN "complete" ELSE "failed"]
      BY <1>2, <1>4, <1>5, <1>9
    <2>2. CASE t.keys > 0 => LooksLikePrompt(chunk)
      <3>1. u = [t EXCEPT !.state = "complete"]
        BY <2>1, <2>2
      <3>2. QED BY <1>1, <1>2, <1>3, <1>9, <3>1 DEF BackupReadOf, u, chunk
    <2>3. CASE ~(t.keys > 0 => LooksLikePrompt(chunk))
      <3>1. u = [t EXCEPT !.state = "failed"]
        BY <2>1, <2>3
      <3>2. QED BY <1>1, <1>2, <1>3, <1>9, <2>3, <3>1 DEF BackupReadOf, u, chunk
    <2>4. QED BY <2>2, <2>3
  <1>10. CASE t.read <= MaxBytes /\ chunk.ends # "marker" /\ ~Returns(transport, chunk)
    <2>1. u = t
      BY <1>2, <1>4, <1>5, <1>10
    <2>2. \A i \in 1 .. n + 1 : channel[i].ends # "marker" => ~Returns(transport, channel[i])
      BY <1>1, <1>6, <1>10
    <2>3. QED BY <1>1, <1>2, <1>3, <1>10, <2>1, <2>2 DEF BackupReadOf, u, chunk
  <1>11. QED BY <1>2, <1>4, <1>7, <1>8, <1>9, <1>10

LEMMA BackupIsRead ==
  ASSUME NEW T, NEW channel \in Seq(T), NEW transport, NEW deadline \in Nat
  PROVE  BackupReadOf(transport, channel, deadline, Len(channel),
                      ReadBackup(transport, channel, deadline))
  <1> DEFINE S       == [state : {"reading", "complete", "failed"}, read : Nat, keys : Nat]
             N       == Len(channel)
             more(s, chunk) == IF s.state # "reading" \/ s.read = deadline THEN s
                               ELSE Take(transport, s, chunk)
             step    == [n \in 1 .. N |-> [s \in S |-> more(s, channel[n])]]
             next(f) == [s \in SUBSET DOMAIN channel |->
                           IF s = {} THEN Start ELSE more(f[s \ {Max(s)}], channel[Max(s)])]
             fold    == CHOOSE f : f = next(f)
  <1>1. N \in Nat /\ DOMAIN channel = 1 .. N
    OBVIOUS
  <1>2. ReadBackup(transport, channel, deadline) = fold[1 .. N]
    BY DEF ReadBackup, FoldLeft, MapThenFoldSet
  <1>3. \A s \in S : \A chunk : more(s, chunk) \in S
    <2> SUFFICES ASSUME NEW s \in S, NEW chunk PROVE Take(transport, s, chunk) \in S
      OBVIOUS
    <2> DEFINE t == [s EXCEPT !.read = @ + 1]
    <2>1. t \in S
      OBVIOUS
    <2> HIDE DEF t
    <2>2. \A state \in {"reading", "complete", "failed"} : [t EXCEPT !.state = state] \in S
      BY <2>1
    <2>3. [t EXCEPT !.keys = @ + 1] \in S
      BY <2>1
    <2> HIDE DEF S
    <2>4. Continue(t) \in S
      BY <2>2, <2>3 DEF Continue
    <2>5. QED BY <2>1, <2>2, <2>4 DEF Take, t
  <1>4. \A n \in 1 .. N : step[n] \in [S -> S] /\ \A s \in S : step[n][s] = more(s, channel[n])
    BY <1>3
  <1>5. Start \in S
    BY DEF Start
  <1> HIDE DEF S, more
  <1>6. \E f : f = next(f)
    <2>1. step \in StepsOn(S, N)
      BY <1>4 DEF StepsOn
    <2> HIDE DEF step, N
    <2>2. PICK f : IsFold(f, S, Start, N, step)
      BY ONLY <1>1, <1>5, <2>1, FoldExists
    <2>3. \A s \in SUBSET (1 .. N) : s # {} =>
            step[Max(s)][f[s \ {Max(s)}]] = more(f[s \ {Max(s)}], channel[Max(s)])
      <3> TAKE s \in SUBSET (1 .. N)
      <3>1. s # {} => Max(s) \in 1 .. N
        BY <1>1, GreatestIn
      <3>2. f[s \ {Max(s)}] \in S
        BY <2>2 DEF IsFold
      <3>3. QED BY <1>4, <3>1, <3>2
    <2>4. f = next(f)
      BY <1>1, <2>2, <2>3 DEF IsFold
    <2>5. QED BY <2>4
  <1>7. fold = next(fold)
    BY <1>6
  <1> HIDE DEF fold, step
  <1> DEFINE ReadTo(n) == BackupReadOf(transport, channel, deadline, n, fold[1 .. n])
             Good      == {n \in Nat : n <= N => ReadTo(n)}
  <1>8. 0 \in Good
    <2>1. fold[1 .. 0] = Start
      BY <1>1, <1>7
    <2>2. BackupReadOf(transport, channel, deadline, 0, Start)
      <3>1. Markers(channel, 0) = 0
        BY MarkersOf
      <3>2. Start.state = "reading" /\ Start.read = 0 /\ Start.keys = 0
        BY DEF Start
      <3>3. QED BY <1>5, <3>1, <3>2 DEF BackupReadOf, S
    <2>3. QED BY <2>1, <2>2
  <1>9. \A n \in Nat : n \in Good => n + 1 \in Good
    <2> SUFFICES ASSUME NEW n \in Nat, n \in Good, n + 1 <= N PROVE ReadTo(n + 1)
      OBVIOUS
    <2> DEFINE s == fold[1 .. n]
    <2>1. BackupReadOf(transport, channel, deadline, n, s)
      BY <1>1
    <2>2. fold[1 .. n + 1] = more(s, channel[n + 1])
      <3>1. 1 .. n + 1 # {} /\ Max(1 .. n + 1) = n + 1 /\ (1 .. n + 1) \ {n + 1} = 1 .. n
        BY FoldOfNext
      <3>2. 1 .. n + 1 \in SUBSET DOMAIN channel
        BY <1>1
      <3>3. QED BY <1>7, <3>1, <3>2
    <2> HIDE DEF s
    <2>3. CASE s.state # "reading" \/ s.read = deadline
      <3>1. fold[1 .. n + 1] = s
        BY <2>2, <2>3 DEF more
      <3>2. QED BY <2>1, <2>3, <3>1 DEF BackupReadOf
    <2>4. CASE s.state = "reading" /\ s.read # deadline
      <3>1. fold[1 .. n + 1] = Take(transport, s, channel[n + 1])
        BY <2>2, <2>4 DEF more
      <3>2. s.read = n
        BY <2>1, <2>4 DEF BackupReadOf
      <3>3. n # deadline
        BY <2>4, <3>2
      <3>4. QED BY <2>1, <2>4, <3>1, <3>2, <3>3, ChunkIsTaken
    <2>5. QED BY <2>3, <2>4
  <1>10. N \in Good
    <2> HIDE DEF Good
    <2>1. QED BY <1>1, <1>8, <1>9, SetInduction
  <1>11. QED BY <1>1, <1>2, <1>10

\* The problem is a backup, of an answer that a prompt can only end, after a setup
\* command whose answer has a prompt and no marker.
LEMMA BackupProblem ==
  ASSUME AnswerIsSolution, Solved("backup")
  PROVE  /\ answer = Backup /\ problem.transport \in Transports
         /\ problem.setup \in Seq(Chunks("setup", Endings)) /\ problem.setup # <<>>
         /\ \A i \in 1 .. Len(problem.setup) : problem.setup[i].ends # "marker"
         /\ problem.setup[Len(problem.setup)].ends = "prompt"
         /\ problem.reply \in Seq(Chunks("backup", Endings))
         /\ \A i \in 1 .. Len(problem.reply) - 1 : problem.reply[i].ends # "prompt"
         /\ problem.setupDeadline \in Nat /\ problem.deadline \in Nat
  <1>1. problem \in BackupProblems
    BY DEF AnswerIsSolution, Solved, Problems, CanaryProblems, VlanProblems, ScheduleProblems,
           BackupProblems, SessionProblems, CleanProblems, ImportProblems, DriverProblems,
           CaptureProblems, ApplyProblems, FileProblems, EvidenceProblems
  <1>2. /\ problem.transport \in Transports /\ problem.setup \in SetupReplies
        /\ problem.reply \in Replies /\ problem.setupDeadline \in Nat /\ problem.deadline \in Nat
    BY <1>1 DEF BackupProblems
  <1>3. \A command, endings, n : \A a \in Answers(command, endings, n) :
           a \in Seq(Chunks(command, endings))
    BY DEF Answers
  <1>4. \A command, endings : \A a \in Seq(Chunks(command, endings)) :
          endings \subseteq Endings =>
            /\ a \in Seq(Chunks(command, Endings))
            /\ \A i \in 1 .. Len(a) : a[i].ends \in endings
    <2> TAKE command, endings
    <2>1. endings \subseteq Endings =>
            \A c \in Chunks(command, endings) : c \in Chunks(command, Endings) /\ c.ends \in endings
      BY DEF Chunks
    <2>2. QED BY <2>1
  <1> DEFINE last(command) == [of |-> command, ends |-> "prompt", slow |-> TRUE]
  <1>5. \A command : last(command) \in Chunks(command, Endings) /\ last(command).ends = "prompt"
    BY DEF Chunks, Endings
  <1> HIDE DEF last
  <1>6. ASSUME NEW command, NEW endings, endings \subseteq Endings,
               NEW a \in Seq(Chunks(command, endings))
        PROVE  LET e == a \o <<last(command)>> IN
               /\ e \in Seq(Chunks(command, Endings)) /\ Len(e) = Len(a) + 1
               /\ \A i \in 1 .. Len(e) - 1 : e[i].ends \in endings
               /\ e[Len(e)].ends = "prompt"
    <2> DEFINE e == a \o <<last(command)>>
    <2>2. a \in Seq(Chunks(command, Endings)) /\ \A i \in 1 .. Len(a) : a[i].ends \in endings
      BY <1>4, <1>6
    <2>3. /\ e \in Seq(Chunks(command, Endings)) /\ Len(e) = Len(a) + 1
          /\ e[Len(e)] = last(command) /\ \A i \in 1 .. Len(a) : e[i] = a[i]
      BY <1>5, <1>6, <2>2
    <2>4. QED BY <1>5, <2>2, <2>3
  <1>7. /\ problem.setup \in Seq(Chunks("setup", Endings)) /\ problem.setup # <<>>
        /\ \A i \in 1 .. Len(problem.setup) : problem.setup[i].ends # "marker"
        /\ problem.setup[Len(problem.setup)].ends = "prompt"
    <2>1. PICK a \in Answers("setup", {"text", "lookalike"}, 1) :
            problem.setup = a \o <<last("setup")>>
      BY <1>2 DEF SetupReplies, Ended, last
    <2>2. a \in Seq(Chunks("setup", {"text", "lookalike"}))
      BY <1>3, <2>1
    <2>3. {"text", "lookalike"} \subseteq Endings
      BY DEF Endings
    <2>4. /\ problem.setup \in Seq(Chunks("setup", Endings)) /\ Len(problem.setup) = Len(a) + 1
          /\ \A i \in 1 .. Len(problem.setup) - 1 : problem.setup[i].ends \in {"text", "lookalike"}
          /\ problem.setup[Len(problem.setup)].ends = "prompt"
      BY <1>6, <2>1, <2>2, <2>3
    <2>5. QED BY <2>2, <2>4
  <1>8. /\ problem.reply \in Seq(Chunks("backup", Endings))
        /\ \A i \in 1 .. Len(problem.reply) - 1 : problem.reply[i].ends # "prompt"
    <2> DEFINE open == Answers("backup", {"text", "lookalike", "marker"}, MaxChunks)
    <2>1. {"text", "lookalike", "marker"} \subseteq Endings
      BY DEF Endings
    <2>2. problem.reply \in open \/ \E a \in open : problem.reply = a \o <<last("backup")>>
      BY <1>2 DEF Replies, Ended, last
    <2>3. CASE problem.reply \in open
      <3>1. problem.reply \in Seq(Chunks("backup", {"text", "lookalike", "marker"}))
        BY <1>3, <2>3
      <3>2. QED BY <1>4, <2>1, <3>1
    <2>4. CASE \E a \in open : problem.reply = a \o <<last("backup")>>
      <3>1. PICK a \in open : problem.reply = a \o <<last("backup")>>
        BY <2>4
      <3>2. a \in Seq(Chunks("backup", {"text", "lookalike", "marker"}))
        BY <1>3, <3>1
      <3>3. /\ problem.reply \in Seq(Chunks("backup", Endings))
            /\ \A i \in 1 .. Len(problem.reply) - 1 :
                  problem.reply[i].ends \in {"text", "lookalike", "marker"}
        <4> DEFINE e == a \o <<last("backup")>>
        <4>1. /\ e \in Seq(Chunks("backup", Endings))
              /\ \A i \in 1 .. Len(e) - 1 : e[i].ends \in {"text", "lookalike", "marker"}
          BY ONLY <1>6, <2>1, <3>2
        <4> HIDE DEF e
        <4>2. problem.reply = e
          BY <3>1 DEF e
        <4>3. QED BY <4>1, <4>2
      <3>4. QED BY <3>3
    <2>5. QED BY <2>2, <2>3, <2>4
  <1>9. answer = Backup
    BY DEF AnswerIsSolution
  <1>10. QED BY <1>2, <1>7, <1>8, <1>9

\* What is stored as a configuration is the whole answer, with a key for every page and
\* however it comes, and an answer in full and in time is collected (_collect).
THEOREM WholeOutput == Spec => []OutputIsWhole
  <1>1. AnswerIsSolution => OutputIsWhole
    <2> SUFFICES ASSUME AnswerIsSolution, Solved("backup"), AsExpected PROVE OutputIsWhole
      BY DEF OutputIsWhole
    <2> DEFINE transport == problem.transport
               setup   == problem.setup
               reply   == problem.reply
               L       == Len(reply)
               first   == SetupReads(transport, setup, problem.setupDeadline)
               final   == ReadBackup(transport, reply, problem.deadline)
               refused == transport = "netmiko" /\ ~first.done
    <2>1. /\ answer = Backup /\ transport \in Transports
          /\ setup \in Seq(Chunks("setup", Endings)) /\ setup # <<>>
          /\ \A i \in 1 .. Len(setup) : setup[i].ends # "marker"
          /\ setup[Len(setup)].ends = "prompt"
          /\ reply \in Seq(Chunks("backup", Endings))
          /\ \A i \in 1 .. L - 1 : reply[i].ends # "prompt"
          /\ problem.setupDeadline \in Nat /\ problem.deadline \in Nat
      BY BackupProblem
    <2>2. first.chunks = Len(setup)
      BY DEF AsExpected
    <2>3. SubSeq(setup, first.chunks + 1, Len(setup)) \o reply = reply
      <3>1. SubSeq(setup, Len(setup) + 1, Len(setup)) = <<>>
        BY <2>1
      <3>2. <<>> \o reply = reply
        BY <2>1
      <3>3. QED BY <2>2, <3>1, <3>2
    <2>4. ReadOf(transport, setup, problem.setupDeadline, Len(setup), first)
      BY <2>1, SetupIsRead
    <2>5. BackupReadOf(transport, reply, problem.deadline, L, final)
      BY <2>1, BackupIsRead
    <2>6. /\ answer.success = (~refused /\ (final.state = "complete"
                                \/ (transport = "netmiko" /\ reply = <<>> /\ problem.deadline > 0)))
          /\ answer.output = IF refused THEN <<>> ELSE SubSeq(reply, 1, final.read)
          /\ answer.keys   = IF refused THEN 0 ELSE final.keys
      <3>1. ~ \E i \in 1 .. first.chunks : setup[i].ends = "marker"
        BY <2>1, <2>2
      <3> HIDE DEF first, final
      <3>2. QED BY <2>1, <2>3, <3>1 DEF Backup, Collect, first, final
    <2>7. \A i \in 1 .. L : IF transport = "paramiko" THEN reply[i].ends # "lookalike"
                            ELSE Waits(reply[i]) \/ ~reply[i].slow
      BY <2>1 DEF AsExpected
    <2>8. \A i \in 1 .. L : reply[i].ends \in Endings /\ reply[i].slow \in BOOLEAN
      <3>1. \A c \in Chunks("backup", Endings) : c.ends \in Endings /\ c.slow \in BOOLEAN
        BY DEF Chunks
      <3>2. QED BY <2>1, <3>1
    <2>9. transport = "netmiko" => reply # <<>>
      BY DEF AsExpected
    <2>10. \A i \in 1 .. L : Returns(transport, reply[i]) /\ reply[i].ends # "marker"
                               => reply[i].ends = "prompt"
      BY <2>7, <2>8 DEF Returns, LooksLikePrompt, Waits, Endings
    <2>11. \A i \in 1 .. L : reply[i].ends = "prompt" => /\ Returns(transport, reply[i])
                                                         /\ LooksLikePrompt(reply[i])
      BY DEF Returns, LooksLikePrompt, Waits
    <2> DEFINE markers == Cardinality({i \in DOMAIN reply : reply[i].ends = "marker"})
    <2>12. L \in Nat /\ DOMAIN reply = 1 .. L /\ markers = Markers(reply, L)
      <3>1. L \in Nat /\ DOMAIN reply = 1 .. L
        BY <2>1
      <3>2. QED BY <3>1 DEF Markers
    <2>13. ASSUME answer.success
           PROVE  answer.output = reply /\ EndsInPrompt(answer.output) /\ answer.keys = markers
      <3>1. ~refused /\ final.state = "complete"
        BY <2>6, <2>9, <2>13
      <3> HIDE DEF refused, first, final, markers
      <3>2. /\ final.read \in 1 .. L /\ reply[final.read].ends # "marker"
            /\ Returns(transport, reply[final.read]) /\ final.keys = Markers(reply, final.read)
        BY <2>5, <2>12, <3>1 DEF BackupReadOf
      <3>3. reply[final.read].ends = "prompt"
        BY <2>10, <3>2
      <3>4. final.read = L
        BY <2>1, <2>12, <3>2, <3>3
      <3>5. SubSeq(reply, 1, L) = reply
        BY <2>1
      <3>6. answer.output = reply /\ answer.keys = markers
        BY <2>6, <2>12, <3>1, <3>2, <3>4, <3>5
      <3>7. reply # <<>>
        BY <2>12, <3>2
      <3>8. QED BY <3>3, <3>4, <3>6, <3>7 DEF EndsInPrompt
    <2>14. ASSUME EndsInPrompt(reply), markers <= MaxPages, L <= MaxBytes, L <= problem.deadline
           PROVE  answer.success
      <3> HIDE DEF refused, final, markers
      <3>1. L > 0 /\ reply[L].ends = "prompt"
        BY <2>1, <2>12, <2>14 DEF EndsInPrompt
      <3>2. ~refused
        <4>1. Len(setup) > 0
          BY <2>1
        <4>2. CASE first.done
          BY <4>2 DEF refused
        <4>3. CASE ~first.done
          <5>1. ~Returns(transport, setup[Len(setup)])
            BY <2>2, <2>4, <4>1, <4>3 DEF ReadOf
          <5>2. QED BY <2>1, <5>1 DEF Returns, LooksLikePrompt, Waits
        <4>4. QED BY <4>2, <4>3
      <3>3. /\ final.state \in {"reading", "complete", "failed"} /\ final.read \in Nat
            /\ final.read <= L /\ final.read <= problem.deadline
        BY <2>5 DEF BackupReadOf
      <3>4. final.state # "reading"
        <4> SUFFICES ASSUME final.state = "reading" PROVE FALSE
          OBVIOUS
        <4>1. final.read = L
          BY <2>1, <2>5, <2>12, <2>14, <3>3 DEF BackupReadOf
        <4>2. ~Returns(transport, reply[L])
          BY <2>5, <2>12, <3>1, <4>1 DEF BackupReadOf
        <4>3. QED BY <2>11, <2>12, <3>1, <4>2
      <3>5. final.state # "failed"
        <4> SUFFICES ASSUME final.state = "failed" PROVE FALSE
          OBVIOUS
        <4>1. final.read \in 1 .. L
          BY <2>5, <2>12, <3>3 DEF BackupReadOf
        <4>2. Markers(reply, final.read) <= MaxPages
          <5>1. Markers(reply, final.read) <= Markers(reply, L)
            BY ONLY <2>12, <4>1, MarkersGrow
          <5>2. Markers(reply, final.read) \in Nat /\ Markers(reply, L) \in Nat
            BY ONLY <2>12, <4>1, MarkersGrow
          <5>3. QED BY <2>12, <2>14, <5>1, <5>2, CliReaderAssumption
        <4>3. final.read <= MaxBytes
          BY <2>12, <2>14, <4>1, CliReaderAssumption
        <4>4. Markers(reply, final.read) \in Nat
          BY ONLY <2>12, <4>1, MarkersGrow
        <4>5. reply[final.read].ends # "marker" /\ ~LooksLikePrompt(reply[final.read])
              /\ Returns(transport, reply[final.read])
          BY <2>5, <4>1, <4>2, <4>3, <4>4, CliReaderAssumption DEF BackupReadOf
        <4>6. QED BY <2>10, <2>11, <4>1, <4>5
      <3>6. QED BY <2>6, <3>2, <3>3, <3>4, <3>5
    <2>15. QED BY <2>12, <2>13, <2>14 DEF OutputIsWhole
  <1>2. QED BY <1>1, Solutions, PTL

-----------------------------------------------------------------------------
(* Sessions                                                                *)

\* The chunks that answers to commands are made of.
CommandChunks == AnswerChunk({"text", "lookalike", "prompt"})

\* An answer that can only end in a prompt, and what is counted on by a transport.
Answer(transport, a) ==
    /\ a \in Seq(CommandChunks)
    /\ \A i \in 1 .. Len(a) - 1 : a[i].ends # "prompt"
    /\ IF transport = "paramiko" THEN \A i \in DOMAIN a : a[i].ends # "lookalike"
       ELSE EndsInPrompt(a) /\ \A i \in DOMAIN a : a[i].slow => a[i].ends = "prompt"

\* The device has answered in full, in time and without an error.
AcceptedIn(a, deadline) ==
    EndsInPrompt(a) /\ Len(a) <= deadline /\ \A i \in DOMAIN a : ~a[i].error

\* The first chunk that returns is the prompt.
LEMMA AnswerIsRead ==
  ASSUME NEW transport \in Transports, NEW a, Answer(transport, a), NEW deadline \in Nat
  PROVE  LET read == ReadAnswer(transport, a, deadline) IN
         /\ read.chunks \in 0 .. Len(a) /\ read.done \in BOOLEAN
         /\ read.done => read.chunks = Len(a)
         /\ read.done /\ ~(\E i \in DOMAIN SubSeq(a, 1, read.chunks) :
                                SubSeq(a, 1, read.chunks)[i].error)
               <=> AcceptedIn(a, deadline)
         /\ AcceptedIn(a, deadline) => read.done
  <1> DEFINE read  == ReadAnswer(transport, a, deadline)
             first == SetupReads(transport, a, deadline)
             L     == Len(a)
  <1>1. a \in Seq(CommandChunks) /\ L \in Nat /\ DOMAIN a = 1 .. L
    BY DEF Answer
  <1>2. ReadOf(transport, a, deadline, L, first)
    BY <1>1, SetupIsRead
  <1> HIDE DEF first
  <1>3. /\ first.chunks \in 0 .. L /\ first.chunks <= deadline /\ first.done \in BOOLEAN
        /\ first = [chunks |-> first.chunks, done |-> first.done]
    BY <1>1, <1>2 DEF ReadOf
  <1>4. /\ read.chunks = first.chunks
        /\ read.done = (first.done \/ (/\ transport = "netmiko" /\ first.chunks = L
                                       /\ first.chunks < deadline))
    BY <1>3 DEF ReadAnswer, first
  <1> HIDE DEF read
  <1>5. \A i \in 1 .. L : a[i].ends \in {"text", "lookalike", "prompt"} /\ a[i].slow \in BOOLEAN
    <2>1. \A c \in CommandChunks : c.ends \in {"text", "lookalike", "prompt"} /\ c.slow \in BOOLEAN
      BY DEF CommandChunks, AnswerChunk
    <2>2. QED BY <1>1, <2>1
  <1>6. \A i \in 1 .. L : Returns(transport, a[i]) <=> a[i].ends = "prompt"
    <2>1. CASE transport = "paramiko"
      <3>1. \A i \in 1 .. L : a[i].ends # "lookalike"
        BY <1>1, <2>1 DEF Answer
      <3>2. QED BY <1>5, <2>1, <3>1 DEF Returns, LooksLikePrompt
    <2>2. CASE transport = "netmiko"
      <3>1. \A i \in 1 .. L : a[i].slow => a[i].ends = "prompt"
        BY <1>1, <2>2 DEF Answer
      <3>2. QED BY <1>5, <2>2, <3>1 DEF Returns, Waits
    <2>3. QED BY <2>1, <2>2 DEF Transports
  <1>7. \A i \in 1 .. L : a[i].ends = "prompt" => i = L
    BY <1>1 DEF Answer
  <1>8. first.done => first.chunks = L /\ L > 0 /\ a[L].ends = "prompt"
    <2> SUFFICES ASSUME first.done PROVE first.chunks = L /\ L > 0 /\ a[L].ends = "prompt"
      OBVIOUS
    <2>1. first.chunks \in 1 .. L /\ Returns(transport, a[first.chunks])
      BY <1>2, <1>3 DEF ReadOf
    <2>2. QED BY <1>6, <1>7, <2>1
  <1>9. transport = "netmiko" => L > 0 /\ a[L].ends = "prompt"
    BY <1>1 DEF Answer, EndsInPrompt
  <1>10. read.done => read.chunks = L /\ L > 0 /\ a[L].ends = "prompt" /\ L <= deadline
    BY <1>3, <1>4, <1>8, <1>9
  <1>11. EndsInPrompt(a) <=> L > 0 /\ a[L].ends = "prompt"
    BY <1>1 DEF EndsInPrompt
  <1>12. AcceptedIn(a, deadline) => read.done
    <2> SUFFICES ASSUME AcceptedIn(a, deadline), ~first.done PROVE FALSE
      BY <1>4
    <2>1. L > 0 /\ a[L].ends = "prompt" /\ L <= deadline
      BY <1>11 DEF AcceptedIn
    <2>2. first.chunks = L
      BY <1>1, <1>2, <1>3, <2>1 DEF ReadOf
    <2>3. ~Returns(transport, a[L])
      BY <1>2, <2>1, <2>2 DEF ReadOf
    <2>4. QED BY <1>6, <2>1, <2>3
  <1>13. read.done => SubSeq(a, 1, read.chunks) = a
    BY <1>1, <1>10
  <1>14. read.done /\ ~(\E i \in DOMAIN SubSeq(a, 1, read.chunks) :
                            SubSeq(a, 1, read.chunks)[i].error)
            <=> AcceptedIn(a, deadline)
    BY <1>10, <1>11, <1>12, <1>13 DEF AcceptedIn
  <1>15. read.done \in BOOLEAN
    BY <1>4
  <1>16. QED BY <1>3, <1>4, <1>10, <1>12, <1>14, <1>15 DEF read

\* A session after n answers: it was not opened, or has gone through all of them, or
\* has stopped at the first that was not accepted.
SessionOf(opened, answers, deadline, n, s) ==
    /\ s \in [open : BOOLEAN, unread : Seq(CommandChunks), sent : Nat, failed : BOOLEAN,
              raised : BOOLEAN]
    /\ s.open <=> opened
    /\ ~opened => s.raised /\ s.sent = 0
    /\ opened => /\ ~s.failed => /\ s.sent = n /\ s.unread = <<>> /\ ~s.raised
                                 /\ \A k \in 1 .. n : AcceptedIn(answers[k], deadline)
                 /\ s.failed => /\ s.sent \in 1 .. n
                                /\ \A k \in 1 .. s.sent - 1 : AcceptedIn(answers[k], deadline)
                                /\ ~AcceptedIn(answers[s.sent], deadline)

LEMMA CommandIsSent ==
  ASSUME NEW transport \in Transports, NEW answers, NEW deadline \in Nat, NEW n \in Nat,
         NEW opened \in BOOLEAN, Answer(transport, answers[n + 1]),
         NEW s, SessionOf(opened, answers, deadline, n, s)
  PROVE  SessionOf(opened, answers, deadline, n + 1, Send(transport, deadline, s, answers[n + 1]))
  <1> DEFINE a    == answers[n + 1]
             read == ReadAnswer(transport, a, deadline)
             t    == Send(transport, deadline, s, a)
  <1>1. CASE ~s.open \/ s.failed
    <2>1. t = s
      BY <1>1 DEF Send
    <2>2. QED BY <1>1, <2>1 DEF SessionOf
  <1>2. CASE s.open /\ ~s.failed
    <2>1. /\ s \in [open : BOOLEAN, unread : Seq(CommandChunks), sent : Nat, failed : BOOLEAN,
                    raised : BOOLEAN]
          /\ opened /\ s.sent = n /\ s.unread = <<>>
          /\ \A k \in 1 .. n : AcceptedIn(answers[k], deadline)
      BY <1>2 DEF SessionOf
    <2>2. a \in Seq(CommandChunks)
      BY DEF Answer
    <2>3. s.unread \o a = a
      BY <2>1, <2>2
    <2>4. /\ read.chunks \in 0 .. Len(a) /\ read.done \in BOOLEAN
          /\ read.done => read.chunks = Len(a)
          /\ read.done /\ ~(\E i \in DOMAIN SubSeq(a, 1, read.chunks) :
                                SubSeq(a, 1, read.chunks)[i].error)
                <=> AcceptedIn(a, deadline)
          /\ AcceptedIn(a, deadline) => read.done
      BY AnswerIsRead
    <2> DEFINE unread == SubSeq(a, read.chunks + 1, Len(a))
               failed == ~read.done \/ \E i \in DOMAIN SubSeq(a, 1, read.chunks) :
                                          SubSeq(a, 1, read.chunks)[i].error
               raised == transport = "netmiko" /\ ~read.done
    <2>5. t = [s EXCEPT !.sent = @ + 1, !.unread = unread, !.raised = raised, !.failed = failed]
      BY <1>2, <2>3 DEF Send
    <2>6. unread \in Seq(CommandChunks) /\ (read.chunks = Len(a) => unread = <<>>)
      <3> HIDE DEF a, read
      <3>1. \A c \in 0 .. Len(a) : /\ SubSeq(a, c + 1, Len(a)) \in Seq(CommandChunks)
                                   /\ c = Len(a) => SubSeq(a, c + 1, Len(a)) = <<>>
        BY <2>2
      <3>2. QED BY <2>4, <3>1
    <2>7. failed <=> ~AcceptedIn(a, deadline)
      BY <2>4
    <2>8. failed \in BOOLEAN /\ raised \in BOOLEAN
      OBVIOUS
    <2>9. ~failed => unread = <<>> /\ ~raised
      BY <2>4, <2>6
    <2> HIDE DEF t, unread, failed, raised, read, a
    <2>10. /\ t \in [open : BOOLEAN, unread : Seq(CommandChunks), sent : Nat, failed : BOOLEAN,
                     raised : BOOLEAN]
      <3>1. t = [open |-> s.open, unread |-> unread, sent |-> n + 1, failed |-> failed,
                 raised |-> raised]
        BY <2>1, <2>5
      <3>2. s.open \in BOOLEAN /\ n + 1 \in Nat
        BY <2>1
      <3>3. QED BY <2>6, <2>8, <3>1, <3>2
    <2>11. /\ t.open = s.open /\ t.sent = n + 1 /\ t.unread = unread /\ t.failed = failed
            /\ t.raised = raised
      BY <2>1, <2>5
    <2>12. \A k \in 1 .. n + 1 : k \in 1 .. n \/ k = n + 1
      OBVIOUS
    <2>13. a = answers[n + 1]
      BY DEF a
    <2>14. SessionOf(opened, answers, deadline, n + 1, t)
      BY <1>2, <2>1, <2>7, <2>9, <2>10, <2>11, <2>12, <2>13 DEF SessionOf
    <2>15. QED BY <2>14 DEF t, a
  <1>3. QED BY <1>1, <1>2

SessionStates == [open : BOOLEAN, unread : Seq(CommandChunks), sent : Nat, failed : BOOLEAN,
                  raised : BOOLEAN]

LEMMA SendKeepsState ==
  ASSUME NEW transport, NEW a \in Seq(CommandChunks), NEW deadline \in Nat, NEW s \in SessionStates
  PROVE  Send(transport, deadline, s, a) \in SessionStates
  <1> DEFINE channel == s.unread \o a
             read    == ReadAnswer(transport, channel, deadline)
             first   == SetupReads(transport, channel, deadline)
             unread  == SubSeq(channel, read.chunks + 1, Len(channel))
             failed  == ~read.done \/ \E i \in DOMAIN SubSeq(channel, 1, read.chunks) :
                                         SubSeq(channel, 1, read.chunks)[i].error
             raised  == transport = "netmiko" /\ ~read.done
  <1>1. s.unread \in Seq(CommandChunks) /\ s.open \in BOOLEAN /\ s.sent + 1 \in Nat
    BY DEF SessionStates
  <1>2. channel \in Seq(CommandChunks)
    BY <1>1
  <1>3. ReadOf(transport, channel, deadline, Len(channel), first)
    BY <1>2, SetupIsRead
  <1>4. read.chunks \in 0 .. Len(channel)
    <2> HIDE DEF first, channel
    <2>1. first.chunks \in 0 .. Len(channel) /\ first = [chunks |-> first.chunks, done |-> first.done]
      BY <1>2, <1>3 DEF ReadOf
    <2>2. QED BY <2>1 DEF ReadAnswer, first
  <1>5. unread \in Seq(CommandChunks)
    <2> HIDE DEF channel, read
    <2>1. \A c \in 0 .. Len(channel) : SubSeq(channel, c + 1, Len(channel)) \in Seq(CommandChunks)
      BY <1>2
    <2>2. QED BY <1>4, <2>1
  <1>6. failed \in BOOLEAN /\ raised \in BOOLEAN
    OBVIOUS
  <1>7. CASE s.open /\ ~s.failed
    <2>1. Send(transport, deadline, s, a)
            = [s EXCEPT !.sent = @ + 1, !.unread = unread, !.raised = raised, !.failed = failed]
      BY <1>7 DEF Send
    <2> HIDE DEF unread, failed, raised
    <2>2. Send(transport, deadline, s, a)
            = [open |-> s.open, unread |-> unread, sent |-> s.sent + 1, failed |-> failed,
               raised |-> raised]
      BY <2>1 DEF SessionStates
    <2>3. QED BY <1>1, <1>5, <1>6, <2>2 DEF SessionStates
  <1>8. CASE ~(s.open /\ ~s.failed)
    BY <1>8 DEF Send
  <1>9. QED BY <1>7, <1>8

Connected(transport, accepted, greeting) ==
    accepted /\ (transport = "paramiko" => greeting # <<>>)

\* A session is opened if the connection is accepted and, for Paramiko, greeted.
LEMMA Opened ==
  ASSUME NEW transport \in Transports, NEW accepted \in BOOLEAN, NEW greeting \in Greetings,
         NEW deadline \in Nat \ {0}, NEW answers
  PROVE  SessionOf(Connected(transport, accepted, greeting), answers, deadline, 0,
                   Open(transport, accepted, greeting, deadline))
  <1> DEFINE read == ReadAnswer(transport, greeting, deadline)
             first == SetupReads(transport, greeting, deadline)
  <1>1. greeting = <<>> \/ greeting = <<[ends |-> "prompt", slow |-> TRUE, error |-> FALSE]>>
    BY DEF Greetings
  <1>2. greeting \in Seq(CommandChunks)
    <2>1. \A e \in BOOLEAN : [ends |-> "prompt", slow |-> TRUE, error |-> e] \in CommandChunks
      BY DEF CommandChunks, AnswerChunk
    <2>2. [ends |-> "prompt", slow |-> TRUE, error |-> FALSE] \in CommandChunks
      BY <2>1
    <2>3. \A c \in CommandChunks : <<c>> \in Seq(CommandChunks)
      OBVIOUS
    <2> DEFINE prompt == [ends |-> "prompt", slow |-> TRUE, error |-> FALSE]
    <2>4. prompt \in CommandChunks /\ (greeting = <<>> \/ greeting = <<prompt>>)
      BY <1>1, <2>2
    <2> HIDE DEF prompt
    <2>5. <<>> \in Seq(CommandChunks)
      OBVIOUS
    <2>6. QED BY <2>3, <2>4, <2>5
  <1>3. transport = "paramiko" => (read.done <=> greeting # <<>>) /\ read.chunks = Len(greeting)
    <2>1. ReadOf(transport, greeting, deadline, Len(greeting), first)
      BY <1>2, SetupIsRead
    <2>2. transport = "paramiko" => read.done = first.done /\ read.chunks = first.chunks
      BY <2>1 DEF ReadAnswer, ReadOf
    <2>3. Len(greeting) = 1 => Returns(transport, greeting[1])
      BY <1>1 DEF Returns, LooksLikePrompt, Waits
    <2>4. greeting # <<>> => Len(greeting) = 1
      BY <1>1
    <2>5. greeting = <<>> => Len(greeting) = 0
      OBVIOUS
    <2> HIDE DEF read, first
    <2>6. QED BY <2>1, <2>2, <2>3, <2>4, <2>5 DEF ReadOf
  <1>4. SubSeq(greeting, Len(greeting) + 1, Len(greeting)) = <<>>
    BY <1>2
  <1> HIDE DEF read
  <1>5. CASE accepted /\ (transport = "paramiko" => greeting # <<>>)
    <2>1. Open(transport, accepted, greeting, deadline)
            = [open |-> TRUE, unread |-> <<>>, sent |-> 0, failed |-> FALSE, raised |-> FALSE]
      <3>1. CASE transport = "netmiko"
        BY <1>4, <1>5, <3>1 DEF Open
      <3>2. CASE transport = "paramiko"
        <4>1. read.done /\ read.chunks = Len(greeting)
          BY <1>3, <1>5, <3>2
        <4>2. QED BY <1>4, <1>5, <3>2, <4>1 DEF Open, read
      <3>3. QED BY <3>1, <3>2 DEF Transports
    <2> DEFINE s == Open(transport, accepted, greeting, deadline)
    <2>2. <<>> \in Seq(CommandChunks)
      OBVIOUS
    <2>3. /\ s \in [open : BOOLEAN, unread : Seq(CommandChunks), sent : Nat, failed : BOOLEAN,
                    raised : BOOLEAN]
          /\ s.open = TRUE /\ s.unread = <<>> /\ s.sent = 0 /\ s.failed = FALSE /\ s.raised = FALSE
      BY <2>1, <2>2
    <2> HIDE DEF s
    <2>4. SessionOf(Connected(transport, accepted, greeting), answers, deadline, 0, s)
      BY <1>5, <2>3 DEF SessionOf, Connected
    <2>5. QED BY <2>4 DEF s
  <1>6. CASE ~(accepted /\ (transport = "paramiko" => greeting # <<>>))
    <2>1. Open(transport, accepted, greeting, deadline) = Closed
      BY <1>3, <1>6 DEF Open, read, Transports
    <2>2. QED BY <1>6, <2>1 DEF SessionOf, Closed, Connected
  <1>7. QED BY <1>5, <1>6

\* The session of a plan goes through its answers, or stops at the first not accepted.
SessionEnds(transport, accepted, greeting, answers, deadline) ==
    \E s : /\ SessionOf(Connected(transport, accepted, greeting), answers, deadline,
                        Len(answers), s)
           /\ ApplyPlan(transport, accepted, greeting, answers, deadline)
                = [s EXCEPT !.open = FALSE]

AnswersOf(transport, answers) == \A k \in 1 .. Len(answers) : Answer(transport, answers[k])

\* The commands of a plan, one after another, from a session as Open leaves it.
LEMMA CommandsAreSent ==
  ASSUME NEW transport \in Transports, NEW T, NEW answers \in Seq(T), NEW deadline \in Nat,
         NEW accepted, NEW greeting,
         SessionOf(Connected(transport, accepted, greeting), answers, deadline, 0,
                   Open(transport, accepted, greeting, deadline)),
         AnswersOf(transport, answers)
  PROVE  SessionEnds(transport, accepted, greeting, answers, deadline)
  <1> DEFINE opened  == Connected(transport, accepted, greeting)
             base    == Open(transport, accepted, greeting, deadline)
             N       == Len(answers)
             S       == SessionStates
             more(s, a) == Send(transport, deadline, s, a)
             step    == [n \in 1 .. N |-> [s \in S |-> more(s, answers[n])]]
             next(f) == [s \in SUBSET DOMAIN answers |->
                           IF s = {} THEN base ELSE more(f[s \ {Max(s)}], answers[Max(s)])]
             fold    == CHOOSE f : f = next(f)
  <1>0. opened \in BOOLEAN
    BY DEF Connected
  <1>1. N \in Nat /\ DOMAIN answers = 1 .. N
    OBVIOUS
  <1>2. ApplyPlan(transport, accepted, greeting, answers, deadline)
          = [fold[1 .. N] EXCEPT !.open = FALSE]
    <2>1. ApplyPlan(transport, accepted, greeting, answers, deadline)
            = [fold[DOMAIN answers] EXCEPT !.open = FALSE]
      BY Zenon DEF ApplyPlan, FoldLeft, MapThenFoldSet
    <2> HIDE DEF fold, N
    <2>2. QED BY <1>1, <2>1
  <1>3. \A n \in 1 .. N : answers[n] \in Seq(CommandChunks) /\ Answer(transport, answers[n])
    BY DEF Answer, AnswersOf
  <1>4. base \in S
    BY DEF SessionOf, SessionStates
  <1>5. \A n \in 1 .. N : step[n] \in [S -> S] /\ \A s \in S : step[n][s] = more(s, answers[n])
    BY <1>3, SendKeepsState
  <1> HIDE DEF S, more, base
  <1>6. \E f : f = next(f)
    <2>1. step \in StepsOn(S, N)
      BY <1>5 DEF StepsOn
    <2> HIDE DEF step, N
    <2>2. PICK f : IsFold(f, S, base, N, step)
      BY ONLY <1>1, <1>4, <2>1, FoldExists
    <2>3. \A s \in SUBSET (1 .. N) : s # {} =>
            step[Max(s)][f[s \ {Max(s)}]] = more(f[s \ {Max(s)}], answers[Max(s)])
      <3> TAKE s \in SUBSET (1 .. N)
      <3>1. s # {} => Max(s) \in 1 .. N
        BY <1>1, GreatestIn
      <3>2. f[s \ {Max(s)}] \in S
        BY <2>2 DEF IsFold
      <3>3. QED BY <1>5, <3>1, <3>2
    <2>4. f = next(f)
      BY <1>1, <2>2, <2>3 DEF IsFold
    <2>5. QED BY <2>4
  <1>7. fold = next(fold)
    BY <1>6
  <1> HIDE DEF fold, step
  <1> DEFINE SentTo(n) == SessionOf(opened, answers, deadline, n, fold[1 .. n])
             Good      == {n \in Nat : n <= N => SentTo(n)}
  <1>8. 0 \in Good
    <2>1. fold[1 .. 0] = base
      BY <1>1, <1>7
    <2>2. QED BY <2>1 DEF base
  <1>9. \A n \in Nat : n \in Good => n + 1 \in Good
    <2> SUFFICES ASSUME NEW n \in Nat, n \in Good, n + 1 <= N PROVE SentTo(n + 1)
      OBVIOUS
    <2>1. SentTo(n) /\ n + 1 \in 1 .. N
      BY <1>1
    <2>2. fold[1 .. n + 1] = Send(transport, deadline, fold[1 .. n], answers[n + 1])
      <3>1. 1 .. n + 1 # {} /\ Max(1 .. n + 1) = n + 1 /\ (1 .. n + 1) \ {n + 1} = 1 .. n
        BY FoldOfNext
      <3>2. 1 .. n + 1 \in SUBSET DOMAIN answers
        BY <1>1
      <3>3. QED BY <1>7, <3>1, <3>2 DEF more
    <2>3. Answer(transport, answers[n + 1])
      BY <1>3, <2>1
    <2>4. QED BY <2>1, <2>2, <2>3, <1>0, CommandIsSent
  <1>10. N \in Good
    <2> HIDE DEF Good
    <2>1. N \in Nat
      BY <1>1
    <2>2. QED BY ONLY <1>8, <1>9, <2>1, SetInduction
  <1>11. SentTo(N)
    BY <1>10
  <1> DEFINE last == fold[1 .. N]
  <1>12. /\ SessionOf(opened, answers, deadline, N, last)
         /\ ApplyPlan(transport, accepted, greeting, answers, deadline) = [last EXCEPT !.open = FALSE]
    BY <1>2, <1>11
  <1> HIDE DEF last, N
  <1>13. QED BY <1>12 DEF N, SessionEnds

\* The problem is a session in which two commands are answered.
LEMMA SessionProblem ==
  ASSUME AnswerIsSolution, Solved("session"), NoFalseEnd
  PROVE  /\ answer = Session /\ problem.transport \in Transports /\ problem.accepted \in BOOLEAN
         /\ problem.greeting \in Greetings /\ problem.deadline \in Nat \ {0}
         /\ DOMAIN problem.answers = 1 .. 2
         /\ problem.answers \in Seq(CommandAnswers) /\ Len(problem.answers) = 2
         /\ \A k \in 1 .. 2 : Answer(problem.transport, problem.answers[k])
  <1>1. problem \in SessionProblems
    BY DEF AnswerIsSolution, Solved, Problems, CanaryProblems, VlanProblems, ScheduleProblems,
           BackupProblems, SessionProblems, CleanProblems, ImportProblems, DriverProblems,
           CaptureProblems, ApplyProblems, FileProblems, EvidenceProblems
  <1>2. /\ problem.transport \in Transports /\ problem.accepted \in BOOLEAN
        /\ problem.greeting \in Greetings /\ problem.deadline \in Nat \ {0}
        /\ problem.answers \in [1 .. 2 -> CommandAnswers]
    BY <1>1 DEF SessionProblems
  <1>3. problem.answers \in Seq(CommandAnswers) /\ Len(problem.answers) = 2
    BY <1>2, FunctionIsSeq
  <1>4. ASSUME NEW a \in CommandAnswers
        PROVE  /\ a \in Seq(CommandChunks)
               /\ \A i \in 1 .. Len(a) - 1 : a[i].ends # "prompt"
    <2> DEFINE Open1 == AnswerChunk({"text", "lookalike"})
               last(e) == [ends |-> "prompt", slow |-> TRUE, error |-> e]
    <2>1. \A c \in Open1 : c \in CommandChunks /\ c.ends # "prompt"
      BY DEF CommandChunks, AnswerChunk
    <2>2. \A e \in BOOLEAN : last(e) \in CommandChunks
      BY DEF CommandChunks, AnswerChunk
    <2>3. a \in AnswerStarts \/ \E b \in AnswerStarts, e \in BOOLEAN : a = b \o <<last(e)>>
      <3>1. a \in AnswerStarts \/ \E b \in AnswerStarts, e \in BOOLEAN : a = EndedWith(b, e)
        BY DEF CommandAnswers
      <3>2. QED BY <3>1 DEF EndedWith
    <2> HIDE DEF Open1, last
    <2>4. \A b \in AnswerStarts : b = <<>> \/ \E c \in Open1 : b = <<c>>
      BY DEF AnswerStarts, Open1
    <2>5. CASE a \in AnswerStarts
      <3>1. CASE a = <<>>
        BY <3>1
      <3>2. CASE \E c \in Open1 : a = <<c>>
        <4>1. PICK c \in Open1 : a = <<c>>
          BY <3>2
        <4>2. QED BY <2>1, <4>1
      <3>3. QED BY <2>4, <2>5, <3>1, <3>2
    <2>6. CASE \E b \in AnswerStarts, e \in BOOLEAN : a = b \o <<last(e)>>
      <3>1. PICK b \in AnswerStarts, e \in BOOLEAN : a = b \o <<last(e)>>
        BY <2>6
      <3>2. last(e) \in CommandChunks
        BY <2>2
      <3>3. CASE b = <<>>
        BY <3>1, <3>2, <3>3
      <3>4. CASE \E c \in Open1 : b = <<c>>
        <4>1. PICK c \in Open1 : b = <<c>>
          BY <3>4
        <4>2. c \in CommandChunks /\ c.ends # "prompt"
          BY <2>1
        <4>3. a \in Seq(CommandChunks) /\ Len(a) = 2 /\ a[1] = c
          BY <3>1, <3>2, <4>1, <4>2
        <4>4. QED BY <4>2, <4>3
      <3>5. QED BY <2>4, <3>3, <3>4
    <2>7. QED BY <2>3, <2>5, <2>6
  <1>5. \A k \in 1 .. 2 : Answer(problem.transport, problem.answers[k])
    <2> TAKE k \in 1 .. 2
    <2>1. problem.answers[k] \in CommandAnswers
      BY <1>2
    <2>2. DOMAIN problem.answers = 1 .. 2
      BY <1>2
    <2>3. IF problem.transport = "paramiko"
          THEN \A i \in DOMAIN problem.answers[k] : problem.answers[k][i].ends # "lookalike"
          ELSE /\ EndsInPrompt(problem.answers[k])
               /\ \A i \in DOMAIN problem.answers[k] :
                     problem.answers[k][i].slow => problem.answers[k][i].ends = "prompt"
      BY <2>2 DEF NoFalseEnd
    <2>4. QED BY <1>4, <2>1, <2>3 DEF Answer
  <1>6. answer = Session
    BY DEF AnswerIsSolution
  <1>7. QED BY <1>2, <1>3, <1>5, <1>6

\* A change is reported as executed exactly if every command has been answered in full,
\* in time and without an error, and nothing follows one that has not (execute).
THEOREM AppliedAccepted == Spec => []AppliedIsAccepted
  <1>1. AnswerIsSolution => AppliedIsAccepted
    <2> SUFFICES ASSUME AnswerIsSolution, Solved("session"), NoFalseEnd PROVE AppliedIsAccepted
      BY DEF AppliedIsAccepted
    <2> DEFINE opened == Connected(problem.transport, problem.accepted, problem.greeting)
               session == ApplyPlan(problem.transport, problem.accepted, problem.greeting,
                                    problem.answers, problem.deadline)
    <2>1. /\ answer = Session /\ problem.transport \in Transports /\ problem.accepted \in BOOLEAN
          /\ problem.greeting \in Greetings /\ problem.deadline \in Nat \ {0}
          /\ DOMAIN problem.answers = 1 .. 2
          /\ problem.answers \in Seq(CommandAnswers) /\ Len(problem.answers) = 2
          /\ \A k \in 1 .. 2 : Answer(problem.transport, problem.answers[k])
      BY SessionProblem
    <2>2. SessionOf(opened, problem.answers, problem.deadline, 0,
                    Open(problem.transport, problem.accepted, problem.greeting, problem.deadline))
      BY <2>1, Opened
    <2>3. PICK s : /\ SessionOf(opened, problem.answers, problem.deadline, 2, s)
                   /\ session = [s EXCEPT !.open = FALSE]
      <3>1. problem.deadline \in Nat /\ AnswersOf(problem.transport, problem.answers)
        BY <2>1 DEF AnswersOf
      <3>2. SessionEnds(problem.transport, problem.accepted, problem.greeting, problem.answers,
                        problem.deadline)
        BY ONLY <2>1, <2>2, <3>1, CommandsAreSent
      <3>3. QED BY <2>1, <3>2 DEF SessionEnds
    <2> HIDE DEF session
    <2>4. session.raised = s.raised /\ session.failed = s.failed /\ session.sent = s.sent
      BY <2>3 DEF SessionOf
    <2>5. answer.sent = s.sent /\ answer.result.executed = (~s.raised /\ ~s.failed)
      BY <2>1, <2>4 DEF Session, ApplyResult, session
    <2>6. \A k \in DOMAIN problem.answers :
             (/\ EndsInPrompt(problem.answers[k])
              /\ Len(problem.answers[k]) <= problem.deadline
              /\ \A i \in DOMAIN problem.answers[k] : ~problem.answers[k][i].error)
               <=> AcceptedIn(problem.answers[k], problem.deadline)
      BY DEF AcceptedIn
    <2> DEFINE good(k) == AcceptedIn(problem.answers[k], problem.deadline)
    <2>7. answer.result.executed <=> opened /\ \A k \in 1 .. 2 : good(k)
      <3>1. s.raised \in BOOLEAN /\ s.failed \in BOOLEAN
        BY <2>3 DEF SessionOf
      <3> HIDE DEF opened
      <3>2. CASE ~opened
        BY <2>3, <2>5, <3>1, <3>2 DEF SessionOf
      <3>3. CASE opened
        BY <2>3, <2>5, <3>1, <3>3 DEF SessionOf
      <3>4. QED BY <3>2, <3>3
    <2>8. \A k \in 1 .. answer.sent - 1 : good(k)
      <3> HIDE DEF opened
      <3>1. QED BY <2>3, <2>5 DEF SessionOf
    <2>9. \A k \in 1 .. answer.sent - 1 : k \in 1 .. 2
      BY <2>3, <2>5 DEF SessionOf
    <2>10. QED BY <2>1, <2>7, <2>8, <2>9 DEF AppliedIsAccepted, AcceptedIn, Connected
  <1>2. QED BY <1>1, Solutions, PTL

-----------------------------------------------------------------------------
(* The import of a device list                                             *)

Outcomes == {"invalid", "valid", "created", "updated"}

\* What an import works on, with hostnames of a set: no two devices have one name.
Consistent(hostnames) ==
    [table : {t \in [Addresses -> {NoDevice}
                                  \cup [name : hostnames \cup {NoHostname},
                                        credential : {"missing", "assigned"},
                                        assignments : Nat]] : UniqueNames(t)},
     statuses : Seq(Outcomes)]

\* A row leaves no two devices with one name.
LEMMA RowKeepsNames ==
  ASSUME NEW hostnames, NEW result \in Consistent(hostnames), NEW row \in Rows(hostnames),
         NEW strict, NEW dryRun
  PROVE  ProcessRow(result, row, strict, dryRun) \in Consistent(hostnames)
  <1> DEFINE Devices == {NoDevice} \cup [name : hostnames \cup {NoHostname},
                                         credential : {"missing", "assigned"},
                                         assignments : Nat]
             table   == result.table
             outcome == Outcome(table, row, strict, dryRun)
             next    == ProcessRow(result, row, strict, dryRun)
             there   == row.address
             new     == Upserted(table[there], row)
  <1>1. /\ table \in [Addresses -> Devices] /\ UniqueNames(table)
        /\ result.statuses \in Seq(Outcomes)
    BY DEF Consistent
  <1>2. /\ row.address \in Addresses \cup {BadAddress} /\ row.name \in hostnames \cup {NoHostname}
        /\ row.credential \in {"missing", "assigned"}
    BY DEF Rows
  <1>3. outcome \in Outcomes
    BY DEF Outcome, Outcomes
  <1>0. next = [table |-> next.table, statuses |-> next.statuses]
    BY DEF ProcessRow
  <1>4. /\ next.statuses = Append(result.statuses, outcome)
        /\ next.table = IF outcome \in {"created", "updated"}
                        THEN [table EXCEPT ![there] = new] ELSE table
    BY DEF ProcessRow
  <1>5. next.statuses \in Seq(Outcomes)
    BY <1>1, <1>3, <1>4
  <1>6. next.table \in [Addresses -> Devices] /\ UniqueNames(next.table)
    <2>1. CASE outcome \in {"created", "updated"}
      <3>1. there \in Addresses /\ ~HeldElsewhere(table, row)
        BY <1>2, <2>1 DEF Outcome
      <3>2. table[there] \in Devices
        BY <1>1, <3>1
      <3>3. new \in Devices
        BY <1>2, <3>2 DEF Upserted
      <3>4. next.table = [table EXCEPT ![there] = new]
        BY <1>4, <2>1
      <3>5. next.table \in [Addresses -> Devices]
        BY <1>1, <3>3, <3>4
      <3>6. new.name = IF row.name = NoHostname /\ table[there] # NoDevice
                       THEN table[there].name ELSE row.name
        BY DEF Upserted
      <3>7. \A a \in Addresses : a # there /\ table[a] # NoDevice /\ row.name # NoHostname
                                    => table[a].name # row.name
        BY <1>1, <3>1 DEF HeldElsewhere, Namesake
      <3>8. \A a \in Addresses : a # there /\ table[a] # NoDevice /\ table[a].name = new.name
                                    => new.name = NoHostname
        BY <1>1, <3>1, <3>6, <3>7 DEF UniqueNames
      <3>9. \A a \in Addresses : next.table[a] = IF a = there THEN new ELSE table[a]
        BY <1>1, <3>4
      <3> HIDE DEF new, next, table, there
      <3>10. UniqueNames(next.table)
        <4>0. DOMAIN next.table = Addresses
          BY <3>5
        <4> SUFFICES ASSUME NEW a \in Addresses, NEW b \in Addresses,
                            next.table[a] # NoDevice, next.table[b] # NoDevice,
                            next.table[a].name = next.table[b].name,
                            next.table[a].name # NoHostname, a # b
                     PROVE  FALSE
          BY <4>0 DEF UniqueNames
        <4>1. CASE a = there
          BY <3>8, <3>9, <4>1
        <4>2. CASE b = there
          BY <3>8, <3>9, <4>2
        <4>3. CASE a # there /\ b # there
          BY <1>1, <3>9, <4>3 DEF UniqueNames
        <4>4. QED BY <4>1, <4>2, <4>3
      <3>11. QED BY <3>5, <3>10
    <2>2. CASE outcome \notin {"created", "updated"}
      BY <1>1, <1>4, <2>2
    <2>3. QED BY <2>1, <2>2
  <1>7. \A t, s : /\ t \in [Addresses -> Devices] /\ UniqueNames(t) /\ s \in Seq(Outcomes)
                  => [table |-> t, statuses |-> s] \in Consistent(hostnames)
    BY DEF Consistent
  <1>8. [table |-> next.table, statuses |-> next.statuses] \in Consistent(hostnames)
    BY <1>5, <1>6, <1>7
  <1>9. QED BY <1>0, <1>8, Zenon

\* A list of any length leaves no two devices with one name.
LEMMA ImportKeepsNames ==
  ASSUME NEW hostnames, NEW table, [table |-> table, statuses |-> <<>>] \in Consistent(hostnames),
         NEW rows \in Seq(Rows(hostnames)), NEW strict, NEW dryRun
  PROVE  Import(table, rows, strict, dryRun) \in Consistent(hostnames)
  <1> DEFINE S       == Consistent(hostnames)
             base    == [table |-> table, statuses |-> <<>>]
             N       == Len(rows)
             next(g) == [n \in 0 .. N |-> IF n = 0 THEN base
                                          ELSE ProcessRow(g[n - 1], rows[n], strict, dryRun)]
             step    == [n \in 1 .. N |-> [s \in S |-> ProcessRow(s, rows[n], strict, dryRun)]]
             after   == CHOOSE g : g = next(g)
  <1>1. N \in Nat /\ \A n \in 1 .. N : rows[n] \in Rows(hostnames)
    OBVIOUS
  <1>2. Import(table, rows, strict, dryRun) = after[N]
    BY DEF Import
  <1> HIDE DEF N
  <1>3. step \in StepsOn(S, N)
    BY <1>1, RowKeepsNames DEF StepsOn
  <1>4. \E g : g = next(g)
    <2> HIDE DEF S, base, step
    <2>1. base \in S
      BY DEF S, base
    <2>2. PICK g : IsRun(g, S, base, N, step)
      BY ONLY <1>1, <1>3, <2>1, RunExists
    <2>3. \A n \in 1 .. N : g[n - 1] \in S
      BY <1>1, <2>2 DEF IsRun
    <2>4. \A n \in 1 .. N : step[n][g[n - 1]] = ProcessRow(g[n - 1], rows[n], strict, dryRun)
      BY <2>3 DEF step
    <2>5. \A n \in 0 .. N : g[n] = IF n = 0 THEN base
                                   ELSE ProcessRow(g[n - 1], rows[n], strict, dryRun)
      BY <1>1, <2>2, <2>4 DEF IsRun
    <2>6. g = next(g)
      BY <2>2, <2>5 DEF IsRun
    <2>7. QED BY <2>6
  <1>5. after = next(after)
    BY <1>4
  <1> HIDE DEF after
  <1>6. /\ after[0] = base
        /\ \A n \in 1 .. N : after[n] = ProcessRow(after[n - 1], rows[n], strict, dryRun)
    BY <1>1, <1>5
  <1> DEFINE Good == {n \in Nat : n <= N => after[n] \in S}
  <1>7. 0 \in Good
    BY <1>6
  <1>8. \A n \in Nat : n \in Good => n + 1 \in Good
    <2> SUFFICES ASSUME NEW n \in Nat, n \in Good, n + 1 <= N PROVE after[n + 1] \in S
      OBVIOUS
    <2>1. after[n] \in S /\ n + 1 \in 1 .. N
      BY <1>1
    <2>2. after[n + 1] = ProcessRow(after[n], rows[n + 1], strict, dryRun)
      BY <1>6, <2>1
    <2>3. QED BY <1>1, <2>1, <2>2, RowKeepsNames
  <1>9. N \in Good
    <2> HIDE DEF Good
    <2>1. QED BY <1>1, <1>7, <1>8, SetInduction
  <1>10. QED BY <1>1, <1>2, <1>9

\* An import never gives one hostname to two devices, whichever rows precede which
\* (_process_row).
THEOREM NamesAreUnique == Spec => []NamesStayUnique
  <1>1. AnswerIsSolution => NamesStayUnique
    <2> SUFFICES ASSUME AnswerIsSolution, Solved("import") PROVE UniqueNames(answer.table)
      BY DEF NamesStayUnique
    <2>1. problem.table \in Tables /\ problem.rows \in Lists
      BY DEF AnswerIsSolution, Solved, Problems, CanaryProblems, VlanProblems, ScheduleProblems,
             BackupProblems, SessionProblems, CleanProblems, ImportProblems, DriverProblems,
             CaptureProblems, ApplyProblems, FileProblems, EvidenceProblems
    <2>2. answer = Import(problem.table, problem.rows, problem.strict, problem.dryRun)
      BY DEF AnswerIsSolution, Imports
    <2>3. [table |-> problem.table, statuses |-> <<>>] \in Consistent(Names)
      BY <2>1 DEF Tables, Known, Consistent
    <2>4. problem.rows \in Seq(Rows(Names))
      BY <2>1 DEF Lists
    <2>5. answer \in Consistent(Names)
      BY <2>2, <2>3, <2>4, ImportKeepsNames
    <2>6. QED BY <2>5 DEF Consistent
  <1>2. QED BY <1>1, Solutions, PTL

-----------------------------------------------------------------------------
(* The runs of the command line                                            *)

\* A run that has come past the first n steps: what it says of failures and of the
\* connection is so, and with stop_on_error a command that saves comes after none
\* that failed.
RunTo(transport, steps, replies, stop, n, run) ==
    LET failed(k) == Failed(transport, replies[k])
        lost(k)   == replies[k] = "lost"
    IN  /\ run.sent \in 0 .. Len(steps)
        /\ run.over \/ run.sent >= n
        /\ run.failed <=> \E k \in 1 .. run.sent : failed(k)
        /\ run.lost <=> \E k \in 1 .. run.sent : lost(k)
        /\ run.over <=> run.lost \/ (stop /\ run.failed)
        /\ stop => \A i \in 1 .. run.sent :
                      steps[i].phase = "save" => \A k \in 1 .. i - 1 : ~failed(k)

RunStates == [sent : Nat, failed : BOOLEAN, lost : BOOLEAN, over : BOOLEAN]

\* A block ends with itself, or takes the configuration commands that follow it.
LEMMA BlockEnds ==
  ASSUME NEW transport, NEW T, NEW steps \in Seq(T), NEW i \in 1 .. Len(steps)
  PROVE  /\ BlockEnd(transport, steps, i) \in i .. Len(steps)
         /\ \A k \in i + 1 .. BlockEnd(transport, steps, i) : steps[k].phase = "config"
  <1> DEFINE N        == Len(steps)
             Block(j) == /\ \A k \in i .. j : steps[k].phase = "config"
                         /\ j < N => steps[j + 1].phase # "config"
             Ends     == {j \in i .. N : j = N \/ steps[j + 1].phase # "config"}
  <1>1. N \in Nat /\ i \in 1 .. N
    OBVIOUS
  <1>2. CASE transport # "netmiko" \/ steps[i].phase # "config"
    <2>1. BlockEnd(transport, steps, i) = i
      BY <1>2 DEF BlockEnd
    <2>2. QED BY <1>1, <2>1
  <1>3. CASE ~(transport # "netmiko" \/ steps[i].phase # "config")
    <2>1. BlockEnd(transport, steps, i) = CHOOSE j \in i .. N : Block(j)
      BY <1>3 DEF BlockEnd
    <2> HIDE DEF N
    <2>2. \E j \in i .. N : Block(j)
      <3>1. Ends \subseteq Nat /\ N \in Ends
        BY <1>1
      <3>2. PICK j \in Ends : \A k \in Ends : j <= k
        BY ONLY <3>1, LeastElement
      <3>3. ASSUME NEW k \in i .. j PROVE steps[k].phase = "config"
        <4>1. CASE k = i
          BY <1>3, <4>1
        <4>2. CASE k # i
          <5>1. k - 1 \in i .. N /\ k - 1 < j
            BY <1>1, <3>2, <4>2
          <5>2. k - 1 \notin Ends
            BY <3>1, <3>2, <5>1
          <5>3. QED BY <5>1, <5>2
        <4>3. QED BY <4>1, <4>2
      <3>4. QED BY <1>1, <3>2, <3>3
    <2> DEFINE last == CHOOSE j \in i .. N : Block(j)
    <2>3. last \in i .. N /\ Block(last)
      BY <2>2
    <2> HIDE DEF last
    <2>4. \A k \in i + 1 .. last : k \in i .. last
      BY <1>1, <2>3
    <2>5. QED BY <2>1, <2>3, <2>4 DEF N, last
  <1>4. QED BY <1>2, <1>3

\* The step of RunSteps, from step i on.
Onward(transport, steps, replies, stop, run, i) ==
    LET last == BlockEnd(transport, steps, i)
        lost == \E k \in i .. last : replies[k] = "lost"
        bad  == \E k \in i .. last : Failed(transport, replies[k])
    IN  IF i <= run.sent \/ run.over THEN run
        ELSE [sent |-> last, failed |-> run.failed \/ bad, lost |-> lost,
              over |-> lost \/ (bad /\ stop)]

LEMMA OnwardKeepsState ==
  ASSUME NEW transport, NEW T, NEW steps \in Seq(T), NEW replies, NEW stop, stop \in BOOLEAN,
         NEW run \in RunStates, NEW i \in 1 .. Len(steps)
  PROVE  Onward(transport, steps, replies, stop, run, i) \in RunStates
  <1>1. BlockEnd(transport, steps, i) \in Nat
    BY BlockEnds
  <1> DEFINE lost == \E k \in i .. BlockEnd(transport, steps, i) : replies[k] = "lost"
             bad  == \E k \in i .. BlockEnd(transport, steps, i) : Failed(transport, replies[k])
  <1>2. lost \in BOOLEAN /\ bad \in BOOLEAN
    OBVIOUS
  <1>3. Onward(transport, steps, replies, stop, run, i)
          = IF i <= run.sent \/ run.over THEN run
            ELSE [sent |-> BlockEnd(transport, steps, i), failed |-> run.failed \/ bad,
                  lost |-> lost, over |-> lost \/ (bad /\ stop)]
    BY DEF Onward
  <1> HIDE DEF lost, bad
  <1>4. QED BY <1>1, <1>2, <1>3 DEF RunStates

\* Each step of RunSteps brings the run one step further.
LEMMA OnwardToNext ==
  ASSUME NEW transport, NEW T, NEW steps \in Seq(T), NEW replies, NEW stop, stop \in BOOLEAN,
         NEW run \in RunStates, NEW n \in Nat, n + 1 <= Len(steps),
         RunTo(transport, steps, replies, stop, n, run)
  PROVE  RunTo(transport, steps, replies, stop, n + 1,
               Onward(transport, steps, replies, stop, run, n + 1))
  <1> DEFINE failed(k) == Failed(transport, replies[k])
             gone(k)   == replies[k] = "lost"
             N    == Len(steps)
             last == BlockEnd(transport, steps, n + 1)
             lost == \E k \in n + 1 .. last : gone(k)
             bad  == \E k \in n + 1 .. last : failed(k)
             next == Onward(transport, steps, replies, stop, run, n + 1)
             sent == run.sent
  <1>1. N \in Nat /\ n + 1 \in 1 .. N
    OBVIOUS
  <1>2. /\ sent \in 0 .. N /\ (run.over \/ sent >= n)
        /\ run.failed <=> \E k \in 1 .. sent : failed(k)
        /\ run.lost <=> \E k \in 1 .. sent : gone(k)
        /\ run.over <=> run.lost \/ (stop /\ run.failed)
        /\ stop => \A i \in 1 .. sent :
                      steps[i].phase = "save" => \A k \in 1 .. i - 1 : ~failed(k)
    BY DEF RunTo
  <1>3. CASE n + 1 <= sent \/ run.over
    <2>1. next = run
      BY <1>3 DEF Onward
    <2>2. QED BY <1>2, <1>3, <2>1 DEF RunTo
  <1>4. CASE ~(n + 1 <= sent \/ run.over)
    <2>1. sent = n
      BY <1>1, <1>2, <1>4
    <2>2. last \in n + 1 .. N /\ \A k \in n + 2 .. last : steps[k].phase = "config"
      <3>1. n + 1 + 1 = n + 2
        OBVIOUS
      <3>2. QED BY <1>1, <3>1, BlockEnds
    <2>3. next = [sent |-> last, failed |-> run.failed \/ bad, lost |-> lost,
                  over |-> lost \/ (bad /\ stop)]
      BY <1>4 DEF Onward
    <2> HIDE DEF last, lost, bad, next, sent, N, failed, gone
    <2>4. /\ next.sent = last /\ next.failed = (run.failed \/ bad) /\ next.lost = lost
          /\ next.over = (lost \/ (bad /\ stop))
      BY <2>3
    <2>5. \A k : k \in 1 .. last <=> k \in 1 .. sent \/ k \in n + 1 .. last
      BY <1>1, <2>1, <2>2
    <2>6. ~run.lost /\ (stop => ~run.failed)
      BY <1>2, <1>4
    <2>7. next.failed <=> \E k \in 1 .. last : failed(k)
      BY <1>2, <2>4, <2>5 DEF bad
    <2>8. next.lost <=> \E k \in 1 .. last : gone(k)
      BY <1>2, <2>4, <2>5, <2>6 DEF lost
    <2>9. next.over <=> next.lost \/ (stop /\ next.failed)
      BY <2>4, <2>6
    <2>10. ASSUME stop, NEW i \in 1 .. last, steps[i].phase = "save", NEW k \in 1 .. i - 1
           PROVE  ~failed(k)
      <3>1. CASE i \in 1 .. sent
        BY <1>2, <2>10, <3>1
      <3>2. CASE i \notin 1 .. sent
        <4>1. i = n + 1
          <5>1. i \notin n + 2 .. last
            BY <2>2, <2>10
          <5>2. QED BY <1>1, <2>1, <2>2, <3>2, <5>1
        <4>2. k \in 1 .. sent
          BY <2>1, <4>1
        <4>3. QED BY <1>2, <2>6, <2>10, <4>2
      <3>3. QED BY <3>1, <3>2
    <2>11. last \in 0 .. N /\ last >= n + 1
      BY <1>1, <2>2
    <2>12. QED BY <2>4, <2>7, <2>8, <2>9, <2>10, <2>11 DEF RunTo, N, next, failed, gone
  <1>5. QED BY <1>3, <1>4

\* What run_steps returns is a run past every step, of any plan.
RunEnds(transport, steps, replies, stop) ==
    RunTo(transport, steps, replies, stop, Len(steps), RunSteps(transport, steps, replies, stop))

LEMMA StepsAreRun ==
  ASSUME NEW transport, NEW T, NEW steps \in Seq(T), NEW replies, NEW stop, stop \in BOOLEAN
  PROVE  RunEnds(transport, steps, replies, stop)
  <1> DEFINE N       == Len(steps)
             S       == RunStates
             base    == [sent |-> 0, failed |-> FALSE, lost |-> FALSE, over |-> FALSE]
             more(r, i) == Onward(transport, steps, replies, stop, r, i)
             indices == [i \in DOMAIN steps |-> i]
             step    == [n \in 1 .. N |-> [r \in S |-> more(r, n)]]
             next(f) == [s \in SUBSET DOMAIN indices |->
                           IF s = {} THEN base ELSE more(f[s \ {Max(s)}], indices[Max(s)])]
             fold    == CHOOSE f : f = next(f)
  <1>1. N \in Nat /\ DOMAIN indices = 1 .. N /\ \A i \in 1 .. N : indices[i] = i
    OBVIOUS
  <1>2. RunSteps(transport, steps, replies, stop) = fold[1 .. N]
    <2>1. RunSteps(transport, steps, replies, stop) = fold[DOMAIN indices]
      BY Zenon DEF RunSteps, Onward, FoldLeft, MapThenFoldSet
    <2> HIDE DEF fold, N, indices
    <2>2. QED BY <1>1, <2>1
  <1>3. base \in S
    BY DEF RunStates
  <1>4. \A n \in 1 .. N : step[n] \in [S -> S] /\ \A r \in S : step[n][r] = more(r, n)
    BY OnwardKeepsState
  <1> HIDE DEF S, more, base, indices
  <1>5. \E f : f = next(f)
    <2>1. step \in StepsOn(S, N)
      BY <1>4 DEF StepsOn
    <2> HIDE DEF step, N
    <2>2. PICK f : IsFold(f, S, base, N, step)
      BY ONLY <1>1, <1>3, <2>1, FoldExists
    <2>3. \A s \in SUBSET (1 .. N) : s # {} =>
            step[Max(s)][f[s \ {Max(s)}]] = more(f[s \ {Max(s)}], indices[Max(s)])
      <3> TAKE s \in SUBSET (1 .. N)
      <3>1. s # {} => Max(s) \in 1 .. N
        BY <1>1, GreatestIn
      <3>2. f[s \ {Max(s)}] \in S
        BY <2>2 DEF IsFold
      <3>3. QED BY <1>1, <1>4, <3>1, <3>2
    <2>4. f = next(f)
      BY <1>1, <2>2, <2>3 DEF IsFold
    <2>5. QED BY <2>4
  <1>6. fold = next(fold)
    BY <1>5
  <1> HIDE DEF fold, step
  <1> DEFINE Reached(n) == /\ fold[1 .. n] \in RunStates
                           /\ RunTo(transport, steps, replies, stop, n, fold[1 .. n])
             Good       == {n \in Nat : n <= N => Reached(n)}
  <1>7. 0 \in Good
    <2>1. fold[1 .. 0] = base
      BY <1>1, <1>6
    <2>2. base \in RunStates /\ RunTo(transport, steps, replies, stop, 0, base)
      BY <1>1 DEF RunTo, base, RunStates
    <2>3. QED BY <2>1, <2>2
  <1>8. \A n \in Nat : n \in Good => n + 1 \in Good
    <2> SUFFICES ASSUME NEW n \in Nat, n \in Good, n + 1 <= N PROVE Reached(n + 1)
      OBVIOUS
    <2>1. Reached(n) /\ n + 1 \in 1 .. N
      BY <1>1
    <2>2. fold[1 .. n + 1] = Onward(transport, steps, replies, stop, fold[1 .. n], n + 1)
      <3>1. 1 .. n + 1 # {} /\ Max(1 .. n + 1) = n + 1 /\ (1 .. n + 1) \ {n + 1} = 1 .. n
        BY FoldOfNext
      <3>2. 1 .. n + 1 \in SUBSET DOMAIN indices /\ indices[n + 1] = n + 1
        BY <1>1, <2>1
      <3> DEFINE s == 1 .. n + 1
      <3>3. fold[s] = more(fold[s \ {Max(s)}], indices[Max(s)])
        <4>1. s \in SUBSET DOMAIN indices /\ s # {}
          BY <3>1, <3>2
        <4> HIDE DEF s
        <4>2. QED BY <1>6, <4>1
      <3>4. fold[s] = more(fold[1 .. n], n + 1)
        BY <3>1, <3>2, <3>3
      <3>5. QED BY <3>4 DEF more
    <2>3. fold[1 .. n + 1] \in RunStates
      BY <2>1, <2>2, OnwardKeepsState
    <2>4. RunTo(transport, steps, replies, stop, n + 1, fold[1 .. n + 1])
      BY <2>1, <2>2, OnwardToNext
    <2>5. QED BY <2>3, <2>4
  <1>9. N \in Good
    <2> HIDE DEF Good
    <2>1. N \in Nat
      BY <1>1
    <2>2. QED BY ONLY <1>7, <1>8, <2>1, SetInduction
  <1>10. QED BY <1>1, <1>2, <1>9 DEF RunEnds

PlanSteps == [phase : {"exec", "config", "save", "verify"}, readOnly : BOOLEAN]

\* A driver has a number of commands for every operation.
LEMMA DriversCount ==
  ASSUME NEW driver \in DOMAIN Drivers, NEW operation \in LegacyOperations
  PROVE  Drivers[driver][operation] \in Nat
  <1>1. \A p, a, v, t \in Nat : /\ Commands(p, a, v, t) \in [LegacyOperations -> Nat]
                                /\ [Commands(p, a, v, t) EXCEPT !.password = 4]
                                     \in [LegacyOperations -> Nat]
    <2> SUFFICES ASSUME NEW p \in Nat, NEW a \in Nat, NEW v \in Nat, NEW t \in Nat
                 PROVE  /\ Commands(p, a, v, t) \in [LegacyOperations -> Nat]
                        /\ [Commands(p, a, v, t) EXCEPT !.password = 4]
                             \in [LegacyOperations -> Nat]
      OBVIOUS
    <2>1. Commands(p, a, v, t) \in [LegacyOperations -> Nat]
      BY DEF Commands, LegacyOperations
    <2>2. QED BY <2>1
  <1>2. /\ HuaweiVrpDriver \in [LegacyOperations -> Nat]
        /\ CiscoIosDriver \in [LegacyOperations -> Nat]
        /\ ComwareSmbDriver \in [LegacyOperations -> Nat]
        /\ ComwareLegacyDriver \in [LegacyOperations -> Nat]
    BY <1>1 DEF HuaweiVrpDriver, CiscoIosDriver, ComwareSmbDriver, ComwareLegacyDriver
  <1>3. /\ HpeProcurveDriver \in [LegacyOperations -> Nat]
        /\ EltexMesDriver \in [LegacyOperations -> Nat]
        /\ BulatBsDriver \in [LegacyOperations -> Nat]
        /\ QtechQswDriver \in [LegacyOperations -> Nat]
    BY <1>1 DEF HpeProcurveDriver, EltexMesDriver, BulatBsDriver, QtechQswDriver
  <1>4. /\ Comware7Driver \in [LegacyOperations -> Nat]
        /\ DellPowerConnectDriver \in [LegacyOperations -> Nat]
        /\ UnsupportedDriver \in [LegacyOperations -> Nat]
    BY <1>2 DEF Comware7Driver, DellPowerConnectDriver, UnsupportedDriver
  <1>5. Drivers[driver] \in [LegacyOperations -> Nat]
    BY <1>2, <1>3, <1>4 DEF Drivers
  <1>6. QED BY <1>5

\* The steps of a plan.
LEMMA StepsOfPlan ==
  ASSUME NEW device, NEW driver \in DOMAIN Drivers, NEW operation \in LegacyOperations
  PROVE  Plan(device, driver, operation).steps \in Seq(PlanSteps)
  <1> DEFINE n     == Drivers[driver][operation]
             reads == n = 0 \/ operation = "backup"
             check == IF operation \in {"acl", "vlan", "port"} THEN <<Step("verify", TRUE)>>
                      ELSE <<>>
  <1>1. n \in Nat
    BY DriversCount
  <1>2. Plan(device, driver, operation).steps
          = IF reads THEN Steps(n, "exec", TRUE)
            ELSE Steps(n, "config", FALSE) \o <<Step("save", FALSE)>> \o check
    BY DEF Plan
  <1> HIDE DEF n, reads
  <1>3. /\ Step("exec", TRUE) \in PlanSteps /\ Step("config", FALSE) \in PlanSteps
        /\ Step("save", FALSE) \in PlanSteps /\ Step("verify", TRUE) \in PlanSteps
    BY DEF Step, PlanSteps
  <1>4. Steps(n, "exec", TRUE) \in Seq(PlanSteps) /\ Steps(n, "config", FALSE) \in Seq(PlanSteps)
    <2>1. /\ Steps(n, "exec", TRUE) \in [1 .. n -> PlanSteps]
          /\ Steps(n, "config", FALSE) \in [1 .. n -> PlanSteps]
      BY <1>3 DEF Steps
    <2>2. QED BY <1>1, <2>1, FunctionIsSeq
  <1>5. check \in Seq(PlanSteps) /\ <<Step("save", FALSE)>> \in Seq(PlanSteps)
    <2>1. \A s : s \in PlanSteps => <<s>> \in Seq(PlanSteps)
      OBVIOUS
    <2>2. <<Step("save", FALSE)>> \in Seq(PlanSteps) /\ <<Step("verify", TRUE)>> \in Seq(PlanSteps)
      BY ONLY <1>3, <2>1, Zenon
    <2>3. <<>> \in Seq(PlanSteps)
      OBVIOUS
    <2>4. QED BY ONLY <2>2, <2>3, Zenon DEF check
  <1> HIDE DEF check
  <1>6. Steps(n, "config", FALSE) \o <<Step("save", FALSE)>> \o check \in Seq(PlanSteps)
    <2>1. \A a, b, c \in Seq(PlanSteps) : a \o b \o c \in Seq(PlanSteps)
      OBVIOUS
    <2>2. QED BY ONLY <1>4, <1>5, <2>1, Zenon
  <1>7. QED BY <1>2, <1>4, <1>6

\* apply_plan sends the command that saves the configuration only if no command
\* before it was rejected (apply_plan, run_steps, _run_config_block).
THEOREM SavedAccepted == Spec => []SavedIsAccepted
  <1>1. AnswerIsSolution => SavedIsAccepted
    <2> SUFFICES ASSUME AnswerIsSolution, Solved("apply") PROVE SavedIsAccepted
      BY DEF SavedIsAccepted
    <2> DEFINE steps     == Plan(NotYet, problem.driver, problem.operation).steps
               transport == IF Plan(NotYet, problem.driver, problem.operation).type = None
                            THEN "paramiko" ELSE "netmiko"
    <2>1. /\ problem.driver \in DOMAIN PlanTypes \cup {"bulat_bs"}
          /\ problem.operation \in {"password", "vlan"}
      BY DEF AnswerIsSolution, Solved, Problems, CanaryProblems, VlanProblems, ScheduleProblems,
             BackupProblems, SessionProblems, CleanProblems, ImportProblems, DriverProblems,
             CaptureProblems, ApplyProblems, FileProblems, EvidenceProblems
    <2>2. problem.driver \in DOMAIN Drivers /\ problem.operation \in LegacyOperations
      BY <2>1 DEF PlanTypes, Drivers, LegacyOperations
    <2>3. steps \in Seq(PlanSteps)
      BY <2>2, StepsOfPlan
    <2>4. answer = RunSteps(transport, steps, Answered, TRUE)
      BY DEF AnswerIsSolution, Applies
    <2> HIDE DEF steps, transport
    <2>5. RunTo(transport, steps, Answered, TRUE, Len(steps), answer)
      BY <2>3, <2>4, StepsAreRun DEF RunEnds
    <2>6. \A i \in 1 .. answer.sent :
             steps[i].phase = "save" => \A k \in 1 .. i - 1 : ~Failed(transport, Answered[k])
      BY <2>5 DEF RunTo
    <2>7. \A i \in 1 .. answer.sent :
             steps[i].phase = "save" => \A k \in 1 .. i - 1 : Answered[k] # "rejected"
      BY <2>6 DEF Failed
    <2>8. QED BY <2>7 DEF SavedIsAccepted, steps
  <1>2. QED BY <1>1, Solutions, PTL

-----------------------------------------------------------------------------
(* Drivers and families                                                    *)

\* The families of the matrix.
LEMMA FamiliesAre ==
  DeviceFamilies = {"cisco_ios", "cisco_nxos", "cisco_asa", "huawei_vrp", "limited_web",
                    "hpe_comware", "hpe_procurve", "aruba_os_switch", "qtech", "dell_os",
                    "eltex", "bulat", "non_switch", "generic_ssh", "icmp", "unknown"}
  <1>1. DeviceFamilies = DOMAIN MainProfiles \cup DOMAIN OtherProfiles
    BY DEF DeviceFamilies, Profiles, Joined
  <1>2. DOMAIN MainProfiles = {"cisco_ios", "cisco_nxos", "cisco_asa", "huawei_vrp",
                               "limited_web", "hpe_comware", "hpe_procurve", "aruba_os_switch"}
    BY DEF MainProfiles
  <1>3. DOMAIN OtherProfiles = {"qtech", "dell_os", "eltex", "bulat", "non_switch",
                                "generic_ssh", "icmp", "unknown"}
    BY DEF OtherProfiles
  <1>4. QED BY ONLY <1>1, <1>2, <1>3

\* What the pattern of a family finds, it finds.
LEMMA PatternFinds ==
  ASSUME NEW device, NEW f, f = FamilyByPattern(device)
  PROVE  /\ f \in DeviceFamilies
         /\ \/ f = "unknown"
            \/ Shows(Words(device), Profiles[f].models)
            \/ device.platform \in Profiles[f].platforms
  <1> DEFINE found(g) == \/ Shows(Words(device), Profiles[g].models)
                         \/ device.platform \in Profiles[g].platforms
             I == {i \in 1 .. Len(Order) : found(Order[i])}
  <1>1. I \subseteq 1 .. 15
    BY DEF Order
  <1>2. I # {} => Min(I) \in I
    <2>1. I \subseteq Nat
      BY <1>1
    <2> HIDE DEF I
    <2>2. QED BY <2>1, LeastElement DEF Min
  <1>3. SelectInSeq(Order, found) = IF I # {} THEN Min(I) ELSE 0
    BY DEF SelectInSeq
  <1>4. \A i \in I : found(Order[i])
    OBVIOUS
  <1>5. f = IF SelectInSeq(Order, found) = 0 THEN "unknown" ELSE Order[SelectInSeq(Order, found)]
    BY DEF FamilyByPattern
  <1>6. \A i \in 1 .. 15 : Order[i] \in DeviceFamilies
    BY FamiliesAre DEF Order
  <1>7. "unknown" \in DeviceFamilies
    BY FamiliesAre
  <1> HIDE DEF I, found
  <1>8. f = "unknown" \/ (\E i \in I : f = Order[i])
    BY <1>1, <1>2, <1>3, <1>5
  <1>9. f \in DeviceFamilies /\ (f = "unknown" \/ found(f))
    BY <1>1, <1>4, <1>6, <1>7, <1>8
  <1>10. QED BY <1>9 DEF found

\* The matrix has a profile for every device, whatever is stored with it.
LEMMA MatchIsFamily ==
  ASSUME NEW device, NEW family
  PROVE  Match(device, family) \in DeviceFamilies
  <1>1. FamilyByPattern(device) \in DeviceFamilies
    BY PatternFinds
  <1>2. FamilyStored(device, family) \in DeviceFamilies \cup {None}
    <2>1. \A d \in DOMAIN DriverFamily : DriverFamily[d] \in DeviceFamilies
      BY FamiliesAre DEF DriverFamily
    <2>2. QED BY <2>1 DEF FamilyStored
  <1>3. FamilyByText(device) \in DeviceFamilies \cup {None}
    BY FamiliesAre DEF FamilyByText
  <1>4. QED BY <1>1, <1>2, <1>3 DEF Match

\* The library has a driver for every device.
LEMMA DriverIsKnown ==
  ASSUME NEW device
  PROVE  DriverFor(device) \in DOMAIN Drivers
  <1> DEFINE family == RuntimeForDevice(device).family
  <1>1. family \in DeviceFamilies
    BY MatchIsFamily DEF RuntimeForDevice, Decide, Decision
  <1> HIDE DEF family
  <1>2. DriverFor(device) \in {"qtech_qsw", "unsupported_cli", "huawei_vrp", "cisco_ios",
                               "comware_legacy", "comware7", "comware_smb", "hpe_procurve",
                               "bulat_bs", "eltex_mes", "dell_powerconnect"}
    BY <1>1, FamiliesAre DEF DriverFor, family
  <1>3. QED BY <1>2 DEF Drivers

BackupFiles == [exists : BOOLEAN, raises : BOOLEAN, whole : BOOLEAN]

\* A device's backup raises exactly if it does not leave the whole configuration.
Honest(backup) == backup \in BackupFiles /\ (~backup.raises <=> backup.exists /\ backup.whole)

LEMMA FileIsHonest ==
  ASSUME NEW transport, NEW T, NEW steps \in Seq(T), NEW replies,
         \A k \in 1 .. Len(steps) : replies[k] \in {"whole", "rejected", "lost"}
  PROVE  Honest(BackupFile(transport, steps, replies))
  <1> DEFINE N   == Len(steps)
             run == RunSteps(transport, steps, replies, FALSE)
             all == \A i \in 1 .. N : replies[i] = "whole"
  <1>1. N \in Nat /\ DOMAIN steps = 1 .. N
    OBVIOUS
  <1>2. RunTo(transport, steps, replies, FALSE, N, run)
    <2>1. RunEnds(transport, steps, replies, FALSE)
      BY StepsAreRun
    <2>2. QED BY <2>1 DEF RunEnds
  <1>3. BackupFile(transport, steps, replies)
          = [exists |-> ~run.lost, raises |-> run.lost \/ run.failed, whole |-> ~run.lost /\ all]
    BY <1>1 DEF BackupFile
  <1> HIDE DEF N, run
  <1>4. /\ run.sent \in 0 .. N /\ (run.over \/ run.sent >= N) /\ (run.over <=> run.lost)
        /\ run.failed <=> \E k \in 1 .. run.sent : Failed(transport, replies[k])
        /\ run.lost <=> \E k \in 1 .. run.sent : replies[k] = "lost"
    BY <1>2 DEF RunTo, N
  <1>5. ~run.lost => (run.failed <=> ~all)
    <2> SUFFICES ASSUME ~run.lost PROVE run.failed <=> ~all
      OBVIOUS
    <2>1. run.sent = N
      BY <1>1, <1>4
    <2>2. \A k \in 1 .. N : replies[k] \in {"whole", "rejected"}
      BY <1>4, <2>1 DEF N
    <2>3. \A k \in 1 .. N : Failed(transport, replies[k]) <=> replies[k] # "whole"
      BY <2>2 DEF Failed
    <2>4. QED BY <1>4, <2>1, <2>3
  <1> HIDE DEF all
  <1> DEFINE lost == run.lost
             failed == run.failed
  <1>6. BackupFile(transport, steps, replies)
          = [exists |-> ~lost, raises |-> lost \/ failed, whole |-> ~lost /\ all]
    BY <1>3
  <1>7. (lost <=> TRUE) \/ (lost <=> FALSE)
    OBVIOUS
  <1> HIDE DEF lost, failed
  <1>8. Honest([exists |-> ~lost, raises |-> lost \/ failed, whole |-> ~lost /\ all])
    BY <1>5 DEF Honest, BackupFiles, lost, failed
  <1>9. QED BY <1>6, <1>8

\* The backup command, of one device.
LEMMA BackupIsHonest ==
  ASSUME NEW device, NEW preference, NEW replies,
         \A k \in 1 .. 2 : replies[k] \in {"whole", "rejected", "lost"}
  PROVE  Honest(BackupOf(Plan(device, DriverFor(device), "backup"), preference, replies))
  <1> DEFINE driver    == DriverFor(device)
             plan      == Plan(device, driver, "backup")
             transport == TransportForPlan(plan, preference)
             refused   == [NoFile EXCEPT !.raises = TRUE]
  <1>1. driver \in DOMAIN Drivers
    BY DriverIsKnown
  <1>2. Drivers[driver]["backup"] \in 0 .. 2
    BY <1>1 DEF Drivers, HuaweiVrpDriver, CiscoIosDriver, ComwareSmbDriver, ComwareLegacyDriver,
                Comware7Driver, HpeProcurveDriver, EltexMesDriver, DellPowerConnectDriver,
                BulatBsDriver, QtechQswDriver, UnsupportedDriver, Commands, LegacyOperations
  <1> HIDE DEF driver
  <1>3. plan.steps \in Seq(PlanSteps) /\ Len(plan.steps) \in 0 .. 2
    <2>1. plan.steps = Steps(Drivers[driver]["backup"], "exec", TRUE)
      BY DEF Plan
    <2>2. Len(plan.steps) = Drivers[driver]["backup"]
      BY <1>2, <2>1 DEF Steps
    <2>3. "backup" \in LegacyOperations
      BY DEF LegacyOperations
    <2> HIDE DEF plan
    <2>4. plan.steps \in Seq(PlanSteps)
      BY <1>1, <2>3, StepsOfPlan DEF plan
    <2>5. QED BY <1>2, <2>2, <2>4
  <1>4. transport \in {None, "netmiko", "paramiko"}
    BY DEF TransportForPlan, TransportOf
  <1> HIDE DEF plan, transport
  <1>5. BackupOf(plan, preference, replies)
          = IF plan.steps = <<>> \/ transport = None THEN refused
            ELSE BackupFile(transport, plan.steps, replies)
    BY <1>4 DEF BackupOf, transport
  <1>6. Honest(refused)
    BY DEF Honest, BackupFiles, NoFile
  <1>7. Honest(BackupFile(transport, plan.steps, replies))
    <2>1. \A k \in 1 .. Len(plan.steps) : replies[k] \in {"whole", "rejected", "lost"}
      <3> DEFINE n == Len(plan.steps)
      <3>1. n \in 0 .. 2
        BY <1>3
      <3> HIDE DEF n
      <3>2. \A k \in 1 .. n : k \in 1 .. 2
        BY ONLY <3>1
      <3>3. QED BY <3>2 DEF n
    <2>2. QED BY <1>3, <2>1, FileIsHonest
  <1>8. QED BY <1>5, <1>6, <1>7 DEF plan, driver

-----------------------------------------------------------------------------
(* The backup command                                                      *)

\* The step of Summary: a device is passed over once the command has stopped.
Summed(continue, s, b) ==
    IF s.stopped THEN [s EXCEPT !.files = Append(@, NoFile)]
    ELSE [files   |-> Append(s.files, b),
          exit    |-> IF b.raises THEN 1 ELSE s.exit,
          stopped |-> b.raises /\ ~continue]

Summaries == [files : Seq(BackupFiles), exit : {0, 1}, stopped : BOOLEAN]

\* What the command has come to after n devices.
SummaryTo(backups, continue, n, s) ==
    /\ Len(s.files) = n
    /\ s.stopped => s.exit = 1 /\ ~continue
    /\ s.exit = 0 <=> \A k \in 1 .. n : s.files[k].exists /\ s.files[k].whole
    /\ continue => \A k \in 1 .. n : s.files[k] = backups[k]

LEMMA SummedKeepsState ==
  ASSUME NEW continue, continue \in BOOLEAN, NEW s \in Summaries, NEW b \in BackupFiles
  PROVE  Summed(continue, s, b) \in Summaries
  <1> DEFINE raises == b.raises
  <1>1. NoFile \in BackupFiles
    BY DEF NoFile, BackupFiles
  <1>2. /\ Append(s.files, b) \in Seq(BackupFiles) /\ Append(s.files, NoFile) \in Seq(BackupFiles)
    BY <1>1 DEF Summaries
  <1>3. CASE s.stopped
    <2>1. Summed(continue, s, b) = [s EXCEPT !.files = Append(s.files, NoFile)]
      BY <1>3 DEF Summed
    <2>2. QED BY <1>2, <2>1 DEF Summaries
  <1>4. CASE ~s.stopped
    <2>1. Summed(continue, s, b)
            = [files |-> Append(s.files, b), exit |-> IF raises THEN 1 ELSE s.exit,
               stopped |-> raises /\ ~continue]
      BY <1>4 DEF Summed
    <2>2. (raises /\ ~continue) \in BOOLEAN
      OBVIOUS
    <2>3. (IF raises THEN 1 ELSE s.exit) \in {0, 1}
      BY DEF Summaries
    <2> HIDE DEF raises
    <2>4. QED BY <1>2, <2>1, <2>2, <2>3 DEF Summaries
  <1>5. QED BY <1>3, <1>4

LEMMA SummedToNext ==
  ASSUME NEW backups, NEW continue, continue \in BOOLEAN, NEW n \in Nat, NEW s \in Summaries,
         SummaryTo(backups, continue, n, s), Honest(backups[n + 1])
  PROVE  SummaryTo(backups, continue, n + 1, Summed(continue, s, backups[n + 1]))
  <1> DEFINE b    == backups[n + 1]
             next == Summed(continue, s, b)
             good(f) == f.exists /\ f.whole
             there == s.files
  <1>1. /\ Len(there) = n /\ (s.stopped => s.exit = 1 /\ ~continue)
        /\ s.exit = 0 <=> \A k \in 1 .. n : good(there[k])
        /\ continue => \A k \in 1 .. n : there[k] = backups[k]
    BY DEF SummaryTo
  <1>2. there \in Seq(BackupFiles) /\ s.exit \in {0, 1}
    BY DEF Summaries
  <1>3. ~b.raises <=> good(b)
    BY DEF Honest
  <1>4. \A f \in BackupFiles : /\ Len(Append(there, f)) = n + 1 /\ Append(there, f)[n + 1] = f
                              /\ \A k \in 1 .. n : Append(there, f)[k] = there[k]
    BY <1>1, <1>2
  <1>5. NoFile \in BackupFiles /\ ~good(NoFile) /\ b \in BackupFiles
    BY DEF NoFile, BackupFiles, Honest
  <1>6. \A k : k \in 1 .. n + 1 <=> k \in 1 .. n \/ k = n + 1
    OBVIOUS
  <1>7. CASE s.stopped
    <2>1. next = [s EXCEPT !.files = Append(there, NoFile)]
      BY <1>7 DEF Summed
    <2>2. next.files = Append(there, NoFile) /\ next.exit = s.exit /\ next.stopped = s.stopped
      BY <2>1 DEF Summaries
    <2> HIDE DEF next, there, good, b
    <2>3. next.exit = 1 /\ ~continue
      BY <1>1, <1>7, <2>2
    <2>4. next.files[n + 1] = NoFile /\ Len(next.files) = n + 1
      BY <1>4, <1>5, <2>2
    <2>5. \E k \in 1 .. n + 1 : ~good(next.files[k])
      BY <1>5, <1>6, <2>4
    <2>6. QED BY <2>3, <2>4, <2>5 DEF SummaryTo, next, good, b
  <1>8. CASE ~s.stopped
    <2>1. next = [files |-> Append(there, b), exit |-> IF b.raises THEN 1 ELSE s.exit,
                  stopped |-> b.raises /\ ~continue]
      BY <1>8 DEF Summed
    <2>2. /\ next.files = Append(there, b) /\ (next.exit = IF b.raises THEN 1 ELSE s.exit)
          /\ next.stopped = (b.raises /\ ~continue)
      BY <2>1
    <2> HIDE DEF next, there, good
    <2>3. /\ Len(next.files) = n + 1 /\ next.files[n + 1] = b
          /\ \A k \in 1 .. n : next.files[k] = there[k]
      BY <1>4, <1>5, <2>2
    <2>4. next.stopped => next.exit = 1 /\ ~continue
      BY <2>2
    <2>5. next.exit = 0 <=> \A k \in 1 .. n + 1 : good(next.files[k])
      BY <1>1, <1>2, <1>3, <1>6, <2>2, <2>3
    <2>6. continue => \A k \in 1 .. n + 1 : next.files[k] = backups[k]
      BY <1>1, <1>6, <2>3
    <2> HIDE DEF b
    <2>7. QED BY <2>3, <2>4, <2>5, <2>6 DEF SummaryTo, next, good, b
  <1>9. QED BY <1>7, <1>8

\* The command over any number of devices.
AllHonest(backups) == \A k \in 1 .. Len(backups) : Honest(backups[k])

SummaryEnds(backups, continue) ==
    SummaryTo(backups, continue, Len(backups), Summary(backups, continue))

LEMMA BackupsAreSummed ==
  ASSUME NEW backups \in Seq(BackupFiles), AllHonest(backups), NEW continue, continue \in BOOLEAN
  PROVE  SummaryEnds(backups, continue)
  <1> DEFINE N       == Len(backups)
             S       == Summaries
             base    == [files |-> <<>>, exit |-> 0, stopped |-> FALSE]
             more(s, b) == Summed(continue, s, b)
             step    == [n \in 1 .. N |-> [s \in S |-> more(s, backups[n])]]
             next(f) == [s \in SUBSET DOMAIN backups |->
                           IF s = {} THEN base ELSE more(f[s \ {Max(s)}], backups[Max(s)])]
             fold    == CHOOSE f : f = next(f)
  <1>1. N \in Nat /\ DOMAIN backups = 1 .. N
    OBVIOUS
  <1>2. Summary(backups, continue) = fold[1 .. N]
    <2>1. Summary(backups, continue) = fold[DOMAIN backups]
      BY Zenon DEF Summary, Summed, FoldLeft, MapThenFoldSet
    <2> HIDE DEF fold, N
    <2>2. QED BY <1>1, <2>1
  <1>3. base \in S
    BY DEF Summaries
  <1>4. \A n \in 1 .. N : backups[n] \in BackupFiles /\ Honest(backups[n])
    BY DEF AllHonest
  <1>5. \A n \in 1 .. N : step[n] \in [S -> S] /\ \A s \in S : step[n][s] = more(s, backups[n])
    BY <1>4, SummedKeepsState
  <1> HIDE DEF S, more, base
  <1>6. \E f : f = next(f)
    <2>1. step \in StepsOn(S, N)
      BY <1>5 DEF StepsOn
    <2> HIDE DEF step, N
    <2>2. PICK f : IsFold(f, S, base, N, step)
      BY ONLY <1>1, <1>3, <2>1, FoldExists
    <2>3. \A s \in SUBSET (1 .. N) : s # {} =>
            step[Max(s)][f[s \ {Max(s)}]] = more(f[s \ {Max(s)}], backups[Max(s)])
      <3> TAKE s \in SUBSET (1 .. N)
      <3>1. s # {} => Max(s) \in 1 .. N
        BY <1>1, GreatestIn
      <3>2. f[s \ {Max(s)}] \in S
        BY <2>2 DEF IsFold
      <3>3. QED BY <1>5, <3>1, <3>2
    <2>4. f = next(f)
      BY <1>1, <2>2, <2>3 DEF IsFold
    <2>5. QED BY <2>4
  <1>7. fold = next(fold)
    BY <1>6
  <1> HIDE DEF fold, step
  <1> DEFINE Reached(n) == fold[1 .. n] \in S /\ SummaryTo(backups, continue, n, fold[1 .. n])
             Good       == {n \in Nat : n <= N => Reached(n)}
  <1>8. 0 \in Good
    <2>1. fold[1 .. 0] = base
      BY <1>1, <1>7
    <2>2. SummaryTo(backups, continue, 0, base)
      BY DEF SummaryTo, base
    <2>3. QED BY <1>3, <2>1, <2>2
  <1>9. \A n \in Nat : n \in Good => n + 1 \in Good
    <2> SUFFICES ASSUME NEW n \in Nat, n \in Good, n + 1 <= N PROVE Reached(n + 1)
      OBVIOUS
    <2>1. Reached(n) /\ n + 1 \in 1 .. N
      BY <1>1
    <2> DEFINE s == 1 .. n + 1
    <2>2. s # {} /\ Max(s) = n + 1 /\ s \ {n + 1} = 1 .. n
      BY FoldOfNext
    <2>3. s \in SUBSET DOMAIN backups
      BY <1>1, <2>1
    <2>4. fold[s] = Summed(continue, fold[1 .. n], backups[n + 1])
      <3> HIDE DEF s
      <3>1. fold[s] = more(fold[s \ {Max(s)}], backups[Max(s)])
        BY <1>7, <2>2, <2>3
      <3>2. QED BY <2>2, <3>1 DEF more
    <2>5. backups[n + 1] \in BackupFiles /\ Honest(backups[n + 1]) /\ fold[1 .. n] \in Summaries
      BY <1>4, <2>1 DEF S
    <2>6. fold[s] \in S
      BY <2>4, <2>5, SummedKeepsState DEF S
    <2>7. SummaryTo(backups, continue, n + 1, fold[s])
      BY <2>1, <2>4, <2>5, SummedToNext
    <2>8. QED BY <2>6, <2>7
  <1>10. N \in Good
    <2> HIDE DEF Good
    <2>1. N \in Nat
      BY <1>1
    <2>2. QED BY ONLY <1>8, <1>9, <2>1, SetInduction
  <1>11. QED BY <1>1, <1>2, <1>10 DEF SummaryEnds

\* The exit code of the backup command is 0 exactly if it leaves the whole
\* configuration of every device, and with continue-on-error a failure costs no
\* other device its file (_backup, backup_config, run_steps).
THEOREM CaptureReported == Spec => []CaptureIsReported
  <1>1. AnswerIsSolution => CaptureIsReported
    <2> SUFFICES ASSUME AnswerIsSolution, Solved("capture"), NoneIsCut PROVE CaptureIsReported
      BY DEF CaptureIsReported
    <2> DEFINE plan(i)  == Plan(problem.devices[i], DriverFor(problem.devices[i]), "backup")
               alone(i) == BackupOf(plan(i), problem.preference, problem.replies[i])
               plans    == [i \in 1 .. 2 |-> plan(i)]
               backups  == [i \in 1 .. 2 |-> alone(i)]
    <2>1. /\ problem.replies \in [1 .. 2 -> [1 .. 2 -> StepReplies]]
          /\ problem.continue \in BOOLEAN
      BY DEF AnswerIsSolution, Solved, Problems, CanaryProblems, VlanProblems, ScheduleProblems,
             BackupProblems, SessionProblems, CleanProblems, ImportProblems, DriverProblems,
             CaptureProblems, ApplyProblems, FileProblems, EvidenceProblems
    <2>2. answer = BackupAll(plans, problem.preference, problem.replies, problem.continue)
      BY DEF AnswerIsSolution, Captured
    <2>3. BackupAll(plans, problem.preference, problem.replies, problem.continue)
            = Summary(backups, problem.continue)
      <3>1. [i \in DOMAIN plans |-> BackupOf(plans[i], problem.preference, problem.replies[i])]
              = backups
        <4> HIDE DEF plan
        <4>1. DOMAIN plans = 1 .. 2 /\ \A i \in 1 .. 2 : plans[i] = plan(i)
          OBVIOUS
        <4>2. QED BY <4>1
      <3> HIDE DEF plans, backups
      <3>2. QED BY <3>1 DEF BackupAll
    <2>4. \A i, k \in 1 .. 2 : problem.replies[i][k] \in {"whole", "rejected", "lost"}
      BY <2>1 DEF NoneIsCut, StepReplies
    <2>5. \A i \in 1 .. 2 : Honest(alone(i))
      <3> TAKE i \in 1 .. 2
      <3>1. \A k \in 1 .. 2 : problem.replies[i][k] \in {"whole", "rejected", "lost"}
        BY <2>4
      <3>2. QED BY <3>1, BackupIsHonest
    <2> HIDE DEF plan, alone, plans
    <2>6. /\ backups \in Seq(BackupFiles) /\ Len(backups) = 2
          /\ \A i \in 1 .. 2 : backups[i] = alone(i)
      <3>1. backups \in [1 .. 2 -> BackupFiles]
        BY <2>5 DEF Honest
      <3>2. QED BY <3>1, FunctionIsSeq
    <2> HIDE DEF backups
    <2>7. SummaryTo(backups, problem.continue, 2, answer)
      <3>1. AllHonest(backups)
        BY <2>5, <2>6 DEF AllHonest
      <3>2. SummaryEnds(backups, problem.continue)
        BY <2>1, <2>6, <3>1, BackupsAreSummed
      <3>3. QED BY <2>2, <2>3, <2>6, <3>2 DEF SummaryEnds
    <2>8. /\ answer.exit = 0 <=> \A i \in 1 .. 2 : answer.files[i].exists /\ answer.files[i].whole
          /\ problem.continue => \A i \in 1 .. 2 : answer.files[i] = alone(i)
      BY <2>6, <2>7 DEF SummaryTo
    <2>9. QED BY <2>8 DEF CaptureIsReported, alone, plan
  <1>2. QED BY <1>1, Solutions, PTL

-----------------------------------------------------------------------------
(* The gates of the lab                                                    *)

Candidates == {"cisco_ios", "cisco_nxos", "huawei_vrp", "hpe_comware", "hpe_procurve",
               "aruba_os_switch", "dell_os"}
Readable   == {"cisco_asa", "qtech", "eltex", "bulat", "generic_ssh"}
Silent     == {"limited_web", "non_switch", "icmp", "unknown"}

\* What the contract of a family says: all, reading alone, or nothing.
LEMMA ContractsAre ==
  /\ \A f \in Candidates : /\ Contracts[f].operations = CandidateOperations
                           /\ Contracts[f].level = "lab_apply_candidate"
                           /\ Contracts[f].reads # None
  /\ \A f \in Readable : /\ Contracts[f].operations = {"read_backup"}
                         /\ Contracts[f].level # "lab_apply_candidate"
                         /\ Contracts[f].reads # None
  /\ \A f \in Silent : /\ Contracts[f].operations = {}
                       /\ Contracts[f].level # "lab_apply_candidate"
                       /\ Contracts[f].reads = None
  <1> DEFINE All(c)  == /\ c.operations = CandidateOperations /\ c.level = "lab_apply_candidate"
                        /\ c.reads # None
             Read(c) == /\ c.operations = {"read_backup"} /\ c.level # "lab_apply_candidate"
                        /\ c.reads # None
             No(c)   == c.operations = {} /\ c.level # "lab_apply_candidate" /\ c.reads = None
  <1>1. \A b, t, r : r # None => All(LabCandidate(b, t, r))
    BY DEF LabCandidate, Contract
  <1>2. \A t, b, l : l # "lab_apply_candidate" => Read(BackupOnly(t, b, l)) /\ No(Nothing(t, l))
    BY DriverDecisionAssumption DEF BackupOnly, Nothing, Contract
  <1>3. "show running-config" # None /\ "display current-configuration" # None
    BY DriverDecisionAssumption
  <1> HIDE DEF All, Read, No
  <1>4. /\ All(CiscoContracts.cisco_ios) /\ All(CiscoContracts.cisco_nxos)
        /\ Read(CiscoContracts.cisco_asa)
    BY <1>1, <1>2, <1>3 DEF CiscoContracts
  <1>5. /\ All(HuaweiAndHpeContracts.huawei_vrp) /\ All(HuaweiAndHpeContracts.hpe_comware)
        /\ All(HuaweiAndHpeContracts.hpe_procurve) /\ All(HuaweiAndHpeContracts.aruba_os_switch)
    BY <1>1, <1>3 DEF HuaweiAndHpeContracts
  <1>6. /\ Read(QtechToNonSwitchContracts.qtech) /\ All(QtechToNonSwitchContracts.dell_os)
        /\ No(QtechToNonSwitchContracts.limited_web) /\ No(QtechToNonSwitchContracts.non_switch)
    BY <1>1, <1>2, <1>3 DEF QtechToNonSwitchContracts
  <1>7. /\ Read(EltexToUnknownContracts.eltex) /\ Read(EltexToUnknownContracts.bulat)
        /\ Read(EltexToUnknownContracts.generic_ssh) /\ No(EltexToUnknownContracts.icmp)
        /\ No(EltexToUnknownContracts.unknown)
    BY <1>2 DEF EltexToUnknownContracts
  <1>8. /\ DOMAIN CiscoContracts = {"cisco_ios", "cisco_nxos", "cisco_asa"}
        /\ DOMAIN HuaweiAndHpeContracts
             = {"huawei_vrp", "hpe_comware", "hpe_procurve", "aruba_os_switch"}
        /\ DOMAIN QtechToNonSwitchContracts = {"qtech", "dell_os", "limited_web", "non_switch"}
        /\ DOMAIN EltexToUnknownContracts = {"eltex", "bulat", "generic_ssh", "icmp", "unknown"}
    BY DEF CiscoContracts, HuaweiAndHpeContracts, QtechToNonSwitchContracts,
           EltexToUnknownContracts
  <1>9. \A f, g, h, k, x :
           x \in DOMAIN f \cup DOMAIN g \cup DOMAIN h \cup DOMAIN k =>
              Joined(Joined(f, g), Joined(h, k))[x]
                = IF x \in DOMAIN f THEN f[x] ELSE IF x \in DOMAIN g THEN g[x]
                  ELSE IF x \in DOMAIN h THEN h[x] ELSE k[x]
    BY DEF Joined
  <1> DEFINE c == CiscoContracts
             h == HuaweiAndHpeContracts
             q == QtechToNonSwitchContracts
             e == EltexToUnknownContracts
  <1>10. \A x : x \in DOMAIN c \cup DOMAIN h \cup DOMAIN q \cup DOMAIN e =>
           Contracts[x] = IF x \in DOMAIN c THEN c[x] ELSE IF x \in DOMAIN h THEN h[x]
                          ELSE IF x \in DOMAIN q THEN q[x] ELSE e[x]
    BY <1>9 DEF Contracts
  <1> HIDE DEF c, h, q, e
  <1>11. \A f \in Candidates : All(Contracts[f])
    BY <1>4, <1>5, <1>6, <1>8, <1>10 DEF Candidates, c, h, q, e
  <1>12. \A f \in Readable : Read(Contracts[f])
    BY <1>4, <1>6, <1>7, <1>8, <1>10 DEF Readable, c, h, q, e
  <1>13. \A f \in Silent : No(Contracts[f])
    BY <1>6, <1>7, <1>8, <1>10 DEF Silent, c, h, q, e
  <1>14. QED BY <1>11, <1>12, <1>13 DEF All, Read, No

\* The transport that the matrix has for a family.
LEMMA ProfilesAre ==
  /\ \A f \in Candidates \cup {"cisco_asa"} : Profiles[f].transport = "netmiko" /\ Profiles[f].reads
  /\ \A f \in {"qtech", "eltex", "bulat"} :
        /\ Profiles[f].transport = "custom_cli" /\ Profiles[f].fallback = "paramiko"
        /\ Profiles[f].reads
  /\ Profiles["generic_ssh"].transport = "paramiko" /\ Profiles["generic_ssh"].reads
  /\ Profiles["icmp"].transport = "icmp_only"
  /\ \A f \in {"limited_web", "non_switch", "unknown"} : Profiles[f].transport = "unsupported"
  <1> DEFINE Typed(p) == p.transport = "netmiko" /\ p.reads
             Own(p)   == p.transport = "custom_cli" /\ p.fallback = "paramiko" /\ p.reads
             No(p)    == p.transport = "unsupported"
  <1>1. \A d, b, m, p : Typed(Configurable(d, b, m, p)) /\ No(NoCli(d, m, p))
    BY DEF Configurable, NoCli, Profile
  <1>2. \A d, c, m, p : Own(OwnCli(d, c, m, p))
    BY DEF OwnCli, Profile
  <1> HIDE DEF Typed, Own, No
  <1>3. /\ Typed(MainProfiles.cisco_ios) /\ Typed(MainProfiles.cisco_nxos)
        /\ Typed(MainProfiles.cisco_asa) /\ Typed(MainProfiles.huawei_vrp)
        /\ No(MainProfiles.limited_web) /\ Typed(MainProfiles.hpe_comware)
        /\ Typed(MainProfiles.hpe_procurve) /\ Typed(MainProfiles.aruba_os_switch)
    BY <1>1 DEF MainProfiles
  <1>4. /\ Own(OtherProfiles.qtech) /\ Typed(OtherProfiles.dell_os) /\ Own(OtherProfiles.eltex)
        /\ Own(OtherProfiles.bulat) /\ No(OtherProfiles.non_switch) /\ No(OtherProfiles.unknown)
    BY <1>1, <1>2 DEF OtherProfiles
  <1>5. /\ OtherProfiles.generic_ssh.transport = "paramiko" /\ OtherProfiles.generic_ssh.reads
        /\ OtherProfiles.icmp.transport = "icmp_only"
    BY DEF OtherProfiles, Profile
  <1>6. /\ DOMAIN MainProfiles = {"cisco_ios", "cisco_nxos", "cisco_asa", "huawei_vrp",
                                  "limited_web", "hpe_comware", "hpe_procurve", "aruba_os_switch"}
        /\ DOMAIN OtherProfiles = {"qtech", "dell_os", "eltex", "bulat", "non_switch",
                                   "generic_ssh", "icmp", "unknown"}
    BY DEF MainProfiles, OtherProfiles
  <1> DEFINE m == MainProfiles
             o == OtherProfiles
  <1>7. \A x : x \in DOMAIN m \cup DOMAIN o => Profiles[x] = IF x \in DOMAIN m THEN m[x] ELSE o[x]
    BY DEF Profiles, Joined
  <1> HIDE DEF m, o
  <1>8. \A f \in Candidates \cup {"cisco_asa"} : Typed(Profiles[f])
    BY <1>3, <1>4, <1>6, <1>7 DEF Candidates, m, o
  <1>9. /\ \A f \in {"qtech", "eltex", "bulat"} : Own(Profiles[f])
        /\ \A f \in {"limited_web", "non_switch", "unknown"} : No(Profiles[f])
    BY <1>3, <1>4, <1>6, <1>7 DEF m, o
  <1>10. Profiles["generic_ssh"] = OtherProfiles.generic_ssh /\ Profiles["icmp"] = OtherProfiles.icmp
    BY <1>6, <1>7 DEF m, o
  <1>11. QED BY <1>5, <1>8, <1>9, <1>10 DEF Typed, Own, No

\* The gates say the same of a decision.
GatesAreOne(d) ==
    /\ \A op \in ConfigOperations :
         /\ EvaluateAllows(d, op) <=> CertificationAllows(d, op)
         /\ EvaluateAllows(d, op) <=> RecheckAllows(d, op) /\ Renders(d.family, op)
         /\ EvaluateAllows(d, op) <=> KernelAllows(d, op, TRUE)
         /\ EvaluateAllows(d, op) =>
               /\ Listed(d).report.apply = "candidate_gated"
               /\ LabTransport(d, FALSE) # None
    /\ BackupRuns(d) <=> Listed(d).backupSupported
    /\ BackupRuns(d) <=> CertificationAllows(d, "read_backup")
    /\ BackupRuns(d) <=> EvaluateAllows(d, "read_backup")

\* The gates say the same of every decision that the matrix makes.
LEMMA GatesOf ==
  ASSUME NEW family \in DeviceFamilies, NEW driver, NEW d, d = Decision(family, driver)
  PROVE  GatesAreOne(d)
  <1>1. /\ d.family = family /\ d.transport = Profiles[family].transport
        /\ d.fallback = Profiles[family].fallback
    BY DEF Decision
  <1>2. family \in Candidates \cup Readable \cup Silent
    BY FamiliesAre DEF Candidates, Readable, Silent
  <1>3. "read_backup" \in CandidateOperations /\ "read_backup" \notin ConfigOperations
        /\ ConfigOperations \subseteq CandidateOperations
    BY DEF CandidateOperations, ConfigOperations
  <1>4. "netmiko" # None /\ "paramiko" # None
    BY DriverDecisionAssumption
  <1>5. CASE family \in Candidates
    <2>1. d.transport = "netmiko"
      BY <1>1, <1>5, ProfilesAre
    <2>2. ReadsConfig(d) /\ IsCandidate(d) /\ ~NoCommandLine(d) /\ \A b : LabTransport(d, b) = "netmiko"
      BY <1>1, <1>5, <2>1, ContractsAre DEF ReadsConfig, IsCandidate, NoCommandLine, LabTransport
    <2>3. d.family \notin {"unknown", "icmp", "generic_ssh", "limited_web", "non_switch",
                           "eltex", "bulat", "qtech"}
      BY <1>1, <1>5 DEF Candidates
    <2>4. /\ \A op \in CandidateOperations : Supports(d, op)
          /\ \A op \in CandidateOperations :
                Renders(d.family, op) <=> op = "read_backup"
                                          \/ op \in Contracts[d.family].templates
      BY <1>1, <1>5, ContractsAre DEF Supports, Renders
    <2>5. BackupRuns(d) /\ CertificationAllows(d, "read_backup") /\ EvaluateAllows(d, "read_backup")
      BY <1>3, <1>4, <2>2, <2>3, <2>4
         DEF BackupRuns, CertificationAllows, EvaluateAllows, RuntimeGate, ContractGate
    <2>6. Listed(d).report.apply = "candidate_gated" /\ Listed(d).backupSupported
      BY <2>2, <2>3 DEF Listed, RuntimeReport, ApplyStatus, BackupStatus
    <2>7. \A op \in ConfigOperations :
            /\ EvaluateAllows(d, op) <=> op \in Contracts[d.family].templates
            /\ CertificationAllows(d, op) <=> op \in Contracts[d.family].templates
            /\ RecheckAllows(d, op)
            /\ KernelAllows(d, op, TRUE) <=> op \in Contracts[d.family].templates
            /\ Renders(d.family, op) <=> op \in Contracts[d.family].templates
      BY <1>3, <2>2, <2>3, <2>4
         DEF CertificationAllows, EvaluateAllows, RuntimeGate, ContractGate, RecheckAllows,
             KernelAllows
    <2>8. LabTransport(d, FALSE) # None
      BY <1>4, <2>2
    <2>9. QED BY <2>5, <2>6, <2>7, <2>8 DEF GatesAreOne
  <1>6. ASSUME family \in Readable \cup Silent, NEW op \in ConfigOperations
        PROVE  /\ ~EvaluateAllows(d, op) /\ ~CertificationAllows(d, op) /\ ~RecheckAllows(d, op)
               /\ ~KernelAllows(d, op, TRUE)
    <2>1. ~IsCandidate(d) /\ ~Supports(d, op) /\ ~Renders(d.family, op) /\ op # "read_backup"
      BY <1>1, <1>3, <1>6, ContractsAre DEF IsCandidate, Supports, Renders
    <2>2. QED BY <1>6, <2>1 DEF EvaluateAllows, CertificationAllows, RecheckAllows, KernelAllows
  <1>7. CASE family \in Readable
    <2>1. \/ d.transport \in {"netmiko", "paramiko"}
          \/ d.transport = "custom_cli" /\ d.fallback = "paramiko"
      <3>1. CASE family \in {"qtech", "eltex", "bulat"}
        BY <1>1, <3>1, ProfilesAre
      <3>2. CASE family = "cisco_asa"
        <4>1. Profiles["cisco_asa"].transport = "netmiko"
          BY ProfilesAre
        <4>2. QED BY <1>1, <3>2, <4>1
      <3>3. CASE family = "generic_ssh"
        <4>1. Profiles["generic_ssh"].transport = "paramiko"
          BY ProfilesAre
        <4>2. QED BY <1>1, <3>3, <4>1
      <3>4. QED BY <1>7, <3>1, <3>2, <3>3 DEF Readable
    <2>2. LabTransport(d, TRUE) \in {"netmiko", "paramiko"} /\ ~NoCommandLine(d)
      BY <2>1 DEF LabTransport, NoCommandLine
    <2>3. ReadsConfig(d) /\ Renders(d.family, "read_backup") /\ d.family # "unknown"
      BY <1>1, <1>7, ContractsAre DEF ReadsConfig, Renders, Readable
    <2>4. BackupRuns(d) /\ CertificationAllows(d, "read_backup") /\ EvaluateAllows(d, "read_backup")
      BY <1>3, <1>4, <2>2, <2>3
         DEF BackupRuns, CertificationAllows, EvaluateAllows, RuntimeGate, ContractGate
    <2>5. Listed(d).backupSupported
      BY <2>2, <2>3 DEF Listed, RuntimeReport, BackupStatus
    <2>6. QED BY <1>6, <1>7, <2>4, <2>5 DEF GatesAreOne
  <1>8. CASE family \in Silent
    <2>1. NoCommandLine(d)
      BY <1>1, <1>8, ProfilesAre DEF Silent, NoCommandLine
    <2>2. ~BackupRuns(d) /\ ~CertificationAllows(d, "read_backup") /\ ~EvaluateAllows(d, "read_backup")
      BY <2>1 DEF BackupRuns, CertificationAllows, EvaluateAllows, RuntimeGate
    <2>3. ~Listed(d).backupSupported
      BY <2>1 DEF Listed, RuntimeReport, BackupStatus
    <2>4. QED BY <1>6, <1>8, <2>2, <2>3 DEF GatesAreOne
  <1>9. QED BY <1>2, <1>5, <1>7, <1>8

\* The parts of the lab agree on what may be done to a device, though each keeps its own
\* list of families (ExcelLabSafetyService.evaluate, _assert_certification_allowed,
\* _current_state_gate_error, ApplySafetyKernel.evaluate).
THEOREM LabGatesAgree == Spec => []GatesAgree
  <1>1. AnswerIsSolution => GatesAgree
    <2> SUFFICES ASSUME AnswerIsSolution, Solved("driver"),
                        NEW d \in {answer.stored, answer.table, answer.excel}
                 PROVE  GatesAreOne(d)
      BY DEF GatesAgree, GatesAreOne
    <2>1. answer = Decisions
      BY DEF AnswerIsSolution
    <2>2. \A device, family : /\ Match(device, family) \in DeviceFamilies
                              /\ Decide(device, family)
                                   = Decision(Match(device, family), device.driver)
      BY MatchIsFamily DEF Decide
    <2>3. \E device, family : d = Decide(device, family)
      BY <2>1 DEF Decisions
    <2>4. PICK family, driver : family \in DeviceFamilies /\ d = Decision(family, driver)
      BY <2>2, <2>3
    <2>5. QED BY <2>4, GatesOf
  <1>2. QED BY <1>1, Solutions, PTL

-----------------------------------------------------------------------------
(* Devices to log in to                                                    *)

DeviceRecords(vendors, marks, platforms, drivers, families) ==
    [vendor : vendors, model : SUBSET marks, platform : platforms, driver : drivers,
     family : families]

\* What the text alone decides is not asked of what is stored.
LEMMA TextDecides ==
  ASSUME NEW device, NEW family, FamilyByText(device) # None
  PROVE  Match(device, family) = FamilyByText(device)
  BY DEF Match

\* A text that says so decides for a family that has no session.
LEMMA TextRulesOut ==
  ASSUME NEW device, InventoryOnly(Text(device))
  PROVE  FamilyByText(device) \in Silent /\ FamilyByText(device) # None
  <1>1. FamilyByText(device) \in Silent
    BY DEF FamilyByText, InventoryOnly, Shows, Silent
  <1>2. QED BY <1>1, FamiliesAre, DriverDecisionAssumption DEF Silent

\* Such a family has no session, in the lab or for a plan.
LEMMA SilentHasNone ==
  ASSUME NEW family \in Silent, NEW driver, NEW d, d = Decision(family, driver)
  PROVE  /\ d.transport \in {"unsupported", "icmp_only"}
         /\ LabTransport(d, TRUE) = None
         /\ \A plan, preference : TransportOf(plan, d, preference) = None
  <1>1. d.transport \in {"unsupported", "icmp_only"}
    BY ProfilesAre DEF Decision, Silent
  <1>2. QED BY <1>1 DEF LabTransport, TransportOf, RuntimeSafe

LEMMA RuledOut ==
  ASSUME NEW device, NEW family, InventoryOnly(Text(device))
  PROVE  /\ Decide(device, family).family = FamilyByText(device)
         /\ LabTransport(Decide(device, family), TRUE) = None
         /\ \A plan, preference : TransportOf(plan, Decide(device, family), preference) = None
  <1>1. Match(device, family) = FamilyByText(device) /\ FamilyByText(device) \in Silent
    BY TextRulesOut, TextDecides
  <1>2. Decide(device, family) = Decision(FamilyByText(device), device.driver)
    BY <1>1 DEF Decide
  <1>3. Decide(device, family).family = FamilyByText(device)
    BY <1>2 DEF Decision
  <1> DEFINE f == FamilyByText(device)
             d == Decide(device, family)
  <1>4. f \in Silent /\ d = Decision(f, device.driver)
    BY <1>1, <1>2
  <1> HIDE DEF f, d
  <1>5. LabTransport(d, TRUE) = None /\ \A plan, preference : TransportOf(plan, d, preference) = None
    BY ONLY <1>4, SilentHasNone
  <1>6. QED BY <1>3, <1>5 DEF d

\* The text stays when the driver or the family of a record is put aside.
LEMMA SameText ==
  ASSUME NEW V, NEW M, NEW P, NEW D, NEW F, NEW device \in DeviceRecords(V, M, P, D, F), NEW driver
  PROVE  LET other == [device EXCEPT !.driver = driver] IN
         /\ other.vendor = device.vendor /\ other.model = device.model
         /\ other.platform = device.platform /\ other.family = device.family
         /\ other.driver = driver
         /\ Text(other) = Text(device) /\ Words(other) = Words(device)
         /\ FamilyByText(other) = FamilyByText(device)
  <1> DEFINE other == [device EXCEPT !.driver = driver]
  <1>1. /\ other.vendor = device.vendor /\ other.model = device.model
        /\ other.platform = device.platform /\ other.family = device.family
        /\ other.driver = driver
    BY DEF DeviceRecords
  <1> HIDE DEF other
  <1>2. Words(other) = Words(device) /\ Text(other) = Text(device)
    BY <1>1 DEF Words, Text
  <1>3. FamilyByText(other) = FamilyByText(device)
    BY <1>1, <1>2 DEF FamilyByText
  <1>4. QED BY <1>1, <1>2, <1>3 DEF other

\* An import leaves the text of a row, and gives it a platform.
LEMMA ImportKeepsText ==
  ASSUME NEW V, NEW M, NEW P, NEW D, NEW F, NEW device \in DeviceRecords(V, M, P, D, F),
         InventoryOnly(Text(device))
  PROVE  InventoryOnly(Text(Imported(device)))
  <1> DEFINE row == Imported(device)
  <1>1. /\ row.vendor = device.vendor /\ row.model = device.model
        /\ device.platform # None => row.platform = device.platform
    BY DEF Imported, DeviceRecords
  <1>2. None \notin {"icmp", "unknown product", "continent", "securitycode", "des1100"}
    BY DriverDecisionAssumption, FamiliesAre
  <1> HIDE DEF row
  <1>3. InventoryOnly(Text(row))
    BY <1>1, <1>2 DEF InventoryOnly, Shows, Text, Words
  <1>4. QED BY <1>3 DEF row

\* So does the Excel inventory, unless it takes the row for a QTECH device.
LEMMA ExcelKeepsText ==
  ASSUME NEW V, NEW M, NEW P, NEW D, NEW F, NEW device \in DeviceRecords(V, M, P, D, F),
         InventoryOnly(Words(device)), ExcelVendor(device) # "qtech"
  PROVE  InventoryOnly(Text(ReadFromExcel(device)))
  <1> DEFINE row == ReadFromExcel(device)
  <1>1. row.vendor = ExcelVendor(device) /\ row.model = device.model
    BY DEF ReadFromExcel, DeviceRecords
  <1>2. PICK mark \in {"icmp", "unknown product", "continent", "securitycode", "des1100"} :
          mark \in Words(device)
    BY DEF InventoryOnly, Shows
  <1>3. CASE mark \in device.model
    BY <1>1, <1>2, <1>3 DEF InventoryOnly, Shows, Text, Words
  <1>4. CASE mark \notin device.model
    <2>1. device.vendor = mark
      BY <1>2, <1>4 DEF Words
    <2>2. ExcelVendor(device) \in {mark, "securitycode"}
      BY <1>2, <2>1 DEF ExcelVendor
    <2>3. QED BY <1>1, <1>2, <2>2 DEF InventoryOnly, Shows, Text, Words
  <1>5. QED BY <1>3, <1>4

\* The decision for a plan is made once.
LEMMA TransportOnce ==
  ASSUME NEW plan, NEW preference
  PROVE  TransportForPlan(plan, preference) = TransportOf(plan, RuntimeForPlan(plan), preference)
  BY DEF TransportForPlan

\* A plan of whichever driver gets no transport for such a device.
LEMMA PlanRuledOut ==
  ASSUME NEW V, NEW M, NEW P, NEW D, NEW F, NEW device \in DeviceRecords(V, M, P, D, F),
         InventoryOnly(Text(device)), NEW driver, NEW operation, NEW preference
  PROVE  TransportForPlan(Plan(device, driver, operation), preference) = None
  <1> DEFINE plan  == Plan(device, driver, operation)
             other == [device EXCEPT !.driver = None]
  <1>1. plan.device = device
    BY DEF Plan
  <1>2. InventoryOnly(Text(other))
    BY SameText
  <1> HIDE DEF plan, other
  <1>3. \E family : RuntimeForPlan(plan) = Decide(other, family)
    BY <1>1 DEF RuntimeForPlan, other
  <1>4. TransportOf(plan, RuntimeForPlan(plan), preference) = None
    BY <1>2, <1>3, RuledOut
  <1>5. TransportForPlan(plan, preference) = None
    BY <1>4, TransportOnce
  <1>6. QED BY <1>5 DEF plan

\* The problem is a record of the device table.
LEMMA DriverProblem ==
  ASSUME AnswerIsSolution, Solved("driver")
  PROVE  /\ answer = Decisions /\ problem.device \in Records
         /\ \E V, M, P, D, F : problem.device \in DeviceRecords(V, M, P, D, F)
  <1>1. problem.device \in Records
    BY DEF AnswerIsSolution, Solved, Problems, CanaryProblems, VlanProblems, ScheduleProblems,
           BackupProblems, SessionProblems, CleanProblems, ImportProblems, DriverProblems,
           CaptureProblems, ApplyProblems, FileProblems, EvidenceProblems
  <1>2. PICK V, P, D, F : Records = [vendor : V, model : Models, platform : P, driver : D, family : F]
    BY Zenon DEF Records
  <1>3. [vendor : V, model : Models, platform : P, driver : D, family : F]
          \subseteq DeviceRecords(V, UNION Models, P, D, F)
    BY DEF DeviceRecords
  <1>4. problem.device \in DeviceRecords(V, UNION Models, P, D, F)
    BY <1>1, <1>2, <1>3
  <1>5. QED BY <1>1, <1>4 DEF AnswerIsSolution

\* A record whose text says that the device is not one to log in to gets no session,
\* whichever driver, family or platform is stored with it (_match_profile,
\* LabSshTransportFactory.create, transport_for_plan).
THEOREM InventoryOnlyIsNotReached == Spec => []InventoryOnlyHasNoSession
  <1>1. AnswerIsSolution => InventoryOnlyHasNoSession
    <2> SUFFICES ASSUME AnswerIsSolution, Solved("driver") PROVE InventoryOnlyHasNoSession
      BY DEF InventoryOnlyHasNoSession
    <2> DEFINE device == problem.device
    <2>1. PICK V, M, P, D, F : device \in DeviceRecords(V, M, P, D, F)
      BY DriverProblem
    <2>2. /\ answer.stored = Decide(device, device.family)
          /\ answer.table = Decide(Imported(device), None)
          /\ answer.excel = Decide(ReadFromExcel(device), None)
      BY DriverProblem DEF Decisions
    <2> HIDE DEF device
    <2>3. \A d, family : InventoryOnly(Text(d)) => LabTransport(Decide(d, family), TRUE) = None
      BY RuledOut
    <2>4. InventoryOnly(Words(device)) /\ ExcelVendor(device) # "qtech" =>
            LabTransport(answer.excel, TRUE) = None
      <3>1. InventoryOnly(Words(device)) /\ ExcelVendor(device) # "qtech" =>
              InventoryOnly(Text(ReadFromExcel(device)))
        BY <2>1, ExcelKeepsText
      <3>2. QED BY ONLY <2>3, <2>2, <3>1
    <2>5. ASSUME InventoryOnly(Text(device))
          PROVE  /\ LabTransport(answer.stored, TRUE) = None
                 /\ LabTransport(answer.table, TRUE) = None
      <3>1. InventoryOnly(Text(Imported(device)))
        BY <2>1, <2>5, ImportKeepsText
      <3>2. QED BY ONLY <2>3, <2>2, <2>5, <3>1
    <2>6. InventoryOnly(Text(device)) =>
            \A preference \in Preferences :
               TransportForPlan(Plan(device, answer.legacy, "backup"), preference) = None
      BY <2>1, PlanRuledOut
    <2>7. QED BY <2>4, <2>5, <2>6 DEF InventoryOnlyHasNoSession, device
  <1>2. QED BY <1>1, Solutions, PTL

-----------------------------------------------------------------------------
(* Plans and their transports                                              *)

\* A decision has what the matrix says of its family.
LEMMA DecisionIs ==
  ASSUME NEW device, NEW family, NEW d, d = Decide(device, family)
  PROVE  /\ d.family = Match(device, family) /\ d.family \in DeviceFamilies
         /\ d.transport = Profiles[d.family].transport
         /\ d.fallback = Profiles[d.family].fallback
         /\ d.reads = Profiles[d.family].reads
  BY MatchIsFamily DEF Decide, Decision

\* A plan that needs no right to configure only reads.
LEMMA SafeOnlyReads ==
  ASSUME NEW device, NEW driver \in DOMAIN Drivers, NEW operation \in LegacyOperations,
         ~RequiresApply(Plan(device, driver, operation), operation)
  PROVE  \A i \in DOMAIN Plan(device, driver, operation).steps :
            Plan(device, driver, operation).steps[i].readOnly
  <1> DEFINE n     == Drivers[driver][operation]
             plan  == Plan(device, driver, operation)
             check == IF operation \in {"acl", "vlan", "port"} THEN <<Step("verify", TRUE)>>
                      ELSE <<>>
  <1>1. n \in Nat
    BY DriversCount
  <1>2. CASE n = 0 \/ operation = "backup"
    <2>1. plan.steps = Steps(n, "exec", TRUE)
      BY <1>2 DEF Plan
    <2>2. \A i \in 1 .. n : Steps(n, "exec", TRUE)[i].readOnly
      BY DEF Steps, Step
    <2>3. DOMAIN Steps(n, "exec", TRUE) = 1 .. n
      BY DEF Steps
    <2>4. QED BY <2>1, <2>2, <2>3
  <1>3. CASE ~(n = 0 \/ operation = "backup")
    <2> DEFINE first == Steps(n, "config", FALSE)
               save  == <<Step("save", FALSE)>>
    <2>1. first \in Seq(PlanSteps) /\ save \in Seq(PlanSteps) /\ check \in Seq(PlanSteps)
      <3>1. /\ Step("config", FALSE) \in PlanSteps /\ Step("save", FALSE) \in PlanSteps
            /\ Step("verify", TRUE) \in PlanSteps
        BY DEF Step, PlanSteps
      <3>2. first \in [1 .. n -> PlanSteps]
        BY <3>1 DEF Steps
      <3>3. first \in Seq(PlanSteps)
        BY <1>1, <3>2, FunctionIsSeq
      <3>4. \A s : s \in PlanSteps => <<s>> \in Seq(PlanSteps)
        OBVIOUS
      <3>5. save \in Seq(PlanSteps) /\ <<Step("verify", TRUE)>> \in Seq(PlanSteps)
        BY ONLY <3>1, <3>4, Zenon
      <3>6. <<>> \in Seq(PlanSteps)
        OBVIOUS
      <3>7. check \in Seq(PlanSteps)
        BY ONLY <3>5, <3>6, Zenon DEF check
      <3>8. QED BY <3>3, <3>5, <3>7
    <2>2. plan.steps = first \o save \o check
      BY <1>3 DEF Plan
    <2>3. Len(first) >= 1 /\ first[1].phase = "config"
      BY <1>1, <1>3 DEF Steps, Step
    <2> HIDE DEF plan, first, save, check
    <2>4. 1 \in DOMAIN plan.steps /\ plan.steps[1].phase = "config"
      <3>1. \A a, b, c \in Seq(PlanSteps) :
              Len(a) >= 1 => 1 \in DOMAIN (a \o b \o c) /\ (a \o b \o c)[1] = a[1]
        OBVIOUS
      <3>2. QED BY ONLY <2>1, <2>2, <2>3, <3>1
    <2>5. RequiresApply(plan, operation)
      BY <2>4 DEF RequiresApply
    <2>6. QED BY <2>5 DEF plan
  <1>4. QED BY <1>2, <1>3

\* A transport is the one that the label tells, and the plan is safe with it.
LEMMA MadeIsLabelled ==
  ASSUME NEW plan, NEW preference \in Preferences, TransportForPlan(plan, preference) # None
  PROVE  /\ TransportForPlan(plan, preference) = TransportLabel(plan, preference)
         /\ RuntimeSafe(plan, RuntimeForPlan(plan), plan.operation)
  <1> DEFINE d == RuntimeForPlan(plan)
  <1>1. TransportOf(plan, d, preference) # None
    BY TransportOnce
  <1>2. RuntimeSafe(plan, d, plan.operation)
    BY <1>1 DEF TransportOf
  <1>3. d.transport \notin {"unsupported", "icmp_only"}
    BY <1>2 DEF RuntimeSafe
  <1>4. TransportOf(plan, d, preference) = TransportLabel(plan, preference)
    BY <1>1, <1>3 DEF TransportOf, TransportLabel, Preferences
  <1>5. QED BY <1>2, <1>4, TransportOnce

\* The family of a device's own decision: what the text decides, if it does.
LEMMA OwnFamily ==
  ASSUME NEW V, NEW M, NEW P, NEW D, NEW F, NEW device \in DeviceRecords(V, M, P, D, F),
         NEW own, own = RuntimeForDevice(device)
  PROVE  /\ own.family \in DeviceFamilies /\ own.transport = Profiles[own.family].transport
         /\ FamilyByText(device) # None => own.family = FamilyByText(device)
  <1> DEFINE bare == [device EXCEPT !.driver = None]
  <1>1. own = Decide(bare, None) \/ own = Decide(device, device.family)
    BY DEF RuntimeForDevice
  <1>2. FamilyByText(bare) = FamilyByText(device)
    BY SameText
  <1> HIDE DEF bare
  <1>3. CASE own = Decide(bare, None)
    <2>1. FamilyByText(bare) # None => Match(bare, None) = FamilyByText(bare)
      BY TextDecides
    <2>2. QED BY <1>2, <1>3, <2>1, DecisionIs
  <1>4. CASE own = Decide(device, device.family)
    <2>1. FamilyByText(device) # None => Match(device, device.family) = FamilyByText(device)
      BY TextDecides
    <2>2. QED BY <1>4, <2>1, DecisionIs
  <1>5. QED BY <1>1, <1>3, <1>4

\* The family of a plan's decision: what the text decides, or the driver's family.
LEMMA PlanFamily ==
  ASSUME NEW V, NEW M, NEW P, NEW D, NEW F, NEW device \in DeviceRecords(V, M, P, D, F),
         NEW plan, plan.device = device, NEW d, d = RuntimeForPlan(plan),
         NEW family \in DeviceFamilies,
         \/ plan.driver \in DOMAIN PlanFamilies /\ family = PlanFamilies[plan.driver]
         \/ plan.driver = "qtech_qsw" /\ plan.readOnly /\ family = "qtech"
  PROVE  /\ d.family = IF FamilyByText(device) # None THEN FamilyByText(device) ELSE family
         /\ d.family \in DeviceFamilies
         /\ d.transport = Profiles[d.family].transport /\ d.fallback = Profiles[d.family].fallback
         /\ d.reads = Profiles[d.family].reads
  <1> DEFINE bare == [device EXCEPT !.driver = None]
  <1>1. FamilyByText(bare) = FamilyByText(device)
    BY SameText
  <1>2. "qtech_qsw" \notin DOMAIN PlanFamilies
    BY DEF PlanFamilies
  <1>3. d = Decide(bare, family)
    BY <1>2 DEF RuntimeForPlan
  <1>4. Match(bare, family) = IF FamilyByText(bare) # None THEN FamilyByText(bare) ELSE family
    <2>1. FamilyStored(bare, family) = family
      BY DEF FamilyStored
    <2>2. family # None
      BY DriverDecisionAssumption
    <2> HIDE DEF bare
    <2>3. QED BY <2>1, <2>2 DEF Match
  <1> HIDE DEF bare
  <1>5. QED BY <1>1, <1>3, <1>4, DecisionIs

\* A device that the matrix rules out gets no transport, but as a QTECH device.
LEMMA UnsupportedHasNone ==
  ASSUME NEW V, NEW M, NEW P, NEW D, NEW F, NEW device \in DeviceRecords(V, M, P, D, F),
         NEW operation, NEW preference,
         RuntimeForDevice(device).transport = "unsupported", DriverFor(device) # "qtech_qsw"
  PROVE  TransportForPlan(Plan(device, DriverFor(device), operation), preference) = None
  <1> DEFINE plan == Plan(device, DriverFor(device), operation)
             own  == RuntimeForDevice(device)
             d    == RuntimeForPlan(plan)
  <1>1. /\ own.family \in DeviceFamilies /\ own.transport = Profiles[own.family].transport
        /\ FamilyByText(device) # None => own.family = FamilyByText(device)
    BY OwnFamily
  <1>2. own.family \in {"limited_web", "non_switch", "unknown"}
    <2>1. CASE own.family \in Candidates \cup {"cisco_asa"}
      BY <1>1, <2>1, ProfilesAre
    <2>2. CASE own.family \in {"qtech", "eltex", "bulat"}
      BY <1>1, <2>2, ProfilesAre
    <2>3. CASE own.family \in {"generic_ssh", "icmp"}
      BY <1>1, <2>3, ProfilesAre
    <2>4. QED BY <1>1, <2>1, <2>2, <2>3, FamiliesAre DEF Candidates
  <1>3. DriverFor(device) = "unsupported_cli"
    BY <1>2 DEF DriverFor
  <1>4. plan.device = device /\ plan.driver = "unsupported_cli"
    BY <1>3 DEF Plan
  <1>5. /\ "unsupported_cli" \in DOMAIN PlanFamilies /\ PlanFamilies["unsupported_cli"] = "unknown"
        /\ "unknown" \in DeviceFamilies
    BY FamiliesAre DEF PlanFamilies
  <1> HIDE DEF plan, own, d
  <1>6. /\ d.family = IF FamilyByText(device) # None THEN FamilyByText(device) ELSE "unknown"
        /\ d.transport = Profiles[d.family].transport
    BY <1>4, <1>5, PlanFamily DEF d
  <1>7. d.family \in {"limited_web", "non_switch", "unknown"}
    BY <1>1, <1>2, <1>6
  <1>8. d.transport = "unsupported"
    BY <1>6, <1>7, ProfilesAre
  <1>9. TransportOf(plan, d, preference) = None
    BY <1>8 DEF TransportOf, RuntimeSafe
  <1>10. QED BY <1>9, TransportOnce DEF plan, d

\* A device that is counted as backed up has a transport, unless the matrix rules it out.
LEMMA BackedUpHasOne ==
  ASSUME NEW V, NEW M, NEW P, NEW D, NEW F, NEW device \in DeviceRecords(V, M, P, D, F),
         Report(device).backup, ~NoCommandLine(RuntimeForDevice(device))
  PROVE  TransportForPlan(Plan(device, DriverFor(device), "backup"), "auto") # None
  <1> DEFINE driver == DriverFor(device)
             plan   == Plan(device, driver, "backup")
             own    == RuntimeForDevice(device)
             d      == RuntimeForPlan(plan)
             byText == FamilyByText(device)
  <1>1. driver \in DOMAIN Drivers
    BY DriverIsKnown
  <1>2. plan.steps # <<>>
    BY <1>1 DEF Report
  <1>3. /\ plan.device = device /\ plan.driver = driver /\ plan.readOnly
        /\ plan.operation = "backup" /\ plan.type = PlanType(driver)
        /\ plan.steps = Steps(Drivers[driver]["backup"], "exec", TRUE)
    BY DEF Plan
  <1>4. driver # "unsupported_cli"
    <2>1. Drivers["unsupported_cli"]["backup"] = 0
      BY DEF Drivers, UnsupportedDriver, LegacyOperations
    <2>2. Steps(0, "exec", TRUE) = <<>>
      BY DEF Steps
    <2> HIDE DEF plan, driver
    <2>3. QED BY <1>2, <1>3, <2>1, <2>2
  <1>5. /\ own.family \in DeviceFamilies /\ own.transport = Profiles[own.family].transport
        /\ byText # None => own.family = byText
    BY OwnFamily
  <1>6. own.family \notin Silent
    <2>1. own.transport \notin {"unsupported", "icmp_only"}
      BY DEF NoCommandLine
    <2> HIDE DEF own
    <2>2. QED BY <1>5, <2>1, ProfilesAre DEF Silent
  <1>7. byText \in {None, "generic_ssh"} \cup Silent
    BY DEF FamilyByText, Silent
  <1>8. byText \in {None, "generic_ssh"}
    BY <1>5, <1>6, <1>7
  <1>9. own.family = "generic_ssh" => driver = "qtech_qsw"
    BY <1>4 DEF DriverFor
  <1>10. ~RequiresApply(plan, "backup")
    <2> HIDE DEF plan, driver
    <2>1. \A i \in DOMAIN plan.steps : plan.steps[i].phase = "exec"
      <3>1. \A n : \A i \in DOMAIN Steps(n, "exec", TRUE) : Steps(n, "exec", TRUE)[i].phase = "exec"
        BY DEF Steps, Step
      <3>2. PICK n : plan.steps = Steps(n, "exec", TRUE)
        BY ONLY <1>3
      <3>3. QED BY ONLY <3>1, <3>2
    <2>2. QED BY <2>1 DEF RequiresApply
  <1> HIDE DEF driver, plan, own, d, byText
  <1>11. ASSUME d.reads, d.transport \in {"netmiko", "paramiko", "custom_cli"}
         PROVE  RuntimeSafe(plan, d, plan.operation)
    BY <1>3, <1>10, <1>11 DEF RuntimeSafe
  <1>12. "netmiko" # None /\ "paramiko" # None /\ "generic_ssh" # None
    BY DriverDecisionAssumption, FamiliesAre
  <1>13. driver \in {"qtech_qsw", "huawei_vrp", "cisco_ios", "comware_legacy", "comware7",
                     "comware_smb", "hpe_procurve", "bulat_bs", "eltex_mes", "dell_powerconnect"}
    BY <1>1, <1>4 DEF Drivers
  <1>14. CASE driver = "qtech_qsw"
    <2>1. d.family = (IF byText # None THEN byText ELSE "qtech")
          /\ d.transport = Profiles[d.family].transport /\ d.fallback = Profiles[d.family].fallback
          /\ d.reads = Profiles[d.family].reads
      <3>1. "qtech" \in DeviceFamilies
        BY FamiliesAre
      <3>2. QED BY <1>3, <1>14, <3>1, PlanFamily DEF d, byText
    <2>2. d.family \in {"generic_ssh", "qtech"}
      BY <1>8, <2>1
    <2>3. CASE d.family = "generic_ssh"
      <3>1. d.transport = "paramiko" /\ d.reads
        BY <2>1, <2>3, ProfilesAre
      <3>2. TransportOf(plan, d, "auto") = "paramiko"
        BY <1>11, <3>1 DEF TransportOf
      <3>3. QED BY <1>12, <3>2, TransportOnce DEF plan, d, driver
    <2>4. CASE d.family = "qtech"
      <3>1. d.transport = "custom_cli" /\ d.fallback = "paramiko" /\ d.reads
        BY <2>1, <2>4, ProfilesAre
      <3>2. TransportOf(plan, d, "auto") = "paramiko"
        BY <1>11, <3>1 DEF TransportOf
      <3>3. QED BY <1>12, <3>2, TransportOnce DEF plan, d, driver
    <2>5. QED BY <2>2, <2>3, <2>4
  <1>15. CASE driver # "qtech_qsw"
    <2>1. byText = None
      BY <1>5, <1>8, <1>9, <1>12, <1>15
    <2>2. driver \in DOMAIN PlanFamilies /\ PlanFamilies[driver] \in DeviceFamilies
      BY <1>13, <1>15, FamiliesAre DEF PlanFamilies
    <2>3. d.family = PlanFamilies[driver]
          /\ d.transport = Profiles[d.family].transport /\ d.fallback = Profiles[d.family].fallback
          /\ d.reads = Profiles[d.family].reads
      BY <1>3, <2>1, <2>2, PlanFamily DEF d, byText
    <2>4. CASE driver \in {"bulat_bs", "eltex_mes"}
      <3>1. d.family \in {"bulat", "eltex"}
        BY <2>3, <2>4 DEF PlanFamilies
      <3>2. d.transport = "custom_cli" /\ d.fallback = "paramiko" /\ d.reads
        BY <2>3, <3>1, ProfilesAre
      <3>3. TransportOf(plan, d, "auto") = "paramiko"
        BY <1>11, <3>2 DEF TransportOf
      <3>4. QED BY <1>12, <3>3, TransportOnce DEF plan, d, driver
    <2>5. CASE driver \notin {"bulat_bs", "eltex_mes"}
      <3>1. d.family \in Candidates
        BY <1>13, <1>15, <2>3, <2>5 DEF PlanFamilies, Candidates
      <3>2. d.transport = "netmiko" /\ d.reads
        BY <2>3, <3>1, ProfilesAre
      <3>3. plan.type # None
        <4>1. driver \in DOMAIN PlanTypes
          BY <1>13, <1>15, <2>5 DEF PlanTypes
        <4>2. QED BY <1>3, <4>1, LegacyPlansAssumption DEF PlanType
      <3>4. TransportOf(plan, d, "auto") = "netmiko"
        BY <1>11, <3>2, <3>3 DEF TransportOf
      <3>5. QED BY <1>12, <3>4, TransportOnce DEF plan, d, driver
    <2>6. QED BY <2>4, <2>5
  <1>16. QED BY <1>14, <1>15

\* A transport is made only for a plan whose every step reads, for a device that the
\* matrix has something to say of, and of the kind that the label tells; and there is one
\* for every device that the inventory command counts as backed up, unless the matrix
\* rules it out (assert_plan_runtime_safe, transport_for_plan, selected_transport_label,
\* _inventory).
THEOREM LegacyOnlyReads == Spec => []LegacySessionOnlyReads
  <1>1. AnswerIsSolution => LegacySessionOnlyReads
    <2> SUFFICES ASSUME AnswerIsSolution, Solved("driver"), NEW operation \in LegacyOperations,
                        NEW preference \in Preferences
                 PROVE  LET plan == Plan(problem.device, answer.legacy, operation)
                            made == TransportForPlan(plan, preference)
                        IN
                        /\ made # None =>
                             /\ \A i \in DOMAIN plan.steps : plan.steps[i].readOnly
                             /\ made = TransportLabel(plan, preference)
                             /\ RuntimeForDevice(problem.device).transport # "unsupported"
                                \/ answer.legacy = "qtech_qsw"
                        /\ (/\ operation = "backup" /\ preference = "auto"
                            /\ Report(problem.device).backup
                            /\ ~NoCommandLine(RuntimeForDevice(problem.device))) => made # None
      BY DEF LegacySessionOnlyReads
    <2> DEFINE device == problem.device
               driver == answer.legacy
               plan   == Plan(device, driver, operation)
               made   == TransportForPlan(plan, preference)
    <2>1. PICK V, M, P, D, F : device \in DeviceRecords(V, M, P, D, F)
      BY DriverProblem
    <2>2. driver = DriverFor(device)
      BY DriverProblem DEF Decisions
    <2>3. driver \in DOMAIN Drivers /\ plan.operation = operation
      BY <2>2, DriverIsKnown DEF Plan
    <2> HIDE DEF device, driver
    <2>4. made # None => \A i \in DOMAIN plan.steps : plan.steps[i].readOnly
      <3>1. made # None => ~RequiresApply(plan, operation)
        BY <2>3, MadeIsLabelled DEF RuntimeSafe
      <3>2. QED BY <2>3, <3>1, SafeOnlyReads
    <2>5. made # None => made = TransportLabel(plan, preference)
      BY MadeIsLabelled
    <2>6. made # None => RuntimeForDevice(device).transport # "unsupported" \/ driver = "qtech_qsw"
      BY <2>1, <2>2, UnsupportedHasNone
    <2>7. /\ operation = "backup" /\ preference = "auto" /\ Report(device).backup
          /\ ~NoCommandLine(RuntimeForDevice(device))
          => made # None
      BY <2>1, <2>2, BackedUpHasOne
    <2>8. QED BY <2>4, <2>5, <2>6, <2>7 DEF device, driver
  <1>2. QED BY <1>1, Solutions, PTL

-----------------------------------------------------------------------------
(* Evidence and reports                                                    *)

Reasons == {"unreachable", "credential", "missing", "stale", "no validation", "not verified"}

\* The level of a set of reasons is that of the worst of them.
LEMMA LevelIs ==
  ASSUME NEW reasons \in SUBSET Reasons
  PROVE  Level(reasons) = IF "unreachable" \in reasons THEN 3
                          ELSE IF reasons \cap {"credential", "missing", "stale"} # {} THEN 2
                          ELSE IF reasons # {} THEN 1 ELSE 0
  <1> DEFINE worst == {Severity(r) : r \in reasons} \cup {0}
             top   == IF "unreachable" \in reasons THEN 3
                      ELSE IF reasons \cap {"credential", "missing", "stale"} # {} THEN 2
                      ELSE IF reasons # {} THEN 1 ELSE 0
  <1>1. \A r \in Reasons :
           Severity(r) = IF r = "unreachable" THEN 3
                         ELSE IF r \in {"credential", "missing", "stale"} THEN 2 ELSE 1
    BY DEF Severity, Reasons
  <1>2. top \in worst
    <2>1. CASE "unreachable" \in reasons
      BY <1>1, <2>1
    <2>2. CASE "unreachable" \notin reasons /\ reasons \cap {"credential", "missing", "stale"} # {}
      <3>1. PICK r \in reasons : r \in {"credential", "missing", "stale"}
        BY <2>2
      <3>2. Severity(r) = 2
        BY <1>1, <3>1
      <3>3. QED BY <2>2, <3>2
    <2>3. CASE "unreachable" \notin reasons /\ reasons \cap {"credential", "missing", "stale"} = {}
               /\ reasons # {}
      <3>1. PICK r \in reasons : TRUE
        BY <2>3
      <3>2. Severity(r) = 1
        BY <1>1, <2>3
      <3>3. QED BY <2>3, <3>2
    <2>4. CASE reasons = {}
      BY <2>4
    <2>5. QED BY <2>1, <2>2, <2>3, <2>4
  <1>3. \A m \in worst : m <= top
    <2>1. \A r \in reasons : Severity(r) <= top
      BY <1>1
    <2>2. 0 <= top
      OBVIOUS
    <2>3. QED BY <2>1, <2>2
  <1>4. worst \subseteq 0 .. 3
    BY <1>1
  <1> HIDE DEF worst, top
  <1>5. \A n \in worst : (\A m \in worst : m <= n) => n = top
    <2> TAKE n \in worst
    <2> HAVE \A m \in worst : m <= n
    <2>1. top <= n /\ n <= top
      BY <1>2, <1>3
    <2>2. QED BY <1>2, <1>4, <2>1
  <1>6. (CHOOSE n \in worst : \A m \in worst : m <= n) = top
    BY <1>2, <1>3, <1>5
  <1>7. QED BY <1>6 DEF Level, worst, top

\* The reports read a device's rows alike.
Alike(device, snapshots, validations, now) ==
    LET health == HealthRow(device, snapshots, validations, now)
        record == Readiness(device, snapshots, validations, now)
        failed == FailedChecks(device, snapshots, validations, now)
    IN
    /\ HasFreshBackup(device, snapshots, now) <=> record.backup = "recent"
    /\ record.lab = IF LabOf(device, validations, now) = {} THEN "missing" ELSE "approved"
    /\ health.reasons = record.reasons \ {"not verified"}
    /\ "unreachable" \in health.reasons <=> IsUnreachable(device)
    /\ "credential" \in health.reasons <=> CredentialIsInvalid(device.credential)
    /\ health.risk = RiskOf(health.reasons)
    /\ record.risk = RiskOf(record.reasons)
    /\ failed = {} <=> record.status = "ready"

\* Readiness record, console row and failed checks, of any device with any evidence.
LEMMA ReportsAgree ==
  ASSUME NEW device, NEW snapshots, NEW validations, NEW now
  PROVE  Alike(device, snapshots, validations, now)
  <1> DEFINE health   == HealthRow(device, snapshots, validations, now)
             record   == Readiness(device, snapshots, validations, now)
             failed   == FailedChecks(device, snapshots, validations, now)
             backup   == LatestBackup(device, snapshots, now)
             labs     == LabOf(device, validations, now)
             refused  == CredentialIsInvalid(device.credential)
             valid    == CredentialIsValid(device.credential)
             gone     == IsUnreachable(device)
             blockers == (IF backup = "recent" THEN {} ELSE {backup})
                           \cup (IF labs = {} THEN {"no validation"} ELSE {})
                           \cup (IF refused THEN {"credential"} ELSE {})
                           \cup (IF gone THEN {"unreachable"} ELSE {})
             doubtful == blockers = {} /\ ~valid
  <1>1. backup \in {"missing", "stale", "recent"}
    BY DEF LatestBackup
  <1>2. HasFreshBackup(device, snapshots, now) <=> backup = "recent"
    BY DEF HasFreshBackup, LatestBackup
  <1>3. /\ health.reasons = blockers
        /\ health.risk = IF gone THEN "critical"
                         ELSE IF refused \/ backup # "recent" THEN "high"
                         ELSE IF labs = {} THEN "medium" ELSE "low"
    BY DEF HealthRow, BackupReasons, LabReasons
  <1>4. /\ record.backup = backup
        /\ record.lab = IF labs = {} THEN "missing" ELSE "approved"
        /\ record.status = IF doubtful THEN "warning" ELSE IF blockers = {} THEN "ready" ELSE "blocked"
        /\ record.reasons = IF doubtful THEN {"not verified"} ELSE blockers
        /\ record.risk = IF doubtful THEN "medium" ELSE IF gone THEN "critical"
                         ELSE IF refused \/ backup # "recent" THEN "high"
                         ELSE IF labs = {} THEN "medium" ELSE "low"
    BY DEF Readiness, BackupReasons, LabReasons
  <1>5. failed = (IF valid THEN {} ELSE {"credentials"})
                   \cup (IF backup = "recent" THEN {} ELSE {"backup"})
                   \cup (IF labs = {} THEN {"validation"} ELSE {})
                   \cup (IF record.status # "blocked" THEN {} ELSE {"workflows"})
    BY <1>4 DEF FailedChecks
  <1> HIDE DEF health, record, failed, backup, labs, refused, valid, gone
  <1>6. /\ blockers \subseteq Reasons \ {"not verified"}
        /\ "unreachable" \in blockers <=> gone
        /\ "credential" \in blockers <=> refused
        /\ blockers \cap {"credential", "missing", "stale"} # {} <=> refused \/ backup # "recent"
        /\ blockers # {} <=> gone \/ refused \/ backup # "recent" \/ labs = {}
    BY <1>1 DEF Reasons
  <1> HIDE DEF blockers
  <1>7. RiskOf(blockers)
          = IF gone THEN "critical" ELSE IF refused \/ backup # "recent" THEN "high"
            ELSE IF labs = {} THEN "medium" ELSE "low"
    <2>1. Level(blockers) = IF gone THEN 3 ELSE IF refused \/ backup # "recent" THEN 2
                            ELSE IF labs = {} THEN 1 ELSE 0
      BY <1>6, LevelIs
    <2>2. \A n \in 0 .. 3 : Level(blockers) = n => RiskOf(blockers) = Risks[n + 1]
      BY DEF RiskOf
    <2>3. Risks[0 + 1] = "low" /\ Risks[1 + 1] = "medium" /\ Risks[2 + 1] = "high"
          /\ Risks[3 + 1] = "critical"
      BY DEF Risks
    <2>4. QED BY <2>1, <2>2, <2>3
  <1>8. RiskOf({"not verified"}) = "medium"
    <2> DEFINE only == {"not verified"}
    <2>1. only \in SUBSET Reasons
      BY DEF Reasons
    <2>2. /\ only # {} /\ "unreachable" \notin only
          /\ only \cap {"credential", "missing", "stale"} = {}
      OBVIOUS
    <2> HIDE DEF only
    <2>3. Level(only) = 1
      BY <2>1, <2>2, LevelIs
    <2>4. RiskOf(only) = "medium"
      BY <2>3 DEF RiskOf, Risks
    <2>5. QED BY <2>4 DEF only
  <1>9. failed = {} <=> record.status = "ready"
    BY <1>4, <1>5, <1>6
  <1>10. health.reasons = record.reasons \ {"not verified"}
    BY <1>3, <1>4, <1>6
  <1>11. QED
    BY <1>2, <1>3, <1>4, <1>6, <1>7, <1>8, <1>9, <1>10
    DEF Alike, health, record, failed, backup, labs, refused, gone

\* The services that decide, for any device with any validations.
LEMMA ServicesAgree ==
  ASSUME NEW device, NEW validations, NEW now,
         NEW change, change.type = "vlan_change", change.source = "vlan_workflow",
         change.operation = "create_vlan",
         NEW apply, apply = RealApply(device, "create_vlan", validations, now)
  PROVE  LET accepted == VlanValidated(device, "create_vlan", validations, now) IN
         /\ accepted <=> ChangeValidated(change, device, validations, now)
         /\ apply # "unexplained"
         /\ apply = "allowed" => accepted
         /\ accepted => LabOf(device, validations, now) # {}
  <1> DEFINE found(c) == FindApproved(validations, device, c, now)
             accepted == VlanValidated(device, "create_vlan", validations, now)
  <1>1. accepted <=> \E c \in {"create_vlan", "vlan_management", "vlan_change"} : found(c) # {}
    BY DEF VlanValidated
  <1>2. RequiredCapabilities(change) = {"create_vlan", "vlan_management", "vlan_change"}
    BY DEF RequiredCapabilities
  <1>3. accepted <=> ChangeValidated(change, device, validations, now)
    BY <1>1, <1>2 DEF ChangeValidated
  <1>4. accepted => LabOf(device, validations, now) # {}
    BY <1>1 DEF FindApproved, LabOf
  <1>5. apply = "allowed" => accepted
    BY <1>1 DEF RealApply
  <1>6. apply # "unexplained"
    <2> SUFFICES ASSUME found("create_vlan") = {} PROVE apply # "unexplained"
      BY DEF RealApply
    <2> DEFINE able    == {v \in {w \in validations : /\ w.driver = device.driver
                                                      /\ w.status = "approved"
                                                      /\ Normal(w.vendor) = Normal(device.vendor)} :
                             v.capability = "create_vlan"}
               current == {v \in able : InForce(v, now)}
    <2>1. \A v \in current : ~ModelMatches(v.pattern, device.model)
      BY DEF FindApproved
    <2>2. QED BY <2>1 DEF RealApply
  <1>7. QED BY <1>3, <1>4, <1>5, <1>6

\* The size of a set of two of which some are counted.
LEMMA TallyOfTwo ==
  ASSUME NEW a, NEW b, a # b, NEW P, P \subseteq {a, b}
  PROVE  Cardinality(P) = (IF a \in P THEN 1 ELSE 0) + (IF b \in P THEN 1 ELSE 0)
  <1>1. CASE a \in P /\ b \in P
    <2>1. P = {a} \cup {b} /\ b \notin {a}
      BY <1>1
    <2>2. IsFiniteSet({a}) /\ Cardinality({a}) = 1
      BY FS_Singleton
    <2>3. Cardinality({a} \cup {b}) = 2
      BY <2>1, <2>2, FS_AddElement
    <2>4. QED BY <1>1, <2>1, <2>3
  <1>2. CASE a \in P /\ b \notin P
    <2>1. P = {a}
      BY <1>2
    <2>2. Cardinality({a}) = 1
      BY FS_Singleton
    <2>3. QED BY <1>2, <2>1, <2>2
  <1>3. CASE a \notin P /\ b \in P
    <2>1. P = {b}
      BY <1>3
    <2>2. Cardinality({b}) = 1
      BY FS_Singleton
    <2>3. QED BY <1>3, <2>1, <2>2
  <1>4. CASE a \notin P /\ b \notin P
    <2>1. P = {}
      BY <1>4
    <2>2. QED BY <1>4, <2>1, FS_EmptySet
  <1>5. QED BY <1>1, <1>2, <1>3, <1>4

\* What a VLAN request was validated with stands for the change execution made of it;
\* a refusal names what is missing; and console, readiness record, counters and checks
\* tell the same of one device (find_approved, _device_health_row,
\* _device_readiness_record, get_device_health_summary).
THEOREM EvidenceReadAlike == Spec => []EvidenceIsReadAlike
  <1>1. AnswerIsSolution => EvidenceIsReadAlike
    <2> SUFFICES ASSUME AnswerIsSolution, Solved("evidence") PROVE EvidenceIsReadAlike
      BY DEF EvidenceIsReadAlike
    <2> DEFINE device      == problem.device
               snapshots   == problem.snapshots
               validations == problem.validations
               fresh(d)    == HasFreshBackup(d, snapshots, Now)
               change      == [type |-> "vlan_change", source |-> "vlan_workflow",
                               operation |-> "create_vlan"]
               devices     == {device, Bare}
    <2>1. device \in Evidenced /\ snapshots \in SnapshotSets /\ validations \in ValidationSets
      BY DEF AnswerIsSolution, Solved, Problems, CanaryProblems, VlanProblems, ScheduleProblems,
             BackupProblems, SessionProblems, CleanProblems, ImportProblems, DriverProblems,
             CaptureProblems, ApplyProblems, FileProblems, EvidenceProblems
    <2>2. /\ answer.health = HealthRow(device, snapshots, validations, Now)
          /\ answer.readiness = Readiness(device, snapshots, validations, Now)
          /\ answer.summary = HealthSummary(devices, snapshots, validations, Now)
          /\ answer.failed = FailedChecks(device, snapshots, validations, Now)
          /\ answer.apply = RealApply(device, "create_vlan", validations, Now)
      BY DEF AnswerIsSolution, Reported
    <2>3. device # Bare
      <3>1. device.id = 1 /\ Bare.id = 2
        BY <2>1 DEF Evidenced, Bare
      <3>2. QED BY <3>1
    <2>4. /\ IsUnreachable(Bare) /\ ~CredentialIsInvalid(Bare.credential)
          /\ LabOf(Bare, validations, Now) = {}
      <3>1. IsUnreachable(Bare) /\ ~CredentialIsInvalid(Bare.credential)
        BY DEF Bare, IsUnreachable, CredentialIsInvalid
      <3>2. \A v \in validations : v.driver.text = "vendor"
        BY <2>1 DEF ValidationSets, Singles, ValidationRows
      <3>3. \A v \in validations : Normal(v.driver) # Normal(Bare.driver)
        BY <3>2 DEF Normal, Bare
      <3>4. QED BY <3>1, <3>3 DEF LabOf
    <2>5. /\ answer.summary.unreachable = Cardinality({d \in devices : IsUnreachable(d)})
          /\ answer.summary.invalid = Cardinality({d \in devices : CredentialIsInvalid(d.credential)})
          /\ answer.summary.withoutBackup = Cardinality({d \in devices : ~fresh(d)})
          /\ answer.summary.withoutLab
               = Cardinality({d \in devices : LabOf(d, validations, Now) = {}})
      BY <2>2 DEF HealthSummary
    <2> HIDE DEF device, snapshots, validations
    <2>6. /\ answer.summary.unreachable = (IF IsUnreachable(device) THEN 1 ELSE 0) + 1
          /\ answer.summary.invalid
               = (IF CredentialIsInvalid(device.credential) THEN 1 ELSE 0) + 0
          /\ answer.summary.withoutBackup
               = (IF ~fresh(device) THEN 1 ELSE 0) + (IF ~fresh(Bare) THEN 1 ELSE 0)
          /\ answer.summary.withoutLab
               = (IF LabOf(device, validations, Now) = {} THEN 1 ELSE 0) + 1
      <3> DEFINE gone    == {d \in devices : IsUnreachable(d)}
                 refused == {d \in devices : CredentialIsInvalid(d.credential)}
                 old     == {d \in devices : ~fresh(d)}
                 without == {d \in devices : LabOf(d, validations, Now) = {}}
      <3>1. /\ gone \subseteq devices /\ refused \subseteq devices
            /\ old \subseteq devices /\ without \subseteq devices
        OBVIOUS
      <3>2. /\ device \in gone <=> IsUnreachable(device)
            /\ device \in refused <=> CredentialIsInvalid(device.credential)
            /\ device \in old <=> ~fresh(device)
            /\ device \in without <=> LabOf(device, validations, Now) = {}
        OBVIOUS
      <3>3. Bare \in gone /\ Bare \notin refused /\ (Bare \in old <=> ~fresh(Bare)) /\ Bare \in without
        BY <2>4
      <3> HIDE DEF gone, refused, old, without
      <3>4. \A P : P \subseteq {device, Bare} =>
               Cardinality(P) = (IF device \in P THEN 1 ELSE 0) + (IF Bare \in P THEN 1 ELSE 0)
        BY <2>3, TallyOfTwo
      <3>5. /\ answer.summary.unreachable = Cardinality(gone)
            /\ answer.summary.invalid = Cardinality(refused)
            /\ answer.summary.withoutBackup = Cardinality(old)
            /\ answer.summary.withoutLab = Cardinality(without)
        BY <2>5 DEF gone, refused, old, without
      <3>6. QED BY <3>1, <3>2, <3>3, <3>4, <3>5
    <2>7. change.type = "vlan_change" /\ change.source = "vlan_workflow"
          /\ change.operation = "create_vlan"
      OBVIOUS
    <2> HIDE DEF change
    <2>8. /\ fresh(device) <=> answer.readiness.backup = "recent"
          /\ answer.readiness.lab = IF LabOf(device, validations, Now) = {} THEN "missing"
                                    ELSE "approved"
          /\ answer.health.reasons = answer.readiness.reasons \ {"not verified"}
          /\ "unreachable" \in answer.health.reasons <=> IsUnreachable(device)
          /\ "credential" \in answer.health.reasons <=> CredentialIsInvalid(device.credential)
          /\ answer.health.risk = RiskOf(answer.health.reasons)
          /\ answer.readiness.risk = RiskOf(answer.readiness.reasons)
          /\ answer.failed = {} <=> answer.readiness.status = "ready"
      <3>1. Alike(device, snapshots, validations, Now)
        BY ReportsAgree
      <3>2. QED BY <2>2, <3>1 DEF Alike
    <2>9. LET accepted == VlanValidated(device, "create_vlan", validations, Now) IN
          /\ accepted <=> ChangeValidated(change, device, validations, Now)
          /\ answer.apply # "unexplained"
          /\ answer.apply = "allowed" => accepted
          /\ accepted => LabOf(device, validations, Now) # {}
      BY <2>2, <2>7, ServicesAgree
    <2>10. VlanValidated(device, "create_vlan", validations, Now) => answer.readiness.lab = "approved"
      BY <2>8, <2>9
    <2>11. /\ answer.summary.unreachable
                = (IF "unreachable" \in answer.health.reasons THEN 1 ELSE 0) + (IF TRUE THEN 1 ELSE 0)
           /\ answer.summary.invalid
                = (IF "credential" \in answer.health.reasons THEN 1 ELSE 0) + (IF FALSE THEN 1 ELSE 0)
           /\ answer.summary.withoutBackup
                = (IF answer.readiness.backup # "recent" THEN 1 ELSE 0)
                    + (IF ~fresh(Bare) THEN 1 ELSE 0)
           /\ answer.summary.withoutLab
                = (IF answer.readiness.lab = "missing" THEN 1 ELSE 0) + (IF TRUE THEN 1 ELSE 0)
      BY <2>6, <2>8
    <2>12. QED
      BY <2>8, <2>9, <2>10, <2>11
      DEF EvidenceIsReadAlike, device, snapshots, validations, change
  <1>2. QED BY <1>1, Solutions, PTL

-----------------------------------------------------------------------------
(* Plan files                                                              *)

\* The numbers of some steps are a sequence.
LEMMA PhaseIsSeq ==
  ASSUME NEW T, NEW steps \in Seq(T), NEW phases
  PROVE  OfPhase(steps, phases) \in Seq(Nat)
  <1> DEFINE N       == Len(steps)
             S       == Seq(Nat)
             numbers == [i \in DOMAIN steps |-> i]
             more(s, i) == IF steps[i].phase \in phases THEN Append(s, i) ELSE s
             step    == [n \in 1 .. N |-> [s \in S |-> more(s, n)]]
             next(f) == [s \in SUBSET DOMAIN numbers |->
                           IF s = {} THEN <<>> ELSE more(f[s \ {Max(s)}], numbers[Max(s)])]
             fold    == CHOOSE f : f = next(f)
  <1>1. N \in Nat /\ DOMAIN numbers = 1 .. N /\ \A n \in 1 .. N : numbers[n] = n
    OBVIOUS
  <1>2. OfPhase(steps, phases) = fold[1 .. N]
    <2>1. OfPhase(steps, phases) = fold[DOMAIN numbers]
      BY Zenon DEF OfPhase, FoldLeft, MapThenFoldSet
    <2> HIDE DEF fold, N
    <2>2. QED BY <1>1, <2>1
  <1>3. <<>> \in S
    OBVIOUS
  <1>4. \A n \in 1 .. N : step[n] \in [S -> S] /\ \A s \in S : step[n][s] = more(s, n)
    <2>1. \A n \in 1 .. N : \A s \in S : more(s, n) \in S
      OBVIOUS
    <2> HIDE DEF S, more, N
    <2>2. QED BY <2>1
  <1> HIDE DEF S, more, numbers
  <1>5. PICK f : IsFold(f, S, <<>>, N, step)
    <2>1. step \in StepsOn(S, N)
      BY <1>4 DEF StepsOn
    <2> HIDE DEF step, N
    <2>2. QED BY ONLY <1>1, <1>3, <2>1, FoldExists
  <1> HIDE DEF step, N
  <1>6. f = next(f)
    <2>1. \A s \in SUBSET (1 .. N) : s # {} =>
            step[Max(s)][f[s \ {Max(s)}]] = more(f[s \ {Max(s)}], numbers[Max(s)])
      <3> TAKE s \in SUBSET (1 .. N)
      <3>1. s # {} => Max(s) \in 1 .. N
        BY <1>1, GreatestIn
      <3>2. f[s \ {Max(s)}] \in S
        BY <1>5 DEF IsFold
      <3>3. QED BY <1>1, <1>4, <3>1, <3>2
    <2>2. QED BY <1>1, <1>5, <2>1 DEF IsFold
  <1>7. fold = next(fold)
    BY <1>6
  <1> HIDE DEF fold
  <1> DEFINE Good == {n \in Nat : n <= N => fold[1 .. n] \in S}
  <1>8. 0 \in Good
    <2>1. fold[1 .. 0] = <<>>
      BY <1>1, <1>7
    <2>2. QED BY <1>3, <2>1
  <1>9. \A n \in Nat : n \in Good => n + 1 \in Good
    <2> SUFFICES ASSUME NEW n \in Nat, n \in Good, n + 1 <= N PROVE fold[1 .. n + 1] \in S
      OBVIOUS
    <2>1. fold[1 .. n] \in S /\ n + 1 \in 1 .. N
      BY <1>1
    <2> DEFINE s == 1 .. n + 1
    <2>2. s # {} /\ Max(s) = n + 1 /\ s \ {n + 1} = 1 .. n
      BY FoldOfNext
    <2>3. s \in SUBSET DOMAIN numbers
      BY <1>1, <2>1
    <2>4. fold[s] = more(fold[1 .. n], n + 1)
      <3> HIDE DEF s
      <3>1. fold[s] = more(fold[s \ {Max(s)}], numbers[Max(s)])
        BY <1>7, <2>2, <2>3
      <3>2. QED BY <1>1, <2>1, <2>2, <3>1
    <2>5. more(fold[1 .. n], n + 1) \in S
      BY <1>4, <2>1
    <2>6. QED BY <2>4, <2>5
  <1>10. N \in Good
    <2> HIDE DEF Good
    <2>1. N \in Nat
      BY <1>1
    <2>2. QED BY ONLY <1>8, <1>9, <2>1, SetInduction
  <1>11. QED BY <1>1, <1>2, <1>10 DEF S

FileSteps == [command : Nat, phase : {"exec", "config", "save", "verify"},
              readOnly : BOOLEAN, secret : BOOLEAN]

\* A plan with the texts of its steps, which are their numbers.
FilePlans(D, O, T, R) ==
    [driver : D, operation : O, type : T, readOnly : R, steps : Seq(FileSteps),
     commands : Seq(Nat), saves : Seq(Nat), checks : Seq(Nat)]

IsTexted(plan) ==
    /\ \E D, O, T, R : plan \in FilePlans(D, O, T, R)
    /\ \A i \in DOMAIN plan.steps : plan.steps[i].command = i

LEMMA MadeIsTexted ==
  ASSUME NEW device, NEW driver \in DOMAIN Drivers, NEW operation \in LegacyOperations
  PROVE  /\ IsTexted(Texted(Plan(device, driver, operation)))
         /\ IsTexted([Texted(Plan(device, driver, operation)) EXCEPT !.steps = <<>>])
  <1> DEFINE plan  == Plan(device, driver, operation)
             steps == plan.steps
             text  == [i \in DOMAIN steps |->
                         [command |-> i, phase |-> steps[i].phase,
                          readOnly |-> steps[i].readOnly, secret |-> IsSecret(plan, i)]]
             t     == Texted(plan)
  <1>1. steps \in Seq(PlanSteps)
    BY StepsOfPlan
  <1>2. /\ t.steps = text
        /\ t = [driver |-> plan.driver, operation |-> plan.operation, type |-> plan.type,
                readOnly |-> plan.readOnly, steps |-> text,
                commands |-> OfPhase(steps, {"exec", "config"}),
                saves |-> OfPhase(steps, {"save"}), checks |-> OfPhase(steps, {"verify"})]
    BY DEF Texted
  <1>3. \A i : IsSecret(plan, i) \in BOOLEAN
    BY DEF IsSecret
  <1> HIDE DEF plan, t
  <1>4. text \in Seq(FileSteps) /\ \A i \in DOMAIN text : text[i].command = i
    <2>1. \A i \in DOMAIN steps : i \in Nat /\ steps[i].phase \in {"exec", "config", "save", "verify"}
                                  /\ steps[i].readOnly \in BOOLEAN
      <3> HIDE DEF steps
      <3>1. \A i \in DOMAIN steps : i \in Nat /\ steps[i] \in PlanSteps
        BY <1>1
      <3>2. QED BY <3>1 DEF PlanSteps
    <2>2. \A i \in DOMAIN steps :
             [command |-> i, phase |-> steps[i].phase,
              readOnly |-> steps[i].readOnly, secret |-> IsSecret(plan, i)] \in FileSteps
      BY <1>3, <2>1 DEF FileSteps
    <2>3. DOMAIN steps = 1 .. Len(steps) /\ Len(steps) \in Nat
      BY <1>1
    <2> HIDE DEF steps
    <2>4. text \in [1 .. Len(steps) -> FileSteps]
      BY <2>2, <2>3
    <2>5. text \in Seq(FileSteps)
      BY <2>3, <2>4, FunctionIsSeq
    <2>6. QED BY <2>5
  <1>5. /\ OfPhase(steps, {"exec", "config"}) \in Seq(Nat) /\ OfPhase(steps, {"save"}) \in Seq(Nat)
        /\ OfPhase(steps, {"verify"}) \in Seq(Nat)
    BY <1>1, PhaseIsSeq
  <1> HIDE DEF text, steps
  <1>6. t \in FilePlans({plan.driver}, {plan.operation}, {plan.type}, {plan.readOnly})
    BY <1>2, <1>4, <1>5 DEF FilePlans
  <1>7. IsTexted(t)
    BY <1>2, <1>4, <1>6 DEF IsTexted
  <1>8. IsTexted([t EXCEPT !.steps = <<>>])
    <2>1. <<>> \in Seq(FileSteps) /\ DOMAIN <<>> = {}
      OBVIOUS
    <2>2. /\ [t EXCEPT !.steps = <<>>]
               \in FilePlans({plan.driver}, {plan.operation}, {plan.type}, {plan.readOnly})
          /\ [t EXCEPT !.steps = <<>>].steps = <<>>
      BY <1>6, <2>1 DEF FilePlans
    <2>3. QED BY <2>1, <2>2 DEF IsTexted
  <1>9. QED BY <1>7, <1>8 DEF t, plan

\* What is read of a written plan: the steps, without the secrets if that was asked for.
WrittenAs(before, after, redact) ==
    /\ DOMAIN after = DOMAIN before
    /\ ~redact => after = before
    /\ \A i \in DOMAIN before :
          /\ before[i].command \in Nat
          /\ after[i].secret = before[i].secret
          /\ redact /\ before[i].secret => after[i].command = Redacted
          /\ ~before[i].secret => after[i] = before[i]
    /\ \A i, k \in DOMAIN before : before[i].secret /\ ~before[k].secret =>
          before[i].command # before[k].command

HasNo(commands, before) ==
    \A i \in DOMAIN commands :
       \A k \in DOMAIN before : before[k].secret => commands[i] # before[k].command

LEMMA DocumentIs ==
  ASSUME NEW plan, IsTexted(plan), NEW redact, redact \in BOOLEAN
  PROVE  /\ WrittenAs(ExecutionSteps(plan), ExecutionSteps(Document(plan, redact)), redact)
         /\ redact => HasNo(Document(plan, redact).commands, ExecutionSteps(plan))
  <1> DEFINE steps    == ExecutionSteps(plan)
             document == Document(plan, redact)
             secrets  == {steps[i].command : i \in {k \in DOMAIN steps : steps[k].secret}}
             written  == [i \in DOMAIN steps |->
                            IF redact /\ steps[i].secret THEN [steps[i] EXCEPT !.command = Redacted]
                            ELSE steps[i]]
             commands == [i \in DOMAIN plan.commands |->
                            IF redact /\ plan.commands[i] \in secrets THEN Redacted
                            ELSE plan.commands[i]]
             made(cs, phase, readOnly) ==
                [i \in DOMAIN cs |->
                   [command |-> cs[i], phase |-> phase, readOnly |-> readOnly, secret |-> FALSE]]
  <1>1. PICK D, O, T, R : plan \in FilePlans(D, O, T, R)
    BY DEF IsTexted
  <1>2. /\ document.steps = written /\ document.commands = commands
        /\ document.saves = plan.saves /\ document.checks = plan.checks
        /\ document.readOnly = plan.readOnly
    <2>1. document = [plan EXCEPT !.steps = written, !.commands = commands]
      BY DEF Document
    <2> HIDE DEF document, written, commands, steps
    <2>2. QED BY <1>1, <2>1 DEF FilePlans
  <1>3. CASE plan.steps # <<>>
    <2>1. steps = plan.steps /\ steps \in Seq(FileSteps) /\ steps # <<>>
      BY <1>1, <1>3 DEF ExecutionSteps, FilePlans
    <2>2. \A i \in DOMAIN steps : steps[i].command = i /\ i \in Nat /\ steps[i] \in FileSteps
      BY <2>1 DEF IsTexted
    <2> HIDE DEF steps
    <2>3. written # <<>> /\ DOMAIN written = DOMAIN steps
      <3>1. DOMAIN steps # {} /\ DOMAIN <<>> = {}
        <4>1. Len(steps) # 0 /\ Len(steps) \in Nat /\ DOMAIN steps = 1 .. Len(steps)
          BY <2>1
        <4>2. 1 \in DOMAIN steps
          BY ONLY <4>1
        <4>3. QED BY <4>2
      <3>2. DOMAIN written = DOMAIN steps
        OBVIOUS
      <3> HIDE DEF written
      <3>3. QED BY <3>1, <3>2
    <2>4. ExecutionSteps(document) = written
      BY <1>2, <2>3 DEF ExecutionSteps
    <2>5. ~redact => written = steps
      BY <2>1
    <2>6. \A i \in DOMAIN steps :
            /\ written[i].secret = steps[i].secret
            /\ redact /\ steps[i].secret => written[i].command = Redacted
            /\ ~steps[i].secret => written[i] = steps[i]
      BY <2>2 DEF FileSteps
    <2>7. WrittenAs(steps, written, redact)
      BY <2>2, <2>3, <2>5, <2>6 DEF WrittenAs
    <2>8. redact => HasNo(commands, steps)
      <3>1. \A s \in secrets : s # Redacted
        BY <2>2, PlanFilesAssumption
      <3>2. \A k \in DOMAIN steps : steps[k].secret => steps[k].command \in secrets
        OBVIOUS
      <3> HIDE DEF secrets
      <3>3. redact => \A i \in DOMAIN commands : commands[i] \notin secrets
        BY <3>1
      <3>4. QED BY <3>2, <3>3 DEF HasNo
    <2>9. QED BY <1>2, <2>4, <2>7, <2>8 DEF steps
  <1>4. CASE plan.steps = <<>>
    <2> DEFINE a == made(plan.commands, "exec", plan.readOnly)
               b == made(plan.saves, "save", FALSE)
               c == made(plan.checks, "verify", TRUE)
               Plain == [command : Nat, phase : {"exec", "save", "verify"},
                         readOnly : {TRUE, FALSE, plan.readOnly}, secret : {FALSE}]
    <2>1. steps = a \o b \o c
      BY <1>4 DEF ExecutionSteps
    <2>2. a \in Seq(Plain) /\ b \in Seq(Plain) /\ c \in Seq(Plain)
      <3>1. \A cs \in Seq(Nat) : \A phase \in {"exec", "save", "verify"} :
            \A readOnly \in {TRUE, FALSE, plan.readOnly} :
               made(cs, phase, readOnly) \in Seq(Plain)
        <4> SUFFICES ASSUME NEW cs \in Seq(Nat), NEW phase \in {"exec", "save", "verify"},
                            NEW readOnly \in {TRUE, FALSE, plan.readOnly}
                     PROVE  made(cs, phase, readOnly) \in Seq(Plain)
          OBVIOUS
        <4>1. Len(cs) \in Nat /\ DOMAIN cs = 1 .. Len(cs) /\ \A i \in DOMAIN cs : cs[i] \in Nat
          OBVIOUS
        <4>2. made(cs, phase, readOnly) \in [1 .. Len(cs) -> Plain]
          BY <4>1
        <4> HIDE DEF made, Plain
        <4>3. QED BY <4>1, <4>2, FunctionIsSeq
      <3> HIDE DEF made, Plain
      <3>2. plan.commands \in Seq(Nat) /\ plan.saves \in Seq(Nat) /\ plan.checks \in Seq(Nat)
        BY <1>1 DEF FilePlans
      <3>3. QED BY <3>1, <3>2
    <2> HIDE DEF a, b, c
    <2>3. steps \in Seq(Plain)
      <3> HIDE DEF steps, Plain
      <3>1. a \o b \in Seq(Plain)
        BY ONLY <2>2
      <3>2. (a \o b) \o c \in Seq(Plain)
        BY ONLY <2>2, <3>1
      <3>3. QED BY ONLY <2>1, <3>2
    <2> HIDE DEF steps
    <2>4. \A i \in DOMAIN steps : ~steps[i].secret /\ steps[i].command \in Nat
      <3>1. \A i \in DOMAIN steps : steps[i] \in Plain
        <4> HIDE DEF Plain
        <4>1. QED BY <2>3
      <3>2. QED BY <3>1
    <2>5. written = steps
      BY <2>3, <2>4
    <2>6. commands = plan.commands
      <3>1. secrets = {}
        BY <2>4
      <3> HIDE DEF secrets
      <3>2. plan.commands \in Seq(Nat)
        BY <1>1 DEF FilePlans
      <3>3. QED BY <3>1, <3>2
    <2> HIDE DEF written, commands, document
    <2>7. ExecutionSteps(document) = steps
      <3>1. CASE steps # <<>>
        BY <1>2, <2>5, <3>1 DEF ExecutionSteps
      <3>2. CASE steps = <<>>
        <4>1. document.steps = <<>>
          BY <1>2, <2>5, <3>2
        <4>2. ExecutionSteps(document) = a \o b \o c
          BY <1>2, <2>6, <4>1 DEF ExecutionSteps, a, b, c
        <4>3. QED BY <2>1, <4>2
      <3>3. QED BY <3>1, <3>2
    <2>8. WrittenAs(steps, steps, redact) /\ HasNo(commands, steps)
      BY <2>4 DEF WrittenAs, HasNo
    <2>9. QED BY <1>2, <2>7, <2>8 DEF steps, document
  <1>5. QED BY <1>3, <1>4

\* A plan that is written with its secrets and read again runs the same steps; written
\* without them the file has the secret nowhere, and what is read of it is rejected; and
\* no listing shows a secret that was not asked for (plan_to_dict, read_plans,
\* _reject_redacted_secret_steps, _print_plans).
THEOREM PlanFileFaithful == Spec => []PlanFileIsFaithful
  <1>1. AnswerIsSolution => PlanFileIsFaithful
    <2> SUFFICES ASSUME AnswerIsSolution, Solved("file") PROVE PlanFileIsFaithful
      BY DEF PlanFileIsFaithful
    <2> DEFINE before    == ExecutionSteps(Made)
               document  == Document(Made, problem.redact)
               documents == <<document, document>>
               after     == ExecutionSteps(document)
               secrets   == {i \in DOMAIN before : before[i].secret}
               hidden    == {before[i].command : i \in secrets}
               run       == ApplyFile(problem.version, documents, problem.canary,
                                      problem.dryRun, problem.showSecrets)
    <2>1. /\ problem.driver \in DOMAIN Drivers /\ problem.operation \in LegacyOperations
          /\ problem.redact \in BOOLEAN /\ problem.canary \in {None, 0, 1, 3}
          /\ answer = Filed
      BY DEF AnswerIsSolution, Solved, Problems, CanaryProblems, VlanProblems, ScheduleProblems,
             BackupProblems, SessionProblems, CleanProblems, ImportProblems, DriverProblems,
             CaptureProblems, ApplyProblems, FileProblems, EvidenceProblems
    <2>2. IsTexted(Made)
      BY <2>1, MadeIsTexted DEF Made
    <2>3. /\ WrittenAs(before, after, problem.redact)
          /\ problem.redact => HasNo(document.commands, before)
      BY <2>1, <2>2, DocumentIs
    <2>4. /\ answer.document = document /\ answer.rejected = RejectsRedacted(documents)
          /\ answer.applied = run
      BY <2>1 DEF Filed
    <2>5. DOMAIN documents = 1 .. 2 /\ Len(documents) = 2
          /\ documents[1] = document /\ documents[2] = document
      <3> HIDE DEF document
      <3>1. QED OBVIOUS
    <2> HIDE DEF document, documents, before
    <2>6. answer.rejected <=> \E i \in DOMAIN after : after[i].secret /\ after[i].command = Redacted
      <3>1. \A k \in DOMAIN documents : documents[k] = document
        BY <2>5
      <3>2. 1 \in DOMAIN documents
        BY <2>5
      <3>3. QED BY <2>4, <3>1, <3>2 DEF RejectsRedacted
    <2>7. ~problem.showSecrets => \A k \in DOMAIN run.shown : run.shown[k] = Shown(document, FALSE)
      <3>1. CASE ~problem.dryRun \/ ReadPlans(problem.version, documents) = None \/ problem.canary = 0
        <4>1. run.shown = <<>>
          BY <3>1 DEF ApplyFile
        <4>2. QED BY <4>1
      <3>2. CASE ~(~problem.dryRun \/ ReadPlans(problem.version, documents) = None
                   \/ problem.canary = 0)
        <4>1. ReadPlans(problem.version, documents) = documents
          BY <3>2 DEF ReadPlans
        <4>2. run.shown = [k \in DOMAIN Canaries(documents, problem.canary) |->
                             Shown(documents[k], problem.showSecrets)]
          BY <3>2, <4>1 DEF ApplyFile
        <4>3. DOMAIN Canaries(documents, problem.canary) \subseteq 1 .. 2
          <5>1. CASE problem.canary = None \/ problem.canary > Len(documents)
            BY <2>5, <5>1 DEF Canaries
          <5>2. CASE ~(problem.canary = None \/ problem.canary > Len(documents))
            <6>1. problem.canary = 1
              BY <2>1, <2>5, <3>2, <5>2
            <6>2. Canaries(documents, problem.canary) = SubSeq(documents, 1, 1)
              BY <5>2, <6>1 DEF Canaries
            <6>3. QED BY <6>2
          <5>3. QED BY <5>1, <5>2
        <4>4. \A k \in 1 .. 2 : documents[k] = document
          BY <2>5
        <4> HIDE DEF run
        <4>5. ~problem.showSecrets =>
                \A k \in DOMAIN run.shown :
                   k \in 1 .. 2 /\ run.shown[k] = Shown(documents[k], problem.showSecrets)
          BY <4>2, <4>3
        <4>6. ~problem.showSecrets => Shown(document, problem.showSecrets) = Shown(document, FALSE)
          BY DEF Shown
        <4>7. QED BY <4>4, <4>5, <4>6
      <3>3. QED BY <3>1, <3>2
    <2>8. \A i \in secrets : Shown(document, FALSE)[i] = Redacted
      <3>1. \A i \in secrets : i \in DOMAIN after /\ after[i].secret
        BY <2>3 DEF WrittenAs
      <3>2. QED BY <3>1 DEF Shown
    <2> HIDE DEF run, after
    <2>9. ~problem.redact => after = before
      BY <2>3 DEF WrittenAs
    <2>10. problem.redact => \A i \in DOMAIN after : after[i].command \notin hidden
      <3> SUFFICES ASSUME problem.redact, NEW i \in DOMAIN after, NEW k \in secrets,
                          after[i].command = before[k].command
                   PROVE  FALSE
        OBVIOUS
      <3>1. i \in DOMAIN before /\ k \in DOMAIN before /\ before[k].secret
            /\ before[k].command \in Nat
        BY <2>3 DEF WrittenAs
      <3>2. CASE before[i].secret
        <4>1. after[i].command = Redacted
          BY <2>3, <3>1, <3>2 DEF WrittenAs
        <4>2. QED BY <3>1, <4>1, PlanFilesAssumption
      <3>3. CASE ~before[i].secret
        BY <2>3, <3>1, <3>3 DEF WrittenAs
      <3>4. QED BY <3>2, <3>3
    <2>11. problem.redact => \A i \in DOMAIN document.commands : document.commands[i] \notin hidden
      BY <2>3 DEF HasNo
    <2>12. problem.redact => \A i \in DOMAIN before \ secrets : after[i] = before[i]
      BY <2>3 DEF WrittenAs
    <2>13. problem.redact => (answer.rejected <=> secrets # {})
      <3> SUFFICES ASSUME problem.redact PROVE answer.rejected <=> secrets # {}
        OBVIOUS
      <3>1. \A i : i \in DOMAIN after <=> i \in DOMAIN before
        BY <2>3 DEF WrittenAs
      <3>2. \A i \in DOMAIN before :
              /\ after[i].secret = before[i].secret
              /\ before[i].secret => after[i].command = Redacted
        BY <2>3 DEF WrittenAs
      <3>3. QED BY <2>6, <3>1, <3>2
    <2>14. ~problem.showSecrets =>
             \A k \in DOMAIN answer.applied.shown : \A i \in secrets :
                answer.applied.shown[k][i] = Redacted
      BY <2>4, <2>7, <2>8
    <2> HIDE DEF secrets, hidden
    <2>15. QED
      BY <2>4, <2>9, <2>10, <2>11, <2>12, <2>13, <2>14
      DEF PlanFileIsFaithful, before, after, secrets, hidden
  <1>2. QED BY <1>1, Solutions, PTL

-----------------------------------------------------------------------------
(* The tables that are kept apart                                          *)

Displayed == {"huawei_vrp", "hpe_comware"}

\* Where the contract of a family stands.
LEMMA ContractOf ==
  /\ \A f \in {"cisco_ios", "cisco_nxos", "cisco_asa"} : Contracts[f] = CiscoContracts[f]
  /\ \A f \in {"huawei_vrp", "hpe_comware", "hpe_procurve", "aruba_os_switch"} :
        Contracts[f] = HuaweiAndHpeContracts[f]
  /\ \A f \in {"qtech", "dell_os"} : Contracts[f] = QtechToNonSwitchContracts[f]
  /\ \A f \in {"eltex", "bulat", "generic_ssh"} : Contracts[f] = EltexToUnknownContracts[f]
  <1>1. /\ DOMAIN CiscoContracts = {"cisco_ios", "cisco_nxos", "cisco_asa"}
        /\ DOMAIN HuaweiAndHpeContracts
             = {"huawei_vrp", "hpe_comware", "hpe_procurve", "aruba_os_switch"}
        /\ DOMAIN QtechToNonSwitchContracts = {"qtech", "dell_os", "limited_web", "non_switch"}
        /\ DOMAIN EltexToUnknownContracts = {"eltex", "bulat", "generic_ssh", "icmp", "unknown"}
    BY DEF CiscoContracts, HuaweiAndHpeContracts, QtechToNonSwitchContracts,
           EltexToUnknownContracts
  <1> DEFINE c == CiscoContracts
             h == HuaweiAndHpeContracts
             q == QtechToNonSwitchContracts
             e == EltexToUnknownContracts
  <1>2. \A x \in DOMAIN c \cup DOMAIN h \cup DOMAIN q \cup DOMAIN e :
           Contracts[x] = IF x \in DOMAIN c THEN c[x] ELSE IF x \in DOMAIN h THEN h[x]
                          ELSE IF x \in DOMAIN q THEN q[x] ELSE e[x]
    BY DEF Contracts, Joined
  <1> HIDE DEF c, h, q, e
  <1>3. QED BY <1>1, <1>2 DEF c, h, q, e

\* Where the profile of a family stands.
LEMMA ProfileOf ==
  /\ \A f \in {"cisco_ios", "cisco_nxos", "cisco_asa", "huawei_vrp", "limited_web",
               "hpe_comware", "hpe_procurve", "aruba_os_switch"} : Profiles[f] = MainProfiles[f]
  /\ \A f \in {"qtech", "dell_os", "eltex", "bulat", "non_switch", "generic_ssh", "icmp",
               "unknown"} : Profiles[f] = OtherProfiles[f]
  <1>1. /\ DOMAIN MainProfiles = {"cisco_ios", "cisco_nxos", "cisco_asa", "huawei_vrp",
                                  "limited_web", "hpe_comware", "hpe_procurve", "aruba_os_switch"}
        /\ DOMAIN OtherProfiles = {"qtech", "dell_os", "eltex", "bulat", "non_switch",
                                   "generic_ssh", "icmp", "unknown"}
    BY DEF MainProfiles, OtherProfiles
  <1> DEFINE m == MainProfiles
             o == OtherProfiles
  <1>2. \A x \in DOMAIN m \cup DOMAIN o : Profiles[x] = IF x \in DOMAIN m THEN m[x] ELSE o[x]
    BY DEF Profiles, Joined
  <1> HIDE DEF m, o
  <1>3. QED BY <1>1, <1>2 DEF m, o

\* The command of a family that shows its whole configuration.
LEMMA ReadsAre ==
  /\ \A f \in Displayed : Contracts[f].reads = "display current-configuration"
  /\ \A f \in (Candidates \cup Readable) \ Displayed : Contracts[f].reads = "show running-config"
  <1> DEFINE show    == "show running-config"
             display == "display current-configuration"
  <1>1. \A b, t, r : LabCandidate(b, t, r).reads = r
    BY DEF LabCandidate, Contract
  <1>2. \A t, b, l : BackupOnly(t, b, l).reads = show
    BY DEF BackupOnly, Contract
  <1>3. /\ CiscoContracts["cisco_ios"].reads = show /\ CiscoContracts["cisco_nxos"].reads = show
        /\ CiscoContracts["cisco_asa"].reads = show
    <2>1. CiscoContracts["cisco_ios"].reads = show
      BY <1>1 DEF CiscoContracts
    <2>2. CiscoContracts["cisco_nxos"].reads = show
      BY <1>1 DEF CiscoContracts
    <2>3. CiscoContracts["cisco_asa"].reads = show
      BY <1>2 DEF CiscoContracts
    <2>4. QED BY <2>1, <2>2, <2>3
  <1>4. /\ HuaweiAndHpeContracts["huawei_vrp"].reads = display
        /\ HuaweiAndHpeContracts["hpe_comware"].reads = display
        /\ HuaweiAndHpeContracts["hpe_procurve"].reads = show
        /\ HuaweiAndHpeContracts["aruba_os_switch"].reads = show
    <2>1. HuaweiAndHpeContracts["huawei_vrp"].reads = display
      BY <1>1 DEF HuaweiAndHpeContracts
    <2>2. HuaweiAndHpeContracts["hpe_comware"].reads = display
      BY <1>1 DEF HuaweiAndHpeContracts
    <2>3. HuaweiAndHpeContracts["hpe_procurve"].reads = show
      BY <1>1 DEF HuaweiAndHpeContracts
    <2>4. HuaweiAndHpeContracts["aruba_os_switch"].reads = show
      BY <1>1 DEF HuaweiAndHpeContracts
    <2>5. QED BY <2>1, <2>2, <2>3, <2>4
  <1>5. /\ QtechToNonSwitchContracts["qtech"].reads = show
        /\ QtechToNonSwitchContracts["dell_os"].reads = show
    <2>1. QtechToNonSwitchContracts["qtech"].reads = show
      BY <1>2 DEF QtechToNonSwitchContracts
    <2>2. QtechToNonSwitchContracts["dell_os"].reads = show
      BY <1>1 DEF QtechToNonSwitchContracts
    <2>3. QED BY <2>1, <2>2
  <1>6. /\ EltexToUnknownContracts["eltex"].reads = show
        /\ EltexToUnknownContracts["bulat"].reads = show
        /\ EltexToUnknownContracts["generic_ssh"].reads = show
    BY <1>2 DEF EltexToUnknownContracts
  <1> HIDE DEF show, display
  <1>7. \A f \in Displayed : Contracts[f].reads = display
    BY <1>4, ContractOf DEF Displayed
  <1>8. \A f \in (Candidates \cup Readable) \ Displayed : Contracts[f].reads = show
    BY <1>3, <1>4, <1>5, <1>6, ContractOf DEF Displayed, Candidates, Readable
  <1>9. QED BY <1>7, <1>8 DEF show, display

\* The driver and the second transport of a family that is configured.
DriverOf(f) ==
    CASE f = "cisco_ios"  -> "CiscoIOSDriver"
      [] f = "cisco_nxos" -> "CiscoNXOSDriver"
      [] f = "huawei_vrp" -> "HuaweiVRPDriver"
      [] f = "hpe_comware" -> "HPComwareDriver"
      [] f \in {"hpe_procurve", "aruba_os_switch"} -> "HPEProCurveDriver"
      [] f = "dell_os"    -> "DellPowerConnectDriver"
SecondOf(f) == IF f \in {"cisco_ios", "cisco_nxos", "huawei_vrp"} THEN "paramiko" ELSE "custom_cli"

LEMMA ConfigurableAre ==
  \A f \in Candidates : /\ Profiles[f].apply /\ Profiles[f].driver = DriverOf(f)
                        /\ Profiles[f].fallback = SecondOf(f)
                        /\ Contracts[f].fallback = SecondOf(f)
  <1> DEFINE Has(p, f) == p.apply /\ p.driver = DriverOf(f) /\ p.fallback = SecondOf(f)
  <1>1. \A f, b, m, p : b = SecondOf(f) => Has(Configurable(DriverOf(f), b, m, p), f)
    BY DEF Configurable, Profile
  <1>2. \A b, t, r : LabCandidate(b, t, r).fallback = b
    BY DEF LabCandidate, Contract
  <1>3. /\ DriverOf("cisco_ios") = "CiscoIOSDriver" /\ DriverOf("cisco_nxos") = "CiscoNXOSDriver"
        /\ DriverOf("huawei_vrp") = "HuaweiVRPDriver" /\ DriverOf("hpe_comware") = "HPComwareDriver"
        /\ DriverOf("hpe_procurve") = "HPEProCurveDriver"
        /\ DriverOf("aruba_os_switch") = "HPEProCurveDriver"
        /\ DriverOf("dell_os") = "DellPowerConnectDriver"
    BY DEF DriverOf
  <1>4. /\ SecondOf("cisco_ios") = "paramiko" /\ SecondOf("cisco_nxos") = "paramiko"
        /\ SecondOf("huawei_vrp") = "paramiko" /\ SecondOf("hpe_comware") = "custom_cli"
        /\ SecondOf("hpe_procurve") = "custom_cli" /\ SecondOf("aruba_os_switch") = "custom_cli"
        /\ SecondOf("dell_os") = "custom_cli"
    BY DEF SecondOf
  <1> HIDE DEF Has
  <1>5. /\ Has(MainProfiles["cisco_ios"], "cisco_ios") /\ Has(MainProfiles["cisco_nxos"], "cisco_nxos")
        /\ Has(MainProfiles["huawei_vrp"], "huawei_vrp")
        /\ Has(MainProfiles["hpe_comware"], "hpe_comware")
        /\ Has(MainProfiles["hpe_procurve"], "hpe_procurve")
        /\ Has(MainProfiles["aruba_os_switch"], "aruba_os_switch")
    <2> DEFINE made(f, m, p) == Configurable(DriverOf(f), SecondOf(f), m, p)
    <2>1. /\ \E m, p : MainProfiles["cisco_ios"] = made("cisco_ios", m, p)
          /\ \E m, p : MainProfiles["cisco_nxos"] = made("cisco_nxos", m, p)
          /\ \E m, p : MainProfiles["huawei_vrp"] = made("huawei_vrp", m, p)
      BY <1>3, <1>4 DEF MainProfiles
    <2>2. /\ \E m, p : MainProfiles["hpe_comware"] = made("hpe_comware", m, p)
          /\ \E m, p : MainProfiles["hpe_procurve"] = made("hpe_procurve", m, p)
          /\ \E m, p : MainProfiles["aruba_os_switch"] = made("aruba_os_switch", m, p)
      BY <1>3, <1>4 DEF MainProfiles
    <2>3. \A f, m, p : Has(made(f, m, p), f)
      BY <1>1
    <2> HIDE DEF made
    <2>4. QED BY <2>1, <2>2, <2>3
  <1>6. Has(OtherProfiles["dell_os"], "dell_os")
    BY <1>1, <1>3, <1>4 DEF OtherProfiles
  <1>7. /\ CiscoContracts["cisco_ios"].fallback = "paramiko"
        /\ CiscoContracts["cisco_nxos"].fallback = "paramiko"
        /\ HuaweiAndHpeContracts["huawei_vrp"].fallback = "paramiko"
        /\ HuaweiAndHpeContracts["hpe_comware"].fallback = "custom_cli"
        /\ HuaweiAndHpeContracts["hpe_procurve"].fallback = "custom_cli"
        /\ HuaweiAndHpeContracts["aruba_os_switch"].fallback = "custom_cli"
        /\ QtechToNonSwitchContracts["dell_os"].fallback = "custom_cli"
    BY <1>2 DEF CiscoContracts, HuaweiAndHpeContracts, QtechToNonSwitchContracts
  <1>8. \A f \in Candidates : Has(Profiles[f], f)
    BY <1>5, <1>6, ProfileOf DEF Candidates
  <1>9. \A f \in Candidates : Contracts[f].fallback = SecondOf(f)
    BY <1>4, <1>7, ContractOf DEF Candidates
  <1>10. QED BY <1>8, <1>9 DEF Has

\* What finds a family.
LEMMA PatternsAre ==
  /\ Profiles["huawei_vrp"].models = {"s5720", "vrp"}
  /\ Profiles["hpe_comware"].models = {"1910", "1950", "5130", "s4210"}
  /\ \A f \in DeviceFamilies : Profiles[f].models \cap {"huawei", "s9300"} = {}
  <1>1. \A d, b, c, m, p : /\ Configurable(d, b, m, p).models = m /\ OwnCli(d, c, m, p).models = m
                           /\ NoCli(d, m, p).models = m
    BY DEF Configurable, OwnCli, NoCli, Profile
  <1>2. /\ MainProfiles["huawei_vrp"].models = {"s5720", "vrp"}
        /\ MainProfiles["hpe_comware"].models = {"1910", "1950", "5130", "s4210"}
    BY <1>1 DEF MainProfiles
  <1> DEFINE NoPattern(p) == p.models \cap {"huawei", "s9300"} = {}
  <1>3. /\ NoPattern(MainProfiles["cisco_ios"]) /\ NoPattern(MainProfiles["cisco_nxos"])
        /\ NoPattern(MainProfiles["cisco_asa"]) /\ NoPattern(MainProfiles["huawei_vrp"])
        /\ NoPattern(MainProfiles["limited_web"]) /\ NoPattern(MainProfiles["hpe_comware"])
        /\ NoPattern(MainProfiles["hpe_procurve"]) /\ NoPattern(MainProfiles["aruba_os_switch"])
    BY <1>1 DEF MainProfiles
  <1>4. /\ OtherProfiles["qtech"].models = {"qsw-3750"}
        /\ OtherProfiles["dell_os"].models = {"powerconnect"}
        /\ OtherProfiles["eltex"].models = {"mes2348"}
        /\ OtherProfiles["bulat"].models = {"bs2500", "bk-a837"}
        /\ OtherProfiles["non_switch"].models = {"securitycode", "continent", "security appliance"}
        /\ OtherProfiles["unknown"].models = {}
    BY DEF OtherProfiles, Configurable, OwnCli, NoCli, Profile
  <1>5. /\ OtherProfiles["generic_ssh"].models = {"unknown product", "generic"}
        /\ OtherProfiles["icmp"].models = {"icmp"}
    BY DEF OtherProfiles, Profile
  <1>6. \A f \in {"qtech", "dell_os", "eltex", "bulat", "non_switch", "generic_ssh", "icmp", "unknown"} :
          NoPattern(OtherProfiles[f])
    BY <1>4, <1>5
  <1> HIDE DEF NoPattern
  <1>7. \A f \in DeviceFamilies : NoPattern(Profiles[f])
    BY <1>3, <1>6, FamiliesAre, ProfileOf
  <1>8. QED BY <1>2, <1>7, ProfileOf DEF NoPattern

\* The vendors that an import knows by the text.
LEMMA VendorOf ==
  ASSUME NEW device
  PROVE  LET w == Words(device) IN
         /\ Shows(w, {"huawei", "s5720"}) <=> NormalVendor(device) = "huawei"
         /\ w \cap {"huawei", "s5720", "bulat", "bs2500", "eltex", "mes2348", "qtech", "qsw-3750",
                    "qsw-2800"} = {} =>
              /\ "3com" \in w => NormalVendor(device) = "3com"
              /\ "hpe" \in w /\ "3com" \notin w => NormalVendor(device) = "hpe"
         /\ NormalVendor(device) \in {device.vendor, "huawei", "bulat", "eltex", "qsw", "3com", "hpe",
                                      "dell", "cisco", "d-link", "continent", "icmp"}
  <1> DEFINE w == Words(device)
             marks == <<<<{"huawei", "s5720"}, "huawei">>, <<{"bulat", "bs2500"}, "bulat">>,
                        <<{"eltex", "mes2348"}, "eltex">>,
                        <<{"qtech", "qsw-3750", "qsw-2800"}, "qsw">>,
                        <<{"3com"}, "3com">>, <<{"hpe"}, "hpe">>, <<{"dell", "powerconnect"}, "dell">>,
                        <<{"cisco", "catalyst"}, "cisco">>, <<{"d-link", "des1100"}, "d-link">>,
                        <<{"continent"}, "continent">>, <<{"icmp"}, "icmp">>>>
             shown(m) == Shows(w, m[1])
             I == {i \in 1 .. Len(marks) : shown(marks[i])}
             first == SelectInSeq(marks, shown)
  <1>1. /\ Len(marks) = 11
        /\ marks[1] = <<{"huawei", "s5720"}, "huawei">> /\ marks[2] = <<{"bulat", "bs2500"}, "bulat">>
        /\ marks[3] = <<{"eltex", "mes2348"}, "eltex">>
        /\ marks[4] = <<{"qtech", "qsw-3750", "qsw-2800"}, "qsw">>
        /\ marks[5] = <<{"3com"}, "3com">> /\ marks[6] = <<{"hpe"}, "hpe">>
        /\ \A i \in 7 .. 11 : marks[i][2] \in {"dell", "cisco", "d-link", "continent", "icmp"}
    OBVIOUS
  <1>2. NormalVendor(device) = IF first = 0 THEN device.vendor ELSE marks[first][2]
    BY DEF NormalVendor
  <1>3. first = IF I # {} THEN Min(I) ELSE 0
    BY DEF SelectInSeq
  <1>4. \A i \in 1 .. 11 : i \in I <=> Shows(w, marks[i][1])
    BY <1>1
  <1>5. I \subseteq 1 .. 11
    BY <1>1
  <1>6. I # {} => Min(I) \in I /\ \A i \in I : Min(I) <= i
    <2>1. I \subseteq Nat
      BY <1>5
    <2> HIDE DEF I
    <2>2. QED BY <2>1, LeastElement DEF Min
  <1> HIDE DEF I, marks, first, w
  <1>7. first \in 0 .. 11 /\ (first = 0 => I = {}) /\ (first # 0 => first \in I)
        /\ \A i \in I : first <= i
    <2>1. CASE I = {}
      BY <1>3, <2>1
    <2>2. CASE I # {}
      <3>1. first = Min(I)
        BY <1>3, <2>2
      <3>2. first \in I /\ first \in 1 .. 11 /\ \A i \in I : first <= i
        BY <1>5, <1>6, <2>2, <3>1
      <3>3. QED BY <2>2, <3>2
    <2>3. QED BY <2>1, <2>2
  <1>8. /\ 1 \in I <=> Shows(w, {"huawei", "s5720"})
        /\ 2 \in I <=> Shows(w, {"bulat", "bs2500"})
        /\ 3 \in I <=> Shows(w, {"eltex", "mes2348"})
        /\ 4 \in I <=> Shows(w, {"qtech", "qsw-3750", "qsw-2800"})
        /\ 5 \in I <=> "3com" \in w
        /\ 6 \in I <=> "hpe" \in w
    BY <1>1, <1>4 DEF Shows
  <1>9. Shows(w, {"huawei", "s5720"}) => NormalVendor(device) = "huawei"
    <2>1. 1 \in I => first = 1
      BY <1>7
    <2>2. QED BY <1>1, <1>2, <1>8, <2>1
  <1>10. NormalVendor(device) \in {device.vendor, "huawei", "bulat", "eltex", "qsw", "3com", "hpe",
                                   "dell", "cisco", "d-link", "continent", "icmp"}
    BY <1>1, <1>2, <1>7
  <1>11. NormalVendor(device) = "huawei" => Shows(w, {"huawei", "s5720"})
    <2>1. first = 0 => NormalVendor(device) = device.vendor
      BY <1>2
    <2>2. first \in 2 .. 11 => NormalVendor(device) # "huawei"
      BY <1>1, <1>2
    <2>3. first = 1 => 1 \in I
      BY <1>7
    <2>4. NormalVendor(device) = device.vendor /\ NormalVendor(device) = "huawei" =>
            Shows(w, {"huawei", "s5720"})
      BY DEF Shows, Words, w
    <2>5. QED BY <1>7, <1>8, <2>1, <2>2, <2>3, <2>4
  <1>12. ASSUME w \cap {"huawei", "s5720", "bulat", "bs2500", "eltex", "mes2348", "qtech",
                        "qsw-3750", "qsw-2800"} = {}
         PROVE  /\ "3com" \in w => NormalVendor(device) = "3com"
                /\ "hpe" \in w /\ "3com" \notin w => NormalVendor(device) = "hpe"
    <2>1. 1 \notin I /\ 2 \notin I /\ 3 \notin I /\ 4 \notin I
      BY <1>8, <1>12 DEF Shows
    <2>2. 5 \in I => first = 5
      BY <1>7, <2>1
    <2>3. 6 \in I /\ 5 \notin I => first = 6
      BY <1>7, <2>1
    <2>4. QED BY <1>1, <1>2, <1>8, <2>2, <2>3
  <1>13. QED BY <1>9, <1>10, <1>11, <1>12 DEF w

\* The matrix by what is stored: a driver of the tables, or none.
LEMMA MatchOf ==
  ASSUME NEW device, device.driver = None \/ device.driver \in DOMAIN DriverFamily
  PROVE  Match(device, None) = IF FamilyByText(device) # None THEN FamilyByText(device)
                               ELSE IF device.driver # None THEN DriverFamily[device.driver]
                               ELSE FamilyByPattern(device)
  <1>1. None \notin DeviceFamilies /\ None \notin DOMAIN DriverFamily
    BY DriverDecisionAssumption
  <1>2. \A d \in DOMAIN DriverFamily : DriverFamily[d] \in DeviceFamilies
    BY FamiliesAre DEF DriverFamily
  <1>3. QED BY <1>1, <1>2 DEF Match, FamilyStored

\* What the text alone decides is no family to configure.
LEMMA TextIsUnspecific ==
  ASSUME NEW device, FamilyByText(device) # None
  PROVE  FamilyByText(device) \in Silent \cup {"generic_ssh"}
  BY DEF FamilyByText, Silent

\* The session of a family that is configured has the family's type.
TypeOfFamily(d) == NetmikoType(d) = NetmikoTypes[Profiles[d.family].driver]

LEMMA TypeIsOfFamily ==
  ASSUME NEW device, device.driver = None \/ device.driver \in DOMAIN DriverFamily,
         NEW d, d = Decide(device, None), d.family \in Candidates
  PROVE  TypeOfFamily(d)
  <1> DEFINE f == Match(device, None)
  <1>1. d.family = f /\ d.driver = IF device.driver = None THEN Profiles[f].driver ELSE device.driver
    BY DEF Decide, Decision
  <1> HIDE DEF f
  <1>2. f \in Candidates /\ Profiles[f].driver = DriverOf(f)
    BY <1>1, ConfigurableAre
  <1>3. f \notin Silent \cup {"generic_ssh"}
    BY <1>2 DEF Candidates, Silent
  <1>4. f = IF device.driver # None THEN DriverFamily[device.driver] ELSE FamilyByPattern(device)
    BY <1>3, MatchOf, TextIsUnspecific DEF f
  <1>5. DriverOf(f) \in DOMAIN NetmikoTypes
    BY <1>2 DEF DriverOf, NetmikoTypes, Candidates
  <1>6. \A h \in DOMAIN DriverFamily : DriverFamily[h] \in Candidates => h = DriverOf(DriverFamily[h])
    BY DEF DriverFamily, Candidates, DriverOf
  <1>7. d.driver = DriverOf(f)
    BY <1>1, <1>2, <1>4, <1>6
  <1>8. QED BY <1>1, <1>2, <1>5, <1>7 DEF NetmikoType, TypeOfFamily

\* The vendor of a product, and what is no product.
LEMMA ProductsAre ==
  ASSUME NEW vendor \in Vendors
  PROVE  /\ ProductsOf(vendor) \cap Notes = {} /\ ProductsOf(vendor) \cap {"vrp", "huawei"} = {}
         /\ "s5720" \in ProductsOf(vendor) => vendor = "huawei"
         /\ ProductsOf(vendor) \cap {"1910", "1950", "5130"} # {} => vendor = "hpe"
         /\ "s4210" \in ProductsOf(vendor) => vendor = "3com"
         /\ vendor = "huawei" => ProductsOf(vendor) = {"s5720", "s9300"}
  BY DEF ProductsOf, Notes, Vendors

\* A genuine device is of a vendor, with one of its products and a note at most.
OneProduct(device, p, n) ==
    /\ device.vendor \in Vendors /\ device.model = p \cup n
    /\ p = {} \/ (\E x \in ProductsOf(device.vendor) : p = {x})
    /\ n \subseteq Notes

LEMMA GenuineIs ==
  ASSUME NEW device \in Records, Genuine(device)
  PROVE  \E p, n : OneProduct(device, p, n)
  <1>1. device.vendor \in Vendors /\ device.model \in Models
    BY DEF Records
  <1> DEFINE all == UNION {ProductsOf(v) : v \in Vendors}
  <1>2. PICK p \in Singles(all) : \E n \in Singles(Notes) : device.model = p \cup n
    BY <1>1 DEF Models
  <1>3. PICK n \in Singles(Notes) : device.model = p \cup n
    BY <1>2
  <1>4. all \cap Notes = {}
    BY ProductsAre
  <1>5. p = {} \/ \E x \in all : p = {x}
    BY DEF Singles
  <1> HIDE DEF all
  <1>6. n \subseteq Notes
    BY DEF Singles
  <1>7. device.model \subseteq ProductsOf(device.vendor) \cup Notes
    BY DEF Genuine
  <1>8. p = {} \/ \E x \in ProductsOf(device.vendor) : p = {x}
    BY <1>3, <1>4, <1>5, <1>7
  <1>9. QED BY <1>1, <1>3, <1>6, <1>8 DEF OneProduct

\* What an import stores of a row.
LEMMA ImportedIs ==
  ASSUME NEW device \in Records, NEW row, row = Imported(device)
  PROVE  /\ row.vendor = device.vendor /\ row.model = device.model
         /\ \E normal : /\ normal.vendor = NormalVendor(device) /\ normal.model = device.model
                        /\ row.driver = Resolve(normal)
         /\ row.driver \in {"ReadOnlyICMPDriver", "GenericSSHDriver", "HuaweiVRPDriver",
                            "HPComwareDriver", "HPEProCurveDriver", "EltexMESDriver",
                            "BulatBSDriver", "CiscoIOSDriver", "DellPowerConnectDriver"}
  <1> DEFINE normal == [device EXCEPT !.vendor = NormalVendor(device)]
  <1>1. /\ row.vendor = device.vendor /\ row.model = device.model /\ row.driver = Resolve(normal)
    BY DEF Imported, Records
  <1>2. normal.vendor = NormalVendor(device) /\ normal.model = device.model
    BY DEF Records
  <1> HIDE DEF normal
  <1>3. row.driver \in {"ReadOnlyICMPDriver", "GenericSSHDriver", "HuaweiVRPDriver",
                        "HPComwareDriver", "HPEProCurveDriver", "EltexMESDriver",
                        "BulatBSDriver", "CiscoIOSDriver", "DellPowerConnectDriver"}
    BY <1>1 DEF Resolve
  <1>4. QED BY <1>1, <1>2, <1>3

\* What the Excel inventory makes of a row.
LEMMA ReadIs ==
  ASSUME NEW device \in Records, NEW row, row = ReadFromExcel(device)
  PROVE  /\ row.vendor = ExcelVendor(device) /\ row.model = device.model
         /\ row.vendor \in {device.vendor, "hpe", "qtech", "d-link", "securitycode"}
         /\ \E written : /\ written.vendor = row.vendor /\ written.model = device.model
                         /\ <<row.driver, row.platform>> = Hints(written)
         /\ row.driver = None \/ row.driver \in DOMAIN DriverFamily
  <1> DEFINE written == [device EXCEPT !.vendor = ExcelVendor(device)]
  <1>1. /\ row.vendor = ExcelVendor(device) /\ row.model = device.model
        /\ row.driver = Hints(written)[1] /\ row.platform = Hints(written)[2]
    BY DEF ReadFromExcel, Records
  <1>2. written.vendor = ExcelVendor(device) /\ written.model = device.model
    BY DEF Records
  <1> HIDE DEF written
  <1>3. ExcelVendor(device) \in {device.vendor, "hpe", "qtech", "d-link", "securitycode"}
    BY DEF ExcelVendor
  <1>4. \A a, b : <<a, b>>[1] = a /\ <<a, b>>[2] = b
    OBVIOUS
  <1>5. \E a, b : Hints(written) = <<a, b>> /\ (a = None \/ a \in DOMAIN DriverFamily)
    BY DEF Hints, DriverFamily
  <1>6. /\ Hints(written) = <<row.driver, row.platform>>
        /\ row.driver = None \/ row.driver \in DOMAIN DriverFamily
    BY <1>1, <1>4, <1>5
  <1>7. QED BY <1>1, <1>2, <1>3, <1>6

\* Both inventories give a device that they know a driver of the same command.
LEMMA SameCommand ==
  ASSUME NEW device \in Records, Genuine(device),
         NEW row, row = Imported(device), NEW f, f = Match(row, None),
         NEW read, read = ReadFromExcel(device), NEW g, g = Match(read, None),
         f \notin Silent \cup {"generic_ssh"}, g \notin Silent \cup {"generic_ssh"}
  PROVE  f \in Displayed <=> g \in Displayed
  <1> DEFINE w == Words(device)
  <1>1. PICK p, n : OneProduct(device, p, n)
    BY GenuineIs
  <1>2. /\ row.vendor = device.vendor /\ row.model = p \cup n
        /\ row.driver \in {"ReadOnlyICMPDriver", "GenericSSHDriver", "HuaweiVRPDriver",
                           "HPComwareDriver", "HPEProCurveDriver", "EltexMESDriver",
                           "BulatBSDriver", "CiscoIOSDriver", "DellPowerConnectDriver"}
    BY <1>1, ImportedIs DEF OneProduct
  <1>3. PICK normal : /\ normal.vendor = NormalVendor(device) /\ normal.model = p \cup n
                      /\ row.driver = Resolve(normal)
    BY <1>1, ImportedIs DEF OneProduct
  <1>4. /\ read.vendor \in {device.vendor, "hpe", "qtech", "d-link", "securitycode"}
        /\ read.model = p \cup n
        /\ read.driver = None \/ read.driver \in DOMAIN DriverFamily
        /\ read.vendor = ExcelVendor(device)
    BY <1>1, ReadIs DEF OneProduct
  <1>5. PICK written : /\ written.vendor = read.vendor /\ written.model = p \cup n
                       /\ <<read.driver, read.platform>> = Hints(written)
    BY <1>1, ReadIs DEF OneProduct
  <1>6. f = DriverFamily[row.driver] /\ FamilyByText(row) = None
    <2>1. row.driver \in DOMAIN DriverFamily
      BY <1>2 DEF DriverFamily
    <2>2. row.driver # None
      BY <2>1, DriverDecisionAssumption
    <2>3. QED BY <2>1, <2>2, MatchOf, TextIsUnspecific
  <1>7. /\ FamilyByText(read) = None
        /\ g = IF read.driver # None THEN DriverFamily[read.driver] ELSE FamilyByPattern(read)
    BY <1>4, MatchOf, TextIsUnspecific
  <1>8. /\ device.vendor \in Vendors /\ device.vendor # "unknown"
        /\ n \subseteq {"security appliance", "unmanaged"}
        /\ p = {} \/ \E x \in ProductsOf(device.vendor) : p = {x}
    <2>1. /\ device.vendor \in Vendors /\ n \subseteq Notes
          /\ p = {} \/ \E x \in ProductsOf(device.vendor) : p = {x}
      BY <1>1 DEF OneProduct
    <2>2. None \notin {"icmp", "unknown", "non_switch", "limited_web", "generic_ssh"}
      BY FamiliesAre, DriverDecisionAssumption
    <2>3. device.vendor # "unknown"
      BY <1>2, <1>6, <2>2 DEF FamilyByText
    <2>4. n \cap {"icmp", "unknown product", "continent", "generic"} = {}
      <3>1. n \subseteq Text(row)
        BY <1>2 DEF Text, Words
      <3>2. Text(row) \cap {"icmp", "unknown product", "continent", "generic"} = {}
        BY <1>6, <2>2 DEF FamilyByText, Shows
      <3>3. QED BY <3>1, <3>2
    <2>5. QED BY <2>1, <2>3, <2>4 DEF Notes
  <1>9. /\ p \cap Notes = {} /\ p \cap {"vrp", "huawei"} = {}
        /\ "s5720" \in p => device.vendor = "huawei"
        /\ p \cap {"1910", "1950", "5130"} # {} => device.vendor = "hpe"
        /\ "s4210" \in p => device.vendor = "3com"
        /\ device.vendor = "huawei" => p \subseteq {"s5720", "s9300"}
    BY <1>8, ProductsAre
  <1>10. /\ read.vendor \in Vendors
         /\ read.vendor \notin Notes \cup {"s5720", "vrp", "1910", "1950", "5130", "s4210", "des1100"}
         /\ device.vendor \notin Notes \cup {"s5720", "s4210", "1910", "1950", "5130"}
    BY <1>4, <1>8 DEF Vendors, Notes
  <1>11. n = {}
    <2> SUFFICES ASSUME n # {} PROVE FALSE
      OBVIOUS
    <2>1. Words(written) = {read.vendor} \cup p \cup n
      BY <1>5 DEF Words
    <2>2. Words(written) \cap {"icmp", "unknown product", "generic"} = {}
      <3>1. \A x \in {"icmp", "unknown product", "generic"} :
              x \in Notes /\ x \notin {"security appliance", "unmanaged"}
        BY DEF Notes
      <3>2. QED BY <1>8, <1>9, <1>10, <2>1, <3>1
    <2>3. Words(written) \cap {"security appliance", "unmanaged"} # {}
      BY <1>8, <2>1
    <2>4. Hints(written) \in {<<"NonSwitchInventoryDriver", "non_switch">>,
                              <<"LimitedWebInventoryDriver", "limited_web">>}
      BY <2>2, <2>3 DEF Hints, Shows
    <2>5. read.driver \in {"NonSwitchInventoryDriver", "LimitedWebInventoryDriver"}
      BY <1>5, <2>4
    <2>6. read.driver \in DOMAIN DriverFamily /\ DriverFamily[read.driver] \in Silent
      BY <2>5 DEF DriverFamily, Silent
    <2>7. QED BY <1>7, <2>6, DriverDecisionAssumption
  <1>12. /\ Words(device) = {device.vendor} \cup p /\ Words(written) = {read.vendor} \cup p
         /\ Words(read) = {read.vendor} \cup p /\ Words(normal) = {NormalVendor(device)} \cup p
    BY <1>1, <1>3, <1>4, <1>5, <1>11 DEF Words, OneProduct
  <1>13. g \in Displayed => p \cap {"s5720", "1910", "1950", "5130", "s4210"} # {}
    <2> SUFFICES ASSUME g \in Displayed, p \cap {"s5720", "1910", "1950", "5130", "s4210"} = {}
                 PROVE  FALSE
      OBVIOUS
    <2>1. Words(read) \cap {"s5720", "vrp", "1910", "1950", "5130", "s4210"} = {}
      BY <1>9, <1>10, <1>12
    <2>2. CASE read.driver = None
      <3>1. g = FamilyByPattern(read)
        BY <1>7, <2>2
      <3>2. read.platform \notin Profiles[g].platforms
        <4>1. read.platform = None
          BY <1>5, <2>2, DriverDecisionAssumption DEF Hints, DriverFamily
        <4>2. QED BY <3>1, <4>1, PatternFinds, DriverDecisionAssumption
      <3>3. QED BY <2>1, <3>1, <3>2, PatternFinds, PatternsAre DEF Displayed, Shows
    <2>3. CASE read.driver # None
      <3>1. read.driver \in {"HuaweiVRPDriver", "HPComwareDriver"}
        BY <1>4, <1>7, <2>3 DEF DriverFamily, Displayed
      <3>2. Shows(Words(written), {"s5720", "vrp", "1910", "1950", "5130", "s4210"})
        BY <1>5, <2>3, <3>1, DriverDecisionAssumption DEF Hints, Shows, DriverFamily
      <3>3. QED BY <1>12, <2>1, <3>2 DEF Shows
    <2>4. QED BY <2>2, <2>3
  <1>14. /\ NormalVendor(device) = "huawei" <=> Shows(Words(device), {"huawei", "s5720"})
         /\ NormalVendor(device) \in Vendors \cup {"qsw", "continent", "icmp"}
         /\ device.vendor = "hpe" /\ p \subseteq {"1910", "1950", "5130"} => NormalVendor(device) = "hpe"
         /\ device.vendor = "3com" /\ p = {"s4210"} => NormalVendor(device) = "3com"
    <2>1. NormalVendor(device) \in Vendors \cup {"qsw", "continent", "icmp"}
      BY <1>8, VendorOf DEF Vendors
    <2>2. device.vendor = "hpe" /\ p \subseteq {"1910", "1950", "5130"} => NormalVendor(device) = "hpe"
      BY <1>12, VendorOf
    <2>3. device.vendor = "3com" /\ p = {"s4210"} => NormalVendor(device) = "3com"
      BY <1>12, VendorOf
    <2>4. QED BY <2>1, <2>2, <2>3, VendorOf
  <1>15. g \in Displayed => f \in Displayed
    <2> SUFFICES ASSUME g \in Displayed PROVE f \in Displayed
      OBVIOUS
    <2>1. PICK x \in {"s5720", "1910", "1950", "5130", "s4210"} : p = {x}
      BY <1>8, <1>13
    <2>2. CASE x = "s5720"
      <3>1. NormalVendor(device) = "huawei"
        BY <1>12, <1>14, <2>1, <2>2 DEF Shows
      <3>2. Words(normal) = {"huawei", "s5720"}
        BY <1>12, <2>1, <2>2, <3>1
      <3>3. row.driver = "HuaweiVRPDriver"
        BY <1>3, <3>2 DEF Resolve, Shows
      <3>4. QED BY <1>6, <3>3 DEF DriverFamily, Displayed
    <2>3. CASE x = "s4210"
      <3>1. Words(normal) = {"3com", "s4210"} /\ normal.vendor = "3com"
        BY <1>3, <1>9, <1>12, <1>14, <2>1, <2>3
      <3>2. row.driver = "HPComwareDriver"
        BY <1>3, <3>1 DEF Resolve, Shows
      <3>3. QED BY <1>6, <3>2 DEF DriverFamily, Displayed
    <2>4. CASE x \in {"1910", "1950", "5130"}
      <3>1. Words(normal) = {"hpe", x} /\ normal.vendor = "hpe"
        BY <1>3, <1>9, <1>12, <1>14, <2>1, <2>4
      <3>2. CASE x = "1950"
        <4>1. row.driver = "GenericSSHDriver"
          BY <1>3, <3>1, <3>2 DEF Resolve, Shows
        <4>2. QED BY <1>6, <4>1 DEF DriverFamily
      <3>3. CASE x \in {"1910", "5130"}
        <4>1. row.driver = "HPComwareDriver"
          BY <1>3, <3>1, <3>3 DEF Resolve, Shows
        <4>2. QED BY <1>6, <4>1 DEF DriverFamily, Displayed
      <3>4. QED BY <2>4, <3>2, <3>3
    <2>5. QED BY <2>1, <2>2, <2>3, <2>4
  <1>16. f \in Displayed => g \in Displayed
    <2> SUFFICES ASSUME f \in Displayed PROVE g \in Displayed
      OBVIOUS
    <2>1. row.driver \in {"HuaweiVRPDriver", "HPComwareDriver"}
      BY <1>2, <1>6 DEF DriverFamily, Displayed
    <2>2. NormalVendor(device) \notin {"s5720", "1910", "5130", "s4210"}
      BY <1>14 DEF Vendors
    <2>3. CASE row.driver = "HuaweiVRPDriver"
      <3>1. normal.vendor = "huawei" \/ "s5720" \in Words(normal)
        BY <1>3, <2>3 DEF Resolve, Shows
      <3>2. device.vendor = "huawei"
        <4>1. NormalVendor(device) = "huawei" \/ "s5720" \in p
          BY <1>3, <1>12, <2>2, <3>1
        <4>2. "s5720" \in p => device.vendor = "huawei"
          BY <1>9
        <4>3. CASE NormalVendor(device) = "huawei"
          <5>1. Words(device) \cap {"huawei", "s5720"} # {}
            BY <1>14, <4>3 DEF Shows
          <5>2. QED BY <1>9, <1>10, <1>12, <5>1
        <4>4. QED BY <4>1, <4>2, <4>3
      <3>3. p = {"s5720"} \/ p \subseteq {"s9300"}
        BY <1>8, <1>9, <3>2
      <3>4. read.vendor = "huawei"
        <4>1. Words(device) \subseteq {"huawei", "s5720", "s9300"}
          BY <1>12, <3>2, <3>3
        <4>2. device.model \subseteq {"s5720", "s9300"}
          BY <1>1, <1>11, <3>3 DEF OneProduct
        <4>3. QED BY <1>4, <3>2, <4>1, <4>2 DEF ExcelVendor, Shows
      <3>5. CASE p = {"s5720"}
        <4>1. Words(written) = {"huawei", "s5720"}
          BY <1>12, <3>4, <3>5
        <4>2. Hints(written) = <<"HuaweiVRPDriver", "vrp">>
          BY <4>1 DEF Hints, Shows
        <4>3. read.driver = "HuaweiVRPDriver"
          BY <1>5, <4>2
        <4>4. read.driver # None
          BY <4>3, DriverDecisionAssumption DEF DriverFamily
        <4>5. QED BY <1>7, <4>3, <4>4 DEF DriverFamily, Displayed
      <3>6. CASE p \subseteq {"s9300"}
        <4>1. Words(written) \subseteq {"huawei", "s9300"} /\ Words(read) \subseteq {"huawei", "s9300"}
          BY <1>12, <3>4, <3>6
        <4>2. Hints(written) = <<None, None>>
          BY <4>1 DEF Hints, Shows
        <4>3. read.driver = None /\ read.platform = None
          BY <1>5, <4>2
        <4>4. g = FamilyByPattern(read)
          BY <1>7, <4>3
        <4>5. g = "unknown"
          <5>1. g \in DeviceFamilies => ~Shows(Words(read), Profiles[g].models)
            BY <4>1, PatternsAre DEF Shows
          <5>2. g \in DeviceFamilies => read.platform \notin Profiles[g].platforms
            BY <4>3, DriverDecisionAssumption
          <5>3. QED BY <4>4, <5>1, <5>2, PatternFinds
        <4>6. QED BY <4>5 DEF Silent
      <3>7. QED BY <3>3, <3>5, <3>6
    <2>4. CASE row.driver = "HPComwareDriver"
      <3>1. Shows(Words(normal), {"1910", "5130", "s4210"})
        BY <1>3, <2>4 DEF Resolve, Shows
      <3>2. PICK x \in {"1910", "5130", "s4210"} : p = {x}
        BY <1>8, <1>12, <2>2, <3>1 DEF Shows
      <3>3. Words(written) = {read.vendor, x}
        BY <1>12, <3>2
      <3>4. Hints(written) = <<"HPComwareDriver", "comware">>
        <4>1. read.vendor \in Vendors
          BY <1>10
        <4>2. Words(written) \cap {"icmp", "unknown product", "continent", "security appliance",
                                   "des1100", "unmanaged", "generic", "qsw-3750", "s5720", "vrp",
                                   "catalyst", "1620", "procurve", "2530"} = {}
          BY <3>3, <4>1 DEF Vendors
        <4>3. "securitycode" \notin Words(written)
          <5>1. device.vendor \in {"hpe", "3com"}
            BY <1>9, <3>2
          <5>2. read.vendor = "hpe"
            BY <1>4, <5>1 DEF ExcelVendor
          <5>3. QED BY <3>3, <5>2
        <4>4. Shows(Words(written), {"1910", "1950", "5130", "s4210"})
          BY <3>3 DEF Shows
        <4>5. QED BY <4>2, <4>3, <4>4 DEF Hints, Shows
      <3>5. read.driver = "HPComwareDriver"
        BY <1>5, <3>4
      <3>6. read.driver # None
        BY <3>5, DriverDecisionAssumption DEF DriverFamily
      <3>7. QED BY <1>7, <3>5, <3>6 DEF DriverFamily, Displayed
    <2>5. QED BY <2>1, <2>3, <2>4
  <1>17. QED BY <1>15, <1>16

\* What is left of the lists of operations of a family that is not configured.
LEMMA RendersConfigured ==
  ASSUME NEW f \in DeviceFamilies, NEW op \in CandidateOperations \ {"read_backup"}, Renders(f, op)
  PROVE  f \in Candidates
  <1>1. op \in Contracts[f].operations
    BY DEF Renders
  <1>2. f \in Candidates \cup Readable \cup Silent
    BY FamiliesAre DEF Candidates, Readable, Silent
  <1>3. QED BY <1>1, <1>2, ContractsAre

\* A template is run in the session of its own family.
LEMMA TemplateSession ==
  ASSUME NEW device, device.driver = None \/ device.driver \in DOMAIN DriverFamily,
         NEW d, d = Decide(device, None), d.family \in Candidates
  PROVE  /\ Profiles[d.family].apply /\ LabTransport(d, FALSE) = "netmiko"
         /\ Contracts[d.family].fallback = d.fallback
         /\ NetmikoType(d) = NetmikoTypes[Profiles[d.family].driver]
  <1>1. d.transport = Profiles[d.family].transport /\ d.fallback = Profiles[d.family].fallback
    BY DecisionIs
  <1>2. d.transport = "netmiko"
    BY <1>1, ProfilesAre
  <1>3. LabTransport(d, FALSE) = "netmiko"
    BY <1>2 DEF LabTransport
  <1>4. TypeOfFamily(d)
    BY TypeIsOfFamily
  <1>5. QED BY <1>1, <1>3, <1>4, ConfigurableAre DEF TypeOfFamily

\* The tables that the code keeps apart agree on every genuine device: the command that
\* shows its configuration, the language of its VLAN commands and the session that they
\* are run in (DriverResolver.resolve, infer_runtime_hints, DriverCapabilityMatrix.decide,
\* VendorCommandTemplateService.render, _netmiko_device_type).
THEOREM TablesAreOne == Spec => []TablesAgree
  <1>1. AnswerIsSolution => TablesAgree
    <2> SUFFICES ASSUME AnswerIsSolution, Solved("driver"), Genuine(problem.device)
                 PROVE  TablesAgree
      BY DEF TablesAgree
    <2> DEFINE device == problem.device
               row    == Imported(device)
               read   == ReadFromExcel(device)
               table  == Decide(row, None)
               excel  == Decide(read, None)
    <2>1. device \in Records /\ answer.table = table /\ answer.excel = excel
      BY DriverProblem DEF Decisions
    <2>2. /\ row.driver \in DOMAIN DriverFamily
          /\ row.driver \in {"ReadOnlyICMPDriver", "GenericSSHDriver", "HuaweiVRPDriver",
                             "HPComwareDriver", "HPEProCurveDriver", "EltexMESDriver",
                             "BulatBSDriver", "CiscoIOSDriver", "DellPowerConnectDriver"}
      BY <2>1, ImportedIs DEF DriverFamily
    <2>3. read.driver = None \/ read.driver \in DOMAIN DriverFamily
      BY <2>1, ReadIs
    <2>4. Genuine(device)
      OBVIOUS
    <2> HIDE DEF device, row, read
    <2>5. /\ table.family = Match(row, None) /\ table.family \in DeviceFamilies
          /\ excel.family = Match(read, None) /\ excel.family \in DeviceFamilies
          /\ table.driver = row.driver
      <3>1. row.driver # None
        BY <2>2, DriverDecisionAssumption
      <3>2. table.driver = row.driver
        BY <3>1 DEF Decide, Decision
      <3>3. QED BY <3>2, DecisionIs
    <2>6. \A d : d.family \in Silent /\ (\E x, f : d = Decide(x, f)) => ~Specific(d)
      <3> SUFFICES ASSUME NEW d, d.family \in Silent, NEW x, NEW f, d = Decide(x, f)
                   PROVE  ~Specific(d)
        OBVIOUS
      <3>1. d = Decision(Match(x, f), x.driver) /\ Match(x, f) = d.family
        BY DecisionIs DEF Decide
      <3>2. QED BY <3>1, SilentHasNone DEF Specific
    <2>7. ASSUME Specific(table), Specific(excel)
          PROVE  Contracts[table.family].reads = Contracts[excel.family].reads
      <3>1. table.family \notin Silent \cup {"generic_ssh"} /\ excel.family \notin Silent \cup {"generic_ssh"}
        BY <2>6, <2>7 DEF Specific
      <3>2. table.family \in Displayed <=> excel.family \in Displayed
        BY <2>1, <2>4, <2>5, <3>1, SameCommand DEF row, read
      <3>3. \A f \in DeviceFamilies \ Silent : f \in Candidates \cup Readable
        BY FamiliesAre DEF Candidates, Readable, Silent
      <3>4. QED BY <2>5, <3>1, <3>2, <3>3, ReadsAre
    <2>8. ASSUME table.driver \in DOMAIN FamilyOf, Renders(table.family, "vlan_create")
          PROVE  FamilyOf[table.driver] = Dialect(table.family)
      <3>1. table.family \in Candidates
        BY <2>5, <2>8, RendersConfigured DEF CandidateOperations
      <3>2. table.family \notin Silent \cup {"generic_ssh"}
        BY <3>1 DEF Candidates, Silent
      <3>3. row.driver # None
        BY <2>2, DriverDecisionAssumption
      <3>4. table.family = DriverFamily[row.driver]
        BY <2>2, <2>5, <3>2, <3>3, MatchOf, TextIsUnspecific
      <3>5. QED BY <2>2, <2>5, <2>8, <3>4 DEF FamilyOf, DriverFamily, Dialect
    <2>9. \A op \in CandidateOperations \ {"read_backup"} :
             /\ Renders(table.family, op) => table.family \in Candidates
             /\ Renders(excel.family, op) => excel.family \in Candidates
      BY <2>5, RendersConfigured
    <2> DEFINE InSession(d) == /\ Profiles[d.family].apply /\ LabTransport(d, FALSE) = "netmiko"
                               /\ Contracts[d.family].fallback = d.fallback
                               /\ NetmikoType(d) = NetmikoTypes[Profiles[d.family].driver]
    <2>10. /\ table.family \in Candidates => InSession(table)
           /\ excel.family \in Candidates => InSession(excel)
      BY <2>2, <2>3, TemplateSession
    <2> HIDE DEF InSession, table, excel
    <2>11. \A d \in {table, excel}, op \in CandidateOperations \ {"read_backup"} :
             Renders(d.family, op) => InSession(d)
      BY <2>9, <2>10
    <2>12. QED BY <2>1, <2>7, <2>8, <2>11 DEF TablesAgree, InSession
  <1>2. QED BY <1>1, Solutions, PTL

-----------------------------------------------------------------------------
(* Cleaned output                                                          *)

\* What is made of the subsets of 1 .. N by those steps, as far as it is in S.
FoldsBy(f, S, base, N, step) ==
    /\ f[{}] = base
    /\ \A T \in SUBSET (1 .. N) :
          T # {} /\ f[T \ {Max(T)}] \in S => f[T] = step[Max(T)][f[T \ {Max(T)}]]

\* The folds of the beginnings of a sequence are a run.
LEMMA FoldRuns ==
  ASSUME NEW S, NEW base \in S, NEW N \in Nat, NEW step \in StepsOn(S, N), NEW f,
         FoldsBy(f, S, base, N, step)
  PROVE  IsRun([n \in 0 .. N |-> f[1 .. n]], S, base, N, step)
  <1> DEFINE Typed(n) == f[1 .. n] \in S
             Good     == {n \in Nat : n <= N => Typed(n)}
  <1>1. \A n \in 1 .. N : f[1 .. n - 1] \in S => f[1 .. n] = step[n][f[1 .. n - 1]]
    <2> SUFFICES ASSUME NEW n \in 1 .. N, f[1 .. n - 1] \in S
                 PROVE  f[1 .. n] = step[n][f[1 .. n - 1]]
      OBVIOUS
    <2> DEFINE T == 1 .. n
    <2>1. T # {} /\ Max(T) = n /\ T \ {n} = 1 .. n - 1
      <3>1. n - 1 \in Nat /\ (n - 1) + 1 = n
        OBVIOUS
      <3>2. QED BY <3>1, FoldOfNext
    <2>2. T \in SUBSET (1 .. N)
      OBVIOUS
    <2> HIDE DEF T
    <2>3. QED BY <2>1, <2>2 DEF T, FoldsBy
  <1>2. 0 \in Good
    <2>1. 1 .. 0 = {}
      OBVIOUS
    <2>2. QED BY <2>1 DEF FoldsBy
  <1>3. \A n \in Nat : n \in Good => n + 1 \in Good
    <2> HIDE DEF Typed
    <2> SUFFICES ASSUME NEW n \in Nat, n \in Good, n + 1 <= N PROVE Typed(n + 1)
      OBVIOUS
    <2>1. n + 1 \in 1 .. N /\ (n + 1) - 1 = n /\ f[1 .. n] \in S
      BY DEF Typed
    <2>2. f[1 .. n + 1] = step[n + 1][f[1 .. n]]
      BY <1>1, <2>1
    <2>3. step[n + 1] \in [S -> S]
      BY <2>1 DEF StepsOn
    <2>4. QED BY <2>1, <2>2, <2>3 DEF Typed
  <1> HIDE DEF Good
  <1>4. \A n \in 0 .. N : n \in Good
    BY <1>2, <1>3, SetInduction
  <1>5. \A n \in 0 .. N : f[1 .. n] \in S
    BY <1>4 DEF Good
  <1>6. 1 .. 0 = {}
    OBVIOUS
  <1>7. QED BY <1>1, <1>5, <1>6 DEF IsRun, FoldsBy

\* Two runs by the same steps are one, as far as both go.
LEMMA RunsAgree ==
  ASSUME NEW S, NEW base, NEW N \in Nat, NEW M \in Nat, N <= M,
         NEW step, NEW more, \A n \in 1 .. N : more[n] = step[n],
         NEW g, IsRun(g, S, base, N, step), NEW h, IsRun(h, S, base, M, more)
  PROVE  g[N] = h[N]
  <1> DEFINE Good == {n \in Nat : n <= N => g[n] = h[n]}
  <1>1. 0 \in Good
    BY DEF IsRun
  <1>2. \A n \in Nat : n \in Good => n + 1 \in Good
    <2> SUFFICES ASSUME NEW n \in Nat, n \in Good, n + 1 <= N PROVE g[n + 1] = h[n + 1]
      OBVIOUS
    <2>1. n + 1 \in 1 .. N /\ n + 1 \in 1 .. M /\ (n + 1) - 1 = n /\ g[n] = h[n]
      OBVIOUS
    <2>2. g[n + 1] = step[n + 1][g[n]] /\ h[n + 1] = more[n + 1][h[n]]
      BY <2>1 DEF IsRun
    <2>3. QED BY <2>1, <2>2
  <1> HIDE DEF Good
  <1>3. N \in Good
    BY <1>1, <1>2, SetInduction
  <1>4. QED BY <1>3 DEF Good

\* The steps of the three passes over the lines.
Unmarked(kept, line) ==
    IF line = "marker" THEN kept ELSE Append(kept, IF line = "erased" THEN "blank" ELSE line)
Single(kept, line) ==
    IF line = "blank" /\ (kept = <<>> \/ kept[Len(kept)] = "blank") THEN kept
    ELSE Append(kept, line)
Visible(kept, line) == IF line = "blank" THEN kept ELSE Append(kept, line)

\* A pass is a run over the lines, from nothing on.
Lines(L) == Seq(L \cup {"blank"})
UnmarkedSteps(L, s) == [n \in 1 .. Len(s) |-> [kept \in Lines(L) |-> Unmarked(kept, s[n])]]
SingleSteps(L, s)   == [n \in 1 .. Len(s) |-> [kept \in Lines(L) |-> Single(kept, s[n])]]
VisibleSteps(L, s)  == [n \in 1 .. Len(s) |-> [kept \in Lines(L) |-> Visible(kept, s[n])]]

\* SingleBlanks but for the lines at the end.
Shrunk(lines) == FoldLeft(Single, <<>>, lines)

LEMMA UnmarkedRuns ==
  ASSUME NEW L, NEW s \in Lines(L)
  PROVE  /\ UnmarkedSteps(L, s) \in StepsOn(Lines(L), Len(s))
         /\ \E g : /\ IsRun(g, Lines(L), <<>>, Len(s), UnmarkedSteps(L, s))
                   /\ StripMarkers(s) = g[Len(s)]
  <1> DEFINE N == Len(s)
             S == Lines(L)
             base == <<>>
             more(kept, line) == Unmarked(kept, line)
             step == UnmarkedSteps(L, s)
             next(f) == [T \in SUBSET DOMAIN s |->
                           IF T = {} THEN base ELSE more(f[T \ {Max(T)}], s[Max(T)])]
             fold == CHOOSE f : f = next(f)
  <1>1. N \in Nat /\ DOMAIN s = 1 .. N /\ base \in S
    BY DEF Lines
  <1>2. StripMarkers(s) = fold[1 .. N]
    <2>1. StripMarkers(s) = fold[DOMAIN s]
      BY Zenon DEF StripMarkers, Unmarked, FoldLeft, MapThenFoldSet
    <2> HIDE DEF fold, N
    <2>2. QED BY <1>1, <2>1
  <1>3. \A n \in 1 .. N : \A kept \in S : more(kept, s[n]) \in S
    BY DEF Lines, Unmarked
  <1>4. \A n \in 1 .. N : step[n] \in [S -> S] /\ \A kept \in S : step[n][kept] = more(kept, s[n])
    <2> HIDE DEF S, more
    <2>1. step = [n \in 1 .. N |-> [kept \in S |-> more(kept, s[n])]]
      BY DEF UnmarkedSteps, more, S
    <2> HIDE DEF step
    <2>2. QED BY <1>3, <2>1
  <1>5. step \in StepsOn(S, N)
    BY <1>4 DEF StepsOn, UnmarkedSteps
  <1> HIDE DEF S, more, base, step, N
  <1>6. \E f : f = next(f)
    <2>1. PICK f : IsFold(f, S, base, N, step)
      BY ONLY <1>1, <1>5, FoldExists
    <2>2. \A T \in SUBSET (1 .. N) : T # {} =>
            step[Max(T)][f[T \ {Max(T)}]] = more(f[T \ {Max(T)}], s[Max(T)])
      <3> TAKE T \in SUBSET (1 .. N)
      <3>1. T # {} => Max(T) \in 1 .. N
        BY <1>1, GreatestIn
      <3>2. f[T \ {Max(T)}] \in S
        BY <2>1 DEF IsFold
      <3>3. QED BY <1>4, <3>1, <3>2
    <2>3. f = next(f)
      BY <1>1, <2>1, <2>2 DEF IsFold
    <2>4. QED BY <2>3
  <1>7. fold = next(fold)
    BY <1>6
  <1> HIDE DEF fold
  <1>8. fold[{}] = base
    BY <1>7
  <1>9. \A T \in SUBSET (1 .. N) :
          T # {} /\ fold[T \ {Max(T)}] \in S => fold[T] = step[Max(T)][fold[T \ {Max(T)}]]
    <2> SUFFICES ASSUME NEW T \in SUBSET (1 .. N), T # {}, fold[T \ {Max(T)}] \in S
                 PROVE  fold[T] = step[Max(T)][fold[T \ {Max(T)}]]
      OBVIOUS
    <2>1. Max(T) \in 1 .. N
      BY <1>1, GreatestIn
    <2>2. fold[T] = more(fold[T \ {Max(T)}], s[Max(T)])
      BY <1>1, <1>7
    <2>3. QED BY <1>4, <2>1, <2>2
  <1>10. IsRun([n \in 0 .. N |-> fold[1 .. n]], S, base, N, step)
    <2>1. FoldsBy(fold, S, base, N, step)
      BY <1>8, <1>9 DEF FoldsBy
    <2>2. QED BY ONLY <1>1, <1>5, <2>1, FoldRuns
  <1>11. [n \in 0 .. N |-> fold[1 .. n]][N] = fold[1 .. N]
    BY <1>1
  <1>12. \E g : IsRun(g, S, base, N, step) /\ StripMarkers(s) = g[N]
    BY <1>2, <1>10, <1>11
  <1>13. QED BY <1>5, <1>12 DEF S, base, N, step

LEMMA SingleRuns ==
  ASSUME NEW L, NEW s \in Lines(L)
  PROVE  /\ SingleSteps(L, s) \in StepsOn(Lines(L), Len(s))
         /\ \E g : /\ IsRun(g, Lines(L), <<>>, Len(s), SingleSteps(L, s))
                   /\ Shrunk(s) = g[Len(s)]
  <1> DEFINE N == Len(s)
             S == Lines(L)
             base == <<>>
             more(kept, line) == Single(kept, line)
             step == SingleSteps(L, s)
             next(f) == [T \in SUBSET DOMAIN s |->
                           IF T = {} THEN base ELSE more(f[T \ {Max(T)}], s[Max(T)])]
             fold == CHOOSE f : f = next(f)
  <1>1. N \in Nat /\ DOMAIN s = 1 .. N /\ base \in S
    BY DEF Lines
  <1>2. Shrunk(s) = fold[1 .. N]
    <2>1. Shrunk(s) = fold[DOMAIN s]
      BY Zenon DEF Shrunk, Single, FoldLeft, MapThenFoldSet
    <2> HIDE DEF fold, N
    <2>2. QED BY <1>1, <2>1
  <1>3. \A n \in 1 .. N : \A kept \in S : more(kept, s[n]) \in S
    BY DEF Lines, Single
  <1>4. \A n \in 1 .. N : step[n] \in [S -> S] /\ \A kept \in S : step[n][kept] = more(kept, s[n])
    <2> HIDE DEF S, more
    <2>1. step = [n \in 1 .. N |-> [kept \in S |-> more(kept, s[n])]]
      BY DEF SingleSteps, more, S
    <2> HIDE DEF step
    <2>2. QED BY <1>3, <2>1
  <1>5. step \in StepsOn(S, N)
    BY <1>4 DEF StepsOn, SingleSteps
  <1> HIDE DEF S, more, base, step, N
  <1>6. \E f : f = next(f)
    <2>1. PICK f : IsFold(f, S, base, N, step)
      BY ONLY <1>1, <1>5, FoldExists
    <2>2. \A T \in SUBSET (1 .. N) : T # {} =>
            step[Max(T)][f[T \ {Max(T)}]] = more(f[T \ {Max(T)}], s[Max(T)])
      <3> TAKE T \in SUBSET (1 .. N)
      <3>1. T # {} => Max(T) \in 1 .. N
        BY <1>1, GreatestIn
      <3>2. f[T \ {Max(T)}] \in S
        BY <2>1 DEF IsFold
      <3>3. QED BY <1>4, <3>1, <3>2
    <2>3. f = next(f)
      BY <1>1, <2>1, <2>2 DEF IsFold
    <2>4. QED BY <2>3
  <1>7. fold = next(fold)
    BY <1>6
  <1> HIDE DEF fold
  <1>8. fold[{}] = base
    BY <1>7
  <1>9. \A T \in SUBSET (1 .. N) :
          T # {} /\ fold[T \ {Max(T)}] \in S => fold[T] = step[Max(T)][fold[T \ {Max(T)}]]
    <2> SUFFICES ASSUME NEW T \in SUBSET (1 .. N), T # {}, fold[T \ {Max(T)}] \in S
                 PROVE  fold[T] = step[Max(T)][fold[T \ {Max(T)}]]
      OBVIOUS
    <2>1. Max(T) \in 1 .. N
      BY <1>1, GreatestIn
    <2>2. fold[T] = more(fold[T \ {Max(T)}], s[Max(T)])
      BY <1>1, <1>7
    <2>3. QED BY <1>4, <2>1, <2>2
  <1>10. IsRun([n \in 0 .. N |-> fold[1 .. n]], S, base, N, step)
    <2>1. FoldsBy(fold, S, base, N, step)
      BY <1>8, <1>9 DEF FoldsBy
    <2>2. QED BY ONLY <1>1, <1>5, <2>1, FoldRuns
  <1>11. [n \in 0 .. N |-> fold[1 .. n]][N] = fold[1 .. N]
    BY <1>1
  <1>12. \E g : IsRun(g, S, base, N, step) /\ Shrunk(s) = g[N]
    BY <1>2, <1>10, <1>11
  <1>13. QED BY <1>5, <1>12 DEF S, base, N, step

LEMMA VisibleRuns ==
  ASSUME NEW L, NEW s \in Lines(L)
  PROVE  /\ VisibleSteps(L, s) \in StepsOn(Lines(L), Len(s))
         /\ \E g : /\ IsRun(g, Lines(L), <<>>, Len(s), VisibleSteps(L, s))
                   /\ NotBlank(s) = g[Len(s)]
  <1> DEFINE N == Len(s)
             S == Lines(L)
             base == <<>>
             more(kept, line) == Visible(kept, line)
             step == VisibleSteps(L, s)
             next(f) == [T \in SUBSET DOMAIN s |->
                           IF T = {} THEN base ELSE more(f[T \ {Max(T)}], s[Max(T)])]
             fold == CHOOSE f : f = next(f)
  <1>1. N \in Nat /\ DOMAIN s = 1 .. N /\ base \in S
    BY DEF Lines
  <1>2. NotBlank(s) = fold[1 .. N]
    <2>1. NotBlank(s) = fold[DOMAIN s]
      BY Zenon DEF NotBlank, Visible, FoldLeft, MapThenFoldSet
    <2> HIDE DEF fold, N
    <2>2. QED BY <1>1, <2>1
  <1>3. \A n \in 1 .. N : \A kept \in S : more(kept, s[n]) \in S
    BY DEF Lines, Visible
  <1>4. \A n \in 1 .. N : step[n] \in [S -> S] /\ \A kept \in S : step[n][kept] = more(kept, s[n])
    <2> HIDE DEF S, more
    <2>1. step = [n \in 1 .. N |-> [kept \in S |-> more(kept, s[n])]]
      BY DEF VisibleSteps, more, S
    <2> HIDE DEF step
    <2>2. QED BY <1>3, <2>1
  <1>5. step \in StepsOn(S, N)
    BY <1>4 DEF StepsOn, VisibleSteps
  <1> HIDE DEF S, more, base, step, N
  <1>6. \E f : f = next(f)
    <2>1. PICK f : IsFold(f, S, base, N, step)
      BY ONLY <1>1, <1>5, FoldExists
    <2>2. \A T \in SUBSET (1 .. N) : T # {} =>
            step[Max(T)][f[T \ {Max(T)}]] = more(f[T \ {Max(T)}], s[Max(T)])
      <3> TAKE T \in SUBSET (1 .. N)
      <3>1. T # {} => Max(T) \in 1 .. N
        BY <1>1, GreatestIn
      <3>2. f[T \ {Max(T)}] \in S
        BY <2>1 DEF IsFold
      <3>3. QED BY <1>4, <3>1, <3>2
    <2>3. f = next(f)
      BY <1>1, <2>1, <2>2 DEF IsFold
    <2>4. QED BY <2>3
  <1>7. fold = next(fold)
    BY <1>6
  <1> HIDE DEF fold
  <1>8. fold[{}] = base
    BY <1>7
  <1>9. \A T \in SUBSET (1 .. N) :
          T # {} /\ fold[T \ {Max(T)}] \in S => fold[T] = step[Max(T)][fold[T \ {Max(T)}]]
    <2> SUFFICES ASSUME NEW T \in SUBSET (1 .. N), T # {}, fold[T \ {Max(T)}] \in S
                 PROVE  fold[T] = step[Max(T)][fold[T \ {Max(T)}]]
      OBVIOUS
    <2>1. Max(T) \in 1 .. N
      BY <1>1, GreatestIn
    <2>2. fold[T] = more(fold[T \ {Max(T)}], s[Max(T)])
      BY <1>1, <1>7
    <2>3. QED BY <1>4, <2>1, <2>2
  <1>10. IsRun([n \in 0 .. N |-> fold[1 .. n]], S, base, N, step)
    <2>1. FoldsBy(fold, S, base, N, step)
      BY <1>8, <1>9 DEF FoldsBy
    <2>2. QED BY ONLY <1>1, <1>5, <2>1, FoldRuns
  <1>11. [n \in 0 .. N |-> fold[1 .. n]][N] = fold[1 .. N]
    BY <1>1
  <1>12. \E g : IsRun(g, S, base, N, step) /\ NotBlank(s) = g[N]
    BY <1>2, <1>10, <1>11
  <1>13. QED BY <1>5, <1>12 DEF S, base, N, step

\* The first N steps are the same.
GoesOn(step, more, N) == \A n \in 1 .. N : more[n] = step[n]

\* A run that goes one step further.
StepFrom(g, h, S, N, more) == g[N] \in S /\ h[N + 1] = more[N + 1][g[N]]

LEMMA RunGoesOn ==
  ASSUME NEW S, NEW base \in S, NEW N \in Nat, NEW step, NEW more,
         GoesOn(step, more, N),
         NEW g, IsRun(g, S, base, N, step), NEW h, IsRun(h, S, base, N + 1, more)
  PROVE  StepFrom(g, h, S, N, more)
  <1>1. N + 1 \in Nat /\ N <= N + 1 /\ N + 1 \in 1 .. N + 1 /\ (N + 1) - 1 = N
    OBVIOUS
  <1>2. g[N] = h[N]
    BY <1>1, RunsAgree DEF GoesOn
  <1>3. h[N + 1] = more[N + 1][h[N]]
    BY <1>1 DEF IsRun
  <1>4. QED BY <1>1, <1>2, <1>3 DEF IsRun, StepFrom

\* The pass over one more line.
LEMMA UnmarkedNext ==
  ASSUME NEW L, NEW s \in Lines(L), NEW x \in L \cup {"blank"}
  PROVE  /\ StripMarkers(s) \in Lines(L)
         /\ StripMarkers(Append(s, x)) = Unmarked(StripMarkers(s), x)
  <1> DEFINE N == Len(s)
             S == Lines(L)
             base == <<>>
             t == Append(s, x)
             step == UnmarkedSteps(L, s)
             more == UnmarkedSteps(L, t)
  <1>1. /\ N \in Nat /\ t \in Lines(L) /\ Len(t) = N + 1 /\ t[N + 1] = x
        /\ \A n \in 1 .. N : t[n] = s[n]
    BY DEF Lines
  <1>2. base \in S
    BY DEF Lines
  <1> HIDE DEF t, N, base
  <1>3. PICK g : IsRun(g, S, base, N, step) /\ StripMarkers(s) = g[N]
    BY UnmarkedRuns DEF N, base
  <1>4. PICK h : IsRun(h, S, base, N + 1, more) /\ StripMarkers(t) = h[N + 1]
    BY <1>1, UnmarkedRuns DEF base
  <1>5. /\ \A n \in 1 .. N : more[n] = step[n]
        /\ \A kept \in S : more[N + 1][kept] = Unmarked(kept, x)
    <2> HIDE DEF S
    <2>1. step = [n \in 1 .. N |-> [kept \in S |-> Unmarked(kept, s[n])]]
      BY DEF UnmarkedSteps, S, N
    <2>2. more = [n \in 1 .. N + 1 |-> [kept \in S |-> Unmarked(kept, t[n])]]
      BY <1>1 DEF UnmarkedSteps, S
    <2> HIDE DEF step, more
    <2>3. \A n \in 1 .. N : n \in 1 .. N + 1
      BY <1>1
    <2>4. N + 1 \in 1 .. N + 1
      BY <1>1
    <2>5. QED BY <1>1, <2>1, <2>2, <2>3, <2>4
  <1> HIDE DEF S, step, more
  <1>6. g[N] \in S /\ h[N + 1] = more[N + 1][g[N]]
    <2>1. /\ N \in Nat /\ IsRun(g, S, base, N, step) /\ IsRun(h, S, base, N + 1, more)
          /\ GoesOn(step, more, N)
      BY <1>1, <1>3, <1>4, <1>5 DEF GoesOn
    <2>2. StepFrom(g, h, S, N, more)
      BY ONLY <1>2, <2>1, RunGoesOn
    <2>3. QED BY <2>2 DEF StepFrom
  <1>7. QED BY <1>3, <1>4, <1>5, <1>6 DEF S, t

LEMMA SingleNext ==
  ASSUME NEW L, NEW s \in Lines(L), NEW x \in L \cup {"blank"}
  PROVE  /\ Shrunk(s) \in Lines(L)
         /\ Shrunk(Append(s, x)) = Single(Shrunk(s), x)
  <1> DEFINE N == Len(s)
             S == Lines(L)
             base == <<>>
             t == Append(s, x)
             step == SingleSteps(L, s)
             more == SingleSteps(L, t)
  <1>1. /\ N \in Nat /\ t \in Lines(L) /\ Len(t) = N + 1 /\ t[N + 1] = x
        /\ \A n \in 1 .. N : t[n] = s[n]
    BY DEF Lines
  <1>2. base \in S
    BY DEF Lines
  <1> HIDE DEF t, N, base
  <1>3. PICK g : IsRun(g, S, base, N, step) /\ Shrunk(s) = g[N]
    BY SingleRuns DEF N, base
  <1>4. PICK h : IsRun(h, S, base, N + 1, more) /\ Shrunk(t) = h[N + 1]
    BY <1>1, SingleRuns DEF base
  <1>5. /\ \A n \in 1 .. N : more[n] = step[n]
        /\ \A kept \in S : more[N + 1][kept] = Single(kept, x)
    <2> HIDE DEF S
    <2>1. step = [n \in 1 .. N |-> [kept \in S |-> Single(kept, s[n])]]
      BY DEF SingleSteps, S, N
    <2>2. more = [n \in 1 .. N + 1 |-> [kept \in S |-> Single(kept, t[n])]]
      BY <1>1 DEF SingleSteps, S
    <2> HIDE DEF step, more
    <2>3. \A n \in 1 .. N : n \in 1 .. N + 1
      BY <1>1
    <2>4. N + 1 \in 1 .. N + 1
      BY <1>1
    <2>5. QED BY <1>1, <2>1, <2>2, <2>3, <2>4
  <1> HIDE DEF S, step, more
  <1>6. g[N] \in S /\ h[N + 1] = more[N + 1][g[N]]
    <2>1. /\ N \in Nat /\ IsRun(g, S, base, N, step) /\ IsRun(h, S, base, N + 1, more)
          /\ GoesOn(step, more, N)
      BY <1>1, <1>3, <1>4, <1>5 DEF GoesOn
    <2>2. StepFrom(g, h, S, N, more)
      BY ONLY <1>2, <2>1, RunGoesOn
    <2>3. QED BY <2>2 DEF StepFrom
  <1>7. QED BY <1>3, <1>4, <1>5, <1>6 DEF S, t

LEMMA VisibleNext ==
  ASSUME NEW L, NEW s \in Lines(L), NEW x \in L \cup {"blank"}
  PROVE  /\ NotBlank(s) \in Lines(L)
         /\ NotBlank(Append(s, x)) = Visible(NotBlank(s), x)
  <1> DEFINE N == Len(s)
             S == Lines(L)
             base == <<>>
             t == Append(s, x)
             step == VisibleSteps(L, s)
             more == VisibleSteps(L, t)
  <1>1. /\ N \in Nat /\ t \in Lines(L) /\ Len(t) = N + 1 /\ t[N + 1] = x
        /\ \A n \in 1 .. N : t[n] = s[n]
    BY DEF Lines
  <1>2. base \in S
    BY DEF Lines
  <1> HIDE DEF t, N, base
  <1>3. PICK g : IsRun(g, S, base, N, step) /\ NotBlank(s) = g[N]
    BY VisibleRuns DEF N, base
  <1>4. PICK h : IsRun(h, S, base, N + 1, more) /\ NotBlank(t) = h[N + 1]
    BY <1>1, VisibleRuns DEF base
  <1>5. /\ \A n \in 1 .. N : more[n] = step[n]
        /\ \A kept \in S : more[N + 1][kept] = Visible(kept, x)
    <2> HIDE DEF S
    <2>1. step = [n \in 1 .. N |-> [kept \in S |-> Visible(kept, s[n])]]
      BY DEF VisibleSteps, S, N
    <2>2. more = [n \in 1 .. N + 1 |-> [kept \in S |-> Visible(kept, t[n])]]
      BY <1>1 DEF VisibleSteps, S
    <2> HIDE DEF step, more
    <2>3. \A n \in 1 .. N : n \in 1 .. N + 1
      BY <1>1
    <2>4. N + 1 \in 1 .. N + 1
      BY <1>1
    <2>5. QED BY <1>1, <2>1, <2>2, <2>3, <2>4
  <1> HIDE DEF S, step, more
  <1>6. g[N] \in S /\ h[N + 1] = more[N + 1][g[N]]
    <2>1. /\ N \in Nat /\ IsRun(g, S, base, N, step) /\ IsRun(h, S, base, N + 1, more)
          /\ GoesOn(step, more, N)
      BY <1>1, <1>3, <1>4, <1>5 DEF GoesOn
    <2>2. StepFrom(g, h, S, N, more)
      BY ONLY <1>2, <2>1, RunGoesOn
    <2>3. QED BY <2>2 DEF StepFrom
  <1>7. QED BY <1>3, <1>4, <1>5, <1>6 DEF S, t

\* Of no lines there is nothing.
LEMMA NothingOfNothing == StripMarkers(<<>>) = <<>> /\ Shrunk(<<>>) = <<>> /\ NotBlank(<<>>) = <<>>
  <1>1. <<>> \in Lines({}) /\ Len(<<>>) = 0
    BY DEF Lines
  <1>2. PICK g : IsRun(g, Lines({}), <<>>, 0, UnmarkedSteps({}, <<>>)) /\ StripMarkers(<<>>) = g[0]
    BY <1>1, UnmarkedRuns
  <1>3. PICK h : IsRun(h, Lines({}), <<>>, 0, SingleSteps({}, <<>>)) /\ Shrunk(<<>>) = h[0]
    BY <1>1, SingleRuns
  <1>4. PICK k : IsRun(k, Lines({}), <<>>, 0, VisibleSteps({}, <<>>)) /\ NotBlank(<<>>) = k[0]
    BY <1>1, VisibleRuns
  <1>5. QED BY <1>2, <1>3, <1>4 DEF IsRun

\* What holds of no lines, and of one line more, holds of all.
LEMMA LinesInduction ==
  ASSUME NEW L, NEW P, <<>> \in P,
         \A s \in Lines(L), x \in L \cup {"blank"} : s \in P => Append(s, x) \in P
  PROVE  Lines(L) \subseteq P
  <1> DEFINE All(n) == \A s \in Lines(L) : Len(s) = n => s \in P
             Good   == {n \in Nat : All(n)}
  <1>1. 0 \in Good
    <2>1. \A s \in Lines(L) : Len(s) = 0 => s = <<>>
      BY DEF Lines
    <2>2. QED BY <2>1
  <1>2. \A n \in Nat : n \in Good => n + 1 \in Good
    <2> SUFFICES ASSUME NEW n \in Nat, All(n), NEW s \in Lines(L), Len(s) = n + 1 PROVE s \in P
      OBVIOUS
    <2> DEFINE front == SubSeq(s, 1, n)
               last  == s[n + 1]
    <2>1. front \in Lines(L) /\ Len(front) = n /\ last \in L \cup {"blank"} /\ s = Append(front, last)
      BY DEF Lines
    <2> HIDE DEF front, last
    <2>2. front \in P
      BY <2>1
    <2>3. QED BY <2>1, <2>2
  <1> HIDE DEF Good, All
  <1>3. \A n \in Nat : n \in Good
    BY <1>1, <1>2, SetInduction
  <1>4. \A s \in Lines(L) : Len(s) \in Nat
    BY DEF Lines
  <1>5. QED BY <1>3, <1>4 DEF Good, All

\* How lines are put together.
LEMMA NoLines ==
  ASSUME NEW L, NEW a \in Lines(L)
  PROVE  <<>> \in Lines(L) /\ a \o <<>> = a /\ <<>> \o a = a /\ Len(a) \in Nat
  BY DEF Lines

LEMMA LinesAppended ==
  ASSUME NEW L, NEW a \in Lines(L), NEW x \in L \cup {"blank"}
  PROVE  Append(a, x) \in Lines(L) /\ Append(a, x) # <<>>
  BY DEF Lines

LEMMA LineAppended ==
  ASSUME NEW L, NEW a \in Lines(L), NEW x \in L \cup {"blank"}
  PROVE  <<x>> \in Lines(L) /\ Append(a, x) = a \o <<x>>
  BY DEF Lines

LEMMA LinesJoined ==
  ASSUME NEW L, NEW a \in Lines(L), NEW b \in Lines(L)
  PROVE  /\ a \o b \in Lines(L) /\ Len(a \o b) = Len(a) + Len(b)
         /\ \A x \in L \cup {"blank"} : a \o Append(b, x) = Append(a \o b, x)
  BY DEF Lines

JoinAlike(a, b, c) == (a \o b) \o c = a \o (b \o c)

LEMMA JoinedTwice ==
  ASSUME NEW L, NEW a \in Lines(L), NEW b \in Lines(L), NEW c \in Lines(L)
  PROVE  JoinAlike(a, b, c)
  BY DEF Lines, JoinAlike

BlankOnly(s) == \A i \in 1 .. Len(s) : s[i] = "blank"
Plain(s)     == \A i \in 1 .. Len(s) : s[i] \notin {"marker", "erased"}

\* No blank line first, or after another one.
Compact(s) == \A i \in 1 .. Len(s) : s[i] = "blank" => i > 1 /\ s[i - 1] # "blank"

\* What is said of the lines so far, and of one line more.
LEMMA OneMore ==
  ASSUME NEW L, NEW s \in Lines(L), NEW x \in L \cup {"blank"}
  PROVE  /\ BlankOnly(Append(s, x)) <=> BlankOnly(s) /\ x = "blank"
         /\ Plain(Append(s, x)) <=> Plain(s) /\ x \notin {"marker", "erased"}
         /\ Compact(Append(s, x)) <=>
              Compact(s) /\ (x = "blank" => s # <<>> /\ s[Len(s)] # "blank")
  <1> DEFINE t == Append(s, x)
             N == Len(s)
  <1>1. /\ N \in Nat /\ Len(t) = N + 1 /\ t[N + 1] = x /\ \A i \in 1 .. N : t[i] = s[i]
        /\ N = 0 <=> s = <<>>
    BY DEF Lines
  <1> HIDE DEF t, N
  <1>2. BlankOnly(t) <=> BlankOnly(s) /\ x = "blank"
    BY <1>1 DEF BlankOnly, N
  <1>3. Plain(t) <=> Plain(s) /\ x \notin {"marker", "erased"}
    BY <1>1 DEF Plain, N
  <1>4. Compact(t) <=> Compact(s) /\ (x = "blank" => s # <<>> /\ s[N] # "blank")
    <2>1. \A i \in 1 .. N : i > 1 => t[i - 1] = s[i - 1]
      BY <1>1
    <2>2. Compact(t) => Compact(s)
      BY <1>1, <2>1 DEF Compact, N
    <2>3. Compact(t) /\ x = "blank" => N + 1 > 1 /\ t[N] # "blank"
      <3>1. N + 1 \in 1 .. Len(t) /\ (N + 1) - 1 = N
        BY <1>1
      <3>2. QED BY <1>1, <3>1 DEF Compact
    <2>4. Compact(s) /\ (x = "blank" => s # <<>> /\ s[N] # "blank") => Compact(t)
      <3> SUFFICES ASSUME Compact(s), x = "blank" => s # <<>> /\ s[N] # "blank",
                          NEW i \in 1 .. N + 1, t[i] = "blank"
                   PROVE  i > 1 /\ t[i - 1] # "blank"
        BY <1>1 DEF Compact
      <3>1. CASE i \in 1 .. N
        BY <1>1, <2>1, <3>1 DEF Compact, N
      <3>2. CASE i = N + 1
        BY <1>1, <3>2
      <3>3. QED BY <1>1, <3>1, <3>2
    <2>5. QED BY <1>1, <2>2, <2>3, <2>4
  <1>5. QED BY <1>2, <1>3, <1>4 DEF t, N

\* What is read line by line is read part by part.
LEMMA PassOfParts ==
  ASSUME NEW L, NEW a \in Lines(L), NEW b \in Lines(L)
  PROVE  /\ StripMarkers(a \o b) = StripMarkers(a) \o StripMarkers(b)
         /\ NotBlank(a \o b) = NotBlank(a) \o NotBlank(b)
  <1> DEFINE P == {c \in Lines(L) : /\ StripMarkers(a \o c) = StripMarkers(a) \o StripMarkers(c)
                                    /\ NotBlank(a \o c) = NotBlank(a) \o NotBlank(c)}
  <1>1. \A s \in Lines(L) : StripMarkers(s) \in Lines(L) /\ NotBlank(s) \in Lines(L)
    <2> TAKE s \in Lines(L)
    <2>1. QED BY UnmarkedNext, VisibleNext
  <1>2. <<>> \in P
    <2>1. <<>> \in Lines(L) /\ a \o <<>> = a
      BY NoLines
    <2>2. StripMarkers(a) \in Lines(L) /\ NotBlank(a) \in Lines(L)
      BY <1>1
    <2>3. StripMarkers(a) \o <<>> = StripMarkers(a) /\ NotBlank(a) \o <<>> = NotBlank(a)
      BY <2>2, NoLines
    <2>4. QED BY <2>1, <2>3, NothingOfNothing
  <1>3. ASSUME NEW s \in Lines(L), NEW x \in L \cup {"blank"}, s \in P
        PROVE  Append(s, x) \in P
    <2>1. /\ StripMarkers(a \o s) = StripMarkers(a) \o StripMarkers(s)
          /\ NotBlank(a \o s) = NotBlank(a) \o NotBlank(s)
      BY <1>3
    <2>2. a \o s \in Lines(L) /\ Append(s, x) \in Lines(L) /\ a \o Append(s, x) = Append(a \o s, x)
      BY LinesJoined, LinesAppended
    <2>3. StripMarkers(a \o Append(s, x)) = StripMarkers(a) \o StripMarkers(Append(s, x))
      <3>1. StripMarkers(a \o Append(s, x)) = Unmarked(StripMarkers(a) \o StripMarkers(s), x)
        BY <2>1, <2>2, UnmarkedNext
      <3>2. StripMarkers(Append(s, x)) = Unmarked(StripMarkers(s), x)
        BY UnmarkedNext
      <3>3. \A y \in L \cup {"blank"} : StripMarkers(a) \o Append(StripMarkers(s), y)
                                          = Append(StripMarkers(a) \o StripMarkers(s), y)
        BY <1>1, LinesJoined
      <3>4. QED BY <3>1, <3>2, <3>3 DEF Unmarked
    <2>4. NotBlank(a \o Append(s, x)) = NotBlank(a) \o NotBlank(Append(s, x))
      <3>1. NotBlank(a \o Append(s, x)) = Visible(NotBlank(a) \o NotBlank(s), x)
        BY <2>1, <2>2, VisibleNext
      <3>2. NotBlank(Append(s, x)) = Visible(NotBlank(s), x)
        BY VisibleNext
      <3>3. NotBlank(a) \o Append(NotBlank(s), x) = Append(NotBlank(a) \o NotBlank(s), x)
        BY <1>1, LinesJoined
      <3>4. QED BY <3>1, <3>2, <3>3 DEF Visible
    <2>5. QED BY <2>2, <2>3, <2>4
  <1> HIDE DEF P
  <1>4. Lines(L) \subseteq P
    BY <1>2, <1>3, LinesInduction
  <1>5. QED BY <1>4 DEF P

\* Lines that are all blank, or are all plain; and what a pass leaves of the text.
PassesKeep(s) ==
    /\ NotBlank(s) = <<>> <=> BlankOnly(s)
    /\ Plain(s) => StripMarkers(s) = s
    /\ NotBlank(Shrunk(s)) = NotBlank(s)
    /\ Compact(Shrunk(s))

LEMMA Passes ==
  ASSUME NEW L, NEW s \in Lines(L)
  PROVE  PassesKeep(s) /\ Shrunk(s) \in Lines(L) /\ NotBlank(s) \in Lines(L)
  <1> DEFINE P == {c \in Lines(L) : PassesKeep(c)}
  <1>1. \A c \in Lines(L) : Shrunk(c) \in Lines(L) /\ NotBlank(c) \in Lines(L)
    <2> TAKE c \in Lines(L)
    <2>1. QED BY SingleNext, VisibleNext
  <1>2. <<>> \in P
    <2>1. <<>> \in Lines(L) /\ Len(<<>>) = 0
      BY DEF Lines
    <2>2. BlankOnly(<<>>) /\ Compact(<<>>)
      BY <2>1 DEF BlankOnly, Compact
    <2>3. QED BY <2>1, <2>2, NothingOfNothing DEF PassesKeep
  <1>3. ASSUME NEW c \in Lines(L), NEW x \in L \cup {"blank"}, c \in P
        PROVE  Append(c, x) \in P
    <2> DEFINE d == Append(c, x)
               k == Shrunk(c)
    <2>1. d \in Lines(L) /\ k \in Lines(L) /\ NotBlank(c) \in Lines(L) /\ PassesKeep(c)
      BY <1>1, <1>3, LinesAppended
    <2>2. /\ NotBlank(d) = Visible(NotBlank(c), x) /\ StripMarkers(d) = Unmarked(StripMarkers(c), x)
          /\ Shrunk(d) = Single(k, x)
      BY UnmarkedNext, SingleNext, VisibleNext
    <2>3. NotBlank(d) = <<>> <=> BlankOnly(d)
      <3>1. Append(NotBlank(c), x) # <<>>
        BY <2>1, LinesAppended
      <3>2. BlankOnly(d) <=> BlankOnly(c) /\ x = "blank"
        BY OneMore
      <3>3. QED BY <2>1, <2>2, <3>1, <3>2 DEF Visible, PassesKeep
    <2>4. Plain(d) => StripMarkers(d) = d
      <3>1. Plain(d) => Plain(c) /\ x \notin {"marker", "erased"}
        BY OneMore
      <3>2. QED BY <2>1, <2>2, <3>1 DEF Unmarked, PassesKeep
    <2>5. NotBlank(Append(k, x)) = Visible(NotBlank(k), x) /\ NotBlank(k) = NotBlank(c)
      BY <2>1, VisibleNext DEF PassesKeep
    <2>6. NotBlank(Shrunk(d)) = NotBlank(d)
      <3>1. CASE x = "blank"
        BY <2>2, <2>5, <3>1 DEF Single, Visible
      <3>2. CASE x # "blank"
        BY <2>2, <2>5, <3>2 DEF Single, Visible
      <3>3. QED BY <3>1, <3>2
    <2>7. Compact(Shrunk(d))
      <3>1. Compact(Append(k, x)) <=>
              Compact(k) /\ (x = "blank" => k # <<>> /\ k[Len(k)] # "blank")
        BY <2>1, OneMore
      <3>2. Compact(k)
        BY <2>1 DEF PassesKeep
      <3>3. QED BY <2>2, <3>1, <3>2 DEF Single
    <2>8. QED BY <2>1, <2>3, <2>4, <2>6, <2>7 DEF PassesKeep
  <1> HIDE DEF P
  <1>4. Lines(L) \subseteq P
    BY <1>2, <1>3, LinesInduction
  <1>5. QED BY <1>1, <1>4 DEF P

\* Lines that leave the text compact are left.
LEMMA ShrunkGoesOn ==
  ASSUME NEW L, NEW a \in Lines(L), NEW b \in Lines(L), Compact(Shrunk(a) \o b)
  PROVE  Shrunk(a \o b) = Shrunk(a) \o b
  <1> DEFINE k == Shrunk(a)
             P == {c \in Lines(L) : Compact(k \o c) => Shrunk(a \o c) = k \o c}
  <1>1. k \in Lines(L)
    BY Passes
  <1> HIDE DEF k
  <1>2. <<>> \in P
    BY <1>1, NoLines DEF k
  <1>3. ASSUME NEW c \in Lines(L), NEW x \in L \cup {"blank"}, c \in P
        PROVE  Append(c, x) \in P
    <2> DEFINE u == k \o c
    <2>1. /\ u \in Lines(L) /\ a \o c \in Lines(L) /\ Append(c, x) \in Lines(L)
      BY <1>1, LinesJoined, LinesAppended
    <2>2. k \o Append(c, x) = Append(u, x)
      BY <1>1, LinesJoined
    <2>3. a \o Append(c, x) = Append(a \o c, x)
      BY LinesJoined
    <2>4. Shrunk(Append(a \o c, x)) = Single(Shrunk(a \o c), x)
      BY <2>1, SingleNext
    <2>5. Compact(u) => Shrunk(a \o c) = u
      BY <1>3
    <2> HIDE DEF u
    <2>6. Compact(Append(u, x)) <=> Compact(u) /\ (x = "blank" => u # <<>> /\ u[Len(u)] # "blank")
      BY <2>1, OneMore
    <2>7. Compact(Append(u, x)) => Shrunk(Append(a \o c, x)) = Append(u, x)
      BY <2>4, <2>5, <2>6 DEF Single
    <2>8. QED BY <2>1, <2>7, <2>2, <2>3 DEF u
  <1> HIDE DEF P
  <1>4. Lines(L) \subseteq P
    BY <1>2, <1>3, LinesInduction
  <1>5. QED BY <1>4 DEF P, k

\* The last line is not blank.
Trimmed(s) == s = <<>> \/ s[Len(s)] # "blank"

\* The beginning and the end of lines that were put together.
Parted(s, a, b) ==
    /\ SubSeq(s, 1, Len(a)) = a /\ SubSeq(s, Len(a) + 1, Len(s)) = b
    /\ \A i \in 1 .. Len(a) : s[i] = a[i]
    /\ \A i \in 1 .. Len(b) : s[Len(a) + i] = b[i]

LEMMA PartsOfLines ==
  ASSUME NEW L, NEW a \in Lines(L), NEW b \in Lines(L)
  PROVE  Parted(a \o b, a, b)
  <1>1. a \in Seq(L \cup {"blank"}) /\ b \in Seq(L \cup {"blank"})
    BY DEF Lines
  <1>2. SubSeq(a \o b, 1, Len(a)) = a
    BY <1>1
  <1>3. SubSeq(a \o b, Len(a) + 1, Len(a \o b)) = b
    BY <1>1
  <1>4. QED BY <1>1, <1>2, <1>3 DEF Parted

\* TrimEnd takes the blank lines at the end.
LEMMA TrimEndOf ==
  ASSUME NEW L, NEW a \in Lines(L), NEW b \in Lines(L), Trimmed(a), BlankOnly(b)
  PROVE  TrimEnd(a \o b) = a
  <1> DEFINE s == a \o b
             shown == {0} \cup {i \in DOMAIN s : s[i] # "blank"}
  <1>1. /\ Len(a) \in Nat /\ Len(b) \in Nat /\ s \in Lines(L) /\ Len(s) = Len(a) + Len(b)
        /\ a # <<>> => Len(a) >= 1
    BY LinesJoined DEF Lines
  <1>2. DOMAIN s = 1 .. Len(s)
    BY <1>1 DEF Lines
  <1>3. /\ SubSeq(s, 1, Len(a)) = a
        /\ \A i \in 1 .. Len(a) : s[i] = a[i]
        /\ \A i \in 1 .. Len(b) : s[Len(a) + i] = b[i]
    <2>1. Parted(s, a, b)
      BY PartsOfLines
    <2> HIDE DEF s
    <2>2. QED BY <2>1 DEF Parted
  <1> HIDE DEF s
  <1>4. shown \subseteq Int /\ Len(a) \in shown
    <2>1. CASE a = <<>>
      <3>1. Len(a) = 0
        BY <2>1
      <3>2. QED BY <1>1, <1>2, <3>1
    <2>2. CASE a # <<>>
      BY <1>1, <1>2, <1>3, <2>2 DEF Trimmed
    <2>3. QED BY <2>1, <2>2
  <1>5. \A i \in shown : i <= Len(a)
    <2> SUFFICES ASSUME NEW i \in 1 .. Len(s), i > Len(a) PROVE s[i] = "blank"
      BY <1>1, <1>2
    <2>1. i - Len(a) \in 1 .. Len(b) /\ Len(a) + (i - Len(a)) = i
      BY <1>1
    <2>2. QED BY <1>3, <2>1 DEF BlankOnly
  <1> HIDE DEF shown
  <1>6. Max(shown) = Len(a)
    BY ONLY <1>4, <1>5, GreatestIs
  <1>7. TrimEnd(s) = SubSeq(s, 1, Max(shown))
    BY DEF TrimEnd, shown
  <1>8. QED BY <1>3, <1>6, <1>7 DEF s

\* Lines are what TrimEnd leaves, and blank lines.
TrimsTo(L, s) == \E a, b \in Lines(L) : s = a \o b /\ Trimmed(a) /\ BlankOnly(b)

LEMMA TrimsApart ==
  ASSUME NEW L, NEW s \in Lines(L)
  PROVE  TrimsTo(L, s)
  <1> DEFINE P == {c \in Lines(L) : TrimsTo(L, c)}
  <1>1. <<>> \in P
    <2>1. <<>> \in Lines(L) /\ <<>> = <<>> \o <<>> /\ Len(<<>>) = 0
      BY DEF Lines
    <2>2. Trimmed(<<>>) /\ BlankOnly(<<>>)
      BY <2>1 DEF Trimmed, BlankOnly
    <2>3. QED BY <2>1, <2>2 DEF TrimsTo
  <1>2. ASSUME NEW c \in Lines(L), NEW x \in L \cup {"blank"}, c \in P
        PROVE  Append(c, x) \in P
    <2>1. PICK a \in Lines(L), b \in Lines(L) : c = a \o b /\ Trimmed(a) /\ BlankOnly(b)
      BY <1>2 DEF TrimsTo
    <2>2. Append(c, x) \in Lines(L)
      BY LinesAppended
    <2>3. CASE x = "blank"
      <3>1. Append(c, x) = a \o Append(b, x) /\ Append(b, x) \in Lines(L)
        <4>1. Append(b, x) \in Lines(L)
          BY LinesAppended
        <4>2. \A y \in L \cup {"blank"} : a \o Append(b, y) = Append(a \o b, y)
          BY LinesJoined
        <4>3. QED BY <2>1, <4>1, <4>2
      <3>2. BlankOnly(Append(b, x))
        BY <2>1, <2>3, OneMore
      <3>3. QED BY <2>1, <2>2, <3>1, <3>2 DEF TrimsTo
    <2>4. CASE x # "blank"
      <3> DEFINE d == Append(c, x)
      <3>1. d[Len(d)] = x
        BY DEF Lines
      <3> HIDE DEF d
      <3>2. Trimmed(d)
        BY <2>4, <3>1 DEF Trimmed
      <3>3. <<>> \in Lines(L) /\ d \o <<>> = d
        BY <2>2, NoLines DEF d
      <3>4. BlankOnly(<<>>)
        BY DEF BlankOnly
      <3>5. QED BY <2>2, <3>2, <3>3, <3>4 DEF TrimsTo, d
    <2>5. QED BY <2>3, <2>4
  <1> HIDE DEF P
  <1>3. Lines(L) \subseteq P
    BY <1>1, <1>2, LinesInduction
  <1>4. QED BY <1>3 DEF P

\* What TrimEnd leaves.
LEMMA TrimEndIs ==
  ASSUME NEW L, NEW s \in Lines(L)
  PROVE  /\ TrimEnd(s) \in Lines(L) /\ Trimmed(TrimEnd(s))
         /\ NotBlank(TrimEnd(s)) = NotBlank(s)
         /\ Compact(s) => Compact(TrimEnd(s))
         /\ Trimmed(s) => TrimEnd(s) = s
  <1>1. PICK a \in Lines(L), b \in Lines(L) : s = a \o b /\ Trimmed(a) /\ BlankOnly(b)
    BY TrimsApart DEF TrimsTo
  <1>2. TrimEnd(s) = a
    BY <1>1, TrimEndOf
  <1>3. NotBlank(s) = NotBlank(a)
    <2>1. NotBlank(s) = NotBlank(a) \o NotBlank(b)
      BY <1>1, PassOfParts
    <2>2. NotBlank(b) = <<>>
      BY <1>1, Passes DEF PassesKeep
    <2>3. NotBlank(a) \in Lines(L)
      BY Passes
    <2>4. NotBlank(a) \o <<>> = NotBlank(a)
      BY <2>3, NoLines
    <2>5. QED BY <2>1, <2>2, <2>4
  <1>4. Compact(s) => Compact(a)
    <2>1. Len(a) \in Nat /\ Len(b) \in Nat /\ Len(s) = Len(a) + Len(b)
      BY <1>1, LinesJoined DEF Lines
    <2>2. \A i \in 1 .. Len(a) : s[i] = a[i]
      BY <1>1, PartsOfLines DEF Parted
    <2> SUFFICES ASSUME Compact(s), NEW i \in 1 .. Len(a), a[i] = "blank"
                 PROVE  i > 1 /\ a[i - 1] # "blank"
      BY DEF Compact
    <2>3. i \in 1 .. Len(s)
      BY <2>1
    <2>4. i > 1 /\ s[i - 1] # "blank"
      BY <2>2, <2>3 DEF Compact
    <2>5. i - 1 \in 1 .. Len(a)
      BY <2>1, <2>4
    <2>6. QED BY <2>2, <2>4, <2>5
  <1>5. Trimmed(s) => a = s
    <2>1. SUFFICES ASSUME Trimmed(s) PROVE s = a
      OBVIOUS
    <2>2. <<>> \in Lines(L) /\ s \o <<>> = s
      BY NoLines
    <2>3. BlankOnly(<<>>)
      BY DEF BlankOnly
    <2>4. TrimEnd(s \o <<>>) = s
      BY <2>1, <2>2, <2>3, TrimEndOf
    <2>5. QED BY <1>2, <2>2, <2>4
  <1>6. QED BY <1>1, <1>2, <1>3, <1>4, <1>5

\* The lines before the first that is shown, that line, and those after it.
StartsAt(L, s, a, x, b) ==
    /\ a \in Lines(L) /\ b \in Lines(L) /\ x \in L /\ x # "blank"
    /\ s = a \o (<<x>> \o b) /\ BlankOnly(a)

\* The line between two parts.
Between(s, a, x, b) ==
    /\ Len(s) = Len(a) + 1 + Len(b) /\ s[Len(a) + 1] = x
    /\ SubSeq(s, 1, Len(a)) = a /\ SubSeq(s, Len(a) + 2, Len(s)) = b
    /\ \A i \in 1 .. Len(a) : s[i] = a[i]

LEMMA LineBetween ==
  ASSUME NEW L, NEW a \in Lines(L), NEW b \in Lines(L), NEW x \in L \cup {"blank"},
         NEW s, s = a \o (<<x>> \o b)
  PROVE  s \in Lines(L) /\ Between(s, a, x, b)
  <1> DEFINE c == <<x>> \o b
  <1>1. /\ <<x>> \in Lines(L) /\ Len(<<x>>) = 1 /\ <<x>>[1] = x
        /\ Len(a) \in Nat /\ Len(b) \in Nat
    BY DEF Lines
  <1>2. c \in Lines(L) /\ Len(c) = 1 + Len(b) /\ SubSeq(c, 2, Len(c)) = b /\ c[1] = x
    <2>1. c \in Lines(L) /\ Len(c) = 1 + Len(b)
      BY <1>1, LinesJoined
    <2>2. SubSeq(c, 1 + 1, Len(c)) = b /\ c[1] = x
      <3>1. Parted(c, <<x>>, b)
        BY <1>1, PartsOfLines
      <3> HIDE DEF c
      <3>2. QED BY <1>1, <3>1 DEF Parted
    <2>3. QED BY <2>1, <2>2
  <1> HIDE DEF c
  <1>3. s = a \o c
    BY DEF c
  <1>4. s \in Lines(L) /\ Len(s) = Len(a) + Len(c)
    <2>1. a \o c \in Lines(L) /\ Len(a \o c) = Len(a) + Len(c)
      BY <1>2, LinesJoined
    <2>2. QED BY <1>3, <2>1
  <1>5. /\ SubSeq(s, 1, Len(a)) = a
        /\ SubSeq(s, Len(a) + 1, Len(s)) = c
        /\ \A i \in 1 .. Len(a) : s[i] = a[i]
        /\ \A i \in 1 .. Len(c) : s[Len(a) + i] = c[i]
    <2>1. Parted(a \o c, a, c)
      BY <1>2, PartsOfLines
    <2>2. QED BY <1>3, <2>1 DEF Parted
  <1>6. SubSeq(s, Len(a) + 2, Len(s)) = b
    <2>2. s \in Seq(L \cup {"blank"}) /\ Len(s) = Len(a) + 1 + Len(b) /\ Len(s) \in Nat
      BY <1>1, <1>2, <1>4 DEF Lines
    <2>3. SubSeq(s, Len(a) + 2, Len(s)) = SubSeq(SubSeq(s, Len(a) + 1, Len(s)), 2, 1 + Len(b))
      BY <1>1, <2>2
    <2>4. QED BY <1>2, <1>5, <2>3
  <1>7. s[Len(a) + 1] = x
    BY <1>1, <1>2, <1>5
  <1>8. QED BY <1>1, <1>2, <1>4, <1>5, <1>6, <1>7 DEF Between

\* Lines are blank, or have a first one that is shown.
Starts(L, s) == BlankOnly(s) \/ \E a, x, b : StartsAt(L, s, a, x, b)

LEMMA StartIs ==
  ASSUME NEW L, NEW s \in Lines(L)
  PROVE  Starts(L, s)
  <1> DEFINE P == {c \in Lines(L) : Starts(L, c)}
  <1>1. <<>> \in P
    BY DEF Lines, BlankOnly, Starts
  <1>2. ASSUME NEW c \in Lines(L), NEW y \in L \cup {"blank"}, c \in P
        PROVE  Append(c, y) \in P
    <2>1. Append(c, y) \in Lines(L) /\ Starts(L, c)
      BY <1>2, LinesAppended
    <2>2. CASE BlankOnly(c) /\ y = "blank"
      <3>1. BlankOnly(Append(c, y))
        BY <2>2, OneMore
      <3>2. QED BY <2>1, <3>1 DEF Starts
    <2>3. CASE BlankOnly(c) /\ y # "blank"
      <3>1. <<y>> \in Lines(L) /\ Append(c, y) = c \o <<y>>
        BY LineAppended
      <3>2. <<>> \in Lines(L) /\ <<y>> \o <<>> = <<y>>
        BY <3>1, NoLines
      <3>3. StartsAt(L, Append(c, y), c, y, <<>>)
        BY <2>3, <3>1, <3>2 DEF StartsAt
      <3>4. QED BY <2>1, <3>3 DEF Starts
    <2>4. CASE ~BlankOnly(c)
      <3>1. PICK a, x, b : StartsAt(L, c, a, x, b)
        BY <2>1, <2>4 DEF Starts
      <3>2. a \in Lines(L) /\ b \in Lines(L) /\ x \in L \cup {"blank"} /\ c = a \o (<<x>> \o b)
        BY <3>1 DEF StartsAt
      <3>3. <<x>> \in Lines(L)
        BY <3>2, LineAppended
      <3>4. Append(b, y) \in Lines(L)
        BY <3>2, LinesAppended
      <3>5. <<x>> \o b \in Lines(L) /\ <<x>> \o Append(b, y) = Append(<<x>> \o b, y)
        BY <3>2, <3>3, LinesJoined
      <3>6. a \o Append(<<x>> \o b, y) = Append(a \o (<<x>> \o b), y)
        BY <3>2, <3>5, LinesJoined
      <3>7. StartsAt(L, Append(c, y), a, x, Append(b, y))
        BY <3>1, <3>2, <3>4, <3>5, <3>6 DEF StartsAt
      <3>8. QED BY <2>1, <3>7 DEF Starts
    <2>5. QED BY <2>2, <2>3, <2>4
  <1> HIDE DEF P
  <1>3. Lines(L) \subseteq P
    BY <1>1, <1>2, LinesInduction
  <1>4. QED BY <1>3 DEF P

\* The first line that is shown is looked at.
LEMMA EchoAt ==
  ASSUME NEW L, NEW s \in Lines(L), NEW a, NEW x, NEW b, StartsAt(L, s, a, x, b)
  PROVE  StripEcho(s) = IF x = "echo" THEN a \o b ELSE s
  <1> DEFINE shown == {i \in 1 .. Len(s) : s[i] # "blank"}
             n == Len(a) + 1
  <1>1. a \in Lines(L) /\ b \in Lines(L) /\ x \in L \cup {"blank"} /\ x # "blank" /\ BlankOnly(a)
        /\ s = a \o (<<x>> \o b)
    BY DEF StartsAt
  <1>2. /\ Len(s) = Len(a) + 1 + Len(b) /\ s[n] = x
        /\ SubSeq(s, 1, Len(a)) = a /\ SubSeq(s, Len(a) + 2, Len(s)) = b
        /\ \A i \in 1 .. Len(a) : s[i] = a[i]
    <2>1. Between(s, a, x, b)
      BY ONLY <1>1, LineBetween
    <2>2. QED BY <2>1 DEF Between
  <1>3. Len(a) \in Nat /\ Len(b) \in Nat
    BY <1>1 DEF Lines
  <1>4. n \in shown /\ shown \subseteq Int /\ \A i \in shown : n <= i
    BY <1>1, <1>2, <1>3 DEF BlankOnly
  <1>5. SelectInSeq(s, LAMBDA line : line # "blank") = n
    <2>1. SelectInSeq(s, LAMBDA line : line # "blank") = IF shown # {} THEN Min(shown) ELSE 0
      BY DEF SelectInSeq
    <2> HIDE DEF shown, n
    <2>2. \A i \in shown : (\A k \in shown : i <= k) => i = n
      BY <1>4
    <2>3. Min(shown) = n
      BY <1>4, <2>2 DEF Min
    <2>4. QED BY <1>4, <2>1, <2>3
  <1>6. StripEcho(s) = IF n # 0 /\ s[n] = "echo" THEN RemoveAt(s, n) ELSE s
    BY <1>5 DEF StripEcho
  <1>7. RemoveAt(s, n) = a \o b /\ n # 0
    <2>1. n - 1 = Len(a) /\ n + 1 = Len(a) + 2 /\ n # 0
      BY <1>3
    <2> HIDE DEF n
    <2>2. RemoveAt(s, n) = SubSeq(s, 1, n - 1) \o SubSeq(s, n + 1, Len(s))
      BY DEF RemoveAt
    <2>3. QED BY <1>2, <2>1, <2>2
  <1> HIDE DEF n
  <1>8. QED BY <1>2, <1>6, <1>7

\* A line that is shown, alone and first.
LEMMA ShownFirst ==
  ASSUME NEW L, NEW x \in L, x # "blank", NEW b \in Lines(L)
  PROVE  NotBlank(<<x>> \o b) = <<x>> \o NotBlank(b) /\ NotBlank(b) \in Lines(L)
  <1>1. <<>> \in Lines(L) /\ Append(<<>>, x) = <<x>> /\ <<x>> \in Lines(L)
    BY DEF Lines
  <1>2. NotBlank(<<x>>) = <<x>>
    <2>1. NotBlank(Append(<<>>, x)) = Visible(NotBlank(<<>>), x)
      BY <1>1, VisibleNext
    <2>2. QED BY <1>1, <2>1, NothingOfNothing DEF Visible
  <1>3. NotBlank(<<x>> \o b) = NotBlank(<<x>>) \o NotBlank(b)
    BY <1>1, PassOfParts
  <1>4. QED BY <1>2, <1>3, Passes

\* StripEcho takes the first line that is shown if it is the echo, and nothing else.
EchoTaken(s, r) ==
    /\ NotBlank(s) = <<"echo">> \o r => NotBlank(StripEcho(s)) = r
    /\ NotBlank(s) = <<>> \/ NotBlank(s)[1] # "echo" => StripEcho(s) = s

LEMMA EchoIsTaken ==
  ASSUME NEW L, NEW s \in Lines(L), NEW r \in Lines(L)
  PROVE  EchoTaken(s, r) /\ StripEcho(s) \in Lines(L)
  <1>1. CASE BlankOnly(s)
    <2>1. NotBlank(s) = <<>>
      BY <1>1, Passes DEF PassesKeep
    <2>2. <<"echo">> \o r # <<>>
      BY DEF Lines
    <2>3. StripEcho(s) = s
      <3>1. {i \in 1 .. Len(s) : s[i] # "blank"} = {}
        BY <1>1 DEF BlankOnly
      <3>2. SelectInSeq(s, LAMBDA line : line # "blank") = 0
        BY <3>1 DEF SelectInSeq
      <3>3. QED BY <3>2 DEF StripEcho
    <2>4. QED BY <2>1, <2>2, <2>3 DEF EchoTaken
  <1>2. ASSUME NEW a, NEW x, NEW b, StartsAt(L, s, a, x, b)
        PROVE  EchoTaken(s, r) /\ StripEcho(s) \in Lines(L)
    <2>1. a \in Lines(L) /\ b \in Lines(L) /\ x \in L /\ x # "blank" /\ BlankOnly(a)
          /\ s = a \o (<<x>> \o b)
      BY <1>2 DEF StartsAt
    <2>2. StripEcho(s) = IF x = "echo" THEN a \o b ELSE s
      BY <1>2, EchoAt
    <2>3. NotBlank(a) = <<>> /\ NotBlank(b) \in Lines(L)
      BY <2>1, Passes DEF PassesKeep
    <2>4. NotBlank(a \o b) = NotBlank(b) /\ a \o b \in Lines(L)
      <3>1. NotBlank(a \o b) = NotBlank(a) \o NotBlank(b) /\ a \o b \in Lines(L)
        BY <2>1, PassOfParts, LinesJoined
      <3>2. <<>> \o NotBlank(b) = NotBlank(b)
        BY <2>3, NoLines
      <3>3. QED BY <2>3, <3>1, <3>2
    <2>5. NotBlank(s) = <<x>> \o NotBlank(b)
      <3>1. NotBlank(<<x>> \o b) = <<x>> \o NotBlank(b)
        BY <2>1, ShownFirst
      <3>2. <<x>> \in Lines(L)
        BY <2>1, LineAppended
      <3>3. <<x>> \o b \in Lines(L) /\ <<x>> \o NotBlank(b) \in Lines(L)
        BY <2>1, <2>3, <3>2, LinesJoined
      <3>4. NotBlank(s) = NotBlank(a) \o NotBlank(<<x>> \o b)
        BY <2>1, <3>3, PassOfParts
      <3>5. <<>> \o (<<x>> \o NotBlank(b)) = <<x>> \o NotBlank(b)
        BY <3>3, NoLines
      <3>6. QED BY <2>3, <3>1, <3>4, <3>5
    <2>6. NotBlank(s) # <<>> /\ NotBlank(s)[1] = x
      BY <2>3, <2>5 DEF Lines
    <2>7. NotBlank(s) = <<"echo">> \o r => x = "echo" /\ NotBlank(b) = r
      <3>1. <<x>> \o NotBlank(b) = <<"echo">> \o r => x = "echo" /\ NotBlank(b) = r
        <4> DEFINE c == NotBlank(b)
        <4>1. c \in Seq(L \cup {"blank"}) /\ r \in Seq(L \cup {"blank"})
          BY <2>3 DEF Lines
        <4> HIDE DEF c
        <4> SUFFICES ASSUME <<x>> \o c = <<"echo">> \o r PROVE x = "echo" /\ c = r
          BY DEF c
        <4>2. x = (<<x>> \o c)[1] /\ "echo" = (<<"echo">> \o r)[1]
          BY <4>1
        <4>3. c = Tail(<<x>> \o c) /\ r = Tail(<<"echo">> \o r)
          BY <4>1
        <4>4. QED BY <4>2, <4>3
      <3>2. QED BY <2>5, <3>1
    <2>8. QED BY <2>1, <2>2, <2>4, <2>6, <2>7 DEF EchoTaken
  <1>3. QED BY <1>1, <1>2, StartIs DEF Starts

\* What is said of lines that end with a line that is shown.
LEMMA PromptAt ==
  ASSUME NEW L, NEW u \in Lines(L), NEW y \in L, y # "blank"
  PROVE  /\ Trimmed(Append(u, y)) /\ NotBlank(Append(u, y)) = Append(NotBlank(u), y)
         /\ StripPrompt(Append(u, y)) = IF y \in PromptLines THEN TrimEnd(u) ELSE Append(u, y)
  <1> DEFINE t == Append(u, y)
  <1>1. t \in Lines(L) /\ t # <<>> /\ t[Len(t)] = y /\ Front(t) = u
    <2>1. t \in Lines(L) /\ t # <<>> /\ t[Len(t)] = y
      BY DEF Lines
    <2>2. SubSeq(t, 1, Len(t) - 1) = u
      BY DEF Lines
    <2>3. QED BY <2>1, <2>2 DEF Front
  <1>2. NotBlank(t) = Append(NotBlank(u), y)
    BY VisibleNext DEF Visible
  <1> HIDE DEF t
  <1>3. Trimmed(t)
    BY <1>1 DEF Trimmed
  <1>4. TrimEnd(t) = t
    BY <1>1, <1>3, TrimEndIs
  <1>5. QED BY <1>1, <1>2, <1>3, <1>4 DEF StripPrompt, t

\* Lines are none, or end with one.
LEMMA LastOfLines ==
  ASSUME NEW L, NEW t \in Lines(L), t # <<>>
  PROVE  \E u \in Lines(L), y \in L \cup {"blank"} : t = Append(u, y) /\ t[Len(t)] = y
  <1> DEFINE u == SubSeq(t, 1, Len(t) - 1)
             y == t[Len(t)]
  <1>1. u \in Lines(L) /\ y \in L \cup {"blank"} /\ t = Append(u, y)
    BY DEF Lines
  <1>2. QED BY <1>1

\* Blank lines that come first are taken, and of others at most one is left.
LEMMA BlanksShrunk ==
  ASSUME NEW L, NEW a \in Lines(L), NEW b \in Lines(L), BlankOnly(b)
  PROVE  /\ Shrunk(b) = <<>>
         /\ \/ Shrunk(a \o b) = Shrunk(a)
            \/ Shrunk(a \o b) = Append(Shrunk(a), "blank")
  <1>1. Shrunk(b) = <<>>
    <2> DEFINE k == Shrunk(b)
    <2>1. NotBlank(k) = <<>> /\ Compact(k) /\ k \in Lines(L)
      BY Passes DEF PassesKeep
    <2> HIDE DEF k
    <2>2. BlankOnly(k)
      BY <2>1, Passes DEF PassesKeep
    <2>3. Len(k) \in Nat /\ (Len(k) = 0 => k = <<>>)
      BY <2>1 DEF Lines
    <2>4. Len(k) = 0
      BY <2>1, <2>2, <2>3 DEF BlankOnly, Compact
    <2>5. QED BY <2>3, <2>4 DEF k
  <1> DEFINE k == Shrunk(a)
             AtMostOne(c) == Shrunk(a \o c) \in {k, Append(k, "blank")}
             P == {c \in Lines(L) : BlankOnly(c) => AtMostOne(c)}
  <1>2. k \in Lines(L) /\ "blank" \in L \cup {"blank"}
    BY Passes
  <1>3. <<>> \in P
    BY NoLines
  <1>4. ASSUME NEW c \in Lines(L), NEW x \in L \cup {"blank"}, c \in P
        PROVE  Append(c, x) \in P
    <2>1. Append(c, x) \in Lines(L)
      BY LinesAppended
    <2>2. BlankOnly(Append(c, x)) => BlankOnly(c) /\ x = "blank"
      BY OneMore
    <2>3. Shrunk(a \o Append(c, x)) = Single(Shrunk(a \o c), x)
      <3>1. a \o c \in Lines(L) /\ a \o Append(c, x) = Append(a \o c, x)
        BY LinesJoined
      <3>2. QED BY <3>1, SingleNext
    <2>4. Single(k, "blank") \in {k, Append(k, "blank")}
      BY DEF Single
    <2>5. Single(Append(k, "blank"), "blank") = Append(k, "blank")
      <3> DEFINE d == Append(k, "blank")
      <3> HIDE DEF k
      <3>1. d[Len(d)] = "blank"
        BY <1>2 DEF Lines
      <3> HIDE DEF d
      <3>2. Single(d, "blank") = d
        BY <3>1 DEF Single
      <3>3. QED BY <3>2 DEF d
    <2> HIDE DEF k
    <2>6. QED BY <1>4, <2>1, <2>2, <2>3, <2>4, <2>5
  <1> HIDE DEF P, AtMostOne
  <1>5. Lines(L) \subseteq P
    BY <1>3, <1>4, LinesInduction
  <1>6. QED BY <1>1, <1>5 DEF P, AtMostOne

\* SingleBlanks is Shrunk without the blank lines at the end.
LEMMA SingleBlanksIs ==
  ASSUME NEW L, NEW s \in Lines(L)
  PROVE  /\ SingleBlanks(s) = TrimEnd(Shrunk(s)) /\ SingleBlanks(s) \in Lines(L)
         /\ Trimmed(SingleBlanks(s)) /\ Compact(SingleBlanks(s))
         /\ NotBlank(SingleBlanks(s)) = NotBlank(s)
  <1> DEFINE k == Shrunk(s)
  <1>1. SingleBlanks(s) = TrimEnd(k)
    BY Zenon DEF SingleBlanks, Shrunk, Single
  <1>2. k \in Lines(L) /\ NotBlank(k) = NotBlank(s) /\ Compact(k)
    BY Passes DEF PassesKeep
  <1> HIDE DEF k
  <1>3. TrimEnd(k) \in Lines(L) /\ Trimmed(TrimEnd(k)) /\ NotBlank(TrimEnd(k)) = NotBlank(k)
        /\ Compact(TrimEnd(k))
    BY <1>2, TrimEndIs
  <1>4. QED BY <1>1, <1>2, <1>3 DEF k

\* What is shown of lines without their markers.
ShownText(s) == NotBlank(StripMarkers(s))

LEMMA ShownLines ==
  ASSUME NEW L, NEW a \in Lines(L)
  PROVE  ShownText(a) \in Lines(L)
  <1>1. StripMarkers(a) \in Lines(L)
    BY UnmarkedNext
  <1>2. QED BY <1>1, Passes DEF ShownText

LEMMA ShownParts ==
  ASSUME NEW L, NEW a \in Lines(L), NEW b \in Lines(L)
  PROVE  /\ ShownText(a \o b) = ShownText(a) \o ShownText(b)
         /\ ShownText(b) = <<>> => ShownText(a \o b) = ShownText(a)
  <1>1. StripMarkers(a) \in Lines(L) /\ StripMarkers(b) \in Lines(L)
    BY UnmarkedNext
  <1>2. StripMarkers(a \o b) = StripMarkers(a) \o StripMarkers(b)
    BY PassOfParts
  <1>3. NotBlank(StripMarkers(a) \o StripMarkers(b)) = ShownText(a) \o ShownText(b)
    BY <1>1, PassOfParts DEF ShownText
  <1>4. ShownText(a) \o <<>> = ShownText(a)
    BY ShownLines, NoLines
  <1>5. ShownText(a \o b) = ShownText(a) \o ShownText(b)
    BY <1>2, <1>3 DEF ShownText
  <1>6. QED BY <1>4, <1>5

ShownAlike(a, b, c) == (ShownText(a) \o ShownText(b)) \o ShownText(c) = ShownText(a) \o ShownText(b \o c)

LEMMA ShownThrice ==
  ASSUME NEW L, NEW a \in Lines(L), NEW b \in Lines(L), NEW c \in Lines(L)
  PROVE  ShownAlike(a, b, c)
  <1>1. ShownText(b \o c) = ShownText(b) \o ShownText(c)
    BY ShownParts
  <1>2. ShownText(a) \in Lines(L) /\ ShownText(b) \in Lines(L) /\ ShownText(c) \in Lines(L)
    BY ShownLines
  <1>3. JoinAlike(ShownText(a), ShownText(b), ShownText(c))
    BY <1>2, JoinedTwice
  <1>4. QED BY <1>1, <1>3 DEF JoinAlike, ShownAlike

\* The answer of a device: the echo E, blank lines G, the configuration with a mark M
\* for a page in it, blank lines T, and the prompt Q.
AnswerShows(L, E, G, A, M, B, T, Q) ==
    /\ E \o G \o A \o M \o B \o T \o Q \in Lines(L)
    /\ ShownText(E \o G \o A \o M \o B \o T \o Q) = ShownText(E) \o ShownText(A \o B) \o ShownText(Q)

LEMMA ShownOfAnswer ==
  ASSUME NEW L, NEW E \in Lines(L), NEW G \in Lines(L), NEW A \in Lines(L), NEW M \in Lines(L),
         NEW B \in Lines(L), NEW T \in Lines(L), NEW Q \in Lines(L),
         ShownText(G) = <<>>, ShownText(T) = <<>>, ShownText(M) = <<>>
  PROVE  AnswerShows(L, E, G, A, M, B, T, Q)
  <1> DEFINE C == E \o G
             D == C \o A
             F == D \o M
             H == F \o B
             K == H \o T
  <1>1. C \in Lines(L) /\ ShownText(C) = ShownText(E)
    BY LinesJoined, ShownParts
  <1> HIDE DEF C
  <1>2. D \in Lines(L) /\ ShownText(D) = ShownText(E) \o ShownText(A)
    <2>1. D \in Lines(L)
      BY ONLY <1>1, A \in Lines(L), LinesJoined
    <2>2. ShownText(D) = ShownText(C) \o ShownText(A)
      BY ONLY <1>1, A \in Lines(L), ShownParts
    <2>3. QED BY <1>1, <2>1, <2>2
  <1> HIDE DEF D
  <1>3. F \in Lines(L) /\ ShownText(F) = ShownText(E) \o ShownText(A)
    <2>1. F \in Lines(L)
      BY ONLY <1>2, M \in Lines(L), LinesJoined
    <2>2. ShownText(F) = ShownText(D)
      BY ONLY <1>2, M \in Lines(L), ShownText(M) = <<>>, ShownParts
    <2>3. QED BY <1>2, <2>1, <2>2
  <1> HIDE DEF F
  <1>4. H \in Lines(L) /\ ShownText(H) = ShownText(E) \o ShownText(A \o B)
    <2>1. H \in Lines(L)
      BY ONLY <1>3, B \in Lines(L), LinesJoined
    <2>2. ShownText(H) = ShownText(F) \o ShownText(B)
      BY ONLY <1>3, B \in Lines(L), ShownParts
    <2>3. ShownAlike(E, A, B)
      BY ShownThrice
    <2>4. QED BY <1>3, <2>1, <2>2, <2>3 DEF ShownAlike
  <1> HIDE DEF H
  <1>5. K \in Lines(L) /\ ShownText(K) = ShownText(E) \o ShownText(A \o B)
    <2>1. K \in Lines(L)
      BY ONLY <1>4, T \in Lines(L), LinesJoined
    <2>2. ShownText(K) = ShownText(H)
      BY ONLY <1>4, T \in Lines(L), ShownText(T) = <<>>, ShownParts
    <2>3. QED BY <1>4, <2>1, <2>2
  <1> HIDE DEF K
  <1>6. K \o Q \in Lines(L)
    BY ONLY <1>5, Q \in Lines(L), LinesJoined
  <1>7. ShownText(K \o Q) = ShownText(K) \o ShownText(Q)
    BY ONLY <1>5, Q \in Lines(L), ShownParts
  <1>8. E \o G \o A \o M \o B \o T = K
    BY DEF C, D, F, H, K
  <1>9. QED BY <1>5, <1>6, <1>7, <1>8 DEF AnswerShows

\* The lines of a configuration, those of one with a prompt, and those of an answer.
ConfigLines == {"a", "b", "#", "[x]"}
PromptedLines == ConfigLines \cup {"<sw>"}
AnswerLines == PromptedLines \cup {"echo", "marker", "erased"}

LEMMA MoreLines ==
  ASSUME NEW L, NEW K, L \subseteq K
  PROVE  Lines(L) \subseteq Lines(K)
  BY DEF Lines

LEMMA SameLast ==
  ASSUME NEW L, NEW a \in Lines(L), NEW b \in Lines(L), NEW x, NEW y, Append(a, x) = Append(b, y)
  PROVE  a = b /\ x = y
  <1>1. x = Append(a, x)[Len(Append(a, x))] /\ y = Append(b, y)[Len(Append(b, y))]
    BY DEF Lines
  <1>2. /\ a = SubSeq(Append(a, x), 1, Len(Append(a, x)) - 1)
        /\ b = SubSeq(Append(b, y), 1, Len(Append(b, y)) - 1)
    BY DEF Lines
  <1>3. QED BY <1>1, <1>2

\* Lines of a configuration are not taken for an echo.
LEMMA NoEchoTaken ==
  ASSUME NEW d \in Lines(PromptedLines)
  PROVE  StripEcho(d) = d
  <1> DEFINE n == NotBlank(d)
  <1>1. n \in Lines(PromptedLines)
    BY Passes
  <1>2. n = <<>> \/ n[1] # "echo"
    <2> HIDE DEF n
    <2>1. n # <<>> => n[1] \in PromptedLines \cup {"blank"}
      BY <1>1 DEF Lines
    <2>2. "echo" \notin PromptedLines \cup {"blank"}
      BY DEF PromptedLines, ConfigLines
    <2>3. QED BY <2>1, <2>2
  <1>3. EchoTaken(d, d)
    BY EchoIsTaken
  <1>4. QED BY <1>2, <1>3 DEF EchoTaken

\* The prompt is looked for at the end of what TrimEnd leaves.
LEMMA PromptAfterTrim ==
  ASSUME NEW L, NEW s \in Lines(L)
  PROVE  StripPrompt(s) = StripPrompt(TrimEnd(s))
  <1>1. TrimEnd(s) \in Lines(L) /\ Trimmed(TrimEnd(s))
    BY TrimEndIs
  <1>2. TrimEnd(TrimEnd(s)) = TrimEnd(s)
    BY <1>1, TrimEndIs
  <1>3. QED BY <1>2 DEF StripPrompt

\* A line is shown.
LastShown(L, t, u, y) == u \in Lines(L) /\ y \in L /\ y # "blank" /\ t = Append(u, y)

LEMMA TrimmedLast ==
  ASSUME NEW L, NEW t \in Lines(L), Trimmed(t), t # <<>>
  PROVE  \E u, y : LastShown(L, t, u, y)
  <1>1. PICK u \in Lines(L), y \in L \cup {"blank"} : t = Append(u, y) /\ t[Len(t)] = y
    BY LastOfLines
  <1>2. LastShown(L, t, u, y)
    BY <1>1 DEF Trimmed, LastShown
  <1>3. QED BY <1>2

LEMMA LastIs ==
  ASSUME NEW L, NEW t, NEW u, NEW y, LastShown(L, t, u, y)
  PROVE  /\ t \in Lines(L) /\ t # <<>> /\ t[Len(t)] = y /\ Trimmed(t) /\ NotBlank(u) \in Lines(L)
         /\ NotBlank(t) = Append(NotBlank(u), y)
         /\ StripPrompt(t) = IF y \in PromptLines THEN TrimEnd(u) ELSE t
         /\ NotBlank(TrimEnd(u)) = NotBlank(u)
  <1>1. u \in Lines(L) /\ y \in L /\ y # "blank" /\ t = Append(u, y)
    BY DEF LastShown
  <1>2. t \in Lines(L) /\ t # <<>> /\ t[Len(t)] = y
    <2>1. Append(u, y) \in Lines(L) /\ Append(u, y) # <<>>
          /\ Append(u, y)[Len(Append(u, y))] = y
      BY <1>1 DEF Lines
    <2>2. QED BY <1>1, <2>1
  <1>3. NotBlank(u) \in Lines(L)
    BY <1>1, Passes
  <1>4. NotBlank(TrimEnd(u)) = NotBlank(u)
    BY <1>1, TrimEndIs
  <1>5. QED BY <1>1, <1>2, <1>3, <1>4, PromptAt

\* The configuration keeps its last line when the prompt has been taken away.
KeepsLast(c, Q) == Q # <<>> \/ c = <<>> \/ c[Len(c)] \notin PromptLines

\* StripPrompt takes the prompt, and of a configuration nothing.
ShowsWith(s, c, Q) == NotBlank(s) = NotBlank(c) \o Q

LEMMA PromptIsTaken ==
  ASSUME NEW L, NEW c \in Lines(L), Trimmed(c), NEW Q \in {<<>>, <<"<sw>">>}, KeepsLast(c, Q),
         "<sw>" \in PromptLines, NEW s \in Lines(L), ShowsWith(s, c, Q)
  PROVE  NotBlank(StripPrompt(s)) = NotBlank(c)
  <1> DEFINE t == TrimEnd(s)
  <1>1. t \in Lines(L) /\ Trimmed(t) /\ NotBlank(t) = NotBlank(c) \o Q
    BY TrimEndIs DEF ShowsWith
  <1>2. StripPrompt(s) = StripPrompt(t)
    BY PromptAfterTrim
  <1>3. NotBlank(c) \in Lines(L)
    BY Passes
  <1> HIDE DEF t
  <1>4. CASE Q = <<"<sw>">>
    <2>1. NotBlank(t) = Append(NotBlank(c), "<sw>") /\ Append(NotBlank(c), "<sw>") # <<>>
      BY <1>1, <1>3, <1>4 DEF Lines
    <2>2. t # <<>>
      BY <2>1, NothingOfNothing
    <2>3. PICK u, y : LastShown(L, t, u, y)
      BY <1>1, <2>2, TrimmedLast
    <2>4. /\ NotBlank(t) = Append(NotBlank(u), y) /\ NotBlank(u) \in Lines(L)
          /\ StripPrompt(t) = IF y \in PromptLines THEN TrimEnd(u) ELSE t
          /\ NotBlank(TrimEnd(u)) = NotBlank(u)
      BY <2>3, LastIs
    <2>5. NotBlank(u) = NotBlank(c) /\ y = "<sw>"
      <3>1. Append(NotBlank(u), y) = Append(NotBlank(c), "<sw>")
        BY <2>1, <2>4
      <3>2. QED BY <1>3, <2>4, <3>1, SameLast
    <2>6. QED BY <1>2, <2>4, <2>5
  <1>5. CASE Q = <<>> /\ t = <<>>
    <2>1. NotBlank(c) = NotBlank(t)
      <3>1. NotBlank(c) \o <<>> = NotBlank(c)
        BY <1>3, NoLines
      <3>2. QED BY <1>1, <1>5, <3>1
    <2>2. TrimEnd(t) = t
      BY <1>1, TrimEndIs
    <2>3. StripPrompt(t) = t
      BY <1>5, <2>2 DEF StripPrompt
    <2>4. QED BY <1>2, <2>1, <2>3
  <1>6. CASE Q = <<>> /\ t # <<>>
    <2>1. NotBlank(c) = NotBlank(t)
      <3>1. NotBlank(c) \o <<>> = NotBlank(c)
        BY <1>3, NoLines
      <3>2. QED BY <1>1, <1>6, <3>1
    <2>2. PICK u, y : LastShown(L, t, u, y)
      BY <1>1, <1>6, TrimmedLast
    <2>3. /\ NotBlank(t) = Append(NotBlank(u), y) /\ NotBlank(u) \in Lines(L)
          /\ StripPrompt(t) = IF y \in PromptLines THEN TrimEnd(u) ELSE t
      BY <2>2, LastIs
    <2>4. c # <<>>
      <3>1. Append(NotBlank(u), y) # <<>>
        BY <2>3 DEF Lines
      <3>2. QED BY <2>1, <2>3, <3>1, NothingOfNothing
    <2>5. PICK v, z : LastShown(L, c, v, z)
      BY <2>4, TrimmedLast
    <2>6. NotBlank(c) = Append(NotBlank(v), z) /\ NotBlank(v) \in Lines(L) /\ c[Len(c)] = z
      BY <2>5, LastIs
    <2>7. y = z
      <3>1. Append(NotBlank(u), y) = Append(NotBlank(v), z)
        BY <2>1, <2>3, <2>6
      <3>2. QED BY <2>3, <2>6, <3>1, SameLast
    <2>8. y \notin PromptLines
      BY <1>6, <2>4, <2>6, <2>7 DEF KeepsLast
    <2>9. QED BY <1>2, <2>1, <2>3, <2>8
  <1>7. QED BY <1>4, <1>5, <1>6

\* What is shown of an answer is what is shown of its configuration.
ShowsAll(s, E, c, Q) == ShownText(s) = (E \o NotBlank(c)) \o Q

LEMMA ShownIsKept ==
  ASSUME NEW c \in Lines(ConfigLines), Trimmed(c), NEW E \in {<<>>, <<"echo">>},
         NEW Q \in {<<>>, <<"<sw>">>}, KeepsLast(c, Q), "<sw>" \in PromptLines,
         NEW s \in Lines(AnswerLines), ShowsAll(s, E, c, Q)
  PROVE  NotBlank(Clean(s)) = NotBlank(c)
  <1> DEFINE X == SingleBlanks(StripMarkers(s))
             Y == StripEcho(X)
             n == NotBlank(c)
             r == n \o Q
  <1>1. X \in Lines(AnswerLines) /\ NotBlank(X) = ShownText(s)
    <2>1. StripMarkers(s) \in Lines(AnswerLines)
      BY UnmarkedNext DEF AnswerLines, PromptedLines, ConfigLines
    <2>2. QED BY <2>1, SingleBlanksIs DEF ShownText
  <1>2. ConfigLines \subseteq PromptedLines /\ PromptedLines \subseteq AnswerLines
    BY DEF PromptedLines, AnswerLines
  <1>3. c \in Lines(AnswerLines) /\ n \in Lines(PromptedLines)
    <2>1. c \in Lines(PromptedLines)
      BY <1>2, MoreLines
    <2>2. n \in Lines(PromptedLines)
      BY <2>1, Passes
    <2>3. QED BY <1>2, <2>1, <2>2, MoreLines
  <1> HIDE DEF n
  <1>4. r \in Lines(PromptedLines) /\ r \in Lines(AnswerLines)
    <2>1. Q \in Lines(PromptedLines)
      <3>1. <<>> \in Lines(PromptedLines) /\ "<sw>" \in PromptedLines
        BY DEF Lines, PromptedLines
      <3>2. <<"<sw>">> \in Lines(PromptedLines)
        BY <3>1 DEF Lines
      <3>3. QED BY <3>1, <3>2
    <2>2. r \in Lines(PromptedLines)
      BY <1>3, <2>1, LinesJoined
    <2>3. QED BY <1>2, <2>2, MoreLines
  <1>5. Y \in Lines(AnswerLines) /\ NotBlank(Y) = r
    <2> HIDE DEF r, X
    <2>1. EchoTaken(X, r) /\ Y \in Lines(AnswerLines)
      BY <1>1, <1>4, EchoIsTaken
    <2>2. CASE E = <<"echo">>
      <3>1. (<<"echo">> \o n) \o Q = <<"echo">> \o (n \o Q)
        BY <1>3 DEF Lines
      <3>2. NotBlank(X) = <<"echo">> \o r
        BY <1>1, <2>2, <3>1 DEF r, n, ShowsAll
      <3>3. QED BY <2>1, <3>2 DEF EchoTaken
    <2>3. CASE E = <<>>
      <3>1. NotBlank(X) = r
        <4>1. <<>> \o n = n
          BY <1>3, NoLines
        <4>2. QED BY <1>1, <2>3, <4>1 DEF r, n, ShowsAll
      <3>2. r = <<>> \/ r[1] # "echo"
        <4>1. r # <<>> => r[1] \in PromptedLines \cup {"blank"}
          BY <1>4 DEF Lines
        <4>2. "echo" \notin PromptedLines \cup {"blank"}
          BY DEF PromptedLines, ConfigLines
        <4>3. QED BY <4>1, <4>2
      <3>3. QED BY <2>1, <3>1, <3>2 DEF EchoTaken
    <2>4. QED BY <2>1, <2>2, <2>3
  <1> HIDE DEF X, Y
  <1>6. Clean(s) = StripPrompt(Y)
    BY DEF Clean, X, Y
  <1>7. ShowsWith(Y, c, Q)
    BY <1>5 DEF r, n, ShowsWith
  <1>8. NotBlank(StripPrompt(Y)) = NotBlank(c)
    <2>1. /\ c \in Lines(AnswerLines) /\ Y \in Lines(AnswerLines) /\ Trimmed(c) /\ KeepsLast(c, Q)
          /\ Q \in {<<>>, <<"<sw>">>} /\ "<sw>" \in PromptLines
      BY <1>3, <1>5
    <2>2. QED BY ONLY <1>7, <2>1, PromptIsTaken
  <1>9. QED BY <1>6, <1>8

\* Without an erased page, and without blank lines after an echo, lines are stored
\* as they are: the echo E, blank lines G, the configuration c, blank lines T, the
\* prompt Q.
LEMMA EchoShrunk ==
  ASSUME NEW L, "echo" \in L, NEW E \in {<<>>, <<"echo">>}, NEW G \in Lines(L), BlankOnly(G),
         E = <<>> \/ G = <<>>
  PROVE  E \in Lines(L) /\ Shrunk(E \o G) = E
  <1>1. <<>> \in Lines(L) /\ <<"echo">> \in Lines(L) /\ Append(<<>>, "echo") = <<"echo">>
    BY DEF Lines
  <1>2. CASE E = <<>>
    <2>1. <<>> \o G = G
      BY NoLines
    <2>2. Shrunk(G) = <<>>
      BY <1>1, BlanksShrunk
    <2>3. QED BY <1>1, <1>2, <2>1, <2>2
  <1>3. CASE E = <<"echo">>
    <2>1. <<"echo">> \o <<>> = <<"echo">>
      BY <1>1, NoLines
    <2>2. Shrunk(Append(<<>>, "echo")) = Single(<<>>, "echo")
      <3>1. Shrunk(Append(<<>>, "echo")) = Single(Shrunk(<<>>), "echo")
        <4>1. "echo" \in L \cup {"blank"}
          OBVIOUS
        <4>2. QED BY ONLY <1>1, <4>1, SingleNext
      <3>2. QED BY <3>1, NothingOfNothing
    <2>3. Single(<<>>, "echo") = <<"echo">>
      BY <1>1 DEF Single
    <2>4. QED BY <1>1, <1>3, <2>1, <2>2, <2>3
  <1>4. QED BY <1>2, <1>3

\* After the echo the configuration is as compact, and ends as well.
LEMMA EchoBefore ==
  ASSUME NEW L, NEW E \in {<<>>, <<"echo">>}, NEW c \in Lines(L), Compact(c), Trimmed(c)
  PROVE  Compact(E \o c) /\ Trimmed(E \o c)
  <1>1. CASE E = <<>>
    <2>1. <<>> \o c = c
      BY NoLines
    <2>2. QED BY <1>1, <2>1
  <1>2. CASE E = <<"echo">>
    <2> DEFINE d == <<"echo">> \o c
    <2>1. /\ Len(c) \in Nat /\ Len(d) = Len(c) + 1 /\ d[1] = "echo"
          /\ \A i \in 1 .. Len(c) : d[i + 1] = c[i]
          /\ Len(c) = 0 <=> c = <<>>
      BY DEF Lines
    <2> HIDE DEF d
    <2>2. Compact(d)
      <3> SUFFICES ASSUME NEW i \in 1 .. Len(d), d[i] = "blank" PROVE i > 1 /\ d[i - 1] # "blank"
        BY DEF Compact
      <3>1. i # 1
        BY <2>1
      <3>2. i - 1 \in 1 .. Len(c) /\ (i - 1) + 1 = i
        BY <2>1, <3>1
      <3>3. c[i - 1] = "blank"
        BY <2>1, <3>2
      <3>4. i - 1 > 1 /\ c[(i - 1) - 1] # "blank"
        BY <3>2, <3>3 DEF Compact
      <3>5. (i - 1) - 1 \in 1 .. Len(c) /\ ((i - 1) - 1) + 1 = i - 1
        BY <3>2, <3>4
      <3>6. QED BY <2>1, <3>2, <3>4, <3>5
    <2>3. Trimmed(d)
      BY <2>1 DEF Trimmed
    <2>4. QED BY <1>2, <2>2, <2>3 DEF d
  <1>3. QED BY <1>1, <1>2

\* What is made of it before the prompt: the echo, the configuration, and at most a
\* blank line.
AtMostBlank(B) == B = <<>> \/ B = <<"blank">>
ShrinksTo(s, X) == \E B : AtMostBlank(B) /\ Shrunk(s) = X \o B

LEMMA AnswerShrunk ==
  ASSUME NEW L, {"echo", "<sw>"} \subseteq L, NEW E \in {<<>>, <<"echo">>},
         NEW G \in Lines(L), BlankOnly(G), E = <<>> \/ G = <<>>,
         NEW c \in Lines(L), Compact(c), Trimmed(c), NEW T \in Lines(L), BlankOnly(T)
  PROVE  /\ E \o G \o c \o T \in Lines(L)
         /\ ShrinksTo(E \o G \o c \o T, E \o c)
  <1> DEFINE A == E \o G
             C == A \o c
             X == E \o c
  <1>1. E \in Lines(L) /\ Shrunk(A) = E
    BY EchoShrunk
  <1>2. A \in Lines(L) /\ X \in Lines(L)
    <2>1. A \in Lines(L)
      BY ONLY <1>1, G \in Lines(L), LinesJoined
    <2>2. X \in Lines(L)
      BY ONLY <1>1, c \in Lines(L), LinesJoined
    <2>3. QED BY <2>1, <2>2
  <1>3. Compact(X)
    BY EchoBefore
  <1> HIDE DEF A
  <1>4. C \in Lines(L) /\ Shrunk(C) = X
    <2>1. C \in Lines(L)
      BY ONLY <1>2, c \in Lines(L), LinesJoined
    <2>2. Compact(Shrunk(A) \o c)
      BY <1>1, <1>3
    <2>3. Shrunk(A \o c) = Shrunk(A) \o c
      BY ONLY <1>2, <2>2, c \in Lines(L), ShrunkGoesOn
    <2>4. QED BY <1>1, <2>1, <2>3
  <1> HIDE DEF C, X
  <1>5. C \o T \in Lines(L)
    BY ONLY <1>4, T \in Lines(L), LinesJoined
  <1>6. Shrunk(C \o T) = X \/ Shrunk(C \o T) = Append(X, "blank")
    BY <1>4, BlanksShrunk
  <1>7. X \o <<>> = X /\ Append(X, "blank") = X \o <<"blank">>
    <2>1. X \o <<>> = X
      BY ONLY <1>2, NoLines
    <2>2. "blank" \in L \cup {"blank"}
      OBVIOUS
    <2>3. QED BY <1>2, <2>1, <2>2, LineAppended
  <1>8. ShrinksTo(C \o T, X)
    BY <1>6, <1>7 DEF AtMostBlank, ShrinksTo
  <1>9. QED BY <1>5, <1>8 DEF A, C, X

LEMMA BlankAtMost ==
  ASSUME NEW L, NEW B, AtMostBlank(B)
  PROVE  B \in Lines(L) /\ BlankOnly(B)
  <1>1. CASE B = <<>>
    BY <1>1 DEF Lines, BlankOnly
  <1>2. CASE B = <<"blank">>
    BY <1>2 DEF Lines, BlankOnly
  <1>3. QED BY <1>1, <1>2 DEF AtMostBlank

\* SingleBlanks leaves the echo and D, which is the configuration with or without
\* a prompt.
WithPrompt(c, Q, D) ==
    \/ Q = <<>> /\ D = c
    \/ Q = <<"<sw>">> /\ \E B : AtMostBlank(B) /\ D = Append(c \o B, "<sw>")

AnswerLeaves(E, G, c, T, Q) ==
    \E D : WithPrompt(c, Q, D) /\ SingleBlanks(E \o G \o c \o T \o Q) = E \o D

LEMMA AnswerSingle ==
  ASSUME NEW L, {"echo", "<sw>"} \subseteq L, NEW E \in {<<>>, <<"echo">>},
         NEW G \in Lines(L), BlankOnly(G), E = <<>> \/ G = <<>>,
         NEW c \in Lines(L), Compact(c), Trimmed(c), NEW T \in Lines(L), BlankOnly(T),
         NEW Q \in {<<>>, <<"<sw>">>}
  PROVE  AnswerLeaves(E, G, c, T, Q)
  <1> DEFINE K == E \o G \o c \o T
             X == E \o c
  <1>1. K \in Lines(L) /\ ShrinksTo(K, X)
    BY AnswerShrunk
  <1>2. PICK B : AtMostBlank(B) /\ Shrunk(K) = X \o B
    BY <1>1 DEF ShrinksTo
  <1>3. B \in Lines(L) /\ BlankOnly(B)
    BY <1>2, BlankAtMost
  <1>4. E \in Lines(L)
    BY EchoShrunk
  <1>5. X \in Lines(L) /\ Trimmed(X)
    <2>1. X \in Lines(L)
      BY ONLY <1>4, c \in Lines(L), LinesJoined
    <2>2. QED BY <2>1, EchoBefore
  <1> HIDE DEF K, X
  <1>6. CASE Q = <<>>
    <2>1. K \o Q = K
      BY <1>1, <1>6, NoLines
    <2>2. SingleBlanks(K) = TrimEnd(X \o B)
      BY <1>2, <1>1, SingleBlanksIs
    <2>3. TrimEnd(X \o B) = X
      BY ONLY <1>3, <1>5, TrimEndOf
    <2>4. QED BY <1>6, <2>1, <2>2, <2>3 DEF WithPrompt, K, X, AnswerLeaves
  <1>7. CASE Q = <<"<sw>">>
    <2> DEFINE W == X \o B
               D == Append(c \o B, "<sw>")
    <2>1. K \o Q = Append(K, "<sw>")
      BY <1>1, <1>7, LineAppended
    <2>2. Append(K, "<sw>") \in Lines(L) /\ Shrunk(Append(K, "<sw>")) = Append(W, "<sw>")
      <3>1. Append(K, "<sw>") \in Lines(L)
        BY <1>1, LinesAppended
      <3>2. Shrunk(Append(K, "<sw>")) = Single(Shrunk(K), "<sw>")
        BY <1>1, SingleNext
      <3>3. QED BY <1>2, <3>1, <3>2 DEF Single
    <2>3. W \in Lines(L)
      BY ONLY <1>3, <1>5, LinesJoined
    <2>4. Append(W, "<sw>") = E \o D
      <3>1. JoinAlike(E, c, B)
        BY ONLY <1>3, <1>4, c \in Lines(L), JoinedTwice
      <3>2. W = E \o (c \o B)
        BY <3>1 DEF JoinAlike, X
      <3>3. c \o B \in Lines(L)
        BY ONLY <1>3, c \in Lines(L), LinesJoined
      <3>4. E \o Append(c \o B, "<sw>") = Append(E \o (c \o B), "<sw>")
        BY ONLY <1>4, <3>3, "<sw>" \in L \cup {"blank"}, LinesJoined
      <3>5. QED BY <3>2, <3>4
    <2> HIDE DEF W
    <2>5. TrimEnd(Append(W, "<sw>")) = Append(W, "<sw>")
      <3>1. Trimmed(Append(W, "<sw>")) /\ Append(W, "<sw>") \in Lines(L)
        BY <2>3, PromptAt, LinesAppended
      <3>2. QED BY <3>1, TrimEndIs
    <2>6. SingleBlanks(Append(K, "<sw>")) = TrimEnd(Append(W, "<sw>"))
      BY <2>2, SingleBlanksIs
    <2>7. WithPrompt(c, Q, D)
      BY <1>2, <1>7 DEF WithPrompt
    <2> HIDE DEF D
    <2>8. QED BY <2>1, <2>4, <2>5, <2>6, <2>7 DEF K, AnswerLeaves
  <1>8. QED BY <1>6, <1>7

\* Neither the echo nor the prompt is stored.
LEMMA AnswerStripped ==
  ASSUME NEW c \in Lines(ConfigLines), Trimmed(c), NEW E \in {<<>>, <<"echo">>},
         NEW Q \in {<<>>, <<"<sw>">>}, KeepsLast(c, Q), "<sw>" \in PromptLines,
         NEW D, WithPrompt(c, Q, D)
  PROVE  StripPrompt(StripEcho(E \o D)) = c
  <1>1. /\ ConfigLines \subseteq PromptedLines /\ PromptedLines \subseteq AnswerLines
        /\ "<sw>" \in PromptedLines /\ "echo" \in AnswerLines
    BY DEF PromptedLines, AnswerLines
  <1>2. c \in Lines(PromptedLines) /\ c \in Lines(AnswerLines)
    <2>1. c \in Lines(PromptedLines)
      BY <1>1, MoreLines
    <2>2. QED BY <1>1, <2>1, MoreLines
  <1>3. \A B : AtMostBlank(B) => c \o B \in Lines(PromptedLines)
    <2> SUFFICES ASSUME NEW B, AtMostBlank(B) PROVE c \o B \in Lines(PromptedLines)
      OBVIOUS
    <2>1. B \in Lines(PromptedLines)
      BY BlankAtMost
    <2>2. QED BY ONLY <1>2, <2>1, LinesJoined
  <1>4. D \in Lines(PromptedLines)
    <2>1. CASE Q = <<>> /\ D = c
      BY <1>2, <2>1
    <2>2. ASSUME NEW B, AtMostBlank(B), D = Append(c \o B, "<sw>") PROVE D \in Lines(PromptedLines)
      <3>1. c \o B \in Lines(PromptedLines)
        BY <1>3, <2>2
      <3>2. QED BY <1>1, <2>2, <3>1, LinesAppended
    <2>3. QED BY <2>1, <2>2 DEF WithPrompt
  <1>5. StripEcho(E \o D) = D
    <2>1. CASE E = <<>>
      <3>1. <<>> \o D = D
        BY <1>4, NoLines
      <3>2. QED BY <1>4, <2>1, <3>1, NoEchoTaken
    <2>2. CASE E = <<"echo">>
      <3> DEFINE s == <<"echo">> \o D
      <3>1. D \in Lines(AnswerLines) /\ <<>> \in Lines(AnswerLines)
        BY <1>1, <1>4, MoreLines, NoLines
      <3>2. s \in Lines(AnswerLines)
        <4>1. <<"echo">> \in Lines(AnswerLines)
          BY <1>1, <3>1, LineAppended
        <4>2. QED BY ONLY <3>1, <4>1, LinesJoined
      <3>3. <<>> \o s = s /\ <<>> \o D = D
        BY ONLY <3>1, <3>2, NoLines
      <3>4. StartsAt(AnswerLines, s, <<>>, "echo", D)
        BY <1>1, <3>1, <3>3 DEF StartsAt, BlankOnly
      <3> HIDE DEF s
      <3>5. StripEcho(s) = <<>> \o D
        <4> DEFINE x == "echo"
        <4> HIDE DEF x
        <4>1. StartsAt(AnswerLines, s, <<>>, x, D)
          BY <3>4 DEF x
        <4>2. StripEcho(s) = IF x = "echo" THEN <<>> \o D ELSE s
          BY ONLY <3>2, <4>1, EchoAt
        <4>3. QED BY <4>2 DEF x
      <3>6. QED BY <2>2, <3>3, <3>5 DEF s
    <2>3. QED BY <2>1, <2>2
  <1>6. StripPrompt(D) = c
    <2>1. CASE Q = <<>> /\ D = c /\ c = <<>>
      <3>1. TrimEnd(c) = c
        BY TrimEndIs
      <3>2. QED BY <2>1, <3>1 DEF StripPrompt
    <2>2. CASE Q = <<>> /\ D = c /\ c # <<>>
      <3>1. PICK u, y : LastShown(ConfigLines, c, u, y)
        BY <2>2, TrimmedLast
      <3>2. c[Len(c)] = y /\ StripPrompt(c) = IF y \in PromptLines THEN TrimEnd(u) ELSE c
        BY <3>1, LastIs
      <3>3. QED BY <2>2, <3>2 DEF KeepsLast
    <2>3. ASSUME NEW B, AtMostBlank(B), D = Append(c \o B, "<sw>") PROVE StripPrompt(D) = c
      <3>1. c \o B \in Lines(PromptedLines) /\ B \in Lines(PromptedLines) /\ BlankOnly(B)
        BY <1>3, <2>3, BlankAtMost
      <3>2. TrimEnd(c \o B) = c
        BY <1>2, <3>1, TrimEndOf
      <3>3. "<sw>" # "blank"
        OBVIOUS
      <3>4. StripPrompt(D) = IF "<sw>" \in PromptLines THEN TrimEnd(c \o B) ELSE D
        BY <1>1, <2>3, <3>1, <3>3, PromptAt
      <3>5. QED BY <3>2, <3>4
    <2>4. QED BY <2>1, <2>2, <2>3 DEF WithPrompt
  <1>7. QED BY <1>5, <1>6

\* Without its markers an answer is the configuration between the rest.
UnmarkedAlike(a, b) == StripMarkers(a \o b) = StripMarkers(a) \o StripMarkers(b)

LEMMA UnmarkedParts ==
  ASSUME NEW L, NEW a \in Lines(L), NEW b \in Lines(L)
  PROVE  UnmarkedAlike(a, b)
  BY PassOfParts DEF UnmarkedAlike

AnswerKeeps(E, G, A, M, B, T, Q) ==
    StripMarkers(E \o G \o A \o M \o B \o T \o Q) = E \o G \o (A \o B) \o T \o Q

LEMMA AnswerUnmarked ==
  ASSUME NEW L, NEW E \in Lines(L), NEW G \in Lines(L), NEW A \in Lines(L), NEW M \in Lines(L),
         NEW B \in Lines(L), NEW T \in Lines(L), NEW Q \in Lines(L),
         StripMarkers(E) = E, StripMarkers(G) = G, StripMarkers(A) = A, StripMarkers(M) = <<>>,
         StripMarkers(B) = B, StripMarkers(T) = T, StripMarkers(Q) = Q
  PROVE  AnswerKeeps(E, G, A, M, B, T, Q)
  <1> DEFINE C == E \o G
             D == C \o A
             F == D \o M
             H == F \o B
             K == H \o T
  <1>1. C \in Lines(L)
    BY ONLY E \in Lines(L), G \in Lines(L), LinesJoined
  <1>2. StripMarkers(C) = C
    <2>1. UnmarkedAlike(E, G)
      BY UnmarkedParts
    <2>2. QED BY <2>1 DEF UnmarkedAlike
  <1> HIDE DEF C
  <1>3. D \in Lines(L)
    BY ONLY <1>1, A \in Lines(L), LinesJoined
  <1>4. StripMarkers(D) = D
    <2>1. UnmarkedAlike(C, A)
      BY <1>1, UnmarkedParts
    <2>2. QED BY <1>2, <2>1 DEF UnmarkedAlike
  <1>5. D \o B = C \o (A \o B)
    <2>1. JoinAlike(C, A, B)
      BY <1>1, JoinedTwice
    <2>2. QED BY <2>1 DEF JoinAlike
  <1> HIDE DEF D
  <1>6. F \in Lines(L)
    BY ONLY <1>3, M \in Lines(L), LinesJoined
  <1>7. StripMarkers(F) = D
    <2>1. UnmarkedAlike(D, M)
      BY <1>3, UnmarkedParts
    <2>2. D \o <<>> = D
      BY ONLY <1>3, NoLines
    <2>3. QED BY <1>4, <2>1, <2>2 DEF UnmarkedAlike
  <1> HIDE DEF F
  <1>8. H \in Lines(L)
    BY ONLY <1>6, B \in Lines(L), LinesJoined
  <1>9. StripMarkers(H) = D \o B
    <2>1. UnmarkedAlike(F, B)
      BY <1>6, UnmarkedParts
    <2>2. QED BY <1>7, <2>1 DEF UnmarkedAlike
  <1> HIDE DEF H
  <1>10. K \in Lines(L)
    BY ONLY <1>8, T \in Lines(L), LinesJoined
  <1>11. StripMarkers(K) = (D \o B) \o T
    <2>1. UnmarkedAlike(H, T)
      BY <1>8, UnmarkedParts
    <2>2. QED BY <1>9, <2>1 DEF UnmarkedAlike
  <1> HIDE DEF K
  <1>12. StripMarkers(K \o Q) = StripMarkers(K) \o Q
    <2>1. UnmarkedAlike(K, Q)
      BY <1>10, UnmarkedParts
    <2>2. QED BY <2>1 DEF UnmarkedAlike
  <1>13. K = E \o G \o A \o M \o B \o T
    BY DEF C, D, F, H, K
  <1>14. QED BY <1>5, <1>11, <1>12, <1>13 DEF C, AnswerKeeps

\* A configuration that a device has printed, and the parts of its reply.
LEMMA CleanProblem ==
  ASSUME problem \in CleanProblems
  PROVE  /\ problem.config \in Lines(ConfigLines)
         /\ Compact(problem.config) /\ Trimmed(problem.config)
  <1> DEFINE c == problem.config
  <1>1. c \in Printed
    BY DEF CleanProblems
  <1>2. /\ SingleBlanks(c) = c
        /\ c \in UNION {[1 .. n -> {"a", "b", "#", "[x]", "blank"}] : n \in 0 .. MaxLines}
    BY <1>1 DEF Printed
  <1> HIDE DEF c
  <1>3. PICK n \in 0 .. MaxLines : c \in [1 .. n -> {"a", "b", "#", "[x]", "blank"}]
    BY <1>2
  <1>4. n \in Nat
    BY PlanningAssumption
  <1>5. ConfigLines \cup {"blank"} = {"a", "b", "#", "[x]", "blank"}
    BY DEF ConfigLines
  <1>6. c \in Seq(ConfigLines \cup {"blank"})
    BY <1>3, <1>4, <1>5, FunctionIsSeq
  <1>7. c \in Lines(ConfigLines)
    BY <1>6 DEF Lines
  <1>8. QED BY <1>2, <1>7, SingleBlanksIs DEF c

LEMMA BlanksAre ==
  ASSUME NEW L, NEW n \in Nat
  PROVE  Blanks(n) \in Lines(L) /\ BlankOnly(Blanks(n)) /\ Plain(Blanks(n))
  <1>1. Blanks(n) \in [1 .. n -> L \cup {"blank"}] /\ \A i \in 1 .. n : Blanks(n)[i] = "blank"
    BY DEF Blanks
  <1>2. Blanks(n) \in Seq(L \cup {"blank"}) /\ Len(Blanks(n)) = n
    BY <1>1, FunctionIsSeq
  <1>3. QED BY <1>1, <1>2 DEF Lines, BlankOnly, Plain

\* What is neither marker nor erased is left as it is.
LEMMA PlainLines ==
  ASSUME NEW L, "marker" \notin L, "erased" \notin L, NEW s \in Lines(L)
  PROVE  Plain(s)
  BY DEF Lines, Plain

\* One line alone is an echo, a prompt, or a mark for a page.
LEMMA OneLine ==
  ASSUME NEW x \in AnswerLines
  PROVE  /\ <<x>> \in Lines(AnswerLines)
         /\ StripMarkers(<<x>>) = Unmarked(<<>>, x)
         /\ x = "erased" => StripMarkers(<<x>>) = <<"blank">> /\ ShownText(<<x>>) = <<>>
         /\ x \notin {"marker", "erased"} => StripMarkers(<<x>>) = <<x>> /\ ShownText(<<x>>) = <<x>>
         /\ x = "marker" => StripMarkers(<<x>>) = <<>> /\ ShownText(<<x>>) = <<>>
  <1>1. <<>> \in Lines(AnswerLines) /\ <<x>> \in Lines(AnswerLines) /\ x \in AnswerLines \cup {"blank"}
    BY DEF Lines
  <1>2. Append(<<>>, x) = <<x>> /\ Append(<<>>, "blank") = <<"blank">> /\ x # "blank"
    BY DEF AnswerLines, PromptedLines, ConfigLines
  <1>3. StripMarkers(<<x>>) = Unmarked(<<>>, x)
    <2>1. StripMarkers(Append(<<>>, x)) = Unmarked(StripMarkers(<<>>), x)
      BY <1>1, UnmarkedNext
    <2>2. QED BY <1>2, <2>1, NothingOfNothing
  <1>4. \A y \in AnswerLines \cup {"blank"} : NotBlank(Append(<<>>, y)) = Visible(<<>>, y)
    <2> TAKE y \in AnswerLines \cup {"blank"}
    <2>1. NotBlank(Append(<<>>, y)) = Visible(NotBlank(<<>>), y)
      BY <1>1, VisibleNext
    <2>2. QED BY <2>1, NothingOfNothing
  <1>5. NotBlank(<<x>>) = <<x>> /\ NotBlank(<<"blank">>) = <<>>
    <2>1. NotBlank(Append(<<>>, x)) = Visible(<<>>, x)
      BY <1>1, <1>4
    <2>2. NotBlank(Append(<<>>, "blank")) = Visible(<<>>, "blank")
      BY <1>4
    <2>3. QED BY <1>2, <2>1, <2>2 DEF Visible
  <1>6. CASE x = "erased"
    <2>1. StripMarkers(<<x>>) = <<"blank">>
      BY <1>2, <1>3, <1>6 DEF Unmarked
    <2>2. QED BY <1>1, <1>3, <1>5, <1>6, <2>1 DEF ShownText
  <1>7. CASE x = "marker"
    <2>1. StripMarkers(<<x>>) = <<>>
      BY <1>3, <1>7 DEF Unmarked
    <2>2. QED BY <1>1, <1>3, <1>7, <2>1, NothingOfNothing DEF ShownText
  <1>8. CASE x \notin {"marker", "erased"}
    <2>1. StripMarkers(<<x>>) = <<x>>
      BY <1>2, <1>3, <1>8 DEF Unmarked
    <2>2. QED BY <1>1, <1>3, <1>5, <1>8, <2>1 DEF ShownText
  <1>9. QED BY <1>6, <1>7, <1>8

\* The parts of a reply: the echo, blank lines, a page of the configuration, the mark
\* of its end, the rest, blank lines, the prompt.
RawIs(E, G, A, M, B, T, Q) ==
    /\ Raw = E \o G \o A \o M \o B \o T \o Q
    /\ E \in {<<>>, <<"echo">>} /\ (problem.echo \/ E = <<>>)
    /\ Q \in {<<>>, <<"<sw>">>} /\ (problem.prompt => Q = <<"<sw>">>)
    /\ G \in Lines(ConfigLines) /\ BlankOnly(G) /\ (problem.gap = 0 => G = <<>>)
    /\ T \in Lines(ConfigLines) /\ BlankOnly(T)
    /\ A \in Lines(ConfigLines) /\ B \in Lines(ConfigLines) /\ A \o B = problem.config
    /\ M = <<>> \/ M = <<"marker">> \/ M = <<"erased">>
    /\ problem.break # "erased" => M # <<"erased">>

LEMMA RawParts ==
  ASSUME problem \in CleanProblems
  PROVE  \E E, G, A, M, B, T, Q : RawIs(E, G, A, M, B, T, Q)
  <1> DEFINE c == problem.config
             k == IF problem.page > Len(c) THEN Len(c) ELSE problem.page
             A == SubSeq(c, 1, k)
             B == SubSeq(c, k + 1, Len(c))
             E == IF problem.echo THEN <<"echo">> ELSE <<>>
             G == Blanks(problem.gap)
             M == IF problem.break = "none" THEN <<>> ELSE <<problem.break>>
             T == Blanks(problem.tail)
             Q == IF problem.prompt THEN <<"<sw>">> ELSE <<>>
  <1>1. /\ problem.page \in 0 .. MaxLines /\ problem.gap \in {0, 2} /\ problem.tail \in {0, 2}
        /\ problem.break \in {"none", "marker", "erased"}
    BY DEF CleanProblems
  <1>2. Raw = E \o G \o A \o M \o B \o T \o Q
    BY DEF Raw
  <1>3. c \in Lines(ConfigLines)
    BY CleanProblem
  <1> HIDE DEF c
  <1>4. k \in 0 .. Len(c) /\ Len(c) \in Nat
    BY <1>1, <1>3, PlanningAssumption DEF Lines
  <1> HIDE DEF k
  <1>5. A \in Lines(ConfigLines) /\ B \in Lines(ConfigLines) /\ A \o B = c
    <2>1. c \in Seq(ConfigLines \cup {"blank"})
      BY <1>3 DEF Lines
    <2>2. /\ A \in Seq(ConfigLines \cup {"blank"}) /\ Len(A) = k
          /\ \A i \in 1 .. k : A[i] = c[i]
      BY <1>4, <2>1
    <2>3. /\ B \in Seq(ConfigLines \cup {"blank"}) /\ Len(B) = Len(c) - k
          /\ \A i \in 1 .. Len(c) - k : B[i] = c[k + i]
      BY <1>4, <2>1
    <2> HIDE DEF A, B
    <2>4. A \o B = c
      <3> DEFINE d == A \o B
      <3>1. /\ d \in Seq(ConfigLines \cup {"blank"}) /\ Len(d) = Len(c)
            /\ \A i \in 1 .. k : d[i] = A[i]
            /\ \A i \in 1 .. Len(c) - k : d[k + i] = B[i]
        BY <1>4, <2>2, <2>3
      <3> HIDE DEF d
      <3>2. ASSUME NEW i \in 1 .. Len(c) PROVE d[i] = c[i]
        <4>1. CASE i <= k
          BY <1>4, <2>2, <3>1, <4>1
        <4>2. CASE i > k
          <5>1. i - k \in 1 .. Len(c) - k /\ k + (i - k) = i
            BY <1>4, <4>2
          <5>2. QED BY <2>3, <3>1, <5>1
        <4>3. QED BY <1>4, <4>1, <4>2
      <3>3. d = c
        BY <2>1, <3>1, <3>2
      <3>4. QED BY <3>3 DEF d
    <2>5. QED BY <2>2, <2>3, <2>4 DEF Lines
  <1>6. G \in Lines(ConfigLines) /\ BlankOnly(G) /\ T \in Lines(ConfigLines) /\ BlankOnly(T)
    BY <1>1, BlanksAre
  <1>7. problem.gap = 0 => G = <<>>
    BY DEF Blanks
  <1>8. RawIs(E, G, A, M, B, T, Q)
    <2> HIDE DEF A, B, G, T
    <2>1. QED BY <1>1, <1>2, <1>5, <1>6, <1>7 DEF RawIs, c
  <1>9. QED BY <1>8

\* What is stored is the configuration, whenever it is collected: what is shown of it
\* always is, and the blank lines too unless the device has overwritten a page or
\* has sent some after the echo.
LEMMA CleanOfRaw ==
  ASSUME problem \in CleanProblems,
         NEW E, NEW G, NEW A, NEW M, NEW B, NEW T, NEW Q, RawIs(E, G, A, M, B, T, Q),
         KeepsLast(problem.config, Q)
  PROVE  /\ NotBlank(Cleaned) = NotBlank(problem.config)
         /\ problem.break # "erased" /\ (problem.echo => problem.gap = 0) =>
               Cleaned = problem.config
  <1> DEFINE c == problem.config
             L == AnswerLines
  <1>1. c \in Lines(ConfigLines) /\ Compact(c) /\ Trimmed(c)
    BY CleanProblem
  <1>2. /\ Raw = E \o G \o A \o M \o B \o T \o Q /\ A \o B = c
        /\ E \in {<<>>, <<"echo">>} /\ Q \in {<<>>, <<"<sw>">>} /\ BlankOnly(G) /\ BlankOnly(T)
        /\ M = <<>> \/ M = <<"marker">> \/ M = <<"erased">>
    BY DEF RawIs
  <1>3. ConfigLines \subseteq L /\ {"echo", "<sw>", "marker", "erased"} \subseteq L
        /\ "marker" \notin ConfigLines /\ "erased" \notin ConfigLines
    BY DEF AnswerLines, PromptedLines, ConfigLines
  <1> HIDE DEF L, c
  <1>4. ASSUME NEW s \in Lines(ConfigLines)
        PROVE  s \in Lines(L) /\ StripMarkers(s) = s /\ ShownText(s) = NotBlank(s)
    <2>1. s \in Lines(L)
      BY <1>3, MoreLines
    <2>2. Plain(s)
      BY <1>3, PlainLines
    <2>3. StripMarkers(s) = s
      BY <2>1, <2>2, Passes DEF PassesKeep
    <2>4. QED BY <2>1, <2>3 DEF ShownText
  <1>5. /\ A \in Lines(L) /\ StripMarkers(A) = A /\ B \in Lines(L) /\ StripMarkers(B) = B
        /\ c \in Lines(L) /\ ShownText(c) = NotBlank(c)
    BY <1>1, <1>4 DEF RawIs
  <1>6. /\ G \in Lines(L) /\ StripMarkers(G) = G /\ ShownText(G) = <<>>
        /\ T \in Lines(L) /\ StripMarkers(T) = T /\ ShownText(T) = <<>>
    <2>1. G \in Lines(ConfigLines) /\ T \in Lines(ConfigLines) /\ BlankOnly(G) /\ BlankOnly(T)
      BY DEF RawIs
    <2>2. NotBlank(G) = <<>> /\ NotBlank(T) = <<>>
      BY <2>1, Passes DEF PassesKeep
    <2>3. QED BY <1>4, <2>1, <2>2
  <1>7. <<>> \in Lines(L) /\ StripMarkers(<<>>) = <<>> /\ ShownText(<<>>) = <<>>
    BY NothingOfNothing DEF Lines, ShownText
  <1>8. /\ E \in Lines(L) /\ StripMarkers(E) = E /\ ShownText(E) = E
        /\ Q \in Lines(L) /\ StripMarkers(Q) = Q /\ ShownText(Q) = Q
    <2>1. \A x \in {"echo", "<sw>"} :
             <<x>> \in Lines(L) /\ StripMarkers(<<x>>) = <<x>> /\ ShownText(<<x>>) = <<x>>
      BY <1>3, OneLine DEF L
    <2>2. QED BY <1>2, <1>7, <2>1
  <1>9. /\ M \in Lines(L) /\ ShownText(M) = <<>>
        /\ problem.break # "erased" => StripMarkers(M) = <<>>
    <2>1. CASE M = <<>>
      BY <1>7, <2>1
    <2>2. CASE M = <<"marker">>
      BY <1>3, <2>2, OneLine DEF L
    <2>3. CASE M = <<"erased">>
      <3>1. problem.break = "erased"
        BY <2>3 DEF RawIs
      <3>2. QED BY <1>3, <2>3, <3>1, OneLine DEF L
    <2>4. QED BY <1>2, <2>1, <2>2, <2>3
  <1>10. "<sw>" \in PromptLines
    BY PlanningAssumption
  <1>11. NotBlank(Cleaned) = NotBlank(c)
    <2>1. Raw \in Lines(L) /\ ShownText(Raw) = (E \o NotBlank(c)) \o Q
      <3>1. AnswerShows(L, E, G, A, M, B, T, Q)
        BY <1>5, <1>6, <1>8, <1>9, ShownOfAnswer
      <3>2. QED BY <1>2, <1>5, <1>8, <3>1 DEF AnswerShows
    <2>2. KeepsLast(c, Q)
      BY DEF c
    <2>3. NotBlank(Clean(Raw)) = NotBlank(c)
      <3>1. ShowsAll(Raw, E, c, Q) /\ E \in {<<>>, <<"echo">>} /\ Q \in {<<>>, <<"<sw>">>}
            /\ Raw \in Lines(AnswerLines)
        BY <1>2, <2>1 DEF ShowsAll, L
      <3>2. QED BY ONLY <1>1, <1>10, <2>2, <3>1, ShownIsKept
    <2>4. QED BY <2>3 DEF Cleaned
  <1>12. ASSUME problem.break # "erased", problem.echo => problem.gap = 0 PROVE Cleaned = c
    <2>1. StripMarkers(Raw) = E \o G \o c \o T \o Q
      <3>1. AnswerKeeps(E, G, A, M, B, T, Q)
        BY <1>5, <1>6, <1>8, <1>9, <1>12, AnswerUnmarked
      <3>2. QED BY <1>2, <3>1 DEF AnswerKeeps
    <2>2. E = <<>> \/ G = <<>>
      BY <1>12 DEF RawIs
    <2>3. PICK D : WithPrompt(c, Q, D) /\ SingleBlanks(E \o G \o c \o T \o Q) = E \o D
      <3>1. AnswerLeaves(E, G, c, T, Q)
        <4>1. /\ {"echo", "<sw>"} \subseteq L /\ E \in {<<>>, <<"echo">>} /\ Q \in {<<>>, <<"<sw>">>}
              /\ G \in Lines(L) /\ BlankOnly(G) /\ T \in Lines(L) /\ BlankOnly(T)
              /\ c \in Lines(L) /\ Compact(c) /\ Trimmed(c)
          BY <1>1, <1>2, <1>3, <1>5, <1>6
        <4>2. QED BY ONLY <2>2, <4>1, AnswerSingle
      <3>2. QED BY <3>1 DEF AnswerLeaves
    <2>4. KeepsLast(c, Q)
      BY DEF c
    <2>5. StripPrompt(StripEcho(E \o D)) = c
      <3>1. /\ c \in Lines(ConfigLines) /\ Trimmed(c) /\ WithPrompt(c, Q, D)
            /\ E \in {<<>>, <<"echo">>} /\ Q \in {<<>>, <<"<sw>">>}
        BY <1>1, <1>2, <2>3
      <3>2. QED BY ONLY <1>10, <2>4, <3>1, AnswerStripped
    <2>6. QED BY <2>1, <2>3, <2>5 DEF Cleaned, Clean
  <1>13. QED BY <1>11, <1>12 DEF c

\* What is stored of an output is the configuration (clean_backup_output).
THEOREM CleanedStable == Spec => []CleanIsStable
  <1>1. AnswerIsSolution => CleanIsStable
    <2> SUFFICES ASSUME AnswerIsSolution, Solved("clean"),
                        \/ problem.prompt
                        \/ problem.config = <<>>
                        \/ problem.config[Len(problem.config)] \notin PromptLines
                 PROVE  /\ NotBlank(answer) = NotBlank(problem.config)
                        /\ problem.break # "erased" /\ (problem.echo => problem.gap = 0) =>
                              answer = problem.config
      BY DEF CleanIsStable
    <2>1. problem \in CleanProblems
      BY DEF AnswerIsSolution, Solved, Problems, CanaryProblems, VlanProblems, ScheduleProblems,
             BackupProblems, SessionProblems, ImportProblems, DriverProblems,
             CaptureProblems, ApplyProblems, FileProblems, EvidenceProblems
    <2>2. answer = Cleaned
      BY DEF AnswerIsSolution
    <2>3. PICK E, G, A, M, B, T, Q : RawIs(E, G, A, M, B, T, Q)
      BY <2>1, RawParts
    <2>4. KeepsLast(problem.config, Q)
      <3>1. problem.prompt => Q = <<"<sw>">>
        BY <2>3 DEF RawIs
      <3>2. <<"<sw>">> # <<>>
        OBVIOUS
      <3>3. QED BY <3>1, <3>2 DEF KeepsLast
    <2>5. QED BY <2>1, <2>2, <2>3, <2>4, CleanOfRaw
  <1>2. QED BY <1>1, Solutions, PTL
=============================================================================
