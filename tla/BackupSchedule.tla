--------------------------- MODULE BackupSchedule ---------------------------
(***************************************************************************)
(* When a backup schedule runs next: calculate_next_run of the             *)
(* ConfigBackupService over the wall clock of the schedule's time zone, in *)
(* minutes.  An expression has the five fields of a cron expression:       *)
(* minute, hour, day of the month, month and weekday.  The code takes the  *)
(* last three whatever they are and does not look at them.                 *)
(***************************************************************************)
EXTENDS Integers

CONSTANTS
    Star,          \* the field "*"
    Hourly, Daily  \* the shorthands @hourly and @daily

MinutesPerHour == 60
MinutesPerDay  == 24 * MinutesPerHour

Minutes == 0 .. MinutesPerHour - 1
Hours   == 0 .. 23

MinuteOf(t) == t % MinutesPerHour
HourOf(t)   == (t % MinutesPerDay) \div MinutesPerHour
DayOf(t)    == t \div MinutesPerDay

\* _cron_number
CronNumber(field, current) == IF field = Star THEN current ELSE field

\* The time of today, or of this hour, that minute and hour name, and this very
\* minute for a minute that is not named.
Candidate(cron, now) ==
    DayOf(now) * MinutesPerDay
      + CronNumber(cron.hour, HourOf(now)) * MinutesPerHour
      + CronNumber(cron.minute, MinuteOf(now))

\* Mutant: a candidate that is now is taken.
LaterFromNow(candidate, cron, now) ==
    IF candidate >= now THEN candidate
    ELSE candidate + (IF cron.hour = Star THEN MinutesPerHour ELSE MinutesPerDay)

\* A candidate that is not after now moves by an hour or a day.
Later(candidate, cron, now) ==
    IF candidate > now THEN candidate
    ELSE candidate + (IF cron.hour = Star THEN MinutesPerHour ELSE MinutesPerDay)

NextRun(cron, now) ==
    CASE cron = Hourly -> (now \div MinutesPerHour + 1) * MinutesPerHour
      [] cron = Daily  -> (DayOf(now) + 1) * MinutesPerDay
      [] OTHER         -> Later(Candidate(cron, now), cron, now)
=============================================================================
