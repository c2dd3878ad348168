-------------------------- MODULE ScheduleEvaluator --------------------------
(***************************************************************************)
(* internal/schedule: whether a schedule is awake at an instant and when   *)
(* it next flips.  Instants are integers; a zone adds its UTC offset to    *)
(* get the wall clock, and may change its offset once (a DST transition).  *)
(* Days, hours and minutes are as long as the constants say: the algorithm *)
(* does not depend on there being 24 hours of 60 minutes.                  *)
(***************************************************************************)
EXTENDS Integers, FiniteSets, FiniteSetsExt

CONSTANTS HoursPerDay, MinutesPerHour,
          Minute          \* instants in a minute

ASSUME ClockAssumption == {HoursPerDay, MinutesPerHour, Minute} \subseteq Nat \ {0}

DayLength == HoursPerDay * MinutesPerHour * Minute
Weekdays == 0 .. 6

\* Mutant: not quite a week.
ShortHorizon == 6 * DayLength

scanHorizon == 8 * DayLength

\* The zero time.Time.
Zero == 0

-----------------------------------------------------------------------------
(* The time package, as far as the evaluator uses it.                      *)

\* [before, after: offsets, at: the instant at which the offset changes]
Offset(zone, t) == IF t < zone.at THEN zone.before ELSE zone.after

Local(zone, t) == t + Offset(zone, t)
LocalDay(zone, t) == Local(zone, t) \div DayLength
Weekday(day) == day % 7
Clock(zone, t) == Local(zone, t) % DayLength
TimeOfDay(zone, t) == Clock(zone, t) \div Minute

\* time.Date looks the offset up as if the wall clock were UTC, and once more
\* when the instant it gets falls on the other side of the transition.
Date(zone, day, clock) ==
  LET wall  == day * DayLength + clock
      guess == Offset(zone, wall)
      valid == (wall - guess < zone.at) <=> (wall < zone.at)
  IN  IF guess = 0 \/ valid THEN wall - guess
                            ELSE wall - Offset(zone, wall - guess)

-----------------------------------------------------------------------------

\* "HH:MM" in minutes; -1 when an hour or a minute is out of range.
parseHHMM(hm) ==
  IF hm.h \in 0 .. HoursPerDay - 1 /\ hm.m \in 0 .. MinutesPerHour - 1
  THEN hm.h * MinutesPerHour + hm.m
  ELSE -1

windowCoversDay(w, weekday) == weekday \in w.days

\* Inside any awake window, half-open [from, to) on each of its days.
isAwakeAt(awake, zone, t) ==
  \E w \in awake :
    /\ windowCoversDay(w, Weekday(LocalDay(zone, t)))
    /\ parseHHMM(w.from) >= 0 /\ parseHHMM(w.to) >= 0
    /\ parseHHMM(w.from) <= TimeOfDay(zone, t)
    /\ TimeOfDay(zone, t) < parseHHMM(w.to)

\* The scan's days: today's midnight, then AddDate(0, 0, 1) time and again, on
\* the wall clock the day before came out at.
ScanDays == 0 .. 10
scanDay(zone, after) ==
  LET AddDay[t \in Int] == Date(zone, LocalDay(zone, t) + 1, Clock(zone, t))
      day[k \in ScanDays] ==
        IF k = 0 THEN Date(zone, LocalDay(zone, after), 0) ELSE AddDay[day[k - 1]]
  IN  day

\* The window starts and ends strictly after `after' and up to `limit', on
\* the days of the scan that begin within the limit.
candidateBoundaries(awake, zone, after, limit) ==
  LET day   == scanDay(zone, after)
      days  == {LocalDay(zone, day[k]) : k \in {i \in ScanDays : day[i] <= limit}}
      of(d) == {Date(zone, d, parseHHMM(hm) * Minute) :
                  hm \in {x \in UNION {{w.from, w.to} :
                                         w \in {v \in awake : windowCoversDay(v, Weekday(d))}} :
                            parseHHMM(x) >= 0}}
  IN  {b \in UNION {of(d) : d \in days} : after < b /\ b <= limit}

\* Mutant: the first boundary is taken for a transition.
FirstBoundary(awake, zone, t) ==
  LET ahead == candidateBoundaries(awake, zone, t, t + scanHorizon)
  IN  IF ahead = {} THEN Zero ELSE Min(ahead)

\* The earliest boundary at which the phase differs from the current one.
NextTransition(awake, zone, t) ==
  LET flips == {b \in candidateBoundaries(awake, zone, t, t + scanHorizon) :
                  isAwakeAt(awake, zone, b) # isAwakeAt(awake, zone, t)}
  IN  IF flips = {} THEN Zero ELSE Min(flips)

-----------------------------------------------------------------------------

\* What NextTransition promises: the first instant, within the horizon, at
\* which the schedule is not what it is now.
FirstFlip(awake, zone, t) ==
  LET flips == {u \in t + 1 .. t + scanHorizon :
                  isAwakeAt(awake, zone, u) # isAwakeAt(awake, zone, t)}
  IN  IF flips = {} THEN Zero ELSE Min(flips)
=============================================================================
