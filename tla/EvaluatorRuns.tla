---------------------------- MODULE EvaluatorRuns ----------------------------
(***************************************************************************)
(* Evaluate over every schedule of some families at every instant of a     *)
(* range: the clock runs.                                                  *)
(***************************************************************************)
EXTENDS ScheduleEvaluator

CONSTANTS Families,       \* [windows, zones]: what schedules are made of
          MaxWindows,     \* bound: windows per schedule
          Start, End      \* bound: the range of instants

ASSUME RangeAssumption == Start \in Nat /\ End \in Nat

VARIABLES awake, zone, now

vars == <<awake, zone, now>>

Schedules(windows) == UNION {kSubset(n, windows) : n \in 1 .. MaxWindows}

Init == /\ \E family \in Families : /\ awake \in Schedules(family.windows)
                                   /\ zone \in family.zones
        /\ now = Start

Tick == now < End /\ now' = now + 1 /\ UNCHANGED <<awake, zone>>

Spec == Init /\ [][Tick]_vars

-----------------------------------------------------------------------------

\* Evaluate's NextTransition is the first instant at which the schedule is
\* not what it is now: no flip is skipped and none is made up, with windows
\* that touch, overlap, nest or are reversed.
FindsNextFlip == NextTransition(awake, zone, now) = FirstFlip(awake, zone, now)

\* A schedule that is not the same all week is never left without a
\* transition: the horizon is long enough from any instant.
HorizonSuffices ==
  (\E t \in now .. now + 7 * DayLength - 1 :
     isAwakeAt(awake, zone, t) # isAwakeAt(awake, zone, now)) =>
    NextTransition(awake, zone, now) # Zero
=============================================================================
