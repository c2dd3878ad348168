----------------------------- MODULE MCEvaluator -----------------------------
(* Instances of EvaluatorRuns for TLC: days of 3 hours of 2 minutes.         *)
EXTENDS EvaluatorRuns

At(hour, minute) == [h |-> hour, m |-> minute]
Window(days, from, to) == [days |-> days, from |-> from, to |-> to]

\* Windows that touch, overlap and nest on one or several days, and a reversed
\* one (the CRD lets it through, and the webhook is optional).
MCWindows ==
  {Window(days, hm[1], hm[2]) :
     days \in {{1}, {1, 2}, Weekdays},
     hm \in {<<At(0, 0), At(1, 0)>>, <<At(1, 0), At(2, 1)>>, <<At(0, 1), At(2, 0)>>}}
  \cup {Window({1}, At(2, 0), At(1, 0))}

\* A fixed zone east and one west of Greenwich, and Greenwich.
Fixed(offset) == [before |-> offset, after |-> offset, at |-> 0]
FixedZones == {Fixed(0), Fixed(4), Fixed(-4)}

\* Clocks that skip or repeat the hour from 01:00 to 02:00 of day 8, east or
\* west of Greenwich.
Hour == MinutesPerHour * Minute
Shift(before, after) ==
  [before |-> before * Hour, after |-> after * Hour,
   at |-> 8 * DayLength + (IF before < after THEN Hour ELSE 2 * Hour) - before * Hour]
Shifts == {Shift(1, 2), Shift(2, 1), Shift(-2, -1), Shift(-1, -2), Shift(0, 1), Shift(1, 0)}

\* Windows with no edge inside the hour that is skipped or repeated.
CalmWindows ==
  {Window(days, hm[1], hm[2]) :
     days \in {{1}, Weekdays},
     hm \in {<<At(0, 0), At(2, 0)>>, <<At(2, 0), At(2, 1)>>, <<At(0, 1), At(2, 1)>>}}

\* A daily window with an edge inside the hour that the clocks skip, west of
\* Greenwich.
EarlyWindow == {Window(Weekdays, At(1, 1), At(2, 1))}
SpringForward == {Shift(-2, -1)}

\* Zones without shifts, and shifts outside the windows' edges.
Regular == {[windows |-> MCWindows, zones |-> FixedZones],
            [windows |-> CalmWindows, zones |-> Shifts]}

Irregular == {[windows |-> EarlyWindow, zones |-> SpringForward]}
=============================================================================
