-------------------------- MODULE EvaluatorProofs --------------------------
(***************************************************************************)
(* NextTransition finds the first flip.  For a zone with a fixed offset it *)
(* is proved for every set of windows and every length of minutes, hours   *)
(* and days: a schedule flips only where a window opens or closes, the     *)
(* scan visits every day of the horizon, and weeks repeat.                 *)
(***************************************************************************)
EXTENDS ScheduleEvaluator, WellFoundedInduction, TLAPS

\* Quotient and remainder: what they are, and that nothing else is.
LEMMA Division ==
  ASSUME NEW x \in Int, NEW m \in Nat \ {0}
  PROVE  /\ x \div m \in Int /\ x % m \in 0 .. m - 1
         /\ x = m * (x \div m) + (x % m)
<1>1. x \div m \in Int
  OBVIOUS
<1>2. x % m \in 0 .. m - 1
  OBVIOUS
<1>3. x = m * (x \div m) + (x % m)
  OBVIOUS
<1> QED
  BY <1>1, <1>2, <1>3

\* A number has one quotient and one remainder.
LEMMA DivisionUnique ==
  ASSUME NEW m \in Nat \ {0}, NEW q \in Int, NEW r \in 0 .. m - 1
  PROVE  (m * q + r) \div m = q /\ (m * q + r) % m = r
  OBVIOUS

\* A day has a length.
LEMMA DayIsPositive == DayLength \in Nat \ {0}
  BY ClockAssumption DEF DayLength

\* A zone whose offsets are integers, and one whose offset does not change.
Calendar(zone) == zone.before \in Int /\ zone.after \in Int
Fixed(zone) == zone.before \in Int /\ zone.after = zone.before

\* Where the offset does not change, Date is its inverse.
LEMMA FixedZone ==
  ASSUME NEW zone, Fixed(zone)
  PROVE  /\ \A t : Offset(zone, t) = zone.before /\ Local(zone, t) = t + zone.before
         /\ \A d, c \in Int : Date(zone, d, c) = d * DayLength + c - zone.before
<1>1. \A t : Offset(zone, t) = zone.before
  BY DEF Fixed, Offset
<1>2. \A t : Local(zone, t) = t + zone.before
  BY <1>1 DEF Local
<1>3. ASSUME NEW d \in Int, NEW c \in Int
      PROVE  Date(zone, d, c) = d * DayLength + c - zone.before
  <2> DEFINE wall == d * DayLength + c
             guess == Offset(zone, wall)
             valid == (wall - guess < zone.at) <=> (wall < zone.at)
  <2>1. Date(zone, d, c) = IF guess = 0 \/ valid THEN wall - guess
                           ELSE wall - Offset(zone, wall - guess)
    BY Zenon DEF Date
  <2>2. guess = zone.before /\ Offset(zone, wall - guess) = zone.before
    BY <1>1
  <2> HIDE DEF guess, valid
  <2>3. Date(zone, d, c) = wall - zone.before
    BY <2>1, <2>2
  <2>4. d * DayLength \in Int /\ zone.before \in Int
    BY DayIsPositive DEF Fixed
  <2> QED
    BY <2>3, <2>4
<1> QED
  BY <1>1, <1>2, <1>3

\* The calendar of a zone: local days are integers, and so are the instants of
\* their clocks.
LEMMA CalendarTypes ==
  ASSUME NEW zone, Calendar(zone)
  PROVE  /\ \A t \in Int : LocalDay(zone, t) \in Int /\ Clock(zone, t) \in Int
         /\ \A d, c \in Int : Date(zone, d, c) \in Int
<1>1. \A t : Offset(zone, t) \in Int
  BY DEF Calendar, Offset
<1>2. ASSUME NEW t \in Int
      PROVE  LocalDay(zone, t) \in Int /\ Clock(zone, t) \in Int
  <2>1. PICK x \in Int, m \in Nat \ {0} : x = Local(zone, t) /\ m = DayLength
    BY <1>1, DayIsPositive DEF Local
  <2>2. x \div m \in Int /\ x % m \in 0 .. m - 1
    BY Division
  <2> QED
    BY <2>1, <2>2 DEF LocalDay, Clock
<1>3. ASSUME NEW d \in Int, NEW c \in Int
      PROVE  Date(zone, d, c) \in Int
  <2> DEFINE wall == d * DayLength + c
             guess == Offset(zone, wall)
             valid == (wall - guess < zone.at) <=> (wall < zone.at)
  <2>1. Date(zone, d, c) = IF guess = 0 \/ valid THEN wall - guess
                           ELSE wall - Offset(zone, wall - guess)
    BY Zenon DEF Date
  <2>2. wall \in Int
    BY DayIsPositive
  <2>3. guess \in Int /\ Offset(zone, wall - guess) \in Int
    BY <1>1
  <2> HIDE DEF wall, guess, valid
  <2> QED
    BY <2>1, <2>2, <2>3
<1> QED
  BY <1>2, <1>3

\* The days of the scan satisfy their recursion.
LEMMA ScanDayRecursion ==
  ASSUME NEW zone, Calendar(zone), NEW t \in Int
  PROVE  LET day == scanDay(zone, t)
         IN  /\ day[0] = Date(zone, LocalDay(zone, t), 0)
             /\ \A k \in ScanDays : day[k] \in Int
             /\ \A k \in ScanDays \ {0} :
                  day[k] = Date(zone, LocalDay(zone, day[k - 1]) + 1, Clock(zone, day[k - 1]))
<1> DEFINE first == Date(zone, LocalDay(zone, t), 0)
           AddDay == [u \in Int |-> Date(zone, LocalDay(zone, u) + 1, Clock(zone, u))]
           Step(f) == [k \in ScanDays |-> IF k = 0 THEN first ELSE AddDay[f[k - 1]]]
<1>1. scanDay(zone, t) = CHOOSE f : f = Step(f)
  BY Zenon DEF scanDay
<1>2. first \in Int /\ \A u \in Int : AddDay[u] \in Int
  BY CalendarTypes
<1> HIDE DEF first, AddDay
<1>3. \E f : f = Step(f)
  <2>1. PICK x0 \in Int, x1 \in Int, x2 \in Int, x3 \in Int :
          x0 = first /\ x1 = AddDay[x0] /\ x2 = AddDay[x1] /\ x3 = AddDay[x2]
    BY <1>2
  <2>2. PICK x4 \in Int, x5 \in Int, x6 \in Int :
          x4 = AddDay[x3] /\ x5 = AddDay[x4] /\ x6 = AddDay[x5]
    BY <1>2
  <2>3. PICK x7 \in Int, x8 \in Int, x9 \in Int, x10 \in Int :
          x7 = AddDay[x6] /\ x8 = AddDay[x7] /\ x9 = AddDay[x8] /\ x10 = AddDay[x9]
    BY <1>2
  <2> DEFINE v(k) == CASE k = 0 -> x0 [] k = 1 -> x1 [] k = 2 -> x2 [] k = 3 -> x3
                       [] k = 4 -> x4 [] k = 5 -> x5 [] k = 6 -> x6 [] k = 7 -> x7
                       [] k = 8 -> x8 [] k = 9 -> x9 [] k = 10 -> x10
             f == [k \in ScanDays |-> v(k)]
  <2>4. /\ v(0) = x0 /\ v(1) = x1 /\ v(2) = x2 /\ v(3) = x3 /\ v(4) = x4 /\ v(5) = x5
        /\ v(6) = x6 /\ v(7) = x7 /\ v(8) = x8 /\ v(9) = x9 /\ v(10) = x10
    OBVIOUS
  <2> HIDE DEF v
  <2>5. ASSUME NEW k \in ScanDays
        PROVE  v(k) = IF k = 0 THEN first ELSE AddDay[v(k - 1)]
    <3>1. k \in 0 .. 10
      BY DEF ScanDays
    <3>2. CASE k \in 0 .. 3
      BY <2>1, <2>4, <3>2
    <3>3. CASE k \in 4 .. 6
      BY <2>2, <2>4, <3>3
    <3>4. CASE k \in 7 .. 10
      BY <2>3, <2>4, <3>4
    <3> QED
      BY <3>1, <3>2, <3>3, <3>4
  <2>6. \A k \in ScanDays \ {0} : f[k - 1] = v(k - 1)
    BY DEF ScanDays
  <2>7. f = Step(f)
    BY <2>5, <2>6
  <2> QED
    BY <2>7
<1>4. PICK day : day = scanDay(zone, t)
  OBVIOUS
<1>5. day = Step(day)
  <2> HIDE DEF Step
  <2> QED
    BY <1>1, <1>3, <1>4, Zenon
<1>6. day[0] = first
  BY <1>5 DEF ScanDays
<1>7. \A k \in ScanDays \ {0} : day[k] = AddDay[day[k - 1]]
  BY <1>5
<1>8. \A k \in ScanDays \ {0} : day[k - 1] \in Int => day[k] \in Int
  BY <1>2, <1>7
<1>9. day[0] \in Int /\ day[1] \in Int /\ day[2] \in Int /\ day[3] \in Int
  BY <1>2, <1>6, <1>8 DEF ScanDays
<1>10. day[4] \in Int /\ day[5] \in Int /\ day[6] \in Int /\ day[7] \in Int
  BY <1>8, <1>9 DEF ScanDays
<1>11. day[8] \in Int /\ day[9] \in Int /\ day[10] \in Int
  BY <1>8, <1>10 DEF ScanDays
<1>12. \A k \in ScanDays : day[k] \in Int
  BY <1>9, <1>10, <1>11 DEF ScanDays
<1>13. ASSUME NEW k \in ScanDays \ {0}
       PROVE  day[k] = Date(zone, LocalDay(zone, day[k - 1]) + 1, Clock(zone, day[k - 1]))
  <2>1. k - 1 \in ScanDays
    BY DEF ScanDays
  <2>2. day[k - 1] \in Int
    BY <1>12, <2>1
  <2> QED
    BY <1>7, <2>2 DEF AddDay
<1> QED
  BY <1>4, <1>6, <1>12, <1>13 DEF first

\* In a fixed zone they begin at midnight.
LEMMA ScanDayMidnights ==
  ASSUME NEW zone, Fixed(zone), NEW t \in Int
  PROVE  \A k \in ScanDays :
           scanDay(zone, t)[k] = (LocalDay(zone, t) + k) * DayLength - zone.before
<1>1. Calendar(zone)
  BY DEF Fixed, Calendar
<1>2. PICK day : day = scanDay(zone, t)
  OBVIOUS
<1>3. PICK m \in Nat \ {0}, o \in Int, d \in Int :
        m = DayLength /\ o = zone.before /\ d = LocalDay(zone, t)
  BY <1>1, DayIsPositive, CalendarTypes DEF Fixed
<1> DEFINE Midnight(k) == day[k] = (d + k) * m - o
<1>4. Midnight(0)
  <2>1. day[0] = Date(zone, d, 0)
    BY <1>1, <1>2, <1>3, ScanDayRecursion
  <2>2. Date(zone, d, 0) = d * m + 0 - o
    BY <1>3, FixedZone
  <2> QED
    BY <2>1, <2>2
<1>5. ASSUME NEW k \in ScanDays \ {0}, Midnight(k - 1)
      PROVE  Midnight(k)
  <2>1. PICK q \in Int, j \in ScanDays : q = d + j /\ j = k - 1 /\ q + 1 = d + k
    BY DEF ScanDays
  <2>2. PICK x : x = day[k - 1]
    OBVIOUS
  <2>3. x \in Int /\ x = q * m - o
    BY <1>5, <2>1, <2>2
  <2>4. Local(zone, x) = m * q + 0
    BY <1>3, <2>3, FixedZone
  <2>5. (m * q + 0) \div m = q /\ (m * q + 0) % m = 0
    BY DivisionUnique
  <2>6. LocalDay(zone, x) = q /\ Clock(zone, x) = 0
    BY <1>3, <2>4, <2>5 DEF LocalDay, Clock
  <2>7. day[k] = Date(zone, q + 1, 0)
    BY <1>1, <1>2, <2>2, <2>6, ScanDayRecursion
  <2>8. Date(zone, q + 1, 0) = (q + 1) * m + 0 - o
    BY <1>3, FixedZone
  <2> QED
    BY <2>1, <2>7, <2>8
<1> HIDE DEF Midnight
<1>6. Midnight(1) /\ Midnight(2) /\ Midnight(3)
  BY <1>4, <1>5 DEF ScanDays
<1>7. Midnight(4) /\ Midnight(5) /\ Midnight(6)
  BY <1>5, <1>6 DEF ScanDays
<1>8. Midnight(7) /\ Midnight(8) /\ Midnight(9)
  BY <1>5, <1>7 DEF ScanDays
<1>9. Midnight(10)
  BY <1>5, <1>8 DEF ScanDays
<1>10. \A k \in ScanDays : Midnight(k)
  BY <1>4, <1>6, <1>7, <1>8, <1>9 DEF ScanDays
<1> QED
  BY <1>2, <1>3, <1>10 DEF Midnight

\* Min of a set that has one.
LEMMA MinLeast ==
  ASSUME NEW S \in SUBSET Int, NEW m \in S, \A y \in S : m <= y
  PROVE  Min(S) = m
<1>1. \E x \in S : \A y \in S : x <= y
  OBVIOUS
<1>2. PICK k : k = Min(S)
  OBVIOUS
<1>3. k \in S /\ \A y \in S : k <= y
  BY <1>1, <1>2, Zenon DEF Min
<1>4. k \in Int /\ m \in Int /\ k <= m /\ m <= k
  BY <1>3
<1> QED
  BY <1>2, <1>4

\* A set of integers that is bounded below has a minimum.
LEMMA NatMinimum ==
  ASSUME NEW S \in SUBSET Nat, S # {}
  PROVE  \E m \in S : \A y \in S : m <= y
<1> DEFINE less == {p \in Nat \X Nat : p[1] < p[2]}
<1>1. IsWellFoundedOn(less, Nat)
  BY NatLessThanWellFounded DEF OpToRel
<1> HIDE DEF less
<1>2. PICK m \in S : \A y \in S : ~(<<y, m>> \in less)
  BY <1>1, WFMin
<1>3. ASSUME NEW y \in S
      PROVE  m <= y
  <2>1. y < m => <<y, m>> \in less
    BY DEF less
  <2> QED
    BY <1>2, <2>1
<1> QED
  BY <1>3

\* A set of integers that is bounded from below has a least element.
LEMMA IntMinimum ==
  ASSUME NEW t \in Int, NEW S \in SUBSET Int, S # {}, \A y \in S : t <= y
  PROVE  \E m \in S : \A y \in S : m <= y
<1> DEFINE N == {y - t : y \in S}
<1>1. N \in SUBSET Nat
  <2>1. \A y \in S : y - t \in Nat
    OBVIOUS
  <2> QED
    BY <2>1
<1>2. PICK n \in N : \A y \in N : n <= y
  <2>1. N # {}
    OBVIOUS
  <2> QED
    BY <1>1, <2>1, NatMinimum
<1>3. PICK m \in S : n = m - t
  OBVIOUS
<1>4. \A y \in S : y - t \in N
  OBVIOUS
<1>5. \A y \in S : m - t <= y - t
  BY <1>2, <1>3, <1>4
<1> QED
  BY <1>5

\* The wall clock of an instant.
LEMMA ClockParts ==
  ASSUME NEW zone, Fixed(zone), NEW t \in Int
  PROVE  /\ LocalDay(zone, t) \in Int
         /\ Clock(zone, t) \in Nat /\ Clock(zone, t) < DayLength
         /\ t + zone.before = DayLength * LocalDay(zone, t) + Clock(zone, t)
         /\ TimeOfDay(zone, t) \in Nat
         /\ Minute * TimeOfDay(zone, t) <= Clock(zone, t)
         /\ Clock(zone, t) < Minute * TimeOfDay(zone, t) + Minute
<1>1. Local(zone, t) = t + zone.before /\ zone.before \in Int /\ Local(zone, t) \in Int
  BY FixedZone DEF Fixed
<1>2. /\ LocalDay(zone, t) \in Int /\ Clock(zone, t) \in 0 .. DayLength - 1
      /\ Local(zone, t) = DayLength * LocalDay(zone, t) + Clock(zone, t)
  BY <1>1, DayIsPositive, Division DEF LocalDay, Clock
<1>3. PICK c \in Nat : c = Clock(zone, t) /\ c < DayLength
  BY <1>2, DayIsPositive
<1>4. PICK m \in Nat \ {0} : m = Minute
  BY ClockAssumption
<1>5. PICK q \in Int, r \in Int : q = c \div m /\ r = c % m /\ c = m * q + r /\ 0 <= r /\ r < m
  <2>1. c \div m \in Int /\ c % m \in 0 .. m - 1 /\ c = m * (c \div m) + (c % m)
    BY Division
  <2>2. PICK q \in Int, r \in 0 .. m - 1 : q = c \div m /\ r = c % m
    BY <2>1
  <2> QED
    BY <2>1, <2>2
<1>6. q >= 0
  <2>1. SUFFICES ASSUME q <= -1
                 PROVE  FALSE
    BY <1>5
  <2>2. m * q <= -m
    BY <2>1
  <2> QED
    BY <1>5, <2>2
<1>7. m * q <= c /\ c < m * q + m
  BY <1>5
<1>8. TimeOfDay(zone, t) = q
  BY <1>3, <1>4, <1>5 DEF TimeOfDay
<1> QED
  BY <1>1, <1>2, <1>3, <1>4, <1>6, <1>7, <1>8

\* From one instant to the next the clock moves on, or a day begins.
LEMMA ClockMoves ==
  ASSUME NEW zone, Fixed(zone), NEW t \in Int
  PROVE  \/ /\ LocalDay(zone, t + 1) = LocalDay(zone, t)
            /\ Clock(zone, t + 1) = Clock(zone, t) + 1
         \/ Clock(zone, t) = DayLength - 1 /\ Clock(zone, t + 1) = 0
<1>1. PICK D \in Nat \ {0} : D = DayLength
  BY DayIsPositive
<1>2. PICK d \in Int, c \in Nat : /\ d = LocalDay(zone, t) /\ c = Clock(zone, t) /\ c < D
                                  /\ t + zone.before = D * d + c
  BY <1>1, ClockParts
<1>3. Local(zone, t + 1) = D * d + (c + 1)
  <2>1. Local(zone, t + 1) = t + 1 + zone.before /\ zone.before \in Int
    BY FixedZone DEF Fixed
  <2>2. D * d \in Int
    OBVIOUS
  <2> QED
    BY <1>2, <2>1, <2>2
<1>4. CASE c + 1 < D
  <2>1. c + 1 \in 0 .. D - 1
    BY <1>4
  <2>2. (D * d + (c + 1)) \div D = d /\ (D * d + (c + 1)) % D = c + 1
    BY <2>1, DivisionUnique
  <2> QED
    BY <1>1, <1>2, <1>3, <2>2 DEF LocalDay, Clock
<1>5. CASE ~(c + 1 < D)
  <2>1. c + 1 = D
    BY <1>2, <1>5
  <2>2. D * d + (c + 1) = D * (d + 1) + 0
    BY <2>1
  <2>3. (D * (d + 1) + 0) % D = 0
    BY DivisionUnique
  <2>4. Clock(zone, t + 1) = 0
    BY <1>1, <1>3, <2>2, <2>3 DEF Clock
  <2> QED
    BY <1>1, <1>2, <2>1, <2>4
<1> QED
  BY <1>4, <1>5

\* A time that parses is within the day.
LEMMA parseHHMMRange ==
  ASSUME NEW hm
  PROVE  parseHHMM(hm) \in Int /\ parseHHMM(hm) < HoursPerDay * MinutesPerHour
<1>1. PICK H \in Nat \ {0}, M \in Nat \ {0} : H = HoursPerDay /\ M = MinutesPerHour
  BY ClockAssumption
<1>2. CASE hm.h \in 0 .. H - 1 /\ hm.m \in 0 .. M - 1
  <2>1. PICK h \in Nat, m \in Nat : h = hm.h /\ m = hm.m /\ h <= H - 1 /\ m <= M - 1
    BY <1>2
  <2>2. h * M <= (H - 1) * M
    BY <2>1
  <2>3. h * M + m \in Int /\ h * M + m < H * M
    BY <2>1, <2>2
  <2>4. parseHHMM(hm) = h * M + m
    BY <1>1, <1>2, <2>1 DEF parseHHMM
  <2> QED
    BY <1>1, <2>3, <2>4
<1>3. CASE ~(hm.h \in 0 .. H - 1 /\ hm.m \in 0 .. M - 1)
  <2>1. parseHHMM(hm) = -1
    BY <1>1, <1>3 DEF parseHHMM
  <2>2. H * M > 0
    OBVIOUS
  <2> QED
    BY <1>1, <2>1, <2>2
<1> QED
  BY <1>2, <1>3

\* The minute changes on the minute, and the last minute of a day is the last.
LEMMA MinuteMoves ==
  ASSUME NEW zone, Fixed(zone), NEW t \in Int
  PROVE  /\ Clock(zone, t + 1) = Clock(zone, t) + 1 =>
              \/ TimeOfDay(zone, t + 1) = TimeOfDay(zone, t)
              \/ /\ TimeOfDay(zone, t + 1) = TimeOfDay(zone, t) + 1
                 /\ Clock(zone, t + 1) = TimeOfDay(zone, t + 1) * Minute
         /\ Clock(zone, t) = 0 => TimeOfDay(zone, t) = 0
         /\ Clock(zone, t) = DayLength - 1 =>
              TimeOfDay(zone, t) >= HoursPerDay * MinutesPerHour - 1
<1>1. PICK m \in Nat \ {0}, n \in Nat \ {0} : m = Minute /\ n = HoursPerDay * MinutesPerHour
  BY ClockAssumption
<1>2. PICK c \in Nat, q \in Nat : /\ c = Clock(zone, t) /\ q = TimeOfDay(zone, t)
                                  /\ m * q <= c /\ c < m * q + m
  BY <1>1, ClockParts
<1>3. PICK c2 \in Nat, q2 \in Nat : /\ c2 = Clock(zone, t + 1) /\ q2 = TimeOfDay(zone, t + 1)
                                    /\ m * q2 <= c2 /\ c2 < m * q2 + m
  <2>1. PICK u \in Int : u = t + 1
    OBVIOUS
  <2> QED
    BY <1>1, <2>1, ClockParts
<1>4. ASSUME c2 = c + 1
      PROVE  q2 = q \/ (q2 = q + 1 /\ c2 = q2 * m)
  <2>1. m * q2 < m * q + m + 1 /\ m * q < m * q2 + m
    BY <1>2, <1>3, <1>4
  <2>2. q2 < q => m * q2 <= m * q - m
    <3>1. q2 < q => m * (q - q2) >= m
      OBVIOUS
    <3> QED
      BY <3>1
  <2>3. q2 > q + 1 => m * q2 >= m * q + m + m
    <3>1. q2 > q + 1 => m * (q2 - q - 2) >= 0
      OBVIOUS
    <3> QED
      BY <3>1
  <2>4. q2 = q \/ q2 = q + 1
    BY <2>1, <2>2, <2>3
  <2>5. q2 = q + 1 => m * q2 = m * q + m
    OBVIOUS
  <2>6. q2 = q + 1 => c2 = m * q2
    BY <1>2, <1>3, <1>4, <2>5
  <2>7. m * q2 = q2 * m
    OBVIOUS
  <2> QED
    BY <2>4, <2>6, <2>7
<1>5. c = 0 => q = 0
  <2>1. q > 0 => m * q >= m
    OBVIOUS
  <2> QED
    BY <1>2, <2>1
<1>6. c = n * m - 1 => q >= n - 1
  <2>1. q < n - 1 => m * q + m <= n * m - m
    <3>1. q < n - 1 => m * (n - q - 2) >= 0
      OBVIOUS
    <3> QED
      BY <3>1
  <2> QED
    BY <1>2, <2>1
<1>7. DayLength = n * m
  BY <1>1 DEF DayLength
<1> QED
  <2>1. Clock(zone, t) = DayLength - 1 => q >= n - 1
    BY <1>2, <1>6, <1>7
  <2> QED
    BY <1>1, <1>2, <1>3, <1>4, <1>5, <2>1

\* The condition that isAwakeAt puts on one window.
Covers(w, zone, t) ==
  /\ windowCoversDay(w, Weekday(LocalDay(zone, t)))
  /\ parseHHMM(w.from) >= 0 /\ parseHHMM(w.to) >= 0
  /\ parseHHMM(w.from) <= TimeOfDay(zone, t)
  /\ TimeOfDay(zone, t) < parseHHMM(w.to)

\* A window opens and closes on a boundary of the day on which it does.
LEMMA EdgeOfWindow ==
  ASSUME NEW zone, Fixed(zone), NEW t \in Int, NEW w,
         Covers(w, zone, t) # Covers(w, zone, t + 1)
  PROVE  \E hm \in {w.from, w.to} :
           /\ windowCoversDay(w, Weekday(LocalDay(zone, t + 1)))
           /\ parseHHMM(hm) >= 0
           /\ parseHHMM(hm) * Minute = Clock(zone, t + 1)
<1>1. PICK u \in Int : u = t + 1
  OBVIOUS
<1>2. PICK f \in Int, g \in Int, n \in Int :
        /\ f = parseHHMM(w.from) /\ g = parseHHMM(w.to)
        /\ n = HoursPerDay * MinutesPerHour /\ g < n
  BY parseHHMMRange, ClockAssumption
<1>3. PICK p \in Nat, q \in Nat : p = TimeOfDay(zone, t) /\ q = TimeOfDay(zone, u)
  BY ClockParts
<1>4. CASE LocalDay(zone, u) = LocalDay(zone, t) /\ Clock(zone, u) = Clock(zone, t) + 1
  <2>1. q = p \/ (q = p + 1 /\ Clock(zone, u) = q * Minute)
    BY <1>1, <1>3, <1>4, MinuteMoves
  <2>2. windowCoversDay(w, Weekday(LocalDay(zone, u))) /\ f >= 0 /\ g >= 0
    BY <1>1, <1>2, <1>4 DEF Covers
  <2>3. (f <= p /\ p < g) # (f <= q /\ q < g)
    BY <1>1, <1>2, <1>3, <1>4, <2>2 DEF Covers
  <2>4. q = p + 1 /\ (q = f \/ q = g)
    BY <2>1, <2>3
  <2> QED
    BY <1>1, <1>2, <2>1, <2>2, <2>4
<1>5. CASE Clock(zone, t) = DayLength - 1 /\ Clock(zone, u) = 0
  <2>1. q = 0 /\ p >= n - 1
    BY <1>1, <1>2, <1>3, <1>5, MinuteMoves
  <2>2. ~Covers(w, zone, t)
    BY <1>2, <1>3, <2>1 DEF Covers
  <2>3. Covers(w, zone, u)
    <3>1. Covers(w, zone, u) \in BOOLEAN /\ Covers(w, zone, t) \in BOOLEAN
      BY Zenon DEF Covers
    <3> QED
      BY <1>1, <2>2, <3>1
  <2>4. windowCoversDay(w, Weekday(LocalDay(zone, u))) /\ f = 0
    BY <1>2, <1>3, <2>1, <2>3 DEF Covers
  <2>5. parseHHMM(w.from) >= 0 /\ parseHHMM(w.from) * Minute = 0
    BY <1>2, <2>4, ClockAssumption
  <2>6. parseHHMM(w.from) * Minute = Clock(zone, t + 1)
    BY <1>1, <1>5, <2>5
  <2>7. windowCoversDay(w, Weekday(LocalDay(zone, t + 1)))
    BY <1>1, <2>4
  <2> QED
    BY <2>5, <2>6, <2>7
<1> QED
  BY <1>1, <1>4, <1>5, ClockMoves

\* The boundaries are instants of the horizon.
LEMMA BoundariesAreAhead ==
  ASSUME NEW zone, Calendar(zone), NEW t \in Int, NEW awake, NEW limit \in Int,
         NEW b \in candidateBoundaries(awake, zone, t, limit)
  PROVE  b \in Int /\ t < b /\ b <= limit
<1> DEFINE day == scanDay(zone, t)
           days == {LocalDay(zone, day[k]) : k \in {i \in ScanDays : day[i] <= limit}}
           edges(d) == {x \in UNION {{w.from, w.to} :
                                       w \in {v \in awake : windowCoversDay(v, Weekday(d))}} :
                          parseHHMM(x) >= 0}
           of(d) == {Date(zone, d, parseHHMM(hm) * Minute) : hm \in edges(d)}
<1>1. b \in UNION {of(d) : d \in days} /\ t < b /\ b <= limit
  BY Zenon DEF candidateBoundaries
<1> HIDE DEF edges
<1>2. PICK d \in days : \E x \in edges(d) : b = Date(zone, d, parseHHMM(x) * Minute)
  BY <1>1
<1>3. PICK hm \in edges(d) : b = Date(zone, d, parseHHMM(hm) * Minute)
  BY <1>2
<1>4. d \in Int
  <2>1. PICK k \in ScanDays : d = LocalDay(zone, day[k])
    BY <1>2
  <2>2. day[k] \in Int
    BY ScanDayRecursion
  <2> QED
    BY <2>1, <2>2, CalendarTypes
<1>5. parseHHMM(hm) * Minute \in Int
  BY parseHHMMRange, ClockAssumption
<1>6. b \in Int
  BY <1>3, <1>4, <1>5, CalendarTypes
<1> QED
  BY <1>1, <1>6

\* The days of the scan are those of the horizon.
LEMMA ScanReaches ==
  ASSUME NEW zone, Fixed(zone), NEW t \in Int, NEW u \in Int, t < u, u <= t + scanHorizon
  PROVE  \E k \in ScanDays : /\ scanDay(zone, t)[k] <= u
                             /\ LocalDay(zone, scanDay(zone, t)[k]) = LocalDay(zone, u)
<1>1. PICK D \in Nat \ {0}, o \in Int : D = DayLength /\ o = zone.before
  BY DayIsPositive DEF Fixed
<1>2. PICK d \in Int, c \in Nat : d = LocalDay(zone, t) /\ c < D /\ t + o = D * d + c
  BY <1>1, ClockParts
<1>3. PICK e \in Int, f \in Nat : e = LocalDay(zone, u) /\ f < D /\ u + o = D * e + f
  BY <1>1, ClockParts
<1>4. u <= t + 8 * D
  BY <1>1 DEF scanHorizon
<1>5. D * (e - d) > -D /\ D * (e - d) < 9 * D
  <2>1. D * (e - d) = D * e - D * d
    OBVIOUS
  <2> QED
    BY <1>2, <1>3, <1>4, <2>1
<1>6. PICK k \in Int : k = e - d
  OBVIOUS
<1>7. k >= 0 /\ k <= 8
  <2>1. k <= -1 => D * k <= -D
    OBVIOUS
  <2>2. k >= 9 => D * k >= 9 * D
    OBVIOUS
  <2> QED
    BY <1>5, <1>6, <2>1, <2>2
<1>8. k \in ScanDays /\ d + k = e
  BY <1>6, <1>7 DEF ScanDays
<1>9. PICK x : x = scanDay(zone, t)[k]
  OBVIOUS
<1>10. x = e * D - o
  BY <1>1, <1>2, <1>8, <1>9, ScanDayMidnights
<1>11. x \in Int /\ x + o = D * e + 0
  <2>1. e * D \in Int /\ D * e = e * D
    OBVIOUS
  <2> QED
    BY <1>10, <2>1
<1>12. x <= u
  <2>1. D * e \in Int
    OBVIOUS
  <2> QED
    BY <1>3, <1>11, <2>1
<1>13. LocalDay(zone, x) = e
  <2>1. Local(zone, x) = D * e + 0
    BY <1>1, <1>11, FixedZone
  <2>2. (D * e + 0) \div D = e
    BY DivisionUnique
  <2> QED
    BY <1>1, <2>1, <2>2 DEF LocalDay
<1> QED
  BY <1>3, <1>8, <1>9, <1>12, <1>13

\* The first flip is a boundary.
LEMMA FlipIsBoundary ==
  ASSUME NEW zone, Fixed(zone), NEW t \in Int, NEW awake,
         NEW u \in Int, t < u, u <= t + scanHorizon,
         isAwakeAt(awake, zone, u - 1) # isAwakeAt(awake, zone, u)
  PROVE  u \in candidateBoundaries(awake, zone, t, t + scanHorizon)
<1>1. PICK v \in Int : v = u - 1 /\ v + 1 = u
  OBVIOUS
<1>2. \A x : isAwakeAt(awake, zone, x) <=> \E w \in awake : Covers(w, zone, x)
  BY Zenon DEF isAwakeAt, Covers
<1>3. PICK w \in awake : Covers(w, zone, v) # Covers(w, zone, u)
  <2>1. \A x, y \in awake : Covers(y, zone, x) \in BOOLEAN
    BY Zenon DEF Covers
  <2>2. isAwakeAt(awake, zone, v) \in BOOLEAN /\ isAwakeAt(awake, zone, u) \in BOOLEAN
    BY Zenon DEF isAwakeAt
  <2>3. isAwakeAt(awake, zone, v) # isAwakeAt(awake, zone, u)
    BY <1>1
  <2>4. CASE isAwakeAt(awake, zone, v) /\ ~isAwakeAt(awake, zone, u)
    BY <1>2, <2>4, Zenon
  <2>5. CASE ~isAwakeAt(awake, zone, v) /\ isAwakeAt(awake, zone, u)
    BY <1>2, <2>5, Zenon
  <2> QED
    BY <2>2, <2>3, <2>4, <2>5
<1>4. PICK hm \in {w.from, w.to} : /\ windowCoversDay(w, Weekday(LocalDay(zone, u)))
                                   /\ parseHHMM(hm) >= 0
                                   /\ parseHHMM(hm) * Minute = Clock(zone, u)
  BY <1>1, <1>3, EdgeOfWindow
<1> DEFINE limit == t + scanHorizon
           day == scanDay(zone, t)
           days == {LocalDay(zone, day[k]) : k \in {i \in ScanDays : day[i] <= limit}}
           edges(d) == {x \in UNION {{y.from, y.to} :
                                       y \in {z \in awake : windowCoversDay(z, Weekday(d))}} :
                          parseHHMM(x) >= 0}
           of(d) == {Date(zone, d, parseHHMM(x) * Minute) : x \in edges(d)}
           today == LocalDay(zone, u)
<1>5. hm \in edges(today)
  BY <1>4
<1>6. Date(zone, today, parseHHMM(hm) * Minute) = u
  <2>1. PICK D \in Nat \ {0}, o \in Int : D = DayLength /\ o = zone.before
    BY DayIsPositive DEF Fixed
  <2>2. PICK d \in Int, c \in Nat : d = today /\ c = Clock(zone, u) /\ u + o = D * d + c
    BY <2>1, ClockParts
  <2>3. Date(zone, d, c) = d * D + c - o
    BY <2>1, FixedZone
  <2>4. D * d = d * D /\ D * d \in Int
    OBVIOUS
  <2>5. Date(zone, d, c) = u
    BY <2>2, <2>3, <2>4
  <2> QED
    BY <1>4, <2>2, <2>5
<1>7. today \in days
  <2>1. PICK k \in ScanDays : day[k] <= u /\ LocalDay(zone, day[k]) = today
    BY ScanReaches
  <2>2. day[k] \in Int
    <3>1. LocalDay(zone, t) + k \in Int
      BY ClockParts DEF ScanDays
    <3> QED
      BY <3>1, ScanDayMidnights, DayIsPositive DEF Fixed
  <2>3. limit \in Int
    BY DayIsPositive DEF scanHorizon
  <2>4. day[k] <= limit
    BY <2>1, <2>2, <2>3
  <2> QED
    BY <2>1, <2>4
<1>8. u \in UNION {of(d) : d \in days}
  <2> HIDE DEF days, edges, today
  <2> QED
    BY <1>5, <1>6, <1>7
<1>9. candidateBoundaries(awake, zone, t, limit) =
        {b \in UNION {of(d) : d \in days} : t < b /\ b <= limit}
  BY Zenon DEF candidateBoundaries
<1> QED
  BY <1>8, <1>9

\* In a zone with a fixed offset, NextTransition is the first instant at which
\* the schedule is not what it is now, whatever its windows and however long
\* minutes, hours and days are: no flip is skipped and none is made up.
THEOREM NextTransitionIsFirstFlip ==
  ASSUME NEW zone, Fixed(zone), NEW t \in Int, NEW awake
  PROVE  NextTransition(awake, zone, t) = FirstFlip(awake, zone, t)
<1> DEFINE limit == t + scanHorizon
           found == {b \in candidateBoundaries(awake, zone, t, limit) :
                       isAwakeAt(awake, zone, b) # isAwakeAt(awake, zone, t)}
           flips == {u \in t + 1 .. limit :
                       isAwakeAt(awake, zone, u) # isAwakeAt(awake, zone, t)}
<1>1. limit \in Int
  BY DayIsPositive DEF scanHorizon
<1>2. NextTransition(awake, zone, t) = IF found = {} THEN Zero ELSE Min(found)
  BY Zenon DEF NextTransition
<1>3. FirstFlip(awake, zone, t) = IF flips = {} THEN Zero ELSE Min(flips)
  BY Zenon DEF FirstFlip
<1>4. found \subseteq flips
  BY <1>1, BoundariesAreAhead DEF Fixed, Calendar
<1>5. CASE flips = {}
  BY <1>2, <1>3, <1>4, <1>5
<1>6. CASE flips # {}
  <2>1. flips \in SUBSET Int /\ \A y \in flips : t <= y
    OBVIOUS
  <2>2. PICK m \in flips : \A y \in flips : m <= y
    BY <1>6, <2>1, IntMinimum
  <2>3. m \in Int /\ t < m /\ m <= limit /\ isAwakeAt(awake, zone, m) # isAwakeAt(awake, zone, t)
    BY <1>1, <2>2
  <2>4. isAwakeAt(awake, zone, m - 1) = isAwakeAt(awake, zone, t)
    <3>1. m - 1 = t \/ m - 1 \in t + 1 .. limit
      BY <1>1, <2>3
    <3>2. m - 1 \notin flips
      BY <2>2, <2>3
    <3> QED
      BY <3>1, <3>2
  <2>5. m \in found
    BY <2>3, <2>4, FlipIsBoundary
  <2> HIDE DEF found, flips
  <2>6. Min(flips) = m
    BY <2>1, <2>2, MinLeast
  <2>7. found \in SUBSET Int /\ \A y \in found : m <= y
    BY <1>4, <2>1, <2>2
  <2>8. Min(found) = m
    BY <2>5, <2>7, MinLeast
  <2> QED
    BY <1>2, <1>3, <1>6, <2>5, <2>6, <2>8
<1> QED
  BY <1>5, <1>6

\* In any zone NextTransition is an instant ahead, or the zero time.
LEMMA NextTransitionTypes ==
  ASSUME NEW zone, Calendar(zone), NEW t \in Nat, NEW awake
  PROVE  /\ NextTransition(awake, zone, t) \in Nat
         /\ NextTransition(awake, zone, t) # Zero => NextTransition(awake, zone, t) > t
<1> DEFINE limit == t + scanHorizon
           found == {b \in candidateBoundaries(awake, zone, t, limit) :
                       isAwakeAt(awake, zone, b) # isAwakeAt(awake, zone, t)}
<1>1. NextTransition(awake, zone, t) = IF found = {} THEN Zero ELSE Min(found)
  BY Zenon DEF NextTransition
<1>2. limit \in Int
  BY DayIsPositive DEF scanHorizon
<1>3. found \in SUBSET Int /\ \A y \in found : t < y
  BY <1>2, BoundariesAreAhead
<1> HIDE DEF found
<1>4. CASE found = {}
  BY <1>1, <1>4 DEF Zero
<1>5. CASE found # {}
  <2>1. t \in Int /\ \A y \in found : t <= y
    BY <1>3
  <2>2. PICK m \in found : \A y \in found : m <= y
    BY <1>3, <1>5, <2>1, IntMinimum
  <2>3. Min(found) = m
    BY <1>3, <2>2, MinLeast
  <2> QED
    BY <1>1, <1>3, <1>5, <2>3
<1> QED
  BY <1>4, <1>5

\* What FirstFlip is, when there is a flip and when there is none.
LEMMA FirstFlipIs ==
  ASSUME NEW zone, NEW t \in Nat, NEW awake, NEW u, u = FirstFlip(awake, zone, t)
  PROVE  \/ /\ u = Zero
            /\ \A v \in t + 1 .. t + scanHorizon :
                 isAwakeAt(awake, zone, v) = isAwakeAt(awake, zone, t)
         \/ /\ u \in t + 1 .. t + scanHorizon
            /\ isAwakeAt(awake, zone, u) # isAwakeAt(awake, zone, t)
            /\ \A v \in t .. u - 1 :
                 isAwakeAt(awake, zone, v) = isAwakeAt(awake, zone, t)
<1> DEFINE limit == t + scanHorizon
           flips == {v \in t + 1 .. limit :
                       isAwakeAt(awake, zone, v) # isAwakeAt(awake, zone, t)}
<1>1. limit \in Int
  BY DayIsPositive DEF scanHorizon
<1>2. FirstFlip(awake, zone, t) = IF flips = {} THEN Zero ELSE Min(flips)
  BY Zenon DEF FirstFlip
<1>3. CASE flips = {}
  BY <1>2, <1>3
<1>4. CASE flips # {}
  <2>1. t \in Int /\ flips \in SUBSET Int /\ \A y \in flips : t <= y
    OBVIOUS
  <2>2. PICK m \in flips : \A y \in flips : m <= y
    BY <1>4, <2>1, IntMinimum
  <2>3. FirstFlip(awake, zone, t) = m
    <3> HIDE DEF flips
    <3> QED
      BY <1>2, <1>4, <2>1, <2>2, MinLeast
  <2>4. m \in t + 1 .. limit /\ isAwakeAt(awake, zone, m) # isAwakeAt(awake, zone, t)
    BY <2>2
  <2>5. ASSUME NEW v \in t .. m - 1
        PROVE  isAwakeAt(awake, zone, v) = isAwakeAt(awake, zone, t)
    <3>1. v = t \/ v \in t + 1 .. limit
      BY <1>1, <2>4
    <3>2. v \notin flips
      BY <2>2, <2>4
    <3> QED
      BY <3>1, <3>2
  <2> QED
    BY <2>3, <2>4, <2>5
<1> QED
  BY <1>3, <1>4

\* And what is, is FirstFlip.
LEMMA FirstFlipUnique ==
  ASSUME NEW zone, NEW t \in Nat, NEW awake, NEW u \in t + 1 .. t + scanHorizon,
         isAwakeAt(awake, zone, u) # isAwakeAt(awake, zone, t),
         \A v \in t .. u - 1 : isAwakeAt(awake, zone, v) = isAwakeAt(awake, zone, t)
  PROVE  FirstFlip(awake, zone, t) = u
<1>1. PICK w : w = FirstFlip(awake, zone, t)
  OBVIOUS
<1>2. scanHorizon \in Int
  BY DayIsPositive DEF scanHorizon
<1>3. CASE w \in t + 1 .. t + scanHorizon /\ isAwakeAt(awake, zone, w) # isAwakeAt(awake, zone, t)
           /\ \A v \in t .. w - 1 : isAwakeAt(awake, zone, v) = isAwakeAt(awake, zone, t)
  <2>1. w \notin t .. u - 1 /\ u \notin t .. w - 1
    BY <1>3
  <2> QED
    BY <1>1, <1>2, <1>3, <2>1
<1> QED
  BY <1>1, <1>3, FirstFlipIs

\* A week later a fixed zone has the same day of the week and the same time.
LEMMA WeeksRepeat ==
  ASSUME NEW zone, Fixed(zone), NEW t \in Int, NEW k \in Int, NEW awake
  PROVE  isAwakeAt(awake, zone, t + (7 * DayLength) * k) = isAwakeAt(awake, zone, t)
<1>1. PICK D \in Nat \ {0}, o \in Int : D = DayLength /\ o = zone.before
  BY DayIsPositive DEF Fixed
<1>2. PICK d \in Int, c \in Nat : d = LocalDay(zone, t) /\ c = Clock(zone, t) /\ c < D
                                  /\ t + o = D * d + c
  BY <1>1, ClockParts
<1>3. PICK u \in Int : u = t + (7 * D) * k
  OBVIOUS
<1>4. u + o = D * (d + 7 * k) + c
  <2>1. D * (d + 7 * k) = D * d + (7 * D) * k
    OBVIOUS
  <2>2. D * d \in Int /\ (7 * D) * k \in Int
    OBVIOUS
  <2> QED
    BY <1>2, <1>3, <2>1, <2>2
<1>5. Local(zone, u) = D * (d + 7 * k) + c
  BY <1>1, <1>4, FixedZone
<1>6. LocalDay(zone, u) = d + 7 * k /\ Clock(zone, u) = c
  <2>1. PICK q \in Int : q = d + 7 * k
    OBVIOUS
  <2>2. (D * q + c) \div D = q /\ (D * q + c) % D = c
    <3>1. c \in 0 .. D - 1
      BY <1>2
    <3> QED
      BY <3>1, DivisionUnique
  <2> QED
    BY <1>1, <1>5, <2>1, <2>2 DEF LocalDay, Clock
<1>7. Weekday(LocalDay(zone, u)) = Weekday(LocalDay(zone, t))
  BY <1>2, <1>6 DEF Weekday
<1>8. TimeOfDay(zone, u) = TimeOfDay(zone, t)
  BY <1>2, <1>6 DEF TimeOfDay
<1>9. isAwakeAt(awake, zone, u) = isAwakeAt(awake, zone, t)
  BY <1>7, <1>8, Zenon DEF isAwakeAt
<1> QED
  BY <1>1, <1>3, <1>9

\* Where nothing flips within the horizon, nothing ever does.
LEMMA HorizonIsEnough ==
  ASSUME NEW zone, Fixed(zone), NEW t \in Nat, NEW awake,
         FirstFlip(awake, zone, t) = Zero,
         NEW u \in Nat, t <= u
  PROVE  isAwakeAt(awake, zone, u) = isAwakeAt(awake, zone, t)
<1>1. PICK W \in Nat \ {0} : W = 7 * DayLength /\ W <= scanHorizon
  BY DayIsPositive DEF scanHorizon
<1>2. PICK q \in Int, r \in Nat : r < W /\ u - t = W * q + r
  <2>1. PICK x \in Int : x = u - t
    OBVIOUS
  <2>2. x \div W \in Int /\ x % W \in 0 .. W - 1 /\ x = W * (x \div W) + (x % W)
    BY Division
  <2>3. PICK q \in Int, r \in 0 .. W - 1 : q = x \div W /\ r = x % W
    BY <2>2
  <2>4. x = W * q + r
    BY <2>2, <2>3
  <2>5. r \in Nat /\ r < W
    OBVIOUS
  <2> QED
    BY <2>1, <2>4, <2>5
<1>3. u = (t + r) + W * q
  <2>1. W * q \in Int
    OBVIOUS
  <2> QED
    BY <1>2, <2>1
<1>4. isAwakeAt(awake, zone, u) = isAwakeAt(awake, zone, t + r)
  BY <1>1, <1>3, WeeksRepeat
<1>5. scanHorizon \in Int
  BY DayIsPositive DEF scanHorizon
<1>6. \A v \in t + 1 .. t + scanHorizon :
        isAwakeAt(awake, zone, v) = isAwakeAt(awake, zone, t)
  <2>1. PICK f : f = FirstFlip(awake, zone, t)
    OBVIOUS
  <2>2. f \notin t + 1 .. t + scanHorizon
    BY <1>5, <2>1 DEF Zero
  <2> QED
    BY <2>1, <2>2, FirstFlipIs
<1>7. r # 0 => t + r \in t + 1 .. t + scanHorizon
  BY <1>1, <1>2, <1>5
<1>8. isAwakeAt(awake, zone, t + r) = isAwakeAt(awake, zone, t)
  BY <1>6, <1>7
<1> QED
  BY <1>4, <1>8

\* What Evaluate says stays so until the transition it names.
LEMMA VerdictHolds ==
  ASSUME NEW zone, Fixed(zone), NEW t \in Nat, NEW awake, NEW u \in Nat, t <= u,
         FirstFlip(awake, zone, t) = Zero \/ u < FirstFlip(awake, zone, t)
  PROVE  /\ isAwakeAt(awake, zone, u) = isAwakeAt(awake, zone, t)
         /\ FirstFlip(awake, zone, u) = FirstFlip(awake, zone, t)
<1>1. PICK H \in Nat : H = scanHorizon
  BY DayIsPositive DEF scanHorizon
<1>2. PICK m : m = FirstFlip(awake, zone, t)
  OBVIOUS
<1>3. CASE m = Zero
  <2>1. \A v \in Nat : t <= v => isAwakeAt(awake, zone, v) = isAwakeAt(awake, zone, t)
    <3>1. FirstFlip(awake, zone, t) = Zero
      BY <1>2, <1>3
    <3> QED
      BY <3>1, HorizonIsEnough
  <2>2. PICK n : n = FirstFlip(awake, zone, u)
    OBVIOUS
  <2>3. ~(n \in u + 1 .. u + H /\ isAwakeAt(awake, zone, n) # isAwakeAt(awake, zone, u))
    BY <2>1
  <2> QED
    BY <1>1, <1>2, <1>3, <2>1, <2>2, <2>3, FirstFlipIs
<1>4. CASE m # Zero
  <2>1. /\ m \in t + 1 .. t + H /\ u < m
        /\ isAwakeAt(awake, zone, m) # isAwakeAt(awake, zone, t)
        /\ \A v \in t .. m - 1 : isAwakeAt(awake, zone, v) = isAwakeAt(awake, zone, t)
    BY <1>1, <1>2, <1>4, FirstFlipIs
  <2>2. m \in u + 1 .. u + H /\ u \in t .. m - 1
    BY <2>1
  <2>3. isAwakeAt(awake, zone, u) = isAwakeAt(awake, zone, t)
    BY <2>1, <2>2
  <2>4. \A v \in u .. m - 1 : isAwakeAt(awake, zone, v) = isAwakeAt(awake, zone, u)
    BY <2>1, <2>2, <2>3
  <2>5. FirstFlip(awake, zone, u) = m
    BY <1>1, <2>1, <2>2, <2>3, <2>4, FirstFlipUnique
  <2> QED
    BY <1>2, <2>3, <2>5
<1> QED
  BY <1>3, <1>4
=============================================================================
