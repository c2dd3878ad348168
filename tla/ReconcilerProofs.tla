-------------------------- MODULE ReconcilerProofs --------------------------
(***************************************************************************)
(* The operator is right when it is at rest.  Inv is inductive at any      *)
(* pace, PromptInv when the operator is prompt.                            *)
(***************************************************************************)
EXTENDS ReconcilerInvariant, InformerProofs, EvaluatorProofs

-----------------------------------------------------------------------------
(* The functions of wake.go and of the controller.                         *)

\* ParseEntry and Resolve: the expiry is never beyond what was asked for, nor
\* beyond the maximum.
LEMMA ResolveBounds ==
  ASSUME NEW entry \in WakeEntries, entry.form # "malformed",
         NEW t \in Nat, NEW def \in Int, NEW max \in Int
  PROVE  /\ Resolve(entry, t, def, max) \in Nat
         /\ max > 0 => Resolve(entry, t, def, max) <= t + max
         /\ entry.form = "at" => Resolve(entry, t, def, max) <= entry.n
         /\ entry.form = "for" => Resolve(entry, t, def, max) <= t + entry.n
         /\ (entry.form = "at" /\ Resolve(entry, t, def, max) # entry.n) =>
              max > 0 /\ Resolve(entry, t, def, max) = t + max
<1>1. entry.n \in Nat /\ entry.form \in {"at", "for", "default"}
  BY DEF WakeEntries
<1>2. CASE entry.form = "at"
  BY <1>1, <1>2 DEF Resolve, Zero
<1>3. CASE entry.form = "for"
  BY <1>1, <1>3 DEF Resolve, Zero
<1>4. CASE entry.form = "default"
  BY <1>1, <1>4 DEF Resolve, Zero
<1> QED
  BY <1>1, <1>2, <1>3, <1>4

\* RFC 3339 in whole seconds.
LEMMA FormatBounds ==
  ASSUME NEW t \in Nat, t >= Second
  PROVE  FormatExpiry(t) \in Nat /\ FormatExpiry(t) <= t /\ FormatExpiry(t) > 0
<1>1. t % Second \in 0 .. Second - 1
  BY ReconcilerAssumption
<1> QED
  BY <1>1, ReconcilerAssumption DEF FormatExpiry

\* Max of two.
LEMMA MaxPair ==
  ASSUME NEW a \in Int, NEW b \in Int
  PROVE  Max({a, b}) = IF a >= b THEN a ELSE b
<1> DEFINE m == IF a >= b THEN a ELSE b
<1>1. m \in {a, b} /\ \A y \in {a, b} : m >= y
  OBVIOUS
<1>2. Max({a, b}) \in {a, b} /\ \A y \in {a, b} : Max({a, b}) >= y
  BY <1>1, Zenon DEF Max
<1> QED
  BY <1>1, <1>2

\* The delay ends with the sooner of the two instants, or after a second.
LEMMA DelayBounds ==
  ASSUME NEW t \in Nat, NEW next \in Nat, NEW earliest \in Nat
  PROVE  LET d == requeueDelay(t, next, earliest)
         IN  /\ d \in Nat
             /\ d # 0 => d >= Second
             /\ \A x \in {next, earliest} \ {Zero} : d # 0 /\ (d <= x - t \/ d <= Second)
<1> DEFINE wait(x) == Max({x - t, Second})
           delays == {wait(x) : x \in {next, earliest} \ {Zero}}
<1> USE DEF Zero
<1>1. \A x \in Nat : /\ wait(x) \in Nat /\ wait(x) >= Second
                     /\ wait(x) <= x - t \/ wait(x) <= Second
  BY MaxPair, ReconcilerAssumption
<1>2. requeueDelay(t, next, earliest) = IF delays = {} THEN 0 ELSE Min(delays)
  BY DEF requeueDelay
<1>3. delays \subseteq Nat /\ \A x \in {next, earliest} \ {Zero} : wait(x) \in delays
  BY <1>1
<1>4. CASE delays = {}
  BY <1>2, <1>3, <1>4
<1>5. CASE delays # {}
  <2>1. PICK m \in delays : \A y \in delays : m <= y
    <3>1. delays \subseteq {wait(next), wait(earliest)}
      OBVIOUS
    <3>2. wait(next) \in Nat /\ wait(earliest) \in Nat
      BY <1>1
    <3> HIDE DEF wait, delays
    <3> QED
      BY <1>5, <3>1, <3>2
  <2>2. m \in Nat /\ m >= Second
    BY <1>1
  <2> HIDE DEF wait, delays
  <2>3. requeueDelay(t, next, earliest) = m
    BY <1>2, <1>3, <1>5, <2>1, MinLeast
  <2>4. \A x \in {next, earliest} \ {Zero} : m <= x - t \/ m <= Second
    <3> SUFFICES ASSUME NEW x \in {next, earliest} \ {Zero}
                 PROVE  m <= x - t \/ m <= Second
      OBVIOUS
    <3>1. wait(x) \in delays /\ x \in Nat
      BY <1>3
    <3>2. PICK y \in Nat : y = wait(x)
      BY <1>1, <3>1
    <3>3. m <= y /\ (y <= x - t \/ y <= Second)
      BY <1>1, <2>1, <3>1, <3>2
    <3> QED
      BY <2>2, <3>1, <3>3, ReconcilerAssumption
  <2>5. m # 0
    BY <2>2, ReconcilerAssumption
  <2> QED
    BY <2>2, <2>3, <2>4, <2>5
<1> QED
  BY <1>4, <1>5

\* The timer fires after the delay, or earlier when it was set to.
LEMMA AddAfterBounds ==
  ASSUME now \in Nat, due \in Nat, NEW delay \in Nat
  PROVE  /\ AddAfter(delay) \in Nat
         /\ delay = 0 => AddAfter(delay) = due
         /\ delay # 0 => /\ AddAfter(delay) # Zero /\ AddAfter(delay) <= now + delay
                         /\ AddAfter(delay) \in {due, now + delay}
<1>1. CASE delay = 0
  BY <1>1 DEF AddAfter
<1>2. CASE delay # 0
  <2> DEFINE times == {now + delay} \cup ({due} \ {Zero})
  <2>1. PICK m \in times : \A y \in times : m <= y
    OBVIOUS
  <2>2. times \subseteq Int
    OBVIOUS
  <2>3. Min(times) = m
    BY <2>1, <2>2, MinLeast
  <2>4. AddAfter(delay) = m
    BY <1>2, <2>3 DEF AddAfter
  <2> QED
    BY <1>2, <2>1, <2>4 DEF Zero
<1> QED
  BY <1>1, <1>2

-----------------------------------------------------------------------------
(* Types.                                                                  *)

\* What the pass makes of the ConfigMap in the cache.
LEMMA ExpiryTypes ==
  ASSUME TypeOK, pc # "idle"
  PROVE  /\ held \in Versions /\ held.spec \in Specs
         /\ held.spec.def \in Int /\ held.spec.max \in Int
         /\ readAt \in Nat /\ readAt >= Second
         /\ Entry # Nil => /\ Cached(cm) \in ConfigMaps /\ Entry = Cached(cm).wake
                           /\ Entry \in WakeEntries /\ Entry.form # "malformed"
                           /\ Entry.form = "for" => Entry.n > 0
         /\ Expiry \in Nat
         /\ Expiry # Zero => Entry # Nil
<1>1. held \in Versions /\ held.spec \in Specs
  BY DEF TypeOK, Versions
<1>2. held.spec.def \in Int /\ held.spec.max \in Int /\ readAt \in Nat /\ readAt >= Second
  BY <1>1, ReconcilerAssumption DEF TypeOK
<1>3. Cached(cm) \in {Nil} \cup ConfigMaps
  BY ViewParts DEF TypeOK
<1>4. Entry # Nil => /\ Cached(cm) \in ConfigMaps /\ Entry = Cached(cm).wake
                     /\ Entry \in WakeEntries /\ Entry.form # "malformed"
                     /\ Entry.form = "for" => Entry.n > 0
  BY <1>3 DEF Entry, ParseEntry, ConfigMaps, WakeEntries
<1>5. Expiry \in Nat
  BY <1>2, <1>4, ResolveBounds DEF Expiry, Zero
<1> QED
  BY <1>1, <1>2, <1>4, <1>5 DEF Expiry

\* What ProcessWake writes.
LEMMA StampTypes ==
  ASSUME TypeOK, pc # "idle", NeedsStamp
  PROVE  /\ Stamped \in ConfigMaps
         /\ Stamped.wake # Nil => /\ Expiry > readAt
                                  /\ Stamped.wake = [form |-> "at", n |-> FormatExpiry(Expiry)]
<1>1. Entry # Nil /\ Cached(cm) \in ConfigMaps /\ Expiry \in Nat /\ readAt \in Nat /\ readAt >= Second
  BY ExpiryTypes DEF NeedsStamp
<1>2. CASE Expiry <= readAt
  BY <1>1, <1>2 DEF Stamped, NoOverride, ConfigMaps
<1>3. CASE ~(Expiry <= readAt)
  <2>1. Stamped = [Cached(cm) EXCEPT !.wake = [form |-> "at", n |-> FormatExpiry(Expiry)]]
    BY <1>3 DEF Stamped, NeedsStamp
  <2>2. [form |-> "at", n |-> FormatExpiry(Expiry)] \in WakeEntries
    BY <1>1, <1>3, FormatBounds, ReconcilerAssumption DEF WakeEntries
  <2> QED
    BY <1>1, <1>3, <2>1, <2>2 DEF ConfigMaps
<1> QED
  BY <1>2, <1>3

\* Evaluate returns instants.
LEMMA EvaluateTypes ==
  ASSUME NEW s \in Specs, NEW t \in Start .. End
  PROVE  Evaluate[s][t].next \in Nat
<1>1. t \in Nat /\ Calendar(Zone)
  BY ReconcilerAssumption DEF Calendar
<1>2. NextTransition(s.awake, Zone, t) \in Nat
  BY <1>1, NextTransitionTypes
<1> QED
  BY <1>2 DEF Evaluate

\* What Apply and Finish write.
LEMMA StatusTypes ==
  ASSUME TypeOK, pc # "idle"
  PROVE  /\ GaugesSet \in Series
         /\ [held EXCEPT !.status = newStatus] \in Versions
         /\ res.next \in Nat
<1>1. held \in Versions /\ held.spec \in Specs /\ readAt \in Start .. End /\ readAt \in Nat
  BY ExpiryTypes, ReconcilerAssumption DEF TypeOK
<1>2. res.next \in Nat
  BY <1>1, EvaluateTypes DEF res
<1>3. activeWakes \in {0, 1}
  BY DEF activeWakes
<1>4. phase \in {"Awake", "Asleep", "WokenByOverride"}
  BY DEF phase
<1>5. newStatus \in [phase : {"none", "Awake", "Asleep", "WokenByOverride"},
                     next : Nat, active : {0, 1}]
  BY <1>2, <1>3, <1>4 DEF newStatus
<1>6. effectiveAsleep \in BOOLEAN
  BY DEF effectiveAsleep
<1>7. forcedAwake => override - readAt \in Nat
  BY <1>1 DEF forcedAwake, TypeOK
<1>8. GaugesSet \in Series
  BY <1>3, <1>6, <1>7 DEF GaugesSet, Series
<1> QED
  BY <1>1, <1>2, <1>5, <1>8 DEF Versions

\* The parts of TypeOK: numbers, objects and flags.
Numbers == /\ now \in Start .. End /\ due \in Nat /\ readAt \in Start .. now
           /\ override \in Nat /\ (override # Zero => pc \in {"apply", "status"} /\ override > readAt)
           /\ budget \in 0 .. MaxDisturbances
Objects == /\ ss \in Views({Nil} \cup Versions) /\ cm \in Views({Nil} \cup ConfigMaps)
           /\ gauges \in {Nil} \cup Series /\ held \in Versions \cup {Nil}
           /\ asked \in WakeEntries \cup {Nil}
Flags == /\ doomed \in BOOLEAN /\ queued \in BOOLEAN /\ fresh \in BOOLEAN
         /\ applied \in {"asleep", "awake"}
         /\ pc \in {"idle", "ensure", "wake", "apply", "status"}
         /\ pc # "idle" => held # Nil

\* TypeOK in three parts,
LEMMA TypeParts == (TypeOK <=> Numbers /\ Objects /\ Flags)
  BY Zenon DEF TypeOK, Numbers, Objects, Flags

\* and so after a step.
LEMMA TypePartsNext == (TypeOK' <=> Numbers' /\ Objects' /\ Flags')
  BY Zenon DEF TypeOK, Numbers, Objects, Flags

\* The steps of a pass keep the types.
LEMMA PassTypeOK ==
  ASSUME TypeOK, Pass
  PROVE  TypeOK'
<1> USE TypeParts
<1>1. CASE Begin
  <2>1. Numbers'
    BY <1>1 DEF Begin, Numbers
  <2>2. Objects'
    BY <1>1, ViewParts DEF Begin, Objects, namespace
  <2>3. Flags'
    BY <1>1 DEF Begin, Flags, namespace, Synced
  <2> QED
    BY <2>1, <2>2, <2>3, TypePartsNext
<1>2. CASE Gone
  <2>1. Numbers'
    BY <1>2 DEF Gone, Numbers, pass
  <2>2. Objects'
    BY <1>2 DEF Gone, Objects, namespace, pass
  <2>3. Flags'
    BY <1>2 DEF Gone, Flags, namespace, pass
  <2> QED
    BY <2>1, <2>2, <2>3, TypePartsNext
<1>3. CASE Ensure
  <2>1. Numbers'
    BY <1>3, ReconcilerAssumption DEF Ensure, Numbers
  <2>2. NoOverride(held.uid) \in ConfigMaps
    BY <1>3, ExpiryTypes DEF Ensure, NoOverride, ConfigMaps, Versions
  <2>3. cm' \in Views({Nil} \cup ConfigMaps)
    BY <1>3, <2>2, ViewCommit DEF Ensure, Objects
  <2>4. Objects'
    BY <1>3, <2>3 DEF Ensure, Objects
  <2>5. Flags'
    BY <1>3 DEF Ensure, Flags
  <2> QED
    BY <2>1, <2>4, <2>5, TypePartsNext
<1>4. CASE ProcessWake
  <2>1. pc # "idle" /\ Expiry \in Nat
    BY <1>4, ExpiryTypes DEF ProcessWake
  <2>2. cm' \in Views({Nil} \cup ConfigMaps)
    BY <1>4, <2>1, StampTypes, ViewCommit DEF ProcessWake, Objects
  <2>3. Numbers'
    BY <1>4, <2>1 DEF ProcessWake, Numbers, Zero
  <2>4. Objects'
    BY <1>4, <2>2 DEF ProcessWake, Objects
  <2>5. Flags'
    BY <1>4 DEF ProcessWake, Flags
  <2> QED
    BY <2>3, <2>4, <2>5, TypePartsNext
<1>5. CASE Apply
  <2>1. GaugesSet \in Series
    BY <1>5, StatusTypes DEF Apply
  <2>2. Numbers'
    BY <1>5 DEF Apply, Numbers
  <2>3. Objects'
    BY <1>5, <2>1 DEF Apply, Objects, namespace
  <2>4. Flags'
    BY <1>5 DEF Apply, Flags, namespace
  <2> QED
    BY <2>2, <2>3, <2>4, TypePartsNext
<1>6. CASE Finish
  <2>1. /\ [held EXCEPT !.status = newStatus] \in Versions /\ res.next \in Nat
        /\ readAt \in Nat /\ now \in Nat
    BY <1>6, StatusTypes, ReconcilerAssumption DEF Finish, Numbers
  <2>2. ss' \in Views({Nil} \cup Versions)
    BY <1>6, <2>1, ViewCommit DEF Finish, Objects
  <2>3. due' \in Nat
    BY <1>6, <2>1, DelayBounds, AddAfterBounds DEF Finish, Numbers
  <2>4. Numbers'
    BY <1>6, <2>3, ReconcilerAssumption DEF Finish, Return, Numbers, Zero
  <2>5. Objects'
    BY <1>6, <2>2 DEF Finish, Return, Objects
  <2>6. Flags'
    BY <1>6 DEF Finish, Return, Flags
  <2> QED
    BY <2>4, <2>5, <2>6, TypePartsNext
<1>7. CASE Conflict
  <2>1. Numbers'
    BY <1>7, ReconcilerAssumption DEF Conflict, Again, Return, Numbers, Zero
  <2>2. Objects'
    BY <1>7 DEF Conflict, Again, Return, Objects, namespace
  <2>3. Flags'
    BY <1>7 DEF Conflict, Again, Return, Flags, namespace
  <2> QED
    BY <2>1, <2>2, <2>3, TypePartsNext
<1> QED
  BY <1>1, <1>2, <1>3, <1>4, <1>5, <1>6, <1>7 DEF Pass

\* The clock, the users and the watch keep them.
LEMMA OthersTypeOK ==
  ASSUME TypeOK, Others \/ Tick
  PROVE  TypeOK'
<1> USE TypeParts
<1>1. CASE DeliverSchedule \/ DeliverConfigMap
  <2>1. Numbers'
    BY <1>1 DEF DeliverSchedule, DeliverConfigMap, Enqueued, Numbers, pass
  <2>2. Objects'
    BY <1>1, ViewDelivered DEF DeliverSchedule, DeliverConfigMap, Enqueued, Objects, pass
  <2>3. Flags'
    BY <1>1 DEF DeliverSchedule, DeliverConfigMap, Enqueued, Flags, pass
  <2> QED
    BY <2>1, <2>2, <2>3, TypePartsNext
<1>2. CASE Collect
  <2>1. /\ Commit(ss, Nil) \in Views({Nil} \cup Versions)
        /\ Commit(cm, Nil) \in Views({Nil} \cup ConfigMaps)
    BY ViewCommit DEF Objects
  <2>2. Numbers'
    BY <1>2 DEF Collect, Numbers
  <2>3. Objects'
    BY <1>2, <2>1 DEF Collect, Objects
  <2>4. Flags'
    BY <1>2 DEF Collect, Flags
  <2> QED
    BY <2>2, <2>3, <2>4, TypePartsNext
<1>3. Disturb => budget' \in 0 .. MaxDisturbances
  BY ReconcilerAssumption DEF Disturb, Numbers
<1>4. ASSUME NEW v \in WakeValues \cup {Nil}, WriteWake(v)
      PROVE  TypeOK'
  <2>1. Live(cm) \in ConfigMaps /\ v \in WakeEntries \cup {Nil}
    BY <1>4, ViewParts, WakeAssumption DEF WriteWake, Objects
  <2>2. [Live(cm) EXCEPT !.wake = v] \in ConfigMaps
    BY <2>1 DEF ConfigMaps
  <2>3. cm' \in Views({Nil} \cup ConfigMaps)
    BY <1>4, <2>2, ViewCommit DEF WriteWake, Objects
  <2>4. Numbers'
    BY <1>3, <1>4 DEF WriteWake, Numbers, pass
  <2>5. Objects'
    BY <1>4, <2>1, <2>3 DEF WriteWake, Objects, pass
  <2>6. Flags'
    BY <1>4 DEF WriteWake, Flags, pass
  <2> QED
    BY <2>4, <2>5, <2>6, TypePartsNext
<1>5. CASE DeleteConfigMap
  <2>1. Numbers'
    BY <1>3, <1>5 DEF DeleteConfigMap, Numbers, pass
  <2>2. Objects'
    BY <1>5, ViewCommit DEF DeleteConfigMap, Objects, pass
  <2>3. Flags'
    BY <1>5 DEF DeleteConfigMap, Flags, pass
  <2> QED
    BY <2>1, <2>2, <2>3, TypePartsNext
<1>6. ASSUME NEW version \in {Nil} \cup Versions, WriteSchedule(version),
             budget' \in 0 .. MaxDisturbances
      PROVE  TypeOK'
  <2>1. Numbers'
    BY <1>6 DEF WriteSchedule, Numbers
  <2>2. Objects'
    BY <1>6, ViewCommit DEF WriteSchedule, Objects
  <2>3. Flags'
    BY <1>6 DEF WriteSchedule, Flags
  <2> QED
    BY <2>1, <2>2, <2>3, TypePartsNext
<1>7. ASSUME NEW s \in Specs, EditSpec(s)
      PROVE  TypeOK'
  <2>1. Live(ss) \in Versions
    BY <1>7, ViewParts DEF EditSpec, Objects
  <2>2. [Live(ss) EXCEPT !.spec = s] \in Versions
    BY <2>1 DEF Versions
  <2> QED
    BY <1>3, <1>6, <1>7, <2>2 DEF EditSpec
<1>8. ASSUME NEW s \in Specs, CreateSchedule(s)
      PROVE  TypeOK'
  <2>1. NewSchedule(budget, s) \in Versions
    BY DEF NewSchedule, NoStatus, Versions, Zero, Numbers
  <2> QED
    BY <1>6, <1>8, <2>1 DEF CreateSchedule, Numbers
<1>9. CASE DeleteSchedule
  BY <1>3, <1>6, <1>9 DEF DeleteSchedule
<1>10. CASE DeleteNamespace
  <2>1. Numbers'
    BY <1>3, <1>10 DEF DeleteNamespace, Numbers, pass
  <2>2. Objects'
    BY <1>10 DEF DeleteNamespace, Objects, pass
  <2>3. Flags'
    BY <1>10 DEF DeleteNamespace, Flags, pass
  <2> QED
    BY <2>1, <2>2, <2>3, TypePartsNext
<1>11. CASE Fail \/ Crash
  <2>1. Numbers'
    BY <1>3, <1>11, ReconcilerAssumption DEF Fail, Crash, Again, Return, Numbers, Zero
  <2>2. Objects'
    BY <1>11 DEF Fail, Crash, Again, Return, Objects, namespace
  <2>3. Flags'
    BY <1>11 DEF Fail, Crash, Again, Return, Flags, namespace
  <2> QED
    BY <2>1, <2>2, <2>3, TypePartsNext
<1>12. CASE Tick
  <2>1. Numbers'
    BY <1>12, ReconcilerAssumption DEF Tick, Numbers, pass, Zero
  <2>2. Objects'
    BY <1>12 DEF Tick, Objects, namespace, pass
  <2>3. Flags'
    BY <1>12, Zenon DEF Tick, Flags, namespace, pass
  <2> QED
    BY <2>1, <2>2, <2>3, TypePartsNext
<1> QED
  BY <1>1, <1>2, <1>4, <1>5, <1>7, <1>8, <1>9, <1>10, <1>11, <1>12 DEF Others, Users

\* The types hold at the start.
LEMMA InitTypeOK == Init => TypeOK
<1> SUFFICES ASSUME Init
             PROVE  TypeOK
  OBVIOUS
<1>1. PICK s \in Specs : ss = <<NewSchedule(MaxDisturbances, s)>>
  BY DEF Init
<1>2. NewSchedule(MaxDisturbances, s) \in Versions
  BY ReconcilerAssumption DEF NewSchedule, NoStatus, Versions, Zero
<1>3. /\ ss \in Views({Nil} \cup Versions) /\ Live(ss) = NewSchedule(MaxDisturbances, s)
      /\ cm \in Views({Nil} \cup ConfigMaps)
  BY <1>1, <1>2, ViewOfOne DEF Init
<1>4. Numbers
  BY ReconcilerAssumption DEF Init, Numbers, Zero
<1>5. Objects /\ Flags
  BY <1>3 DEF Init, Objects, Flags
<1> QED
  BY <1>4, <1>5, TypeParts

\* The types hold in every reachable state, at any pace.
THEOREM TypeCorrect == Spec => []TypeOK
<1>1. TypeOK /\ [Next]_vars => TypeOK'
  <2>1. TypeOK /\ UNCHANGED vars => TypeOK'
    BY DEF TypeOK, vars, namespace, pass
  <2> QED
    BY <2>1, PassTypeOK, OthersTypeOK DEF Next
<1> QED
  BY <1>1, InitTypeOK, PTL DEF Spec

-----------------------------------------------------------------------------
(* The users have the last word.                                           *)

\* What ProcessWake writes when its read was not stale.
LEMMA StampBounds ==
  ASSUME TypeOK, pc = "wake", NeedsStamp, Synced(cm)
  PROVE  /\ Live(cm) = Cached(cm) /\ Live(cm).wake = Entry /\ Entry \in WakeEntries
         /\ Entry.form # "malformed"
         /\ Entry.form = "for" => Entry.n > 0
         /\ Stamped.wake # Nil =>
              /\ Stamped.wake.form = "at" /\ Stamped.wake.n \in Nat /\ Stamped.wake.n > 0
              /\ Entry.form = "at" => Stamped.wake.n <= Entry.n
              /\ Entry.form = "for" => Stamped.wake.n <= readAt + Entry.n
<1>1. /\ Entry # Nil /\ Entry = Cached(cm).wake /\ Entry \in WakeEntries
      /\ Entry.form # "malformed" /\ (Entry.form = "for" => Entry.n > 0)
      /\ Expiry \in Nat /\ readAt \in Nat /\ readAt >= Second
      /\ held.spec.def \in Int /\ held.spec.max \in Int
  BY ExpiryTypes DEF NeedsStamp
<1>2. Live(cm) = Cached(cm)
  BY ViewParts DEF TypeOK
<1>3. /\ Entry.form = "at" => Expiry <= Entry.n
      /\ Entry.form = "for" => Expiry <= readAt + Entry.n
  BY <1>1, ResolveBounds DEF Expiry
<1>4. ASSUME Stamped.wake # Nil
      PROVE  /\ Stamped.wake.form = "at" /\ Stamped.wake.n \in Nat /\ Stamped.wake.n > 0
             /\ Stamped.wake.n <= Expiry
  <2>1. Expiry > readAt /\ Stamped.wake = [form |-> "at", n |-> FormatExpiry(Expiry)]
    BY <1>4, StampTypes
  <2>2. FormatExpiry(Expiry) \in Nat /\ FormatExpiry(Expiry) <= Expiry /\ FormatExpiry(Expiry) > 0
    BY <1>1, <2>1, FormatBounds, ReconcilerAssumption
  <2> QED
    BY <2>1, <2>2
<1>5. Entry.n \in Nat
  BY <1>1 DEF WakeEntries
<1> QED
  BY <1>1, <1>2, <1>3, <1>4, <1>5

\* The live override, where there is a ConfigMap.
LEMMA LiveUntilTypes ==
  ASSUME TypeOK
  PROVE  /\ Live(cm) \in {Nil} \cup ConfigMaps /\ LiveUntil \in Nat
         /\ Live(cm) # Nil => Live(cm).wake \in WakeEntries \cup {Nil}
         /\ LiveUntil # Zero => /\ Live(cm) # Nil /\ Live(cm).wake # Nil
                                /\ Live(cm).wake.form = "at" /\ LiveUntil = Live(cm).wake.n
<1>1. Live(cm) \in {Nil} \cup ConfigMaps
  BY ViewParts DEF TypeOK
<1> QED
  BY <1>1 DEF LiveUntil, ConfigMaps, WakeEntries, Zero

\* Nothing but the clock moves.
LEMMA LastWordStays ==
  ASSUME TypeOK, TypeOK', UsersHaveLastWord, Live(cm') = Live(cm), asked' = asked, now' >= now
  PROVE  UsersHaveLastWord'
<1>1. PICK c, u : c = Live(cm) /\ u = LiveUntil
  OBVIOUS
<1>2. Live(cm)' = c /\ LiveUntil' = u
  BY <1>1 DEF LiveUntil
<1>3. now \in Nat /\ now' \in Nat /\ u \in Nat /\ asked \in WakeEntries \cup {Nil}
  BY <1>1, LiveUntilTypes, ReconcilerAssumption DEF TypeOK
<1>4. asked # Nil => asked.n \in Nat
  BY <1>3 DEF WakeEntries
<1> QED
  BY <1>1, <1>2, <1>3, <1>4 DEF UsersHaveLastWord

\* No step brings back what users replaced or removed.
LEMMA NextLastWord ==
  ASSUME TypeOK, TypeOK', UsersHaveLastWord, [Next]_vars
  PROVE  UsersHaveLastWord'
<1>1. now' >= now
  <2>1. now' = now \/ now' = now + 1
    BY Zenon DEF Next, Pass, Others, Users, vars, Begin, Gone, Ensure, ProcessWake, Apply, Finish,
       Conflict, Again, DeliverSchedule, DeliverConfigMap, Enqueued, Collect, WriteWake,
       DeleteConfigMap, EditSpec, CreateSchedule, WriteSchedule, DeleteSchedule,
       DeleteNamespace, Fail, Crash, Tick
  <2> QED
    BY <2>1, ReconcilerAssumption DEF TypeOK
<1>2. CASE cm' = cm /\ asked' = asked
  BY <1>1, <1>2, LastWordStays
<1>3. CASE DeliverConfigMap
  <2>1. Live(cm') = Live(cm) /\ asked' = asked
    BY <1>3, ViewDelivered DEF DeliverConfigMap, Enqueued, TypeOK
  <2> QED
    BY <1>1, <2>1, LastWordStays
<1>4. ASSUME cm' = Commit(cm, Nil)
      PROVE  UsersHaveLastWord'
  <2>1. Live(cm') = Nil
    BY <1>4, ViewCommit DEF TypeOK
  <2> QED
    BY <2>1 DEF UsersHaveLastWord
<1>5. CASE Ensure
  <2>1. CASE cm' = cm
    BY <1>2, <1>5, <2>1 DEF Ensure
  <2>2. CASE cm' = Commit(cm, NoOverride(held.uid))
    <3>1. NoOverride(held.uid) \in ConfigMaps
      BY <1>5, ExpiryTypes DEF Ensure, NoOverride, ConfigMaps, Versions
    <3>2. Live(cm') = NoOverride(held.uid)
      BY <2>2, <3>1, ViewCommit DEF TypeOK
    <3>3. Live(cm').wake = Nil
      BY <3>2 DEF NoOverride
    <3> QED
      BY <3>3 DEF UsersHaveLastWord
  <2> QED
    BY <1>5, <2>1, <2>2 DEF Ensure
<1>6. CASE ProcessWake
  <2>1. CASE cm' = cm
    BY <1>2, <1>6, <2>1 DEF ProcessWake
  <2>2. CASE NeedsStamp /\ Synced(cm) /\ cm' = Commit(cm, Stamped)
    <3>1. PICK st : st = Stamped
      OBVIOUS
    <3>2. st \in ConfigMaps
      BY <1>6, <2>2, <3>1, StampTypes DEF ProcessWake
    <3>3. Live(cm') = st /\ st # Nil
      BY <2>2, <3>1, <3>2, ViewCommit, NilAssumption DEF TypeOK
    <3>4. CASE st.wake = Nil
      BY <3>3, <3>4 DEF UsersHaveLastWord
    <3>5. CASE st.wake # Nil
      <4>1. PICK e, r : e = Entry /\ r = readAt
        OBVIOUS
      <4>2. /\ Live(cm).wake = e /\ e \in WakeEntries /\ e.form # "malformed"
            /\ e.form = "for" => e.n > 0
            /\ st.wake.form = "at" /\ st.wake.n \in Nat /\ st.wake.n > 0
            /\ e.form = "at" => st.wake.n <= e.n
            /\ e.form = "for" => st.wake.n <= r + e.n
        BY <1>6, <2>2, <3>1, <3>5, <4>1, StampBounds DEF ProcessWake
      <4>3. Live(cm) # Nil
        BY <1>6, <2>2, ExpiryTypes, ViewParts, NilAssumption DEF ProcessWake, NeedsStamp, TypeOK
      <4>4. LiveUntil' = st.wake.n /\ st.wake.n # Zero
        BY <3>3, <3>5, <4>2 DEF LiveUntil, Zero
      <4>5. asked' = asked /\ now' = now
        BY <1>6 DEF ProcessWake
      <4>6. e # Nil /\ e.n \in Nat /\ now \in Nat /\ r \in Nat /\ r <= now
        BY <4>1, <4>2, NilAssumption, ReconcilerAssumption DEF TypeOK, WakeEntries
      <4>7. CASE e = asked
        <5>1. /\ asked # Nil
              /\ asked.form = "at" => st.wake.n <= asked.n
              /\ asked.form = "for" => asked.n > 0 /\ st.wake.n <= now + asked.n
              /\ asked.form # "malformed"
          BY <4>2, <4>6, <4>7
        <5> QED
          BY <4>4, <4>5, <5>1 DEF UsersHaveLastWord
      <4>8. CASE e # asked
        <5>1. /\ asked # Nil /\ LiveUntil # Zero
              /\ asked.form = "at" => LiveUntil <= asked.n
              /\ asked.form = "for" => asked.n > 0 /\ LiveUntil <= now + asked.n
              /\ asked.form # "malformed"
          BY <4>2, <4>3, <4>6, <4>8 DEF UsersHaveLastWord
        <5>2. st.wake.n <= LiveUntil /\ LiveUntil \in Nat
          BY <4>2, <5>1, LiveUntilTypes
        <5>3. asked.n \in Nat
          BY <5>1 DEF TypeOK, WakeEntries
        <5>4. /\ asked.form = "at" => st.wake.n <= asked.n
              /\ asked.form = "for" => asked.n > 0 /\ st.wake.n <= now + asked.n
          BY <4>2, <4>6, <5>1, <5>2, <5>3
        <5> QED
          BY <4>4, <4>5, <5>1, <5>4 DEF UsersHaveLastWord
      <4> QED
        BY <4>7, <4>8
    <3> QED
      BY <3>4, <3>5
  <2> QED
    BY <1>6, <2>1, <2>2 DEF ProcessWake
<1>7. ASSUME NEW v \in WakeValues \cup {Nil}, WriteWake(v)
      PROVE  UsersHaveLastWord'
  <2>1. Live(cm) \in ConfigMaps /\ v \in WakeEntries \cup {Nil}
    BY <1>7, ViewParts, WakeAssumption DEF WriteWake, TypeOK
  <2>2. PICK c \in ConfigMaps : c = [Live(cm) EXCEPT !.wake = v]
    BY <2>1 DEF ConfigMaps
  <2>3. Live(cm') = c
    BY <1>7, <2>2, ViewCommit DEF WriteWake, TypeOK
  <2>4. c.wake = v
    BY <2>1, <2>2 DEF ConfigMaps
  <2>5. asked' = v
    BY <1>7 DEF WriteWake
  <2> QED
    BY <2>3, <2>4, <2>5 DEF UsersHaveLastWord
<1>8. \/ cm' = cm /\ asked' = asked
      \/ cm' = Commit(cm, Nil)
      \/ DeliverConfigMap \/ Ensure \/ ProcessWake
      \/ \E v \in WakeValues \cup {Nil} : WriteWake(v)
  BY Zenon DEF Next, Pass, Others, Users, vars, namespace, Begin, Gone, Apply, Finish,
     Conflict, Again, DeliverSchedule, Enqueued, Collect,
     DeleteConfigMap, EditSpec, CreateSchedule, WriteSchedule, DeleteSchedule,
     DeleteNamespace, Fail, Crash, Tick
<1> QED
  BY <1>2, <1>3, <1>4, <1>5, <1>6, <1>7, <1>8

\* A cancelled override does not come back, at any pace, however stale the
\* operator's reads are, and whatever fails: what is in the ConfigMap is what
\* the users asked for last, or the expiry that processWakeEntries made of it.
THEOREM LastWordIsKept == Spec => []UsersHaveLastWord
<1>1. Init => UsersHaveLastWord
  <2> SUFFICES ASSUME Init PROVE UsersHaveLastWord
    OBVIOUS
  <2>1. Live(cm) = Nil
    BY ViewOfOne DEF Init
  <2> QED
    BY <2>1 DEF UsersHaveLastWord
<1> QED
  BY <1>1, TypeCorrect, NextLastWord, PTL DEF Spec

\* processWakeEntries stamps an override once, and never moves its expiry later.
THEOREM ExpiryNeverExtended == Spec => NeverExtended
<1>1. TypeOK /\ TypeOK' /\ [Next]_vars =>
        [(pc = "wake" /\ pc' # "wake" /\ LiveUntil # Zero) => LiveUntil' <= LiveUntil]_vars
  <2> SUFFICES ASSUME TypeOK, TypeOK', Next, pc = "wake", pc' # "wake", LiveUntil # Zero
               PROVE  LiveUntil' <= LiveUntil
    OBVIOUS
  <2>1. LiveUntil \in Nat /\ Live(cm).wake.form = "at" /\ LiveUntil = Live(cm).wake.n
    BY LiveUntilTypes
  <2>2. CASE cm' = cm
    BY <2>1, <2>2 DEF LiveUntil
  <2>3. CASE ProcessWake /\ NeedsStamp /\ Synced(cm) /\ cm' = Commit(cm, Stamped)
    <3>1. PICK st, u : st = Stamped /\ u = LiveUntil
      OBVIOUS
    <3>2. st \in ConfigMaps
      BY <2>3, <3>1, StampTypes
    <3>3. Live(cm') = st /\ st # Nil
      BY <2>3, <3>1, <3>2, ViewCommit, NilAssumption DEF TypeOK
    <3>4. st.wake # Nil => st.wake.form = "at" /\ st.wake.n \in Nat /\ st.wake.n <= u
      BY <2>1, <2>3, <3>1, StampBounds
    <3> QED
      BY <2>1, <3>1, <3>3, <3>4 DEF LiveUntil, Zero
  <2>4. cm' = cm \/ ProcessWake
    BY Zenon DEF Next, Pass, Others, Users, namespace, pass, Begin, Gone, Ensure, Apply, Finish,
       Conflict, Again, DeliverSchedule, DeliverConfigMap, Enqueued, Collect, WriteWake,
       DeleteConfigMap, EditSpec, CreateSchedule, WriteSchedule, DeleteSchedule,
       DeleteNamespace, Fail, Crash, Tick
  <2> QED
    BY <2>2, <2>3, <2>4 DEF ProcessWake
<1> QED
  BY <1>1, TypeCorrect, PTL DEF Spec, NeverExtended

-----------------------------------------------------------------------------
(* Inv is inductive.                                                       *)

\* The pass is cut short, or a watch event or the timer comes in: the schedule
\* is queued.
Interrupt == /\ queued' = TRUE
             /\ pc' = "idle" \/ UNCHANGED <<pc, held, readAt, override, gauges, applied>>

\* Something happens that the operator does not see; a write is still to be
\* delivered.
Background == /\ UNCHANGED <<queued, due, pc, held, readAt, override, gauges, applied>>
              /\ ss' = ss \/ ~Synced(ss')
              /\ cm' = cm \/ ~Synced(cm')
              /\ doomed => doomed'
              /\ now' = now \/ Tick

\* Every step is of one of the kinds that the lemmas below are about.
LEMMA NextKinds ==
  ASSUME ThereIsAWatch, TypeOK, [Next]_vars
  PROVE  Begin \/ Gone \/ Ensure \/ ProcessWake \/ Apply \/ Finish \/ Interrupt \/ Background
<1>1. \A x : ~Synced(Commit(ss, x)) /\ ~Synced(Commit(cm, x))
  BY CommitIsNews DEF TypeOK, ThereIsAWatch
<1>2. CASE Conflict \/ Fail \/ Crash
  BY <1>2, Zenon DEF Conflict, Fail, Crash, Again, Return, Interrupt
<1>3. CASE DeliverSchedule \/ DeliverConfigMap
  BY <1>3 DEF DeliverSchedule, DeliverConfigMap, Enqueued, Interrupt, pass
<1>4. CASE Tick
  <2>1. CASE due # Zero /\ due <= now'
    BY <1>4, <2>1, Zenon DEF Tick, Interrupt, pass
  <2>2. CASE ~(due # Zero /\ due <= now')
    <3>1. UNCHANGED <<queued, due, pc, held, readAt, override, gauges, applied, ss, cm, doomed>>
      BY <1>4, <2>2, Zenon DEF Tick, namespace, pass
    <3> QED
      BY <1>4, <3>1 DEF Background
  <2> QED
    BY <2>1, <2>2
<1>5. CASE Collect
  <2>1. \/ cm' = Commit(cm, Nil) /\ ss' = ss
        \/ ss' = Commit(ss, Nil) /\ cm' = cm
    BY <1>5 DEF Collect
  <2>2. (ss' = ss \/ ~Synced(ss')) /\ (cm' = cm \/ ~Synced(cm'))
    BY <1>1, <2>1
  <2> QED
    BY <1>5, <2>2, Zenon DEF Collect, Background
<1>6. CASE Users
  <2>1. \/ ss' = ss
        \/ \E x : ss' = Commit(ss, x)
    BY <1>6, Zenon DEF Users, WriteWake, DeleteConfigMap, EditSpec, CreateSchedule, WriteSchedule,
       DeleteSchedule, DeleteNamespace
  <2>2. \/ cm' = cm
        \/ \E x : cm' = Commit(cm, x)
    BY <1>6, Zenon DEF Users, WriteWake, DeleteConfigMap, EditSpec, CreateSchedule, WriteSchedule,
       DeleteSchedule, DeleteNamespace
  <2>3. (ss' = ss \/ ~Synced(ss')) /\ (cm' = cm \/ ~Synced(cm'))
    BY <1>1, <2>1, <2>2
  <2>4. UNCHANGED <<queued, due, pc, held, readAt, override, gauges, applied, now>>
    BY <1>6 DEF Users, WriteWake, DeleteConfigMap, EditSpec, CreateSchedule, WriteSchedule,
       DeleteSchedule, DeleteNamespace, pass
  <2>5. doomed' = doomed \/ doomed' = TRUE
    BY <1>6, Zenon DEF Users, WriteWake, DeleteConfigMap, EditSpec, CreateSchedule, WriteSchedule,
       DeleteSchedule, DeleteNamespace
  <2> QED
    BY <2>3, <2>4, <2>5 DEF Background
<1>7. CASE UNCHANGED vars
  BY <1>7 DEF vars, namespace, pass, Background
<1> QED
  BY <1>2, <1>3, <1>4, <1>5, <1>6, <1>7, Zenon DEF Next, Pass, Others

\* A step after which nothing is on its way wrote nothing, and comes after a
\* state in which nothing was, unless it begins a pass.
LEMMA StaysHeard ==
  ASSUME ThereIsAWatch, TypeOK, [Next]_vars
  PROVE  /\ HeardSchedule' => ss' = ss /\ (HeardSchedule \/ Begin \/ Gone)
         /\ HeardOverride' => cm' = cm /\ (HeardOverride \/ Begin \/ Gone)
<1>1. \A x : ~Synced(Commit(ss, x)) /\ ~Synced(Commit(cm, x))
  BY CommitIsNews DEF TypeOK, ThereIsAWatch
<1> USE DEF HeardSchedule, HeardOverride
<1>2. CASE Begin \/ Gone
  BY <1>2 DEF Begin, Gone, namespace
<1>3. CASE Ensure
  BY <1>1, <1>3 DEF Ensure
<1>4. CASE ProcessWake
  BY <1>1, <1>4 DEF ProcessWake
<1>5. CASE Apply
  BY <1>5 DEF Apply, namespace
<1>6. CASE Finish
  BY <1>1, <1>6 DEF Finish
<1>7. CASE Interrupt
  BY <1>7 DEF Interrupt
<1>8. CASE Background
  BY <1>8 DEF Background
<1> QED
  BY <1>2, <1>3, <1>4, <1>5, <1>6, <1>7, <1>8, NextKinds

\* The pass goes on with what it read.
LEMMA PassKeepsWhatItRead ==
  ASSUME [Next]_vars, pc' # "idle"
  PROVE  \/ Begin
         \/ /\ pc # "idle" /\ held' = held
            /\ pc \in {"apply", "status"} => readAt' = readAt /\ override' = override
            /\ pc' = pc \/ Ensure \/ ProcessWake \/ Apply
  BY Zenon DEF Next, Pass, Others, Users, vars, pass, Gone, Ensure, ProcessWake, Apply,
     Finish, Conflict, Again, Return, DeliverSchedule, DeliverConfigMap, Enqueued, Collect,
     WriteWake, DeleteConfigMap, EditSpec, CreateSchedule, WriteSchedule, DeleteSchedule,
     DeleteNamespace, Fail, Crash, Tick

\* A pass goes by the latest schedule, or an event is to come.
LEMMA NextHoldsLatest ==
  ASSUME ThereIsAWatch, Inv, [Next]_vars
  PROVE  HoldsLatest'
<1> SUFFICES ASSUME pc' # "idle", HeardSchedule'
             PROVE  held' = Live(ss')
  BY DEF HoldsLatest
<1>1. TypeOK /\ HoldsLatest
  BY DEF Inv, Knows
<1>2. ss' = ss /\ (HeardSchedule \/ Begin \/ Gone)
  BY <1>1, StaysHeard
<1>3. CASE Begin
  <2>1. Synced(ss) /\ held' = Cached(ss)
    BY <1>2, <1>3 DEF Begin, HeardSchedule
  <2> QED
    BY <1>1, <1>2, <2>1, ViewParts DEF TypeOK
<1>4. CASE ~Begin
  <2>1. pc # "idle" /\ held' = held
    BY <1>4, PassKeepsWhatItRead
  <2>2. HeardSchedule
    BY <1>2, <1>4, <2>1 DEF Gone
  <2> QED
    BY <1>1, <1>2, <2>1, <2>2 DEF HoldsLatest
<1> QED
  BY <1>3, <1>4

\* A schedule that is gone leaves no gauges, or an event is to come.
LEMMA NextGoneIsNoticed ==
  ASSUME ThereIsAWatch, Inv, [Next]_vars
  PROVE  GoneIsNoticed'
<1> SUFFICES ASSUME HeardSchedule', Live(ss') = Nil
             PROVE  gauges' = Nil
  BY DEF GoneIsNoticed
<1>1. TypeOK /\ HoldsLatest /\ GoneIsNoticed
  BY DEF Inv, Knows
<1>2. ss' = ss /\ (HeardSchedule \/ Begin \/ Gone)
  BY <1>1, StaysHeard
<1>3. CASE Begin
  <2>1. Synced(ss) /\ Cached(ss) # Nil
    BY <1>2, <1>3 DEF Begin, HeardSchedule
  <2> QED
    BY <1>1, <1>2, <2>1, ViewParts DEF TypeOK
<1>4. CASE Gone
  BY <1>4 DEF Gone
<1>5. CASE HeardSchedule
  <2>1. gauges = Nil
    BY <1>1, <1>2, <1>5 DEF GoneIsNoticed
  <2>2. ~Apply
    BY <1>1, <1>2, <1>5, ExpiryTypes, NilAssumption DEF HoldsLatest, Apply
  <2>3. gauges' = gauges \/ gauges' = Nil
    BY <2>2, Zenon DEF Next, Pass, Others, Users, vars, Begin, Gone, Ensure, ProcessWake,
       Finish, Conflict, Again, DeliverSchedule, DeliverConfigMap, Enqueued, Collect,
       WriteWake, DeleteConfigMap, EditSpec, CreateSchedule, WriteSchedule, DeleteSchedule,
       DeleteNamespace, Fail, Crash, Tick
  <2> QED
    BY <2>1, <2>3
<1> QED
  BY <1>2, <1>3, <1>4, <1>5

\* ensureWakeConfigMap runs where the ConfigMap is missing.
LEMMA NextConfigMapIsMade ==
  ASSUME ThereIsAWatch, Inv, [Next]_vars
  PROVE  ConfigMapIsMade'
<1> SUFFICES ASSUME HeardSchedule', HeardOverride', Live(cm') = Nil, Live(ss') # Nil, ~doomed'
             PROVE  pc' = "ensure"
  BY DEF ConfigMapIsMade, Heard
<1>1. TypeOK /\ ConfigMapIsMade
  BY DEF Inv, Knows
<1>2. ss' = ss /\ cm' = cm /\ (Heard \/ Begin \/ Gone)
  BY <1>1, StaysHeard DEF Heard
<1>3. Synced(ss) /\ Synced(cm) /\ Live(ss) = Cached(ss) /\ Live(cm) = Cached(cm)
  BY <1>1, <1>2, ViewParts DEF TypeOK, HeardSchedule, HeardOverride
<1>4. CASE Begin
  BY <1>4 DEF Begin
<1>5. CASE Gone
  BY <1>2, <1>3, <1>5 DEF Gone
<1>6. CASE Heard /\ ~Begin /\ ~Gone
  <2>1. ~Ensure
    <3>1. \A x : ~Synced(Commit(cm, x))
      BY <1>1, CommitIsNews DEF TypeOK, ThereIsAWatch
    <3> QED
      BY <1>2, <1>3, <3>1 DEF Ensure
  <2>2. ~Interrupt
    BY DEF Interrupt, HeardSchedule
  <2>3. CASE Background
    BY <1>1, <1>2, <1>6, <2>3 DEF Background, ConfigMapIsMade
  <2>4. CASE ProcessWake \/ Apply \/ Finish
    <3>1. pc # "ensure" /\ ~doomed
      BY <2>4 DEF ProcessWake, Apply, Finish, namespace
    <3> QED
      BY <1>1, <1>2, <1>6, <3>1 DEF ConfigMapIsMade
  <2> QED
    BY <1>1, <1>6, <2>1, <2>2, <2>3, <2>4, NextKinds
<1> QED
  BY <1>2, <1>4, <1>5, <1>6

\* A pass that finds nothing to write goes by the override in the ConfigMap.
LEMMA ReadsTheOverride ==
  ASSUME TypeOK, pc = "wake", Synced(cm), ~NeedsStamp
  PROVE  LiveUntil = IF Expiry > readAt THEN Expiry ELSE Zero
<1>1. /\ held.spec.def \in Int /\ held.spec.max \in Int
      /\ readAt \in Nat /\ readAt >= Second /\ Expiry \in Nat
      /\ Entry # Nil => /\ Entry = Cached(cm).wake
                        /\ Entry \in WakeEntries /\ Entry.form # "malformed"
  BY ExpiryTypes
<1>2. Live(cm) = Cached(cm)
  BY ViewParts DEF TypeOK
<1>3. CASE Entry = Nil
  <2>1. Expiry = Zero
    BY <1>3 DEF Expiry
  <2>2. LiveUntil = Zero
    BY <1>2, <1>3, LiveUntilTypes DEF Entry, ParseEntry
  <2> QED
    BY <1>1, <2>1, <2>2 DEF Zero
<1>4. CASE Entry # Nil
  <2>1. /\ Entry.n \in Nat /\ Live(cm).wake = Entry /\ Live(cm) # Nil
        /\ LiveUntil = IF Entry.form = "at" THEN Entry.n ELSE Zero
    <3>1. Cached(cm) # Nil
      BY <1>4 DEF Entry
    <3> QED
      BY <1>1, <1>2, <1>4, <3>1 DEF LiveUntil, WakeEntries
  <2>2. /\ (Entry.form = "at" /\ Expiry # Entry.n) =>
             held.spec.max > 0 /\ Expiry = readAt + held.spec.max /\ Expiry <= Entry.n
    BY <1>1, <1>4, ResolveBounds DEF Expiry
  <2>3. CASE Expiry = Zero
    BY <1>1, <2>1, <2>2, <2>3 DEF Zero
  <2>4. CASE Expiry # Zero
    <3>1. Cached(cm) = Stamped
      BY <2>4 DEF NeedsStamp
    <3>2. Expiry > readAt
      <4>1. CASE Expiry <= readAt
        BY <1>1, <1>4, <3>1, <4>1 DEF Stamped, NoOverride
      <4> QED
        BY <1>1, <4>1
    <3>3. CASE ~Changed
      BY <2>1, <3>2, <3>3 DEF Changed
    <3>4. CASE Changed
      <4>1. Stamped = [Cached(cm) EXCEPT !.wake = [form |-> "at", n |-> FormatExpiry(Expiry)]]
        BY <1>1, <3>2, <3>4 DEF Stamped
      <4>2. Cached(cm) \in ConfigMaps
        BY <1>4, ExpiryTypes
      <4>3. Entry = [form |-> "at", n |-> FormatExpiry(Expiry)]
        BY <1>1, <1>4, <3>1, <4>1, <4>2 DEF ConfigMaps
      <4>4. FormatExpiry(Expiry) <= Expiry /\ FormatExpiry(Expiry) \in Nat
        BY <1>1, <3>2, FormatBounds, ReconcilerAssumption
      <4>5. Entry.form = "at" /\ Entry.n <= Expiry /\ Expiry # Entry.n
        BY <3>4, <4>3, <4>4 DEF Changed
      <4> QED
        BY <1>1, <2>1, <2>2, <4>5
    <3> QED
      BY <3>3, <3>4
  <2> QED
    BY <2>3, <2>4
<1> QED
  BY <1>3, <1>4

\* What a pass read of the override stays within bounds, and so.
LEMMA NextOverrideIsRead ==
  ASSUME ThereIsAWatch, Inv, [Next]_vars
  PROVE  OverrideIsRead'
<1> SUFFICES ASSUME pc' \in {"apply", "status"}
             PROVE  /\ HeardOverride' => override' = LiveUntil'
                    /\ held'.spec.max > 0 => override' <= readAt' + held'.spec.max
  BY DEF OverrideIsRead
<1>1. TypeOK /\ OverrideIsRead
  BY DEF Inv, Knows
<1>2. ~Begin /\ pc # "idle" /\ held' = held /\ ~Ensure
  BY PassKeepsWhatItRead DEF Begin, Ensure
<1>3. HeardOverride' => cm' = cm /\ HeardOverride
  BY <1>1, <1>2, StaysHeard DEF Gone
<1>4. cm' = cm => LiveUntil' = LiveUntil
  BY DEF LiveUntil
<1>5. CASE ProcessWake
  <2>1. override' = (IF Expiry > readAt THEN Expiry ELSE Zero) /\ pc = "wake" /\ readAt' = readAt
    BY <1>5 DEF ProcessWake
  <2>2. HeardOverride' => override' = LiveUntil'
    <3> SUFFICES ASSUME HeardOverride'
                 PROVE  override' = LiveUntil'
      OBVIOUS
    <3>1. Synced(cm') /\ Synced(cm)
      BY <1>3 DEF HeardOverride
    <3>2. ~NeedsStamp
      <4>1. \A x : ~Synced(Commit(cm, x))
        BY <1>1, CommitIsNews DEF TypeOK, ThereIsAWatch
      <4> QED
        BY <1>5, <3>1, <4>1 DEF ProcessWake
    <3> QED
      BY <1>1, <1>3, <1>4, <2>1, <3>1, <3>2, ReadsTheOverride
  <2>3. held.spec.max > 0 => override' <= readAt + held.spec.max
    <3>1. /\ held.spec.def \in Int /\ held.spec.max \in Int /\ readAt \in Nat /\ Expiry \in Nat
          /\ Entry # Nil => Entry \in WakeEntries /\ Entry.form # "malformed"
      BY <1>1, <1>2, ExpiryTypes
    <3>2. (Entry # Nil /\ held.spec.max > 0) => Expiry <= readAt + held.spec.max
      BY <3>1, ResolveBounds DEF Expiry
    <3>3. Entry = Nil => Expiry = Zero
      BY DEF Expiry
    <3> QED
      BY <2>1, <3>1, <3>2, <3>3 DEF Zero
  <2> QED
    BY <1>2, <2>1, <2>2, <2>3
<1>6. CASE ~ProcessWake
  <2>1. pc \in {"apply", "status"}
    BY <1>2, <1>6, PassKeepsWhatItRead DEF Apply
  <2>2. readAt' = readAt /\ override' = override
    BY <1>2, <2>1, PassKeepsWhatItRead
  <2>3. /\ HeardOverride => override = LiveUntil
        /\ held.spec.max > 0 => override <= readAt + held.spec.max
    BY <1>1, <2>1 DEF OverrideIsRead
  <2>4. HeardOverride' => override' = LiveUntil'
    BY <1>3, <1>4, <2>2, <2>3
  <2> QED
    BY <1>2, <2>2, <2>3, <2>4
<1> QED
  BY <1>5, <1>6

\* Once past Apply and metrics.Set, a pass did what it decided.
LEMMA NextPassActed ==
  ASSUME ThereIsAWatch, Inv, [Next]_vars
  PROVE  PassActed'
<1> SUFFICES ASSUME pc' = "status"
             PROVE  /\ gauges' = GaugesSet'
                    /\ applied' = IF effectiveAsleep' THEN "asleep" ELSE "awake"
  BY DEF PassActed
<1>1. TypeOK /\ PassActed
  BY DEF Inv, Knows
<1>2. (held' = held /\ readAt' = readAt /\ override' = override) =>
        GaugesSet' = GaugesSet /\ effectiveAsleep' = effectiveAsleep
  BY DEF GaugesSet, effectiveAsleep, activeWakes, forcedAwake, awakeNow, res
<1>3. ~Begin /\ ~Gone /\ ~Ensure /\ ~ProcessWake /\ ~Finish
  BY DEF Begin, Gone, Ensure, ProcessWake, Finish, Return, pass
<1>4. CASE Apply
  BY <1>2, <1>4 DEF Apply
<1>5. CASE Interrupt \/ Background
  <2>1. UNCHANGED <<pc, held, readAt, override, gauges, applied>>
    BY <1>5 DEF Interrupt, Background
  <2> QED
    BY <1>1, <1>2, <2>1 DEF PassActed
<1> QED
  BY <1>1, <1>3, <1>4, <1>5, NextKinds

\* The gauges agree with the status that a pass leaves behind.
LEMMA FinishGauges ==
  ASSUME Inv, pc = "status", held = Live(ss), ~statusChanged, override = LiveUntil
  PROVE  GaugesOfStatus
<1>1. TypeOK /\ PassActed
  BY DEF Inv, Knows
<1>2. gauges = GaugesSet /\ Live(ss).status = newStatus
  BY <1>1 DEF PassActed, statusChanged
<1>3. GaugesSet \in Series /\ GaugesSet # Nil
  <2>1. override - readAt \in Int /\ (forcedAwake => override - readAt \in Nat)
    BY <1>1, ReconcilerAssumption DEF TypeOK, forcedAwake
  <2>2. effectiveAsleep \in BOOLEAN /\ activeWakes \in {0, 1}
    BY DEF effectiveAsleep, activeWakes
  <2>3. GaugesSet \in Series
    BY <2>1, <2>2 DEF GaugesSet, Series
  <2> QED
    BY <2>3, NilAssumption
<1>4. effectiveAsleep = (phase = "Asleep")
  BY DEF effectiveAsleep, phase, awakeNow, forcedAwake
<1>5. /\ gauges.asleep = effectiveAsleep /\ gauges.active = activeWakes
      /\ gauges.left = IF forcedAwake THEN override - readAt ELSE 0
      /\ Live(ss).status.phase = phase /\ Live(ss).status.active = activeWakes
  BY <1>2 DEF GaugesSet, newStatus
<1>6. /\ gauges.left > 0 <=> gauges.active > 0
      /\ LiveUntil > now => gauges.left > 0
      /\ gauges.left > 0 => \E r \in Start .. now : gauges.left = LiveUntil - r
  <2>1. /\ override = LiveUntil /\ override \in Nat /\ readAt \in Start .. now
        /\ now \in Nat /\ readAt \in Nat
    BY <1>1, ReconcilerAssumption DEF TypeOK
  <2>2. override # Zero => override > readAt
    BY <1>1 DEF TypeOK
  <2> QED
    BY <1>5, <2>1, <2>2 DEF forcedAwake, activeWakes, Zero
<1> QED
  BY <1>2, <1>3, <1>4, <1>5, <1>6 DEF GaugesOfStatus

\* A pass that ends with nothing on its way ends without a write.
LEMMA QuietFinish ==
  ASSUME ThereIsAWatch, Inv, Finish, HeardSchedule', HeardOverride'
  PROVE  /\ ss' = ss /\ cm' = cm /\ Heard
         /\ pc = "status" /\ held = Live(ss) /\ ~statusChanged /\ override = LiveUntil
<1>1. TypeOK /\ HoldsLatest /\ OverrideIsRead /\ pc = "status"
  BY DEF Inv, Knows, Finish
<1>2. [Next]_vars /\ ~Begin /\ ~Gone
  BY <1>1 DEF Next, Pass, Begin, Gone
<1>3. ss' = ss /\ cm' = cm /\ HeardSchedule /\ HeardOverride
  BY <1>1, <1>2, StaysHeard
<1>4. ~statusChanged
  <2>1. \A x : ~Synced(Commit(ss, x))
    BY <1>1, CommitIsNews DEF TypeOK, ThereIsAWatch
  <2> QED
    BY <1>3, <2>1 DEF Finish, HeardSchedule
<1> QED
  BY <1>1, <1>3, <1>4 DEF HoldsLatest, OverrideIsRead, Heard

\* At rest the gauges stay as the status has them.
LEMMA NextGaugesStay ==
  ASSUME ThereIsAWatch, Inv, TypeOK', [Next]_vars
  PROVE  GaugesStay'
<1> SUFFICES ASSUME pc' = "idle", HeardSchedule', HeardOverride', Live(ss') # Nil
             PROVE  GaugesOfStatus'
  BY DEF GaugesStay, Heard
<1>1. TypeOK /\ GaugesStay
  BY DEF Inv, Knows
<1>2. ss' = ss /\ cm' = cm /\ (Heard \/ Begin \/ Gone)
  BY <1>1, StaysHeard DEF Heard
<1>3. ASSUME GaugesOfStatus, gauges' = gauges, now' = now \/ now' = now + 1
      PROVE  GaugesOfStatus'
  <2>1. PICK u, g, s : u = LiveUntil /\ g = gauges /\ s = Live(ss).status
    OBVIOUS
  <2>2. LiveUntil' = u /\ gauges' = g /\ Live(ss)'.status = s
    BY <1>2, <1>3, <2>1 DEF LiveUntil
  <2>3. u \in Nat /\ now \in Nat /\ g # Nil /\ g.left \in Nat
    <3>1. g # Nil /\ g \in {Nil} \cup Series
      BY <1>1, <1>3, <2>1 DEF GaugesOfStatus, TypeOK
    <3> QED
      BY <1>1, <2>1, <3>1, LiveUntilTypes, ReconcilerAssumption DEF TypeOK, Series
  <2>4. /\ g.asleep = (s.phase = "Asleep") /\ g.active = s.active
        /\ (g.left > 0 <=> g.active > 0) /\ (u > now => g.left > 0)
        /\ (g.left > 0 => \E r \in Start .. now : g.left = u - r)
    BY <1>3, <2>1 DEF GaugesOfStatus
  <2>5. /\ u > now' => g.left > 0
        /\ g.left > 0 => \E r \in Start .. now' : g.left = u - r
    <3>1. Start .. now \subseteq Start .. now' /\ (u > now' => u > now)
      BY <1>3, <2>3, ReconcilerAssumption
    <3> QED
      BY <2>4, <3>1
  <2> QED
    BY <2>2, <2>3, <2>4, <2>5 DEF GaugesOfStatus
<1>4. ~Begin /\ ~Ensure /\ ~ProcessWake /\ ~Apply /\ ~Interrupt
  BY DEF Begin, Ensure, ProcessWake, Apply, Interrupt, HeardSchedule
<1>5. CASE Gone
  BY <1>1, <1>2, <1>5, ViewParts DEF Gone, HeardSchedule, TypeOK
<1>6. CASE Finish
  <2>1. gauges' = gauges /\ now' = now
    BY <1>6 DEF Finish
  <2> QED
    BY <1>3, <1>6, <2>1, QuietFinish, FinishGauges
<1>7. CASE Background /\ ~Gone
  <2>1. GaugesOfStatus
    BY <1>1, <1>2, <1>4, <1>7 DEF GaugesStay, Background
  <2> QED
    BY <1>3, <1>7, <2>1 DEF Background, Tick
<1> QED
  BY <1>1, <1>4, <1>5, <1>6, <1>7, NextKinds

\* Inv holds at the start.
LEMMA InitInv == Init => Inv
<1> SUFFICES ASSUME Init PROVE Inv
  OBVIOUS
<1>1. TypeOK
  BY InitTypeOK
<1>2. Live(cm) = Nil
  BY ViewOfOne DEF Init
<1>3. UsersHaveLastWord
  BY <1>2 DEF UsersHaveLastWord
<1>4. Knows
  BY DEF Init, Knows, HoldsLatest, GoneIsNoticed, ConfigMapIsMade, OverrideIsRead, PassActed,
     GaugesStay, Heard, HeardSchedule, HeardOverride
<1> QED
  BY <1>1, <1>3, <1>4 DEF Inv

\* Inv is inductive, at any pace.
LEMMA NextInv ==
  ASSUME ThereIsAWatch, Inv, [Next]_vars
  PROVE  Inv'
<1>1. TypeOK'
  <2>1. TypeOK
    BY DEF Inv
  <2>2. UNCHANGED vars => TypeOK'
    BY <2>1 DEF TypeOK, vars, namespace, pass
  <2> QED
    BY <2>1, <2>2, PassTypeOK, OthersTypeOK DEF Next
<1>2. UsersHaveLastWord'
  BY <1>1, NextLastWord DEF Inv
<1> QED
  BY <1>1, <1>2, NextHoldsLatest, NextGoneIsNoticed, NextConfigMapIsMade, NextOverrideIsRead,
     NextPassActed, NextGaugesStay DEF Inv, Knows

\* At any pace, and whatever users, failures, crashes and the watch do: Inv.
THEOREM OperatorKnows ==
  ASSUME ThereIsAWatch
  PROVE  Spec => []Inv
  BY InitInv, NextInv, PTL DEF Spec

\* An operator at rest, at any pace, exports the series of the schedule there
\* is, and they agree with its status.
THEOREM GaugesTellTheTruth ==
  ASSUME ThereIsAWatch
  PROVE  Spec => []GaugesAreTrue
<1>1. Inv => GaugesAreTrue
  <2> SUFFICES ASSUME Inv, AtRest
               PROVE  IF Live(ss) = Nil THEN gauges = Nil ELSE GaugesOfStatus
    BY DEF GaugesAreTrue, GaugesOfStatus
  <2>1. pc = "idle" /\ HeardSchedule /\ HeardOverride
    BY DEF AtRest, HeardSchedule, HeardOverride
  <2> QED
    BY <2>1 DEF Inv, Knows, GoneIsNoticed, GaugesStay, Heard
<1> QED
  BY <1>1, OperatorKnows, PTL

\* An operator at rest, at any pace, has made the Wake ConfigMap of a schedule,
\* and the schedule owns it.
THEOREM WakeConfigMapIsThere ==
  ASSUME ThereIsAWatch
  PROVE  Spec => []HasWakeConfigMap
<1>1. Inv => HasWakeConfigMap
  <2> SUFFICES ASSUME Inv, AtRest, Live(ss) # Nil
               PROVE  Live(cm) # Nil /\ Live(cm).owner = Live(ss).uid
    BY DEF HasWakeConfigMap
  <2>1. pc = "idle" /\ Heard /\ ~doomed /\ ~Orphaned
    BY DEF AtRest, Heard, HeardSchedule, HeardOverride
  <2>2. Live(cm) # Nil
    BY <2>1 DEF Inv, Knows, ConfigMapIsMade
  <2> QED
    BY <2>1, <2>2 DEF Orphaned
<1> QED
  BY <1>1, OperatorKnows, PTL

-----------------------------------------------------------------------------
(* PromptInv is inductive when the operator is prompt.                     *)

\* The clock and the timer.
LEMMA NextInTime ==
  ASSUME TypeOK, InTime, [PromptNext]_vars
  PROVE  InTime'
<1>1. now \in Nat /\ due \in Nat
  BY ReconcilerAssumption DEF TypeOK
<1>2. CASE Ensure
  BY <1>2 DEF Ensure, InTime
<1>3. CASE Finish
  <2>1. res.next \in Nat /\ readAt \in Nat /\ override \in Nat
    BY <1>3, StatusTypes, ReconcilerAssumption DEF Finish, TypeOK
  <2>2. PICK d \in Nat : /\ d = requeueDelay(readAt, res.next, override)
                         /\ d # 0 => d >= Second
    BY <2>1, DelayBounds
  <2>3. due' = due \/ (d # 0 /\ due' = now + d)
    BY <1>1, <1>3, <2>2, AddAfterBounds DEF Finish
  <2>4. now' = now /\ pc' = "idle"
    BY <1>3 DEF Finish, Return
  <2> QED
    BY <1>1, <2>2, <2>3, <2>4, ReconcilerAssumption DEF InTime
<1>4. CASE AtRest /\ Tick
  <2>1. pc = "idle" /\ pc' = pc
    BY <1>4 DEF AtRest, Tick, pass
  <2>2. due' = Zero \/ (due' = due /\ ~(due # Zero /\ due <= now'))
    BY <1>4, Zenon DEF Tick
  <2>3. now' \in Nat
    BY <1>1, <1>4 DEF Tick
  <2> QED
    BY <1>1, <2>1, <2>2, <2>3 DEF InTime
<1>5. CASE ~Ensure /\ ~Finish /\ ~(AtRest /\ Tick)
  <2>1. /\ now' = now /\ (due' = due \/ due' = Zero)
        /\ \/ pc' = "idle" \/ pc' = "ensure"
           \/ (pc = "wake" \/ pc = "apply" \/ pc' = pc) /\ readAt' = readAt
    BY <1>5, Zenon DEF PromptNext, Pass, Others, Users, vars, pass, Begin, Gone, ProcessWake, Apply,
       Conflict, Again, Return, DeliverSchedule, DeliverConfigMap, Enqueued, Collect,
       WriteWake, DeleteConfigMap, EditSpec, CreateSchedule, WriteSchedule, DeleteSchedule,
       DeleteNamespace, Fail, Crash
  <2> QED
    BY <2>1 DEF InTime
<1> QED
  BY <1>2, <1>3, <1>4, <1>5

\* The verdict that a pass leaves behind.
LEMMA FinishVerdict ==
  ASSUME Inv, InTime, Finish, ss' = ss, cm' = cm,
         held = Live(ss), ~statusChanged, override = LiveUntil
  PROVE  \E r \in Start .. now : Verdict(r)'
<1>1. TypeOK /\ PassActed /\ OverrideIsRead /\ pc = "status" /\ readAt = now
  BY DEF Inv, Knows, Finish, InTime
<1>2. PICK r, u, e, sp, st : /\ r = readAt /\ u = LiveUntil /\ e = res
                             /\ sp = held.spec /\ st = newStatus
  OBVIOUS
<1>3. /\ r \in Nat /\ u \in Nat /\ e.next \in Nat /\ sp \in Specs /\ sp.max \in Int
      /\ u # Zero => u > r
  BY <1>1, <1>2, ExpiryTypes, StatusTypes, LiveUntilTypes DEF TypeOK
<1>4. forcedAwake <=> u > r
  BY <1>2, <1>3 DEF forcedAwake, Zero
<1>5. e = Evaluate[sp][r]
  BY <1>2 DEF res
<1>6. /\ Live(ss)'.spec = sp /\ Live(ss)'.status = st /\ LiveUntil' = u
  BY <1>2 DEF statusChanged, LiveUntil
<1>7. applied' = IF e.awake \/ u > r THEN "awake" ELSE "asleep"
  BY <1>1, <1>2, <1>4 DEF PassActed, effectiveAsleep, awakeNow, Finish
<1>8. st = [phase  |-> IF e.awake THEN "Awake"
                       ELSE IF u > r THEN "WokenByOverride" ELSE "Asleep",
            next   |-> e.next,
            active |-> IF u > r THEN 1 ELSE 0]
  BY <1>2, <1>4 DEF newStatus, phase, activeWakes, awakeNow
<1>9. sp.max > 0 => u <= r + sp.max
  BY <1>1, <1>2 DEF OverrideIsRead
<1>10. \A x \in {e.next, u} \ {Zero} : due' # Zero /\ (due' <= x \/ due' <= r + Second)
  <2>1. PICK d \in Nat : /\ d = requeueDelay(r, e.next, u)
                         /\ \A x \in {e.next, u} \ {Zero} : d # 0 /\ (d <= x - r \/ d <= Second)
    BY <1>3, DelayBounds
  <2>2. due' = AddAfter(d)
    BY <1>2, <2>1 DEF Finish
  <2>3. d # 0 => due' \in Nat /\ due' # Zero /\ due' <= r + d
    BY <1>1, <1>2, <1>3, <2>2, AddAfterBounds DEF TypeOK
  <2>4. PICK n \in Nat, w \in {due'} : n = e.next
    BY <1>3
  <2>5. SUFFICES ASSUME NEW x \in Nat, x \in {n, u} \ {Zero}
                 PROVE  w # Zero /\ (w <= x \/ w <= r + Second)
    BY <1>3, <2>4
  <2>6. d # 0 /\ (d <= x - r \/ d <= Second)
    BY <2>1, <2>4, <2>5
  <2>7. w \in Nat /\ w # Zero /\ w <= r + d
    BY <2>3, <2>4, <2>6
  <2> QED
    BY <1>3, <2>1, <2>6, <2>7, ReconcilerAssumption
<1>11. Verdict(r)'
  BY <1>3, <1>5, <1>6, <1>7, <1>8, <1>9, <1>10 DEF Verdict
<1> QED
  BY <1>1, <1>2, <1>11 DEF TypeOK

\* A verdict stands until something changes, which brings on a pass.
LEMMA NextVerdictStands ==
  ASSUME ThereIsAWatch, PromptInv, TypeOK', [Next]_vars
  PROVE  VerdictStands'
<1> SUFFICES ASSUME pc' = "idle", HeardSchedule', HeardOverride', Live(ss') # Nil
             PROVE  \E r \in Start .. now' : Verdict(r)'
  BY DEF VerdictStands, Heard
<1>1. TypeOK /\ Inv /\ InTime /\ VerdictStands
  BY DEF PromptInv, Inv
<1>2. ss' = ss /\ cm' = cm /\ (Heard \/ Begin \/ Gone)
  BY <1>1, StaysHeard DEF Heard
<1>3. ~Begin /\ ~Ensure /\ ~ProcessWake /\ ~Apply /\ ~Interrupt
  BY DEF Begin, Ensure, ProcessWake, Apply, Interrupt, HeardSchedule
<1>4. CASE Gone
  BY <1>1, <1>2, <1>4, ViewParts DEF Gone, HeardSchedule, TypeOK
<1>5. CASE Finish
  <2>1. now' = now
    BY <1>5 DEF Finish
  <2> QED
    BY <1>1, <1>2, <1>5, <2>1, QuietFinish, FinishVerdict
<1>6. CASE Background /\ ~Gone
  <2>1. pc = "idle" /\ Heard /\ Live(ss) # Nil
    BY <1>2, <1>3, <1>6 DEF Background
  <2>2. PICK r \in Start .. now : Verdict(r)
    BY <1>1, <2>1 DEF VerdictStands
  <2>3. UNCHANGED <<applied, due>> /\ LiveUntil' = LiveUntil /\ Live(ss)' = Live(ss)
    BY <1>2, <1>6 DEF Background, LiveUntil
  <2>4. Verdict(r)'
    BY <2>2, <2>3 DEF Verdict
  <2>5. now' = now \/ now' = now + 1
    BY <1>6 DEF Background, Tick
  <2>6. r \in Start .. now'
    BY <1>1, <2>5, ReconcilerAssumption DEF TypeOK
  <2> QED
    BY <2>4, <2>6
<1> QED
  BY <1>1, <1>3, <1>4, <1>5, <1>6, NextKinds

\* With a prompt operator: PromptInv.
THEOREM PromptOperatorKnows ==
  ASSUME ThereIsAWatch
  PROVE  PromptSpec => []PromptInv
<1>1. Init => PromptInv
  <2> SUFFICES ASSUME Init PROVE PromptInv
    OBVIOUS
  <2>1. InTime /\ VerdictStands
    BY DEF Init, InTime, VerdictStands, Heard, HeardSchedule
  <2> QED
    BY <2>1, InitInv DEF PromptInv
<1>2. PromptInv /\ [PromptNext]_vars => PromptInv'
  <2> SUFFICES ASSUME PromptInv, [PromptNext]_vars
               PROVE  PromptInv'
    OBVIOUS
  <2>1. [Next]_vars
    BY DEF PromptNext, Next
  <2>2. Inv' /\ TypeOK'
    BY <2>1, NextInv DEF PromptInv, Inv
  <2>3. InTime'
    BY NextInTime DEF PromptInv, Inv
  <2>4. VerdictStands'
    BY <2>1, <2>2, NextVerdictStands
  <2> QED
    BY <2>2, <2>3, <2>4 DEF PromptInv
<1> QED
  BY <1>1, <1>2, PTL DEF PromptSpec

\* The timer fires before the verdict is out of date: it is right for this
\* instant, or it was reached less than a second ago.
LEMMA VerdictIsRight ==
  ASSUME EvaluatorIsRight, PromptInv, AtRest, Live(ss) # Nil
  PROVE  \E t \in JustNow :
           /\ applied = IF LiveAwake(t) \/ LiveUntil > t THEN "awake" ELSE "asleep"
           /\ Live(ss).status =
                [phase  |-> IF LiveAwake(t) THEN "Awake"
                            ELSE IF LiveUntil > t THEN "WokenByOverride" ELSE "Asleep",
                 next   |-> Flips[Live(ss).spec][t],
                 active |-> IF LiveUntil > t THEN 1 ELSE 0]
           /\ LiveUntil # Zero => LiveUntil > t
           /\ Live(ss).spec.max > 0 => LiveUntil <= now + Live(ss).spec.max
<1>1. TypeOK /\ InTime /\ VerdictStands
  BY DEF PromptInv, Inv
<1>2. PICK r \in Start .. now : Verdict(r)
  BY <1>1 DEF AtRest, VerdictStands, Heard, HeardSchedule, HeardOverride
<1>3. PICK spec, e : spec = Live(ss).spec /\ e = Evaluate[spec][r]
  OBVIOUS
<1>4. spec \in Specs /\ spec.max \in Int
  BY <1>1, <1>3, ViewParts, ReconcilerAssumption DEF TypeOK, Versions
<1>5. /\ now \in Start .. End /\ now \in Nat /\ r \in Start .. End /\ r \in Nat /\ r <= now
      /\ due \in Nat /\ LiveUntil \in Nat
  BY <1>1, LiveUntilTypes, ReconcilerAssumption DEF TypeOK
<1>6. e.next \in Nat
  BY <1>3, <1>4, <1>5, EvaluateTypes
<1>7. /\ applied = IF e.awake \/ LiveUntil > r THEN "awake" ELSE "asleep"
      /\ Live(ss).status =
           [phase  |-> IF e.awake THEN "Awake"
                       ELSE IF LiveUntil > r THEN "WokenByOverride" ELSE "Asleep",
            next   |-> e.next,
            active |-> IF LiveUntil > r THEN 1 ELSE 0]
      /\ LiveUntil # Zero => LiveUntil > r
      /\ spec.max > 0 => LiveUntil <= r + spec.max
      /\ \A x \in {e.next, LiveUntil} \ {Zero} : due # Zero /\ (due <= x \/ due <= r + Second)
  BY <1>2, <1>3 DEF Verdict
<1>8. spec.max > 0 => LiveUntil <= now + spec.max
  BY <1>4, <1>5, <1>7
<1>9. \A t \in Start .. End : LiveAwake(t) = Evaluate[spec][t].awake
  BY <1>3, <1>4 DEF LiveAwake, Evaluate
<1>10. \A t \in Start .. End : Flips[spec][t] = Evaluate[spec][t].next
  BY <1>4 DEF EvaluatorIsRight
<1>11. CASE now < r + Second
  <2>1. r \in JustNow
    BY <1>5, <1>11, ReconcilerAssumption DEF JustNow
  <2>2. LiveAwake(r) = e.awake /\ Flips[spec][r] = e.next
    BY <1>3, <1>5, <1>9, <1>10
  <2> QED
    BY <1>3, <1>7, <1>8, <2>1, <2>2
<1>12. CASE ~(now < r + Second)
  <2>1. now \in JustNow
    BY <1>5, ReconcilerAssumption DEF JustNow
  <2>2. \A x \in {e.next, LiveUntil} \ {Zero} : now < x
    BY <1>1, <1>5, <1>6, <1>7, <1>12, ReconcilerAssumption DEF InTime
  <2>3. Evaluate[spec][now] = e
    <3>1. e.next = Zero \/ now < e.next
      BY <2>2
    <3>2. now \in r .. End
      BY <1>5, ReconcilerAssumption
    <3> QED
      BY <1>3, <1>4, <1>5, <3>1, <3>2 DEF EvaluatorIsRight
  <2>4. LiveAwake(now) = e.awake /\ Flips[spec][now] = e.next
    BY <1>5, <1>9, <1>10, <2>3
  <2>5. (LiveUntil > now <=> LiveUntil > r) /\ (LiveUntil # Zero => LiveUntil > now)
    BY <1>5, <2>2 DEF Zero
  <2> QED
    BY <1>3, <1>7, <1>8, <2>1, <2>4, <2>5
<1> QED
  BY <1>11, <1>12

\* A prompt operator at rest has applied what the schedule and the override ask
\* for, whatever edits, failures and restarts came before.
THEOREM OperatorActsOnTime ==
  ASSUME EvaluatorIsRight, ThereIsAWatch
  PROVE  PromptSpec => []ActsOnTime
<1>1. PromptInv => ActsOnTime
  BY VerdictIsRight DEF ActsOnTime
<1> QED
  BY <1>1, PromptOperatorKnows, PTL

\* And its status names the phase, the next flip and the override there are.
THEOREM StatusTellsTheTruth ==
  ASSUME EvaluatorIsRight, ThereIsAWatch
  PROVE  PromptSpec => []StatusIsTrue
<1>1. PromptInv => StatusIsTrue
  BY VerdictIsRight DEF StatusIsTrue
<1> QED
  BY <1>1, PromptOperatorKnows, PTL

\* And no override that has expired, or lies beyond maxDuration, is left.
THEOREM OverrideCleansUp ==
  ASSUME EvaluatorIsRight, ThereIsAWatch
  PROVE  PromptSpec => []OverrideIsBounded
<1>1. PromptInv => OverrideIsBounded
  <2> SUFFICES ASSUME PromptInv, AtRest, LiveUntil # Zero
               PROVE  /\ \E t \in JustNow : LiveUntil > t
                      /\ Live(ss).spec.max > 0 => LiveUntil <= now + Live(ss).spec.max
    BY DEF OverrideIsBounded
  <2>1. Live(ss) # Nil
    BY LiveUntilTypes DEF PromptInv, Inv, AtRest, Orphaned
  <2> QED
    BY <2>1, VerdictIsRight
<1> QED
  BY <1>1, PromptOperatorKnows, PTL

-----------------------------------------------------------------------------
(* The evaluator is right in a zone with a fixed offset.                   *)

\* In a zone with a fixed offset the evaluator is right.
LEMMA FixedZoneIsRight == Fixed(Zone) => EvaluatorIsRight
<1> SUFFICES ASSUME Fixed(Zone), NEW s \in Specs, NEW t \in Start .. End
             PROVE  /\ Evaluate[s][t].next = Flips[s][t]
                    /\ \A u \in t .. End :
                         (Evaluate[s][t].next = Zero \/ u < Evaluate[s][t].next) =>
                           Evaluate[s][u] = Evaluate[s][t]
  BY DEF EvaluatorIsRight
<1>1. \A u \in Start .. End :
        /\ u \in Nat
        /\ Flips[s][u] = FirstFlip(s.awake, Zone, u)
        /\ NextTransition(s.awake, Zone, u) = FirstFlip(s.awake, Zone, u)
  BY ReconcilerAssumption, NextTransitionIsFirstFlip DEF Flips
<1>2. \A u \in Start .. End :
        Evaluate[s][u] = [awake |-> isAwakeAt(s.awake, Zone, u),
                          next  |-> FirstFlip(s.awake, Zone, u)]
  BY <1>1 DEF Evaluate
<1>3. ASSUME NEW u \in t .. End,
             FirstFlip(s.awake, Zone, t) = Zero \/ u < FirstFlip(s.awake, Zone, t)
      PROVE  Evaluate[s][u] = Evaluate[s][t]
  <2>1. u \in Start .. End /\ t <= u
    BY ReconcilerAssumption
  <2>2. /\ isAwakeAt(s.awake, Zone, u) = isAwakeAt(s.awake, Zone, t)
        /\ FirstFlip(s.awake, Zone, u) = FirstFlip(s.awake, Zone, t)
    BY <1>1, <1>3, <2>1, VerdictHolds
  <2> QED
    BY <1>2, <2>1, <2>2
<1>4. Evaluate[s][t].next = FirstFlip(s.awake, Zone, t)
  <2>1. PICK f, a : f = FirstFlip(s.awake, Zone, t) /\ a = isAwakeAt(s.awake, Zone, t)
    OBVIOUS
  <2>2. Evaluate[s][t] = [awake |-> a, next |-> f]
    BY <1>2, <2>1
  <2> QED
    BY <2>1, <2>2
<1>5. Flips[s][t] = FirstFlip(s.awake, Zone, t)
  BY DEF Flips
<1> QED
  BY <1>3, <1>4, <1>5

\* In a zone with a fixed offset nothing is left to assume of the evaluator:
\* a prompt operator at rest has done what was asked for, says so, and has
\* cleaned up.
THEOREM RightInAFixedZone ==
  ASSUME Fixed(Zone), ThereIsAWatch
  PROVE  PromptSpec => [](ActsOnTime /\ StatusIsTrue /\ OverrideIsBounded)
<1>1. EvaluatorIsRight
  BY FixedZoneIsRight
<1> QED
  BY <1>1, OperatorActsOnTime, StatusTellsTheTruth, OverrideCleansUp, PTL
=============================================================================
