----------------------------- MODULE Reconciler -----------------------------
(***************************************************************************)
(* Reconcile seen from the clock and from the Wake ConfigMap: when it runs,*)
(* what it decides, what it writes to the ConfigMap, to the status and to  *)
(* the gauges, and when it asks to be run again.  Users write overrides,   *)
(* edit, delete and recreate the schedule while it runs; its reads come    *)
(* from the informer cache.  What Apply does to the workloads is module    *)
(* Sleeper: here it is the direction applied.                              *)
(***************************************************************************)
EXTENDS ScheduleEvaluator, Informer

CONSTANTS Specs,             \* specs: [awake : windows, def, max : durations]
          Zone,              \* spec.timezone
          WakeValues,        \* what users put under the wake key
          Second,            \* instants in a second
          Start, End,        \* bound: the range of the clock
          MaxDisturbances,   \* bound: edits, failed calls and crashes
          Nil

\* The clock has the zero time well behind it.
ASSUME ReconcilerAssumption == /\ Start \in Nat /\ End \in Nat /\ Start <= End
                               /\ Second \in Nat \ {0} /\ Minute % Second = 0
                               /\ Start >= Second
                               /\ \A s \in Specs : s.def \in Int /\ s.max \in Int
                               /\ Zone.before \in Int /\ Zone.after \in Int
                               /\ MaxDisturbances \in Nat

VARIABLES
  now,        \* the clock
  ss,         \* view of the SleepSchedule: uid, spec, status; Nil for none
  cm,         \* view of the Wake ConfigMap: owner's uid, value; Nil for none
  doomed,     \* the schedule's namespace is being deleted
  queued,     \* the schedule is in the workqueue
  due,        \* instant at which RequeueAfter puts it there, or Zero
  applied,    \* direction Apply was last called with
  gauges,     \* the schedule's series, Nil when there are none
  pc,         \* where the pass is
  held,       \* the SleepSchedule as the pass read it
  fresh,      \* held still has the latest resourceVersion
  readAt,     \* the instant the pass took for now
  override,   \* wakeState.Earliest: expiry of the active override, or Zero
  asked,      \* history: what users last asked for
  budget      \* disturbances left

pass == <<pc, held, fresh, readAt, override>>
namespace == <<ss, cm, doomed>>
vars == <<now, namespace, queued, due, applied, gauges, pass, asked, budget>>

NoStatus == [phase |-> "none", next |-> Zero, active |-> 0]
NewSchedule(uid, s) == [uid |-> uid, spec |-> s, status |-> NoStatus]

\* The ConfigMap without an override, owned by the schedule with this uid.
NoOverride(uid) == [owner |-> uid, wake |-> Nil]

Init ==
  /\ now = Start
  /\ \E s \in Specs : ss = <<NewSchedule(MaxDisturbances, s)>>
  /\ cm = <<Nil>>
  /\ doomed = FALSE
  /\ queued = TRUE
  /\ due = Zero
  /\ applied = "awake"
  /\ gauges = Nil
  /\ pc = "idle"
  /\ held = Nil
  /\ fresh = FALSE
  /\ readAt = Start
  /\ override = Zero
  /\ asked = Nil
  /\ budget = MaxDisturbances

-----------------------------------------------------------------------------
(* The pass.                                                               *)

\* A value is "at" an instant, "for" a duration, "default" (empty), or
\* anything else; ParseEntry refuses the latter and durations below 1.
ParseEntry(value) ==
  IF value.form = "malformed" \/ (value.form = "for" /\ value.n <= 0) THEN Nil ELSE value

\* Mutant: the expiry is not clamped.
ResolveUnclamped(entry, t, def, max) ==
  CASE entry.form = "for" -> t + entry.n
    [] entry.form = "at" -> entry.n
    [] OTHER -> IF def <= 0 THEN Zero ELSE t + def

\* Resolve: the absolute expiry, clamped to t + max; Zero when there is none.
Resolve(entry, t, def, max) ==
  LET expiry == CASE entry.form = "for" -> t + entry.n
                  [] entry.form = "at" -> entry.n
                  [] OTHER -> IF def <= 0 THEN Zero ELSE t + def
  IN  IF max > 0 /\ expiry > t + max THEN t + max ELSE expiry

\* Reconcile takes the schedule off the workqueue and reads it.
Begin ==
  /\ pc = "idle" /\ queued
  /\ Cached(ss) # Nil
  /\ queued' = FALSE
  /\ pc' = "ensure"
  /\ held' = Cached(ss)
  /\ fresh' = Synced(ss)
  /\ UNCHANGED <<now, namespace, due, applied, gauges, readAt, override, asked, budget>>

\* Mutant: the series of a deleted schedule stay.
GoneUnnoticed ==
  /\ pc = "idle" /\ queued
  /\ Cached(ss) = Nil
  /\ queued' = FALSE
  /\ UNCHANGED <<now, namespace, due, applied, gauges, pass, asked, budget>>

\* The schedule is not there any more: its series are dropped, and that is all.
Gone ==
  /\ pc = "idle" /\ queued
  /\ Cached(ss) = Nil
  /\ queued' = FALSE
  /\ gauges' = Nil
  /\ UNCHANGED <<now, namespace, due, applied, pass, asked, budget>>

\* ensureWakeConfigMap creates the ConfigMap when the cache has none (in a
\* terminating namespace the create is refused, and the pass goes on) and
\* leaves any other alone; then the pass takes the time.
Ensure ==
  /\ pc = "ensure"
  /\ \/ Cached(cm) # Nil /\ UNCHANGED cm
     \/ Cached(cm) = Nil /\ doomed /\ UNCHANGED cm
     \/ /\ Cached(cm) = Nil /\ ~doomed /\ Live(cm) = Nil
        /\ cm' = Commit(cm, NoOverride(held.uid))
  /\ pc' = "wake"
  /\ readAt' = now
  /\ UNCHANGED <<now, ss, doomed, queued, due, applied, gauges, held, fresh, override,
                 asked, budget>>

\* The entry the pass finds in the ConfigMap, Nil for none or a bad one.
Entry == IF Cached(cm) = Nil THEN Nil
         ELSE IF Cached(cm).wake = Nil THEN Nil
         ELSE ParseEntry(Cached(cm).wake)

Expiry == IF Entry = Nil THEN Zero
          ELSE Resolve(Entry, readAt, held.spec.def, held.spec.max)

\* RFC 3339 has whole seconds: the fraction is cut off.
FormatExpiry(t) == t - (t % Second)

\* Resolve's Changed: relative, by default, or clamped.
Changed == Entry.form # "at" \/ Expiry # Entry.n

\* What the pass wants the ConfigMap to hold: nothing once the override has
\* expired, else the absolute expiry.
Stamped == IF Expiry <= readAt THEN NoOverride(Cached(cm).owner)
           ELSE IF ~Changed THEN Cached(cm)
           ELSE [Cached(cm) EXCEPT !.wake = [form |-> "at", n |-> FormatExpiry(Expiry)]]

\* The value in the ConfigMap is not the one wanted.
NeedsStamp == Expiry # Zero /\ Cached(cm) # Stamped

\* Mutant: an override that has just expired still counts.
ProcessWakeExpired ==
  /\ pc = "wake"
  /\ NeedsStamp => Synced(cm)
  /\ cm' = IF NeedsStamp THEN Commit(cm, Stamped) ELSE cm
  /\ override' = Expiry
  /\ pc' = "apply"
  /\ UNCHANGED <<now, ss, doomed, queued, due, applied, gauges, held, fresh, readAt,
                 asked, budget>>

\* Mutant: the write back does not fail on a stale read.
ProcessWakeBlindly ==
  /\ pc = "wake"
  /\ cm' = IF Expiry = Zero THEN cm ELSE CommitChange(cm, Stamped)
  /\ override' = IF Expiry > readAt THEN Expiry ELSE Zero
  /\ pc' = "apply"
  /\ UNCHANGED <<now, ss, doomed, queued, due, applied, gauges, held, fresh, readAt,
                 asked, budget>>

\* processWakeEntries: a value that cannot be parsed or resolved is ignored,
\* any other is brought to its absolute form, or removed once it has expired.
ProcessWake ==
  /\ pc = "wake"
  /\ \/ ~NeedsStamp /\ UNCHANGED cm
     \/ NeedsStamp /\ Synced(cm) /\ cm' = Commit(cm, Stamped)
  /\ override' = IF Expiry > readAt THEN Expiry ELSE Zero
  /\ pc' = "apply"
  /\ UNCHANGED <<now, ss, doomed, queued, due, applied, gauges, held, fresh, readAt,
                 asked, budget>>

\* schedule.Evaluate at every instant of the model.
Evaluate ==
  [s \in Specs |->
     [t \in Start .. End |-> [awake |-> isAwakeAt(s.awake, Zone, t),
                             next  |-> NextTransition(s.awake, Zone, t)]]]

res == Evaluate[held.spec][readAt]
awakeNow == res.awake
forcedAwake == override # Zero
effectiveAsleep == ~awakeNow /\ ~forcedAwake
phase == IF awakeNow THEN "Awake" ELSE IF forcedAwake THEN "WokenByOverride" ELSE "Asleep"

\* ws.ActiveCount
activeWakes == IF forcedAwake THEN 1 ELSE 0

\* metrics.Set; how many targets there are is module Targeting.
GaugesSet == [asleep |-> effectiveAsleep,
              active |-> activeWakes,
              left   |-> IF forcedAwake THEN override - readAt ELSE 0]

\* Evaluate, Resolve and Apply; then the gauges are set.
Apply ==
  /\ pc = "apply"
  /\ applied' = IF effectiveAsleep THEN "asleep" ELSE "awake"
  /\ gauges' = GaugesSet
  /\ pc' = "status"
  /\ UNCHANGED <<now, namespace, queued, due, held, fresh, readAt, override, asked, budget>>

newStatus == [phase  |-> phase,
              next   |-> res.next,
              active |-> activeWakes]

\* Mutant: the number of active wakes is not compared.
ChangedButForWakes == [held.status EXCEPT !.active = 0] # [newStatus EXCEPT !.active = 0]

statusChanged == held.status # newStatus

\* Mutant: only the next transition counts.
RequeueAtTransition(t, next, earliest) ==
  IF next = Zero THEN 0 ELSE Max({next - t, Second})

\* The time until the sooner of the two, at least a second; 0 when there is
\* neither.
requeueDelay(t, next, earliest) ==
  LET delays == {Max({x - t, Second}) : x \in {next, earliest} \ {Zero}}
  IN  IF delays = {} THEN 0 ELSE Min(delays)

\* AddAfter keeps the earliest instant asked for.
AddAfter(delay) ==
  IF delay = 0 THEN due ELSE Min({now + delay} \cup ({due} \ {Zero}))

Return == pc' = "idle" /\ held' = Nil /\ fresh' = FALSE /\ override' = Zero
          /\ readAt' = Start

\* Mutant: the status is written on every pass.
FinishAlways ==
  /\ pc = "status"
  /\ fresh
  /\ ss' = Commit(ss, [held EXCEPT !.status = newStatus])
  /\ due' = AddAfter(requeueDelay(readAt, res.next, override))
  /\ Return
  /\ UNCHANGED <<now, cm, doomed, queued, applied, gauges, asked, budget>>

\* The status is written when it changed, and the pass asks to be run again.
Finish ==
  /\ pc = "status"
  /\ \/ ~statusChanged /\ UNCHANGED ss
     \/ /\ statusChanged /\ fresh
        /\ ss' = Commit(ss, [held EXCEPT !.status = newStatus])
  /\ due' = AddAfter(requeueDelay(readAt, res.next, override))
  /\ Return
  /\ UNCHANGED <<now, cm, doomed, queued, applied, gauges, asked, budget>>

\* The pass ends early and is repeated.
Again == Return /\ queued' = TRUE
         /\ UNCHANGED <<now, namespace, due, applied, gauges, asked>>

\* Create of a ConfigMap the cache does not show, Update of one it shows an
\* old version of, status update of a SleepSchedule that has moved on or is gone.
Conflict ==
  /\ \/ pc = "ensure" /\ Cached(cm) = Nil /\ ~doomed /\ Live(cm) # Nil
     \/ pc = "wake" /\ NeedsStamp /\ ~Synced(cm)
     \/ pc = "status" /\ statusChanged /\ ~fresh
  /\ Again
  /\ UNCHANGED budget

Pass == Begin \/ Gone \/ Ensure \/ ProcessWake \/ Apply \/ Finish \/ Conflict

-----------------------------------------------------------------------------
(* The clock, the users and the watch.                                     *)

Tick ==
  /\ now < End
  /\ now' = now + 1
  /\ IF due # Zero /\ due <= now' THEN due' = Zero /\ queued' = TRUE
                                  ELSE UNCHANGED <<due, queued>>
  /\ UNCHANGED <<namespace, applied, gauges, pass, asked, budget>>

\* Watch events: For enqueues the schedule, Owns the ConfigMap's owner by name.
Enqueued == /\ queued' = TRUE
            /\ UNCHANGED <<now, doomed, due, applied, gauges, pass, asked, budget>>

DeliverSchedule == ~Synced(ss) /\ ss' = Delivered(ss) /\ UNCHANGED cm /\ Enqueued

\* Mutant: the controller does not own its ConfigMaps.
DeliverConfigMapUnowned ==
  /\ ~Synced(cm) /\ cm' = Delivered(cm)
  /\ UNCHANGED <<ss, now, doomed, queued, due, applied, gauges, pass, asked, budget>>

DeliverConfigMap == ~Synced(cm) /\ cm' = Delivered(cm) /\ UNCHANGED ss /\ Enqueued

\* The ConfigMap's owner is gone; one of the same name has another uid.
Orphaned == Live(cm) # Nil /\ (Live(ss) # Nil => Live(ss).uid # Live(cm).owner)

\* Kubernetes deletes an orphan, and what is left in a terminating namespace.
Collect ==
  /\ \/ /\ Orphaned
        /\ cm' = Commit(cm, Nil)
        /\ asked' = Nil
        /\ UNCHANGED <<ss, fresh>>
     \/ /\ doomed /\ Live(ss) # Nil
        /\ ss' = Commit(ss, Nil)
        /\ fresh' = FALSE
        /\ UNCHANGED <<cm, asked>>
  /\ UNCHANGED <<now, doomed, queued, due, applied, gauges, pc, held, readAt, override, budget>>

Disturb == budget > 0 /\ budget' = budget - 1

\* kubectl patch of the wake key; null cancels.
WriteWake(v) ==
  /\ Disturb
  /\ Live(cm) # Nil /\ Live(cm).wake # v
  /\ cm' = Commit(cm, [Live(cm) EXCEPT !.wake = v])
  /\ asked' = v
  /\ UNCHANGED <<now, ss, doomed, queued, due, applied, gauges, pass>>

DeleteConfigMap ==
  /\ Disturb
  /\ Live(cm) # Nil
  /\ cm' = Commit(cm, Nil)
  /\ asked' = Nil
  /\ UNCHANGED <<now, ss, doomed, queued, due, applied, gauges, pass>>

\* A user writes a version of the schedule: the one the pass holds is old.
WriteSchedule(version) ==
  /\ ss' = Commit(ss, version)
  /\ fresh' = FALSE
  /\ UNCHANGED <<now, cm, doomed, queued, due, applied, gauges, pc, held, readAt, override,
                 asked>>

EditSpec(s) == /\ Disturb
               /\ Live(ss) # Nil /\ Live(ss).spec # s
               /\ WriteSchedule([Live(ss) EXCEPT !.spec = s])

DeleteSchedule == Disturb /\ Live(ss) # Nil /\ WriteSchedule(Nil)

\* Same name, new uid: every deletion leaves a smaller budget.
CreateSchedule(s) == /\ Live(ss) = Nil /\ ~doomed
                     /\ WriteSchedule(NewSchedule(budget, s))
                     /\ UNCHANGED budget

DeleteNamespace ==
  /\ Disturb
  /\ ~doomed
  /\ doomed' = TRUE
  /\ UNCHANGED <<now, ss, cm, queued, due, applied, gauges, pass, asked>>

\* A call fails: the pass returns an error and is retried.
Fail == Disturb /\ pc # "idle" /\ Again

\* The operator dies: its timer and its gauges are gone, the new leader lists
\* everything.
Crash ==
  /\ Disturb
  /\ Return
  /\ queued' = TRUE
  /\ due' = Zero
  /\ gauges' = Nil
  /\ UNCHANGED <<now, namespace, applied, asked>>

Users == \/ \E v \in WakeValues \cup {Nil} : WriteWake(v)
         \/ DeleteConfigMap
         \/ \E s \in Specs : EditSpec(s) \/ CreateSchedule(s)
         \/ DeleteSchedule \/ DeleteNamespace

\* Nothing is left to do, for the operator or for Kubernetes.
AtRest == /\ pc = "idle" /\ ~queued /\ Synced(ss) /\ Synced(cm)
          /\ ~Orphaned /\ (doomed => Live(ss) = Nil)

Others == DeliverSchedule \/ DeliverConfigMap \/ Collect \/ Users \/ Fail \/ Crash

\* Time passes while the operator works.
Next == Pass \/ Others \/ Tick
Spec == Init /\ [][Next]_vars

\* The operator is fast: the clock moves on once it has come to rest.
PromptNext == Pass \/ Others \/ (AtRest /\ Tick)
PromptSpec == Init /\ [][PromptNext]_vars

\* A pass goes on, each watch delivers, orphans are collected, and time goes by.
FairSpec == /\ PromptSpec
            /\ WF_vars(Pass) /\ WF_vars(DeliverSchedule) /\ WF_vars(DeliverConfigMap)
            /\ WF_vars(Collect) /\ WF_vars(AtRest /\ Tick)

-----------------------------------------------------------------------------

WakeEntries == [form : {"at", "for", "default", "malformed"}, n : Nat]
Versions == [uid : 0 .. MaxDisturbances, spec : Specs,
             status : [phase : {"none", "Awake", "Asleep", "WokenByOverride"},
                       next : Nat, active : {0, 1}]]
ConfigMaps == [owner : 0 .. MaxDisturbances, wake : WakeEntries \cup {Nil}]
Series == [asleep : BOOLEAN, active : {0, 1}, left : Nat]

ASSUME WakeAssumption == WakeValues \subseteq WakeEntries
ASSUME NilAssumption == Nil \notin Versions \cup ConfigMaps \cup WakeEntries \cup Series

TypeOK ==
  /\ now \in Start .. End
  /\ ss \in Views({Nil} \cup Versions)
  /\ cm \in Views({Nil} \cup ConfigMaps)
  /\ doomed \in BOOLEAN
  /\ queued \in BOOLEAN
  /\ due \in Nat
  /\ applied \in {"asleep", "awake"}
  /\ gauges \in {Nil} \cup Series
  /\ pc \in {"idle", "ensure", "wake", "apply", "status"}
  /\ held \in Versions \cup {Nil} /\ (pc # "idle" => held # Nil)
  /\ fresh \in BOOLEAN
  /\ readAt \in Start .. now
  /\ override \in Nat /\ (override # Zero => pc \in {"apply", "status"} /\ override > readAt)
  /\ asked \in WakeEntries \cup {Nil}
  /\ budget \in 0 .. MaxDisturbances

\* The expiry of the override in the live ConfigMap, Zero for none.
LiveUntil == IF Live(cm) = Nil THEN Zero
             ELSE IF Live(cm).wake = Nil THEN Zero
             ELSE IF Live(cm).wake.form = "at" THEN Live(cm).wake.n ELSE Zero

LiveAwake(t) == isAwakeAt(Live(ss).spec.awake, Zone, t)

\* FirstFlip of every spec at every instant.
Flips == [s \in Specs |-> [t \in Start .. End |-> FirstFlip(s.awake, Zone, t)]]

\* The instants less than a second ago: requeueDelay waits at least a second.
JustNow == {t \in now - Second + 1 .. now : t >= Start}

\* "Requeue happens at the soonest of the next schedule transition and the
\* earliest wake-override expiry, so state changes land on time"
\* (operator-guide.md): whenever a prompt operator is at rest, the direction
\* it last applied is the one that the schedule and the override, as they now
\* are, ask for at this instant, or asked for less than a second ago, whatever
\* edits, failures and restarts came before.
ActsOnTime ==
  (AtRest /\ Live(ss) # Nil) => \E t \in JustNow :
    applied = IF LiveAwake(t) \/ LiveUntil > t
              THEN "awake" ELSE "asleep"

\* At rest the status names the phase, the next flip and the override there
\* really are, or were less than a second ago.
StatusIsTrue ==
  (AtRest /\ Live(ss) # Nil) => \E t \in JustNow :
    Live(ss).status =
      [phase  |-> IF LiveAwake(t) THEN "Awake"
                  ELSE IF LiveUntil > t THEN "WokenByOverride" ELSE "Asleep",
       next   |-> Flips[Live(ss).spec][t],
       active |-> IF LiveUntil > t THEN 1 ELSE 0]

\* "Self-cleans": at rest no override that expired a second ago is left in the
\* ConfigMap, and none beyond maxDuration.
OverrideIsBounded ==
  (AtRest /\ LiveUntil # Zero) =>
    /\ \E t \in JustNow : LiveUntil > t
    /\ Live(ss).spec.max > 0 => LiveUntil <= now + Live(ss).spec.max

\* The operator never overrules the users: what is in the ConfigMap is what
\* they asked for last, or an expiry that follows from it; in particular a
\* cancelled override does not come back.
UsersHaveLastWord ==
  (Live(cm) # Nil /\ Live(cm).wake # asked /\ Live(cm).wake # Nil) =>
    /\ asked # Nil /\ LiveUntil # Zero
    /\ asked.form = "at" => LiveUntil <= asked.n
    /\ asked.form = "for" => asked.n > 0 /\ LiveUntil <= now + asked.n
    /\ asked.form # "malformed"

\* An override is stamped "once, so it doesn't keep extending on every
\* reconcile" (user-guide.md): the operator never moves an expiry later.
NeverExtended ==
  [][(pc = "wake" /\ pc' # "wake" /\ LiveUntil # Zero) => LiveUntil' <= LiveUntil]_vars

\* At rest the series are those of a schedule that exists, and they agree with
\* its status.  "nyx_override_seconds_remaining" is "0 when none", and while an
\* override is live it is what was left of the override as it now is at some
\* earlier instant: it is set by passes and stands still between them, so it is
\* not, as operator-guide.md has it, the "seconds until the earliest active
\* override expires", only what they were when the schedule was last looked at.
GaugesAreTrue ==
  AtRest =>
    IF Live(ss) = Nil THEN gauges = Nil
    ELSE /\ gauges # Nil
         /\ gauges.asleep = (Live(ss).status.phase = "Asleep")
         /\ gauges.active = Live(ss).status.active
         /\ gauges.left > 0 <=> gauges.active > 0
         /\ LiveUntil > now => gauges.left > 0
         /\ gauges.left > 0 => \E r \in Start .. now : gauges.left = LiveUntil - r

\* The override surface is "created automatically" (user-guide.md): at rest a
\* schedule has a Wake ConfigMap that goes away with it, not with an earlier
\* schedule of its name.
HasWakeConfigMap ==
  (AtRest /\ Live(ss) # Nil) => Live(cm) # Nil /\ Live(cm).owner = Live(ss).uid

\* The operator comes to rest time and again: its own writes and conflicts do
\* not keep it reconciling, and while it is left alone time goes on.
ComesToRest == []<>AtRest
=============================================================================
