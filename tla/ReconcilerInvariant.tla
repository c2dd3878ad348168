------------------------- MODULE ReconcilerInvariant -------------------------
(***************************************************************************)
(* Why the operator is right when it is at rest.  Every change of the      *)
(* schedule or of the ConfigMap is followed by a watch event, so as long   *)
(* as no event is on its way and none is queued (Heard), the pass holds    *)
(* the latest schedule and what it read of the override is still so.  And  *)
(* the timer that a pass leaves behind fires before the verdict it reached *)
(* is out of date.                                                         *)
(***************************************************************************)
EXTENDS Reconciler

HeardSchedule == Synced(ss) /\ ~queued
HeardOverride == Synced(cm) /\ ~queued
Heard == HeardSchedule /\ HeardOverride

\* The pass holds the latest schedule, unless an event is to come.
HoldsLatest == (pc # "idle" /\ HeardSchedule) => held = Live(ss)

\* The gauges of a schedule that is gone are dropped.
GoneIsNoticed == (HeardSchedule /\ Live(ss) = Nil) => gauges = Nil

\* A ConfigMap that is missing is about to be created.
ConfigMapIsMade ==
  (Heard /\ Live(cm) = Nil /\ Live(ss) # Nil /\ ~doomed) => pc = "ensure"

\* The override the pass goes by is within bounds, and the live one.
OverrideIsRead ==
  pc \in {"apply", "status"} =>
    /\ HeardOverride => override = LiveUntil
    /\ held.spec.max > 0 => override <= readAt + held.spec.max

\* Apply and metrics.Set did what the pass decided.
PassActed ==
  pc = "status" => /\ gauges = GaugesSet
                   /\ applied = IF effectiveAsleep THEN "asleep" ELSE "awake"

GaugesOfStatus ==
  /\ gauges # Nil
  /\ gauges.asleep = (Live(ss).status.phase = "Asleep")
  /\ gauges.active = Live(ss).status.active
  /\ gauges.left > 0 <=> gauges.active > 0
  /\ LiveUntil > now => gauges.left > 0
  /\ gauges.left > 0 => \E r \in Start .. now : gauges.left = LiveUntil - r

GaugesStay == (pc = "idle" /\ Heard /\ Live(ss) # Nil) => GaugesOfStatus

Knows == /\ HoldsLatest /\ GoneIsNoticed /\ ConfigMapIsMade
         /\ OverrideIsRead /\ PassActed /\ GaugesStay

\* Inductive at any pace.
Inv == TypeOK /\ UsersHaveLastWord /\ Knows

-----------------------------------------------------------------------------

\* A prompt pass is over within the instant; the timer is always ahead.
InTime == /\ pc \in {"wake", "apply", "status"} => readAt = now
          /\ due # Zero => due > now

\* What a pass that looked at instant r found, did and left behind.
Verdict(r) ==
  LET spec == Live(ss).spec
      e == Evaluate[spec][r]
  IN  /\ applied = IF e.awake \/ LiveUntil > r THEN "awake" ELSE "asleep"
      /\ Live(ss).status =
           [phase  |-> IF e.awake THEN "Awake"
                       ELSE IF LiveUntil > r THEN "WokenByOverride" ELSE "Asleep",
            next   |-> e.next,
            active |-> IF LiveUntil > r THEN 1 ELSE 0]
      /\ LiveUntil # Zero => LiveUntil > r
      /\ spec.max > 0 => LiveUntil <= r + spec.max
      /\ \A x \in {e.next, LiveUntil} \ {Zero} :
           due # Zero /\ (due <= x \/ due <= r + Second)

VerdictStands == (pc = "idle" /\ Heard /\ Live(ss) # Nil) => \E r \in Start .. now : Verdict(r)

\* Inductive when the operator is prompt.
PromptInv == Inv /\ InTime /\ VerdictStands

-----------------------------------------------------------------------------
(* What is taken of the evaluator, which module EvaluatorRuns is about.     *)

\* What Evaluate says is so until the transition it names, and that is the
\* first flip.
EvaluatorIsRight ==
  \A s \in Specs : \A t \in Start .. End :
    LET e == Evaluate[s][t]
    IN  /\ e.next = Flips[s][t]
        /\ \A u \in t .. End : (e.next = Zero \/ u < e.next) => Evaluate[s][u] = e

\* There are watch events: the cache of a view without lag is never behind, and
\* never told.
ThereIsAWatch == MaxLag > 0
=============================================================================
