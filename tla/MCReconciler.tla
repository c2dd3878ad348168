---------------------------- MODULE MCReconciler ----------------------------
(* Instances of Reconciler for TLC: days of 4 hours of 1 minute.            *)
EXTENDS ReconcilerInvariant

At(hour) == [h |-> hour, m |-> 0]
Daily(from, to) == [days |-> Weekdays, from |-> At(from), to |-> At(to)]

\* Office hours with bounds on overrides; a schedule that sleeps on day 1 of
\* the week and at night, without; and one that never wakes,
\* its window being reversed.
Office == [awake |-> {Daily(1, 3)}, def |-> Minute, max |-> 2 * Minute]
Weekly == [awake |-> {[days |-> Weekdays \ {1}, from |-> At(0), to |-> At(3)]},
           def |-> 0, max |-> 0]
Never == [awake |-> {Daily(3, 1)}, def |-> 2, max |-> 2]
MCSpecs == {Office, Weekly, Never}

Greenwich == [before |-> 0, after |-> 0, at |-> 0]

For(n) == [form |-> "for", n |-> n]
Until(t) == [form |-> "at", n |-> t]
Default == [form |-> "default", n |-> 0]
Malformed == [form |-> "malformed", n |-> 0]

\* A duration, an instant that Office clamps, the default and a typing error.
MCWakeValues == {For(3), Until(Start + 7), Default, Malformed}

\* What module ReconcilerProofs takes for granted is so here.
ASSUME HypothesesHold == EvaluatorIsRight /\ ThereIsAWatch
=============================================================================
