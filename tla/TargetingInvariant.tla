-------------------------- MODULE TargetingInvariant --------------------------
(***************************************************************************)
(* What holds while a pass is under way.  InForce and GaugesCount say what *)
(* is so at rest; this is what a pass knows and has done on the way there, *)
(* and it is inductive.                                                    *)
(***************************************************************************)
EXTENDS Targeting

\* What no pass has yet to list is in the cache.
ListedIsSynced == \A w \in Workloads \ unseen : Synced(objects[w])

\* With the webhook in place, every version on its way was admitted.
VersionsEvaluate ==
  webhook => \A s \in (Snapshots(ss) \cup {held}) \ {Nil} : Evaluates(s)

\* A pass goes by the latest spec, unless another is sure to follow.
HoldsLatest ==
  pc # "idle" => /\ dir = desired
                 /\ (~queued /\ Synced(ss)) => held = Live(ss)

\* What is on the list, or was and is done with.
ListIsRight ==
  pc = "apply" =>
    \A w \in Workloads \ unseen :
      /\ todo[w] > 0 => InScope(held, w)
      /\ (InScope(held, w) /\ todo[w] = 0 /\ ~held.dryRun) =>
           AsAsked(held, dir, w)

ListIsDone ==
  (pc = "status" /\ ~held.dryRun) =>
    \A w \in Workloads \ unseen : InScope(held, w) => AsAsked(held, dir, w)

\* How many refs the pass listed.
CountIsRight == (pc \in {"apply", "status"} /\ unseen = {}) => count = Mentions(held)

GaugesAreSet == pc = "status" => gauges = Published(dir, count)

Inv == /\ TypeOK /\ ListedIsSynced /\ VersionsEvaluate /\ HoldsLatest
       /\ ListIsRight /\ ListIsDone /\ CountIsRight /\ GaugesAreSet
       /\ InForce /\ GaugesCount

\* There are watch events: the cache of a view without lag is never behind, and
\* never told.
ThereIsAWatch == MaxLag > 0
=============================================================================
