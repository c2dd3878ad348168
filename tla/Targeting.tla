------------------------------ MODULE Targeting ------------------------------
(***************************************************************************)
(* Which workloads a schedule acts on: users write the spec, the webhook   *)
(* admits it, the resolver turns it into refs, a pass puts these to sleep  *)
(* or wakes them and sets the gauges.  In between users change or delete   *)
(* the schedule and owners create, relabel and delete workloads, on which  *)
(* there is no watch that enqueues.                                        *)
(*                                                                         *)
(* Module Sleeper has the handlers call by call.  Here one is a step, or   *)
(* half a step when it fails between its two writes, and it reads its own  *)
(* earlier writes back: the pace at which Sleeper keeps its promises.      *)
(* When a schedule is to be asleep is module Reconciler.                   *)
(***************************************************************************)
EXTENDS Informer, Functions, FiniteSetsExt

CONSTANTS Refs,          \* the workloads there may be, sorted as Resolve sorts
          Registered,    \* kinds with a handler
          KnownZones,    \* what time.LoadLocation finds
          Proposals,     \* specs that users apply
          Versions,      \* what owners make of a workload
          Deployed,      \* the workloads at the start
          MaxChanges,    \* bound: changes, failed calls and restarts
          Nil

\* What the schema of the CRD makes of a spec.
ASSUME SpecAssumption ==
  \A s \in Proposals :
    /\ s.target.mode \in {"namespaces", "labels"}
    /\ s.target.namespaces \in Seq(STRING)
    /\ s.kinds \in Seq(STRING)
    /\ s.excludeRefs \subseteq [kind : STRING, namespace : STRING, name : STRING]

\* Of an object: its labels, and whether its PVCs or active pods would go with
\* its sleep.
ASSUME TargetingAssumption ==
  /\ Refs \in Seq([kind : STRING, namespace : STRING \ {""}, name : STRING])
  /\ Versions \subseteq [labels : SUBSET STRING, unsafe : BOOLEAN]
  /\ Deployed \in [Range(Refs) -> Versions \cup {Nil}]
  /\ MaxChanges \in Nat
  /\ Nil \notin Proposals /\ Nil \notin Versions

Workloads == Range(Refs)

VARIABLES
  webhook,    \* ENABLE_WEBHOOKS: the API server calls the webhook
  ss,         \* view of the schedule's spec, Nil for none
  objects,    \* view of every workload, Nil for no such object
  slept,      \* workloads that show the state they sleep in
  saved,      \* workloads with a checkpoint in the schedule's Secret
  desired,    \* what clock and override ask for
  queued,     \* the schedule is in the workqueue
  pc,         \* where the pass is
  held,       \* the spec the pass read
  dir,        \* the direction it took
  todo,       \* per workload: how often it is still among the refs to process
  count,      \* how many refs there were
  gauges,     \* nyx_targets_asleep and _awake of the schedule, Nil for none
  unseen,     \* history: workloads with a change that no pass has listed
  budget      \* changes left

pass == <<pc, held, dir, todo, count>>
vars == <<webhook, ss, objects, slept, saved, desired, queued, pass, gauges, unseen, budget>>

None == [w \in Workloads |-> 0]

\* The Secret is named after the schedule: nothing of it is lost with it.
Init ==
  /\ webhook \in BOOLEAN
  /\ ss = <<Nil>>
  /\ objects = [w \in Workloads |-> <<Deployed[w]>>]
  /\ slept = {} /\ saved = {}
  /\ desired \in {"asleep", "awake"}
  /\ queued = FALSE
  /\ pc = "idle" /\ held = Nil /\ dir = Nil /\ todo = None /\ count = 0
  /\ gauges = Nil
  /\ unseen = {}
  /\ budget = MaxChanges

-----------------------------------------------------------------------------
(* Admission.                                                              *)

\* The checks that the schema of the CRD cannot express.
validateSleepSchedule(s) ==
  /\ s.timezone \in KnownZones
  /\ \A w \in s.awake : w.from < w.to
  /\ s.target.mode = "namespaces" => s.target.namespaces # <<>>
  /\ s.target.mode = "labels" => s.target.selector # Nil
  /\ s.temporaryWake # Nil => /\ s.temporaryWake.def > 0
                              /\ s.temporaryWake.max > 0
                              /\ s.temporaryWake.def <= s.temporaryWake.max

\* Mutant: an update is judged by the object it replaces.
AdmitsReplaced(old, new) == validateSleepSchedule(IF old = Nil THEN new ELSE old)

\* ValidateCreate and ValidateUpdate.
Admits(old, new) == validateSleepSchedule(new)

-----------------------------------------------------------------------------
(* The resolver.                                                           *)

\* The CRD lets a kind or a namespace be listed twice.
requestedKinds(s) == IF s.kinds = <<>> THEN Registered ELSE Range(s.kinds)

\* Mutant: the wildcard is not looked for.
IsExcludedExactly(excluded, w) == w \in excluded

\* By its full name, or by kind and name in any namespace.
isExcluded(excluded, w) == w \in excluded \/ [w EXCEPT !.namespace = ""] \in excluded

\* InNamespace: the empty name, which is admitted, stands for all of them.
Names(namespace, w) == namespace \in {"", w.namespace}

\* A selector asks for all of its labels l; none at all selects nothing.
Selects(selector, l) == selector # Nil /\ selector.match \subseteq l

\* How often listKind returns w, as the cache has it: once for every namespace
\* listed that names its own, or once when the selector matches.
listKind(target, w) ==
  LET v == Cached(objects[w])
  IN  CASE v = Nil -> 0
        [] v # Nil /\ target.mode = "namespaces" ->
             Cardinality({i \in DOMAIN target.namespaces : Names(target.namespaces[i], w)})
        [] v # Nil /\ target.mode = "labels" ->
             IF Selects(target.selector, v.labels) THEN 1 ELSE 0

handled(s) == requestedKinds(s) \cap Registered

\* Mutant: a kind that is named twice is listed twice.
ResolveEachMention(s) ==
  [w \in Workloads |->
     IF w.kind \in handled(s) /\ ~isExcluded(s.excludeRefs, w)
     THEN listKind(s.target, w)
            * Max({1, Cardinality({i \in DOMAIN s.kinds : s.kinds[i] = w.kind})})
     ELSE 0]

\* The refs, as the number of times each is in the list: the list is sorted.
Resolve(s) ==
  [w \in Workloads |->
     IF w.kind \in handled(s) /\ ~isExcluded(s.excludeRefs, w)
     THEN listKind(s.target, w) ELSE 0]

len(refs) == Cardinality(UNION {{w} \X (1 .. refs[w]) : w \in Workloads})

Evaluates(s) == s.timezone \in KnownZones

\* LabelSelectorAsSelector refuses an unknown operator; the webhook does not.
Resolves(s) == (s.target.mode = "labels" /\ s.target.selector # Nil /\ handled(s) # {})
                 => s.target.selector.valid

Runs(s) == Evaluates(s) /\ Resolves(s)

-----------------------------------------------------------------------------
(* The pass.                                                               *)

Begin ==
  /\ pc = "idle" /\ queued /\ Cached(ss) # Nil
  /\ queued' = FALSE
  /\ pc' = "resolve" /\ held' = Cached(ss) /\ dir' = desired
  /\ UNCHANGED <<webhook, ss, objects, slept, saved, desired, todo, count, gauges, unseen, budget>>

\* NotFound: the gauges are dropped.
Gone ==
  /\ pc = "idle" /\ queued /\ Cached(ss) = Nil
  /\ queued' = FALSE
  /\ gauges' = Nil
  /\ UNCHANGED <<webhook, ss, objects, slept, saved, desired, pass, unseen, budget>>

Return == pc' = "idle" /\ held' = Nil /\ dir' = Nil /\ todo' = None /\ count' = 0

\* Evaluate or Resolve returns an error: the pass is retried.
Refused ==
  /\ pc = "resolve" /\ ~Runs(held)
  /\ Return
  /\ queued' = TRUE
  /\ UNCHANGED <<webhook, ss, objects, slept, saved, desired, gauges, unseen, budget>>

List ==
  /\ pc = "resolve" /\ Runs(held)
  /\ pc' = "apply"
  /\ todo' = Resolve(held)
  /\ count' = len(todo')
  /\ unseen' = {w \in Workloads : ~Synced(objects[w])}
  /\ UNCHANGED <<webhook, ss, objects, slept, saved, desired, queued, held, dir, gauges, budget>>

\* The next ref of the list.
IsNext(w) == /\ todo[w] > 0
             /\ \E i \in DOMAIN Refs : /\ Refs[i] = w
                                       /\ \A j \in 1 .. i - 1 : todo[Refs[j]] = 0

\* A StatefulSet whose PVCs would be deleted, and a Job with active pods, are
\* not put to sleep; for the former the owner, in its version v, or the
\* schedule may say otherwise.
Spared(s, w, v) ==
  v.unsafe /\ (w.kind = "Job" \/ (w.kind = "StatefulSet" /\ ~s.allowPVCDeletion))

\* The kinds whose Sleep takes a checkpoint for a sleep.
SleepsOnce(w) == w.kind \in {"CronJob", "Job", "HorizontalPodAutoscaler"}

\* Mutant: a patch that finds no object passes for one that was made.
SkipsUnknown(w) ==
  \/ held.dryRun
  \/ Cached(objects[w]) = Nil
  \/ dir = "asleep" /\ (Spared(held, w, Cached(objects[w])) \/ (SleepsOnce(w) /\ w \in saved))
  \/ dir = "awake" /\ w \notin saved

\* Mutant: Restore looks at the workload, not at its checkpoint.
SkipsAwake(w) ==
  \/ held.dryRun
  \/ Nil \in {Cached(objects[w]), Live(objects[w])}
  \/ dir = "asleep" /\ (Spared(held, w, Cached(objects[w])) \/ (SleepsOnce(w) /\ w \in saved))
  \/ dir = "awake" /\ w \notin slept

\* Sleep or Restore of w returns without a write, or w is gone and what is
\* written has no effect.
Skips(w) ==
  \/ held.dryRun
  \/ Nil \in {Cached(objects[w]), Live(objects[w])}
  \/ dir = "asleep" /\ (Spared(held, w, Cached(objects[w])) \/ (SleepsOnce(w) /\ w \in saved))
  \/ dir = "awake" /\ w \notin saved

\* The two writes of a handler: Sleep saves, then patches; Restore patches, then
\* deletes what was saved.
FirstWrite(w) ==
  IF dir = "asleep" THEN saved' = saved \cup {w} /\ slept' = slept
                    ELSE slept' = slept \ {w} /\ saved' = saved

BothWrites(w) ==
  IF dir = "asleep" THEN saved' = saved \cup {w} /\ slept' = slept \cup {w}
                    ELSE slept' = slept \ {w} /\ saved' = saved \ {w}

\* Mutant: Apply is done after the first ref.
ApplyFirst(w) ==
  /\ pc = "apply" /\ IsNext(w)
  /\ todo' = None
  /\ IF Skips(w) THEN UNCHANGED <<slept, saved>> ELSE BothWrites(w)
  /\ UNCHANGED <<webhook, ss, objects, desired, queued, pc, held, dir, count, gauges,
                 unseen, budget>>

\* Sleep or Restore of one ref.
Apply(w) ==
  /\ pc = "apply" /\ IsNext(w)
  /\ todo' = [todo EXCEPT ![w] = @ - 1]
  /\ IF Skips(w) THEN UNCHANGED <<slept, saved>> ELSE BothWrites(w)
  /\ UNCHANGED <<webhook, ss, objects, desired, queued, pc, held, dir, count, gauges,
                 unseen, budget>>

\* A patch is sent and finds no object, which the cache does not know yet: an
\* error.
PatchMissing(w) ==
  /\ pc = "apply" /\ IsNext(w)
  /\ ~held.dryRun /\ Cached(objects[w]) # Nil /\ Live(objects[w]) = Nil
  /\ dir = "asleep" => ~Spared(held, w, Cached(objects[w]))
  /\ Return
  /\ queued' = TRUE
  /\ UNCHANGED <<webhook, ss, objects, slept, saved, desired, gauges, unseen, budget>>

\* metrics.Set.
Publish ==
  /\ pc = "apply" /\ todo = None
  /\ pc' = "status"
  /\ gauges' = [asleep |-> IF dir = "asleep" THEN count ELSE 0,
                awake  |-> IF dir = "asleep" THEN 0 ELSE count]
  /\ UNCHANGED <<webhook, ss, objects, slept, saved, desired, queued, held, dir, todo, count,
                 unseen, budget>>

\* The status is up to date, or updated now.
Finish ==
  /\ pc = "status"
  /\ Return
  /\ UNCHANGED <<webhook, ss, objects, slept, saved, desired, queued, gauges, unseen, budget>>

Pass == \/ Begin \/ Gone \/ Refused \/ List
        \/ \E w \in Workloads : Apply(w) \/ PatchMissing(w)
        \/ Publish \/ Finish

-----------------------------------------------------------------------------
(* The rest of the world.                                                  *)

AtRest == pc = "idle" /\ ~queued /\ Synced(ss)

\* Mutant: the pass does not ask to be run again.
FlipUnnoticed ==
  /\ AtRest
  /\ desired' = IF desired = "asleep" THEN "awake" ELSE "asleep"
  /\ UNCHANGED <<webhook, ss, objects, slept, saved, queued, pass, gauges, unseen, budget>>

\* A transition or an override: RequeueAfter has the schedule, if there is
\* one, reconciled.  Transitions are far apart.
Flip ==
  /\ AtRest
  /\ desired' = IF desired = "asleep" THEN "awake" ELSE "asleep"
  /\ queued' = (Live(ss) # Nil)
  /\ UNCHANGED <<webhook, ss, objects, slept, saved, pass, gauges, unseen, budget>>

\* A watch event: For enqueues the schedule.
Deliver ==
  /\ ~Synced(ss)
  /\ ss' = Delivered(ss)
  /\ queued' = TRUE
  /\ UNCHANGED <<webhook, objects, slept, saved, desired, pass, gauges, unseen, budget>>

\* One of a workload: nobody is enqueued.
DeliverWorkload(w) ==
  /\ ~Synced(objects[w])
  /\ objects' = [objects EXCEPT ![w] = Delivered(@)]
  /\ UNCHANGED <<webhook, ss, slept, saved, desired, queued, pass, gauges, unseen, budget>>

Change == budget > 0 /\ budget' = budget - 1

\* kubectl apply: creates the schedule or updates it.
Propose(s) ==
  /\ Change
  /\ s # Live(ss) /\ (webhook => Admits(Live(ss), s))
  /\ ss' = Commit(ss, s)
  /\ UNCHANGED <<webhook, objects, slept, saved, desired, queued, pass, gauges, unseen>>

\* ValidateDelete always agrees, and there is no finalizer.
DeleteSchedule ==
  /\ Change
  /\ Live(ss) # Nil
  /\ ss' = Commit(ss, Nil)
  /\ UNCHANGED <<webhook, objects, slept, saved, desired, queued, pass, gauges, unseen>>

\* The owner, or the cluster, changes a workload to v, deletes (Nil) or creates
\* it; a new object is not asleep, and its uid has no checkpoint.  It is created
\* again when the cache knows that it is gone; Sleeper has the other case.
Own(w, v) ==
  /\ Change
  /\ v # Live(objects[w])
  /\ Live(objects[w]) = Nil => Synced(objects[w])
  /\ objects' = [objects EXCEPT ![w] = Commit(@, v)]
  /\ LET new == IF Nil \in {v, Live(objects[w])} THEN {w} ELSE {}
     IN  slept' = slept \ new /\ saved' = saved \ new
  /\ unseen' = unseen \cup {w}
  /\ UNCHANGED <<webhook, ss, desired, queued, pass, gauges>>

\* A call of the pass fails: a read, the first write of a handler, or the status
\* update.
Fail ==
  /\ Change
  /\ pc = "resolve" \/ (pc = "apply" /\ todo # None) \/ pc = "status"
  /\ Return
  /\ queued' = TRUE
  /\ UNCHANGED <<webhook, ss, objects, slept, saved, desired, gauges, unseen>>

\* The second write of a handler fails, or the operator dies before it and is
\* started again.
FailHalfway(w) ==
  /\ Change
  /\ pc = "apply" /\ IsNext(w) /\ ~Skips(w)
  /\ FirstWrite(w)
  /\ Return
  /\ queued' = TRUE
  /\ UNCHANGED <<webhook, ss, objects, desired, gauges, unseen>>

\* The operator dies; the next leader, whose cache may trail, starts with what
\* its cache holds.
Restart ==
  /\ Change
  /\ Return
  /\ queued' = (Cached(ss) # Nil)
  /\ gauges' = Nil
  /\ UNCHANGED <<webhook, ss, objects, slept, saved, desired, unseen>>

Others == \/ Deliver \/ Flip
          \/ \E w \in Workloads : DeliverWorkload(w)
          \/ \E s \in Proposals : Propose(s)
          \/ DeleteSchedule
          \/ \E w \in Workloads, v \in Versions \cup {Nil} : Own(w, v)
          \/ Fail \/ Restart
          \/ \E w \in Workloads : FailHalfway(w)

Next == Pass \/ Others

\* The pass goes on, the watches deliver and the clock does not stop.
Spec == /\ Init /\ [][Next]_vars
        /\ WF_vars(Pass) /\ WF_vars(Deliver) /\ WF_vars(Flip)
        /\ \A w \in Workloads : WF_vars(DeliverWorkload(w))

-----------------------------------------------------------------------------

\* What the guide says a spec selects: kinds, target, exclusions.
InScope(s, w) ==
  LET v == Live(objects[w])
  IN  /\ v # Nil
      /\ w.kind \in Registered
      /\ s.kinds # <<>> => \E i \in DOMAIN s.kinds : s.kinds[i] = w.kind
      /\ IF s.target.mode = "namespaces"
         THEN \E i \in DOMAIN s.target.namespaces : Names(s.target.namespaces[i], w)
         ELSE Selects(s.target.selector, v.labels)
      /\ ~\E x \in s.excludeRefs : /\ x.kind = w.kind /\ x.name = w.name
                                   /\ x.namespace \in {"", w.namespace}

\* How many refs it makes of the workloads: one for each namespace, of those it
\* lists, that names a workload's own.
Mentions(s) ==
  len([w \in Workloads |->
         IF ~InScope(s, w) THEN 0
         ELSE IF s.target.mode = "labels" THEN 1
         ELSE Cardinality({i \in DOMAIN s.target.namespaces :
                             Names(s.target.namespaces[i], w)})])

\* What a pass in direction d leaves a target in: awake without a checkpoint; or
\* asleep, or spared, or with a checkpoint that its handler takes for a sleep.
AsAsked(s, d, w) ==
  IF d = "awake" THEN w \notin slept \cup saved
  ELSE \/ w \in slept
       \/ Spared(s, w, Live(objects[w]))
       \/ SleepsOnce(w) /\ w \in saved

Published(d, n) == [asleep |-> IF d = "asleep" THEN n ELSE 0,
                    awake  |-> IF d = "asleep" THEN 0 ELSE n]

Passes == [pc : {"idle", "resolve", "apply", "status"}, held : Proposals \cup {Nil},
           dir : {"asleep", "awake", Nil}, todo : [Workloads -> Nat], count : Nat]

\* What sleeps has a checkpoint, and only what exists is asleep.
TypeOK ==
  /\ webhook \in BOOLEAN
  /\ ss \in Views(Proposals \cup {Nil})
  /\ objects \in [Workloads -> Views(Versions \cup {Nil})]
  /\ slept \subseteq saved
  /\ saved \subseteq {w \in Workloads : Live(objects[w]) # Nil}
  /\ desired \in {"asleep", "awake"}
  /\ queued \in BOOLEAN
  /\ [pc |-> pc, held |-> held, dir |-> dir, todo |-> todo, count |-> count] \in Passes
  /\ pc # "idle" => held # Nil
  /\ gauges \in {Nil} \cup [asleep : Nat, awake : Nat]
  /\ unseen \subseteq Workloads
  /\ budget \in 0 .. MaxChanges

\* At rest the live spec is in force.  When it is to be awake, what it selects
\* is awake and has no checkpoint.  When it is to be asleep, what it selects
\* sleeps, but for a StatefulSet or Job that is spared, and a CronJob, Job or HPA
\* that runs on because an earlier handler stopped between its two writes, in
\* this sleep or before (see CheckpointMeansAsleep).  This is so also when the
\* schedule was deleted and recreated, retargeted or run dry in between; bar
\* what changed since the last pass, on which there is no watch
\* (SetupWithManager).
InForce ==
  (AtRest /\ Live(ss) # Nil /\ ~Live(ss).dryRun) =>
    \A w \in Workloads \ unseen :
      InScope(Live(ss), w) => AsAsked(Live(ss), desired, w)

\* "Exclusions are always dropped, regardless of mode" (user-guide.md), and so
\* is what is not targeted: only its owner, or a pass whose spec selects it, or
\* did when the pass listed, changes a workload's sleep or its checkpoint.
LeavesOthersAlone ==
  [][\A w \in Workloads :
       ((w \in slept) # (w \in slept') \/ (w \in saved) # (w \in saved')) =>
         (pc = "apply" /\ InScope(held, w)) \/ w \in unseen \cup unseen']_vars

\* At rest nyx_targets_asleep and _awake are the number of refs of the live
\* spec, in as far as the last pass has seen them, all in one direction, and
\* there are none for a schedule that does not exist.  That is what metrics.Set
\* is given, and not always the "targeted workloads currently asleep" of
\* operator-guide.md: it counts what InForce says is spared or runs on, what a
\* dry run left alone, and once more what a second namespace of the list names.
GaugesCount ==
  AtRest =>
    IF Live(ss) = Nil THEN gauges = Nil
    ELSE unseen = {} => gauges = Published(desired, Mentions(Live(ss)))

\* "Spec passed admission, so this is unexpected" (the controller, when Evaluate
\* fails): with the webhook in place from the start it never happens, whatever
\* a spec that was admitted is changed to.
AdmittedSpecsEvaluate == (webhook /\ held # Nil) => Evaluates(held)

\* A workload that was created or relabelled while nothing was going on, which
\* no watch reports (SetupWithManager), is seen by the pass of a transition, if
\* a pass can run.
PickedUp ==
  unseen # {} ~> (unseen = {} \/ Live(ss) = Nil \/ ~Runs(Live(ss)))

\* "On wake, that exact state is restored and the checkpoint entry cleared"
\* (user-guide.md): when a schedule that is to be awake is at rest, nothing that
\* it put to sleep is asleep.
NothingStranded ==
  (AtRest /\ Live(ss) # Nil /\ ~Live(ss).dryRun /\ desired = "awake") => slept = {}
=============================================================================
