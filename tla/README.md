# A TLA+ model of k8s-nyx

k8s-nyx is a Kubernetes operator that puts workloads to sleep outside the awake
windows of a `SleepSchedule` and restores them exactly when they wake. This
directory models its logic in TLA+, checks small instances of the models with
TLC, and proves with TLAPS, for all instances, every safety property that the
runs check but one (for the evaluator, in time zones with a fixed offset).

Paths below are relative to `src/`.

## 1. Inventory

### Components

| Component | Source | State it keeps | Operations |
|---|---|---|---|
| Reconcile loop | `internal/controller/sleepschedule_controller.go` | none of its own; writes the Wake ConfigMap, the status and the gauges | `Reconcile`, `ensureWakeConfigMap`, `processWakeEntries`, `requeueDelay`, `statusChanged` |
| Handlers and `Sleeper.Apply` | `internal/workload/*.go` | none; patches workloads | `Sleep`, `Restore` of six kinds |
| Target resolver | `internal/workload/resolve.go`, `registry.go` | none | `Resolve`, `listKind`, `isExcluded` |
| Checkpoint store | `internal/checkpoint/store.go` | one Secret per schedule name | `GetRaw`, `SetRaw`, `Delete` |
| Schedule evaluator | `internal/schedule/evaluator.go` | pure | `Evaluate`, `candidateBoundaries` |
| Wake values | `internal/wake/*.go` | pure | `ParseEntry`, `Resolve`, `FormatExpiry` |
| Webhook | `internal/webhook/v1alpha1/*.go` | pure | `ValidateCreate`, `ValidateUpdate`, `ValidateDelete` |
| Metrics | `internal/metrics/metrics.go` | four gauges and a counter per schedule | `Set`, `Delete`, `IncRestoreFailure` |
| Audit | `internal/audit` | none | log lines and Events |
| Manager | `cmd/main.go` | the leader lease | start, hand over |

Outside the repository, and modelled only from how it is used: the informer
cache, the API server, the workqueue, package `time`.

### How they interact

`Reconcile` is called for a schedule in the workqueue by a single worker
goroutine. It reads the schedule and the Wake ConfigMap from the informer cache,
asks the evaluator for the direction, lists the targets, and calls one handler
after the other. A handler loads the workload from the cache, consults the
checkpoint Secret (also cached), records the original before it puts the
workload to sleep, or patches the original back and then drops the entry. Every
write goes to the API server and comes back as a watch event; those on the
schedule and on the ConfigMap put the schedule into the workqueue again, as does
the timer that `RequeueAfter` sets. Workloads are not watched in this sense: a
change to one is seen by the next pass, whenever that is. A schedule that is
deleted takes its Wake ConfigMap along by garbage collection, and its gauges by
the next pass; the checkpoint Secret stays.

### What is hard

* **Stale reads.** Everything is decided on a cache that trails the API server,
  and the workload patches carry no precondition.
* **Partial passes.** An error or a crash ends a pass between any two calls, and
  the next pass meets what is half done: a checkpoint without a sleep, a restore
  whose checkpoint is still there, the first of several workloads only.
* **Owners.** Workloads are edited, deleted and recreated under the same name.
* **Several writers of one Secret.** Schedules of one name in two namespaces,
  and two replicas while the lease changes hands.
* **Time.** Windows touch and overlap, clocks shift, overrides expire, and the
  next run must be asked for at the right moment.
* **Users race the operator** on the Wake ConfigMap: both write the same key.
* **Schedules change while workloads sleep.** A spec is narrowed, run dry,
  deleted and recreated; what a pass acts on is what the spec selects then.

`PROJECT.json` lists each hazard at its line with the properties that cover it.

## 2. Modules

| Module | Models |
|---|---|
| `Informer` | one object as a *view*: the versions from the cached one to the live one |
| `WorkloadKinds` | per kind: fields, checkpointed value, slept value, merge patch |
| `Sleeper` | `Reconcile` → `Apply` → handlers → store, one step for each API call, with owners, transitions, late watch events, failures and crashes |
| `ExactRestore` | abstract: what "exact restore" promises, without the operator |
| `SleeperRefinement` | the refinement mapping from `Sleeper` to `ExactRestore` |
| `SleeperInvariant` | the inductive invariant behind `NothingLost` |
| `PassInvariant` | its strengthening to what a pass has achieved half way |
| `SleeperLive` | `Sleeper` with an end to disturbances and fairness |
| `CheckpointStore` | `SetRaw` and `Delete` called concurrently, with the retry loop |
| `Checkpoints` | abstract: the store as a write-once map with one-step calls; `CheckpointStore` has the mapping |
| `ScheduleEvaluator` | `Evaluate` as operators, and its reference definition `FirstFlip` |
| `EvaluatorRuns` | a clock that walks through the inputs of the evaluator |
| `Reconciler` | `Reconcile` seen from the clock, the Wake ConfigMap, the status and the override gauges; schedules and namespaces come and go |
| `ReconcilerInvariant` | what a pass and its timer know, at any pace and at the prompt one |
| `Targeting` | webhook, resolver, pass and target gauges, with users who change specs and owners who change labels |
| `TargetingInvariant` | what a pass has listed, done and counted half way |
| `MC*` | instances for TLC |
| `*Proofs` | lemmas and theorems, one module per component (`InformerProofs`: views) |

`Sleeper`, `Reconciler` and `Targeting` are three sides of one function. In
`Sleeper` the direction of a schedule flips at any time, the targets are fixed
and the status is reduced to the phase; in `Reconciler` the workloads are reduced
to the direction `Apply` was last called with; in `Targeting` a handler is one
step, or half a step when it fails between its two writes, and the clock is a
direction that flips. What each abstracts is a free choice in another, so the safety properties
of `Sleeper` hold for every sequence of directions, those that `Reconciler`
computes included.

### Correspondence with the code

*Views.* `Cached(v)` is what `client.Get` returns, `Live(v)` what a write lands
on. `Commit` appends a version; `Deliver` drops the oldest one. An `Update`
built from a stale read fails (`Synced`), a merge patch or a delete does not.
`MaxLag` bounds the versions in flight: 1 is enough for a read before and after
a write, 2 lets two writes be unseen.

*Handlers.* `pc` walks through `guard` (the PVC guard's own read), `load`,
`get`, `set`, `patch`, `delete`, one value per API call.

| Action | Code |
|---|---|
| `Begin` | `Reconcile` up to `Resolve`: direction, dry-run and targets are fixed for the pass |
| `Guard` | `statefulSetHandler.Sleep`, refusal to delete PVCs |
| `Load` | `loadX`; a Job with active pods and a DaemonSet with the sentinel are left alone |
| `SleepGet`, `RestoreGet` | `Store.Get`/`GetRaw` in `Sleep` and `Restore` |
| `SetRaw`, `Delete` | `Store.SetRaw`, `Store.Delete`; retries are the action staying enabled |
| `Patch`, `PatchMissing` | `MergeFrom` patch on whatever is live; NotFound |
| `Finish` | status update, when the phase changed |
| `Fail`, `Crash` | an error from any call; the operator dies |

A workload is a uid, the fields its handler owns, and `unsafe` (PVCs would be
deleted, or pods are active). `Nil` is an unset field. (An API server fills in
defaults for most of these fields; the handlers take care of unset ones all the
same, and so does the model.) The variables `orig` and `trust` are history: what
the owner asked for last while no checkpoint was held, and the direction in
which all passes went since the cache last was caught up.

*Store.* `CheckpointStore` keeps every version of the Secret; each caller has a
position in that sequence as its cache. `Read`, `Write`, `Retry` are one attempt
of `retry.OnError`; `Accepted` is the API server's precondition. `acked` and
`deleted` are history: the keys some `SetRaw` has acknowledged, and those some
`Delete` has been called for.

*Evaluator.* A week of short days (3 or 4 hours of 1 or 2 minutes of 1 or 2
instants) replaces the calendar: the algorithm depends only on the order of
window edges, days and the offset change. `Date` transcribes how Go's
`time.Date` looks up an offset.

*Reconciler.* `Begin`, `Ensure`, `ProcessWake`, `Apply`, `Finish` are the pass,
`Gone` is one that finds no schedule; `Conflict` is an optimistic write that
loses. An expiry is an instant; `FormatExpiry` cuts off fractions of a second.
A schedule has a uid, and its ConfigMap the uid of its owner: `Collect` is the
garbage collector, which removes an orphan some time after its owner, so that a
recreated schedule may find the ConfigMap of its predecessor. In a namespace that
is being deleted (`doomed`) nothing can be created, and `Ensure` goes on without.

*Targeting.* A spec is a record with the fields of `SleepScheduleSpec` and
`allowPVCDeletion`, the annotation of the schedule that the PVC guard looks at;
labels are sets, a selector the set it asks for, and `valid` says whether
`LabelSelectorAsSelector` accepts it. `Resolve(s)` counts how often each workload
is in the list of refs, which says as much as the list since it is sorted; `len` is the length of that list.
A version of a workload is its labels and `unsafe`: its PVCs would go with a
scale-down (and the object is not annotated to allow it), or its pods are active.
`slept` are the workloads that show the state they sleep in, `saved` those with a
checkpoint. The two differ when a handler stopped between its writes:
`FirstWrite` is the checkpoint of a sleep, or the patch of a restore.

| Action | Code |
|---|---|
| `Propose`, `DeleteSchedule` | `kubectl apply`, `delete`, through the webhook when there is one (`ENABLE_WEBHOOKS`) |
| `Begin`, `Gone` | `Reconcile` up to the direction; NotFound, which drops the gauges |
| `Refused`, `List` | an error of `Evaluate` or `Resolve`; the refs, from the cache |
| `Apply` | one ref of `Sleeper.Apply`: both writes of the handler, or none (`Skips`) |
| `Skips` | dry run; object not there; `Spared` (PVC guard, active Job); a checkpoint that `sleepSuspend` and the HPA handler take for a sleep; nothing to restore |
| `PatchMissing` | a patch of an object that is gone |
| `Fail`, `FailHalfway`, `Restart` | a call fails, before any write or between the two of a handler; the operator dies |
| `Publish`, `Finish` | `metrics.Set`; the status update and return |
| `Flip` | a transition or override, when `RequeueAfter` or the ConfigMap's event is up |
| `Own`, `DeliverWorkload` | owners, and a Job's pods that start or end; the watch of a workload, which enqueues nobody |

`unseen` is history: the workloads with a change that no pass has listed.

## 3. Runs

### Specifications of pace

* `Spec`: anything may happen at any time. The theorems on `WriteOnce` and
  `DryRunIsReadOnly` are about it.
* `SettledSpec`: a pass that goes in another direction than the one before, or
  that is the first one after an owner's change, starts with a cache that has
  caught up (`CacheCaughtUp`), and owners change workloads between passes
  (`OwnersBetweenPasses`). This is the pace the operator is made for: windows are
  minutes to hours apart, the watch trails by milliseconds, a pass takes a
  second. Retries, restarts and status events run passes in one direction on
  caches as stale as `MaxLag` allows, and calls fail anywhere.
* `HurriedSpec`: owners keep out of passes, the cache is as stale as it likes.
* `PromptSpec` (`Reconciler`): the clock moves on when the operator is at rest;
  reconciling takes no time on the clock's scale. `Flip` of `Targeting` is alike.

What happens without these assumptions is shown by `lost_on_quick_wake` and
described below, so the assumptions are stated and not hidden.

### Passing runs

| Run | Question | Instance |
|---|---|---|
| `exact_restore` | is the original never lost, did a pass that reports success do what it reports, and does `PassInv` of the proofs hold? | one schedule that targets a workload of each mechanism; settled pace, dry runs included |
| `two_schedules` | does all that hold where schedules meet, and do entries go one at a time? | two schedules share a Secret; one targets a DaemonSet, the other one that DaemonSet and a Deployment; settled pace; also checked against `ExactRestore` |
| `comes_to_rest` | do passes get where they should, and stop? | one StatefulSet; fairness below |
| `store` | what do concurrent callers do to the Secret? | two callers, keys and values, five versions; also checked against `Checkpoints` |
| `evaluator` | is `Evaluate` right about the next flip? | schedules of one or two windows out of ten in three zones, and out of six in six zones whose clocks shift; every instant of a week |
| `on_time` | do the requeue chain, the status and the ConfigMap follow clock and users, do the gauges agree with the status, and does the operator stop? | three specs, four values under the wake key; ten instants, more than a day; two edits, deletions, failures or restarts |
| `targets` | is the live spec in force, on what it selects and nothing else? | a Deployment, a StatefulSet and a Job in two namespaces, each with labels or without and unsafe to put to sleep or not; six specs the webhook admits and five it refuses; three changes, failures or restarts |

The inductive invariants of the proofs are checked beside the properties they are
for: `PassInv` in `exact_restore` and `two_schedules`, `PromptInv` in `on_time`,
`Inv` in `targets`. The hypotheses of the theorems are evaluated by TLC on the
same instances (`HypothesesHold` in `MCSleeper`, `MCReconciler`, `MCTargeting`):
the proofs are about systems that include those of the runs.

`SleepPassSleeps` speaks of the kinds whose `Sleep` patches also when it finds a
checkpoint; for the others see `cronjob_sleep_retry`. `on_time` allows for the
second that `requeueDelay` waits at least (`JustNow`).

`SparesUnsafe` shows that the guards are there. That they are not atomic with the
patch it does not show: at the settled pace nothing makes a workload unsafe during
a pass. In the code a Job whose pods start between the look and the patch is
suspended, and these pods are deleted. No theorem is stated about it.

`InForce` says of a schedule that is to be awake that all it selects is awake and
has no checkpoint. Of one that is to be asleep it says less than "all sleeps",
because the code does less: `AsAsked` excepts a StatefulSet or Job that is
`Spared`, and a CronJob, Job or HPA that has a checkpoint but was not patched,
which every later pass takes for asleep (`cronjob_sleep_retry`). It does not speak
of a dry run, nor of a workload with a change that no pass has listed (`unseen`).

What the gauges say is under "What the code does otherwise than is said of it".

### Bounds, and why they are enough

The behaviours are not bounded in length: without a step bound the state spaces
of `Sleeper` are finite.

* Workloads. Handlers of different workloads meet in the checkpoint Secret and in
  the order of one pass only; `two_schedules` has both. Everything else is one
  workload at a time, so in `exact_restore` any of the five is created, but only
  one of them (`OneWorkload`). It uses a StatefulSet, which does all a Deployment
  does and has the guard besides.
* Values. Owners have an explicit value and, where the kind allows it, the unset
  one; in `two_schedules` one value (`MCConstantOwner`), and no dry runs (`WetSpec`).
* `MaxUid = 2`: a workload is deleted and recreated under its name.
* `MaxLag = 1`: a read is on either side of the last write. Passes in one
  direction follow each other without waiting for the cache, so a stale read of
  one pass is met in the next.
* `MaxRevisions = 5` versions of the Secret: created, updated by one caller while
  the other holds a read, deleted, created again. `MaxAttempts = 2` (five in the
  code) has a retry and an exhausted one.
* Time. A week of the evaluator has days of 3 hours of 2 minutes of 2 instants;
  every edge, and an instant inside a minute, occurs. `Start` lies a week after
  zero, so the day before the scan exists. In `on_time` the range starts
  just before office hours and ends in the next day's, so that overrides start
  before a flip, outlast it, expire at it and are clamped. Two disturbances let a
  schedule be deleted and recreated (which costs one) with an override of its
  predecessor, or with a crash in between.
* `targets`: three changes make a schedule, change or delete it, and change a
  workload or fail a call. Between them the specs have both modes, a kind that is
  repeated and one without a handler, exclusions with and without a namespace, the
  empty namespace, a dry run, the opt-in to the deletion of PVCs and a selector
  that does not parse; the specs refused have one fault each. At the start the
  StatefulSet is unsafe and the other two are not; one change makes them so. A
  Deployment, a StatefulSet and a Job have between them all that `Skips` tells
  apart: no guard, the PVC guard, and active pods with a checkpoint that is taken
  for a sleep.

### What the code does otherwise than is said of it

Each of these runs checks one statement of the documentation or of a comment,
and TLC finds a behaviour against it. `PROJECT.json` quotes the statement.

| Run | Behaviour |
|---|---|
| `lost_on_quick_wake` | the wake pass reads the count from before the sleep, skips the patch, drops the checkpoint |
| `cronjob_sleep_retry` | checkpoint written, patch failed: no later pass suspends the CronJob (same for Jobs and HPAs) |
| `store_delete_race` | deleting the Secret takes a new entry along |
| `spring_forward` | a window start in the skipped hour, west of Greenwich, is looked for before the gap, where it flips nothing; the window opens after the gap unnoticed, and the next transition found is the next day's |
| `stranded` | a spec is narrowed while its workloads sleep: those that dropped out are not woken, now or later, and their checkpoints stay |

Two lines of the table of metrics in `docs/operator-guide.md` are not what the
code does either. No run is kept for them, since the properties say what it does
instead:

* `nyx_targets_asleep`, "Targeted workloads currently asleep" (line 144), is the
  number of refs that `Resolve` returned, when the direction is asleep.
  `GaugesCount` has it so: counted as asleep are a StatefulSet or Job that was
  spared, a CronJob, Job or HPA that runs on, everything a dry run left alone, and
  twice what is in a namespace that is listed twice.
* `nyx_override_seconds_remaining`, "Seconds until the earliest active override
  expires" (line 147), is set by a pass and stands still until the next one, which
  may be hours away. `GaugesAreTrue` has it so: it is what was left of the live
  override at some earlier instant, and 0 at rest if and only if none is active.

Relaxing an assumption of the passing runs shows more of the kind, for which no
run is kept:

* with Secrets of their own, the second of two schedules that target one workload
  records the slept state as the original (`OverlapSharesSecret` excludes it);
* an owner who recreates a workload between the handler's read and its patch gets
  the predecessor's value on the new object, and a Job whose pods start in that
  moment is suspended with active pods (`OwnersBetweenPasses` excludes both);
* `SetRaw` acknowledges a key it finds in a stale cache although the key has been
  deleted since (`RecordedStays` stops at the first `Delete`);
* in the hour that is repeated when clocks go back, east of Greenwich,
  `time.Date` picks the second occurrence of an edge while `isAwakeAt` flips at
  the first (`CalmWindows` leaves edges in that hour out).

### Fairness

`SleeperLive` assumes weak fairness of the worker's next step and of watch
delivery, after disturbances have ended (`calm`): a goroutine that can run does,
and an established watch delivers. `SetRaw` waiting for the cache relies on the
latter; a failure of all retries is `Fail`, an error that queues the schedule
again, and is a disturbance. `CheckpointStore` needs weak fairness of each
caller's straight-line code only. `Reconciler`'s `FairSpec` has a condition for
the pass, for each of the two watches and for the garbage collector, as one may
be idle while another is not, and adds that time goes by when the operator rests;
disturbances are bounded there by a budget. `Targeting` has the same for the pass
and each watch, and weak fairness of `Flip`: every schedule with a window has
transitions, and `RequeueAfter` is set to the next. (A window that ends before it
starts gives none. The webhook refuses it; without the webhook `PickedUp` takes
something else, an override or a restart, to bring the schedule back.) Nothing is assumed of users,
owners and failures.

### Abstract specifications

`ExactRestore` has, for each workload, what its owner wants, what it shows and
what is saved. Its steps: what is wanted is saved while it is shown; with
something saved the workload may show anything; what is saved is given up when it
is shown again; owners edit what is not saved, and remove what they like.
`SleeperRefinement` maps `Sleeper` to it (the live object as captured, the live
entry of its uid in the Secret of its schedules), and `two_schedules` checks
that at the settled pace every step is one of these. It says more than
`NothingLost`: in which order a handler may do things, and that a new object
never meets the entry of its predecessor.

`Checkpoints` is a write-once map; `CheckpointStore`, with retries, stale caches
and two callers, implements it (`ImplementsCheckpoints`, checked in `store` and
proved). That `Wipe` is among its steps is the price of the unconditional delete
that `store_delete_race` shows.

### Mutants

For each property of each passing run, `PROJECT.json` names a definition and a
mutated form of it (a dropped guard, a swapped order, a missing write) which
stands, marked, before the definition. TLC finds the property violated with it.

## 4. Proofs

All proofs are checked by tlapm with no step left open. They hold for every value
of the constants that satisfies the assumptions stated beside the declarations:

* numbers are what they are in the code, and bounds are naturals
  (`MaxLagAssumption`, `StoreAssumption`, `ClockAssumption`, `RangeAssumption`,
  `ReconcilerAssumption`, which also has the clock start after the zero time);
* data has the shape that the API's schema gives it (`SleeperAssumption`,
  `KindsAssumption`, `WakeAssumption`, `SpecAssumption`, `TargetingAssumption`);
* `Nil`, which stands for what is absent, is none of it (`NilAssumption`,
  `NilIsNoObject`).

What a theorem needs beyond that is its hypothesis, explained below the table. A
state predicate in the second column holds in every reachable state.

| Theorem | States | Pace and hypothesis |
|---|---|---|
| **`SleeperProofs`** | | |
| `TypeCorrect` | `TypeOK` | any |
| `CheckpointsAreWriteOnce` | `WriteOnce` | any |
| `DryRunsReadOnly` | `DryRunIsReadOnly` | any |
| `OriginalsAreNeverLost` | `NothingLost` | settled, `OverlapSharesSecret` |
| **`PassProofs`** | | |
| `PassesKnow` | `PassInv` | settled, `OverlapSharesSecret` |
| `WakePassesRestore` | `WakePassRestores` | settled, `OverlapSharesSecret` |
| `SleepPassesSleep` | `SleepPassSleeps` | settled, `OverlapSharesSecret`, `SentinelIsOurs` |
| `SleeperImplementsExactRestore` | `ImplementsExactRestore` | settled, `OverlapSharesSecret` |
| **`CheckpointStoreProofs`** | | |
| `TypeCorrect` | `TypeOK` | |
| `EntriesAreWriteOnce` | `WriteOnce` | |
| `NoLostUpdates` | `RecordedStays` | |
| `StoreImplementsCheckpoints` | `ImplementsCheckpoints` | |
| **`EvaluatorProofs`** | | |
| `NextTransitionIsFirstFlip` | `NextTransition = FirstFlip` | `Fixed(zone)` |
| **`EvaluatorRunsProofs`** | | |
| `EveryFlipIsFound` | `FindsNextFlip` | `FixedZones` |
| `NoFlipBeyondHorizon` | `HorizonSuffices` | `FixedZones` |
| **`ReconcilerProofs`** | | |
| `TypeCorrect` | `TypeOK` | any |
| `LastWordIsKept` | `UsersHaveLastWord` | any |
| `ExpiryNeverExtended` | `NeverExtended` | any |
| `OperatorKnows` | `Inv` | any, `ThereIsAWatch` |
| `GaugesTellTheTruth` | `GaugesAreTrue` | any, `ThereIsAWatch` |
| `WakeConfigMapIsThere` | `HasWakeConfigMap` | any, `ThereIsAWatch` |
| `PromptOperatorKnows` | `PromptInv` | prompt, `ThereIsAWatch` |
| `OperatorActsOnTime` | `ActsOnTime` | prompt, `ThereIsAWatch`, `EvaluatorIsRight` |
| `StatusTellsTheTruth` | `StatusIsTrue` | prompt, `ThereIsAWatch`, `EvaluatorIsRight` |
| `OverrideCleansUp` | `OverrideIsBounded` | prompt, `ThereIsAWatch`, `EvaluatorIsRight` |
| `RightInAFixedZone` | these three | prompt, `ThereIsAWatch`, `Fixed(Zone)` |
| **`TargetingProofs`** | | |
| `TypeCorrect` | `TypeOK` | |
| `PassesGoByTheSpec` | `Inv` | `ThereIsAWatch` |
| `SpecIsInForce` | `InForce` | `ThereIsAWatch` |
| `GaugesCountTargets` | `GaugesCount` | `ThereIsAWatch` |
| `OthersAreLeftAlone` | `LeavesOthersAlone` | `ThereIsAWatch` |
| `AdmissionSuffices` | `AdmittedSpecsEvaluate` | |

### The hypotheses

* `OverlapSharesSecret`: schedules with a target in common have one checkpoint
  Secret. Without it the code does lose originals (section 3).
* `SentinelIsOurs`: an owner's nodeSelector does not use the operator's key with
  a value of its own. The code takes any value of that key for "asleep", so with
  such an owner a DaemonSet is left running, and rightly so.
* `ThereIsAWatch`: `MaxLag > 0`. In a model without lag a write is in the cache
  at once and no event tells of it, so nothing would put the schedule into the
  queue. It excludes a value of a bound and nothing that a cluster can be.
* `EvaluatorIsRight`: what `Evaluate` says stands until the transition it names,
  and this is the first flip. It is what `EvaluatorProofs` proves for a zone with
  a fixed offset (`FixedZoneIsRight`), which gives `RightInAFixedZone`. Where
  clocks shift it is false at some edges (`spring_forward`) and true at the calm
  ones that the run `evaluator` has.

### The arguments

**Views.** `InformerProofs` and the first part of `SleeperProofs` hold the lemmas
on views and on values: what a commit and a delivery do to the set of versions
still to be read, and that patching an original back onto a slept value gives the
original, for all six kinds.

**Why `NothingLost` needs a strengthening.** It speaks of live versions only,
but the worker acts on stale ones. `SleeperInvariant!Inv` adds: entries hold the
original or nothing (`Recoverable`); between two settlings of the cache all passes
go in one direction (`trust`), and while they put to sleep an object without an
entry has been touched in none of its versions (`AsleepMode`), while they wake an
object changes only to its original and entries only go away (`AwakeMode`); what
the worker holds in its hands agrees with that (`WorkerKnows`); a uid is given out
once (`UidsGivenOut`). The proof has one lemma per action, and under it one step
per conjunct the action can disturb.

**Why a finished pass did its work.** The properties of a pass that is done say
nothing about one half way. `PassInv` does: every ref before `at` is `Handled`,
and what `Resolve` did not list is not there (`Progress`). A target that was
handled stays so because later steps of the pass work on others, or on the same
one in the same direction when it is listed twice. A handler skips its patch on
what it *saw*, so the invariant also needs that what any version of the cache
shows is still so: while passes put to sleep, an object once seen asleep is asleep
(`StaysAsleep`), and what makes an object unsafe is the same in all its versions
(`SameSafety`, which the settled pace gives). `HandlerKnows` is what the checks in
`Guard` and `Load` established.

**Why `Sleeper` implements `ExactRestore`.** The state of `ExactRestore` is one
record per workload, so `MoveRefines` reduces a step to the move of each one, and
one lemma per kind of write shows the move: `SetRaw` writes what is wanted, where
nothing is saved, while it is shown (`Record`); a patch finds the original saved
(`Work`); `Delete` is a `Release` because `AwakeMode` knows that the original is
shown. What owners do is `Own` where nothing is saved and `Work` where something
is; an object that goes leaves its entry behind, which the mapping, by uid, does
not give to the next one (`Remove`).

**Why `RecordedStays` needs one.** A caller that finds its key in a stale cache
returns at once. That is right only if the live Secret still has the key:
`KeysOnlyGrow` says that until a `Delete` is called a key of one version is in
every later one, which in turn needs that what is in flight was made of a version
without the key (`CallsAreSound`) and is no deletion (`DeletesAreRecorded`).

**Why the store implements its promise.** Only `Write` changes the Secret.
`WriteRefines` shows that a write the API server accepts was made of the version
that is live, so that it differs from it by the caller's key alone, and that the
key was not there before a `SetRaw` (both from the invariant behind
`EntriesAreWriteOnce`); a deletion, which has no precondition, is a `Wipe`.

**Why no flip is missed.** In a zone with a fixed offset, day and minute of an
instant move with it (`ClockMoves`, `MinuteMoves`), so that whether a window is
open changes from one instant to the next only at one of its edges
(`EdgeOfWindow`); that edge is among the candidates of the day the scan visits
(`FlipIsBoundary`, `ScanReaches`), which it does for every day of the horizon. The
first flip is therefore a candidate, and every candidate that flips is a flip
(`BoundariesAreAhead`). `WeeksRepeat` closes the case without one: a state that
lasts a week lasts (`HorizonIsEnough`).

**Why the operator is right at rest.** `Heard` says that no watch event is on its
way or queued. Every change of the schedule or its ConfigMap is followed by an
event, so while all is heard the pass holds the latest schedule (`HoldsLatest`)
and what it read of the override is still so (`OverrideIsRead`); this needs no
pace, and gives gauges and ConfigMap. For the rest time must not pass within a
pass: then every pass leaves a `Verdict`, the direction, status and timer for the
instant it looked at. `NextVerdictStands` shows that it outlasts every step: an edit
is not heard yet, and the clock stops where the timer is due (`InTime`), which is no
later than the transition or expiry on which the verdict depends, or within a
second of the pass (`JustNow`). With an evaluator
that is right, the verdict of that instant is the verdict of now.
`UsersHaveLastWord` holds at any pace because a stamp is an update with the version
that was read as its precondition: one based on a stale read is refused.

**Why the spec is in force.** `Resolve` lists exactly the workloads that the spec
selects in the cache, and the cache shows what is live except for the workloads
in `unseen` (`ListedIsSynced`). Half way through the list, those no longer on it
are as the direction asks (`ListIsRight`), in the sense of `AsAsked`: a handler
that skips its writes does so because the workload is as asked already, or is one
of those that `AsAsked` excepts; and a handler that stops half way ends the pass
(`HalfwayEnds`), so that the operator is not at rest. The spec may change
meanwhile, but then an event is to come (`HoldsLatest`). The number of refs is
that of the namespaces listed for each target (`ResolveIsMentions`,
`CountIsRight`), whether or not one is listed twice.

### What the proofs found about the models

TLC had passed all of these; the proofs did not.

* `IsAsleep` compared raw fields. With `sleepReplicas = 1` a Deployment that
  leaves `replicas` unset is asleep as it is, since unset means 1; `exact_restore`
  has 0 and `two_schedules` has no unset value. It compares what is captured now.
* The first instants of time are special: an expiry cut to whole seconds could be
  the zero time, which means "none". The clock starts a second later (`Start >=
  Second`), as any clock of a cluster does.
* The type invariants of `Reconciler` and `Targeting` did not say that a pass
  has a schedule in hand, so they were not inductive.
* The mapping `Keeper` was defined by a choice among no schedules for a workload
  that none targets.

### Model-checked only

* Liveness (`EventuallyRestored`, `EventuallySlept`, `ComesToRest`, `CallsReturn`,
  `PickedUp`): fairness and `ENABLED` are beyond the prover.
* The evaluator in zones whose clocks shift, and with it `EvaluatorIsRight` there.
* `SparesUnsafe`: at the settled pace, at which it holds, it says too little to be
  worth a theorem.
* The runs that refute a statement of the documentation.

## 5. Not modelled

* Audit trail and Events: output, which no part of the program reads. (An event
  is emitted on every pass during an override, also when nothing changed.)
* `nyx_restore_failures_total`: a counter nothing reads. `status.argocdManaged`
  and `status.conditions`: nothing writes them.
* The generated deep copies, the scheme registration, the chart, CI and e2e.
* Sizes: that the checkpoint Secret fits the API server's limit. A refusal for
  this reason is a call that fails (`Fail`).
* Owners of workloads that reconcile continuously (GitOps, HPA controllers) are
  owners that edit at will.
* Corrupt checkpoint values: only the operator writes the Secret.
* The lease protocol, which is controller-runtime's: two replicas that both
  write are the callers of `CheckpointStore`.
* In `Targeting` a handler acts on the live sleep and checkpoint of a workload and
  never on a stale count or Secret: that is `Sleeper`, and `lost_on_quick_wake`
  shows what it leads to. So are owners who scale what sleeps, and a workload that
  is recreated before the cache knows that it is gone.

## 6. Plan

Done: all modules of section 2 and their runs; every safety property that a passing
run checks is proved, under the hypotheses of section 4, bar `SparesUnsafe`.

Next, in this order:

1. `EvaluatorProofs` for a zone whose clock shifts, with windows whose edges stay
   out of the hour that is skipped or repeated (`CalmWindows` as an assumption):
   `isAwakeAt` changes only at an edge or at the shift, and the latter is no flip
   for calm windows. Then `OperatorActsOnTime` in such zones without
   `EvaluatorIsRight`.
2. `LeavesOthersAlone` without `ThereIsAWatch`, for which `HoldsLatest` is not
   needed.
