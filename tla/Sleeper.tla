------------------------------- MODULE Sleeper -------------------------------
(***************************************************************************)
(* The reconcile pass that puts workloads to sleep and restores them:      *)
(* Reconcile -> Resolve -> Sleeper.Apply -> Handler.Sleep / Handler.Restore*)
(* -> checkpoint.Store, one step for each call to the API server.  A       *)
(* single worker runs the passes (MaxConcurrentReconciles is 1); between   *)
(* two of its steps owners edit, delete and recreate workloads, schedules  *)
(* change direction, watch events arrive late, calls fail, and the         *)
(* operator crashes.                                                       *)
(***************************************************************************)
EXTENDS Informer, WorkloadKinds, FiniteSets

CONSTANTS Schedules,      \* SleepSchedule objects
          SecretNames,    \* checkpoint Secrets in the operator namespace
          Workloads,      \* targeted objects, as kind/namespace/name
          Kind,           \* kind of each workload
          SecretOf,       \* secretName of each schedule
          TargetRefs,     \* the refs a schedule targets, in Resolve's order
          OwnerValues,    \* what the owner of a workload may set
          MaxUid          \* bound: identities a workload name may have

ASSUME SleeperAssumption ==
  /\ Kind \in [Workloads -> Kinds]
  /\ SecretOf \in [Schedules -> SecretNames]
  /\ TargetRefs \in [Schedules -> Seq(Workloads)]
  /\ \A w \in Workloads : OwnerValues[w] \subseteq Values(Kind[w])
  /\ MaxUid \in Nat \ {0}

Uids == 1 .. MaxUid

\* A version of a workload: `unsafe' says that scaling it down would destroy
\* something (a StatefulSet whose PVCs go with it, a Job with active pods).
Objects(vals) == [uid : Uids, val : vals, unsafe : BOOLEAN]
Versions(w) == {Nil} \cup Objects(Values(Kind[w]))

ASSUME NilIsNoObject == Nil \notin Objects(AnyValue)

\* A checkpoint Secret maps a workload and a uid to the recorded value; a
\* Secret without entries does not exist (Delete removes it).
Entries(w) == [Uids -> {Nil} \cup Values(Kind[w])]
Secrets == {sec \in [Workloads -> [Uids -> {Nil} \cup AnyValue]] :
              \A w \in Workloads : sec[w] \in Entries(w)}
NoSecret == [w \in Workloads |-> [u \in Uids |-> Nil]]

VARIABLES
  objs,       \* view of every workload
  secrets,    \* view of every checkpoint Secret
  lastUid,    \* per workload name: the identity given out last, 0 for none
  queue,      \* schedules waiting in the workqueue
  desired,    \* per schedule: "asleep" or "awake" now (window, wake override)
  dryRun,     \* per schedule: spec.dryRun
  phase,      \* per schedule: status.phase, as last written
  pc,         \* where the worker is
  cur,        \* schedule being reconciled
  dir,        \* direction of the pass
  dry,        \* spec.dryRun as the pass read it
  listed,     \* the refs Resolve returned
  at,         \* position of the ref being processed in TargetRefs[cur]
  obj,        \* object the handler loaded
  val,        \* checkpointed value Restore read
  orig,       \* history: what the owner last asked for, outside a sleep
  trust       \* history: direction in which reads have been settled

cluster == <<objs, secrets, lastUid>>
control == <<desired, dryRun>>
worker == <<pc, cur, dir, dry, listed, at, obj, val>>
vars == <<cluster, control, queue, phase, worker, orig, trust>>

Directions == {"asleep", "awake"}
PCs == {"idle", "guard", "load", "get", "set", "patch", "delete", "done"}

ref == TargetRefs[cur][at]
secret == secrets[SecretOf[cur]]

LiveObj(w) == Live(objs[w])
LiveEntry(s, w, u) == Live(secrets[SecretOf[s]])[w][u]

Targets(s) == {TargetRefs[s][i] : i \in DOMAIN TargetRefs[s]}
TargetedBy(w) == {s \in Schedules : w \in Targets(s)}

\* The checkpoint holds the workload's original: the operator has slept it,
\* or is about to.
Engaged(w, u) == \E s \in TargetedBy(w) : LiveEntry(s, w, u) # Nil

-----------------------------------------------------------------------------

\* The operator starts in a cluster without workloads; owners create them.
Init ==
  /\ objs = [w \in Workloads |-> <<Nil>>]
  /\ secrets = [n \in SecretNames |-> <<NoSecret>>]
  /\ lastUid = [w \in Workloads |-> 0]
  /\ queue = Schedules
  /\ desired \in [Schedules -> Directions]
  /\ dryRun \in [Schedules -> BOOLEAN]
  /\ phase = [s \in Schedules |-> "none"]
  /\ pc = "idle"
  /\ cur \in Schedules
  /\ dir = "awake"
  /\ dry = FALSE
  /\ listed = {}
  /\ at = 0
  /\ obj = Nil
  /\ val = Nil
  /\ orig = [w \in Workloads |-> Nil]
  /\ trust = "none"

-----------------------------------------------------------------------------
(* The worker.                                                             *)

\* Apply goes from position i on to j, the next ref of s that was listed.
IsNextRef(s, refs, i, j) ==
  /\ j <= Len(TargetRefs[s]) => TargetRefs[s][j] \in refs
  /\ \A k \in i .. j - 1 : TargetRefs[s][k] \notin refs

\* Mutant: the loop over the refs has no end.
HandlerStartPastEnd(s, d, j) == "load"

\* Sleep of a StatefulSet reads the object once for the PVC guard and again
\* to scale it; every other handler loads it once.
HandlerStart(s, d, j) ==
  IF j > Len(TargetRefs[s]) THEN "done"
  ELSE IF d = "asleep" /\ Kind[TargetRefs[s][j]] = "StatefulSet" THEN "guard"
  ELSE "load"

StartRefAfter(s, d, refs, i) ==
  \E j \in i + 1 .. Len(TargetRefs[s]) + 1 :
    /\ IsNextRef(s, refs, i + 1, j)
    /\ at' = j
    /\ pc' = HandlerStart(s, d, j)

\* The handler returned nil: Apply goes on with the next ref.
NextRef ==
  /\ StartRefAfter(cur, dir, listed, at)
  /\ obj' = Nil
  /\ val' = Nil
  /\ UNCHANGED <<cur, dir, dry, listed>>

GoTo(label) ==
  /\ pc' = label
  /\ UNCHANGED <<cur, dir, dry, listed, at>>

\* Reconcile takes a schedule off the workqueue, decides the direction and
\* resolves the targets to the objects the cache lists.
Begin(s) ==
  /\ pc = "idle"
  /\ s \in queue
  /\ queue' = queue \ {s}
  /\ cur' = s
  /\ dir' = desired[s]
  /\ dry' = dryRun[s]
  /\ listed' = {w \in Targets(s) : Cached(objs[w]) # Nil}
  /\ StartRefAfter(s, desired[s], listed', 0)
  /\ trust' = desired[s]
  /\ UNCHANGED <<cluster, control, phase, obj, val, orig>>

\* Mutant: the retention policy is not looked at.
GuardNothing ==
  /\ pc = "guard"
  /\ GoTo("load") /\ UNCHANGED <<obj, val>>
  /\ UNCHANGED <<cluster, control, queue, phase, orig, trust>>

\* statefulSetHandler.Sleep refuses when the scale-down would delete PVCs.
Guard ==
  /\ pc = "guard"
  /\ LET o == Cached(objs[ref])
     IN  IF o = Nil \/ (o # Nil /\ o.unsafe)
         THEN NextRef
         ELSE GoTo("load") /\ UNCHANGED <<obj, val>>
  /\ UNCHANGED <<cluster, control, queue, phase, orig, trust>>

\* Mutant: a Job's active pods are not looked at.
NeverActive(kind, o) == FALSE

\* Suspending a Job deletes its active pods.
HasActivePods(kind, o) == kind = "Job" /\ o.unsafe

\* A DaemonSet that carries the sentinel is asleep; in dry-run its handler
\* does not go as far as the checkpoint.
NeedsNoSentinel(kind, o) == kind = "DaemonSet" /\ (o.val[sentinelKey] # Nil \/ dry)

\* What makes Sleep return before it looks at the checkpoint.
SkipsSleep(kind, o) == HasActivePods(kind, o) \/ NeedsNoSentinel(kind, o)

\* The handler loads the object; a vanished one is skipped.
Load ==
  /\ pc = "load"
  /\ LET o == Cached(objs[ref])
     IN  IF o = Nil \/ (o # Nil /\ dir = "asleep" /\ SkipsSleep(Kind[ref], o))
         THEN NextRef
         ELSE GoTo("get") /\ obj' = o /\ UNCHANGED val
  /\ UNCHANGED <<cluster, control, queue, phase, orig, trust>>

\* The kinds whose Sleep takes a checkpoint to mean "already slept by us".
SleepsOnce(kind) == kind \notin ReplicaKinds \cup {"DaemonSet"}

\* Mutant: a checkpoint means "already asleep", for every kind.
SleepGetOnce ==
  /\ pc = "get" /\ dir = "asleep"
  /\ LET found == Cached(secret)[ref][obj.uid] # Nil
     IN  \/ (found \/ dry) /\ NextRef
         \/ ~found /\ ~dry /\ GoTo("set") /\ UNCHANGED <<obj, val>>
  /\ UNCHANGED <<cluster, control, queue, phase, orig, trust>>

\* Mutant: the object is scaled down without a checkpoint.
SleepGetNoRecord ==
  /\ pc = "get" /\ dir = "asleep"
  /\ GoTo("patch") /\ UNCHANGED <<obj, val>>
  /\ UNCHANGED <<cluster, control, queue, phase, orig, trust>>

\* Mutant: a dry run records the original.
SleepGetWet ==
  /\ pc = "get" /\ dir = "asleep"
  /\ LET found == Cached(secret)[ref][obj.uid] # Nil
     IN  \/ found /\ GoTo("patch") /\ UNCHANGED <<obj, val>>
         \/ ~found /\ GoTo("set") /\ UNCHANGED <<obj, val>>
  /\ UNCHANGED <<cluster, control, queue, phase, orig, trust>>

\* Sleep looks for a checkpoint entry.  When there is one, the handlers
\* that sleep once return; the others go on to patch.  When there is none, a
\* dry run returns (the replica handlers reach a patch that does nothing).
SleepGet ==
  /\ pc = "get" /\ dir = "asleep"
  /\ LET found == Cached(secret)[ref][obj.uid] # Nil
     IN  \/ found /\ SleepsOnce(Kind[ref]) /\ NextRef
         \/ found /\ ~SleepsOnce(Kind[ref]) /\ GoTo("patch") /\ UNCHANGED <<obj, val>>
         \/ ~found /\ dry /\ NextRef
         \/ ~found /\ ~dry /\ GoTo("set") /\ UNCHANGED <<obj, val>>
  /\ UNCHANGED <<cluster, control, queue, phase, orig, trust>>

\* Mutant: the entry is dropped first; a retry finds nothing to restore.
RestoreGetDropsFirst ==
  /\ pc = "get" /\ dir = "awake"
  /\ LET entry == Cached(secret)[ref][obj.uid]
     IN  IF entry = Nil \/ dry
         THEN NextRef
         ELSE GoTo("delete") /\ val' = entry /\ UNCHANGED obj
  /\ UNCHANGED <<cluster, control, queue, phase, orig, trust>>

\* Restore reads the checkpoint entry; without one it is a no-op, and a dry
\* run leaves everything in place.
RestoreGet ==
  /\ pc = "get" /\ dir = "awake"
  /\ LET entry == Cached(secret)[ref][obj.uid]
     IN  IF entry = Nil \/ dry
         THEN NextRef
         ELSE GoTo("patch") /\ val' = entry /\ UNCHANGED obj
  /\ UNCHANGED <<cluster, control, queue, phase, orig, trust>>

\* The entry SetRaw writes.
WithEntry(sec, w, u, v) == [sec EXCEPT ![w][u] = v]

\* Mutant: the entry is written also when there is one.
SetRawClobbers ==
  /\ pc = "set"
  /\ Synced(secret)
  /\ LET new == WithEntry(Cached(secret), ref, obj.uid, Captured(Kind[ref], obj.val))
     IN  secrets' = [secrets EXCEPT ![SecretOf[cur]] = Commit(@, new)]
  /\ GoTo("patch")
  /\ UNCHANGED <<objs, lastUid, control, queue, phase, obj, val, orig, trust>>

\* Store.SetRaw: keep an entry that is there, create the Secret when there is
\* none, else update it.  A Create over an existing Secret (AlreadyExists) and
\* an Update of a stale read (Conflict) are retried: the step stays enabled
\* for when the cache has caught up.  Giving up is Fail, and so is the NotFound
\* of an Update whose Secret is gone.
SetRaw ==
  /\ pc = "set"
  /\ LET sec == Cached(secret)
         new == WithEntry(sec, ref, obj.uid, Captured(Kind[ref], obj.val))
     IN  \/ /\ sec[ref][obj.uid] # Nil
            /\ UNCHANGED secrets
         \/ /\ sec[ref][obj.uid] = Nil
            /\ IF sec = NoSecret THEN Live(secret) = NoSecret ELSE Synced(secret)
            /\ secrets' = [secrets EXCEPT ![SecretOf[cur]] = Commit(@, new)]
  /\ GoTo("patch")
  /\ UNCHANGED <<objs, lastUid, control, queue, phase, obj, val, orig, trust>>

\* What the pass wants the object's fields to be.
Want == IF dir = "asleep" THEN SleptValue(Kind[ref], obj.val)
                          ELSE val

\* The handlers' merge patch.  It names the object, not its uid or version.
Patch ==
  /\ pc = "patch"
  /\ \/ /\ SkipsPatch(Kind[ref], obj.val, Want) \/ dry
        /\ UNCHANGED objs
     \/ /\ ~SkipsPatch(Kind[ref], obj.val, Want) /\ ~dry
        /\ LiveObj(ref) # Nil
        /\ LET new == MergePatch(Kind[ref], LiveObj(ref).val, obj.val, Want)
           IN  objs' = [objs EXCEPT ![ref] =
                          CommitChange(@, [LiveObj(ref) EXCEPT !.val = new])]
  /\ IF dir = "asleep" THEN NextRef
                       ELSE GoTo("delete") /\ UNCHANGED <<obj, val>>
  /\ UNCHANGED <<secrets, lastUid, control, queue, phase, orig, trust>>

\* Mutant: the entry stays.
DeleteNothing ==
  /\ pc = "delete"
  /\ NextRef
  /\ UNCHANGED <<cluster, control, queue, phase, orig, trust>>

\* Mutant: the Update does not fail on a stale read.
DeleteBlindly ==
  /\ pc = "delete"
  /\ LET sec == Cached(secret)
         new == WithEntry(sec, ref, obj.uid, Nil)
     IN  /\ sec[ref][obj.uid] # Nil
         /\ secrets' = [secrets EXCEPT ![SecretOf[cur]] = CommitChange(@, new)]
  /\ NextRef
  /\ UNCHANGED <<objs, lastUid, control, queue, phase, orig, trust>>

\* Store.Delete: drop the entry.  Dropping the last one deletes the Secret,
\* unconditionally; otherwise the Secret is updated, if the read was fresh.
Delete ==
  /\ pc = "delete"
  /\ LET sec == Cached(secret)
         new == WithEntry(sec, ref, obj.uid, Nil)
     IN  \/ /\ sec[ref][obj.uid] = Nil
            /\ UNCHANGED secrets
         \/ /\ sec[ref][obj.uid] # Nil
            /\ new = NoSecret \/ Synced(secret)
            /\ secrets' = [secrets EXCEPT ![SecretOf[cur]] = CommitChange(@, new)]
  /\ NextRef
  /\ UNCHANGED <<objs, lastUid, control, queue, phase, orig, trust>>

\* Mutant: the status is written also when nothing changed.
FinishAlwaysWrites ==
  /\ pc = "done"
  /\ phase' = [phase EXCEPT ![cur] = dir]
  /\ queue' = queue \cup {cur}
  /\ pc' = "idle"
  /\ listed' = {} /\ at' = 0
  /\ UNCHANGED <<cluster, control, cur, dir, dry, obj, val, orig, trust>>

\* The pass went through: write the status if the phase changed.  The write
\* comes back as a watch event, which enqueues the schedule once more.
Finish ==
  /\ pc = "done"
  /\ phase' = [phase EXCEPT ![cur] = dir]
  /\ queue' = IF phase[cur] = dir THEN queue ELSE queue \cup {cur}
  /\ pc' = "idle"
  /\ listed' = {} /\ at' = 0
  /\ UNCHANGED <<cluster, control, cur, dir, dry, obj, val, orig, trust>>

\* The pass is over without having gone through.
Drop == /\ pc' = "idle"
        /\ listed' = {} /\ at' = 0
        /\ obj' = Nil
        /\ val' = Nil
        /\ UNCHANGED <<cluster, control, phase, cur, dir, dry, orig, trust>>

\* Reconcile returns an error: the schedule goes back to the workqueue.
ReturnError == Drop /\ queue' = queue \cup {cur}

\* The patch of an object that is gone is a NotFound error.
PatchMissing ==
  /\ pc = "patch"
  /\ ~SkipsPatch(Kind[ref], obj.val, Want) /\ ~dry
  /\ LiveObj(ref) = Nil
  /\ ReturnError

\* A call fails (when its write landed nonetheless, it is the next step that
\* fails), retries run out, or the status update loses a conflict.
Fail ==
  /\ pc # "idle"
  /\ ReturnError

\* The operator dies and a replica takes over; its initial list enqueues every
\* schedule.  Its cache may trail, like the old one's.
Crash ==
  /\ Drop
  /\ queue' = Schedules

Worker == \/ \E s \in Schedules : Begin(s)
          \/ Guard \/ Load \/ SleepGet \/ RestoreGet \/ SetRaw \/ Patch \/ Delete
          \/ PatchMissing \/ Finish

-----------------------------------------------------------------------------
(* The rest of the cluster.                                                *)

\* A transition or a wake override turns the schedule over.
Flip(s) ==
  /\ desired' = [desired EXCEPT ![s] = IF @ = "asleep" THEN "awake" ELSE "asleep"]
  /\ queue' = queue \cup {s}
  /\ UNCHANGED <<cluster, dryRun, phase, worker, orig, trust>>

ToggleDryRun(s) ==
  /\ dryRun' = [dryRun EXCEPT ![s] = ~@]
  /\ queue' = queue \cup {s}
  /\ UNCHANGED <<cluster, desired, phase, worker, orig, trust>>

\* A resync, or an event on the Wake ConfigMap.
Enqueue(s) ==
  /\ queue' = queue \cup {s}
  /\ UNCHANGED <<cluster, control, phase, worker, orig, trust>>

\* The owner of workload w writes a version of it.  What the owner asks for is
\* the original from then on, except while the operator holds a checkpoint.
OwnerWrite(w, version) ==
  /\ objs' = [objs EXCEPT ![w] = Commit(@, version)]
  /\ orig' = IF Engaged(w, version.uid) THEN orig
             ELSE [orig EXCEPT ![w] = Captured(Kind[w], version.val)]
  /\ trust' = "none"
  /\ UNCHANGED <<secrets, control, queue, phase, worker>>

Edit(w, v) ==
  /\ LiveObj(w) # Nil /\ LiveObj(w).val # v
  /\ OwnerWrite(w, [LiveObj(w) EXCEPT !.val = v])
  /\ UNCHANGED lastUid

\* Same name, new identity.
Create(w, v) ==
  /\ LiveObj(w) = Nil /\ lastUid[w] < MaxUid
  /\ lastUid' = [lastUid EXCEPT ![w] = @ + 1]
  /\ OwnerWrite(w, [uid |-> lastUid[w] + 1, val |-> v, unsafe |-> FALSE])

\* The retention policy changes; a Job's pods start or end.
ToggleUnsafe(w) ==
  /\ LiveObj(w) # Nil /\ Kind[w] \in {"StatefulSet", "Job"}
  /\ objs' = [objs EXCEPT ![w] =
                Commit(@, [LiveObj(w) EXCEPT !.unsafe = ~LiveObj(w).unsafe])]
  /\ trust' = "none"
  /\ UNCHANGED <<secrets, lastUid, control, queue, phase, worker, orig>>

DeleteObj(w) ==
  /\ LiveObj(w) # Nil
  /\ objs' = [objs EXCEPT ![w] = Commit(@, Nil)]
  /\ UNCHANGED <<secrets, lastUid, control, queue, phase, worker, orig, trust>>

\* A watch event reaches the cache.
Deliver ==
  /\ \/ \E w \in Workloads : /\ ~Synced(objs[w])
                             /\ objs' = [objs EXCEPT ![w] = Delivered(@)]
                             /\ UNCHANGED secrets
     \/ \E n \in SecretNames : /\ ~Synced(secrets[n])
                               /\ secrets' = [secrets EXCEPT ![n] = Delivered(@)]
                               /\ UNCHANGED objs
  /\ UNCHANGED <<lastUid, control, queue, phase, worker, orig, trust>>

Faults == Fail \/ Crash

Owners == \E w \in Workloads :
            \/ \E v \in OwnerValues[w] : Edit(w, v) \/ Create(w, v)
            \/ ToggleUnsafe(w) \/ DeleteObj(w)

Control == \E s \in Schedules : Flip(s) \/ ToggleDryRun(s) \/ Enqueue(s)

Next == Worker \/ Faults \/ Owners \/ Control \/ Deliver

Spec == Init /\ [][Next]_vars

-----------------------------------------------------------------------------
(* The pace at which the design is meant to be driven.  Schedules turn over *)
(* minutes or hours apart and the watch trails by milliseconds, so a pass   *)
(* that acts in another direction than the one before it, or the first one  *)
(* after an owner's change, finds the cache caught up; and owners' changes  *)
(* fall between passes.  Passes in one direction may follow each other at   *)
(* any speed (retries, restarts, status events), on whatever the cache has. *)

AllSynced == /\ \A w \in Workloads : Synced(objs[w])
             /\ \A n \in SecretNames : Synced(secrets[n])

CacheCaughtUp == (pc = "idle" /\ pc' # "idle") => (trust = dir' \/ AllSynced)

OwnersBetweenPasses == trust' = "none" => pc = "idle"

Settled == CacheCaughtUp /\ OwnersBetweenPasses

SettledNext == Next /\ Settled

SettledSpec == Init /\ [][SettledNext]_vars

\* Owners keep out of passes, but passes do not wait for the cache.
HurriedSpec == Init /\ [][Next /\ OwnersBetweenPasses]_vars

-----------------------------------------------------------------------------
(* Properties.                                                             *)

ClusterOK ==
  /\ objs \in [Workloads -> Views({Nil} \cup Objects(AnyValue))]
  /\ \A w \in Workloads : objs[w] \in Views(Versions(w))
  /\ secrets \in [SecretNames -> Views(Secrets)]
  /\ lastUid \in [Workloads -> 0 .. MaxUid]

ControlOK ==
  /\ queue \subseteq Schedules
  /\ desired \in [Schedules -> Directions]
  /\ dryRun \in [Schedules -> BOOLEAN]
  /\ phase \in [Schedules -> Directions \cup {"none"}]

\* Steps at which the handler has an object in hand.
Holding == {"get", "set", "patch", "delete"}

WorkerOK ==
  /\ pc \in PCs
  /\ cur \in Schedules
  /\ dir \in Directions
  /\ dry \in BOOLEAN
  /\ listed \subseteq Workloads
  /\ at \in Nat
  /\ pc \notin {"idle", "done"} => at \in 1 .. Len(TargetRefs[cur])
  /\ pc \in Holding => obj \in Objects(Values(Kind[ref]))
  /\ (pc = "patch" /\ dir = "awake") => val \in Values(Kind[ref])
  /\ pc = "set" => dir = "asleep"
  /\ pc = "delete" => dir = "awake"

HistoryOK ==
  /\ orig \in [Workloads -> {Nil} \cup AnyValue]
  /\ \A w \in Workloads : orig[w] \in {Nil} \cup Values(Kind[w])
  /\ trust \in Directions \cup {"none"}

TypeOK == ClusterOK /\ ControlOK /\ WorkerOK /\ HistoryOK

\* Exact restore (README.md "Exact restore", store.go SetRaw/Delete and the
\* handlers together): whatever step fails, whenever the operator dies, the
\* state the owner asked for is in the workload or in its checkpoint.
NothingLost ==
  \A w \in Workloads :
    LiveObj(w) # Nil =>
      \/ Captured(Kind[w], LiveObj(w).val) = orig[w]
      \/ \E s \in TargetedBy(w) : LiveEntry(s, w, LiveObj(w).uid) = orig[w]

\* A wake pass that reports success (Apply returned nil) has restored every
\* target to the owner's state and cleared its checkpoint entry.
WakePassRestores ==
  (pc = "done" /\ dir = "awake" /\ ~dry) =>
    \A w \in Targets(cur) :
      LiveObj(w) # Nil =>
        /\ Captured(Kind[w], LiveObj(w).val) = orig[w]
        /\ LiveEntry(cur, w, LiveObj(w).uid) = Nil

PassSleeps(kinds) ==
  (pc = "done" /\ dir = "asleep" /\ ~dry) =>
    \A w \in Targets(cur) :
      (Kind[w] \in kinds /\ LiveObj(w) # Nil) =>
        LiveObj(w).unsafe \/ IsAsleep(Kind[w], LiveObj(w).val)

\* A sleep pass that reports success leaves its targets asleep, whatever
\* earlier passes failed at, bar those that the handlers must spare.
SleepPassSleeps == PassSleeps({k \in Kinds : ~SleepsOnce(k)})

\* The same of every kind: a checkpoint means "already slept by us -- idempotent
\* no-op" (suspend.go).
CheckpointMeansAsleep == PassSleeps(Kinds)

\* The worker's own steps.
WorkerStep == pc # "idle" /\ worker' # worker

\* A dry-run pass writes neither a workload nor a checkpoint, whichever
\* handler runs and whatever it finds.
DryRunIsReadOnly == [][(WorkerStep /\ dry) => UNCHANGED <<objs, secrets>>]_vars

\* A recorded original is never overwritten (SetRaw: "never clobber the
\* recorded original"): the entry of a workload changes only by going away.
WriteOnce ==
  [][\A s \in Schedules, w \in Workloads, u \in Uids :
       LET old == LiveEntry(s, w, u) new == LiveEntry(s, w, u)'
       IN  old # Nil => new \in {old, Nil}]_vars

\* A sleep pass takes down no StatefulSet whose PVCs would be deleted and no
\* Job with active pods (statefulset.go, job.go), when these do not come about
\* between its look and its patch.  They may: the look is a read of the cache,
\* the patch names no version, and a Job's pods start by themselves.  At the
\* settled pace nobody changes that bit during a pass, so this says that the
\* guards are there and not that they are atomic with the patch.
SparesUnsafe ==
  [][\A w \in Workloads :
       (/\ pc = "patch" /\ dir = "asleep" /\ WorkerStep
        /\ LiveObj(w) # Nil /\ LiveObj(w).unsafe) => objs'[w] = objs[w]]_vars
=============================================================================
