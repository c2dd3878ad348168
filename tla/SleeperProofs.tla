---------------------------- MODULE SleeperProofs ----------------------------
(***************************************************************************)
(* Type correctness of the reconcile pass, write-once checkpoints and      *)
(* read-only dry runs under any interleaving; and nothing is lost at the   *)
(* settled pace, where Inv is inductive: each step is shown to keep what   *)
(* is known of the cluster (ClusterKnows) and what the worker knows of it  *)
(* (WorkerKnows).                                                          *)
(***************************************************************************)
EXTENDS SleeperInvariant, InformerProofs

-----------------------------------------------------------------------------
(* What the handlers' values and patches preserve, for every kind.         *)

\* Both replica kinds have the values of a Deployment, both suspend kinds the
\* values of a CronJob.
LEMMA ValuesAreAny ==
  ASSUME NEW kind \in Kinds
  PROVE  Values(kind) \subseteq AnyValue
<1>1. CASE kind \in ReplicaKinds
  <2>1. Fields(kind) = Fields("Deployment") /\ Scalars(kind) = Scalars("Deployment")
    BY <1>1 DEF Fields, Scalars, ReplicaKinds, SuspendKinds
  <2> QED
    BY <2>1 DEF AnyValue, Values
<1>2. CASE kind \in SuspendKinds
  <2>1. Fields(kind) = Fields("CronJob") /\ Scalars(kind) = Scalars("CronJob")
    BY <1>2 DEF Fields, Scalars, ReplicaKinds, SuspendKinds
  <2> QED
    BY <2>1 DEF AnyValue, Values
<1>3. CASE kind \in {"DaemonSet", "HorizontalPodAutoscaler"}
  BY <1>3 DEF AnyValue
<1> QED
  BY <1>1, <1>2, <1>3 DEF Kinds

\* The replica kinds in plain terms.
LEMMA ReplicaValues ==
  ASSUME NEW kind \in ReplicaKinds
  PROVE  Values(kind) = [{"replicas"} -> {Nil} \cup Nat]
  BY DEF Values, Fields, Scalars, ReplicaKinds, SuspendKinds

\* The captured value is a value, and capturing it again changes nothing.
LEMMA CapturedIsValue ==
  ASSUME NEW kind \in Kinds, NEW v \in Values(kind)
  PROVE  /\ Captured(kind, v) \in Values(kind)
         /\ Captured(kind, Captured(kind, v)) = Captured(kind, v)
<1>1. CASE kind \in ReplicaKinds
  BY <1>1, ReplicaValues, KindsAssumption DEF Captured
<1>2. CASE kind \notin ReplicaKinds
  BY <1>2 DEF Captured
<1> QED
  BY <1>1, <1>2

\* Sleep asks for a value of the kind.
LEMMA SleptIsValue ==
  ASSUME NEW kind \in Kinds, NEW v \in Values(kind)
  PROVE  SleptValue(kind, v) \in Values(kind)
<1> USE KindsAssumption
<1>1. CASE kind \in ReplicaKinds
  <2>1. SleptValue(kind, v) = [v EXCEPT !["replicas"] = SleepReplicas]
    BY <1>1 DEF SleptValue, scaledDown, ReplicaKinds, SuspendKinds
  <2> QED
    BY <1>1, <2>1, ReplicaValues
<1>2. CASE kind \in SuspendKinds
  <2>1. Values(kind) = [{"suspend"} -> {Nil} \cup BOOLEAN]
    BY <1>2 DEF Values, Fields, Scalars, ReplicaKinds, SuspendKinds
  <2>2. SleptValue(kind, v) = [v EXCEPT !["suspend"] = TRUE]
    BY <1>2 DEF SleptValue, suspended, ReplicaKinds, SuspendKinds
  <2> QED
    BY <2>1, <2>2
<1>3. CASE kind = "DaemonSet"
  <2>1. Values(kind) = [NodeLabels \cup {sentinelKey} -> {Nil} \cup LabelValues]
    BY <1>3 DEF Values, Fields, Scalars, ReplicaKinds, SuspendKinds
  <2>2. SleptValue(kind, v) = [v EXCEPT ![sentinelKey] = "true"]
    BY <1>3 DEF SleptValue, withSentinel, ReplicaKinds, SuspendKinds
  <2> QED
    BY <2>1, <2>2
<1>4. CASE kind = "HorizontalPodAutoscaler"
  <2>1. Values(kind) = [Fields(kind) -> {Nil} \cup Nat]
    BY <1>4 DEF Values, Scalars, SuspendKinds
  <2>2. SleptValue(kind, v) = [f \in Fields(kind) |-> neutralized]
    BY <1>4 DEF SleptValue, ReplicaKinds, SuspendKinds
  <2>3. neutralized \in Nat
    BY DEF neutralized
  <2> QED
    BY <2>1, <2>2, <2>3
<1> QED
  BY <1>1, <1>2, <1>3, <1>4 DEF Kinds

\* A patched value is a value of the kind.
LEMMA MergePatchIsValue ==
  ASSUME NEW kind \in Kinds, NEW live \in Values(kind), NEW base \in Values(kind),
         NEW want \in Values(kind)
  PROVE  MergePatch(kind, live, base, want) \in Values(kind)
  BY DEF MergePatch, Values

\* The patch of Restore brings the original back, field by field, when the
\* object read was the live one or the live one is the original already.
LEMMA RestorePatch ==
  ASSUME NEW kind \in Kinds, NEW live \in Values(kind), NEW base \in Values(kind),
         NEW want \in Values(kind),
         Captured(kind, want) = want,
         base = live \/ Captured(kind, live) = want
  PROVE  Captured(kind, MergePatch(kind, live, base, want)) = want
<1> DEFINE new == MergePatch(kind, live, base, want)
<1>1. CASE new = want
  BY <1>1
<1>2. CASE new # want
  <2>1. new = [f \in Fields(kind) |-> IF want[f] = base[f] THEN live[f] ELSE want[f]]
    BY <1>2 DEF MergePatch
  <2>2. base # live
    BY <1>2, <2>1 DEF Values
  <2>3. Captured(kind, live) = want
    BY <2>2
  <2>4. CASE kind \in ReplicaKinds
    <3>1. Fields(kind) = {"replicas"}
      BY <2>4 DEF Fields, ReplicaKinds, SuspendKinds
    <3>2. new = live \/ new = want
      BY <2>1, <3>1 DEF Values
    <3> QED
      BY <1>2, <2>3, <3>2
  <2>5. CASE kind \notin ReplicaKinds
    <3>1. live = want
      BY <2>3, <2>5 DEF Captured
    <3> QED
      BY <1>2, <2>1, <3>1 DEF Values
  <2> QED
    BY <2>4, <2>5
<1> QED
  BY <1>1, <1>2

\* A patch sets each field to what is wanted or leaves it.
LEMMA MergePatchFields ==
  ASSUME NEW kind \in Kinds, NEW live \in Values(kind), NEW base \in Values(kind),
         NEW want \in Values(kind), NEW f \in Fields(kind)
  PROVE  /\ MergePatch(kind, live, base, want)[f] \in {live[f], want[f]}
         /\ want[f] # base[f] => MergePatch(kind, live, base, want)[f] = want[f]
  BY DEF MergePatch

\* A DaemonSet is asleep when it has the sentinel.
LEMMA SentinelSleeps ==
  ASSUME NEW v \in Values("DaemonSet"), v[sentinelKey] = "true"
  PROVE  IsAsleep("DaemonSet", v)
<1>1. Captured("DaemonSet", v) = v /\ SleptValue("DaemonSet", v) = withSentinel(v)
  BY DEF Captured, SleptValue, ReplicaKinds, SuspendKinds
<1>2. withSentinel(v) = v
  BY DEF withSentinel, Values
<1> QED
  BY <1>1, <1>2 DEF IsAsleep

\* And has it when it is asleep.
LEMMA AsleepHasSentinel ==
  ASSUME NEW v \in Values("DaemonSet"), IsAsleep("DaemonSet", v)
  PROVE  v[sentinelKey] # Nil
<1>1. Captured("DaemonSet", v) = v /\ SleptValue("DaemonSet", v) = withSentinel(v)
  BY DEF Captured, SleptValue, ReplicaKinds, SuspendKinds
<1>2. sentinelKey \in Fields("DaemonSet")
  BY DEF Fields, ReplicaKinds, SuspendKinds
<1> QED
  BY <1>1, <1>2, KindsAssumption DEF IsAsleep, withSentinel, Values

\* The patch of Sleep puts a replica kind to sleep, and a DaemonSet that had no
\* sentinel when it was read, whatever is live by then.
LEMMA SleepPatch ==
  ASSUME NEW kind \in ReplicaKinds \cup {"DaemonSet"},
         NEW live \in Values(kind), NEW base \in Values(kind),
         kind = "DaemonSet" => base[sentinelKey] = Nil,
         ~SkipsPatch(kind, base, SleptValue(kind, base))
  PROVE  IsAsleep(kind, MergePatch(kind, live, base, SleptValue(kind, base)))
<1> DEFINE want == SleptValue(kind, base)
           new == MergePatch(kind, live, base, want)
<1>1. kind \in Kinds
  BY DEF Kinds
<1>2. want \in Values(kind) /\ new \in Values(kind)
  BY <1>1, SleptIsValue, MergePatchIsValue
<1>3. \A f \in Fields(kind) : want[f] # base[f] => new[f] = want[f]
  BY <1>1, <1>2, MergePatchFields
<1>4. CASE kind \in ReplicaKinds
  <2>1. /\ Values(kind) = [{"replicas"} -> {Nil} \cup Nat] /\ "replicas" \in Fields(kind)
        /\ \A v : SleptValue(kind, v) = [v EXCEPT !["replicas"] = SleepReplicas]
    BY <1>4, ReplicaValues DEF Fields, SleptValue, scaledDown, ReplicaKinds, SuspendKinds
  <2>2. want["replicas"] = SleepReplicas
    BY <2>1
  <2>3. base["replicas"] # SleepReplicas
    BY <1>4, <2>1, KindsAssumption DEF SkipsPatch, Captured
  <2> SUFFICES IsAsleep(kind, new)
    OBVIOUS
  <2> HIDE DEF new, want
  <2>4. new["replicas"] = SleepReplicas
    BY <1>3, <2>1, <2>2, <2>3
  <2>5. Captured(kind, new) = new
    BY <2>4, KindsAssumption DEF Captured
  <2>6. SleptValue(kind, new) = new
    BY <1>2, <2>1, <2>4
  <2> QED
    BY <2>5, <2>6 DEF IsAsleep
<1>5. CASE kind = "DaemonSet"
  <2>1. sentinelKey \in Fields(kind) /\ want = [base EXCEPT ![sentinelKey] = "true"]
    BY <1>5 DEF Fields, SleptValue, withSentinel, ReplicaKinds, SuspendKinds
  <2>2. want[sentinelKey] = "true" /\ "true" # Nil
    BY <2>1, KindsAssumption DEF Values
  <2>3. new[sentinelKey] = "true"
    BY <1>3, <1>5, <2>1, <2>2
  <2> QED
    BY <1>2, <1>5, <2>3, SentinelSleeps
<1> QED
  BY <1>4, <1>5

-----------------------------------------------------------------------------
(* Types.                                                                  *)

\* The versions of a workload are versions of some kind.
LEMMA VersionsAreAny ==
  ASSUME NEW w \in Workloads
  PROVE  /\ Versions(w) \subseteq {Nil} \cup Objects(AnyValue)
         /\ Views(Versions(w)) \subseteq Views({Nil} \cup Objects(AnyValue))
<1>1. Values(Kind[w]) \subseteq AnyValue
  BY ValuesAreAny, SleeperAssumption
<1>2. Versions(w) \subseteq {Nil} \cup Objects(AnyValue)
  BY <1>1 DEF Versions, Objects
<1> QED
  BY <1>2 DEF Views

\* Replacing the view of one workload.
LEMMA ObjsUpdate ==
  ASSUME ClusterOK, NEW w \in Workloads, NEW view \in Views(Versions(w)),
         objs' = [objs EXCEPT ![w] = view], secrets' = secrets,
         lastUid' \in [Workloads -> 0 .. MaxUid]
  PROVE  ClusterOK'
  BY VersionsAreAny DEF ClusterOK

\* Replacing the view of one Secret.
LEMMA SecretsUpdate ==
  ASSUME ClusterOK, NEW n \in SecretNames, NEW view \in Views(Secrets),
         secrets' = [secrets EXCEPT ![n] = view], objs' = objs, lastUid' = lastUid
  PROVE  ClusterOK'
  BY DEF ClusterOK

\* An empty Secret, and a Secret with an entry set or cleared, are Secrets.
LEMMA SecretEntries ==
  ASSUME NEW sec \in Secrets, NEW w \in Workloads, NEW u \in Uids,
         NEW v \in {Nil} \cup Values(Kind[w])
  PROVE  /\ NoSecret \in Secrets
         /\ WithEntry(sec, w, u, v) \in Secrets
         /\ WithEntry(sec, w, u, v)[w][u] = v
         /\ \A x \in Workloads, y \in Uids :
              (x # w \/ y # u) => WithEntry(sec, w, u, v)[x][y] = sec[x][y]
<1>1. Values(Kind[w]) \subseteq AnyValue
  BY ValuesAreAny, SleeperAssumption
<1>2. NoSecret \in Secrets
  BY DEF NoSecret, Secrets, Entries
<1>3. sec \in [Workloads -> [Uids -> {Nil} \cup AnyValue]]
  BY DEF Secrets
<1>4. WithEntry(sec, w, u, v) \in [Workloads -> [Uids -> {Nil} \cup AnyValue]]
  BY <1>1, <1>3 DEF WithEntry
<1>5. WithEntry(sec, w, u, v)[w][u] = v
  BY <1>3 DEF WithEntry
<1>6. \A x \in Workloads, y \in Uids :
        (x # w \/ y # u) => WithEntry(sec, w, u, v)[x][y] = sec[x][y]
  BY <1>3 DEF WithEntry
<1>7. \A x \in Workloads : WithEntry(sec, w, u, v)[x] \in Entries(x)
  BY <1>3, <1>4 DEF WithEntry, Secrets, Entries
<1> QED
  BY <1>2, <1>4, <1>5, <1>6, <1>7 DEF Secrets

\* The object and the Secret in front of the worker.
LEMMA AtHand ==
  ASSUME TypeOK, pc \notin {"idle", "done"}
  PROVE  /\ ref \in Workloads /\ ref \in Targets(cur) /\ cur \in TargetedBy(ref)
         /\ Kind[ref] \in Kinds
         /\ objs[ref] \in Views(Versions(ref))
         /\ Cached(objs[ref]) \in Versions(ref) /\ LiveObj(ref) \in Versions(ref)
         /\ SecretOf[cur] \in SecretNames
         /\ secret \in Views(Secrets)
         /\ Cached(secret) \in Secrets /\ Live(secret) \in Secrets
<1>1. TargetRefs[cur] \in Seq(Workloads) /\ at \in 1 .. Len(TargetRefs[cur])
  BY SleeperAssumption DEF TypeOK, WorkerOK
<1>2. ref \in Workloads /\ ref \in Targets(cur)
  BY <1>1 DEF ref, Targets
<1>3. SecretOf[cur] \in SecretNames /\ Kind[ref] \in Kinds
  BY <1>2, SleeperAssumption DEF TypeOK, WorkerOK
<1>4. objs[ref] \in Views(Versions(ref)) /\ secret \in Views(Secrets)
  BY <1>2, <1>3 DEF TypeOK, ClusterOK, secret
<1> QED
  BY <1>2, <1>3, <1>4, ViewParts DEF LiveObj, TargetedBy, TypeOK, WorkerOK

\* Going on with the next ref keeps the worker well-typed.
LEMMA NextRefOK ==
  ASSUME TypeOK, NextRef
  PROVE  WorkerOK'
<1>1. PICK j \in at + 1 .. Len(TargetRefs[cur]) + 1 :
        at' = j /\ pc' = HandlerStart(cur, dir, j)
  BY DEF NextRef, StartRefAfter
<1>2. at \in Nat /\ Len(TargetRefs[cur]) \in Nat
  BY SleeperAssumption DEF TypeOK, WorkerOK
<1>3. at' \in Nat /\ (pc' # "done" => at' \in 1 .. Len(TargetRefs[cur]))
  BY <1>1, <1>2 DEF HandlerStart
<1>4. pc' \in {"done", "guard", "load"}
  BY <1>1 DEF HandlerStart
<1> QED
  BY <1>3, <1>4 DEF NextRef, TypeOK, WorkerOK, PCs, Holding

\* Every initial state is well-typed.
LEMMA InitTypeOK == Init => TypeOK
<1> SUFFICES ASSUME Init
             PROVE  TypeOK
  OBVIOUS
<1>1. NoSecret \in Secrets
  BY DEF NoSecret, Secrets, Entries
<1>2. \A w \in Workloads : Nil \in Versions(w)
  BY DEF Versions
<1>3. ClusterOK
  <2>1. \A w \in Workloads : objs[w] \in Views(Versions(w))
    <3>1. \A w \in Workloads : <<Nil>> \in Views(Versions(w))
      BY <1>2, ViewOfOne
    <3> QED
      BY <3>1 DEF Init
  <2>2. \A w \in Workloads : objs[w] \in Views({Nil} \cup Objects(AnyValue))
    BY <2>1, VersionsAreAny
  <2>3. \A n \in SecretNames : secrets[n] \in Views(Secrets)
    <3>1. <<NoSecret>> \in Views(Secrets)
      BY <1>1, ViewOfOne
    <3> QED
      BY <3>1 DEF Init
  <2>4. objs \in [Workloads -> Views({Nil} \cup Objects(AnyValue))]
    BY <2>2 DEF Init
  <2>5. secrets \in [SecretNames -> Views(Secrets)]
    BY <2>3 DEF Init
  <2>6. lastUid \in [Workloads -> 0 .. MaxUid]
    BY SleeperAssumption DEF Init
  <2> QED
    BY <2>1, <2>4, <2>5, <2>6 DEF ClusterOK
<1>4. ControlOK
  BY DEF Init, ControlOK
<1>5. WorkerOK
  BY DEF Init, WorkerOK, PCs, Directions, Holding
<1>6. HistoryOK
  BY DEF Init, HistoryOK
<1> QED
  BY <1>3, <1>4, <1>5, <1>6 DEF TypeOK

\* Reading the cache and moving on changes nothing outside the worker.
LEMMA ReadStepsTypeOK ==
  ASSUME TypeOK, Guard \/ Load \/ SleepGet \/ RestoreGet
  PROVE  TypeOK'
<1>1. UNCHANGED <<cluster, control, queue, phase, orig, trust>>
  BY DEF Guard, Load, SleepGet, RestoreGet
<1>2. ClusterOK' /\ ControlOK' /\ HistoryOK'
  BY <1>1 DEF TypeOK, ClusterOK, ControlOK, HistoryOK, cluster, control
<1>3. pc \notin {"idle", "done"} /\ pc \in {"guard", "load", "get"}
  BY DEF Guard, Load, SleepGet, RestoreGet
<1>4. CASE NextRef
  BY <1>2, <1>4, NextRefOK DEF TypeOK
<1>5. CASE Guard /\ ~NextRef
  <2>1. GoTo("load") /\ UNCHANGED <<obj, val>>
    BY <1>5, Zenon DEF Guard
  <2>2. WorkerOK'
    BY <1>3, <2>1 DEF GoTo, TypeOK, WorkerOK, PCs, Holding
  <2> QED
    BY <1>2, <2>2 DEF TypeOK
<1>6. CASE Load /\ ~NextRef
  <2>1. /\ GoTo("get") /\ obj' = Cached(objs[ref]) /\ UNCHANGED val
        /\ Cached(objs[ref]) # Nil
    BY <1>6, Zenon DEF Load
  <2>2. ref' = ref
    BY <2>1 DEF GoTo, ref
  <2>3. obj' \in Objects(Values(Kind[ref]))
    BY <1>3, <2>1, AtHand DEF Versions
  <2>4. WorkerOK'
    BY <1>3, <2>1, <2>2, <2>3 DEF GoTo, TypeOK, WorkerOK, PCs, Holding
  <2> QED
    BY <1>2, <2>4 DEF TypeOK
<1>7. CASE SleepGet /\ ~NextRef
  <2>1. /\ GoTo("patch") \/ GoTo("set")
        /\ UNCHANGED <<obj, val>> /\ pc = "get" /\ dir = "asleep"
    BY <1>7, Zenon DEF SleepGet
  <2>2. ref' = ref
    BY <2>1 DEF GoTo, ref
  <2>3. WorkerOK'
    BY <2>1, <2>2 DEF GoTo, TypeOK, WorkerOK, PCs, Holding
  <2> QED
    BY <1>2, <2>3 DEF TypeOK
<1>8. CASE RestoreGet /\ ~NextRef
  <2>1. /\ GoTo("patch") /\ val' = Cached(secret)[ref][obj.uid] /\ UNCHANGED obj
        /\ Cached(secret)[ref][obj.uid] # Nil /\ pc = "get" /\ dir = "awake"
    BY <1>8, Zenon DEF RestoreGet
  <2>2. ref' = ref
    BY <2>1 DEF GoTo, ref
  <2>3. Cached(secret) \in Secrets /\ ref \in Workloads
    BY <1>3, AtHand
  <2>4. obj.uid \in Uids
    BY <2>1 DEF TypeOK, WorkerOK, Holding, Objects
  <2>5. val' \in Values(Kind[ref])
    BY <2>1, <2>3, <2>4 DEF Secrets, Entries
  <2>6. WorkerOK'
    BY <2>1, <2>2, <2>5 DEF GoTo, TypeOK, WorkerOK, PCs, Holding
  <2> QED
    BY <1>2, <2>6 DEF TypeOK
<1> QED
  BY <1>4, <1>5, <1>6, <1>7, <1>8

\* The entry SetRaw writes and the Secret Delete leaves are Secrets.
LEMMA WrittenSecrets ==
  ASSUME TypeOK, pc \in Holding
  PROVE  /\ obj.uid \in Uids
         /\ Captured(Kind[ref], obj.val) \in Values(Kind[ref])
         /\ WithEntry(Cached(secret), ref, obj.uid, Captured(Kind[ref], obj.val))
              \in Secrets
         /\ WithEntry(Cached(secret), ref, obj.uid, Nil) \in Secrets
<1>1. obj \in Objects(Values(Kind[ref]))
  BY DEF TypeOK, WorkerOK
<1>2. obj.uid \in Uids /\ obj.val \in Values(Kind[ref])
  BY <1>1 DEF Objects
<1>3. ref \in Workloads /\ Kind[ref] \in Kinds /\ Cached(secret) \in Secrets
  BY AtHand DEF Holding
<1>4. Captured(Kind[ref], obj.val) \in Values(Kind[ref])
  BY <1>2, <1>3, CapturedIsValue
<1> QED
  BY <1>2, <1>3, <1>4, SecretEntries

\* SetRaw keeps the types.
LEMMA SetRawTypeOK ==
  ASSUME TypeOK, SetRaw
  PROVE  TypeOK'
<1> DEFINE new == WithEntry(Cached(secret), ref, obj.uid, Captured(Kind[ref], obj.val))
<1>1. pc = "set" /\ GoTo("patch") /\ UNCHANGED <<obj, val, queue, phase, orig, trust>>
      /\ UNCHANGED control /\ UNCHANGED <<objs, lastUid>>
  BY DEF SetRaw
<1>2. SecretOf[cur] \in SecretNames /\ secret \in Views(Secrets) /\ new \in Secrets
  BY <1>1, AtHand, WrittenSecrets DEF Holding
<1>3. Commit(secret, new) \in Views(Secrets)
  BY <1>2, ViewCommit
<1>4. \/ secrets' = secrets
      \/ secrets' = [secrets EXCEPT ![SecretOf[cur]] = Commit(secret, new)]
  BY DEF SetRaw, secret
<1>5. ClusterOK'
  <2>1. CASE secrets' = secrets
    BY <1>1, <2>1 DEF TypeOK, ClusterOK
  <2>2. CASE secrets' = [secrets EXCEPT ![SecretOf[cur]] = Commit(secret, new)]
    BY <1>1, <1>2, <1>3, <2>2, SecretsUpdate DEF TypeOK
  <2> QED
    BY <1>4, <2>1, <2>2
<1>6. ref' = ref
  BY <1>1 DEF GoTo, ref
<1>7. WorkerOK'
  BY <1>1, <1>6 DEF GoTo, TypeOK, WorkerOK, PCs, Holding
<1> QED
  BY <1>1, <1>5, <1>7 DEF TypeOK, ControlOK, HistoryOK, control

\* What the pass wants is a value of the kind.
LEMMA WantIsValue ==
  ASSUME TypeOK, pc = "patch"
  PROVE  obj.val \in Values(Kind[ref]) /\ Want \in Values(Kind[ref])
<1>1. obj.val \in Values(Kind[ref])
  BY DEF TypeOK, WorkerOK, Holding, Objects
<1>2. SleptValue(Kind[ref], obj.val) \in Values(Kind[ref])
  BY <1>1, AtHand, SleptIsValue
<1> QED
  BY <1>1, <1>2 DEF Want, TypeOK, WorkerOK, Directions

\* The patch keeps the types.
LEMMA PatchTypeOK ==
  ASSUME TypeOK, Patch
  PROVE  TypeOK'
<1> DEFINE new == MergePatch(Kind[ref], LiveObj(ref).val, obj.val, Want)
           version == [LiveObj(ref) EXCEPT !.val = new]
<1>1. /\ pc = "patch" /\ UNCHANGED <<secrets, lastUid, queue, phase, orig, trust>>
      /\ UNCHANGED control
  BY DEF Patch
<1>2. ref \in Workloads /\ objs[ref] \in Views(Versions(ref)) /\ Kind[ref] \in Kinds
  BY <1>1, AtHand
<1>3. ASSUME LiveObj(ref) # Nil
      PROVE  version \in Versions(ref)
  <2>1. LiveObj(ref) \in Objects(Values(Kind[ref]))
    BY <1>1, <1>3, AtHand DEF Versions
  <2>2. new \in Values(Kind[ref])
    BY <1>1, <1>2, <2>1, WantIsValue, MergePatchIsValue DEF Objects
  <2> QED
    BY <2>1, <2>2 DEF Versions, Objects
<1>4. \/ objs' = objs
      \/ /\ LiveObj(ref) # Nil
         /\ objs' = [objs EXCEPT ![ref] = CommitChange(objs[ref], version)]
  BY DEF Patch
<1>5. ClusterOK'
  <2>1. CASE objs' = objs
    BY <1>1, <2>1 DEF TypeOK, ClusterOK
  <2>2. CASE /\ LiveObj(ref) # Nil
             /\ objs' = [objs EXCEPT ![ref] = CommitChange(objs[ref], version)]
    <3>1. CommitChange(objs[ref], version) \in Views(Versions(ref))
      BY <1>2, <1>3, <2>2, ViewCommitChange
    <3> QED
      BY <1>1, <1>2, <2>2, <3>1, ObjsUpdate DEF TypeOK, ClusterOK
  <2> QED
    BY <1>4, <2>1, <2>2
<1>6. WorkerOK'
  <2>1. CASE NextRef
    BY <2>1, NextRefOK
  <2>2. CASE dir # "asleep" /\ GoTo("delete") /\ UNCHANGED <<obj, val>>
    <3>1. ref' = ref
      BY <2>2 DEF GoTo, ref
    <3> QED
      BY <1>1, <2>2, <3>1 DEF GoTo, TypeOK, WorkerOK, PCs, Holding, Directions
  <2> QED
    BY <2>1, <2>2 DEF Patch
<1> QED
  BY <1>1, <1>5, <1>6 DEF TypeOK, ControlOK, HistoryOK, control

\* Delete keeps the types.
LEMMA DeleteTypeOK ==
  ASSUME TypeOK, Delete
  PROVE  TypeOK'
<1> DEFINE new == WithEntry(Cached(secret), ref, obj.uid, Nil)
<1>1. /\ pc = "delete" /\ NextRef /\ UNCHANGED <<objs, lastUid, queue, phase, orig, trust>>
      /\ UNCHANGED control
  BY DEF Delete
<1>2. SecretOf[cur] \in SecretNames /\ secret \in Views(Secrets) /\ new \in Secrets
  BY <1>1, AtHand, WrittenSecrets DEF Holding
<1>3. CommitChange(secret, new) \in Views(Secrets)
  BY <1>2, ViewCommitChange
<1>4. \/ secrets' = secrets
      \/ secrets' = [secrets EXCEPT ![SecretOf[cur]] = CommitChange(secret, new)]
  BY DEF Delete, secret
<1>5. ClusterOK'
  <2>1. CASE secrets' = secrets
    BY <1>1, <2>1 DEF TypeOK, ClusterOK
  <2>2. CASE secrets' = [secrets EXCEPT ![SecretOf[cur]] = CommitChange(secret, new)]
    BY <1>1, <1>2, <1>3, <2>2, SecretsUpdate DEF TypeOK
  <2> QED
    BY <1>4, <2>1, <2>2
<1>6. WorkerOK'
  BY <1>1, NextRefOK
<1> QED
  BY <1>1, <1>5, <1>6 DEF TypeOK, ControlOK, HistoryOK, control

\* Taking up a schedule keeps the types.
LEMMA BeginTypeOK ==
  ASSUME TypeOK, NEW s \in Schedules, Begin(s)
  PROVE  TypeOK'
<1>1. PICK j \in 0 + 1 .. Len(TargetRefs[s]) + 1 :
        at' = j /\ pc' = HandlerStart(s, desired[s], j)
  BY DEF Begin, StartRefAfter
<1>2. TargetRefs[s] \in Seq(Workloads) /\ Len(TargetRefs[s]) \in Nat
  BY SleeperAssumption
<1>3. at' \in Nat /\ (pc' # "done" => at' \in 1 .. Len(TargetRefs[s]))
  BY <1>1, <1>2 DEF HandlerStart
<1>4. pc' \in {"done", "guard", "load"}
  BY <1>1 DEF HandlerStart
<1>5. desired[s] \in Directions /\ dryRun[s] \in BOOLEAN
  BY DEF TypeOK, ControlOK
<1>6. listed' \subseteq Workloads
  BY <1>2 DEF Begin, Targets
<1>7. WorkerOK'
  BY <1>3, <1>4, <1>5, <1>6 DEF Begin, TypeOK, WorkerOK, PCs, Holding
<1>8. ClusterOK'
  BY DEF Begin, TypeOK, ClusterOK, cluster
<1>9. ControlOK' /\ HistoryOK'
  BY <1>5 DEF Begin, TypeOK, ControlOK, HistoryOK, control
<1> QED
  BY <1>7, <1>8, <1>9 DEF TypeOK

\* Ending a pass, with success or without, keeps the types.
LEMMA EndTypeOK ==
  ASSUME TypeOK, Finish \/ PatchMissing \/ Faults
  PROVE  TypeOK'
<1>1. CASE Finish
  BY <1>1 DEF Finish, TypeOK, ClusterOK, ControlOK, WorkerOK, HistoryOK, cluster,
              control, PCs, Holding
<1>2. CASE PatchMissing \/ Faults
  <2>1. Drop /\ queue' \subseteq Schedules
    BY <1>2 DEF PatchMissing, Faults, Fail, Crash, ReturnError, TypeOK, ControlOK,
                WorkerOK
  <2> QED
    BY <2>1 DEF Drop, TypeOK, ClusterOK, ControlOK, WorkerOK, HistoryOK, cluster,
                control, PCs, Holding
<1> QED
  BY <1>1, <1>2

\* What owners write keeps the types.
LEMMA OwnersTypeOK ==
  ASSUME TypeOK, Owners
  PROVE  TypeOK'
<1>1. PICK w \in Workloads :
        \/ \E v \in OwnerValues[w] : Edit(w, v) \/ Create(w, v)
        \/ ToggleUnsafe(w) \/ DeleteObj(w)
  BY DEF Owners
<1>2. /\ objs[w] \in Views(Versions(w)) /\ LiveObj(w) \in Versions(w)
      /\ Kind[w] \in Kinds
  BY ViewParts, SleeperAssumption DEF TypeOK, ClusterOK, LiveObj
<1>3. ASSUME NEW version \in Objects(Values(Kind[w])), OwnerWrite(w, version),
             lastUid' \in [Workloads -> 0 .. MaxUid]
      PROVE  TypeOK'
  <2>1. Commit(objs[w], version) \in Views(Versions(w))
    BY <1>2, ViewCommit DEF Versions
  <2>2. ClusterOK'
    BY <1>3, <2>1, ObjsUpdate DEF OwnerWrite, TypeOK
  <2>3. Captured(Kind[w], version.val) \in Values(Kind[w])
    BY <1>2, CapturedIsValue DEF Objects
  <2>4. Captured(Kind[w], version.val) \in AnyValue
    BY <1>2, <2>3, ValuesAreAny
  <2>5. HistoryOK'
    BY <1>3, <2>3, <2>4 DEF OwnerWrite, TypeOK, HistoryOK
  <2>6. ControlOK' /\ WorkerOK'
    BY <1>3 DEF OwnerWrite, TypeOK, ControlOK, WorkerOK, control, worker, ref
  <2> QED
    BY <2>2, <2>5, <2>6 DEF TypeOK
<1>4. ASSUME NEW v \in OwnerValues[w], Edit(w, v)
      PROVE  TypeOK'
  <2>1. LiveObj(w) \in Objects(Values(Kind[w])) /\ v \in Values(Kind[w])
    BY <1>2, <1>4, SleeperAssumption DEF Edit, Versions
  <2>2. [LiveObj(w) EXCEPT !.val = v] \in Objects(Values(Kind[w]))
    BY <2>1 DEF Objects
  <2> QED
    BY <1>3, <1>4, <2>2 DEF Edit, TypeOK, ClusterOK
<1>5. ASSUME NEW v \in OwnerValues[w], Create(w, v)
      PROVE  TypeOK'
  <2>1. lastUid[w] \in 0 .. MaxUid /\ lastUid[w] < MaxUid /\ MaxUid \in Nat
    BY <1>5, SleeperAssumption DEF Create, TypeOK, ClusterOK
  <2>2. lastUid' \in [Workloads -> 0 .. MaxUid]
    BY <1>5, <2>1 DEF Create, TypeOK, ClusterOK
  <2>3. [uid |-> lastUid[w] + 1, val |-> v, unsafe |-> FALSE]
          \in Objects(Values(Kind[w]))
    BY <2>1, SleeperAssumption DEF Objects, Uids
  <2> QED
    BY <1>3, <1>5, <2>2, <2>3 DEF Create
<1>6. CASE ToggleUnsafe(w)
  <2> DEFINE version == [LiveObj(w) EXCEPT !.unsafe = ~LiveObj(w).unsafe]
  <2>1. LiveObj(w) \in Objects(Values(Kind[w]))
    BY <1>2, <1>6 DEF ToggleUnsafe, Versions
  <2>2. version \in Versions(w)
    BY <2>1 DEF Objects, Versions
  <2>3. Commit(objs[w], version) \in Views(Versions(w))
    BY <1>2, <2>2, ViewCommit
  <2>4. objs' = [objs EXCEPT ![w] = Commit(objs[w], version)]
    BY <1>6 DEF ToggleUnsafe
  <2>5. ClusterOK'
    BY <1>6, <2>3, <2>4, ObjsUpdate DEF ToggleUnsafe, TypeOK, ClusterOK
  <2> QED
    BY <1>6, <2>5 DEF ToggleUnsafe, TypeOK, ControlOK, WorkerOK, HistoryOK, control,
                      worker, ref
<1>7. CASE DeleteObj(w)
  <2>1. Commit(objs[w], Nil) \in Views(Versions(w))
    BY <1>2, ViewCommit DEF Versions
  <2>2. ClusterOK'
    BY <1>7, <2>1, ObjsUpdate DEF DeleteObj, TypeOK, ClusterOK
  <2> QED
    BY <1>7, <2>2 DEF DeleteObj, TypeOK, ControlOK, WorkerOK, HistoryOK, control,
                      worker, ref
<1> QED
  BY <1>1, <1>4, <1>5, <1>6, <1>7

\* Watch events keep the types.
LEMMA DeliverTypeOK ==
  ASSUME TypeOK, Deliver
  PROVE  TypeOK'
<1>1. UNCHANGED <<lastUid, control, queue, phase, worker, orig, trust>>
  BY DEF Deliver
<1>2. ControlOK' /\ WorkerOK' /\ HistoryOK'
  BY <1>1 DEF TypeOK, ControlOK, WorkerOK, HistoryOK, control, worker, ref
<1>3. CASE \E w \in Workloads : /\ ~Synced(objs[w])
                                /\ objs' = [objs EXCEPT ![w] = Delivered(@)]
                                /\ UNCHANGED secrets
  <2>1. PICK w \in Workloads : /\ ~Synced(objs[w])
                               /\ objs' = [objs EXCEPT ![w] = Delivered(objs[w])]
                               /\ UNCHANGED secrets
    BY <1>3
  <2>2. Delivered(objs[w]) \in Views(Versions(w))
    BY <2>1, ViewDelivered DEF TypeOK, ClusterOK
  <2> QED
    BY <1>1, <1>2, <2>1, <2>2, ObjsUpdate DEF TypeOK, ClusterOK
<1>4. CASE \E n \in SecretNames : /\ ~Synced(secrets[n])
                                  /\ secrets' = [secrets EXCEPT ![n] = Delivered(@)]
                                  /\ UNCHANGED objs
  <2>1. PICK n \in SecretNames : /\ ~Synced(secrets[n])
                                 /\ secrets' = [secrets EXCEPT ![n] = Delivered(secrets[n])]
                                 /\ UNCHANGED objs
    BY <1>4
  <2>2. Delivered(secrets[n]) \in Views(Secrets)
    BY <2>1, ViewDelivered DEF TypeOK, ClusterOK
  <2> QED
    BY <1>1, <1>2, <2>1, <2>2, SecretsUpdate DEF TypeOK
<1> QED
  BY <1>3, <1>4 DEF Deliver

\* Every step keeps the types.
LEMMA NextTypeOK == TypeOK /\ [Next]_vars => TypeOK'
<1> SUFFICES ASSUME TypeOK, [Next]_vars
             PROVE  TypeOK'
  OBVIOUS
<1>1. CASE UNCHANGED vars
  BY <1>1 DEF vars, cluster, control, worker, TypeOK, ClusterOK, ControlOK, WorkerOK,
              HistoryOK, ref
<1>2. CASE Worker
  BY <1>2, BeginTypeOK, ReadStepsTypeOK, SetRawTypeOK, PatchTypeOK, DeleteTypeOK,
     EndTypeOK DEF Worker
<1>3. CASE Control
  BY <1>3 DEF Control, Flip, ToggleDryRun, Enqueue, TypeOK, ClusterOK, ControlOK,
              WorkerOK, HistoryOK, cluster, control, worker, ref, Directions
<1> QED
  BY <1>1, <1>2, <1>3, EndTypeOK, OwnersTypeOK, DeliverTypeOK DEF Next

\* The types hold in every reachable state, at any pace.
THEOREM TypeCorrect == Spec => []TypeOK
  BY InitTypeOK, NextTypeOK, PTL DEF Spec

-----------------------------------------------------------------------------
(* Checkpoints are write-once, dry runs read-only, at any pace.            *)

\* The Secrets a step leaves live: only SetRaw and Delete write them.
LEMMA LiveSecretsUnchanged ==
  ASSUME TypeOK, [Next]_vars, ~SetRaw, ~Delete
  PROVE  \A n \in SecretNames : Live(secrets'[n]) = Live(secrets[n])
<1>1. CASE secrets' = secrets
  BY <1>1
<1>2. CASE Deliver
  <2>1. CASE secrets' = secrets
    BY <2>1
  <2>2. CASE \E n \in SecretNames : /\ ~Synced(secrets[n])
                                    /\ secrets' = [secrets EXCEPT ![n] = Delivered(@)]
    <3>1. PICK n \in SecretNames : /\ ~Synced(secrets[n])
                                   /\ secrets' = [secrets EXCEPT ![n] = Delivered(secrets[n])]
      BY <2>2
    <3>2. Live(Delivered(secrets[n])) = Live(secrets[n])
      BY <3>1, ViewDelivered DEF TypeOK, ClusterOK
    <3> QED
      BY <3>1, <3>2 DEF TypeOK, ClusterOK
  <2> QED
    BY <1>2, <2>1, <2>2 DEF Deliver
<1>3. CASE Worker
  BY <1>1, <1>3 DEF Worker, Begin, Guard, Load, SleepGet, RestoreGet, Patch, Finish,
                    PatchMissing, ReturnError, Drop, cluster
<1>4. CASE Faults \/ Owners \/ Control
  BY <1>1, <1>4 DEF Faults, Fail, Crash, ReturnError, Drop, Owners, Edit, Create,
                    OwnerWrite, ToggleUnsafe, DeleteObj, Control, Flip, ToggleDryRun,
                    Enqueue, cluster
<1>5. CASE UNCHANGED vars
  BY <1>1, <1>5 DEF vars, cluster
<1> QED
  BY <1>2, <1>3, <1>4, <1>5 DEF Next

\* SetRaw leaves the Secret alone, or adds the captured value for the current
\* ref to the live Secret, in which it was missing.
LEMMA SetRawEffect ==
  ASSUME TypeOK, SetRaw
  PROVE  \/ /\ secrets' = secrets
            /\ Cached(secret)[ref][obj.uid] # Nil
         \/ LET new == WithEntry(Live(secret), ref, obj.uid,
                                 Captured(Kind[ref], obj.val))
            IN  /\ secrets' = [secrets EXCEPT ![SecretOf[cur]] = Commit(secret, new)]
                /\ Live(secret)[ref][obj.uid] = Nil
                /\ new \in Secrets
<1>1. pc = "set" /\ pc \in Holding /\ pc \notin {"idle", "done"}
  BY DEF SetRaw, Holding
<1>2. /\ secret \in Views(Secrets) /\ obj.uid \in Uids /\ ref \in Workloads
      /\ Synced(secret) => Live(secret) = Cached(secret)
  BY <1>1, AtHand, WrittenSecrets, ViewParts
<1>3. CASE secrets' = secrets /\ Cached(secret)[ref][obj.uid] # Nil
  BY <1>3
<1>4. CASE /\ Cached(secret)[ref][obj.uid] = Nil
           /\ IF Cached(secret) = NoSecret THEN Live(secret) = NoSecret
                                           ELSE Synced(secret)
           /\ secrets' = [secrets EXCEPT ![SecretOf[cur]] =
                Commit(@, WithEntry(Cached(secret), ref, obj.uid,
                                    Captured(Kind[ref], obj.val)))]
  <2>1. Live(secret) = Cached(secret)
    BY <1>2, <1>4
  <2>2. WithEntry(Cached(secret), ref, obj.uid, Captured(Kind[ref], obj.val)) \in Secrets
    BY <1>1, WrittenSecrets
  <2> QED
    BY <1>4, <2>1, <2>2 DEF secret
<1> QED
  BY <1>3, <1>4 DEF SetRaw

\* Delete leaves the Secret alone, or clears the current ref's entry of the
\* live one, or -- the unconditional Client.Delete -- everything.
LEMMA DeleteEffect ==
  ASSUME TypeOK, Delete
  PROVE  \/ /\ secrets' = secrets
            /\ Cached(secret)[ref][obj.uid] = Nil
         \/ \E new \in Secrets :
              /\ secrets' = [secrets EXCEPT ![SecretOf[cur]] = CommitChange(secret, new)]
              /\ \/ new = WithEntry(Live(secret), ref, obj.uid, Nil)
                 \/ /\ new = NoSecret
                    /\ WithEntry(Cached(secret), ref, obj.uid, Nil) = NoSecret
<1>1. pc = "delete" /\ pc \in Holding /\ pc \notin {"idle", "done"}
  BY DEF Delete, Holding
<1>2. secret \in Views(Secrets) /\ (Synced(secret) => Live(secret) = Cached(secret))
  BY <1>1, AtHand, ViewParts
<1>3. CASE secrets' = secrets /\ Cached(secret)[ref][obj.uid] = Nil
  BY <1>3
<1>4. CASE LET new == WithEntry(Cached(secret), ref, obj.uid, Nil)
           IN  /\ new = NoSecret \/ Synced(secret)
               /\ secrets' = [secrets EXCEPT ![SecretOf[cur]] = CommitChange(@, new)]
  <2> DEFINE new == WithEntry(Cached(secret), ref, obj.uid, Nil)
  <2>1. new \in Secrets
    BY <1>1, WrittenSecrets
  <2>2. secrets' = [secrets EXCEPT ![SecretOf[cur]] = CommitChange(secret, new)]
    BY <1>4 DEF secret
  <2>3. new = NoSecret \/ new = WithEntry(Live(secret), ref, obj.uid, Nil)
    BY <1>2, <1>4
  <2> QED
    BY <2>1, <2>2, <2>3
<1> QED
  BY <1>3, <1>4 DEF Delete

\* A recorded original is never overwritten, whatever the caches hold and
\* whoever interferes (store.go SetRaw: "never clobber the recorded original").
THEOREM CheckpointsAreWriteOnce == Spec => WriteOnce
<1> DEFINE Kept == \A s \in Schedules, w \in Workloads, u \in Uids :
                     LET old == LiveEntry(s, w, u) new == LiveEntry(s, w, u)'
                     IN  old # Nil => new \in {old, Nil}
<1>1. TypeOK /\ [Next]_vars => [Kept]_vars
  <2> SUFFICES ASSUME TypeOK, [Next]_vars,
                      NEW s \in Schedules, NEW w \in Workloads, NEW u \in Uids,
                      LiveEntry(s, w, u) # Nil
               PROVE  LiveEntry(s, w, u)' \in {LiveEntry(s, w, u), Nil}
    OBVIOUS
  <2>1. SecretOf[s] \in SecretNames
    BY SleeperAssumption
  <2>2. CASE SetRaw
    <3>1. pc = "set" /\ pc \in Holding /\ pc \notin {"idle", "done"}
      BY <2>2 DEF SetRaw, Holding
    <3>2. /\ secret \in Views(Secrets) /\ Live(secret) \in Secrets
          /\ SecretOf[cur] \in SecretNames
          /\ ref \in Workloads /\ obj.uid \in Uids
          /\ Captured(Kind[ref], obj.val) \in Values(Kind[ref])
      BY <3>1, AtHand, WrittenSecrets
    <3> DEFINE new == WithEntry(Live(secret), ref, obj.uid, Captured(Kind[ref], obj.val))
    <3>3. CASE secrets' = secrets
      BY <3>3 DEF LiveEntry
    <3>4. CASE /\ secrets' = [secrets EXCEPT ![SecretOf[cur]] = Commit(secret, new)]
               /\ Live(secret)[ref][obj.uid] = Nil
               /\ new \in Secrets
      <4>1. Live(Commit(secret, new)) = new
        BY <3>2, <3>4, ViewCommit
      <4>2. \A x \in Workloads, y \in Uids :
              (x # ref \/ y # obj.uid) => new[x][y] = Live(secret)[x][y]
        BY <3>2, SecretEntries
      <4>3. CASE SecretOf[s] = SecretOf[cur]
        BY <3>2, <3>4, <4>1, <4>2, <4>3 DEF LiveEntry, secret, TypeOK, ClusterOK
      <4>4. CASE SecretOf[s] # SecretOf[cur]
        BY <2>1, <3>2, <3>4, <4>4 DEF LiveEntry, TypeOK, ClusterOK
      <4> QED
        BY <4>3, <4>4
    <3> QED
      BY <2>2, <3>3, <3>4, SetRawEffect
  <2>3. CASE Delete
    <3>1. pc = "delete" /\ pc \in Holding /\ pc \notin {"idle", "done"}
      BY <2>3 DEF Delete, Holding
    <3>2. /\ secret \in Views(Secrets) /\ Live(secret) \in Secrets
          /\ SecretOf[cur] \in SecretNames
          /\ ref \in Workloads /\ obj.uid \in Uids
      BY <3>1, AtHand, WrittenSecrets
    <3>3. CASE secrets' = secrets
      BY <3>3 DEF LiveEntry
    <3>4. ASSUME NEW new \in Secrets,
                 secrets' = [secrets EXCEPT ![SecretOf[cur]] = CommitChange(secret, new)],
                 new = WithEntry(Live(secret), ref, obj.uid, Nil) \/ new = NoSecret
          PROVE  LiveEntry(s, w, u)' \in {LiveEntry(s, w, u), Nil}
      <4>1. Live(CommitChange(secret, new)) = new
        BY <3>2, ViewCommitChange
      <4>2. new[w][u] \in {Live(secret)[w][u], Nil}
        <5>1. CASE new = NoSecret
          BY <5>1 DEF NoSecret
        <5>2. CASE new = WithEntry(Live(secret), ref, obj.uid, Nil)
          BY <3>2, <5>2, SecretEntries
        <5> QED
          BY <3>4, <5>1, <5>2
      <4>3. CASE SecretOf[s] = SecretOf[cur]
        BY <3>2, <3>4, <4>1, <4>2, <4>3 DEF LiveEntry, secret, TypeOK, ClusterOK
      <4>4. CASE SecretOf[s] # SecretOf[cur]
        BY <2>1, <3>2, <3>4, <4>4 DEF LiveEntry, TypeOK, ClusterOK
      <4> QED
        BY <4>3, <4>4
    <3> QED
      BY <2>3, <3>3, <3>4, DeleteEffect
  <2>4. CASE ~SetRaw /\ ~Delete
    BY <2>1, <2>4, LiveSecretsUnchanged DEF LiveEntry
  <2> QED
    BY <2>2, <2>3, <2>4
<1> QED
  BY <1>1, InitTypeOK, NextTypeOK, PTL DEF Spec, WriteOnce

-----------------------------------------------------------------------------
(* Nothing is lost.                                                        *)

\* The entry of w for identity u in the Secret of s, as TypeOK has it.
LEMMA EntryTypes ==
  ASSUME TypeOK, NEW s \in Schedules
  PROVE  /\ SecretOf[s] \in SecretNames
         /\ secrets[SecretOf[s]] \in Views(Secrets)
         /\ Live(secrets[SecretOf[s]]) \in SecretSnapshots(s)
         /\ SecretSnapshots(s) \subseteq Secrets
  BY SleeperAssumption, ViewParts DEF TypeOK, ClusterOK, SecretSnapshots

\* The live version of a workload.
LEMMA LiveObjTypes ==
  ASSUME TypeOK, NEW w \in Workloads
  PROVE  /\ objs[w] \in Views(Versions(w)) /\ Kind[w] \in Kinds
         /\ LiveObj(w) \in Snapshots(objs[w])
         /\ Snapshots(objs[w]) \subseteq Versions(w)
         /\ \A o \in Snapshots(objs[w]) :
              o # Nil => o.uid \in Uids /\ o.val \in Values(Kind[w])
<1>1. objs[w] \in Views(Versions(w)) /\ Kind[w] \in Kinds
  BY SleeperAssumption DEF TypeOK, ClusterOK
<1> QED
  BY <1>1, ViewParts DEF LiveObj, Versions, Objects

\* Steps that write nothing: the live versions stay, stale ones may go.
NoWrite ==
  /\ \A w \in Workloads : /\ LiveObj(w)' = LiveObj(w)
                          /\ Snapshots(objs'[w]) \subseteq Snapshots(objs[w])
  /\ \A s \in Schedules : /\ Live(secrets'[SecretOf[s]]) = Live(secrets[SecretOf[s]])
                          /\ SecretSnapshots(s)' \subseteq SecretSnapshots(s)
  /\ UNCHANGED <<lastUid, orig>>

\* Such a step keeps what is known of the cluster.
LEMMA NoWriteCluster ==
  ASSUME TypeOK, ClusterKnows, NoWrite, trust' = trust
  PROVE  ClusterKnows'
<1>1. UidsGivenOut'
  BY DEF ClusterKnows, UidsGivenOut, NoWrite
<1>2. Recoverable'
  BY DEF ClusterKnows, Recoverable, NoWrite, LiveEntry, TargetedBy
<1>3. SameIdentity'
  BY DEF ClusterKnows, SameIdentity, NoWrite
<1>4. AsleepMode'
  BY DEF ClusterKnows, AsleepMode, NoWrite, LiveEntry, TargetedBy
<1>5. AwakeMode'
  BY DEF ClusterKnows, AwakeMode, NoWrite, LiveEntry, TargetedBy
<1> QED
  BY <1>1, <1>2, <1>3, <1>4, <1>5 DEF ClusterKnows

\* And, if the worker stands still, what the worker knows.
LEMMA NoWriteWorker ==
  ASSUME TypeOK, WorkerKnows, NoWrite, trust' = trust, UNCHANGED worker
  PROVE  WorkerKnows'
<1>1. ref' = ref
  BY DEF ref, worker
<1>2. pc \in Holding => ref \in Workloads /\ cur \in Schedules
  BY AtHand DEF Holding, TypeOK, WorkerOK
<1> QED
  BY <1>1, <1>2 DEF WorkerKnows, NoWrite, worker, LiveEntry

\* A watch event writes nothing.
LEMMA DeliverWritesNothing ==
  ASSUME TypeOK, Deliver
  PROVE  NoWrite
<1>1. CASE \E w \in Workloads : /\ ~Synced(objs[w])
                                /\ objs' = [objs EXCEPT ![w] = Delivered(@)]
                                /\ UNCHANGED secrets
  <2>1. PICK w \in Workloads : /\ ~Synced(objs[w])
                               /\ objs' = [objs EXCEPT ![w] = Delivered(objs[w])]
                               /\ UNCHANGED secrets
    BY <1>1
  <2>2. /\ Live(Delivered(objs[w])) = Live(objs[w])
        /\ Snapshots(Delivered(objs[w])) \subseteq Snapshots(objs[w])
    BY <2>1, ViewDelivered DEF TypeOK, ClusterOK
  <2> QED
    BY <2>1, <2>2 DEF NoWrite, LiveObj, SecretSnapshots, Deliver, TypeOK, ClusterOK
<1>2. CASE \E n \in SecretNames : /\ ~Synced(secrets[n])
                                  /\ secrets' = [secrets EXCEPT ![n] = Delivered(@)]
                                  /\ UNCHANGED objs
  <2>1. PICK n \in SecretNames : /\ ~Synced(secrets[n])
                                 /\ secrets' = [secrets EXCEPT ![n] = Delivered(secrets[n])]
                                 /\ UNCHANGED objs
    BY <1>2
  <2>2. /\ Live(Delivered(secrets[n])) = Live(secrets[n])
        /\ Snapshots(Delivered(secrets[n])) \subseteq Snapshots(secrets[n])
    BY <2>1, ViewDelivered DEF TypeOK, ClusterOK
  <2>3. \A s \in Schedules : SecretOf[s] \in SecretNames
    BY SleeperAssumption
  <2> QED
    BY <2>1, <2>2, <2>3 DEF NoWrite, LiveObj, SecretSnapshots, Deliver, TypeOK, ClusterOK
<1> QED
  BY <1>1, <1>2 DEF Deliver

\* A step that leaves the cluster alone writes nothing.
LEMMA UntouchedCluster ==
  ASSUME UNCHANGED <<objs, secrets, lastUid, orig>>
  PROVE  NoWrite
  BY DEF NoWrite, LiveObj, SecretSnapshots

\* Between two refs the worker holds nothing.
LEMMA NextRefWorker ==
  ASSUME WorkerKnows, pc # "idle", NextRef, trust' = trust
  PROVE  WorkerKnows'
<1>1. pc' \in {"done", "guard", "load"}
  BY DEF NextRef, StartRefAfter, HandlerStart
<1> QED
  BY <1>1 DEF WorkerKnows, NextRef, Holding

\* A recorded value is not Nil.
LEMMA ValuesAreNotNil ==
  ASSUME NEW kind \in Kinds, NEW v \in Values(kind)
  PROVE  v # Nil
  BY ValuesAreAny, NilAssumption

\* A version is not Nil.
LEMMA ObjectsAreNotNil ==
  ASSUME NEW kind \in Kinds, NEW o \in Objects(Values(kind))
  PROVE  o # Nil
  BY ValuesAreAny, NilIsNoObject DEF Objects

-----------------------------------------------------------------------------
(* The worker's reads.                                                     *)

\* Load takes the object from the cache: its identity is the live one's, and
\* it is untouched (asleep) or as good as the live one (awake).
LEMMA LoadKnows ==
  ASSUME Inv, Load
  PROVE  WorkerKnows'
<1>1. pc = "load" /\ UNCHANGED <<objs, secrets, lastUid, orig, trust>>
  BY DEF Load, cluster
<1>2. /\ ref \in Workloads /\ cur \in TargetedBy(ref)
      /\ Cached(objs[ref]) \in Snapshots(objs[ref])
      /\ objs[ref] \in Views(Versions(ref)) /\ cur \in Schedules
  BY <1>1, AtHand, ViewParts DEF Inv, TypeOK, WorkerOK
<1>3. CASE NextRef
  BY <1>1, <1>3, NextRefWorker DEF Inv
<1>4. CASE ~NextRef
  <2>1. /\ GoTo("get") /\ obj' = Cached(objs[ref]) /\ UNCHANGED val
        /\ Cached(objs[ref]) # Nil
    BY <1>4, Zenon DEF Load
  <2>2. /\ ref' = ref /\ cur' = cur /\ dir' = dir /\ pc' = "get"
        /\ LiveObj(ref)' = LiveObj(ref)
        /\ \A u \in Uids : LiveEntry(cur, ref, u)' = LiveEntry(cur, ref, u)
    BY <1>1, <2>1 DEF GoTo, ref, LiveObj, LiveEntry
  <2>3. obj'.uid <= lastUid[ref]
    BY <1>2, <2>1 DEF Inv, ClusterKnows, UidsGivenOut
  <2>4. trust = dir
    BY <1>1 DEF Inv, WorkerKnows
  <2>5. dir \in Directions
    BY DEF Inv, TypeOK, WorkerOK
  <2>6. ASSUME LiveObj(ref) # Nil
        PROVE  /\ obj'.uid = LiveObj(ref).uid
               /\ (dir = "asleep" /\ LiveEntry(cur, ref, obj'.uid) = Nil) =>
                    Captured(Kind[ref], obj'.val) = orig[ref]
               /\ dir = "awake" =>
                    \/ obj'.val = LiveObj(ref).val
                    \/ Captured(Kind[ref], LiveObj(ref).val) = orig[ref]
    <3>1. obj'.uid = LiveObj(ref).uid
      BY <1>2, <2>1, <2>4, <2>5, <2>6 DEF Inv, ClusterKnows, SameIdentity, Directions
    <3>2. (dir = "asleep" /\ LiveEntry(cur, ref, obj'.uid) = Nil) =>
            Captured(Kind[ref], obj'.val) = orig[ref]
      BY <1>2, <2>1, <2>4, <2>6, <3>1 DEF Inv, ClusterKnows, AsleepMode
    <3>3. dir = "awake" => \/ obj'.val = LiveObj(ref).val
                           \/ Captured(Kind[ref], LiveObj(ref).val) = orig[ref]
      BY <1>2, <2>1, <2>4, <2>6 DEF Inv, ClusterKnows, AwakeMode
    <3> QED
      BY <3>1, <3>2, <3>3
  <2>7. LiveEntry(cur, ref, obj.uid)' = LiveEntry(cur, ref, obj'.uid)
    BY <1>1, <2>2 DEF LiveEntry
  <2> QED
    BY <1>1, <2>1, <2>2, <2>3, <2>4, <2>6, <2>7 DEF WorkerKnows
<1> QED
  BY <1>3, <1>4

\* Sleep patches only what has a checkpoint entry: one found in the cache is
\* in the live Secret, since entries are only added while passes sleep.
LEMMA SleepGetKnows ==
  ASSUME Inv, SleepGet
  PROVE  WorkerKnows'
<1>1. pc = "get" /\ dir = "asleep" /\ UNCHANGED <<objs, secrets, lastUid, orig, trust>>
  BY DEF SleepGet, cluster
<1>2. /\ ref \in Workloads /\ cur \in TargetedBy(ref) /\ cur \in Schedules
      /\ Cached(secret) \in SecretSnapshots(cur)
  BY <1>1, AtHand, ViewParts DEF Inv, TypeOK, WorkerOK, SecretSnapshots, secret
<1>3. CASE NextRef
  BY <1>1, <1>3, NextRefWorker DEF Inv
<1>4. CASE ~NextRef
  <2>1. /\ UNCHANGED <<obj, val>>
        /\ \/ GoTo("patch") /\ Cached(secret)[ref][obj.uid] # Nil
           \/ GoTo("set")
    BY <1>4, Zenon DEF SleepGet
  <2>2. /\ ref' = ref /\ cur' = cur /\ dir' = dir /\ pc' \in {"set", "patch"}
        /\ LiveObj(ref)' = LiveObj(ref)
        /\ LiveEntry(cur, ref, obj.uid)' = LiveEntry(cur, ref, obj.uid)
    BY <1>1, <2>1 DEF GoTo, ref, LiveObj, LiveEntry
  <2>3. ASSUME LiveObj(ref) # Nil, pc' = "patch"
        PROVE  LiveEntry(cur, ref, obj.uid) # Nil
    <3>1. Cached(secret)[ref][obj.uid] # Nil
      BY <2>1, <2>3 DEF GoTo
    <3>2. obj.uid = LiveObj(ref).uid /\ trust = "asleep"
      BY <1>1, <2>3 DEF Inv, WorkerKnows, Holding
    <3> QED
      BY <1>2, <2>3, <3>1, <3>2 DEF Inv, ClusterKnows, AsleepMode
  <2> QED
    BY <1>1, <2>1, <2>2, <2>3 DEF Inv, WorkerKnows, Holding
<1> QED
  BY <1>3, <1>4

\* What Restore reads from the checkpoint is the original.
LEMMA RestoreGetKnows ==
  ASSUME Inv, RestoreGet
  PROVE  WorkerKnows'
<1>1. pc = "get" /\ dir = "awake" /\ UNCHANGED <<objs, secrets, lastUid, orig, trust>>
  BY DEF RestoreGet, cluster
<1>2. /\ ref \in Workloads /\ cur \in TargetedBy(ref) /\ cur \in Schedules
      /\ Cached(secret) \in SecretSnapshots(cur)
  BY <1>1, AtHand, ViewParts DEF Inv, TypeOK, WorkerOK, SecretSnapshots, secret
<1>3. CASE NextRef
  BY <1>1, <1>3, NextRefWorker DEF Inv
<1>4. CASE ~NextRef
  <2>1. /\ GoTo("patch") /\ val' = Cached(secret)[ref][obj.uid] /\ UNCHANGED obj
        /\ Cached(secret)[ref][obj.uid] # Nil
    BY <1>4, Zenon DEF RestoreGet
  <2>2. /\ ref' = ref /\ cur' = cur /\ dir' = dir /\ pc' = "patch"
        /\ LiveObj(ref)' = LiveObj(ref)
        /\ LiveEntry(cur, ref, obj.uid)' = LiveEntry(cur, ref, obj.uid)
    BY <1>1, <2>1 DEF GoTo, ref, LiveObj, LiveEntry
  <2>3. ASSUME LiveObj(ref) # Nil
        PROVE  val' = orig[ref]
    <3>1. obj.uid = LiveObj(ref).uid /\ trust = "awake"
      BY <1>1, <2>3 DEF Inv, WorkerKnows, Holding
    <3> QED
      BY <1>2, <2>1, <2>3, <3>1 DEF Inv, ClusterKnows, AwakeMode
  <2> QED
    BY <1>1, <2>1, <2>2, <2>3 DEF Inv, WorkerKnows, Holding
<1> QED
  BY <1>3, <1>4

\* The steps of the worker that write nothing keep the invariant.
LEMMA QuietStepsInv ==
  ASSUME Inv, Guard \/ Load \/ SleepGet \/ RestoreGet \/ Finish \/ PatchMissing \/ Faults
  PROVE  ClusterKnows' /\ WorkerKnows'
<1>1. UNCHANGED <<objs, secrets, lastUid, orig, trust>>
  BY DEF Guard, Load, SleepGet, RestoreGet, Finish, PatchMissing, Faults, Fail, Crash,
         ReturnError, Drop, cluster
<1>2. ClusterKnows'
  BY <1>1, UntouchedCluster, NoWriteCluster DEF Inv
<1>3. ASSUME Guard PROVE WorkerKnows'
  <2>1. pc = "guard" /\ (NextRef \/ GoTo("load"))
    BY <1>3, Zenon DEF Guard
  <2>2. CASE NextRef
    BY <1>1, <2>1, <2>2, NextRefWorker DEF Inv
  <2>3. CASE GoTo("load")
    BY <1>1, <2>1, <2>3 DEF GoTo, Inv, WorkerKnows, Holding
  <2> QED
    BY <2>1, <2>2, <2>3
<1>4. ASSUME Finish \/ PatchMissing \/ Faults PROVE WorkerKnows'
  <2>1. pc' = "idle"
    BY <1>4 DEF Finish, PatchMissing, Faults, Fail, Crash, ReturnError, Drop
  <2> QED
    BY <2>1 DEF WorkerKnows, Holding
<1> QED
  BY <1>2, <1>3, <1>4, LoadKnows, SleepGetKnows, RestoreGetKnows

-----------------------------------------------------------------------------
(* A pass begins.                                                          *)

\* A pass in a new direction starts from a settled cache, where every version
\* is the live one.
LEMMA BeginInv ==
  ASSUME Inv, OverlapSharesSecret, NEW s \in Schedules, Begin(s), CacheCaughtUp
  PROVE  ClusterKnows' /\ WorkerKnows'
<1>1. /\ pc = "idle" /\ dir' = desired[s] /\ trust' = desired[s]
      /\ UNCHANGED <<objs, secrets, lastUid, orig>>
  BY DEF Begin, cluster
<1>2. pc' \in {"done", "guard", "load"}
  BY DEF Begin, StartRefAfter, HandlerStart
<1>3. WorkerKnows'
  BY <1>1, <1>2 DEF WorkerKnows, Holding
<1>4. NoWrite
  BY <1>1, UntouchedCluster
<1>5. CASE trust = dir'
  BY <1>1, <1>3, <1>4, <1>5, NoWriteCluster DEF Inv
<1>6. CASE AllSynced
  <2>1. \A w \in Workloads : Snapshots(objs[w]) = {LiveObj(w)}
    BY <1>6, LiveObjTypes, ViewParts DEF AllSynced, LiveObj, Inv
  <2>2. \A t \in Schedules : SecretSnapshots(t) = {Live(secrets[SecretOf[t]])}
    BY <1>6, EntryTypes, ViewParts DEF AllSynced, SecretSnapshots, Inv
  <2>3. /\ \A w \in Workloads : LiveObj(w)' = LiveObj(w) /\ Snapshots(objs'[w]) = {LiveObj(w)}
        /\ \A t \in Schedules : SecretSnapshots(t)' = {Live(secrets[SecretOf[t]])}
        /\ \A t \in Schedules, w \in Workloads, u \in Uids :
             LiveEntry(t, w, u)' = LiveEntry(t, w, u)
    BY <1>1, <2>1, <2>2 DEF LiveObj, SecretSnapshots, LiveEntry
  <2>4. UidsGivenOut' /\ Recoverable'
    BY <1>1 DEF Inv, ClusterKnows, UidsGivenOut, Recoverable, LiveObj, LiveEntry,
                SecretSnapshots, TargetedBy
  <2>5. SameIdentity'
    BY <2>3 DEF SameIdentity
  <2>6. \A w \in Workloads : LiveObj(w) # Nil => LiveObj(w).uid \in Uids
    BY LiveObjTypes DEF Inv
  <2>7. AsleepMode'
    <3> SUFFICES ASSUME NEW w \in Workloads, NEW t \in Schedules, LiveObj(w) # Nil,
                        t \in TargetedBy(w), LiveEntry(t, w, LiveObj(w).uid) = Nil
                 PROVE  /\ \A sec \in SecretSnapshots(t) : sec[w][LiveObj(w).uid] = Nil
                        /\ Captured(Kind[w], LiveObj(w).val) = orig[w]
      BY <1>1, <2>1, <2>2, <2>3, <2>6 DEF AsleepMode, TargetedBy
    <3>1. \A x \in TargetedBy(w) : LiveEntry(x, w, LiveObj(w).uid) = Nil
      BY DEF OverlapSharesSecret, LiveEntry
    <3> QED
      BY <2>2, <3>1 DEF Inv, ClusterKnows, Recoverable, LiveEntry
  <2>8. AwakeMode'
    <3> SUFFICES ASSUME NEW w \in Workloads, LiveObj(w) # Nil
                 PROVE  \A t \in TargetedBy(w) :
                          Live(secrets[SecretOf[t]])[w][LiveObj(w).uid] \in {Nil, orig[w]}
      BY <1>1, <2>3, <2>6 DEF AwakeMode, TargetedBy, LiveEntry
    <3> QED
      BY DEF Inv, ClusterKnows, Recoverable, LiveEntry
  <2> QED
    BY <1>3, <2>4, <2>5, <2>7, <2>8 DEF ClusterKnows
<1>7. trust = dir' \/ AllSynced
  BY <1>1, <1>2 DEF CacheCaughtUp
<1> QED
  BY <1>5, <1>6, <1>7

-----------------------------------------------------------------------------
(* The worker writes the checkpoint.                                       *)

\* Who sees a write of the Secret of the pass.
LEMMA SecretWritten ==
  ASSUME TypeOK, NEW new \in Secrets,
         \/ secrets' = [secrets EXCEPT ![SecretOf[cur]] = Commit(secret, new)]
         \/ secrets' = [secrets EXCEPT ![SecretOf[cur]] = CommitChange(secret, new)]
  PROVE  \A t \in Schedules :
           /\ SecretOf[t] = SecretOf[cur] =>
                /\ Live(secrets'[SecretOf[t]]) = new
                /\ SecretSnapshots(t)' \subseteq SecretSnapshots(t) \cup {new}
           /\ SecretOf[t] # SecretOf[cur] => secrets'[SecretOf[t]] = secrets[SecretOf[t]]
<1>1. cur \in Schedules /\ secret = secrets[SecretOf[cur]]
  BY DEF TypeOK, WorkerOK, secret
<1>2. SecretOf[cur] \in SecretNames /\ secret \in Views(Secrets)
  BY <1>1, EntryTypes
<1>3. PICK view : /\ secrets' = [secrets EXCEPT ![SecretOf[cur]] = view]
                  /\ Live(view) = new
                  /\ Snapshots(view) \subseteq Snapshots(secret) \cup {new}
  BY <1>2, ViewCommit, ViewCommitChange
<1> QED
  BY <1>1, <1>2, <1>3, SleeperAssumption DEF SecretSnapshots, TypeOK, ClusterOK

\* SetRaw records the original: the object read has not been touched.
LEMMA SetRawInv ==
  ASSUME Inv, SetRaw
  PROVE  ClusterKnows' /\ WorkerKnows'
<1> DEFINE new == WithEntry(Live(secret), ref, obj.uid, Captured(Kind[ref], obj.val))
<1>1. /\ pc = "set" /\ pc' = "patch" /\ UNCHANGED <<objs, lastUid, orig, trust, obj, val>>
      /\ UNCHANGED <<cur, dir, at>> /\ ref' = ref
  BY DEF SetRaw, GoTo, ref
<1>2. /\ ref \in Workloads /\ cur \in TargetedBy(ref) /\ cur \in Schedules
      /\ secret = secrets[SecretOf[cur]] /\ Kind[ref] \in Kinds
      /\ Cached(secret) \in SecretSnapshots(cur) /\ Live(secret) \in SecretSnapshots(cur)
      /\ Live(secret) \in Secrets
  BY <1>1, AtHand, ViewParts DEF Inv, TypeOK, WorkerOK, SecretSnapshots, secret
<1>3. /\ dir = "asleep" /\ trust = "asleep" /\ obj.uid <= lastUid[ref]
      /\ obj.uid \in Uids /\ Captured(Kind[ref], obj.val) \in Values(Kind[ref])
  BY <1>1, WrittenSecrets DEF Inv, TypeOK, WorkerOK, WorkerKnows, Holding
<1>4. \A w \in Workloads : LiveObj(w)' = LiveObj(w)
  BY <1>1 DEF LiveObj
<1>5. ASSUME LiveObj(ref) # Nil
      PROVE  /\ obj.uid = LiveObj(ref).uid
             /\ LiveEntry(cur, ref, obj.uid) = Nil => Captured(Kind[ref], obj.val) = orig[ref]
             /\ orig[ref] # Nil
  BY <1>1, <1>2, <1>3, <1>5 DEF Inv, WorkerKnows, Holding, ClusterKnows, Recoverable
<1>6. CASE secrets' = secrets /\ Cached(secret)[ref][obj.uid] # Nil
  <2>1. ClusterKnows'
    BY <1>1, <1>6, UntouchedCluster, NoWriteCluster DEF Inv
  <2>2. LiveObj(ref) # Nil => LiveEntry(cur, ref, obj.uid) # Nil
    BY <1>2, <1>3, <1>5, <1>6 DEF Inv, ClusterKnows, AsleepMode
  <2>3. LiveEntry(cur, ref, obj.uid)' = LiveEntry(cur, ref, obj.uid)
    BY <1>1, <1>6 DEF LiveEntry
  <2> QED
    BY <1>1, <1>2, <1>3, <1>4, <2>1, <2>2, <2>3 DEF Inv, WorkerKnows, Holding
<1>7. CASE /\ secrets' = [secrets EXCEPT ![SecretOf[cur]] = Commit(secret, new)]
           /\ Live(secret)[ref][obj.uid] = Nil
           /\ new \in Secrets
  <2>1. \A t \in Schedules :
          /\ SecretOf[t] = SecretOf[cur] =>
               /\ Live(secrets'[SecretOf[t]]) = new
               /\ SecretSnapshots(t)' \subseteq SecretSnapshots(t) \cup {new}
          /\ SecretOf[t] # SecretOf[cur] =>
               /\ secrets'[SecretOf[t]] = secrets[SecretOf[t]]
               /\ SecretSnapshots(t)' = SecretSnapshots(t)
    BY <1>7, SecretWritten DEF Inv, SecretSnapshots
  <2>2. /\ new[ref][obj.uid] = Captured(Kind[ref], obj.val)
        /\ \A x \in Workloads, y \in Uids :
             (x # ref \/ y # obj.uid) => new[x][y] = Live(secret)[x][y]
    BY <1>2, <1>3, SecretEntries
  <2>3. Captured(Kind[ref], obj.val) # Nil
    BY <1>2, <1>3, ValuesAreNotNil
  <2>4. LiveEntry(cur, ref, obj.uid) = Nil
    BY <1>2, <1>7 DEF LiveEntry
  <2>5. \A t \in Schedules, w \in Workloads, u \in Uids :
          LiveEntry(t, w, u)' = IF SecretOf[t] = SecretOf[cur] THEN new[w][u]
                                                              ELSE LiveEntry(t, w, u)
    BY <2>1 DEF LiveEntry
  <2>6. \A w \in Workloads : LiveObj(w) # Nil => LiveObj(w).uid \in Uids
    BY LiveObjTypes DEF Inv
  <2>7. UidsGivenOut'
    <3>1. \A w \in Workloads, u \in Uids : u > lastUid[w] => new[w][u] = Nil
      BY <1>2, <1>3, <2>2 DEF Inv, ClusterKnows, UidsGivenOut, Uids, TypeOK, ClusterOK
    <3> QED
      BY <1>1, <2>1, <3>1 DEF Inv, ClusterKnows, UidsGivenOut
  <2>8. Recoverable'
    <3> SUFFICES ASSUME NEW w \in Workloads, LiveObj(w) # Nil
                 PROVE  /\ \A s \in TargetedBy(w) :
                             LiveEntry(s, w, LiveObj(w).uid)' \in {Nil, orig[w]}
                        /\ \/ \E s \in TargetedBy(w) : LiveEntry(s, w, LiveObj(w).uid)' # Nil
                           \/ Captured(Kind[w], LiveObj(w).val) = orig[w]
      BY <1>1, <1>4 DEF Inv, ClusterKnows, Recoverable, LiveEntry, TargetedBy
    <3>1. /\ \A s \in TargetedBy(w) : /\ s \in Schedules
                                      /\ LiveEntry(s, w, LiveObj(w).uid) \in {Nil, orig[w]}
          /\ \/ \E s \in TargetedBy(w) : LiveEntry(s, w, LiveObj(w).uid) # Nil
             \/ Captured(Kind[w], LiveObj(w).val) = orig[w]
      BY DEF Inv, ClusterKnows, Recoverable, TargetedBy
    <3>2. LiveObj(w).uid \in Uids
      BY <2>6
    <3>3. CASE w = ref /\ LiveObj(w).uid = obj.uid
      <4>1. \A s \in Schedules : SecretOf[s] = SecretOf[cur] =>
              LiveEntry(s, w, LiveObj(w).uid)' = orig[w] /\ orig[w] # Nil
        BY <1>1, <1>4, <1>5, <2>2, <2>4, <2>5, <3>2, <3>3
      <4>2. \A s \in Schedules : SecretOf[s] # SecretOf[cur] =>
              LiveEntry(s, w, LiveObj(w).uid)' = LiveEntry(s, w, LiveObj(w).uid)
        BY <1>4, <2>1 DEF LiveEntry
      <4> QED
        BY <1>2, <3>1, <3>3, <4>1, <4>2
    <3>4. CASE ~(w = ref /\ LiveObj(w).uid = obj.uid)
      <4>1. \A s \in Schedules : LiveEntry(s, w, LiveObj(w).uid)' = LiveEntry(s, w, LiveObj(w).uid)
        BY <1>2, <1>4, <2>1, <2>2, <3>2, <3>4 DEF LiveEntry
      <4> QED
        BY <3>1, <4>1
    <3> QED
      BY <3>3, <3>4
  <2>9. SameIdentity' /\ AwakeMode'
    BY <1>1, <1>3, <1>4 DEF Inv, ClusterKnows, SameIdentity, AwakeMode
  <2>10. AsleepMode'
    <3> SUFFICES ASSUME NEW w \in Workloads, NEW s \in Schedules, LiveObj(w) # Nil,
                        s \in TargetedBy(w), LiveEntry(s, w, LiveObj(w).uid)' = Nil
                 PROVE  /\ \A sec \in SecretSnapshots(s)' : sec[w][LiveObj(w).uid] = Nil
                        /\ \A o \in Snapshots(objs[w]) : Captured(Kind[w], o.val) = orig[w]
      BY <1>1, <1>4 DEF AsleepMode, LiveEntry, TargetedBy
    <3>1. LiveObj(w).uid \in Uids /\ LiveObj(w)' = LiveObj(w)
      BY <1>4, <2>6
    <3>2. SecretOf[s] = SecretOf[cur] => ~(w = ref /\ LiveObj(w).uid = obj.uid)
      BY <2>1, <2>2, <2>3, <3>1 DEF LiveEntry
    <3>3. LiveEntry(s, w, LiveObj(w).uid) = Nil
      BY <1>2, <2>1, <2>2, <3>1, <3>2 DEF LiveEntry
    <3>4. SecretOf[s] = SecretOf[cur] => new[w][LiveObj(w).uid] = Nil
      BY <2>1, <3>1 DEF LiveEntry
    <3> QED
      BY <1>3, <2>1, <3>3, <3>4 DEF Inv, ClusterKnows, AsleepMode
  <2>11. WorkerKnows'
    <3>1. LiveEntry(cur, ref, obj.uid)' = Captured(Kind[ref], obj.val)
      BY <1>1, <1>2, <2>1, <2>2 DEF LiveEntry
    <3> QED
      BY <1>1, <1>2, <1>3, <1>4, <1>5, <2>3, <3>1 DEF Inv, WorkerKnows, Holding
  <2> QED
    BY <2>7, <2>8, <2>9, <2>10, <2>11 DEF ClusterKnows
<1> QED
  BY <1>6, <1>7, SetRawEffect DEF Inv

-----------------------------------------------------------------------------
(* The worker patches the object.                                          *)

\* Who sees a write of a workload.
LEMMA ObjWritten ==
  ASSUME TypeOK, NEW w \in Workloads, NEW version \in Versions(w),
         \/ objs' = [objs EXCEPT ![w] = Commit(objs[w], version)]
         \/ objs' = [objs EXCEPT ![w] = CommitChange(objs[w], version)]
  PROVE  /\ LiveObj(w)' = version
         /\ Snapshots(objs'[w]) \subseteq Snapshots(objs[w]) \cup {version}
         /\ \A x \in Workloads : x # w => objs'[x] = objs[x] /\ LiveObj(x)' = LiveObj(x)
<1>1. objs[w] \in Views(Versions(w)) /\ objs \in [Workloads -> Views({Nil} \cup Objects(AnyValue))]
  BY DEF TypeOK, ClusterOK
<1> QED
  BY <1>1, ViewCommit, ViewCommitChange DEF LiveObj

\* The object the patch leaves behind.
LEMMA PatchEffect ==
  ASSUME TypeOK, Patch
  PROVE  \/ /\ objs' = objs
            /\ SkipsPatch(Kind[ref], obj.val, Want) \/ dry
         \/ /\ LiveObj(ref) # Nil /\ ~SkipsPatch(Kind[ref], obj.val, Want) /\ ~dry
            /\ \E version \in Versions(ref) :
                 /\ objs' = [objs EXCEPT ![ref] = CommitChange(objs[ref], version)]
                 /\ version # Nil /\ version.uid = LiveObj(ref).uid
                 /\ version.unsafe = LiveObj(ref).unsafe
                 /\ version.val = MergePatch(Kind[ref], LiveObj(ref).val, obj.val, Want)
<1> DEFINE new == MergePatch(Kind[ref], LiveObj(ref).val, obj.val, Want)
           version == [LiveObj(ref) EXCEPT !.val = new]
<1>1. pc = "patch"
  BY DEF Patch
<1>2. CASE objs' = objs /\ (SkipsPatch(Kind[ref], obj.val, Want) \/ dry)
  BY <1>2
<1>3. CASE /\ LiveObj(ref) # Nil /\ ~SkipsPatch(Kind[ref], obj.val, Want) /\ ~dry
           /\ objs' = [objs EXCEPT ![ref] = CommitChange(objs[ref], version)]
  <2>1. LiveObj(ref) \in Objects(Values(Kind[ref])) /\ Kind[ref] \in Kinds
    BY <1>1, <1>3, AtHand DEF Versions
  <2>2. new \in Values(Kind[ref])
    BY <1>1, <2>1, WantIsValue, MergePatchIsValue DEF Objects
  <2>3. /\ version \in Objects(Values(Kind[ref])) /\ version.uid = LiveObj(ref).uid
        /\ version.val = new /\ version.unsafe = LiveObj(ref).unsafe
    BY <2>1, <2>2 DEF Objects
  <2>4. version \in Versions(ref) /\ version # Nil
    BY <2>1, <2>3, ObjectsAreNotNil DEF Versions
  <2> QED
    BY <1>3, <2>3, <2>4
<1> QED
  BY <1>2, <1>3 DEF Patch

\* Sleep patches an object that has its checkpoint; Restore patches it to the
\* original.
LEMMA PatchInv ==
  ASSUME Inv, OverlapSharesSecret, Patch
  PROVE  ClusterKnows' /\ WorkerKnows'
<1>1. pc = "patch" /\ UNCHANGED <<secrets, lastUid, orig, trust>>
  BY DEF Patch
<1>2. /\ ref \in Workloads /\ cur \in TargetedBy(ref) /\ cur \in Schedules
      /\ Kind[ref] \in Kinds /\ dir \in Directions /\ trust = dir
      /\ obj.val \in Values(Kind[ref]) /\ Want \in Values(Kind[ref])
  BY <1>1, AtHand, WantIsValue DEF Inv, TypeOK, WorkerOK, WorkerKnows
<1>3. \/ dir = "asleep" /\ NextRef
      \/ /\ dir = "awake" /\ pc' = "delete"
         /\ UNCHANGED <<cur, dir, at, obj, val>> /\ ref' = ref /\ Want = val /\ ~dry
  <2>1. \/ dir = "asleep" /\ NextRef
        \/ dir = "awake" /\ GoTo("delete") /\ UNCHANGED <<obj, val>>
    BY <1>2, Zenon DEF Patch, Directions
  <2> QED
    BY <1>1, <2>1 DEF GoTo, Want, ref, Inv, DryHands
<1>4. ASSUME LiveObj(ref) # Nil
      PROVE  /\ obj.uid = LiveObj(ref).uid /\ LiveObj(ref).val \in Values(Kind[ref])
             /\ dir = "asleep" => LiveEntry(cur, ref, obj.uid) # Nil
             /\ dir = "awake" =>
                  /\ val = orig[ref] /\ Captured(Kind[ref], orig[ref]) = orig[ref]
                  /\ \/ obj.val = LiveObj(ref).val
                     \/ Captured(Kind[ref], LiveObj(ref).val) = orig[ref]
             /\ LiveObj(ref).uid <= lastUid[ref]
  BY <1>1, <1>2, <1>4, LiveObjTypes DEF Inv, WorkerKnows, Holding, ClusterKnows, Recoverable
<1>5. \A w \in Workloads : LiveObj(w) # Nil => LiveObj(w).uid \in Uids
  BY LiveObjTypes DEF Inv
<1>6. CASE objs' = objs /\ (SkipsPatch(Kind[ref], obj.val, Want) \/ dry)
  <2>1. ClusterKnows'
    BY <1>1, <1>6, UntouchedCluster, NoWriteCluster DEF Inv
  <2>2. CASE dir = "asleep" /\ NextRef
    BY <1>1, <2>1, <2>2, NextRefWorker DEF Inv
  <2>3. CASE dir # "asleep"
    <3>1. LiveObj(ref) # Nil => Captured(Kind[ref], LiveObj(ref).val) = orig[ref]
      BY <1>2, <1>3, <1>4, <1>6, <2>3 DEF SkipsPatch
    <3>2. LiveObj(ref)' = LiveObj(ref)
      BY <1>3, <1>6, <2>3 DEF LiveObj
    <3>3. WorkerKnows'
      BY <1>1, <1>2, <1>3, <1>4, <2>3, <3>1, <3>2 DEF Inv, WorkerKnows, Holding
    <3> QED
      BY <2>1, <3>3
  <2> QED
    BY <1>3, <2>2, <2>3
<1>7. ASSUME LiveObj(ref) # Nil, NEW version \in Versions(ref),
             objs' = [objs EXCEPT ![ref] = CommitChange(objs[ref], version)],
             version.uid = LiveObj(ref).uid,
             version.val = MergePatch(Kind[ref], LiveObj(ref).val, obj.val, Want)
      PROVE  ClusterKnows' /\ WorkerKnows'
  <2>1. /\ LiveObj(ref)' = version \/ dir = "asleep"
        /\ \A w \in Workloads : w = ref => LiveObj(w)' = version
        /\ \A w \in Workloads : w # ref => objs'[w] = objs[w] /\ LiveObj(w)' = LiveObj(w)
        /\ Snapshots(objs'[ref]) \subseteq Snapshots(objs[ref]) \cup {version}
    BY <1>2, <1>3, <1>7, ObjWritten DEF Inv, LiveObj
  <2>2. UidsGivenOut'
    BY <1>1, <1>2, <1>4, <1>7, <2>1 DEF Inv, ClusterKnows, UidsGivenOut, SecretSnapshots
  <2>3. SameIdentity'
    BY <1>1, <1>2, <1>7, <2>1 DEF Inv, ClusterKnows, SameIdentity
  <2>4. \A t \in Schedules, w \in Workloads, u \in Uids : LiveEntry(t, w, u)' = LiveEntry(t, w, u)
    BY <1>1 DEF LiveEntry
  <2>5. \A t \in Schedules : SecretSnapshots(t)' = SecretSnapshots(t)
    BY <1>1 DEF SecretSnapshots
  <2>6. \A w \in Workloads : /\ LiveObj(w)' # Nil => LiveObj(w) # Nil
                             /\ LiveObj(w)'.uid = LiveObj(w).uid
    BY <1>7, <2>1
  <2>7. CASE dir = "asleep" /\ NextRef
    <3>1. Recoverable'
      <4> SUFFICES ASSUME NEW w \in Workloads, LiveObj(w)' # Nil
                   PROVE  /\ orig[w] # Nil /\ Captured(Kind[w], orig[w]) = orig[w]
                          /\ \A s \in TargetedBy(w) :
                               LiveEntry(s, w, LiveObj(w).uid) \in {Nil, orig[w]}
                          /\ \/ \E s \in TargetedBy(w) : LiveEntry(s, w, LiveObj(w).uid) # Nil
                             \/ Captured(Kind[w], LiveObj(w)'.val) = orig[w]
        BY <1>1, <1>5, <2>4, <2>6 DEF Recoverable, TargetedBy, LiveEntry
      <4>1. CASE w = ref
        BY <1>2, <1>4, <1>7, <2>7, <4>1 DEF Inv, ClusterKnows, Recoverable
      <4>2. CASE w # ref
        BY <2>1, <4>2 DEF Inv, ClusterKnows, Recoverable
      <4> QED
        BY <4>1, <4>2
    <3>2. AsleepMode'
      <4> SUFFICES ASSUME NEW w \in Workloads, NEW s \in Schedules, LiveObj(w)' # Nil,
                          s \in TargetedBy(w), LiveEntry(s, w, LiveObj(w).uid) = Nil
                   PROVE  /\ \A sec \in SecretSnapshots(s) : sec[w][LiveObj(w).uid] = Nil
                          /\ \A o \in Snapshots(objs'[w]) : Captured(Kind[w], o.val) = orig[w]
        BY <1>1, <1>5, <2>4, <2>5, <2>6 DEF AsleepMode, TargetedBy, LiveEntry
      <4>1. w # ref
        BY <1>2, <1>4, <1>7, <2>7 DEF OverlapSharesSecret, LiveEntry
      <4> QED
        BY <1>2, <2>1, <2>7, <4>1 DEF Inv, ClusterKnows, AsleepMode
    <3>3. AwakeMode'
      BY <1>1, <1>2, <2>7 DEF AwakeMode
    <3>4. WorkerKnows'
      BY <1>1, <2>7, NextRefWorker DEF Inv
    <3> QED
      BY <2>2, <2>3, <3>1, <3>2, <3>3, <3>4 DEF ClusterKnows
  <2>8. CASE dir = "awake" /\ pc' = "delete" /\ UNCHANGED <<cur, dir, at, obj, val>> /\ Want = val
    <3>1. Captured(Kind[ref], version.val) = orig[ref] /\ ref' = ref
      BY <1>2, <1>4, <1>7, <2>8, RestorePatch DEF ref
    <3>2. Recoverable'
      <4> SUFFICES ASSUME NEW w \in Workloads, LiveObj(w)' # Nil
                   PROVE  /\ orig[w] # Nil /\ Captured(Kind[w], orig[w]) = orig[w]
                          /\ \A s \in TargetedBy(w) :
                               LiveEntry(s, w, LiveObj(w).uid) \in {Nil, orig[w]}
                          /\ \/ \E s \in TargetedBy(w) : LiveEntry(s, w, LiveObj(w).uid) # Nil
                             \/ Captured(Kind[w], LiveObj(w)'.val) = orig[w]
        BY <1>1, <1>5, <2>4, <2>6 DEF Recoverable, TargetedBy, LiveEntry
      <4>1. CASE w = ref
        BY <1>2, <1>7, <2>1, <2>6, <3>1, <4>1 DEF Inv, ClusterKnows, Recoverable
      <4>2. CASE w # ref
        BY <2>1, <4>2 DEF Inv, ClusterKnows, Recoverable
      <4> QED
        BY <4>1, <4>2
    <3>3. AwakeMode'
      <4> SUFFICES ASSUME NEW w \in Workloads, LiveObj(w)' # Nil
                   PROVE  /\ \A s \in TargetedBy(w) : \A sec \in SecretSnapshots(s) :
                               /\ sec[w][LiveObj(w).uid] \in {Nil, orig[w]}
                               /\ LiveEntry(s, w, LiveObj(w).uid) # Nil =>
                                    sec[w][LiveObj(w).uid] # Nil
                          /\ \A o \in Snapshots(objs'[w]) :
                               \/ o.val = LiveObj(w)'.val
                               \/ Captured(Kind[w], LiveObj(w)'.val) = orig[w]
        BY <1>1, <1>5, <2>4, <2>5, <2>6 DEF AwakeMode, TargetedBy, LiveEntry
      <4>1. CASE w = ref
        BY <1>2, <1>7, <2>1, <2>6, <2>8, <3>1, <4>1 DEF Inv, ClusterKnows, AwakeMode
      <4>2. CASE w # ref
        BY <1>2, <2>1, <2>8, <4>2 DEF Inv, ClusterKnows, AwakeMode
      <4> QED
        BY <4>1, <4>2
    <3>4. AsleepMode'
      BY <1>1, <1>2, <2>8 DEF AsleepMode
    <3>5. LiveObj(ref)' = version
      BY <2>1, <2>8
    <3>6. WorkerKnows'
      BY <1>1, <1>2, <1>4, <1>7, <2>8, <3>1, <3>5 DEF Inv, WorkerKnows, Holding
    <3> QED
      BY <2>2, <2>3, <3>2, <3>3, <3>4, <3>6 DEF ClusterKnows
  <2> QED
    BY <1>3, <2>7, <2>8
<1> QED
  BY <1>6, <1>7, PatchEffect DEF Inv

-----------------------------------------------------------------------------
(* The worker drops the checkpoint entry.                                  *)

\* Delete takes the entry of a restored object and no other: the entries the
\* cache does not show are gone already, since entries are only removed while
\* passes wake.  So deleting the Secret outright removes nothing else.
LEMMA DeleteSparesOthers ==
  ASSUME Inv, Delete, NEW new \in Secrets,
         \/ new = WithEntry(Live(secret), ref, obj.uid, Nil)
         \/ /\ new = NoSecret
            /\ WithEntry(Cached(secret), ref, obj.uid, Nil) = NoSecret
  PROVE  /\ new[ref][obj.uid] = Nil
         /\ \A w \in Workloads : \A t \in TargetedBy(w) :
              (/\ LiveObj(w) # Nil /\ SecretOf[t] = SecretOf[cur]
               /\ w # ref \/ LiveObj(w).uid # obj.uid) =>
                 new[w][LiveObj(w).uid] = LiveEntry(t, w, LiveObj(w).uid)
<1>1. /\ ref \in Workloads /\ secret = secrets[SecretOf[cur]] /\ Live(secret) \in Secrets
      /\ Cached(secret) \in Secrets /\ Cached(secret) \in SecretSnapshots(cur)
      /\ trust = "awake" /\ obj.uid \in Uids
  <2>1. pc = "delete" /\ pc \in Holding
    BY DEF Delete, Holding
  <2> QED
    BY <2>1, AtHand, ViewParts, WrittenSecrets
       DEF Inv, TypeOK, WorkerOK, WorkerKnows, SecretSnapshots, secret
<1>2. \A sec \in {Live(secret), Cached(secret)} :
        /\ WithEntry(sec, ref, obj.uid, Nil)[ref][obj.uid] = Nil
        /\ \A x \in Workloads, y \in Uids :
             (x # ref \/ y # obj.uid) => WithEntry(sec, ref, obj.uid, Nil)[x][y] = sec[x][y]
  BY <1>1, SecretEntries
<1>3. new[ref][obj.uid] = Nil
  BY <1>1, <1>2 DEF NoSecret
<1>4. ASSUME NEW w \in Workloads, LiveObj(w) # Nil, w # ref \/ LiveObj(w).uid # obj.uid,
             NEW t \in TargetedBy(w), SecretOf[t] = SecretOf[cur]
      PROVE  new[w][LiveObj(w).uid] = LiveEntry(t, w, LiveObj(w).uid)
  <2>1. /\ LiveObj(w).uid \in Uids
        /\ LiveEntry(t, w, LiveObj(w).uid) = Live(secret)[w][LiveObj(w).uid]
    BY <1>1, <1>4, LiveObjTypes DEF LiveEntry, Inv
  <2>2. CASE new = WithEntry(Live(secret), ref, obj.uid, Nil)
    BY <1>2, <1>4, <2>1, <2>2
  <2>3. CASE /\ new = NoSecret
             /\ WithEntry(Cached(secret), ref, obj.uid, Nil) = NoSecret
    <3>1. Cached(secret)[w][LiveObj(w).uid] = Nil /\ new[w][LiveObj(w).uid] = Nil
      BY <1>2, <1>4, <2>1, <2>3 DEF NoSecret
    <3>2. Cached(secret) \in SecretSnapshots(t)
      BY <1>1, <1>4 DEF SecretSnapshots
    <3> QED
      BY <1>1, <1>4, <3>1, <3>2 DEF Inv, ClusterKnows, AwakeMode
  <2> QED
    BY <2>2, <2>3
<1> QED
  BY <1>3, <1>4

\* Delete keeps the invariant.
LEMMA DeleteInv ==
  ASSUME Inv, Delete
  PROVE  ClusterKnows' /\ WorkerKnows'
<1>1. pc = "delete" /\ UNCHANGED <<objs, lastUid, orig, trust>> /\ NextRef
  BY DEF Delete
<1>2. /\ ref \in Workloads /\ cur \in TargetedBy(ref) /\ cur \in Schedules
      /\ secret = secrets[SecretOf[cur]] /\ Kind[ref] \in Kinds
      /\ Cached(secret) \in SecretSnapshots(cur) /\ Live(secret) \in SecretSnapshots(cur)
      /\ Live(secret) \in Secrets /\ Cached(secret) \in Secrets
  BY <1>1, AtHand, ViewParts DEF Inv, TypeOK, WorkerOK, SecretSnapshots, secret
<1>3. /\ dir = "awake" /\ trust = "awake" /\ obj.uid \in Uids
  BY <1>1, WrittenSecrets DEF Inv, TypeOK, WorkerOK, WorkerKnows, Holding
<1>4. \A w \in Workloads : LiveObj(w)' = LiveObj(w)
  BY <1>1 DEF LiveObj
<1>5. LiveObj(ref) # Nil => /\ obj.uid = LiveObj(ref).uid
                            /\ Captured(Kind[ref], LiveObj(ref).val) = orig[ref]
  BY <1>1 DEF Inv, WorkerKnows, Holding
<1>6. WorkerKnows'
  BY <1>1, NextRefWorker DEF Inv
<1>7. \A w \in Workloads : LiveObj(w) # Nil => LiveObj(w).uid \in Uids
  BY LiveObjTypes DEF Inv
<1>8. CASE secrets' = secrets
  BY <1>1, <1>6, <1>8, UntouchedCluster, NoWriteCluster DEF Inv
<1>9. ASSUME NEW new \in Secrets,
             secrets' = [secrets EXCEPT ![SecretOf[cur]] = CommitChange(secret, new)],
             \/ new = WithEntry(Live(secret), ref, obj.uid, Nil)
             \/ /\ new = NoSecret
                /\ WithEntry(Cached(secret), ref, obj.uid, Nil) = NoSecret
      PROVE  ClusterKnows'
  <2>1. \A t \in Schedules :
          /\ SecretOf[t] = SecretOf[cur] =>
               /\ Live(secrets'[SecretOf[t]]) = new
               /\ SecretSnapshots(t)' \subseteq SecretSnapshots(t) \cup {new}
          /\ SecretOf[t] # SecretOf[cur] =>
               /\ secrets'[SecretOf[t]] = secrets[SecretOf[t]]
               /\ SecretSnapshots(t)' = SecretSnapshots(t)
    BY <1>9, SecretWritten DEF Inv, SecretSnapshots
  <2>2. \A sec \in {Live(secret), Cached(secret)} :
          /\ WithEntry(sec, ref, obj.uid, Nil)[ref][obj.uid] = Nil
          /\ \A x \in Workloads, y \in Uids :
               (x # ref \/ y # obj.uid) =>
                 WithEntry(sec, ref, obj.uid, Nil)[x][y] = sec[x][y]
    BY <1>2, <1>3, SecretEntries
  <2>3. new[ref][obj.uid] = Nil
    BY <1>9, DeleteSparesOthers
  <2>4. \A w \in Workloads : \A t \in TargetedBy(w) :
          (/\ LiveObj(w) # Nil /\ SecretOf[t] = SecretOf[cur]
           /\ w # ref \/ LiveObj(w).uid # obj.uid) =>
             new[w][LiveObj(w).uid] = LiveEntry(t, w, LiveObj(w).uid)
    BY <1>9, DeleteSparesOthers
  <2>5. \A t \in Schedules, w \in Workloads, u \in Uids :
          LiveEntry(t, w, u)' = IF SecretOf[t] = SecretOf[cur] THEN new[w][u]
                                                              ELSE LiveEntry(t, w, u)
    BY <2>1 DEF LiveEntry
  <2>6. UidsGivenOut'
    <3>1. \A w \in Workloads, u \in Uids : u > lastUid[w] => new[w][u] = Nil
      BY <1>2, <1>9, <2>2, <2>3 DEF Inv, ClusterKnows, UidsGivenOut, NoSecret
    <3> QED
      BY <1>1, <2>1, <3>1 DEF Inv, ClusterKnows, UidsGivenOut
  <2>7. ASSUME NEW w \in Workloads, LiveObj(w) # Nil, NEW t \in TargetedBy(w)
        PROVE  \/ LiveEntry(t, w, LiveObj(w).uid)' = LiveEntry(t, w, LiveObj(w).uid)
               \/ w = ref /\ LiveEntry(t, w, LiveObj(w).uid)' = Nil
    BY <1>4, <1>7, <2>3, <2>4, <2>5, <2>7 DEF TargetedBy
  <2>8. Recoverable'
    <3> SUFFICES ASSUME NEW w \in Workloads, LiveObj(w) # Nil
                 PROVE  /\ \A s \in TargetedBy(w) :
                             LiveEntry(s, w, LiveObj(w).uid)' \in {Nil, orig[w]}
                        /\ \/ \E s \in TargetedBy(w) : LiveEntry(s, w, LiveObj(w).uid)' # Nil
                           \/ Captured(Kind[w], LiveObj(w).val) = orig[w]
      BY <1>1, <1>4 DEF Inv, ClusterKnows, Recoverable, LiveEntry, TargetedBy
    <3>1. \A s \in TargetedBy(w) : LiveEntry(s, w, LiveObj(w).uid)' \in {Nil, orig[w]}
      BY <2>7 DEF Inv, ClusterKnows, Recoverable
    <3>2. CASE w = ref
      BY <1>5, <3>1, <3>2
    <3>3. CASE w # ref
      BY <2>7, <3>1, <3>3 DEF Inv, ClusterKnows, Recoverable
    <3> QED
      BY <3>2, <3>3
  <2>9. SameIdentity' /\ AsleepMode'
    BY <1>1, <1>3, <1>4 DEF Inv, ClusterKnows, SameIdentity, AsleepMode
  <2>10. AwakeMode'
    <3> SUFFICES ASSUME NEW w \in Workloads, LiveObj(w) # Nil, NEW s \in TargetedBy(w),
                        NEW sec \in SecretSnapshots(s)'
                 PROVE  /\ sec[w][LiveObj(w).uid] \in {Nil, orig[w]}
                        /\ LiveEntry(s, w, LiveObj(w).uid)' # Nil => sec[w][LiveObj(w).uid] # Nil
      BY <1>1, <1>3, <1>4 DEF Inv, ClusterKnows, AwakeMode, LiveEntry, TargetedBy
    <3>1. s \in Schedules /\ LiveObj(w).uid \in Uids /\ LiveObj(w)' = LiveObj(w)
      BY <1>4, <1>7 DEF TargetedBy
    <3>2. CASE sec \in SecretSnapshots(s)
      BY <1>3, <2>7, <3>2 DEF Inv, ClusterKnows, AwakeMode
    <3>3. CASE sec \notin SecretSnapshots(s)
      <4>1. SecretOf[s] = SecretOf[cur] /\ sec = new
        BY <2>1, <3>1, <3>3
      <4>2. sec[w][LiveObj(w).uid] = LiveEntry(s, w, LiveObj(w).uid)'
        BY <2>5, <3>1, <4>1
      <4> QED
        BY <2>7, <4>2 DEF Inv, ClusterKnows, Recoverable
    <3> QED
      BY <3>2, <3>3
  <2> QED
    BY <2>6, <2>8, <2>9, <2>10 DEF ClusterKnows
<1> QED
  BY <1>6, <1>8, <1>9, DeleteEffect DEF Inv

-----------------------------------------------------------------------------
(* The owners.                                                             *)

\* An owner's version of a workload, between passes: its value is the
\* original, unless the checkpoint holds one.
LEMMA OwnerWriteInv ==
  ASSUME Inv, pc = "idle", NEW w \in Workloads, NEW version \in Objects(Values(Kind[w])),
         OwnerWrite(w, version), lastUid' \in [Workloads -> 0 .. MaxUid],
         \A x \in Workloads : lastUid[x] <= lastUid'[x],
         version.uid <= lastUid'[w],
         version.uid > lastUid[w] \/ (LiveObj(w) # Nil /\ version.uid = LiveObj(w).uid)
  PROVE  ClusterKnows' /\ WorkerKnows'
<1>1. /\ objs' = [objs EXCEPT ![w] = Commit(objs[w], version)]
      /\ trust' = "none" /\ UNCHANGED <<secrets, worker>>
      /\ orig' = IF Engaged(w, version.uid) THEN orig
                 ELSE [orig EXCEPT ![w] = Captured(Kind[w], version.val)]
  BY DEF OwnerWrite
<1>2. /\ version \in Versions(w) /\ version.uid \in Uids /\ version.val \in Values(Kind[w])
      /\ Kind[w] \in Kinds
  BY SleeperAssumption DEF Versions, Objects
<1>3. /\ LiveObj(w)' = version
      /\ Snapshots(objs'[w]) \subseteq Snapshots(objs[w]) \cup {version}
      /\ \A x \in Workloads : x # w => objs'[x] = objs[x] /\ LiveObj(x)' = LiveObj(x)
  BY <1>1, <1>2, ObjWritten DEF Inv
<1>4. /\ \A t \in Schedules, x \in Workloads, u \in Uids : LiveEntry(t, x, u)' = LiveEntry(t, x, u)
      /\ \A t \in Schedules : SecretSnapshots(t)' = SecretSnapshots(t)
  BY <1>1 DEF LiveEntry, SecretSnapshots
<1>5. \A x \in Workloads : lastUid[x] \in Nat /\ lastUid'[x] \in Nat
  BY SleeperAssumption DEF Inv, TypeOK, ClusterOK
<1>6. UidsGivenOut'
  <2>1. \A x \in Workloads : \A o \in Snapshots(objs'[x]) : o # Nil => o.uid <= lastUid'[x]
    <3> SUFFICES ASSUME NEW x \in Workloads, NEW o \in Snapshots(objs'[x]), o # Nil
                 PROVE  o.uid <= lastUid'[x]
      OBVIOUS
    <3>1. CASE o \in Snapshots(objs[x])
      <4>1. o.uid <= lastUid[x] /\ o.uid \in Uids
        BY <3>1, LiveObjTypes DEF Inv, ClusterKnows, UidsGivenOut
      <4> QED
        BY <1>5, <4>1 DEF Uids
    <3>2. CASE o \notin Snapshots(objs[x])
      BY <1>3, <3>2
    <3> QED
      BY <3>1, <3>2
  <2>2. \A t \in Schedules, x \in Workloads, u \in Uids :
          \A sec \in SecretSnapshots(t) : u > lastUid'[x] => sec[x][u] = Nil
    <3> SUFFICES ASSUME NEW t \in Schedules, NEW x \in Workloads, NEW u \in Uids,
                        NEW sec \in SecretSnapshots(t), u > lastUid'[x]
                 PROVE  sec[x][u] = Nil
      OBVIOUS
    <3>1. u > lastUid[x]
      BY <1>5 DEF Uids
    <3> QED
      BY <3>1 DEF Inv, ClusterKnows, UidsGivenOut
  <2> QED
    BY <1>4, <2>1, <2>2 DEF UidsGivenOut
<1>7. Recoverable'
  <2>1. ASSUME NEW x \in Workloads, x # w, LiveObj(x) # Nil
        PROVE  orig'[x] = orig[x]
    BY <1>1, <2>1 DEF Inv, TypeOK, HistoryOK
  <2>2. \A x \in Workloads : LiveObj(x) # Nil => LiveObj(x).uid \in Uids
    BY LiveObjTypes DEF Inv
  <2>3. ASSUME NEW x \in Workloads, x # w, LiveObj(x)' # Nil
        PROVE  /\ orig'[x] # Nil /\ Captured(Kind[x], orig'[x]) = orig'[x]
               /\ \A s \in TargetedBy(x) : LiveEntry(s, x, LiveObj(x).uid)' \in {Nil, orig'[x]}
               /\ \/ \E s \in TargetedBy(x) : LiveEntry(s, x, LiveObj(x).uid)' # Nil
                  \/ Captured(Kind[x], LiveObj(x)'.val) = orig'[x]
    <3>1. /\ LiveObj(x)' = LiveObj(x) /\ LiveObj(x) # Nil /\ orig'[x] = orig[x]
          /\ \A s \in TargetedBy(x) :
               LiveEntry(s, x, LiveObj(x).uid)' = LiveEntry(s, x, LiveObj(x).uid)
      BY <1>1, <1>3, <2>1, <2>3 DEF LiveEntry
    <3> QED
      BY <3>1 DEF Inv, ClusterKnows, Recoverable
  <2>4. \A s \in TargetedBy(w) : LiveEntry(s, w, LiveObj(w).uid)' = LiveEntry(s, w, version.uid)
    BY <1>1, <1>3 DEF LiveEntry
  <2>5. CASE Engaged(w, version.uid)
    <3>1. PICK t \in TargetedBy(w) : LiveEntry(t, w, version.uid) # Nil
      BY <2>5 DEF Engaged
    <3>2. t \in Schedules /\ Live(secrets[SecretOf[t]]) \in SecretSnapshots(t)
      BY EntryTypes DEF Inv, TargetedBy
    <3>3. ~(version.uid > lastUid[w])
      BY <1>2, <3>1, <3>2 DEF Inv, ClusterKnows, UidsGivenOut, LiveEntry
    <3>4. LiveObj(w) # Nil /\ version.uid = LiveObj(w).uid /\ orig' = orig
      BY <1>1, <2>5, <3>3
    <3>5. /\ orig[w] # Nil /\ Captured(Kind[w], orig[w]) = orig[w]
          /\ \A s \in TargetedBy(w) : LiveEntry(s, w, version.uid) \in {Nil, orig[w]}
      BY <3>4 DEF Inv, ClusterKnows, Recoverable
    <3>6. /\ orig'[w] # Nil /\ Captured(Kind[w], orig'[w]) = orig'[w]
          /\ \A s \in TargetedBy(w) : LiveEntry(s, w, LiveObj(w).uid)' \in {Nil, orig'[w]}
          /\ \E s \in TargetedBy(w) : LiveEntry(s, w, LiveObj(w).uid)' # Nil
      BY <2>4, <3>1, <3>4, <3>5
    <3> QED
      BY <2>3, <3>6 DEF Recoverable, TargetedBy
  <2>6. CASE ~Engaged(w, version.uid)
    <3>1. orig'[w] = Captured(Kind[w], version.val)
      BY <1>1, <2>6 DEF Inv, TypeOK, HistoryOK
    <3>2. orig'[w] # Nil /\ Captured(Kind[w], orig'[w]) = orig'[w]
      BY <1>2, <3>1, CapturedIsValue, ValuesAreNotNil
    <3>3. \A s \in TargetedBy(w) : LiveEntry(s, w, LiveObj(w).uid)' = Nil
      BY <2>4, <2>6 DEF Engaged
    <3> QED
      BY <1>3, <2>3, <3>1, <3>2, <3>3 DEF Recoverable, TargetedBy
  <2> QED
    BY <2>5, <2>6
<1>8. SameIdentity' /\ AsleepMode' /\ AwakeMode'
  BY <1>1 DEF SameIdentity, AsleepMode, AwakeMode
<1>9. WorkerKnows'
  BY <1>1 DEF WorkerKnows, Holding, worker
<1> QED
  BY <1>6, <1>7, <1>8, <1>9 DEF ClusterKnows

\* Owners keep the invariant.
LEMMA OwnersInv ==
  ASSUME Inv, Owners, OwnersBetweenPasses
  PROVE  ClusterKnows' /\ WorkerKnows'
<1>1. PICK w \in Workloads :
        \/ \E v \in OwnerValues[w] : Edit(w, v) \/ Create(w, v)
        \/ ToggleUnsafe(w) \/ DeleteObj(w)
  BY DEF Owners
<1>2. /\ LiveObj(w) \in Versions(w) /\ OwnerValues[w] \subseteq Values(Kind[w])
      /\ LiveObj(w) \in Snapshots(objs[w])
      /\ lastUid \in [Workloads -> 0 .. MaxUid] /\ MaxUid \in Nat
  BY LiveObjTypes, SleeperAssumption DEF Inv, TypeOK, ClusterOK
<1>3. LiveObj(w) # Nil =>
        LiveObj(w) \in Objects(Values(Kind[w])) /\ LiveObj(w).uid <= lastUid[w]
  BY <1>2 DEF Versions, Inv, ClusterKnows, UidsGivenOut
<1>4. ASSUME NEW v \in OwnerValues[w], Edit(w, v)
      PROVE  ClusterKnows' /\ WorkerKnows'
  <2> DEFINE version == [LiveObj(w) EXCEPT !.val = v]
  <2>1. OwnerWrite(w, version) /\ lastUid' = lastUid /\ LiveObj(w) # Nil
    BY <1>4 DEF Edit
  <2>2. version \in Objects(Values(Kind[w])) /\ version.uid = LiveObj(w).uid
    BY <1>2, <1>3, <2>1 DEF Objects
  <2>3. pc = "idle"
    BY <2>1 DEF OwnersBetweenPasses, OwnerWrite
  <2>4. \A x \in Workloads : lastUid[x] <= lastUid'[x]
    BY <1>2, <2>1
  <2> HIDE DEF version
  <2> QED
    BY <1>2, <1>3, <2>1, <2>2, <2>3, <2>4, OwnerWriteInv
<1>5. ASSUME NEW v \in OwnerValues[w], Create(w, v)
      PROVE  ClusterKnows' /\ WorkerKnows'
  <2> DEFINE version == [uid |-> lastUid[w] + 1, val |-> v, unsafe |-> FALSE]
  <2>1. /\ OwnerWrite(w, version) /\ lastUid[w] < MaxUid
        /\ lastUid' = [lastUid EXCEPT ![w] = lastUid[w] + 1]
    BY <1>5 DEF Create
  <2>2. /\ version \in Objects(Values(Kind[w])) /\ version.uid = lastUid[w] + 1
        /\ version.uid > lastUid[w] /\ version.uid <= lastUid'[w]
    BY <1>2, <2>1 DEF Objects, Uids
  <2>3. pc = "idle"
    BY <2>1 DEF OwnersBetweenPasses, OwnerWrite
  <2>4. /\ \A x \in Workloads : lastUid[x] <= lastUid'[x]
        /\ lastUid' \in [Workloads -> 0 .. MaxUid]
    BY <1>2, <2>1
  <2> HIDE DEF version
  <2> QED
    BY <2>1, <2>2, <2>3, <2>4, OwnerWriteInv
<1>6. CASE ToggleUnsafe(w)
  <2> DEFINE version == [LiveObj(w) EXCEPT !.unsafe = ~LiveObj(w).unsafe]
  <2>1. /\ objs' = [objs EXCEPT ![w] = Commit(objs[w], version)] /\ LiveObj(w) # Nil
        /\ trust' = "none" /\ UNCHANGED <<secrets, lastUid, worker, orig>>
    BY <1>6 DEF ToggleUnsafe
  <2>2. /\ version \in Versions(w) /\ version.uid = LiveObj(w).uid /\ version.val = LiveObj(w).val
    BY <1>3, <2>1 DEF Versions, Objects
  <2> HIDE DEF version
  <2>3. /\ LiveObj(w)' = version
        /\ Snapshots(objs'[w]) \subseteq Snapshots(objs[w]) \cup {version}
        /\ \A x \in Workloads : x # w => objs'[x] = objs[x] /\ LiveObj(x)' = LiveObj(x)
    BY <2>1, <2>2, ObjWritten DEF Inv
  <2>4. UidsGivenOut'
    BY <1>3, <2>1, <2>2, <2>3 DEF Inv, ClusterKnows, UidsGivenOut, SecretSnapshots
  <2>5. Recoverable'
    <3>1. \A x \in Workloads : LiveObj(x)' # Nil =>
            /\ LiveObj(x) # Nil /\ LiveObj(x)'.uid = LiveObj(x).uid
            /\ LiveObj(x)'.val = LiveObj(x).val
      BY <2>1, <2>2, <2>3
    <3> QED
      BY <2>1, <3>1 DEF Inv, ClusterKnows, Recoverable, LiveEntry, TargetedBy
  <2>6. SameIdentity' /\ AsleepMode' /\ AwakeMode'
    BY <2>1 DEF SameIdentity, AsleepMode, AwakeMode
  <2>7. pc = "idle"
    BY <2>1 DEF OwnersBetweenPasses
  <2>8. WorkerKnows'
    BY <2>1, <2>7 DEF WorkerKnows, Holding, worker
  <2> QED
    BY <2>4, <2>5, <2>6, <2>8 DEF ClusterKnows
<1>7. CASE DeleteObj(w)
  <2>1. /\ objs' = [objs EXCEPT ![w] = Commit(objs[w], Nil)]
        /\ UNCHANGED <<secrets, lastUid, worker, orig, trust>> /\ Nil \in Versions(w)
    BY <1>7 DEF DeleteObj, Versions
  <2>2. /\ LiveObj(w)' = Nil
        /\ Snapshots(objs'[w]) \subseteq Snapshots(objs[w]) \cup {Nil}
        /\ \A x \in Workloads : x # w => objs'[x] = objs[x] /\ LiveObj(x)' = LiveObj(x)
    BY <2>1, ObjWritten DEF Inv
  <2>3. /\ \A t \in Schedules, x \in Workloads : \A u : LiveEntry(t, x, u)' = LiveEntry(t, x, u)
        /\ \A t \in Schedules : SecretSnapshots(t)' = SecretSnapshots(t)
    BY <2>1 DEF LiveEntry, SecretSnapshots
  <2>4. UidsGivenOut'
    BY <2>1, <2>2, <2>3 DEF Inv, ClusterKnows, UidsGivenOut
  <2>5. \A x \in Workloads : LiveObj(x)' # Nil =>
          LiveObj(x)' = LiveObj(x) /\ objs'[x] = objs[x]
    BY <2>2
  <2>6. Recoverable'
    BY <2>1, <2>5 DEF Inv, ClusterKnows, Recoverable, LiveEntry, TargetedBy
  <2>7. SameIdentity'
    BY <2>1, <2>5 DEF Inv, ClusterKnows, SameIdentity
  <2>8. AsleepMode'
    BY <2>1, <2>3, <2>5 DEF Inv, ClusterKnows, AsleepMode, LiveEntry, TargetedBy
  <2>9. AwakeMode'
    BY <2>1, <2>3, <2>5 DEF Inv, ClusterKnows, AwakeMode, LiveEntry, TargetedBy
  <2>10. WorkerKnows'
    <3>1. ref' = ref /\ UNCHANGED <<pc, cur, dir, obj, val>>
      BY <2>1 DEF ref, worker
    <3>2. pc \in Holding => ref \in Workloads /\ cur \in Schedules
      BY AtHand DEF Inv, Holding, TypeOK, WorkerOK
    <3>3. (pc \in Holding /\ LiveObj(ref)' # Nil) => LiveObj(ref)' = LiveObj(ref)
      BY <2>5, <3>1, <3>2 DEF LiveObj
    <3>4. LiveEntry(cur, ref, obj.uid)' = LiveEntry(cur, ref, obj.uid)
      BY <2>1, <3>1 DEF LiveEntry
    <3> QED
      BY <2>1, <3>1, <3>2, <3>3, <3>4 DEF Inv, WorkerKnows
  <2> QED
    BY <2>4, <2>6, <2>7, <2>8, <2>9, <2>10 DEF ClusterKnows
<1> QED
  BY <1>1, <1>4, <1>5, <1>6, <1>7

-----------------------------------------------------------------------------
(* Dry runs, at any pace.                                                  *)

\* No step takes a dry run to a write.
LEMMA NextDryHands == DryHands /\ [Next]_vars => DryHands'
<1> SUFFICES ASSUME DryHands, [Next]_vars
             PROVE  DryHands'
  OBVIOUS
<1>1. CASE UNCHANGED worker
  BY <1>1 DEF DryHands, worker
<1>2. CASE pc' \in {"idle", "done", "guard", "load", "get"}
  BY <1>2 DEF DryHands
<1>3. NextRef => pc' \in {"done", "guard", "load"}
  BY DEF NextRef, StartRefAfter, HandlerStart
<1>4. CASE SleepGet
  BY <1>2, <1>3, <1>4 DEF SleepGet, GoTo, DryHands
<1>5. CASE RestoreGet
  <2>1. NextRef \/ (GoTo("patch") /\ ~dry)
    BY <1>5, Zenon DEF RestoreGet
  <2> QED
    BY <1>2, <1>3, <2>1 DEF GoTo, DryHands
<1>6. CASE SetRaw
  BY <1>6 DEF SetRaw, GoTo, DryHands
<1>7. CASE Patch
  <2>1. pc = "patch" /\ (NextRef \/ (GoTo("delete") /\ dir # "asleep"))
    BY <1>7, Zenon DEF Patch
  <2> QED
    BY <1>2, <1>3, <2>1 DEF GoTo, DryHands
<1>8. CASE Guard \/ Load \/ Delete
  <2>1. NextRef \/ GoTo("load") \/ GoTo("get")
    BY <1>8, Zenon DEF Guard, Load, Delete
  <2> QED
    BY <1>2, <1>3, <2>1 DEF GoTo
<1>9. CASE \E s \in Schedules : Begin(s)
  <2>1. pc' \in {"done", "guard", "load"}
    BY <1>9 DEF Begin, StartRefAfter, HandlerStart
  <2> QED
    BY <1>2, <2>1
<1>10. CASE Finish \/ PatchMissing \/ Faults
  <2>1. pc' = "idle"
    BY <1>10 DEF Finish, PatchMissing, Faults, Fail, Crash, ReturnError, Drop
  <2> QED
    BY <1>2, <2>1
<1>11. CASE Owners \/ Control \/ Deliver \/ UNCHANGED vars
  <2>1. UNCHANGED worker
    BY <1>11 DEF Owners, Edit, Create, OwnerWrite, ToggleUnsafe, DeleteObj, Control, Flip,
                 ToggleDryRun, Enqueue, Deliver, vars
  <2> QED
    BY <1>1, <2>1
<1> QED
  BY <1>4, <1>5, <1>6, <1>7, <1>8, <1>9, <1>10, <1>11 DEF Next, Worker

\* A dry-run pass writes neither a workload nor a checkpoint: the handlers'
\* dry-run checks cover every path to Store.SetRaw, Store.Delete and Patch.
THEOREM DryRunsReadOnly == Spec => DryRunIsReadOnly
<1> DEFINE ReadOnly == (WorkerStep /\ dry) => UNCHANGED <<objs, secrets>>
<1>1. Init => DryHands
  BY DEF Init, DryHands
<1>2. DryHands /\ [Next]_vars => [ReadOnly]_vars
  <2> SUFFICES ASSUME DryHands, Next, WorkerStep, dry
               PROVE  UNCHANGED <<objs, secrets>>
    BY DEF ReadOnly
  <2>1. ~SetRaw /\ ~Delete
    BY DEF SetRaw, Delete, DryHands
  <2>2. CASE Patch
    BY <2>2 DEF Patch
  <2>3. CASE Worker /\ ~Patch
    BY <2>1, <2>3 DEF Worker, Begin, Guard, Load, SleepGet, RestoreGet, PatchMissing,
                      ReturnError, Drop, Finish, cluster
  <2>4. CASE Faults
    BY <2>4 DEF Faults, Fail, Crash, ReturnError, Drop, cluster
  <2>5. ~Owners /\ ~Control /\ ~Deliver
    BY DEF Owners, Edit, Create, OwnerWrite, ToggleUnsafe, DeleteObj, Control, Flip,
           ToggleDryRun, Enqueue, Deliver, WorkerStep
  <2> QED
    BY <2>2, <2>3, <2>4, <2>5 DEF Next
<1> QED
  BY <1>1, <1>2, NextDryHands, PTL DEF Spec, DryRunIsReadOnly, ReadOnly

-----------------------------------------------------------------------------
(* The theorem.                                                            *)

\* A cluster without workloads and checkpoints satisfies the invariant.
LEMMA InitInv == Init => Inv
<1> SUFFICES ASSUME Init
             PROVE  Inv
  OBVIOUS
<1>1. TypeOK
  BY InitTypeOK
<1>2. DryHands /\ WorkerKnows
  BY DEF Init, DryHands, WorkerKnows, Holding
<1>3. \A w \in Workloads : LiveObj(w) = Nil /\ Snapshots(objs[w]) = {Nil}
  BY ViewOfOne DEF Init, LiveObj
<1>4. \A s \in Schedules : SecretSnapshots(s) = {NoSecret}
  <2>1. \A s \in Schedules : secrets[SecretOf[s]] = <<NoSecret>>
    BY SleeperAssumption DEF Init
  <2> QED
    BY <2>1, ViewOfOne DEF SecretSnapshots
<1>5. UidsGivenOut
  BY <1>3, <1>4 DEF UidsGivenOut, NoSecret
<1>6. Recoverable /\ SameIdentity /\ AsleepMode /\ AwakeMode
  BY <1>3 DEF Recoverable, SameIdentity, AsleepMode, AwakeMode
<1> QED
  BY <1>1, <1>2, <1>5, <1>6 DEF Inv, ClusterKnows

\* Every step of SettledSpec preserves the invariant: one lemma per action.
LEMMA NextInv ==
  ASSUME OverlapSharesSecret, Inv, [SettledNext]_vars
  PROVE  Inv'
<1>1. [Next]_vars
  BY DEF SettledNext
<1>2. TypeOK' /\ DryHands'
  BY <1>1, NextTypeOK, NextDryHands DEF Inv
<1>3. CASE UNCHANGED vars \/ Control \/ Deliver
  <2>1. trust' = trust /\ UNCHANGED worker
    BY <1>3 DEF vars, Control, Flip, ToggleDryRun, Enqueue, Deliver
  <2>2. CASE Deliver
    BY <1>2, <2>1, <2>2, DeliverWritesNothing, NoWriteCluster, NoWriteWorker DEF Inv
  <2>3. CASE UNCHANGED vars \/ Control
    <3>1. UNCHANGED <<objs, secrets, lastUid, orig>>
      BY <2>3 DEF vars, cluster, Control, Flip, ToggleDryRun, Enqueue
    <3> QED
      BY <1>2, <2>1, <3>1, UntouchedCluster, NoWriteCluster, NoWriteWorker DEF Inv
  <2> QED
    BY <1>3, <2>2, <2>3
<1>4. CASE (Worker \/ Faults) /\ Settled
  BY <1>2, <1>4, BeginInv, QuietStepsInv, SetRawInv, PatchInv, DeleteInv
     DEF Worker, Settled, Inv
<1>5. CASE Owners /\ Settled
  BY <1>2, <1>5, OwnersInv DEF Settled, Inv
<1> QED
  BY <1>3, <1>4, <1>5 DEF SettledNext, Next

\* With schedules that overlap only under a shared checkpoint Secret, nothing
\* is ever lost at the settled pace, whatever fails and whenever the operator
\* dies: for every set of schedules, workloads of every kind, sleepReplicas,
\* and lag of the cache.
THEOREM OriginalsAreNeverLost ==
  ASSUME OverlapSharesSecret
  PROVE  SettledSpec => []NothingLost
<1>1. Inv => NothingLost
  BY DEF Inv, ClusterKnows, Recoverable, NothingLost
<1>2. Inv /\ [SettledNext]_vars => Inv'
  BY NextInv
<1> QED
  BY <1>1, <1>2, InitInv, PTL DEF SettledSpec
=============================================================================
