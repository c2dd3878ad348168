----------------------------- MODULE PassProofs -----------------------------
(***************************************************************************)
(* A finished pass has done what it is for.  PassInv is inductive at the   *)
(* settled pace: each step is shown to keep what the versions of a         *)
(* workload have in common (CachesAgree), what the handler knows, and the  *)
(* progress of the pass.  At the same pace Sleeper implements              *)
(* ExactRestore: a step is about at most one workload, and of the abstract *)
(* state of that one it makes one of the moves of ExactRestore (Move).     *)
(***************************************************************************)
EXTENDS PassInvariant, SleeperRefinement, SleeperProofs

\* The part of the invariant that is about the versions of workloads.
CachesAgree == UnsafeKinds /\ SameSafety /\ StaysAsleep

-----------------------------------------------------------------------------
(* The versions of workloads.                                              *)

\* A step that writes no object keeps what they have in common.
LEMMA UnwrittenAgree ==
  ASSUME CachesAgree, trust' = trust,
         \A w \in Workloads : /\ LiveObj(w)' = LiveObj(w)
                              /\ Snapshots(objs'[w]) \subseteq Snapshots(objs[w])
  PROVE  CachesAgree'
<1>1. UnsafeKinds'
  BY DEF CachesAgree, UnsafeKinds
<1>2. SameSafety' /\ StaysAsleep'
  BY DEF CachesAgree, SameSafety, StaysAsleep
<1> QED
  BY <1>1, <1>2 DEF CachesAgree

\* A pass begins in the direction of the last one or with a settled cache.
LEMMA BeginAgree ==
  ASSUME TypeOK, CachesAgree, NEW s \in Schedules, Begin(s), CacheCaughtUp
  PROVE  CachesAgree'
<1>1. /\ pc = "idle" /\ dir' = desired[s] /\ trust' = desired[s] /\ UNCHANGED <<objs, orig>>
  BY DEF Begin, cluster
<1>2. pc' \in {"done", "guard", "load"}
  BY DEF Begin, StartRefAfter, HandlerStart
<1>3. trust = dir' \/ AllSynced
  BY <1>1, <1>2 DEF CacheCaughtUp
<1>4. CASE trust = dir'
  BY <1>1, <1>4, UnwrittenAgree DEF LiveObj
<1>5. CASE AllSynced
  <2>1. \A w \in Workloads : LiveObj(w)' = LiveObj(w) /\ Snapshots(objs'[w]) = {LiveObj(w)}
    BY <1>1, <1>5, LiveObjTypes, ViewParts DEF AllSynced, LiveObj
  <2>2. UnsafeKinds'
    BY <1>1 DEF CachesAgree, UnsafeKinds
  <2>3. SameSafety' /\ StaysAsleep'
    BY <2>1 DEF SameSafety, StaysAsleep
  <2> QED
    BY <2>2, <2>3 DEF CachesAgree
<1> QED
  BY <1>3, <1>4, <1>5

\* The patch of the object in hand: Sleep puts it to sleep, whatever version it
\* read.
LEMMA PatchAgree ==
  ASSUME PassInv, Patch
  PROVE  /\ CachesAgree'
         /\ \/ /\ objs' = objs
               /\ SkipsPatch(Kind[ref], obj.val, Want) \/ dry
            \/ \E version \in Versions(ref) :
                 /\ LiveObj(ref) # Nil /\ version # Nil
                 /\ version.uid = LiveObj(ref).uid /\ version.unsafe = LiveObj(ref).unsafe
                 /\ \A x \in Workloads :
                      LiveObj(x)' = IF x = ref THEN version ELSE LiveObj(x)
                 /\ (dir = "asleep" /\ ~SleepsOnce(Kind[ref])) =>
                      SeenAsleep(Kind[ref], version.val)
<1>1. pc = "patch" /\ trust' = trust
  BY DEF Patch
<1>2. /\ ref \in Workloads /\ Kind[ref] \in Kinds /\ dir \in Directions /\ trust = dir
      /\ obj.val \in Values(Kind[ref]) /\ Want \in Values(Kind[ref])
  BY <1>1, AtHand, WantIsValue DEF PassInv, Inv, TypeOK, WorkerOK, WorkerKnows
<1>3. CachesAgree
  BY DEF PassInv, PassKnows, CachesAgree
<1>4. CASE objs' = objs /\ (SkipsPatch(Kind[ref], obj.val, Want) \/ dry)
  <2>1. CachesAgree'
    BY <1>1, <1>3, <1>4, UnwrittenAgree DEF LiveObj
  <2> QED
    BY <1>4, <2>1
<1>5. ASSUME LiveObj(ref) # Nil, ~SkipsPatch(Kind[ref], obj.val, Want), ~dry,
             NEW version \in Versions(ref),
             objs' = [objs EXCEPT ![ref] = CommitChange(objs[ref], version)],
             version # Nil, version.uid = LiveObj(ref).uid,
             version.unsafe = LiveObj(ref).unsafe,
             version.val = MergePatch(Kind[ref], LiveObj(ref).val, obj.val, Want)
      PROVE  /\ CachesAgree'
             /\ \A x \in Workloads : LiveObj(x)' = IF x = ref THEN version ELSE LiveObj(x)
             /\ (dir = "asleep" /\ ~SleepsOnce(Kind[ref])) => SeenAsleep(Kind[ref], version.val)
  <2>1. /\ Snapshots(objs'[ref]) \subseteq Snapshots(objs[ref]) \cup {version}
        /\ \A x \in Workloads : x # ref => objs'[x] = objs[x] /\ LiveObj(x)' = LiveObj(x)
        /\ \A x \in Workloads : x = ref => LiveObj(x)' = version
    <3>1. PICK r \in Workloads : r = ref
      BY <1>2
    <3>2. version \in Versions(r) /\ objs' = [objs EXCEPT ![r] = CommitChange(objs[r], version)]
      BY <1>5, <3>1
    <3>3. /\ LiveObj(r)' = version
          /\ Snapshots(objs'[r]) \subseteq Snapshots(objs[r]) \cup {version}
          /\ \A x \in Workloads : x # r => objs'[x] = objs[x] /\ LiveObj(x)' = LiveObj(x)
      BY <3>2, ObjWritten DEF PassInv, Inv
    <3> QED
      BY <3>1, <3>3
  <2>2. LiveObj(ref) \in Snapshots(objs[ref]) /\ LiveObj(ref).val \in Values(Kind[ref])
    BY <1>2, <1>5, LiveObjTypes DEF PassInv, Inv
  <2>3. ASSUME dir = "asleep", ~SleepsOnce(Kind[ref])
        PROVE  SeenAsleep(Kind[ref], version.val)
    <3>1. Want = SleptValue(Kind[ref], obj.val)
      BY <2>3 DEF Want
    <3>2. Kind[ref] \in ReplicaKinds \cup {"DaemonSet"}
      BY <2>3 DEF SleepsOnce
    <3>3. Kind[ref] = "DaemonSet" => obj.val[sentinelKey] = Nil
      BY <1>1, <2>3 DEF PassInv, PassKnows, HandlerKnows, Holding
    <3>4. IsAsleep(Kind[ref], version.val)
      BY <1>2, <1>5, <2>2, <3>1, <3>2, <3>3, SleepPatch
    <3>5. version.val \in Values(Kind[ref])
      BY <1>2, <1>5, <2>2, MergePatchIsValue
    <3> QED
      BY <3>4, <3>5, AsleepHasSentinel DEF SeenAsleep
  <2>4. UnsafeKinds'
    BY <1>2, <1>3, <1>5, <2>1, <2>2 DEF CachesAgree, UnsafeKinds
  <2>5. SameSafety'
    BY <1>1, <1>2, <1>3, <1>5, <2>1 DEF CachesAgree, SameSafety
  <2>6. StaysAsleep'
    BY <1>1, <1>2, <1>3, <1>5, <2>1, <2>3 DEF CachesAgree, StaysAsleep
  <2> QED
    BY <2>1, <2>3, <2>4, <2>5, <2>6 DEF CachesAgree
<1> QED
  BY <1>4, <1>5, PatchEffect DEF PassInv, Inv

\* What owners do keeps what the versions of a workload have in common.
LEMMA OwnersAgree ==
  ASSUME PassInv, Owners
  PROVE  CachesAgree'
<1>1. PICK w \in Workloads :
        \/ \E v \in OwnerValues[w] : Edit(w, v) \/ Create(w, v)
        \/ ToggleUnsafe(w) \/ DeleteObj(w)
  BY DEF Owners
<1>2. /\ LiveObj(w) \in Versions(w) /\ OwnerValues[w] \subseteq Values(Kind[w])
      /\ LiveObj(w) \in Snapshots(objs[w]) /\ lastUid[w] \in Nat /\ MaxUid \in Nat
  <2>1. lastUid[w] \in 0 .. MaxUid /\ MaxUid \in Nat
    BY SleeperAssumption DEF PassInv, Inv, TypeOK, ClusterOK
  <2> QED
    BY <2>1, LiveObjTypes, SleeperAssumption DEF PassInv, Inv
<1>3. CachesAgree
  BY DEF PassInv, PassKnows, CachesAgree
<1>4. ASSUME NEW version \in Versions(w), objs' = [objs EXCEPT ![w] = Commit(objs[w], version)],
             trust' = "none",
             (version # Nil /\ version.unsafe) => Kind[w] \in {"StatefulSet", "Job"}
      PROVE  CachesAgree'
  <2>1. /\ Snapshots(objs'[w]) \subseteq Snapshots(objs[w]) \cup {version}
        /\ \A x \in Workloads : x # w => objs'[x] = objs[x]
    BY <1>4, ObjWritten DEF PassInv, Inv
  <2>2. UnsafeKinds'
    BY <1>3, <1>4, <2>1 DEF CachesAgree, UnsafeKinds
  <2> QED
    BY <1>4, <2>2 DEF CachesAgree, SameSafety, StaysAsleep
<1>5. ASSUME NEW v \in OwnerValues[w], Edit(w, v)
      PROVE  CachesAgree'
  <2> DEFINE version == [LiveObj(w) EXCEPT !.val = v]
  <2>1. LiveObj(w) \in Objects(Values(Kind[w])) /\ LiveObj(w) # Nil
    BY <1>2, <1>5 DEF Edit, Versions
  <2>2. version \in Versions(w) /\ version.unsafe = LiveObj(w).unsafe
    BY <1>2, <2>1 DEF Objects, Versions
  <2>3. LiveObj(w).unsafe => Kind[w] \in {"StatefulSet", "Job"}
    BY <1>2, <1>3, <2>1 DEF CachesAgree, UnsafeKinds
  <2> QED
    BY <1>4, <1>5, <2>2, <2>3 DEF Edit, OwnerWrite
<1>6. ASSUME NEW v \in OwnerValues[w], Create(w, v)
      PROVE  CachesAgree'
  <2> DEFINE version == [uid |-> lastUid[w] + 1, val |-> v, unsafe |-> FALSE]
  <2>1. version \in Versions(w) /\ ~version.unsafe
    BY <1>2, <1>6 DEF Create, Objects, Versions, Uids
  <2> QED
    BY <1>4, <1>6, <2>1 DEF Create, OwnerWrite
<1>7. CASE ToggleUnsafe(w)
  <2> DEFINE version == [LiveObj(w) EXCEPT !.unsafe = ~LiveObj(w).unsafe]
  <2>1. LiveObj(w) \in Objects(Values(Kind[w]))
    BY <1>2, <1>7 DEF ToggleUnsafe, Versions
  <2>2. version \in Versions(w)
    BY <2>1 DEF Objects, Versions
  <2> QED
    BY <1>4, <1>7, <2>2 DEF ToggleUnsafe
<1>8. CASE DeleteObj(w)
  <2>1. /\ objs' = [objs EXCEPT ![w] = Commit(objs[w], Nil)] /\ trust' = trust
        /\ Nil \in Versions(w)
    BY <1>8 DEF DeleteObj, Versions
  <2>2. /\ LiveObj(w)' = Nil
        /\ Snapshots(objs'[w]) \subseteq Snapshots(objs[w]) \cup {Nil}
        /\ \A x \in Workloads : x # w => objs'[x] = objs[x] /\ LiveObj(x)' = LiveObj(x)
    BY <2>1, ObjWritten DEF PassInv, Inv
  <2>3. UnsafeKinds'
    BY <1>3, <2>2 DEF CachesAgree, UnsafeKinds
  <2>4. SameSafety' /\ StaysAsleep'
    BY <1>3, <2>1, <2>2 DEF CachesAgree, SameSafety, StaysAsleep
  <2> QED
    BY <2>3, <2>4 DEF CachesAgree
<1> QED
  BY <1>1, <1>5, <1>6, <1>7, <1>8

-----------------------------------------------------------------------------
(* The handler at work on a ref.                                           *)

\* A handler starts without an object in hand, and at the guard where there is
\* one.
LEMMA StartKnows ==
  ASSUME NEW s \in Schedules, NEW d, NEW refs, NEW i, StartRefAfter(s, d, refs, i),
         cur' = s, dir' = d
  PROVE  HandlerKnows' /\ pc' \in {"done", "guard", "load"}
<1>1. PICK j \in i + 1 .. Len(TargetRefs[s]) + 1 : at' = j /\ pc' = HandlerStart(s, d, j)
  BY DEF StartRefAfter
<1>2. pc' \in {"done", "guard", "load"}
  BY <1>1 DEF HandlerStart
<1>3. (pc' = "load" /\ d = "asleep") => Kind[ref'] # "StatefulSet"
  BY <1>1 DEF HandlerStart, ref
<1>4. pc' = "guard" => d = "asleep"
  BY <1>1 DEF HandlerStart
<1> QED
  BY <1>2, <1>3, <1>4 DEF HandlerKnows, Holding, ref

\* The next ref.
LEMMA NextRefKnows ==
  ASSUME TypeOK, NextRef
  PROVE  HandlerKnows' /\ pc' \in {"done", "guard", "load"}
  BY StartKnows DEF NextRef, TypeOK, WorkerOK

\* The guard lets only a safe StatefulSet through.
LEMMA GuardKnows ==
  ASSUME PassInv, Guard
  PROVE  HandlerKnows'
<1>1. pc = "guard" /\ objs' = objs
  BY DEF Guard, cluster
<1>2. /\ ref \in Workloads /\ Cached(objs[ref]) \in Snapshots(objs[ref])
      /\ objs[ref] \in Views(Versions(ref)) /\ trust = dir /\ dir \in Directions
  BY <1>1, AtHand, ViewParts DEF PassInv, Inv, TypeOK, WorkerOK, WorkerKnows
<1>3. CASE NextRef
  BY <1>3, NextRefKnows DEF PassInv, Inv
<1>4. CASE ~NextRef
  <2>1. /\ GoTo("load") /\ Cached(objs[ref]) # Nil /\ ~Cached(objs[ref]).unsafe
    BY <1>4, Zenon DEF Guard
  <2>2. ref' = ref /\ pc' = "load" /\ LiveObj(ref)' = LiveObj(ref)
    BY <1>1, <2>1 DEF GoTo, ref, LiveObj
  <2>3. LiveObj(ref) # Nil => Cached(objs[ref]).unsafe = LiveObj(ref).unsafe
    BY <1>2 DEF PassInv, PassKnows, SameSafety, Directions
  <2> QED
    BY <2>1, <2>2, <2>3 DEF HandlerKnows
<1> QED
  BY <1>3, <1>4

\* Load passes only what may be put to sleep.
LEMMA LoadHandlerKnows ==
  ASSUME PassInv, Load
  PROVE  HandlerKnows'
<1>1. pc = "load" /\ objs' = objs
  BY DEF Load, cluster
<1>2. /\ ref \in Workloads /\ Cached(objs[ref]) \in Snapshots(objs[ref])
      /\ objs[ref] \in Views(Versions(ref)) /\ trust = dir /\ dir \in Directions
      /\ LiveObj(ref) \in Snapshots(objs[ref])
  BY <1>1, AtHand, ViewParts DEF PassInv, Inv, TypeOK, WorkerOK, WorkerKnows, LiveObj
<1>3. CASE NextRef
  BY <1>3, NextRefKnows DEF PassInv, Inv
<1>4. CASE ~NextRef
  <2>1. /\ GoTo("get") /\ obj' = Cached(objs[ref]) /\ Cached(objs[ref]) # Nil
        /\ dir = "asleep" => ~SkipsSleep(Kind[ref], Cached(objs[ref]))
    BY <1>4, Zenon DEF Load
  <2>2. ref' = ref /\ pc' = "get" /\ LiveObj(ref)' = LiveObj(ref) /\ dir' = dir
    BY <1>1, <2>1 DEF GoTo, ref, LiveObj
  <2>3. CASE dir = "asleep"
    <3>1. Kind[ref] = "DaemonSet" => obj'.val[sentinelKey] = Nil
      BY <2>1, <2>3 DEF SkipsSleep, NeedsNoSentinel
    <3>2. ASSUME LiveObj(ref) # Nil
          PROVE  ~LiveObj(ref).unsafe
      <4>1. Kind[ref] = "StatefulSet" => ~LiveObj(ref).unsafe
        BY <1>1, <2>3, <3>2 DEF PassInv, PassKnows, HandlerKnows
      <4>2. Kind[ref] = "Job" => ~LiveObj(ref).unsafe
        BY <1>2, <2>1, <2>3, <3>2 DEF PassInv, PassKnows, SameSafety, SkipsSleep, HasActivePods
      <4>3. LiveObj(ref).unsafe => Kind[ref] \in {"StatefulSet", "Job"}
        BY <1>2, <3>2 DEF PassInv, PassKnows, UnsafeKinds
      <4> QED
        BY <4>1, <4>2, <4>3
    <3>3. (LiveObj(ref) # Nil /\ ~SleepsOnce(Kind[ref])) =>
            (SeenAsleep(Kind[ref], obj'.val) => SeenAsleep(Kind[ref], LiveObj(ref).val))
      BY <1>2, <2>1, <2>3 DEF PassInv, PassKnows, StaysAsleep
    <3> QED
      BY <2>2, <3>1, <3>2, <3>3 DEF HandlerKnows
  <2>4. CASE dir # "asleep"
    BY <2>2, <2>4 DEF HandlerKnows
  <2> QED
    BY <2>3, <2>4
<1> QED
  BY <1>3, <1>4

\* The handler goes on with the object in hand.
LEMMA GoToKnows ==
  ASSUME HandlerKnows, pc \in Holding, objs' = objs, obj' = obj, NEW label \in Holding,
         GoTo(label)
  PROVE  HandlerKnows'
<1>1. ref' = ref /\ dir' = dir /\ LiveObj(ref)' = LiveObj(ref) /\ pc' = label
  BY DEF GoTo, ref, LiveObj
<1> QED
  BY <1>1 DEF HandlerKnows, Holding

\* Nothing that happens to the cluster meanwhile takes from what the handler
\* knows.
LEMMA WaitingKnows ==
  ASSUME TypeOK, HandlerKnows, UNCHANGED worker,
         \A w \in Workloads : LiveObj(w)' \in {Nil, LiveObj(w)}
  PROVE  HandlerKnows'
<1>1. ref' = ref /\ UNCHANGED <<pc, dir, obj>>
  BY DEF ref, worker
<1>2. pc \in Holding \cup {"load"} => ref \in Workloads
  BY AtHand DEF Holding
<1>3. pc \in Holding \cup {"load"} => LiveObj(ref)' \in {Nil, LiveObj(ref)}
  BY <1>1, <1>2 DEF LiveObj
<1> QED
  BY <1>1, <1>3 DEF HandlerKnows

-----------------------------------------------------------------------------
(* The progress of the pass.                                               *)

\* The targets of a schedule are workloads.
LEMMA TargetTypes ==
  ASSUME NEW s \in Schedules
  PROVE  /\ Len(TargetRefs[s]) \in Nat /\ Targets(s) \subseteq Workloads
         /\ \A i \in 1 .. Len(TargetRefs[s]) : TargetRefs[s][i] \in Targets(s)
         /\ \A w \in Targets(s) : \E i \in 1 .. Len(TargetRefs[s]) : w = TargetRefs[s][i]
<1>1. TargetRefs[s] \in Seq(Workloads)
  BY SleeperAssumption
<1> QED
  BY <1>1 DEF Targets

\* A step takes nothing from what the pass has achieved.
Keeps == \A w \in Targets(cur) : /\ LiveObj(w) = Nil => LiveObj(w)' = Nil
                                 /\ Handled(w) => Handled(w)'

\* A step that changes neither objects nor checkpoints.
LEMMA QuietKeeps ==
  ASSUME UNCHANGED <<objs, secrets, orig, cur, dir, dry>>
  PROVE  Keeps
  BY DEF Keeps, Handled, LiveObj, LiveEntry

\* The handler goes on.
LEMMA GoToProgress ==
  ASSUME TypeOK, Progress, pc # "idle", NEW label \in Holding \cup {"load"}, GoTo(label), Keeps
  PROVE  Progress'
<1>1. cur' = cur /\ listed' = listed /\ at' = at /\ pc' = label /\ label # "done"
  BY DEF GoTo, Holding
<1>2. cur \in Schedules
  BY DEF TypeOK, WorkerOK
<1>3. \A w \in Targets(cur) : w \notin listed => LiveObj(w)' = Nil
  BY DEF Progress, Keeps
<1>4. \A i \in 1 .. Len(TargetRefs[cur]) : i < at => Handled(TargetRefs[cur][i])'
  <2> SUFFICES ASSUME NEW i \in 1 .. Len(TargetRefs[cur]), i < at
               PROVE  Handled(TargetRefs[cur][i])'
    BY <1>1
  <2>1. PICK w \in Targets(cur) : w = TargetRefs[cur][i]
    BY <1>2, TargetTypes
  <2>2. Handled(w)'
    BY <2>1 DEF Progress, Keeps
  <2> QED
    BY <1>1, <2>1, <2>2
<1> QED
  BY <1>1, <1>3, <1>4 DEF Progress, Targets

\* Apply goes to the next listed ref: those it passes over are not there.
LEMMA StartProgress ==
  ASSUME NEW s \in Schedules, NEW d, NEW refs, NEW i \in Nat, StartRefAfter(s, d, refs, i),
         cur' = s, listed' = refs,
         \A w \in Targets(s) : w \notin refs => LiveObj(w)' = Nil,
         \A k \in 1 .. Len(TargetRefs[s]) : k <= i => Handled(TargetRefs[s][k])'
  PROVE  Progress'
<1>1. PICK j \in i + 1 .. Len(TargetRefs[s]) + 1 :
        /\ IsNextRef(s, refs, i + 1, j) /\ at' = j /\ pc' = HandlerStart(s, d, j)
  BY DEF StartRefAfter
<1>2. Len(TargetRefs[s]) \in Nat /\ \A k \in 1 .. Len(TargetRefs[s]) : TargetRefs[s][k] \in Targets(s)
  BY TargetTypes
<1>3. pc' = "done" => at' = Len(TargetRefs[s]) + 1
  BY <1>1, <1>2 DEF HandlerStart
<1>4. ASSUME NEW k \in 1 .. Len(TargetRefs[s]), k < j
      PROVE  Handled(TargetRefs[s][k])'
  <2>1. CASE k <= i
    BY <2>1
  <2>2. CASE ~(k <= i)
    <3>1. k \in i + 1 .. j - 1
      BY <1>1, <1>2, <1>4, <2>2
    <3>2. TargetRefs[s][k] \notin refs
      BY <1>1, <3>1 DEF IsNextRef
    <3>3. LiveObj(TargetRefs[s][k])' = Nil
      BY <1>2, <3>2
    <3> QED
      BY <3>3 DEF Handled
  <2> QED
    BY <2>1, <2>2
<1> QED
  BY <1>1, <1>3, <1>4 DEF Progress, Targets

\* The handler is done with a ref and leaves it handled.
LEMMA NextRefProgress ==
  ASSUME TypeOK, Progress, pc \notin {"idle", "done"}, NextRef, Keeps,
         \A w \in Workloads : w = ref => Handled(w)'
  PROVE  Progress'
<1>1. PICK s \in Schedules : s = cur
  BY DEF TypeOK, WorkerOK
<1>2. PICK i \in 1 .. Len(TargetRefs[s]) : i = at
  BY <1>1 DEF TypeOK, WorkerOK
<1>3. /\ Len(TargetRefs[s]) \in Nat /\ Targets(s) \subseteq Workloads
      /\ \A k \in 1 .. Len(TargetRefs[s]) : TargetRefs[s][k] \in Targets(s)
  BY TargetTypes
<1>4. ASSUME NEW k \in 1 .. Len(TargetRefs[s]), k <= i
      PROVE  Handled(TargetRefs[s][k])'
  <2>1. PICK w \in Targets(s) : w = TargetRefs[s][k]
    BY <1>3
  <2>2. CASE k = i
    <3>1. w = ref /\ w \in Workloads
      BY <1>1, <1>2, <1>3, <2>1, <2>2 DEF ref
    <3>2. Handled(w)'
      BY <3>1
    <3> QED
      BY <2>1, <3>2
  <2>3. CASE k < i
    <3>1. Handled(w)
      BY <1>1, <1>2, <2>1, <2>3 DEF Progress
    <3>2. Handled(w)'
      BY <1>1, <3>1 DEF Keeps
    <3> QED
      BY <2>1, <3>2
  <2> QED
    BY <1>3, <1>4, <2>2, <2>3
<1>5. \A w \in Targets(s) : w \notin listed => LiveObj(w)' = Nil
  BY <1>1 DEF Progress, Keeps
<1>6. StartRefAfter(s, dir, listed, i) /\ cur' = s /\ listed' = listed /\ i \in Nat
  BY <1>1, <1>2, <1>3 DEF NextRef
<1> QED
  BY <1>4, <1>5, <1>6, StartProgress

\* What happens to the cluster meanwhile.
LEMMA WaitingProgress ==
  ASSUME TypeOK, Progress, UNCHANGED worker, UNCHANGED orig,
         \A w \in Workloads : LiveObj(w)' \in {Nil, LiveObj(w)},
         \A s \in Schedules : Live(secrets'[SecretOf[s]]) = Live(secrets[SecretOf[s]])
  PROVE  Progress'
<1>1. UNCHANGED <<pc, cur, dir, dry, listed, at>> /\ cur \in Schedules
  BY DEF worker, TypeOK, WorkerOK
<1>2. /\ \A k \in 1 .. Len(TargetRefs[cur]) : TargetRefs[cur][k] \in Workloads
      /\ Targets(cur) \subseteq Workloads
  BY <1>1, TargetTypes
<1>3. ASSUME NEW w \in Workloads, Handled(w)
      PROVE  Handled(w)'
  <2>1. CASE LiveObj(w)' = Nil
    BY <2>1 DEF Handled
  <2>2. CASE LiveObj(w)' = LiveObj(w)
    BY <1>1, <1>3, <2>2 DEF Handled, LiveEntry
  <2> QED
    BY <2>1, <2>2
<1> QED
  BY <1>1, <1>2, <1>3 DEF Progress, Targets

\* What the cache does not show is not there, since a pass in this direction
\* last began with a settled cache.
LEMMA NotCachedIsGone ==
  ASSUME Inv, trust # "none", NEW w \in Workloads, Cached(objs[w]) = Nil
  PROVE  LiveObj(w) = Nil
<1>1. Cached(objs[w]) \in Snapshots(objs[w])
  BY LiveObjTypes, ViewParts DEF Inv
<1> QED
  BY <1>1 DEF Inv, ClusterKnows, SameIdentity

\* A pass begins: what is not listed is not there.
LEMMA BeginProgress ==
  ASSUME PassInv, NEW s \in Schedules, Begin(s), CacheCaughtUp
  PROVE  Progress' /\ HandlerKnows'
<1>1. /\ pc = "idle" /\ cur' = s /\ dir' = desired[s] /\ objs' = objs
      /\ listed' = {w \in Targets(s) : Cached(objs[w]) # Nil}
      /\ StartRefAfter(s, desired[s], listed', 0)
  BY DEF Begin, cluster
<1>2. HandlerKnows' /\ pc' \in {"done", "guard", "load"}
  BY <1>1, StartKnows
<1>3. trust = desired[s] \/ AllSynced
  BY <1>1, <1>2 DEF CacheCaughtUp
<1>4. desired[s] \in Directions /\ Targets(s) \subseteq Workloads
  BY TargetTypes DEF PassInv, Inv, TypeOK, ControlOK
<1>5. ASSUME NEW w \in Targets(s), w \notin listed'
      PROVE  LiveObj(w)' = Nil
  <2>1. Cached(objs[w]) = Nil /\ w \in Workloads
    BY <1>1, <1>4, <1>5
  <2>2. CASE trust = desired[s]
    BY <1>1, <1>4, <2>1, <2>2, NotCachedIsGone DEF PassInv, Directions, LiveObj
  <2>3. CASE AllSynced
    BY <1>1, <2>1, <2>3, LiveObjTypes, ViewParts DEF PassInv, Inv, AllSynced, LiveObj
  <2> QED
    BY <1>3, <2>2, <2>3
<1>6. Len(TargetRefs[s]) \in Nat
  BY TargetTypes
<1>7. Progress'
  BY <1>1, <1>5, <1>6, StartProgress
<1> QED
  BY <1>2, <1>7

\* The handler gives up on a ref before it looks at the checkpoint: the object
\* is gone, must be spared, or is asleep.
LEMMA SkippedIsHandled ==
  ASSUME PassInv, Guard \/ Load, NextRef, NEW w \in Workloads, w = ref
  PROVE  Handled(w)'
<1>1. pc \in {"guard", "load"} /\ UNCHANGED <<objs, cur, dir, dry>>
  BY DEF Guard, Load, NextRef, cluster
<1>2. /\ Cached(objs[w]) \in Snapshots(objs[w]) /\ trust = dir /\ dir \in Directions
  BY <1>1, LiveObjTypes, ViewParts DEF PassInv, Inv, TypeOK, WorkerOK, WorkerKnows
<1>3. LiveObj(w)' = LiveObj(w)
  BY <1>1 DEF LiveObj
<1>4. NextRef => pc' \notin {"get"}
  BY NextRefKnows DEF PassInv, Inv
<1>5. CASE Cached(objs[w]) = Nil
  <2>1. LiveObj(w) = Nil
    BY <1>2, <1>5, NotCachedIsGone DEF PassInv, Directions
  <2> QED
    BY <1>3, <2>1 DEF Handled
<1>6. CASE Guard /\ Cached(objs[w]) # Nil /\ Cached(objs[w]).unsafe
  <2>1. LiveObj(w) # Nil => LiveObj(w).unsafe
    BY <1>2, <1>6 DEF PassInv, PassKnows, SameSafety, Directions
  <2>2. dir = "asleep"
    BY <1>6 DEF Guard, PassInv, PassKnows, HandlerKnows
  <2> QED
    BY <1>1, <1>3, <2>1, <2>2 DEF Handled
<1>7. CASE Load /\ Cached(objs[w]) # Nil /\ dir = "asleep" /\ SkipsSleep(Kind[w], Cached(objs[w]))
  <2>1. \/ Kind[w] = "Job"
        \/ Kind[w] = "DaemonSet" /\ (Cached(objs[w]).val[sentinelKey] # Nil \/ dry)
    BY <1>7 DEF SkipsSleep, HasActivePods, NeedsNoSentinel
  <2>2. Kind[w] = "Job" => SleepsOnce(Kind[w])
    BY DEF SleepsOnce, ReplicaKinds
  <2>3. (Kind[w] = "DaemonSet" /\ Cached(objs[w]).val[sentinelKey] # Nil /\ LiveObj(w) # Nil) =>
          SeenAsleep(Kind[w], LiveObj(w).val)
    BY <1>2, <1>7 DEF PassInv, PassKnows, StaysAsleep, SeenAsleep, SleepsOnce
  <2> QED
    BY <1>1, <1>3, <1>7, <2>1, <2>2, <2>3 DEF Handled
<1>8. CASE Guard /\ ~(Cached(objs[w]) = Nil \/ Cached(objs[w]).unsafe)
  <2>1. GoTo("load")
    BY <1>8, Zenon DEF Guard
  <2>2. at' = at /\ at' # at
    <3>1. PICK k \in at + 1 .. Len(TargetRefs[cur]) + 1 : at' = k
      BY DEF NextRef, StartRefAfter
    <3>2. at \in Nat /\ Len(TargetRefs[cur]) \in Nat
      BY TargetTypes DEF PassInv, Inv, TypeOK, WorkerOK
    <3> QED
      BY <2>1, <3>1, <3>2 DEF GoTo
  <2> QED
    BY <2>2
<1>9. CASE Load /\ ~(Cached(objs[w]) = Nil \/ (dir = "asleep" /\ SkipsSleep(Kind[w], Cached(objs[w]))))
  <2>1. GoTo("get")
    BY <1>9, Zenon DEF Load
  <2> QED
    BY <1>4, <2>1 DEF GoTo
<1> QED
  BY <1>5, <1>6, <1>7, <1>8, <1>9

\* Sleep returns when it finds a checkpoint (the kinds that sleep once) or in a
\* dry run; Restore returns when there is nothing to restore.
LEMMA ReadIsHandled ==
  ASSUME PassInv, OverlapSharesSecret, SleepGet \/ RestoreGet, NextRef,
         NEW w \in Workloads, w = ref
  PROVE  Handled(w)'
<1>1. pc = "get" /\ UNCHANGED <<objs, secrets, orig, cur, dir, dry>>
  BY DEF SleepGet, RestoreGet, NextRef, cluster
<1>2. /\ cur \in TargetedBy(w) /\ cur \in Schedules /\ trust = dir
      /\ Cached(secret) \in SecretSnapshots(cur)
  BY <1>1, AtHand, ViewParts DEF PassInv, Inv, TypeOK, WorkerOK, WorkerKnows, SecretSnapshots, secret
<1>3. LiveObj(w)' = LiveObj(w) /\ pc' \notin {"set", "patch"}
  BY <1>1, NextRefKnows DEF LiveObj, PassInv, Inv
<1>4. CASE SleepGet
  <2>1. dir = "asleep" /\ (SleepsOnce(Kind[w]) \/ dry)
    BY <1>3, <1>4 DEF SleepGet, GoTo
  <2> QED
    BY <1>1, <2>1 DEF Handled
<1>5. CASE RestoreGet /\ (Cached(secret)[ref][obj.uid] = Nil \/ dry)
  <2>1. dir = "awake"
    BY <1>5 DEF RestoreGet
  <2>2. CASE dry
    BY <1>1, <2>2 DEF Handled
  <2>3. CASE LiveObj(w) = Nil
    BY <1>3, <2>3 DEF Handled
  <2>4. CASE ~dry /\ LiveObj(w) # Nil
    <3>1. obj.uid = LiveObj(w).uid
      BY <1>1, <2>4 DEF PassInv, Inv, WorkerKnows, Holding
    <3>2. LiveEntry(cur, w, LiveObj(w).uid) = Nil
      BY <1>2, <1>5, <2>1, <2>4, <3>1 DEF PassInv, Inv, ClusterKnows, AwakeMode
    <3>3. \A t \in TargetedBy(w) : LiveEntry(t, w, LiveObj(w).uid) = Nil
      BY <1>2, <3>2 DEF OverlapSharesSecret, LiveEntry
    <3>4. Captured(Kind[w], LiveObj(w).val) = orig[w]
      BY <2>4, <3>3 DEF PassInv, Inv, ClusterKnows, Recoverable
    <3>5. LiveEntry(cur, w, LiveObj(w).uid)' = Nil
      BY <1>1, <1>3, <3>2 DEF LiveEntry
    <3> QED
      BY <1>1, <1>3, <2>1, <3>4, <3>5 DEF Handled
  <2> QED
    BY <2>2, <2>3, <2>4
<1>6. CASE RestoreGet /\ ~(Cached(secret)[ref][obj.uid] = Nil \/ dry)
  <2>1. GoTo("patch")
    BY <1>6, Zenon DEF RestoreGet
  <2> QED
    BY <1>3, <2>1 DEF GoTo
<1> QED
  BY <1>4, <1>5, <1>6

\* The steps that read.
LEMMA ReadsPass ==
  ASSUME PassInv, OverlapSharesSecret, Guard \/ Load \/ SleepGet \/ RestoreGet
  PROVE  Progress' /\ HandlerKnows'
<1>1. /\ pc \notin {"idle", "done"} /\ UNCHANGED <<objs, secrets, orig>>
      /\ TypeOK /\ Progress /\ HandlerKnows
  BY DEF Guard, Load, SleepGet, RestoreGet, cluster, PassInv, Inv, PassKnows
<1>2. CASE NextRef
  <2>1. \A w \in Workloads : w = ref => Handled(w)'
    BY <1>2, SkippedIsHandled, ReadIsHandled
  <2>2. Keeps
    BY <1>1, <1>2, QuietKeeps DEF NextRef
  <2> QED
    BY <1>1, <1>2, <2>1, <2>2, NextRefProgress, NextRefKnows
<1>3. CASE ~NextRef
  <2>1. \E label \in Holding \cup {"load"} : GoTo(label)
    BY <1>3, Zenon DEF Guard, Load, SleepGet, RestoreGet, Holding
  <2>2. Progress'
    BY <1>1, <2>1, QuietKeeps, GoToProgress DEF GoTo
  <2>3. CASE SleepGet \/ RestoreGet
    <3>1. /\ pc = "get" /\ obj' = obj /\ \E label \in Holding : GoTo(label)
      BY <1>3, <2>3, Zenon DEF SleepGet, RestoreGet, Holding
    <3> QED
      BY <1>1, <2>2, <3>1, GoToKnows DEF Holding
  <2> QED
    BY <2>2, <2>3, GuardKnows, LoadHandlerKnows
<1> QED
  BY <1>2, <1>3

\* SetRaw adds a checkpoint, in a sleep pass: the targets stay as they are.
LEMMA SetRawPass ==
  ASSUME PassInv, SetRaw
  PROVE  Progress' /\ HandlerKnows'
<1>1. /\ pc = "set" /\ GoTo("patch") /\ UNCHANGED <<objs, obj, orig>>
      /\ TypeOK /\ Progress /\ HandlerKnows
  BY DEF SetRaw, PassInv, Inv, PassKnows
<1>2. dir = "asleep"
  BY <1>1 DEF TypeOK, WorkerOK
<1>3. Keeps
  BY <1>1, <1>2 DEF Keeps, Handled, LiveObj, GoTo
<1> QED
  BY <1>1, <1>3, GoToProgress, GoToKnows DEF Holding

\* The patch leaves a target asleep, or as its owner wants it.
LEMMA PatchPass ==
  ASSUME PassInv, Inv', Patch
  PROVE  Progress' /\ HandlerKnows' /\ CachesAgree'
<1>1. /\ pc = "patch" /\ UNCHANGED <<secrets, orig, trust>>
      /\ TypeOK /\ Progress /\ HandlerKnows
  BY DEF Patch, PassInv, Inv, PassKnows
<1>2. /\ ref \in Workloads /\ dir \in Directions /\ cur \in Schedules
  BY <1>1, AtHand DEF TypeOK, WorkerOK
<1>3. Targets(cur) \subseteq Workloads
  BY <1>2, TargetTypes
<1>4. \/ dir = "asleep" /\ NextRef
      \/ dir = "awake" /\ GoTo("delete") /\ UNCHANGED <<obj, val>>
  BY <1>2, Zenon DEF Patch, Directions
<1>5. UNCHANGED <<cur, dir, dry>>
  BY <1>4 DEF NextRef, GoTo
<1>6. CachesAgree'
  BY PatchAgree
<1>7. ASSUME NEW w \in Workloads
      PROVE  /\ LiveObj(w) = Nil => LiveObj(w)' = Nil
             /\ w # ref => LiveObj(w)' = LiveObj(w)
             /\ LiveObj(w)' # Nil => /\ LiveObj(w)'.uid = LiveObj(w).uid
                                     /\ LiveObj(w)'.unsafe = LiveObj(w).unsafe
             /\ (w = ref /\ dir = "asleep" /\ ~dry /\ ~SleepsOnce(Kind[w]) /\ LiveObj(w)' # Nil) =>
                  SeenAsleep(Kind[w], LiveObj(w)'.val)
  <2>1. CASE objs' = objs /\ (SkipsPatch(Kind[ref], obj.val, Want) \/ dry)
    <3>1. LiveObj(w)' = LiveObj(w)
      BY <2>1 DEF LiveObj
    <3>2. ASSUME w = ref, dir = "asleep", ~dry, ~SleepsOnce(Kind[w]), LiveObj(w) # Nil
          PROVE  SeenAsleep(Kind[w], LiveObj(w).val)
      <4>1. SeenAsleep(Kind[ref], obj.val)
        BY <2>1, <3>2 DEF SkipsPatch, Want, SeenAsleep, IsAsleep, ReplicaKinds
      <4> QED
        BY <1>1, <3>2, <4>1 DEF HandlerKnows, Holding
    <3> QED
      BY <3>1, <3>2
  <2>2. CASE \E version \in Versions(ref) :
               /\ LiveObj(ref) # Nil /\ version # Nil
               /\ version.uid = LiveObj(ref).uid /\ version.unsafe = LiveObj(ref).unsafe
               /\ \A x \in Workloads : LiveObj(x)' = IF x = ref THEN version ELSE LiveObj(x)
               /\ (dir = "asleep" /\ ~SleepsOnce(Kind[ref])) => SeenAsleep(Kind[ref], version.val)
    BY <2>2
  <2> QED
    BY <2>1, <2>2, PatchAgree
<1>8. CASE dir = "asleep" /\ NextRef
  <2>1. Keeps
    <3> SUFFICES ASSUME NEW w \in Targets(cur), Handled(w)
                 PROVE  Handled(w)'
      BY <1>3, <1>7 DEF Keeps
    <3> QED
      BY <1>3, <1>5, <1>7, <1>8 DEF Handled
  <2>2. \A w \in Workloads : w = ref => Handled(w)'
    BY <1>5, <1>7, <1>8 DEF Handled
  <2> QED
    BY <1>1, <1>6, <1>8, <2>1, <2>2, NextRefProgress, NextRefKnows
<1>9. CASE dir = "awake" /\ GoTo("delete")
  <2>1. ref' = ref /\ pc' = "delete"
    BY <1>9 DEF GoTo, ref
  <2>2. \A w \in Workloads : (w = ref /\ LiveObj(w)' # Nil) =>
          Captured(Kind[w], LiveObj(w)'.val) = orig[w]
    <3>1. (LiveObj(ref) # Nil)' => Captured(Kind[ref], LiveObj(ref).val)' = orig'[ref']
      BY <2>1 DEF Inv, WorkerKnows, Holding
    <3> QED
      BY <1>1, <2>1, <3>1 DEF LiveObj
  <2>3. Keeps
    <3> SUFFICES ASSUME NEW w \in Targets(cur), Handled(w), LiveObj(w)' # Nil, ~dry
                 PROVE  /\ Captured(Kind[w], LiveObj(w)'.val) = orig[w]
                        /\ LiveEntry(cur, w, LiveObj(w).uid)' = Nil
      BY <1>1, <1>3, <1>5, <1>7, <1>9 DEF Keeps, Handled
    <3>1. LiveObj(w) # Nil /\ LiveObj(w)'.uid = LiveObj(w).uid
      BY <1>3, <1>7
    <3>2. LiveEntry(cur, w, LiveObj(w).uid)' = Nil
      BY <1>1, <1>5, <1>9, <3>1 DEF Handled, LiveEntry
    <3>3. Captured(Kind[w], LiveObj(w)'.val) = orig[w]
      BY <1>3, <1>7, <1>9, <2>2, <3>1 DEF Handled
    <3> QED
      BY <3>2, <3>3
  <2>4. HandlerKnows'
    BY <1>5, <1>9, <2>1 DEF HandlerKnows
  <2> QED
    BY <1>1, <1>6, <1>9, <2>3, <2>4, GoToProgress DEF Holding
<1> QED
  BY <1>4, <1>8, <1>9

\* Delete clears the entry of the ref, and brings no other back.
LEMMA DeletePass ==
  ASSUME PassInv, Delete
  PROVE  Progress' /\ HandlerKnows'
<1>1. /\ pc = "delete" /\ NextRef /\ UNCHANGED <<objs, orig, cur, dir, dry>>
      /\ TypeOK /\ Progress /\ dir = "awake" /\ trust = "awake"
  BY DEF Delete, NextRef, PassInv, Inv, PassKnows, TypeOK, WorkerOK, WorkerKnows
<1>2. /\ ref \in Workloads /\ cur \in TargetedBy(ref) /\ cur \in Schedules
      /\ secret = secrets[SecretOf[cur]] /\ obj.uid \in Uids
      /\ Cached(secret) \in SecretSnapshots(cur) /\ Live(secret) \in Secrets
      /\ Targets(cur) \subseteq Workloads
  BY <1>1, AtHand, ViewParts, WrittenSecrets, TargetTypes
     DEF TypeOK, WorkerOK, SecretSnapshots, secret, Holding
<1>3. \A w \in Workloads : LiveObj(w)' = LiveObj(w) /\ (LiveObj(w) # Nil => LiveObj(w).uid \in Uids)
  BY <1>1, LiveObjTypes DEF LiveObj
<1> DEFINE after == Live(secrets'[SecretOf[cur]])
<1>4. /\ \A w \in Workloads, u \in Uids : Live(secret)[w][u] = Nil => after[w][u] = Nil
      /\ LiveObj(ref) # Nil => after[ref][LiveObj(ref).uid] = Nil
  <2>1. LiveObj(ref) # Nil => obj.uid = LiveObj(ref).uid
    BY <1>1 DEF PassInv, Inv, WorkerKnows, Holding
  <2>2. CASE secrets' = secrets /\ Cached(secret)[ref][obj.uid] = Nil
    <3>1. LiveObj(ref) # Nil => LiveEntry(cur, ref, obj.uid) = Nil
      BY <1>1, <1>2, <2>1, <2>2 DEF PassInv, Inv, ClusterKnows, AwakeMode
    <3> QED
      BY <1>2, <2>1, <2>2, <3>1 DEF LiveEntry
  <2>3. ASSUME NEW new \in Secrets,
               secrets' = [secrets EXCEPT ![SecretOf[cur]] = CommitChange(secret, new)],
               new = WithEntry(Live(secret), ref, obj.uid, Nil) \/ new = NoSecret
        PROVE  /\ \A w \in Workloads, u \in Uids : Live(secret)[w][u] = Nil => after[w][u] = Nil
               /\ LiveObj(ref) # Nil => after[ref][LiveObj(ref).uid] = Nil
    <3>1. after = new
      BY <1>2, <2>3, SecretWritten DEF PassInv, Inv
    <3>2. /\ new[ref][obj.uid] = Nil
          /\ \A w \in Workloads, u \in Uids : Live(secret)[w][u] = Nil => new[w][u] = Nil
      <4>1. CASE new = NoSecret
        BY <1>2, <4>1 DEF NoSecret
      <4>2. CASE new = WithEntry(Live(secret), ref, obj.uid, Nil)
        BY <1>2, <4>2, SecretEntries
      <4> QED
        BY <2>3, <4>1, <4>2
    <3> HIDE DEF after
    <3> QED
      BY <2>1, <3>1, <3>2
  <2> QED
    BY <2>2, <2>3, DeleteEffect DEF PassInv, Inv
<1>5. Keeps
  <2> SUFFICES ASSUME NEW w \in Targets(cur), Handled(w), LiveObj(w) # Nil, ~dry
               PROVE  LiveEntry(cur, w, LiveObj(w).uid)' = Nil
    BY <1>1, <1>2, <1>3 DEF Keeps, Handled
  <2> QED
    BY <1>1, <1>2, <1>3, <1>4 DEF Handled, LiveEntry
<1>6. ASSUME NEW w \in Workloads, w = ref
      PROVE  Handled(w)'
  <2>1. LiveObj(w) # Nil => Captured(Kind[w], LiveObj(w).val) = orig[w]
    BY <1>1, <1>6 DEF PassInv, Inv, WorkerKnows, Holding
  <2>2. LiveObj(w) # Nil => LiveEntry(cur, w, LiveObj(w).uid)' = Nil
    BY <1>1, <1>3, <1>4, <1>6 DEF LiveEntry
  <2> QED
    BY <1>1, <1>3, <2>1, <2>2 DEF Handled
<1> QED
  BY <1>1, <1>5, <1>6, NextRefProgress, NextRefKnows

-----------------------------------------------------------------------------
(* The invariant, and what it says of a finished pass.                     *)

\* The initial states satisfy it.
LEMMA InitPassInv == Init => PassInv
<1> SUFFICES ASSUME Init
             PROVE  PassInv
  OBVIOUS
<1>1. Inv
  BY InitInv
<1>2. \A w \in Workloads : Snapshots(objs[w]) = {Nil}
  BY ViewOfOne DEF Init
<1>3. UnsafeKinds
  BY <1>2 DEF UnsafeKinds
<1>4. SameSafety /\ StaysAsleep /\ Progress /\ HandlerKnows
  BY DEF Init, SameSafety, StaysAsleep, Progress, HandlerKnows, Holding
<1> QED
  BY <1>1, <1>3, <1>4 DEF PassInv, PassKnows

\* The steps of the worker preserve it.
LEMMA WorkerPass ==
  ASSUME PassInv, Inv', OverlapSharesSecret, Worker \/ Faults, Settled
  PROVE  PassKnows'
<1>1. TypeOK /\ CachesAgree
  BY DEF PassInv, PassKnows, Inv, CachesAgree
<1>2. CASE \E s \in Schedules : Begin(s)
  <2>1. PICK s \in Schedules : Begin(s)
    BY <1>2
  <2>2. CachesAgree' /\ Progress' /\ HandlerKnows'
    BY <1>1, <2>1, BeginAgree, BeginProgress DEF Settled
  <2> QED
    BY <2>2 DEF PassKnows, CachesAgree
<1>3. CASE Patch
  BY <1>3, PatchPass DEF PassKnows, CachesAgree
<1>4. CASE /\ \/ Guard \/ Load \/ SleepGet \/ RestoreGet \/ SetRaw \/ Delete
              \/ PatchMissing \/ Finish \/ Faults
  <2>1. objs' = objs /\ trust' = trust
    BY <1>4 DEF Guard, Load, SleepGet, RestoreGet, SetRaw, Delete, Finish, PatchMissing,
                Faults, Fail, Crash, ReturnError, Drop, cluster
  <2>2. CachesAgree'
    BY <1>1, <2>1, UnwrittenAgree DEF LiveObj
  <2>3. CASE Guard \/ Load \/ SleepGet \/ RestoreGet \/ SetRaw \/ Delete
    BY <2>2, <2>3, ReadsPass, SetRawPass, DeletePass DEF PassKnows, CachesAgree
  <2>4. CASE PatchMissing \/ Finish \/ Faults
    <3>1. pc' = "idle"
      BY <2>4 DEF Finish, PatchMissing, Faults, Fail, Crash, ReturnError, Drop
    <3>2. Progress' /\ HandlerKnows'
      BY <3>1 DEF Progress, HandlerKnows, Holding
    <3> QED
      BY <2>2, <3>2 DEF PassKnows, CachesAgree
  <2> QED
    BY <1>4, <2>3, <2>4
<1> QED
  BY <1>2, <1>3, <1>4 DEF Worker

\* So do the owners, who change things only between passes, or delete.
LEMMA OwnersPass ==
  ASSUME PassInv, Owners, Settled
  PROVE  PassKnows'
<1>1. TypeOK /\ CachesAgree' /\ Progress /\ HandlerKnows
  BY OwnersAgree DEF PassInv, PassKnows, Inv
<1>2. PICK w \in Workloads :
        \/ \E v \in OwnerValues[w] : Edit(w, v) \/ Create(w, v)
        \/ ToggleUnsafe(w) \/ DeleteObj(w)
  BY DEF Owners
<1>3. CASE DeleteObj(w)
  <2>1. /\ objs' = [objs EXCEPT ![w] = Commit(objs[w], Nil)] /\ Nil \in Versions(w)
        /\ UNCHANGED <<secrets, worker, orig>>
    BY <1>3 DEF DeleteObj, Versions
  <2>2. \A x \in Workloads : LiveObj(x)' \in {Nil, LiveObj(x)}
    BY <1>1, <2>1, ObjWritten
  <2>3. Progress' /\ HandlerKnows'
    BY <1>1, <2>1, <2>2, WaitingProgress, WaitingKnows
  <2> QED
    BY <1>1, <2>3 DEF PassKnows, CachesAgree
<1>4. CASE ~DeleteObj(w)
  <2>1. trust' = "none" /\ UNCHANGED worker
    BY <1>2, <1>4 DEF Edit, Create, OwnerWrite, ToggleUnsafe
  <2>2. pc' = "idle"
    BY <2>1 DEF Settled, OwnersBetweenPasses, worker
  <2>3. Progress' /\ HandlerKnows'
    BY <2>2 DEF Progress, HandlerKnows, Holding
  <2> QED
    BY <1>1, <2>3 DEF PassKnows, CachesAgree
<1> QED
  BY <1>3, <1>4

\* Every step of SettledSpec preserves the invariant.
LEMMA NextPassInv ==
  ASSUME OverlapSharesSecret, PassInv, [SettledNext]_vars
  PROVE  PassInv'
<1>1. Inv'
  BY NextInv DEF PassInv
<1>2. CASE UNCHANGED vars \/ Control \/ Deliver
  <2>1. trust' = trust /\ UNCHANGED worker /\ UNCHANGED orig
    BY <1>2 DEF vars, Control, Flip, ToggleDryRun, Enqueue, Deliver
  <2>2. NoWrite
    <3>1. CASE Deliver
      BY <3>1, DeliverWritesNothing DEF PassInv, Inv
    <3>2. CASE UNCHANGED vars \/ Control
      BY <3>2, UntouchedCluster DEF vars, cluster, Control, Flip, ToggleDryRun, Enqueue
    <3> QED
      BY <1>2, <3>1, <3>2
  <2>3. /\ \A w \in Workloads : /\ LiveObj(w)' = LiveObj(w)
                                /\ Snapshots(objs'[w]) \subseteq Snapshots(objs[w])
        /\ \A s \in Schedules : Live(secrets'[SecretOf[s]]) = Live(secrets[SecretOf[s]])
    BY <2>2 DEF NoWrite
  <2>4. CachesAgree'
    BY <2>1, <2>3, UnwrittenAgree DEF PassInv, PassKnows, CachesAgree
  <2>5. Progress' /\ HandlerKnows'
    BY <2>1, <2>3, WaitingProgress, WaitingKnows DEF PassInv, PassKnows, Inv
  <2> QED
    BY <1>1, <2>4, <2>5 DEF PassInv, PassKnows, CachesAgree
<1>3. CASE (Worker \/ Faults) /\ Settled
  BY <1>1, <1>3, WorkerPass DEF PassInv
<1>4. CASE Owners /\ Settled
  BY <1>1, <1>4, OwnersPass DEF PassInv
<1> QED
  BY <1>2, <1>3, <1>4 DEF SettledNext, Next

\* The inductive invariant of passes holds at the settled pace.
THEOREM PassesKnow ==
  ASSUME OverlapSharesSecret
  PROVE  SettledSpec => []PassInv
<1>1. PassInv /\ [SettledNext]_vars => PassInv'
  BY NextPassInv
<1> QED
  BY <1>1, InitPassInv, PTL DEF SettledSpec

\* A wake pass that reports success has restored every target to its owner's
\* state and cleared its checkpoint, however stale what it read, whatever
\* failed in the passes before it, and whoever deleted a workload meanwhile.
THEOREM WakePassesRestore ==
  ASSUME OverlapSharesSecret
  PROVE  SettledSpec => []WakePassRestores
<1>1. PassInv => WakePassRestores
  <2> SUFFICES ASSUME PassInv, pc = "done", dir = "awake", ~dry,
                      NEW w \in Targets(cur), LiveObj(w) # Nil
               PROVE  /\ Captured(Kind[w], LiveObj(w).val) = orig[w]
                      /\ LiveEntry(cur, w, LiveObj(w).uid) = Nil
    BY DEF WakePassRestores
  <2>1. PICK i \in 1 .. Len(TargetRefs[cur]) : w = TargetRefs[cur][i]
    BY TargetTypes DEF PassInv, Inv, TypeOK, WorkerOK
  <2>2. i < at /\ pc # "idle"
    BY TargetTypes DEF PassInv, PassKnows, Progress, Inv, TypeOK, WorkerOK
  <2>3. Handled(w)
    BY <2>1, <2>2 DEF PassInv, PassKnows, Progress
  <2> QED
    BY <2>3 DEF Handled
<1> QED
  BY <1>1, PassesKnow, PTL

\* Where owners leave the sentinel's key to the operator, a DaemonSet that has
\* the key is asleep: neither Sleep, nor Restore, nor an owner sets another value.
LEMMA PatchSentinel ==
  ASSUME Inv, SentinelMeansAsleep, Patch
  PROVE  SentinelMeansAsleep'
<1>1. pc = "patch" /\ pc \in Holding /\ orig' = orig
  BY DEF Patch, Holding
<1>2. CASE objs' = objs
  BY <1>1, <1>2 DEF SentinelMeansAsleep
<1>3. ASSUME LiveObj(ref) # Nil, NEW version \in Versions(ref),
             objs' = [objs EXCEPT ![ref] = CommitChange(objs[ref], version)],
             version.val = MergePatch(Kind[ref], LiveObj(ref).val, obj.val, Want)
      PROVE  SentinelMeansAsleep'
  <2>1. PICK r \in Workloads : r = ref
    BY <1>1, AtHand DEF Inv
  <2>2. /\ Snapshots(objs'[r]) \subseteq Snapshots(objs[r]) \cup {version}
        /\ \A x \in Workloads : x # r => objs'[x] = objs[x]
    BY <1>3, <2>1, ObjWritten DEF Inv
  <2>3. ASSUME Kind[r] = "DaemonSet"
        PROVE  version.val[sentinelKey] \in {Nil, "true"}
    <3>1. /\ LiveObj(r).val \in Values("DaemonSet") /\ LiveObj(r) \in Snapshots(objs[r])
          /\ LiveObj(r).val[sentinelKey] \in {Nil, "true"}
      BY <1>3, <2>1, <2>3, LiveObjTypes DEF SentinelMeansAsleep, Inv
    <3>2. obj.val \in Values("DaemonSet") /\ Want \in Values("DaemonSet")
      BY <1>1, <2>1, <2>3, AtHand, WantIsValue DEF Inv
    <3>3. sentinelKey \in Fields("DaemonSet") /\ "DaemonSet" \in Kinds
      BY DEF Fields, Kinds, ReplicaKinds, SuspendKinds
    <3>4. Want[sentinelKey] \in {Nil, "true"}
      <4>1. CASE dir = "asleep"
        <5>1. Want = withSentinel(obj.val)
          BY <2>1, <2>3, <4>1 DEF Want, SleptValue, ReplicaKinds, SuspendKinds
        <5> QED
          BY <3>2, <3>3, <5>1 DEF withSentinel, Values
      <4>2. CASE dir = "awake"
        <5>1. Want = orig[r] /\ orig[r] # Nil
          BY <1>1, <1>3, <2>1, <4>2 DEF Want, Inv, WorkerKnows, ClusterKnows, Recoverable
        <5> QED
          BY <2>3, <5>1 DEF SentinelMeansAsleep
      <4> QED
        BY <4>1, <4>2 DEF Inv, TypeOK, WorkerOK, Directions
    <3>5. version.val[sentinelKey] \in {LiveObj(r).val[sentinelKey], Want[sentinelKey]}
      BY <1>3, <2>1, <2>3, <3>1, <3>2, <3>3, MergePatchFields
    <3> QED
      BY <3>1, <3>4, <3>5
  <2> QED
    BY <1>1, <2>2, <2>3 DEF SentinelMeansAsleep
<1> QED
  BY <1>2, <1>3, PatchEffect DEF Inv

\* Owners do not touch the sentinel.
LEMMA OwnersSentinel ==
  ASSUME Inv, SentinelIsOurs, SentinelMeansAsleep, Owners
  PROVE  SentinelMeansAsleep'
<1>1. PICK w \in Workloads :
        \/ \E v \in OwnerValues[w] : Edit(w, v) \/ Create(w, v)
        \/ ToggleUnsafe(w) \/ DeleteObj(w)
  BY DEF Owners
<1>2. /\ LiveObj(w) \in Versions(w) /\ OwnerValues[w] \subseteq Values(Kind[w])
      /\ LiveObj(w) \in Snapshots(objs[w]) /\ lastUid[w] \in Nat /\ MaxUid \in Nat
      /\ orig \in [Workloads -> {Nil} \cup AnyValue]
  <2>1. lastUid[w] \in 0 .. MaxUid /\ MaxUid \in Nat
    BY SleeperAssumption DEF Inv, TypeOK, ClusterOK
  <2> QED
    BY <2>1, LiveObjTypes, SleeperAssumption DEF Inv, TypeOK, HistoryOK
<1>3. ASSUME NEW version \in Versions(w), objs' = [objs EXCEPT ![w] = Commit(objs[w], version)],
             (Kind[w] = "DaemonSet" /\ version # Nil) =>
               version.val[sentinelKey] \in {Nil, "true"},
             \/ orig' = orig
             \/ version # Nil /\ orig' = [orig EXCEPT ![w] = Captured(Kind[w], version.val)]
      PROVE  SentinelMeansAsleep'
  <2>1. /\ Snapshots(objs'[w]) \subseteq Snapshots(objs[w]) \cup {version}
        /\ \A x \in Workloads : x # w => objs'[x] = objs[x]
    BY <1>3, ObjWritten DEF Inv
  <2>2. \A x \in Workloads : Kind[x] = "DaemonSet" =>
          (orig'[x] # Nil => orig'[x][sentinelKey] \in {Nil, "true"})
    BY <1>2, <1>3 DEF SentinelMeansAsleep, Captured, ReplicaKinds
  <2> QED
    BY <1>3, <2>1, <2>2 DEF SentinelMeansAsleep
<1>4. ASSUME NEW v \in OwnerValues[w], Edit(w, v)
      PROVE  SentinelMeansAsleep'
  <2> DEFINE version == [LiveObj(w) EXCEPT !.val = v]
  <2>1. LiveObj(w) \in Objects(Values(Kind[w]))
    BY <1>2, <1>4 DEF Edit, Versions
  <2>2. version \in Objects(Values(Kind[w])) /\ version.val = v
    BY <1>2, <2>1 DEF Objects
  <2>3. version \in Versions(w) /\ version # Nil
    BY <2>2, ObjectsAreNotNil, SleeperAssumption DEF Versions
  <2>4. \/ orig' = orig
        \/ orig' = [orig EXCEPT ![w] = Captured(Kind[w], version.val)]
    BY <1>4 DEF Edit, OwnerWrite
  <2>5. objs' = [objs EXCEPT ![w] = Commit(objs[w], version)]
    BY <1>4 DEF Edit, OwnerWrite
  <2> QED
    BY <1>3, <2>2, <2>3, <2>4, <2>5 DEF SentinelIsOurs
<1>5. ASSUME NEW v \in OwnerValues[w], Create(w, v)
      PROVE  SentinelMeansAsleep'
  <2> DEFINE version == [uid |-> lastUid[w] + 1, val |-> v, unsafe |-> FALSE]
  <2>1. version \in Objects(Values(Kind[w])) /\ version.val = v
    BY <1>2, <1>5 DEF Create, Objects, Uids
  <2>2. version \in Versions(w) /\ version # Nil
    BY <2>1, ObjectsAreNotNil, SleeperAssumption DEF Versions
  <2>3. \/ orig' = orig
        \/ orig' = [orig EXCEPT ![w] = Captured(Kind[w], version.val)]
    BY <1>5 DEF Create, OwnerWrite
  <2>4. objs' = [objs EXCEPT ![w] = Commit(objs[w], version)]
    BY <1>5 DEF Create, OwnerWrite
  <2> QED
    BY <1>3, <2>1, <2>2, <2>3, <2>4 DEF SentinelIsOurs
<1>6. CASE ToggleUnsafe(w)
  <2> DEFINE version == [LiveObj(w) EXCEPT !.unsafe = ~LiveObj(w).unsafe]
  <2>1. LiveObj(w) \in Objects(Values(Kind[w])) /\ LiveObj(w) # Nil
    BY <1>2, <1>6 DEF ToggleUnsafe, Versions
  <2>2. version \in Versions(w) /\ version.val = LiveObj(w).val
    BY <2>1 DEF Objects, Versions
  <2> QED
    BY <1>2, <1>3, <1>6, <2>1, <2>2 DEF ToggleUnsafe, SentinelMeansAsleep
<1>7. CASE DeleteObj(w)
  <2>1. objs' = [objs EXCEPT ![w] = Commit(objs[w], Nil)] /\ orig' = orig /\ Nil \in Versions(w)
    BY <1>7 DEF DeleteObj, Versions
  <2> QED
    BY <1>3, <2>1
<1> QED
  BY <1>1, <1>4, <1>5, <1>6, <1>7

\* No step makes an owner's nodeSelector look asleep that is not.
LEMMA NextSentinel ==
  ASSUME Inv, SentinelIsOurs, SentinelMeansAsleep, [SettledNext]_vars
  PROVE  SentinelMeansAsleep'
<1>1. ASSUME orig' = orig,
             \A w \in Workloads : Snapshots(objs'[w]) \subseteq Snapshots(objs[w])
      PROVE  SentinelMeansAsleep'
  BY <1>1 DEF SentinelMeansAsleep
<1>2. CASE Worker /\ ~Patch
  <2>1. UNCHANGED <<objs, orig>>
    BY <1>2 DEF Worker, Begin, Guard, Load, SleepGet, RestoreGet, SetRaw, Delete,
                PatchMissing, ReturnError, Drop, Finish, cluster
  <2> QED
    BY <1>1, <2>1
<1>3. CASE Faults \/ Control \/ UNCHANGED vars
  <2>1. UNCHANGED <<objs, orig>>
    BY <1>3 DEF Faults, Fail, Crash, ReturnError, Drop, Control, Flip, ToggleDryRun,
                Enqueue, vars, cluster
  <2> QED
    BY <1>1, <2>1
<1>4. CASE Deliver
  BY <1>1, <1>4, DeliverWritesNothing DEF NoWrite, Inv
<1> QED
  BY <1>2, <1>3, <1>4, PatchSentinel, OwnersSentinel DEF SettledNext, Next

\* A sleep pass that reports success leaves asleep every Deployment, StatefulSet
\* and DaemonSet it targets, bar those it must spare, whatever earlier passes
\* failed at: for any owner who leaves the sentinel's key to the operator.
THEOREM SleepPassesSleep ==
  ASSUME OverlapSharesSecret, SentinelIsOurs
  PROVE  SettledSpec => []SleepPassSleeps
<1>1. PassInv /\ SentinelMeansAsleep => SleepPassSleeps
  <2> SUFFICES ASSUME PassInv, SentinelMeansAsleep, pc = "done", dir = "asleep", ~dry,
                      NEW w \in Targets(cur), Kind[w] \in Kinds, ~SleepsOnce(Kind[w]),
                      LiveObj(w) # Nil
               PROVE  LiveObj(w).unsafe \/ IsAsleep(Kind[w], LiveObj(w).val)
    BY DEF SleepPassSleeps, PassSleeps
  <2>1. PICK i \in 1 .. Len(TargetRefs[cur]) : w = TargetRefs[cur][i]
    BY TargetTypes DEF PassInv, Inv, TypeOK, WorkerOK
  <2>2. i < at /\ pc # "idle"
    BY TargetTypes DEF PassInv, PassKnows, Progress, Inv, TypeOK, WorkerOK
  <2>3. Handled(w)
    BY <2>1, <2>2 DEF PassInv, PassKnows, Progress
  <2>4. LiveObj(w).unsafe \/ SeenAsleep(Kind[w], LiveObj(w).val)
    BY <2>3 DEF Handled
  <2>5. w \in Workloads
    BY TargetTypes DEF PassInv, Inv, TypeOK, WorkerOK
  <2>6. CASE Kind[w] = "DaemonSet" /\ LiveObj(w).val[sentinelKey] # Nil
    <3>1. /\ LiveObj(w).val[sentinelKey] = "true" /\ LiveObj(w).val \in Values("DaemonSet")
      BY <2>5, <2>6, LiveObjTypes DEF SentinelMeansAsleep, PassInv, Inv
    <3> QED
      BY <2>6, <3>1, SentinelSleeps
  <2> QED
    BY <2>4, <2>6 DEF SeenAsleep
<1>2. Init => SentinelMeansAsleep
  <2>1. Init => \A w \in Workloads : Snapshots(objs[w]) = {Nil} /\ orig[w] = Nil
    BY ViewOfOne DEF Init
  <2> QED
    BY <2>1 DEF SentinelMeansAsleep
<1>3. PassInv /\ SentinelMeansAsleep /\ [SettledNext]_vars => SentinelMeansAsleep'
  BY NextSentinel DEF PassInv
<1> QED
  BY <1>1, <1>2, <1>3, PassesKnow, PTL DEF SettledSpec

-----------------------------------------------------------------------------
(* The refinement.                                                        *)

\* The abstract state of a workload.
Same(w) == orig'[w] = orig[w] /\ Shown(w)' = Shown(w) /\ Saved(w)' = Saved(w)

\* A move of ExactRestore, as far as w goes.
Move(w) ==
  \/ /\ Shown(w) # Nil /\ Shown(w) = orig[w] /\ Saved(w) = Nil
     /\ Saved(w)' = orig[w] /\ orig[w] # Nil
     /\ orig' = orig /\ Shown(w)' = Shown(w)
  \/ /\ Saved(w) # Nil /\ Shown(w)' # Nil /\ Shown(w)' # Shown(w)
     /\ orig' = orig /\ Saved(w)' = Saved(w)
  \/ /\ Shown(w) # Nil /\ Shown(w) = orig[w] /\ Saved(w) # Nil
     /\ Saved(w)' = Nil
     /\ orig' = orig /\ Shown(w)' = Shown(w)
  \/ /\ Saved(w) = Nil /\ Shown(w)' # Nil
     /\ orig' = [orig EXCEPT ![w] = Shown(w)'] /\ Saved(w)' = Saved(w)
  \/ /\ Shown(w) # Nil /\ Shown(w)' = Nil /\ Saved(w)' = Nil
     /\ orig' = orig

\* A step that moves one workload and leaves the others alone is a step of
\* ExactRestore.
LEMMA MoveRefines ==
  ASSUME TypeOK, NEW w \in Workloads, Move(w) \/ (orig' = orig /\ Same(w)),
         \A x \in Workloads : x # w => Shown(x)' = Shown(x) /\ Saved(x)' = Saved(x)
  PROVE  [Promise!Next]_(Promise!vars)
<1> DEFINE shown == [x \in Workloads |-> Shown(x)]
           saved == [x \in Workloads |-> Saved(x)]
<1>1. orig \in [Workloads -> {Nil} \cup AnyValue]
  BY DEF TypeOK, HistoryOK
<1>2. /\ \A x \in Workloads : shown[x] = Shown(x) /\ saved[x] = Saved(x)
      /\ \A x \in Workloads : shown'[x] = Shown(x)' /\ saved'[x] = Saved(x)'
  OBVIOUS
<1>3. CASE orig' = orig /\ Same(w)
  <2>1. shown' = shown /\ saved' = saved
    BY <1>3 DEF Same
  <2> QED
    BY <1>3, <2>1 DEF Promise!vars
<1>4. CASE Move(w) /\ ~Same(w)
  <2>1. Promise!About(w)
    BY <1>2, <1>4 DEF Promise!About, Same
  <2>2. Promise!Record(w) \/ Promise!Work(w) \/ Promise!Release(w) \/ Promise!Own(w)
          \/ Promise!Remove(w)
    <3>1. CASE /\ Shown(w) # Nil /\ Shown(w) = orig[w] /\ Saved(w) = Nil
               /\ Saved(w)' = orig[w] /\ orig' = orig /\ Shown(w)' = Shown(w)
      <4>1. shown' = shown /\ saved' = [saved EXCEPT ![w] = orig[w]]
        BY <3>1
      <4> QED
        BY <1>2, <3>1, <4>1 DEF Promise!Record
    <3>2. CASE /\ Saved(w) # Nil /\ Shown(w)' # Nil /\ Shown(w)' # Shown(w)
               /\ orig' = orig /\ Saved(w)' = Saved(w)
      <4>1. saved' = saved /\ \A x \in Workloads : (shown'[x] # shown[x]) <=> (x = w)
        BY <3>2
      <4> QED
        BY <1>2, <3>2, <4>1 DEF Promise!Work
    <3>3. CASE /\ Shown(w) # Nil /\ Shown(w) = orig[w] /\ Saved(w) # Nil
               /\ Saved(w)' = Nil /\ orig' = orig /\ Shown(w)' = Shown(w)
      <4>1. shown' = shown /\ saved' = [saved EXCEPT ![w] = Nil]
        BY <3>3
      <4> QED
        BY <1>2, <3>3, <4>1 DEF Promise!Release
    <3>4. CASE /\ Saved(w) = Nil /\ Shown(w)' # Nil
               /\ orig' = [orig EXCEPT ![w] = Shown(w)'] /\ Saved(w)' = Saved(w)
      <4>1. saved' = saved /\ \A x \in Workloads : x # w => shown'[x] = shown[x]
        BY <3>4
      <4> QED
        BY <1>2, <3>4, <4>1 DEF Promise!Own
    <3>5. CASE /\ Shown(w) # Nil /\ Shown(w)' = Nil /\ Saved(w)' = Nil /\ orig' = orig
      <4>1. shown' = [shown EXCEPT ![w] = Nil] /\ saved' = [saved EXCEPT ![w] = Nil]
        BY <3>5
      <4> QED
        BY <1>2, <3>5, <4>1 DEF Promise!Remove
    <3> QED
      BY <1>4, <3>1, <3>2, <3>3, <3>4, <3>5 DEF Move
  <2> QED
    BY <2>1, <2>2 DEF Promise!Next
<1>5. CASE Move(w) /\ Same(w)
  <2>1. orig' = orig
    BY <1>1, <1>5 DEF Move, Same
  <2> QED
    BY <1>3, <1>5, <2>1
<1> QED
  BY <1>3, <1>4, <1>5

\* All schedules that target w keep its checkpoint in one Secret.
LEMMA SavedEntry ==
  ASSUME OverlapSharesSecret, NEW w \in Workloads
  PROVE  /\ TargetedBy(w) = {} => Saved(w) = Nil /\ Saved(w)' = Nil
         /\ LiveObj(w) = Nil => Saved(w) = Nil
         /\ LiveObj(w)' = Nil => Saved(w)' = Nil
         /\ \A s \in TargetedBy(w) :
              /\ LiveObj(w) # Nil => Saved(w) = LiveEntry(s, w, LiveObj(w).uid)
              /\ LiveObj(w)' # Nil => Saved(w)' = LiveEntry(s, w, LiveObj(w).uid)'
<1>1. \A s \in TargetedBy(w) : Keeper[w] = SecretOf[s]
  BY DEF Keeper, OverlapSharesSecret
<1> QED
  BY <1>1 DEF Saved, LiveEntry

\* What is saved is the original; without it the workload shows the original.
LEMMA SavedOrShown ==
  ASSUME OverlapSharesSecret, Inv, NEW w \in Workloads, LiveObj(w) # Nil
  PROVE  /\ Shown(w) = Captured(Kind[w], LiveObj(w).val) /\ Shown(w) # Nil
         /\ orig[w] # Nil /\ Saved(w) \in {Nil, orig[w]}
         /\ Saved(w) = Nil => Shown(w) = orig[w]
         /\ Engaged(w, LiveObj(w).uid) <=> Saved(w) # Nil
<1>1. Shown(w) = Captured(Kind[w], LiveObj(w).val) /\ Shown(w) # Nil
  BY LiveObjTypes, CapturedIsValue, ValuesAreNotNil DEF Shown, Inv
<1>2. Engaged(w, LiveObj(w).uid) <=> Saved(w) # Nil
  BY SavedEntry DEF Engaged
<1> QED
  BY <1>1, <1>2, SavedEntry DEF Engaged, Inv, ClusterKnows, Recoverable

-----------------------------------------------------------------------------
(* The steps.                                                              *)

\* A step that writes nothing is a stutter.
LEMMA NoWriteRefines ==
  ASSUME OverlapSharesSecret, NoWrite
  PROVE  UNCHANGED Promise!vars
<1>1. \A w \in Workloads : Shown(w)' = Shown(w) /\ Saved(w)' = Saved(w)
  <2> SUFFICES ASSUME NEW w \in Workloads
               PROVE  Shown(w)' = Shown(w) /\ Saved(w)' = Saved(w)
    OBVIOUS
  <2>1. LiveObj(w)' = LiveObj(w)
    BY DEF NoWrite
  <2>2. \A s \in TargetedBy(w) :
          LiveEntry(s, w, LiveObj(w).uid)' = LiveEntry(s, w, LiveObj(w).uid)
    BY <2>1 DEF NoWrite, LiveEntry, TargetedBy
  <2> QED
    BY <2>1, <2>2, SavedEntry DEF Shown
<1> QED
  BY <1>1 DEF NoWrite, Promise!vars

\* SetRaw records what the owner wants.
LEMMA SetRawRefines ==
  ASSUME OverlapSharesSecret, Inv, SetRaw
  PROVE  [Promise!Next]_(Promise!vars)
<1>1. pc = "set" /\ pc \in Holding /\ UNCHANGED <<objs, lastUid, orig>>
  BY DEF SetRaw, Holding
<1>2. CASE secrets' = secrets
  BY <1>1, <1>2, UntouchedCluster, NoWriteRefines
<1>3. ASSUME NEW new \in Secrets,
             new = WithEntry(Live(secret), ref, obj.uid, Captured(Kind[ref], obj.val)),
             secrets' = [secrets EXCEPT ![SecretOf[cur]] = Commit(secret, new)],
             Live(secret)[ref][obj.uid] = Nil
      PROVE  [Promise!Next]_(Promise!vars)
  <2>1. PICK r \in Workloads, s \in Schedules : r = ref /\ s = cur
    BY <1>1, AtHand DEF Inv, TypeOK, WorkerOK
  <2>2. /\ s \in TargetedBy(r) /\ secret = secrets[SecretOf[s]] /\ Live(secret) \in Secrets
        /\ obj.uid \in Uids /\ Captured(Kind[r], obj.val) \in {Nil} \cup Values(Kind[r])
        /\ pc \in Holding /\ dir = "asleep"
    BY <1>1, <2>1, AtHand, WrittenSecrets DEF Inv, TypeOK, WorkerOK, secret
  <2>3. \A x \in Workloads : LiveObj(x)' = LiveObj(x)
                          /\ (LiveObj(x) # Nil => LiveObj(x).uid \in Uids)
    BY <1>1, LiveObjTypes DEF LiveObj, Inv
  <2>4. \A t \in Schedules, x \in Workloads, u \in Uids :
          LiveEntry(t, x, u)' = IF SecretOf[t] = SecretOf[s] THEN new[x][u]
                                                             ELSE LiveEntry(t, x, u)
    <3>1. \A t \in Schedules :
            /\ SecretOf[t] = SecretOf[s] => Live(secrets'[SecretOf[t]]) = new
            /\ SecretOf[t] # SecretOf[s] => secrets'[SecretOf[t]] = secrets[SecretOf[t]]
      BY <1>3, <2>1, SecretWritten DEF Inv
    <3> QED
      BY <3>1 DEF LiveEntry
  <2>5. \A t \in Schedules, x \in Workloads, u \in Uids :
          (SecretOf[t] = SecretOf[s] /\ x # r) => new[x][u] = LiveEntry(t, x, u)
    <3>1. \A x \in Workloads, u \in Uids : x # r => new[x][u] = Live(secret)[x][u]
      BY <1>3, <2>1, <2>2, SecretEntries
    <3> QED
      BY <2>2, <3>1 DEF LiveEntry
  <2>6. ASSUME NEW x \in Workloads, x # r
        PROVE  Shown(x)' = Shown(x) /\ Saved(x)' = Saved(x)
    BY <2>3, <2>4, <2>5, <2>6, SavedEntry DEF Shown, TargetedBy
  <2>7. CASE LiveObj(r) = Nil
    <3>1. Same(r)
      BY <1>1, <2>3, <2>7, SavedEntry DEF Same, Shown
    <3> QED
      BY <1>1, <2>6, <3>1, MoveRefines DEF Inv
  <2>8. CASE LiveObj(r) # Nil
    <3>1. obj.uid = LiveObj(r).uid /\ LiveEntry(s, r, LiveObj(r).uid) = Nil
      BY <1>1, <1>3, <2>1, <2>8 DEF Inv, WorkerKnows, LiveEntry, secret
    <3>2. Captured(Kind[r], obj.val) = orig[r]
      BY <1>1, <2>1, <2>2, <2>8, <3>1 DEF Inv, WorkerKnows
    <3>3. new[r][LiveObj(r).uid] = orig[r]
      BY <1>3, <2>1, <2>2, <3>1, <3>2, SecretEntries
    <3>4. LiveEntry(s, r, LiveObj(r).uid)' = orig[r]
      BY <2>3, <2>4, <2>8, <3>3 DEF LiveEntry
    <3>5. Saved(r) = Nil /\ Saved(r)' = orig[r]
      BY <2>2, <2>3, <2>8, <3>1, <3>4, SavedEntry
    <3>6. Move(r)
      BY <1>1, <2>3, <2>8, <3>5, SavedOrShown DEF Move, Shown
    <3> QED
      BY <2>6, <3>6, MoveRefines DEF Inv
  <2> QED
    BY <2>7, <2>8
<1> QED
  BY <1>2, <1>3, SetRawEffect DEF Inv

\* Patch works on a workload whose original is saved, or changes nothing that
\* shows: Sleep comes after SetRaw, and a Restore that finds no live entry finds
\* the original.
LEMMA PatchRefines ==
  ASSUME OverlapSharesSecret, Inv, Patch
  PROVE  [Promise!Next]_(Promise!vars)
<1>1. pc = "patch" /\ pc \in Holding /\ UNCHANGED <<secrets, lastUid, orig>>
  BY DEF Patch, Holding
<1>2. CASE objs' = objs
  BY <1>1, <1>2, UntouchedCluster, NoWriteRefines
<1>3. ASSUME LiveObj(ref) # Nil, NEW version \in Versions(ref),
             objs' = [objs EXCEPT ![ref] = CommitChange(objs[ref], version)],
             version # Nil, version.uid = LiveObj(ref).uid,
             version.val = MergePatch(Kind[ref], LiveObj(ref).val, obj.val, Want)
      PROVE  [Promise!Next]_(Promise!vars)
  <2>1. PICK r \in Workloads, s \in Schedules : r = ref /\ s = cur
    BY <1>1, AtHand DEF Inv, TypeOK, WorkerOK
  <2>2. /\ LiveObj(r)' = version
        /\ \A x \in Workloads : x # r => LiveObj(x)' = LiveObj(x)
    BY <1>3, <2>1, ObjWritten DEF Inv
  <2>3. \A x \in Workloads : /\ LiveObj(x)' = Nil <=> LiveObj(x) = Nil
                             /\ LiveObj(x)'.uid = LiveObj(x).uid
    BY <1>3, <2>1, <2>2
  <2>4. \A x \in Workloads : Saved(x)' = Saved(x)
    BY <1>1, <2>3 DEF Saved
  <2>5. \A x \in Workloads : x # r => Shown(x)' = Shown(x)
    BY <2>2 DEF Shown
  <2>6. /\ Kind[r] \in Kinds /\ LiveObj(r).val \in Values(Kind[r])
        /\ obj.val \in Values(Kind[r]) /\ Want \in Values(Kind[r])
        /\ s \in TargetedBy(r) /\ obj.uid = LiveObj(r).uid /\ dir \in Directions
    BY <1>1, <1>3, <2>1, AtHand, LiveObjTypes, WantIsValue
       DEF Inv, TypeOK, WorkerOK, WorkerKnows
  <2>7. Shown(r)' = Captured(Kind[r], version.val) /\ Shown(r)' # Nil
    <3>1. version.val \in Values(Kind[r])
      BY <1>3, <2>1, <2>6, MergePatchIsValue
    <3> QED
      BY <1>3, <2>2, <2>6, <3>1, CapturedIsValue, ValuesAreNotNil DEF Shown
  <2>8. Saved(r) = Nil => Shown(r)' = Shown(r)
    <3> SUFFICES ASSUME Saved(r) = Nil
                 PROVE  Captured(Kind[r], version.val) = orig[r]
      BY <1>3, <2>1, <2>7, SavedOrShown
    <3>1. LiveEntry(s, r, obj.uid) = Nil
      BY <1>3, <2>1, <2>6, SavedEntry
    <3>2. dir = "awake" /\ val = orig[r] /\ Want = val
      BY <1>1, <1>3, <2>1, <2>6, <3>1 DEF Inv, WorkerKnows, Directions, Want
    <3>3. /\ Captured(Kind[r], orig[r]) = orig[r]
          /\ Captured(Kind[r], LiveObj(r).val) = orig[r]
      BY <1>3, <2>1, SavedOrShown DEF Inv, ClusterKnows, Recoverable
    <3> QED
      BY <1>3, <2>1, <2>6, <3>2, <3>3, RestorePatch
  <2>9. Move(r) \/ (orig' = orig /\ Same(r))
    BY <1>1, <2>4, <2>7, <2>8 DEF Move, Same
  <2> QED
    BY <2>4, <2>5, <2>9, MoveRefines DEF Inv
<1> QED
  BY <1>2, <1>3, PatchEffect DEF Inv

\* Delete releases a workload that shows the original, and no other.
LEMMA DeleteRefines ==
  ASSUME OverlapSharesSecret, Inv, Delete
  PROVE  [Promise!Next]_(Promise!vars)
<1>1. pc = "delete" /\ pc \in Holding /\ UNCHANGED <<objs, lastUid, orig>>
  BY DEF Delete, Holding
<1>2. CASE secrets' = secrets
  BY <1>1, <1>2, UntouchedCluster, NoWriteRefines
<1>3. ASSUME NEW new \in Secrets,
             secrets' = [secrets EXCEPT ![SecretOf[cur]] = CommitChange(secret, new)],
             \/ new = WithEntry(Live(secret), ref, obj.uid, Nil)
             \/ /\ new = NoSecret
                /\ WithEntry(Cached(secret), ref, obj.uid, Nil) = NoSecret
      PROVE  [Promise!Next]_(Promise!vars)
  <2>1. PICK r \in Workloads, s \in Schedules : r = ref /\ s = cur
    BY <1>1, AtHand DEF Inv, TypeOK, WorkerOK
  <2>2. s \in TargetedBy(r)
    BY <1>1, <2>1, AtHand DEF Inv
  <2>3. \A x \in Workloads : /\ LiveObj(x)' = LiveObj(x)
                             /\ LiveObj(x) # Nil => LiveObj(x).uid \in Uids
    BY <1>1, LiveObjTypes DEF LiveObj, Inv
  <2>4. \A t \in Schedules, x \in Workloads, u \in Uids :
          LiveEntry(t, x, u)' = IF SecretOf[t] = SecretOf[s] THEN new[x][u]
                                                             ELSE LiveEntry(t, x, u)
    <3>1. \A t \in Schedules :
            /\ SecretOf[t] = SecretOf[s] => Live(secrets'[SecretOf[t]]) = new
            /\ SecretOf[t] # SecretOf[s] => secrets'[SecretOf[t]] = secrets[SecretOf[t]]
      BY <1>3, <2>1, SecretWritten DEF Inv
    <3> QED
      BY <3>1 DEF LiveEntry
  <2>5. /\ new[r][obj.uid] = Nil
        /\ \A x \in Workloads : \A t \in TargetedBy(x) :
             (LiveObj(x) # Nil /\ SecretOf[t] = SecretOf[s] /\ x # r) =>
               new[x][LiveObj(x).uid] = LiveEntry(t, x, LiveObj(x).uid)
    BY <1>3, <2>1, DeleteSparesOthers
  <2>6. ASSUME NEW x \in Workloads, x # r
        PROVE  Shown(x)' = Shown(x) /\ Saved(x)' = Saved(x)
    <3>1. \A t \in TargetedBy(x) : LiveObj(x) # Nil =>
            LiveEntry(t, x, LiveObj(x).uid)' = LiveEntry(t, x, LiveObj(x).uid)
      BY <2>3, <2>4, <2>5, <2>6 DEF TargetedBy, LiveEntry
    <3> QED
      BY <2>3, <3>1, SavedEntry DEF Shown
  <2>7. CASE LiveObj(r) = Nil
    <3>1. Same(r)
      BY <1>1, <2>3, <2>7, SavedEntry DEF Same, Shown
    <3> QED
      BY <1>1, <2>6, <3>1, MoveRefines DEF Inv
  <2>8. CASE LiveObj(r) # Nil
    <3>1. obj.uid = LiveObj(r).uid /\ Captured(Kind[r], LiveObj(r).val) = orig[r]
      BY <1>1, <2>1, <2>8 DEF Inv, WorkerKnows
    <3>2. LiveEntry(s, r, LiveObj(r).uid)' = Nil
      BY <2>3, <2>4, <2>5, <2>8, <3>1 DEF LiveEntry
    <3>3. Saved(r)' = Nil /\ Shown(r)' = Shown(r)
      BY <2>2, <2>3, <2>8, <3>2, SavedEntry DEF Shown
    <3>4. Move(r) \/ (orig' = orig /\ Same(r))
      BY <1>1, <2>8, <3>1, <3>3, SavedOrShown DEF Move, Same
    <3> QED
      BY <2>6, <3>4, MoveRefines DEF Inv
  <2> QED
    BY <2>7, <2>8
<1> QED
  BY <1>2, <1>3, DeleteEffect DEF Inv

\* What owners do between passes: edit or create a workload that nobody put to
\* sleep, work on one that somebody did, or delete one.
LEMMA OwnersRefine ==
  ASSUME OverlapSharesSecret, Inv, Owners
  PROVE  [Promise!Next]_(Promise!vars)
<1>1. PICK w \in Workloads :
        \/ \E v \in OwnerValues[w] : Edit(w, v) \/ Create(w, v)
        \/ ToggleUnsafe(w) \/ DeleteObj(w)
  BY DEF Owners
<1>2. /\ LiveObj(w) \in Versions(w) /\ OwnerValues[w] \subseteq Values(Kind[w])
      /\ Kind[w] \in Kinds /\ lastUid[w] \in Nat /\ MaxUid \in Nat
  <2>1. lastUid[w] \in 0 .. MaxUid /\ MaxUid \in Nat
    BY SleeperAssumption DEF Inv, TypeOK, ClusterOK
  <2> QED
    BY <2>1, LiveObjTypes, SleeperAssumption DEF Inv
<1>3. ASSUME NEW version \in Versions(w),
             objs' = [objs EXCEPT ![w] = Commit(objs[w], version)], secrets' = secrets
      PROVE  /\ LiveObj(w)' = version
             /\ \A x \in Workloads : x # w => Shown(x)' = Shown(x) /\ Saved(x)' = Saved(x)
  <2>1. /\ LiveObj(w)' = version
        /\ \A x \in Workloads : x # w => LiveObj(x)' = LiveObj(x)
    BY <1>3, ObjWritten DEF Inv
  <2> QED
    BY <1>3, <2>1 DEF Shown, Saved
<1>4. ASSUME NEW v \in OwnerValues[w], Edit(w, v)
      PROVE  [Promise!Next]_(Promise!vars)
  <2> DEFINE version == [LiveObj(w) EXCEPT !.val = v]
  <2>1. LiveObj(w) \in Objects(Values(Kind[w])) /\ LiveObj(w) # Nil
    BY <1>2, <1>4 DEF Edit, Versions
  <2>2. /\ version \in Objects(Values(Kind[w])) /\ version.val = v
        /\ version.uid = LiveObj(w).uid
    BY <1>2, <2>1 DEF Objects
  <2>3. version \in Versions(w) /\ version # Nil
    BY <1>2, <2>2, ObjectsAreNotNil DEF Versions
  <2>4. /\ objs' = [objs EXCEPT ![w] = Commit(objs[w], version)] /\ secrets' = secrets
        /\ orig' = IF Engaged(w, version.uid) THEN orig
                   ELSE [orig EXCEPT ![w] = Captured(Kind[w], version.val)]
    BY <1>4 DEF Edit, OwnerWrite
  <2> HIDE DEF version
  <2>5. LiveObj(w)' = version
    BY <1>3, <2>3, <2>4
  <2>6. Shown(w)' = Captured(Kind[w], version.val) /\ Shown(w)' # Nil
    BY <1>2, <2>2, <2>3, <2>5, CapturedIsValue, ValuesAreNotNil DEF Shown
  <2>7. Saved(w)' = Saved(w)
    BY <2>1, <2>2, <2>3, <2>4, <2>5 DEF Saved
  <2>8. Engaged(w, version.uid) <=> Saved(w) # Nil
    BY <2>1, <2>2, SavedOrShown
  <2>9. Move(w) \/ (orig' = orig /\ Same(w))
    BY <2>4, <2>6, <2>7, <2>8 DEF Move, Same
  <2> QED
    BY <1>3, <2>3, <2>4, <2>9, MoveRefines DEF Inv
<1>5. ASSUME NEW v \in OwnerValues[w], Create(w, v)
      PROVE  [Promise!Next]_(Promise!vars)
  <2> DEFINE version == [uid |-> lastUid[w] + 1, val |-> v, unsafe |-> FALSE]
  <2>1. /\ version \in Objects(Values(Kind[w])) /\ version.val = v
        /\ version.uid = lastUid[w] + 1 /\ version.uid \in Uids /\ LiveObj(w) = Nil
    BY <1>2, <1>5 DEF Create, Objects, Uids
  <2>2. version \in Versions(w) /\ version # Nil
    BY <1>2, <2>1, ObjectsAreNotNil DEF Versions
  <2>3. /\ objs' = [objs EXCEPT ![w] = Commit(objs[w], version)] /\ secrets' = secrets
        /\ orig' = IF Engaged(w, version.uid) THEN orig
                   ELSE [orig EXCEPT ![w] = Captured(Kind[w], version.val)]
    BY <1>5 DEF Create, OwnerWrite
  <2> HIDE DEF version
  <2>4. LiveObj(w)' = version
    BY <1>3, <2>2, <2>3
  <2>5. Shown(w)' = Captured(Kind[w], version.val) /\ Shown(w)' # Nil
    BY <1>2, <2>1, <2>2, <2>4, CapturedIsValue, ValuesAreNotNil DEF Shown
  <2>6. \A s \in TargetedBy(w) : LiveEntry(s, w, version.uid) = Nil
    <3> SUFFICES ASSUME NEW s \in TargetedBy(w)
                 PROVE  LiveEntry(s, w, version.uid) = Nil
      OBVIOUS
    <3>1. s \in Schedules /\ Live(secrets[SecretOf[s]]) \in SecretSnapshots(s)
      BY EntryTypes DEF Inv, TargetedBy
    <3> QED
      BY <1>2, <2>1, <3>1 DEF Inv, ClusterKnows, UidsGivenOut, LiveEntry
  <2>7. ~Engaged(w, version.uid)
    BY <2>6 DEF Engaged
  <2>8. Saved(w) = Nil /\ Saved(w)' = Nil
    <3>1. \A s \in TargetedBy(w) : LiveEntry(s, w, LiveObj(w).uid)' = Nil
      BY <2>3, <2>4, <2>6 DEF LiveEntry
    <3> QED
      BY <2>1, <2>2, <2>4, <3>1, SavedEntry
  <2>9. Move(w)
    BY <2>3, <2>5, <2>7, <2>8 DEF Move
  <2> QED
    BY <1>3, <2>2, <2>3, <2>9, MoveRefines DEF Inv
<1>6. CASE ToggleUnsafe(w)
  <2> DEFINE version == [LiveObj(w) EXCEPT !.unsafe = ~LiveObj(w).unsafe]
  <2>1. LiveObj(w) \in Objects(Values(Kind[w])) /\ LiveObj(w) # Nil
    BY <1>2, <1>6 DEF ToggleUnsafe, Versions
  <2>2. /\ version \in Objects(Values(Kind[w])) /\ version.val = LiveObj(w).val
        /\ version.uid = LiveObj(w).uid
    BY <2>1 DEF Objects
  <2>3. version \in Versions(w) /\ version # Nil
    BY <1>2, <2>2, ObjectsAreNotNil DEF Versions
  <2>4. /\ objs' = [objs EXCEPT ![w] = Commit(objs[w], version)]
        /\ UNCHANGED <<secrets, orig>>
    BY <1>6 DEF ToggleUnsafe
  <2> HIDE DEF version
  <2>5. LiveObj(w)' = version
    BY <1>3, <2>3, <2>4
  <2>6. orig' = orig /\ Same(w)
    BY <2>1, <2>2, <2>3, <2>4, <2>5 DEF Same, Shown, Saved
  <2> QED
    BY <1>3, <2>3, <2>4, <2>6, MoveRefines DEF Inv
<1>7. CASE DeleteObj(w)
  <2>1. /\ objs' = [objs EXCEPT ![w] = Commit(objs[w], Nil)] /\ UNCHANGED <<secrets, orig>>
        /\ Nil \in Versions(w) /\ LiveObj(w) # Nil
    BY <1>7 DEF DeleteObj, Versions
  <2>2. LiveObj(w)' = Nil
    BY <1>3, <2>1
  <2>3. Move(w)
    BY <2>1, <2>2, SavedOrShown, SavedEntry DEF Move, Shown
  <2> QED
    BY <1>3, <2>1, <2>3, MoveRefines DEF Inv
<1> QED
  BY <1>1, <1>4, <1>5, <1>6, <1>7

-----------------------------------------------------------------------------

\* Every step of Sleeper is a step of ExactRestore or a stutter.
LEMMA NextRefines ==
  ASSUME OverlapSharesSecret, Inv, [SettledNext]_vars
  PROVE  [Promise!Next]_(Promise!vars)
<1>1. CASE Worker /\ ~SetRaw /\ ~Patch /\ ~Delete
  <2>1. UNCHANGED <<objs, secrets, lastUid, orig>>
    BY <1>1 DEF Worker, Begin, Guard, Load, SleepGet, RestoreGet, PatchMissing,
                ReturnError, Drop, Finish, cluster
  <2> QED
    BY <2>1, UntouchedCluster, NoWriteRefines
<1>2. CASE Faults \/ Control \/ UNCHANGED vars
  <2>1. UNCHANGED <<objs, secrets, lastUid, orig>>
    BY <1>2 DEF Faults, Fail, Crash, ReturnError, Drop, Control, Flip, ToggleDryRun,
                Enqueue, vars, cluster
  <2> QED
    BY <2>1, UntouchedCluster, NoWriteRefines
<1>3. CASE Deliver
  BY <1>3, DeliverWritesNothing, NoWriteRefines DEF Inv
<1> QED
  BY <1>1, <1>2, <1>3, SetRawRefines, PatchRefines, DeleteRefines, OwnersRefine
     DEF SettledNext, Next

\* "On wake, that exact state is restored and the checkpoint entry cleared"
\* (user-guide.md): at the settled pace every write of a pass records what the
\* owner wants, works on a workload whose original is saved, or releases one that
\* shows its original, whatever the cache held and wherever earlier passes stopped.
THEOREM SleeperImplementsExactRestore ==
  ASSUME OverlapSharesSecret
  PROVE  SettledSpec => ImplementsExactRestore
<1>1. Init => Promise!Init
  <2> SUFFICES ASSUME Init
               PROVE  Promise!Init
    OBVIOUS
  <2>1. \A w \in Workloads : LiveObj(w) = Nil
    BY ViewOfOne DEF Init, LiveObj
  <2>2. \A w \in Workloads : Shown(w) = Nil /\ Saved(w) = Nil
    BY <2>1 DEF Shown, Saved
  <2> QED
    BY <2>2 DEF Init, Promise!Init
<1>2. Inv /\ [SettledNext]_vars => [Promise!Next]_(Promise!vars)
  BY NextRefines
<1>3. Inv /\ [SettledNext]_vars => Inv'
  BY NextInv
<1> QED
  BY <1>1, <1>2, <1>3, InitInv, PTL DEF SettledSpec, ImplementsExactRestore, Promise!Spec
=============================================================================
